------------------------------- MODULE MCSeeds -------------------------------
(***************************************************************************)
(* The seeding of Ordering, Catalog and Identity for TLC: a variable that  *)
(* keeps its value says whose instances are started.  Three instances seed *)
(* the small tables of Ordering, two the catalog or the users.             *)
(***************************************************************************)
EXTENDS OrderingSeed, MCGoods, FiniteSets

CONSTANTS Size, Block, Items, Policies, None

VARIABLES
    service,     \* whose instances these are
    cDeployment, cPc, cGaveUp, cFaults,    \* the variables of CatalogSeed
    cMigrated, rows, items, block, cTable, cPending, pics, overlapped,
    retryMigrations, iPc, name, tracked, users, iFaults    \* of IdentitySeed

catalog  == <<cDeployment, cPc, cGaveUp, cFaults, cMigrated, rows, items, block, cTable,
              cPending, pics, overlapped>>
identity == <<retryMigrations, iPc, name, tracked, users, iFaults>>
mcvars   == <<vars, catalog, identity, service>>

C == INSTANCE CatalogSeed
        WITH deployment <- cDeployment, pc <- cPc, gaveUp <- cGaveUp, faults <- cFaults,
             migrated <- cMigrated, table <- cTable, pending <- cPending

I == INSTANCE IdentitySeed WITH pc <- iPc, faults <- iFaults

ASSUME CatalogAssumption == C!SeedAssumption

ASSUME UsersAssumption == I!IdentityAssumption

\* Some item of each source can be filed.
ASSUME SourcesAssumption ==
    \A d \in Deployments : \E i \in Items :
        i.file = d.useFile /\ i.brand \in 1 .. Size /\ i.type \in 1 .. Size

Pair == CHOOSE s \in SUBSET Instances : Cardinality(s) = 2

\* Whose instances are started fixes the settings of the others.
MCInit ==
    /\ Init /\ C!Init /\ I!Init
    /\ service \in {"catalog", "ordering", "identity"}
    /\ service # "ordering" => ~deployment.underK8s
    /\ service # "catalog" => ~cDeployment.underK8s /\ ~cDeployment.useFile
    /\ service # "identity" => ~retryMigrations
    /\ ~deployment.useFile    \* no setting of Ordering

CatalogStep(p, A) ==
    service = "catalog" /\ p \in Pair /\ A /\ UNCHANGED <<vars, identity, service>>
OrderingStep(p, A) == service = "ordering" /\ A /\ UNCHANGED <<catalog, identity, service>>
IdentityStep(p, A) ==
    service = "identity" /\ p \in Pair /\ A /\ UNCHANGED <<vars, catalog, service>>

\* Failures and crashes: two for the catalog, three for Ordering and Identity.
MCNext ==
    \E p \in Instances :
       \/ CatalogStep(p, C!Start(p)) \/ CatalogStep(p, C!SeedAsync(p))
       \/ CatalogStep(p, C!Interrupted(p)) /\ cFaults' <= 2
       \/ OrderingStep(p, Start(p)) \/ OrderingStep(p, SeedAsync(p))
       \/ OrderingStep(p, Interrupted(p))
       \/ IdentityStep(p, I!Start(p)) \/ IdentityStep(p, I!EnsureSeedData(p))
       \/ IdentityStep(p, I!Fails(p)) \/ IdentityStep(p, I!Stop(p))

\* Seeders keep running; pods, and instances of Identity, that ended are started again.
MCSpec ==
    /\ MCInit /\ [][MCNext]_mcvars
    /\ \A p \in Instances :
         /\ WF_mcvars(CatalogStep(p, C!SeedAsync(p)))
         /\ WF_mcvars(CatalogStep(p, C!UnderK8s /\ C!Start(p)))
         /\ WF_mcvars(OrderingStep(p, SeedAsync(p)))
         /\ WF_mcvars(OrderingStep(p, UnderK8s /\ Start(p)))
         /\ WF_mcvars(IdentityStep(p, I!EnsureSeedData(p)))
         /\ WF_mcvars(IdentityStep(p, I!Start(p)))

CatalogExplained == C!CatalogExplained
StaysBroken      == C!StaysBroken

ServesBoth       == I!ServesBoth
StuckStaysStuck  == I!StuckStaysStuck

\* Without the policy, restarts take care of failures (SeedData.CreateRetryPolicy).
RestartsRecover  == service = "identity" => \A p \in Pair : I!Recovers(p)

\* Every start comes to an end; pods of Ordering recover.
StartsEnd == C!StartEnds /\ (service = "ordering" => AllPodsRecover)
=============================================================================

----------------------------- MODULE CatalogSeed ----------------------------
(***************************************************************************)
(* CatalogContextSeed.SeedAsync: brands, types and items are each inserted *)
(* if their table is empty, in three saves; then the pictures on disk are  *)
(* replaced.  Ids come from HiLo sequences, blocks of which are drawn when *)
(* rows are added, before they are saved; the preconfigured items refer to *)
(* brands and types by fixed ids, the items of a file by names.            *)
(*                                                                         *)
(* A brand or a type is named by its place in the list that is inserted,   *)
(* which is also its id in the first block.                                *)
(***************************************************************************)
EXTENDS SeedHost

CONSTANTS
    Size,      \* brands to insert, and types
    Block,     \* ids in a block of a sequence (10 in the migrations)
    Items      \* the items to insert, in a file or preconfigured: records of
               \* the source, a name, a brand and a type

\* Assumed of these constants, where the module is instantiated.  The ids that
\* preconfigured items are written with are of the first block.
SeedAssumption ==
    /\ Size \in Nat /\ Block \in Nat /\ Size <= Block
    /\ \A i \in Items :
          /\ i.file \in BOOLEAN /\ i.brand \in Nat /\ i.type \in Nat
          /\ ~i.file => i.brand <= Block /\ i.type <= Block
    /\ \A i, j \in Items : i.file = j.file /\ i.name = j.name => i = j
    /\ \A d \in Deployments : d.useFile \in BOOLEAN

VARIABLES
    migrated,    \* the tables exist
    rows,        \* tables CatalogBrand and CatalogType
    items,       \* table Catalog
    block,       \* sequence -> number of blocks drawn
    table,       \* the table each instance is at
    pending,     \* rows added to the context of each instance, not saved
    pics,        \* the pictures each instance has on disk
    overlapped   \* (history) tables that two instances found empty at once

dbVars == <<migrated, rows, items, block>>
vars   == <<hostVars, dbVars, table, pending, pics, overlapped>>

\* UseCustomizationData, with the files in place.
UseFile == deployment.useFile

\* The items of the deployment.
Source == {i \in Items : i.file = UseFile}

Lookups == {"brands", "types"}

Init ==
    /\ HostInit
    /\ migrated = FALSE
    /\ rows = {}
    /\ items = {}
    /\ block = [t \in Lookups |-> 0]
    /\ table = [p \in Instances |-> "brands"]
    /\ pending = [p \in Instances |-> {}]
    /\ pics = [p \in Instances |-> "shipped"]
    /\ overlapped = {}

Contents(t) == IF t = "items" THEN items ELSE {r \in rows : r.table = t}
Named(t, n) == {r \in Contents(t) : r.name = n}
Ids(t)      == {r.id : r \in Contents(t)}

\* Two rows of a table have the same name.
Doubled(t) == \E r, s \in Contents(t) : r # s /\ r.name = s.name

-----------------------------------------------------------------------------
\* Mutant: the sequence starts at 0.
FreshFromZero(t) ==
    {[table |-> t, id |-> block[t] * Block + n - 1, name |-> n] : n \in 1 .. Size}

\* The rows AddRange adds: the ids of a block drawn from the sequence.
Fresh(t) ==
    {[table |-> t, id |-> block[t] * Block + n, name |-> n] : n \in 1 .. Size}

\* The items to insert: ids as written, or looked up by name; a line of the
\* file that names an unknown brand or type is logged and left out.
FileItems(p) ==
    {[name |-> x[1].name, brand |-> x[2].id, type |-> x[3].id, by |-> p] :
        x \in {y \in Source \X Contents("brands") \X Contents("types") :
                  y[2].name = y[1].brand /\ y[3].name = y[1].type}}

PreconfiguredItems(p) ==
    {[name |-> i.name, brand |-> i.brand, type |-> i.type, by |-> p] : i \in Source}

\* Mutant: the lookups are built with GroupBy.
NoLookup == FALSE

\* ToDictionary throws if a name occurs twice.
LookupThrows == UseFile /\ \E t \in Lookups : Doubled(t)

\* Mutant: foreign keys are not declared.
ReferentialNever(p) == TRUE

\* The foreign keys of the items to be saved.
Referential(p) ==
    table[p] = "items" =>
        \A i \in pending[p] : i.brand \in Ids("brands") /\ i.type \in Ids("types")

\* What the operation an instance is at does to the database.
Applied(p) ==
    /\ migrated' = (migrated \/ pc[p] = "migrate")
    /\ block' = IF pc[p] = "add" /\ table[p] \in Lookups
                THEN [block EXCEPT ![table[p]] = @ + 1] ELSE block
    /\ rows' = IF pc[p] = "save" /\ table[p] \in Lookups
               THEN rows \cup pending[p] ELSE rows
    /\ items' = IF pc[p] = "save" /\ table[p] = "items" /\ Referential(p)
                THEN items \cup pending[p] ELSE items

\* Continue with the next table, or serve after the last one.
NextTable(p) ==
    IF table[p] = "items" THEN Goto(p, "running") /\ UNCHANGED table
    ELSE /\ Goto(p, "check")
         /\ table' = [table EXCEPT ![p] = IF @ = "brands" THEN "types" ELSE "items"]

\* A pod is a new container with the pictures of the image; elsewhere the
\* container keeps its disk.
Start(p) ==
    /\ Begin(p, "migrate")
    /\ table' = [table EXCEPT ![p] = "brands"]
    /\ pics' = IF UnderK8s THEN [pics EXCEPT ![p] = "shipped"] ELSE pics
    /\ UNCHANGED <<dbVars, pending, overlapped>>

Migrate(p) ==
    /\ pc[p] = "migrate"
    /\ Applied(p)
    /\ Goto(p, "check")
    /\ UNCHANGED <<table, pending, pics, overlapped>>

\* Mutant: the table is not looked at.
CheckNothing(p) ==
    /\ pc[p] = "check"
    /\ Goto(p, "add") /\ UNCHANGED <<table, overlapped>>
    /\ UNCHANGED <<dbVars, pending, pics>>

\* Mutant: a catalog with brands is taken for seeded.
CheckBrands(p) ==
    /\ pc[p] = "check"
    /\ Goto(p, IF Contents(table[p]) = {} THEN "add" ELSE "running")
    /\ UNCHANGED <<dbVars, table, pending, pics, overlapped>>

\* Mutant: the pictures are replaced at every start.
CheckPictures(p) ==
    /\ pc[p] = "check"
    /\ IF Contents(table[p]) = {} THEN Goto(p, "add") /\ UNCHANGED table
       ELSE IF table[p] = "items" THEN Goto(p, "delete") /\ UNCHANGED table
       ELSE NextTable(p)
    /\ UNCHANGED <<dbVars, pending, pics, overlapped>>

\* if (!context.CatalogBrands.Any()), and so on.
Check(p) ==
    /\ pc[p] = "check"
    /\ \/ /\ Contents(table[p]) = {}
          /\ Goto(p, "add")
          /\ overlapped' = IF \E q \in Instances \ {p} :
                                 table[q] = table[p] /\ pc[q] \in {"add", "save"}
                           THEN overlapped \cup {table[p]} ELSE overlapped
          /\ UNCHANGED table
       \/ /\ Contents(table[p]) # {}
          /\ NextTable(p)
          /\ UNCHANGED overlapped
    /\ UNCHANGED <<dbVars, pending, pics>>

AddLookup(p) ==
    /\ pc[p] = "add" /\ table[p] \in Lookups
    /\ Applied(p)
    /\ pending' = [pending EXCEPT ![p] = Fresh(table[p])]
    /\ Goto(p, "save")
    /\ UNCHANGED <<table, pics, overlapped>>

AddItems(p) ==
    /\ pc[p] = "add" /\ table[p] = "items"
    /\ \/ LookupThrows /\ GiveUp(p) /\ UNCHANGED pending
       \/ /\ ~LookupThrows
          /\ pending' = [pending EXCEPT ![p] =
                            IF UseFile THEN FileItems(p) ELSE PreconfiguredItems(p)]
          /\ Goto(p, "save")
    /\ UNCHANGED <<dbVars, table, pics, overlapped>>

\* A foreign key that does not hold is a DbUpdateException.
Save(p) ==
    /\ pc[p] = "save"
    /\ Applied(p)
    /\ pending' = [pending EXCEPT ![p] = {}]
    /\ IF ~Referential(p) THEN GiveUp(p) /\ UNCHANGED table
       ELSE IF table[p] = "items" THEN Goto(p, "delete") /\ UNCHANGED table
       ELSE NextTable(p)
    /\ UNCHANGED <<pics, overlapped>>

\* GetCatalogItemPictures: remove every file, then unzip the new ones.
DeletePictures(p) ==
    /\ pc[p] = "delete"
    /\ pics' = [pics EXCEPT ![p] = "none"]
    /\ Goto(p, "extract")
    /\ UNCHANGED <<dbVars, table, pending, overlapped>>

ExtractPictures(p) ==
    /\ pc[p] = "extract"
    /\ pics' = [pics EXCEPT ![p] = "seeded"]
    /\ Goto(p, "running")
    /\ UNCHANGED <<dbVars, table, pending, overlapped>>

\* An operation throws, or the process stops, before or after its effect.
Interrupted(p) ==
    /\ Fail(p) \/ Stop(p)
    /\ Applied(p) \/ UNCHANGED dbVars
    /\ pending' = [pending EXCEPT ![p] = {}]
    /\ \/ UNCHANGED pics
       \/ pc[p] = "delete" /\ pics' = [pics EXCEPT ![p] = "none"]
    /\ UNCHANGED <<table, overlapped>>

SeedAsync(p) ==
    \/ Migrate(p) \/ Check(p)
    \/ AddLookup(p) \/ AddItems(p) \/ Save(p)
    \/ DeletePictures(p) \/ ExtractPictures(p)

Next == \E p \in Instances : Start(p) \/ SeedAsync(p) \/ Interrupted(p)

Spec == Init /\ [][Next]_vars

\* A process keeps running; under K8s a pod that ended is run again.
Fairness == \A p \in Instances :
                WF_vars(SeedAsync(p)) /\ (UnderK8s => WF_vars(Start(p)))

FairSpec == Spec /\ Fairness

-----------------------------------------------------------------------------
(* Properties.                                                             *)

\* Types; a table of one instance's context is not shared.
TypeOK ==
    /\ pc \in [Instances -> {"down", "migrate", "check", "add", "save", "delete",
                             "extract", "running"}]
    /\ gaveUp \subseteq Instances
    /\ faults \in 0 .. MaxFaults
    /\ migrated \in BOOLEAN
    /\ rows \subseteq [table : Lookups, id : Nat \ {0}, name : 1 .. Size]
    /\ items \subseteq [name : {i.name : i \in Source}, brand : Nat \ {0},
                        type : Nat \ {0}, by : Instances]
    /\ block \in [Lookups -> Nat]
    /\ table \in [Instances -> Lookups \cup {"items"}]
    /\ \A p \in Instances : pending[p] # {} => pc[p] = "save"
    /\ pics \in [Instances -> {"shipped", "none", "seeded"}]
    /\ overlapped \subseteq Lookups \cup {"items"}

\* Check and insert are not one transaction and no index forbids a second row
\* of the same name: yet failures, crashes and restarts never double a row,
\* only two instances that found the table empty at the same time do.
DuplicatesExplained ==
    \A t \in Lookups \cup {"items"} : Doubled(t) => t \in overlapped

\* An instance that serves without having given up serves all brands, types and
\* items, whoever inserted them and however many starts it took.
CompleteCatalog ==
    \A p \in Instances : Seeded(p) =>
        /\ \A t \in Lookups, n \in 1 .. Size : Named(t, n) # {}
        /\ \A i \in Source :
              i.brand \in 1 .. Size /\ i.type \in 1 .. Size => Named("items", i.name) # {}

\* Every item is filed under the brand and the type it was written for, whatever
\* became of the sequences: the fixed ids of the preconfigured items too.
FiledRight ==
    \A i \in items, j \in Source : i.name = j.name =>
        /\ [table |-> "brands", id |-> i.brand, name |-> j.brand] \in rows
        /\ [table |-> "types", id |-> i.type, name |-> j.type] \in rows

\* Once two instances have doubled a brand or a type, the items of the file are
\* never inserted, by any instance and after any number of restarts.
DoubledNameStopsSeeding ==
    [][ /\ UseFile /\ items = {} /\ \E t \in Lookups : Doubled(t)
        /\ \A p \in Instances : table[p] = "items" => pc[p] # "save"
        => /\ items' = {}
           /\ \A p \in Instances : table'[p] = "items" => pc'[p] # "save" ]_vars

\* Pictures lost between removal and extraction are not replaced by any later
\* start, because the items are there: only a new container brings some back.
LostPicturesStayLost ==
    \A p \in Instances :
        []( pics[p] = "none" /\ pc[p] = "down" /\ ~UnderK8s => [](pics[p] = "none") )

\* A start comes to an end.
StartEnds ==
    \A p \in Instances : pc[p] = "migrate" ~> pc[p] \in {"running", "down"}

\* WebHostExtensions.cs: "we rely on k8s to re-run the pod".
PodsRecover == <>(\E p \in Instances : Seeded(p))

\* What a catalog may look like after any starts, in one.
CatalogExplained == TypeOK /\ DuplicatesExplained /\ CompleteCatalog /\ FiledRight

\* What no later start repairs: doubled names, and pictures lost on a disk.
StaysBroken == DoubledNameStopsSeeding /\ LostPicturesStayLost
=============================================================================

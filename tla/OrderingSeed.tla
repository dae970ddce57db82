---------------------------- MODULE OrderingSeed ----------------------------
(***************************************************************************)
(* OrderingContextSeed.SeedAsync: card types and order statuses are each   *)
(* inserted if their table is empty.  Their ids are written in the code,   *)
(* so that of two instances that insert the same table one fails.          *)
(***************************************************************************)
EXTENDS SeedHost

VARIABLES
    migrated,   \* the tables exist
    filled,     \* the tables whose rows are there
    table,      \* the table each instance is at
    pending     \* tables whose rows are in its context, not saved

dbVars == <<migrated, filled>>
vars   == <<hostVars, dbVars, table, pending>>

Tables == {"cardtypes", "orderstatus"}

Init ==
    /\ HostInit
    /\ migrated = FALSE
    /\ filled = {}
    /\ table = [p \in Instances |-> "cardtypes"]
    /\ pending = [p \in Instances |-> {}]

\* A row of the same primary key is there: DbUpdateException.
Conflict(p) == pending[p] \cap filled # {}

\* What the operation an instance is at does to the database.
Applied(p) ==
    /\ migrated' = (migrated \/ pc[p] = "migrate")
    /\ filled' = IF pc[p] = "save" /\ ~Conflict(p)
                 THEN filled \cup pending[p] ELSE filled

\* Mutant: the migrations are left to somebody else.
StartWithoutMigrate(p) ==
    /\ Begin(p, "check")
    /\ table' = [table EXCEPT ![p] = "cardtypes"]
    /\ UNCHANGED <<dbVars, pending>>

Start(p) ==
    /\ Begin(p, "migrate")
    /\ table' = [table EXCEPT ![p] = "cardtypes"]
    /\ UNCHANGED <<dbVars, pending>>

\* Migrate() of InvokeSeeder and again of SeedAsync.
Migrate(p) ==
    /\ pc[p] = "migrate"
    /\ Applied(p)
    /\ Goto(p, "check")
    /\ UNCHANGED <<table, pending>>

\* Mutant: the tables are not looked at.
CheckNothing(p) ==
    /\ pc[p] = "check"
    /\ pending' = [pending EXCEPT ![p] = {table[p]}]
    /\ Goto(p, "save")
    /\ UNCHANGED <<dbVars, table>>

\* Mutant: the statuses are inserted where the card types are.
CheckCardsOnly(p) ==
    /\ pc[p] = "check"
    /\ IF table[p] \in filled \/ (table[p] = "orderstatus" /\ "cardtypes" \in filled)
       THEN Goto(p, IF table[p] = "cardtypes" THEN "check" ELSE "save") /\ UNCHANGED pending
       ELSE Goto(p, "save") /\ pending' = [pending EXCEPT ![p] = {table[p]}]
    /\ table' = [table EXCEPT ![p] = IF table[p] \in filled THEN "orderstatus" ELSE @]
    /\ UNCHANGED dbVars

\* The rows of an empty table are added; only after the statuses the context
\* is saved in any case.
Check(p) ==
    /\ pc[p] = "check"
    /\ \/ /\ table[p] \notin filled
          /\ pending' = [pending EXCEPT ![p] = {table[p]}]
          /\ Goto(p, "save")
          /\ UNCHANGED table
       \/ /\ table[p] = "cardtypes" /\ table[p] \in filled
          /\ table' = [table EXCEPT ![p] = "orderstatus"]
          /\ UNCHANGED <<hostVars, pending>>
       \/ /\ table[p] = "orderstatus" /\ table[p] \in filled
          /\ Goto(p, "save")
          /\ UNCHANGED <<table, pending>>
    /\ UNCHANGED dbVars

\* Mutant: "else if": who inserts the card types leaves the statuses.
SaveOne(p) ==
    /\ pc[p] = "save"
    /\ Applied(p)
    /\ pending' = [pending EXCEPT ![p] = {}]
    /\ IF Conflict(p) THEN GiveUp(p) ELSE Goto(p, "running")
    /\ UNCHANGED table

Save(p) ==
    /\ pc[p] = "save"
    /\ Applied(p)
    /\ pending' = [pending EXCEPT ![p] = {}]
    /\ \/ Conflict(p) /\ GiveUp(p) /\ UNCHANGED table
       \/ /\ ~Conflict(p)
          /\ Goto(p, IF table[p] = "cardtypes" THEN "check" ELSE "running")
          /\ table' = [table EXCEPT ![p] = "orderstatus"]

\* An operation throws, or the process stops, before or after its effect.
Interrupted(p) ==
    /\ Fail(p) \/ Stop(p)
    /\ Applied(p) \/ UNCHANGED dbVars
    /\ pending' = [pending EXCEPT ![p] = {}]
    /\ UNCHANGED table

SeedAsync(p) == Migrate(p) \/ Check(p) \/ Save(p)

Next == \E p \in Instances : Start(p) \/ SeedAsync(p) \/ Interrupted(p)

Spec == Init /\ [][Next]_vars

\* A process keeps running; under K8s a pod that ended is run again.
Fairness == \A p \in Instances :
                WF_vars(SeedAsync(p)) /\ (UnderK8s => WF_vars(Start(p)))

FairSpec == Spec /\ Fairness

-----------------------------------------------------------------------------
(* Properties.                                                             *)

\* Types; rows are inserted into tables that exist, and only a context that is about to be saved has rows.
SeedTypeOK ==
    /\ pc \in [Instances -> {"down", "migrate", "check", "save", "running"}]
    /\ gaveUp \subseteq Instances
    /\ faults \in 0 .. MaxFaults
    /\ migrated \in BOOLEAN
    /\ filled \subseteq Tables
    /\ filled # {} => migrated
    /\ table \in [Instances -> Tables]
    /\ \A p \in Instances : pending[p] # {} => pc[p] = "save" /\ pending[p] = {table[p]}

\* An instance that serves without having given up has card types and statuses,
\* two saves that any number of instances and restarts interleave.
CompleteSeed == \A p \in Instances : Seeded(p) => filled = Tables

\* Without failures, the instances that lose a race over a table give up, but
\* once all have come to an end one of them has filled both tables.
RacesAloneSeed ==
    /\ faults = 0
    /\ \A p \in Instances : pc[p] \in {"down", "running"}
    /\ \E p \in Instances : pc[p] = "running"
    => filled = Tables

\* Under K8s every pod serves in the end, with both tables.
AllPodsRecover ==
    UnderK8s => \A p \in Instances : <>[](Seeded(p) /\ filled = Tables)
=============================================================================

----------------------------- MODULE SeedsProofs ----------------------------
(***************************************************************************)
(* Proofs about the two specifications of MCSeeds, for every set of        *)
(* instances, every deployment and any number of failures.                 *)
(*                                                                         *)
(* Ordering: types, an instance that serves without having given up has    *)
(* both tables, and races without failures end with both filled.           *)
(* Catalog: CatalogExplained and StaysBroken, under the assumptions of     *)
(* MCSeeds about the items.                                                *)
(***************************************************************************)
EXTENDS MCSeeds, TLAPS

\* What an instance that is still seeding knows.
Progress ==
    \A p \in Instances :
        /\ pc[p] = "migrate" => table[p] = "cardtypes"
        /\ pc[p] \in {"check", "save"} => migrated
        /\ pc[p] \in {"check", "save"} /\ table[p] = "orderstatus" => "cardtypes" \in filled
        /\ pc[p] = "save" /\ pending[p] = {} =>
              table[p] = "orderstatus" /\ "orderstatus" \in filled

IInv == SeedTypeOK /\ pending \in [Instances -> SUBSET Tables] /\ Progress /\ CompleteSeed

LEMMA InitIInv == Init => IInv
  <1> SUFFICES ASSUME Init PROVE IInv
    OBVIOUS
  <1> USE HostAssumption DEF Init, HostInit, Tables
  <1>1. faults \in 0 .. MaxFaults
    OBVIOUS
  <1>2. SeedTypeOK
    BY <1>1 DEF SeedTypeOK
  <1>3. Progress /\ CompleteSeed
    BY DEF Progress, CompleteSeed, Seeded
  <1> QED BY <1>2, <1>3 DEF IInv

\* Start touches the starting instance only.
LEMMA StartKeeps == ASSUME IInv, NEW p \in Instances, Start(p) PROVE IInv'
  <1>1. SeedTypeOK' /\ pending' \in [Instances -> SUBSET Tables]
    BY DEF IInv, SeedTypeOK, Start, Begin, dbVars, Tables
  <1>2. Progress'
    BY DEF IInv, SeedTypeOK, Progress, Start, Begin, dbVars
  <1>3. CompleteSeed'
    BY DEF IInv, SeedTypeOK, CompleteSeed, Seeded, Start, Begin, dbVars
  <1> QED BY <1>1, <1>2, <1>3 DEF IInv

LEMMA MigrateKeeps == ASSUME IInv, NEW p \in Instances, Migrate(p) PROVE IInv'
  <1>1. migrated' = TRUE /\ filled' = filled
    BY DEF Migrate, Applied, IInv, SeedTypeOK
  <1>2. /\ pc' = [pc EXCEPT ![p] = "check"] /\ pc[p] = "migrate"
        /\ UNCHANGED <<deployment, gaveUp, faults, table, pending>>
    BY DEF Migrate, Goto
  <1>3. SeedTypeOK' /\ pending' \in [Instances -> SUBSET Tables]
    BY <1>1, <1>2 DEF IInv, SeedTypeOK, Tables
  <1>4. Progress'
    BY <1>1, <1>2 DEF IInv, SeedTypeOK, Progress
  <1>5. CompleteSeed'
    BY <1>1, <1>2 DEF IInv, SeedTypeOK, CompleteSeed, Seeded
  <1> QED BY <1>3, <1>4, <1>5 DEF IInv

\* A check adds the rows of an empty table, goes on to the second table, or
\* finds both full.
LEMMA CheckKeeps == ASSUME IInv, NEW p \in Instances, Check(p) PROVE IInv'
  <1> USE DEF IInv, SeedTypeOK, Tables
  <1>0. pc[p] = "check" /\ UNCHANGED <<migrated, filled, gaveUp, faults>>
    BY DEF Check, Goto, dbVars, hostVars
  <1>1. CASE /\ table[p] \notin filled
             /\ pending' = [pending EXCEPT ![p] = {table[p]}]
             /\ Goto(p, "save") /\ UNCHANGED table
    <2>1. SeedTypeOK' /\ pending' \in [Instances -> SUBSET Tables]
      BY <1>0, <1>1 DEF Goto
    <2>2. Progress' /\ CompleteSeed'
      BY <1>0, <1>1 DEF Goto, Progress, CompleteSeed, Seeded
    <2> QED BY <2>1, <2>2
  <1>2. CASE /\ table[p] = "cardtypes" /\ table[p] \in filled
             /\ table' = [table EXCEPT ![p] = "orderstatus"]
             /\ UNCHANGED <<hostVars, pending>>
    <2>1. SeedTypeOK' /\ pending' \in [Instances -> SUBSET Tables]
      BY <1>0, <1>2 DEF hostVars
    <2>2. Progress' /\ CompleteSeed'
      BY <1>0, <1>2 DEF hostVars, Progress, CompleteSeed, Seeded
    <2> QED BY <2>1, <2>2
  <1>3. CASE /\ table[p] = "orderstatus" /\ table[p] \in filled
             /\ Goto(p, "save") /\ UNCHANGED <<table, pending>>
    <2>1. SeedTypeOK' /\ pending' \in [Instances -> SUBSET Tables]
      BY <1>0, <1>3 DEF Goto
    <2>2. Progress' /\ CompleteSeed'
      BY <1>0, <1>3 DEF Goto, Progress, CompleteSeed, Seeded
    <2> QED BY <2>1, <2>2
  <1> QED BY <1>1, <1>2, <1>3 DEF Check

\* What an operation does to the database: tables are filled, never emptied, and
\* a save that is not refused fills the instance's own.
LEMMA Effect ==
    ASSUME IInv, NEW p \in Instances, Applied(p) \/ UNCHANGED dbVars
    PROVE  /\ filled \subseteq filled' /\ filled' \subseteq Tables
           /\ migrated' \in BOOLEAN /\ (migrated => migrated')
           /\ filled' # {} => migrated'
  BY DEF IInv, SeedTypeOK, Progress, Applied, dbVars

LEMMA SaveKeeps == ASSUME IInv, NEW p \in Instances, Save(p) PROVE IInv'
  <1> USE DEF IInv, SeedTypeOK, Tables
  <1>0. /\ filled \subseteq filled' /\ filled' \subseteq Tables
        /\ migrated' \in BOOLEAN /\ (migrated => migrated')
        /\ filled' # {} => migrated'
    BY Effect DEF Save
  <1>1. /\ pc[p] = "save" /\ pending' = [pending EXCEPT ![p] = {}]
        /\ faults' = faults
    BY DEF Save, GiveUp, Goto
  <1>2. CASE Conflict(p) /\ GiveUp(p) /\ UNCHANGED table
    <2>1. /\ pc' = [pc EXCEPT ![p] = "down"] \/ pc' = [pc EXCEPT ![p] = "running"]
          /\ gaveUp' = gaveUp \cup {p}
      BY <1>2 DEF GiveUp, Abandon
    <2>2. SeedTypeOK' /\ pending' \in [Instances -> SUBSET Tables]
      BY <1>0, <1>1, <1>2, <2>1
    <2>3. CASE pc' = [pc EXCEPT ![p] = "down"]
      <3>1. Progress'
        BY <1>0, <1>1, <1>2, <2>1, <2>3 DEF Progress
      <3>2. CompleteSeed'
        BY <1>0, <1>1, <1>2, <2>1, <2>3 DEF CompleteSeed, Seeded
      <3> QED BY <2>2, <3>1, <3>2
    <2>4. CASE pc' = [pc EXCEPT ![p] = "running"]
      <3>1. Progress'
        BY <1>0, <1>1, <1>2, <2>1, <2>4 DEF Progress
      <3>2. CompleteSeed'
        BY <1>0, <1>1, <1>2, <2>1, <2>4 DEF CompleteSeed, Seeded
      <3> QED BY <2>2, <3>1, <3>2
    <2> QED BY <2>1, <2>3, <2>4
  <1>3. CASE /\ ~Conflict(p)
             /\ Goto(p, IF table[p] = "cardtypes" THEN "check" ELSE "running")
             /\ table' = [table EXCEPT ![p] = "orderstatus"]
    <2>1. table[p] \in filled'
      BY <1>1, <1>3 DEF Progress, Save, Applied
    <2>2. SeedTypeOK' /\ pending' \in [Instances -> SUBSET Tables]
      BY <1>0, <1>1, <1>3 DEF Goto
    <2>3. CASE table[p] = "cardtypes"
      <3>1. pc' = [pc EXCEPT ![p] = "check"] /\ gaveUp' = gaveUp
        BY <1>3, <2>3 DEF Goto
      <3>2. migrated' /\ "cardtypes" \in filled'
        BY <1>0, <1>1, <2>1, <2>3 DEF Progress
      <3>3. Progress'
        BY <1>0, <1>1, <1>3, <3>1, <3>2 DEF Progress
      <3>4. CompleteSeed'
        BY <1>0, <3>1 DEF CompleteSeed, Seeded
      <3> QED BY <2>2, <3>3, <3>4
    <2>4. CASE table[p] = "orderstatus"
      <3>1. "cardtypes" \in filled
        BY <1>1, <2>4 DEF Progress
      <3>2. filled' = Tables
        <4>1. "cardtypes" \in filled' /\ "orderstatus" \in filled'
          BY <1>0, <2>1, <2>4, <3>1
        <4> QED BY <1>0, <4>1, Zenon
      <3>3. pc' = [pc EXCEPT ![p] = "running"] /\ gaveUp' = gaveUp
        BY <1>3, <2>4 DEF Goto
      <3>4. Progress'
        BY <1>0, <1>1, <1>3, <3>2, <3>3 DEF Progress
      <3>5. CompleteSeed'
        BY <3>2 DEF CompleteSeed
      <3> QED BY <2>2, <3>4, <3>5
    <2> QED BY <2>3, <2>4
  <1> QED BY <1>2, <1>3 DEF Save

LEMMA InterruptedKeeps == ASSUME IInv, NEW p \in Instances, Interrupted(p) PROVE IInv'
  <1> USE DEF IInv, SeedTypeOK, Tables
  <1>0. /\ filled \subseteq filled' /\ filled' \subseteq Tables
        /\ migrated' \in BOOLEAN /\ (migrated => migrated')
        /\ filled' # {} => migrated'
    BY Effect DEF Interrupted
  <1>1. pending' = [pending EXCEPT ![p] = {}] /\ table' = table
    BY DEF Interrupted
  <1>2. /\ faults < MaxFaults /\ faults' = faults + 1
        /\ \/ pc' = [pc EXCEPT ![p] = "down"] /\ gaveUp' = gaveUp
           \/ pc' = [pc EXCEPT ![p] = "down"] /\ gaveUp' = gaveUp \cup {p}
           \/ pc' = [pc EXCEPT ![p] = "running"] /\ gaveUp' = gaveUp \cup {p}
    BY DEF Interrupted, Fail, Stop, Abandon
  <1>3. faults' \in 0 .. MaxFaults
    BY <1>2, HostAssumption
  <1>4. SeedTypeOK' /\ pending' \in [Instances -> SUBSET Tables]
    BY <1>0, <1>1, <1>2, <1>3
  <1>5. Progress'
    BY <1>0, <1>1, <1>2 DEF Progress
  <1>6. CompleteSeed'
    <2>1. CASE pc' = [pc EXCEPT ![p] = "down"]
      BY <1>0, <1>1, <1>2, <2>1 DEF CompleteSeed, Seeded
    <2>2. CASE pc' = [pc EXCEPT ![p] = "running"]
      BY <1>0, <1>1, <1>2, <2>2 DEF CompleteSeed, Seeded
    <2> QED BY <1>2, <2>1, <2>2
  <1> QED BY <1>4, <1>5, <1>6

\* The inductive invariant holds throughout.
THEOREM Invariant == Spec => []IInv
  <1>1. IInv /\ [Next]_vars => IInv'
    <2> SUFFICES ASSUME IInv, [Next]_vars PROVE IInv'
      OBVIOUS
    <2>1. CASE UNCHANGED vars
      BY <2>1 DEF vars, hostVars, dbVars, IInv, SeedTypeOK, Progress, CompleteSeed, Seeded
    <2>2. CASE Next
      <3> PICK p \in Instances : Start(p) \/ SeedAsync(p) \/ Interrupted(p)
        BY <2>2 DEF Next
      <3> QED BY StartKeeps, MigrateKeeps, CheckKeeps, SaveKeeps, InterruptedKeeps
              DEF SeedAsync
    <2> QED BY <2>1, <2>2
  <1> QED BY InitIInv, <1>1, PTL DEF Spec

\* Types; rows are inserted into tables that exist, and only a context that is
\* about to be saved has rows.
THEOREM TypeCorrect == Spec => []SeedTypeOK
  <1>1. IInv => SeedTypeOK
    BY DEF IInv
  <1> QED BY Invariant, <1>1, PTL

\* An instance that serves without having given up has card types and statuses
\* (OrderingContextSeed.SeedAsync, MigrateDbContext).
THEOREM SeedComplete == Spec => []CompleteSeed
  <1>1. IInv => CompleteSeed
    BY DEF IInv
  <1> QED BY Invariant, <1>1, PTL

-----------------------------------------------------------------------------
(* Races without failures.                                                 *)

\* As long as nothing has failed: who serves has met the card types, the statuses
\* come after them, and while they are missing somebody is about to insert them.
Alone ==
    faults = 0 =>
        /\ \A p \in Instances : pc[p] = "running" => "cardtypes" \in filled
        /\ "orderstatus" \in filled => "cardtypes" \in filled
        /\ "cardtypes" \in filled /\ "orderstatus" \notin filled =>
              \E q \in Instances : table[q] = "orderstatus" /\ pc[q] \in {"check", "save"}

LEMMA SaveKeepsAlone ==
    ASSUME IInv, Alone, NEW p \in Instances, Save(p)
    PROVE  Alone'
  <1> SUFFICES ASSUME faults' = 0
               PROVE  /\ \A q \in Instances : pc'[q] = "running" => "cardtypes" \in filled'
                      /\ "orderstatus" \in filled' => "cardtypes" \in filled'
                      /\ "cardtypes" \in filled' /\ "orderstatus" \notin filled' =>
                            \E q \in Instances :
                                table'[q] = "orderstatus" /\ pc'[q] \in {"check", "save"}
    BY DEF Alone
  <1> USE DEF IInv, SeedTypeOK, Tables
  <1>1. pc[p] = "save" /\ faults = 0 /\ table[p] \in Tables
    BY DEF Save, GiveUp, Goto
  <1>2. CASE Conflict(p) /\ GiveUp(p) /\ UNCHANGED table
    <2>1. filled' = filled
      BY <1>1, <1>2 DEF Save, Applied
    <2>2. pending[p] = {table[p]} /\ table[p] \in filled
      BY <1>1, <1>2 DEF Conflict
    <2>3. "cardtypes" \in filled
      BY <1>1, <2>2 DEF Alone
    <2>4. \A q \in Instances \ {p} : pc'[q] = pc[q] /\ table'[q] = table[q]
      BY <1>2 DEF GiveUp, Abandon
    <2>5. CASE table[p] = "orderstatus"
      BY <2>1, <2>2, <2>3, <2>5
    <2>6. CASE table[p] = "cardtypes"
      BY <1>1, <2>1, <2>3, <2>4, <2>6 DEF Alone
    <2> QED BY <1>1, <2>5, <2>6
  <1>3. CASE /\ ~Conflict(p)
             /\ Goto(p, IF table[p] = "cardtypes" THEN "check" ELSE "running")
             /\ table' = [table EXCEPT ![p] = "orderstatus"]
    <2>1. filled' = filled \cup pending[p]
      BY <1>1, <1>3 DEF Save, Applied
    <2>2. table[p] \in filled'
      BY <1>1, <2>1 DEF Progress
    <2>3. table'[p] = "orderstatus"
      BY <1>3
    <2>4. CASE table[p] = "cardtypes"
      <3>1. pc'[p] = "check"
        BY <1>3, <2>4 DEF Goto
      <3> QED BY <2>2, <2>3, <2>4, <3>1
    <2>5. CASE table[p] = "orderstatus"
      <3>1. "cardtypes" \in filled'
        BY <1>1, <2>1, <2>5 DEF Progress
      <3> QED BY <2>2, <2>5, <3>1
    <2> QED BY <1>1, <2>4, <2>5
  <1> QED BY <1>2, <1>3 DEF Save

LEMMA NextKeepsAlone == IInv /\ Alone /\ [Next]_vars => Alone'
  <1> SUFFICES ASSUME IInv, Alone, [Next]_vars PROVE Alone'
    OBVIOUS
  <1>1. CASE UNCHANGED vars
    BY <1>1 DEF Alone, vars, hostVars, dbVars
  <1>2. ASSUME NEW p \in Instances, Start(p) PROVE Alone'
    BY <1>2 DEF Alone, Start, Begin, dbVars, IInv, SeedTypeOK
  <1>3. ASSUME NEW p \in Instances, Migrate(p) PROVE Alone'
    <2>1. filled' = filled /\ faults' = faults /\ table' = table /\ pc[p] = "migrate"
          /\ pc' = [pc EXCEPT ![p] = "check"]
      BY <1>3 DEF Migrate, Applied, Goto
    <2> QED BY <2>1 DEF Alone, IInv, SeedTypeOK
  <1>4. ASSUME NEW p \in Instances, Check(p) PROVE Alone'
    <2>1. /\ filled' = filled /\ faults' = faults /\ pc[p] = "check"
          /\ pc' \in {pc, [pc EXCEPT ![p] = "save"]}
          /\ table' \in {table, [table EXCEPT ![p] = "orderstatus"]}
      BY <1>4 DEF Check, dbVars, Goto, hostVars
    <2>2. /\ \A q \in Instances : pc'[q] = "running" => pc[q] = "running"
          /\ \A q \in Instances : pc[q] \in {"check", "save"} => pc'[q] \in {"check", "save"}
          /\ \A q \in Instances : table[q] = "orderstatus" => table'[q] = "orderstatus"
      BY <2>1 DEF IInv, SeedTypeOK
    <2> QED BY <2>1, <2>2 DEF Alone
  <1>5. ASSUME NEW p \in Instances, Save(p) PROVE Alone'
    BY <1>5, SaveKeepsAlone
  <1>6. ASSUME NEW p \in Instances, Interrupted(p) PROVE Alone'
    <2>1. faults' # 0
      BY <1>6 DEF Interrupted, Fail, Stop, IInv, SeedTypeOK
    <2> QED BY <2>1 DEF Alone
  <1> QED BY <1>1, <1>2, <1>3, <1>4, <1>5, <1>6 DEF Next, SeedAsync

\* Without failures, the instances that lose a race over a table give up, but once
\* all have come to an end one of them has filled both tables, however many they
\* are and under every deployment (OrderingContextSeed.SeedAsync).
THEOREM RacesAlone == Spec => []RacesAloneSeed
  <1>1. Init => Alone
    BY DEF Init, HostInit, Alone
  <1>2. IInv /\ Alone => RacesAloneSeed
    <2> SUFFICES ASSUME IInv, Alone, faults = 0, NEW p \in Instances, pc[p] = "running",
                        \A q \in Instances : pc[q] \in {"down", "running"}
                 PROVE  filled = Tables
      BY DEF RacesAloneSeed
    <2>1. "cardtypes" \in filled /\ "orderstatus" \in filled
      BY DEF Alone
    <2>2. filled \subseteq Tables
      BY DEF IInv, SeedTypeOK
    <2> QED BY <2>1, <2>2, Zenon DEF Tables
  <1> QED BY Invariant, NextKeepsAlone, <1>1, <1>2, PTL DEF Spec

-----------------------------------------------------------------------------
(* The catalog, as the instance C of MCSeeds.  CInv is its inductive          *)
(* invariant: what an instance is about to save is right and complete, what   *)
(* it has behind it is complete, and a table that two instances did not find  *)
(* empty at once has no name twice.                                           *)

BrandRows == [table : C!Lookups, id : Nat \ {0}, name : 1 .. Size]
Numbered(r) == \E k \in Nat : r.id = k * Block + r.name
Complete(t) == \A n \in 1 .. Size : C!Named(t, n) # {}
Known       == {i \in C!Source : i.brand \in 1 .. Size /\ i.type \in 1 .. Size}
CompleteItems == \A i \in Known : C!Named("items", i.name) # {}

\* An instance has found table t empty and has not saved it yet.
At(p, t) == cTable[p] = t /\ cPc[p] \in {"add", "save"}

CTypes == C!TypeOK /\ cDeployment \in Deployments /\ cPending = [p \in Instances |-> cPending[p]]

\* The rows of a lookup an instance is about to save: one for each name.
PendingRows(p) ==
    /\ cPending[p] \subseteq {r \in BrandRows : r.table = cTable[p] /\ Numbered(r)}
    /\ \A n \in 1 .. Size : \E r \in cPending[p] : r.name = n
    /\ \A r, s \in cPending[p] : r.name = s.name => r = s

\* The line of the source an item is of, and how the item refers to its lookups.
Written(i, j) ==
    /\ i.name = j.name
    /\ C!UseFile => /\ [table |-> "brands", id |-> i.brand, name |-> j.brand] \in rows
                    /\ [table |-> "types", id |-> i.type, name |-> j.type] \in rows
    /\ ~C!UseFile => i.brand = j.brand /\ i.type = j.type

PendingItems(p) ==
    /\ \A i \in cPending[p] :
          /\ i \in [name : {j.name : j \in C!Source}, brand : Nat, type : Nat, by : Instances]
          /\ \E j \in C!Source : Written(i, j)
    /\ \A i \in Known : \E r \in cPending[p] : r.name = i.name
    /\ \A r, s \in cPending[p] : r.name = s.name => r = s

PendingRight(p) == cPc[p] = "save" =>
    IF cTable[p] = "items" THEN PendingItems(p) ELSE PendingRows(p)

\* What an instance that has not given up has behind it.
CProgress(p) ==
    /\ cPc[p] = "migrate" => cTable[p] = "brands"
    /\ cPc[p] \in {"check", "add", "save"} /\ cTable[p] # "brands" => Complete("brands")
    /\ cPc[p] \in {"check", "add", "save"} /\ cTable[p] = "items" => Complete("types")
    /\ cPc[p] \in {"delete", "extract"} \/ C!Seeded(p) =>
          Complete("brands") /\ Complete("types") /\ CompleteItems

\* Tables are filled by one save each.
Filled ==
    /\ \A r \in rows : Numbered(r)
    /\ \A t \in C!Lookups : C!Contents(t) # {} => Complete(t)
    /\ items # {} => CompleteItems
    /\ C!FiledRight

FoundAlone == \A t \in C!Lookups \cup {"items"} : t \notin overlapped =>
    /\ ~C!Doubled(t)
    /\ \A p \in Instances : At(p, t) =>
          C!Contents(t) = {} /\ \A q \in Instances : At(q, t) => q = p

CInv ==
    /\ CTypes /\ Filled /\ FoundAlone
    /\ \A p \in Instances : PendingRight(p) /\ CProgress(p)

LEMMA CInit == C!Init => CInv
<1> SUFFICES ASSUME C!Init PROVE CInv
  OBVIOUS
<1> USE HostAssumption DEF C!Init, C!HostInit
<1>1. CTypes
  <2>1. cFaults \in 0 .. MaxFaults
    OBVIOUS
  <2> QED
    BY <2>1 DEF CTypes, C!TypeOK, C!Lookups
<1>2. \A p \in Instances : PendingRight(p) /\ CProgress(p)
  BY DEF PendingRight, CProgress, C!Seeded
<1>3. Filled
  BY DEF Filled, C!Contents, C!FiledRight, C!Lookups
<1>4. FoundAlone
  BY DEF FoundAlone, At, C!Doubled, C!Contents
<1> QED
  BY <1>1, <1>2, <1>3, <1>4 DEF CInv

\* The rows of a lookup, and how they are counted in its block.
LEMMA FirstBlock ==
    ASSUME NEW r, r.id \in Nat, r.name \in Nat \ {0}, Numbered(r), r.id <= Block
    PROVE  r.name = r.id
<1>1. PICK k \in Nat : r.id = k * Block + r.name
  BY DEF Numbered
<1>2. k >= 1 => k * Block >= Block
  BY CatalogAssumption DEF C!SeedAssumption
<1>3. Block \in Nat /\ k * Block \in Nat
  BY CatalogAssumption DEF C!SeedAssumption
<1>4. k = 0
  BY <1>1, <1>2, <1>3
<1> QED
  BY <1>1, <1>3, <1>4

LEMMA SourceFacts ==
    /\ Size \in Nat /\ Block \in Nat /\ Size <= Block
    /\ \A i, j \in C!Source : i.name = j.name => i = j
    /\ \A i \in C!Source : i.brand \in Nat /\ i.type \in Nat
    /\ ~C!UseFile => \A i \in C!Source : i.brand <= Block /\ i.type <= Block
BY CatalogAssumption DEF C!SeedAssumption, C!Source

\* The row that the foreign key of an item finds is that of the name it was
\* written with.
LEMMA KeyFinds ==
    ASSUME CTypes, Filled, NEW t \in C!Lookups, NEW n \in Nat, n <= Block, n \in C!Ids(t)
    PROVE  [table |-> t, id |-> n, name |-> n] \in rows
<1>1. PICK r \in rows : r.table = t /\ r.id = n
  BY DEF C!Ids, C!Contents, C!Lookups
<1>2. r \in BrandRows
  BY DEF CTypes, C!TypeOK, BrandRows
<1>3. r.name = n
  BY <1>1, <1>2, FirstBlock, SourceFacts DEF Filled, BrandRows
<1> QED
  BY <1>1, <1>2, <1>3 DEF BrandRows

\* What happens to the tables at any operation, done or undone.
Inserted(p, t) == At(p, t) /\ cPc[p] = "save" /\ C!Contents(t)' = C!Contents(t) \cup cPending[p]

LEMMA CEffect ==
    ASSUME CInv, NEW p \in Instances, C!Applied(p) \/ UNCHANGED C!dbVars, UNCHANGED cDeployment
    PROVE  /\ cMigrated' \in BOOLEAN /\ block' \in [C!Lookups -> Nat]
           /\ rows \subseteq rows' /\ rows' \subseteq BrandRows
           /\ items' \subseteq [name : {i.name : i \in C!Source}, brand : Nat \ {0},
                                type : Nat \ {0}, by : Instances]
           /\ \A t \in C!Lookups \cup {"items"} :
                 /\ C!Contents(t) \subseteq C!Contents(t)'
                 /\ C!Contents(t)' = C!Contents(t) \/ Inserted(p, t)
           /\ Filled'
<1> USE DEF CInv
<1>1. cMigrated' \in BOOLEAN /\ block' \in [C!Lookups -> Nat]
  <2>1. block \in [C!Lookups -> Nat] /\ cMigrated \in BOOLEAN
    BY DEF CTypes, C!TypeOK
  <2>2. block' = block \/ \E t \in C!Lookups : block' = [block EXCEPT ![t] = @ + 1]
    BY DEF C!Applied, C!dbVars
  <2>3. cMigrated' = cMigrated \/ cMigrated' = (cMigrated \/ cPc[p] = "migrate")
    BY DEF C!Applied, C!dbVars
  <2>4. cMigrated' \in BOOLEAN
    BY <2>1, <2>3, Zenon
  <2> QED
    BY <2>1, <2>2, <2>4
<1>2. C!Source' = C!Source /\ C!UseFile' = C!UseFile /\ Known' = Known
  BY DEF C!Source, C!UseFile, Known
<1>3. CASE rows' = rows /\ items' = items
  BY <1>1, <1>2, <1>3 DEF CTypes, C!TypeOK, BrandRows, C!Contents, Filled, Complete, CompleteItems, C!Named,
     C!FiledRight, Numbered
<1>4. CASE cPc[p] = "save" /\ cTable[p] \in C!Lookups /\ rows' = rows \cup cPending[p] /\ items' = items
  <2> DEFINE u == cTable[p]
  <2>1. PendingRows(p)
    BY <1>4 DEF PendingRight, C!Lookups
  <2>2. rows' \subseteq BrandRows /\ \A r \in rows' : Numbered(r)
    BY <1>4, <2>1 DEF PendingRows, CTypes, C!TypeOK, BrandRows, Filled
  <2>3. ASSUME NEW t \in C!Lookups \cup {"items"}
        PROVE  C!Contents(t)' = IF t = u THEN C!Contents(t) \cup cPending[p] ELSE C!Contents(t)
    BY <1>4, <2>1 DEF PendingRows, C!Contents, C!Lookups
  <2>4. ASSUME NEW t \in C!Lookups, t = u PROVE Complete(t)'
    <3> SUFFICES ASSUME NEW n \in 1 .. Size PROVE \E r \in C!Contents(t)' : r.name = n
      BY DEF Complete, C!Named
    <3>1. \E r \in cPending[p] : r.name = n
      BY <2>1 DEF PendingRows
    <3> QED
      BY <2>3, <2>4, <3>1
  <2>5. ASSUME NEW t \in C!Lookups, C!Contents(t)' # {} PROVE Complete(t)'
    <3>1. t # u => C!Contents(t)' = C!Contents(t)
      BY <2>3
    <3> QED
      BY <2>4, <2>5, <3>1 DEF Filled, Complete, C!Named
  <2>6. (items # {} => CompleteItems)' /\ C!FiledRight'
    BY <1>2, <1>4 DEF Filled, CompleteItems, C!Named, C!Contents, C!FiledRight
  <2>7. Filled'
    BY <2>2, <2>5, <2>6 DEF Filled, Numbered
  <2> QED
    BY <1>1, <1>4, <2>2, <2>3, <2>7 DEF CTypes, C!TypeOK, Inserted, At
<1>5. CASE cPc[p] = "save" /\ cTable[p] = "items" /\ C!Referential(p) /\ rows' = rows /\ items' = items \cup cPending[p]
  <2>1. PendingItems(p)
    BY <1>5 DEF PendingRight
  <2>2. \A i \in cPending[p] : i.brand \in C!Ids("brands") /\ i.type \in C!Ids("types")
    BY <1>5 DEF C!Referential
  <2>3. C!Ids("brands") \subseteq Nat \ {0} /\ C!Ids("types") \subseteq Nat \ {0}
    BY DEF C!Ids, C!Contents, CTypes, C!TypeOK
  <2>4. items' \subseteq [name : {i.name : i \in C!Source}, brand : Nat \ {0}, type : Nat \ {0}, by : Instances]
    BY <1>5, <2>1, <2>2, <2>3 DEF PendingItems, CTypes, C!TypeOK
  <2>5. \A t \in C!Lookups \cup {"items"} :
            C!Contents(t)' = IF t = "items" THEN C!Contents(t) \cup cPending[p] ELSE C!Contents(t)
    BY <1>5 DEF C!Contents, C!Lookups
  <2>6. CompleteItems'
    BY <1>2, <2>1, <2>5 DEF PendingItems, CompleteItems, C!Named
  <2>7. C!FiledRight'
    <3> SUFFICES ASSUME NEW i \in cPending[p], NEW j \in C!Source, i.name = j.name
                 PROVE  /\ [table |-> "brands", id |-> i.brand, name |-> j.brand] \in rows
                        /\ [table |-> "types", id |-> i.type, name |-> j.type] \in rows
      BY <1>2, <1>5 DEF C!FiledRight, Filled
    <3>1. Written(i, j)
      <4>1. PICK k \in C!Source : Written(i, k)
        BY <2>1 DEF PendingItems
      <4>2. k = j
        BY <4>1, SourceFacts DEF Written
      <4> QED
        BY <4>1, <4>2
    <3>2. CASE C!UseFile
      BY <3>1, <3>2 DEF Written
    <3>3. CASE ~C!UseFile
      <4>1. j.brand \in C!Ids("brands") /\ j.type \in C!Ids("types") /\ i.brand = j.brand /\ i.type = j.type
        BY <2>2, <3>1, <3>3 DEF Written
      <4> QED
        BY <3>3, <4>1, KeyFinds, SourceFacts DEF C!Lookups
    <3> QED
      BY <3>2, <3>3
  <2>8. Filled'
    BY <1>5, <2>5, <2>6, <2>7 DEF Filled, Numbered, Complete, C!Named, C!Lookups
  <2> QED
    BY <1>1, <1>5, <2>4, <2>5, <2>8 DEF CTypes, C!TypeOK, Inserted, At, BrandRows
<1> QED
  BY <1>3, <1>4, <1>5 DEF C!Applied, C!dbVars, C!Lookups

\* What is complete stays complete.
LEMMA Grows ==
    ASSUME CInv, NEW p \in Instances, C!Applied(p) \/ UNCHANGED C!dbVars, UNCHANGED cDeployment
    PROVE  /\ \A t \in C!Lookups : Complete(t) => Complete(t)'
           /\ CompleteItems => CompleteItems'
           /\ \A i, j : Written(i, j) => Written(i, j)'
           /\ C!Source' = C!Source /\ C!UseFile' = C!UseFile /\ Known' = Known
<1>1. C!Source' = C!Source /\ C!UseFile' = C!UseFile /\ Known' = Known
  BY DEF C!Source, C!UseFile, Known
<1>2. /\ rows \subseteq rows'
      /\ \A t \in C!Lookups \cup {"items"} : C!Contents(t) \subseteq C!Contents(t)'
  BY CEffect
<1>3. ASSUME NEW t \in C!Lookups, Complete(t) PROVE Complete(t)'
  BY <1>2, <1>3 DEF Complete, C!Named
<1>4. CompleteItems => CompleteItems'
  BY <1>1, <1>2 DEF CompleteItems, C!Named
<1>5. ASSUME NEW i, NEW j, Written(i, j) PROVE Written(i, j)'
  BY <1>1, <1>2, <1>5 DEF Written
<1> QED
  BY <1>1, <1>3, <1>4, <1>5

\* One instance steps: what is left to show is about itself.
LEMMA CStep ==
    ASSUME CInv, NEW p \in Instances, C!Applied(p) \/ UNCHANGED C!dbVars, UNCHANGED cDeployment,
           \A q \in Instances \ {p} :
              /\ cPc'[q] = cPc[q] /\ cTable'[q] = cTable[q] /\ cPending'[q] = cPending[q]
              /\ q \in cGaveUp' <=> q \in cGaveUp,
           CTypes', PendingRight(p)', CProgress(p)', overlapped \subseteq overlapped',
           \A t \in C!Lookups \cup {"items"} : At(p, t)' => cPc[p] # "save",
           \A t \in C!Lookups \cup {"items"} : t \notin overlapped' /\ At(p, t)' =>
              C!Contents(t)' = {} /\ \A q \in Instances \ {p} : ~At(q, t)
    PROVE  CInv'
<1> USE DEF CInv
<1>1. ASSUME NEW q \in Instances PROVE PendingRight(q)' /\ CProgress(q)'
  <2>1. CASE q = p
    BY <2>1
  <2>2. CASE q # p
    <3>1. /\ cPc'[q] = cPc[q] /\ cTable'[q] = cTable[q] /\ cPending'[q] = cPending[q]
          /\ q \in cGaveUp' <=> q \in cGaveUp
      BY <2>2
    <3>2. CProgress(q)'
      <4>1. Complete("brands") => Complete("brands")'
        BY Grows DEF C!Lookups
      <4>2. Complete("types") => Complete("types")'
        BY Grows DEF C!Lookups
      <4> QED
        BY <3>1, <4>1, <4>2, Grows DEF CProgress, C!Seeded
    <3>3. PendingItems(q) => PendingItems(q)'
      BY <3>1, Grows DEF PendingItems
    <3>4. PendingRows(q) => PendingRows(q)'
      BY <3>1 DEF PendingRows, Numbered
    <3> QED
      BY <3>1, <3>2, <3>3, <3>4 DEF PendingRight
  <2> QED
    BY <2>1, <2>2
<1>2. ASSUME NEW t \in C!Lookups \cup {"items"}, t \notin overlapped'
      PROVE  /\ ~C!Doubled(t)'
             /\ \A q \in Instances : At(q, t)' =>
                   C!Contents(t)' = {} /\ \A o \in Instances : At(o, t)' => o = q
  <2>1. \A q \in Instances \ {p} : At(q, t)' <=> At(q, t)
    BY DEF At
  <2>2. t \notin overlapped
    BY <1>2
  <2>3. CASE C!Contents(t)' = C!Contents(t)
    BY <1>2, <2>1, <2>2, <2>3 DEF FoundAlone, C!Doubled
  <2>4. CASE Inserted(p, t)
    <3>1. C!Contents(t)' = cPending[p] /\ \A q \in Instances \ {p} : ~At(q, t)
      BY <2>2, <2>4 DEF Inserted, FoundAlone
    <3>2. \A r, s \in cPending[p] : r.name = s.name => r = s
      BY <2>4 DEF Inserted, PendingRight, PendingItems, PendingRows
    <3>3. ~At(p, t)'
      BY <2>4 DEF Inserted
    <3> QED
      BY <2>1, <3>1, <3>2, <3>3 DEF C!Doubled
  <2> QED
    BY <2>3, <2>4, CEffect
<1>3. FoundAlone'
  BY <1>2 DEF FoundAlone, C!Lookups
<1> QED
  BY <1>1, <1>3, CEffect

\* What TypeOK says of the variables of the instances; the tables are Effect's.
HostTypes ==
    /\ cDeployment \in Deployments
    /\ cPc \in [Instances -> {"down", "migrate", "check", "add", "save", "delete", "extract", "running"}]
    /\ cGaveUp \subseteq Instances /\ cFaults \in 0 .. MaxFaults
    /\ cTable \in [Instances -> C!Lookups \cup {"items"}]
    /\ cPending = [p \in Instances |-> cPending[p]]
    /\ \A p \in Instances : cPending[p] # {} => cPc[p] = "save"
    /\ pics \in [Instances -> {"shipped", "none", "seeded"}]
    /\ overlapped \subseteq C!Lookups \cup {"items"}

LEMMA CTypesAre ==
    ASSUME CInv, NEW p \in Instances, C!Applied(p) \/ UNCHANGED C!dbVars, UNCHANGED cDeployment
    PROVE  HostTypes /\ (HostTypes' => CTypes')
<1>1. HostTypes
  BY DEF CInv, CTypes, C!TypeOK, HostTypes
<1>2. ASSUME HostTypes' PROVE CTypes'
  <2>1. C!Source' = C!Source
    BY DEF C!Source, C!UseFile
  <2> QED
    BY <1>2, <2>1, CEffect DEF HostTypes, CTypes, C!TypeOK, BrandRows
<1> QED
  BY <1>1, <1>2

LEMMA CStart == ASSUME CInv, NEW p \in Instances, C!Start(p) PROVE CInv'
<1>1. /\ cPc' = [cPc EXCEPT ![p] = "migrate"] /\ cGaveUp' = cGaveUp \ {p} /\ cPc[p] = "down"
      /\ cTable' = [cTable EXCEPT ![p] = "brands"]
      /\ pics' \in {pics, [pics EXCEPT ![p] = "shipped"]}
      /\ UNCHANGED C!dbVars /\ UNCHANGED <<cDeployment, cFaults, cPending, overlapped>>
  BY DEF C!Start, C!Begin
<1>2. HostTypes
  BY <1>1, CTypesAre
<1>3. CTypes'
  <2>1. HostTypes'
    BY <1>1, <1>2 DEF HostTypes, C!Lookups
  <2> QED
    BY <1>1, <2>1, CTypesAre
<1>4. cPc'[p] = "migrate" /\ cTable'[p] = "brands"
  BY <1>1, <1>2 DEF HostTypes
<1>5. PendingRight(p)' /\ CProgress(p)' /\ \A t : ~At(p, t)'
  BY <1>4 DEF PendingRight, CProgress, C!Seeded, At
<1>6. \A q \in Instances \ {p} : cPc'[q] = cPc[q] /\ cTable'[q] = cTable[q] /\ (q \in cGaveUp' <=> q \in cGaveUp)
  BY <1>1, <1>2 DEF HostTypes
<1> QED
  BY <1>1, <1>3, <1>5, <1>6, CStep

LEMMA CMigrate == ASSUME CInv, NEW p \in Instances, C!Migrate(p) PROVE CInv'
<1>1. /\ cPc' = [cPc EXCEPT ![p] = "check"] /\ cPc[p] = "migrate" /\ C!Applied(p)
      /\ UNCHANGED <<cDeployment, cGaveUp, cFaults, cTable, cPending, pics, overlapped>>
  BY DEF C!Migrate, C!Goto
<1>2. HostTypes
  BY <1>1, CTypesAre
<1>3. CTypes'
  <2>1. HostTypes'
    BY <1>1, <1>2 DEF HostTypes
  <2> QED
    BY <1>1, <2>1, CTypesAre
<1>4. cPc'[p] = "check" /\ cTable'[p] = "brands"
  BY <1>1, <1>2 DEF HostTypes, CInv, CProgress
<1>5. PendingRight(p)' /\ CProgress(p)' /\ \A t : ~At(p, t)'
  BY <1>4 DEF PendingRight, CProgress, C!Seeded, At
<1>6. \A q \in Instances \ {p} : cPc'[q] = cPc[q]
  BY <1>1, <1>2 DEF HostTypes
<1> QED
  BY <1>1, <1>3, <1>5, <1>6, CStep


\* On to the next table, which is checked, or to serve: what is behind is complete.
LEMMA Passes ==
    ASSUME HostTypes, NEW p \in Instances, C!NextTable(p), UNCHANGED pics,
           overlapped' = overlapped, cPending' \in {cPending, [cPending EXCEPT ![p] = {}]},
           cPc[p] # "save" \/ cPending'[p] = {},
           cTable[p] = "brands" => Complete("brands")',
           cTable[p] = "types" => Complete("brands")' /\ Complete("types")',
           cTable[p] = "items" => Complete("brands")' /\ Complete("types")' /\ CompleteItems'
    PROVE  /\ HostTypes' /\ PendingRight(p)' /\ CProgress(p)' /\ \A t : ~At(p, t)'
           /\ \A q \in Instances \ {p} :
                 /\ cPc'[q] = cPc[q] /\ cTable'[q] = cTable[q] /\ cPending'[q] = cPending[q]
                 /\ q \in cGaveUp' <=> q \in cGaveUp
<1>1. UNCHANGED <<cDeployment, cGaveUp, cFaults>>
  BY DEF C!NextTable, C!Goto
<1>2. PICK pc1 \in {"check", "running"}, t1 \in {"types", "items"} :
          /\ cPc' = [cPc EXCEPT ![p] = pc1]
          /\ cTable' = [cTable EXCEPT ![p] = t1]
          /\ pc1 = "running" => cTable[p] = "items"
          /\ t1 = "items" => cTable[p] # "brands"
  <2>1. CASE cTable[p] = "items"
    BY <2>1 DEF C!NextTable, C!Goto, HostTypes
  <2>2. CASE cTable[p] = "brands"
    BY <2>2 DEF C!NextTable, C!Goto, HostTypes
  <2>3. CASE cTable[p] = "types"
    BY <2>3 DEF C!NextTable, C!Goto, HostTypes
  <2> QED
    BY <2>1, <2>2, <2>3 DEF HostTypes, C!Lookups
<1>3. cPc'[p] = pc1 /\ cTable'[p] = t1
  BY <1>2 DEF HostTypes
<1>4. HostTypes'
  BY <1>1, <1>2 DEF HostTypes, C!Lookups
<1>5. CProgress(p)'
  <2>1. cTable[p] \in {"brands", "types", "items"}
    BY DEF HostTypes, C!Lookups
  <2> QED
    BY <1>2, <1>3, <2>1 DEF CProgress, C!Seeded
<1>6. PendingRight(p)' /\ \A t : ~At(p, t)'
  BY <1>3 DEF PendingRight, At
<1> QED
  BY <1>1, <1>2, <1>4, <1>5, <1>6 DEF HostTypes

LEMMA CCheck == ASSUME CInv, NEW p \in Instances, C!Check(p) PROVE CInv'
<1>1. cPc[p] = "check" /\ UNCHANGED C!dbVars /\ UNCHANGED <<cDeployment, cPending, pics, rows, items>>
  BY DEF C!Check, C!Goto, C!NextTable, C!dbVars
<1>2. HostTypes
  BY <1>1, CTypesAre
<1>3. CASE C!Contents(cTable[p]) # {} /\ C!NextTable(p) /\ UNCHANGED overlapped
  <2>1. /\ cTable[p] = "brands" => Complete("brands")
        /\ cTable[p] = "types" => Complete("brands") /\ Complete("types")
        /\ cTable[p] = "items" => Complete("brands") /\ Complete("types") /\ CompleteItems
    BY <1>1, <1>3 DEF CInv, CProgress, Filled, C!Contents, C!Lookups
  <2>2. /\ cTable[p] = "brands" => Complete("brands")'
        /\ cTable[p] = "types" => Complete("brands")' /\ Complete("types")'
        /\ cTable[p] = "items" => Complete("brands")' /\ Complete("types")' /\ CompleteItems'
    BY <1>1, <2>1, Grows DEF C!Lookups
  <2>3. /\ HostTypes' /\ PendingRight(p)' /\ CProgress(p)' /\ \A t : ~At(p, t)'
        /\ \A q \in Instances \ {p} :
              /\ cPc'[q] = cPc[q] /\ cTable'[q] = cTable[q] /\ cPending'[q] = cPending[q]
              /\ q \in cGaveUp' <=> q \in cGaveUp
    BY <1>1, <1>2, <1>3, <2>2, Passes
  <2>4. CTypes'
    BY <1>1, <2>3, CTypesAre
  <2> QED
    BY <1>1, <1>3, <2>3, <2>4, CStep
<1>4. CASE /\ C!Contents(cTable[p]) = {} /\ C!Goto(p, "add") /\ UNCHANGED cTable
           /\ overlapped' = IF \E q \in Instances \ {p} :
                                  cTable[q] = cTable[p] /\ cPc[q] \in {"add", "save"}
                            THEN overlapped \cup {cTable[p]} ELSE overlapped
  <2>1. cPc' = [cPc EXCEPT ![p] = "add"] /\ UNCHANGED <<cGaveUp, cFaults>>
    BY <1>4 DEF C!Goto
  <2>2. HostTypes' /\ cPc'[p] = "add"
    BY <1>1, <1>2, <1>4, <2>1 DEF HostTypes
  <2>3. CTypes'
    BY <1>1, <2>2, CTypesAre
  <2>4. CProgress(p)' /\ PendingRight(p)'
    <3>1. /\ cTable[p] # "brands" => Complete("brands")'
          /\ cTable[p] = "items" => Complete("types")'
      BY <1>1, Grows DEF CInv, CProgress, C!Lookups
    <3> QED
      BY <1>4, <2>2, <3>1 DEF CProgress, PendingRight, C!Seeded
  <2>5. ASSUME NEW t \in C!Lookups \cup {"items"}, t \notin overlapped', At(p, t)'
        PROVE  C!Contents(t)' = {} /\ \A q \in Instances \ {p} : ~At(q, t)
    <3>1. t = cTable[p]
      BY <1>4, <2>5 DEF At
    <3>2. C!Contents(t)' = {}
      BY <1>1, <1>4, <3>1 DEF C!Contents
    <3> QED
      BY <1>4, <2>5, <3>1, <3>2 DEF At
  <2>6. \A q \in Instances \ {p} : cPc'[q] = cPc[q]
    BY <1>2, <2>1 DEF HostTypes
  <2> QED
    BY <1>1, <1>4, <2>1, <2>3, <2>4, <2>5, <2>6, CStep
<1> QED
  BY <1>3, <1>4 DEF C!Check

\* The rows of a block that was drawn.
LEMMA FreshRows ==
    ASSUME CTypes, NEW t \in C!Lookups
    PROVE  /\ C!Fresh(t) \subseteq {r \in BrandRows : r.table = t /\ Numbered(r)}
           /\ \A n \in 1 .. Size : \E r \in C!Fresh(t) : r.name = n
           /\ \A r, s \in C!Fresh(t) : r.name = s.name => r = s
<1>1. block[t] \in Nat /\ Block \in Nat /\ Size \in Nat
  BY SourceFacts DEF CTypes, C!TypeOK
<1>2. block[t] * Block \in Nat
  BY <1>1
<1> DEFINE row(n) == [table |-> t, id |-> block[t] * Block + n, name |-> n]
<1>3. C!Fresh(t) = {row(n) : n \in 1 .. Size}
  BY DEF C!Fresh
<1>4. ASSUME NEW n \in 1 .. Size PROVE row(n) \in BrandRows /\ Numbered(row(n))
  <2>1. block[t] * Block + n \in Nat \ {0}
    BY <1>1, <1>2
  <2>2. row(n) \in BrandRows
    BY <2>1 DEF BrandRows
  <2>3. Numbered(row(n))
    BY <1>1 DEF Numbered
  <2> QED
    BY <2>2, <2>3
<1>5. \A n \in 1 .. Size : row(n).table = t /\ row(n).name = n
  OBVIOUS
<1> HIDE DEF row
<1> QED
  BY <1>3, <1>4, <1>5

LEMMA CAddLookup == ASSUME CInv, NEW p \in Instances, C!AddLookup(p) PROVE CInv'
<1>1. /\ cPc[p] = "add" /\ cTable[p] \in C!Lookups /\ C!Applied(p)
      /\ cPending' = [cPending EXCEPT ![p] = C!Fresh(cTable[p])]
      /\ cPc' = [cPc EXCEPT ![p] = "save"]
      /\ UNCHANGED <<cDeployment, cGaveUp, cFaults, cTable, pics, overlapped>>
  BY DEF C!AddLookup, C!Goto
<1>2. HostTypes /\ CTypes
  BY <1>1, CTypesAre DEF CInv
<1>3. HostTypes'
  BY <1>1, <1>2 DEF HostTypes
<1>4. CTypes'
  BY <1>1, <1>3, CTypesAre
<1>5. cPc'[p] = "save" /\ cPending'[p] = C!Fresh(cTable[p])
  BY <1>1, <1>2 DEF HostTypes
<1>6. PendingRight(p)'
  BY <1>1, <1>2, <1>5, FreshRows DEF PendingRight, PendingRows, Numbered, C!Lookups
<1>7. CProgress(p)'
  <2>1. cTable[p] # "brands" => Complete("brands")'
    BY <1>1, Grows DEF CInv, CProgress, C!Lookups
  <2> QED
    BY <1>1, <1>5, <2>1 DEF CProgress, C!Seeded, C!Lookups
<1>8. ASSUME NEW t \in C!Lookups \cup {"items"}, t \notin overlapped', At(p, t)'
      PROVE  C!Contents(t)' = {} /\ \A q \in Instances \ {p} : ~At(q, t)
  <2>1. At(p, t) /\ t \notin overlapped /\ cPc[p] # "save"
    BY <1>1, <1>8 DEF At
  <2>2. C!Contents(t)' = C!Contents(t)
    BY <1>1, <2>1, CEffect DEF Inserted
  <2> QED
    BY <2>1, <2>2 DEF CInv, FoundAlone
<1>9. \A q \in Instances \ {p} : cPc'[q] = cPc[q] /\ cPending'[q] = cPending[q]
  BY <1>1, <1>2 DEF HostTypes
<1> QED
  BY <1>1, <1>4, <1>6, <1>7, <1>8, <1>9, CStep

\* The lines of a file, each with the one row its brand and its type name.
LEMMA FiledItems ==
    ASSUME CInv, NEW p \in Instances, C!UseFile, ~C!LookupThrows, Complete("brands"), Complete("types")
    PROVE  /\ \A i \in C!FileItems(p) :
                 /\ i \in [name : {j.name : j \in C!Source}, brand : Nat, type : Nat, by : Instances]
                 /\ \E j \in C!Source : Written(i, j)
           /\ \A i \in Known : \E r \in C!FileItems(p) : r.name = i.name
           /\ \A r, s \in C!FileItems(p) : r.name = s.name => r = s
<1>1. \A t \in {"brands", "types"} : \A r, s \in C!Contents(t) : r.name = s.name => r = s
  BY DEF C!LookupThrows, C!Doubled, C!Lookups
<1>2. \A t \in {"brands", "types"} : \A r \in C!Contents(t) :
          r \in rows /\ r = [table |-> t, id |-> r.id, name |-> r.name] /\ r.id \in Nat
  BY DEF C!Contents, CInv, CTypes, C!TypeOK
<1>3. ASSUME NEW i \in C!FileItems(p)
      PROVE  \E x \in C!Source, b \in C!Contents("brands"), t \in C!Contents("types") :
                /\ i = [name |-> x.name, brand |-> b.id, type |-> t.id, by |-> p]
                /\ b.name = x.brand /\ t.name = x.type
  BY <1>3 DEF C!FileItems
<1>4. ASSUME NEW x \in C!Source, NEW b \in C!Contents("brands"), NEW t \in C!Contents("types"),
             b.name = x.brand, t.name = x.type
      PROVE  [name |-> x.name, brand |-> b.id, type |-> t.id, by |-> p] \in C!FileItems(p)
  <2>1. <<x, b, t>> \in {y \in C!Source \X C!Contents("brands") \X C!Contents("types") :
                            y[2].name = y[1].brand /\ y[3].name = y[1].type}
    BY <1>4
  <2> DEFINE Lines == {y \in C!Source \X C!Contents("brands") \X C!Contents("types") :
                           y[2].name = y[1].brand /\ y[3].name = y[1].type}
             item(y) == [name |-> y[1].name, brand |-> y[2].id, type |-> y[3].id, by |-> p]
  <2>2. C!FileItems(p) = {item(y) : y \in Lines}
    BY DEF C!FileItems
  <2>3. item(<<x, b, t>>) = [name |-> x.name, brand |-> b.id, type |-> t.id, by |-> p]
    OBVIOUS
  <2> HIDE DEF Lines, item
  <2>4. item(<<x, b, t>>) \in C!FileItems(p)
    BY <2>1, <2>2 DEF Lines
  <2> QED
    BY <2>3, <2>4
<1>5. ASSUME NEW i \in C!FileItems(p)
      PROVE  /\ i \in [name : {j.name : j \in C!Source}, brand : Nat, type : Nat, by : Instances]
             /\ \E j \in C!Source : Written(i, j)
  <2>1. PICK x \in C!Source, b \in C!Contents("brands"), t \in C!Contents("types") :
                /\ i = [name |-> x.name, brand |-> b.id, type |-> t.id, by |-> p]
                /\ b.name = x.brand /\ t.name = x.type
    BY <1>3
  <2>2. b.id \in Nat /\ t.id \in Nat
    BY <1>2
  <2>3. [table |-> "brands", id |-> b.id, name |-> x.brand] \in rows
        /\ [table |-> "types", id |-> t.id, name |-> x.type] \in rows
    BY <1>2, <2>1
  <2>4. Written(i, x)
    BY <2>1, <2>3 DEF Written
  <2> QED
    BY <2>1, <2>2, <2>4
<1>6. ASSUME NEW i \in Known PROVE \E r \in C!FileItems(p) : r.name = i.name
  <2>1. PICK b \in C!Contents("brands") : b.name = i.brand
    BY DEF Known, Complete, C!Named
  <2>2. PICK t \in C!Contents("types") : t.name = i.type
    BY DEF Known, Complete, C!Named
  <2> QED
    BY <1>4, <2>1, <2>2 DEF Known
<1>7. ASSUME NEW r \in C!FileItems(p), NEW s \in C!FileItems(p), r.name = s.name PROVE r = s
  <2>1. PICK x \in C!Source, b \in C!Contents("brands"), t \in C!Contents("types") :
                /\ r = [name |-> x.name, brand |-> b.id, type |-> t.id, by |-> p]
                /\ b.name = x.brand /\ t.name = x.type
    BY <1>3
  <2>2. PICK y \in C!Source, c \in C!Contents("brands"), u \in C!Contents("types") :
                /\ s = [name |-> y.name, brand |-> c.id, type |-> u.id, by |-> p]
                /\ c.name = y.brand /\ u.name = y.type
    BY <1>3
  <2>3. x = y
    BY <1>7, <2>1, <2>2, SourceFacts
  <2>4. b = c /\ t = u
    BY <1>1, <2>1, <2>2, <2>3
  <2> QED
    BY <2>1, <2>2, <2>3, <2>4
<1> QED
  BY <1>5, <1>6, <1>7

LEMMA PreconfiguredAre ==
    ASSUME NEW p \in Instances, ~C!UseFile
    PROVE  /\ \A i \in C!PreconfiguredItems(p) :
                 /\ i \in [name : {j.name : j \in C!Source}, brand : Nat, type : Nat, by : Instances]
                 /\ \E j \in C!Source : Written(i, j)
           /\ \A i \in Known : \E r \in C!PreconfiguredItems(p) : r.name = i.name
           /\ \A r, s \in C!PreconfiguredItems(p) : r.name = s.name => r = s
<1> DEFINE item(j) == [name |-> j.name, brand |-> j.brand, type |-> j.type, by |-> p]
<1>1. C!PreconfiguredItems(p) = {item(j) : j \in C!Source}
  BY DEF C!PreconfiguredItems
<1>2. ASSUME NEW j \in C!Source
      PROVE  /\ item(j) \in [name : {k.name : k \in C!Source}, brand : Nat, type : Nat, by : Instances]
             /\ Written(item(j), j) /\ item(j).name = j.name
  BY SourceFacts DEF Written
<1>3. Known \subseteq C!Source
  BY DEF Known
<1> HIDE DEF item
<1> QED
  BY <1>1, <1>2, <1>3, SourceFacts

LEMMA CAddItems == ASSUME CInv, NEW p \in Instances, C!AddItems(p) PROVE CInv'
<1>1. /\ cPc[p] = "add" /\ cTable[p] = "items" /\ UNCHANGED C!dbVars
      /\ UNCHANGED <<cDeployment, cFaults, cTable, pics, overlapped, rows, items>>
  BY DEF C!AddItems, C!Goto, C!GiveUp, C!Abandon, C!dbVars
<1>2. HostTypes
  BY <1>1, CTypesAre
<1>3. CASE C!LookupThrows /\ C!GiveUp(p) /\ UNCHANGED cPending
  <2>1. /\ cPc' \in {[cPc EXCEPT ![p] = "down"], [cPc EXCEPT ![p] = "running"]}
        /\ cGaveUp' = cGaveUp \cup {p}
    BY <1>3 DEF C!GiveUp, C!Abandon
  <2>2. cPc'[p] \in {"down", "running"} /\ p \in cGaveUp'
    BY <1>2, <2>1 DEF HostTypes
  <2>3. HostTypes'
    BY <1>1, <1>2, <1>3, <2>1 DEF HostTypes
  <2>4. CTypes'
    BY <1>1, <2>3, CTypesAre
  <2>5. PendingRight(p)' /\ CProgress(p)' /\ \A t : ~At(p, t)'
    BY <2>2 DEF PendingRight, CProgress, C!Seeded, At
  <2>6. \A q \in Instances \ {p} : cPc'[q] = cPc[q] /\ (q \in cGaveUp' <=> q \in cGaveUp)
    BY <1>2, <2>1 DEF HostTypes
  <2> QED
    BY <1>1, <1>3, <2>4, <2>5, <2>6, CStep
<1>4. CASE /\ ~C!LookupThrows
           /\ cPending' = [cPending EXCEPT ![p] =
                               IF C!UseFile THEN C!FileItems(p) ELSE C!PreconfiguredItems(p)]
           /\ C!Goto(p, "save")
  <2>1. cPc' = [cPc EXCEPT ![p] = "save"] /\ UNCHANGED cGaveUp
    BY <1>4 DEF C!Goto
  <2>2. cPc'[p] = "save"
        /\ cPending'[p] = IF C!UseFile THEN C!FileItems(p) ELSE C!PreconfiguredItems(p)
    BY <1>2, <1>4, <2>1 DEF HostTypes
  <2>3. HostTypes'
    BY <1>1, <1>2, <1>4, <2>1 DEF HostTypes
  <2>4. CTypes'
    BY <1>1, <2>3, CTypesAre
  <2>5. Complete("brands") /\ Complete("types")
    BY <1>1 DEF CInv, CProgress
  <2>6. /\ \A i \in cPending'[p] :
              /\ i \in [name : {j.name : j \in C!Source}, brand : Nat, type : Nat, by : Instances]
              /\ \E j \in C!Source : Written(i, j)
        /\ \A i \in Known : \E r \in cPending'[p] : r.name = i.name
        /\ \A r, s \in cPending'[p] : r.name = s.name => r = s
    BY <1>4, <2>2, <2>5, FiledItems, PreconfiguredAre
  <2>7. PendingRight(p)'
    <3>1. C!Source' = C!Source /\ Known' = Known /\ \A i, j : Written(i, j) => Written(i, j)'
      BY <1>1, Grows
    <3>2. PendingItems(p)'
      BY <2>6, <3>1 DEF PendingItems
    <3> QED
      BY <1>1, <3>2 DEF PendingRight
  <2>8. CProgress(p)'
    <3>1. Complete("brands")' /\ Complete("types")'
      BY <1>1, <2>5, Grows DEF C!Lookups
    <3> QED
      BY <1>1, <2>2, <3>1 DEF CProgress, C!Seeded
  <2>9. ASSUME NEW t \in C!Lookups \cup {"items"}, t \notin overlapped', At(p, t)'
        PROVE  C!Contents(t)' = {} /\ \A q \in Instances \ {p} : ~At(q, t)
    <3>1. At(p, t) /\ t \notin overlapped
      BY <1>1, <2>9 DEF At
    <3>2. C!Contents(t)' = C!Contents(t)
      BY <1>1 DEF C!Contents
    <3> QED
      BY <3>1, <3>2 DEF CInv, FoundAlone
  <2>10. \A q \in Instances \ {p} : cPc'[q] = cPc[q] /\ cPending'[q] = cPending[q]
    BY <1>2, <1>4, <2>1 DEF HostTypes
  <2> QED
    BY <1>1, <2>1, <2>4, <2>7, <2>8, <2>9, <2>10, CStep
<1> QED
  BY <1>3, <1>4 DEF C!AddItems

\* The instance gives up, is stopped or stops: it has nothing left to save.
LEMMA Leaves ==
    ASSUME CInv, NEW p \in Instances, C!Applied(p) \/ UNCHANGED C!dbVars,
           UNCHANGED <<cDeployment, cTable, overlapped>>,
           cPending' = [cPending EXCEPT ![p] = {}], cFaults' \in 0 .. MaxFaults,
           pics' \in {pics, [pics EXCEPT ![p] = "none"]},
           \/ cPc' = [cPc EXCEPT ![p] = "down"] /\ cGaveUp' \in {cGaveUp, cGaveUp \cup {p}}
           \/ cPc' = [cPc EXCEPT ![p] = "running"] /\ cGaveUp' = cGaveUp \cup {p}
    PROVE  CInv'
<1>1. HostTypes
  BY CTypesAre
<1>2. HostTypes'
  BY <1>1 DEF HostTypes
<1>3. CTypes'
  BY <1>2, CTypesAre
<1>4. cPc'[p] = "down" \/ (cPc'[p] = "running" /\ p \in cGaveUp')
  BY <1>1 DEF HostTypes
<1>5. PendingRight(p)' /\ CProgress(p)' /\ \A t : ~At(p, t)'
  BY <1>4 DEF PendingRight, CProgress, C!Seeded, At
<1>6. \A q \in Instances \ {p} :
          cPc'[q] = cPc[q] /\ cPending'[q] = cPending[q] /\ (q \in cGaveUp' <=> q \in cGaveUp)
  BY <1>1 DEF HostTypes
<1> QED
  BY <1>3, <1>5, <1>6, CStep

\* A save that succeeds completes its table.
LEMMA Completes ==
    ASSUME CInv, NEW p \in Instances, cPc[p] = "save", C!Applied(p), UNCHANGED cDeployment, C!Referential(p)
    PROVE  /\ cTable[p] = "brands" => Complete("brands")'
           /\ cTable[p] = "types" => Complete("brands")' /\ Complete("types")'
           /\ cTable[p] = "items" => Complete("brands")' /\ Complete("types")' /\ CompleteItems'
<1>1. ASSUME NEW t \in C!Lookups, cTable[p] = t PROVE Complete(t)'
  <2>1. PendingRows(p)
    BY <1>1 DEF CInv, PendingRight, C!Lookups
  <2>2. C!Contents(t)' = C!Contents(t) \cup cPending[p]
    BY <1>1, <2>1 DEF C!Applied, C!Contents, PendingRows, C!Lookups
  <2> QED
    BY <2>1, <2>2 DEF PendingRows, Complete, C!Named
<1>2. ASSUME cTable[p] = "items" PROVE CompleteItems'
  <2>1. PendingItems(p) /\ items' = items \cup cPending[p] /\ Known' = Known
    BY <1>2, Grows DEF CInv, PendingRight, C!Applied
  <2> QED
    BY <2>1 DEF PendingItems, CompleteItems, C!Named, C!Contents
<1>3. /\ cTable[p] # "brands" => Complete("brands")'
      /\ cTable[p] = "items" => Complete("types")'
  BY Grows DEF CInv, CProgress, C!Lookups
<1> QED
  BY <1>1, <1>2, <1>3 DEF C!Lookups

LEMMA CSave == ASSUME CInv, NEW p \in Instances, C!Save(p) PROVE CInv'
<1>1. /\ cPc[p] = "save" /\ C!Applied(p) /\ cPending' = [cPending EXCEPT ![p] = {}]
      /\ UNCHANGED <<cDeployment, cFaults, pics, overlapped>>
  BY DEF C!Save, C!Goto, C!GiveUp, C!Abandon, C!NextTable
<1>2. HostTypes /\ cPending'[p] = {}
  BY <1>1, CTypesAre DEF HostTypes
<1>3. CASE ~C!Referential(p) /\ C!GiveUp(p) /\ UNCHANGED cTable
  <2>1. /\ cPc' \in {[cPc EXCEPT ![p] = "down"], [cPc EXCEPT ![p] = "running"]}
        /\ cGaveUp' = cGaveUp \cup {p}
    BY <1>3 DEF C!GiveUp, C!Abandon
  <2>2. cFaults' \in 0 .. MaxFaults
    BY <1>1, <1>2 DEF HostTypes
  <2> QED
    BY <1>1, <1>3, <2>1, <2>2, Leaves
<1>4. CASE C!Referential(p) /\ cTable[p] = "items" /\ C!Goto(p, "delete") /\ UNCHANGED cTable
  <2>1. cPc' = [cPc EXCEPT ![p] = "delete"] /\ UNCHANGED cGaveUp
    BY <1>4 DEF C!Goto
  <2>2. cPc'[p] = "delete"
    BY <1>2, <2>1 DEF HostTypes
  <2>3. HostTypes'
    BY <1>1, <1>2, <1>4, <2>1 DEF HostTypes
  <2>4. CTypes'
    BY <1>1, <2>3, CTypesAre
  <2>5. PendingRight(p)' /\ CProgress(p)' /\ \A t : ~At(p, t)'
    BY <1>1, <1>4, <2>2, Completes DEF PendingRight, CProgress, C!Seeded, At
  <2>6. \A q \in Instances \ {p} : cPc'[q] = cPc[q] /\ cPending'[q] = cPending[q]
    BY <1>1, <1>2, <2>1 DEF HostTypes
  <2> QED
    BY <1>1, <1>4, <2>1, <2>4, <2>5, <2>6, CStep
<1>5. CASE C!Referential(p) /\ cTable[p] # "items" /\ C!NextTable(p)
  <2>1. /\ HostTypes' /\ PendingRight(p)' /\ CProgress(p)' /\ \A t : ~At(p, t)'
        /\ \A q \in Instances \ {p} :
              /\ cPc'[q] = cPc[q] /\ cTable'[q] = cTable[q] /\ cPending'[q] = cPending[q]
              /\ q \in cGaveUp' <=> q \in cGaveUp
    BY <1>1, <1>2, <1>5, Completes, Passes
  <2>2. CTypes'
    BY <1>1, <2>1, CTypesAre
  <2> QED
    BY <1>1, <2>1, <2>2, CStep
<1> QED
  BY <1>3, <1>4, <1>5 DEF C!Save

LEMMA CPictures ==
    ASSUME CInv, NEW p \in Instances, C!DeletePictures(p) \/ C!ExtractPictures(p)
    PROVE  CInv'
<1>1. PICK to \in {"extract", "running"}, pic \in {"none", "seeded"} :
          /\ cPc[p] \in {"delete", "extract"} /\ cPc' = [cPc EXCEPT ![p] = to]
          /\ pics' = [pics EXCEPT ![p] = pic] /\ UNCHANGED C!dbVars
          /\ UNCHANGED <<cDeployment, cGaveUp, cFaults, cTable, cPending, overlapped>>
  BY DEF C!DeletePictures, C!ExtractPictures, C!Goto
<1>2. HostTypes
  BY <1>1, CTypesAre
<1>3. cPc'[p] = to
  BY <1>1, <1>2 DEF HostTypes
<1>4. HostTypes'
  BY <1>1, <1>2 DEF HostTypes
<1>5. CTypes'
  BY <1>1, <1>4, CTypesAre
<1>6. Complete("brands")' /\ Complete("types")' /\ CompleteItems'
  BY <1>1, Grows DEF CInv, CProgress, C!Lookups
<1>7. PendingRight(p)' /\ CProgress(p)' /\ \A t : ~At(p, t)'
  BY <1>3, <1>6 DEF PendingRight, CProgress, C!Seeded, At
<1>8. \A q \in Instances \ {p} : cPc'[q] = cPc[q]
  BY <1>1, <1>2 DEF HostTypes
<1> QED
  BY <1>1, <1>5, <1>7, <1>8, CStep

LEMMA CInterrupted == ASSUME CInv, NEW p \in Instances, C!Interrupted(p) PROVE CInv'
<1>1. /\ C!Applied(p) \/ UNCHANGED C!dbVars
      /\ cPending' = [cPending EXCEPT ![p] = {}]
      /\ pics' \in {pics, [pics EXCEPT ![p] = "none"]}
      /\ cFaults < MaxFaults /\ cFaults' = cFaults + 1
      /\ UNCHANGED <<cDeployment, cTable, overlapped>>
      /\ \/ cPc' = [cPc EXCEPT ![p] = "down"] /\ cGaveUp' \in {cGaveUp, cGaveUp \cup {p}}
         \/ cPc' = [cPc EXCEPT ![p] = "running"] /\ cGaveUp' = cGaveUp \cup {p}
  BY DEF C!Interrupted, C!Fail, C!Stop, C!Abandon
<1>2. cFaults' \in 0 .. MaxFaults
  BY <1>1, HostAssumption DEF CInv, CTypes, C!TypeOK
<1> QED
  BY <1>1, <1>2, Leaves

LEMMA CNext == CInv /\ [C!Next]_C!vars => CInv'
<1> SUFFICES ASSUME CInv, [C!Next]_C!vars PROVE CInv'
  OBVIOUS
<1>1. CASE UNCHANGED C!vars
  <2>1. UNCHANGED <<cDeployment, cPc, cGaveUp, cFaults, cMigrated, rows, items, block, cTable, cPending,
                    pics, overlapped>>
    BY <1>1 DEF C!vars, C!hostVars, C!dbVars
  <2>2. C!Source' = C!Source /\ C!UseFile' = C!UseFile /\ Known' = Known
        /\ \A t : C!Contents(t)' = C!Contents(t)
    BY <2>1 DEF C!Source, C!UseFile, Known, C!Contents
  <2>3. CTypes'
    BY <2>1, <2>2 DEF CInv, CTypes, C!TypeOK
  <2>4. /\ \A t : Complete(t)' = Complete(t)
        /\ CompleteItems' = CompleteItems
    BY <2>1, <2>2 DEF Complete, CompleteItems, C!Named
  <2>5. Filled'
    BY <2>1, <2>2, <2>4 DEF CInv, Filled, C!FiledRight, Numbered
  <2>6. FoundAlone'
    BY <2>1, <2>2 DEF CInv, FoundAlone, At, C!Doubled
  <2>7. \A p \in Instances : CProgress(p)'
    BY <2>1, <2>4 DEF CInv, CProgress, C!Seeded
  <2>8. ASSUME NEW p \in Instances PROVE PendingRight(p)'
    <3>1. \A i, j : Written(i, j)' = Written(i, j)
      BY <2>1, <2>2 DEF Written
    <3>2. PendingItems(p)' = PendingItems(p)
      BY <2>1, <2>2, <3>1 DEF PendingItems
    <3>3. PendingRows(p)' = PendingRows(p)
      BY <2>1 DEF PendingRows, Numbered
    <3> QED
      BY <2>1, <3>2, <3>3 DEF CInv, PendingRight
  <2> QED
    BY <2>3, <2>5, <2>6, <2>7, <2>8 DEF CInv
<1>2. ASSUME NEW p \in Instances, C!Start(p) \/ C!SeedAsync(p) \/ C!Interrupted(p) PROVE CInv'
  BY <1>2, CStart, CMigrate, CCheck, CAddLookup, CAddItems, CSave, CPictures, CInterrupted DEF C!SeedAsync
<1> QED
  BY <1>1, <1>2 DEF C!Next

\* Whatever instances race, fail and restart, with a file or with the preconfigured
\* items: names are doubled by overlapping checks only, who serves without having
\* given up serves the whole catalog, and items are filed under what they name.
THEOREM CatalogIsExplained == C!Spec => []CatalogExplained
<1>1. CInv => CatalogExplained
  <2> SUFFICES ASSUME CInv PROVE CatalogExplained
    OBVIOUS
  <2>1. C!TypeOK /\ C!FiledRight
    BY DEF CInv, CTypes, Filled
  <2>2. C!DuplicatesExplained
    BY DEF CInv, FoundAlone, C!DuplicatesExplained
  <2>3. C!CompleteCatalog
    BY DEF CInv, CProgress, C!CompleteCatalog, Complete, CompleteItems, Known, C!Lookups
  <2> QED
    BY <2>1, <2>2, <2>3 DEF CatalogExplained, C!CatalogExplained
<1> QED
  BY CInit, CNext, <1>1, PTL DEF C!Spec

\* Items are there, and with them brands and types, when pictures are replaced.
ItemsThere == items # {} /\ \A t \in C!Lookups : C!Contents(t) # {}
Missing    == \A p \in Instances : pics[p] = "none" => ItemsThere

LEMMA ItemsMakeRows == CInv /\ items # {} => ItemsThere
<1> SUFFICES ASSUME CInv, items # {} PROVE ItemsThere
  OBVIOUS
<1>1. PICK i \in items, j \in C!Source : i.name = j.name
  BY DEF CInv, CTypes, C!TypeOK
<1>2. [table |-> "brands", id |-> i.brand, name |-> j.brand] \in rows
      /\ [table |-> "types", id |-> i.type, name |-> j.type] \in rows
  BY <1>1 DEF CInv, Filled, C!FiledRight
<1> QED
  BY <1>2 DEF ItemsThere, C!Contents, C!Lookups

LEMMA StaysThere ==
    ASSUME CInv, ItemsThere, C!Next \/ UNCHANGED C!vars
    PROVE  ItemsThere'
<1>1. ASSUME NEW p \in Instances, C!Applied(p) \/ UNCHANGED C!dbVars, UNCHANGED cDeployment
      PROVE  ItemsThere'
  <2>1. \A t \in C!Lookups \cup {"items"} : C!Contents(t) \subseteq C!Contents(t)'
    BY <1>1, CEffect
  <2>2. \A t \in C!Lookups \cup {"items"} : C!Contents(t) # {}
    BY DEF ItemsThere, C!Contents, C!Lookups
  <2>3. \A t \in C!Lookups \cup {"items"} : C!Contents(t)' # {}
    BY <2>1, <2>2
  <2> QED
    BY <2>3 DEF ItemsThere, C!Contents, C!Lookups
<1>2. ASSUME NEW p \in Instances, C!Start(p) \/ C!SeedAsync(p) \/ C!Interrupted(p)
      PROVE  (C!Applied(p) \/ UNCHANGED C!dbVars) /\ UNCHANGED cDeployment
  BY <1>2 DEF C!Start, C!Begin, C!SeedAsync, C!Migrate, C!Check, C!AddLookup, C!AddItems, C!Save,
     C!DeletePictures, C!ExtractPictures, C!Interrupted, C!Goto, C!GiveUp, C!Abandon, C!Fail, C!Stop, C!NextTable
<1>3. CASE UNCHANGED C!vars
  BY <1>3 DEF ItemsThere, C!Contents, C!vars, C!dbVars
<1> QED
  BY <1>1, <1>2, <1>3 DEF C!Next

LEMMA MissingKept == CInv /\ Missing /\ [C!Next]_C!vars => Missing'
<1> SUFFICES ASSUME CInv, Missing, [C!Next]_C!vars, NEW p \in Instances, pics'[p] = "none"
             PROVE  ItemsThere'
  BY DEF Missing
<1>1. CASE pics[p] = "none"
  BY <1>1, StaysThere DEF Missing
<1>2. CASE pics[p] # "none"
  <2>1. pics' # pics
    BY <1>2
  <2>2. PICK q \in Instances : /\ C!Start(q) \/ C!DeletePictures(q) \/ C!ExtractPictures(q) \/ C!Interrupted(q)
    BY <2>1 DEF C!Next, C!vars, C!SeedAsync, C!Migrate, C!Check, C!AddLookup, C!AddItems, C!Save
  <2>3. q = p /\ cPc[p] = "delete"
    BY <1>2, <2>2 DEF C!Start, C!DeletePictures, C!ExtractPictures, C!Interrupted, CInv, CTypes, C!TypeOK
  <2>4. CompleteItems
    BY <2>3 DEF CInv, CProgress
  <2>5. \E i \in Known : TRUE
    BY SourcesAssumption DEF Known, C!Source, C!UseFile, CInv, CTypes
  <2>6. items # {}
    BY <2>4, <2>5 DEF CompleteItems, C!Named, C!Contents
  <2> QED
    BY <2>6, ItemsMakeRows, StaysThere
<1> QED
  BY <1>1, <1>2

\* An instance that lost its pictures finds nothing to seed.
Lost(p) ==
    /\ pics[p] = "none" /\ ~C!UnderK8s /\ ItemsThere
    /\ cPc[p] \in {"down", "migrate", "check", "running"}

LEMMA LostKept == ASSUME NEW p \in Instances PROVE CInv /\ Lost(p) /\ [C!Next]_C!vars => Lost(p)'
<1> SUFFICES ASSUME CInv, Lost(p), [C!Next]_C!vars PROVE Lost(p)'
  OBVIOUS
<1>1. ItemsThere'
  BY StaysThere DEF Lost
<1>2. CASE UNCHANGED C!vars
  BY <1>1, <1>2 DEF Lost, C!UnderK8s, C!vars, C!hostVars
<1>3. ASSUME NEW q \in Instances, C!Start(q) \/ C!SeedAsync(q) \/ C!Interrupted(q)
      PROVE  Lost(p)'
  <2>1. UNCHANGED cDeployment
    BY <1>3 DEF C!Start, C!Begin, C!SeedAsync, C!Migrate, C!Check, C!AddLookup, C!AddItems, C!Save,
       C!DeletePictures, C!ExtractPictures, C!Interrupted, C!Goto, C!GiveUp, C!Abandon, C!Fail, C!Stop, C!NextTable
  <2>2. /\ cPc \in [Instances -> {"down", "migrate", "check", "add", "save", "delete", "extract", "running"}]
        /\ pics \in [Instances -> {"shipped", "none", "seeded"}]
        /\ cTable \in [Instances -> C!Lookups \cup {"items"}]
    BY DEF CInv, CTypes, C!TypeOK
  <2>3. CASE q # p
    <3>1. cPc'[p] = cPc[p] /\ pics'[p] = pics[p]
      BY <1>3, <2>2, <2>3 DEF C!Start, C!Begin, C!SeedAsync, C!Migrate, C!Check, C!AddLookup, C!AddItems,
         C!Save, C!DeletePictures, C!ExtractPictures, C!Interrupted, C!Goto, C!GiveUp, C!Abandon, C!Fail,
         C!Stop, C!NextTable
    <3> QED
      BY <1>1, <2>1, <3>1 DEF Lost, C!UnderK8s
  <2>4. CASE q = p
    <3>1. C!Contents(cTable[p]) # {}
      BY <2>2 DEF Lost, ItemsThere, C!Contents, C!Lookups
    <3>2. C!Start(p) \/ C!Migrate(p) \/ C!Check(p) \/ C!Interrupted(p)
      BY <1>3, <2>4 DEF Lost, C!SeedAsync, C!AddLookup, C!AddItems, C!Save, C!DeletePictures, C!ExtractPictures
    <3>3. cPc'[p] \in {"down", "migrate", "check", "running"}
      BY <2>2, <3>1, <3>2 DEF C!Start, C!Begin, C!Migrate, C!Check, C!Interrupted, C!Goto, C!Abandon, C!Fail,
         C!Stop, C!NextTable
    <3>4. pics'[p] = "none"
      BY <2>2, <3>2 DEF Lost, C!Start, C!Migrate, C!Check, C!Interrupted
    <3> QED
      BY <1>1, <2>1, <3>3, <3>4 DEF Lost, C!UnderK8s
  <2> QED
    BY <2>3, <2>4
<1> QED
  BY <1>2, <1>3 DEF C!Next

\* What no later start repairs, of any instance: names that were doubled keep the
\* items of a file from being inserted, and pictures lost on a disk stay lost.
THEOREM CatalogStaysBroken == C!Spec => StaysBroken
<1>1. C!Spec => []CInv
  BY CInit, CNext, PTL DEF C!Spec
<1>2. C!Spec => [](CInv /\ Missing)
  <2>1. C!Init => Missing
    BY DEF C!Init, Missing
  <2> QED
    BY <1>1, <2>1, MissingKept, PTL DEF C!Spec
<1>3. C!Spec => C!DoubledNameStopsSeeding
  <2>1. ASSUME CInv, [C!Next]_C!vars
        PROVE  [ /\ C!UseFile /\ items = {} /\ \E t \in C!Lookups : C!Doubled(t)
                 /\ \A p \in Instances : cTable[p] = "items" => cPc[p] # "save"
                 => /\ items' = {}
                    /\ \A p \in Instances : cTable'[p] = "items" => cPc'[p] # "save" ]_C!vars
    <3> SUFFICES ASSUME C!Next, C!UseFile, items = {}, C!LookupThrows,
                        \A p \in Instances : cTable[p] = "items" => cPc[p] # "save"
                 PROVE  /\ items' = {}
                        /\ \A p \in Instances : cTable'[p] = "items" => cPc'[p] # "save"
      BY <2>1 DEF C!LookupThrows
    <3>1. PICK q \in Instances : C!Start(q) \/ C!SeedAsync(q) \/ C!Interrupted(q)
      BY DEF C!Next
    <3>2. items' = {}
      BY <3>1 DEF C!Start, C!SeedAsync, C!Migrate, C!Check, C!AddLookup, C!AddItems, C!Save,
         C!DeletePictures, C!ExtractPictures, C!Interrupted, C!Applied, C!dbVars
    <3>3. /\ cPc \in [Instances -> {"down", "migrate", "check", "add", "save", "delete", "extract", "running"}]
          /\ cTable \in [Instances -> C!Lookups \cup {"items"}]
      BY <2>1 DEF CInv, CTypes, C!TypeOK
    <3>4. ASSUME NEW p \in Instances, cTable'[p] = "items", cPc'[p] = "save" PROVE FALSE
      <4>1. cTable[p] = "items" => cPc[p] # "save"
        OBVIOUS
      <4>2. CASE p # q
        BY <3>1, <3>3, <3>4, <4>1, <4>2 DEF C!Start, C!Begin, C!SeedAsync, C!Migrate, C!Check, C!AddLookup,
           C!AddItems, C!Save, C!DeletePictures, C!ExtractPictures, C!Interrupted, C!Goto, C!GiveUp, C!Abandon,
           C!Fail, C!Stop, C!NextTable
      <4>3. CASE p = q
        BY <3>1, <3>3, <3>4, <4>1, <4>3 DEF C!Start, C!Begin, C!SeedAsync, C!Migrate, C!Check, C!AddLookup,
           C!AddItems, C!Save, C!DeletePictures, C!ExtractPictures, C!Interrupted, C!Goto, C!GiveUp, C!Abandon,
           C!Fail, C!Stop, C!NextTable, C!Lookups
      <4> QED
        BY <4>2, <4>3
    <3> QED
      BY <3>2, <3>4
  <2> QED
    BY <1>1, <2>1, PTL DEF C!Spec, C!DoubledNameStopsSeeding
<1>4. ASSUME NEW p \in Instances
      PROVE  C!Spec => []( pics[p] = "none" /\ cPc[p] = "down" /\ ~C!UnderK8s => [](pics[p] = "none") )
  <2>1. CInv /\ Missing /\ pics[p] = "none" /\ cPc[p] = "down" /\ ~C!UnderK8s => Lost(p)
    BY DEF Missing, Lost
  <2>2. Lost(p) => pics[p] = "none"
    BY DEF Lost
  <2>3. CInv /\ Lost(p) /\ [C!Next]_C!vars => Lost(p)'
    BY LostKept
  <2> QED
    BY <1>2, <2>1, <2>2, <2>3, PTL DEF C!Spec
<1>5. C!Spec => C!LostPicturesStayLost
  BY <1>4 DEF C!LostPicturesStayLost
<1> QED
  BY <1>3, <1>5 DEF StaysBroken, C!StaysBroken
=============================================================================

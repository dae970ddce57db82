------------------------- MODULE IdentitySeedProofs -------------------------
(***************************************************************************)
(* For every set of instances, with the retry policy or without, and any   *)
(* number of failures: type correctness of IdentitySeed, that an instance  *)
(* serves only with both users, and that a context with a user from a      *)
(* failed insert never inserts again.  It is about IdentitySeed as MCSeeds     *)
(* instantiates it, with all of Instances and without MCSeeds's bounds.    *)
(***************************************************************************)
EXTENDS MCSeeds, TLAPS

\* A save inserts the user its instance is at.
SaveTracksName == \A p \in Instances : iPc[p] = "save" => tracked[p][name[p]] > 0

\* Bob is added by who has found alice, and alice stays.
BobAfterAlice == \A p \in Instances : tracked[p]["bob"] > 0 => users["alice"] # None

IInv ==
    /\ I!TypeOK
    /\ I!ServesBoth
    /\ SaveTracksName
    /\ BobAfterAlice

LEMMA InitIInv == ASSUME I!Init PROVE IInv
  <1> USE UsersAssumption DEF I!IdentityAssumption, I!Init, I!Names, I!NoneTracked
  <1>1. I!TypeOK
    BY DEF I!TypeOK
  <1>2. I!ServesBoth /\ SaveTracksName /\ BobAfterAlice
    BY DEF I!ServesBoth, SaveTracksName, BobAfterAlice
  <1> QED BY <1>1, <1>2 DEF IInv

\* A step at a save inserts what is tracked, if nothing conflicts; users are
\* never removed or replaced.
LEMMA Insertion ==
    ASSUME IInv, NEW p \in Instances, I!Inserted(p) \/ UNCHANGED users
    PROVE  /\ users' \in [I!Names -> Instances \cup {None}]
           /\ \A n \in I!Names : users[n] # None => users'[n] = users[n]
           /\ \A n \in I!Names : users'[n] # users[n] =>
                 users'[n] = p /\ iPc[p] = "save" /\ ~I!Conflict(p)
  <1> USE DEF IInv, I!TypeOK, I!Names
  <1>1. CASE iPc[p] = "save" /\ ~I!Conflict(p) /\ I!Inserted(p)
    <2>1. users' = [n \in I!Names |-> IF tracked[p][n] > 0 THEN p ELSE users[n]]
      BY <1>1 DEF I!Inserted
    <2>2. \A n \in I!Names : tracked[p][n] \in 0 .. 2
      OBVIOUS
    <2>3. \A n \in I!Names : tracked[p][n] > 0 => users[n] = None
      BY <1>1, <2>2 DEF I!Conflict
    <2>4. users' \in [I!Names -> Instances \cup {None}]
      BY <2>1
    <2>5. \A n \in I!Names : users[n] # None => users'[n] = users[n]
      BY <2>1, <2>3
    <2> QED BY <1>1, <2>1, <2>4, <2>5
  <1>2. CASE users' = users
    BY <1>2
  <1> QED BY <1>1, <1>2 DEF I!Inserted

\* What a step needs to show of its own instance when users are only added.
LEMMA OwnStep ==
    ASSUME IInv, NEW p \in Instances, NEW q \in I!Names,
           NEW c \in {"down", "migrate", "find", "create", "save", "running"},
           NEW t \in [I!Names -> 0 .. 2],
           iPc' = [iPc EXCEPT ![p] = c],
           name' = [name EXCEPT ![p] = q],
           tracked' = [tracked EXCEPT ![p] = t],
           users' \in [I!Names -> Instances \cup {None}],
           \A n \in I!Names : users[n] # None => users'[n] = users[n],
           iFaults' \in 0 .. MaxFaults,
           q = "bob" /\ c \in {"find", "create", "save"} => users'["alice"] # None,
           c = "running" => \A n \in I!Names : users'[n] # None,
           c = "save" => t[q] > 0,
           t["bob"] > 0 => users'["alice"] # None
    PROVE  IInv'
  <1> USE DEF IInv, I!TypeOK, I!Names
  <1>1. I!TypeOK'
    OBVIOUS
  <1>2. I!ServesBoth' /\ SaveTracksName' /\ BobAfterAlice'
    BY DEF I!ServesBoth, SaveTracksName, BobAfterAlice
  <1> QED BY <1>1, <1>2

\* The policy, or the end of the process, forgets nothing that has to be known.
LEMMA ThrowKeeps ==
    ASSUME IInv, NEW p \in Instances, I!Throw(p), UNCHANGED name,
           users' \in [I!Names -> Instances \cup {None}],
           \A n \in I!Names : users[n] # None => users'[n] = users[n],
           iFaults' \in 0 .. MaxFaults
    PROVE  IInv'
  <1> USE DEF IInv, I!TypeOK
  <1>1. name[p] \in I!Names /\ name' = [name EXCEPT ![p] = name[p]]
    OBVIOUS
  <1>2. CASE I!Goto(p, "migrate") /\ UNCHANGED tracked
    <2>1. tracked[p] \in [I!Names -> 0 .. 2] /\ tracked' = [tracked EXCEPT ![p] = tracked[p]]
      BY <1>2
    <2>2. tracked[p]["bob"] > 0 => users'["alice"] # None
      BY DEF BobAfterAlice, I!Names
    <2>3. iPc' = [iPc EXCEPT ![p] = "migrate"]
      BY <1>2 DEF I!Goto
    <2> QED BY <1>1, <2>1, <2>2, <2>3, OwnStep
  <1>3. CASE I!Goto(p, "down") /\ tracked' = [tracked EXCEPT ![p] = I!NoneTracked]
    <2>1. I!NoneTracked \in [I!Names -> 0 .. 2] /\ ~(I!NoneTracked["bob"] > 0)
      BY DEF I!NoneTracked, I!Names
    <2>2. iPc' = [iPc EXCEPT ![p] = "down"]
      BY <1>3 DEF I!Goto
    <2>3. tracked' = [tracked EXCEPT ![p] = I!NoneTracked]
      BY <1>3
    <2> HIDE DEF IInv, I!TypeOK
    <2> QED BY <1>1, <2>1, <2>2, <2>3, OwnStep
  <1> QED BY <1>2, <1>3 DEF I!Throw

LEMMA StartKeeps == ASSUME IInv, NEW p \in Instances, I!Start(p) PROVE IInv'
  <1> USE DEF IInv, I!TypeOK
  <1>1. /\ name[p] \in I!Names /\ name' = [name EXCEPT ![p] = name[p]]
        /\ tracked[p] \in [I!Names -> 0 .. 2] /\ tracked' = [tracked EXCEPT ![p] = tracked[p]]
        /\ users' = users /\ iFaults' = iFaults /\ iPc' = [iPc EXCEPT ![p] = "migrate"]
    BY DEF I!Start, I!Goto
  <1>2. tracked[p]["bob"] > 0 => users'["alice"] # None
    BY <1>1 DEF BobAfterAlice
  <1> QED BY <1>1, <1>2, OwnStep

LEMMA MigrateKeeps == ASSUME IInv, NEW p \in Instances, I!MigrateAsync(p) PROVE IInv'
  <1> USE DEF IInv, I!TypeOK
  <1>1. /\ name' = [name EXCEPT ![p] = "alice"] /\ "alice" \in I!Names
        /\ tracked[p] \in [I!Names -> 0 .. 2] /\ tracked' = [tracked EXCEPT ![p] = tracked[p]]
        /\ users' = users /\ iFaults' = iFaults /\ iPc' = [iPc EXCEPT ![p] = "find"]
    BY DEF I!MigrateAsync, I!Goto, I!Names
  <1>2. tracked[p]["bob"] > 0 => users'["alice"] # None
    BY <1>1 DEF BobAfterAlice
  <1> QED BY <1>1, <1>2, OwnStep

\* Going on after a user that is in the table now.
LEMMA NextUserKeeps ==
    ASSUME IInv, NEW p \in Instances, I!NextUser(p), iPc[p] \in {"find", "save"},
           NEW t \in [I!Names -> 0 .. 2], tracked' = [tracked EXCEPT ![p] = t],
           t["bob"] > 0 => users'["alice"] # None,
           users' \in [I!Names -> Instances \cup {None}],
           \A n \in I!Names : users[n] # None => users'[n] = users[n],
           users'[name[p]] # None, iFaults' = iFaults
    PROVE  IInv'
  <1> USE DEF IInv, I!TypeOK, I!Names
  <1>1. name' = [name EXCEPT ![p] = "bob"] /\ "bob" \in I!Names
    BY DEF I!NextUser
  <1>2. CASE name[p] = "alice"
    <2>1. iPc' = [iPc EXCEPT ![p] = "find"]
      BY <1>2 DEF I!NextUser, I!Goto
    <2> QED BY <1>1, <1>2, <2>1, OwnStep
  <1>3. CASE name[p] = "bob"
    <2>1. iPc' = [iPc EXCEPT ![p] = "running"]
      BY <1>3 DEF I!NextUser, I!Goto
    <2>2. \A n \in I!Names : users'[n] # None
      BY <1>3
    <2> QED BY <1>1, <2>1, <2>2, OwnStep
  <1> QED BY <1>2, <1>3

LEMMA FindKeeps == ASSUME IInv, NEW p \in Instances, I!FindByNameAsync(p) PROVE IInv'
  <1> USE DEF IInv, I!TypeOK
  <1>1. /\ iPc[p] = "find" /\ users' = users /\ iFaults' = iFaults
        /\ tracked[p] \in [I!Names -> 0 .. 2] /\ tracked' = [tracked EXCEPT ![p] = tracked[p]]
    BY DEF I!FindByNameAsync
  <1>2. tracked[p]["bob"] > 0 => users'["alice"] # None
    BY <1>1 DEF BobAfterAlice
  <1>3. CASE users[name[p]] # None
    BY <1>1, <1>2, <1>3, NextUserKeeps DEF I!FindByNameAsync
  <1>4. CASE users[name[p]] = None
    <2>1. iPc' = [iPc EXCEPT ![p] = "create"] /\ name' = [name EXCEPT ![p] = name[p]]
      BY <1>4 DEF I!FindByNameAsync, I!Goto
    <2>2. name[p] \in I!Names /\ (name[p] = "bob" => users'["alice"] # None)
      BY <1>1
    <2> QED BY <1>1, <1>2, <2>1, <2>2, OwnStep
  <1> QED BY <1>3, <1>4

LEMMA CreateKeeps == ASSUME IInv, NEW p \in Instances, I!CreateAsync(p) PROVE IInv'
  <1> USE DEF IInv, I!TypeOK
  <1>1. iPc[p] = "create" /\ users' = users /\ iFaults' = iFaults /\ name' = name
    BY DEF I!CreateAsync
  <1>2. CASE I!Throw(p)
    BY <1>1, <1>2, ThrowKeeps
  <1>3. CASE /\ tracked' = [tracked EXCEPT ![p][name[p]] = IF @ < 2 THEN @ + 1 ELSE @]
             /\ I!Goto(p, "save")
    <2> DEFINE t == [tracked[p] EXCEPT ![name[p]] = IF @ < 2 THEN @ + 1 ELSE @]
    <2>1. tracked[p] \in [I!Names -> 0 .. 2] /\ name[p] \in I!Names
      OBVIOUS
    <2>2. t \in [I!Names -> 0 .. 2] /\ t[name[p]] > 0
      BY <2>1
    <2>3. tracked' = [tracked EXCEPT ![p] = t]
      BY <1>3, Zenon
    <2>4. t["bob"] > 0 => users'["alice"] # None
      BY <1>1, <2>1 DEF BobAfterAlice, I!Names
    <2>5. name[p] = "bob" => users'["alice"] # None
      BY <1>1
    <2>6. name' = [name EXCEPT ![p] = name[p]] /\ iPc' = [iPc EXCEPT ![p] = "save"]
      BY <1>1, <1>3 DEF I!Goto
    <2> HIDE DEF t
    <2> QED BY <1>1, <2>1, <2>2, <2>3, <2>4, <2>5, <2>6, OwnStep
  <1> QED BY <1>2, <1>3 DEF I!CreateAsync

LEMMA SaveKeeps == ASSUME IInv, NEW p \in Instances, I!SaveChanges(p) PROVE IInv'
  <1> USE DEF IInv, I!TypeOK
  <1>1. /\ users' \in [I!Names -> Instances \cup {None}]
        /\ \A n \in I!Names : users[n] # None => users'[n] = users[n]
        /\ iFaults' = iFaults /\ iPc[p] = "save"
    BY Insertion DEF I!SaveChanges
  <1>2. CASE I!Throw(p) /\ UNCHANGED name
    BY <1>1, <1>2, ThrowKeeps
  <1>3. CASE /\ ~I!Conflict(p)
             /\ tracked' = [tracked EXCEPT ![p] = I!NoneTracked]
             /\ I!NextUser(p)
    <2>1. I!NoneTracked \in [I!Names -> 0 .. 2] /\ ~(I!NoneTracked["bob"] > 0)
      BY DEF I!NoneTracked, I!Names
    <2>2. users'[name[p]] = p /\ p # None
      BY <1>1, <1>3, UsersAssumption
      DEF I!IdentityAssumption, I!SaveChanges, I!Inserted, SaveTracksName
    <2> QED BY <1>1, <1>3, <2>1, <2>2, NextUserKeeps
  <1> QED BY <1>2, <1>3 DEF I!SaveChanges

LEMMA FailsKeeps == ASSUME IInv, NEW p \in Instances, I!Fails(p) PROVE IInv'
  <1>1. iFaults' \in 0 .. MaxFaults
    BY UsersAssumption DEF I!IdentityAssumption, I!Fails, IInv, I!TypeOK
  <1> QED BY <1>1, Insertion, ThrowKeeps DEF I!Fails

LEMMA StopKeeps == ASSUME IInv, NEW p \in Instances, I!Stop(p) PROVE IInv'
  <1> USE DEF IInv, I!TypeOK
  <1>1. iFaults' \in 0 .. MaxFaults
    BY UsersAssumption DEF I!IdentityAssumption, I!Stop
  <1>2. /\ users' \in [I!Names -> Instances \cup {None}]
        /\ \A n \in I!Names : users[n] # None => users'[n] = users[n]
    BY Insertion DEF I!Stop
  <1>3. I!NoneTracked \in [I!Names -> 0 .. 2] /\ ~(I!NoneTracked["bob"] > 0)
    BY DEF I!NoneTracked, I!Names
  <1>4. /\ iPc' = [iPc EXCEPT ![p] = "down"] /\ tracked' = [tracked EXCEPT ![p] = I!NoneTracked]
        /\ name' = [name EXCEPT ![p] = name[p]] /\ name[p] \in I!Names
    BY DEF I!Stop, I!Goto
  <1> QED BY <1>1, <1>2, <1>3, <1>4, OwnStep

\* The inductive invariant holds throughout.
THEOREM Invariant == I!Spec => []IInv
  <1>1. IInv /\ [I!Next]_I!vars => IInv'
    <2> SUFFICES ASSUME IInv, [I!Next]_I!vars PROVE IInv'
      OBVIOUS
    <2>1. CASE UNCHANGED I!vars
      BY <2>1 DEF I!vars, IInv, I!TypeOK, I!ServesBoth, SaveTracksName, BobAfterAlice
    <2>2. CASE I!Next
      <3> PICK p \in Instances : I!Start(p) \/ I!EnsureSeedData(p) \/ I!Fails(p) \/ I!Stop(p)
        BY <2>2 DEF I!Next
      <3> QED BY StartKeeps, MigrateKeeps, FindKeeps, CreateKeeps, SaveKeeps, FailsKeeps,
                 StopKeeps DEF I!EnsureSeedData
    <2> QED BY <2>1, <2>2
  <1> QED BY InitIInv, <1>1, PTL DEF I!Spec

\* Types; bob's turn comes when alice is in the table.
THEOREM TypeCorrect == I!Spec => []I!TypeOK
  <1>1. IInv => I!TypeOK
    BY DEF IInv
  <1> QED BY Invariant, <1>1, PTL

\* An instance serves only when both users are there (SeedData.EnsureSeedData).
THEOREM BothServed == I!Spec => []ServesBoth
  <1>1. IInv => ServesBoth
    BY DEF IInv, ServesBoth
  <1> QED BY Invariant, <1>1, PTL

-----------------------------------------------------------------------------
\* A context with a user from a failed insert cannot save: either a name is there
\* twice, or alice waits beside bob, for whom she must be in the table.
LEMMA StaleConflicts ==
    ASSUME IInv, NEW p \in Instances, I!Stale(p), iPc[p] = "save"
    PROVE  I!Conflict(p)
  <1> USE DEF IInv, I!TypeOK, I!Names
  <1>1. /\ tracked[p]["alice"] \in 0 .. 2 /\ tracked[p]["bob"] \in 0 .. 2
        /\ tracked[p]["alice"] + tracked[p]["bob"] > 1
    BY DEF I!Stale
  <1>2. CASE tracked[p]["alice"] > 1 \/ tracked[p]["bob"] > 1
    BY <1>2 DEF I!Conflict
  <1>3. CASE tracked[p]["alice"] = 1 /\ tracked[p]["bob"] = 1
    BY <1>3 DEF I!Conflict, BobAfterAlice
  <1> QED BY <1>1, <1>2, <1>3

\* After one failed insert a process never creates a user again, however often the
\* policy tries (SeedData.CreateRetryPolicy).
THEOREM StuckForEver == I!Spec => StuckStaysStuck
  <1>1. ASSUME IInv, [I!Next]_I!vars, NEW p \in Instances, I!Stale(p), NEW n \in I!Names,
               users'[n] = p
        PROVE  users[n] = p
    <2>1. CASE UNCHANGED I!vars
      BY <1>1, <2>1 DEF I!vars
    <2>2. CASE I!Next
      <3> PICK q \in Instances : I!Start(q) \/ I!EnsureSeedData(q) \/ I!Fails(q) \/ I!Stop(q)
        BY <2>2 DEF I!Next
      <3>1. I!Inserted(q) \/ UNCHANGED users
        BY DEF I!Start, I!EnsureSeedData, I!MigrateAsync, I!FindByNameAsync, I!CreateAsync,
               I!SaveChanges, I!Fails, I!Stop
      <3>2. users'[n] # users[n] => users'[n] = q /\ iPc[q] = "save" /\ ~I!Conflict(q)
        BY <1>1, <3>1, Insertion
      <3>3. CASE users'[n] # users[n]
        <4>1. q = p
          BY <1>1, <3>2, <3>3
        <4> QED BY <1>1, <3>2, <3>3, <4>1, StaleConflicts
      <3> QED BY <1>1, <3>3
    <2> QED BY <1>1, <2>1, <2>2
  <1>2. IInv /\ [I!Next]_I!vars =>
          [\A p \in Instances : I!Stale(p) =>
               \A n \in I!Names : users'[n] = p => users[n] = p]_I!vars
    BY <1>1
  <1> QED BY Invariant, <1>2, PTL DEF I!Spec, StuckStaysStuck, I!StuckStaysStuck
=============================================================================

---------------------------- MODULE IdentitySeed ----------------------------
(***************************************************************************)
(* SeedData.EnsureSeedData of Identity.API: each of two users is created   *)
(* if it cannot be found.  With RetryMigrations the whole is repeated for  *)
(* ever on any exception, otherwise the process ends and is started again. *)
(* Every attempt of a process uses the same DbContext, and a user whose    *)
(* insert failed stays in its change tracker.                              *)
(***************************************************************************)
EXTENDS Naturals

CONSTANTS
    Instances,        \* processes that run the service
    Policies,         \* what configuration["RetryMigrations"] may be
    MaxFaults,        \* bound of the runs: failures and crashes
    None              \* no user of that name

\* Assumed in every use of the module.
IdentityAssumption ==
    Policies \subseteq BOOLEAN /\ MaxFaults \in Nat /\ None \notin Instances

Names == {"alice", "bob"}

VARIABLES
    retryMigrations,  \* the policy of all instances
    pc,       \* where each instance is
    name,     \* the user it is at
    tracked,  \* entities of a name to be inserted by its context (2: more than 1)
    users,    \* table AspNetUsers: name -> instance that inserted the user
    faults    \* failures and crashes so far

vars == <<retryMigrations, pc, name, tracked, users, faults>>

NoneTracked == [n \in Names |-> 0]

Init ==
    /\ retryMigrations \in Policies
    /\ pc = [p \in Instances |-> "down"]
    /\ name = [p \in Instances |-> "alice"]
    /\ tracked = [p \in Instances |-> NoneTracked]
    /\ users = [n \in Names |-> None]
    /\ faults = 0

Goto(p, next) == pc' = [pc EXCEPT ![p] = next]

\* Mutant: the user names have no unique index.
ConflictNever(p) == FALSE

\* The unique index on NormalizedUserName.
Conflict(p) ==
    \E n \in Names : \/ tracked[p][n] > 1
                     \/ tracked[p][n] = 1 /\ users[n] # None

\* SaveChanges inserts everything that is tracked, or nothing.
Inserted(p) ==
    users' = IF pc[p] = "save" /\ ~Conflict(p)
             THEN [n \in Names |-> IF tracked[p][n] > 0 THEN p ELSE users[n]]
             ELSE users

\* An exception: the next attempt of the policy, or the end of the process.
Throw(p) ==
    \/ retryMigrations /\ Goto(p, "migrate") /\ UNCHANGED tracked
    \/ /\ ~retryMigrations
       /\ Goto(p, "down")
       /\ tracked' = [tracked EXCEPT ![p] = NoneTracked]

Start(p) ==
    /\ pc[p] = "down"
    /\ Goto(p, "migrate")
    /\ UNCHANGED <<retryMigrations, name, tracked, users, faults>>

MigrateAsync(p) ==
    /\ pc[p] = "migrate"
    /\ Goto(p, "find")
    /\ name' = [name EXCEPT ![p] = "alice"]
    /\ UNCHANGED <<tracked, users, faults>>

\* After alice comes bob, after bob the host runs.
NextUser(p) ==
    /\ Goto(p, IF name[p] = "alice" THEN "find" ELSE "running")
    /\ name' = [name EXCEPT ![p] = "bob"]

\* Mutant: where alice is, bob is taken to be.
FindAlice(p) ==
    /\ pc[p] = "find"
    /\ Goto(p, IF users[name[p]] # None THEN "running" ELSE "create")
    /\ UNCHANGED <<name, tracked, users, faults>>

\* Mutant: the users are not looked up.
FindNothing(p) ==
    /\ pc[p] = "find"
    /\ Goto(p, "create")
    /\ UNCHANGED <<name, tracked, users, faults>>

FindByNameAsync(p) ==
    /\ pc[p] = "find"
    /\ IF users[name[p]] # None THEN NextUser(p) ELSE Goto(p, "create") /\ UNCHANGED name
    /\ UNCHANGED <<tracked, users, faults>>

\* CreateAsync validates the name against the table, then adds the user.
CreateAsync(p) ==
    /\ pc[p] = "create"
    /\ \/ users[name[p]] # None /\ Throw(p)
       \/ /\ users[name[p]] = None
          /\ tracked' = [tracked EXCEPT ![p][name[p]] = IF @ < 2 THEN @ + 1 ELSE @]
          /\ Goto(p, "save")
    /\ UNCHANGED <<name, users, faults>>

\* Mutant: a failed insert is not noticed.
SaveUnchecked(p) ==
    /\ pc[p] = "save"
    /\ Inserted(p)
    /\ NextUser(p)
    /\ UNCHANGED <<tracked, faults>>

SaveChanges(p) ==
    /\ pc[p] = "save"
    /\ Inserted(p)
    /\ \/ Conflict(p) /\ Throw(p) /\ UNCHANGED name
       \/ /\ ~Conflict(p)
          /\ tracked' = [tracked EXCEPT ![p] = NoneTracked]
          /\ NextUser(p)
    /\ UNCHANGED faults

EnsureSeedData(p) ==
    /\ \/ MigrateAsync(p) \/ FindByNameAsync(p)
       \/ CreateAsync(p) \/ SaveChanges(p)
    /\ UNCHANGED retryMigrations

\* A database operation throws, before or after its effect.
Fails(p) ==
    /\ pc[p] \notin {"down", "running"}
    /\ faults < MaxFaults /\ faults' = faults + 1
    /\ Inserted(p) \/ UNCHANGED users
    /\ Throw(p)
    /\ UNCHANGED <<retryMigrations, name>>

\* The process stops.
Stop(p) ==
    /\ pc[p] # "down"
    /\ faults < MaxFaults /\ faults' = faults + 1
    /\ Inserted(p) \/ UNCHANGED users
    /\ Goto(p, "down")
    /\ tracked' = [tracked EXCEPT ![p] = NoneTracked]
    /\ UNCHANGED <<retryMigrations, name>>

Next == \E p \in Instances :
            Start(p) \/ EnsureSeedData(p) \/ Fails(p) \/ Stop(p)

Spec == Init /\ [][Next]_vars

-----------------------------------------------------------------------------
(* Properties.                                                             *)

\* Types; bob's turn comes when alice is in the table.
TypeOK ==
    /\ pc \in [Instances -> {"down", "migrate", "find", "create", "save", "running"}]
    /\ name \in [Instances -> Names]
    /\ tracked \in [Instances -> [Names -> 0 .. 2]]
    /\ users \in [Names -> Instances \cup {None}]
    /\ faults \in 0 .. MaxFaults
    /\ \A p \in Instances :
          name[p] = "bob" /\ pc[p] \in {"find", "create", "save"} => users["alice"] # None

\* An instance serves only when both users are there, though each was created
\* by an instance of its own and creation may have been repeated.
ServesBoth == \A p \in Instances : pc[p] = "running" => \A n \in Names : users[n] # None

\* The context holds a user from a failed insert.
Stale(p) ==
    LET sum == tracked[p]["alice"] + tracked[p]["bob"]
    IN  IF pc[p] = "save" THEN sum > 1 ELSE sum > 0

\* After one failed insert a process never creates a user again, however often
\* the policy tries: every later save repeats what failed.
StuckStaysStuck ==
    [][\A p \in Instances : Stale(p) =>
         \A n \in Names : users'[n] = p => users[n] = p]_vars

\* SeedData.cs: without a policy, restarts take care of failures.
Recovers(p) == ~retryMigrations => <>[](pc[p] = "running")
=============================================================================

------------------------------ MODULE SeedHost ------------------------------
(***************************************************************************)
(* Instances of a service that migrate and seed their database before they *)
(* serve: Program.cs and MigrateDbContext of Catalog.API and Ordering.API. *)
(* Several instances start together, fail, crash and are started again,    *)
(* over one database.  The modules that EXTEND this one add the seeder.    *)
(*                                                                         *)
(* The Polly policies around migration and seeding handle SqlException of  *)
(* System.Data.SqlClient; EF Core's SQL Server provider throws the class   *)
(* of the same name of Microsoft.Data.SqlClient (and the seeder's Wait()   *)
(* an AggregateException), so no failure is ever retried by them.          *)
(***************************************************************************)
EXTENDS Naturals

CONSTANTS
    Instances,    \* processes that run the service, over time the same ones
    Deployments,  \* the settings it may be deployed with
    MaxFaults     \* bound of the runs: failures and crashes, all instances

ASSUME HostAssumption ==
    /\ \A d \in Deployments : d.underK8s \in BOOLEAN
    /\ MaxFaults \in Nat

VARIABLES
    deployment,  \* the settings of all instances
    pc,          \* where each instance is
    gaveUp,      \* instances whose migration or seeding was given up
    faults       \* failures and crashes so far

hostVars == <<deployment, pc, gaveUp, faults>>

\* OrchestratorType is K8S.
UnderK8s == deployment.underK8s

HostInit ==
    /\ deployment \in Deployments
    /\ pc = [p \in Instances |-> "down"]
    /\ gaveUp = {}
    /\ faults = 0

Goto(p, next) ==
    /\ pc' = [pc EXCEPT ![p] = next]
    /\ UNCHANGED <<deployment, gaveUp, faults>>

Begin(p, first) ==
    /\ pc[p] = "down"
    /\ pc' = [pc EXCEPT ![p] = first]
    /\ gaveUp' = gaveUp \ {p}
    /\ UNCHANGED <<deployment, faults>>

\* An exception leaves the seeder.  Under K8s it ends the process, elsewhere it
\* is logged and the host runs over the database as it is.
Abandon(p) ==
    /\ pc' = [pc EXCEPT ![p] = IF UnderK8s THEN "down" ELSE "running"]
    /\ gaveUp' = gaveUp \cup {p}
    /\ UNCHANGED deployment

\* Mutant: the seeder is run again until it succeeds.
TryForever(p) == Goto(p, "check")

GiveUp(p) == Abandon(p) /\ UNCHANGED faults

\* A database or file operation fails: an exception.
Fail(p) ==
    /\ pc[p] \notin {"down", "running"}
    /\ faults < MaxFaults
    /\ faults' = faults + 1
    /\ Abandon(p)

\* The process stops anywhere.
Stop(p) ==
    /\ pc[p] # "down"
    /\ faults < MaxFaults
    /\ faults' = faults + 1
    /\ pc' = [pc EXCEPT ![p] = "down"]
    /\ UNCHANGED <<deployment, gaveUp>>

\* The service is up and had no reason to complain.
Seeded(p) == pc[p] = "running" /\ p \notin gaveUp
=============================================================================

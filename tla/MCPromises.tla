----------------------------- MODULE MCPromises -----------------------------
(***************************************************************************)
(* Two scenarios of Promises for TLC, chosen by a variable that keeps its  *)
(* value: chains of then and of promises resolved with promises and        *)
(* thenables, whose resolving functions may be called twice, and           *)
(* Promise.all and Promise.race over promises resolved once, with values   *)
(* and thenables.                                                          *)
(***************************************************************************)
EXTENDS Promises, FiniteSets

VARIABLE scenario

mcvars == <<vars, scenario>>

MCInit == Init /\ scenario \in {"chains", "combined"}

Calls == settles[1] + settles[2] + settles[3]

By(kinds) == Cardinality({p \in Created : made[p].by \in kinds})

\* Three calls of resolving functions are enough for one promise called twice
\* and another it adopts.
Chains ==
    \/ NextId <= 3 /\ NewPromise
    \/ NextId <= 3 /\ \E p \in Created, on \in SUBSET {"fulfilled", "rejected"} : Then(p, on)
    \/ Calls < 3 /\ \E p \in Created :
         \/ \E x \in Given : CallResolver(p, "fulfilled", x)
         \/ CallResolver(p, "rejected", Thrown)
    \/ \E p \in Created :
         \/ \E x \in Given : ForeignAnswers(p, "fulfilled", x)
         \/ ForeignAnswers(p, "rejected", Thrown)
    \/ Flush

\* Two promises are created before they are combined; a handler may wait for a
\* combination, and nothing is resolved with a promise that is pending.
Combines ==
    \/ By({"new"}) = By({"new", "all", "race", "then"}) /\ By({"new"}) < 2 /\ NewPromise
    \/ \E p \in Created : settles[p] = 0 /\
         \/ \E v \in Values : CallResolver(p, "fulfilled", Plain(v))
         \/ p = 1 /\ CallResolver(p, "fulfilled", Thenable)
         \/ CallResolver(p, "rejected", Thrown)
    \/ By({"all", "race"}) < 2 /\
         \/ \E x, y \in Given \ {Thenable, Unreadable} : PromiseAll(x, y)
         \/ \E p, q \in Created : PromiseRace(p, q)
    \/ /\ By({"then"}) = 0
       /\ \E p \in {q \in Created : made[q].by \in {"all", "race"}} : Then(p, {"fulfilled"})
    \/ /\ Flush
       /\ follows' = follows
       /\ \A p \in Created : \A i \in 1 .. Len(heap'.subs[p]) : heap'.subs[p][i].do # "adopt"

MCNext ==
    /\ \/ scenario = "chains" /\ Chains
       \/ scenario = "combined" /\ Combines
    /\ UNCHANGED scenario

MCSpec == MCInit /\ [][MCNext]_mcvars /\ WF_mcvars(Flush /\ UNCHANGED scenario)
=============================================================================

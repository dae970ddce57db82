------------------------------ MODULE Promises ------------------------------
(***************************************************************************)
(* The promises that oidc-token-manager.js bundles (es6-promise 3.0.2) and *)
(* that every request of TokenManager is a chain of.                       *)
(*                                                                         *)
(* The script and the handlers it registers create promises, settle those  *)
(* they have the resolving functions of, and register handlers, in any     *)
(* order; what follows from it is queued and run by a flush.  The heap of  *)
(* the library is one record, and each of its internal functions an        *)
(* operator from a heap to the next one.                                   *)
(*                                                                         *)
(* A promise is named by its _id.  Steps of the script between two steps   *)
(* of a flush are those of the handlers that the flush calls.              *)
(***************************************************************************)
EXTENDS Naturals, Sequences

CONSTANTS
    MaxPromises,  \* bound of the promises created
    MaxSettles,   \* bound of the calls of one promise's resolving functions
    Values        \* values that are neither objects nor functions

ASSUME BoundAssumption == MaxPromises \in Nat /\ MaxSettles \in Nat /\ Values \subseteq Nat

VARIABLES
    heap,      \* what the library keeps, see Heap
    flushing,  \* flush is running
    current,   \* the promise whose subscribers publish is at, and its index i
    made,      \* how each promise came into being
    settles,   \* calls of each promise's resolving functions so far
    foreign,   \* thenables called for each promise that have not answered
    invoked,   \* (history) what the handlers of each child were called with
    follows    \* (history) the promise that each promise was resolved with

vars == <<heap, flushing, current, made, settles, foreign, invoked, follows>>

Ids     == 1 .. MaxPromises
Created == {p \in Ids : made[p].by # "nobody"}

\* Values: plain ones, promises of the library, thenables of somebody else's and
\* objects whose then cannot be read, arrays of Promise.all (named by its promise)
\* and errors.
Plain(v)   == [is |-> "plain", of |-> v]
Own(p)     == [is |-> "promise", of |-> p]
Thenable   == [is |-> "thenable", of |-> 0]
Unreadable == [is |-> "unreadable", of |-> 0]
Array(p)   == [is |-> "array", of |-> p]
TypeErr    == [is |-> "error", of |-> 0]
Thrown     == [is |-> "error", of |-> 1]
Undefined  == [is |-> "undefined", of |-> 0]

\* What the script may pass to a resolving function or return from a handler.
Given == {Plain(v) : v \in Values} \cup {Own(p) : p \in Created} \cup {Thenable, Unreadable}

Results == {Plain(v) : v \in Values} \cup {Own(p) : p \in Ids}
           \cup {Array(p) : p \in Ids} \cup {Thenable, TypeErr, Thrown, Undefined}

Settled(h, p) == h.state[p] # "pending"

Subscriber(do, c, i) == [do |-> do, child |-> c, index |-> i]

\* Jobs of the queue; the result a handler is to be called with is kept.
Publish(p)       == [do |-> "publish", promise |-> p, settled |-> "", detail |-> Undefined]
CallForeign(p)   == [do |-> "foreign", promise |-> p, settled |-> "", detail |-> Undefined]
Invoke(c, s, v)  == [do |-> "invoke", promise |-> c, settled |-> s, detail |-> v]

-----------------------------------------------------------------------------
(* The internal functions.                                                 *)

\* Mutant: no flush is scheduled while one is running or scheduled -- and none
\* for the first job either.
AsapUnscheduled(h, job) == [h EXCEPT !.queue = Append(@, job)]

\* Mutant: the last job comes first.
AsapFirst(h, job) ==
    [h EXCEPT !.queue = <<job>> \o @,
              !.scheduled = @ \/ (h.queue = <<>> /\ ~flushing)]

\* asap: the first job of an empty queue schedules a flush.
Asap(h, job) ==
    [h EXCEPT !.queue = Append(@, job),
              !.scheduled = @ \/ (h.queue = <<>> /\ ~flushing)]

\* Mutant: a settled promise can be fulfilled.
FulfillAgain(h, p, v) ==
    LET f == [h EXCEPT !.state[p] = "fulfilled", !.result[p] = v]
    IN  IF h.subs[p] # <<>> THEN Asap(f, Publish(p)) ELSE f

Fulfill(h, p, v) ==
    LET f == [h EXCEPT !.state[p] = "fulfilled", !.result[p] = v]
    IN  IF Settled(h, p) THEN h
        ELSE IF h.subs[p] # <<>> THEN Asap(f, Publish(p)) ELSE f

\* publishRejection: _onerror is never anything but null.
Reject(h, p, e) ==
    IF Settled(h, p) THEN h
    ELSE Asap([h EXCEPT !.state[p] = "rejected", !.result[p] = e], Publish(p))

\* Mutant: who subscribes to a settled promise waits for a publication.
SubscribeWaits(h, p, sub) == [h EXCEPT !.subs[p] = Append(h.subs[p], sub)]

Subscribe(h, p, sub) ==
    LET s == [h EXCEPT !.subs[p] = Append(h.subs[p], sub)]
    IN  IF h.subs[p] = <<>> /\ Settled(h, p) THEN Asap(s, Publish(p)) ELSE s

\* Mutant: a settled promise is adopted by its result alone.
AdoptResult(h, p, q) ==
    IF Settled(h, q) THEN Fulfill(h, p, h.result[q])
    ELSE Subscribe(h, q, Subscriber("adopt", p, 0))

\* handleOwnThenable: a pending promise is adopted, not locked.
Adopt(h, p, q) ==
    CASE h.state[q] = "fulfilled" -> Fulfill(h, p, h.result[q])
      [] h.state[q] = "rejected"  -> Reject(h, p, h.result[q])
      [] h.state[q] = "pending"   -> Subscribe(h, q, Subscriber("adopt", p, 0))

\* Mutant: promises are values like others.
ResolvePlainly(h, p, x) == Fulfill(h, p, x)

\* resolve and handleMaybeThenable.
Resolve(h, p, x) ==
    IF x = Own(p) THEN Reject(h, p, TypeErr)
    ELSE IF x.is = "promise" THEN Adopt(h, p, x.of)
    ELSE IF x = Unreadable THEN Reject(h, p, Thrown)
    ELSE IF x = Thenable THEN Asap(h, CallForeign(p))
    ELSE Fulfill(h, p, x)

\* Mutant: whatever the outcome, resolve.
SettleResolves(h, p, s, x) == Resolve(h, p, x)

Settle(h, p, s, x) ==
    IF s = "fulfilled" THEN Resolve(h, p, x) ELSE Reject(h, p, x)

\* Mutant: every answer counts down, and the last one fulfills.
SettledAtAny(h, a, i, s, v) ==
    LET c == [h EXCEPT !.left[a] = h.left[a] - 1, !.array[a][i] = v]
    IN  IF c.left[a] = 0 THEN Fulfill(c, a, Array(a)) ELSE c

\* Enumerator._settledAt.
SettledAt(h, a, i, s, v) ==
    LET counted == IF Settled(h, a) THEN h ELSE [h EXCEPT !.left[a] = h.left[a] - 1]
        noted   == IF Settled(h, a) THEN h
                   ELSE IF s = "rejected" THEN Reject(counted, a, v)
                   ELSE [counted EXCEPT !.array[a][i] = v]
    IN  IF noted.left[a] = 0 THEN Fulfill(noted, a, Array(a)) ELSE noted

\* Mutant: an entry that has settled counts twice.
EachEntryTwice(h, a, i, x) ==
    IF Settled(h, a) THEN h
    ELSE IF x.is # "promise" THEN [h EXCEPT !.left[a] = h.left[a] - 1, !.array[a][i] = x]
    ELSE IF Settled(h, x.of)
    THEN SettledAt([h EXCEPT !.left[a] = h.left[a] - 1], a, i, h.state[x.of], h.result[x.of])
    ELSE Subscribe(h, x.of, Subscriber("entry", a, i))

\* Enumerator._eachEntry, once the loop has come to entry i.
EachEntry(h, a, i, x) ==
    IF Settled(h, a) THEN h
    ELSE IF x.is # "promise" THEN [h EXCEPT !.left[a] = h.left[a] - 1, !.array[a][i] = x]
    ELSE IF Settled(h, x.of) THEN SettledAt(h, a, i, h.state[x.of], h.result[x.of])
    ELSE Subscribe(h, x.of, Subscriber("entry", a, i))

\* The constructor of Enumerator over two entries.
Enumerate(h, a, x, y) ==
    LET e == EachEntry(EachEntry(h, a, 1, x), a, 2, y)
    IN  IF e.left[a] = 0 THEN Fulfill(e, a, Array(a)) ELSE e

\* Promise.race over two promises.
Race(h, r, p, q) ==
    LET s == Subscribe(h, p, Subscriber("race", r, 0))
    IN  IF Settled(s, r) THEN s ELSE Subscribe(s, q, Subscriber("race", r, 0))

\* invokeCallback.  The handler of child c for outcome s, if there is one, came
\* to end: it returned a value, or threw.
InvokeCallback(h, c, s, v, end) ==
    IF s \notin made[c].on THEN IF s = "fulfilled" THEN Fulfill(h, c, v) ELSE Reject(h, c, v)
    ELSE IF end = Thrown THEN Reject(h, c, Thrown)
    ELSE IF end = Own(c) THEN Reject(h, c, TypeErr)
    ELSE IF Settled(h, c) THEN h ELSE Resolve(h, c, end)

-----------------------------------------------------------------------------
Heap == [state : [Ids -> {"pending", "fulfilled", "rejected"}],
         result : [Ids -> Results],
         subs : [Ids -> Seq([do : {"handler", "adopt", "entry", "race"},
                             child : Ids, index : 0 .. 2])],
         queue : Seq([do : {"publish", "foreign", "invoke"}, promise : Ids,
                      settled : {"", "fulfilled", "rejected"}, detail : Results]),
         scheduled : BOOLEAN,
         left : [Ids -> 0 .. 2],
         array : [Ids -> [1 .. 2 -> Results]]]

NotMade == [by |-> "nobody", of |-> <<>>, on |-> {}]

Init ==
    /\ heap = [state |-> [p \in Ids |-> "pending"],
               result |-> [p \in Ids |-> Undefined],
               subs |-> [p \in Ids |-> <<>>],
               queue |-> <<>>,
               scheduled |-> FALSE,
               left |-> [p \in Ids |-> 2],
               array |-> [p \in Ids |-> [i \in 1 .. 2 |-> Undefined]]]
    /\ flushing = FALSE
    /\ current = [promise |-> 0, index |-> 0]
    /\ made = [p \in Ids |-> NotMade]
    /\ settles = [p \in Ids |-> 0]
    /\ foreign = [p \in Ids |-> 0]
    /\ invoked = [p \in Ids |-> <<>>]
    /\ follows = [p \in Ids |-> 0]

\* The promise p was resolved with x.
Noted(f, p, x) == IF x.is = "promise" /\ x # Own(p) THEN [f EXCEPT ![p] = x.of] ELSE f

-----------------------------------------------------------------------------
(* The script.                                                             *)

NextId == CHOOSE n \in 1 .. MaxPromises + 1 : n \notin Created /\ \A p \in 1 .. n - 1 : p \in Created

Make(by, of, on) ==
    /\ NextId \in Ids
    /\ made' = [made EXCEPT ![NextId] = [by |-> by, of |-> of, on |-> on]]
    /\ UNCHANGED <<flushing, current, settles, foreign, invoked>>

\* new Promise(resolver).
NewPromise ==
    /\ Make("new", <<>>, {})
    /\ UNCHANGED <<heap, follows>>

\* A resolving function is called, in the resolver or any time later.
CallResolver(p, s, x) ==
    /\ made[p].by = "new" /\ settles[p] < MaxSettles
    /\ settles' = [settles EXCEPT ![p] = @ + 1]
    /\ heap' = Settle(heap, p, s, x)
    /\ follows' = IF s = "fulfilled" /\ ~Settled(heap, p) THEN Noted(follows, p, x)
                  ELSE follows
    /\ UNCHANGED <<flushing, current, made, foreign, invoked>>

\* Mutant: who calls then on a settled promise subscribes as well.
ThenSubscribes(p, on) ==
    /\ Settled(heap, p) => heap.state[p] \in on
    /\ Make("then", <<p>>, on)
    /\ LET s == Subscribe(heap, p, Subscriber("handler", NextId, 0))
       IN  heap' = IF Settled(heap, p)
                   THEN Asap(s, Invoke(NextId, heap.state[p], heap.result[p])) ELSE s
    /\ UNCHANGED follows

\* then: on are the outcomes a function was given for.  Without one for the
\* outcome of a settled promise, then returns that promise.
Then(p, on) ==
    /\ Settled(heap, p) => heap.state[p] \in on
    /\ Make("then", <<p>>, on)
    /\ heap' = IF Settled(heap, p)
               THEN Asap(heap, Invoke(NextId, heap.state[p], heap.result[p]))
               ELSE Subscribe(heap, p, Subscriber("handler", NextId, 0))
    /\ UNCHANGED follows

\* Entries are plain values and promises: for any other object Promise.all makes a
\* promise, as new Promise does, and resolves it with the object.
PromiseAll(x, y) ==
    /\ Make("all", <<x, y>>, {})
    /\ heap' = Enumerate(heap, NextId, x, y)
    /\ UNCHANGED follows

PromiseRace(p, q) ==
    /\ Make("race", <<p, q>>, {})
    /\ heap' = Race(heap, NextId, p, q)
    /\ UNCHANGED follows

\* A thenable that was called answers; a second answer is sealed off.  One that
\* answers with itself is the value of the promise.
ForeignAnswers(p, s, x) ==
    /\ foreign[p] > 0
    /\ foreign' = [foreign EXCEPT ![p] = @ - 1]
    /\ \/ heap' = Settle(heap, p, s, x)
       \/ s = "fulfilled" /\ x = Thenable /\ heap' = Fulfill(heap, p, Thenable)
    /\ UNCHANGED <<flushing, current, made, settles, invoked, follows>>

-----------------------------------------------------------------------------
(* The flush.                                                              *)

FlushStarts ==
    /\ heap.scheduled /\ ~flushing
    /\ flushing' = TRUE
    /\ heap' = [heap EXCEPT !.scheduled = FALSE]
    /\ UNCHANGED <<current, made, settles, foreign, invoked, follows>>

FlushEnds ==
    /\ flushing /\ current.promise = 0 /\ heap.queue = <<>>
    /\ flushing' = FALSE
    /\ UNCHANGED <<heap, current, made, settles, foreign, invoked, follows>>

\* The handler of child c is called, or the outcome is handed through.
Handle(h, c, s, v, end) ==
    /\ heap' = InvokeCallback(h, c, s, v, end)
    /\ invoked' = [invoked EXCEPT ![c] = Append(@, <<s, v>>)]
    /\ follows' = IF s \in made[c].on THEN Noted(follows, c, end) ELSE follows

TheJob == Head(heap.queue)
Rest   == [heap EXCEPT !.queue = Tail(@)]

Job(do) == flushing /\ current.promise = 0 /\ heap.queue # <<>> /\ TheJob.do = do

\* publish begins; without subscribers it returns.
PublishStarts ==
    /\ Job("publish")
    /\ heap' = Rest
    /\ current' = IF heap.subs[TheJob.promise] = <<>> THEN current
                  ELSE [promise |-> TheJob.promise, index |-> 1]
    /\ UNCHANGED <<flushing, made, settles, foreign, invoked, follows>>

\* The handler of a promise that was settled when then was called.
InvokeJob(end) ==
    /\ Job("invoke")
    /\ Handle(Rest, TheJob.promise, TheJob.settled, TheJob.detail, end)
    /\ UNCHANGED <<flushing, current, made, settles, foreign>>

\* handleForeignThenable: the then of the thenable answers at once, with itself or
\* something else, throws, or keeps the functions; a falsy exception is taken for
\* none.
ForeignJob ==
    /\ Job("foreign")
    /\ \/ \E x \in Given : heap' = Resolve(Rest, TheJob.promise, x) /\ UNCHANGED foreign
       \/ heap' = Fulfill(Rest, TheJob.promise, Thenable) /\ UNCHANGED foreign
       \/ heap' = Reject(Rest, TheJob.promise, Thrown) /\ UNCHANGED foreign
       \/ heap' = Rest /\ foreign' = [foreign EXCEPT ![TheJob.promise] = @ + 1]
       \/ heap' = Rest /\ UNCHANGED foreign
    /\ UNCHANGED <<flushing, current, made, settles, invoked, follows>>

Subscribers == heap.subs[current.promise]

\* Mutant: the list of subscribers stays.
PublishKeeps ==
    /\ current.promise # 0 /\ current.index > Len(Subscribers)
    /\ current' = [promise |-> 0, index |-> 0]
    /\ UNCHANGED <<heap, flushing, made, settles, foreign, invoked, follows>>

PublishEnds ==
    /\ current.promise # 0 /\ current.index > Len(Subscribers)
    /\ heap' = [heap EXCEPT !.subs[current.promise] = <<>>]
    /\ current' = [promise |-> 0, index |-> 0]
    /\ UNCHANGED <<flushing, made, settles, foreign, invoked, follows>>

PublishNext(end) ==
    /\ current.promise # 0 /\ current.index <= Len(Subscribers)
    /\ LET sub == Subscribers[current.index]
           s   == heap.state[current.promise]
           v   == heap.result[current.promise]
       IN  \/ sub.do = "handler" /\ Handle(heap, sub.child, s, v, end)
           \/ /\ sub.do \in {"adopt", "race"}
              /\ heap' = Settle(heap, sub.child, s, v)
              /\ UNCHANGED <<invoked, follows>>
           \/ /\ sub.do = "entry"
              /\ heap' = SettledAt(heap, sub.child, sub.index, s, v)
              /\ UNCHANGED <<invoked, follows>>
    /\ current' = [current EXCEPT !.index = @ + 1]
    /\ UNCHANGED <<flushing, made, settles, foreign>>

-----------------------------------------------------------------------------
Script ==
    \/ NewPromise
    \/ \E p \in Created :
         \/ \E x \in Given : CallResolver(p, "fulfilled", x) \/ ForeignAnswers(p, "fulfilled", x)
         \/ CallResolver(p, "rejected", Thrown) \/ ForeignAnswers(p, "rejected", Thrown)
         \/ \E on \in SUBSET {"fulfilled", "rejected"} : Then(p, on)
         \/ \E q \in Created : PromiseRace(p, q)
    \/ \E x, y \in Given \ {Thenable, Unreadable} : PromiseAll(x, y)

Flush ==
    \/ FlushStarts \/ FlushEnds
    \/ PublishStarts \/ ForeignJob \/ PublishEnds
    \/ \E end \in Given \cup {Thrown} : InvokeJob(end) \/ PublishNext(end)

Next == Script \/ Flush

Spec == Init /\ [][Next]_vars

\* A scheduled flush is run, to its end.  Nothing makes the script go on.
FairSpec == Spec /\ WF_vars(Flush)

-----------------------------------------------------------------------------
(* Properties.                                                             *)

\* Every variable has its type.
TypeOK ==
    /\ heap \in Heap
    /\ flushing \in BOOLEAN
    /\ current \in [promise : 0 .. MaxPromises, index : Nat]
    /\ DOMAIN made = Ids
    /\ settles \in [Ids -> 0 .. MaxSettles]
    /\ foreign \in [Ids -> Nat]
    /\ DOMAIN invoked = Ids
    /\ follows \in [Ids -> 0 .. MaxPromises]

\* A promise settles once and keeps its result.
SettledForGood ==
    [][\A p \in Ids : Settled(heap, p) =>
         heap'.state[p] = heap.state[p] /\ heap'.result[p] = heap.result[p]]_vars

\* Promises are seen through, however long the chain of adoptions and whoever
\* answers.  (That "a fulfillment value is never a thenable" holds of them only: a
\* thenable of somebody else's that answers with itself becomes one.)
FulfilledPlainly ==
    \A p \in Ids : heap.state[p] = "fulfilled" => heap.result[p].is # "promise"

\* The handlers given to one call of then are called at most once, with the
\* outcome of the promise it was called on, whichever way they were queued.
HandledOnce ==
    \A c \in Ids : invoked[c] # <<>> =>
        invoked[c] = <<<<heap.state[made[c].of[1]], heap.result[made[c].of[1]]>>>>

\* Handlers of one promise are called in the order of the calls of then, those
\* given before it settled and those given after.
HandledInOrder ==
    \A c, d \in Ids :
        /\ c < d /\ made[c].by = "then" /\ made[d].by = "then" /\ made[c].of = made[d].of
        /\ invoked[d] # <<>>
        => invoked[c] # <<>>

\* Work that is queued will be run: a flush is scheduled or running.
WorkIsScheduled == heap.queue # <<>> => heap.scheduled \/ flushing

\* "The original promise's settled state will match the value's settled state":
\* so it does if no resolving function is called twice and the value is not a
\* thenable.  A promise that has adopted a pending one can be settled by a second
\* call; and it calls the thenable that the adopted one was fulfilled with, which
\* may give it another answer than itself.
FollowsAdopted ==
    \A p \in Ids :
        follows[p] # 0 /\ Settled(heap, p) /\ settles[p] <= 1 =>
            \/ heap.result[follows[p]] = Thenable
            \/ /\ heap.state[p] = heap.state[follows[p]]
               /\ heap.result[p] = heap.result[follows[p]]

\* Promise.all fulfills with the values of its entries, each at its place, and
\* rejects with the reason of one of them.
AllOfThem ==
    \A a \in Created : made[a].by = "all" =>
        LET Entry(i) == made[a].of[i]
            Done(i)  == Entry(i).is # "promise" \/ heap.state[Entry(i).of] = "fulfilled"
            Value(i) == IF Entry(i).is = "promise" THEN heap.result[Entry(i).of] ELSE Entry(i)
        IN  /\ heap.state[a] = "fulfilled" =>
                 \A i \in 1 .. 2 : Done(i) /\ heap.array[a][i] = Value(i)
            /\ heap.state[a] = "rejected" =>
                 \E i \in 1 .. 2 : /\ ~Done(i) /\ heap.state[Entry(i).of] = "rejected"
                                   /\ heap.result[a] = Value(i)

\* Promise.race has the outcome of one of its entries, or what the thenable makes
\* of it that an entry was fulfilled with.
OneOfThem ==
    \A r \in Created : made[r].by = "race" /\ Settled(heap, r) =>
        \E i \in 1 .. 2 :
            \/ heap.result[made[r].of[i]] = Thenable
            \/ /\ heap.state[r] = heap.state[made[r].of[i]]
               /\ heap.result[r] = heap.result[made[r].of[i]]

\* Somebody who resolves with the outcome of p need not ask a thenable again.
Conclusive(p) == Settled(heap, p) /\ heap.result[p] # Thenable

\* Whoever waits for a promise that has settled: the child of a then, a promise
\* of all or race, a promise that adopted it.
Told(c) ==
    /\ made[c].by = "then" /\ Settled(heap, made[c].of[1]) => invoked[c] # <<>>
    /\ /\ made[c].by = "all"
       /\ \A i \in 1 .. 2 : made[c].of[i].is = "promise" => Settled(heap, made[c].of[i].of)
       => Settled(heap, c)
    /\ made[c].by = "race" /\ (\E i \in 1 .. 2 : Conclusive(made[c].of[i])) => Settled(heap, c)
    /\ follows[c] # 0 /\ Conclusive(follows[c]) => Settled(heap, c)

\* Nobody waits for ever for what has settled, unless a thenable that it settled
\* with does not answer a second time: again and again there is a moment when all
\* that wait for a settled promise have been told.
WaitersAreTold == []<>(\A c \in Ids : Told(c))

\* The outcome of a promise and the calls of its handlers, in one.
OutcomesRight ==
    /\ TypeOK
    /\ FulfilledPlainly /\ FollowsAdopted
    /\ HandledOnce /\ HandledInOrder /\ WorkIsScheduled
    /\ AllOfThem /\ OneOfThem
=============================================================================

--------------------------- MODULE PromisesProofs ---------------------------
(***************************************************************************)
(* What holds of the promises of module Promises whatever the script does, *)
(* for any number of promises, values and calls.                           *)
(*                                                                         *)
(* A promise settles once, it is never fulfilled with a promise, and       *)
(* queued work has a flush: each internal function of the library takes a  *)
(* sound heap to a sound one that keeps what was settled.                  *)
(*                                                                         *)
(* Handlers are called once and in order, and adoption, all and race come  *)
(* out right: Right says of each promise who subscribes to it, what is     *)
(* queued for it and what is still to come, and each function of the       *)
(* library takes a heap for which this is right to another.  The actions   *)
(* are compositions of the functions.                                      *)
(***************************************************************************)
EXTENDS Promises, Integers, TLAPS

States == {"pending", "fulfilled", "rejected"}
Subs   == [do : {"handler", "adopt", "entry", "race"}, child : Ids, index : 0 .. 2]
Jobs   == [do : {"publish", "foreign", "invoke"}, promise : Ids,
           settled : {"", "fulfilled", "rejected"}, detail : Results]

\* Heap, but for the bounds of the counters of Promise.all.
Shapes == [state : [Ids -> States],
           result : [Ids -> Results],
           subs : [Ids -> Seq(Subs)],
           queue : Seq(Jobs),
           scheduled : BOOLEAN,
           left : [Ids -> Int],
           array : [Ids -> [1 .. 2 -> Results]]]

\* A value that a promise may be fulfilled with.
Final(v) == v \in Results /\ v.is # "promise"

\* A job that hands on a fulfilled promise hands on such a value.
Fit(job) == job \in Jobs /\ (job.settled = "fulfilled" => Final(job.detail))

Sound(h) ==
    /\ h \in Shapes
    /\ \A p \in Ids : h.state[p] = "fulfilled" => Final(h.result[p])
    /\ \A i \in 1 .. Len(h.queue) : Fit(h.queue[i])
    /\ h.queue # <<>> => h.scheduled \/ flushing

\* The heap k keeps what is settled in h.
Keeps(h, k) == \A p \in Ids : Settled(h, p) =>
    k.state[p] = h.state[p] /\ k.result[p] = h.result[p]

Follows(h, k) == Sound(k) /\ Keeps(h, k)

-----------------------------------------------------------------------------
LEMMA ValueKinds ==
    /\ \A p \in Ids : Own(p) \in Results /\ Array(p) \in Results /\ Final(Array(p))
    /\ TypeErr \in Results /\ Thrown \in Results /\ Undefined \in Results
    /\ \A x \in Results : x.is = "promise" => x.of \in Ids
    /\ Final(Thenable) /\ Unreadable.is # "promise"
    /\ \A x \in Given : x \in Results \cup {Unreadable}
<1> USE DEF Own, Array, TypeErr, Thrown, Undefined, Plain, Thenable, Unreadable
<1>1. \A p \in Ids : Own(p) \in Results /\ Array(p) \in Results
  BY Zenon DEF Results
<1>2. \A p \in Ids : Array(p).is # "promise"
  OBVIOUS
<1>3. TypeErr \in Results /\ Thrown \in Results /\ Undefined \in Results /\ Thenable \in Results
  BY DEF Results
<1>4. \A x \in Results : x.is = "promise" => x.of \in Ids
  BY DEF Results
<1>5. \A x \in Given : x \in Results \cup {Unreadable}
  BY DEF Given, Results, Created
<1> QED BY <1>1, <1>2, <1>3, <1>4, <1>5 DEF Final

LEMMA AsapFollows ==
    ASSUME NEW h, Sound(h), NEW job, Fit(job)
    PROVE  /\ Follows(h, Asap(h, job))
           /\ Asap(h, job).state = h.state /\ Asap(h, job).result = h.result
<1> DEFINE k == Asap(h, job)
<1>1. /\ h.queue \in Seq(Jobs) /\ h.scheduled \in BOOLEAN /\ job \in Jobs
      /\ Append(h.queue, job) \in Seq(Jobs)
  BY DEF Sound, Shapes, Fit
<1>2. /\ k.state = h.state /\ k.result = h.result /\ k.subs = h.subs
      /\ k.left = h.left /\ k.array = h.array
      /\ k.queue = Append(h.queue, job)
      /\ k.scheduled = (h.scheduled \/ (h.queue = <<>> /\ ~flushing))
  BY DEF Asap, Sound, Shapes
<1>3. k \in Shapes
  BY <1>1 DEF Asap, Sound, Shapes
<1>4. k.scheduled \/ flushing
  BY <1>1, <1>2 DEF Sound
<1>5. \A i \in 1 .. Len(k.queue) : Fit(k.queue[i])
  BY <1>1, <1>2 DEF Sound
<1>6. \A p \in Ids : k.state[p] = "fulfilled" => Final(k.result[p])
  BY <1>2 DEF Sound
<1>7. Keeps(h, k)
  BY <1>2 DEF Keeps
<1> QED BY <1>2, <1>3, <1>4, <1>5, <1>6, <1>7 DEF Sound, Follows

LEMMA PublishFits == \A p \in Ids : Fit(Publish(p)) /\ Fit(CallForeign(p))
BY ValueKinds DEF Fit, Publish, CallForeign, Jobs

\* A heap that differs from a sound one in subscribers and counters only.
LEMMA SideFollows ==
    ASSUME NEW h, Sound(h), NEW k \in Shapes, k.state = h.state, k.result = h.result,
           k.queue = h.queue, k.scheduled = h.scheduled
    PROVE  Follows(h, k)
BY DEF Sound, Follows, Keeps, Settled

LEMMA FollowsTrans ==
    ASSUME NEW h, NEW j, NEW k, Follows(h, j), Follows(j, k)
    PROVE  Follows(h, k)
BY DEF Follows, Keeps, Settled

LEMMA FollowsSelf == \A h : Sound(h) => Follows(h, h)
BY DEF Follows, Keeps

\* A pending promise gets a state and a result.
LEMMA SettlingFollows ==
    ASSUME NEW h, Sound(h), NEW p \in Ids, ~Settled(h, p), NEW s \in {"fulfilled", "rejected"},
           NEW v \in Results, s = "fulfilled" => Final(v)
    PROVE  Follows(h, [h EXCEPT !.state[p] = s, !.result[p] = v])
<1> DEFINE k == [h EXCEPT !.state[p] = s, !.result[p] = v]
<1>1. /\ k.state = [h.state EXCEPT ![p] = s] /\ k.result = [h.result EXCEPT ![p] = v]
      /\ k.queue = h.queue /\ k.scheduled = h.scheduled
  BY DEF Sound, Shapes
<1>2. h.state \in [Ids -> States] /\ h.result \in [Ids -> Results] /\ s \in States
  BY DEF Sound, Shapes, States
<1>3. k \in Shapes
  BY <1>2 DEF Sound, Shapes
<1>4. \A q \in Ids : k.state[q] = "fulfilled" => Final(k.result[q])
  BY <1>1, <1>2 DEF Sound
<1>5. Keeps(h, k)
  BY <1>1, <1>2 DEF Keeps, Settled
<1>6. \A i \in 1 .. Len(k.queue) : Fit(k.queue[i])
  BY <1>1 DEF Sound
<1>7. k.queue # <<>> => k.scheduled \/ flushing
  BY <1>1 DEF Sound
<1> HIDE DEF k
<1>8. Sound(k)
  BY <1>3, <1>4, <1>6, <1>7 DEF Sound
<1>9. Follows(h, k)
  BY <1>5, <1>8 DEF Follows
<1> QED BY <1>9 DEF k

LEMMA FulfillFollows ==
    ASSUME NEW h, Sound(h), NEW p \in Ids, NEW v, Final(v)
    PROVE  Follows(h, Fulfill(h, p, v))
<1> DEFINE f == [h EXCEPT !.state[p] = "fulfilled", !.result[p] = v]
<1>1. CASE Settled(h, p)
  BY <1>1, FollowsSelf DEF Fulfill
<1>2. CASE ~Settled(h, p)
  <2>1. Follows(h, f)
    BY <1>2, SettlingFollows, Zenon DEF Final
  <2>2. Fulfill(h, p, v) \in {f, Asap(f, Publish(p))}
    BY <1>2 DEF Fulfill
  <2> HIDE DEF f
  <2>3. Follows(f, Asap(f, Publish(p)))
    BY <2>1, AsapFollows, PublishFits DEF Follows
  <2> QED BY <2>1, <2>2, <2>3, FollowsTrans
<1> QED BY <1>1, <1>2

LEMMA RejectFollows ==
    ASSUME NEW h, Sound(h), NEW p \in Ids, NEW e \in Results
    PROVE  Follows(h, Reject(h, p, e))
<1> DEFINE f == [h EXCEPT !.state[p] = "rejected", !.result[p] = e]
<1>1. CASE Settled(h, p)
  BY <1>1, FollowsSelf DEF Reject
<1>2. CASE ~Settled(h, p)
  <2>1. Follows(h, f)
    BY <1>2, SettlingFollows, Zenon
  <2>2. Reject(h, p, e) = Asap(f, Publish(p))
    BY <1>2 DEF Reject
  <2> HIDE DEF f
  <2>3. Follows(f, Asap(f, Publish(p)))
    BY <2>1, AsapFollows, PublishFits DEF Follows
  <2> QED BY <2>1, <2>2, <2>3, FollowsTrans
<1> QED BY <1>1, <1>2

LEMMA SubscribeFollows ==
    ASSUME NEW h, Sound(h), NEW p \in Ids, NEW sub \in Subs
    PROVE  Follows(h, Subscribe(h, p, sub))
<1> DEFINE s == [h EXCEPT !.subs[p] = Append(h.subs[p], sub)]
<1>1. h.subs \in [Ids -> Seq(Subs)]
  BY DEF Sound, Shapes
<1>2. Append(h.subs[p], sub) \in Seq(Subs)
  BY <1>1
<1>3. s \in Shapes /\ s.state = h.state /\ s.result = h.result /\ s.queue = h.queue
      /\ s.scheduled = h.scheduled
  BY <1>1, <1>2 DEF Sound, Shapes
<1>4. Subscribe(h, p, sub) \in {s, Asap(s, Publish(p))}
  BY DEF Subscribe
<1> HIDE DEF s
<1>5. Follows(h, s)
  BY <1>3, SideFollows
<1>6. Follows(s, Asap(s, Publish(p)))
  BY <1>5, AsapFollows, PublishFits DEF Follows
<1> QED BY <1>4, <1>5, <1>6, FollowsTrans

LEMMA AdoptFollows ==
    ASSUME NEW h, Sound(h), NEW p \in Ids, NEW q \in Ids
    PROVE  Follows(h, Adopt(h, p, q))
<1>1. h.state[q] \in States /\ h.result[q] \in Results
  BY DEF Sound, Shapes
<1>2. CASE h.state[q] = "fulfilled"
  BY <1>2, FulfillFollows DEF Adopt, Sound
<1>3. CASE h.state[q] = "rejected"
  BY <1>1, <1>3, RejectFollows DEF Adopt
<1>4. CASE h.state[q] = "pending"
  <2>1. Subscriber("adopt", p, 0) \in Subs
    BY DEF Subscriber, Subs
  <2> QED BY <1>4, <2>1, SubscribeFollows DEF Adopt
<1> QED BY <1>1, <1>2, <1>3, <1>4 DEF States

LEMMA ResolveFollows ==
    ASSUME NEW h, Sound(h), NEW p \in Ids, NEW x \in Results \cup {Unreadable}
    PROVE  Follows(h, Resolve(h, p, x))
<1>1. CASE x = Own(p)
  BY <1>1, RejectFollows, ValueKinds DEF Resolve
<1>2. CASE x # Own(p) /\ x.is = "promise"
  <2>1. x.of \in Ids
    BY <1>2, ValueKinds
  <2> QED BY <1>2, <2>1, AdoptFollows DEF Resolve
<1>3. CASE x # Own(p) /\ x.is # "promise" /\ x = Thenable
  BY <1>3, AsapFollows, PublishFits DEF Resolve, Thenable, Unreadable
<1>4. CASE x # Own(p) /\ x.is # "promise" /\ x = Unreadable
  BY <1>4, RejectFollows, ValueKinds DEF Resolve
<1>5. CASE x # Own(p) /\ x.is # "promise" /\ x # Thenable /\ x # Unreadable
  BY <1>5, FulfillFollows DEF Resolve, Final
<1> QED BY <1>1, <1>2, <1>3, <1>4, <1>5

LEMMA SettleFollows ==
    ASSUME NEW h, Sound(h), NEW p \in Ids, NEW s, NEW x,
           x \in Results \/ (s = "fulfilled" /\ x = Unreadable)
    PROVE  Follows(h, Settle(h, p, s, x))
BY ResolveFollows, RejectFollows DEF Settle

-----------------------------------------------------------------------------
(* Promise.all and Promise.race.                                           *)

\* A step of the counter and the values of Promise.all.
LEMMA CountFollows ==
    ASSUME NEW h, Sound(h), NEW a \in Ids, NEW i \in 0 .. 2, NEW v \in Results
    PROVE  /\ Follows(h, [h EXCEPT !.left[a] = h.left[a] - 1])
           /\ Follows(h, [h EXCEPT !.array[a][i] = v])
           /\ Follows(h, [h EXCEPT !.left[a] = h.left[a] - 1, !.array[a][i] = v])
<1>1. /\ h \in Shapes /\ h.left \in [Ids -> Int] /\ h.array \in [Ids -> [1 .. 2 -> Results]]
      /\ h.left[a] - 1 \in Int /\ h.array[a] \in [1 .. 2 -> Results]
  BY DEF Sound, Shapes
<1>2. [h.array[a] EXCEPT ![i] = v] \in [1 .. 2 -> Results]
  BY <1>1
<1>3. ASSUME NEW l \in [Ids -> Int], NEW r \in [Ids -> [1 .. 2 -> Results]]
      PROVE  Follows(h, [h EXCEPT !.left = l, !.array = r])
  <2> DEFINE k == [h EXCEPT !.left = l, !.array = r]
  <2>1. k \in Shapes /\ k.state = h.state /\ k.result = h.result /\ k.queue = h.queue
        /\ k.scheduled = h.scheduled
    BY <1>1 DEF Shapes
  <2> HIDE DEF k
  <2>2. Follows(h, k)
    BY <2>1, SideFollows
  <2> QED BY <2>2 DEF k
<1>4. /\ [h.left EXCEPT ![a] = h.left[a] - 1] \in [Ids -> Int]
      /\ [h.array EXCEPT ![a] = [h.array[a] EXCEPT ![i] = v]] \in [Ids -> [1 .. 2 -> Results]]
  BY <1>1, <1>2
<1>5. /\ [h EXCEPT !.left[a] = h.left[a] - 1]
             = [h EXCEPT !.left = [h.left EXCEPT ![a] = h.left[a] - 1], !.array = h.array]
      /\ [h EXCEPT !.array[a][i] = v]
             = [h EXCEPT !.left = h.left,
                         !.array = [h.array EXCEPT ![a] = [h.array[a] EXCEPT ![i] = v]]]
      /\ [h EXCEPT !.left[a] = h.left[a] - 1, !.array[a][i] = v]
             = [h EXCEPT !.left = [h.left EXCEPT ![a] = h.left[a] - 1],
                         !.array = [h.array EXCEPT ![a] = [h.array[a] EXCEPT ![i] = v]]]
  BY <1>1 DEF Shapes
<1> QED BY <1>1, <1>3, <1>4, <1>5, Zenon

LEMMA ArrayFollows ==
    ASSUME NEW h, Sound(h), NEW a \in Ids, NEW b
    PROVE  Follows(h, IF b THEN Fulfill(h, a, Array(a)) ELSE h)
<1>1. Follows(h, h) /\ Follows(h, Fulfill(h, a, Array(a)))
  BY FollowsSelf, FulfillFollows, ValueKinds
<1> QED BY <1>1

LEMMA SettledAtFollows ==
    ASSUME NEW h, Sound(h), NEW a \in Ids, NEW i \in 0 .. 2, NEW s, NEW v \in Results
    PROVE  Follows(h, SettledAt(h, a, i, s, v))
<1>1. PICK counted : counted = IF Settled(h, a) THEN h ELSE [h EXCEPT !.left[a] = h.left[a] - 1]
  OBVIOUS
<1>2. PICK noted : noted = IF Settled(h, a) THEN h
                           ELSE IF s = "rejected" THEN Reject(counted, a, v)
                           ELSE [counted EXCEPT !.array[a][i] = v]
  OBVIOUS
<1>3. SettledAt(h, a, i, s, v) = IF noted.left[a] = 0 THEN Fulfill(noted, a, Array(a)) ELSE noted
  BY <1>1, <1>2 DEF SettledAt
<1>4. Follows(h, counted)
  BY <1>1, FollowsSelf, CountFollows, Zenon
<1>5. Follows(h, noted)
  <2>1. CASE Settled(h, a)
    BY <1>2, <2>1, FollowsSelf
  <2>2. CASE ~Settled(h, a) /\ s = "rejected"
    <3>1. Follows(counted, noted)
      BY <1>2, <1>4, <2>2, RejectFollows DEF Follows
    <3> QED BY <1>4, <3>1, FollowsTrans
  <2>3. CASE ~Settled(h, a) /\ s # "rejected"
    <3>1. Follows(counted, noted)
      BY <1>2, <1>4, <2>3, CountFollows, Zenon DEF Follows
    <3> QED BY <1>4, <3>1, FollowsTrans
  <2> QED BY <2>1, <2>2, <2>3
<1>6. Follows(noted, SettledAt(h, a, i, s, v))
  BY <1>3, <1>5, ArrayFollows DEF Follows
<1> QED BY <1>5, <1>6, FollowsTrans

LEMMA EachEntryFollows ==
    ASSUME NEW h, Sound(h), NEW a \in Ids, NEW i \in 1 .. 2, NEW x \in Results
    PROVE  Follows(h, EachEntry(h, a, i, x))
<1>1. CASE Settled(h, a)
  BY <1>1, FollowsSelf DEF EachEntry
<1>2. CASE ~Settled(h, a) /\ x.is # "promise"
  <2>1. i \in 0 .. 2
    OBVIOUS
  <2>2. Follows(h, [h EXCEPT !.left[a] = h.left[a] - 1, !.array[a][i] = x])
    BY <2>1, CountFollows, Zenon
  <2> QED BY <1>2, <2>2 DEF EachEntry
<1>3. CASE ~Settled(h, a) /\ x.is = "promise"
  <2>1. x.of \in Ids /\ h.result[x.of] \in Results
    BY <1>3, ValueKinds DEF Sound, Shapes
  <2>2. Subscriber("entry", a, i) \in Subs
    BY DEF Subscriber, Subs
  <2>3. Follows(h, SettledAt(h, a, i, h.state[x.of], h.result[x.of]))
    BY <2>1, SettledAtFollows
  <2>4. Follows(h, Subscribe(h, x.of, Subscriber("entry", a, i)))
    BY <2>1, <2>2, SubscribeFollows
  <2> QED BY <1>3, <2>3, <2>4 DEF EachEntry
<1> QED BY <1>1, <1>2, <1>3

LEMMA EnumerateFollows ==
    ASSUME NEW h, Sound(h), NEW a \in Ids, NEW x \in Results, NEW y \in Results
    PROVE  Follows(h, Enumerate(h, a, x, y))
<1>1. PICK d, e : d = EachEntry(h, a, 1, x) /\ e = EachEntry(d, a, 2, y)
  OBVIOUS
<1>2. Follows(h, d)
  BY <1>1, EachEntryFollows
<1>3. Follows(d, e)
  BY <1>1, <1>2, EachEntryFollows DEF Follows
<1>4. Enumerate(h, a, x, y) = IF e.left[a] = 0 THEN Fulfill(e, a, Array(a)) ELSE e
  BY <1>1 DEF Enumerate
<1>5. Follows(e, Enumerate(h, a, x, y))
  BY <1>3, <1>4, ArrayFollows DEF Follows
<1> QED BY <1>2, <1>3, <1>5, FollowsTrans

LEMMA RaceFollows ==
    ASSUME NEW h, Sound(h), NEW r \in Ids, NEW p \in Ids, NEW q \in Ids
    PROVE  Follows(h, Race(h, r, p, q))
<1>1. PICK sub, s : sub = Subscriber("race", r, 0) /\ s = Subscribe(h, p, sub)
  OBVIOUS
<1>2. sub \in Subs
  BY <1>1 DEF Subscriber, Subs
<1>3. Follows(h, s)
  BY <1>1, <1>2, SubscribeFollows
<1>4. Follows(s, Subscribe(s, q, sub))
  BY <1>2, <1>3, SubscribeFollows DEF Follows
<1>5. Race(h, r, p, q) = IF Settled(s, r) THEN s ELSE Subscribe(s, q, sub)
  BY <1>1 DEF Race
<1> QED BY <1>3, <1>4, <1>5, FollowsTrans

LEMMA InvokeCallbackFollows ==
    ASSUME NEW h, Sound(h), NEW c \in Ids, NEW s, NEW v \in Results,
           s = "fulfilled" => Final(v), NEW end \in Results \cup {Unreadable}
    PROVE  Follows(h, InvokeCallback(h, c, s, v, end))
<1>1. Follows(h, h) /\ Follows(h, Reject(h, c, v))
  BY FollowsSelf, RejectFollows
<1>2. Follows(h, Reject(h, c, Thrown)) /\ Follows(h, Reject(h, c, TypeErr))
  BY RejectFollows, ValueKinds
<1>3. Follows(h, Resolve(h, c, end))
  BY ResolveFollows
<1>4. s = "fulfilled" => Follows(h, Fulfill(h, c, v))
  BY FulfillFollows
<1> QED BY <1>1, <1>2, <1>3, <1>4 DEF InvokeCallback

-----------------------------------------------------------------------------
(* The steps.                                                              *)

PInv == /\ Sound(heap)
        /\ current \in [promise : 0 .. MaxPromises, index : Nat \ {0}]
              \cup [promise : {0}, index : {0}]
        /\ foreign \in [Ids -> Nat]

\* A step that leaves the flush as it is.
LEMMA SameFlush ==
    ASSUME Follows(heap, heap'), flushing' = flushing
    PROVE  Sound(heap)' /\ Keeps(heap, heap')
<1>1. Sound(heap') /\ Keeps(heap, heap')
  BY DEF Follows
<1>2. Sound(heap)'
  BY <1>1 DEF Sound, Fit, Final
<1> QED BY <1>1, <1>2

LEMMA InitPInv == Init => PInv
<1> SUFFICES ASSUME Init PROVE PInv
  OBVIOUS
<1>1. Undefined \in Results
  BY ValueKinds
<1>2. heap \in Shapes
  BY <1>1 DEF Init, Shapes, States
<1>3. /\ \A p \in Ids : heap.state[p] = "pending"
      /\ heap.queue = <<>>
  BY DEF Init
<1>4. Sound(heap)
  BY <1>2, <1>3 DEF Sound
<1> QED BY <1>4 DEF Init, PInv

\* The job at the head of the queue is taken.
LEMMA RestFollows ==
    ASSUME Sound(heap), flushing, heap.queue # <<>>
    PROVE  Follows(heap, Rest) /\ Fit(TheJob)
<1>1. heap \in Shapes /\ heap.queue \in Seq(Jobs) /\ Len(heap.queue) \in Nat /\ Len(heap.queue) > 0
  BY DEF Sound, Shapes
<1>2. Tail(heap.queue) \in Seq(Jobs)
  BY <1>1
<1>3. /\ Rest.state = heap.state /\ Rest.result = heap.result
      /\ Rest.queue = Tail(heap.queue) /\ Rest \in Shapes
  BY <1>1, <1>2 DEF Rest, Shapes
<1>4. \A i \in 1 .. Len(Rest.queue) : Fit(Rest.queue[i])
  <2> SUFFICES ASSUME NEW i \in 1 .. Len(Tail(heap.queue)) PROVE Fit(Tail(heap.queue)[i])
    BY <1>3
  <2>1. i + 1 \in 1 .. Len(heap.queue) /\ Tail(heap.queue)[i] = heap.queue[i + 1]
    BY <1>1
  <2> QED BY <2>1 DEF Sound
<1>5. Sound(Rest)
  BY <1>3, <1>4 DEF Sound
<1>6. Fit(TheJob)
  BY <1>1 DEF TheJob, Sound
<1> QED BY <1>3, <1>5, <1>6 DEF Follows, Keeps

\* A thenable is called, or answers.
LEMMA CalledTyped ==
    ASSUME NEW f \in [Ids -> Nat], NEW p \in Ids
    PROVE  [f EXCEPT ![p] = @ + 1] \in [Ids -> Nat]
OBVIOUS

LEMMA AnsweredTyped ==
    ASSUME NEW f \in [Ids -> Nat], NEW p \in Ids, f[p] > 0
    PROVE  [f EXCEPT ![p] = @ - 1] \in [Ids -> Nat]
OBVIOUS

LEMMA ScriptStep ==
    ASSUME PInv, Script
    PROVE  PInv' /\ Keeps(heap, heap')
<1> USE DEF PInv
<1>0. Created \subseteq Ids
  BY DEF Created
<1>1. CASE NewPromise
  BY <1>1, FollowsSelf, SameFlush DEF NewPromise, Make
<1>2. ASSUME NEW p \in Created, NEW x \in Given, CallResolver(p, "fulfilled", x)
      PROVE  PInv' /\ Keeps(heap, heap')
  <2>1. Follows(heap, heap')
    BY <1>0, <1>2, SettleFollows, ValueKinds DEF CallResolver
  <2> QED BY <1>2, <2>1, SameFlush DEF CallResolver
<1>3. ASSUME NEW p \in Created, CallResolver(p, "rejected", Thrown)
      PROVE  PInv' /\ Keeps(heap, heap')
  <2>1. Follows(heap, heap')
    BY <1>0, <1>3, SettleFollows, ValueKinds DEF CallResolver
  <2> QED BY <1>3, <2>1, SameFlush DEF CallResolver
<1>4. ASSUME NEW p \in Created, NEW x \in Given, ForeignAnswers(p, "fulfilled", x)
      PROVE  PInv' /\ Keeps(heap, heap')
  <2>1. Follows(heap, heap')
    BY <1>0, <1>4, SettleFollows, FulfillFollows, ValueKinds DEF ForeignAnswers
  <2> QED BY <1>0, <1>4, <2>1, AnsweredTyped, SameFlush DEF ForeignAnswers
<1>8. ASSUME NEW p \in Created, ForeignAnswers(p, "rejected", Thrown)
      PROVE  PInv' /\ Keeps(heap, heap')
  <2>1. Follows(heap, heap')
    BY <1>0, <1>8, SettleFollows, ValueKinds DEF ForeignAnswers
  <2> QED BY <1>0, <1>8, <2>1, AnsweredTyped, SameFlush DEF ForeignAnswers
<1>5. ASSUME NEW p \in Created, NEW on \in SUBSET {"fulfilled", "rejected"}, Then(p, on)
      PROVE  PInv' /\ Keeps(heap, heap')
  <2>1. NextId \in Ids /\ p \in Ids /\ UNCHANGED <<flushing, current, foreign>>
    BY <1>0, <1>5 DEF Then, Make
  <2>2. CASE Settled(heap, p)
    <3>1. heap.state[p] \in {"fulfilled", "rejected"} /\ heap.result[p] \in Results
      BY <1>0, <2>2 DEF Sound, Shapes, States, Settled
    <3>2. Fit(Invoke(NextId, heap.state[p], heap.result[p]))
      BY <2>1, <3>1, Zenon DEF Fit, Invoke, Jobs, Sound
    <3>3. heap' = Asap(heap, Invoke(NextId, heap.state[p], heap.result[p]))
      BY <1>5, <2>2 DEF Then
    <3> QED BY <2>1, <3>2, <3>3, AsapFollows, SameFlush
  <2>3. CASE ~Settled(heap, p)
    <3>1. Subscriber("handler", NextId, 0) \in Subs
      BY <2>1 DEF Subscriber, Subs
    <3>2. heap' = Subscribe(heap, p, Subscriber("handler", NextId, 0))
      BY <1>5, <2>3 DEF Then
    <3> QED BY <2>1, <3>1, <3>2, SubscribeFollows, SameFlush
  <2> QED BY <2>2, <2>3
<1>6. ASSUME NEW p \in Created, NEW q \in Created, PromiseRace(p, q)
      PROVE  PInv' /\ Keeps(heap, heap')
  <2>1. Follows(heap, heap')
    BY <1>0, <1>6, RaceFollows DEF PromiseRace, Make
  <2> QED BY <1>6, <2>1, SameFlush DEF PromiseRace, Make
<1>7. ASSUME NEW x \in Given \ {Thenable, Unreadable}, NEW y \in Given \ {Thenable, Unreadable}, PromiseAll(x, y)
      PROVE  PInv' /\ Keeps(heap, heap')
  <2>1. x \in Results /\ y \in Results
    BY ValueKinds
  <2>2. Follows(heap, heap')
    BY <1>7, <2>1, EnumerateFollows DEF PromiseAll, Make
  <2> QED BY <1>7, <2>2, SameFlush DEF PromiseAll, Make
<1> QED BY <1>1, <1>2, <1>3, <1>4, <1>5, <1>6, <1>7, <1>8 DEF Script

\* The handler of a child is called, or the outcome handed through, from a heap
\* that follows the present one.
LEMMA HandleFollows ==
    ASSUME NEW h, Follows(heap, h), NEW c \in Ids, NEW s, NEW v \in Results,
           s = "fulfilled" => Final(v), NEW end \in Given \cup {Thrown}, Handle(h, c, s, v, end)
    PROVE  Follows(heap, heap')
<1>1. end \in Results \cup {Unreadable}
  BY ValueKinds
<1>2. Follows(h, heap')
  BY <1>1, InvokeCallbackFollows DEF Handle, Follows
<1> QED BY <1>2, FollowsTrans

LEMMA FlushStep ==
    ASSUME PInv, Flush
    PROVE  PInv' /\ Keeps(heap, heap')
<1> USE DEF PInv
<1>1. CASE FlushStarts
  <2>1. /\ heap' \in Shapes /\ heap'.state = heap.state /\ heap'.result = heap.result
        /\ heap'.queue = heap.queue
    BY <1>1 DEF FlushStarts, Sound, Shapes
  <2>2. flushing' /\ UNCHANGED <<current, foreign>>
    BY <1>1 DEF FlushStarts
  <2>3. Sound(heap)' /\ Keeps(heap, heap')
    BY <2>1, <2>2 DEF Sound, Fit, Final, Keeps
  <2> QED BY <2>2, <2>3
<1>2. CASE FlushEnds
  <2>1. heap.queue = <<>> /\ UNCHANGED <<heap, current, foreign>>
    BY <1>2 DEF FlushEnds
  <2>2. Sound(heap)' /\ Keeps(heap, heap')
    BY <2>1 DEF Sound, Fit, Final, Keeps
  <2> QED BY <2>1, <2>2
<1>3. CASE PublishStarts
  <2>1. Follows(heap, Rest) /\ Fit(TheJob)
    BY <1>3, RestFollows DEF PublishStarts, Job
  <2>2. TheJob.promise \in Ids
    BY <2>1, Zenon DEF Fit, Jobs
  <2>3. current' \in {current, [promise |-> TheJob.promise, index |-> 1]}
    BY <1>3 DEF PublishStarts
  <2>4. heap' = Rest /\ UNCHANGED <<flushing, foreign>>
    BY <1>3 DEF PublishStarts
  <2>5. Sound(heap)' /\ Keeps(heap, heap')
    BY <2>1, <2>4, SameFlush
  <2> QED BY <2>2, <2>3, <2>4, <2>5 DEF Ids
<1>4. CASE ForeignJob
  <2>1. Follows(heap, Rest) /\ Fit(TheJob) /\ TheJob.promise \in Ids
    BY <1>4, RestFollows, Zenon DEF ForeignJob, Job, Fit, Jobs
  <2>2. Follows(Rest, heap')
    <3>1. \A x \in Given : Follows(Rest, Resolve(Rest, TheJob.promise, x))
      BY <2>1, ResolveFollows, ValueKinds DEF Follows
    <3>2. Follows(Rest, Reject(Rest, TheJob.promise, Thrown))
      BY <2>1, RejectFollows, ValueKinds DEF Follows
    <3>3. Follows(Rest, Rest)
      BY <2>1, FollowsSelf DEF Follows
    <3>4. Follows(Rest, Fulfill(Rest, TheJob.promise, Thenable))
      BY <2>1, FulfillFollows, ValueKinds DEF Follows
    <3> QED BY <1>4, <3>1, <3>2, <3>3, <3>4 DEF ForeignJob
  <2>3. UNCHANGED <<flushing, current>> /\ foreign' \in [Ids -> Nat]
    BY <1>4, <2>1, CalledTyped DEF ForeignJob
  <2> QED BY <2>1, <2>2, <2>3, FollowsTrans, SameFlush
<1>5. CASE PublishEnds
  <2>1. heap \in Shapes /\ heap.subs \in [Ids -> Seq(Subs)]
    BY DEF Sound, Shapes
  <2>2. PICK none : none = [heap.subs EXCEPT ![current.promise] = <<>>]
    OBVIOUS
  <2>3. none \in [Ids -> Seq(Subs)]
    <3>1. <<>> \in Seq(Subs)
      OBVIOUS
    <3> QED BY <2>1, <2>2, <3>1
  <2>4. heap' = [heap EXCEPT !.subs = none]
    BY <1>5, <2>1, <2>2 DEF PublishEnds, Shapes
  <2>5. /\ heap' \in Shapes /\ heap'.state = heap.state /\ heap'.result = heap.result
        /\ heap'.queue = heap.queue /\ heap'.scheduled = heap.scheduled
    BY <2>1, <2>3, <2>4 DEF Shapes
  <2>6. Follows(heap, heap')
    BY <2>5, SideFollows
  <2> QED BY <1>5, <2>6, SameFlush DEF PublishEnds
<1>6. ASSUME NEW end \in Given \cup {Thrown}, InvokeJob(end)
      PROVE  PInv' /\ Keeps(heap, heap')
  <2>1. Follows(heap, Rest) /\ Fit(TheJob)
    BY <1>6, RestFollows DEF InvokeJob, Job
  <2>2. TheJob.promise \in Ids /\ TheJob.detail \in Results
    BY <2>1, Zenon DEF Fit, Jobs
  <2>3. TheJob.settled = "fulfilled" => Final(TheJob.detail)
    BY <2>1 DEF Fit
  <2>4. Follows(heap, heap')
    BY <1>6, <2>1, <2>2, <2>3, HandleFollows DEF InvokeJob
  <2> QED BY <1>6, <2>4, SameFlush DEF InvokeJob
<1>7. ASSUME NEW end \in Given \cup {Thrown}, PublishNext(end)
      PROVE  PInv' /\ Keeps(heap, heap')
  <2>0. PICK sub, s, v : /\ sub = Subscribers[current.index]
                         /\ s = heap.state[current.promise] /\ v = heap.result[current.promise]
    OBVIOUS
  <2>1. current.promise \in Ids /\ current.index \in 1 .. Len(heap.subs[current.promise])
    <3>1. current.promise # 0 /\ current.index <= Len(heap.subs[current.promise])
      BY <1>7 DEF PublishNext, Subscribers
    <3>2. current.promise \in Ids /\ current.index \in Nat \ {0}
      BY <3>1, BoundAssumption DEF Ids
    <3>3. heap.subs[current.promise] \in Seq(Subs)
      BY <3>2 DEF Sound, Shapes
    <3> QED BY <3>1, <3>2, <3>3
  <2>2. heap.subs \in [Ids -> Seq(Subs)]
    BY DEF Sound, Shapes
  <2>3. sub \in Subs
    BY <2>0, <2>1, <2>2 DEF Subscribers
  <2>4. sub.child \in Ids /\ sub.index \in 0 .. 2
    BY <2>3 DEF Subs
  <2>5. s \in States /\ v \in Results /\ (s = "fulfilled" => Final(v))
    BY <2>0, <2>1 DEF Sound, Shapes
  <2>6. Follows(heap, heap')
    <3>1. CASE sub.do = "handler" /\ Handle(heap, sub.child, s, v, end)
      BY <2>4, <2>5, <3>1, FollowsSelf, HandleFollows
    <3>2. CASE heap' = Settle(heap, sub.child, s, v)
      BY <2>4, <2>5, <3>2, SettleFollows
    <3>3. CASE sub.do = "entry" /\ heap' = SettledAt(heap, sub.child, sub.index, s, v)
      BY <2>4, <2>5, <3>3, SettledAtFollows
    <3> QED BY <1>7, <2>0, <3>1, <3>2, <3>3 DEF PublishNext
  <2>7. /\ current' = [current EXCEPT !.index = current.index + 1]
        /\ UNCHANGED <<flushing, foreign>>
    BY <1>7 DEF PublishNext
  <2>8. current' \in [promise : 0 .. MaxPromises, index : Nat \ {0}]
    BY <2>1, <2>7
  <2> QED BY <2>6, <2>7, <2>8, SameFlush
<1> QED BY <1>1, <1>2, <1>3, <1>4, <1>5, <1>6, <1>7 DEF Flush

LEMMA NextPInv == PInv /\ [Next]_vars => PInv' /\ (Keeps(heap, heap') \/ UNCHANGED vars)
<1> SUFFICES ASSUME PInv, [Next]_vars PROVE PInv' /\ (Keeps(heap, heap') \/ UNCHANGED vars)
  OBVIOUS
<1>1. CASE Next
  BY <1>1, ScriptStep, FlushStep DEF Next
<1>2. CASE UNCHANGED vars
  BY <1>2 DEF vars, PInv, Sound, Fit, Final
<1> QED BY <1>1, <1>2

LEMMA AlwaysPInv == Spec => []PInv
<1>1. PInv /\ [Next]_vars => PInv'
  BY NextPInv
<1> QED BY <1>1, InitPInv, PTL DEF Spec

\* A promise settles once and keeps its result, whatever resolving functions,
\* handlers and thenables do.
THEOREM SettlesOnce == Spec => SettledForGood
<1>1. PInv /\ [Next]_vars =>
        [\A p \in Ids : Settled(heap, p) =>
            heap'.state[p] = heap.state[p] /\ heap'.result[p] = heap.result[p]]_vars
  BY NextPInv DEF Keeps
<1> QED BY <1>1, AlwaysPInv, PTL DEF Spec, SettledForGood

\* No promise is ever fulfilled with a promise, through any chain of adoptions and
\* whoever answers.  (The documentation's "a fulfillment value is never a
\* thenable" does not hold of a thenable that answers with itself.)
THEOREM FulfilledWithValues == Spec => []FulfilledPlainly
<1>1. PInv => FulfilledPlainly
  BY DEF PInv, Sound, Final, FulfilledPlainly
<1> QED BY <1>1, AlwaysPInv, PTL

\* A queue that is not empty has a flush that is scheduled or running.
THEOREM WorkHasFlush == Spec => []WorkIsScheduled
<1>1. PInv => WorkIsScheduled
  BY DEF PInv, Sound, WorkIsScheduled
<1> QED BY <1>1, AlwaysPInv, PTL

-----------------------------------------------------------------------------
(***************************************************************************)
(* Outcomes.  e is the rest of the state, as a record.                     *)
(***************************************************************************)
Env == [current |-> current, made |-> made, settles |-> settles, foreign |-> foreign,
        invoked |-> invoked, follows |-> follows]

\* How a promise came into being.
MadeRight(m) ==
    /\ m.by \in {"nobody", "new", "then", "all", "race"}
    /\ m.by = "then" => m.of[1] \in Ids
    /\ m.by = "all"  => m.of[1] \in Results /\ m.of[2] \in Results
    /\ m.by = "race" => m.of[1] \in Ids /\ m.of[2] \in Ids

HeapTyped(h) ==
    /\ h \in Shapes
    /\ \A p \in Ids : h.state[p] = "fulfilled" => Final(h.result[p])

EnvTyped(e) ==
    /\ DOMAIN e.made = Ids /\ \A p \in Ids : MadeRight(e.made[p])
    /\ \E n \in 0 .. MaxPromises : \A p \in Ids : e.made[p].by # "nobody" <=> p <= n
    /\ e.settles \in [Ids -> 0 .. MaxSettles] /\ e.follows \in [Ids -> 0 .. MaxPromises]
    /\ DOMAIN e.invoked = Ids /\ e.foreign \in [Ids -> Nat]
    /\ e.current \in [promise : 0 .. MaxPromises, index : Nat]
    /\ e.current.promise # 0 => e.current.index # 0

\* What publish is at has settled.
CurrentRight(h, e) == e.current.promise # 0 => Settled(h, e.current.promise)

\* q was fulfilled with a thenable: who is resolved with that may get another answer.
Loose(h, q) == Settled(h, q) /\ h.result[q] = Thenable

\* The race r is over a promise that is.
LooseRace(h, e, r) == \E i \in 1 .. 2 : Loose(h, e.made[r].of[i])

\* p may be resolved with more than the outcome of its entries.
Asks(h, e, p) ==
    \/ e.made[p].by \in {"new", "then"}
    \/ e.made[p].by = "race" /\ LooseRace(h, e, p)

\* A place in the subscribers of p that publish has not passed.
Live(e, p, n) == e.current.promise = p => e.current.index <= n

\* A subscriber of p that is not passed yet, and is told of p for the right reason.
SubRight(e, p, n, sub) ==
    LET m == e.made[sub.child]
    IN  /\ sub.do = "handler" => /\ m.by = "then" /\ m.of[1] = p
                                 /\ Live(e, p, n) => e.invoked[sub.child] = <<>>
        /\ sub.do = "adopt"   => m.by \in {"new", "then", "race"}
        /\ sub.do = "entry"   => m.by = "all" /\ sub.index \in 1 .. 2 /\ m.of[sub.index] = Own(p)
        /\ sub.do = "race"    => m.by = "race" /\ (m.of[1] = p \/ m.of[2] = p)

SubsRight(h, e) ==
    \A p \in Ids : \A n \in 1 .. Len(h.subs[p]) : SubRight(e, p, n, h.subs[p][n])

\* An entry waits at one place only, and handlers stand in the order of their calls.
SubsOrdered(h, e) ==
    \A p \in Ids : \A m, n \in 1 .. Len(h.subs[p]) :
        m < n /\ Live(e, p, m) /\ h.subs[p][m].do = h.subs[p][n].do =>
            /\ h.subs[p][m].do = "handler" => h.subs[p][m].child < h.subs[p][n].child
            /\ h.subs[p][m].do = "entry" => \/ h.subs[p][m].child # h.subs[p][n].child
                                            \/ h.subs[p][m].index # h.subs[p][n].index

JobRight(h, e, job) ==
    LET m == e.made[job.promise]
    IN  /\ job.do = "publish" => Settled(h, job.promise)
        /\ job.do = "foreign" => m.by \in {"new", "then", "race"}
        /\ job.do = "invoke"  => /\ m.by = "then" /\ e.invoked[job.promise] = <<>>
                                 /\ Settled(h, m.of[1])
                                 /\ job.settled = h.state[m.of[1]] /\ job.detail = h.result[m.of[1]]

JobsRight(h, e) == \A n \in 1 .. Len(h.queue) : JobRight(h, e, h.queue[n])

\* A job that calls a handler of p.
Calls(h, e, n, p) == h.queue[n].do = "invoke" /\ e.made[h.queue[n].promise].of[1] = p

JobsOrdered(h, e) ==
    \A m, n \in 1 .. Len(h.queue) : \A p \in Ids :
        m < n /\ Calls(h, e, m, p) /\ Calls(h, e, n, p) => h.queue[m].promise < h.queue[n].promise

\* Publication comes before the handlers that are called from the queue.
PublishFirst(h, e, p) ==
    \/ e.current.promise = p
    \/ \E m \in 1 .. Len(h.queue) :
          /\ h.queue[m].do = "publish" /\ h.queue[m].promise = p
          /\ \A n \in 1 .. Len(h.queue) : Calls(h, e, n, p) => m < n

\* Handlers that subscribed come before those of the queue.
LinesRight(h, e) ==
    \A p \in Ids : \A n \in 1 .. Len(h.subs[p]) :
        h.subs[p][n].do = "handler" /\ Live(e, p, n) =>
            /\ Settled(h, p) => PublishFirst(h, e, p)
            /\ \A m \in 1 .. Len(h.queue) : Calls(h, e, m, p) => h.subs[p][n].child < h.queue[m].promise

InLine(h, e, c) ==
    \/ \E n \in 1 .. Len(h.subs[e.made[c].of[1]]) :
          LET p == e.made[c].of[1]
          IN  Live(e, p, n) /\ h.subs[p][n].do = "handler" /\ h.subs[p][n].child = c
    \/ \E n \in 1 .. Len(h.queue) : h.queue[n].do = "invoke" /\ h.queue[n].promise = c

\* A handler that was called was called with the outcome, after those before it.
CalledRight(h, e) ==
    \A c \in Ids : e.invoked[c] # <<>> =>
        /\ e.made[c].by = "then" /\ Settled(h, e.made[c].of[1])
        /\ e.invoked[c] = <<<<h.state[e.made[c].of[1]], h.result[e.made[c].of[1]]>>>>
        /\ \A b \in Ids : b < c /\ e.made[b].by = "then" /\ e.made[b].of[1] = e.made[c].of[1] =>
              e.invoked[b] # <<>>

\* One that was not is to be called.
WaitingRight(h, e) ==
    \A c \in Ids : e.made[c].by = "then" /\ e.invoked[c] = <<>> => InLine(h, e, c)

\* Nobody is going to answer for p.
Alone(h, e, p) ==
    /\ e.foreign[p] = 0
    /\ \A n \in 1 .. Len(h.queue) : h.queue[n].do = "foreign" => h.queue[n].promise # p
    /\ \A q \in Ids : \A n \in 1 .. Len(h.subs[q]) : h.subs[q][n].do = "adopt" => h.subs[q][n].child # p

\* Nothing was done to p.
Untouched(e, p) ==
    \/ e.made[p].by = "nobody"
    \/ e.made[p].by = "new" /\ e.settles[p] = 0
    \/ e.made[p].by = "then" /\ e.invoked[p] = <<>>

FreshRight(h, e) ==
    \A p \in Ids :
        /\ Untouched(e, p) => h.state[p] = "pending"
        /\ Untouched(e, p) \/ e.made[p].by = "all" => Alone(h, e, p) /\ e.follows[p] = 0
        /\ e.made[p].by = "race" => e.follows[p] = 0 /\ (LooseRace(h, e, p) \/ Alone(h, e, p))

\* p is bound to the promise that it was resolved with.
Bound(h, e, p) == e.follows[p] # 0 /\ e.settles[p] <= 1 /\ ~Loose(h, e.follows[p])

FollowRight(h, e) ==
    \A p \in Ids : Bound(h, e, p) =>
        /\ e.foreign[p] = 0
        /\ \A n \in 1 .. Len(h.queue) : h.queue[n].do = "foreign" => h.queue[n].promise # p
        /\ \A q \in Ids : \A n \in 1 .. Len(h.subs[q]) :
              h.subs[q][n].do = "adopt" /\ h.subs[q][n].child = p => q = e.follows[p]
        /\ Settled(h, p) => /\ h.state[p] = h.state[e.follows[p]]
                            /\ h.result[p] = h.result[e.follows[p]]

RaceRight(h, e) ==
    \A r \in Ids : e.made[r].by = "race" /\ Settled(h, r) =>
        \/ LooseRace(h, e, r)
        \/ \E i \in 1 .. 2 : /\ h.state[r] = h.state[e.made[r].of[i]]
                             /\ h.result[r] = h.result[e.made[r].of[i]]

\* What is right of everything but the counters of all.
Core(h, e) ==
    /\ HeapTyped(h) /\ EnvTyped(e) /\ CurrentRight(h, e)
    /\ SubsRight(h, e) /\ SubsOrdered(h, e) /\ JobsRight(h, e) /\ JobsOrdered(h, e) /\ LinesRight(h, e)
    /\ CalledRight(h, e) /\ WaitingRight(h, e)
    /\ FreshRight(h, e) /\ FollowRight(h, e) /\ RaceRight(h, e)

-----------------------------------------------------------------------------
\* t is s with x at its end.
Adds(s, t, x) ==
    /\ Len(s) \in Nat /\ Len(t) = Len(s) + 1
    /\ \A n \in 1 .. Len(s) : t[n] = s[n]
    /\ t[Len(s) + 1] = x

\* p settles.
Ends(h, k, p, s, v) ==
    /\ HeapTyped(k) /\ p \in Ids
    /\ ~Settled(h, p) /\ s \in {"fulfilled", "rejected"}
    /\ k.state = [h.state EXCEPT ![p] = s] /\ k.result = [h.result EXCEPT ![p] = v]
    /\ k.subs = h.subs /\ k.left = h.left /\ k.array = h.array
    /\ \/ k.queue = h.queue /\ h.subs[p] = <<>>
       \/ Adds(h.queue, k.queue, Publish(p))

MayEnd(h, e, p, s, v) ==
    /\ ~Untouched(e, p)
    /\ Bound(h, e, p) => s = h.state[e.follows[p]] /\ v = h.result[e.follows[p]]
    /\ e.made[p].by = "race" => \/ LooseRace(h, e, p)
                                \/ \E i \in 1 .. 2 : /\ s = h.state[e.made[p].of[i]]
                                                     /\ v = h.result[e.made[p].of[i]]

LEMMA QueueTyped ==
    ASSUME NEW h \in Shapes
    PROVE  /\ Len(h.queue) \in Nat
           /\ \A n \in 1 .. Len(h.queue) : h.queue[n].promise \in Ids
<1>1. h.queue \in Seq(Jobs)
  BY DEF Shapes
<1>2. \A n \in 1 .. Len(h.queue) : h.queue[n] \in Jobs
  BY <1>1
<1>3. \A j \in Jobs : j.promise \in Ids
  BY Zenon DEF Jobs
<1>4. Len(h.queue) \in Nat
  BY <1>1
<1> QED BY <1>2, <1>3, <1>4

LEMMA PublishFields == \A p : Publish(p).do = "publish" /\ Publish(p).promise = p
BY DEF Publish

LEMMA EndsCore ==
    ASSUME NEW h, NEW k, NEW e, NEW p, NEW s, NEW v,
           Core(h, e), Ends(h, k, p, s, v), MayEnd(h, e, p, s, v)
    PROVE  Core(k, e)
<1>0. /\ h \in Shapes /\ EnvTyped(e) /\ CurrentRight(h, e)
      /\ SubsRight(h, e) /\ SubsOrdered(h, e) /\ JobsRight(h, e) /\ JobsOrdered(h, e) /\ LinesRight(h, e)
      /\ CalledRight(h, e) /\ WaitingRight(h, e)
      /\ FreshRight(h, e) /\ FollowRight(h, e) /\ RaceRight(h, e)
  BY DEF Core, HeapTyped
<1>1. /\ HeapTyped(k) /\ p \in Ids /\ k.subs = h.subs
      /\ h.state[p] = "pending" /\ s # "pending"
      /\ k.state[p] = s /\ k.result[p] = v
      /\ \A q \in Ids : q # p => k.state[q] = h.state[q] /\ k.result[q] = h.result[q]
      /\ \A q \in Ids : Settled(h, q) => q # p /\ Settled(k, q)
  BY <1>0 DEF Ends, Shapes, Settled
<1>2. \A m \in {e.made[q] : q \in Ids} : m.by = "then" => m.of[1] \in Ids
  BY <1>0 DEF EnvTyped, MadeRight
<1>3. /\ Len(h.queue) \in Nat
      /\ \/ k.queue = h.queue /\ h.subs[p] = <<>>
         \/ Adds(h.queue, k.queue, Publish(p))
      /\ \A n \in 1 .. Len(h.queue) : k.queue[n] = h.queue[n] /\ h.queue[n].promise \in Ids
  BY <1>0, QueueTyped DEF Ends, Adds
<1>a. /\ \A n \in 1 .. Len(k.queue) : \/ n \in 1 .. Len(h.queue) /\ k.queue[n] = h.queue[n]
                                      \/ n = Len(h.queue) + 1 /\ k.queue[n].do = "publish" /\ k.queue[n].promise = p
      /\ \A n \in 1 .. Len(h.queue) : n \in 1 .. Len(k.queue)
      /\ h.subs[p] # <<>> => /\ Len(h.queue) + 1 \in 1 .. Len(k.queue)
                             /\ k.queue[Len(h.queue) + 1].do = "publish" /\ k.queue[Len(h.queue) + 1].promise = p
  <2>1. CASE k.queue = h.queue /\ h.subs[p] = <<>>
    BY <2>1
  <2>2. CASE Adds(h.queue, k.queue, Publish(p))
    <3>1. Len(k.queue) = Len(h.queue) + 1 /\ k.queue[Len(h.queue) + 1] = Publish(p)
      BY <2>2 DEF Adds
    <3> QED BY <1>3, <3>1, PublishFields
  <2> QED BY <1>3, <2>1, <2>2
<1>4. CurrentRight(k, e)
  BY <1>0, <1>1 DEF CurrentRight, EnvTyped, Ids
<1>5. SubsRight(k, e) /\ SubsOrdered(k, e)
  BY <1>0, <1>1 DEF SubsRight, SubsOrdered
<1>6. JobsRight(k, e)
  <2> SUFFICES ASSUME NEW n \in 1 .. Len(k.queue) PROVE JobRight(k, e, k.queue[n])
    BY DEF JobsRight
  <2>1. CASE n \in 1 .. Len(h.queue)
    <3> DEFINE job == h.queue[n]
    <3>1. k.queue[n] = job /\ job.promise \in Ids /\ JobRight(h, e, job)
      BY <1>0, <1>3, <2>1 DEF JobsRight
    <3> HIDE DEF job
    <3>2. e.made[job.promise].by = "then" => e.made[job.promise].of[1] \in Ids
      BY <1>2, <3>1
    <3>3. JobRight(k, e, job)
      BY <1>1, <3>1, <3>2 DEF JobRight, Settled
    <3> QED BY <3>1, <3>3
  <2>2. CASE k.queue[n].do = "publish" /\ k.queue[n].promise = p
    BY <1>1, <2>2 DEF JobRight, Settled
  <2> QED BY <1>a, <2>1, <2>2
<1>7. \A n \in 1 .. Len(k.queue), q \in Ids : Calls(k, e, n, q) <=> n \in 1 .. Len(h.queue) /\ Calls(h, e, n, q)
  BY <1>3, <1>a DEF Calls
<1>8. JobsOrdered(k, e)
  BY <1>0, <1>3, <1>7 DEF JobsOrdered
<1>9. LinesRight(k, e)
  <2> SUFFICES ASSUME NEW q \in Ids, NEW n \in 1 .. Len(h.subs[q]),
                      h.subs[q][n].do = "handler", Live(e, q, n)
               PROVE  /\ Settled(k, q) => PublishFirst(k, e, q)
                      /\ \A m \in 1 .. Len(k.queue) : Calls(k, e, m, q) => h.subs[q][n].child < k.queue[m].promise
    BY <1>1 DEF LinesRight
  <2>1. \A m \in 1 .. Len(k.queue) : Calls(k, e, m, q) => h.subs[q][n].child < k.queue[m].promise
    BY <1>0, <1>3, <1>7 DEF LinesRight
  <2>2. ASSUME q # p, Settled(k, q)
        PROVE  PublishFirst(k, e, q)
    <3>1. PublishFirst(h, e, q)
      BY <1>0, <1>1, <2>2 DEF LinesRight, Settled
    <3> SUFFICES ASSUME e.current.promise # q PROVE PublishFirst(k, e, q)
      BY DEF PublishFirst
    <3>2. PICK m \in 1 .. Len(h.queue) :
             /\ h.queue[m].do = "publish" /\ h.queue[m].promise = q
             /\ \A l \in 1 .. Len(h.queue) : Calls(h, e, l, q) => m < l
      BY <3>1 DEF PublishFirst
    <3>3. /\ m \in 1 .. Len(k.queue) /\ k.queue[m] = h.queue[m]
          /\ \A l \in 1 .. Len(k.queue) : Calls(k, e, l, q) => m < l
      BY <1>3, <1>a, <1>7, <3>2
    <3> QED BY <3>2, <3>3 DEF PublishFirst
  <2>3. CASE q = p
    <3>1. h.subs[p] # <<>>
      BY <2>3
    <3>2. \A m \in 1 .. Len(k.queue) : ~Calls(k, e, m, p)
      <4> SUFFICES ASSUME NEW m \in 1 .. Len(h.queue), Calls(h, e, m, p)
                   PROVE  FALSE
        BY <1>1, <1>7
      <4>1. JobRight(h, e, h.queue[m])
        BY <1>0 DEF JobsRight
      <4> QED BY <1>1, <4>1 DEF JobRight, Calls, Settled
    <3> QED BY <1>a, <2>1, <2>3, <3>1, <3>2 DEF PublishFirst
  <2> QED BY <2>1, <2>2, <2>3
<1>10. CalledRight(k, e)
  BY <1>0, <1>1, <1>2 DEF CalledRight, Settled
<1>11. WaitingRight(k, e)
  BY <1>0, <1>1, <1>3, SMTT(30) DEF WaitingRight, InLine, Adds
<1>b. \A q \in Ids : Loose(h, q) => Loose(k, q)
  BY <1>1 DEF Loose, Settled
<1>c. \A q \in Ids : e.made[q].by = "race" /\ LooseRace(h, e, q) => LooseRace(k, e, q)
  BY <1>0, <1>b DEF LooseRace, EnvTyped, MadeRight
<1>d. \A q \in Ids : Alone(h, e, q) => Alone(k, e, q)
  BY <1>1, <1>a DEF Alone
<1>12. FreshRight(k, e)
  BY <1>0, <1>1, <1>c, <1>d DEF FreshRight, MayEnd
<1>e. \A q \in Ids : Bound(k, e, q) => Bound(h, e, q) /\ e.follows[q] \in Ids
  BY <1>0, <1>b, BoundAssumption DEF Bound, EnvTyped, Ids
<1>13. FollowRight(k, e)
  <2> SUFFICES ASSUME NEW q \in Ids, Bound(h, e, q), e.follows[q] \in Ids, Settled(k, q)
               PROVE  /\ k.state[q] = k.state[e.follows[q]]
                      /\ k.result[q] = k.result[e.follows[q]]
    BY <1>0, <1>1, <1>3, <1>a, <1>e DEF FollowRight
  <2>2. CASE q # p
    BY <1>0, <1>1, <2>2 DEF FollowRight, Settled
  <2>3. CASE q = p
    BY <1>1, <2>3 DEF MayEnd
  <2> QED BY <2>2, <2>3
<1>14. RaceRight(k, e)
  BY <1>0, <1>1, <1>c DEF RaceRight, MayEnd, Settled, EnvTyped, MadeRight
<1> QED BY <1>0, <1>1, <1>4, <1>5, <1>6, <1>8, <1>9, <1>10, <1>11, <1>12, <1>13, <1>14 DEF Core
-----------------------------------------------------------------------------
\* A job that is neither of a handler: it comes last.
Queues(h, k, job) ==
    /\ HeapTyped(k) /\ Adds(h.queue, k.queue, job)
    /\ k.state = h.state /\ k.result = h.result
    /\ k.subs = h.subs /\ k.left = h.left /\ k.array = h.array

MayQueue(h, e, job) ==
    \/ job.do = "publish" /\ Settled(h, job.promise)
    \/ /\ job.do = "foreign" /\ job.promise \in Ids
       /\ Asks(h, e, job.promise)
       /\ ~Untouched(e, job.promise) /\ ~Bound(h, e, job.promise)

LEMMA AddsPlaces ==
    ASSUME NEW s, NEW t, NEW x, Adds(s, t, x)
    PROVE  /\ Len(s) \in Nat /\ Len(t) = Len(s) + 1
           /\ \A n \in 1 .. Len(s) : n \in 1 .. Len(t) /\ t[n] = s[n]
           /\ Len(s) + 1 \in 1 .. Len(t) /\ t[Len(s) + 1] = x
           /\ \A n \in 1 .. Len(t) : \/ n \in 1 .. Len(s) /\ t[n] = s[n]
                                     \/ n = Len(s) + 1 /\ t[n] = x
BY DEF Adds

LEMMA QueuesCore ==
    ASSUME NEW h, NEW k, NEW e, NEW job,
           Core(h, e), Queues(h, k, job), MayQueue(h, e, job)
    PROVE  Core(k, e)
<1>0. /\ h \in Shapes /\ EnvTyped(e) /\ CurrentRight(h, e)
      /\ SubsRight(h, e) /\ SubsOrdered(h, e) /\ JobsRight(h, e) /\ JobsOrdered(h, e) /\ LinesRight(h, e)
      /\ CalledRight(h, e) /\ WaitingRight(h, e)
      /\ FreshRight(h, e) /\ FollowRight(h, e) /\ RaceRight(h, e)
  BY DEF Core, HeapTyped
<1>1. /\ HeapTyped(k) /\ k.subs = h.subs /\ k.state = h.state /\ k.result = h.result
      /\ Adds(h.queue, k.queue, job)
  BY DEF Queues
<1>2. /\ Len(h.queue) \in Nat
      /\ \A n \in 1 .. Len(h.queue) : n \in 1 .. Len(k.queue) /\ k.queue[n] = h.queue[n]
      /\ \A n \in 1 .. Len(k.queue) : \/ n \in 1 .. Len(h.queue) /\ k.queue[n] = h.queue[n]
                                      \/ n = Len(h.queue) + 1 /\ k.queue[n] = job
  BY <1>1, AddsPlaces
<1>3. job.do # "invoke"
  BY DEF MayQueue
<1>a. /\ \A q : LooseRace(k, e, q) <=> LooseRace(h, e, q)
      /\ \A q : Bound(k, e, q) <=> Bound(h, e, q)
  BY <1>1 DEF LooseRace, Loose, Bound, Settled
<1>4. /\ CurrentRight(k, e) /\ SubsRight(k, e) /\ SubsOrdered(k, e)
      /\ CalledRight(k, e) /\ RaceRight(k, e)
  BY <1>0, <1>1, <1>a DEF CurrentRight, SubsRight, SubsOrdered, CalledRight, RaceRight, Settled
<1>5. JobsRight(k, e)
  <2>1. \A j : JobRight(h, e, j) => JobRight(k, e, j)
    BY <1>1 DEF JobRight, Settled
  <2>2. JobRight(k, e, job)
    BY <1>1 DEF JobRight, MayQueue, Asks, Settled
  <2> QED BY <1>0, <1>2, <2>1, <2>2 DEF JobsRight
<1>6. \A n \in 1 .. Len(k.queue), q \in Ids : Calls(k, e, n, q) <=> n \in 1 .. Len(h.queue) /\ Calls(h, e, n, q)
  BY <1>2, <1>3 DEF Calls
<1>7. JobsOrdered(k, e)
  BY <1>0, <1>2, <1>6 DEF JobsOrdered
<1>8. LinesRight(k, e)
  <2>1. ASSUME NEW q \in Ids, PublishFirst(h, e, q)
        PROVE  PublishFirst(k, e, q)
    <3> SUFFICES ASSUME e.current.promise # q PROVE PublishFirst(k, e, q)
      BY DEF PublishFirst
    <3>2. PICK m \in 1 .. Len(h.queue) :
             /\ h.queue[m].do = "publish" /\ h.queue[m].promise = q
             /\ \A l \in 1 .. Len(h.queue) : Calls(h, e, l, q) => m < l
      BY <2>1 DEF PublishFirst
    <3>3. /\ m \in 1 .. Len(k.queue) /\ k.queue[m] = h.queue[m]
          /\ \A l \in 1 .. Len(k.queue) : Calls(k, e, l, q) => m < l
      BY <1>2, <1>6, <3>2
    <3> QED BY <3>2, <3>3 DEF PublishFirst
  <2> QED BY <1>0, <1>1, <1>2, <1>6, <2>1 DEF LinesRight, Settled
<1>9. WaitingRight(k, e)
  BY <1>0, <1>1, <1>2, SMTT(30) DEF WaitingRight, InLine
<1>10. FreshRight(k, e)
  BY <1>0, <1>1, <1>2, <1>a DEF FreshRight, Alone, MayQueue, Asks
<1>11. FollowRight(k, e)
  BY <1>0, <1>1, <1>2, <1>a DEF FollowRight, MayQueue, Settled
<1> QED BY <1>0, <1>1, <1>4, <1>5, <1>7, <1>8, <1>9, <1>10, <1>11 DEF Core

-----------------------------------------------------------------------------
\* A subscriber comes last.
Joins(h, k, q, sub) ==
    /\ HeapTyped(k) /\ q \in Ids
    /\ Adds(h.subs[q], k.subs[q], sub)
    /\ \A p \in Ids : p # q => k.subs[p] = h.subs[p]
    /\ k.state = h.state /\ k.result = h.result
    /\ k.queue = h.queue /\ k.left = h.left /\ k.array = h.array

MayJoin(h, e, q, sub) ==
    /\ sub.child \in Ids
    /\ \/ /\ sub.do = "adopt" /\ Asks(h, e, sub.child)
          /\ ~Untouched(e, sub.child) /\ (Bound(h, e, sub.child) => q = e.follows[sub.child])
       \/ /\ sub.do = "entry" /\ e.made[sub.child].by = "all"
          /\ sub.index \in 1 .. 2 /\ e.made[sub.child].of[sub.index] = Own(q)
          /\ \A n \in 1 .. Len(h.subs[q]) : h.subs[q][n].do = "entry" /\ Live(e, q, n) =>
                h.subs[q][n].child # sub.child \/ h.subs[q][n].index # sub.index
       \/ /\ sub.do = "race" /\ e.made[sub.child].by = "race"
          /\ e.made[sub.child].of[1] = q \/ e.made[sub.child].of[2] = q

LEMMA JoinsCore ==
    ASSUME NEW h, NEW k, NEW e, NEW q, NEW sub,
           Core(h, e), Joins(h, k, q, sub), MayJoin(h, e, q, sub)
    PROVE  Core(k, e)
<1>0. /\ h \in Shapes /\ EnvTyped(e) /\ CurrentRight(h, e)
      /\ SubsRight(h, e) /\ SubsOrdered(h, e) /\ JobsRight(h, e) /\ JobsOrdered(h, e) /\ LinesRight(h, e)
      /\ CalledRight(h, e) /\ WaitingRight(h, e)
      /\ FreshRight(h, e) /\ FollowRight(h, e) /\ RaceRight(h, e)
  BY DEF Core, HeapTyped
<1>1. /\ HeapTyped(k) /\ k.queue = h.queue /\ k.state = h.state /\ k.result = h.result
      /\ Adds(h.subs[q], k.subs[q], sub) /\ q \in Ids
  BY DEF Joins
<1>2. /\ \A p \in Ids : \A n \in 1 .. Len(h.subs[p]) : n \in 1 .. Len(k.subs[p]) /\ k.subs[p][n] = h.subs[p][n]
      /\ \A p \in Ids : \A n \in 1 .. Len(k.subs[p]) : \/ n \in 1 .. Len(h.subs[p]) /\ k.subs[p][n] = h.subs[p][n]
                                                       \/ p = q /\ n = Len(h.subs[q]) + 1 /\ k.subs[p][n] = sub
  BY <1>1, AddsPlaces DEF Joins
<1>3. Len(h.subs[q]) \in Nat
  BY <1>1 DEF Adds
<1>a. /\ \A p : LooseRace(k, e, p) <=> LooseRace(h, e, p)
      /\ \A p : Bound(k, e, p) <=> Bound(h, e, p)
  BY <1>1 DEF LooseRace, Loose, Bound, Settled
<1>4. CurrentRight(k, e) /\ JobsOrdered(k, e) /\ CalledRight(k, e) /\ RaceRight(k, e)
  BY <1>0, <1>1, <1>a, SMTT(30) DEF CurrentRight, JobsOrdered, Calls, CalledRight, RaceRight, Settled
<1>5. SubsRight(k, e)
  <2>1. \A n : SubRight(e, q, n, sub)
    BY DEF SubRight, MayJoin, Asks
  <2> QED BY <1>0, <1>2, <2>1 DEF SubsRight
<1>6. SubsOrdered(k, e)
  <2> SUFFICES ASSUME NEW p \in Ids, NEW m \in 1 .. Len(k.subs[p]), NEW n \in 1 .. Len(k.subs[p]),
                      m < n, Live(e, p, m), k.subs[p][m].do = k.subs[p][n].do
               PROVE  /\ k.subs[p][m].do = "handler" => k.subs[p][m].child < k.subs[p][n].child
                      /\ k.subs[p][m].do = "entry" => \/ k.subs[p][m].child # k.subs[p][n].child
                                                      \/ k.subs[p][m].index # k.subs[p][n].index
    BY DEF SubsOrdered
  <2>1. m \in 1 .. Len(h.subs[p]) /\ k.subs[p][m] = h.subs[p][m]
    BY <1>2, <1>3
  <2>2. CASE n \in 1 .. Len(h.subs[p]) /\ k.subs[p][n] = h.subs[p][n]
    BY <1>0, <2>1, <2>2 DEF SubsOrdered
  <2>3. CASE p = q /\ k.subs[p][n] = sub
    BY <2>1, <2>3 DEF MayJoin
  <2> QED BY <1>2, <2>2, <2>3
<1>7. JobsRight(k, e)
  BY <1>0, <1>1, Zenon DEF JobsRight, JobRight, Settled
<1>8. LinesRight(k, e)
  <2>1. sub.do # "handler"
    BY DEF MayJoin
  <2>2. \A p : PublishFirst(h, e, p) => PublishFirst(k, e, p)
    BY <1>1 DEF PublishFirst, Calls
  <2>3. \A m, p : Calls(k, e, m, p) <=> Calls(h, e, m, p)
    BY <1>1 DEF Calls
  <2> QED BY <1>0, <1>1, <1>2, <2>1, <2>2, <2>3 DEF LinesRight, Settled
<1>9. WaitingRight(k, e)
  <2>1. \A c \in Ids : e.made[c].by = "then" => e.made[c].of[1] \in Ids
    BY <1>0 DEF EnvTyped, MadeRight
  <2>2. ASSUME NEW c \in Ids, e.made[c].of[1] \in Ids, InLine(h, e, c)
        PROVE  InLine(k, e, c)
    <3> DEFINE p == e.made[c].of[1]
    <3>1. CASE \E n \in 1 .. Len(h.subs[p]) : Live(e, p, n) /\ h.subs[p][n].do = "handler" /\ h.subs[p][n].child = c
      BY <1>2, <2>2, <3>1, Zenon DEF InLine
    <3>2. CASE \E n \in 1 .. Len(h.queue) : h.queue[n].do = "invoke" /\ h.queue[n].promise = c
      BY <1>1, <3>2 DEF InLine
    <3> QED BY <2>2, <3>1, <3>2, Zenon DEF InLine
  <2> QED BY <1>0, <2>1, <2>2 DEF WaitingRight
<1>10. FreshRight(k, e)
  <2>1. sub.do = "adopt" => ~Untouched(e, sub.child) /\ Asks(h, e, sub.child)
    BY DEF MayJoin
  <2>2. \A c : Alone(h, e, c) /\ ~(sub.do = "adopt" /\ sub.child = c) => Alone(k, e, c)
    BY <1>1, <1>2, SMTT(30) DEF Alone
  <2> SUFFICES ASSUME NEW c \in Ids
               PROVE  /\ Untouched(e, c) => k.state[c] = "pending"
                      /\ Untouched(e, c) \/ e.made[c].by = "all" => Alone(k, e, c) /\ e.follows[c] = 0
                      /\ e.made[c].by = "race" => e.follows[c] = 0 /\ (LooseRace(k, e, c) \/ Alone(k, e, c))
    BY DEF FreshRight
  <2>3. /\ Untouched(e, c) \/ e.made[c].by = "all" => Alone(h, e, c) /\ e.follows[c] = 0
        /\ e.made[c].by = "race" => e.follows[c] = 0 /\ (LooseRace(h, e, c) \/ Alone(h, e, c))
    BY <1>0 DEF FreshRight
  <2> QED BY <1>0, <1>1, <1>a, <2>1, <2>2, <2>3 DEF FreshRight, Asks
<1>11. FollowRight(k, e)
  <2> SUFFICES ASSUME NEW c \in Ids, Bound(k, e, c)
               PROVE  /\ e.foreign[c] = 0
                      /\ \A n \in 1 .. Len(k.queue) : k.queue[n].do = "foreign" => k.queue[n].promise # c
                      /\ \A p \in Ids : \A n \in 1 .. Len(k.subs[p]) :
                            k.subs[p][n].do = "adopt" /\ k.subs[p][n].child = c => p = e.follows[c]
                      /\ Settled(k, c) => /\ k.state[c] = k.state[e.follows[c]]
                                          /\ k.result[c] = k.result[e.follows[c]]
    BY DEF FollowRight
  <2>1. /\ e.foreign[c] = 0
        /\ \A n \in 1 .. Len(h.queue) : h.queue[n].do = "foreign" => h.queue[n].promise # c
        /\ \A p \in Ids : \A n \in 1 .. Len(h.subs[p]) :
              h.subs[p][n].do = "adopt" /\ h.subs[p][n].child = c => p = e.follows[c]
        /\ Settled(h, c) => /\ h.state[c] = h.state[e.follows[c]]
                            /\ h.result[c] = h.result[e.follows[c]]
    BY <1>0, <1>a DEF FollowRight
  <2>2. sub.do = "adopt" /\ sub.child = c => q = e.follows[c]
    BY <1>a DEF MayJoin
  <2>3. \A p \in Ids : \A n \in 1 .. Len(k.subs[p]) :
           k.subs[p][n].do = "adopt" /\ k.subs[p][n].child = c => p = e.follows[c]
    BY <1>2, <2>1, <2>2
  <2> QED BY <1>1, <2>1, <2>3 DEF Settled
<1> QED BY <1>0, <1>1, <1>4, <1>5, <1>6, <1>7, <1>8, <1>9, <1>10, <1>11 DEF Core

\* Counters and values of Promise.all do not matter to the rest.
LEMMA CountCore ==
    ASSUME NEW h, NEW k, NEW e, Core(h, e), HeapTyped(k),
           k.state = h.state, k.result = h.result, k.subs = h.subs, k.queue = h.queue
    PROVE  Core(k, e)
<1>0. /\ EnvTyped(e) /\ CurrentRight(h, e)
      /\ SubsRight(h, e) /\ SubsOrdered(h, e) /\ JobsRight(h, e) /\ JobsOrdered(h, e) /\ LinesRight(h, e)
      /\ CalledRight(h, e) /\ WaitingRight(h, e)
      /\ FreshRight(h, e) /\ FollowRight(h, e) /\ RaceRight(h, e)
  BY DEF Core
<1>a. /\ \A p : LooseRace(k, e, p) <=> LooseRace(h, e, p)
      /\ \A p : Bound(k, e, p) <=> Bound(h, e, p)
  BY DEF LooseRace, Loose, Bound, Settled
<1>1. /\ CurrentRight(k, e) /\ SubsRight(k, e) /\ SubsOrdered(k, e) /\ JobsOrdered(k, e)
      /\ CalledRight(k, e) /\ RaceRight(k, e)
  BY <1>0, <1>a, SMTT(30) DEF CurrentRight, SubsRight, SubsOrdered, JobsOrdered, Calls, CalledRight, RaceRight, Settled
<1>2. JobsRight(k, e)
  BY <1>0, Zenon DEF JobsRight, JobRight, Settled
<1>3. LinesRight(k, e) /\ WaitingRight(k, e)
  <2>1. \A q : PublishFirst(h, e, q) => PublishFirst(k, e, q)
    BY DEF PublishFirst, Calls
  <2>2. \A m, q : Calls(k, e, m, q) <=> Calls(h, e, m, q)
    BY DEF Calls
  <2>3. LinesRight(k, e)
    BY <1>0, <2>1, <2>2 DEF LinesRight, Settled
  <2>4. \A c \in Ids : InLine(h, e, c) => InLine(k, e, c)
    BY Zenon DEF InLine
  <2> QED BY <1>0, <2>3, <2>4 DEF WaitingRight
<1>4. FreshRight(k, e) /\ FollowRight(k, e)
  BY <1>0, <1>a DEF FreshRight, Alone, FollowRight, Settled
<1> QED BY <1>0, <1>1, <1>2, <1>3, <1>4 DEF Core
-----------------------------------------------------------------------------
LEMMA SameLoose ==
    ASSUME NEW h, NEW k, NEW e, NEW f, k.state = h.state, k.result = h.result,
           f.made = e.made, f.settles = e.settles, f.follows = e.follows
    PROVE  /\ \A q : LooseRace(k, f, q) <=> LooseRace(h, e, q)
           /\ \A q : Bound(k, f, q) <=> Bound(h, e, q)
BY DEF LooseRace, Loose, Bound, Settled

\* What is not in fields is the same.
Same(e, f, fields) ==
    /\ "current" \notin fields => f.current = e.current
    /\ "made"    \notin fields => f.made = e.made
    /\ "settles" \notin fields => f.settles = e.settles
    /\ "foreign" \notin fields => f.foreign = e.foreign
    /\ "invoked" \notin fields => f.invoked = e.invoked
    /\ "follows" \notin fields => f.follows = e.follows

\* The parts that calls of resolving functions, answers and adoptions do not touch.
LEMMA SameLines ==
    ASSUME NEW h, NEW e, NEW f, Core(h, e), Same(e, f, {"settles", "foreign", "follows"})
    PROVE  /\ CurrentRight(h, f) /\ SubsRight(h, f) /\ SubsOrdered(h, f) /\ JobsRight(h, f)
           /\ JobsOrdered(h, f) /\ LinesRight(h, f) /\ CalledRight(h, f) /\ WaitingRight(h, f)
           /\ RaceRight(h, f)
<1>0. /\ h \in Shapes /\ EnvTyped(e) /\ CurrentRight(h, e)
      /\ SubsRight(h, e) /\ SubsOrdered(h, e) /\ JobsRight(h, e) /\ JobsOrdered(h, e) /\ LinesRight(h, e)
      /\ CalledRight(h, e) /\ WaitingRight(h, e)
      /\ FreshRight(h, e) /\ FollowRight(h, e) /\ RaceRight(h, e)
  BY DEF Core, HeapTyped
<1>1. f.current = e.current /\ f.made = e.made /\ f.invoked = e.invoked
  BY DEF Same
<1>2. CurrentRight(h, f) /\ CalledRight(h, f) /\ RaceRight(h, f) /\ JobsOrdered(h, f)
  BY <1>0, <1>1 DEF CurrentRight, CalledRight, RaceRight, LooseRace, JobsOrdered, Calls
<1>3. SubsRight(h, f) /\ SubsOrdered(h, f)
  <2>1. \A p, n : Live(f, p, n) <=> Live(e, p, n)
    BY <1>1 DEF Live
  <2>2. \A p, n, sub : SubRight(f, p, n, sub) <=> SubRight(e, p, n, sub)
    BY <1>1, <2>1 DEF SubRight
  <2> QED BY <1>0, <2>1, <2>2 DEF SubsRight, SubsOrdered
<1>4. JobsRight(h, f)
  BY <1>0, <1>1 DEF JobsRight, JobRight
<1>5. LinesRight(h, f)
  BY <1>0, <1>1 DEF LinesRight, Live, PublishFirst, Calls
<1>6. WaitingRight(h, f)
  BY <1>0, <1>1, SMTT(30) DEF WaitingRight, InLine, Live
<1> QED BY <1>2, <1>3, <1>4, <1>5, <1>6

\* A resolving function is called once more.
LEMMA CountsCall ==
    ASSUME NEW h, NEW e, NEW f, NEW p \in Ids, Core(h, e), Same(e, f, {"settles"}),
           e.settles[p] < MaxSettles, f.settles = [e.settles EXCEPT ![p] = e.settles[p] + 1]
    PROVE  Core(h, f)
<1>0. /\ h \in Shapes /\ EnvTyped(e) /\ CurrentRight(h, e)
      /\ SubsRight(h, e) /\ SubsOrdered(h, e) /\ JobsRight(h, e) /\ JobsOrdered(h, e) /\ LinesRight(h, e)
      /\ CalledRight(h, e) /\ WaitingRight(h, e)
      /\ FreshRight(h, e) /\ FollowRight(h, e) /\ RaceRight(h, e)
  BY DEF Core, HeapTyped
<1>1. /\ f.current = e.current /\ f.made = e.made /\ f.invoked = e.invoked
      /\ f.foreign = e.foreign /\ f.follows = e.follows
  BY DEF Same
<1>2. Same(e, f, {"settles", "foreign", "follows"})
  BY <1>1 DEF Same
<1>3. e.settles \in [Ids -> 0 .. MaxSettles] /\ MaxSettles \in Nat
  BY <1>0, BoundAssumption DEF EnvTyped
<1>4. f.settles \in [Ids -> 0 .. MaxSettles] /\ \A q \in Ids : f.settles[q] = e.settles[q] \/ f.settles[q] = e.settles[q] + 1
  BY <1>3
<1>5. EnvTyped(f)
  BY <1>0, <1>1, <1>4 DEF EnvTyped
<1>6. \A q \in Ids : (Untouched(f, q) => Untouched(e, q)) /\ (Bound(h, f, q) => Bound(h, e, q))
  BY <1>1, <1>3, <1>4 DEF Untouched, Bound
<1>7. FreshRight(h, f)
  BY <1>0, <1>1, <1>6 DEF FreshRight, LooseRace, Alone
<1>8. FollowRight(h, f)
  BY <1>0, <1>1, <1>6 DEF FollowRight
<1> QED BY <1>0, <1>2, <1>5, <1>7, <1>8, SameLines DEF Core

\* p is resolved with the promise q.
LEMMA NotesCore ==
    ASSUME NEW h, NEW e, NEW f, NEW p \in Ids, NEW q \in Ids, Core(h, e), Same(e, f, {"follows"}),
           f.follows = [e.follows EXCEPT ![p] = q],
           ~Untouched(e, p), e.made[p].by \in {"new", "then"},
           e.settles[p] > 1 \/ (h.state[p] = "pending" /\ Alone(h, e, p))
    PROVE  Core(h, f)
<1>0. /\ h \in Shapes /\ EnvTyped(e) /\ CurrentRight(h, e)
      /\ SubsRight(h, e) /\ SubsOrdered(h, e) /\ JobsRight(h, e) /\ JobsOrdered(h, e) /\ LinesRight(h, e)
      /\ CalledRight(h, e) /\ WaitingRight(h, e)
      /\ FreshRight(h, e) /\ FollowRight(h, e) /\ RaceRight(h, e)
  BY DEF Core, HeapTyped
<1>1. /\ f.current = e.current /\ f.made = e.made /\ f.invoked = e.invoked
      /\ f.foreign = e.foreign /\ f.settles = e.settles
  BY DEF Same
<1>2. Same(e, f, {"settles", "foreign", "follows"})
  BY <1>1 DEF Same
<1>3. /\ f.follows \in [Ids -> 0 .. MaxPromises] /\ f.follows[p] = q
      /\ \A r \in Ids : r # p => f.follows[r] = e.follows[r]
  <2>1. e.follows \in [Ids -> 0 .. MaxPromises]
    BY <1>0 DEF EnvTyped
  <2> QED BY <2>1, BoundAssumption DEF Ids
<1>4. EnvTyped(f)
  BY <1>0, <1>1, <1>3 DEF EnvTyped
<1>5. FreshRight(h, f)
  BY <1>0, <1>1, <1>3 DEF FreshRight, LooseRace, Alone, Untouched
<1>6. FollowRight(h, f)
  <2>0. e.settles[p] \in Nat
    BY <1>0, BoundAssumption DEF EnvTyped
  <2>1. Bound(h, f, p) => h.state[p] = "pending" /\ Alone(h, e, p)
    BY <1>1, <2>0 DEF Bound
  <2>2. \A r \in Ids : r # p /\ Bound(h, f, r) => Bound(h, e, r)
    BY <1>1, <1>3 DEF Bound
  <2> QED BY <1>0, <1>1, <1>3, <2>1, <2>2 DEF FollowRight, Alone, Settled
<1> QED BY <1>0, <1>2, <1>4, <1>5, <1>6, SameLines DEF Core

\* A thenable is called, or answers.
LEMMA ForeignCore ==
    ASSUME NEW h, NEW e, NEW f, NEW p \in Ids, Core(h, e), Same(e, f, {"foreign"}),
           f.foreign \in [Ids -> Nat],
           \A q \in Ids : f.foreign[q] > e.foreign[q] =>
               q = p /\ ~Untouched(e, p) /\ Asks(h, e, p) /\ ~Bound(h, e, p)
    PROVE  Core(h, f)
<1>0. /\ h \in Shapes /\ EnvTyped(e) /\ CurrentRight(h, e)
      /\ SubsRight(h, e) /\ SubsOrdered(h, e) /\ JobsRight(h, e) /\ JobsOrdered(h, e) /\ LinesRight(h, e)
      /\ CalledRight(h, e) /\ WaitingRight(h, e)
      /\ FreshRight(h, e) /\ FollowRight(h, e) /\ RaceRight(h, e)
  BY DEF Core, HeapTyped
<1>1. /\ f.current = e.current /\ f.made = e.made /\ f.invoked = e.invoked
      /\ f.settles = e.settles /\ f.follows = e.follows
  BY DEF Same
<1>2. Same(e, f, {"settles", "foreign", "follows"})
  BY <1>1 DEF Same
<1>3. EnvTyped(f)
  BY <1>0, <1>1 DEF EnvTyped
<1>4. \A q \in Ids : /\ Untouched(f, q) <=> Untouched(e, q)
                     /\ Bound(h, f, q) <=> Bound(h, e, q)
                     /\ LooseRace(h, f, q) <=> LooseRace(h, e, q)
                     /\ f.foreign[q] = 0 \/ e.foreign[q] # 0 \/ f.foreign[q] > e.foreign[q]
  BY <1>0, <1>1 DEF Untouched, Bound, LooseRace, EnvTyped
<1>5. FreshRight(h, f)
  BY <1>0, <1>1, <1>4 DEF FreshRight, Alone, Asks
<1>6. FollowRight(h, f)
  BY <1>0, <1>1, <1>4 DEF FollowRight
<1> QED BY <1>0, <1>2, <1>3, <1>5, <1>6, SameLines DEF Core

LEMMA ForeignSame ==
    ASSUME NEW h, NEW e, NEW f, Core(h, e), Same(e, f, {"foreign"}), f.foreign = e.foreign
    PROVE  Core(h, f)
<1>1. e.foreign \in [Ids -> Nat]
  BY DEF Core, EnvTyped
<1>2. \A q \in Ids : ~(f.foreign[q] > e.foreign[q])
  BY <1>1
<1>3. CASE Ids = {}
  <2>1. f.current = e.current /\ f.made = e.made /\ f.settles = e.settles
        /\ f.invoked = e.invoked /\ f.follows = e.follows
    BY DEF Same
  <2> QED BY <1>1, <1>3, <2>1, SameLines DEF Core, EnvTyped, FreshRight, FollowRight, Same
<1>4. CASE Ids # {}
  BY <1>1, <1>2, <1>4, ForeignCore
<1> QED BY <1>3, <1>4

LEMMA ForeignAnswered ==
    ASSUME NEW h, NEW e, NEW f, NEW p \in Ids, Core(h, e), Same(e, f, {"foreign"}),
           e.foreign[p] > 0, f.foreign = [e.foreign EXCEPT ![p] = e.foreign[p] - 1]
    PROVE  Core(h, f)
<1>1. e.foreign \in [Ids -> Nat]
  BY DEF Core, EnvTyped
<1>2. f.foreign \in [Ids -> Nat] /\ \A q \in Ids : ~(f.foreign[q] > e.foreign[q])
  BY <1>1
<1> QED BY <1>2, ForeignCore

LEMMA ForeignCalled ==
    ASSUME NEW h, NEW e, NEW f, NEW p \in Ids, Core(h, e), Same(e, f, {"foreign"}),
           f.foreign = [e.foreign EXCEPT ![p] = e.foreign[p] + 1],
           ~Untouched(e, p), Asks(h, e, p), ~Bound(h, e, p)
    PROVE  Core(h, f)
<1>1. e.foreign \in [Ids -> Nat]
  BY DEF Core, EnvTyped
<1>2. f.foreign \in [Ids -> Nat] /\ \A q \in Ids : f.foreign[q] > e.foreign[q] => q = p
  BY <1>1
<1> QED BY <1>2, ForeignCore

LEMMA SameAsks ==
    ASSUME NEW h, NEW k, NEW e, NEW f, k.state = h.state, k.result = h.result, f.made = e.made
    PROVE  \A q : Asks(k, f, q) <=> Asks(h, e, q)
BY DEF Asks, LooseRace, Loose, Settled
-----------------------------------------------------------------------------
LEMMA SubsTyped ==
    ASSUME NEW h \in Shapes, NEW p \in Ids
    PROVE  /\ Len(h.subs[p]) \in Nat
           /\ \A n \in 1 .. Len(h.subs[p]) :
                 /\ h.subs[p][n].do \in {"handler", "adopt", "entry", "race"}
                 /\ h.subs[p][n].child \in Ids /\ h.subs[p][n].index \in 0 .. 2
<1>1. h.subs[p] \in Seq(Subs)
  BY DEF Shapes
<1>2. \A n \in 1 .. Len(h.subs[p]) : h.subs[p][n] \in Subs
  BY <1>1
<1>3. \A sub \in Subs : /\ sub.do \in {"handler", "adopt", "entry", "race"}
                        /\ sub.child \in Ids /\ sub.index \in 0 .. 2
  BY DEF Subs
<1>4. Len(h.subs[p]) \in Nat
  BY <1>1
<1> QED BY <1>2, <1>3, <1>4

\* Nothing is known of a promise that is not made.
LEMMA NobodyKnows ==
    ASSUME NEW h, NEW e, NEW n \in Ids, Core(h, e), e.made[n].by = "nobody"
    PROVE  /\ h.state[n] = "pending" /\ Alone(h, e, n) /\ e.follows[n] = 0 /\ e.invoked[n] = <<>>
           /\ \A p \in Ids : \A i \in 1 .. Len(h.subs[p]) : h.subs[p][i].child # n
           /\ \A i \in 1 .. Len(h.queue) : h.queue[i].do \in {"invoke", "foreign"} => h.queue[i].promise # n
<1>0. /\ h \in Shapes /\ EnvTyped(e) /\ CurrentRight(h, e)
      /\ SubsRight(h, e) /\ SubsOrdered(h, e) /\ JobsRight(h, e) /\ JobsOrdered(h, e) /\ LinesRight(h, e)
      /\ CalledRight(h, e) /\ WaitingRight(h, e)
      /\ FreshRight(h, e) /\ FollowRight(h, e) /\ RaceRight(h, e)
  BY DEF Core, HeapTyped
<1>1. Untouched(e, n)
  BY DEF Untouched
<1>2. h.state[n] = "pending" /\ Alone(h, e, n) /\ e.follows[n] = 0
  BY <1>0, <1>1 DEF FreshRight
<1>3. e.invoked[n] = <<>>
  BY <1>0 DEF CalledRight
<1>4. \A p \in Ids : \A i \in 1 .. Len(h.subs[p]) : h.subs[p][i].child # n
  BY <1>0, SubsTyped, ZenonT(40) DEF SubsRight, SubRight
<1>5. \A i \in 1 .. Len(h.queue) : h.queue[i].do \in {"invoke", "foreign"} => h.queue[i].promise # n
  BY <1>0 DEF JobsRight, JobRight
<1> QED BY <1>2, <1>3, <1>4, <1>5

\* The promise n is the next.
Makes(e, f, n, m) ==
    /\ Same(e, f, {"made"}) /\ f.made = [e.made EXCEPT ![n] = m]
    /\ n \in Ids /\ e.made[n].by = "nobody" /\ \A p \in 1 .. n - 1 : e.made[p].by # "nobody"
    /\ MadeRight(m)

\* All is right with it, but that a handler must stand in line.
LEMMA MakesCore ==
    ASSUME NEW h, NEW e, NEW f, NEW n, NEW m, Core(h, e), Makes(e, f, n, m), m.by # "nobody"
    PROVE  /\ HeapTyped(h) /\ EnvTyped(f) /\ CurrentRight(h, f)
           /\ SubsRight(h, f) /\ SubsOrdered(h, f) /\ JobsRight(h, f) /\ JobsOrdered(h, f)
           /\ LinesRight(h, f) /\ CalledRight(h, f)
           /\ \A c \in Ids : c # n /\ f.made[c].by = "then" /\ f.invoked[c] = <<>> => InLine(h, f, c)
           /\ FreshRight(h, f) /\ FollowRight(h, f) /\ RaceRight(h, f)
           /\ \A c \in Ids : e.made[c].by # "nobody" => c < n
<1>0. /\ h \in Shapes /\ EnvTyped(e) /\ CurrentRight(h, e)
      /\ SubsRight(h, e) /\ SubsOrdered(h, e) /\ JobsRight(h, e) /\ JobsOrdered(h, e) /\ LinesRight(h, e)
      /\ CalledRight(h, e) /\ WaitingRight(h, e)
      /\ FreshRight(h, e) /\ FollowRight(h, e) /\ RaceRight(h, e)
  BY DEF Core, HeapTyped
<1>1. /\ f.current = e.current /\ f.settles = e.settles /\ f.invoked = e.invoked
      /\ f.foreign = e.foreign /\ f.follows = e.follows
      /\ n \in Ids /\ e.made[n].by = "nobody" /\ \A p \in 1 .. n - 1 : e.made[p].by # "nobody"
      /\ MadeRight(m)
  BY DEF Makes, Same
<1>2. f.made[n] = m /\ DOMAIN f.made = Ids /\ \A c \in Ids : c # n => f.made[c] = e.made[c]
  BY <1>0 DEF Makes, EnvTyped
<1>3. \A c \in Ids : e.made[c].by # "nobody" <=> c < n
  <2>1. PICK last \in 0 .. MaxPromises : \A p \in Ids : e.made[p].by # "nobody" <=> p <= last
    BY <1>0 DEF EnvTyped
  <2>2. last < n
    BY <1>1, <2>1, BoundAssumption DEF Ids
  <2>3. last = n - 1
    <3>1. CASE n = 1
      BY <2>1, <2>2, <3>1, BoundAssumption
    <3>2. CASE n # 1
      <4>1. n - 1 \in 1 .. n - 1 /\ n - 1 \in Ids
        BY <1>1, <3>2, BoundAssumption DEF Ids
      <4>2. n - 1 <= last
        BY <1>1, <2>1, <4>1
      <4> QED BY <1>1, <2>1, <2>2, <4>2, BoundAssumption DEF Ids
    <3> QED BY <3>1, <3>2
  <2> QED BY <1>1, <2>1, <2>3, BoundAssumption DEF Ids
<1>4. EnvTyped(f)
  <2>1. \A p \in Ids : MadeRight(f.made[p])
    BY <1>0, <1>1, <1>2 DEF EnvTyped
  <2>2. \E last \in 0 .. MaxPromises : \A p \in Ids : f.made[p].by # "nobody" <=> p <= last
    <3>1. n \in 0 .. MaxPromises
      BY <1>1, BoundAssumption DEF Ids
    <3>2. \A p \in Ids : f.made[p].by # "nobody" <=> p <= n
      BY <1>1, <1>2, <1>3, BoundAssumption DEF Ids
    <3> QED BY <3>1, <3>2
  <2> QED BY <1>0, <1>1, <1>2, <2>1, <2>2 DEF EnvTyped
<1>5. /\ h.state[n] = "pending" /\ Alone(h, e, n) /\ e.follows[n] = 0 /\ e.invoked[n] = <<>>
      /\ \A p \in Ids : \A i \in 1 .. Len(h.subs[p]) : h.subs[p][i].child # n /\ h.subs[p][i].child \in Ids
      /\ \A i \in 1 .. Len(h.queue) : h.queue[i].do \in {"invoke", "foreign"} => h.queue[i].promise # n
      /\ \A i \in 1 .. Len(h.queue) : h.queue[i].promise \in Ids
  <2>1. \A p \in Ids : \A i \in 1 .. Len(h.subs[p]) : h.subs[p][i].child \in Ids
    BY <1>0, SubsTyped
  <2>2. \A i \in 1 .. Len(h.queue) : h.queue[i].promise \in Ids
    BY <1>0, QueueTyped
  <2>3. /\ h.state[n] = "pending" /\ Alone(h, e, n) /\ e.follows[n] = 0 /\ e.invoked[n] = <<>>
        /\ \A p \in Ids : \A i \in 1 .. Len(h.subs[p]) : h.subs[p][i].child # n
        /\ \A i \in 1 .. Len(h.queue) : h.queue[i].do \in {"invoke", "foreign"} => h.queue[i].promise # n
    BY <1>1, NobodyKnows
  <2> QED BY <2>1, <2>2, <2>3
<1>6. \A p, i : Live(f, p, i) <=> Live(e, p, i)
  BY <1>1 DEF Live
<1>7. SubsRight(h, f) /\ SubsOrdered(h, f)
  <2>1. \A p, i, sub : sub.child # n /\ sub.child \in Ids /\ SubRight(e, p, i, sub) => SubRight(f, p, i, sub)
    BY <1>1, <1>2, <1>6 DEF SubRight
  <2>2. SubsRight(h, f)
    BY <1>0, <1>5, <2>1 DEF SubsRight
  <2> QED BY <1>0, <1>6, <2>2 DEF SubsOrdered
<1>8. JobsRight(h, f)
  <2>1. \A j : j.promise \in Ids /\ (j.do \in {"invoke", "foreign"} => j.promise # n) /\ JobRight(h, e, j)
                => JobRight(h, f, j)
    <3> SUFFICES ASSUME NEW j, j.promise \in Ids, j.do \in {"invoke", "foreign"} => j.promise # n,
                        JobRight(h, e, j)
                 PROVE  JobRight(h, f, j)
      OBVIOUS
    <3>1. CASE j.do \in {"invoke", "foreign"}
      <4>1. f.made[j.promise] = e.made[j.promise]
        BY <1>2, <3>1
      <4> QED BY <1>1, <4>1 DEF JobRight
    <3>2. CASE j.do \notin {"invoke", "foreign"}
      BY <3>2 DEF JobRight
    <3> QED BY <3>1, <3>2
  <2> QED BY <1>0, <1>5, <2>1 DEF JobsRight
<1>9. \A i \in 1 .. Len(h.queue) : \A p : Calls(h, f, i, p) <=> Calls(h, e, i, p)
  BY <1>2, <1>5 DEF Calls
<1>10. JobsOrdered(h, f) /\ LinesRight(h, f)
  <2>1. JobsOrdered(h, f)
    BY <1>0, <1>9 DEF JobsOrdered
  <2>2. \A p \in Ids : PublishFirst(h, e, p) => PublishFirst(h, f, p)
    BY <1>1, <1>9 DEF PublishFirst
  <2> QED BY <1>0, <1>6, <1>9, <2>1, <2>2 DEF LinesRight
<1>11. CalledRight(h, f) /\ CurrentRight(h, f)
  <2>1. CurrentRight(h, f)
    BY <1>0, <1>1 DEF CurrentRight
  <2>2. ASSUME NEW c \in Ids, f.invoked[c] # <<>>
        PROVE  /\ f.made[c].by = "then" /\ Settled(h, f.made[c].of[1])
               /\ f.invoked[c] = <<<<h.state[f.made[c].of[1]], h.result[f.made[c].of[1]]>>>>
               /\ \A b \in Ids : b < c /\ f.made[b].by = "then" /\ f.made[b].of[1] = f.made[c].of[1] =>
                     f.invoked[b] # <<>>
    <3>1. c # n /\ e.made[c].by = "then" /\ f.made[c] = e.made[c]
      BY <1>0, <1>1, <1>2, <1>5, <2>2 DEF CalledRight
    <3>2. \A b \in Ids : b < c => b # n /\ f.made[b] = e.made[b]
      BY <1>1, <1>2, <1>3, <3>1, BoundAssumption DEF Ids
    <3> QED BY <1>0, <1>1, <2>2, <3>1, <3>2 DEF CalledRight
  <2> QED BY <2>1, <2>2 DEF CalledRight
<1>12. \A c \in Ids : c # n /\ f.made[c].by = "then" /\ f.invoked[c] = <<>> => InLine(h, f, c)
  BY <1>0, <1>1, <1>2, <1>6, SMTT(30) DEF WaitingRight, InLine
<1>13. FreshRight(h, f)
  <2>1. \A q \in Ids : q # n => (Untouched(f, q) <=> Untouched(e, q))
    BY <1>1, <1>2 DEF Untouched
  <2>2. \A q : Alone(h, f, q) <=> Alone(h, e, q)
    BY <1>1 DEF Alone
  <2> QED BY <1>0, <1>1, <1>2, <1>5, <2>1, <2>2 DEF FreshRight, LooseRace
<1>14. FollowRight(h, f)
  BY <1>0, <1>1 DEF FollowRight, Bound
<1>15. RaceRight(h, f)
  BY <1>0, <1>2, <1>5 DEF RaceRight, LooseRace, Settled
<1> QED BY <1>0, <1>3, <1>4, <1>7, <1>8, <1>10, <1>11, <1>12, <1>13, <1>14, <1>15 DEF Core

\* new, all and race.
LEMMA MakesOther ==
    ASSUME NEW h, NEW e, NEW f, NEW n, NEW m, Core(h, e), Makes(e, f, n, m),
           m.by \in {"new", "all", "race"}
    PROVE  Core(h, f)
<1>1. f.made[n].by # "then"
  BY DEF Makes, Core, EnvTyped
<1>2. WaitingRight(h, f)
  BY <1>1, MakesCore DEF WaitingRight
<1> QED BY <1>2, MakesCore DEF Core

LEMMA MakesMore ==
    ASSUME NEW h, NEW e, NEW f, NEW n, NEW m, Core(h, e), Makes(e, f, n, m), m.by # "nobody"
    PROVE  /\ n \in Ids /\ f.made[n] = m /\ f.invoked[n] = <<>>
           /\ \A q \in Ids : \A i \in 1 .. Len(h.subs[q]) : h.subs[q][i].child # n /\ h.subs[q][i].child \in Ids
           /\ \A i \in 1 .. Len(h.queue) : h.queue[i].do = "invoke" => h.queue[i].promise # n
           /\ \A i \in 1 .. Len(h.queue) : h.queue[i].promise \in Ids
           /\ \A c \in Ids : f.made[c].by = "then" /\ c # n => c < n
<1>1. /\ n \in Ids /\ f.made[n] = m /\ f.invoked[n] = <<>>
      /\ \A c \in Ids : c # n => f.made[c] = e.made[c]
      /\ \A q \in Ids : \A i \in 1 .. Len(h.subs[q]) : h.subs[q][i].child # n /\ h.subs[q][i].child \in Ids
      /\ \A i \in 1 .. Len(h.queue) : h.queue[i].do = "invoke" => h.queue[i].promise # n
      /\ \A i \in 1 .. Len(h.queue) : h.queue[i].promise \in Ids
  <2>1. h \in Shapes /\ DOMAIN e.made = Ids
    BY DEF Core, HeapTyped, EnvTyped
  <2>2. n \in Ids /\ f.made[n] = m /\ \A c \in Ids : c # n => f.made[c] = e.made[c]
    BY <2>1 DEF Makes
  <2>3. /\ e.invoked[n] = <<>>
        /\ \A q \in Ids : \A i \in 1 .. Len(h.subs[q]) : h.subs[q][i].child # n
        /\ \A i \in 1 .. Len(h.queue) : h.queue[i].do \in {"invoke", "foreign"} => h.queue[i].promise # n
    <3>1. n \in Ids /\ e.made[n].by = "nobody" /\ Core(h, e)
      BY DEF Makes
    <3>2. /\ h.state[n] = "pending" /\ Alone(h, e, n) /\ e.follows[n] = 0 /\ e.invoked[n] = <<>>
          /\ \A q \in Ids : \A i \in 1 .. Len(h.subs[q]) : h.subs[q][i].child # n
          /\ \A i \in 1 .. Len(h.queue) : h.queue[i].do \in {"invoke", "foreign"} => h.queue[i].promise # n
      BY <3>1, NobodyKnows, Zenon
    <3> QED BY <3>2
  <2>4. f.invoked = e.invoked
    BY DEF Makes, Same
  <2>5. \A q \in Ids : \A i \in 1 .. Len(h.subs[q]) : h.subs[q][i].child \in Ids
    BY <2>1, SubsTyped
  <2>6. \A i \in 1 .. Len(h.queue) : h.queue[i].promise \in Ids
    BY <2>1, QueueTyped
  <2> QED BY <2>2, <2>3, <2>4, <2>5, <2>6
<1>2. \A c \in Ids : f.made[c].by = "then" /\ c # n => c < n
  BY <1>1, MakesCore
<1> QED BY <1>1, <1>2

\* then on a settled promise: the handler is queued.
LEMMA ThenQueued ==
    ASSUME NEW h, NEW k, NEW e, NEW f, NEW n, NEW m, NEW p \in Ids, NEW job,
           Core(h, e), Makes(e, f, n, m), m.by = "then", m.of[1] = p, Settled(h, p),
           Queues(h, k, job), job.do = "invoke", job.promise = n,
           job.settled = h.state[p], job.detail = h.result[p]
    PROVE  Core(k, f)
<1>0. /\ h \in Shapes /\ EnvTyped(f) /\ CurrentRight(h, f)
      /\ SubsRight(h, f) /\ SubsOrdered(h, f) /\ JobsRight(h, f) /\ JobsOrdered(h, f)
      /\ LinesRight(h, f) /\ CalledRight(h, f)
      /\ \A c \in Ids : c # n /\ f.made[c].by = "then" /\ f.invoked[c] = <<>> => InLine(h, f, c)
      /\ FreshRight(h, f) /\ FollowRight(h, f) /\ RaceRight(h, f)
      /\ \A c \in Ids : e.made[c].by # "nobody" => c < n
  BY MakesCore DEF HeapTyped
<1>1. /\ n \in Ids /\ f.made[n] = m /\ f.invoked[n] = <<>>
      /\ \A q \in Ids : \A i \in 1 .. Len(h.subs[q]) : h.subs[q][i].child # n /\ h.subs[q][i].child \in Ids
      /\ \A i \in 1 .. Len(h.queue) : h.queue[i].do = "invoke" => h.queue[i].promise # n
      /\ \A i \in 1 .. Len(h.queue) : h.queue[i].promise \in Ids
      /\ \A c \in Ids : f.made[c].by = "then" /\ c # n => c < n
  BY MakesMore
<1>2. \A c \in Ids : f.made[c].by = "then" /\ c # n => c < n
  BY <1>1
<1>3. /\ HeapTyped(k) /\ k.subs = h.subs /\ k.state = h.state /\ k.result = h.result
      /\ Adds(h.queue, k.queue, job)
  BY DEF Queues
<1>4. /\ Len(h.queue) \in Nat
      /\ \A i \in 1 .. Len(h.queue) : i \in 1 .. Len(k.queue) /\ k.queue[i] = h.queue[i]
      /\ \A i \in 1 .. Len(k.queue) : \/ i \in 1 .. Len(h.queue) /\ k.queue[i] = h.queue[i]
                                      \/ i = Len(h.queue) + 1 /\ k.queue[i] = job
      /\ Len(h.queue) + 1 \in 1 .. Len(k.queue) /\ k.queue[Len(h.queue) + 1] = job
  BY <1>3, AddsPlaces
<1>5. /\ CurrentRight(k, f) /\ SubsRight(k, f) /\ SubsOrdered(k, f)
      /\ CalledRight(k, f) /\ RaceRight(k, f)
  <2>1. CurrentRight(k, f)
    BY <1>0, <1>3 DEF CurrentRight, Settled
  <2>2. SubsRight(k, f)
    BY <1>0, <1>3 DEF SubsRight
  <2>3. SubsOrdered(k, f)
    BY <1>0, <1>3 DEF SubsOrdered
  <2>4. CalledRight(k, f)
    BY <1>0, <1>3 DEF CalledRight, Settled
  <2>5. RaceRight(k, f)
    <3>1. \A q : LooseRace(k, f, q) <=> LooseRace(h, f, q)
      BY <1>3, SameLoose
    <3> QED BY <1>0, <1>3, <3>1 DEF RaceRight, Settled
  <2> QED BY <2>1, <2>2, <2>3, <2>4, <2>5
<1>6. JobsRight(k, f)
  <2>1. \A j : JobRight(h, f, j) => JobRight(k, f, j)
    BY <1>3 DEF JobRight, Settled
  <2>2. JobRight(k, f, job)
    BY <1>1, <1>3 DEF JobRight, Settled
  <2> QED BY <1>0, <1>4, <2>1, <2>2 DEF JobsRight
<1>7. \A i \in 1 .. Len(h.queue) : \A q : Calls(h, f, i, q) => h.queue[i].promise < n
  BY <1>0, <1>1, <1>2 DEF JobsRight, JobRight, Calls
<1>8. \A i \in 1 .. Len(k.queue) : \A q : Calls(k, f, i, q) =>
         \/ i \in 1 .. Len(h.queue) /\ Calls(h, f, i, q)
         \/ i = Len(h.queue) + 1 /\ k.queue[i].promise = n /\ q = p
  BY <1>1, <1>4 DEF Calls
<1>9. JobsOrdered(k, f)
  <2> SUFFICES ASSUME NEW i \in 1 .. Len(k.queue), NEW j \in 1 .. Len(k.queue), NEW q \in Ids,
                      i < j, Calls(k, f, i, q), Calls(k, f, j, q)
               PROVE  k.queue[i].promise < k.queue[j].promise
    BY DEF JobsOrdered
  <2>1. i \in 1 .. Len(h.queue) /\ Calls(h, f, i, q) /\ k.queue[i] = h.queue[i]
    BY <1>4, <1>8
  <2>2. CASE j \in 1 .. Len(h.queue) /\ Calls(h, f, j, q)
    BY <1>0, <1>4, <2>1, <2>2 DEF JobsOrdered
  <2>3. CASE k.queue[j].promise = n
    BY <1>7, <2>1, <2>3
  <2> QED BY <1>8, <2>2, <2>3
<1>10. LinesRight(k, f)
  <2>1. ASSUME NEW q \in Ids, PublishFirst(h, f, q)
        PROVE  PublishFirst(k, f, q)
    <3> SUFFICES ASSUME f.current.promise # q PROVE PublishFirst(k, f, q)
      BY DEF PublishFirst
    <3>2. PICK i \in 1 .. Len(h.queue) :
             /\ h.queue[i].do = "publish" /\ h.queue[i].promise = q
             /\ \A l \in 1 .. Len(h.queue) : Calls(h, f, l, q) => i < l
      BY <2>1 DEF PublishFirst
    <3>3. /\ i \in 1 .. Len(k.queue) /\ k.queue[i] = h.queue[i]
          /\ \A l \in 1 .. Len(k.queue) : Calls(k, f, l, q) => i < l
      BY <1>4, <1>8, <3>2
    <3> QED BY <3>2, <3>3 DEF PublishFirst
  <2> SUFFICES ASSUME NEW q \in Ids, NEW i \in 1 .. Len(h.subs[q]),
                      h.subs[q][i].do = "handler", Live(f, q, i)
               PROVE  /\ Settled(k, q) => PublishFirst(k, f, q)
                      /\ \A l \in 1 .. Len(k.queue) : Calls(k, f, l, q) => h.subs[q][i].child < k.queue[l].promise
    BY <1>3 DEF LinesRight
  <2>2. h.subs[q][i].child < n
    <3>1. SubRight(f, q, i, h.subs[q][i])
      BY <1>0 DEF SubsRight
    <3>2. f.made[h.subs[q][i].child].by = "then"
      BY <3>1 DEF SubRight
    <3> QED BY <1>1, <1>2, <3>2
  <2>3. /\ Settled(h, q) => PublishFirst(h, f, q)
        /\ \A l \in 1 .. Len(h.queue) : Calls(h, f, l, q) => h.subs[q][i].child < h.queue[l].promise
    BY <1>0 DEF LinesRight
  <2>4. \A l \in 1 .. Len(k.queue) : Calls(k, f, l, q) => h.subs[q][i].child < k.queue[l].promise
    BY <1>4, <1>8, <2>2, <2>3
  <2> QED BY <1>3, <2>1, <2>3, <2>4 DEF Settled
<1>11. WaitingRight(k, f)
  <2>1. InLine(k, f, n)
    BY <1>4 DEF InLine
  <2>2. \A c \in Ids : InLine(h, f, c) => InLine(k, f, c)
    BY <1>3, <1>4, Zenon DEF InLine
  <2> QED BY <1>0, <2>1, <2>2 DEF WaitingRight
<1>a. /\ \A q : LooseRace(k, f, q) <=> LooseRace(h, f, q)
      /\ \A q : Bound(k, f, q) <=> Bound(h, f, q)
  BY <1>3, SameLoose
<1>b. \A q : Alone(h, f, q) => Alone(k, f, q)
  BY <1>3, <1>4 DEF Alone
<1>12. FreshRight(k, f)
  BY <1>0, <1>3, <1>a, <1>b DEF FreshRight
<1>13. FollowRight(k, f)
  BY <1>0, <1>3, <1>4, <1>a DEF FollowRight, Settled
<1> QED BY <1>0, <1>3, <1>5, <1>6, <1>9, <1>10, <1>11, <1>12, <1>13 DEF Core

\* then on a pending promise: the handler subscribes.
LEMMA ThenSubscribed ==
    ASSUME NEW h, NEW k, NEW e, NEW f, NEW n, NEW m, NEW p \in Ids, NEW sub,
           Core(h, e), Makes(e, f, n, m), m.by = "then", m.of[1] = p, ~Settled(h, p),
           Joins(h, k, p, sub), sub.do = "handler", sub.child = n
    PROVE  Core(k, f)
<1>0. /\ h \in Shapes /\ EnvTyped(f) /\ CurrentRight(h, f)
      /\ SubsRight(h, f) /\ SubsOrdered(h, f) /\ JobsRight(h, f) /\ JobsOrdered(h, f)
      /\ LinesRight(h, f) /\ CalledRight(h, f)
      /\ \A c \in Ids : c # n /\ f.made[c].by = "then" /\ f.invoked[c] = <<>> => InLine(h, f, c)
      /\ FreshRight(h, f) /\ FollowRight(h, f) /\ RaceRight(h, f)
      /\ \A c \in Ids : e.made[c].by # "nobody" => c < n
  BY MakesCore DEF HeapTyped
<1>1. /\ n \in Ids /\ f.made[n] = m /\ f.invoked[n] = <<>>
      /\ \A q \in Ids : \A i \in 1 .. Len(h.subs[q]) : h.subs[q][i].child # n /\ h.subs[q][i].child \in Ids
      /\ \A i \in 1 .. Len(h.queue) : h.queue[i].do = "invoke" => h.queue[i].promise # n
      /\ \A i \in 1 .. Len(h.queue) : h.queue[i].promise \in Ids
      /\ \A c \in Ids : f.made[c].by = "then" /\ c # n => c < n
  BY MakesMore
<1>2. \A c \in Ids : f.made[c].by = "then" /\ c # n => c < n
  BY <1>1
<1>3. /\ HeapTyped(k) /\ k.queue = h.queue /\ k.state = h.state /\ k.result = h.result
      /\ Adds(h.subs[p], k.subs[p], sub)
  BY DEF Joins
<1>4. /\ \A q \in Ids : \A i \in 1 .. Len(h.subs[q]) : i \in 1 .. Len(k.subs[q]) /\ k.subs[q][i] = h.subs[q][i]
      /\ \A q \in Ids : \A i \in 1 .. Len(k.subs[q]) : \/ i \in 1 .. Len(h.subs[q]) /\ k.subs[q][i] = h.subs[q][i]
                                                       \/ q = p /\ i = Len(h.subs[p]) + 1 /\ k.subs[q][i] = sub
  BY <1>3, AddsPlaces DEF Joins
<1>5. /\ Len(h.subs[p]) \in Nat
      /\ Len(h.subs[p]) + 1 \in 1 .. Len(k.subs[p]) /\ k.subs[p][Len(h.subs[p]) + 1] = sub
  BY <1>3, AddsPlaces
<1>6. CurrentRight(k, f) /\ JobsOrdered(k, f) /\ CalledRight(k, f) /\ RaceRight(k, f)
  BY <1>0, <1>3, SameLoose, SMTT(30) DEF CurrentRight, JobsOrdered, Calls, CalledRight, RaceRight, Settled
<1>7. \A i : Live(f, p, i)
  BY <1>0 DEF CurrentRight, Live, Ids
<1>8. SubsRight(k, f)
  <2>1. \A i : SubRight(f, p, i, sub)
    BY <1>1 DEF SubRight
  <2> QED BY <1>0, <1>4, <2>1 DEF SubsRight
<1>9. SubsOrdered(k, f)
  <2> SUFFICES ASSUME NEW q \in Ids, NEW i \in 1 .. Len(k.subs[q]), NEW j \in 1 .. Len(k.subs[q]),
                      i < j, Live(f, q, i), k.subs[q][i].do = k.subs[q][j].do
               PROVE  /\ k.subs[q][i].do = "handler" => k.subs[q][i].child < k.subs[q][j].child
                      /\ k.subs[q][i].do = "entry" => \/ k.subs[q][i].child # k.subs[q][j].child
                                                      \/ k.subs[q][i].index # k.subs[q][j].index
    BY DEF SubsOrdered
  <2>1. i \in 1 .. Len(h.subs[q]) /\ k.subs[q][i] = h.subs[q][i]
    BY <1>4, <1>5
  <2>2. CASE j \in 1 .. Len(h.subs[q]) /\ k.subs[q][j] = h.subs[q][j]
    BY <1>0, <2>1, <2>2 DEF SubsOrdered
  <2>3. CASE k.subs[q][j] = sub
    <3>1. SubRight(f, q, i, h.subs[q][i])
      BY <1>0, <2>1 DEF SubsRight
    <3> QED BY <1>1, <1>2, <2>1, <2>3, <3>1 DEF SubRight
  <2> QED BY <1>4, <2>2, <2>3
<1>10. JobsRight(k, f)
  BY <1>0, <1>3, Zenon DEF JobsRight, JobRight, Settled
<1>11. LinesRight(k, f)
  <2>1. \A i \in 1 .. Len(h.queue) : ~Calls(h, f, i, p)
    BY <1>0 DEF JobsRight, JobRight, Calls
  <2>2. \A q \in Ids : PublishFirst(h, f, q) => PublishFirst(k, f, q)
    BY <1>3 DEF PublishFirst, Calls
  <2>3. \A i \in 1 .. Len(k.queue) : \A q : Calls(k, f, i, q) <=> Calls(h, f, i, q)
    BY <1>3 DEF Calls
  <2> SUFFICES ASSUME NEW q \in Ids, NEW i \in 1 .. Len(k.subs[q]),
                      k.subs[q][i].do = "handler", Live(f, q, i)
               PROVE  /\ Settled(k, q) => PublishFirst(k, f, q)
                      /\ \A l \in 1 .. Len(k.queue) : Calls(k, f, l, q) => k.subs[q][i].child < k.queue[l].promise
    BY DEF LinesRight
  <2>4. CASE i \in 1 .. Len(h.subs[q]) /\ k.subs[q][i] = h.subs[q][i]
    BY <1>0, <1>3, <2>2, <2>3, <2>4 DEF LinesRight, Settled
  <2>5. CASE q = p
    BY <1>3, <2>1, <2>3, <2>5 DEF Settled
  <2> QED BY <1>4, <2>4, <2>5
<1>12. WaitingRight(k, f)
  <2>1. InLine(k, f, n)
    <3>1. f.made[n].of[1] = p
      BY <1>1
    <3>2. \E i \in 1 .. Len(k.subs[p]) : Live(f, p, i) /\ k.subs[p][i].do = "handler" /\ k.subs[p][i].child = n
      BY <1>5, <1>7
    <3> QED BY <3>1, <3>2 DEF InLine
  <2>2. \A c \in Ids : f.made[c].by = "then" => f.made[c].of[1] \in Ids
    BY <1>0 DEF EnvTyped, MadeRight
  <2>3. ASSUME NEW c \in Ids, f.made[c].of[1] \in Ids, InLine(h, f, c)
        PROVE  InLine(k, f, c)
    <3> DEFINE q == f.made[c].of[1]
    <3>1. CASE \E i \in 1 .. Len(h.subs[q]) : Live(f, q, i) /\ h.subs[q][i].do = "handler" /\ h.subs[q][i].child = c
      BY <1>4, <2>3, <3>1, Zenon DEF InLine
    <3>2. CASE \E i \in 1 .. Len(h.queue) : h.queue[i].do = "invoke" /\ h.queue[i].promise = c
      BY <1>3, <3>2 DEF InLine
    <3> QED BY <2>3, <3>1, <3>2, Zenon DEF InLine
  <2> QED BY <1>0, <2>1, <2>2, <2>3 DEF WaitingRight
<1>a. /\ \A q : LooseRace(k, f, q) <=> LooseRace(h, f, q)
      /\ \A q : Bound(k, f, q) <=> Bound(h, f, q)
  BY <1>3, SameLoose
<1>b. \A q : Alone(h, f, q) => Alone(k, f, q)
  BY <1>3, <1>4 DEF Alone
<1>13. FreshRight(k, f)
  BY <1>0, <1>3, <1>a, <1>b DEF FreshRight
<1>14. FollowRight(k, f)
  <2> SUFFICES ASSUME NEW c \in Ids, Bound(k, f, c)
               PROVE  /\ f.foreign[c] = 0
                      /\ \A i \in 1 .. Len(k.queue) : k.queue[i].do = "foreign" => k.queue[i].promise # c
                      /\ \A q \in Ids : \A i \in 1 .. Len(k.subs[q]) :
                            k.subs[q][i].do = "adopt" /\ k.subs[q][i].child = c => q = f.follows[c]
                      /\ Settled(k, c) => /\ k.state[c] = k.state[f.follows[c]]
                                          /\ k.result[c] = k.result[f.follows[c]]
    BY DEF FollowRight
  <2>1. /\ f.foreign[c] = 0
        /\ \A i \in 1 .. Len(h.queue) : h.queue[i].do = "foreign" => h.queue[i].promise # c
        /\ \A q \in Ids : \A i \in 1 .. Len(h.subs[q]) :
              h.subs[q][i].do = "adopt" /\ h.subs[q][i].child = c => q = f.follows[c]
        /\ Settled(h, c) => /\ h.state[c] = h.state[f.follows[c]]
                            /\ h.result[c] = h.result[f.follows[c]]
    BY <1>0, <1>a DEF FollowRight
  <2>2. \A q \in Ids : \A i \in 1 .. Len(k.subs[q]) :
           k.subs[q][i].do = "adopt" /\ k.subs[q][i].child = c => q = f.follows[c]
    BY <1>0, <1>4, <2>1
  <2> QED BY <1>3, <2>1, <2>2 DEF Settled
<1> QED BY <1>0, <1>3, <1>6, <1>8, <1>9, <1>10, <1>11, <1>12, <1>13, <1>14 DEF Core

-----------------------------------------------------------------------------
\* t is s without its first element.
Drops(s, t) ==
    /\ Len(s) \in Nat /\ 0 < Len(s) /\ Len(t) = Len(s) - 1
    /\ \A n \in 1 .. Len(t) : t[n] = s[n + 1]

LEMMA DropsPlaces ==
    ASSUME NEW s, NEW t, Drops(s, t)
    PROVE  /\ Len(s) \in Nat /\ 1 \in 1 .. Len(s)
           /\ \A n \in 1 .. Len(t) : n + 1 \in 1 .. Len(s) /\ t[n] = s[n + 1]
           /\ \A n \in 1 .. Len(s) : n = 1 \/ (n - 1 \in 1 .. Len(t) /\ t[n - 1] = s[n])
BY DEF Drops

\* The first job is taken.
Pops(h, k) ==
    /\ HeapTyped(k) /\ Drops(h.queue, k.queue)
    /\ k.state = h.state /\ k.result = h.result
    /\ k.subs = h.subs /\ k.left = h.left /\ k.array = h.array

\* A job that is not a handler's; publish begins if somebody subscribed.
LEMMA PopsCore ==
    ASSUME NEW h, NEW k, NEW e, NEW f, Core(h, e), Pops(h, k), Same(e, f, {"current"}),
           e.current.promise = 0,
           \/ /\ f.current = e.current
              /\ \/ h.queue[1].do = "foreign"
                 \/ h.queue[1].do = "publish" /\ h.subs[h.queue[1].promise] = <<>>
           \/ /\ h.queue[1].do = "publish"
              /\ f.current = [promise |-> h.queue[1].promise, index |-> 1]
    PROVE  Core(k, f)
<1>0. /\ h \in Shapes /\ EnvTyped(e) /\ CurrentRight(h, e)
      /\ SubsRight(h, e) /\ SubsOrdered(h, e) /\ JobsRight(h, e) /\ JobsOrdered(h, e) /\ LinesRight(h, e)
      /\ CalledRight(h, e) /\ WaitingRight(h, e)
      /\ FreshRight(h, e) /\ FollowRight(h, e) /\ RaceRight(h, e)
  BY DEF Core, HeapTyped
<1>1. /\ HeapTyped(k) /\ k.subs = h.subs /\ k.state = h.state /\ k.result = h.result
      /\ Len(h.queue) \in Nat /\ 1 \in 1 .. Len(h.queue)
      /\ \A n \in 1 .. Len(k.queue) : n + 1 \in 1 .. Len(h.queue) /\ k.queue[n] = h.queue[n + 1]
      /\ \A n \in 1 .. Len(h.queue) : n = 1 \/ (n - 1 \in 1 .. Len(k.queue) /\ k.queue[n - 1] = h.queue[n])
  BY DropsPlaces DEF Pops
<1>2. /\ f.made = e.made /\ f.settles = e.settles /\ f.invoked = e.invoked
      /\ f.foreign = e.foreign /\ f.follows = e.follows
  BY DEF Same
<1>3. h.queue[1].promise \in Ids
  BY <1>0, <1>1, QueueTyped
<1>4. EnvTyped(f) /\ CurrentRight(k, f)
  <2>1. JobRight(h, e, h.queue[1])
    BY <1>0, <1>1 DEF JobsRight
  <2>2. CASE f.current = e.current
    BY <1>0, <1>2, <2>2 DEF EnvTyped, CurrentRight
  <2>3. CASE h.queue[1].do = "publish" /\ f.current = [promise |-> h.queue[1].promise, index |-> 1]
    <3>1. f.current \in [promise : 0 .. MaxPromises, index : Nat] /\ f.current.index # 0
      BY <1>3, <2>3, BoundAssumption DEF Ids
    <3>2. Settled(k, f.current.promise)
      BY <1>1, <2>1, <2>3 DEF JobRight, Settled
    <3>3. EnvTyped(f)
      BY <1>0, <1>2, <3>1 DEF EnvTyped
    <3> QED BY <3>2, <3>3 DEF CurrentRight
  <2> QED BY <2>2, <2>3
<1>5. \A q \in Ids : \A n \in 1 .. Len(h.subs[q]) : Live(f, q, n) /\ Live(e, q, n)
  <2>1. \A q \in Ids : q # 0
    BY DEF Ids
  <2>2. \A q \in Ids : \A n \in 1 .. Len(h.subs[q]) : 1 <= n
    BY <1>0, SubsTyped
  <2> QED BY <2>1, <2>2 DEF Live
<1>6. SubsRight(k, f) /\ SubsOrdered(k, f)
  <2>1. \A q \in Ids : \A n \in 1 .. Len(h.subs[q]) : \A sub : SubRight(e, q, n, sub) => SubRight(f, q, n, sub)
    BY <1>2, <1>5 DEF SubRight
  <2>2. SubsRight(k, f)
    BY <1>0, <1>1, <2>1 DEF SubsRight
  <2> QED BY <1>0, <1>1, <1>5, <2>2 DEF SubsOrdered
<1>7. JobsRight(k, f)
  <2>1. \A j : JobRight(h, e, j) => JobRight(k, f, j)
    BY <1>1, <1>2 DEF JobRight, Settled
  <2> QED BY <1>0, <1>1, <2>1 DEF JobsRight
<1>8. /\ \A n \in 1 .. Len(k.queue) : \A q : Calls(k, f, n, q) <=> Calls(h, e, n + 1, q)
      /\ \A q : ~Calls(h, e, 1, q)
  BY <1>1, <1>2 DEF Calls
<1>9. JobsOrdered(k, f)
  <2> SUFFICES ASSUME NEW i \in 1 .. Len(k.queue), NEW j \in 1 .. Len(k.queue), NEW q \in Ids,
                      i < j, Calls(k, f, i, q), Calls(k, f, j, q)
               PROVE  k.queue[i].promise < k.queue[j].promise
    BY DEF JobsOrdered
  <2>1. i + 1 \in 1 .. Len(h.queue) /\ j + 1 \in 1 .. Len(h.queue) /\ i + 1 < j + 1
    BY <1>1
  <2> QED BY <1>0, <1>1, <1>8, <2>1 DEF JobsOrdered
<1>10. LinesRight(k, f)
  <2> SUFFICES ASSUME NEW q \in Ids, NEW n \in 1 .. Len(h.subs[q]), h.subs[q][n].do = "handler"
               PROVE  /\ Settled(h, q) => PublishFirst(k, f, q)
                      /\ \A l \in 1 .. Len(k.queue) : Calls(k, f, l, q) => h.subs[q][n].child < k.queue[l].promise
    BY <1>1 DEF LinesRight, Settled
  <2>1. /\ Settled(h, q) => PublishFirst(h, e, q)
        /\ \A l \in 1 .. Len(h.queue) : Calls(h, e, l, q) => h.subs[q][n].child < h.queue[l].promise
    BY <1>0, <1>5 DEF LinesRight
  <2>2. \A l \in 1 .. Len(k.queue) : Calls(k, f, l, q) => h.subs[q][n].child < k.queue[l].promise
    BY <1>1, <1>8, <2>1
  <2>3. ASSUME PublishFirst(h, e, q), f.current.promise # q
        PROVE  PublishFirst(k, f, q)
    <3>1. PICK i \in 1 .. Len(h.queue) :
             /\ h.queue[i].do = "publish" /\ h.queue[i].promise = q
             /\ \A l \in 1 .. Len(h.queue) : Calls(h, e, l, q) => i < l
      BY <2>3 DEF PublishFirst, Ids
    <3>2. h.subs[q] # <<>>
      BY <1>0, SubsTyped
    <3>3. i # 1
      BY <2>3, <3>1, <3>2
    <3>4. /\ i - 1 \in 1 .. Len(k.queue) /\ k.queue[i - 1] = h.queue[i]
          /\ \A l \in 1 .. Len(k.queue) : Calls(k, f, l, q) => i - 1 < l
      BY <1>1, <1>8, <3>1, <3>3
    <3> QED BY <3>1, <3>4 DEF PublishFirst
  <2>4. f.current.promise = q => PublishFirst(k, f, q)
    BY DEF PublishFirst
  <2> QED BY <2>1, <2>2, <2>3, <2>4
<1>11. CalledRight(k, f) /\ RaceRight(k, f)
  <2>1. \A q : LooseRace(k, f, q) <=> LooseRace(h, e, q)
    BY <1>1, <1>2, SameLoose
  <2>2. CalledRight(k, f)
    BY <1>0, <1>1, <1>2 DEF CalledRight, Settled
  <2> QED BY <1>0, <1>1, <1>2, <2>1, <2>2 DEF RaceRight, Settled
<1>12. WaitingRight(k, f)
  <2>1. \A c \in Ids : e.made[c].by = "then" => e.made[c].of[1] \in Ids
    BY <1>0 DEF EnvTyped, MadeRight
  <2>2. ASSUME NEW c \in Ids, e.made[c].of[1] \in Ids, InLine(h, e, c)
        PROVE  InLine(k, f, c)
    <3> DEFINE p == e.made[c].of[1]
    <3>1. CASE \E n \in 1 .. Len(h.subs[p]) : Live(e, p, n) /\ h.subs[p][n].do = "handler" /\ h.subs[p][n].child = c
      <4>1. PICK n \in 1 .. Len(h.subs[p]) : h.subs[p][n].do = "handler" /\ h.subs[p][n].child = c
        BY <3>1
      <4>2. Live(f, p, n)
        BY <1>5, <2>2
      <4>3. n \in 1 .. Len(k.subs[p]) /\ k.subs[p][n] = h.subs[p][n] /\ f.made[c].of[1] = p
        BY <1>1, <1>2
      <4> QED BY <4>1, <4>2, <4>3, Zenon DEF InLine
    <3>2. CASE \E n \in 1 .. Len(h.queue) : h.queue[n].do = "invoke" /\ h.queue[n].promise = c
      <4>1. PICK n \in 1 .. Len(h.queue) : h.queue[n].do = "invoke" /\ h.queue[n].promise = c
        BY <3>2
      <4>2. n - 1 \in 1 .. Len(k.queue) /\ k.queue[n - 1] = h.queue[n]
        BY <1>1, <4>1
      <4> QED BY <4>1, <4>2 DEF InLine
    <3> QED BY <2>2, <3>1, <3>2, Zenon DEF InLine
  <2> QED BY <1>0, <1>2, <2>1, <2>2 DEF WaitingRight
<1>13. \A q \in Ids : /\ Untouched(f, q) <=> Untouched(e, q)
                      /\ Bound(k, f, q) <=> Bound(h, e, q)
                      /\ LooseRace(k, f, q) <=> LooseRace(h, e, q)
                      /\ Alone(h, e, q) => Alone(k, f, q)
  <2>1. \A n \in 1 .. Len(k.queue) : \E l \in 1 .. Len(h.queue) : k.queue[n] = h.queue[l]
    BY <1>1
  <2>2. \A q : Alone(h, e, q) => Alone(k, f, q)
    BY <1>1, <1>2, <2>1 DEF Alone
  <2>3. \A q : Untouched(f, q) <=> Untouched(e, q)
    BY <1>2 DEF Untouched
  <2> QED BY <1>1, <1>2, <2>2, <2>3, SameLoose
<1>14. FreshRight(k, f)
  BY <1>0, <1>1, <1>2, <1>13 DEF FreshRight
<1>15. FollowRight(k, f)
  <2>1. \A n \in 1 .. Len(k.queue) : \E l \in 1 .. Len(h.queue) : k.queue[n] = h.queue[l]
    BY <1>1
  <2> SUFFICES ASSUME NEW q \in Ids, Bound(h, e, q)
               PROVE  /\ e.foreign[q] = 0
                      /\ \A n \in 1 .. Len(k.queue) : k.queue[n].do = "foreign" => k.queue[n].promise # q
                      /\ \A r \in Ids : \A n \in 1 .. Len(h.subs[r]) :
                            h.subs[r][n].do = "adopt" /\ h.subs[r][n].child = q => r = e.follows[q]
                      /\ Settled(h, q) => /\ h.state[q] = h.state[e.follows[q]]
                                          /\ h.result[q] = h.result[e.follows[q]]
    BY <1>1, <1>2, <1>13 DEF FollowRight, Settled
  <2>2. /\ e.foreign[q] = 0
        /\ \A n \in 1 .. Len(h.queue) : h.queue[n].do = "foreign" => h.queue[n].promise # q
        /\ \A r \in Ids : \A n \in 1 .. Len(h.subs[r]) :
              h.subs[r][n].do = "adopt" /\ h.subs[r][n].child = q => r = e.follows[q]
        /\ Settled(h, q) => /\ h.state[q] = h.state[e.follows[q]]
                            /\ h.result[q] = h.result[e.follows[q]]
    BY <1>0 DEF FollowRight
  <2> QED BY <2>1, <2>2
<1> QED BY <1>1, <1>4, <1>6, <1>7, <1>9, <1>10, <1>11, <1>12, <1>14, <1>15 DEF Core

\* A handler is called from the queue.
LEMMA PopsHandler ==
    ASSUME NEW h, NEW k, NEW e, NEW f, NEW c, Core(h, e), Pops(h, k), Same(e, f, {"invoked"}),
           e.current.promise = 0, h.queue[1].do = "invoke", h.queue[1].promise = c,
           f.invoked = [e.invoked EXCEPT ![c] = <<<<h.queue[1].settled, h.queue[1].detail>>>>]
    PROVE  Core(k, f)
<1>0. /\ h \in Shapes /\ EnvTyped(e) /\ CurrentRight(h, e)
      /\ SubsRight(h, e) /\ SubsOrdered(h, e) /\ JobsRight(h, e) /\ JobsOrdered(h, e) /\ LinesRight(h, e)
      /\ CalledRight(h, e) /\ WaitingRight(h, e)
      /\ FreshRight(h, e) /\ FollowRight(h, e) /\ RaceRight(h, e)
  BY DEF Core, HeapTyped
<1>1. /\ HeapTyped(k) /\ k.subs = h.subs /\ k.state = h.state /\ k.result = h.result
      /\ Len(h.queue) \in Nat /\ 1 \in 1 .. Len(h.queue)
      /\ \A n \in 1 .. Len(k.queue) : n + 1 \in 1 .. Len(h.queue) /\ k.queue[n] = h.queue[n + 1]
      /\ \A n \in 1 .. Len(h.queue) : n = 1 \/ (n - 1 \in 1 .. Len(k.queue) /\ k.queue[n - 1] = h.queue[n])
  BY DropsPlaces DEF Pops
<1>2. /\ f.made = e.made /\ f.settles = e.settles /\ f.current = e.current
      /\ f.foreign = e.foreign /\ f.follows = e.follows
  BY DEF Same
<1>3. c \in Ids
  BY <1>0, <1>1, QueueTyped
<1>4. PICK p \in Ids : /\ e.made[c].by = "then" /\ e.made[c].of[1] = p /\ e.invoked[c] = <<>>
                       /\ Settled(h, p)
                       /\ h.queue[1].settled = h.state[p] /\ h.queue[1].detail = h.result[p]
  <2>1. JobRight(h, e, h.queue[1])
    BY <1>0, <1>1 DEF JobsRight
  <2>2. e.made[c].by = "then" => e.made[c].of[1] \in Ids
    BY <1>0, <1>3 DEF EnvTyped, MadeRight
  <2> QED BY <2>1, <2>2 DEF JobRight
<1>5. /\ f.invoked[c] = <<<<h.state[p], h.result[p]>>>> /\ f.invoked[c] # <<>>
      /\ DOMAIN f.invoked = Ids /\ \A b \in Ids : b # c => f.invoked[b] = e.invoked[b]
  BY <1>0, <1>3, <1>4 DEF EnvTyped
<1>6. EnvTyped(f) /\ CurrentRight(k, f)
  BY <1>0, <1>1, <1>2, <1>5 DEF EnvTyped, CurrentRight, Settled
<1>7. Calls(h, e, 1, p)
  BY <1>4 DEF Calls
<1>8. \A q, n : Live(f, q, n) <=> Live(e, q, n)
  BY <1>2 DEF Live
\* No handler of p comes before c.
<1>9. /\ \A q \in Ids : \A n \in 1 .. Len(h.subs[q]) :
            h.subs[q][n].do = "handler" /\ Live(e, q, n) => h.subs[q][n].child # c /\ (q = p => h.subs[q][n].child < c)
      /\ ~\E n \in 1 .. Len(h.subs[p]) : h.subs[p][n].do = "handler" /\ Live(e, p, n)
  <2>1. \A q \in Ids : \A n \in 1 .. Len(h.subs[q]) :
            h.subs[q][n].do = "handler" => e.made[h.subs[q][n].child].of[1] = q
    <3> SUFFICES ASSUME NEW q \in Ids, NEW n \in 1 .. Len(h.subs[q]), h.subs[q][n].do = "handler"
                 PROVE  e.made[h.subs[q][n].child].of[1] = q
      OBVIOUS
    <3>1. SubRight(e, q, n, h.subs[q][n])
      BY <1>0 DEF SubsRight
    <3> QED BY <3>1 DEF SubRight
  <2>2. ~\E n \in 1 .. Len(h.subs[p]) : h.subs[p][n].do = "handler" /\ Live(e, p, n)
    <3> SUFFICES ASSUME NEW n \in 1 .. Len(h.subs[p]), h.subs[p][n].do = "handler", Live(e, p, n)
                 PROVE  FALSE
      OBVIOUS
    <3>1. PublishFirst(h, e, p)
      BY <1>0, <1>4 DEF LinesRight
    <3>2. PICK m \in 1 .. Len(h.queue) : \A l \in 1 .. Len(h.queue) : Calls(h, e, l, p) => m < l
      BY <3>1 DEF PublishFirst, Ids
    <3> QED BY <1>1, <1>7, <3>2
  <2> QED BY <1>4, <2>1, <2>2
<1>10. \A n \in 2 .. Len(h.queue) : h.queue[n].do = "invoke" =>
          /\ h.queue[n].promise # c
          /\ Calls(h, e, n, p) => c < h.queue[n].promise
  <2> SUFFICES ASSUME NEW n \in 2 .. Len(h.queue), h.queue[n].do = "invoke"
               PROVE  /\ h.queue[n].promise # c
                      /\ Calls(h, e, n, p) => c < h.queue[n].promise
    OBVIOUS
  <2>1. n \in 1 .. Len(h.queue) /\ 1 < n
    OBVIOUS
  <2>2. Calls(h, e, n, p) => c < h.queue[n].promise
    BY <1>0, <1>1, <1>7, <2>1 DEF JobsOrdered
  <2>3. h.queue[n].promise = c => Calls(h, e, n, p)
    BY <1>4 DEF Calls
  <2> QED BY <1>3, <2>2, <2>3 DEF Ids
<1>11. SubsRight(k, f) /\ SubsOrdered(k, f)
  <2>1. SubsRight(k, f)
    <3> SUFFICES ASSUME NEW q \in Ids, NEW n \in 1 .. Len(h.subs[q]) PROVE SubRight(f, q, n, h.subs[q][n])
      BY <1>1 DEF SubsRight
    <3>1. SubRight(e, q, n, h.subs[q][n]) /\ h.subs[q][n].child \in Ids
      BY <1>0, SubsTyped DEF SubsRight
    <3>2. h.subs[q][n].do = "handler" /\ Live(e, q, n) => f.invoked[h.subs[q][n].child] = e.invoked[h.subs[q][n].child]
      BY <1>5, <1>9, <3>1
    <3> QED BY <1>2, <1>8, <3>1, <3>2, Zenon DEF SubRight
  <2> QED BY <1>0, <1>1, <1>8, <2>1 DEF SubsOrdered
<1>12. JobsRight(k, f)
  <2> SUFFICES ASSUME NEW n \in 1 .. Len(k.queue) PROVE JobRight(k, f, h.queue[n + 1])
    BY <1>1 DEF JobsRight
  <2>1. JobRight(h, e, h.queue[n + 1]) /\ h.queue[n + 1].promise \in Ids /\ n + 1 \in 2 .. Len(h.queue)
    BY <1>0, <1>1, QueueTyped DEF JobsRight
  <2>2. h.queue[n + 1].do = "invoke" => f.invoked[h.queue[n + 1].promise] = e.invoked[h.queue[n + 1].promise]
    BY <1>5, <1>10, <2>1
  <2> QED BY <1>1, <1>2, <2>1, <2>2, Zenon DEF JobRight, Settled
<1>13. \A n \in 1 .. Len(k.queue) : \A q : Calls(k, f, n, q) <=> Calls(h, e, n + 1, q)
  BY <1>1, <1>2 DEF Calls
<1>14. JobsOrdered(k, f)
  <2> SUFFICES ASSUME NEW i \in 1 .. Len(k.queue), NEW j \in 1 .. Len(k.queue), NEW q \in Ids,
                      i < j, Calls(k, f, i, q), Calls(k, f, j, q)
               PROVE  k.queue[i].promise < k.queue[j].promise
    BY DEF JobsOrdered
  <2>1. i + 1 \in 1 .. Len(h.queue) /\ j + 1 \in 1 .. Len(h.queue) /\ i + 1 < j + 1
    BY <1>1
  <2>2. Calls(h, e, i + 1, q) /\ Calls(h, e, j + 1, q)
    BY <1>13
  <2>3. h.queue[i + 1].promise < h.queue[j + 1].promise
    BY <1>0, <2>1, <2>2 DEF JobsOrdered
  <2> QED BY <1>1, <2>3
<1>15. LinesRight(k, f)
  <2> SUFFICES ASSUME NEW q \in Ids, NEW n \in 1 .. Len(h.subs[q]), h.subs[q][n].do = "handler", Live(e, q, n)
               PROVE  /\ Settled(h, q) => PublishFirst(k, f, q)
                      /\ \A l \in 1 .. Len(k.queue) : Calls(k, f, l, q) => h.subs[q][n].child < k.queue[l].promise
    BY <1>1, <1>8 DEF LinesRight, Settled
  <2>1. /\ Settled(h, q) => PublishFirst(h, e, q)
        /\ \A l \in 1 .. Len(h.queue) : Calls(h, e, l, q) => h.subs[q][n].child < h.queue[l].promise
    BY <1>0 DEF LinesRight
  <2>2. \A l \in 1 .. Len(k.queue) : Calls(k, f, l, q) => h.subs[q][n].child < k.queue[l].promise
    BY <1>1, <1>13, <2>1
  <2>3. ASSUME PublishFirst(h, e, q)
        PROVE  PublishFirst(k, f, q)
    <3>1. PICK i \in 1 .. Len(h.queue) :
             /\ h.queue[i].do = "publish" /\ h.queue[i].promise = q
             /\ \A l \in 1 .. Len(h.queue) : Calls(h, e, l, q) => i < l
      BY <2>3 DEF PublishFirst, Ids
    <3>2. i # 1
      BY <3>1
    <3>3. /\ i - 1 \in 1 .. Len(k.queue) /\ k.queue[i - 1] = h.queue[i]
          /\ \A l \in 1 .. Len(k.queue) : Calls(k, f, l, q) => i - 1 < l
      BY <1>1, <1>13, <3>1, <3>2
    <3> QED BY <3>1, <3>3 DEF PublishFirst
  <2> QED BY <2>1, <2>2, <2>3
<1>16. CalledRight(k, f)
  <2>1. \A b \in Ids : b < c /\ e.made[b].by = "then" /\ e.made[b].of[1] = p => e.invoked[b] # <<>>
    <3> SUFFICES ASSUME NEW b \in Ids, b < c, e.made[b].by = "then", e.made[b].of[1] = p, e.invoked[b] = <<>>
                 PROVE  FALSE
      OBVIOUS
    <3>1. InLine(h, e, b)
      BY <1>0 DEF WaitingRight
    <3>2. PICK n \in 1 .. Len(h.queue) : h.queue[n].do = "invoke" /\ h.queue[n].promise = b
      BY <1>9, <3>1 DEF InLine
    <3>3. Calls(h, e, n, p) /\ n # 1
      BY <1>3, <3>2 DEF Calls, Ids
    <3>4. n \in 2 .. Len(h.queue)
      BY <1>1, <3>3
    <3> QED BY <1>3, <1>10, <3>2, <3>3, <3>4 DEF Ids
  <2>2. ASSUME NEW d \in Ids, d # c, e.invoked[d] # <<>>
        PROVE  /\ e.made[d].by = "then" /\ Settled(h, e.made[d].of[1])
               /\ e.invoked[d] = <<<<h.state[e.made[d].of[1]], h.result[e.made[d].of[1]]>>>>
               /\ \A b \in Ids : b < d /\ e.made[b].by = "then" /\ e.made[b].of[1] = e.made[d].of[1] =>
                     f.invoked[b] # <<>>
    BY <1>0, <1>5, <2>2 DEF CalledRight
  <2> SUFFICES ASSUME NEW d \in Ids, f.invoked[d] # <<>>
               PROVE  /\ e.made[d].by = "then" /\ Settled(h, e.made[d].of[1])
                      /\ f.invoked[d] = <<<<h.state[e.made[d].of[1]], h.result[e.made[d].of[1]]>>>>
                      /\ \A b \in Ids : b < d /\ e.made[b].by = "then" /\ e.made[b].of[1] = e.made[d].of[1] =>
                            f.invoked[b] # <<>>
    BY <1>1, <1>2 DEF CalledRight, Settled
  <2>3. CASE d = c
    BY <1>4, <1>5, <2>1, <2>3
  <2>4. CASE d # c
    BY <1>5, <2>2, <2>4
  <2> QED BY <2>3, <2>4
<1>17. RaceRight(k, f)
  BY <1>0, <1>1, <1>2, SameLoose DEF RaceRight, Settled
<1>18. WaitingRight(k, f)
  <2>1. \A d \in Ids : e.made[d].by = "then" => e.made[d].of[1] \in Ids
    BY <1>0 DEF EnvTyped, MadeRight
  <2>2. ASSUME NEW d \in Ids, d # c, e.made[d].of[1] \in Ids, InLine(h, e, d)
        PROVE  InLine(k, f, d)
    <3> DEFINE q == e.made[d].of[1]
    <3>1. CASE \E n \in 1 .. Len(h.subs[q]) : Live(e, q, n) /\ h.subs[q][n].do = "handler" /\ h.subs[q][n].child = d
      <4>0. k.subs = h.subs
        BY <1>1
      <4>1. \E n \in 1 .. Len(k.subs[q]) : Live(f, q, n) /\ k.subs[q][n].do = "handler" /\ k.subs[q][n].child = d
        BY <1>8, <3>1, <4>0
      <4>2. f.made[d].of[1] = q
        BY <1>2
      <4> QED BY <4>1, <4>2, Zenon DEF InLine
    <3>2. CASE \E n \in 1 .. Len(h.queue) : h.queue[n].do = "invoke" /\ h.queue[n].promise = d
      <4>1. PICK n \in 1 .. Len(h.queue) : h.queue[n].do = "invoke" /\ h.queue[n].promise = d
        BY <3>2
      <4>2. n - 1 \in 1 .. Len(k.queue) /\ k.queue[n - 1] = h.queue[n]
        BY <1>1, <2>2, <4>1
      <4> QED BY <4>1, <4>2 DEF InLine
    <3> QED BY <2>2, <3>1, <3>2, Zenon DEF InLine
  <2> QED BY <1>0, <1>2, <1>5, <2>1, <2>2 DEF WaitingRight
<1>19. \A q \in Ids : /\ Untouched(f, q) => Untouched(e, q)
                      /\ Bound(k, f, q) <=> Bound(h, e, q)
  <2>1. \A q \in Ids : Untouched(f, q) => Untouched(e, q)
    BY <1>2, <1>4, <1>5 DEF Untouched
  <2> QED BY <1>1, <1>2, <2>1, SameLoose
<1>20. \A n \in 1 .. Len(k.queue) : \E l \in 1 .. Len(h.queue) : k.queue[n] = h.queue[l]
  BY <1>1
<1>21. FreshRight(k, f)
  <2>1. ASSUME NEW q, Alone(h, e, q)
        PROVE  Alone(k, f, q)
    <3>1. \A n \in 1 .. Len(k.queue) : k.queue[n].do = "foreign" => k.queue[n].promise # q
      BY <1>20, <2>1 DEF Alone
    <3> QED BY <1>1, <1>2, <2>1, <3>1 DEF Alone
  <2> QED BY <1>0, <1>1, <1>2, <1>19, <2>1, SameLoose DEF FreshRight
<1>22. FollowRight(k, f)
  <2> SUFFICES ASSUME NEW q \in Ids, Bound(h, e, q)
               PROVE  /\ e.foreign[q] = 0
                      /\ \A n \in 1 .. Len(k.queue) : k.queue[n].do = "foreign" => k.queue[n].promise # q
                      /\ \A r \in Ids : \A n \in 1 .. Len(h.subs[r]) :
                            h.subs[r][n].do = "adopt" /\ h.subs[r][n].child = q => r = e.follows[q]
                      /\ Settled(h, q) => /\ h.state[q] = h.state[e.follows[q]]
                                          /\ h.result[q] = h.result[e.follows[q]]
    BY <1>1, <1>2, <1>19 DEF FollowRight, Settled
  <2>2. /\ e.foreign[q] = 0
        /\ \A n \in 1 .. Len(h.queue) : h.queue[n].do = "foreign" => h.queue[n].promise # q
        /\ \A r \in Ids : \A n \in 1 .. Len(h.subs[r]) :
              h.subs[r][n].do = "adopt" /\ h.subs[r][n].child = q => r = e.follows[q]
        /\ Settled(h, q) => /\ h.state[q] = h.state[e.follows[q]]
                            /\ h.result[q] = h.result[e.follows[q]]
    BY <1>0 DEF FollowRight
  <2> QED BY <1>20, <2>2
<1> QED BY <1>1, <1>6, <1>11, <1>12, <1>14, <1>15, <1>16, <1>17, <1>18, <1>21, <1>22 DEF Core

-----------------------------------------------------------------------------
\* publish passes the subscriber at place i of p.
Passes(h, e, f, p, i) ==
    /\ p \in Ids /\ i \in 1 .. Len(h.subs[p])
    /\ e.current.promise = p /\ e.current.index = i
    /\ f.current = [promise |-> p, index |-> i + 1]

LEMMA PassesLive ==
    ASSUME NEW h, NEW e, NEW f, NEW p, NEW i, Core(h, e), Passes(h, e, f, p, i)
    PROVE  /\ \A q \in Ids : \A n \in 1 .. Len(h.subs[q]) :
                 Live(f, q, n) <=> Live(e, q, n) /\ ~(q = p /\ n = i)
           /\ \A q, n : Live(f, q, n) => (q = p => i + 1 <= n)
           /\ Live(e, p, i)
           /\ f.current \in [promise : 0 .. MaxPromises, index : Nat] /\ f.current.index # 0
           /\ f.current.promise = e.current.promise /\ Settled(h, p)
<1>1. p \in Ids /\ p # 0 /\ p \in 0 .. MaxPromises /\ Len(h.subs[p]) \in Nat /\ i \in Nat /\ h \in Shapes
  BY SubsTyped, BoundAssumption DEF Core, HeapTyped, Passes, Ids
<1>2. \A q \in Ids : Len(h.subs[q]) \in Nat
  BY <1>1, SubsTyped
<1>3. \A q \in Ids : \A n \in 1 .. Len(h.subs[q]) :
          Live(f, q, n) <=> Live(e, q, n) /\ ~(q = p /\ n = i)
  BY <1>1, <1>2 DEF Live, Passes
<1>4. Settled(h, p)
  BY <1>1 DEF Core, CurrentRight, Passes
<1> QED BY <1>1, <1>3, <1>4 DEF Live, Passes

\* A subscriber that is not a handler.
LEMMA PassesCore ==
    ASSUME NEW h, NEW e, NEW f, NEW p, NEW i, Core(h, e), Passes(h, e, f, p, i),
           Same(e, f, {"current"}), h.subs[p][i].do # "handler"
    PROVE  Core(h, f)
<1>0. /\ h \in Shapes /\ EnvTyped(e) /\ CurrentRight(h, e)
      /\ SubsRight(h, e) /\ SubsOrdered(h, e) /\ JobsRight(h, e) /\ JobsOrdered(h, e) /\ LinesRight(h, e)
      /\ CalledRight(h, e) /\ WaitingRight(h, e)
      /\ FreshRight(h, e) /\ FollowRight(h, e) /\ RaceRight(h, e)
  BY DEF Core, HeapTyped
<1>1. HeapTyped(h)
  BY DEF Core
<1>2. /\ f.made = e.made /\ f.settles = e.settles /\ f.invoked = e.invoked
      /\ f.foreign = e.foreign /\ f.follows = e.follows
  BY DEF Same
<1>3. /\ \A q \in Ids : \A n \in 1 .. Len(h.subs[q]) :
            Live(f, q, n) <=> Live(e, q, n) /\ ~(q = p /\ n = i)
      /\ f.current \in [promise : 0 .. MaxPromises, index : Nat] /\ f.current.index # 0
      /\ f.current.promise = e.current.promise
  BY PassesLive
<1>4. EnvTyped(f) /\ CurrentRight(h, f)
  BY <1>0, <1>2, <1>3 DEF EnvTyped, CurrentRight
<1>5. SubsRight(h, f)
  <2>1. \A q \in Ids : \A n \in 1 .. Len(h.subs[q]) : \A sub : SubRight(e, q, n, sub) => SubRight(f, q, n, sub)
    BY <1>2, <1>3 DEF SubRight
  <2> QED BY <1>0, <2>1 DEF SubsRight
<1>6. SubsOrdered(h, f)
  BY <1>0, <1>3 DEF SubsOrdered
<1>7. JobsRight(h, f) /\ JobsOrdered(h, f)
  BY <1>0, <1>2, Zenon DEF JobsRight, JobRight, JobsOrdered, Calls
<1>8. LinesRight(h, f)
  <2>1. \A q : PublishFirst(h, e, q) => PublishFirst(h, f, q)
    BY <1>2, <1>3 DEF PublishFirst, Calls
  <2>2. \A n, q : Calls(h, f, n, q) <=> Calls(h, e, n, q)
    BY <1>2 DEF Calls
  <2> QED BY <1>0, <1>3, <2>1, <2>2 DEF LinesRight
<1>9. CalledRight(h, f) /\ RaceRight(h, f)
  <2>1. \A q : LooseRace(h, f, q) <=> LooseRace(h, e, q)
    BY <1>2, SameLoose
  <2>2. CalledRight(h, f)
    BY <1>0, <1>2 DEF CalledRight
  <2> QED BY <1>0, <1>2, <2>1, <2>2 DEF RaceRight
<1>10. WaitingRight(h, f)
  <2>1. \A d \in Ids : e.made[d].by = "then" => e.made[d].of[1] \in Ids
    BY <1>0 DEF EnvTyped, MadeRight
  <2>2. ASSUME NEW d \in Ids, e.made[d].of[1] \in Ids, InLine(h, e, d)
        PROVE  InLine(h, f, d)
    <3> DEFINE q == e.made[d].of[1]
    <3>1. CASE \E n \in 1 .. Len(h.subs[q]) : Live(e, q, n) /\ h.subs[q][n].do = "handler" /\ h.subs[q][n].child = d
      <4>1. PICK n \in 1 .. Len(h.subs[q]) : Live(e, q, n) /\ h.subs[q][n].do = "handler" /\ h.subs[q][n].child = d
        BY <3>1
      <4>2. Live(f, q, n)
        BY <1>3, <2>2, <4>1
      <4> QED BY <1>2, <4>1, <4>2 DEF InLine
    <3>2. CASE \E n \in 1 .. Len(h.queue) : h.queue[n].do = "invoke" /\ h.queue[n].promise = d
      BY <3>2 DEF InLine
    <3> QED BY <2>2, <3>1, <3>2, Zenon DEF InLine
  <2> QED BY <1>0, <1>2, <2>1, <2>2 DEF WaitingRight
<1>11. \A q \in Ids : /\ Untouched(f, q) <=> Untouched(e, q)
                      /\ Bound(h, f, q) <=> Bound(h, e, q)
  BY <1>2 DEF Untouched, Bound, Loose, Settled
<1>12. FreshRight(h, f)
  BY <1>0, <1>2, <1>11, SameLoose DEF FreshRight, Alone
<1>13. FollowRight(h, f)
  BY <1>0, <1>2, <1>11 DEF FollowRight
<1> QED BY <1>1, <1>4, <1>5, <1>6, <1>7, <1>8, <1>9, <1>10, <1>12, <1>13 DEF Core

\* A handler: it is called with the outcome of p.
LEMMA PassesHandler ==
    ASSUME NEW h, NEW e, NEW f, NEW p, NEW i, NEW c, Core(h, e), Passes(h, e, f, p, i),
           Same(e, f, {"current", "invoked"}), h.subs[p][i].do = "handler", h.subs[p][i].child = c,
           f.invoked = [e.invoked EXCEPT ![c] = <<<<h.state[p], h.result[p]>>>>]
    PROVE  Core(h, f)
<1>0. /\ h \in Shapes /\ EnvTyped(e) /\ CurrentRight(h, e)
      /\ SubsRight(h, e) /\ SubsOrdered(h, e) /\ JobsRight(h, e) /\ JobsOrdered(h, e) /\ LinesRight(h, e)
      /\ CalledRight(h, e) /\ WaitingRight(h, e)
      /\ FreshRight(h, e) /\ FollowRight(h, e) /\ RaceRight(h, e)
  BY DEF Core, HeapTyped
<1>1. HeapTyped(h) /\ p \in Ids /\ i \in 1 .. Len(h.subs[p])
  BY DEF Core, Passes
<1>2. /\ f.made = e.made /\ f.settles = e.settles
      /\ f.foreign = e.foreign /\ f.follows = e.follows
  BY DEF Same
<1>3. /\ \A q \in Ids : \A n \in 1 .. Len(h.subs[q]) :
            Live(f, q, n) <=> Live(e, q, n) /\ ~(q = p /\ n = i)
      /\ \A n : Live(f, p, n) => i + 1 <= n
      /\ f.current \in [promise : 0 .. MaxPromises, index : Nat] /\ f.current.index # 0
      /\ f.current.promise = e.current.promise
      /\ Live(e, p, i) /\ Settled(h, p)
  BY PassesLive
<1>4. c \in Ids /\ e.made[c].by = "then" /\ e.made[c].of[1] = p /\ e.invoked[c] = <<>>
  <2>1. SubRight(e, p, i, h.subs[p][i]) /\ h.subs[p][i].child \in Ids
    BY <1>0, <1>1, SubsTyped DEF SubsRight
  <2> QED BY <1>3, <2>1 DEF SubRight
<1>5. /\ f.invoked[c] = <<<<h.state[p], h.result[p]>>>> /\ f.invoked[c] # <<>>
      /\ DOMAIN f.invoked = Ids /\ \A b \in Ids : b # c => f.invoked[b] = e.invoked[b]
  BY <1>0, <1>4 DEF EnvTyped
<1>6. EnvTyped(f) /\ CurrentRight(h, f)
  BY <1>0, <1>2, <1>3, <1>5 DEF EnvTyped, CurrentRight
\* The handlers of p that are still to be called come after c.
<1>7. \A q \in Ids : \A n \in 1 .. Len(h.subs[q]) :
          h.subs[q][n].do = "handler" /\ Live(f, q, n) =>
              h.subs[q][n].child # c /\ (q = p => c < h.subs[q][n].child)
  <2> SUFFICES ASSUME NEW q \in Ids, NEW n \in 1 .. Len(h.subs[q]), h.subs[q][n].do = "handler", Live(f, q, n)
               PROVE  h.subs[q][n].child # c /\ (q = p => c < h.subs[q][n].child)
    OBVIOUS
  <2>1. CASE q = p
    <3>1. i < n
      BY <1>0, <1>1, <1>3, <2>1, SubsTyped
    <3>2. c < h.subs[p][n].child
      BY <1>0, <1>1, <1>3, <2>1, <3>1 DEF SubsOrdered
    <3> QED BY <1>4, <2>1, <3>2 DEF Ids
  <2>2. CASE q # p
    <3>1. SubRight(e, q, n, h.subs[q][n])
      BY <1>0 DEF SubsRight
    <3> QED BY <1>4, <2>2, <3>1 DEF SubRight
  <2> QED BY <2>1, <2>2
<1>8. \A n \in 1 .. Len(h.queue) : h.queue[n].do = "invoke" =>
          h.queue[n].promise # c /\ (Calls(h, e, n, p) => c < h.queue[n].promise)
  <2> SUFFICES ASSUME NEW n \in 1 .. Len(h.queue), h.queue[n].do = "invoke"
               PROVE  h.queue[n].promise # c /\ (Calls(h, e, n, p) => c < h.queue[n].promise)
    OBVIOUS
  <2>1. Calls(h, e, n, p) => c < h.queue[n].promise
    BY <1>0, <1>1, <1>3 DEF LinesRight
  <2>2. h.queue[n].promise = c => Calls(h, e, n, p)
    BY <1>4 DEF Calls
  <2> QED BY <1>4, <2>1, <2>2 DEF Ids
<1>9. SubsRight(h, f)
  <2> SUFFICES ASSUME NEW q \in Ids, NEW n \in 1 .. Len(h.subs[q]) PROVE SubRight(f, q, n, h.subs[q][n])
    BY DEF SubsRight
  <2>1. SubRight(e, q, n, h.subs[q][n]) /\ h.subs[q][n].child \in Ids
    BY <1>0, SubsTyped DEF SubsRight
  <2>2. h.subs[q][n].do = "handler" /\ Live(f, q, n) =>
            Live(e, q, n) /\ f.invoked[h.subs[q][n].child] = e.invoked[h.subs[q][n].child]
    BY <1>3, <1>5, <1>7, <2>1
  <2> QED BY <1>2, <2>1, <2>2, Zenon DEF SubRight
<1>10. SubsOrdered(h, f)
  BY <1>0, <1>3 DEF SubsOrdered
<1>11. JobsRight(h, f)
  <2> SUFFICES ASSUME NEW n \in 1 .. Len(h.queue) PROVE JobRight(h, f, h.queue[n])
    BY DEF JobsRight
  <2>1. JobRight(h, e, h.queue[n]) /\ h.queue[n].promise \in Ids
    BY <1>0, QueueTyped DEF JobsRight
  <2>2. h.queue[n].do = "invoke" => f.invoked[h.queue[n].promise] = e.invoked[h.queue[n].promise]
    BY <1>5, <1>8, <2>1
  <2> QED BY <1>2, <2>1, <2>2 DEF JobRight
<1>12. \A n, q : Calls(h, f, n, q) <=> Calls(h, e, n, q)
  BY <1>2 DEF Calls
<1>13. JobsOrdered(h, f) /\ LinesRight(h, f)
  <2>1. \A q : PublishFirst(h, e, q) => PublishFirst(h, f, q)
    BY <1>3, <1>12 DEF PublishFirst
  <2>2. JobsOrdered(h, f)
    BY <1>0, <1>12 DEF JobsOrdered
  <2> QED BY <1>0, <1>3, <1>12, <2>1, <2>2 DEF LinesRight
<1>14. CalledRight(h, f)
  <2>1. \A b \in Ids : b < c /\ e.made[b].by = "then" /\ e.made[b].of[1] = p => e.invoked[b] # <<>>
    <3> SUFFICES ASSUME NEW b \in Ids, b < c, e.made[b].by = "then", e.made[b].of[1] = p, e.invoked[b] = <<>>
                 PROVE  FALSE
      OBVIOUS
    <3>1. InLine(h, e, b)
      BY <1>0 DEF WaitingRight
    <3>2. CASE \E n \in 1 .. Len(h.subs[p]) : Live(e, p, n) /\ h.subs[p][n].do = "handler" /\ h.subs[p][n].child = b
      <4>1. PICK n \in 1 .. Len(h.subs[p]) : Live(e, p, n) /\ h.subs[p][n].do = "handler" /\ h.subs[p][n].child = b
        BY <3>2
      <4>2. n # i
        BY <1>4, <4>1 DEF Ids
      <4>3. Live(f, p, n)
        BY <1>1, <1>3, <4>1, <4>2
      <4>4. c < b
        BY <1>1, <1>7, <4>1, <4>3
      <4> QED BY <1>4, <4>4 DEF Ids
    <3>3. CASE \E n \in 1 .. Len(h.queue) : h.queue[n].do = "invoke" /\ h.queue[n].promise = b
      <4>1. PICK n \in 1 .. Len(h.queue) : h.queue[n].do = "invoke" /\ h.queue[n].promise = b
        BY <3>3
      <4>2. Calls(h, e, n, p)
        BY <4>1 DEF Calls
      <4>3. c < b
        BY <1>8, <4>1, <4>2
      <4> QED BY <1>4, <4>3 DEF Ids
    <3> QED BY <3>1, <3>2, <3>3 DEF InLine
  <2>2. ASSUME NEW d \in Ids, d # c, e.invoked[d] # <<>>
        PROVE  /\ e.made[d].by = "then" /\ Settled(h, e.made[d].of[1])
               /\ e.invoked[d] = <<<<h.state[e.made[d].of[1]], h.result[e.made[d].of[1]]>>>>
               /\ \A b \in Ids : b < d /\ e.made[b].by = "then" /\ e.made[b].of[1] = e.made[d].of[1] =>
                     f.invoked[b] # <<>>
    BY <1>0, <1>5, <2>2 DEF CalledRight
  <2> SUFFICES ASSUME NEW d \in Ids, f.invoked[d] # <<>>
               PROVE  /\ e.made[d].by = "then" /\ Settled(h, e.made[d].of[1])
                      /\ f.invoked[d] = <<<<h.state[e.made[d].of[1]], h.result[e.made[d].of[1]]>>>>
                      /\ \A b \in Ids : b < d /\ e.made[b].by = "then" /\ e.made[b].of[1] = e.made[d].of[1] =>
                            f.invoked[b] # <<>>
    BY <1>2 DEF CalledRight
  <2>3. CASE d = c
    BY <1>3, <1>4, <1>5, <2>1, <2>3
  <2>4. CASE d # c
    BY <1>5, <2>2, <2>4
  <2> QED BY <2>3, <2>4
<1>15. RaceRight(h, f)
  BY <1>0, <1>2, SameLoose DEF RaceRight
<1>16. WaitingRight(h, f)
  <2>1. \A d \in Ids : e.made[d].by = "then" => e.made[d].of[1] \in Ids
    BY <1>0 DEF EnvTyped, MadeRight
  <2>2. ASSUME NEW d \in Ids, d # c, e.made[d].of[1] \in Ids, InLine(h, e, d)
        PROVE  InLine(h, f, d)
    <3> DEFINE q == e.made[d].of[1]
    <3>1. CASE \E n \in 1 .. Len(h.subs[q]) : Live(e, q, n) /\ h.subs[q][n].do = "handler" /\ h.subs[q][n].child = d
      <4>1. PICK n \in 1 .. Len(h.subs[q]) : Live(e, q, n) /\ h.subs[q][n].do = "handler" /\ h.subs[q][n].child = d
        BY <3>1
      <4>2. Live(f, q, n)
        BY <1>3, <2>2, <4>1
      <4> QED BY <1>2, <4>1, <4>2 DEF InLine
    <3>2. CASE \E n \in 1 .. Len(h.queue) : h.queue[n].do = "invoke" /\ h.queue[n].promise = d
      BY <3>2 DEF InLine
    <3> QED BY <2>2, <3>1, <3>2, Zenon DEF InLine
  <2> QED BY <1>0, <1>2, <1>5, <2>1, <2>2 DEF WaitingRight
<1>17. \A q \in Ids : /\ Untouched(f, q) => Untouched(e, q)
                      /\ Bound(h, f, q) <=> Bound(h, e, q)
  BY <1>2, <1>4, <1>5 DEF Untouched, Bound, Loose, Settled
<1>18. FreshRight(h, f)
  BY <1>0, <1>2, <1>17, SameLoose DEF FreshRight, Alone
<1>19. FollowRight(h, f)
  BY <1>0, <1>2, <1>17 DEF FollowRight
<1> QED BY <1>1, <1>6, <1>9, <1>10, <1>11, <1>13, <1>14, <1>15, <1>16, <1>18, <1>19 DEF Core

\* publish has come to the end of the subscribers of p: they are gone.
LEMMA PassedCore ==
    ASSUME NEW h, NEW k, NEW e, NEW f, NEW p \in Ids, Core(h, e), HeapTyped(k), Same(e, f, {"current"}),
           e.current.promise = p, e.current.index > Len(h.subs[p]),
           f.current = [promise |-> 0, index |-> 0],
           k.subs = [h.subs EXCEPT ![p] = <<>>],
           k.state = h.state, k.result = h.result, k.queue = h.queue
    PROVE  Core(k, f)
<1>0. /\ h \in Shapes /\ EnvTyped(e) /\ CurrentRight(h, e)
      /\ SubsRight(h, e) /\ SubsOrdered(h, e) /\ JobsRight(h, e) /\ JobsOrdered(h, e) /\ LinesRight(h, e)
      /\ CalledRight(h, e) /\ WaitingRight(h, e)
      /\ FreshRight(h, e) /\ FollowRight(h, e) /\ RaceRight(h, e)
  BY DEF Core, HeapTyped
<1>1. /\ f.made = e.made /\ f.settles = e.settles /\ f.invoked = e.invoked
      /\ f.foreign = e.foreign /\ f.follows = e.follows
  BY DEF Same
<1>2. /\ Len(k.subs[p]) = 0 /\ \A q \in Ids : q # p => k.subs[q] = h.subs[q]
      /\ \A n \in 1 .. Len(h.subs[p]) : ~Live(e, p, n)
      /\ \A q, n : q # p => Live(e, q, n)
      /\ \A q, n : q # 0 => Live(f, q, n)
  <2>1. Len(k.subs[p]) = 0 /\ \A q \in Ids : q # p => k.subs[q] = h.subs[q]
    <3>1. h.subs \in [Ids -> Seq(Subs)]
      BY <1>0 DEF Shapes
    <3> QED BY <3>1
  <2>2. Len(h.subs[p]) \in Nat /\ e.current.index \in Nat
    BY <1>0, SubsTyped DEF EnvTyped
  <2>3. \A n \in 1 .. Len(h.subs[p]) : ~Live(e, p, n)
    BY <2>2 DEF Live
  <2>4. (\A q, n : q # p => Live(e, q, n)) /\ (\A q, n : q # 0 => Live(f, q, n))
    BY DEF Live
  <2> QED BY <2>1, <2>3, <2>4
<1>3. EnvTyped(f) /\ CurrentRight(k, f)
  <2>1. f.current \in [promise : 0 .. MaxPromises, index : Nat] /\ f.current.promise = 0
    BY BoundAssumption
  <2> QED BY <1>0, <1>1, <2>1 DEF EnvTyped, CurrentRight
<1>4. \A q \in Ids : \A n \in 1 .. Len(k.subs[q]) : q # p /\ q # 0 /\ k.subs[q] = h.subs[q] /\ Live(e, q, n)
  BY <1>2 DEF Ids
<1>5. SubsRight(k, f)
  <2>1. \A q \in Ids : q # p => \A n, sub : SubRight(e, q, n, sub) => SubRight(f, q, n, sub)
    BY <1>1, <1>2 DEF SubRight
  <2> QED BY <1>0, <1>4, <2>1 DEF SubsRight
<1>6. SubsOrdered(k, f)
  BY <1>0, <1>4 DEF SubsOrdered
<1>7. JobsRight(k, f) /\ JobsOrdered(k, f)
  <2>1. \A j : JobRight(h, e, j) => JobRight(k, f, j)
    BY <1>1 DEF JobRight, Settled
  <2>2. JobsRight(k, f)
    BY <1>0, <2>1 DEF JobsRight
  <2> QED BY <1>0, <1>1, <2>2 DEF JobsOrdered, Calls
<1>8. LinesRight(k, f)
  <2>1. \A q : q # p /\ PublishFirst(h, e, q) => PublishFirst(k, f, q)
    BY <1>1 DEF PublishFirst, Calls
  <2>2. \A n, q : Calls(k, f, n, q) <=> Calls(h, e, n, q)
    BY <1>1 DEF Calls
  <2> QED BY <1>0, <1>4, <2>1, <2>2 DEF LinesRight, Settled
<1>9. CalledRight(k, f) /\ RaceRight(k, f)
  <2>1. CalledRight(k, f)
    BY <1>0, <1>1 DEF CalledRight, Settled
  <2>2. \A q : LooseRace(k, f, q) <=> LooseRace(h, e, q)
    BY <1>1, SameLoose
  <2>3. RaceRight(k, f)
    BY <1>0, <1>1, <2>2 DEF RaceRight, Settled
  <2> QED BY <2>1, <2>3
<1>10. WaitingRight(k, f)
  <2>1. \A d \in Ids : e.made[d].by = "then" => e.made[d].of[1] \in Ids
    BY <1>0 DEF EnvTyped, MadeRight
  <2>2. ASSUME NEW d \in Ids, e.made[d].of[1] \in Ids, InLine(h, e, d)
        PROVE  InLine(k, f, d)
    <3> DEFINE q == e.made[d].of[1]
    <3>1. CASE \E n \in 1 .. Len(h.subs[q]) : Live(e, q, n) /\ h.subs[q][n].do = "handler" /\ h.subs[q][n].child = d
      <4>1. PICK n \in 1 .. Len(h.subs[q]) : Live(e, q, n) /\ h.subs[q][n].do = "handler" /\ h.subs[q][n].child = d
        BY <3>1
      <4>2. q # p /\ q # 0 /\ k.subs[q] = h.subs[q]
        BY <1>2, <2>2, <4>1 DEF Ids
      <4>3. Live(f, q, n)
        BY <1>2, <4>2
      <4>4. \E l \in 1 .. Len(k.subs[q]) : Live(f, q, l) /\ k.subs[q][l].do = "handler" /\ k.subs[q][l].child = d
        BY <4>1, <4>2, <4>3, Zenon
      <4>5. f.made[d].of[1] = q
        BY <1>1
      <4> HIDE DEF q
      <4> QED BY <4>4, <4>5 DEF InLine
    <3>2. CASE \E n \in 1 .. Len(h.queue) : h.queue[n].do = "invoke" /\ h.queue[n].promise = d
      BY <3>2 DEF InLine
    <3> QED BY <2>2, <3>1, <3>2, Zenon DEF InLine
  <2> QED BY <1>0, <1>1, <2>1, <2>2 DEF WaitingRight
<1>11. \A q \in Ids : /\ Untouched(f, q) <=> Untouched(e, q)
                      /\ Bound(k, f, q) <=> Bound(h, e, q)
  BY <1>1 DEF Untouched, Bound, Loose, Settled
<1>12. FreshRight(k, f)
  <2>1. \A q : Alone(h, e, q) => Alone(k, f, q)
    BY <1>1, <1>4 DEF Alone
  <2> QED BY <1>0, <1>1, <1>11, <2>1, SameLoose DEF FreshRight
<1>13. FollowRight(k, f)
  BY <1>0, <1>1, <1>4, <1>11 DEF FollowRight, Settled
<1> QED BY <1>3, <1>5, <1>6, <1>7, <1>8, <1>9, <1>10, <1>12, <1>13 DEF Core

-----------------------------------------------------------------------------
(* Promise.all.                                                            *)

\* Entry i of a waits for a promise.
Waits(h, e, a, i) ==
    \E p \in Ids : \E n \in 1 .. Len(h.subs[p]) :
        /\ Live(e, p, n) /\ h.subs[p][n].do = "entry"
        /\ h.subs[p][n].child = a /\ h.subs[p][n].index = i

\* It has counted, and its value has its place.
Counted(h, e, a, i) ==
    LET x == e.made[a].of[i]
    IN  IF x.is = "promise" THEN h.state[x.of] = "fulfilled" /\ h.array[a][i] = h.result[x.of]
        ELSE h.array[a][i] = x

ToCome(h, e, a, H, i) == IF i \in H \/ Waits(h, e, a, i) THEN 1 ELSE 0

\* All is right with a, but that the entries in H are in hand.
AllRight(h, e, a, H) ==
    /\ h.left[a] \in 0 .. 2
    /\ h.state[a] = "pending" =>
          /\ h.left[a] = ToCome(h, e, a, H, 1) + ToCome(h, e, a, H, 2)
          /\ \A i \in 1 .. 2 : IF i \in H THEN ~Waits(h, e, a, i)
                               ELSE Waits(h, e, a, i) \/ Counted(h, e, a, i)
    /\ h.state[a] = "fulfilled" => \A i \in 1 .. 2 : Counted(h, e, a, i)
    /\ h.state[a] = "rejected" => \E i \in 1 .. 2 : \E p \in Ids :
          e.made[a].of[i] = Own(p) /\ h.state[p] = "rejected" /\ h.result[a] = h.result[p]

\* So it is with all of them, the entries in H of a being in hand.
AllsRight(h, e, a, H) ==
    \A b \in Ids : IF e.made[b].by = "all" THEN AllRight(h, e, b, IF b = a THEN H ELSE {})
                   ELSE h.left[b] = 2

Right(h, e, a, H) == Core(h, e) /\ AllsRight(h, e, a, H)

LEMMA OwnFields == \A p : Own(p).is = "promise" /\ Own(p).of = p
BY DEF Own

LEMMA AllKept ==
    ASSUME NEW h, NEW k, NEW e, NEW f, NEW b \in Ids, NEW H,
           AllRight(h, e, b, H), MadeRight(e.made[b]), e.made[b].by = "all", f.made[b] = e.made[b],
           k.left[b] = h.left[b], k.array[b] = h.array[b],
           k.state[b] = h.state[b], k.result[b] = h.result[b], Keeps(h, k),
           \A i \in 1 .. 2 : Waits(k, f, b, i) <=> Waits(h, e, b, i)
    PROVE  AllRight(k, f, b, H)
<1>1. \A i \in 1 .. 2 : e.made[b].of[i] \in Results
  BY DEF MadeRight
<1>2. \A i \in 1 .. 2 : e.made[b].of[i].is = "promise" => e.made[b].of[i].of \in Ids
  BY <1>1, ValueKinds
<1>3. \A i \in 1 .. 2 : Counted(h, e, b, i) => Counted(k, f, b, i)
  BY <1>2 DEF Counted, Keeps, Settled
<1>4. \A i \in 1 .. 2 : ToCome(k, f, b, H, i) = ToCome(h, e, b, H, i)
  BY DEF ToCome
<1>5. \A p \in Ids : h.state[p] = "rejected" => k.state[p] = "rejected" /\ k.result[p] = h.result[p]
  BY DEF Keeps, Settled
<1> QED BY <1>3, <1>4, <1>5 DEF AllRight

LEMMA AllsKept ==
    ASSUME NEW h, NEW k, NEW e, NEW f, NEW a, NEW H,
           AllsRight(h, e, a, H), EnvTyped(e), f.made = e.made,
           k.left = h.left, k.array = h.array, Keeps(h, k),
           \A b \in Ids : e.made[b].by = "all" => k.state[b] = h.state[b] /\ k.result[b] = h.result[b],
           \A b \in Ids : \A i \in 1 .. 2 : Waits(k, f, b, i) <=> Waits(h, e, b, i)
    PROVE  AllsRight(k, f, a, H)
<1> SUFFICES ASSUME NEW b \in Ids
             PROVE  IF e.made[b].by = "all" THEN AllRight(k, f, b, IF b = a THEN H ELSE {})
                    ELSE k.left[b] = 2
  BY DEF AllsRight
<1>1. CASE e.made[b].by = "all"
  <2>1. PICK G : G = IF b = a THEN H ELSE {}
    OBVIOUS
  <2>2. AllRight(h, e, b, G) /\ MadeRight(e.made[b])
    BY <1>1, <2>1 DEF AllsRight, EnvTyped
  <2>3. AllRight(k, f, b, G)
    BY <1>1, <2>2, AllKept
  <2> QED BY <1>1, <2>1, <2>3
<1>2. CASE e.made[b].by # "all"
  BY <1>2 DEF AllsRight
<1> QED BY <1>1, <1>2

LEMMA SameWaits ==
    ASSUME NEW h, NEW k, NEW e, NEW f, k.subs = h.subs, f.current = e.current
    PROVE  \A b, i : Waits(k, f, b, i) <=> Waits(h, e, b, i)
BY DEF Waits, Live

-----------------------------------------------------------------------------
(* The internal functions keep all of it.                                  *)

LEMMA AsapEffect ==
    ASSUME NEW h, HeapTyped(h), NEW job \in Jobs
    PROVE  Queues(h, Asap(h, job), job)
<1> DEFINE k == Asap(h, job)
<1>1. h \in Shapes /\ h.queue \in Seq(Jobs) /\ h.scheduled \in BOOLEAN /\ Append(h.queue, job) \in Seq(Jobs)
  BY DEF HeapTyped, Shapes
<1>2. /\ k.state = h.state /\ k.result = h.result /\ k.subs = h.subs
      /\ k.left = h.left /\ k.array = h.array
      /\ k.queue = Append(h.queue, job)
  BY <1>1 DEF Asap, Shapes
<1>3. k \in Shapes
  BY <1>1 DEF Asap, Shapes
<1>4. Adds(h.queue, Append(h.queue, job), job)
  BY <1>1 DEF Adds
<1> HIDE DEF k
<1>5. HeapTyped(k)
  BY <1>2, <1>3 DEF HeapTyped
<1>6. Queues(h, k, job)
  BY <1>2, <1>4, <1>5 DEF Queues
<1> QED BY <1>6 DEF k

Outcome(h, p, s, v) == [h EXCEPT !.state[p] = s, !.result[p] = v]

SetTo(h, k, p, s, v) ==
    /\ HeapTyped(k)
    /\ k.state = [h.state EXCEPT ![p] = s] /\ k.result = [h.result EXCEPT ![p] = v]
    /\ k.subs = h.subs /\ k.left = h.left /\ k.array = h.array /\ k.queue = h.queue

LEMMA SettlingEffect ==
    ASSUME NEW h, HeapTyped(h), NEW p \in Ids, NEW s \in {"fulfilled", "rejected"},
           NEW v \in Results, s = "fulfilled" => Final(v)
    PROVE  SetTo(h, Outcome(h, p, s, v), p, s, v)
<1>1. PICK k : k = Outcome(h, p, s, v)
  OBVIOUS
<1>2. h \in Shapes
  BY DEF HeapTyped
<1>3. /\ k.state = [h.state EXCEPT ![p] = s] /\ k.result = [h.result EXCEPT ![p] = v]
      /\ k.subs = h.subs /\ k.left = h.left /\ k.array = h.array /\ k.queue = h.queue
  BY <1>1, <1>2 DEF Shapes, Outcome
<1>4. h.state \in [Ids -> States] /\ h.result \in [Ids -> Results] /\ s \in States
  BY <1>2 DEF Shapes, States
<1>5. k \in Shapes
  BY <1>1, <1>2, <1>4 DEF Shapes, Outcome
<1>6. \A q \in Ids : k.state[q] = "fulfilled" => Final(k.result[q])
  BY <1>3, <1>4 DEF HeapTyped
<1> QED BY <1>1, <1>3, <1>5, <1>6 DEF HeapTyped, SetTo

LEMMA FulfillEffect ==
    ASSUME NEW h, HeapTyped(h), NEW p \in Ids, ~Settled(h, p), NEW v, Final(v)
    PROVE  Ends(h, Fulfill(h, p, v), p, "fulfilled", v)
<1>1. PICK k : k = Outcome(h, p, "fulfilled", v)
  OBVIOUS
<1>2. /\ HeapTyped(k)
      /\ k.state = [h.state EXCEPT ![p] = "fulfilled"] /\ k.result = [h.result EXCEPT ![p] = v]
      /\ k.subs = h.subs /\ k.left = h.left /\ k.array = h.array /\ k.queue = h.queue
  <2>1. v \in Results
    BY DEF Final
  <2>2. SetTo(h, k, p, "fulfilled", v)
    BY <1>1, <2>1, SettlingEffect
  <2> QED BY <2>2 DEF SetTo
<1>3. CASE h.subs[p] # <<>>
  <2>1. Fulfill(h, p, v) = Asap(k, Publish(p))
    BY <1>1, <1>3 DEF Fulfill, Outcome
  <2>2. Queues(k, Asap(k, Publish(p)), Publish(p))
    BY <1>2, AsapEffect, PublishFits DEF Fit
  <2> QED BY <1>2, <2>1, <2>2 DEF Ends, Queues
<1>4. CASE h.subs[p] = <<>>
  <2>1. Fulfill(h, p, v) = k
    BY <1>1, <1>4 DEF Fulfill, Outcome
  <2> QED BY <1>2, <1>4, <2>1 DEF Ends
<1> QED BY <1>3, <1>4

LEMMA RejectEffect ==
    ASSUME NEW h, HeapTyped(h), NEW p \in Ids, ~Settled(h, p), NEW v \in Results
    PROVE  Ends(h, Reject(h, p, v), p, "rejected", v)
<1>1. PICK k : k = Outcome(h, p, "rejected", v)
  OBVIOUS
<1>2. /\ HeapTyped(k)
      /\ k.state = [h.state EXCEPT ![p] = "rejected"] /\ k.result = [h.result EXCEPT ![p] = v]
      /\ k.subs = h.subs /\ k.left = h.left /\ k.array = h.array /\ k.queue = h.queue
  <2>1. SetTo(h, k, p, "rejected", v)
    BY <1>1, SettlingEffect
  <2> QED BY <2>1 DEF SetTo
<1>3. Reject(h, p, v) = Asap(k, Publish(p))
  BY <1>1 DEF Reject, Outcome
<1>4. Queues(k, Asap(k, Publish(p)), Publish(p))
  BY <1>2, AsapEffect, PublishFits DEF Fit
<1> QED BY <1>2, <1>3, <1>4 DEF Ends, Queues

LEMMA SubscribeEffect ==
    ASSUME NEW h, HeapTyped(h), NEW q \in Ids, NEW sub \in Subs
    PROVE  \E s : /\ Joins(h, s, q, sub)
                  /\ \/ Subscribe(h, q, sub) = s
                     \/ Settled(s, q) /\ Queues(s, Subscribe(h, q, sub), Publish(q))
<1>1. PICK s : s = [h EXCEPT !.subs[q] = Append(h.subs[q], sub)]
  OBVIOUS
<1>2. h \in Shapes /\ h.subs \in [Ids -> Seq(Subs)] /\ Append(h.subs[q], sub) \in Seq(Subs)
  BY DEF HeapTyped, Shapes
<1>3. /\ s.state = h.state /\ s.result = h.result /\ s.queue = h.queue
      /\ s.left = h.left /\ s.array = h.array
      /\ s.subs = [h.subs EXCEPT ![q] = Append(h.subs[q], sub)]
  BY <1>1, <1>2 DEF Shapes
<1>4. s \in Shapes
  BY <1>1, <1>2 DEF Shapes
<1>5. Adds(h.subs[q], s.subs[q], sub)
  BY <1>2, <1>3 DEF Adds
<1>6. HeapTyped(s)
  BY <1>3, <1>4 DEF HeapTyped
<1>7. Joins(h, s, q, sub)
  BY <1>2, <1>3, <1>5, <1>6 DEF Joins
<1>8. Subscribe(h, q, sub) = IF h.subs[q] = <<>> /\ Settled(h, q) THEN Asap(s, Publish(q)) ELSE s
  BY <1>1 DEF Subscribe
<1>9. Queues(s, Asap(s, Publish(q)), Publish(q))
  BY <1>6, AsapEffect, PublishFits DEF Fit
<1> QED BY <1>3, <1>7, <1>8, <1>9 DEF Settled

-----------------------------------------------------------------------------
LEMMA RightTyped ==
    ASSUME NEW h, NEW e, NEW a, NEW H, Right(h, e, a, H)
    PROVE  Core(h, e) /\ AllsRight(h, e, a, H) /\ HeapTyped(h) /\ h \in Shapes /\ EnvTyped(e)
BY DEF Right, Core, HeapTyped

LEMMA EndsKeeps ==
    ASSUME NEW h \in Shapes, NEW k, NEW p, NEW s, NEW v, Ends(h, k, p, s, v)
    PROVE  Keeps(h, k) /\ \A q \in Ids : q # p => k.state[q] = h.state[q] /\ k.result[q] = h.result[q]
BY DEF Ends, Keeps, Settled, Shapes

LEMMA EndsRight ==
    ASSUME NEW h, NEW k, NEW e, NEW a, NEW H, NEW p, NEW s, NEW v,
           Right(h, e, a, H), Ends(h, k, p, s, v), MayEnd(h, e, p, s, v), e.made[p].by # "all"
    PROVE  Right(k, e, a, H)
<1>1. Core(h, e) /\ AllsRight(h, e, a, H) /\ h \in Shapes /\ EnvTyped(e)
  BY RightTyped
<1>2. Core(k, e)
  BY <1>1, EndsCore
<1>3. Keeps(h, k) /\ \A q \in Ids : q # p => k.state[q] = h.state[q] /\ k.result[q] = h.result[q]
  BY <1>1, EndsKeeps
<1>4. k.subs = h.subs /\ k.left = h.left /\ k.array = h.array
  BY DEF Ends
<1>5. \A b \in Ids : \A i \in 1 .. 2 : Waits(k, e, b, i) <=> Waits(h, e, b, i)
  BY <1>4, SameWaits
<1>6. AllsRight(k, e, a, H)
  BY <1>1, <1>3, <1>4, <1>5, AllsKept
<1> QED BY <1>2, <1>6 DEF Right

LEMMA QueuesRight ==
    ASSUME NEW h, NEW k, NEW e, NEW a, NEW H, NEW job,
           Right(h, e, a, H), Queues(h, k, job), MayQueue(h, e, job)
    PROVE  Right(k, e, a, H)
<1>1. Core(h, e) /\ AllsRight(h, e, a, H) /\ h \in Shapes /\ EnvTyped(e)
  BY RightTyped
<1>2. Core(k, e)
  BY <1>1, QueuesCore
<1>3. /\ k.state = h.state /\ k.result = h.result
      /\ k.subs = h.subs /\ k.left = h.left /\ k.array = h.array
  BY DEF Queues
<1>4. Keeps(h, k)
  BY <1>3 DEF Keeps
<1>5. \A b \in Ids : \A i \in 1 .. 2 : Waits(k, e, b, i) <=> Waits(h, e, b, i)
  BY <1>3, SameWaits
<1>6. AllsRight(k, e, a, H)
  BY <1>1, <1>3, <1>4, <1>5, AllsKept
<1> QED BY <1>2, <1>6 DEF Right

\* A subscriber of a pending promise is not passed.
LEMMA JoinsWaits ==
    ASSUME NEW h \in Shapes, NEW k, NEW e, NEW q, NEW sub, Joins(h, k, q, sub)
    PROVE  /\ \A b, i : Waits(h, e, b, i) => Waits(k, e, b, i)
           /\ \A b, i : Waits(k, e, b, i) =>
                 Waits(h, e, b, i) \/ (sub.do = "entry" /\ sub.child = b /\ sub.index = i)
           /\ CurrentRight(h, e) /\ ~Settled(h, q) /\ sub.do = "entry" => Waits(k, e, sub.child, sub.index)
<1>1. /\ \A p \in Ids : \A n \in 1 .. Len(h.subs[p]) : n \in 1 .. Len(k.subs[p]) /\ k.subs[p][n] = h.subs[p][n]
      /\ \A p \in Ids : \A n \in 1 .. Len(k.subs[p]) : \/ n \in 1 .. Len(h.subs[p]) /\ k.subs[p][n] = h.subs[p][n]
                                                       \/ p = q /\ n = Len(h.subs[q]) + 1 /\ k.subs[p][n] = sub
      /\ q \in Ids /\ Len(h.subs[q]) + 1 \in 1 .. Len(k.subs[q]) /\ k.subs[q][Len(h.subs[q]) + 1] = sub
  BY AddsPlaces DEF Joins
<1>2. \A b, i : Waits(h, e, b, i) => Waits(k, e, b, i)
  BY <1>1 DEF Waits
<1>3. \A b, i : Waits(k, e, b, i) =>
         Waits(h, e, b, i) \/ (sub.do = "entry" /\ sub.child = b /\ sub.index = i)
  BY <1>1 DEF Waits
<1>4. CurrentRight(h, e) /\ ~Settled(h, q) /\ sub.do = "entry" => Waits(k, e, sub.child, sub.index)
  <2> SUFFICES ASSUME CurrentRight(h, e), ~Settled(h, q), sub.do = "entry"
               PROVE  Waits(k, e, sub.child, sub.index)
    OBVIOUS
  <2>1. \A n : Live(e, q, n)
    BY <1>1 DEF CurrentRight, Live, Ids
  <2> QED BY <1>1, <2>1 DEF Waits
<1> QED BY <1>2, <1>3, <1>4

LEMMA JoinsRight ==
    ASSUME NEW h, NEW k, NEW e, NEW a, NEW H, NEW q, NEW sub,
           Right(h, e, a, H), Joins(h, k, q, sub), MayJoin(h, e, q, sub), sub.do # "entry"
    PROVE  Right(k, e, a, H)
<1>1. Core(h, e) /\ AllsRight(h, e, a, H) /\ h \in Shapes /\ EnvTyped(e)
  BY RightTyped
<1>2. Core(k, e)
  BY <1>1, JoinsCore
<1>3. /\ k.state = h.state /\ k.result = h.result /\ k.left = h.left /\ k.array = h.array
  BY DEF Joins
<1>4. Keeps(h, k)
  BY <1>3 DEF Keeps
<1>5. \A b \in Ids : \A i \in 1 .. 2 : Waits(k, e, b, i) <=> Waits(h, e, b, i)
  <2>1. /\ \A b, i : Waits(h, e, b, i) => Waits(k, e, b, i)
        /\ \A b, i : Waits(k, e, b, i) =>
              Waits(h, e, b, i) \/ (sub.do = "entry" /\ sub.child = b /\ sub.index = i)
        /\ CurrentRight(h, e) /\ ~Settled(h, q) /\ sub.do = "entry" => Waits(k, e, sub.child, sub.index)
    BY <1>1, JoinsWaits
  <2> QED BY <2>1
<1>6. AllsRight(k, e, a, H)
  BY <1>1, <1>3, <1>4, <1>5, AllsKept
<1> QED BY <1>2, <1>6 DEF Right

LEMMA FulfillRight ==
    ASSUME NEW h, NEW e, NEW a, NEW H, Right(h, e, a, H), NEW p \in Ids, NEW v, Final(v),
           e.made[p].by # "all", MayEnd(h, e, p, "fulfilled", v) \/ Settled(h, p)
    PROVE  Right(Fulfill(h, p, v), e, a, H)
<1>1. CASE Settled(h, p)
  BY <1>1 DEF Fulfill
<1>2. CASE ~Settled(h, p)
  <2>1. Ends(h, Fulfill(h, p, v), p, "fulfilled", v)
    BY <1>2, RightTyped, FulfillEffect
  <2> QED BY <1>2, <2>1, EndsRight
<1> QED BY <1>1, <1>2

LEMMA RejectRight ==
    ASSUME NEW h, NEW e, NEW a, NEW H, Right(h, e, a, H), NEW p \in Ids, NEW v \in Results,
           e.made[p].by # "all", MayEnd(h, e, p, "rejected", v) \/ Settled(h, p)
    PROVE  Right(Reject(h, p, v), e, a, H)
<1>1. CASE Settled(h, p)
  BY <1>1 DEF Reject
<1>2. CASE ~Settled(h, p)
  <2>1. Ends(h, Reject(h, p, v), p, "rejected", v)
    BY <1>2, RightTyped, RejectEffect
  <2> QED BY <1>2, <2>1, EndsRight
<1> QED BY <1>1, <1>2

LEMMA SubscribeRight ==
    ASSUME NEW h, NEW e, NEW a, NEW H, Right(h, e, a, H), NEW q \in Ids, NEW sub \in Subs,
           MayJoin(h, e, q, sub), sub.do # "entry"
    PROVE  Right(Subscribe(h, q, sub), e, a, H)
<1>1. PICK s : /\ Joins(h, s, q, sub)
               /\ \/ Subscribe(h, q, sub) = s
                  \/ Settled(s, q) /\ Queues(s, Subscribe(h, q, sub), Publish(q))
  BY RightTyped, SubscribeEffect
<1>2. Right(s, e, a, H)
  BY <1>1, JoinsRight
<1>3. Settled(s, q) => MayQueue(s, e, Publish(q))
  BY PublishFields DEF MayQueue
<1> QED BY <1>1, <1>2, <1>3, QueuesRight

LEMMA OwnIs ==
    /\ \A x \in Results : x.is = "promise" => x = Own(x.of) /\ x.of \in Ids
    /\ \A p, q : Own(p) = Own(q) => p = q
    /\ \A p : Own(p) # Thenable /\ Own(p) # Unreadable
    /\ Unreadable \notin Results
<1>1. \A x \in Results : x.is # "unreadable"
  BY DEF Results, Plain, Own, Array, TypeErr, Thrown, Undefined, Thenable
<1>2. Unreadable.is = "unreadable" /\ \A p : Own(p) # Thenable /\ Own(p) # Unreadable
  BY DEF Own, Thenable, Unreadable
<1>3. /\ \A x \in Results : x.is = "promise" => x = Own(x.of) /\ x.of \in Ids
      /\ \A p, q : Own(p) = Own(q) => p = q
  BY DEF Results, Plain, Own, Array, TypeErr, Thrown, Undefined, Thenable
<1> QED BY <1>1, <1>2, <1>3

\* p is resolved with x, the first time with the promise that it is bound to.
LEMMA ResolveRight ==
    ASSUME NEW h, NEW e, NEW a, NEW H, Right(h, e, a, H), NEW p \in Ids, NEW x \in Results \cup {Unreadable},
           Asks(h, e, p), ~Untouched(e, p),
           Bound(h, e, p) => x = Own(e.follows[p]) /\ x # Own(p)
    PROVE  Right(Resolve(h, p, x), e, a, H)
<1>1. HeapTyped(h) /\ h \in Shapes /\ EnvTyped(e) /\ e.made[p].by # "all"
  BY RightTyped DEF Asks
<1>2. \A s, v : ~Bound(h, e, p) => MayEnd(h, e, p, s, v)
  BY DEF MayEnd, Asks
<1>3. CASE x = Own(p)
  <2>1. ~Bound(h, e, p)
    BY <1>3
  <2>2. Right(Reject(h, p, TypeErr), e, a, H)
    BY <1>1, <1>2, <2>1, RejectRight, ValueKinds
  <2> QED BY <1>3, <2>2 DEF Resolve
<1>4. CASE x # Own(p) /\ x.is = "promise"
  <2>1. x \in Results
    BY <1>4, ValueKinds
  <2>2. PICK q \in Ids : q = x.of /\ x = Own(q)
    BY <1>4, <2>1, OwnIs
  <2>3. Bound(h, e, p) => q = e.follows[p]
    BY <2>2, OwnIs
  <2>4. MayEnd(h, e, p, h.state[q], h.result[q])
    BY <2>3 DEF MayEnd, Asks
  <2>5. h.state[q] \in States /\ h.result[q] \in Results /\ (h.state[q] = "fulfilled" => Final(h.result[q]))
    BY <1>1 DEF Shapes, HeapTyped
  <2>6. Resolve(h, p, x) = Adopt(h, p, q)
    BY <1>4, <2>2 DEF Resolve
  <2>7. CASE h.state[q] = "fulfilled"
    <3>1. Right(Fulfill(h, p, h.result[q]), e, a, H)
      BY <1>1, <2>4, <2>5, <2>7, FulfillRight
    <3> QED BY <2>6, <2>7, <3>1 DEF Adopt
  <2>8. CASE h.state[q] = "rejected"
    <3>1. Right(Reject(h, p, h.result[q]), e, a, H)
      BY <1>1, <2>4, <2>5, <2>8, RejectRight
    <3> QED BY <2>6, <2>8, <3>1 DEF Adopt
  <2>9. CASE h.state[q] = "pending"
    <3>1. PICK sub : sub = Subscriber("adopt", p, 0)
      OBVIOUS
    <3>2. sub \in Subs /\ sub.do = "adopt" /\ sub.child = p
      BY <3>1 DEF Subscriber, Subs
    <3>3. MayJoin(h, e, q, sub)
      BY <2>3, <3>2 DEF MayJoin
    <3>4. Right(Subscribe(h, q, sub), e, a, H)
      BY <3>2, <3>3, SubscribeRight
    <3> QED BY <2>6, <2>9, <3>1, <3>4 DEF Adopt
  <2> QED BY <2>5, <2>7, <2>8, <2>9 DEF States
<1>5. CASE x # Own(p) /\ x.is # "promise" /\ x = Thenable
  <2>1. ~Bound(h, e, p)
    BY <1>5, OwnIs
  <2>2. PICK job : job = CallForeign(p)
    OBVIOUS
  <2>3. job \in Jobs /\ job.do = "foreign" /\ job.promise = p
    BY <2>2, PublishFits, Zenon DEF Fit, CallForeign
  <2>4. Queues(h, Asap(h, job), job)
    BY <1>1, <2>3, AsapEffect
  <2>5. MayQueue(h, e, job)
    BY <2>1, <2>3 DEF MayQueue
  <2>6. Right(Asap(h, job), e, a, H)
    BY <2>4, <2>5, QueuesRight
  <2> QED BY <1>5, <2>2, <2>6 DEF Resolve, Thenable, Unreadable
<1>6. CASE x # Own(p) /\ x.is # "promise" /\ x # Thenable /\ x = Unreadable
  <2>1. ~Bound(h, e, p)
    BY <1>6, OwnIs
  <2>2. Right(Reject(h, p, Thrown), e, a, H)
    BY <1>1, <1>2, <2>1, RejectRight, ValueKinds
  <2> QED BY <1>6, <2>2 DEF Resolve
<1>7. CASE x # Own(p) /\ x.is # "promise" /\ x # Thenable /\ x # Unreadable
  <2>1. ~Bound(h, e, p) /\ Final(x)
    BY <1>7, OwnFields DEF Final
  <2>2. Right(Fulfill(h, p, x), e, a, H)
    BY <1>1, <1>2, <2>1, FulfillRight
  <2> QED BY <1>7, <2>2 DEF Resolve
<1> QED BY <1>3, <1>4, <1>5, <1>6, <1>7

-----------------------------------------------------------------------------
\* Entry i of a counts, with the value v; the counter alone.
CountsDown(h, k, a) ==
    /\ HeapTyped(k) /\ k.left = [h.left EXCEPT ![a] = h.left[a] - 1] /\ k.array = h.array
    /\ k.state = h.state /\ k.result = h.result /\ k.subs = h.subs /\ k.queue = h.queue

Counts(h, k, a, i, v) ==
    /\ HeapTyped(k) /\ k.left = [h.left EXCEPT ![a] = h.left[a] - 1]
    /\ k.array = [h.array EXCEPT ![a] = [h.array[a] EXCEPT ![i] = v]]
    /\ k.state = h.state /\ k.result = h.result /\ k.subs = h.subs /\ k.queue = h.queue

Down(h, a)        == [h EXCEPT !.left[a] = h.left[a] - 1]
Placed(h, a, i, v) == [h EXCEPT !.array[a][i] = v]
Count(h, a, i, v) == [h EXCEPT !.left[a] = h.left[a] - 1, !.array[a][i] = v]

LEMMA CountEffect ==
    ASSUME NEW h, HeapTyped(h), NEW a \in Ids, NEW i \in 1 .. 2, NEW v \in Results
    PROVE  /\ CountsDown(h, Down(h, a), a)
           /\ Counts(h, Placed(Down(h, a), a, i, v), a, i, v)
           /\ Counts(h, Count(h, a, i, v), a, i, v)
<1>1. /\ h \in Shapes /\ h.left \in [Ids -> Int] /\ h.array \in [Ids -> [1 .. 2 -> Results]]
      /\ h.left[a] - 1 \in Int /\ h.array[a] \in [1 .. 2 -> Results]
  BY DEF HeapTyped, Shapes
<1>2. PICK l \in [Ids -> Int] : l = [h.left EXCEPT ![a] = h.left[a] - 1]
  BY <1>1
<1>3. [h.array[a] EXCEPT ![i] = v] \in [1 .. 2 -> Results]
  BY <1>1
<1>4. PICK r \in [Ids -> [1 .. 2 -> Results]] : r = [h.array EXCEPT ![a] = [h.array[a] EXCEPT ![i] = v]]
  BY <1>1, <1>3
<1>5. ASSUME NEW m \in [Ids -> [1 .. 2 -> Results]], NEW k, k = [h EXCEPT !.left = l, !.array = m]
      PROVE  /\ HeapTyped(k) /\ k.left = l /\ k.array = m
             /\ k.state = h.state /\ k.result = h.result /\ k.subs = h.subs /\ k.queue = h.queue
  <2>1. /\ k \in Shapes /\ k.left = l /\ k.array = m
        /\ k.state = h.state /\ k.result = h.result /\ k.subs = h.subs /\ k.queue = h.queue
    BY <1>1, <1>5 DEF Shapes
  <2> QED BY <2>1 DEF HeapTyped
<1>6. PICK d : d = Down(h, a)
  OBVIOUS
<1>7. d = [h EXCEPT !.left = l, !.array = h.array]
  BY <1>1, <1>2, <1>6 DEF Down, Shapes
<1>8. CountsDown(h, d, a)
  BY <1>1, <1>2, <1>5, <1>7, Zenon DEF CountsDown
<1>9. Placed(d, a, i, v) = [h EXCEPT !.left = l, !.array = r]
  BY <1>1, <1>4, <1>7 DEF Placed, Shapes
<1>10. Count(h, a, i, v) = [h EXCEPT !.left = l, !.array = r]
  BY <1>1, <1>2, <1>4 DEF Count, Shapes
<1>11. PICK k : k = [h EXCEPT !.left = l, !.array = r]
  OBVIOUS
<1>12. Counts(h, k, a, i, v)
  BY <1>2, <1>4, <1>5, <1>11, Zenon DEF Counts
<1> QED BY <1>6, <1>8, <1>9, <1>10, <1>11, <1>12

\* What a settled promise of all has in hand does not matter.
LEMMA SettledRight ==
    ASSUME NEW h, NEW e, NEW a \in Ids, NEW H, NEW G, Right(h, e, a, H), Settled(h, a)
    PROVE  Right(h, e, a, G)
<1>1. Core(h, e) /\ AllsRight(h, e, a, H) /\ h \in Shapes
  BY RightTyped
<1>2. AllRight(h, e, a, H) => AllRight(h, e, a, G)
  BY DEF AllRight, Settled
<1>3. AllsRight(h, e, a, G)
  BY <1>1, <1>2 DEF AllsRight
<1> QED BY <1>1, <1>3 DEF Right

\* Only a differs, and it is right.
LEMMA OneRight ==
    ASSUME NEW h, NEW k, NEW e, NEW a \in Ids, NEW H, NEW G,
           Right(h, e, a, H), Core(k, e), e.made[a].by = "all",
           k.subs = h.subs, Keeps(h, k),
           \A b \in Ids : b # a => /\ k.state[b] = h.state[b] /\ k.result[b] = h.result[b]
                                   /\ k.left[b] = h.left[b] /\ k.array[b] = h.array[b],
           AllRight(k, e, a, G)
    PROVE  Right(k, e, a, G)
<1>1. AllsRight(h, e, a, H) /\ EnvTyped(e)
  BY RightTyped
<1>2. \A b \in Ids : \A i \in 1 .. 2 : Waits(k, e, b, i) <=> Waits(h, e, b, i)
  BY SameWaits
<1>3. ASSUME NEW b \in Ids, b # a, e.made[b].by = "all"
      PROVE  AllRight(k, e, b, {})
  <2>1. AllRight(h, e, b, {}) /\ MadeRight(e.made[b])
    BY <1>1, <1>3 DEF AllsRight, EnvTyped
  <2> QED BY <1>2, <1>3, <2>1, AllKept
<1>4. \A b \in Ids : e.made[b].by # "all" => k.left[b] = 2
  BY <1>1 DEF AllsRight
<1>5. AllsRight(k, e, a, G)
  BY <1>3, <1>4 DEF AllsRight
<1> QED BY <1>5 DEF Right

LEMMA CountRight ==
    ASSUME NEW h, NEW k, NEW e, NEW a \in Ids, NEW H, NEW i \in 1 .. 2, NEW v,
           Right(h, e, a, H), Counts(h, k, a, i, v), e.made[a].by = "all", ~Settled(h, a), i \in H,
           Counted(k, e, a, i)
    PROVE  Right(k, e, a, H \ {i})
<1>1. /\ Core(h, e) /\ AllsRight(h, e, a, H) /\ h \in Shapes /\ HeapTyped(k)
      /\ h.left \in [Ids -> Int] /\ h.array \in [Ids -> [1 .. 2 -> Results]]
  BY RightTyped DEF Counts, Shapes
<1>2. /\ k.state = h.state /\ k.result = h.result /\ k.subs = h.subs /\ k.queue = h.queue
      /\ k.left[a] = h.left[a] - 1 /\ \A b \in Ids : b # a => k.left[b] = h.left[b] /\ k.array[b] = h.array[b]
      /\ \A j \in 1 .. 2 : j # i => k.array[a][j] = h.array[a][j]
  BY <1>1 DEF Counts
<1>3. Core(k, e)
  BY <1>1, <1>2, CountCore
<1>4. \A j \in 1 .. 2 : Waits(k, e, a, j) <=> Waits(h, e, a, j)
  BY <1>2, SameWaits
<1>5. AllRight(h, e, a, H) /\ h.state[a] = "pending"
  BY <1>1 DEF AllsRight, Settled
<1>6. AllRight(k, e, a, H \ {i})
  <2>1. ~Waits(h, e, a, i)
    BY <1>5 DEF AllRight
  <2>2. ToCome(h, e, a, H, i) = 1 /\ ToCome(k, e, a, H \ {i}, i) = 0
    BY <1>4, <2>1 DEF ToCome
  <2>3. \A j \in 1 .. 2 : /\ j # i => ToCome(k, e, a, H \ {i}, j) = ToCome(h, e, a, H, j)
                          /\ ToCome(h, e, a, H, j) \in 0 .. 1
    BY <1>4 DEF ToCome
  <2>4. h.left[a] = ToCome(h, e, a, H, 1) + ToCome(h, e, a, H, 2)
    BY <1>5 DEF AllRight
  <2>5. /\ k.left[a] = ToCome(k, e, a, H \ {i}, 1) + ToCome(k, e, a, H \ {i}, 2)
        /\ k.left[a] \in 0 .. 2
    <3>1. CASE i = 1
      BY <1>2, <2>2, <2>3, <2>4, <3>1
    <3>2. CASE i = 2
      BY <1>2, <2>2, <2>3, <2>4, <3>2
    <3> QED BY <3>1, <3>2
  <2>6. \A j \in 1 .. 2 : j # i /\ Counted(h, e, a, j) => Counted(k, e, a, j)
    BY <1>2 DEF Counted
  <2>7. \A j \in 1 .. 2 : IF j \in H \ {i} THEN ~Waits(k, e, a, j) ELSE Waits(k, e, a, j) \/ Counted(k, e, a, j)
    BY <1>4, <1>5, <2>6 DEF AllRight
  <2> QED BY <1>2, <1>5, <2>5, <2>7 DEF AllRight
<1>7. Keeps(h, k)
  BY <1>2 DEF Keeps
<1> QED BY <1>2, <1>3, <1>6, <1>7, OneRight

\* The last entry has counted.
LEMMA ArrayRight ==
    ASSUME NEW h, NEW e, NEW a \in Ids, NEW H, Right(h, e, a, H), e.made[a].by = "all",
           NEW k, k = IF h.left[a] = 0 THEN Fulfill(h, a, Array(a)) ELSE h
    PROVE  Right(k, e, a, H)
<1>1. CASE h.left[a] # 0
  BY <1>1
<1>2. CASE Settled(h, a)
  <2>1. Fulfill(h, a, Array(a)) = h
    BY <1>2 DEF Fulfill
  <2> QED BY <2>1
<1>3. CASE h.left[a] = 0 /\ ~Settled(h, a)
  <2>1. HeapTyped(h) /\ h \in Shapes /\ EnvTyped(e) /\ Core(h, e) /\ AllRight(h, e, a, H)
    BY RightTyped DEF AllsRight
  <2>2. Ends(h, k, a, "fulfilled", Array(a))
    BY <1>3, <2>1, FulfillEffect, ValueKinds
  <2>3. MayEnd(h, e, a, "fulfilled", Array(a))
    <3>1. e.follows[a] = 0
      BY <2>1 DEF Core, FreshRight
    <3> QED BY <3>1 DEF MayEnd, Untouched, Bound
  <2>4. Core(k, e)
    BY <2>1, <2>2, <2>3, EndsCore
  <2>5. Keeps(h, k) /\ \A q \in Ids : q # a => k.state[q] = h.state[q] /\ k.result[q] = h.result[q]
    BY <2>1, <2>2, EndsKeeps
  <2>6. k.subs = h.subs /\ k.left = h.left /\ k.array = h.array /\ k.state[a] = "fulfilled"
    BY <2>1, <2>2 DEF Ends, Shapes
  <2>7. \A i \in 1 .. 2 : Counted(h, e, a, i)
    <3>1. h.state[a] = "pending"
      BY <1>3 DEF Settled
    <3>2. \A i : ToCome(h, e, a, H, i) \in {0, 1}
      BY DEF ToCome
    <3>3. ToCome(h, e, a, H, 1) = 0 /\ ToCome(h, e, a, H, 2) = 0
      <4>1. ToCome(h, e, a, H, 1) + ToCome(h, e, a, H, 2) = 0
        BY <1>3, <2>1, <3>1 DEF AllRight
      <4> QED BY <3>2, <4>1
    <3>4. \A i \in 1 .. 2 : i \notin H /\ ~Waits(h, e, a, i)
      BY <3>3 DEF ToCome
    <3> QED BY <2>1, <3>1, <3>4 DEF AllRight
  <2>8. \A i \in 1 .. 2 : Counted(k, e, a, i)
    <3>1. MadeRight(e.made[a])
      BY <2>1 DEF EnvTyped
    <3>2. \A i \in 1 .. 2 : e.made[a].of[i] \in Results
      BY <3>1 DEF MadeRight
    <3>3. \A i \in 1 .. 2 : e.made[a].of[i].is = "promise" => e.made[a].of[i].of \in Ids
      BY <3>2, ValueKinds
    <3> QED BY <2>5, <2>6, <2>7, <3>3 DEF Counted, Keeps, Settled
  <2>9. AllRight(k, e, a, H)
    BY <2>1, <2>6, <2>8 DEF AllRight
  <2> QED BY <2>4, <2>5, <2>6, <2>9, OneRight
<1> QED BY <1>1, <1>2, <1>3

\* A promise of all rejects with the reason of one of its entries.
LEMMA RejectsRight ==
    ASSUME NEW h, NEW c, NEW e, NEW a \in Ids, NEW H, NEW G, NEW i \in 1 .. 2, NEW p \in Ids,
           Right(h, e, a, H), CountsDown(h, c, a), e.made[a].by = "all", ~Settled(h, a), i \in H,
           e.made[a].of[i] = Own(p), h.state[p] = "rejected",
           NEW k, k = Reject(c, a, h.result[p])
    PROVE  Right(k, e, a, G)
<1>1. /\ Core(h, e) /\ AllRight(h, e, a, H) /\ h \in Shapes /\ HeapTyped(c) /\ c \in Shapes
      /\ h.left \in [Ids -> Int] /\ h.result[p] \in Results
  BY RightTyped DEF CountsDown, Shapes, AllsRight, HeapTyped
<1>2. /\ c.state = h.state /\ c.result = h.result /\ c.subs = h.subs /\ c.queue = h.queue /\ c.array = h.array
      /\ c.left[a] = h.left[a] - 1 /\ \A b \in Ids : b # a => c.left[b] = h.left[b]
  BY <1>1 DEF CountsDown
<1>3. Core(c, e)
  BY <1>1, <1>2, CountCore
<1>4. Ends(c, k, a, "rejected", h.result[p])
  BY <1>1, <1>2, RejectEffect DEF Settled
<1>5. MayEnd(c, e, a, "rejected", h.result[p])
  <2>1. e.follows[a] = 0
    BY <1>1 DEF Core, FreshRight
  <2> QED BY <2>1 DEF MayEnd, Untouched, Bound
<1>6. Core(k, e)
  BY <1>3, <1>4, <1>5, EndsCore
<1>7. Keeps(c, k) /\ \A q \in Ids : q # a => k.state[q] = c.state[q] /\ k.result[q] = c.result[q]
  BY <1>1, <1>4, EndsKeeps
<1>8. k.subs = h.subs /\ k.left = c.left /\ k.array = h.array /\ k.state[a] = "rejected" /\ k.result[a] = h.result[p]
  BY <1>1, <1>2, <1>4 DEF Ends, Shapes
<1>9. Keeps(h, k)
  BY <1>2, <1>7 DEF Keeps, Settled
<1>10. k.left[a] \in 0 .. 2
  <2>1. h.left[a] \in 0 .. 2
    BY <1>1 DEF AllRight
  <2>2. h.left[a] = ToCome(h, e, a, H, 1) + ToCome(h, e, a, H, 2)
    BY <1>1 DEF AllRight, Settled
  <2>3. ToCome(h, e, a, H, i) = 1 /\ \A j : ToCome(h, e, a, H, j) \in {0, 1}
    BY DEF ToCome
  <2>4. h.left[a] # 0
    <3>1. CASE i = 1
      BY <2>2, <2>3, <3>1
    <3>2. CASE i = 2
      BY <2>2, <2>3, <3>2
    <3> QED BY <3>1, <3>2
  <2> QED BY <1>2, <1>8, <2>1, <2>4
<1>11. AllRight(k, e, a, G)
  <2>1. k.state[p] = "rejected" /\ k.result[p] = h.result[p]
    BY <1>9 DEF Keeps, Settled
  <2> QED BY <1>8, <1>10, <2>1 DEF AllRight
<1>12. \A b \in Ids : b # a => /\ k.state[b] = h.state[b] /\ k.result[b] = h.result[b]
                               /\ k.left[b] = h.left[b] /\ k.array[b] = h.array[b]
  BY <1>2, <1>7, <1>8
<1> QED BY <1>6, <1>8, <1>9, <1>11, <1>12, OneRight

\* Entry i of a, in hand, has settled.
LEMMA SettledAtRight ==
    ASSUME NEW h, NEW e, NEW a \in Ids, NEW H, NEW i \in 1 .. 2, NEW p \in Ids,
           Right(h, e, a, H), e.made[a].by = "all", i \in H,
           e.made[a].of[i] = Own(p), Settled(h, p)
    PROVE  Right(SettledAt(h, a, i, h.state[p], h.result[p]), e, a, H \ {i})
<1>0. PICK s, v : s = h.state[p] /\ v = h.result[p]
  OBVIOUS
<1>1. PICK c : c = Down(h, a)
  OBVIOUS
<1>2. PICK k : k = IF Settled(h, a) THEN h
                   ELSE IF s = "rejected" THEN Reject(c, a, v) ELSE Placed(c, a, i, v)
  OBVIOUS
<1>3. PICK r : r = IF k.left[a] = 0 THEN Fulfill(k, a, Array(a)) ELSE k
  OBVIOUS
<1>4. SettledAt(h, a, i, s, v) = r
  BY <1>1, <1>2, <1>3 DEF SettledAt, Down, Placed
<1>5. HeapTyped(h) /\ s \in {"fulfilled", "rejected"} /\ v \in Results
  <2>1. HeapTyped(h) /\ h \in Shapes
    BY RightTyped
  <2> QED BY <1>0, <2>1 DEF Shapes, States, Settled
<1>6. CountsDown(h, c, a) /\ Counts(h, Placed(c, a, i, v), a, i, v)
  BY <1>1, <1>5, CountEffect
<1>7. Right(k, e, a, H \ {i})
  <2>1. CASE Settled(h, a)
    BY <1>2, <2>1, SettledRight
  <2>2. CASE ~Settled(h, a) /\ s = "rejected"
    <3>1. k = Reject(c, a, h.result[p]) /\ h.state[p] = "rejected"
      BY <1>0, <1>2, <2>2
    <3> QED BY <1>6, <2>2, <3>1, RejectsRight
  <2>3. CASE ~Settled(h, a) /\ s = "fulfilled"
    <3>1. Counts(h, k, a, i, v)
      BY <1>2, <1>6, <2>3
    <3>2. Counted(k, e, a, i)
      <4>1. h.array \in [Ids -> [1 .. 2 -> Results]]
        BY <1>5 DEF HeapTyped, Shapes
      <4>2. k.array[a][i] = v /\ k.state = h.state /\ k.result = h.result
        BY <3>1, <4>1 DEF Counts
      <4> QED BY <1>0, <2>3, <4>2, OwnFields DEF Counted
    <3> QED BY <2>3, <3>1, <3>2, CountRight
  <2> QED BY <1>5, <2>1, <2>2, <2>3
<1>8. Right(r, e, a, H \ {i})
  BY <1>3, <1>7, ArrayRight
<1> QED BY <1>0, <1>4, <1>8

\* Entry i of a, in hand, subscribes.
LEMMA EntryRight ==
    ASSUME NEW h, NEW k, NEW e, NEW a \in Ids, NEW H, NEW i \in 1 .. 2, NEW q \in Ids, NEW sub,
           Right(h, e, a, H), e.made[a].by = "all", i \in H, e.made[a].of[i] = Own(q),
           ~Settled(h, a), ~Settled(h, q), Joins(h, k, q, sub),
           sub.do = "entry", sub.child = a, sub.index = i
    PROVE  Right(k, e, a, H \ {i})
<1>1. /\ Core(h, e) /\ AllsRight(h, e, a, H) /\ h \in Shapes /\ EnvTyped(e)
      /\ AllRight(h, e, a, H) /\ h.state[a] = "pending" /\ CurrentRight(h, e)
  BY RightTyped DEF AllsRight, Settled, Core
<1>2. ~Waits(h, e, a, i)
  BY <1>1 DEF AllRight
<1>3. MayJoin(h, e, q, sub)
  BY <1>2 DEF MayJoin, Waits
<1>4. Core(k, e)
  BY <1>1, <1>3, JoinsCore
<1>5. /\ k.state = h.state /\ k.result = h.result /\ k.left = h.left /\ k.array = h.array
  BY DEF Joins
<1>6. Keeps(h, k)
  BY <1>5 DEF Keeps
<1>7. /\ \A b, j : Waits(h, e, b, j) => Waits(k, e, b, j)
      /\ \A b, j : Waits(k, e, b, j) => Waits(h, e, b, j) \/ (sub.do = "entry" /\ sub.child = b /\ sub.index = j)
      /\ CurrentRight(h, e) /\ ~Settled(h, q) /\ sub.do = "entry" => Waits(k, e, sub.child, sub.index)
  BY <1>1, JoinsWaits
<1>8. /\ Waits(k, e, a, i)
      /\ \A b, j : b # a \/ j # i => (Waits(k, e, b, j) <=> Waits(h, e, b, j))
  BY <1>1, <1>7
<1>9. AllRight(k, e, a, H \ {i})
  <2>1. \A j \in 1 .. 2 : ToCome(k, e, a, H \ {i}, j) = ToCome(h, e, a, H, j)
    BY <1>8 DEF ToCome
  <2>2. \A j \in 1 .. 2 : Counted(h, e, a, j) => Counted(k, e, a, j)
    BY <1>5 DEF Counted
  <2>3. \A j \in 1 .. 2 : IF j \in H \ {i} THEN ~Waits(k, e, a, j) ELSE Waits(k, e, a, j) \/ Counted(k, e, a, j)
    BY <1>1, <1>8, <2>2 DEF AllRight
  <2>4. h.left[a] \in 0 .. 2 /\ h.left[a] = ToCome(h, e, a, H, 1) + ToCome(h, e, a, H, 2)
    BY <1>1 DEF AllRight
  <2> QED BY <1>1, <1>5, <2>1, <2>3, <2>4 DEF AllRight
<1>10. ASSUME NEW b \in Ids, b # a, e.made[b].by = "all"
       PROVE  AllRight(k, e, b, {})
  <2>1. AllRight(h, e, b, {}) /\ MadeRight(e.made[b])
    BY <1>1, <1>10 DEF AllsRight, EnvTyped
  <2> QED BY <1>5, <1>6, <1>8, <1>10, <2>1, AllKept
<1>11. \A b \in Ids : e.made[b].by # "all" => k.left[b] = 2
  BY <1>1, <1>5 DEF AllsRight
<1>12. AllsRight(k, e, a, H \ {i})
  BY <1>9, <1>10, <1>11 DEF AllsRight
<1> QED BY <1>4, <1>12 DEF Right

LEMMA EachEntryRight ==
    ASSUME NEW h, NEW e, NEW a \in Ids, NEW H, NEW i \in 1 .. 2, NEW x \in Results,
           Right(h, e, a, H), e.made[a].by = "all", i \in H, e.made[a].of[i] = x
    PROVE  Right(EachEntry(h, a, i, x), e, a, H \ {i})
<1>0. HeapTyped(h) /\ h \in Shapes
  BY RightTyped
<1>1. CASE Settled(h, a)
  BY <1>1, SettledRight DEF EachEntry
<1>2. CASE ~Settled(h, a) /\ x.is # "promise"
  <2>1. PICK k : k = Count(h, a, i, x)
    OBVIOUS
  <2>2. Counts(h, k, a, i, x)
    BY <1>0, <2>1, CountEffect
  <2>3. Counted(k, e, a, i)
    <3>1. h.array \in [Ids -> [1 .. 2 -> Results]]
      BY <1>0 DEF Shapes
    <3>2. k.array[a][i] = x
      BY <2>2, <3>1 DEF Counts
    <3> QED BY <1>2, <3>2 DEF Counted
  <2>4. Right(k, e, a, H \ {i})
    BY <1>2, <2>2, <2>3, CountRight
  <2> QED BY <1>2, <2>1, <2>4 DEF EachEntry, Count
<1>3. CASE ~Settled(h, a) /\ x.is = "promise"
  <2>1. PICK q \in Ids : q = x.of /\ x = Own(q)
    BY <1>3, OwnIs
  <2>2. CASE Settled(h, q)
    <3>1. Right(SettledAt(h, a, i, h.state[q], h.result[q]), e, a, H \ {i})
      BY <2>1, <2>2, SettledAtRight
    <3> QED BY <1>3, <2>1, <2>2, <3>1 DEF EachEntry
  <2>3. CASE ~Settled(h, q)
    <3>1. PICK sub : sub = Subscriber("entry", a, i)
      OBVIOUS
    <3>2. sub \in Subs /\ sub.do = "entry" /\ sub.child = a /\ sub.index = i
      BY <3>1 DEF Subscriber, Subs
    <3>3. PICK s : /\ Joins(h, s, q, sub)
                   /\ \/ Subscribe(h, q, sub) = s
                      \/ Settled(s, q) /\ Queues(s, Subscribe(h, q, sub), Publish(q))
      BY <1>0, <3>2, SubscribeEffect
    <3>4. Subscribe(h, q, sub) = s
      BY <2>3, <3>3 DEF Joins, Settled
    <3>5. Right(s, e, a, H \ {i})
      BY <1>3, <2>1, <2>3, <3>2, <3>3, EntryRight
    <3> QED BY <1>3, <2>1, <2>3, <3>1, <3>4, <3>5 DEF EachEntry
  <2> QED BY <2>2, <2>3
<1> QED BY <1>1, <1>2, <1>3

LEMMA EnumerateRight ==
    ASSUME NEW h, NEW e, NEW a \in Ids, NEW x \in Results, NEW y \in Results,
           Right(h, e, a, {1, 2}), e.made[a].by = "all", e.made[a].of[1] = x, e.made[a].of[2] = y
    PROVE  Right(Enumerate(h, a, x, y), e, a, {})
<1>1. PICK j, k : j = EachEntry(h, a, 1, x) /\ k = EachEntry(j, a, 2, y)
  OBVIOUS
<1>2. PICK H, G : H = {1, 2} /\ G = H \ {1}
  OBVIOUS
<1>3. Right(j, e, a, G)
  <2>1. 1 \in H /\ 1 \in 1 .. 2 /\ Right(h, e, a, H)
    BY <1>2
  <2> QED BY <1>1, <1>2, <2>1, EachEntryRight
<1>4. Right(k, e, a, {})
  <2>1. 2 \in G /\ 2 \in 1 .. 2 /\ G \ {2} = {}
    BY <1>2
  <2>2. Right(k, e, a, G \ {2})
    BY <1>1, <1>3, <2>1, EachEntryRight
  <2> QED BY <2>1, <2>2
<1>5. PICK r : r = IF k.left[a] = 0 THEN Fulfill(k, a, Array(a)) ELSE k
  OBVIOUS
<1>6. Right(r, e, a, {})
  BY <1>4, <1>5, ArrayRight
<1> QED BY <1>1, <1>5, <1>6 DEF Enumerate

LEMMA RaceIsRight ==
    ASSUME NEW h, NEW e, NEW a, NEW H, NEW r \in Ids, NEW p \in Ids, NEW q \in Ids,
           Right(h, e, a, H), e.made[r].by = "race", e.made[r].of[1] = p, e.made[r].of[2] = q
    PROVE  Right(Race(h, r, p, q), e, a, H)
<1>1. PICK sub, s : sub = Subscriber("race", r, 0) /\ s = Subscribe(h, p, sub)
  OBVIOUS
<1>2. sub \in Subs /\ sub.do = "race" /\ sub.child = r
  BY <1>1 DEF Subscriber, Subs
<1>3. MayJoin(h, e, p, sub)
  BY <1>2 DEF MayJoin
<1>4. Right(s, e, a, H)
  BY <1>1, <1>2, <1>3, SubscribeRight
<1>5. MayJoin(s, e, q, sub)
  BY <1>2 DEF MayJoin
<1>6. Right(Subscribe(s, q, sub), e, a, H)
  BY <1>2, <1>4, <1>5, SubscribeRight
<1> QED BY <1>1, <1>4, <1>6 DEF Race

\* The handler of c came to end, or the outcome was handed through.
LEMMA InvokeCallbackRight ==
    ASSUME NEW h, NEW a, NEW H, NEW c \in Ids, NEW s, NEW v \in Results, NEW end \in Results \cup {Unreadable},
           NEW e, e.made = made, Right(h, e, a, H), made[c].by = "then", ~Untouched(e, c),
           s = "fulfilled" => Final(v),
           Bound(h, e, c) => s \in made[c].on /\ end = Own(e.follows[c]) /\ end # Own(c)
    PROVE  Right(InvokeCallback(h, c, s, v, end), e, a, H)
<1>1. \A t, w : ~Bound(h, e, c) => MayEnd(h, e, c, t, w)
  BY DEF MayEnd
<1>2. CASE s \notin made[c].on
  <2>1. ~Bound(h, e, c)
    BY <1>2
  <2>2. CASE s = "fulfilled"
    <3>1. Right(Fulfill(h, c, v), e, a, H)
      BY <1>1, <2>1, <2>2, FulfillRight
    <3> QED BY <1>2, <2>2, <3>1 DEF InvokeCallback
  <2>3. CASE s # "fulfilled"
    <3>1. Right(Reject(h, c, v), e, a, H)
      BY <1>1, <2>1, <2>3, RejectRight
    <3> QED BY <1>2, <2>3, <3>1 DEF InvokeCallback
  <2> QED BY <2>2, <2>3
<1>3. CASE s \in made[c].on /\ end = Thrown
  <2>1. ~Bound(h, e, c)
    BY <1>3, OwnFields DEF Thrown
  <2>2. Right(Reject(h, c, Thrown), e, a, H)
    BY <1>1, <2>1, RejectRight, ValueKinds
  <2> QED BY <1>3, <2>2 DEF InvokeCallback
<1>4. CASE s \in made[c].on /\ end # Thrown /\ end = Own(c)
  <2>1. ~Bound(h, e, c)
    BY <1>4
  <2>2. Right(Reject(h, c, TypeErr), e, a, H)
    BY <1>1, <2>1, RejectRight, ValueKinds
  <2> QED BY <1>4, <2>2 DEF InvokeCallback
<1>5. CASE s \in made[c].on /\ end # Thrown /\ end # Own(c)
  <2>1. Right(Resolve(h, c, end), e, a, H)
    BY ResolveRight DEF Asks
  <2> QED BY <1>5, <2>1 DEF InvokeCallback
<1> QED BY <1>2, <1>3, <1>4, <1>5

\* p gets the outcome of q.
LEMMA SettleRight ==
    ASSUME NEW h, NEW e, NEW a, NEW H, NEW p \in Ids, NEW q \in Ids,
           Right(h, e, a, H), Settled(h, q), e.made[p].by # "all",
           MayEnd(h, e, p, h.state[q], h.result[q]),
           Loose(h, q) => Asks(h, e, p) /\ ~Bound(h, e, p)
    PROVE  Right(Settle(h, p, h.state[q], h.result[q]), e, a, H)
<1>0. PICK s, v : s = h.state[q] /\ v = h.result[q]
  OBVIOUS
<1>1. /\ s \in {"fulfilled", "rejected"} /\ v \in Results /\ (s = "fulfilled" => Final(v))
      /\ MayEnd(h, e, p, s, v)
  <2>1. HeapTyped(h) /\ h \in Shapes
    BY RightTyped
  <2> QED BY <1>0, <2>1 DEF Shapes, HeapTyped, States, Settled
<1>2. CASE s = "fulfilled" /\ v # Thenable
  <2>1. Right(Fulfill(h, p, v), e, a, H)
    BY <1>1, <1>2, FulfillRight
  <2>2. v.is # "promise" /\ v # Own(p) /\ v # Unreadable
    BY <1>1, <1>2, OwnIs, OwnFields DEF Final
  <2> QED BY <1>0, <1>2, <2>1, <2>2 DEF Settle, Resolve
<1>4. CASE s = "fulfilled" /\ v = Thenable
  <2>1. Asks(h, e, p) /\ ~Bound(h, e, p) /\ ~Untouched(e, p)
    BY <1>0, <1>1, <1>4 DEF Loose, MayEnd
  <2>2. Right(Resolve(h, p, v), e, a, H)
    BY <1>1, <2>1, ResolveRight
  <2> QED BY <1>0, <1>4, <2>2 DEF Settle
<1>3. CASE s = "rejected"
  <2>1. Right(Reject(h, p, v), e, a, H)
    BY <1>1, <1>3, RejectRight
  <2> QED BY <1>0, <1>3, <2>1 DEF Settle
<1> QED BY <1>1, <1>2, <1>3, <1>4

-----------------------------------------------------------------------------
(* Steps that change the rest of the state.                                *)

\* Nothing of the promises changes, and the same entries wait.
LEMMA RestRight ==
    ASSUME NEW h, NEW k, NEW e, NEW f, NEW a, NEW H, Right(h, e, a, H), Core(k, f), f.made = e.made,
           k.state = h.state, k.result = h.result, k.left = h.left, k.array = h.array,
           \A b \in Ids : \A i \in 1 .. 2 : Waits(k, f, b, i) <=> Waits(h, e, b, i)
    PROVE  Right(k, f, a, H)
<1>1. Keeps(h, k)
  BY DEF Keeps
<1>2. AllsRight(h, e, a, H) /\ EnvTyped(e)
  BY RightTyped
<1>3. AllsRight(k, f, a, H)
  BY <1>1, <1>2, AllsKept
<1> QED BY <1>3 DEF Right

\* The subscribers are the same, and publish is where it was.
LEMMA SameRight ==
    ASSUME NEW h, NEW k, NEW e, NEW f, NEW a, NEW H, Right(h, e, a, H), Core(k, f), f.made = e.made,
           k.state = h.state, k.result = h.result, k.left = h.left, k.array = h.array,
           k.subs = h.subs, f.current = e.current
    PROVE  Right(k, f, a, H)
<1>1. \A b \in Ids : \A i \in 1 .. 2 : Waits(k, f, b, i) <=> Waits(h, e, b, i)
  BY SameWaits
<1> QED BY <1>1, RestRight

\* A promise is made; the entries of one of all are in hand.
LEMMA MakesRight ==
    ASSUME NEW h, NEW k, NEW e, NEW f, NEW n, NEW m, Right(h, e, 0, {}), Makes(e, f, n, m), Core(k, f),
           k.state = h.state, k.result = h.result, k.left = h.left, k.array = h.array,
           \A b \in Ids : \A i \in 1 .. 2 : Waits(k, f, b, i) <=> Waits(h, e, b, i)
    PROVE  IF m.by = "all" THEN Right(k, f, n, {1, 2}) ELSE Right(k, f, 0, {})
<1>1. Core(h, e) /\ AllsRight(h, e, 0, {}) /\ EnvTyped(e) /\ n \in Ids /\ e.made[n].by = "nobody"
  BY RightTyped DEF Makes
<1>2. f.made[n] = m /\ \A b \in Ids : b # n => f.made[b] = e.made[b]
  BY <1>1 DEF Makes, EnvTyped
<1>3. Keeps(h, k)
  BY DEF Keeps
<1>4. ASSUME NEW b \in Ids, b # n, e.made[b].by = "all"
      PROVE  AllRight(k, f, b, {})
  <2>1. AllRight(h, e, b, {}) /\ MadeRight(e.made[b])
    BY <1>1, <1>4 DEF AllsRight, EnvTyped
  <2> QED BY <1>2, <1>3, <1>4, <2>1, AllKept
<1>5. \A b \in Ids : e.made[b].by # "all" => k.left[b] = 2
  BY <1>1 DEF AllsRight
<1>6. k.left[n] = 2 /\ AllRight(k, f, n, {1, 2})
  <2>1. k.left[n] = 2
    BY <1>1, <1>5
  <2>2. /\ h.state[n] = "pending" /\ Alone(h, e, n) /\ e.follows[n] = 0 /\ e.invoked[n] = <<>>
        /\ \A p \in Ids : \A i \in 1 .. Len(h.subs[p]) : h.subs[p][i].child # n
        /\ \A i \in 1 .. Len(h.queue) : h.queue[i].do \in {"invoke", "foreign"} => h.queue[i].promise # n
    BY <1>1, NobodyKnows, Zenon
  <2>3. \A i \in 1 .. 2 : ~Waits(k, f, n, i)
    <3>1. \A i \in 1 .. 2 : ~Waits(h, e, n, i)
      BY <2>2 DEF Waits
    <3> QED BY <1>1, <3>1
  <2>4. ToCome(k, f, n, {1, 2}, 1) = 1 /\ ToCome(k, f, n, {1, 2}, 2) = 1
    BY DEF ToCome
  <2> QED BY <2>1, <2>2, <2>3, <2>4 DEF AllRight
<1>7. CASE m.by = "all"
  <2>1. AllsRight(k, f, n, {1, 2})
    BY <1>2, <1>4, <1>5, <1>6 DEF AllsRight
  <2> QED BY <1>7, <2>1 DEF Right
<1>8. CASE m.by # "all"
  <2>1. AllsRight(k, f, 0, {})
    BY <1>2, <1>4, <1>5, <1>6, <1>8 DEF AllsRight
  <2> QED BY <1>8, <2>1 DEF Right
<1> QED BY <1>7, <1>8

\* The entries that wait when publish goes on.
LEMMA PassesWaits ==
    ASSUME NEW h, NEW e, NEW f, NEW p, NEW i, Core(h, e), Passes(h, e, f, p, i)
    PROVE  \A b, j : Waits(h, f, b, j) <=>
              /\ Waits(h, e, b, j)
              /\ ~(h.subs[p][i].do = "entry" /\ h.subs[p][i].child = b /\ h.subs[p][i].index = j)
<1>1. /\ h \in Shapes /\ SubsRight(h, e) /\ SubsOrdered(h, e)
      /\ p \in Ids /\ i \in 1 .. Len(h.subs[p])
  BY DEF Core, HeapTyped, Passes
<1>2. /\ \A q \in Ids : \A n \in 1 .. Len(h.subs[q]) :
            Live(f, q, n) <=> Live(e, q, n) /\ ~(q = p /\ n = i)
      /\ \A q, n : Live(f, q, n) => (q = p => i + 1 <= n)
      /\ Live(e, p, i)
  BY PassesLive
<1> SUFFICES ASSUME NEW b, NEW j
             PROVE  Waits(h, f, b, j) <=>
                       /\ Waits(h, e, b, j)
                       /\ ~(h.subs[p][i].do = "entry" /\ h.subs[p][i].child = b /\ h.subs[p][i].index = j)
  OBVIOUS
<1>3. ASSUME Waits(h, f, b, j)
      PROVE  /\ Waits(h, e, b, j)
             /\ ~(h.subs[p][i].do = "entry" /\ h.subs[p][i].child = b /\ h.subs[p][i].index = j)
  <2>0. PICK q \in Ids : \E n \in 1 .. Len(h.subs[q]) :
           /\ Live(f, q, n) /\ h.subs[q][n].do = "entry" /\ h.subs[q][n].child = b /\ h.subs[q][n].index = j
    BY <1>3 DEF Waits
  <2>1. PICK n \in 1 .. Len(h.subs[q]) :
           /\ Live(f, q, n) /\ h.subs[q][n].do = "entry" /\ h.subs[q][n].child = b /\ h.subs[q][n].index = j
    BY <2>0
  <2>2. Live(e, q, n) /\ ~(q = p /\ n = i)
    BY <1>2, <2>1
  <2>3. ASSUME h.subs[p][i].do = "entry", h.subs[p][i].child = b, h.subs[p][i].index = j
        PROVE  FALSE
    <3>1. SubRight(e, q, n, h.subs[q][n]) /\ SubRight(e, p, i, h.subs[p][i])
      BY <1>1, <2>1 DEF SubsRight
    <3>2. e.made[b].of[j] = Own(q) /\ e.made[b].of[j] = Own(p)
      BY <2>1, <2>3, <3>1 DEF SubRight
    <3>3. q = p
      BY <3>2, OwnIs
    <3>4. Len(h.subs[p]) \in Nat /\ n \in 1 .. Len(h.subs[p]) /\ i < n
      <4>1. Len(h.subs[p]) \in Nat
        BY <1>1, SubsTyped
      <4>2. i + 1 <= n
        BY <1>2, <2>1, <3>3
      <4> QED BY <1>1, <2>1, <3>3, <4>1, <4>2
    <3> QED BY <1>1, <1>2, <2>1, <2>3, <3>3, <3>4 DEF SubsOrdered
  <2> QED BY <2>1, <2>2, <2>3 DEF Waits
<1>4. ASSUME Waits(h, e, b, j),
             ~(h.subs[p][i].do = "entry" /\ h.subs[p][i].child = b /\ h.subs[p][i].index = j)
      PROVE  Waits(h, f, b, j)
  BY <1>2, <1>4 DEF Waits
<1> QED BY <1>3, <1>4

\* The subscriber at place i of p.
At(h, p, i, do, c, j) == h.subs[p][i].do = do /\ h.subs[p][i].child = c /\ h.subs[p][i].index = j

\* An entry whose promise publish has come to is in hand.
LEMMA PassesEntry ==
    ASSUME NEW h, NEW e, NEW f, NEW p, NEW i, NEW a \in Ids, NEW j \in 1 .. 2,
           Right(h, e, 0, {}), Passes(h, e, f, p, i), Same(e, f, {"current"}),
           At(h, p, i, "entry", a, j)
    PROVE  /\ Right(h, f, a, {j}) /\ f.made = e.made
           /\ e.made[a].by = "all" /\ e.made[a].of[j] = Own(p)
<1>0. h.subs[p][i].do = "entry" /\ h.subs[p][i].child = a /\ h.subs[p][i].index = j
  BY DEF At
<1>1. Core(h, e) /\ AllsRight(h, e, 0, {}) /\ EnvTyped(e)
  BY RightTyped
<1>2. Core(h, f)
  BY <1>0, <1>1, PassesCore
<1>3. f.made = e.made
  BY DEF Same
<1>4. p \in Ids /\ i \in 1 .. Len(h.subs[p]) /\ Live(e, p, i)
  <2>1. p \in Ids /\ i \in 1 .. Len(h.subs[p]) /\ e.current.index = i
    BY DEF Passes
  <2>2. Len(h.subs[p]) \in Nat
    BY <1>1, <2>1, SubsTyped DEF Core, HeapTyped
  <2> QED BY <2>1, <2>2 DEF Live
<1>5. e.made[a].by = "all" /\ e.made[a].of[j] = Own(p)
  <2>1. SubRight(e, p, i, h.subs[p][i])
    BY <1>1, <1>4 DEF Core, SubsRight
  <2> QED BY <1>0, <2>1 DEF SubRight
<1>6. \A b, l : Waits(h, f, b, l) <=> Waits(h, e, b, l) /\ ~(b = a /\ l = j)
  <2>1. \A b, l : Waits(h, f, b, l) <=>
              /\ Waits(h, e, b, l)
              /\ ~(h.subs[p][i].do = "entry" /\ h.subs[p][i].child = b /\ h.subs[p][i].index = l)
    BY <1>1, PassesWaits
  <2> QED BY <1>0, <2>1
<1>7. Waits(h, e, a, j)
  BY <1>0, <1>4 DEF Waits
<1>8. AllRight(h, f, a, {j})
  <2>1. AllRight(h, e, a, {})
    BY <1>1, <1>5 DEF AllsRight
  <2>2. \A l \in 1 .. 2 : ToCome(h, f, a, {j}, l) = ToCome(h, e, a, {}, l)
    BY <1>6, <1>7 DEF ToCome
  <2>3. \A l \in 1 .. 2 : Counted(h, e, a, l) <=> Counted(h, f, a, l)
    BY <1>3 DEF Counted
  <2>4. h.state[a] = "pending" =>
           /\ h.left[a] = ToCome(h, f, a, {j}, 1) + ToCome(h, f, a, {j}, 2)
           /\ \A l \in 1 .. 2 : IF l \in {j} THEN ~Waits(h, f, a, l) ELSE Waits(h, f, a, l) \/ Counted(h, f, a, l)
    BY <1>6, <2>1, <2>2, <2>3 DEF AllRight
  <2> QED BY <1>3, <2>1, <2>3, <2>4 DEF AllRight
<1>9. ASSUME NEW b \in Ids, b # a, e.made[b].by = "all"
      PROVE  AllRight(h, f, b, {})
  <2>1. AllRight(h, e, b, {}) /\ MadeRight(e.made[b]) /\ Keeps(h, h)
    BY <1>1, <1>9 DEF AllsRight, EnvTyped, Keeps
  <2> QED BY <1>3, <1>6, <1>9, <2>1, AllKept
<1>10. \A b \in Ids : e.made[b].by # "all" => h.left[b] = 2
  BY <1>1 DEF AllsRight
<1>11. AllsRight(h, f, a, {j})
  BY <1>3, <1>8, <1>9, <1>10 DEF AllsRight
<1> QED BY <1>2, <1>3, <1>5, <1>11 DEF Right

-----------------------------------------------------------------------------
(* The steps.                                                              *)

OInv == Right(heap, Env, 0, {})

\* The next state, by its parts.
LEMMA NextOInv ==
    ASSUME NEW k, k = heap', NEW f, f = Env', Right(k, f, 0, {})
    PROVE  OInv'
BY DEF OInv

\* With nothing in hand it does not matter whose entries they are.
LEMMA NoneInHand ==
    ASSUME NEW h, NEW e, NEW a, Right(h, e, a, {})
    PROVE  Right(h, e, 0, {})
<1>1. AllsRight(h, e, 0, {})
  BY RightTyped DEF AllsRight
<1> QED BY <1>1 DEF Right

\* The next promise is one that nobody made.
LEMMA NextIdIs ==
    ASSUME OInv, NextId \in Ids
    PROVE  made[NextId].by = "nobody" /\ \A p \in 1 .. NextId - 1 : made[p].by # "nobody"
<1>1. PICK e : e = Env
  OBVIOUS
<1>2. EnvTyped(e) /\ e.made = made
  BY <1>1, RightTyped DEF OInv, Env
<1>3. PICK n \in 0 .. MaxPromises : \A p \in Ids : made[p].by # "nobody" <=> p <= n
  BY <1>2 DEF EnvTyped
<1>4. MaxPromises \in Nat
  BY BoundAssumption
<1>5. \A p \in Ids : p \in Created <=> p <= n
  BY <1>3 DEF Created
<1>6. n + 1 \in 1 .. MaxPromises + 1 /\ n + 1 \notin Created /\ \A p \in 1 .. (n + 1) - 1 : p \in Created
  BY <1>3, <1>4, <1>5 DEF Ids, Created
<1>7. NextId \notin Created /\ \A p \in 1 .. NextId - 1 : p \in Created
  BY <1>6, Zenon DEF NextId
<1> QED BY <1>7 DEF Created

\* A promise is made.
LEMMA MakeMakes ==
    ASSUME NEW by, NEW of, NEW on, NEW e, NEW f, NEW m, NEW n, OInv, Make(by, of, on), UNCHANGED follows,
           e = Env, f = Env', m = [by |-> by, of |-> of, on |-> on], n = NextId, MadeRight(m)
    PROVE  Makes(e, f, n, m)
<1>1. NextId \in Ids /\ made' = [made EXCEPT ![NextId] = m]
      /\ UNCHANGED <<flushing, current, settles, foreign, invoked>>
  BY DEF Make
<1>2. /\ e.made = made /\ f.made = made' /\ f.current = e.current /\ f.settles = e.settles
      /\ f.foreign = e.foreign /\ f.invoked = e.invoked /\ f.follows = e.follows
  BY <1>1 DEF Env
<1>3. Same(e, f, {"made"})
  BY <1>2 DEF Same
<1>4. made[n].by = "nobody" /\ \A p \in 1 .. n - 1 : made[p].by # "nobody"
  BY <1>1, NextIdIs
<1> QED BY <1>1, <1>2, <1>3, <1>4 DEF Makes

LEMMA NewPromiseStep ==
    ASSUME OInv, NewPromise
    PROVE  OInv'
<1>1. PICK h, k, e, f, n, m : /\ h = heap /\ k = heap' /\ e = Env /\ f = Env' /\ n = NextId
                              /\ m = [by |-> "new", of |-> <<>>, on |-> {}]
  OBVIOUS
<1>2. Right(h, e, 0, {}) /\ Core(h, e)
  BY <1>1, RightTyped DEF OInv
<1>3. m.by = "new" /\ MadeRight(m)
  BY <1>1 DEF MadeRight
<1>4. Makes(e, f, n, m) /\ k = h
  <2>1. Make("new", <<>>, {}) /\ UNCHANGED follows /\ UNCHANGED heap
    BY DEF NewPromise
  <2> QED BY <1>1, <1>3, <2>1, MakeMakes
<1>5. Core(h, f)
  BY <1>2, <1>3, <1>4, MakesOther
<1>6. \A b \in Ids : \A i \in 1 .. 2 : Waits(h, f, b, i) <=> Waits(h, e, b, i)
  BY <1>4, SameWaits DEF Makes, Same
<1>7. Right(h, f, 0, {})
  BY <1>2, <1>3, <1>4, <1>5, <1>6, MakesRight
<1> QED BY <1>1, <1>4, <1>7, NextOInv

LEMMA RaceStep ==
    ASSUME OInv, NEW p \in Created, NEW q \in Created, PromiseRace(p, q)
    PROVE  OInv'
<1>1. PICK h, k, e, f, n, m : /\ h = heap /\ k = heap' /\ e = Env /\ f = Env' /\ n = NextId
                              /\ m = [by |-> "race", of |-> <<p, q>>, on |-> {}]
  OBVIOUS
<1>2. Right(h, e, 0, {}) /\ Core(h, e) /\ p \in Ids /\ q \in Ids
  BY <1>1, RightTyped DEF OInv, Created
<1>3. m.by = "race" /\ m.of[1] = p /\ m.of[2] = q /\ MadeRight(m)
  BY <1>1, <1>2 DEF MadeRight
<1>4. Makes(e, f, n, m) /\ k = Race(h, n, p, q) /\ n \in Ids
  <2>1. Make("race", <<p, q>>, {}) /\ UNCHANGED follows /\ heap' = Race(heap, NextId, p, q)
    BY DEF PromiseRace
  <2>2. Makes(e, f, n, m)
    BY <1>1, <1>3, <2>1, MakeMakes
  <2> QED BY <1>1, <2>1, <2>2 DEF Makes
<1>5. Core(h, f)
  BY <1>2, <1>3, <1>4, MakesOther
<1>6. \A b \in Ids : \A i \in 1 .. 2 : Waits(h, f, b, i) <=> Waits(h, e, b, i)
  BY <1>4, SameWaits DEF Makes, Same
<1>7. Right(h, f, 0, {})
  BY <1>2, <1>3, <1>4, <1>5, <1>6, MakesRight
<1>8. f.made[n] = m
  BY <1>2, <1>3, <1>4, MakesMore
<1>9. Right(k, f, 0, {})
  BY <1>2, <1>3, <1>4, <1>7, <1>8, RaceIsRight
<1> QED BY <1>1, <1>9, NextOInv

LEMMA AllStep ==
    ASSUME OInv, NEW x \in Given \ {Thenable, Unreadable}, NEW y \in Given \ {Thenable, Unreadable}, PromiseAll(x, y)
    PROVE  OInv'
<1>1. PICK h, k, e, f, n, m : /\ h = heap /\ k = heap' /\ e = Env /\ f = Env' /\ n = NextId
                              /\ m = [by |-> "all", of |-> <<x, y>>, on |-> {}]
  OBVIOUS
<1>2. Right(h, e, 0, {}) /\ Core(h, e) /\ x \in Results /\ y \in Results
  BY <1>1, RightTyped, ValueKinds DEF OInv
<1>3. m.by = "all" /\ m.of[1] = x /\ m.of[2] = y /\ MadeRight(m)
  BY <1>1, <1>2 DEF MadeRight
<1>4. Makes(e, f, n, m) /\ k = Enumerate(h, n, x, y) /\ n \in Ids
  <2>1. Make("all", <<x, y>>, {}) /\ UNCHANGED follows /\ heap' = Enumerate(heap, NextId, x, y)
    BY DEF PromiseAll
  <2>2. Makes(e, f, n, m)
    BY <1>1, <1>3, <2>1, MakeMakes
  <2> QED BY <1>1, <2>1, <2>2 DEF Makes
<1>5. Core(h, f)
  BY <1>2, <1>3, <1>4, MakesOther
<1>6. \A b \in Ids : \A i \in 1 .. 2 : Waits(h, f, b, i) <=> Waits(h, e, b, i)
  BY <1>4, SameWaits DEF Makes, Same
<1>7. Right(h, f, n, {1, 2})
  BY <1>2, <1>3, <1>4, <1>5, <1>6, MakesRight
<1>8. f.made[n] = m
  BY <1>2, <1>3, <1>4, MakesMore
<1>9. Right(k, f, n, {})
  BY <1>2, <1>3, <1>4, <1>7, <1>8, EnumerateRight
<1> QED BY <1>1, <1>9, NoneInHand, NextOInv

LEMMA ThenStep ==
    ASSUME OInv, NEW p \in Created, NEW on \in SUBSET {"fulfilled", "rejected"}, Then(p, on)
    PROVE  OInv'
<1>1. PICK h, k, e, f, n, m : /\ h = heap /\ k = heap' /\ e = Env /\ f = Env' /\ n = NextId
                              /\ m = [by |-> "then", of |-> <<p>>, on |-> on]
  OBVIOUS
<1>2. Right(h, e, 0, {}) /\ Core(h, e) /\ HeapTyped(h) /\ h \in Shapes /\ p \in Ids
  BY <1>1, RightTyped DEF OInv, Created
<1>3. m.by = "then" /\ m.of[1] = p /\ MadeRight(m)
  BY <1>1, <1>2 DEF MadeRight
<1>4. Makes(e, f, n, m) /\ n \in Ids
  <2>1. Make("then", <<p>>, on) /\ UNCHANGED follows
    BY DEF Then
  <2>2. Makes(e, f, n, m)
    BY <1>1, <1>3, <2>1, MakeMakes
  <2> QED BY <2>2 DEF Makes
<1>5. f.current = e.current
  BY <1>4 DEF Makes, Same
<1>6. CASE Settled(h, p)
  <2>1. PICK job : job = Invoke(n, h.state[p], h.result[p])
    OBVIOUS
  <2>2. /\ job \in Jobs /\ job.do = "invoke" /\ job.promise = n
        /\ job.settled = h.state[p] /\ job.detail = h.result[p]
    BY <1>2, <1>4, <1>6, <2>1, Zenon DEF Invoke, Jobs, Shapes, States, Settled
  <2>3. k = Asap(h, job)
    BY <1>1, <1>6, <2>1 DEF Then
  <2>4. Queues(h, k, job)
    BY <1>2, <2>2, <2>3, AsapEffect
  <2>5. Core(k, f)
    BY <1>2, <1>3, <1>4, <1>6, <2>2, <2>4, ThenQueued
  <2>6. /\ k.state = h.state /\ k.result = h.result /\ k.left = h.left /\ k.array = h.array /\ k.subs = h.subs
    BY <2>4 DEF Queues
  <2>7. \A b \in Ids : \A i \in 1 .. 2 : Waits(k, f, b, i) <=> Waits(h, e, b, i)
    BY <1>5, <2>6, SameWaits
  <2>8. Right(k, f, 0, {})
    BY <1>2, <1>3, <1>4, <2>5, <2>6, <2>7, MakesRight
  <2> QED BY <1>1, <2>8, NextOInv
<1>7. CASE ~Settled(h, p)
  <2>1. PICK sub : sub = Subscriber("handler", n, 0)
    OBVIOUS
  <2>2. sub \in Subs /\ sub.do = "handler" /\ sub.child = n
    BY <1>4, <2>1 DEF Subscriber, Subs
  <2>3. k = Subscribe(h, p, sub)
    BY <1>1, <1>7, <2>1 DEF Then
  <2>4. Joins(h, k, p, sub)
    <3>1. PICK s : /\ Joins(h, s, p, sub)
                   /\ \/ Subscribe(h, p, sub) = s
                      \/ Settled(s, p) /\ Queues(s, Subscribe(h, p, sub), Publish(p))
      BY <1>2, <2>2, SubscribeEffect
    <3> QED BY <1>7, <2>3, <3>1 DEF Joins, Settled
  <2>5. Core(k, f)
    BY <1>2, <1>3, <1>4, <1>7, <2>2, <2>4, ThenSubscribed
  <2>6. /\ k.state = h.state /\ k.result = h.result /\ k.left = h.left /\ k.array = h.array
    BY <2>4 DEF Joins
  <2>7. \A b \in Ids : \A i \in 1 .. 2 : Waits(k, f, b, i) <=> Waits(h, e, b, i)
    <3>1. \A b, i : Waits(h, f, b, i) <=> Waits(h, e, b, i)
      BY <1>5, SameWaits
    <3>2. /\ \A b, i : Waits(h, f, b, i) => Waits(k, f, b, i)
          /\ \A b, i : Waits(k, f, b, i) =>
                Waits(h, f, b, i) \/ (sub.do = "entry" /\ sub.child = b /\ sub.index = i)
          /\ CurrentRight(h, f) /\ ~Settled(h, p) /\ sub.do = "entry" => Waits(k, f, sub.child, sub.index)
      BY <1>2, <2>4, JoinsWaits
    <3> QED BY <2>2, <3>1, <3>2
  <2>8. Right(k, f, 0, {})
    BY <1>2, <1>3, <1>4, <2>5, <2>6, <2>7, MakesRight
  <2> QED BY <1>1, <2>8, NextOInv
<1> QED BY <1>6, <1>7

\* What is noted when p is resolved with x.
LEMMA NotedIs ==
    ASSUME NEW f, NEW p, NEW x
    PROVE  /\ x.is = "promise" /\ x # Own(p) => Noted(f, p, x) = [f EXCEPT ![p] = x.of]
           /\ ~(x.is = "promise" /\ x # Own(p)) => Noted(f, p, x) = f
BY DEF Noted

\* p, untouched so far, is resolved with x, or it is resolved once more.
LEMMA NotesRight ==
    ASSUME NEW h, NEW e, NEW f, NEW a, NEW H, NEW p \in Ids, NEW x \in Results \cup {Unreadable},
           Right(h, e, a, H), Same(e, f, {"follows"}), f.follows = Noted(e.follows, p, x),
           ~Untouched(e, p), e.made[p].by \in {"new", "then"},
           e.settles[p] > 1 \/ (h.state[p] = "pending" /\ Alone(h, e, p))
    PROVE  Right(h, f, a, H)
<1>1. Core(h, e) /\ f.made = e.made /\ f.current = e.current
  BY RightTyped DEF Same
<1>2. CASE x.is = "promise" /\ x # Own(p)
  <2>1. x.of \in Ids
    BY <1>2, ValueKinds
  <2>2. f.follows = [e.follows EXCEPT ![p] = x.of]
    BY <1>2, NotedIs
  <2>3. Core(h, f)
    BY <1>1, <2>1, <2>2, NotesCore
  <2> QED BY <1>1, <2>3, SameRight
<1>3. CASE ~(x.is = "promise" /\ x # Own(p))
  <2>1. f.follows = e.follows
    BY <1>3, NotedIs
  <2>2. Same(e, f, {"foreign"}) /\ f.foreign = e.foreign
    BY <2>1 DEF Same
  <2>3. Core(h, f)
    BY <1>1, <2>2, ForeignSame
  <2> QED BY <1>1, <2>3, SameRight
<1> QED BY <1>2, <1>3

LEMMA CallResolverStep ==
    ASSUME OInv, NEW p \in Created, NEW s \in {"fulfilled", "rejected"}, NEW x,
           s = "fulfilled" => x \in Given, s = "rejected" => x = Thrown, CallResolver(p, s, x)
    PROVE  OInv'
<1>1. PICK h, k, e, f : h = heap /\ k = heap' /\ e = Env /\ f = Env'
  OBVIOUS
<1>2. Right(h, e, 0, {}) /\ Core(h, e) /\ h \in Shapes /\ EnvTyped(e) /\ FreshRight(h, e) /\ p \in Ids
  BY <1>1, RightTyped DEF OInv, Created, Core
<1>3. /\ e.made[p].by = "new" /\ e.settles[p] < MaxSettles
      /\ f.settles = [e.settles EXCEPT ![p] = e.settles[p] + 1]
      /\ k = Settle(h, p, s, x)
      /\ f.follows = IF s = "fulfilled" /\ ~Settled(h, p) THEN Noted(e.follows, p, x) ELSE e.follows
      /\ f.current = e.current /\ f.made = e.made /\ f.foreign = e.foreign /\ f.invoked = e.invoked
  BY <1>1 DEF CallResolver, Env
<1>4. PICK g : g = [current |-> e.current, made |-> e.made, settles |-> f.settles,
                    foreign |-> e.foreign, invoked |-> e.invoked, follows |-> e.follows]
  OBVIOUS
<1>5. /\ g.made = e.made /\ g.settles = f.settles /\ g.foreign = e.foreign /\ g.follows = e.follows
      /\ Same(e, g, {"settles"}) /\ g.current = e.current
      /\ Same(g, f, {"follows"}) /\ x \in Results \cup {Unreadable}
  BY <1>3, <1>4, ValueKinds DEF Same
<1>6. Core(h, g)
  BY <1>2, <1>3, <1>5, CountsCall
<1>7. Right(h, g, 0, {})
  BY <1>2, <1>5, <1>6, SameRight
<1>8. /\ e.settles[p] \in Nat /\ f.settles[p] = e.settles[p] + 1
      /\ ~Untouched(g, p) /\ ~Untouched(f, p)
  <2>1. e.settles \in [Ids -> 0 .. MaxSettles] /\ MaxSettles \in Nat
    BY <1>2, BoundAssumption DEF EnvTyped
  <2>2. e.settles[p] \in Nat /\ f.settles[p] = e.settles[p] + 1
    BY <1>2, <1>3, <2>1
  <2> QED BY <1>3, <1>5, <2>2 DEF Untouched
<1>9. e.settles[p] = 0 => h.state[p] = "pending" /\ Alone(h, e, p) /\ e.follows[p] = 0
  BY <1>2, <1>3 DEF FreshRight, Untouched
<1>10. g.settles[p] > 1 \/ (h.state[p] = "pending" /\ Alone(h, g, p))
  BY <1>5, <1>8, <1>9 DEF Alone
<1>11. CASE s = "fulfilled" /\ ~Settled(h, p)
  <2>1. f.follows = Noted(g.follows, p, x)
    BY <1>3, <1>5, <1>11
  <2>2. Right(h, f, 0, {})
    BY <1>2, <1>3, <1>5, <1>7, <1>8, <1>10, <2>1, NotesRight
  <2>3. Bound(h, f, p) => x = Own(f.follows[p]) /\ x # Own(p)
    <3>1. SUFFICES ASSUME Bound(h, f, p) PROVE x = Own(f.follows[p]) /\ x # Own(p)
      OBVIOUS
    <3>2. g.follows[p] = 0
      BY <1>5, <1>8, <1>9, <3>1 DEF Bound
    <3>3. x.is = "promise" /\ x # Own(p)
      BY <2>1, <3>1, <3>2, NotedIs DEF Bound
    <3>4. x = Own(x.of)
      BY <1>5, <3>3, OwnIs, ValueKinds
    <3>5. f.follows[p] = x.of
      BY <1>2, <1>5, <2>1, <3>3, NotedIs DEF EnvTyped
    <3> QED BY <3>3, <3>4, <3>5
  <2>4. Right(Resolve(h, p, x), f, 0, {})
    BY <1>2, <1>3, <1>5, <1>8, <2>2, <2>3, ResolveRight DEF Asks
  <2>5. Right(k, f, 0, {})
    BY <1>3, <1>11, <2>4 DEF Settle
  <2> QED BY <1>1, <2>5, NextOInv
<1>12. CASE ~(s = "fulfilled" /\ ~Settled(h, p))
  <2>1. f.follows = e.follows /\ Same(g, f, {"foreign"}) /\ f.foreign = g.foreign
    BY <1>3, <1>5, <1>12 DEF Same
  <2>2. Core(h, f)
    BY <1>6, <2>1, ForeignSame
  <2>3. Right(h, f, 0, {})
    BY <1>2, <1>3, <2>2, SameRight
  <2>4. ~Bound(h, f, p)
    <3>1. SUFFICES ASSUME Bound(h, f, p) PROVE FALSE
      OBVIOUS
    <3>2. e.settles[p] = 0
      BY <1>8, <3>1 DEF Bound
    <3> QED BY <1>9, <2>1, <3>1, <3>2 DEF Bound
  <2>5. CASE s = "fulfilled"
    <3>1. Right(Resolve(h, p, x), f, 0, {})
      BY <1>2, <1>3, <1>5, <1>8, <2>3, <2>4, ResolveRight DEF Asks
    <3>2. Right(k, f, 0, {})
      BY <1>3, <2>5, <3>1 DEF Settle
    <3> QED BY <1>1, <3>2, NextOInv
  <2>6. CASE s = "rejected"
    <3>1. MayEnd(h, f, p, "rejected", x) /\ x \in Results /\ f.made[p].by # "all"
      BY <1>3, <1>8, <2>4, <2>6, ValueKinds DEF MayEnd
    <3>2. Right(Reject(h, p, x), f, 0, {})
      BY <1>2, <2>3, <3>1, RejectRight
    <3>3. Right(k, f, 0, {})
      BY <1>3, <2>6, <3>2 DEF Settle
    <3> QED BY <1>1, <3>3, NextOInv
  <2> QED BY <2>5, <2>6
<1> QED BY <1>11, <1>12

\* Whoever waits for a thenable is made by new, then or a race over a promise that
\* was fulfilled with one, and is bound to no promise.
LEMMA ForeignIs ==
    ASSUME NEW h, NEW e, NEW p \in Ids, Core(h, e),
           \/ e.foreign[p] > 0
           \/ \E n \in 1 .. Len(h.queue) : h.queue[n].do = "foreign" /\ h.queue[n].promise = p
    PROVE  Asks(h, e, p) /\ ~Untouched(e, p) /\ ~Bound(h, e, p)
<1>1. FreshRight(h, e) /\ FollowRight(h, e) /\ EnvTyped(e)
  BY DEF Core
<1>2. ~Alone(h, e, p)
  BY DEF Alone
<1>3. ~Untouched(e, p) /\ e.made[p].by # "all" /\ (e.made[p].by = "race" => LooseRace(h, e, p))
  BY <1>1, <1>2 DEF FreshRight
<1>4. Asks(h, e, p)
  <2>1. MadeRight(e.made[p])
    BY <1>1 DEF EnvTyped
  <2> QED BY <1>3, <2>1 DEF MadeRight, Untouched, Asks
<1>5. ~Bound(h, e, p)
  BY <1>1 DEF FollowRight
<1> QED BY <1>3, <1>4, <1>5

\* A thenable that answers with itself fulfills.
LEMMA ItselfRight ==
    ASSUME NEW h, NEW e, NEW a, NEW H, Right(h, e, a, H), NEW p \in Ids,
           Asks(h, e, p), ~Untouched(e, p), ~Bound(h, e, p)
    PROVE  Right(Fulfill(h, p, Thenable), e, a, H)
<1>1. Final(Thenable) /\ e.made[p].by # "all" /\ MayEnd(h, e, p, "fulfilled", Thenable)
  BY ValueKinds DEF Asks, MayEnd
<1> QED BY <1>1, FulfillRight

LEMMA ForeignAnswersStep ==
    ASSUME OInv, NEW p \in Created, NEW s \in {"fulfilled", "rejected"}, NEW x,
           s = "fulfilled" => x \in Given, s = "rejected" => x = Thrown, ForeignAnswers(p, s, x)
    PROVE  OInv'
<1>1. PICK h, k, e, f : h = heap /\ k = heap' /\ e = Env /\ f = Env'
  OBVIOUS
<1>2. Right(h, e, 0, {}) /\ Core(h, e) /\ p \in Ids
  BY <1>1, RightTyped DEF OInv, Created
<1>3. /\ e.foreign[p] > 0 /\ f.foreign = [e.foreign EXCEPT ![p] = e.foreign[p] - 1]
      /\ k = Settle(h, p, s, x) \/ k = Fulfill(h, p, Thenable)
      /\ f.current = e.current /\ f.made = e.made /\ f.settles = e.settles
      /\ f.invoked = e.invoked /\ f.follows = e.follows
  BY <1>1 DEF ForeignAnswers, Env
<1>4. Same(e, f, {"foreign"})
  BY <1>3 DEF Same
<1>5. Core(h, f)
  BY <1>2, <1>3, <1>4, ForeignAnswered
<1>6. Right(h, f, 0, {})
  BY <1>2, <1>3, <1>5, SameRight
<1>7. Asks(h, f, p) /\ ~Untouched(f, p) /\ ~Bound(h, f, p)
  <2>1. Asks(h, e, p) /\ ~Untouched(e, p) /\ ~Bound(h, e, p)
    BY <1>2, <1>3, ForeignIs
  <2> QED BY <1>3, <2>1, SameAsks DEF Untouched, Bound
<1>10. CASE k = Fulfill(h, p, Thenable)
  <2>1. Right(k, f, 0, {})
    BY <1>2, <1>6, <1>7, <1>10, ItselfRight
  <2> QED BY <1>1, <2>1, NextOInv
<1>8. CASE s = "fulfilled" /\ k = Settle(h, p, s, x)
  <2>1. x \in Results \cup {Unreadable}
    BY <1>8, ValueKinds
  <2>2. Right(Resolve(h, p, x), f, 0, {})
    BY <1>2, <1>6, <1>7, <2>1, ResolveRight
  <2>3. Right(k, f, 0, {})
    BY <1>3, <1>8, <2>2 DEF Settle
  <2> QED BY <1>1, <2>3, NextOInv
<1>9. CASE s = "rejected" /\ k = Settle(h, p, s, x)
  <2>1. MayEnd(h, f, p, "rejected", x) /\ x \in Results /\ f.made[p].by # "all"
    BY <1>7, <1>9, ValueKinds DEF MayEnd, Asks
  <2>2. Right(Reject(h, p, x), f, 0, {})
    BY <1>2, <1>6, <2>1, RejectRight
  <2>3. Right(k, f, 0, {})
    BY <1>3, <1>9, <2>2 DEF Settle
  <2> QED BY <1>1, <2>3, NextOInv
<1> QED BY <1>3, <1>8, <1>9, <1>10

LEMMA ScriptOInv ==
    ASSUME OInv, Script
    PROVE  OInv'
BY NewPromiseStep, CallResolverStep, ForeignAnswersStep, ThenStep, RaceStep, AllStep DEF Script

LEMMA FlushStartsStep ==
    ASSUME OInv, FlushStarts
    PROVE  OInv'
<1>1. PICK h, k, e, f : h = heap /\ k = heap' /\ e = Env /\ f = Env'
  OBVIOUS
<1>2. Right(h, e, 0, {}) /\ Core(h, e) /\ HeapTyped(h) /\ h \in Shapes
  BY <1>1, RightTyped DEF OInv
<1>3. k = [h EXCEPT !.scheduled = FALSE] /\ f = e
  BY <1>1 DEF FlushStarts, Env
<1>4. /\ k \in Shapes /\ k.state = h.state /\ k.result = h.result /\ k.subs = h.subs
      /\ k.queue = h.queue /\ k.left = h.left /\ k.array = h.array
  BY <1>2, <1>3 DEF Shapes
<1>5. HeapTyped(k)
  BY <1>2, <1>4 DEF HeapTyped
<1>6. Core(k, e)
  BY <1>2, <1>4, <1>5, CountCore
<1>7. Right(k, e, 0, {})
  BY <1>2, <1>4, <1>6, SameRight
<1> QED BY <1>1, <1>3, <1>7, NextOInv

LEMMA RestPops ==
    ASSUME NEW h, h = heap, HeapTyped(h), heap.queue # <<>>, NEW r, r = Rest, NEW job, job = TheJob
    PROVE  Pops(h, r) /\ job = h.queue[1] /\ 1 \in 1 .. Len(h.queue)
<1>1. h \in Shapes /\ h.queue \in Seq(Jobs) /\ h.queue # <<>>
  BY DEF HeapTyped, Shapes
<1>2. Tail(h.queue) \in Seq(Jobs) /\ Drops(h.queue, Tail(h.queue)) /\ Len(h.queue) \in Nat /\ Len(h.queue) > 0
  BY <1>1 DEF Drops
<1>3. /\ r \in Shapes /\ r.state = h.state /\ r.result = h.result /\ r.subs = h.subs
      /\ r.queue = Tail(h.queue) /\ r.left = h.left /\ r.array = h.array
  BY <1>1, <1>2 DEF Rest, Shapes
<1>4. HeapTyped(r)
  BY <1>3 DEF HeapTyped
<1>5. job = h.queue[1]
  BY <1>1 DEF TheJob
<1> QED BY <1>2, <1>3, <1>4, <1>5 DEF Pops

LEMMA PublishStartsStep ==
    ASSUME OInv, PublishStarts
    PROVE  OInv'
<1>1. PICK h, k, e, f, job : h = heap /\ k = heap' /\ e = Env /\ f = Env' /\ job = TheJob
  OBVIOUS
<1>2. Right(h, e, 0, {}) /\ Core(h, e) /\ HeapTyped(h) /\ h \in Shapes
  BY <1>1, RightTyped DEF OInv
<1>3. /\ e.current.promise = 0 /\ heap.queue # <<>> /\ job.do = "publish" /\ k = Rest
      /\ f.current = (IF h.subs[job.promise] = <<>> THEN e.current ELSE [promise |-> job.promise, index |-> 1])
      /\ Same(e, f, {"current"})
  BY <1>1 DEF PublishStarts, Job, Env, Same
<1>4. Pops(h, k) /\ job = h.queue[1] /\ 1 \in 1 .. Len(h.queue)
  BY <1>1, <1>2, <1>3, RestPops
<1>5. Core(k, f)
  <2>1. CASE h.subs[job.promise] = <<>>
    BY <1>2, <1>3, <1>4, <2>1, PopsCore
  <2>2. CASE h.subs[job.promise] # <<>>
    BY <1>2, <1>3, <1>4, <2>2, PopsCore
  <2> QED BY <2>1, <2>2
<1>6. /\ k.state = h.state /\ k.result = h.result /\ k.subs = h.subs /\ k.left = h.left /\ k.array = h.array
      /\ f.made = e.made
  BY <1>3, <1>4 DEF Pops, Same
<1>7. \A b \in Ids : \A i \in 1 .. 2 : Waits(k, f, b, i) <=> Waits(h, e, b, i)
  <2>1. \A p \in Ids : \A n \in 1 .. Len(h.subs[p]) : Live(e, p, n) /\ Live(f, p, n)
    <3>1. \A p \in Ids : p # 0 /\ Len(h.subs[p]) \in Nat
      BY <1>2, SubsTyped DEF Ids
    <3>2. \A p \in Ids : \A n \in 1 .. Len(h.subs[p]) : Live(e, p, n)
      BY <1>3, <3>1 DEF Live
    <3>3. \A p \in Ids : \A n \in 1 .. Len(h.subs[p]) : Live(f, p, n)
      <4>1. CASE h.subs[job.promise] = <<>>
        BY <1>3, <3>2, <4>1 DEF Live
      <4>2. CASE h.subs[job.promise] # <<>>
        BY <1>3, <3>1, <4>2 DEF Live
      <4> QED BY <4>1, <4>2
    <3> QED BY <3>2, <3>3
  <2> QED BY <1>6, <2>1 DEF Waits
<1>8. Right(k, f, 0, {})
  BY <1>2, <1>5, <1>6, <1>7, RestRight
<1> QED BY <1>1, <1>8, NextOInv

LEMMA ForeignJobStep ==
    ASSUME OInv, ForeignJob
    PROVE  OInv'
<1>1. PICK h, k, e, f, job, r, p : /\ h = heap /\ k = heap' /\ e = Env /\ f = Env' /\ job = TheJob
                                   /\ r = Rest /\ p = job.promise
  OBVIOUS
<1>2. Right(h, e, 0, {}) /\ Core(h, e) /\ HeapTyped(h) /\ h \in Shapes
  BY <1>1, RightTyped DEF OInv
<1>3. /\ e.current.promise = 0 /\ heap.queue # <<>> /\ job.do = "foreign"
      /\ Same(e, f, {"foreign"})
  BY <1>1 DEF ForeignJob, Job, Env, Same
<1>4. Pops(h, r) /\ job = h.queue[1] /\ 1 \in 1 .. Len(h.queue) /\ p \in Ids
  BY <1>1, <1>2, <1>3, RestPops, QueueTyped
<1>5. Core(r, e)
  <2>1. Same(e, e, {"current"}) /\ h.queue[1].do = "foreign"
    BY <1>3, <1>4 DEF Same
  <2> QED BY <1>2, <1>3, <1>4, <2>1, PopsCore
<1>6. r.state = h.state /\ r.result = h.result /\ r.subs = h.subs /\ r.left = h.left /\ r.array = h.array
  BY <1>4 DEF Pops
<1>7. Right(r, e, 0, {})
  BY <1>2, <1>5, <1>6, SameRight
<1>8. Asks(r, e, p) /\ ~Untouched(e, p) /\ ~Bound(r, e, p)
  <2>1. Asks(h, e, p) /\ ~Untouched(e, p) /\ ~Bound(h, e, p)
    BY <1>1, <1>2, <1>3, <1>4, ForeignIs
  <2> QED BY <1>6, <2>1, SameAsks, SameLoose
<1>9. f.made = e.made /\ f.current = e.current /\ f.settles = e.settles
      /\ f.invoked = e.invoked /\ f.follows = e.follows
  BY <1>3 DEF Same
<1>10. ASSUME f.foreign = e.foreign
       PROVE  Right(r, f, 0, {}) /\ Asks(r, f, p) /\ ~Untouched(f, p) /\ ~Bound(r, f, p)
  <2>1. Core(r, f)
    BY <1>3, <1>5, <1>10, ForeignSame
  <2>2. Right(r, f, 0, {})
    BY <1>7, <1>9, <2>1, SameRight
  <2> QED BY <1>8, <1>9, <2>2, SameAsks DEF Untouched, Bound
<1>11. ASSUME NEW x \in Given, k = Resolve(r, p, x), f.foreign = e.foreign
       PROVE  Right(k, f, 0, {})
  <2>1. x \in Results \cup {Unreadable}
    BY ValueKinds
  <2> QED BY <1>4, <1>10, <1>11, <2>1, ResolveRight
<1>12. ASSUME k = Reject(r, p, Thrown), f.foreign = e.foreign
       PROVE  Right(k, f, 0, {})
  <2>1. Right(r, f, 0, {}) /\ f.made[p].by # "all" /\ MayEnd(r, f, p, "rejected", Thrown) /\ Thrown \in Results
    BY <1>10, <1>12, ValueKinds DEF MayEnd, Asks
  <2> QED BY <1>4, <1>12, <2>1, RejectRight
<1>13. ASSUME k = r, f.foreign = [e.foreign EXCEPT ![p] = e.foreign[p] + 1]
       PROVE  Right(k, f, 0, {})
  <2>1. Core(r, f)
    BY <1>3, <1>4, <1>5, <1>8, <1>13, ForeignCalled
  <2> QED BY <1>7, <1>9, <1>13, <2>1, SameRight
<1>15. ASSUME k = Fulfill(r, p, Thenable), f.foreign = e.foreign
       PROVE  Right(k, f, 0, {})
  BY <1>4, <1>10, <1>15, ItselfRight
<1>16. ASSUME k = r, f.foreign = e.foreign
       PROVE  Right(k, f, 0, {})
  BY <1>10, <1>16
<1>14. Right(k, f, 0, {})
  <2>1. e.foreign = foreign /\ f.foreign = foreign'
    BY <1>1 DEF Env
  <2> QED BY <1>1, <1>11, <1>12, <1>13, <1>15, <1>16, <2>1 DEF ForeignJob
<1> QED BY <1>1, <1>14, NextOInv

LEMMA PublishEndsStep ==
    ASSUME OInv, PublishEnds
    PROVE  OInv'
<1>1. PICK h, k, e, f, p : h = heap /\ k = heap' /\ e = Env /\ f = Env' /\ p = current.promise
  OBVIOUS
<1>2. Right(h, e, 0, {}) /\ Core(h, e) /\ HeapTyped(h) /\ h \in Shapes /\ EnvTyped(e)
  BY <1>1, RightTyped DEF OInv
<1>3. /\ p # 0 /\ e.current.promise = p /\ e.current.index > Len(h.subs[p])
      /\ k = [h EXCEPT !.subs[p] = <<>>]
      /\ f.current = [promise |-> 0, index |-> 0] /\ Same(e, f, {"current"}) /\ f.made = e.made
  BY <1>1 DEF PublishEnds, Subscribers, Env, Same
<1>4. p \in Ids
  BY <1>2, <1>3, BoundAssumption DEF EnvTyped, Ids
<1>5. h.subs \in [Ids -> Seq(Subs)] /\ <<>> \in Seq(Subs)
  BY <1>2 DEF Shapes
<1>6. PICK none \in [Ids -> Seq(Subs)] : none = [h.subs EXCEPT ![p] = <<>>]
  BY <1>5
<1>7. k = [h EXCEPT !.subs = none]
  BY <1>2, <1>3, <1>6 DEF Shapes
<1>8. /\ k \in Shapes /\ k.state = h.state /\ k.result = h.result /\ k.subs = none
      /\ k.queue = h.queue /\ k.left = h.left /\ k.array = h.array
  BY <1>2, <1>7 DEF Shapes
<1>9. HeapTyped(k)
  BY <1>2, <1>8 DEF HeapTyped
<1>10. Core(k, f)
  BY <1>2, <1>3, <1>4, <1>6, <1>8, <1>9, PassedCore
<1>11. \A b \in Ids : \A i \in 1 .. 2 : Waits(k, f, b, i) <=> Waits(h, e, b, i)
  <2>1. /\ Len(k.subs[p]) = 0 /\ \A q \in Ids : q # p => k.subs[q] = h.subs[q]
        /\ Len(h.subs[p]) \in Nat
    BY <1>2, <1>4, <1>5, <1>6, <1>8, SubsTyped
  <2>2. e.current.index \in Nat
    BY <1>2 DEF EnvTyped
  <2>3. \A n \in 1 .. Len(h.subs[p]) : ~Live(e, p, n)
    BY <1>3, <2>1, <2>2 DEF Live
  <2>4. \A q \in Ids : \A n : q # p => Live(e, q, n) /\ Live(f, q, n)
    BY <1>3 DEF Live, Ids
  <2>5. \A q \in Ids : \A n \in 1 .. Len(k.subs[q]) : q # p
    BY <2>1
  <2>6. \A q \in Ids : \A n \in 1 .. Len(h.subs[q]) : Live(e, q, n) => q # p
    BY <2>3
  <2>7. \A b, i : Waits(k, f, b, i) => Waits(h, e, b, i)
    BY <2>1, <2>4, <2>5 DEF Waits
  <2>8. \A b, i : Waits(h, e, b, i) => Waits(k, f, b, i)
    BY <2>1, <2>4, <2>6 DEF Waits
  <2> QED BY <2>7, <2>8
<1>12. Right(k, f, 0, {})
  BY <1>2, <1>3, <1>8, <1>10, <1>11, RestRight
<1> QED BY <1>1, <1>12, NextOInv

\* The handlers of c are called for the first time: what it is resolved with is
\* noted, and c goes on.
LEMMA HandlesRight ==
    ASSUME NEW h, NEW e, NEW f, NEW c \in Ids, NEW s, NEW v \in Results, NEW end \in Results \cup {Unreadable},
           Right(h, e, 0, {}), e.made = made, Same(e, f, {"follows"}),
           f.follows = IF s \in made[c].on THEN Noted(e.follows, c, end) ELSE e.follows,
           made[c].by = "then", ~Untouched(e, c), h.state[c] = "pending", Alone(h, e, c),
           e.follows[c] = 0, s = "fulfilled" => Final(v)
    PROVE  Right(InvokeCallback(h, c, s, v, end), f, 0, {})
<1>1. /\ f.made = made /\ f.invoked = e.invoked /\ f.settles = e.settles /\ f.current = e.current
      /\ Core(h, e) /\ EnvTyped(e)
  BY RightTyped DEF Same
<1>2. ~Untouched(f, c)
  BY <1>1 DEF Untouched
<1>3. Right(h, f, 0, {})
  <2>1. CASE s \in made[c].on
    <3>1. f.follows = Noted(e.follows, c, end)
      BY <2>1
    <3> QED BY <3>1, NotesRight
  <2>2. CASE s \notin made[c].on
    <3>1. Same(e, f, {"foreign"}) /\ f.foreign = e.foreign
      BY <2>2 DEF Same
    <3>2. Core(h, f)
      BY <1>1, <3>1, ForeignSame
    <3> QED BY <1>1, <3>2, SameRight
  <2> QED BY <2>1, <2>2
<1>4. Bound(h, f, c) => s \in made[c].on /\ end = Own(f.follows[c]) /\ end # Own(c)
  <2>1. SUFFICES ASSUME Bound(h, f, c) PROVE s \in made[c].on /\ end = Own(f.follows[c]) /\ end # Own(c)
    OBVIOUS
  <2>2. s \in made[c].on /\ f.follows = Noted(e.follows, c, end)
    BY <2>1 DEF Bound
  <2>3. end.is = "promise" /\ end # Own(c)
    BY <2>1, <2>2, NotedIs DEF Bound
  <2>4. f.follows = [e.follows EXCEPT ![c] = end.of]
    BY <2>2, <2>3, NotedIs
  <2>5. f.follows[c] = end.of
    BY <1>1, <2>4 DEF EnvTyped
  <2>6. end = Own(end.of)
    BY <2>3, OwnIs, ValueKinds
  <2> QED BY <2>2, <2>3, <2>5, <2>6
<1> QED BY <1>1, <1>2, <1>3, <1>4, InvokeCallbackRight

LEMMA InvokeJobStep ==
    ASSUME OInv, NEW end \in Given \cup {Thrown}, InvokeJob(end)
    PROVE  OInv'
<1>1. PICK h, k, e, f, job, r, c : /\ h = heap /\ k = heap' /\ e = Env /\ f = Env' /\ job = TheJob
                                   /\ r = Rest /\ c = job.promise
  OBVIOUS
<1>2. /\ Right(h, e, 0, {}) /\ Core(h, e) /\ HeapTyped(h) /\ h \in Shapes /\ EnvTyped(e)
      /\ end \in Results \cup {Unreadable}
  BY <1>1, RightTyped, ValueKinds DEF OInv
<1>3. /\ e.current.promise = 0 /\ heap.queue # <<>> /\ job.do = "invoke"
      /\ k = InvokeCallback(r, c, job.settled, job.detail, end)
      /\ f.invoked = [e.invoked EXCEPT ![c] = Append(e.invoked[c], <<job.settled, job.detail>>)]
      /\ f.follows = (IF job.settled \in made[c].on THEN Noted(e.follows, c, end) ELSE e.follows)
      /\ f.current = e.current /\ f.made = e.made /\ f.settles = e.settles /\ f.foreign = e.foreign
      /\ e.made = made
  BY <1>1 DEF InvokeJob, Job, Handle, Env
<1>4. Pops(h, r) /\ job = h.queue[1] /\ 1 \in 1 .. Len(h.queue) /\ c \in Ids
  BY <1>1, <1>2, <1>3, RestPops, QueueTyped
<1>5. JobRight(h, e, job) /\ h.state \in [Ids -> States] /\ h.result \in [Ids -> Results]
  BY <1>2, <1>4 DEF Core, JobsRight, Shapes
<1>6. /\ e.made[c].by = "then" /\ e.invoked[c] = <<>> /\ e.made[c].of[1] \in Ids
      /\ job.settled = h.state[e.made[c].of[1]] /\ job.detail = h.result[e.made[c].of[1]]
  BY <1>1, <1>2, <1>3, <1>4, <1>5, Zenon DEF JobRight, EnvTyped, MadeRight
<1>7. f.invoked = [e.invoked EXCEPT ![c] = <<<<job.settled, job.detail>>>>]
  BY <1>3, <1>6
<1>8. PICK g : g = [current |-> e.current, made |-> e.made, settles |-> e.settles,
                    foreign |-> e.foreign, invoked |-> f.invoked, follows |-> e.follows]
  OBVIOUS
<1>9. /\ g.made = e.made /\ g.settles = e.settles /\ g.foreign = e.foreign /\ g.follows = e.follows
      /\ g.current = e.current /\ g.invoked = f.invoked
      /\ Same(e, g, {"invoked"}) /\ Same(g, f, {"follows"})
  BY <1>3, <1>8 DEF Same
<1>10. Core(r, g)
  <2>1. g.invoked = [e.invoked EXCEPT ![c] = <<<<h.queue[1].settled, h.queue[1].detail>>>>]
    BY <1>4, <1>7, <1>9
  <2>2. h.queue[1].do = "invoke" /\ h.queue[1].promise = c
    BY <1>1, <1>3, <1>4
  <2> QED BY <1>2, <1>3, <1>4, <1>9, <2>1, <2>2, PopsHandler
<1>11. /\ r.state = h.state /\ r.result = h.result /\ r.subs = h.subs /\ r.left = h.left /\ r.array = h.array
       /\ Drops(h.queue, r.queue)
  BY <1>4 DEF Pops
<1>12. Right(r, g, 0, {})
  BY <1>2, <1>9, <1>10, <1>11, SameRight
<1>13. h.state[c] = "pending" /\ Alone(h, e, c) /\ e.follows[c] = 0
  <2>1. Untouched(e, c)
    BY <1>6 DEF Untouched
  <2> QED BY <1>2, <1>4, <2>1 DEF Core, FreshRight
<1>14. Alone(r, g, c)
  <2>1. \A n \in 1 .. Len(r.queue) : n + 1 \in 1 .. Len(h.queue) /\ r.queue[n] = h.queue[n + 1]
    BY <1>11, DropsPlaces
  <2> QED BY <1>9, <1>11, <1>13, <2>1 DEF Alone
<1>15. ~Untouched(g, c)
  <2>1. c \in DOMAIN e.invoked
    BY <1>2, <1>4 DEF EnvTyped
  <2>2. g.invoked[c] # <<>>
    BY <1>7, <1>9, <2>1
  <2> QED BY <1>6, <1>9, <2>2 DEF Untouched
<1>16. job.detail \in Results /\ (job.settled = "fulfilled" => Final(job.detail))
  BY <1>2, <1>5, <1>6 DEF HeapTyped
<1>17. Right(k, f, 0, {})
  BY <1>2, <1>3, <1>4, <1>6, <1>9, <1>11, <1>12, <1>13, <1>14, <1>15, <1>16, HandlesRight, ZenonT(40)
<1> QED BY <1>1, <1>17, NextOInv

\* The handlers of c are called.
HandledAs(e, f, c, s, v, end) ==
    /\ f.invoked = [e.invoked EXCEPT ![c] = Append(e.invoked[c], <<s, v>>)]
    /\ f.follows = IF s \in e.made[c].on THEN Noted(e.follows, c, end) ELSE e.follows

LEMMA HandlerStep ==
    ASSUME NEW h, NEW e, NEW f, NEW p, NEW i, NEW c \in Ids, NEW l, NEW end \in Results \cup {Unreadable},
           Right(h, e, 0, {}), Passes(h, e, f, p, i), At(h, p, i, "handler", c, l),
           Same(e, f, {"current", "invoked", "follows"}), e.made = made,
           HandledAs(e, f, c, h.state[p], h.result[p], end)
    PROVE  Right(InvokeCallback(h, c, h.state[p], h.result[p], end), f, 0, {})
<1>0. /\ h.subs[p][i].do = "handler" /\ h.subs[p][i].child = c
      /\ f.invoked = [e.invoked EXCEPT ![c] = Append(e.invoked[c], <<h.state[p], h.result[p]>>)]
      /\ f.follows = IF h.state[p] \in made[c].on THEN Noted(e.follows, c, end) ELSE e.follows
  BY DEF At, HandledAs
<1>1. Core(h, e) /\ HeapTyped(h) /\ h \in Shapes /\ EnvTyped(e)
  BY RightTyped
<1>2. p \in Ids /\ i \in 1 .. Len(h.subs[p]) /\ Live(e, p, i)
  BY <1>1, PassesLive DEF Passes
<1>3. e.made[c].by = "then" /\ e.invoked[c] = <<>>
  <2>1. SubRight(e, p, i, h.subs[p][i])
    BY <1>1, <1>2 DEF Core, SubsRight
  <2> QED BY <1>0, <1>2, <2>1 DEF SubRight
<1>4. f.invoked = [e.invoked EXCEPT ![c] = <<<<h.state[p], h.result[p]>>>>]
  BY <1>0, <1>3
<1>5. PICK g : g = [current |-> f.current, made |-> e.made, settles |-> e.settles,
                    foreign |-> e.foreign, invoked |-> f.invoked, follows |-> e.follows]
  OBVIOUS
<1>6. /\ g.made = e.made /\ g.settles = e.settles /\ g.foreign = e.foreign /\ g.follows = e.follows
      /\ g.current = f.current /\ g.invoked = f.invoked
      /\ Same(e, g, {"current", "invoked"}) /\ Same(g, f, {"follows"})
  BY <1>5 DEF Same
<1>7. Passes(h, e, g, p, i)
  BY <1>6 DEF Passes
<1>8. Core(h, g)
  BY <1>0, <1>1, <1>4, <1>6, <1>7, PassesHandler
<1>9. \A b \in Ids : \A j \in 1 .. 2 : Waits(h, g, b, j) <=> Waits(h, e, b, j)
  <2>1. \A b, j : Waits(h, g, b, j) <=>
              /\ Waits(h, e, b, j)
              /\ ~(h.subs[p][i].do = "entry" /\ h.subs[p][i].child = b /\ h.subs[p][i].index = j)
    BY <1>1, <1>7, PassesWaits
  <2> QED BY <1>0, <2>1
<1>10. Right(h, g, 0, {})
  BY <1>6, <1>8, <1>9, RestRight
<1>11. h.state[c] = "pending" /\ Alone(h, g, c) /\ e.follows[c] = 0
  <2>1. Untouched(e, c)
    BY <1>3 DEF Untouched
  <2>2. h.state[c] = "pending" /\ Alone(h, e, c) /\ e.follows[c] = 0
    BY <1>1, <2>1 DEF Core, FreshRight
  <2> QED BY <1>6, <2>2 DEF Alone
<1>12. ~Untouched(g, c)
  <2>1. c \in DOMAIN e.invoked
    BY <1>1 DEF EnvTyped
  <2>2. g.invoked[c] # <<>>
    BY <1>4, <1>6, <2>1
  <2> QED BY <1>3, <1>6, <2>2 DEF Untouched
<1>13. h.result[p] \in Results /\ (h.state[p] = "fulfilled" => Final(h.result[p]))
  BY <1>1, <1>2 DEF HeapTyped, Shapes
<1> QED BY <1>0, <1>3, <1>6, <1>10, <1>11, <1>12, <1>13, HandlesRight

\* publish tells a promise that adopted p, or a race that p is in.
LEMMA TellsRight ==
    ASSUME NEW h, NEW e, NEW f, NEW p, NEW i, NEW c \in Ids,
           Right(h, e, 0, {}), Passes(h, e, f, p, i), h.subs[p][i].do \in {"adopt", "race"},
           h.subs[p][i].child = c, Same(e, f, {"current"})
    PROVE  Right(Settle(h, c, h.state[p], h.result[p]), f, 0, {})
<1>1. Core(h, e) /\ EnvTyped(e)
  BY RightTyped
<1>2. p \in Ids /\ i \in 1 .. Len(h.subs[p]) /\ Settled(h, p)
  <2>1. Settled(h, p)
    BY <1>1, PassesLive
  <2> QED BY <2>1 DEF Passes
<1>3. SubRight(e, p, i, h.subs[p][i]) /\ FreshRight(h, e) /\ FollowRight(h, e)
  BY <1>1, <1>2 DEF Core, SubsRight
<1>4. /\ f.made = e.made /\ f.settles = e.settles /\ f.invoked = e.invoked
      /\ f.foreign = e.foreign /\ f.follows = e.follows
  BY DEF Same
<1>5. Core(h, f)
  BY <1>1, PassesCore
<1>6. \A b \in Ids : \A j \in 1 .. 2 : Waits(h, f, b, j) <=> Waits(h, e, b, j)
  <2>1. \A b, j : Waits(h, f, b, j) <=>
              /\ Waits(h, e, b, j)
              /\ ~(h.subs[p][i].do = "entry" /\ h.subs[p][i].child = b /\ h.subs[p][i].index = j)
    BY <1>1, PassesWaits
  <2> QED BY <2>1
<1>7. Right(h, f, 0, {})
  BY <1>4, <1>5, <1>6, RestRight
<1>8. /\ f.made[c].by # "all" /\ MayEnd(h, f, c, h.state[p], h.result[p])
      /\ Loose(h, p) => Asks(h, f, c) /\ ~Bound(h, f, c)
  <2>0. /\ \A q : Asks(h, f, q) <=> Asks(h, e, q)
        /\ \A q : Bound(h, f, q) <=> Bound(h, e, q)
        /\ \A q : LooseRace(h, f, q) <=> LooseRace(h, e, q)
    BY <1>4, SameAsks, SameLoose
  <2>1. CASE h.subs[p][i].do = "adopt"
    <3>1. e.made[c].by \in {"new", "then", "race"} /\ ~Alone(h, e, c)
      BY <1>2, <1>3, <2>1 DEF SubRight, Alone
    <3>2. ~Untouched(e, c) /\ (e.made[c].by = "race" => LooseRace(h, e, c))
      BY <1>3, <3>1 DEF FreshRight
    <3>3. Bound(h, e, c) => p = e.follows[c]
      BY <1>2, <1>3, <2>1 DEF FollowRight
    <3>4. Bound(h, e, c) => ~Loose(h, p)
      BY <3>3 DEF Bound
    <3>5. Asks(h, e, c)
      BY <3>1, <3>2 DEF Asks
    <3>6. MayEnd(h, f, c, h.state[p], h.result[p])
      BY <1>4, <2>0, <3>2, <3>3 DEF MayEnd, Untouched
    <3> QED BY <1>4, <2>0, <3>1, <3>4, <3>5, <3>6
  <2>2. CASE h.subs[p][i].do = "race"
    <3>1. e.made[c].by = "race" /\ (e.made[c].of[1] = p \/ e.made[c].of[2] = p)
      BY <1>3, <2>2 DEF SubRight
    <3>2. e.follows[c] = 0
      BY <1>3, <3>1 DEF FreshRight
    <3>3. \E j \in 1 .. 2 : e.made[c].of[j] = p
      BY <3>1
    <3>4. Loose(h, p) => Asks(h, e, c)
      BY <3>1, <3>3 DEF Asks, LooseRace
    <3>5. ~Bound(h, e, c)
      BY <3>2 DEF Bound
    <3>6. MayEnd(h, f, c, h.state[p], h.result[p])
      BY <1>4, <2>0, <3>1, <3>3, <3>5 DEF MayEnd, Untouched
    <3> QED BY <1>4, <2>0, <3>1, <3>4, <3>5, <3>6
  <2> QED BY <2>1, <2>2
<1> QED BY <1>2, <1>7, <1>8, SettleRight

LEMMA PublishNextStep ==
    ASSUME OInv, NEW end \in Given \cup {Thrown}, PublishNext(end)
    PROVE  OInv'
<1>1. PICK h, k, e, f, p, i : /\ h = heap /\ k = heap' /\ e = Env /\ f = Env'
                              /\ p = current.promise /\ i = current.index
  OBVIOUS
<1>2. /\ Right(h, e, 0, {}) /\ Core(h, e) /\ HeapTyped(h) /\ h \in Shapes /\ EnvTyped(e)
      /\ end \in Results \cup {Unreadable}
  BY <1>1, RightTyped, ValueKinds DEF OInv
<1>3. /\ e.current = current /\ e.current.promise = p /\ e.current.index = i /\ p # 0
      /\ i <= Len(h.subs[p]) /\ f.current = [e.current EXCEPT !.index = i + 1]
      /\ f.made = e.made /\ f.settles = e.settles /\ f.foreign = e.foreign /\ e.made = made
      /\ e.invoked = invoked /\ e.follows = follows /\ f.invoked = invoked' /\ f.follows = follows'
  BY <1>1 DEF PublishNext, Subscribers, Env
<1>4. p \in Ids /\ i \in 1 .. Len(h.subs[p]) /\ f.current = [promise |-> p, index |-> i + 1]
  <2>1. e.current \in [promise : 0 .. MaxPromises, index : Nat] /\ i # 0
    BY <1>2, <1>3 DEF EnvTyped
  <2>2. p \in Ids
    BY <1>3, <2>1, BoundAssumption DEF Ids
  <2>3. Len(h.subs[p]) \in Nat
    BY <1>2, <2>2, SubsTyped
  <2> QED BY <1>3, <2>1, <2>2, <2>3
<1>5. Passes(h, e, f, p, i)
  BY <1>3, <1>4 DEF Passes
<1>6. PICK sub, c : sub = h.subs[p][i] /\ c = sub.child
  OBVIOUS
<1>7. c \in Ids /\ sub.do \in {"handler", "adopt", "entry", "race"} /\ Settled(h, p)
  BY <1>2, <1>4, <1>5, <1>6, SubsTyped, PassesLive
<1>8. /\ sub.do = "handler" => Handle(heap, c, h.state[p], h.result[p], end)
      /\ sub.do \in {"adopt", "race"} => k = Settle(h, c, h.state[p], h.result[p]) /\ UNCHANGED <<invoked, follows>>
      /\ sub.do = "entry" => /\ k = SettledAt(h, c, sub.index, h.state[p], h.result[p])
                             /\ UNCHANGED <<invoked, follows>>
  BY <1>1, <1>6 DEF PublishNext, Subscribers
<1>9. CASE sub.do = "handler"
  <2>1. k = InvokeCallback(h, c, h.state[p], h.result[p], end) /\ HandledAs(e, f, c, h.state[p], h.result[p], end)
    BY <1>1, <1>3, <1>8, <1>9 DEF Handle, HandledAs
  <2>2. Same(e, f, {"current", "invoked", "follows"}) /\ e.made = made
    BY <1>3 DEF Same
  <2>3. At(h, p, i, "handler", c, sub.index)
    BY <1>6, <1>9 DEF At
  <2>4. Right(InvokeCallback(h, c, h.state[p], h.result[p], end), f, 0, {})
    BY <1>2, <1>5, <1>7, <2>1, <2>2, <2>3, HandlerStep
  <2> QED BY <1>1, <2>1, <2>4, NextOInv
<1>10. CASE sub.do \in {"adopt", "race"}
  <2>1. Same(e, f, {"current"})
    BY <1>3, <1>8, <1>10 DEF Same
  <2>2. Right(Settle(h, c, h.state[p], h.result[p]), f, 0, {})
    BY <1>2, <1>5, <1>6, <1>7, <1>10, <2>1, TellsRight
  <2> QED BY <1>1, <1>8, <1>10, <2>2, NextOInv
<1>11. CASE sub.do = "entry"
  <2>1. Same(e, f, {"current"})
    BY <1>3, <1>8, <1>11 DEF Same
  <2>2. PICK j \in 1 .. 2 : j = sub.index
    <3>1. SubRight(e, p, i, sub)
      BY <1>2, <1>4, <1>6 DEF Core, SubsRight
    <3> QED BY <1>11, <3>1 DEF SubRight
  <2>3. /\ Right(h, f, c, {j}) /\ f.made = e.made
        /\ e.made[c].by = "all" /\ e.made[c].of[j] = Own(p)
    <3>1. At(h, p, i, "entry", c, j)
      BY <1>6, <1>11, <2>2 DEF At
    <3> QED BY <1>2, <1>5, <1>7, <2>1, <3>1, PassesEntry
  <2>4. Right(SettledAt(h, c, j, h.state[p], h.result[p]), f, c, {j} \ {j})
    <3>1. PICK H : H = {j}
      OBVIOUS
    <3>2. j \in H /\ Right(h, f, c, H) /\ f.made[c].by = "all" /\ f.made[c].of[j] = Own(p)
      BY <2>3, <3>1
    <3> QED BY <1>4, <1>7, <3>1, <3>2, SettledAtRight
  <2>5. Right(k, f, c, {})
    <3>1. {j} \ {j} = {}
      OBVIOUS
    <3> QED BY <1>8, <1>11, <2>2, <2>4, <3>1
  <2> QED BY <1>1, <2>5, NoneInHand, NextOInv
<1> QED BY <1>7, <1>9, <1>10, <1>11

LEMMA FlushOInv ==
    ASSUME OInv, Flush
    PROVE  OInv'
<1>1. CASE FlushEnds
  <2>1. UNCHANGED heap /\ Env' = Env
    BY <1>1 DEF FlushEnds, Env
  <2> QED BY <2>1, NextOInv DEF OInv
<1> QED BY <1>1, FlushStartsStep, PublishStartsStep, ForeignJobStep, PublishEndsStep,
           InvokeJobStep, PublishNextStep DEF Flush

LEMMA InitOInv == Init => OInv
<1> SUFFICES ASSUME Init PROVE OInv
  OBVIOUS
<1>1. PICK h, e : h = heap /\ e = Env
  OBVIOUS
<1>2. /\ h \in Shapes
      /\ \A p \in Ids : h.state[p] = "pending" /\ h.subs[p] = <<>> /\ h.left[p] = 2
      /\ h.queue = <<>>
  <2>1. heap \in Shapes
    BY InitPInv DEF PInv, Sound
  <2> QED BY <1>1, <2>1 DEF Init
<1>3. /\ e.current = [promise |-> 0, index |-> 0] /\ e.made = [p \in Ids |-> NotMade]
      /\ e.settles = [p \in Ids |-> 0] /\ e.foreign = [p \in Ids |-> 0] /\ e.invoked = [p \in Ids |-> <<>>]
      /\ e.follows = [p \in Ids |-> 0]
  BY <1>1 DEF Init, Env
<1>4. \A p \in Ids : e.made[p].by = "nobody" /\ MadeRight(e.made[p]) /\ e.invoked[p] = <<>> /\ e.follows[p] = 0
  BY <1>3 DEF NotMade, MadeRight
<1>5. HeapTyped(h) /\ EnvTyped(e) /\ CurrentRight(h, e)
  <2>1. HeapTyped(h)
    BY <1>2 DEF HeapTyped
  <2>2. \A p \in Ids : e.made[p].by # "nobody" <=> p <= 0
    BY <1>4 DEF Ids
  <2>3. MaxPromises \in Nat /\ MaxSettles \in Nat /\ 0 \in 0 .. MaxPromises
    BY BoundAssumption
  <2>4. EnvTyped(e)
    BY <1>3, <1>4, <2>2, <2>3 DEF EnvTyped
  <2> QED BY <1>3, <2>1, <2>4 DEF CurrentRight
<1>6. /\ SubsRight(h, e) /\ SubsOrdered(h, e) /\ JobsRight(h, e) /\ JobsOrdered(h, e) /\ LinesRight(h, e)
  BY <1>2 DEF SubsRight, SubsOrdered, JobsRight, JobsOrdered, LinesRight
<1>7. CalledRight(h, e) /\ WaitingRight(h, e) /\ FollowRight(h, e) /\ RaceRight(h, e)
  BY <1>2, <1>4 DEF CalledRight, WaitingRight, FollowRight, Bound, RaceRight, Settled
<1>8. FreshRight(h, e)
  BY <1>2, <1>3, <1>4 DEF FreshRight, Alone
<1>9. AllsRight(h, e, 0, {})
  BY <1>2, <1>4 DEF AllsRight
<1>10. Right(h, e, 0, {})
  BY <1>5, <1>6, <1>7, <1>8, <1>9 DEF Right, Core
<1> QED BY <1>1, <1>10 DEF OInv

LEMMA FlushingTyped == flushing \in BOOLEAN /\ Next => flushing' \in BOOLEAN
BY DEF Next, Script, NewPromise, Make, CallResolver, ForeignAnswers, Then, PromiseAll, PromiseRace,
       Flush, FlushStarts, FlushEnds, PublishStarts, InvokeJob, ForeignJob, PublishEnds, PublishNext

\* The inductive invariant.
Inv == PInv /\ OInv /\ flushing \in BOOLEAN

LEMMA NextInv == Inv /\ [Next]_vars => Inv'
<1> SUFFICES ASSUME Inv, [Next]_vars PROVE Inv'
  OBVIOUS
<1>1. PInv'
  BY NextPInv DEF Inv
<1>2. CASE Next
  BY <1>1, <1>2, ScriptOInv, FlushOInv, FlushingTyped DEF Inv, Next
<1>3. CASE UNCHANGED vars
  <2>1. UNCHANGED heap /\ Env' = Env /\ UNCHANGED flushing
    BY <1>3 DEF vars, Env
  <2>2. OInv'
    BY <2>1, NextOInv DEF OInv, Inv
  <2> QED BY <1>1, <2>1, <2>2 DEF Inv
<1> QED BY <1>2, <1>3

LEMMA InvTyped == Inv => TypeOK
<1> SUFFICES ASSUME Inv PROVE TypeOK
  OBVIOUS
<1>1. PICK h, e : h = heap /\ e = Env
  OBVIOUS
<1>2. Right(h, e, 0, {}) /\ h \in Shapes /\ EnvTyped(e) /\ AllsRight(h, e, 0, {})
  BY <1>1, RightTyped DEF Inv, OInv
<1>3. \A p \in Ids : h.left[p] \in 0 .. 2
  BY <1>2 DEF AllsRight, AllRight
<1>4. h \in Heap
  <2>1. h.left \in [Ids -> 0 .. 2]
    BY <1>2, <1>3 DEF Shapes
  <2> QED BY <1>2, <2>1, Zenon DEF Shapes, Heap, States, Subs, Jobs
<1> QED BY <1>1, <1>2, <1>4 DEF TypeOK, EnvTyped, Env, Inv

LEMMA InvHandled == Inv => HandledOnce /\ HandledInOrder
<1> SUFFICES ASSUME Inv PROVE HandledOnce /\ HandledInOrder
  OBVIOUS
<1>1. PICK h, e : h = heap /\ e = Env
  OBVIOUS
<1>2. CalledRight(h, e) /\ e.invoked = invoked /\ e.made = made
  BY <1>1, RightTyped DEF Inv, OInv, Core, Env
<1>3. HandledOnce
  BY <1>1, <1>2 DEF CalledRight, HandledOnce
<1>4. HandledInOrder
  BY <1>2 DEF CalledRight, HandledInOrder
<1> QED BY <1>3, <1>4

LEMMA InvFollows == Inv => FollowsAdopted /\ OneOfThem
<1> SUFFICES ASSUME Inv PROVE FollowsAdopted /\ OneOfThem
  OBVIOUS
<1>1. PICK h, e : h = heap /\ e = Env
  OBVIOUS
<1>2. FollowRight(h, e) /\ RaceRight(h, e) /\ e.follows = follows /\ e.made = made /\ e.settles = settles
  BY <1>1, RightTyped DEF Inv, OInv, Core, Env
<1>3. FollowsAdopted
  BY <1>1, <1>2 DEF FollowRight, Bound, Loose, FollowsAdopted
<1>4. OneOfThem
  BY <1>1, <1>2 DEF RaceRight, LooseRace, Loose, OneOfThem, Created
<1> QED BY <1>3, <1>4

LEMMA InvAll == Inv => AllOfThem
<1> SUFFICES ASSUME Inv PROVE AllOfThem
  OBVIOUS
<1>1. PICK h, e : h = heap /\ e = Env
  OBVIOUS
<1>2. AllsRight(h, e, 0, {}) /\ e.made = made
  BY <1>1, RightTyped DEF Inv, OInv, Env
<1> SUFFICES ASSUME NEW a \in Created, made[a].by = "all"
             PROVE  LET Entry(i) == made[a].of[i]
                        Done(i)  == Entry(i).is # "promise" \/ heap.state[Entry(i).of] = "fulfilled"
                        Value(i) == IF Entry(i).is = "promise" THEN heap.result[Entry(i).of] ELSE Entry(i)
                    IN  /\ heap.state[a] = "fulfilled" =>
                             \A i \in 1 .. 2 : Done(i) /\ heap.array[a][i] = Value(i)
                        /\ heap.state[a] = "rejected" =>
                             \E i \in 1 .. 2 : /\ ~Done(i) /\ heap.state[Entry(i).of] = "rejected"
                                               /\ heap.result[a] = Value(i)
  BY DEF AllOfThem
<1> DEFINE Entry(i) == made[a].of[i]
           Done(i)  == Entry(i).is # "promise" \/ heap.state[Entry(i).of] = "fulfilled"
           Value(i) == IF Entry(i).is = "promise" THEN heap.result[Entry(i).of] ELSE Entry(i)
<1>3. AllRight(h, e, a, {})
  BY <1>2 DEF AllsRight, Created
<1>4. heap.state[a] = "fulfilled" => \A i \in 1 .. 2 : Done(i) /\ heap.array[a][i] = Value(i)
  BY <1>1, <1>2, <1>3 DEF AllRight, Counted
<1>5. heap.state[a] = "rejected" =>
         \E i \in 1 .. 2 : /\ ~Done(i) /\ heap.state[Entry(i).of] = "rejected"
                           /\ heap.result[a] = Value(i)
  <2> SUFFICES ASSUME heap.state[a] = "rejected"
               PROVE  \E i \in 1 .. 2 : /\ ~Done(i) /\ heap.state[Entry(i).of] = "rejected"
                                        /\ heap.result[a] = Value(i)
    OBVIOUS
  <2>1. PICK i \in 1 .. 2 : \E p \in Ids :
          e.made[a].of[i] = Own(p) /\ h.state[p] = "rejected" /\ h.result[a] = h.result[p]
    BY <1>1, <1>3 DEF AllRight
  <2>2. Entry(i).is = "promise" /\ heap.state[Entry(i).of] = "rejected" /\ heap.result[a] = heap.result[Entry(i).of]
    BY <1>1, <1>2, <2>1, OwnFields
  <2> QED BY <2>2
<1> QED BY <1>4, <1>5

\* Outcomes: promises settle with what they adopted, handlers are called once,
\* with the outcome and in the order of the calls of then, all and race have the
\* outcome of their entries, and every variable has its type.
THEOREM OutcomesAreRight == Spec => []OutcomesRight
<1>1. Init => Inv
  <2>1. Init => flushing \in BOOLEAN
    BY DEF Init
  <2> QED BY <2>1, InitPInv, InitOInv DEF Inv
<1>2. Inv /\ [Next]_vars => Inv'
  BY NextInv
<1>3. Inv => OutcomesRight
  <2>1. Inv => FulfilledPlainly /\ WorkIsScheduled
    BY DEF Inv, PInv, Sound, Final, FulfilledPlainly, WorkIsScheduled
  <2> QED BY <2>1, InvTyped, InvHandled, InvFollows, InvAll DEF OutcomesRight
<1> QED BY <1>1, <1>2, <1>3, PTL DEF Spec
=============================================================================

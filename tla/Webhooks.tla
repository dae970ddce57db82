------------------------------ MODULE Webhooks -------------------------------
(***************************************************************************)
(* Webhooks.API and WebhookClient.  A subscription is stored when its      *)
(* receiver has granted it: GrantUrlTesterService asks the grant url with  *)
(* the token, and the check of WebhookClient answers.  Hooks are then sent *)
(* to the stored url with the stored token, and WebhookClient keeps those  *)
(* it accepts in a list.  (WebhooksSender has no caller in the repository: *)
(* the model lets it send to any subscription at any time.)                *)
(*                                                                         *)
(* Saves are repeated by EF Core when they got no acknowledgement; the ids *)
(* of subscriptions are drawn by the database at each insert.              *)
(***************************************************************************)
EXTENDS Naturals, Sequences, FiniteSets

CONSTANTS
    Posts,      \* requests that subscribe
    Deletes,    \* requests that unsubscribe
    Hooks,      \* hooks that are sent
    Tokens,     \* tokens that are not blank
    Blank,      \* the empty token
    MaxSaves,   \* bound of the repetitions of one save
    None        \* no token, no header

Texts    == Tokens \cup {Blank, None}
Origins  == {"client", "other"}
Ids      == 1 .. (MaxSaves + 1) * Cardinality(Posts)

VARIABLES
    validate, token,   \* settings of WebhookClient
    subscriptions,     \* table: id -> row, or None
    nextId,            \* next value of the identity column
    pc,                \* where each post and each delete is, and its answer
    post,              \* body of each post: url and grant url (their origins), token
    target,            \* id that a delete names
    repeats,           \* repetitions of its save
    storedBy,          \* (history) post that stored each id
    hpc, header,       \* hooks under way, and the header they carry
    seen,              \* size of the list that AddNew has read
    list, size,        \* slots of InMemoryHooksRepository, and how many count
    alone              \* (history) hooks that no other was received at the same time as

settings == <<validate, token>>
apiVars  == <<subscriptions, nextId, pc, post, target, repeats, storedBy>>
hookVars == <<hpc, header, seen, list, size, alone>>
vars     == <<settings, apiVars, hookVars>>

Init ==
    /\ validate \in BOOLEAN
    /\ token \in Texts
    /\ subscriptions = [i \in Ids |-> None]
    /\ nextId = 1
    /\ pc = [r \in Posts \cup Deletes |-> "idle"]
    /\ post = [p \in Posts |-> None]
    /\ target = [d \in Deletes |-> 1]
    /\ repeats = [r \in Posts \cup Deletes |-> 0]
    /\ storedBy = [i \in Ids |-> None]
    /\ hpc = [h \in Hooks |-> "idle"]
    /\ header = [h \in Hooks |-> None]
    /\ seen = [h \in Hooks |-> 0]
    /\ list = [n \in 1 .. Cardinality(Hooks) |-> None]
    /\ size = 0
    /\ alone = Hooks

-----------------------------------------------------------------------------
(* Granting.                                                               *)

\* Answer of a receiver: success or not, and the header with a token.
Answer(ok, text) == [ok |-> ok, header |-> text]
NotBlank(text)   == IF text = Blank THEN None ELSE text

\* The /check of WebhookClient.  A wrong token: the body is begun before the
\* status is set, which then fails, and the caller gets no complete answer.
Check(text) ==
    IF ~validate \/ text = token THEN Answer(TRUE, NotBlank(token)) ELSE Answer(FALSE, None)

\* Token that TestGrantUrl sends for one in the body of a post.
Sent(text) == IF text = None THEN Blank ELSE text

\* Answers to the OPTIONS message; a receiver elsewhere may answer anything.
Answers(origin, text) ==
    IF origin = "client" THEN {Check(text)} ELSE [ok : BOOLEAN, header : Texts]

\* Mutant: only the status is looked at.
GrantedByStatus(answer, text) == answer.ok

\* TestGrantUrl, for a url and grant url of one origin.
Granted(answer, text) == answer.ok /\ answer.header = NotBlank(text)

-----------------------------------------------------------------------------
(* Webhooks.API.                                                           *)

\* SubscribeWebhook up to the answer of the grant url.
SubscribeWebhook(p, body) ==
    /\ pc[p] = "idle"
    /\ post' = [post EXCEPT ![p] = body]
    /\ IF body.url # body.grantUrl
       THEN pc' = [pc EXCEPT ![p] = "refused"]
       ELSE \E a \in Answers(body.grantUrl, Sent(body.token)) :
              pc' = [pc EXCEPT ![p] =
                        IF Granted(a, Sent(body.token)) THEN "save" ELSE "refused"]
    /\ UNCHANGED <<settings, subscriptions, nextId, target, repeats, storedBy, hookVars>>

\* Mutant: the row gets the id the request came with, and replaces one there.
StoreFirst(p) ==
    /\ subscriptions' = [subscriptions EXCEPT ![1] =
                            [url |-> post[p].url, token |-> post[p].token]]
    /\ nextId' = nextId
    /\ storedBy' = [storedBy EXCEPT ![1] = p]

\* The row is inserted, under the next id.
Store(p) ==
    /\ subscriptions' = [subscriptions EXCEPT ![nextId] =
                            [url |-> post[p].url, token |-> post[p].token]]
    /\ nextId' = nextId + 1
    /\ storedBy' = [storedBy EXCEPT ![nextId] = p]

\* SingleOrDefaultAsync of UnsubscribeWebhook.
UnsubscribeWebhook(d, i) ==
    /\ pc[d] = "idle"
    /\ target' = [target EXCEPT ![d] = i]
    /\ pc' = [pc EXCEPT ![d] = IF subscriptions[i] = None THEN "notFound" ELSE "save"]
    /\ UNCHANGED <<settings, subscriptions, nextId, post, repeats, storedBy, hookVars>>

\* Mutant: a deletion that affects no row is taken for one that does.
AcceptedGone(r) == TRUE

\* The save affects the row it expects: a deletion of one that is gone fails.
Accepted(r) == r \in Deletes => subscriptions[target[r]] # None

Commit(r) ==
    /\ pc[r] = "save"
    /\ Accepted(r)
    /\ \/ r \in Posts /\ Store(r)
       \/ /\ r \in Deletes
          /\ subscriptions' = [subscriptions EXCEPT ![target[r]] = None]
          /\ UNCHANGED <<nextId, storedBy>>
    /\ UNCHANGED <<settings, post, target, hookVars>>

\* SaveChangesAsync returns: 201 or 202.
Save(r) ==
    /\ Commit(r)
    /\ pc' = [pc EXCEPT ![r] = "ok"]
    /\ UNCHANGED repeats

\* The connection is lost after the commit: the strategy repeats the save.
Unacknowledged(r) ==
    /\ repeats[r] < MaxSaves
    /\ Commit(r)
    /\ repeats' = [repeats EXCEPT ![r] = @ + 1]
    /\ UNCHANGED pc

\* The save fails, or the process stops: 500 or no answer.
Fails(r) ==
    /\ pc[r] = "save"
    /\ pc' = [pc EXCEPT ![r] = "error"]
    /\ UNCHANGED <<settings, subscriptions, nextId, post, target, repeats, storedBy, hookVars>>

-----------------------------------------------------------------------------
(* Hooks.                                                                  *)

\* The condition of NewWebhook.
AcceptsHook(text) == ~validate \/ token = text

\* WebhooksSender: no header for a blank token.
OnSendData(h, i) ==
    /\ hpc[h] = "idle"
    /\ subscriptions[i] # None /\ subscriptions[i].url = "client"
    /\ header' = [header EXCEPT ![h] = NotBlank(subscriptions[i].token)]
    /\ hpc' = [hpc EXCEPT ![h] = IF AcceptsHook(header'[h]) THEN "accepted" ELSE "refused"]
    /\ UNCHANGED <<settings, apiVars, seen, list, size, alone>>

Overlapping == {h \in Hooks : hpc[h] \in {"read", "grown"}}

\* AddNew is List.Add, without a lock: the size is read ...
AddReads(h) ==
    /\ hpc[h] = "accepted"
    /\ hpc' = [hpc EXCEPT ![h] = "read"]
    /\ seen' = [seen EXCEPT ![h] = size]
    /\ alone' = IF Overlapping = {} THEN alone ELSE alone \ (Overlapping \cup {h})
    /\ UNCHANGED <<settings, apiVars, header, list, size>>

\* ... and written ...
AddGrows(h) ==
    /\ hpc[h] = "read"
    /\ hpc' = [hpc EXCEPT ![h] = "grown"]
    /\ size' = seen[h] + 1
    /\ UNCHANGED <<settings, apiVars, header, seen, list, alone>>

\* Mutant: the slot is the last of those that were read.
SlotBefore(h) == seen[h]

\* The slot after those that were read.
Slot(h) == seen[h] + 1

\* ... and the slot is filled.
AddStores(h) ==
    /\ hpc[h] = "grown"
    /\ hpc' = [hpc EXCEPT ![h] = "ok"]
    /\ list' = [list EXCEPT ![Slot(h)] = h]
    /\ UNCHANGED <<settings, apiVars, header, seen, size, alone>>

-----------------------------------------------------------------------------
Next ==
    \/ \E p \in Posts :
         \E body \in [url : Origins, grantUrl : Origins, token : Texts] : SubscribeWebhook(p, body)
    \/ \E d \in Deletes, i \in Ids : UnsubscribeWebhook(d, i)
    \/ \E r \in Posts \cup Deletes : Save(r) \/ Unacknowledged(r) \/ Fails(r)
    \/ \E h \in Hooks :
         \/ \E i \in Ids : OnSendData(h, i)
         \/ AddReads(h) \/ AddGrows(h) \/ AddStores(h)

Spec == Init /\ [][Next]_vars

-----------------------------------------------------------------------------
(* Properties.                                                             *)

\* What a subscription that the client granted promises: hooks sent for it are
\* accepted, and a token they carry is the client's.  The exception is a client
\* that validates and whose token is set to the empty text: it grants the blank
\* token, and refuses the hook because no header is not the empty text.
GrantedHooksAccepted ==
    \A i \in Ids :
        LET row == subscriptions[i]
        IN  row # None /\ row.url = "client" =>
              /\ NotBlank(row.token) = NotBlank(token)
              /\ ~(validate /\ token = Blank) => AcceptsHook(NotBlank(row.token))

\* A post that is answered 201 has stored its row, one that is refused none, and
\* two only when an acknowledgement was lost and the insert repeated.
RowsOfPost ==
    \A p \in Posts :
        LET rows == {i \in Ids : storedBy[i] = p}
        IN  /\ pc[p] = "refused" => rows = {}
            /\ pc[p] = "ok" => Cardinality(rows) = 1 + repeats[p]
            /\ Cardinality(rows) <= 1 + repeats[p]

\* Ids are never used again, and of all the deletions of one at most one is told
\* that it deleted it: the others find no row, or fail.
UnsubscribedOnce ==
    /\ \A d, e \in Deletes : pc[d] = "ok" /\ pc[e] = "ok" /\ target[d] = target[e] => d = e
    /\ \A d \in Deletes : pc[d] = "ok" => subscriptions[target[d]] = None

\* A hook that is answered 200 is in the list that the page shows, unless another
\* was received while it was added.
ReceivedIsListed ==
    \A h \in Hooks : hpc[h] = "ok" /\ h \in alone =>
        \E n \in 1 .. size : list[n] = h

\* Granting, storing, deleting and receiving, in one.
HooksExplained == GrantedHooksAccepted /\ RowsOfPost /\ UnsubscribedOnce /\ ReceivedIsListed
=============================================================================

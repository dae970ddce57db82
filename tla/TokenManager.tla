---------------------------- MODULE TokenManager ----------------------------
(***************************************************************************)
(* oidc-token-manager.js, which Basket.API ships for its Swagger page: the *)
(* TokenManager of each of several windows of one browser, and the         *)
(* OidcClient it asks for tokens.                                          *)
(*                                                                         *)
(* The windows share localStorage, with one key for the token and one for  *)
(* the state of the request under way.  They hear of each other's writes   *)
(* by storage events, which are delivered later.  A window asks for a      *)
(* token by leaving for the authorization server, in a popup or in a       *)
(* hidden frame; answers, timers and the user come in any order.           *)
(*                                                                         *)
(* A request stands for the random state and nonce it draws.  Time is the  *)
(* clock of the tokens, in whole units; timers fire when it has come to    *)
(* their deadline, or later.  The timeouts of popup and frame are short    *)
(* against it and may fire at any moment.                                  *)
(***************************************************************************)
EXTENDS Integers

CONSTANTS
    Windows,    \* windows of one origin, each with a TokenManager
    Requests,   \* token requests: the state and nonce drawn by each
    Lives,      \* values of expires_in found in answers
    Lead,       \* how long before its end a token is "expiring" (60 s)
    Patience,   \* times redirectPopup looks for its popup (10)
    MaxNow,     \* bound of the clock
    None        \* null, undefined: no token, no request, no timer

ASSUME TimeAssumption ==
    /\ Lives \subseteq Nat /\ Lead \in Nat /\ Patience \in Nat /\ MaxNow \in Nat
    /\ None \notin Nat \cup Requests \cup [by : Requests, exp : Nat]

VARIABLES
    silent,      \* setting silent_renew, the same in every window
    now,         \* Date.now()
    store,       \* localStorage[persistKey]
    state,       \* localStorage[request_state_key]
    page,        \* whether each window shows a page with a manager
    token,       \* mgr._token
    expiredAt,   \* deadline of the timer of configureTokenExpired
    expiringAt,  \* deadline of the timer of configureTokenExpiring
    due,         \* the expiring callback has called renewTokenSilentAsync
    events,      \* storage events on their way to each window
    busy,        \* mgr._pendingPopup
    pc,          \* where each request is
    kind,        \* how it asks: "redirect", "popup" or "frame"
    win,         \* the window that asks
    promise,     \* what the promise of the request came to
    popup,       \* the popup window of the request
    watched,     \* its checkClosed interval is set
    looks,       \* rounds of redirectPopup so far, None when it is not running
    met          \* (history) requests that were open together with each

timers  == <<expiredAt, expiringAt, due>>
winVars == <<page, token, timers, events>>
popVars == <<busy, popup, watched, looks>>
reqVars == <<kind, win, promise, met>>
vars    == <<silent, now, store, state, winVars, popVars, pc, reqVars>>

Tokens == [by : Requests, exp : Nat]

\* Token.expired, and a token as its getters show it.
Expired(t) == t.exp < now
Shown(t)   == IF t # None /\ ~Expired(t) THEN t ELSE None

InFlight == {"metadata", "waiting", "back", "validating"}

Init ==
    /\ silent \in BOOLEAN
    /\ now = 0
    /\ store = None
    /\ state = None
    /\ page = [w \in Windows |-> "open"]
    /\ token = [w \in Windows |-> None]
    /\ expiredAt = [w \in Windows |-> None]
    /\ expiringAt = [w \in Windows |-> None]
    /\ due = [w \in Windows |-> FALSE]
    /\ events = [w \in Windows |-> 0]
    /\ busy = [w \in Windows |-> FALSE]
    /\ pc = [r \in Requests |-> "idle"]
    /\ kind = [r \in Requests |-> None]
    /\ win = [r \in Requests |-> None]
    /\ promise = [r \in Requests |-> "pending"]
    /\ popup = [r \in Requests |-> "none"]
    /\ watched = [r \in Requests |-> FALSE]
    /\ looks = [r \in Requests |-> None]
    /\ met = [r \in Requests |-> {}]

-----------------------------------------------------------------------------
(* The token of a window and its timers.                                   *)

\* Mutant: the removal of a token leaves the expired timer set.
ConfigureNotCancelled(w, t) ==
    /\ expiredAt' = [expiredAt EXCEPT ![w] =
           IF t = None THEN @ ELSE IF t.exp > now THEN t.exp + 1 ELSE None]
    /\ expiringAt' = [expiringAt EXCEPT ![w] =
           IF t # None /\ t.exp - now > Lead THEN t.exp - Lead ELSE None]
    /\ due' = [due EXCEPT ![w] =
           @ \/ (silent /\ Shown(t) # None /\ t.exp - now <= Lead)]

\* configure() of the two timers when the manager has obtained token t, cancel()
\* when t is None.  The expired timer is set one unit after the end; a token
\* near its end is reported as expiring at once.
Configure(w, t) ==
    /\ expiredAt' = [expiredAt EXCEPT ![w] =
           IF t # None /\ t.exp > now THEN t.exp + 1 ELSE None]
    /\ expiringAt' = [expiringAt EXCEPT ![w] =
           IF t # None /\ t.exp - now > Lead THEN t.exp - Lead ELSE None]
    /\ due' = [due EXCEPT ![w] =
           @ \/ (silent /\ Shown(t) # None /\ t.exp - now <= Lead)]

\* Every other page hears of a change of the stored token.
Notify(w, t) ==
    /\ store' = t
    /\ events' = [v \in Windows |->
           IF v # w /\ page[v] = "open" /\ t # store THEN events[v] + 1
           ELSE events[v]]

\* saveToken: an expired token is kept in memory and taken out of the store.
SaveToken(w, t) ==
    /\ token' = [token EXCEPT ![w] = t]
    /\ Notify(w, Shown(t))
    /\ Configure(w, t)

\* loadToken, from the constructor or on a storage event.
LoadToken(w) ==
    /\ token' = [token EXCEPT ![w] = Shown(store)]
    /\ Configure(w, Shown(store))

\* Mutant: the removal of the stored token is not taken notice of.
StorageEventObtained(w) ==
    /\ page[w] = "open" /\ events[w] > 0
    /\ events' = [events EXCEPT ![w] = @ - 1]
    /\ IF store = None THEN UNCHANGED <<token, timers>> ELSE LoadToken(w)
    /\ UNCHANGED <<silent, now, store, state, page, popVars, pc, reqVars>>

\* The handler reads the store, not the event.
StorageEvent(w) ==
    /\ page[w] = "open" /\ events[w] > 0
    /\ events' = [events EXCEPT ![w] = @ - 1]
    /\ LoadToken(w)
    /\ UNCHANGED <<silent, now, store, state, page, popVars, pc, reqVars>>

TokenExpiring(w) ==
    /\ expiringAt[w] # None /\ now >= expiringAt[w]
    /\ expiringAt' = [expiringAt EXCEPT ![w] = None]
    /\ due' = [due EXCEPT ![w] = @ \/ silent]
    /\ UNCHANGED <<silent, now, store, state, page, token, expiredAt, events,
                   popVars, pc, reqVars>>

\* The timer clears whatever token is there by now, in memory and in the store.
TokenExpired(w) ==
    /\ expiredAt[w] # None /\ now >= expiredAt[w]
    /\ SaveToken(w, None)
    /\ UNCHANGED <<silent, now, state, page, popVars, pc, reqVars>>

Tick ==
    /\ now < MaxNow
    /\ now' = now + 1
    /\ UNCHANGED <<silent, store, state, winVars, popVars, pc, reqVars>>

-----------------------------------------------------------------------------
(* Pages come and go: redirects, logout, reload.                           *)

\* What window w has under way ends with its page, but for the request k; the
\* popups it opened have nobody to answer to.
Leave(w, k) ==
    /\ page' = [page EXCEPT ![w] = "away"]
    /\ token' = [token EXCEPT ![w] = None]
    /\ expiredAt' = [expiredAt EXCEPT ![w] = None]
    /\ expiringAt' = [expiringAt EXCEPT ![w] = None]
    /\ due' = [due EXCEPT ![w] = FALSE]
    /\ busy' = [busy EXCEPT ![w] = FALSE]
    /\ popup' = [r \in Requests |-> IF win[r] = w THEN "none" ELSE popup[r]]
    /\ watched' = [r \in Requests |-> win[r] # w /\ watched[r]]
    /\ looks' = [r \in Requests |-> IF win[r] = w THEN None ELSE looks[r]]
    /\ pc' = [r \in Requests |->
           IF r = k THEN "waiting"
           ELSE IF win[r] = w /\ pc[r] \in InFlight THEN "gone" ELSE pc[r]]

\* The user reloads or leaves the page, or it crashes.
Unload(w) ==
    /\ page[w] = "open"
    /\ Leave(w, None)
    /\ UNCHANGED <<silent, now, store, state, events, reqVars>>

\* redirectForLogout, once it has its url.
Logout(w) ==
    /\ page[w] = "open"
    /\ Leave(w, None)
    /\ Notify(w, None)
    /\ UNCHANGED <<silent, now, state, reqVars>>

\* A page of the application: the constructor of TokenManager.  The request the
\* window left for is back with its answer, or will not be answered.
Load(w) ==
    /\ page[w] = "away"
    /\ page' = [page EXCEPT ![w] = "open"]
    /\ events' = [events EXCEPT ![w] = 0]
    /\ LoadToken(w)
    /\ \E next \in {"back", "gone"} :
          pc' = [r \in Requests |->
                    IF win[r] = w /\ pc[r] = "waiting" THEN next ELSE pc[r]]
    /\ UNCHANGED <<silent, now, store, state, popVars, reqVars>>

-----------------------------------------------------------------------------
(* Requests: createTokenRequestAsync.                                      *)

Settle(r, outcome) ==
    promise' = [promise EXCEPT ![r] = IF @ = "pending" THEN outcome ELSE @]

Begin(w, r, k) ==
    /\ page[w] = "open" /\ pc[r] = "idle"
    /\ kind' = [kind EXCEPT ![r] = k]
    /\ win' = [win EXCEPT ![r] = w]
    /\ UNCHANGED <<silent, now, store, state, page, token, expiredAt,
                   expiringAt, events, met>>

\* redirectForToken.
RedirectForToken(w, r) ==
    /\ Begin(w, r, "redirect")
    /\ pc' = [pc EXCEPT ![r] = "metadata"]
    /\ UNCHANGED <<due, popVars, promise>>

\* renewTokenSilentAsync, called by the application or by the expiring callback.
RenewTokenSilent(w, r) ==
    /\ Begin(w, r, "frame")
    /\ pc' = [pc EXCEPT ![r] = "metadata"]
    /\ due' = [due EXCEPT ![w] = FALSE]
    /\ UNCHANGED <<popVars, promise>>

\* openPopupForTokenAsync: one popup at a time, and the browser may refuse it.
PopupRefused(w, r) ==
    /\ Begin(w, r, "popup")
    /\ pc' = [pc EXCEPT ![r] = "failed"]
    /\ Settle(r, "rejected")
    /\ UNCHANGED <<due, popVars>>

\* Mutant: the pending popup is not looked at.
OpenPopupAnyway(w, r) ==
    /\ Begin(w, r, "popup")
    /\ busy' = [busy EXCEPT ![w] = TRUE]
    /\ popup' = [popup EXCEPT ![r] = "loading"]
    /\ watched' = [watched EXCEPT ![r] = TRUE]
    /\ pc' = [pc EXCEPT ![r] = "metadata"]
    /\ UNCHANGED <<due, looks, promise>>

OpenPopup(w, r) ==
    /\ Begin(w, r, "popup")
    /\ ~busy[w]
    /\ busy' = [busy EXCEPT ![w] = TRUE]
    /\ popup' = [popup EXCEPT ![r] = "loading"]
    /\ watched' = [watched EXCEPT ![r] = TRUE]
    /\ pc' = [pc EXCEPT ![r] = "metadata"]
    /\ UNCHANGED <<due, looks, promise>>

\* Mutant: the mark of the manager stays.
CleanupKeepsMark(r) ==
    /\ watched' = [watched EXCEPT ![r] = FALSE]
    /\ popup' = [popup EXCEPT ![r] = "closed"]
    /\ UNCHANGED busy

\* cleanup(): the interval, the popup, the mark of the manager.
Cleanup(r) ==
    /\ watched' = [watched EXCEPT ![r] = FALSE]
    /\ popup' = [popup EXCEPT ![r] = "closed"]
    /\ busy' = [busy EXCEPT ![win[r]] = FALSE]

\* Mutant: one look more.
RedirectPopupOnceMore(r, look) ==
    /\ looks' = [looks EXCEPT ![r] =
           IF popup[r] # "ready" /\ look <= Patience THEN look + 1 ELSE None]
    /\ popup' = [popup EXCEPT ![r] = IF @ = "ready" THEN "server" ELSE @]
    /\ pc' = [pc EXCEPT ![r] = "waiting"]
    /\ UNCHANGED <<busy, watched, promise>>

\* Mutant: once it is at the server the popup is not watched any more.
RedirectPopupUnwatched(r, look) ==
    \/ /\ popup[r] = "ready"
       /\ popup' = [popup EXCEPT ![r] = "server"]
       /\ looks' = [looks EXCEPT ![r] = None]
       /\ watched' = [watched EXCEPT ![r] = FALSE]
       /\ pc' = [pc EXCEPT ![r] = "waiting"]
       /\ UNCHANGED <<busy, promise>>
    \/ /\ popup[r] # "ready"
       /\ Cleanup(r)
       /\ looks' = [looks EXCEPT ![r] = None]
       /\ pc' = [pc EXCEPT ![r] = "failed"]
       /\ Settle(r, "rejected")

\* redirectPopup: navigate the popup if its page has set setUrl, look again
\* later if it has not, give up in the end.
RedirectPopup(r, look) ==
    \/ /\ popup[r] = "ready"
       /\ popup' = [popup EXCEPT ![r] = "server"]
       /\ looks' = [looks EXCEPT ![r] = None]
       /\ pc' = [pc EXCEPT ![r] = "waiting"]
       /\ UNCHANGED <<busy, watched, promise>>
    \/ /\ popup[r] # "ready" /\ look < Patience
       /\ looks' = [looks EXCEPT ![r] = look + 1]
       /\ pc' = [pc EXCEPT ![r] = "waiting"]
       /\ UNCHANGED <<busy, popup, watched, promise>>
    \/ /\ popup[r] # "ready" /\ look = Patience
       /\ Cleanup(r)
       /\ looks' = [looks EXCEPT ![r] = None]
       /\ pc' = [pc EXCEPT ![r] = "failed"]
       /\ Settle(r, "rejected")

\* A request that may still be answered.
Open(r) == pc[r] = "back" \/ (pc[r] = "waiting" /\ popup[r] # "closed")

\* The authorization endpoint is known: the state goes to the store, over what
\* is there, and the user agent to the authorization server.
TokenRequest(r) ==
    /\ pc[r] = "metadata"
    /\ state' = r
    /\ met' = [q \in Requests |->
           IF q = r THEN {p \in Requests : Open(p)}
           ELSE IF Open(q) THEN met[q] \cup {r} ELSE met[q]]
    /\ \/ /\ kind[r] = "redirect"
          /\ Leave(win[r], r)
          /\ UNCHANGED <<events, promise>>
       \/ /\ kind[r] = "frame"
          /\ pc' = [pc EXCEPT ![r] = "waiting"]
          /\ UNCHANGED <<winVars, popVars, promise>>
       \/ /\ kind[r] = "popup"
          /\ RedirectPopup(r, 0)
          /\ UNCHANGED winVars
    /\ UNCHANGED <<silent, now, store, kind, win>>

\* The metadata cannot be loaded.
TokenRequestFails(r) ==
    /\ pc[r] = "metadata"
    /\ pc' = [pc EXCEPT ![r] = "failed"]
    /\ Settle(r, "rejected")
    /\ IF kind[r] = "popup" THEN Cleanup(r) ELSE UNCHANGED <<watched, popup, busy>>
    /\ UNCHANGED <<silent, now, store, state, winVars, looks, kind, win, met>>

LookAgain(r) ==
    /\ looks[r] # None
    /\ RedirectPopup(r, looks[r])
    /\ UNCHANGED <<silent, now, store, state, winVars, kind, win, met>>

\* processTokenPopup in the popup sets setUrl.
PopupLoads(r) ==
    /\ popup[r] = "loading"
    /\ popup' = [popup EXCEPT ![r] = "ready"]
    /\ UNCHANGED <<silent, now, store, state, winVars, busy, watched, looks, pc,
                   reqVars>>

PopupClosed(r) ==
    /\ popup[r] \in {"loading", "ready", "server"}
    /\ popup' = [popup EXCEPT ![r] = "closed"]
    /\ UNCHANGED <<silent, now, store, state, winVars, busy, watched, looks, pc,
                   reqVars>>

\* Mutant: the state in the store goes with the popup.
CheckClosedForgets(r) ==
    /\ watched[r] /\ popup[r] = "closed"
    /\ Cleanup(r)
    /\ state' = None
    /\ Settle(r, "rejected")
    /\ UNCHANGED <<silent, now, store, winVars, looks, pc, kind, win, met>>

\* checkClosed: rejects, but leaves callback and redirectPopup behind.
CheckClosed(r) ==
    /\ watched[r] /\ popup[r] = "closed"
    /\ Cleanup(r)
    /\ Settle(r, "rejected")
    /\ UNCHANGED <<silent, now, store, state, winVars, looks, pc, kind, win,
                   met>>

\* The cancelDelay of the frame is over.
CancelFrame(r) ==
    /\ pc[r] = "waiting" /\ kind[r] = "frame"
    /\ pc' = [pc EXCEPT ![r] = "failed"]
    /\ Settle(r, "rejected")
    /\ UNCHANGED <<silent, now, store, state, winVars, popVars, kind, win, met>>

-----------------------------------------------------------------------------
(* Answers: processResponseAsync.                                          *)

\* The answer to r is at its window: in the fragment of the page, posted by the
\* frame, or passed by the popup to the callback of its state.
Answered(r) ==
    \/ pc[r] = "back"
    \/ pc[r] = "waiting" /\ kind[r] = "frame"
    \/ pc[r] = "waiting" /\ popup[r] = "server"

\* Mutant: the state of the answer is not compared.
AnswerAnyState(r, good) ==
    /\ Answered(r)
    /\ IF kind[r] = "popup" THEN Cleanup(r) ELSE UNCHANGED <<watched, popup, busy>>
    /\ state' = None
    /\ pc' = [pc EXCEPT ![r] = IF good THEN "validating" ELSE "failed"]
    /\ UNCHANGED <<silent, now, store, winVars, looks, reqVars>>

\* The state is taken out of the store whatever the answer; the answer counts
\* if it was no error and bears that state.
Answer(r, good) ==
    /\ Answered(r)
    /\ IF kind[r] = "popup" THEN Cleanup(r) ELSE UNCHANGED <<watched, popup, busy>>
    /\ state' = None
    /\ IF good /\ state = r
       THEN /\ pc' = [pc EXCEPT ![r] = "validating"]
            /\ UNCHANGED promise
       ELSE /\ pc' = [pc EXCEPT ![r] = "failed"]
            /\ Settle(r, "rejected")
    /\ UNCHANGED <<silent, now, store, winVars, looks, kind, win, met>>

\* Signature, nonce, issuer, times and user profile are in order: saveToken.
Validated(r, life) ==
    /\ pc[r] = "validating"
    /\ SaveToken(win[r], [by |-> r, exp |-> now + life])
    /\ pc' = [pc EXCEPT ![r] = "done"]
    /\ Settle(r, "resolved")
    /\ UNCHANGED <<silent, now, state, page, popVars, kind, win, met>>

\* Mutant: a token that does not validate replaces the one in place.
InvalidClears(r) ==
    /\ pc[r] = "validating"
    /\ SaveToken(win[r], None)
    /\ pc' = [pc EXCEPT ![r] = "failed"]
    /\ Settle(r, "rejected")
    /\ UNCHANGED <<silent, now, state, page, popVars, kind, win, met>>

Invalid(r) ==
    /\ pc[r] = "validating"
    /\ pc' = [pc EXCEPT ![r] = "failed"]
    /\ Settle(r, "rejected")
    /\ UNCHANGED <<silent, now, store, state, winVars, popVars, kind, win, met>>

-----------------------------------------------------------------------------
Call(r) ==
    \E w \in Windows : \/ RedirectForToken(w, r) \/ RenewTokenSilent(w, r)
                       \/ OpenPopup(w, r) \/ PopupRefused(w, r)

\* What the script does by itself.
Script(r) ==
    \/ LookAgain(r) \/ CheckClosed(r)
    \/ TokenRequest(r) \/ TokenRequestFails(r)
    \/ \E life \in Lives : Validated(r, life)
    \/ Invalid(r)

Window(w) == StorageEvent(w) \/ TokenExpiring(w) \/ TokenExpired(w)

Next ==
    \/ Tick
    \/ \E w \in Windows : Window(w) \/ Unload(w) \/ Logout(w) \/ Load(w)
    \/ \E r \in Requests :
         \/ Call(r) \/ Script(r)
         \/ PopupLoads(r) \/ PopupClosed(r) \/ CancelFrame(r)
         \/ \E good \in BOOLEAN : Answer(r, good)

Spec == Init /\ [][Next]_vars

\* Timers, intervals and storage events are served and network requests end;
\* nothing says that users or the authorization server ever do anything.
Fairness ==
    /\ \A w \in Windows : WF_vars(StorageEvent(w)) /\ WF_vars(TokenExpired(w))
    /\ \A r \in Requests : WF_vars(Script(r))

FairSpec == Spec /\ Fairness

-----------------------------------------------------------------------------
(* Properties.                                                             *)

\* Every variable has its type.
TypeOK ==
    /\ silent \in BOOLEAN
    /\ now \in 0 .. MaxNow
    /\ store \in Tokens \cup {None}
    /\ state \in Requests \cup {None}
    /\ page \in [Windows -> {"open", "away"}]
    /\ token \in [Windows -> Tokens \cup {None}]
    /\ expiredAt \in [Windows -> Nat \cup {None}]
    /\ expiringAt \in [Windows -> Nat \cup {None}]
    /\ due \in [Windows -> BOOLEAN]
    /\ events \in [Windows -> Nat]
    /\ busy \in [Windows -> BOOLEAN]
    /\ pc \in [Requests -> InFlight \cup {"idle", "done", "failed", "gone"}]
    /\ kind \in [Requests -> {"redirect", "popup", "frame", None}]
    /\ win \in [Requests -> Windows \cup {None}]
    /\ promise \in [Requests -> {"pending", "resolved", "rejected"}]
    /\ popup \in [Requests -> {"none", "loading", "ready", "server", "closed"}]
    /\ watched \in [Requests -> BOOLEAN]
    /\ looks \in [Requests -> 0 .. Patience \cup {None}]
    /\ met \in [Requests -> SUBSET Requests]

\* Windows write one shared token, each with its own copy and timers.  A window
\* that has handled its storage events shows exactly the token that is stored.
Coherent ==
    \A w \in Windows : page[w] = "open" /\ events[w] = 0 =>
        Shown(token[w]) = Shown(store)

\* The two timers of a window are those of the token it has, however often it
\* was replaced; a token without a timer was obtained in its last moment.
TimersFollowToken ==
    \A w \in Windows :
        /\ expiredAt[w] # None => token[w] # None /\ expiredAt[w] = token[w].exp + 1
        /\ expiringAt[w] # None => token[w] # None /\ expiringAt[w] = token[w].exp - Lead
        /\ token[w] # None /\ expiredAt[w] = None => now >= token[w].exp

\* One key holds the state of the request under way.  Of two requests that were
\* open together, from any windows, at most one brings a token.
OneOfOverlapping ==
    \A r \in Requests : \A q \in met[r] :
        ~(pc[r] \in {"validating", "done"} /\ pc[q] \in {"validating", "done"})

\* A request that was alone all along finds its state when its answer comes.
AloneFindsState == \A r \in Requests : Open(r) /\ met[r] = {} => state = r

\* A manager has two popups at a time only after the user closed a third one,
\* whose late cleanup took away the mark of the second.
OnePopup ==
    \A r, q \in Requests :
        /\ r # q /\ win[r] = win[q]
        /\ {popup[r], popup[q]} \subseteq {"loading", "ready", "server"}
        => \E p \in Requests \ {r, q} :
              win[p] = win[r] /\ popup[p] = "closed" /\ promise[p] = "rejected"

\* The mark of a pending popup is never left behind: somebody watches it.
BusyIsWatched ==
    \A w \in Windows : busy[w] => \E r \in Requests : win[r] = w /\ watched[r]

\* A stored token that has not expired is removed by a logout, or by a window
\* whose old token runs out before it has heard of the new one.
FreshTokenKept ==
    [][ Shown(store) # None /\ store' = None =>
          \E w \in Windows : token'[w] = None /\ (page'[w] # page[w] \/ events[w] > 0)
      ]_vars

\* The promise of openPopupForTokenAsync is settled once its popup is closed, by
\* whom and in whatever state.
PopupSettles ==
    \A r \in Requests : popup[r] = "closed" /\ promise[r] = "pending" ~>
        promise[r] # "pending" \/ pc[r] = "gone"

\* Whatever windows, timers and answers do: a window shows the stored token and
\* no other, and lets it expire in time.
TokensShared == TypeOK /\ Coherent /\ TimersFollowToken

\* Requests of one browser spoil each other in no other way than by the one key
\* they share, and a manager's popups are counted right.
RequestsApart == OneOfOverlapping /\ AloneFindsState /\ OnePopup /\ BusyIsWatched
=============================================================================

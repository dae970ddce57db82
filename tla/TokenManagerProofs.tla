------------------------- MODULE TokenManagerProofs -------------------------
(***************************************************************************)
(* Proofs about TokenManager, for any number of windows and requests, any  *)
(* lifetimes and any bound of the clock; and about OidcClient, as the      *)
(* instance C of MCTokenManager, for any calls, keys and ages.             *)
(***************************************************************************)
EXTENDS MCTokenManager, TLAPS

TimerTypes ==
    /\ expiredAt \in [Windows -> Nat \cup {None}]
    /\ expiringAt \in [Windows -> Nat \cup {None}]
    /\ due \in [Windows -> BOOLEAN]

\* A request that has begun has its window.
Placed == \A r \in Requests : pc[r] # "idle" => win[r] \in Windows

LEMMA TokenFacts ==
    /\ \A t \in Tokens : t # None /\ t.exp \in Nat /\ t.by \in Requests
    /\ None \notin Nat /\ None \notin Requests
    /\ \A t \in Tokens \cup {None} : Shown(t) \in Tokens \cup {None}
BY TimeAssumption DEF Tokens, Shown

\* Setting the timers keeps their types.
LEMMA ConfigureTypes ==
    ASSUME TypeOK, NEW w \in Windows, NEW t \in Tokens \cup {None}, Configure(w, t)
    PROVE  TimerTypes'
<1> USE TimeAssumption, TokenFacts DEF TypeOK, TimerTypes, Configure
<1>1. expiredAt' \in [Windows -> Nat \cup {None}]
  OBVIOUS
<1>2. expiringAt' \in [Windows -> Nat \cup {None}]
  <2>1. t # None /\ t.exp - now > Lead => t.exp - Lead \in Nat
    OBVIOUS
  <2> QED
    BY <2>1
<1>3. due' \in [Windows -> BOOLEAN]
  OBVIOUS
<1> QED
  BY <1>1, <1>2, <1>3

LEMMA NotifyTypes ==
    ASSUME TypeOK, NEW w \in Windows, NEW t \in Tokens \cup {None}, Notify(w, t)
    PROVE  (store \in Tokens \cup {None} /\ events \in [Windows -> Nat])'
BY DEF TypeOK, Notify

LEMMA LeaveTypes ==
    ASSUME TypeOK, NEW w \in Windows, NEW k, Leave(w, k)
    PROVE  /\ page' \in [Windows -> {"open", "away"}]
           /\ token' \in [Windows -> Tokens \cup {None}]
           /\ TimerTypes'
           /\ busy' \in [Windows -> BOOLEAN]
           /\ popup' \in [Requests -> {"none", "loading", "ready", "server", "closed"}]
           /\ watched' \in [Requests -> BOOLEAN]
           /\ looks' \in [Requests -> 0 .. Patience \cup {None}]
           /\ pc' \in [Requests -> InFlight \cup {"idle", "done", "failed", "gone"}]
<1> USE DEF TypeOK, Leave, TimerTypes, InFlight
<1>1. /\ page' \in [Windows -> {"open", "away"}]
      /\ token' \in [Windows -> Tokens \cup {None}]
  OBVIOUS
<1>2. TimerTypes'
  OBVIOUS
<1>3. busy' \in [Windows -> BOOLEAN]
  OBVIOUS
<1>4. popup' \in [Requests -> {"none", "loading", "ready", "server", "closed"}]
  OBVIOUS
<1>5. watched' \in [Requests -> BOOLEAN]
  OBVIOUS
<1>6. looks' \in [Requests -> 0 .. Patience \cup {None}]
  OBVIOUS
<1>7. pc' \in [Requests -> InFlight \cup {"idle", "done", "failed", "gone"}]
  OBVIOUS
<1> QED
  BY <1>1, <1>2, <1>3, <1>4, <1>5, <1>6, <1>7

LEMMA RedirectPopupTypes ==
    ASSUME TypeOK, NEW r \in Requests, NEW look \in 0 .. Patience, RedirectPopup(r, look)
    PROVE  /\ pc' \in [Requests -> InFlight \cup {"idle", "done", "failed", "gone"}]
           /\ busy' \in [Windows -> BOOLEAN]
           /\ popup' \in [Requests -> {"none", "loading", "ready", "server", "closed"}]
           /\ watched' \in [Requests -> BOOLEAN]
           /\ looks' \in [Requests -> 0 .. Patience \cup {None}]
           /\ promise' \in [Requests -> {"pending", "resolved", "rejected"}]
<1> USE TimeAssumption DEF TypeOK, RedirectPopup, Cleanup, Settle, InFlight
<1>1. look < Patience => look + 1 \in 0 .. Patience
  OBVIOUS
<1>2. looks' \in [Requests -> 0 .. Patience \cup {None}]
  BY <1>1
<1>3. /\ pc' \in [Requests -> InFlight \cup {"idle", "done", "failed", "gone"}]
      /\ promise' \in [Requests -> {"pending", "resolved", "rejected"}]
  OBVIOUS
<1>4. busy' \in [Windows -> BOOLEAN]
  OBVIOUS
<1>5. /\ popup' \in [Requests -> {"none", "loading", "ready", "server", "closed"}]
      /\ watched' \in [Requests -> BOOLEAN]
  OBVIOUS
<1> QED
  BY <1>2, <1>3, <1>4, <1>5

LEMMA TypeNext ==
    ASSUME TypeOK, Placed, [Next]_vars
    PROVE  TypeOK'
<1> USE TimeAssumption, TokenFacts
<1> USE DEF vars, winVars, popVars, reqVars, timers
<1>1. CASE UNCHANGED vars
  BY <1>1 DEF TypeOK
<1>2. CASE Tick
  BY <1>2 DEF TypeOK, Tick
<1>3. ASSUME NEW w \in Windows, StorageEvent(w)
      PROVE  TypeOK'
  <2>1. TimerTypes'
    BY <1>3, ConfigureTypes DEF StorageEvent, LoadToken, TypeOK
  <2>2. /\ token' \in [Windows -> Tokens \cup {None}]
        /\ events' \in [Windows -> Nat]
    BY <1>3 DEF StorageEvent, LoadToken, TypeOK
  <2> QED
    BY <1>3, <2>1, <2>2 DEF StorageEvent, TypeOK, TimerTypes
<1>4. ASSUME NEW w \in Windows, TokenExpiring(w)
      PROVE  TypeOK'
  BY <1>4 DEF TokenExpiring, TypeOK
<1>5. ASSUME NEW w \in Windows, TokenExpired(w)
      PROVE  TypeOK'
  <2>1. Shown(None) = None
    BY DEF Shown
  <2>2. TimerTypes' /\ (store \in Tokens \cup {None} /\ events \in [Windows -> Nat])'
    BY <1>5, <2>1, ConfigureTypes, NotifyTypes DEF TokenExpired, SaveToken
  <2> QED
    BY <1>5, <2>2 DEF TokenExpired, SaveToken, TypeOK, TimerTypes
<1>6. ASSUME NEW w \in Windows, Unload(w)
      PROVE  TypeOK'
  BY <1>6, LeaveTypes DEF Unload, TypeOK, TimerTypes
<1>7. ASSUME NEW w \in Windows, Logout(w)
      PROVE  TypeOK'
  BY <1>7, LeaveTypes, NotifyTypes DEF Logout, TypeOK, TimerTypes
<1>8. ASSUME NEW w \in Windows, Load(w)
      PROVE  TypeOK'
  <2>1. TimerTypes'
    BY <1>8, ConfigureTypes DEF Load, LoadToken, TypeOK
  <2>2. /\ token' \in [Windows -> Tokens \cup {None}]
        /\ events' \in [Windows -> Nat]
        /\ page' \in [Windows -> {"open", "away"}]
    BY <1>8 DEF Load, LoadToken, TypeOK
  <2>3. pc' \in [Requests -> InFlight \cup {"idle", "done", "failed", "gone"}]
    BY <1>8 DEF Load, TypeOK, InFlight
  <2> QED
    BY <1>8, <2>1, <2>2, <2>3 DEF Load, TypeOK, TimerTypes
<1>9. ASSUME NEW r \in Requests, Call(r)
      PROVE  TypeOK'
  <2>1. PICK w \in Windows : \/ RedirectForToken(w, r) \/ RenewTokenSilent(w, r)
                             \/ OpenPopup(w, r) \/ PopupRefused(w, r)
    BY <1>9 DEF Call
  <2>2. kind' \in [Requests -> {"redirect", "popup", "frame", None}]
        /\ win' \in [Requests -> Windows \cup {None}]
        /\ UNCHANGED <<silent, now, store, state, page, token, expiredAt, expiringAt, events, met>>
    BY <2>1 DEF RedirectForToken, RenewTokenSilent, OpenPopup, PopupRefused, Begin, TypeOK
  <2>3. pc' \in [Requests -> InFlight \cup {"idle", "done", "failed", "gone"}]
        /\ due' \in [Windows -> BOOLEAN]
    <3>1. PICK o \in {"metadata", "failed"} : pc' = [pc EXCEPT ![r] = o]
      BY <2>1 DEF RedirectForToken, RenewTokenSilent, OpenPopup, PopupRefused
    <3>2. due' = due \/ due' = [due EXCEPT ![w] = FALSE]
      BY <2>1 DEF RedirectForToken, RenewTokenSilent, OpenPopup, PopupRefused
    <3>3. o \in InFlight \cup {"idle", "done", "failed", "gone"}
      BY DEF InFlight
    <3> QED
      BY <3>1, <3>2, <3>3 DEF TypeOK
  <2>4. /\ promise' \in [Requests -> {"pending", "resolved", "rejected"}]
        /\ busy' \in [Windows -> BOOLEAN]
        /\ popup' \in [Requests -> {"none", "loading", "ready", "server", "closed"}]
        /\ watched' \in [Requests -> BOOLEAN]
        /\ looks' = looks
    <3>1. CASE RedirectForToken(w, r) \/ RenewTokenSilent(w, r)
      BY <3>1 DEF RedirectForToken, RenewTokenSilent, TypeOK
    <3>2. CASE OpenPopup(w, r)
      BY <3>2 DEF OpenPopup, TypeOK
    <3>3. CASE PopupRefused(w, r)
      BY <3>3 DEF PopupRefused, Settle, TypeOK
    <3> QED
      BY <2>1, <3>1, <3>2, <3>3
  <2> QED
    BY <2>2, <2>3, <2>4 DEF TypeOK
<1>10. ASSUME NEW r \in Requests, LookAgain(r)
       PROVE  TypeOK'
  <2>1. looks[r] \in 0 .. Patience
    BY <1>10 DEF LookAgain, TypeOK
  <2> QED
    BY <1>10, <2>1, RedirectPopupTypes DEF LookAgain, TypeOK
<1>11. ASSUME NEW r \in Requests, CheckClosed(r)
       PROVE  TypeOK'
  BY <1>11 DEF CheckClosed, Cleanup, Settle, TypeOK
<1>12. ASSUME NEW r \in Requests, TokenRequest(r)
       PROVE  TypeOK'
  <2>1. met' \in [Requests -> SUBSET Requests] /\ state' \in Requests \cup {None}
    BY <1>12 DEF TokenRequest, TypeOK
  <2>2. CASE kind[r] = "redirect"
    <3>1. win[r] \in Windows
      BY <1>12 DEF TokenRequest, Placed
    <3>2. Leave(win[r], r) /\ UNCHANGED <<events, promise, silent, now, store, kind, win>>
      BY <1>12, <2>2 DEF TokenRequest
    <3>3. /\ (page \in [Windows -> {"open", "away"}])'
          /\ (token \in [Windows -> Tokens \cup {None}])'
          /\ TimerTypes'
          /\ (busy \in [Windows -> BOOLEAN])'
          /\ (popup \in [Requests -> {"none", "loading", "ready", "server", "closed"}])'
          /\ (watched \in [Requests -> BOOLEAN])'
          /\ (looks \in [Requests -> 0 .. Patience \cup {None}])'
          /\ pc' \in [Requests -> InFlight \cup {"idle", "done", "failed", "gone"}]
      BY <3>1, <3>2, LeaveTypes
    <3> QED
      BY <2>1, <3>2, <3>3 DEF TypeOK, TimerTypes
  <2>3. CASE kind[r] = "frame"
    BY <1>12, <2>1, <2>3 DEF TokenRequest, TypeOK, InFlight
  <2>4. CASE kind[r] = "popup"
    BY <1>12, <2>1, <2>4, RedirectPopupTypes DEF TokenRequest, TypeOK
  <2> QED
    BY <1>12, <2>2, <2>3, <2>4 DEF TokenRequest
<1>13. ASSUME NEW r \in Requests, TokenRequestFails(r)
       PROVE  TypeOK'
  <2>1. /\ pc' = [pc EXCEPT ![r] = "failed"]
        /\ promise' = [promise EXCEPT ![r] = IF @ = "pending" THEN "rejected" ELSE @]
        /\ UNCHANGED <<silent, now, store, state, winVars, looks, kind, win, met>>
    BY <1>13 DEF TokenRequestFails, Settle
  <2>2. /\ promise' \in [Requests -> {"pending", "resolved", "rejected"}]
        /\ pc' \in [Requests -> InFlight \cup {"idle", "done", "failed", "gone"}]
    BY <2>1 DEF TypeOK
  <2>3. /\ busy' \in [Windows -> BOOLEAN]
        /\ popup' \in [Requests -> {"none", "loading", "ready", "server", "closed"}]
        /\ watched' \in [Requests -> BOOLEAN]
    BY <1>13 DEF TokenRequestFails, Cleanup, TypeOK
  <2> QED
    BY <2>1, <2>2, <2>3 DEF TypeOK, winVars
<1>14. ASSUME NEW r \in Requests, NEW life \in Lives, Validated(r, life)
       PROVE  TypeOK'
  <2> DEFINE t == [by |-> r, exp |-> now + life]
  <2>0. life \in Nat /\ now \in Nat
    BY DEF TypeOK
  <2>1. win[r] \in Windows /\ t \in Tokens
    BY <1>14, <2>0 DEF Validated, Placed, Tokens
  <2>2. Shown(t) = t
    BY <2>0, <2>1 DEF Shown, Expired
  <2>3. TimerTypes' /\ (store \in Tokens \cup {None} /\ events \in [Windows -> Nat])'
    <3> HIDE DEF t
    <3> QED
      BY <1>14, <2>1, <2>2, ConfigureTypes, NotifyTypes DEF Validated, SaveToken, t
  <2>4. /\ token' \in [Windows -> Tokens \cup {None}]
        /\ pc' \in [Requests -> InFlight \cup {"idle", "done", "failed", "gone"}]
        /\ promise' \in [Requests -> {"pending", "resolved", "rejected"}]
    BY <1>14, <2>1 DEF Validated, SaveToken, Settle, TypeOK, InFlight
  <2> QED
    BY <1>14, <2>3, <2>4 DEF Validated, TypeOK, TimerTypes
<1>15. ASSUME NEW r \in Requests, Invalid(r)
       PROVE  TypeOK'
  BY <1>15 DEF Invalid, Settle, TypeOK
<1>16. ASSUME NEW r \in Requests, PopupLoads(r) \/ PopupClosed(r) \/ CancelFrame(r)
       PROVE  TypeOK'
  BY <1>16 DEF PopupLoads, PopupClosed, CancelFrame, Settle, TypeOK
<1>17. ASSUME NEW r \in Requests, NEW good \in BOOLEAN, Answer(r, good)
       PROVE  TypeOK'
  <2>1. /\ pc' \in [Requests -> InFlight \cup {"idle", "done", "failed", "gone"}]
        /\ promise' \in [Requests -> {"pending", "resolved", "rejected"}]
        /\ state' = None
    BY <1>17 DEF Answer, Settle, TypeOK, InFlight
  <2>2. /\ busy' \in [Windows -> BOOLEAN]
        /\ popup' \in [Requests -> {"none", "loading", "ready", "server", "closed"}]
        /\ watched' \in [Requests -> BOOLEAN]
    BY <1>17 DEF Answer, Cleanup, TypeOK
  <2> QED
    BY <1>17, <2>1, <2>2 DEF Answer, TypeOK
<1> QED
  BY <1>1, <1>2, <1>3, <1>4, <1>5, <1>6, <1>7, <1>8, <1>9, <1>10, <1>11, <1>12, <1>13, <1>14,
     <1>15, <1>16, <1>17 DEF Next, Window, Script

-----------------------------------------------------------------------------
(* Where a request can be, and what it has left behind there.              *)

Phase(r) ==
    /\ pc[r] = "idle" => win[r] = None /\ promise[r] = "pending" /\ popup[r] = "none"
    /\ pc[r] # "idle" => win[r] \in Windows
    /\ promise[r] = "resolved" => pc[r] = "done"
    /\ watched[r] =>
          kind[r] = "popup" /\ promise[r] = "pending" /\ pc[r] \in {"metadata", "waiting"}
    /\ looks[r] # None => kind[r] = "popup" /\ pc[r] = "waiting" /\ popup[r] # "server"
    /\ popup[r] # "none" => kind[r] = "popup"
    /\ popup[r] = "server" => pc[r] = "waiting"
    /\ pc[r] = "back" => kind[r] = "redirect"
    /\ pc[r] \in InFlight /\ page[win[r]] = "away" => pc[r] = "waiting" /\ kind[r] = "redirect"

Phases == \A r \in Requests : Phase(r)

\* Steps of one request that leave every page where it is.
LocalStep(r) ==
    \/ Call(r) \/ LookAgain(r) \/ CheckClosed(r) \/ TokenRequestFails(r) \/ Invalid(r)
    \/ \E life \in Lives : Validated(r, life)
    \/ TokenRequest(r) /\ kind[r] # "redirect"
    \/ PopupLoads(r) \/ PopupClosed(r) \/ CancelFrame(r)
    \/ \E good \in BOOLEAN : Answer(r, good)

Same(q) ==
    /\ pc'[q] = pc[q] /\ kind'[q] = kind[q] /\ win'[q] = win[q] /\ promise'[q] = promise[q]
    /\ popup'[q] = popup[q] /\ watched'[q] = watched[q] /\ looks'[q] = looks[q]

LEMMA OthersSame ==
    ASSUME TypeOK, NEW r \in Requests, LocalStep(r)
    PROVE  page' = page /\ \A q \in Requests \ {r} : Same(q)
<1> USE DEF TypeOK, Same, winVars, popVars, reqVars, timers, Settle
<1>1. CASE Call(r)
  BY <1>1 DEF Call, RedirectForToken, RenewTokenSilent, OpenPopup, PopupRefused, Begin
<1>2. CASE LookAgain(r)
  BY <1>2 DEF LookAgain, RedirectPopup, Cleanup
<1>3. CASE CheckClosed(r)
  BY <1>3 DEF CheckClosed, Cleanup
<1>4. CASE TokenRequestFails(r)
  BY <1>4 DEF TokenRequestFails, Cleanup
<1>5. CASE Invalid(r)
  BY <1>5 DEF Invalid
<1>6. CASE \E life \in Lives : Validated(r, life)
  BY <1>6 DEF Validated
<1>7. CASE TokenRequest(r) /\ kind[r] # "redirect"
  BY <1>7 DEF TokenRequest, RedirectPopup, Cleanup
<1>8. CASE PopupLoads(r) \/ PopupClosed(r) \/ CancelFrame(r)
  BY <1>8 DEF PopupLoads, PopupClosed, CancelFrame
<1>9. CASE \E good \in BOOLEAN : Answer(r, good)
  BY <1>9 DEF Answer, Cleanup
<1> QED
  BY <1>1, <1>2, <1>3, <1>4, <1>5, <1>6, <1>7, <1>8, <1>9 DEF LocalStep

LEMMA PhaseLocal ==
    ASSUME TypeOK, NEW r \in Requests, Phase(r), LocalStep(r)
    PROVE  Phase(r)'
<1> USE TimeAssumption DEF TypeOK, Phase, winVars, popVars, reqVars, timers, Settle, InFlight
<1>1. CASE Call(r)
  <2>1. PICK w \in Windows : \/ RedirectForToken(w, r) \/ RenewTokenSilent(w, r)
                             \/ OpenPopup(w, r) \/ PopupRefused(w, r)
    BY <1>1 DEF Call
  <2>2. CASE RedirectForToken(w, r) \/ RenewTokenSilent(w, r)
    BY <2>2 DEF RedirectForToken, RenewTokenSilent, Begin
  <2>3. CASE OpenPopup(w, r)
    BY <2>3 DEF OpenPopup, Begin
  <2>4. CASE PopupRefused(w, r)
    BY <2>4 DEF PopupRefused, Begin
  <2> QED
    BY <2>1, <2>2, <2>3, <2>4
<1>2. CASE LookAgain(r)
  BY <1>2 DEF LookAgain, RedirectPopup, Cleanup
<1>3. CASE CheckClosed(r)
  BY <1>3 DEF CheckClosed, Cleanup
<1>4. CASE TokenRequestFails(r)
  BY <1>4 DEF TokenRequestFails, Cleanup
<1>5. CASE Invalid(r)
  BY <1>5 DEF Invalid
<1>6. CASE \E life \in Lives : Validated(r, life)
  BY <1>6 DEF Validated
<1>7. CASE TokenRequest(r) /\ kind[r] # "redirect"
  BY <1>7 DEF TokenRequest, RedirectPopup, Cleanup
<1>8. CASE PopupLoads(r) \/ PopupClosed(r) \/ CancelFrame(r)
  BY <1>8 DEF PopupLoads, PopupClosed, CancelFrame
<1>9. CASE \E good \in BOOLEAN : Answer(r, good)
  BY <1>9 DEF Answer, Answered, Cleanup
<1> QED
  BY <1>1, <1>2, <1>3, <1>4, <1>5, <1>6, <1>7, <1>8, <1>9 DEF LocalStep

LEMMA PhaseLeave ==
    ASSUME TypeOK, Phases, NEW w \in Windows, NEW k, Leave(w, k), UNCHANGED <<kind, win>>,
           UNCHANGED promise, k \in Requests => pc[k] = "metadata" /\ kind[k] = "redirect" /\ win[k] = w
    PROVE  Phases'
<1> SUFFICES ASSUME NEW q \in Requests PROVE Phase(q)'
  BY DEF Phases
<1> Phase(q)
  BY DEF Phases
<1> USE TimeAssumption DEF TypeOK, Leave, InFlight
<1>1. CASE q = k
  BY <1>1 DEF Phase
<1>2. CASE q # k /\ win[q] = w
  BY <1>2 DEF Phase
<1>3. CASE q # k /\ win[q] # w
  BY <1>3 DEF Phase
<1> QED
  BY <1>1, <1>2, <1>3

\* What a step can be.
LEMMA Steps ==
    ASSUME [Next]_vars
    PROVE  \/ UNCHANGED vars
           \/ Tick
           \/ \E w \in Windows : Window(w) \/ Unload(w) \/ Logout(w) \/ Load(w)
           \/ \E r \in Requests : TokenRequest(r) /\ kind[r] = "redirect"
           \/ \E r \in Requests : LocalStep(r)
BY DEF Next, Script, LocalStep

LEMMA PhasesNext ==
    ASSUME TypeOK, Phases, [Next]_vars
    PROVE  Phases'
<1> USE DEF winVars, popVars, reqVars
<1>1. CASE UNCHANGED vars \/ Tick \/ \E w \in Windows : Window(w)
  <2>1. UNCHANGED <<page, popVars, pc, reqVars>>
    BY <1>1 DEF vars, Tick, Window, StorageEvent, TokenExpiring, TokenExpired
  <2> QED
    BY <2>1 DEF Phases, Phase
<1>2. CASE \E w \in Windows : Unload(w) \/ Logout(w)
  BY <1>2, PhaseLeave, TimeAssumption DEF Unload, Logout
<1>3. ASSUME NEW w \in Windows, Load(w)
      PROVE  Phases'
  <2> SUFFICES ASSUME NEW q \in Requests PROVE Phase(q)'
    BY DEF Phases
  <2> QED
    BY <1>3 DEF Load, Phases, Phase, TypeOK, InFlight
<1>4. ASSUME NEW r \in Requests, TokenRequest(r), kind[r] = "redirect"
      PROVE  Phases'
  <2>1. win[r] \in Windows
    BY <1>4 DEF TokenRequest, Phases, Phase
  <2>2. Leave(win[r], r) /\ UNCHANGED <<kind, win, promise>> /\ pc[r] = "metadata"
    BY <1>4 DEF TokenRequest
  <2> QED
    BY <1>4, <2>1, <2>2, PhaseLeave
<1>5. ASSUME NEW r \in Requests, LocalStep(r)
      PROVE  Phases'
  <2>1. Phase(r)'
    BY <1>5, PhaseLocal DEF Phases
  <2>2. \A q \in Requests \ {r} : Phase(q)'
    BY <1>5, OthersSame DEF Phases, Phase, Same
  <2> QED
    BY <2>1, <2>2 DEF Phases
<1> QED
  BY <1>1, <1>2, <1>3, <1>4, <1>5, Steps

-----------------------------------------------------------------------------
(* Requests that are open together.                                        *)

\* A request that has brought a token, or still finds its state.
CanWin(r) == pc[r] \in {"validating", "done"} \/ state = r

\* Nothing is said of a request before it has stored its state.
Unstored(r) ==
    state # r /\ met[r] = {} /\ \A q \in Requests : r \notin met[q]

MetInv ==
    /\ \A r \in Requests : pc[r] \in {"idle", "metadata"} => Unstored(r)
    /\ \A r, q \in Requests : r # q /\ Open(r) /\ Open(q) => q \in met[r]
    /\ \A r \in Requests : \A q \in met[r] : ~(CanWin(r) /\ CanWin(q))
    /\ AloneFindsState

\* Every other step closes requests and opens none, and takes a state out of the
\* store only for a request that was open.
Closing ==
    /\ met' = met
    /\ \A q \in Requests :
          /\ Open(q)' => Open(q)
          /\ CanWin(q)' => CanWin(q)
          /\ pc'[q] \in {"idle", "metadata"} => pc[q] \in {"idle", "metadata"}
    /\ state' # state =>
          state' = None /\ \E r \in Requests : Open(r) /\ ~Open(r)'

LEMMA ClosingKeeps ==
    ASSUME TypeOK, MetInv, Closing
    PROVE  MetInv'
<1> USE DEF Closing, MetInv
<1>1. ASSUME NEW r \in Requests, pc'[r] \in {"idle", "metadata"}
      PROVE  Unstored(r)'
  BY <1>1, TimeAssumption DEF Unstored
<1>2. \A r, q \in Requests : r # q /\ Open(r)' /\ Open(q)' => q \in met'[r]
  OBVIOUS
<1>3. \A r \in Requests : \A q \in met'[r] : ~(CanWin(r)' /\ CanWin(q)')
  BY DEF TypeOK
<1>4. ASSUME NEW r \in Requests, Open(r)', met'[r] = {}
      PROVE  state' = r
  <2>1. Open(r) /\ state = r
    BY <1>4 DEF AloneFindsState
  <2>2. ASSUME NEW q \in Requests, Open(q), ~Open(q)'
        PROVE  FALSE
    BY <1>4, <2>1, <2>2
  <2> QED
    BY <2>1, <2>2
<1> QED
  BY <1>1, <1>2, <1>3, <1>4 DEF AloneFindsState

LEMMA LeaveCloses ==
    ASSUME TypeOK, Phases, NEW w \in Windows, Leave(w, None), UNCHANGED <<state, met>>
    PROVE  Closing
<1> SUFFICES ASSUME NEW q \in Requests
             PROVE  /\ Open(q)' => Open(q)
                    /\ CanWin(q)' => CanWin(q)
                    /\ pc'[q] \in {"idle", "metadata"} => pc[q] \in {"idle", "metadata"}
  BY DEF Closing
<1> QED
  BY TimeAssumption DEF Leave, Open, CanWin, TypeOK, InFlight

LEMMA LocalCloses ==
    ASSUME TypeOK, Phases, NEW r \in Requests, LocalStep(r), ~TokenRequest(r)
    PROVE  Closing
<1> USE DEF winVars, popVars, reqVars
<1>1. met' = met
  BY DEF LocalStep, Call, RedirectForToken, RenewTokenSilent, OpenPopup, PopupRefused, Begin,
         LookAgain, CheckClosed, TokenRequestFails, Invalid, Validated, PopupLoads, PopupClosed,
         CancelFrame, Answer
<1>2. CASE \E good \in BOOLEAN : Answer(r, good)
  <2>1. Open(r) /\ state' = None /\ pc'[r] \in {"validating", "failed"}
    BY <1>2 DEF Answer, Answered, Open, Phases, Phase, TypeOK
  <2>2. pc'[r] = "validating" => state = r
    BY <1>2 DEF Answer, TypeOK
  <2>3. \A q \in Requests \ {r} : pc'[q] = pc[q] /\ popup'[q] = popup[q]
    BY OthersSame DEF Same
  <2>4. ~Open(r)' /\ (CanWin(r)' => CanWin(r))
    BY <2>1, <2>2, TimeAssumption DEF Open, CanWin
  <2>5. \A q \in Requests \ {r} : (Open(q)' => Open(q)) /\ (CanWin(q)' => CanWin(q))
    BY <2>1, <2>3, TimeAssumption DEF Open, CanWin
  <2> QED
    BY <1>1, <2>1, <2>3, <2>4, <2>5 DEF Closing
<1>3. CASE ~\E good \in BOOLEAN : Answer(r, good)
  <2>1. state' = state
    BY <1>3 DEF LocalStep, Call, RedirectForToken, RenewTokenSilent, OpenPopup, PopupRefused, Begin,
         LookAgain, CheckClosed, TokenRequestFails, Invalid, Validated, PopupLoads, PopupClosed,
         CancelFrame
  <2>2. \A q \in Requests \ {r} : pc'[q] = pc[q] /\ popup'[q] = popup[q]
    BY OthersSame DEF Same
  <2>3. \A q \in Requests \ {r} : (Open(q)' => Open(q)) /\ (CanWin(q)' => CanWin(q))
    BY <2>1, <2>2 DEF Open, CanWin
  <2>4. /\ Open(r)' => Open(r)
        /\ CanWin(r)' => CanWin(r)
        /\ pc'[r] \in {"idle", "metadata"} => pc[r] \in {"idle", "metadata"}
    <3> USE <2>1 DEF Open, CanWin, TypeOK, Phases, Phase
    <3>1. CASE Call(r)
      BY <3>1 DEF Call, RedirectForToken, RenewTokenSilent, OpenPopup, PopupRefused, Begin
    <3>2. CASE LookAgain(r)
      BY <3>2 DEF LookAgain, RedirectPopup, Cleanup
    <3>3. CASE CheckClosed(r)
      BY <3>3 DEF CheckClosed, Cleanup
    <3>4. CASE TokenRequestFails(r)
      BY <3>4 DEF TokenRequestFails
    <3>5. CASE Invalid(r) \/ \E life \in Lives : Validated(r, life)
      BY <3>5 DEF Invalid, Validated
    <3>6. CASE PopupLoads(r) \/ PopupClosed(r) \/ CancelFrame(r)
      BY <3>6 DEF PopupLoads, PopupClosed, CancelFrame
    <3> QED
      BY <1>3, <3>1, <3>2, <3>3, <3>4, <3>5, <3>6 DEF LocalStep
  <2> QED
    BY <1>1, <2>1, <2>2, <2>3, <2>4 DEF Closing
<1> QED
  BY <1>2, <1>3

\* A request that stores its state meets those that are open.
LEMMA StoringKeeps ==
    ASSUME TypeOK, Phases, MetInv, NEW r \in Requests, TokenRequest(r)
    PROVE  MetInv'
<1>1. /\ pc[r] = "metadata" /\ state' = r
      /\ met' = [q \in Requests |->
             IF q = r THEN {p \in Requests : Open(p)}
             ELSE IF Open(q) THEN met[q] \cup {r} ELSE met[q]]
  BY DEF TokenRequest
<1>2. ~Open(r) /\ Unstored(r) /\ win[r] \in Windows
  BY <1>1 DEF Open, MetInv, Phases, Phase
<1>3. pc'[r] \notin {"idle", "metadata", "validating", "done"}
  BY DEF TokenRequest, Leave, RedirectPopup, TypeOK, InFlight
<1>4. ASSUME NEW q \in Requests \ {r}
      PROVE  /\ Open(q)' => Open(q)
             /\ pc'[q] \in {"validating", "done"} => pc[q] \in {"validating", "done"}
             /\ pc'[q] \in {"idle", "metadata"} => pc[q] \in {"idle", "metadata"}
  <2>1. CASE kind[r] = "redirect"
    <3>1. Leave(win[r], r)
      BY <2>1 DEF TokenRequest
    <3> QED
      BY <1>2, <3>1 DEF Leave, Open, TypeOK, InFlight
  <2>2. CASE kind[r] # "redirect"
    <3>1. Same(q)
      BY <2>2, OthersSame DEF LocalStep
    <3> QED
      BY <3>1 DEF Same, Open
  <2> QED
    BY <2>1, <2>2
<1>5. ASSUME NEW q \in Requests, pc'[q] \in {"idle", "metadata"}
      PROVE  Unstored(q)'
  <2>1. q # r /\ Unstored(q) /\ ~Open(q)
    BY <1>3, <1>4, <1>5 DEF MetInv, Open
  <2> QED
    BY <1>1, <2>1 DEF Unstored
<1>6. ASSUME NEW p \in Requests, NEW q \in Requests, p # q, Open(p)', Open(q)'
      PROVE  q \in met'[p]
  BY <1>1, <1>4, <1>6 DEF MetInv
<1>7. ASSUME NEW p \in Requests, NEW q \in met'[p], CanWin(p)', CanWin(q)'
      PROVE  FALSE
  <2>1. q \in Requests
    BY <1>1 DEF TypeOK
  <2>2. p # r => pc[p] \in {"validating", "done"}
    BY <1>1, <1>4, <1>7 DEF CanWin
  <2>3. q # r => pc[q] \in {"validating", "done"}
    BY <1>1, <1>4, <1>7, <2>1 DEF CanWin
  <2>4. CASE p = r
    BY <1>1, <1>2, <2>1, <2>3, <2>4 DEF Open
  <2>5. CASE p # r /\ q = r
    BY <1>1, <1>2, <2>2, <2>5 DEF Open, Unstored
  <2>6. CASE p # r /\ q # r
    BY <1>1, <2>1, <2>2, <2>3, <2>6 DEF CanWin, MetInv
  <2> QED
    BY <2>4, <2>5, <2>6
<1>8. ASSUME NEW q \in Requests, Open(q)', met'[q] = {}
      PROVE  state' = q
  BY <1>1, <1>4, <1>8
<1> QED
  BY <1>5, <1>6, <1>7, <1>8 DEF MetInv, AloneFindsState

LEMMA MetNext ==
    ASSUME TypeOK, Phases, MetInv, [Next]_vars
    PROVE  MetInv'
<1> USE DEF winVars, popVars, reqVars
<1>1. CASE UNCHANGED vars \/ Tick \/ \E w \in Windows : Window(w)
  <2>1. UNCHANGED <<state, pc, popup, met>>
    BY <1>1 DEF vars, Tick, Window, StorageEvent, TokenExpiring, TokenExpired
  <2>2. Closing
    BY <2>1 DEF Closing, Open, CanWin
  <2> QED
    BY <2>2, ClosingKeeps
<1>2. CASE \E w \in Windows : Unload(w) \/ Logout(w)
  BY <1>2, LeaveCloses, ClosingKeeps DEF Unload, Logout
<1>3. ASSUME NEW w \in Windows, Load(w)
      PROVE  MetInv'
  <2>1. Closing
    <3> SUFFICES ASSUME NEW q \in Requests
                 PROVE  /\ Open(q)' => Open(q)
                        /\ CanWin(q)' => CanWin(q)
                        /\ pc'[q] \in {"idle", "metadata"} => pc[q] \in {"idle", "metadata"}
      BY <1>3 DEF Closing, Load
    <3>1. Phase(q)
      BY DEF Phases
    <3> QED
      BY <1>3, <3>1 DEF Load, Open, CanWin, TypeOK, Phase, InFlight
  <2> QED
    BY <2>1, ClosingKeeps
<1>4. ASSUME NEW r \in Requests, TokenRequest(r)
      PROVE  MetInv'
  BY <1>4, StoringKeeps
<1>5. ASSUME NEW r \in Requests, LocalStep(r), ~TokenRequest(r)
      PROVE  MetInv'
  BY <1>5, LocalCloses, ClosingKeeps
<1> QED
  BY <1>1, <1>2, <1>3, <1>4, <1>5, Steps

-----------------------------------------------------------------------------
(* Popups.                                                                 *)

Alive(r) == popup[r] \in {"loading", "ready", "server"}

\* A popup the user closed, whose promise was rejected for it or before.
Stray(w, p) == win[p] = w /\ popup[p] = "closed" /\ promise[p] = "rejected"

\* A popup in a window without the mark is there after a stray one.
Unmarked == \A r \in Requests : Alive(r) /\ ~busy[win[r]] => \E p \in Requests : Stray(win[r], p)

PopupInv == OnePopup /\ BusyIsWatched /\ Unmarked

\* The steps of a request, as its popup sees them: those that open none and take
\* no mark away, and those that clean up.
Quiet(r) ==
    /\ UNCHANGED <<busy, watched>>
    /\ Alive(r)' => Alive(r) /\ win'[r] = win[r]
    /\ watched[r] => win'[r] = win[r]

Cleaned(r) ==
    /\ Cleanup(r) /\ win'[r] = win[r]
    /\ promise'[r] = "rejected" \/ Alive(r)

LEMMA PopupSteps ==
    ASSUME TypeOK, NEW r \in Requests, Phase(r), LocalStep(r)
    PROVE  /\ Quiet(r) \/ Cleaned(r) \/ \E w \in Windows : OpenPopup(w, r)
           /\ \A w \in Windows : Stray(w, r) => Stray(w, r)'
<1> USE DEF TypeOK, Phase, Stray, Alive, Settle, winVars, popVars, reqVars
<1>1. CASE Call(r)
  <2>1. PICK w \in Windows : \/ RedirectForToken(w, r) \/ RenewTokenSilent(w, r)
                             \/ OpenPopup(w, r) \/ PopupRefused(w, r)
    BY <1>1 DEF Call
  <2>2. CASE RedirectForToken(w, r) \/ RenewTokenSilent(w, r) \/ PopupRefused(w, r)
    BY <2>2 DEF RedirectForToken, RenewTokenSilent, PopupRefused, Begin, Quiet
  <2>3. CASE OpenPopup(w, r)
    BY <2>3 DEF OpenPopup, Begin
  <2> QED
    BY <2>1, <2>2, <2>3
<1>2. CASE LookAgain(r)
  BY <1>2 DEF LookAgain, RedirectPopup, Cleanup, Quiet, Cleaned
<1>3. CASE CheckClosed(r)
  BY <1>3 DEF CheckClosed, Cleanup, Cleaned
<1>4. CASE TokenRequestFails(r)
  BY <1>4 DEF TokenRequestFails, Cleanup, Quiet, Cleaned
<1>5. CASE Invalid(r) \/ \E life \in Lives : Validated(r, life)
  BY <1>5 DEF Invalid, Validated, Quiet
<1>6. CASE TokenRequest(r) /\ kind[r] # "redirect"
  BY <1>6 DEF TokenRequest, RedirectPopup, Cleanup, Quiet, Cleaned
<1>7. CASE PopupLoads(r) \/ PopupClosed(r) \/ CancelFrame(r)
  BY <1>7 DEF PopupLoads, PopupClosed, CancelFrame, Quiet
<1>8. CASE \E good \in BOOLEAN : Answer(r, good)
  <2>1. kind[r] = "popup" => popup[r] = "server"
    BY <1>8 DEF Answer, Answered
  <2> QED
    BY <1>8, <2>1 DEF Answer, Cleanup, Quiet, Cleaned
<1> QED
  BY <1>1, <1>2, <1>3, <1>4, <1>5, <1>6, <1>7, <1>8 DEF LocalStep

LEMMA PopupLocal ==
    ASSUME TypeOK, Phases, PopupInv, NEW r \in Requests, LocalStep(r)
    PROVE  PopupInv'
<1> USE DEF TypeOK
<1> DEFINE Left(w, p) == win'[p] = w /\ popup'[p] = "closed" /\ promise'[p] = "rejected"
<1>1. \A q \in Requests \ {r} : Same(q) /\ (Alive(q)' <=> Alive(q))
  BY OthersSame DEF Same, Alive
<1>2. \A w \in Windows : \A p \in Requests : Stray(w, p) => Left(w, p)
  <2>1. \A w \in Windows : Stray(w, r) => Stray(w, r)'
    BY PopupSteps DEF Phases
  <2> QED
    BY <1>1, <2>1 DEF Stray, Same
<1>3. \A q \in Requests : Alive(q) => win[q] \in Windows
  BY DEF Alive, Phases, Phase
<1>4. \A q, s \in Requests : q # s /\ win[q] = win[s] /\ Alive(q) /\ Alive(s) =>
          \E p \in Requests : Left(win[q], p)
  <2> SUFFICES ASSUME NEW q \in Requests, NEW s \in Requests, q # s, win[q] = win[s], Alive(q), Alive(s)
               PROVE  \E p \in Requests : Left(win[q], p)
    OBVIOUS
  <2>1. PICK p \in Requests : Stray(win[q], p)
    BY DEF PopupInv, OnePopup, Alive, Stray
  <2> QED
    BY <1>2, <1>3, <2>1
<1>5. \A q \in Requests : Alive(q) /\ ~busy[win[q]] => \E p \in Requests : Left(win[q], p)
  BY <1>2, <1>3 DEF PopupInv, Unmarked
<1>6. CASE Quiet(r)
  <2>1. \A q \in Requests : Alive(q)' => Alive(q) /\ win'[q] = win[q]
    BY <1>1, <1>6 DEF Quiet, Same
  <2>2. OnePopup'
    BY <1>4, <2>1 DEF OnePopup, Alive, Stray
  <2>3. BusyIsWatched'
    <3> SUFFICES ASSUME NEW w \in Windows, busy'[w]
                 PROVE  \E q \in Requests : win'[q] = w /\ watched'[q]
      BY DEF BusyIsWatched
    <3>1. PICK q \in Requests : win[q] = w /\ watched[q]
      BY <1>6 DEF Quiet, PopupInv, BusyIsWatched
    <3> QED
      BY <1>1, <1>6, <3>1 DEF Quiet, Same
  <2>4. Unmarked'
    BY <1>5, <1>6, <2>1 DEF Unmarked, Quiet, Stray
  <2> QED
    BY <2>2, <2>3, <2>4 DEF PopupInv
<1>7. CASE Cleaned(r)
  <2>0. busy' = [busy EXCEPT ![win[r]] = FALSE] /\ popup'[r] = "closed" /\ win'[r] = win[r] /\ ~Alive(r)'
    BY <1>7 DEF Cleaned, Cleanup, Alive
  <2>1. \A q \in Requests : Alive(q)' => q # r /\ Alive(q) /\ win'[q] = win[q]
    BY <1>1, <2>0 DEF Same
  <2>2. OnePopup'
    BY <1>4, <2>1 DEF OnePopup, Alive, Stray
  <2>3. BusyIsWatched'
    <3> SUFFICES ASSUME NEW w \in Windows, busy'[w]
                 PROVE  \E q \in Requests : win'[q] = w /\ watched'[q]
      BY DEF BusyIsWatched
    <3>1. busy[w] /\ w # win[r]
      BY <2>0
    <3>2. PICK q \in Requests : win[q] = w /\ watched[q]
      BY <3>1 DEF PopupInv, BusyIsWatched
    <3> QED
      BY <1>1, <3>1, <3>2 DEF Same
  <2>4. Unmarked'
    <3> SUFFICES ASSUME NEW q \in Requests, Alive(q)', ~busy'[win'[q]]
                 PROVE  \E p \in Requests : Left(win'[q], p)
      BY DEF Unmarked, Stray
    <3>1. q # r /\ Alive(q) /\ win'[q] = win[q] /\ win[q] \in Windows
      BY <1>3, <2>1
    <3>2. CASE win[q] = win[r] /\ promise'[r] = "rejected"
      BY <2>0, <3>1, <3>2 DEF Stray
    <3>3. CASE win[q] = win[r] /\ promise'[r] # "rejected"
      <4>1. Alive(r)
        BY <1>7, <3>3 DEF Cleaned
      <4> QED
        BY <1>4, <3>1, <3>3, <4>1 DEF Stray
    <3>4. CASE win[q] # win[r]
      BY <1>5, <2>0, <3>1, <3>4 DEF Stray
    <3> QED
      BY <3>2, <3>3, <3>4
  <2> QED
    BY <2>2, <2>3, <2>4 DEF PopupInv
<1>8. ASSUME NEW w \in Windows, OpenPopup(w, r)
      PROVE  PopupInv'
  <2>0. /\ ~busy[w] /\ busy' = [busy EXCEPT ![w] = TRUE] /\ win'[r] = w /\ watched'[r]
        /\ pc[r] = "idle" /\ win[r] = None
    BY <1>8 DEF OpenPopup, Begin, Phases, Phase
  <2>1. \A q \in Requests \ {r} : Alive(q)' => Alive(q) /\ win'[q] = win[q]
    BY <1>1 DEF Same
  <2>2. OnePopup'
    <3> SUFFICES ASSUME NEW q \in Requests, NEW s \in Requests, q # s, win'[q] = win'[s], Alive(q)', Alive(s)'
                 PROVE  \E p \in Requests : Left(win'[q], p)
      BY DEF OnePopup, Alive, Stray
    <3>1. CASE q # r /\ s # r
      BY <1>4, <2>1, <3>1 DEF Stray
    <3>2. CASE q = r
      BY <1>5, <2>0, <2>1, <3>2 DEF Stray
    <3>3. CASE s = r
      BY <1>5, <2>0, <2>1, <3>3 DEF Stray
    <3> QED
      BY <3>1, <3>2, <3>3
  <2>3. BusyIsWatched'
    <3> SUFFICES ASSUME NEW v \in Windows, busy'[v]
                 PROVE  \E q \in Requests : win'[q] = v /\ watched'[q]
      BY DEF BusyIsWatched
    <3>1. CASE v = w
      BY <2>0, <3>1
    <3>2. CASE v # w
      <4>1. PICK q \in Requests : win[q] = v /\ watched[q]
        BY <2>0, <3>2 DEF PopupInv, BusyIsWatched
      <4>2. q # r
        BY <2>0, <4>1 DEF Phases, Phase
      <4> QED
        BY <1>1, <4>1, <4>2 DEF Same
    <3> QED
      BY <3>1, <3>2
  <2>4. Unmarked'
    <3> SUFFICES ASSUME NEW q \in Requests, Alive(q)', ~busy'[win'[q]]
                 PROVE  \E p \in Requests : Left(win'[q], p)
      BY DEF Unmarked, Stray
    <3>1. q # r
      BY <2>0
    <3>2. Alive(q) /\ win'[q] = win[q] /\ ~busy[win[q]]
      BY <1>3, <2>0, <2>1, <3>1
    <3> QED
      BY <1>5, <3>2 DEF Stray
  <2> QED
    BY <2>2, <2>3, <2>4 DEF PopupInv
<1> QED
  BY <1>6, <1>7, <1>8, PopupSteps DEF Phases

LEMMA PopupLeave ==
    ASSUME TypeOK, Phases, PopupInv, NEW w \in Windows, NEW k, Leave(w, k), UNCHANGED <<win, promise>>
    PROVE  PopupInv'
<1> USE DEF Leave, TypeOK
<1>1. \A q \in Requests : win[q] = w => ~Alive(q)' /\ ~watched'[q]
  BY DEF Alive
<1>2. \A q \in Requests : win[q] # w => popup'[q] = popup[q] /\ watched'[q] = watched[q]
  OBVIOUS
<1>3. OnePopup'
  <2> SUFFICES ASSUME NEW q \in Requests, NEW s \in Requests, q # s, win[q] = win[s], Alive(q)', Alive(s)'
               PROVE  \E p \in Requests : Stray(win[q], p)'
    BY SMTT(30) DEF OnePopup, Alive, Stray
  <2>1. win[q] # w /\ Alive(q) /\ Alive(s)
    BY <1>1, <1>2 DEF Alive
  <2>2. PICK p \in Requests : Stray(win[q], p)
    BY <2>1 DEF PopupInv, OnePopup, Alive, Stray
  <2> QED
    BY <1>2, <2>1, <2>2 DEF Stray
<1>4. BusyIsWatched'
  <2> SUFFICES ASSUME NEW v \in Windows, busy'[v]
               PROVE  \E q \in Requests : win[q] = v /\ watched'[q]
    BY DEF BusyIsWatched
  <2>1. v # w /\ busy[v]
    OBVIOUS
  <2> QED
    BY <1>2, <2>1 DEF PopupInv, BusyIsWatched
<1>5. Unmarked'
  <2> SUFFICES ASSUME NEW q \in Requests, Alive(q)', ~busy'[win[q]]
               PROVE  \E p \in Requests : Stray(win[q], p)'
    BY DEF Unmarked, Stray
  <2>1. win[q] # w /\ Alive(q) /\ win[q] \in Windows
    BY <1>1, <1>2 DEF Alive, Phases, Phase
  <2>2. PICK p \in Requests : Stray(win[q], p)
    BY <2>1 DEF PopupInv, Unmarked
  <2> QED
    BY <1>2, <2>1, <2>2 DEF Stray
<1> QED
  BY <1>3, <1>4, <1>5 DEF PopupInv

LEMMA PopupNext ==
    ASSUME TypeOK, Phases, PopupInv, [Next]_vars
    PROVE  PopupInv'
<1>1. CASE UNCHANGED vars \/ Tick \/ \E w \in Windows : Window(w) \/ Load(w)
  <2>1. UNCHANGED <<popVars, reqVars>>
    BY <1>1 DEF vars, Tick, Window, StorageEvent, TokenExpiring, TokenExpired, Load
  <2> QED
    BY <2>1 DEF popVars, reqVars, PopupInv, OnePopup, BusyIsWatched, Unmarked, Alive, Stray
<1>2. CASE \E w \in Windows : Unload(w) \/ Logout(w)
  BY <1>2, PopupLeave DEF Unload, Logout, reqVars
<1>3. ASSUME NEW r \in Requests, TokenRequest(r), kind[r] = "redirect"
      PROVE  PopupInv'
  BY <1>3, PopupLeave DEF TokenRequest, Phases, Phase
<1>4. ASSUME NEW r \in Requests, LocalStep(r)
      PROVE  PopupInv'
  BY <1>4, PopupLocal
<1> QED
  BY <1>1, <1>2, <1>3, <1>4, Steps

-----------------------------------------------------------------------------
(* Tokens and timers.                                                      *)

\* A window without a page has no token; then it has no timer either.
AwayEmpty == \A w \in Windows : page[w] = "away" => token[w] = None

TokenInv == Coherent /\ TimersFollowToken /\ AwayEmpty

\* The timers a window sets are those of its token.
LEMMA ConfigureFollows ==
    ASSUME TypeOK, TimersFollowToken, NEW w \in Windows, NEW t \in Tokens \cup {None}, Configure(w, t),
           token' = [token EXCEPT ![w] = t], now' = now
    PROVE  TimersFollowToken'
<1> SUFFICES ASSUME NEW v \in Windows
    PROVE /\ expiredAt'[v] # None => token'[v] # None /\ expiredAt'[v] = token'[v].exp + 1
          /\ expiringAt'[v] # None => token'[v] # None /\ expiringAt'[v] = token'[v].exp - Lead
          /\ token'[v] # None /\ expiredAt'[v] = None => now >= token'[v].exp
  BY DEF TimersFollowToken
<1>1. CASE v = w
  <2>1. t # None => t.exp \in Nat
    BY TokenFacts
  <2>2. expiredAt'[w] = IF t # None /\ t.exp > now THEN t.exp + 1 ELSE None
    BY DEF Configure, TypeOK
  <2>3. expiringAt'[w] = IF t # None /\ t.exp - now > Lead THEN t.exp - Lead ELSE None
    BY DEF Configure, TypeOK
  <2>4. token'[w] = t
    BY DEF TypeOK
  <2>5. t # None /\ t.exp > now => t.exp + 1 # None
    BY <2>1, TokenFacts
  <2>6. now \in Nat
    BY TimeAssumption DEF TypeOK
  <2> QED
    BY <1>1, <2>1, <2>2, <2>3, <2>4, <2>5, <2>6
<1>2. CASE v # w
  BY <1>2 DEF TimersFollowToken, Configure, TypeOK
<1> QED
  BY <1>1, <1>2

LEMMA ShownTwice == \A t \in Tokens \cup {None} : Shown(Shown(t)) = Shown(t)
BY DEF Shown

LEMMA LoadTokenKeeps ==
    ASSUME TypeOK, TokenInv, NEW w \in Windows, LoadToken(w), UNCHANGED <<now, store>>,
           page' = [page EXCEPT ![w] = "open"], \A v \in Windows \ {w} : events'[v] = events[v]
    PROVE  TokenInv'
<1>1. Shown(store) \in Tokens \cup {None} /\ token' = [token EXCEPT ![w] = Shown(store)]
  BY TokenFacts DEF TypeOK, LoadToken
<1>2. TimersFollowToken'
  BY <1>1, ConfigureFollows DEF LoadToken, TokenInv
<1>3. Coherent'
  <2> SUFFICES ASSUME NEW v \in Windows, page'[v] = "open", events'[v] = 0
               PROVE  Shown(token[v])' = Shown(store)'
    BY DEF Coherent
  <2>1. \A t \in Tokens \cup {None} : Shown(t)' = Shown(t)
    BY DEF Shown, Expired
  <2> QED
    BY <1>1, <2>1, ShownTwice DEF TypeOK, TokenInv, Coherent, Shown, Expired
<1>4. AwayEmpty'
  BY <1>1 DEF AwayEmpty, TokenInv, TypeOK
<1> QED
  BY <1>2, <1>3, <1>4 DEF TokenInv

LEMMA SaveTokenKeeps ==
    ASSUME TypeOK, TokenInv, NEW w \in Windows, NEW t \in Tokens \cup {None}, SaveToken(w, t),
           UNCHANGED <<now, page>>, page[w] = "open"
    PROVE  TokenInv'
<1>1. /\ Shown(t) \in Tokens \cup {None} /\ store' = Shown(t)
      /\ token' = [token EXCEPT ![w] = t]
  BY TokenFacts DEF SaveToken, Notify
<1>2. TimersFollowToken'
  BY <1>1, ConfigureFollows DEF SaveToken, TokenInv
<1>3. Coherent'
  <2> SUFFICES ASSUME NEW v \in Windows, page'[v] = "open", events'[v] = 0
               PROVE  Shown(token'[v]) = Shown(store')
    BY DEF Coherent, Shown, Expired
  <2>1. CASE v = w
    BY <1>1, <2>1, ShownTwice DEF TypeOK
  <2>2. CASE v # w
    <3>1. events[v] = 0 /\ store' = store
      BY <1>1, <2>2 DEF SaveToken, Notify, TypeOK
    <3> QED
      BY <1>1, <2>2, <3>1 DEF TokenInv, Coherent, TypeOK
  <2> QED
    BY <2>1, <2>2
<1>4. AwayEmpty'
  BY <1>1 DEF AwayEmpty, TokenInv, TypeOK
<1> QED
  BY <1>2, <1>3, <1>4 DEF TokenInv

LEMMA LeaveKeeps ==
    ASSUME TypeOK, TokenInv, NEW w \in Windows, NEW k, Leave(w, k), now' = now,
           UNCHANGED <<store, events>> \/ Notify(w, None)
    PROVE  TokenInv'
<1> USE TimeAssumption DEF TypeOK
<1>1. TimersFollowToken'
  BY DEF TimersFollowToken, TokenInv, Leave
<1>2. AwayEmpty'
  BY DEF AwayEmpty, TokenInv, Leave
<1>3. Coherent'
  <2> SUFFICES ASSUME NEW v \in Windows, page'[v] = "open", events'[v] = 0
               PROVE  Shown(token'[v]) = Shown(store')
    BY DEF Coherent, Shown, Expired
  <2>1. v # w /\ page[v] = "open" /\ token'[v] = token[v]
    BY DEF Leave
  <2>2. events[v] = 0 /\ store' = store
    BY <2>1 DEF Notify
  <2> QED
    BY <2>1, <2>2 DEF TokenInv, Coherent
<1> QED
  BY <1>1, <1>2, <1>3 DEF TokenInv

\* A token that is not shown any more is not shown again.
LEMMA TickKeeps ==
    ASSUME TypeOK, TokenInv, Tick
    PROVE  TokenInv'
<1> USE TimeAssumption DEF Tick, winVars, timers
<1>1. now \in Nat /\ now' = now + 1 /\ UNCHANGED <<store, page, token, expiredAt, expiringAt, events>>
  BY DEF TypeOK
<1>2. TimersFollowToken'
  BY <1>1, TokenFacts DEF TimersFollowToken, TokenInv, TypeOK
<1>3. AwayEmpty'
  BY <1>1 DEF AwayEmpty, TokenInv
<1>4. Coherent'
  <2> SUFFICES ASSUME NEW v \in Windows, page[v] = "open", events[v] = 0
               PROVE  Shown(token[v])' = Shown(store)'
    BY <1>1 DEF Coherent
  <2>1. Shown(token[v]) = Shown(store)
    BY DEF TokenInv, Coherent
  <2>2. \A t \in Tokens \cup {None} : Shown(t) = None => IF t # None /\ ~(t.exp < now + 1) THEN FALSE ELSE TRUE
    BY <1>1, TokenFacts DEF Shown, Expired
  <2>3. token[v] \in Tokens \cup {None} /\ store \in Tokens \cup {None}
    BY DEF TypeOK
  <2>4. CASE Shown(token[v]) = None
    BY <1>1, <2>1, <2>2, <2>3, <2>4 DEF Shown, Expired
  <2>5. CASE Shown(token[v]) # None
    BY <1>1, <2>1, <2>5 DEF Shown
  <2> QED
    BY <2>4, <2>5
<1> QED
  BY <1>2, <1>3, <1>4 DEF TokenInv

LEMMA TokenNext ==
    ASSUME TypeOK, Phases, TokenInv, [Next]_vars
    PROVE  TokenInv'
<1> USE DEF winVars, timers
<1>1. CASE Tick
  BY <1>1, TickKeeps
<1>2. ASSUME NEW w \in Windows, StorageEvent(w) \/ Load(w)
      PROVE  TokenInv'
  BY <1>2, LoadTokenKeeps DEF StorageEvent, Load, TypeOK
<1>3. ASSUME NEW w \in Windows, TokenExpired(w)
      PROVE  TokenInv'
  <2>1. token[w] # None /\ page[w] = "open"
    BY <1>3 DEF TokenExpired, TokenInv, TimersFollowToken, AwayEmpty, TypeOK
  <2> QED
    BY <1>3, <2>1, SaveTokenKeeps DEF TokenExpired
<1>4. ASSUME NEW w \in Windows, Unload(w) \/ Logout(w)
      PROVE  TokenInv'
  BY <1>4, LeaveKeeps DEF Unload, Logout
<1>5. ASSUME NEW r \in Requests, TokenRequest(r), kind[r] = "redirect"
      PROVE  TokenInv'
  BY <1>5, LeaveKeeps DEF TokenRequest, Phases, Phase
<1>6. ASSUME NEW r \in Requests, NEW life \in Lives, Validated(r, life)
      PROVE  TokenInv'
  <2>1. win[r] \in Windows /\ page[win[r]] = "open"
    BY <1>6 DEF Validated, Phases, Phase, InFlight, TypeOK
  <2>2. [by |-> r, exp |-> now + life] \in Tokens
    BY TimeAssumption DEF TypeOK, Tokens
  <2> QED
    BY <1>6, <2>1, <2>2, SaveTokenKeeps DEF Validated
<1>7. ASSUME UNCHANGED <<now, store, page, token, expiredAt, events>>,
             \A w \in Windows : expiringAt'[w] \in {expiringAt[w], None}
      PROVE  TokenInv'
  BY <1>7 DEF TokenInv, Coherent, TimersFollowToken, AwayEmpty, Shown, Expired
<1>8. CASE UNCHANGED vars \/ \E w \in Windows : TokenExpiring(w)
  BY <1>7, <1>8 DEF vars, TokenExpiring, TypeOK
<1>9. ASSUME NEW r \in Requests, LocalStep(r), ~\E life \in Lives : Validated(r, life)
      PROVE  TokenInv'
  <2>1. UNCHANGED <<now, store, page, token, expiredAt, expiringAt, events>>
    BY <1>9 DEF LocalStep, Call, RedirectForToken, RenewTokenSilent, OpenPopup, PopupRefused, Begin,
         LookAgain, CheckClosed, TokenRequest, TokenRequestFails, Invalid, PopupLoads, PopupClosed,
         CancelFrame, Answer
  <2> QED
    BY <1>7, <2>1
<1> QED
  BY <1>1, <1>2, <1>3, <1>4, <1>5, <1>6, <1>8, <1>9, Steps DEF Window

-----------------------------------------------------------------------------
(* The inductive invariant and what follows from it.                       *)

IInv == TypeOK /\ Phases /\ MetInv /\ PopupInv /\ TokenInv

LEMMA InitIInv == Init => IInv
<1> SUFFICES ASSUME Init PROVE IInv
  OBVIOUS
<1> USE TimeAssumption DEF Init
<1>1. TypeOK
  BY DEF TypeOK
<1>2. Phases
  BY DEF Phases, Phase, InFlight
<1>3. MetInv
  BY DEF MetInv, AloneFindsState, Unstored, Open
<1>4. PopupInv
  BY DEF PopupInv, OnePopup, BusyIsWatched, Unmarked, Alive
<1>5. TokenInv
  BY DEF TokenInv, Coherent, TimersFollowToken, AwayEmpty
<1> QED
  BY <1>1, <1>2, <1>3, <1>4, <1>5 DEF IInv

LEMMA NextIInv == IInv /\ [Next]_vars => IInv'
<1> SUFFICES ASSUME IInv, [Next]_vars PROVE IInv'
  OBVIOUS
<1>1. Placed
  BY DEF IInv, Phases, Phase, Placed
<1> QED
  BY <1>1, TypeNext, PhasesNext, MetNext, PopupNext, TokenNext DEF IInv

LEMMA SpecIInv == Spec => []IInv
BY InitIInv, NextIInv, PTL DEF Spec

\* In every state the windows share one token, and each lets it expire in time.
THEOREM TokensAreShared == Spec => []TokensShared
<1>1. IInv => TokensShared
  BY DEF IInv, TokenInv, TokensShared
<1> QED
  BY <1>1, SpecIInv, PTL

\* In every state the requests of one browser have spoiled each other through
\* the one key they share and in no other way, and popups are counted right.
THEOREM RequestsAreApart == Spec => []RequestsApart
<1>1. IInv => RequestsApart
  BY DEF IInv, MetInv, PopupInv, CanWin, RequestsApart, OneOfOverlapping
<1> QED
  BY <1>1, SpecIInv, PTL

\* A token in its time leaves the store by a logout, or by the timer of a window
\* that has not heard of it yet.
THEOREM FreshTokensAreKept == Spec => FreshTokenKept
<1> USE DEF winVars, timers
<1>1. ASSUME IInv, [Next]_vars, Shown(store) # None, store' = None
      PROVE  \E w \in Windows : token'[w] = None /\ (page'[w] # page[w] \/ events[w] > 0)
  <2>0. TypeOK /\ TokenInv
    BY <1>1 DEF IInv
  <2>1. ASSUME store' = store
        PROVE  FALSE
    BY <1>1, <2>1 DEF Shown
  <2>2. ASSUME NEW w \in Windows, TokenExpired(w)
        PROVE  token'[w] = None /\ events[w] > 0
    <3>1. token'[w] = None
      BY <2>0, <2>2 DEF TokenExpired, SaveToken, TypeOK
    <3>2. /\ token[w] # None /\ page[w] = "open" /\ expiredAt[w] = token[w].exp + 1
          /\ now >= expiredAt[w] /\ token[w] \in Tokens /\ now \in Nat
      BY <2>0, <2>2, TimeAssumption DEF TokenExpired, TokenInv, TimersFollowToken, AwayEmpty, TypeOK
    <3>3. Shown(token[w]) = None
      BY <3>2, TokenFacts DEF Shown, Expired
    <3>4. events[w] # 0
      BY <1>1, <2>0, <3>2, <3>3 DEF TokenInv, Coherent
    <3> QED
      BY <2>0, <3>1, <3>4 DEF TypeOK
  <2>3. ASSUME NEW w \in Windows, Logout(w)
        PROVE  token'[w] = None /\ page'[w] # page[w]
    BY <2>0, <2>3 DEF Logout, Leave, TypeOK
  <2>4. ASSUME NEW r \in Requests, NEW life \in Lives, Validated(r, life)
        PROVE  FALSE
    <3> DEFINE t == [by |-> r, exp |-> now + life]
    <3>1. t \in Tokens /\ t.exp = now + life /\ now \in Nat /\ life \in Nat
      BY <2>0, TimeAssumption DEF TypeOK, Tokens
    <3>2. store' = Shown(t)
      BY <2>4 DEF Validated, SaveToken, Notify
    <3>3. Shown(t) = t
      BY <3>1, TokenFacts DEF Shown, Expired
    <3> QED
      BY <1>1, <3>1, <3>2, <3>3, TokenFacts
  <2>5. CASE \/ UNCHANGED vars \/ Tick
             \/ \E w \in Windows : StorageEvent(w) \/ TokenExpiring(w) \/ Unload(w) \/ Load(w)
             \/ \E r \in Requests : TokenRequest(r)
    <3>1. store' = store
      BY <2>5 DEF vars, Tick, StorageEvent, TokenExpiring, Unload, Load, TokenRequest
    <3> QED
      BY <2>1, <3>1
  <2>6. ASSUME NEW r \in Requests, LocalStep(r), ~\E life \in Lives : Validated(r, life)
        PROVE  FALSE
    <3>1. store' = store
      BY <2>6 DEF LocalStep, Call, RedirectForToken, RenewTokenSilent, OpenPopup, PopupRefused, Begin,
         LookAgain, CheckClosed, TokenRequest, TokenRequestFails, Invalid, PopupLoads, PopupClosed,
         CancelFrame, Answer
    <3> QED
      BY <2>1, <3>1
  <2> QED
    BY <1>1, <2>2, <2>3, <2>4, <2>5, <2>6, Steps DEF Window
<1> QED
  BY <1>1, SpecIInv, PTL DEF Spec, FreshTokenKept

-----------------------------------------------------------------------------
(* The OidcClients of one page.                                            *)

LEMMA ClientFacts ==
    /\ None \notin Nat /\ None \notin {"validate", "renew", "request"} /\ Page \notin Calls
    /\ \A t \in C!Tokens : t # None /\ t.key \in 1 .. MaxKey /\ t.iat \in Nat /\ t.exp \in Nat
                           /\ t.fault \in C!Faults
    /\ 1 \in 1 .. MaxKey /\ MaxKey \in Nat /\ Age \in Nat /\ MaxNow \in Nat /\ C!NoKey = 0
<1>1. \A t \in C!Tokens : /\ t.key \in 1 .. MaxKey /\ t.iat \in Nat /\ t.exp \in Nat
                           /\ t.fault \in C!Faults
  BY DEF C!Tokens
<1>2. /\ None \notin Nat /\ None \notin {"validate", "renew", "request"} /\ Page \notin Calls
      /\ 1 \in 1 .. MaxKey /\ MaxKey \in Nat /\ Age \in Nat /\ MaxNow \in Nat /\ C!NoKey = 0
  BY TimeAssumption, ClientAssumption DEF C!NoKey
<1> QED
  BY <1>1, <1>2, ClientAssumption

\* What has been found right of the token of a call, as far as the call has come.
Checked(c) ==
    /\ cpc[c] \in {"idle", "asked", "issued", "metadata", "keys"} => used[c] = None
    /\ cpc[c] \in {"idle", "asked", "issued", "metadata"} => answer[c] = None
    /\ cpc[c] = "idle" => use[c] = None /\ ctoken[c] = None
    /\ cpc[c] = "asked" => use[c] = "renew" /\ ctoken[c] = None
    /\ cpc[c] \in {"issued", "keys", "issuer", "profile", "accepted", "unverified"} =>
          use[c] \in {"validate", "renew"} /\ ctoken[c] # None
    /\ cpc[c] = "metadata" =>
          use[c] \in (IF ctoken[c] = None THEN {"request", "renew"} ELSE {"validate", "renew"})
    /\ cpc[c] \in {"issuer", "profile", "accepted"} =>
          used[c] = ctoken[c].key /\ ctoken[c].fault # "nonce"
    /\ cpc[c] \in {"profile", "accepted"} =>
          /\ checked[c] \in Nat
          /\ checked[c] <= ctoken[c].exp /\ checked[c] - ctoken[c].iat <= Age
          /\ ctoken[c].fault # "claims"
    /\ cpc[c] = "accepted" => ~(oauth /\ ctoken[c].fault = "hash")
    /\ cpc[c] = "unverified" => used[c] \notin {None, ctoken[c].key}

\* Keys of the application and of the page's client.
Known == ({own} \ {None}) \cup {used[d] : d \in C!HaveKeys}

\* Where keys come from.
Origins ==
    /\ jwks[Page] # None => jwks[Page] \in Known
    /\ \A c \in Calls :
         /\ use[c] = "renew" /\ used[c] = None /\ jwks[c] # None => jwks[c] \in Known
         /\ answer[c] # None => answer[c] \in shown[c]
         /\ C!Open(c) => published \in shown[c]
         /\ used[c] # None => used[c] \in C!Sources(c)

\* A validation of the page's client that loads the keys with no other finds none
\* there; two that load them at the same time have met.
Loading ==
    /\ C!HaveKeys # {} => jwks[Page] # None
    /\ \A c \in Calls : C!LoadsKeys(c) /\ cmet[c] = {} => jwks[Page] = None
    /\ \A c, d \in Calls : c # d /\ C!LoadsKeys(c) /\ C!LoadsKeys(d) => d \in cmet[c]

\* A key that some validation loaded together with another.
Shared(k) == \E e \in C!HaveKeys : cmet[e] # {} /\ used[e] = k

\* Keys that were used and the key that is kept differ only by shared ones.
OneUnshared ==
    \A c \in C!HaveKeys : ~Shared(used[c]) =>
        /\ \A d \in C!HaveKeys : ~Shared(used[d]) => used[d] = used[c]
        /\ jwks[Page] = used[c] \/ Shared(jwks[Page])

\* A renewal uses the key of its copy, which it loads only if the page had none.
Copies(c) ==
    /\ had[c] # {} => use[c] = "renew"
    /\ use[c] = "renew" =>
          /\ used[c] \in {None, jwks[c]}
          /\ cpc[c] \in {"metadata", "keys"} /\ ctoken[c] # None => jwks[c] = None
          /\ \A d \in had[c] :
                /\ d \in C!HaveKeys /\ jwks[c] # None
                /\ jwks[c] = used[d] \/ Shared(jwks[c]) \/ Shared(used[d])

CInv ==
    /\ C!TypeOK
    /\ \A c \in Calls : Checked(c) /\ Copies(c)
    /\ Origins /\ Loading /\ OneUnshared

LEMMA ClientInit == C!Init => CInv
<1> SUFFICES ASSUME C!Init PROVE CInv
  OBVIOUS
<1> USE ClientFacts DEF C!Init
<1>1. C!TypeOK
  <2>1. own \in {None, 1} /\ own \in 0 .. MaxKey \cup {None} /\ clock \in 0 .. MaxNow
        /\ key \in 1 .. MaxKey /\ published = key
    OBVIOUS
  <2>2. profiles \in BOOLEAN
    BY Zenon
  <2> QED
    BY <2>1, <2>2 DEF C!TypeOK
<1>2. \A c \in Calls : Checked(c) /\ Copies(c)
  BY DEF Checked, Copies
<1>3. C!HaveKeys = {} /\ \A c \in Calls : ~C!LoadsKeys(c) /\ ~C!Open(c)
  BY DEF C!HaveKeys, C!LoadsKeys, C!Open
<1>4. Origins /\ Loading /\ OneUnshared
  BY <1>3 DEF Origins, Loading, OneUnshared, Known, C!Clients
<1> QED
  BY <1>1, <1>2, <1>4 DEF CInv

-----------------------------------------------------------------------------
(* What does not change the keys of the page's client.                     *)

LEMMA QuietLoading ==
    ASSUME CInv, UNCHANGED <<used, cmet>>, jwks'[Page] = jwks[Page],
           C!HaveKeys' = C!HaveKeys, \A c \in Calls : C!LoadsKeys(c)' => C!LoadsKeys(c)
    PROVE  Loading' /\ OneUnshared' /\ \A k : Shared(k)' <=> Shared(k)
BY DEF CInv, Loading, OneUnshared, Shared

\* The page's client has every key that it had.
LEMMA KnownGrows ==
    ASSUME UNCHANGED own, \A d \in C!HaveKeys : d \in C!HaveKeys' /\ used'[d] = used[d]
    PROVE  /\ \A k \in Known : k \in Known'
           /\ \A c \in Calls : shown[c] \subseteq shown'[c] => C!Sources(c) \subseteq C!Sources(c)'
BY DEF Known, C!Sources

LEMMA QuietOrigins ==
    ASSUME CInv, UNCHANGED <<own, used, jwks>>, C!HaveKeys' = C!HaveKeys,
           \A c \in Calls :
              /\ shown[c] \subseteq shown'[c]
              /\ use'[c] = "renew" => use[c] = "renew"
              /\ answer'[c] # None => answer'[c] \in shown'[c]
              /\ C!Open(c)' => published' \in shown'[c]
    PROVE  Origins'
<1>1. \A k \in Known : k \in Known'
  BY KnownGrows
<1>2. \A c \in Calls : C!Sources(c) \subseteq C!Sources(c)'
  BY KnownGrows
<1> QED
  BY <1>1, <1>2 DEF CInv, Origins

\* A call that is not the one that goes on.
LEMMA OthersChecked ==
    ASSUME \A d \in Calls : Checked(d), NEW c \in Calls, UNCHANGED oauth,
           \A d \in Calls \ {c} :
              /\ cpc'[d] = cpc[d] /\ use'[d] = use[d] /\ ctoken'[d] = ctoken[d]
              /\ used'[d] = used[d] /\ checked'[d] = checked[d] /\ answer'[d] = answer[d],
           Checked(c)'
    PROVE  \A d \in Calls : Checked(d)'
<1> SUFFICES ASSUME NEW d \in Calls, d # c PROVE Checked(d)'
  OBVIOUS
<1> QED
  BY DEF Checked

\* A copy of which nothing changes but that more keys are shared.
LEMMA CopyKept ==
    ASSUME NEW c \in Calls, Copies(c), had'[c] = had[c], use'[c] = use[c], used'[c] = used[c],
           jwks'[c] = jwks[c], ctoken'[c] = ctoken[c],
           cpc'[c] \in {"metadata", "keys"} => cpc[c] \in {"metadata", "keys"},
           \A d \in C!HaveKeys : d \in C!HaveKeys' /\ used'[d] = used[d],
           \A k : Shared(k) => Shared(k)'
    PROVE  Copies(c)'
BY DEF Copies

-----------------------------------------------------------------------------
(* Steps that bring no keys.                                               *)

LEMMA ClientTick == ASSUME CInv, C!Tick PROVE CInv'
<1> USE ClientFacts DEF CInv, C!Tick, C!config, C!provider, C!cache, C!history
<1>1. C!TypeOK'
  BY DEF C!TypeOK
<1>2. \A c \in Calls : Checked(c)'
  BY DEF Checked
<1>3. C!HaveKeys' = C!HaveKeys /\ \A c \in Calls : (C!LoadsKeys(c)' <=> C!LoadsKeys(c))
                                                    /\ (C!Open(c)' <=> C!Open(c))
  BY DEF C!HaveKeys, C!LoadsKeys, C!Open
<1>4. Loading' /\ OneUnshared' /\ \A k : Shared(k)' <=> Shared(k)
  BY <1>3, QuietLoading
<1>5. Origins'
  BY <1>3, QuietOrigins DEF Origins
<1>6. \A c \in Calls : Copies(c)'
  BY <1>3, <1>4, CopyKept
<1> QED
  BY <1>1, <1>2, <1>4, <1>5, <1>6

LEMMA ClientPublish == ASSUME CInv, NEW k \in C!NoKey .. MaxKey, C!Publish(k) PROVE CInv'
<1> USE ClientFacts DEF CInv, C!Publish, C!config, C!cache
<1>1. C!TypeOK'
  BY DEF C!TypeOK
<1>2. \A c \in Calls : Checked(c)'
  BY DEF Checked
<1>3. C!HaveKeys' = C!HaveKeys /\ \A c \in Calls : (C!LoadsKeys(c)' <=> C!LoadsKeys(c))
                                                    /\ (C!Open(c)' <=> C!Open(c))
  BY DEF C!HaveKeys, C!LoadsKeys, C!Open
<1>4. Loading' /\ OneUnshared' /\ \A j : Shared(j)' <=> Shared(j)
  BY <1>3, QuietLoading
<1>5. Origins'
  BY <1>3, QuietOrigins DEF Origins
<1>6. \A c \in Calls : Copies(c)'
  BY <1>3, <1>4, CopyKept
<1> QED
  BY <1>1, <1>2, <1>4, <1>5, <1>6

LEMMA ClientReload == ASSUME CInv, C!Reload PROVE CInv'
<1> USE ClientFacts DEF CInv, C!Reload, C!config, C!provider
<1>1. C!TypeOK'
  <2>1. own \in 0 .. MaxKey \cup {None}
    BY DEF C!TypeOK
  <2>2. (cpc \in [Calls -> {"idle", "asked", "issued", "metadata", "keys", "issuer", "profile", "done",
                           "accepted", "refused", "unverified", "late", "failed", "gone"}])'
    BY DEF C!TypeOK, C!Redirected
  <2>3. (use \in [Calls -> {"validate", "renew", "request", None}])'
    BY DEF C!TypeOK
  <2>4. (ctoken \in [Calls -> C!Tokens \cup {None}])' /\ (shown \in [Calls -> SUBSET (0 .. MaxKey)])'
    BY DEF C!TypeOK
  <2> QED
    BY <2>1, <2>2, <2>3, <2>4 DEF C!TypeOK
<1>2. \A c \in Calls : Checked(c)'
  BY DEF Checked, C!Redirected
<1>3. \A c \in Calls : Copies(c)'
  BY DEF Copies, C!Redirected
<1>4. C!HaveKeys' = {} /\ \A c \in Calls : ~C!LoadsKeys(c)' /\ (C!Open(c)' => C!Open(c) /\ C!Redirected(c))
  BY DEF C!HaveKeys, C!LoadsKeys, C!Open, C!Redirected, Checked
<1>5. Loading' /\ OneUnshared'
  BY <1>4 DEF Loading, OneUnshared
<1>6. Origins'
  BY <1>4 DEF Origins, Known, C!Clients, C!Redirected
<1> QED
  BY <1>1, <1>2, <1>3, <1>5, <1>6

LEMMA ClientRequest == ASSUME CInv, NEW c \in Calls, C!Request(c) PROVE CInv'
<1> USE ClientFacts DEF CInv, C!Request, C!config, C!provider, C!cache, C!history
<1>1. C!TypeOK'
  BY DEF C!TypeOK
<1>2. Checked(c)'
  BY DEF Checked, C!TypeOK
<1>3. \A d \in Calls : Checked(d)'
  BY <1>2, OthersChecked DEF C!TypeOK
<1>4. C!HaveKeys' = C!HaveKeys
  BY DEF C!HaveKeys, Checked, C!TypeOK
<1>5. \A d \in Calls : (C!LoadsKeys(d)' => C!LoadsKeys(d)) /\ (C!Open(d)' => C!Open(d))
  BY DEF C!LoadsKeys, C!Open, C!TypeOK, Checked
<1>6. Loading' /\ OneUnshared' /\ \A j : Shared(j)' <=> Shared(j)
  BY <1>4, <1>5, QuietLoading
<1>7. Origins'
  BY <1>4, <1>5, QuietOrigins DEF Origins, C!TypeOK
<1>8. Copies(c)'
  BY DEF Copies, Checked, C!TypeOK
<1>9. \A d \in Calls \ {c} : Copies(d)'
  BY <1>4, <1>6, CopyKept DEF C!TypeOK
<1> QED
  BY <1>1, <1>3, <1>6, <1>7, <1>8, <1>9

LEMMA ClientRenew == ASSUME CInv, NEW c \in Calls, C!Renew(c) PROVE CInv'
<1> USE ClientFacts DEF CInv, C!Renew, C!config, C!provider
<1>1. C!TypeOK'
  <2>1. C!HaveKeys \subseteq Calls /\ Page \in C!Clients /\ c \in C!Clients
    BY DEF C!HaveKeys, C!Clients
  <2> QED
    BY <2>1 DEF C!TypeOK
<1>2. Checked(c)'
  BY DEF Checked, C!TypeOK
<1>3. \A d \in Calls : Checked(d)'
  BY <1>2, OthersChecked DEF C!TypeOK
<1>4. C!HaveKeys' = C!HaveKeys
  BY DEF C!HaveKeys, Checked, C!TypeOK
<1>5. \A d \in Calls : (C!LoadsKeys(d)' => C!LoadsKeys(d)) /\ (C!Open(d)' => C!Open(d))
  BY DEF C!LoadsKeys, C!Open, C!TypeOK, Checked
<1>6. jwks'[c] = jwks[Page] /\ jwks'[Page] = jwks[Page] /\ \A d \in Calls \ {c} : jwks'[d] = jwks[d]
  BY DEF C!TypeOK, C!Clients
<1>7. Loading' /\ OneUnshared' /\ \A j : Shared(j)' <=> Shared(j)
  BY <1>4, <1>5, <1>6, QuietLoading
<1>8. Origins'
  <2>1. \A k \in Known : k \in Known'
    BY <1>4, KnownGrows
  <2>2. \A d \in Calls : C!Sources(d) \subseteq C!Sources(d)'
    BY <1>4, KnownGrows
  <2> QED
    BY <1>5, <1>6, <2>1, <2>2 DEF Origins, C!TypeOK
<1>9. Copies(c)'
  <2>1. use'[c] = "renew" /\ had'[c] = C!HaveKeys /\ used'[c] = None /\ ctoken'[c] = None
    BY DEF C!TypeOK, Checked
  <2>2. ASSUME NEW d \in C!HaveKeys
        PROVE  jwks[Page] # None /\ (jwks[Page] = used[d] \/ Shared(jwks[Page]) \/ Shared(used[d]))
    BY <2>2 DEF Loading, OneUnshared
  <2> QED
    BY <1>4, <1>6, <1>7, <2>1, <2>2 DEF Copies
<1>10. \A d \in Calls \ {c} : Copies(d)'
  BY <1>4, <1>6, <1>7, CopyKept DEF C!TypeOK
<1> QED
  BY <1>1, <1>3, <1>7, <1>8, <1>9, <1>10

LEMMA ClientIssue == ASSUME CInv, NEW c \in Calls, NEW t \in C!Tokens, C!Issue(c, t) PROVE CInv'
<1> USE ClientFacts DEF CInv, C!Issue, C!config, C!provider, C!cache
<1>1. /\ cpc[c] \in {"asked", "idle"} /\ used[c] = None /\ answer[c] = None /\ ctoken[c] = None
      /\ \E u \in {"renew", "validate"} :
            use' = [use EXCEPT ![c] = u] /\ (u = "renew" => use[c] = "renew")
                                         /\ (u = "validate" => use[c] = None)
  <2>1. CASE cpc[c] = "asked"
    <3>1. use' = [use EXCEPT ![c] = "renew"] /\ use[c] = "renew"
      BY <2>1 DEF Checked, C!TypeOK
    <3> QED
      BY <2>1, <3>1 DEF Checked
  <2>2. CASE cpc[c] = "idle"
    BY <2>2 DEF Checked
  <2> QED
    BY <2>1, <2>2
<1>2. C!TypeOK'
  <2>1. published \in 0 .. MaxKey
    BY DEF C!TypeOK
  <2> QED
    BY <1>1, <2>1 DEF C!TypeOK
<1>3. Checked(c)'
  BY <1>1 DEF Checked, C!TypeOK
<1>4. \A d \in Calls : Checked(d)'
  BY <1>1, <1>3, OthersChecked DEF C!TypeOK
<1>5. C!HaveKeys' = C!HaveKeys
  BY <1>1 DEF C!HaveKeys, C!TypeOK
<1>6. \A d \in Calls \ {c} : (C!LoadsKeys(d)' <=> C!LoadsKeys(d)) /\ (C!Open(d)' <=> C!Open(d))
  BY <1>1 DEF C!LoadsKeys, C!Open, C!TypeOK
<1>7. ~C!LoadsKeys(c)'
  BY DEF C!LoadsKeys, C!TypeOK
<1>8. Loading' /\ OneUnshared' /\ \A j : Shared(j)' <=> Shared(j)
  BY <1>5, <1>6, <1>7, QuietLoading
<1>9. Origins'
  <2>1. \A d \in Calls \ {c} : shown'[d] = shown[d]
    BY DEF C!TypeOK
  <2>2. shown'[c] = {published} /\ used'[c] = None /\ answer'[c] = None
    BY <1>1 DEF C!TypeOK
  <2>3. \A k \in Known : k \in Known'
    BY <1>5, KnownGrows
  <2>4. \A d \in Calls \ {c} : C!Sources(d) \subseteq C!Sources(d)'
    BY <1>5, <2>1, KnownGrows
  <2> QED
    BY <1>1, <1>6, <2>1, <2>2, <2>3, <2>4 DEF Origins, C!TypeOK
<1>10. Copies(c)'
  BY <1>1, <1>5, <1>8 DEF Copies, C!TypeOK
<1>11. \A d \in Calls \ {c} : Copies(d)'
  BY <1>1, <1>5, <1>8, CopyKept DEF C!TypeOK
<1> QED
  BY <1>2, <1>4, <1>8, <1>9, <1>10, <1>11

-----------------------------------------------------------------------------
(* Steps that bring keys, or go to load them.                              *)

\* Where KeyFound and ClaimsCompared can lead.
Outcomes == {"issuer", "profile", "accepted", "refused", "unverified", "late", "failed"}

LEMMA ClaimsOutcome ==
    ASSUME C!TypeOK, NEW t \in C!Tokens, t.fault # "nonce"
    PROVE  /\ C!ClaimsCompared(t) \in Outcomes \ {"issuer", "unverified"}
           /\ C!ClaimsCompared(t) \in {"profile", "accepted"} =>
                 clock \in Nat /\ clock <= t.exp /\ clock - t.iat <= Age /\ t.fault # "claims"
           /\ C!ClaimsCompared(t) = "accepted" => ~(oauth /\ t.fault = "hash")
BY ClientFacts DEF C!ClaimsCompared, C!HashCompared, C!TypeOK, Outcomes

LEMMA KeyFoundOutcome ==
    ASSUME C!TypeOK, NEW c \in Calls, NEW t \in C!Tokens, ctoken[c] = t, NEW k \in 0 .. MaxKey,
           C!KeyFound(c, k)
    PROVE  /\ used' = [used EXCEPT ![c] = k] /\ checked' = [checked EXCEPT ![c] = clock]
           /\ \E o \in Outcomes :
                 /\ cpc' = [cpc EXCEPT ![c] = o]
                 /\ o = "unverified" => k # t.key
                 /\ o \in {"issuer", "profile", "accepted"} => k = t.key /\ t.fault # "nonce"
                 /\ o \in {"profile", "accepted"} =>
                       clock \in Nat /\ clock <= t.exp /\ clock - t.iat <= Age /\ t.fault # "claims"
                 /\ o = "accepted" => ~(oauth /\ t.fault = "hash")
<1>1. CASE k # t.key
  BY <1>1 DEF C!KeyFound, Outcomes
<1>2. CASE k = t.key /\ t.fault = "nonce"
  BY <1>2 DEF C!KeyFound, Outcomes
<1>3. CASE k = t.key /\ t.fault # "nonce" /\ ~metadata[C!Client(c)]
  BY <1>3 DEF C!KeyFound, Outcomes
<1>4. CASE k = t.key /\ t.fault # "nonce" /\ metadata[C!Client(c)]
  BY <1>4, ClaimsOutcome DEF C!KeyFound, Outcomes
<1> QED
  BY <1>1, <1>2, <1>3, <1>4

\* A call that is verified with key k, of its settings or just loaded into them.
KeyUsed(c, k) ==
    /\ c \in Calls /\ k \in 0 .. MaxKey
    /\ cpc[c] \in {"issued", "keys"}
    /\ use[c] \in {"validate", "renew"} /\ ctoken[c] \in C!Tokens /\ used[c] = None
    /\ C!KeyFound(c, k)
    /\ jwks' = [jwks EXCEPT ![C!Client(c)] = k]
    /\ answer' \in {answer, [answer EXCEPT ![c] = None]}
    /\ answer'[c] = None
    /\ UNCHANGED <<clock, key, published, lacking, told, own, oauth, profiles, metadata, use, ctoken,
                   shown, cmet, had>>

LEMMA KeyUsedCall ==
    ASSUME CInv, NEW c, NEW k, KeyUsed(c, k)
    PROVE  /\ C!TypeOK' /\ \A d \in Calls : Checked(d)'
           /\ used'[c] = k /\ cpc'[c] \in Outcomes
           /\ \A d \in Calls \ {c} : used'[d] = used[d] /\ cpc'[d] = cpc[d] /\ answer'[d] = answer[d]
           /\ jwks'[C!Client(c)] = k
           /\ \A d \in C!Clients \ {C!Client(c)} : jwks'[d] = jwks[d]
<1> USE ClientFacts DEF KeyUsed
<1> DEFINE t == ctoken[c]
<1>0. t \in C!Tokens /\ C!Client(c) \in C!Clients
  BY DEF C!Client, C!Clients
<1>1. PICK o \in Outcomes :
               /\ cpc' = [cpc EXCEPT ![c] = o]
               /\ o = "unverified" => k # t.key
               /\ o \in {"issuer", "profile", "accepted"} => k = t.key /\ t.fault # "nonce"
               /\ o \in {"profile", "accepted"} =>
                     clock \in Nat /\ clock <= t.exp /\ clock - t.iat <= Age /\ t.fault # "claims"
               /\ o = "accepted" => ~(oauth /\ t.fault = "hash")
  BY <1>0, KeyFoundOutcome DEF CInv
<1>2. used' = [used EXCEPT ![c] = k] /\ checked' = [checked EXCEPT ![c] = clock]
  BY DEF C!KeyFound
<1>3. C!TypeOK'
  BY <1>0, <1>1, <1>2 DEF CInv, C!TypeOK, Outcomes
<1>4. Checked(c)'
  BY <1>1, <1>2 DEF CInv, C!TypeOK, Outcomes, Checked
<1>5. \A d \in Calls : Checked(d)'
  BY <1>1, <1>2, <1>4, OthersChecked DEF CInv, C!TypeOK
<1> QED
  BY <1>0, <1>1, <1>2, <1>3, <1>5 DEF CInv, C!TypeOK

\* A renewal changes neither the keys of the page's client nor who has them.
LEMMA RenewalUses ==
    ASSUME CInv, NEW c, NEW k, KeyUsed(c, k), use[c] = "renew",
           jwks[c] = k \/ jwks[c] = None, k \in Known \cup shown[c]
    PROVE  CInv'
<1> USE ClientFacts
<1>1. c \in Calls /\ C!Client(c) = c /\ c # Page /\ Page \in C!Clients /\ Calls \subseteq C!Clients
  BY DEF KeyUsed, C!Client, C!Clients
<1>2. C!TypeOK' /\ \A d \in Calls : Checked(d)'
  BY KeyUsedCall
<1>3. /\ used'[c] = k /\ jwks'[c] = k /\ jwks'[Page] = jwks[Page] /\ cpc'[c] \in Outcomes
      /\ \A d \in Calls \ {c} : /\ used'[d] = used[d] /\ jwks'[d] = jwks[d] /\ cpc'[d] = cpc[d]
                                /\ answer'[d] = answer[d]
  BY <1>1, KeyUsedCall
<1>4. /\ UNCHANGED <<own, use, ctoken, shown, cmet, had, published>> /\ used[c] = None
      /\ k # None /\ answer'[c] = None
  BY DEF KeyUsed
<1>5. C!HaveKeys' = C!HaveKeys /\ c \notin C!HaveKeys /\ \A d \in C!HaveKeys : used'[d] = used[d]
  BY <1>3, <1>4 DEF C!HaveKeys
<1>6. \A d \in Calls : (C!LoadsKeys(d)' => C!LoadsKeys(d)) /\ (C!Open(d)' => C!Open(d) /\ d # c)
  BY <1>3, <1>4 DEF C!LoadsKeys, C!Open, Outcomes
<1>7. \A j : Shared(j)' <=> Shared(j)
  BY <1>4, <1>5 DEF Shared
<1>8. Loading'
  BY <1>3, <1>4, <1>5, <1>6 DEF CInv, Loading
<1>9. OneUnshared'
  BY <1>3, <1>5, <1>7 DEF CInv, OneUnshared
<1>10. Origins'
  <2>1. (\A j \in Known : j \in Known') /\ \A d \in Calls : C!Sources(d) \subseteq C!Sources(d)'
    BY <1>4, <1>5, KnownGrows
  <2>2. k \in C!Sources(c)
    BY <1>5 DEF Known, C!Sources
  <2> QED
    BY <1>1, <1>3, <1>4, <1>6, <2>1, <2>2 DEF CInv, Origins
<1>11. Copies(c)'
  BY <1>1, <1>3, <1>4, <1>5, <1>7 DEF CInv, Copies, Outcomes
<1>12. \A d \in Calls \ {c} : Copies(d)'
  BY <1>3, <1>4, <1>5, <1>7, CopyKept DEF CInv
<1> QED
  BY <1>2, <1>8, <1>9, <1>10, <1>11, <1>12 DEF CInv

\* A validation of the page uses the key that is there, the first one, or one that
\* it has loaded together with another.
LEMMA PageUses ==
    ASSUME CInv, NEW c, NEW k, KeyUsed(c, k), use[c] = "validate",
           k \in Known \cup shown[c],
           jwks[Page] = k \/ (C!LoadsKeys(c) /\ (cmet[c] # {} \/ jwks[Page] = None))
    PROVE  CInv'
<1> USE ClientFacts
<1>1. c \in Calls /\ C!Client(c) = Page /\ Calls \subseteq C!Clients /\ Page \in C!Clients
  BY DEF KeyUsed, C!Client, C!Clients
<1>2. C!TypeOK' /\ \A d \in Calls : Checked(d)'
  BY KeyUsedCall
<1>3. /\ used'[c] = k /\ jwks'[Page] = k /\ cpc'[c] \in Outcomes
      /\ \A d \in Calls : jwks'[d] = jwks[d]
      /\ \A d \in Calls \ {c} : used'[d] = used[d] /\ cpc'[d] = cpc[d] /\ answer'[d] = answer[d]
  BY <1>1, KeyUsedCall
<1>4. /\ UNCHANGED <<own, use, ctoken, shown, cmet, had, published>> /\ used[c] = None
      /\ k # None /\ answer'[c] = None
  BY DEF KeyUsed
<1>5. /\ C!HaveKeys' = C!HaveKeys \cup {c} /\ c \notin C!HaveKeys
      /\ \A d \in C!HaveKeys : d \in C!HaveKeys' /\ used'[d] = used[d] /\ d \in Calls /\ d # c
  BY <1>1, <1>3, <1>4 DEF C!HaveKeys
<1>6. \A d \in Calls : /\ C!LoadsKeys(d)' => C!LoadsKeys(d) /\ d # c
                       /\ C!Open(d)' => C!Open(d) /\ d # c
  BY <1>3, <1>4 DEF C!LoadsKeys, C!Open, Outcomes
<1>7. \A j : Shared(j) => Shared(j)'
  BY <1>4, <1>5 DEF Shared
<1>8. Loading'
  <2>1. ASSUME NEW d \in Calls, C!LoadsKeys(d)', cmet'[d] = {} PROVE FALSE
    <3>1. C!LoadsKeys(d) /\ d # c /\ cmet[d] = {}
      BY <1>4, <1>6, <2>1
    <3>2. jwks[Page] = None
      BY <3>1 DEF CInv, Loading
    <3>3. C!LoadsKeys(c)
      BY <1>4, <3>2
    <3> QED
      BY <1>1, <3>1, <3>3 DEF CInv, Loading
  <2> QED
    BY <1>3, <1>4, <1>6, <2>1 DEF CInv, Loading
<1>9. Origins'
  <2>1. (\A j \in Known : j \in Known') /\ \A d \in Calls : C!Sources(d) \subseteq C!Sources(d)'
    BY <1>4, <1>5, KnownGrows
  <2>2. k \in C!Sources(c) /\ k \in Known'
    BY <1>3, <1>5 DEF Known, C!Sources
  <2> QED
    BY <1>1, <1>3, <1>4, <1>6, <2>1, <2>2 DEF CInv, Origins
<1>10. OneUnshared'
  <2>1. \A d \in C!HaveKeys : ~Shared(used[d])' => ~Shared(used[d])
    BY <1>5, <1>7
  <2>2. CASE cmet[c] # {}
    <3>1. Shared(k)'
      BY <1>3, <1>4, <1>5, <2>2 DEF Shared
    <3>2. Shared(used[c])' /\ Shared(jwks[Page])'
      BY <1>3, <3>1 DEF Shared
    <3> QED
      BY <1>5, <2>1, <3>2 DEF CInv, OneUnshared
  <2>3. CASE jwks[Page] = None
    <3>1. C!HaveKeys' = {c}
      BY <1>5, <2>3 DEF CInv, Loading
    <3> QED
      BY <1>3, <3>1 DEF OneUnshared
  <2>4. CASE jwks[Page] = k
    <3>1. Shared(k) => Shared(used[c])' /\ Shared(jwks[Page])'
      BY <1>3, <1>7 DEF Shared
    <3> QED
      BY <1>3, <1>5, <2>1, <2>4, <3>1 DEF CInv, OneUnshared
  <2> QED
    BY <2>2, <2>3, <2>4
<1>11. Copies(c)'
  BY <1>1, <1>4 DEF CInv, Copies
<1>12. \A d \in Calls \ {c} : Copies(d)'
  BY <1>3, <1>4, <1>5, <1>7, CopyKept DEF CInv
<1> QED
  BY <1>2, <1>8, <1>9, <1>10, <1>11, <1>12 DEF CInv

\* A validation begins with keys that are there, or goes to load them.
LEMMA ClientValidate == ASSUME CInv, NEW c \in Calls, C!Validate(c) PROVE CInv'
<1> USE ClientFacts DEF CInv
<1> DEFINE k == jwks[C!Client(c)]
<1>1. /\ cpc[c] = "issued" /\ used[c] = None /\ answer[c] = None /\ ctoken[c] \in C!Tokens
      /\ use[c] \in {"validate", "renew"} /\ C!Client(c) \in C!Clients
      /\ UNCHANGED <<clock, key, published, lacking, told, own, oauth, profiles, metadata, jwks, use,
                     ctoken, answer, shown, had>>
  BY DEF C!Validate, C!config, C!provider, C!cache, Checked, C!TypeOK, C!Client, C!Clients
<1>2. CASE k # None
  <2>1. k \in 0 .. MaxKey /\ C!KeyFound(c, k) /\ cmet' = cmet /\ jwks' = [jwks EXCEPT ![C!Client(c)] = k]
    BY <1>1, <1>2 DEF C!Validate, C!TypeOK
  <2>2. KeyUsed(c, k)
    BY <1>1, <2>1 DEF KeyUsed
  <2>3. CASE use[c] = "renew"
    <3>1. k = jwks[c] /\ k \in Known
      BY <1>1, <1>2, <2>3 DEF C!Client, Origins
    <3> QED
      BY <2>2, <2>3, <3>1, RenewalUses
  <2>4. CASE use[c] = "validate"
    <3>1. k = jwks[Page] /\ k \in Known
      BY <1>2, <2>4 DEF C!Client, Origins
    <3> QED
      BY <2>2, <2>4, <3>1, PageUses
  <2> QED
    BY <1>1, <2>3, <2>4
<1>3. CASE k = None
  <2>1. /\ UNCHANGED <<used, checked>>
        /\ \E o \in {"metadata", "keys", "failed"} : cpc' = [cpc EXCEPT ![c] = o]
        /\ cmet' = [d \in Calls |->
              IF use[c] # "validate" THEN cmet[d]
              ELSE IF d = c THEN {e \in Calls : C!LoadsKeys(e)}
              ELSE IF C!LoadsKeys(d) THEN cmet[d] \cup {c} ELSE cmet[d]]
    BY <1>3 DEF C!Validate, C!AskForKeys, C!Together
  <2>2. C!TypeOK'
    <3>1. (cmet \in [Calls -> SUBSET Calls])'
      BY <2>1 DEF C!TypeOK
    <3>2. UNCHANGED <<clock, key, published, lacking, told, own, oauth, profiles, metadata, jwks, use,
                      ctoken, answer, shown, had, used, checked>>
      BY <1>1, <2>1
    <3>3. (cpc \in [Calls -> {"idle", "asked", "issued", "metadata", "keys", "issuer", "profile", "done",
                         "accepted", "refused", "unverified", "late", "failed", "gone"}])'
      BY <2>1 DEF C!TypeOK
    <3> QED
      BY <3>1, <3>2, <3>3 DEF C!TypeOK
  <2>3. Checked(c)'
    BY <1>1, <2>1 DEF Checked, C!TypeOK
  <2>4. \A d \in Calls : Checked(d)'
    BY <1>1, <2>1, <2>3, OthersChecked DEF C!TypeOK
  <2>5. C!HaveKeys' = C!HaveKeys
    BY <1>1, <2>1 DEF C!HaveKeys
  <2>6. \A d \in Calls \ {c} : C!LoadsKeys(d)' <=> C!LoadsKeys(d)
    BY <1>1, <2>1 DEF C!LoadsKeys, C!TypeOK
  <2>7. ~C!LoadsKeys(c) /\ (C!LoadsKeys(c)' => use[c] = "validate")
    BY <1>1 DEF C!LoadsKeys
  <2>8. use[c] = "validate" => C!HaveKeys = {} /\ jwks[Page] = None
    BY <1>3 DEF Loading, C!Client
  <2>9. Loading'
    BY <1>1, <2>1, <2>5, <2>6, <2>7, <2>8 DEF Loading
  <2>10. OneUnshared' /\ \A j : Shared(j)' <=> Shared(j)
    <3>1. CASE use[c] = "validate"
      BY <2>5, <2>8, <3>1 DEF OneUnshared, Shared
    <3>2. CASE use[c] = "renew"
      BY <1>1, <2>1, <2>5, <3>2 DEF OneUnshared, Shared, C!TypeOK, C!HaveKeys
    <3> QED
      BY <1>1, <3>1, <3>2
  <2>11. \A d \in Calls : C!Open(d)' => C!Open(d)
    BY <1>1, <2>1 DEF C!Open, C!TypeOK
  <2>12. Origins'
    BY <1>1, <2>1, <2>5, <2>11, QuietOrigins DEF Origins
  <2>13. Copies(c)'
    BY <1>1, <1>3, <2>1, <2>5, <2>10 DEF Copies, C!Client
  <2>14. \A d \in Calls \ {c} : Copies(d)'
    BY <1>1, <2>1, <2>5, <2>10, CopyKept DEF C!TypeOK
  <2> QED
    BY <2>2, <2>4, <2>9, <2>10, <2>12, <2>13, <2>14
<1> QED
  BY <1>2, <1>3

LEMMA ClientKeys == ASSUME CInv, NEW c \in Calls, C!KeysArrive(c) PROVE CInv'
<1> USE ClientFacts DEF CInv
<1> DEFINE k == answer[c]
<1>1. /\ cpc[c] = "keys" /\ k # None /\ used[c] = None /\ ctoken[c] \in C!Tokens
      /\ use[c] \in {"validate", "renew"} /\ k \in 0 .. MaxKey /\ k \in shown[c]
  BY DEF C!KeysArrive, Checked, C!TypeOK, Origins
<1>2. KeyUsed(c, k)
  BY <1>1 DEF C!KeysArrive, C!config, C!provider, KeyUsed, C!TypeOK
<1>3. CASE use[c] = "renew"
  <2>1. jwks[c] = None
    BY <1>1, <1>3 DEF Copies
  <2> QED
    BY <1>1, <1>2, <1>3, <2>1, RenewalUses
<1>4. CASE use[c] = "validate"
  <2>1. C!LoadsKeys(c)
    BY <1>1, <1>4 DEF C!LoadsKeys
  <2>2. cmet[c] # {} \/ jwks[Page] = None
    BY <2>1 DEF Loading
  <2> QED
    BY <1>1, <1>2, <1>4, <2>1, <2>2, PageUses
<1> QED
  BY <1>1, <1>3, <1>4

-----------------------------------------------------------------------------
(* The other answers.                                                      *)

\* A call that goes on to o without a key, or with the one it has.
LEMMA GoesOn ==
    ASSUME CInv, NEW c \in Calls, cpc[c] \in {"asked", "metadata", "keys", "issuer", "profile"},
           NEW o \in {"asked", "done", "keys", "profile", "accepted", "refused", "late", "failed"},
           cpc' = [cpc EXCEPT ![c] = o],
           o = "keys" => cpc[c] = "metadata" /\ ctoken[c] # None,
           UNCHANGED <<own, published, jwks, use, ctoken, answer, used, shown, cmet, had>>
    PROVE  Origins' /\ Loading' /\ OneUnshared' /\ \A d \in Calls : Copies(d)'
<1> USE DEF CInv
<1>1. C!HaveKeys' = C!HaveKeys
  BY DEF C!HaveKeys
<1>2. \A d \in Calls : (C!LoadsKeys(d)' => C!LoadsKeys(d)) /\ (C!Open(d)' => C!Open(d))
  BY DEF C!LoadsKeys, C!Open, C!TypeOK
<1>3. Loading' /\ OneUnshared' /\ \A j : Shared(j)' <=> Shared(j)
  BY <1>1, <1>2, QuietLoading
<1>4. Origins'
  BY <1>1, <1>2, QuietOrigins DEF Origins
<1>5. \A d \in Calls : Copies(d)'
  BY <1>1, <1>3, CopyKept DEF C!TypeOK
<1> QED
  BY <1>3, <1>4, <1>5

LEMMA ClientMetadata == ASSUME CInv, NEW c \in Calls, C!MetadataArrives(c) PROVE CInv'
<1> USE ClientFacts DEF CInv
<1>0. C!Client(c) \in C!Clients
  BY DEF C!Client, C!Clients
<1>1. /\ metadata' = [metadata EXCEPT ![C!Client(c)] = TRUE]
      /\ UNCHANGED <<clock, key, published, lacking, told, own, oauth, profiles, jwks, use, ctoken, answer,
                     used, shown, cmet, had>>
  BY DEF C!MetadataArrives, C!config, C!provider
<1>2. CASE cpc[c] = "metadata"
  <2>1. PICK o \in {"asked", "done", "failed", "keys"} :
              /\ checked' = checked /\ cpc' = [cpc EXCEPT ![c] = o]
              /\ o = "keys" => ctoken[c] # None
              /\ o = "asked" => ctoken[c] = None /\ use[c] = "renew"
    BY <1>2 DEF C!MetadataArrives, C!AskForKeys
  <2>2. C!TypeOK'
    BY <1>0, <1>1, <2>1 DEF C!TypeOK
  <2>3. Checked(c)'
    BY <1>1, <1>2, <2>1 DEF Checked, C!TypeOK
  <2>4. \A d \in Calls : Checked(d)'
    BY <1>1, <2>1, <2>3, OthersChecked DEF C!TypeOK
  <2>5. Origins' /\ Loading' /\ OneUnshared' /\ \A d \in Calls : Copies(d)'
    BY <1>1, <1>2, <2>1, GoesOn
  <2> QED
    BY <2>2, <2>4, <2>5
<1>3. CASE cpc[c] = "issuer"
  <2> DEFINE o == C!ClaimsCompared(ctoken[c])
  <2>1. ctoken[c] \in C!Tokens /\ ctoken[c].fault # "nonce" /\ used[c] = ctoken[c].key
        /\ use[c] \in {"validate", "renew"}
    BY <1>3 DEF Checked, C!TypeOK
  <2>2. checked' = [checked EXCEPT ![c] = clock] /\ cpc' = [cpc EXCEPT ![c] = o]
    BY <1>3 DEF C!MetadataArrives
  <2>3. /\ o \in {"profile", "accepted", "refused", "late", "failed"}
        /\ o \in {"profile", "accepted"} => /\ clock \in Nat /\ clock <= ctoken[c].exp
                                            /\ clock - ctoken[c].iat <= Age /\ ctoken[c].fault # "claims"
        /\ o = "accepted" => ~(oauth /\ ctoken[c].fault = "hash")
    BY <2>1, ClaimsOutcome DEF Outcomes
  <2> HIDE DEF o
  <2>4. C!TypeOK'
    BY <1>0, <1>1, <2>2, <2>3 DEF C!TypeOK
  <2>5. Checked(c)'
    BY <1>1, <2>1, <2>2, <2>3 DEF Checked, C!TypeOK
  <2>6. \A d \in Calls : Checked(d)'
    BY <1>1, <2>2, <2>5, OthersChecked DEF C!TypeOK
  <2>7. Origins' /\ Loading' /\ OneUnshared' /\ \A d \in Calls : Copies(d)'
    BY <1>1, <1>3, <2>2, <2>3, GoesOn
  <2> QED
    BY <2>4, <2>6, <2>7
<1> QED
  BY <1>2, <1>3 DEF C!MetadataArrives

LEMMA ClientServed == ASSUME CInv, NEW c \in Calls, C!KeysServed(c) PROVE CInv'
<1> USE ClientFacts DEF CInv, C!KeysServed, C!config, C!provider, C!cache, C!history
<1>1. C!TypeOK'
  BY DEF C!TypeOK
<1>2. \A d \in Calls : Checked(d)'
  BY DEF Checked
<1>3. C!HaveKeys' = C!HaveKeys /\ \A d \in Calls : C!LoadsKeys(d)' <=> C!LoadsKeys(d)
  BY DEF C!HaveKeys, C!LoadsKeys
<1>4. C!Open(c) /\ \A d \in Calls : C!Open(d)' => C!Open(d)
  BY DEF C!Open, C!TypeOK, Checked
<1>5. Loading' /\ OneUnshared' /\ \A j : Shared(j)' <=> Shared(j)
  BY <1>3, QuietLoading
<1>6. Origins'
  BY <1>3, <1>4, QuietOrigins DEF Origins, C!TypeOK
<1>7. \A d \in Calls : Copies(d)'
  BY <1>3, <1>5, CopyKept
<1> QED
  BY <1>1, <1>2, <1>5, <1>6, <1>7

LEMMA ClientEnds ==
    ASSUME CInv, NEW c \in Calls, C!ProfileArrives(c) \/ C!NetworkFails(c)
    PROVE  CInv'
<1> USE ClientFacts DEF CInv, C!ProfileArrives, C!NetworkFails, C!config, C!provider, C!cache, C!history
<1>1. PICK o \in {"accepted", "refused", "failed"} :
          /\ cpc' = [cpc EXCEPT ![c] = o]
          /\ o = "accepted" => cpc[c] = "profile" /\ ~(oauth /\ ctoken[c].fault = "hash")
  BY DEF C!HashCompared
<1>2. UNCHANGED <<clock, key, published, lacking, told, own, oauth, profiles, metadata, jwks, use, ctoken,
                  answer, used, checked, shown, cmet, had>>
  OBVIOUS
<1>3. C!TypeOK'
  BY <1>1, <1>2 DEF C!TypeOK
<1>4. Checked(c)'
  BY <1>1, <1>2 DEF Checked, C!TypeOK
<1>5. \A d \in Calls : Checked(d)'
  BY <1>1, <1>2, <1>4, OthersChecked DEF C!TypeOK
<1>6. Origins' /\ Loading' /\ OneUnshared' /\ \A d \in Calls : Copies(d)'
  BY <1>1, <1>2, GoesOn
<1> QED
  BY <1>3, <1>5, <1>6

LEMMA ClientNext == CInv /\ [C!Next]_C!vars => CInv'
<1> SUFFICES ASSUME CInv, [C!Next]_C!vars PROVE CInv'
  OBVIOUS
<1>1. CASE UNCHANGED C!vars
  BY <1>1 DEF CInv, C!TypeOK, Checked, Copies, Origins, Known, C!Sources, Loading, OneUnshared, Shared,
     C!HaveKeys, C!Open, C!LoadsKeys, C!vars, C!config, C!provider, C!cache, C!history
<1>2. ASSUME NEW c \in Calls, NEW t \in C!Issued, C!Issue(c, t)
      PROVE  CInv'
  <2>1. t \in C!Tokens
    BY TimeAssumption, ClientFacts DEF C!Issued, C!Tokens, C!Faults, CInv, C!TypeOK
  <2> QED
    BY <1>2, <2>1, ClientIssue
<1> QED
  BY <1>1, <1>2, ClientTick, ClientPublish, ClientReload, ClientRequest, ClientRenew, ClientValidate,
     ClientMetadata, ClientServed, ClientKeys, ClientEnds DEF C!Next

\* For any calls, with a client of their own or the page's, any keys and ages: a
\* token is accepted only with the key that signed it, in time and with nothing
\* wrong; a genuine one is refused only because of another key of the application,
\* of the page's client or published while the token was under way; and the first
\* keys of the page's client stay those of its validations and of the renewals and
\* popups that begin after them.
THEOREM ClientIsExplained == C!Spec => []ClientExplained
<1>1. CInv => ClientExplained
  <2> SUFFICES ASSUME CInv PROVE ClientExplained
    OBVIOUS
  <2>1. C!AcceptedRightly
    BY ClientFacts DEF CInv, Checked, C!AcceptedRightly, C!Faults, C!TypeOK
  <2>2. C!UnverifiedExplained
    BY DEF CInv, Checked, Origins, C!UnverifiedExplained
  <2>3. C!FirstKeysStay
    <3> SUFFICES ASSUME NEW c \in Calls, NEW d \in C!HaveKeys, use[c] = "validate" \/ d \in had[c],
                        used[c] \notin {None, used[d]}
                 PROVE  Shared(used[c]) \/ Shared(used[d])
      BY DEF C!FirstKeysStay, Shared
    <3>1. CASE use[c] = "validate"
      <4>1. c \in C!HaveKeys
        BY <3>1 DEF C!HaveKeys
      <4> QED
        BY <4>1 DEF CInv, OneUnshared
    <3>2. CASE d \in had[c]
      BY <3>2 DEF CInv, Copies
    <3> QED
      BY <3>1, <3>2
  <2> QED
    BY <2>1, <2>2, <2>3 DEF CInv, ClientExplained, C!ClientExplained
<1> QED
  BY <1>1, ClientInit, ClientNext, PTL DEF C!Spec
=============================================================================

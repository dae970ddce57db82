--------------------------- MODULE MCTokenManager ---------------------------
(* Bounds of the TLC run of TokenManager and OidcClient.                   *)
EXTENDS TokenManager

CONSTANTS w1, r3, c1, Calls, Page, Age, MaxKey

VARIABLES
    scenario,   \* fixed by the initial state
    clock, key, published, lacking, told, own, oauth, profiles, metadata, jwks,
    cpc, use, ctoken, answer, used, checked, shown, cmet, had

C == INSTANCE OidcClient WITH now <- clock, pc <- cpc, token <- ctoken, met <- cmet

ASSUME ClientAssumption ==
    /\ Age \in Nat /\ MaxKey \in Nat \ {0}
    /\ None \notin {"validate", "renew", "request"} \cup C!Tokens
    /\ Page \notin Calls

clientVars ==
    <<clock, key, published, lacking, told, own, oauth, profiles, metadata, jwks,
      cpc, use, ctoken, answer, used, checked, shown, cmet, had>>

\* "windows": two windows that ask twice, by redirect and frame while time passes;
\* "popups":  one window with popups and a frame, in no time;
\* "keys":    a client whose calls load the provider's keys while they change;
\* "claims":  tokens of every kind, validated by one call while time passes.
Scenarios == {"windows", "popups", "keys", "claims"}

MCInit ==
    /\ Init /\ C!Init
    /\ scenario \in Scenarios
    /\ scenario \in {"keys", "claims"} => silent
    /\ scenario # "claims" => lacking = None /\ ~told /\ own = None /\ oauth /\ ~profiles

ManagerNext ==
    \/ scenario = "windows" /\ Tick
    \/ \E w \in Windows :
         \/ Window(w) \/ Load(w)
         \/ scenario = "windows" /\ (Unload(w) \/ Logout(w))
    \/ \E r \in Requests :
         \/ Script(r)
         \/ PopupLoads(r) \/ PopupClosed(r) \/ CancelFrame(r)
         \/ \E good \in BOOLEAN : Answer(r, good)
         \/ /\ scenario = "windows" /\ r # r3
            /\ \E w \in Windows : RedirectForToken(w, r) \/ RenewTokenSilent(w, r)
         \/ /\ scenario = "popups"
            /\ \/ RenewTokenSilent(w1, r) \/ RedirectForToken(w1, r)
               \/ OpenPopup(w1, r) \/ PopupRefused(w1, r)

\* "keys": two genuine tokens for the page, a renewal or another request, no time,
\* and keys that change from good or useless ones to the next; "claims": one call,
\* and keys that stay.
ClientBounds ==
    IF scenario = "keys"
    THEN /\ clock = 0
         /\ key = 2 => published = 2
         /\ \A c \in Calls :
              /\ use[c] \in (IF c = c1 THEN {"renew", "request", None} ELSE {"validate", None})
              /\ ctoken[c] # None => ctoken[c].fault = "none" /\ ctoken[c].exp = 2
    ELSE published = 1 /\ \A c \in Calls : c # c1 => cpc[c] = "idle"

MCNext ==
    /\ UNCHANGED scenario
    /\ \/ scenario \in {"windows", "popups"} /\ ManagerNext /\ UNCHANGED clientVars
       \/ scenario \in {"keys", "claims"} /\ C!Next /\ ClientBounds' /\ UNCHANGED vars

mcvars == <<vars, clientVars, scenario>>

MCSpec == MCInit /\ [][MCNext]_mcvars /\ Fairness

ClientExplained == C!ClientExplained
=============================================================================

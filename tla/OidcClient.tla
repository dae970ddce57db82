----------------------------- MODULE OidcClient -----------------------------
(***************************************************************************)
(* What the OidcClients of one page load from the provider, keep in their  *)
(* settings, and check answers with.                                       *)
(*                                                                         *)
(* The page has one client of its own, whose settings live as long as the  *)
(* page: requests by redirect, logouts and the callback that takes the     *)
(* answer of a redirect go through it.  Every silent renewal and every     *)
(* popup makes a client for itself, with a copy of the page's settings as  *)
(* they are at that time; what such a client loads stays in its copy.      *)
(*                                                                         *)
(* A call that finds nothing in its client's settings asks the provider    *)
(* and goes on when the answer comes; other calls, the clock and the       *)
(* provider go on meanwhile, and two answers may come in either order.     *)
(* What the code does from one answer to the next request is one step.     *)
(*                                                                         *)
(* The provider signs with one key at a time and publishes it, or nothing  *)
(* of use: no key, one that is not RSA, one without certificate.  Keys are *)
(* numbered in the order in which they come into use.                      *)
(***************************************************************************)
EXTENDS Integers

CONSTANTS
    Calls,    \* renewals and popups; requests and callbacks of the page's client
    Page,     \* the client of the page
    Age,      \* how old a token may be when it is validated (5 min)
    Lives,    \* times from the issue of a token to its end
    MaxNow,   \* bound of the clock
    MaxKey,   \* bound of the keys
    None      \* undefined: nothing loaded, no token

NoKey == 0

Faults    == {"none", "nonce", "claims", "hash"}
Endpoints == {"jwks_uri", "userinfo_endpoint", "other"}

\* A renewal's or popup's client has the name of the call.
Clients == Calls \cup {Page}

VARIABLES
    now,        \* Date.now()
    key,        \* the key the provider signs with
    published,  \* the key it publishes
    lacking,    \* an endpoint its metadata does not tell, or None
    told,       \* the application put authorization_endpoint into the settings
    own,        \* ... and signing keys, or None
    oauth,      \* the page asks for access tokens
    profiles,   \* ... and its clients load user profiles with them
    metadata,   \* settings.metadata of each client is there
    jwks,       \* settings.jwks: the key it holds, None before it is loaded
    pc,         \* where each call is
    use,        \* what it is for
    token,      \* the token it validates
    answer,     \* signing keys on their way to it
    used,       \* (history) the key it was verified with
    checked,    \* (history) when its claims were checked
    shown,      \* (history) keys published from its issue until its keys are served
    met,        \* (history) callbacks that were loading keys together with it
    had         \* (history) callbacks that had their keys when it took its settings

config   == <<lacking, told, own, oauth, profiles>>
provider == <<key, published>>
cache    == <<metadata, jwks>>
history  == <<used, checked, shown, met, had>>
vars     == <<now, config, provider, cache, pc, use, token, answer, history>>

Tokens == [key : 1 .. MaxKey, iat : Nat, exp : Nat, fault : Faults]

\* The client that a call uses.
Client(c) == IF use[c] = "renew" THEN c ELSE Page

Init ==
    /\ now = 0
    /\ key = 1 /\ published = 1
    /\ lacking \in Endpoints \cup {None}
    /\ told \in BOOLEAN
    /\ own \in {None, 1}
    /\ oauth \in BOOLEAN
    /\ profiles \in {FALSE, oauth}
    /\ metadata = [k \in Clients |-> FALSE]
    /\ jwks = [k \in Clients |-> own]
    /\ pc = [c \in Calls |-> "idle"]
    /\ use = [c \in Calls |-> None]
    /\ token = [c \in Calls |-> None]
    /\ answer = [c \in Calls |-> None]
    /\ used = [c \in Calls |-> None]
    /\ checked = [c \in Calls |-> None]
    /\ shown = [c \in Calls |-> {}]
    /\ met = [c \in Calls |-> {}]
    /\ had = [c \in Calls |-> {}]

-----------------------------------------------------------------------------
(* The provider, the clock and the page.                                   *)

Tick ==
    /\ now < MaxNow
    /\ now' = now + 1
    /\ UNCHANGED <<config, provider, cache, pc, use, token, answer, history>>

\* A token is on its way, and the keys it will be verified with are not chosen.
Open(c) == pc[c] \in {"issued", "metadata", "keys"} /\ token[c] # None /\ answer[c] = None

\* The provider signs with its next key and publishes it, or publishes nothing
\* that a client can use, or its key again.
Publish(k) ==
    /\ k # published /\ k \in {NoKey, key, key + 1}
    /\ key' = IF k = NoKey THEN key ELSE k
    /\ published' = k
    /\ shown' = [c \in Calls |-> IF Open(c) THEN shown[c] \cup {k} ELSE shown[c]]
    /\ UNCHANGED <<now, config, cache, pc, use, token, answer, used, checked, met, had>>

\* The answer of a redirect survives: it is in the address of the page.
Redirected(c) == pc[c] = "issued" /\ use[c] = "validate"

\* The page is loaded again: the settings are those the application wrote, and
\* nobody waits for the calls of before.
Reload ==
    /\ metadata' = [k \in Clients |-> FALSE]
    /\ jwks' = [k \in Clients |-> own]
    /\ pc' = [c \in Calls |-> IF pc[c] = "idle" \/ Redirected(c) THEN pc[c] ELSE "gone"]
    /\ use' = [c \in Calls |-> IF Redirected(c) THEN use[c] ELSE None]
    /\ token' = [c \in Calls |-> IF Redirected(c) THEN token[c] ELSE None]
    /\ shown' = [c \in Calls |-> IF Redirected(c) THEN shown[c] ELSE {}]
    /\ answer' = [c \in Calls |-> None]
    /\ used' = [c \in Calls |-> None]
    /\ checked' = [c \in Calls |-> None]
    /\ met' = [c \in Calls |-> {}]
    /\ had' = [c \in Calls |-> {}]
    /\ UNCHANGED <<now, config, provider>>

-----------------------------------------------------------------------------
(* Requests and the tokens that answer them.                               *)

\* createTokenRequestAsync and createLogoutRequestAsync of the page's client; a
\* request for a token does without metadata if it has been told the endpoint.
Request(c) ==
    /\ pc[c] = "idle"
    /\ use' = [use EXCEPT ![c] = "request"]
    /\ pc' = [pc EXCEPT ![c] =
           IF ~metadata[Page] THEN "metadata" ELSE IF lacking = "other" THEN "failed" ELSE "done"]
    /\ UNCHANGED <<now, config, provider, cache, token, answer, history>>

\* Validations of the page's client that have their keys.
HaveKeys == {d \in Calls : use[d] = "validate" /\ used[d] # None}

\* renewTokenSilentAsync and openPopupForTokenAsync: a client with a copy of the
\* settings, and its request.
Renew(c) ==
    /\ pc[c] = "idle"
    /\ use' = [use EXCEPT ![c] = "renew"]
    /\ metadata' = [metadata EXCEPT ![c] = metadata[Page]]
    /\ jwks' = [jwks EXCEPT ![c] = jwks[Page]]
    /\ had' = [had EXCEPT ![c] = HaveKeys]
    /\ pc' = [pc EXCEPT ![c] =
           IF told THEN "asked"
           ELSE IF ~metadata[Page] THEN "metadata"
           ELSE IF lacking = "other" THEN "failed" ELSE "asked"]
    /\ UNCHANGED <<now, config, provider, token, answer, used, checked, shown, met>>

\* The provider issues a token, for a renewal or by redirect to the page.
Issue(c, t) ==
    /\ \/ pc[c] = "asked" /\ UNCHANGED use
       \/ pc[c] = "idle" /\ use' = [use EXCEPT ![c] = "validate"]
    /\ pc' = [pc EXCEPT ![c] = "issued"]
    /\ token' = [token EXCEPT ![c] = t]
    /\ shown' = [shown EXCEPT ![c] = {published}]
    /\ UNCHANGED <<now, config, provider, cache, answer, used, checked, met, had>>

-----------------------------------------------------------------------------
(* validateIdTokenAndAccessTokenAsync, from one request to the next.       *)

\* validateAccessTokenAsync.
HashCompared(t) == IF oauth /\ t.fault = "hash" THEN "refused" ELSE "accepted"

\* Mutant: a token that has come to its end is not refused.
ClaimsTooOldOnly(t) ==
    IF t.fault = "claims" THEN "refused"
    ELSE IF now - t.iat > Age THEN "late"
    ELSE IF ~profiles THEN HashCompared(t)
    ELSE IF lacking = "userinfo_endpoint" THEN "failed" ELSE "profile"

\* Issuer and audience, age and end of the token; then the user's profile.
ClaimsCompared(t) ==
    IF t.fault = "claims" THEN "refused"
    ELSE IF now - t.iat > Age \/ t.exp < now THEN "late"
    ELSE IF ~profiles THEN HashCompared(t)
    ELSE IF lacking = "userinfo_endpoint" THEN "failed" ELSE "profile"

\* Mutant: the signature is verified with whatever key there is.
KeyFoundAnyKey(c, k) ==
    /\ used' = [used EXCEPT ![c] = k]
    /\ checked' = [checked EXCEPT ![c] = now]
    /\ pc' = [pc EXCEPT ![c] =
           IF k = NoKey THEN "unverified"
           ELSE IF token[c].fault = "nonce" THEN "refused"
           ELSE IF ~metadata[Client(c)] THEN "issuer" ELSE ClaimsCompared(token[c])]

\* With key k of the settings or of the provider: the signature, the nonce, and
\* the claims if the issuer is known.
KeyFound(c, k) ==
    /\ used' = [used EXCEPT ![c] = k]
    /\ checked' = [checked EXCEPT ![c] = now]
    /\ pc' = [pc EXCEPT ![c] =
           IF k # token[c].key THEN "unverified"
           ELSE IF token[c].fault = "nonce" THEN "refused"
           ELSE IF ~metadata[Client(c)] THEN "issuer" ELSE ClaimsCompared(token[c])]

\* The request for the keys, once the metadata is there.
AskForKeys(c) ==
    pc' = [pc EXCEPT ![c] = IF lacking = "jwks_uri" THEN "failed" ELSE "keys"]

\* The page's client is between its look at settings.jwks and the arrival of the
\* keys that it asks for.
LoadsKeys(c) == use[c] = "validate" /\ pc[c] \in {"metadata", "keys"}

Together(c) ==
    met' = [d \in Calls |->
        IF use[c] # "validate" THEN met[d]
        ELSE IF d = c THEN {e \in Calls : LoadsKeys(e)}
        ELSE IF LoadsKeys(d) THEN met[d] \cup {c} ELSE met[d]]

\* Mutant: the keys are loaded for every validation.
ValidateLoading(c) ==
    /\ pc[c] = "issued"
    /\ IF metadata[Client(c)] THEN AskForKeys(c) ELSE pc' = [pc EXCEPT ![c] = "metadata"]
    /\ Together(c)
    /\ UNCHANGED <<now, config, provider, cache, use, token, answer, used, checked, shown, had>>

\* loadX509SigningKeyAsync looks at settings.jwks, then loads what is missing.
Validate(c) ==
    /\ pc[c] = "issued"
    /\ \/ jwks[Client(c)] # None /\ KeyFound(c, jwks[Client(c)]) /\ UNCHANGED met
       \/ /\ jwks[Client(c)] = None
          /\ IF metadata[Client(c)] THEN AskForKeys(c) ELSE pc' = [pc EXCEPT ![c] = "metadata"]
          /\ Together(c)
          /\ UNCHANGED <<used, checked>>
    /\ UNCHANGED <<now, config, provider, cache, use, token, answer, shown, had>>

-----------------------------------------------------------------------------
(* Answers of the provider.                                                *)

\* What was asked goes on: the request, the way to the keys, or the claims.
MetadataArrives(c) ==
    /\ pc[c] \in {"metadata", "issuer"}
    /\ metadata' = [metadata EXCEPT ![Client(c)] = TRUE]
    /\ \/ /\ pc[c] = "metadata" /\ token[c] = None
          /\ pc' = [pc EXCEPT ![c] =
                 IF lacking = "other" THEN "failed" ELSE IF use[c] = "renew" THEN "asked" ELSE "done"]
          /\ UNCHANGED checked
       \/ /\ pc[c] = "metadata" /\ token[c] # None
          /\ AskForKeys(c)
          /\ UNCHANGED checked
       \/ /\ pc[c] = "issuer"
          /\ pc' = [pc EXCEPT ![c] = ClaimsCompared(token[c])]
          /\ checked' = [checked EXCEPT ![c] = now]
    /\ UNCHANGED <<now, config, provider, jwks, use, token, answer, used, shown, met, had>>

\* The provider answers with the key it publishes at that time.
KeysServed(c) ==
    /\ pc[c] = "keys" /\ answer[c] = None
    /\ answer' = [answer EXCEPT ![c] = published]
    /\ UNCHANGED <<now, config, provider, cache, pc, use, token, history>>

\* Mutant: a renewal leaves the keys it has loaded with the page.
KeysArriveForPage(c) ==
    /\ pc[c] = "keys" /\ answer[c] # None
    /\ jwks' = [jwks EXCEPT ![Client(c)] = answer[c], ![Page] = answer[c]]
    /\ answer' = [answer EXCEPT ![c] = None]
    /\ KeyFound(c, answer[c])
    /\ UNCHANGED <<now, config, provider, metadata, use, token, shown, met, had>>

\* The keys go into the settings of the call's client, where they replace those
\* another validation has loaded meanwhile, and stay if there is no use in them.
KeysArrive(c) ==
    /\ pc[c] = "keys" /\ answer[c] # None
    /\ jwks' = [jwks EXCEPT ![Client(c)] = answer[c]]
    /\ answer' = [answer EXCEPT ![c] = None]
    /\ KeyFound(c, answer[c])
    /\ UNCHANGED <<now, config, provider, metadata, use, token, shown, met, had>>

ProfileArrives(c) ==
    /\ pc[c] = "profile"
    /\ pc' = [pc EXCEPT ![c] = HashCompared(token[c])]
    /\ UNCHANGED <<now, config, provider, cache, use, token, answer, history>>

\* A request that is answered with an error, or not at all, leaves nothing.
NetworkFails(c) ==
    /\ pc[c] \in {"asked", "metadata", "keys", "issuer", "profile"}
    /\ pc' = [pc EXCEPT ![c] = "failed"]
    /\ UNCHANGED <<now, config, provider, cache, use, token, answer, history>>

-----------------------------------------------------------------------------
Issued == {[key |-> key, iat |-> now, exp |-> now + life, fault |-> f] :
              life \in Lives, f \in Faults}

Next ==
    \/ Tick
    \/ \E k \in NoKey .. MaxKey : Publish(k)
    \/ Reload
    \/ \E c \in Calls :
         \/ Request(c) \/ Renew(c)
         \/ \E t \in Issued : Issue(c, t)
         \/ Validate(c)
         \/ MetadataArrives(c) \/ KeysServed(c) \/ KeysArrive(c) \/ ProfileArrives(c)
         \/ NetworkFails(c)

Spec == Init /\ [][Next]_vars

-----------------------------------------------------------------------------
(* Properties.                                                             *)

\* Every variable has its type.
TypeOK ==
    /\ now \in 0 .. MaxNow
    /\ key \in 1 .. MaxKey /\ published \in {NoKey, key}
    /\ lacking \in Endpoints \cup {None}
    /\ told \in BOOLEAN
    /\ own \in {None, 1}
    /\ oauth \in BOOLEAN /\ profiles \in BOOLEAN
    /\ metadata \in [Clients -> BOOLEAN]
    /\ jwks \in [Clients -> 0 .. MaxKey \cup {None}]
    /\ pc \in [Calls -> {"idle", "asked", "issued", "metadata", "keys", "issuer", "profile", "done",
                         "accepted", "refused", "unverified", "late", "failed", "gone"}]
    /\ use \in [Calls -> {"validate", "renew", "request", None}]
    /\ token \in [Calls -> Tokens \cup {None}]
    /\ answer \in [Calls -> 0 .. MaxKey \cup {None}]
    /\ used \in [Calls -> 0 .. MaxKey \cup {None}]
    /\ checked \in [Calls -> 0 .. MaxNow \cup {None}]
    /\ shown \in [Calls -> SUBSET (0 .. MaxKey)]
    /\ met \in [Calls -> SUBSET Calls]
    /\ had \in [Calls -> SUBSET Calls]

\* Whatever is loaded, kept or replaced between the checks: a token is accepted
\* only if the key it was verified with signed it, it was neither too old nor at
\* its end when its claims were checked, and nothing in it was wrong.
AcceptedRightly ==
    \A c \in Calls : pc[c] = "accepted" =>
        /\ used[c] = token[c].key
        /\ checked[c] <= token[c].exp /\ checked[c] - token[c].iat <= Age
        /\ token[c].fault \in IF oauth THEN {"none"} ELSE {"none", "hash"}

\* Keys a validation may come by: the application's, those that the page's client
\* has loaded since the page was, and those published while its token was under way.
Sources(c) ==
    ({own} \ {None}) \cup shown[c] \cup {used[d] : d \in HaveKeys \ {c}}

\* The signature of a genuine token is refused only because of another key among
\* those: what other renewals and popups have loaded, and what the provider
\* published before the token, refuses none.
UnverifiedExplained ==
    \A c \in Calls : pc[c] = "unverified" => \E k \in Sources(c) : k # token[c].key

\* The first keys that the page's client loads, useless ones too, are those of all
\* its validations until the page is loaded again, and of every renewal or popup
\* that begins after them: other keys are used only if validations of the page's
\* client were loading them together.
FirstKeysStay ==
    \A c \in Calls : \A d \in HaveKeys :
        /\ use[c] = "validate" \/ d \in had[c]
        /\ used[c] \notin {None, used[d]}
        => \E e \in HaveKeys : met[e] # {} /\ used[e] \in {used[c], used[d]}

\* What a client loads once and keeps decides about its tokens, and nothing else.
ClientExplained ==
    TypeOK /\ AcceptedRightly /\ UnverifiedExplained /\ FirstKeysStay
=============================================================================

------------------------------ MODULE MCShop --------------------------------
(* Catalog and Webhooks for TLC, in six settings that are chosen at the      *)
(* start: requests that change items, prices copied to baskets while items   *)
(* change, subscriptions, hooks sent for them, the stock of one item, and    *)
(* the lines of an order.                                                    *)
EXTENDS Catalog, FiniteSets, TLC

CONSTANTS Posts, Deletes, Hooks, Tokens, Blank, OneToken, Width,
          Products, Discounts, Quantities, MaxLines

VARIABLES
    setting,
    validate, token, subscriptions, nextId, hooksPc, post, target, hooksRepeats, storedBy,
    hpc, header, seen, list, size, alone,
    stock, limit, ledger, last, spoilt,
    orderKind, lines, order

W == INSTANCE Webhooks WITH pc <- hooksPc, repeats <- hooksRepeats

K == INSTANCE Stock

L == INSTANCE OrderManager WITH kind <- orderKind, WordSize <- Width

ASSUME WebhooksAssumption ==
    /\ IsFiniteSet(Posts) /\ IsFiniteSet(Hooks) /\ Posts \cap Deletes = {}
    /\ Blank # None /\ None \notin Posts \cup [url : W!Origins, token : W!Texts]

\* True of every width that is not 0: the provers have no arithmetic of powers.
ASSUME WidthAssumption ==
    2 ^ (Width - 1) \in Nat \ {0} /\ 2 ^ Width = 2 * 2 ^ (Width - 1)

ASSUME OrderAssumption == L!LinesAssumption

stockVars == <<stock, limit, ledger, last, spoilt>>
hookVars  == <<validate, token, subscriptions, nextId, hooksPc, post, target, hooksRepeats, storedBy,
               hpc, header, seen, list, size, alone>>
lineVars  == <<orderKind, lines, order>>
mcvars    == <<vars, hookVars, stockVars, lineVars, setting>>

\* Bounds of each setting.  "items": three requests; "prices": two that change
\* the price or delete, with the adds; "grants": posts and deletes of
\* subscriptions, of receivers elsewhere with one token only; "hooks": hooks for
\* one of them.
Sent(r) == pc[r] # "idle"
Bounds ==
    /\ setting = "items" => \A a \in Adds : apc[a] = "idle"
    /\ setting = "prices" =>
          /\ Cardinality({r \in Requests : Sent(r)}) <= 2
          /\ \A r \in Requests : Sent(r) =>
                /\ repeats[r] = 0 /\ kind[r] # "create"
                /\ edit[r] # None => edit[r].field = "price"
    /\ setting = "grants" =>
          /\ \A h \in Hooks : hpc[h] = "idle"
          /\ \A d \in Deletes : hooksPc[d] # "idle" => target[d] < nextId
          /\ \A p \in Posts : post[p] # None /\ post[p].token # OneToken => post[p].url = "client"
    /\ setting = "hooks" =>
          /\ Cardinality({p \in Posts : hooksPc[p] # "idle"}) <= 1
          /\ \A r \in Posts \cup Deletes : hooksRepeats[r] = 0
          /\ \A d \in Deletes : hooksPc[d] = "idle"

\* What a setting does not use starts in one state; and requests may write every
\* value of a field, so that it does not matter which one an item starts with.
OneRow     == \A i \in Seeded : rows[i] = CHOOSE r \in Rows : r.brand \in Known
OneSetting == ~validate /\ token = None

MCInit ==
    /\ Init /\ W!Init /\ K!Init /\ L!Init
    /\ setting \in {"items", "prices", "grants", "hooks", "stock", "lines"}
    /\ OneRow
    /\ setting \notin {"grants", "hooks"} => OneSetting
    /\ setting # "lines" => orderKind = "new"

MCNext ==
    /\ UNCHANGED setting
    /\ \/ setting \in {"items", "prices"} /\ Next /\ UNCHANGED <<hookVars, stockVars, lineVars>>
       \/ setting \in {"grants", "hooks"} /\ W!Next /\ UNCHANGED <<vars, stockVars, lineVars>>
       \/ setting = "stock" /\ K!Next /\ UNCHANGED <<vars, hookVars, lineVars>>
       \/ setting = "lines" /\ L!Next /\ UNCHANGED <<vars, hookVars, stockVars>>
    /\ Bounds'

MCSpec == MCInit /\ [][MCNext]_mcvars

HooksExplained == W!HooksExplained
StockExplained == K!StockExplained
LinesMerged    == L!LinesMerged

Sym == Permutations(Requests) \cup Permutations(Adds)
=============================================================================

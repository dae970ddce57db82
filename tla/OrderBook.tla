----------------------------- MODULE OrderBook ------------------------------
(***************************************************************************)
(* What the write side of Ordering.API promises to its callers, without    *)
(* tables, saves or retries: every request has an order of its own, which  *)
(* is first recorded, then owned by the customer who sent the request and  *)
(* charged to the card named there.  Status changes apply to any recorded  *)
(* order.  Until the request is answered its order may be set back to      *)
(* "Submitted"; after "created" it never is.                               *)
(***************************************************************************)
CONSTANTS Orders,     \* one per request
          Customers,
          Cards,
          None

VARIABLES request,    \* who asked for the order and the card to charge
          status,     \* status of the recorded order, or None
          owner,      \* the customer in whose list the order appears
          charged,    \* the card of the order
          answer      \* what the customer was told
vars == <<request, status, owner, charged, answer>>

Requests == [customer : Customers, card : Cards]

Init ==
    /\ request = [o \in Orders |-> None]
    /\ status = [o \in Orders |-> None]
    /\ owner = [o \in Orders |-> None]
    /\ charged = [o \in Orders |-> None]
    /\ answer = [o \in Orders |-> "none"]

\* A step may be followed by an error.
MayFail(o) ==
    \/ UNCHANGED answer
    \/ answer' = [answer EXCEPT ![o] = "error"]

Ask(o) ==
    /\ request[o] = None
    /\ \E r \in Requests : request' = [request EXCEPT ![o] = r]
    /\ MayFail(o)
    /\ UNCHANGED <<status, owner, charged>>

Record(o) ==
    /\ request[o] # None
    /\ status[o] = None
    /\ answer[o] = "none"
    /\ status' = [status EXCEPT ![o] = "Submitted"]
    /\ MayFail(o)
    /\ UNCHANGED <<request, owner, charged>>

\* The order gets its owner and card; written again, it gets the same ones.
Place(o) ==
    /\ status[o] # None
    /\ answer[o] = "none"
    /\ status' = [status EXCEPT ![o] = "Submitted"]
    /\ owner' = [owner EXCEPT ![o] = request[o].customer]
    /\ charged' = [charged EXCEPT ![o] = request[o].card]
    /\ MayFail(o) \/ answer' = [answer EXCEPT ![o] = "created"]
    /\ UNCHANGED request

GiveUp(o) ==
    /\ request[o] # None
    /\ answer[o] = "none"
    /\ answer' = [answer EXCEPT ![o] = "error"]
    /\ UNCHANGED <<request, status, owner, charged>>

Change(o) ==
    /\ status[o] # None
    /\ \E s \in {"Shipped", "Cancelled"} : status' = [status EXCEPT ![o] = s]
    /\ UNCHANGED <<request, owner, charged, answer>>

Next == \E o \in Orders :
    Ask(o) \/ Record(o) \/ Place(o) \/ GiveUp(o) \/ Change(o)

Spec == Init /\ [][Next]_vars
=============================================================================

----------------------------- MODULE MCOrdering -----------------------------
(* Small instances of Ordering for TLC.                                    *)
EXTENDS OrderingInv, TLC

CONSTANTS n1, n2, n3, n4, ann, visa, amex, noNumber

VARIABLE scenario   \* which requests come; fixed by the initial state

\* "race":   three orders of two customers, any type of card, one number; the
\*           last of them meets no loss of a connection and no crash;
\* "card":   four orders of one customer with two cards, no connection lost;
\*           or three, the last without the name of the card holder;
\* "status": one order and three status changes, at any moment of its life;
\*           or one status change, when something is wrong with the order;
\*           the tables may come late.
Scenarios == {"race", "card", "status"}

\* Orders are named in the order they come.
Before == [r \in NewOrders |->
    CASE r = n2 -> n1 [] r = n3 -> n2 [] r = n4 -> n3 [] OTHER -> r]

\* What the requests of a scenario may bring.
Sent == CASE scenario = "race" -> [user : Users, type : SentTypes, number : {visa}, flaw : {"none"}]
          [] scenario = "card" -> [user : {ann}, type : {0}, number : {visa, amex},
                                   flaw : {"none", "holder"}]
          [] OTHER -> [user : {ann}, type : {0}, number : {visa, noNumber}, flaw : SentFlaws]

\* How many requests come in it.
Last == CASE scenario = "race" -> {n1, n2, n3} [] scenario = "card" -> NewOrders [] OTHER -> {n1}

\* The next request is r.
Comes(r) == /\ r \in Last /\ pc[r] = "idle"
            /\ Before[r] # r => pc[Before[r]] # "idle" /\ flaw[Before[r]] = "none"

\* Users are named, and card types numbered, as they come too.
Fits(r, q) == /\ r = n1 => q.user = ann /\ q.type # 2
              /\ scenario = "card" => q.flaw = "none" \/ r = n3

\* Something is wrong with the only order of the scenario, or will be.
Flawed == pc[n1] = "idle" \/ flaw[n1] # "none" \/ card[n1].number = noNumber

MCInit ==
    /\ Init
    /\ scenario \in Scenarios
    /\ scenario # "status" => ready

MCNext ==
    /\ \/ Prepare
       \/ \E r \in NewOrders :
            \/ /\ Comes(r)
               /\ \E q \in Sent :
                    /\ Fits(r, q)
                    /\ Receive(r, q.user, [type |-> q.type, number |-> q.number], q.flaw)
            \/ NewOrderAsync(r)
            \/ scenario # "card" /\ ConnectionLost(r)
            \/ Crash(r)
       \/ \E c \in StatusChanges :
            \/ /\ scenario = "status"
               /\ Flawed => \A d \in StatusChanges : spc[d] = "idle"
               /\ \E g \in {"Shipped", "Cancelled"} : ReceiveStatus(c, n1, g)
            \/ ChangeStatusAsync(c)
            \/ StatusConnectionLost(c)
            \/ StatusCrash(c)
    /\ scenario = "card" => retries' = retries
    /\ scenario = "race" => n3 \notin hit'
    /\ UNCHANGED scenario

MCSpec == MCInit /\ [][MCNext]_<<vars, scenario>>

\* Only invariants and action properties are checked under this symmetry.
Symmetry == Permutations(StatusChanges)
=============================================================================

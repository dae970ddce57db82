--------------------------- MODULE OrderingProofs ---------------------------
(***************************************************************************)
(* Proofs about Ordering for any number of requests, customers, cards and  *)
(* retries.  The inductive invariant is IInv of module OrderingInv.        *)
(***************************************************************************)
EXTENDS OrderingInv, TLAPS

\* Normalising keeps a card a card.
LEMMA NormalCardType == \A c \in Cards : NormalCard(c) \in Cards
BY DEF Cards, NormalCard

\* The description tells the status: the texts differ from each other and
\* from NULL.
LEMMA DescriptionFacts ==
    /\ \A s \in Statuses : DescriptionOf(s) \in Texts \cup {None}
    /\ \A s, t \in Statuses : DescriptionOf(s) = DescriptionOf(t) => s = t
BY NoneAssumption DEF Statuses, DescriptionOf, Texts

\* The entity of a new order is a row that tells its status.
LEMMA EntityRow ==
    ASSUME NEW b \in NewOrders \cup {None}, NEW p \in NewOrders \cup {None}
    PROVE  /\ OrderEntity(b, p) \in OrderRows
           /\ OrderEntity(b, p) # None
           /\ OrderEntity(b, p).buyer = b
           /\ OrderEntity(b, p).payment = p
           /\ OrderEntity(b, p).status = "Submitted"
           /\ OrderEntity(b, p).description = DescriptionOf("Submitted")
<1>1. OrderEntity(b, p) \in OrderRows
  BY DEF OrderEntity, OrderRows, Statuses
<1>2. OrderEntity(b, p) # None
  BY <1>1, NoneAssumption
<1> QED BY <1>1, <1>2 DEF OrderEntity, DescriptionOf

\* Updating a row from a snapshot keeps its links; status and description
\* still agree when they agreed in the row and in the snapshot.
LEMMA UpdatedRow ==
    ASSUME NEW row \in OrderRows, NEW snapshot \in OrderRows,
           NEW g \in {"Shipped", "Cancelled"}
    PROVE  /\ Updated(row, snapshot, g) \in OrderRows
           /\ Updated(row, snapshot, g) # None
           /\ Updated(row, snapshot, g).buyer = row.buyer
           /\ Updated(row, snapshot, g).payment = row.payment
           /\ Updated(row, snapshot, g).status \in {row.status, g}
           /\ /\ row.description = DescriptionOf(row.status)
              /\ snapshot.description = DescriptionOf(snapshot.status)
              => Updated(row, snapshot, g).description =
                    DescriptionOf(Updated(row, snapshot, g).status)
<1>1. g \in Statuses /\ DescriptionOf(g) \in Texts \cup {None}
  BY DescriptionFacts DEF Statuses
<1>2. Updated(row, snapshot, g) \in OrderRows
  BY <1>1 DEF Updated, OrderRows
<1>3. Updated(row, snapshot, g) # None
  BY <1>2, NoneAssumption
<1>4. /\ Updated(row, snapshot, g).buyer = row.buyer
      /\ Updated(row, snapshot, g).payment = row.payment
      /\ Updated(row, snapshot, g).status =
            IF snapshot.status # g THEN g ELSE row.status
      /\ Updated(row, snapshot, g).description =
            IF snapshot.description # DescriptionOf(g)
            THEN DescriptionOf(g) ELSE row.description
  BY DEF Updated, OrderRows
<1>5. snapshot.status \in Statuses
  BY DEF OrderRows
<1> QED BY <1>1, <1>2, <1>3, <1>4, <1>5, DescriptionFacts

\* The empty tables satisfy the invariant.
LEMMA InitInv == Init => IInv
<1> SUFFICES ASSUME Init PROVE IInv
  OBVIOUS
<1> USE RetriesAssumption, NoneAssumption DEF Init
<1>1. TypeOK
  BY DEF TypeOK, Flaws
<1>2. Received /\ Fresh /\ Recorded /\ BuyerOwned /\ Working /\ Saved
  BY DEF Received, Fresh, Recorded, BuyerOwned, Working, Saved
<1>3. LinkedLate /\ CreatedLinked /\ Found /\ LinkSound /\ StatusDescribed
  BY DEF LinkedLate, CreatedLinked, Found, LinkSound, StatusDescribed, Linked
<1> QED BY <1>1, <1>2, <1>3 DEF IInv

-----------------------------------------------------------------------------
(* One lemma per action: the action preserves the invariant.               *)

\* Receiving a request.
LEMMA ReceiveInv ==
    ASSUME IInv, NEW r \in NewOrders, NEW u \in Users, NEW t \in SentTypes,
           NEW n \in CardNumbers, NEW f \in SentFlaws,
           Receive(r, u, [type |-> t, number |-> n], f)
    PROVE  IInv'
<1> DEFINE c == [type |-> t, number |-> n]
<1> USE NoneAssumption DEF IInv
<1>1. c \in Cards
  BY DEF Cards
<1>2. /\ pc[r] = "idle" /\ f \in Flaws
      /\ \E next \in {"saveOrder", "failed"} : pc' = [pc EXCEPT ![r] = next]
      /\ user' = [user EXCEPT ![r] = u] /\ card' = [card EXCEPT ![r] = c]
      /\ flaw' = [flaw EXCEPT ![r] = f]
      /\ overlapped' \in {overlapped, overlapped \cup {u}}
      /\ UNCHANGED <<tables, buyerId, paymentId, retries, changeVars, hit>>
  BY FlawsAssumption DEF Receive
<1> HIDE DEF c
<1>3. TypeOK'
  BY <1>1, <1>2 DEF TypeOK, InFlight, tables, changeVars
<1>4. Received' /\ Fresh' /\ Recorded'
  BY <1>1, <1>2 DEF TypeOK, Received, Fresh, Recorded, tables
<1>5. BuyerOwned'
  BY <1>2 DEF TypeOK, BuyerOwned, Fresh, tables
<1>6. Working' /\ Saved'
  BY <1>2 DEF TypeOK, Working, Saved, Row, tables
<1>7. LinkedLate' /\ CreatedLinked'
  BY <1>2 DEF TypeOK, Fresh, LinkedLate, CreatedLinked, Linked, tables
<1>8. Found'
  BY <1>2 DEF TypeOK, Found, tables, changeVars
<1>9. LinkSound'
  BY <1>2 DEF TypeOK, Fresh, LinkSound, Linked, tables
<1>10. StatusDescribed'
  BY <1>2 DEF StatusDescribed, tables
<1> QED BY <1>3, <1>4, <1>5, <1>6, <1>7, <1>8, <1>9, <1>10

\* First save.
LEMMA SaveOrderInv ==
    ASSUME IInv, NEW r \in NewOrders, SaveOrder(r)
    PROVE  IInv'
<1> USE NoneAssumption, RetriesAssumption DEF IInv
<1> DEFINE entity == OrderEntity(None, None)
<1>1. /\ entity \in OrderRows /\ entity # None /\ entity.buyer = None
      /\ entity.description = DescriptionOf(entity.status)
  BY EntityRow
<1>2. /\ pc[r] = "saveOrder" /\ orders[r] = None
      /\ orders' = [orders EXCEPT ![r] = entity]
      /\ pc' \in {pc, [pc EXCEPT ![r] = "readBuyer"], [pc EXCEPT ![r] = "failed"]}
      /\ \/ retries' = retries
         \/ retries' = [retries EXCEPT ![r] = 0]
         \/ retries[r] < MaxRetries /\ retries' = [retries EXCEPT ![r] = @ + 1]
      /\ hit' \in {hit, hit \cup {r}}
      /\ UNCHANGED <<ready, buyers, payments, user, card, flaw, buyerId, paymentId,
                     changeVars, overlapped>>
  BY DEF SaveOrder, OrderAccepted, Acknowledged, Unacknowledged
<1> HIDE DEF entity
<1>3. TypeOK'
  BY <1>1, <1>2 DEF TypeOK, InFlight, changeVars
<1>4. Received' /\ Fresh' /\ Recorded' /\ BuyerOwned'
  BY <1>1, <1>2 DEF TypeOK, Received, Fresh, Recorded, BuyerOwned
<1>5. Working' /\ Saved'
  BY <1>2 DEF TypeOK, Working, Saved, Row
<1>6. LinkedLate' /\ CreatedLinked' /\ LinkSound'
  BY <1>1, <1>2 DEF TypeOK, LinkedLate, CreatedLinked, LinkSound, Linked
<1>7. Found'
  BY <1>1, <1>2 DEF TypeOK, Found, changeVars
<1>8. StatusDescribed'
  BY <1>1, <1>2 DEF TypeOK, StatusDescribed
<1> QED BY <1>3, <1>4, <1>5, <1>6, <1>7, <1>8

\* A request stops, or spends a retry, without touching a table.
LEMMA StopInv ==
    ASSUME IInv, NEW r \in NewOrders, pc[r] \in InFlight,
           pc' \in {pc, [pc EXCEPT ![r] = "failed"], [pc EXCEPT ![r] = "lost"]},
           \/ retries' = retries
           \/ retries[r] < MaxRetries /\ retries' = [retries EXCEPT ![r] = @ + 1],
           hit' \in {hit, hit \cup {r}},
           UNCHANGED <<tables, user, card, flaw, buyerId, paymentId, changeVars,
                       overlapped>>
    PROVE  IInv'
<1> USE RetriesAssumption DEF IInv
<1>1. TypeOK'
  BY DEF TypeOK, InFlight, tables, changeVars
<1>2. Received' /\ Fresh' /\ Recorded' /\ BuyerOwned'
  BY DEF TypeOK, Received, Fresh, Recorded, BuyerOwned, InFlight, tables
<1>3. Working' /\ Saved'
  BY DEF TypeOK, Working, Saved, Row, tables
<1>4. LinkedLate' /\ CreatedLinked' /\ LinkSound'
  BY DEF TypeOK, LinkedLate, CreatedLinked, LinkSound, Linked, tables
<1>5. Found' /\ StatusDescribed'
  BY DEF TypeOK, Found, StatusDescribed, tables, changeVars
<1> QED BY <1>1, <1>2, <1>3, <1>4, <1>5

\* Constraint violations, lost connections and crashes.
LEMMA FaultInv ==
    ASSUME IInv, NEW r \in NewOrders,
           \/ OrderRefused(r) \/ BuyerRefused(r)
           \/ ConnectionLost(r) \/ Crash(r)
    PROVE  IInv'
<1>1. CASE OrderRefused(r) \/ BuyerRefused(r)
  BY <1>1, StopInv DEF OrderRefused, BuyerRefused, Refused, InFlight
<1>2. CASE ConnectionLost(r)
  BY <1>2, StopInv DEF ConnectionLost, Unacknowledged
<1>3. CASE Crash(r)
  BY <1>3, StopInv DEF Crash
<1> QED BY <1>1, <1>2, <1>3

\* The read between the first two saves.
LEMMA ReadBuyerInv ==
    ASSUME IInv, NEW r \in NewOrders, ReadBuyer(r)
    PROVE  IInv'
<1> USE RetriesAssumption, NoneAssumption DEF IInv
<1> DEFINE found == {b \in NewOrders : buyers[b] = user[r]}
           matches == {p \in NewOrders : \E b \in found :
                          p \in Matching(b, NormalCard(card[r]))}
<1>1. CASE ~(AtMostOne(found) /\ AtMostOne(matches))
  <2>1. pc[r] = "readBuyer" /\ Refused(r)
    BY <1>1 DEF ReadBuyer
  <2> QED BY <2>1, StopInv DEF Refused, InFlight
<1>2. CASE AtMostOne(found) /\ AtMostOne(matches)
  <2>1. PICK b \in (IF found = {} THEN {r} ELSE found),
             p \in (IF matches = {} THEN {r} ELSE matches) :
          /\ pc[r] = "readBuyer"
          /\ buyerId' = [buyerId EXCEPT ![r] = b]
          /\ paymentId' = [paymentId EXCEPT ![r] = p]
          /\ Acknowledged(r, "saveBuyer")
          /\ UNCHANGED <<tables, user, card, flaw, changeVars, overlapped>>
    BY <1>2 DEF ReadBuyer
  <2>2. b \in NewOrders /\ (b # r => buyers[b] = user[r])
    OBVIOUS
  <2>3. p \in NewOrders /\ (p # r => p \in matches)
    OBVIOUS
  <2>4. p # r => payments[p] = Row(b, card[r])
    BY <1>2, <2>2, <2>3 DEF Matching, Row, AtMostOne
  <2> HIDE DEF found, matches
  <2>5. TypeOK'
    BY <2>1, <2>2, <2>3 DEF TypeOK, Acknowledged, InFlight, tables, changeVars
  <2>6. Received' /\ Fresh' /\ Recorded' /\ BuyerOwned'
    BY <2>1 DEF TypeOK, Acknowledged, Received, Fresh, Recorded, BuyerOwned,
                tables
  <2>7. Working' /\ Saved'
    BY <2>1, <2>2, <2>3, <2>4 DEF TypeOK, Acknowledged, Working, Saved, Row,
                                  tables
  <2>8. LinkedLate' /\ CreatedLinked' /\ LinkSound'
    BY <2>1 DEF TypeOK, Acknowledged, LinkedLate, CreatedLinked, LinkSound,
                Linked, tables
  <2>9. Found' /\ StatusDescribed'
    BY <2>1 DEF TypeOK, Found, StatusDescribed, tables, changeVars
  <2> QED BY <2>5, <2>6, <2>7, <2>8, <2>9
<1> QED BY <1>1, <1>2

\* Second save: rows that are there stay as they are.
LEMMA SaveBuyerKeepsRows ==
    ASSUME IInv, NEW r \in NewOrders, SaveBuyer(r)
    PROVE  /\ \A b \in NewOrders : buyers[b] # None => buyers'[b] = buyers[b]
           /\ \A p \in NewOrders : payments[p] # None => payments'[p] = payments[p]
           /\ buyerId[r] \in NewOrders /\ paymentId[r] \in NewOrders
           /\ buyers'[buyerId[r]] = user[r]
           /\ payments'[paymentId[r]] = Row(buyerId[r], card[r])
           /\ \A b \in NewOrders : b # buyerId[r] => buyers'[b] = buyers[b]
           /\ buyerId[r] # r => buyers' = buyers
           /\ user[r] \in Users /\ card[r] \in Cards
<1> USE DEF IInv
<1>1. user[r] \in Users /\ card[r] \in Cards
  BY DEF SaveBuyer, Received
<1>2. /\ buyerId[r] \in NewOrders /\ paymentId[r] \in NewOrders
      /\ buyerId[r] # r => buyers[buyerId[r]] = user[r]
      /\ paymentId[r] # r => payments[paymentId[r]] = Row(buyerId[r], card[r])
  BY DEF SaveBuyer, Working
<1>3. buyerId[r] = r => buyers[r] = None
  BY DEF SaveBuyer, BuyerAccepted, BuyerOwned
<1>4. paymentId[r] = r => payments[r] = None
  BY DEF SaveBuyer, BuyerAccepted
<1>5. /\ buyers' = [buyers EXCEPT ![buyerId[r]] = user[r]]
      /\ payments' = [payments EXCEPT ![paymentId[r]] = Row(buyerId[r], card[r])]
  BY DEF SaveBuyer, Row
<1> QED BY <1>1, <1>2, <1>3, <1>4, <1>5 DEF TypeOK

LEMMA SaveBuyerInv ==
    ASSUME IInv, NEW r \in NewOrders, SaveBuyer(r)
    PROVE  IInv'
<1> USE NoneAssumption, RetriesAssumption DEF IInv
<1>1. /\ pc[r] = "saveBuyer"
      /\ buyers' = [buyers EXCEPT ![buyerId[r]] = user[r]]
      /\ payments' = [payments EXCEPT ![paymentId[r]] = Row(buyerId[r], card[r])]
      /\ pc' \in {pc, [pc EXCEPT ![r] = "saveLink"], [pc EXCEPT ![r] = "failed"]}
      /\ \/ retries' = retries
         \/ retries' = [retries EXCEPT ![r] = 0]
         \/ retries[r] < MaxRetries /\ retries' = [retries EXCEPT ![r] = @ + 1]
      /\ hit' \in {hit, hit \cup {r}}
      /\ UNCHANGED <<ready, orders, user, card, flaw, buyerId, paymentId, changeVars,
                     overlapped>>
  BY DEF SaveBuyer, Acknowledged, Unacknowledged, Row
<1>2. /\ \A b \in NewOrders : buyers[b] # None => buyers'[b] = buyers[b]
      /\ \A p \in NewOrders : payments[p] # None => payments'[p] = payments[p]
      /\ buyerId[r] \in NewOrders /\ paymentId[r] \in NewOrders
      /\ buyers'[buyerId[r]] = user[r]
      /\ payments'[paymentId[r]] = Row(buyerId[r], card[r])
      /\ \A b \in NewOrders : b # buyerId[r] => buyers'[b] = buyers[b]
      /\ buyerId[r] # r => buyers' = buyers
      /\ user[r] \in Users /\ card[r] \in Cards
  BY SaveBuyerKeepsRows
<1>3. \A b, c : b \in NewOrders /\ c \in Cards =>
        Row(b, c) \in PaymentRows /\ Row(b, c) # None
  BY NormalCardType DEF Row, PaymentRows
<1>4. TypeOK'
  BY <1>1, <1>2, <1>3 DEF TypeOK, InFlight, changeVars
<1>5. Received' /\ Recorded'
  BY <1>1 DEF TypeOK, Received, Recorded
<1>6. Fresh'
  <2> SUFFICES ASSUME NEW q \in NewOrders, pc'[q] = "idle"
               PROVE  /\ user'[q] = None /\ orders'[q] = None
                      /\ buyers'[q] = None /\ payments'[q] = None
    BY DEF Fresh
  <2>1. pc[q] = "idle" /\ q # r
    BY <1>1 DEF TypeOK
  <2>2. q # buyerId[r]
    BY <1>2, <2>1 DEF Fresh, Working, SaveBuyer
  <2>3. q # paymentId[r]
    BY <1>1, <1>2, <1>3, <2>1 DEF Fresh, Working
  <2> QED BY <1>1, <2>1, <2>2, <2>3 DEF Fresh, TypeOK
<1>7. BuyerOwned'
  <2> SUFFICES ASSUME NEW b \in NewOrders, buyers'[b] # None
               PROVE  buyers'[b] = user'[b]
    BY DEF BuyerOwned
  <2>1. CASE b = buyerId[r] /\ buyerId[r] = r
    BY <1>1, <1>2, <2>1
  <2>2. CASE ~(b = buyerId[r] /\ buyerId[r] = r)
    BY <1>1, <1>2, <2>2 DEF BuyerOwned
  <2> QED BY <2>1, <2>2
<1>8. Working'
  <2> SUFFICES ASSUME NEW q \in NewOrders, pc'[q] = "saveBuyer"
               PROVE  /\ buyerId'[q] \in NewOrders /\ paymentId'[q] \in NewOrders
                      /\ buyerId'[q] # q => buyers'[buyerId'[q]] = user'[q]
                      /\ paymentId'[q] # q => payments'[paymentId'[q]] =
                             Row(buyerId'[q], card'[q])
    BY DEF Working, Row
  <2>1. pc[q] = "saveBuyer"
    BY <1>1 DEF TypeOK
  <2>2. /\ buyerId[q] \in NewOrders /\ paymentId[q] \in NewOrders
        /\ buyerId[q] # q => buyers[buyerId[q]] = user[q]
        /\ paymentId[q] # q => payments[paymentId[q]] = Row(buyerId[q], card[q])
        /\ user[q] \in Users /\ card[q] \in Cards
    BY <2>1 DEF Working, Received
  <2> QED BY <1>1, <1>2, <1>3, <2>2
<1>9. Saved'
  <2> SUFFICES ASSUME NEW q \in NewOrders, pc'[q] \in {"saveLink", "created"}
               PROVE  /\ buyerId'[q] \in NewOrders /\ paymentId'[q] \in NewOrders
                      /\ buyers'[buyerId'[q]] = user'[q]
                      /\ payments'[paymentId'[q]] = Row(buyerId'[q], card'[q])
    BY DEF Saved, Row
  <2>1. CASE q = r
    BY <1>1, <1>2, <2>1
  <2>2. CASE q # r
    <3>1. pc[q] \in {"saveLink", "created"}
      BY <1>1, <2>2 DEF TypeOK
    <3>2. /\ buyerId[q] \in NewOrders /\ paymentId[q] \in NewOrders
          /\ buyers[buyerId[q]] = user[q]
          /\ payments[paymentId[q]] = Row(buyerId[q], card[q])
          /\ user[q] \in Users /\ card[q] \in Cards
      BY <3>1 DEF Saved, Received
    <3> QED BY <1>1, <1>2, <1>3, <3>2
  <2> QED BY <2>1, <2>2
<1>10. LinkedLate' /\ CreatedLinked'
  BY <1>1 DEF TypeOK, LinkedLate, CreatedLinked, Linked
<1>11. LinkSound'
  <2> SUFFICES ASSUME NEW o \in NewOrders, Linked(o)
               PROVE  /\ buyers'[orders[o].buyer] = user[o]
                      /\ orders[o].payment # None
                      /\ payments'[orders[o].payment] =
                            Row(orders[o].buyer, card[o])
    BY <1>1 DEF LinkSound, Linked, Row
  <2>1. /\ buyers[orders[o].buyer] = user[o]
        /\ orders[o].payment # None
        /\ payments[orders[o].payment] = Row(orders[o].buyer, card[o])
    BY DEF LinkSound, Row
  <2>2. orders[o].buyer \in NewOrders /\ orders[o].payment \in NewOrders
    BY <2>1 DEF TypeOK, Linked, OrderRows
  <2>3. user[o] \in Users /\ card[o] \in Cards
    BY DEF LinkedLate, Received
  <2> QED BY <1>2, <1>3, <2>1, <2>2, <2>3
<1>12. Found' /\ StatusDescribed'
  BY <1>1 DEF TypeOK, Found, StatusDescribed, changeVars
<1> QED BY <1>4, <1>5, <1>6, <1>7, <1>8, <1>9, <1>10, <1>11, <1>12

\* Third save.
LEMMA SaveLinkInv ==
    ASSUME IInv, NEW r \in NewOrders, SaveLink(r)
    PROVE  IInv'
<1> USE NoneAssumption, RetriesAssumption DEF IInv
<1> DEFINE entity == OrderEntity(buyerId[r], paymentId[r])
<1>1. /\ pc[r] = "saveLink"
      /\ orders' = [orders EXCEPT ![r] = entity]
      /\ \/ pc' = [pc EXCEPT ![r] = "created"] /\ retries' = [retries EXCEPT ![r] = 0]
            /\ hit' = hit
         \/ pc' = [pc EXCEPT ![r] = "failed"] /\ retries' = retries
            /\ hit' = hit \cup {r}
         \/ pc' = pc /\ retries[r] < MaxRetries
            /\ retries' = [retries EXCEPT ![r] = @ + 1] /\ hit' = hit \cup {r}
      /\ UNCHANGED <<ready, buyers, payments, user, card, flaw, buyerId, paymentId,
                     changeVars, overlapped>>
  BY DEF SaveLink, Acknowledged, Unacknowledged
<1>2. /\ buyerId[r] \in NewOrders /\ paymentId[r] \in NewOrders
      /\ buyers[buyerId[r]] = user[r]
      /\ payments[paymentId[r]] = Row(buyerId[r], card[r])
  BY <1>1 DEF Saved
<1>3. /\ entity \in OrderRows /\ entity # None
      /\ entity.buyer = buyerId[r] /\ entity.payment = paymentId[r]
      /\ entity.description = DescriptionOf(entity.status)
  BY <1>2, EntityRow
<1> HIDE DEF entity
<1>4. TypeOK'
  BY <1>1, <1>3 DEF TypeOK, InFlight, changeVars
<1>5. Received' /\ Fresh' /\ Recorded' /\ BuyerOwned'
  BY <1>1, <1>3 DEF TypeOK, Received, Fresh, Recorded, BuyerOwned
<1>6. Working' /\ Saved'
  BY <1>1, <1>2 DEF TypeOK, Working, Saved, Row
<1>7. LinkedLate' /\ CreatedLinked'
  BY <1>1, <1>2, <1>3 DEF TypeOK, LinkedLate, CreatedLinked, Linked
<1>8. LinkSound'
  BY <1>1, <1>2, <1>3 DEF TypeOK, LinkSound, Linked, Row
<1>9. Found' /\ StatusDescribed'
  BY <1>1, <1>3 DEF TypeOK, Found, StatusDescribed, changeVars
<1> QED BY <1>4, <1>5, <1>6, <1>7, <1>8, <1>9

\* Steps of a status change that do not write: it is received, it reads, it
\* loses its connection or its process stops.
LEMMA StatusReadInv ==
    ASSUME IInv, NEW c \in StatusChanges,
           \/ \E o \in NewOrders, g \in {"Shipped", "Cancelled"} :
                ReceiveStatus(c, o, g)
           \/ Find(c) \/ FindRefused(c) \/ StatusConnectionLost(c) \/ StatusCrash(c)
    PROVE  IInv'
<1> USE NoneAssumption, RetriesAssumption DEF IInv
<1>1. UNCHANGED <<tables, newVars, hit, overlapped>>
  BY DEF ReceiveStatus, Find, FindRefused, StatusConnectionLost, StatusCrash
<1>2. /\ Received' /\ Fresh' /\ Recorded' /\ BuyerOwned' /\ Working' /\ Saved'
      /\ LinkedLate' /\ CreatedLinked' /\ LinkSound' /\ StatusDescribed'
  BY <1>1 DEF Received, Fresh, Recorded, BuyerOwned, Working, Saved, LinkedLate,
              CreatedLinked, LinkSound, StatusDescribed, Linked, Row, tables,
              newVars
<1>3. CASE \E o \in NewOrders, g \in {"Shipped", "Cancelled"} :
             ReceiveStatus(c, o, g)
  <2>1. TypeOK'
    BY <1>1, <1>3 DEF TypeOK, ReceiveStatus, InFlight, tables, newVars
  <2>2. Found'
    BY <1>1, <1>3 DEF TypeOK, ReceiveStatus, Found, tables
  <2> QED BY <1>2, <2>1, <2>2
<1>4. CASE Find(c)
  <2>1. target[c] \in NewOrders /\ goal[c] \in {"Shipped", "Cancelled"}
    BY <1>4 DEF Find, Found
  <2>2. TypeOK'
    BY <1>1, <1>4, <2>1 DEF TypeOK, Find, StatusAcknowledged, InFlight, tables,
                            newVars
  <2>3. Found'
    BY <1>1, <1>4, <2>1 DEF TypeOK, Find, StatusAcknowledged, Found,
                            StatusDescribed, tables
  <2> QED BY <1>2, <2>2, <2>3
<1>5. CASE StatusConnectionLost(c)
  <2>1. TypeOK'
    BY <1>1, <1>5 DEF TypeOK, StatusConnectionLost, StatusUnacknowledged,
                      InFlight, tables, newVars
  <2>2. Found'
    BY <1>1, <1>5 DEF TypeOK, StatusConnectionLost, StatusUnacknowledged, Found,
                      tables
  <2> QED BY <1>2, <2>1, <2>2
<1>6. CASE StatusCrash(c)
  <2>1. TypeOK'
    BY <1>1, <1>6 DEF TypeOK, StatusCrash, InFlight, tables, newVars
  <2>2. Found'
    BY <1>1, <1>6 DEF TypeOK, StatusCrash, Found, tables
  <2> QED BY <1>2, <2>1, <2>2
<1>7. CASE FindRefused(c)
  <2>1. TypeOK'
    BY <1>1, <1>7 DEF TypeOK, FindRefused, InFlight, tables, newVars
  <2>2. Found'
    BY <1>1, <1>7 DEF TypeOK, FindRefused, Found, tables
  <2> QED BY <1>2, <2>1, <2>2
<1> QED BY <1>3, <1>4, <1>5, <1>6, <1>7

\* The row a status change writes.
LEMMA SaveStatusRow ==
    ASSUME IInv, NEW c \in StatusChanges, SaveStatus(c)
    PROVE  LET o   == target[c]
               row == Updated(orders[o], seen[c], goal[c])
           IN  /\ o \in NewOrders /\ orders[o] \in OrderRows /\ orders[o] # None
               /\ orders' = [orders EXCEPT ![o] = row]
               /\ row \in OrderRows /\ row # None
               /\ row.buyer = orders[o].buyer /\ row.payment = orders[o].payment
               /\ row.status \in {orders[o].status, goal[c]}
               /\ row.description = DescriptionOf(row.status)
               /\ goal[c] \in {"Shipped", "Cancelled"}
<1>1. /\ target[c] \in NewOrders /\ goal[c] \in {"Shipped", "Cancelled"}
      /\ orders[target[c]] # None /\ seen[c] # None
      /\ seen[c].description = DescriptionOf(seen[c].status)
  BY DEF IInv, SaveStatus, Found
<1>2. orders[target[c]] \in OrderRows /\ seen[c] \in OrderRows
  BY <1>1 DEF IInv, TypeOK
<1>3. orders[target[c]].description = DescriptionOf(orders[target[c]].status)
  BY <1>1 DEF IInv, StatusDescribed
<1>4. orders' = [orders EXCEPT ![target[c]] =
                    Updated(orders[target[c]], seen[c], goal[c])]
  BY DEF SaveStatus
<1> QED BY <1>1, <1>2, <1>3, <1>4, UpdatedRow

LEMMA SaveStatusInv ==
    ASSUME IInv, NEW c \in StatusChanges, SaveStatus(c)
    PROVE  IInv'
<1> USE NoneAssumption, RetriesAssumption DEF IInv
<1> DEFINE o   == target[c]
           row == Updated(orders[o], seen[c], goal[c])
<1>1. /\ o \in NewOrders /\ orders[o] \in OrderRows /\ orders[o] # None
      /\ orders' = [orders EXCEPT ![o] = row]
      /\ row \in OrderRows /\ row # None
      /\ row.buyer = orders[o].buyer /\ row.payment = orders[o].payment
      /\ row.description = DescriptionOf(row.status)
  BY SaveStatusRow
<1>2. /\ spc[c] = "save"
      /\ spc' \in {spc, [spc EXCEPT ![c] = "ok"], [spc EXCEPT ![c] = "failed"]}
      /\ \/ sretries' = sretries
         \/ sretries' = [sretries EXCEPT ![c] = 0]
         \/ sretries[c] < MaxRetries /\ sretries' = [sretries EXCEPT ![c] = @ + 1]
      /\ UNCHANGED <<ready, buyers, payments, newVars, target, goal, seen, hit,
                     overlapped>>
  BY DEF SaveStatus, StatusAcknowledged, StatusUnacknowledged
<1> HIDE DEF o, row
<1>3. TypeOK'
  BY <1>1, <1>2 DEF TypeOK, InFlight, newVars
<1>4. Received' /\ BuyerOwned' /\ Working' /\ Saved'
  BY <1>2 DEF Received, BuyerOwned, Working, Saved, Row, newVars
<1>5. Fresh' /\ Recorded'
  BY <1>1, <1>2 DEF TypeOK, Fresh, Recorded, newVars
<1>6. \A q \in NewOrders :
        /\ orders'[q] # None <=> orders[q] # None
        /\ orders[q] # None => /\ orders'[q].buyer = orders[q].buyer
                               /\ orders'[q].payment = orders[q].payment
  BY <1>1 DEF TypeOK
<1>7. LinkedLate' /\ CreatedLinked' /\ LinkSound'
  BY <1>2, <1>6 DEF LinkedLate, CreatedLinked, LinkSound, Linked, newVars
<1>8. Found'
  BY <1>2, <1>6 DEF TypeOK, Found
<1>9. StatusDescribed'
  BY <1>1 DEF TypeOK, StatusDescribed
<1> QED BY <1>3, <1>4, <1>5, <1>7, <1>8, <1>9

-----------------------------------------------------------------------------
LEMMA NextInv == IInv /\ [Next]_vars => IInv'
<1> SUFFICES ASSUME IInv, [Next]_vars PROVE IInv'
  OBVIOUS
<1>1. ASSUME NEW r \in NewOrders,
             \E u \in Users, t \in SentTypes, n \in CardNumbers, f \in SentFlaws :
                Receive(r, u, [type |-> t, number |-> n], f)
      PROVE  IInv'
  BY <1>1, ReceiveInv
<1>2. ASSUME NEW r \in NewOrders, NewOrderAsync(r)
      PROVE  IInv'
  BY <1>2, SaveOrderInv, FaultInv, ReadBuyerInv, SaveBuyerInv, SaveLinkInv
     DEF NewOrderAsync
<1>3. ASSUME NEW r \in NewOrders, ConnectionLost(r) \/ Crash(r)
      PROVE  IInv'
  BY <1>3, FaultInv
<1>4. ASSUME NEW c \in StatusChanges,
             \/ \E o \in NewOrders, g \in {"Shipped", "Cancelled"} :
                  ReceiveStatus(c, o, g)
             \/ ChangeStatusAsync(c)
             \/ StatusConnectionLost(c) \/ StatusCrash(c)
      PROVE  IInv'
  BY <1>4, StatusReadInv, SaveStatusInv DEF ChangeStatusAsync
<1>5. CASE UNCHANGED vars
  BY <1>5 DEF vars, tables, newVars, changeVars, IInv, TypeOK, Received, Fresh,
              Recorded, BuyerOwned, Working, Saved, LinkedLate, CreatedLinked,
              Found, LinkSound, StatusDescribed, Linked, Row
<1>6. CASE Prepare
  BY <1>6 DEF Prepare, newVars, changeVars, IInv, TypeOK, Received, Fresh,
              Recorded, BuyerOwned, Working, Saved, LinkedLate, CreatedLinked,
              Found, LinkSound, StatusDescribed, Linked, Row
<1> QED BY <1>1, <1>2, <1>3, <1>4, <1>5, <1>6 DEF Next

\* The invariant holds in every reachable state.
THEOREM Invariant == Spec => []IInv
BY InitInv, NextInv, PTL DEF Spec

\* Type correctness of the tables and of every request in flight.
THEOREM TypeCorrect == Spec => []TypeOK
<1>1. IInv => TypeOK
  BY DEF IInv
<1> QED BY <1>1, Invariant, PTL

\* The buyer and the payment method of a linked order are those of the request
\* that placed it, however many requests race (OrdersController, save 3).
THEOREM LinkCorrect == Spec => []LinkSound
<1>1. IInv => LinkSound
  BY DEF IInv
<1> QED BY <1>1, Invariant, PTL

\* An order answered "201 Created" is in its customer's list.
THEOREM CreatedCorrect == Spec => []CreatedIsListed
<1>1. IInv => CreatedIsListed
  BY DEF IInv, CreatedIsListed, CreatedLinked, ListedFor, LinkSound
<1> QED BY <1>1, Invariant, PTL

\* Column-wise status updates from stale snapshots never tear a row.
THEOREM StatusCorrect == Spec => []StatusDescribed
<1>1. IInv => StatusDescribed
  BY DEF IInv
<1> QED BY <1>1, Invariant, PTL

-----------------------------------------------------------------------------
(* Action property.                                                        *)

\* Only a repeated last save of its own request sets a listed order back to
\* "Submitted".
LEMMA StatusSticksStep ==
    ASSUME IInv, [Next]_vars, NEW o \in NewOrders, Linked(o),
           orders[o].status # "Submitted", orders'[o].status = "Submitted"
    PROVE  o \in hit /\ pc[o] = "saveLink" /\ retries[o] > 0
<1>1. ASSUME NEW r \in NewOrders, SaveOrder(r)
      PROVE  FALSE
  <2>1. orders[r] = None /\ \A q \in NewOrders : q # r => orders'[q] = orders[q]
    BY <1>1 DEF SaveOrder, OrderAccepted, IInv, TypeOK
  <2> QED BY <2>1 DEF Linked
<1>2. ASSUME NEW r \in NewOrders, SaveLink(r)
      PROVE  o \in hit /\ pc[o] = "saveLink" /\ retries[o] > 0
  <2>1. pc[r] = "saveLink" /\ \A q \in NewOrders : q # r => orders'[q] = orders[q]
    BY <1>2 DEF SaveLink, IInv, TypeOK
  <2> QED BY <2>1 DEF IInv, LinkedLate
<1>3. ASSUME NEW c \in StatusChanges, SaveStatus(c)
      PROVE  FALSE
  BY <1>3, SaveStatusRow DEF IInv, TypeOK
<1>4. CASE UNCHANGED orders
  BY <1>4
<1> QED
  BY <1>1, <1>2, <1>3, <1>4
  DEF Next, Prepare, NewOrderAsync, Receive, OrderRefused, ReadBuyer, SaveBuyer,
      BuyerRefused, Refused, ConnectionLost, Crash, ChangeStatusAsync,
      ReceiveStatus, Find, FindRefused, StatusConnectionLost, StatusCrash, vars, tables

THEOREM StatusSticks == Spec => ListedStatusSticks
<1>1. IInv /\ [Next]_vars =>
        [\A o \in NewOrders :
           Linked(o) /\ orders[o].status # "Submitted"
           /\ orders'[o].status = "Submitted"
           => o \in hit /\ pc[o] = "saveLink" /\ retries[o] > 0]_vars
  BY StatusSticksStep
<1> QED BY <1>1, Invariant, PTL DEF Spec, ListedStatusSticks

-----------------------------------------------------------------------------
(* What only overlapping requests of one customer can do to the tables.    *)
(* The invariant OverlapInv is relative to IInv.                           *)

\* A customer that never overlapped has one request in flight at most.
OneInFlight == \A q, r \in NewOrders :
    /\ pc[q] \in InFlight /\ pc[r] \in InFlight /\ user[q] = user[r]
    /\ user[r] \notin overlapped
    => q = r

\* A request finds rows of its own only after a lost acknowledgement.
OwnRows == \A r \in NewOrders :
    /\ pc[r] = "saveOrder" /\ orders[r] # None => r \in hit
    /\ pc[r] \in {"saveOrder", "readBuyer"} => buyers[r] = None /\ payments[r] = None
    /\ pc[r] = "saveBuyer" /\ r \notin hit => buyers[r] = None /\ payments[r] = None

\* The unique index on the identity of a buyer, and the reference of a payment
\* method to its buyer.
BuyersDiffer == \A a, b \in NewOrders : buyers[a] # None /\ buyers[a] = buyers[b] => a = b
PaymentsOwned == \A p \in NewOrders : payments[p] # None =>
    payments[p].buyer \in NewOrders /\ buyers[payments[p].buyer] # None

\* What the request of a customer that never overlapped did not find when it
\* read is still not there when it saves.
NotThere == \A r \in NewOrders : pc[r] = "saveBuyer" /\ user[r] \notin overlapped =>
    /\ buyerId[r] = r /\ r \notin hit => \A b \in NewOrders : buyers[b] # user[r]
    /\ paymentId[r] = r => \A p \in NewOrders \ {r} :
          payments[p] # None /\ payments[p].card = NormalCard(card[r])
          => buyers[payments[p].buyer] # user[r]

OverlapInv == /\ OneInFlight /\ OwnRows /\ BuyersDiffer /\ PaymentsOwned /\ NotThere
              /\ FailureExplained /\ CardsStoredOnce

LEMMA InitOverlap == Init => OverlapInv
<1> SUFFICES ASSUME Init PROVE OverlapInv
  OBVIOUS
<1> USE NoneAssumption DEF Init, InFlight
<1>1. OneInFlight /\ OwnRows /\ NotThere
  BY DEF OneInFlight, OwnRows, NotThere
<1>2. BuyersDiffer /\ PaymentsOwned /\ CardsStoredOnce
  BY DEF BuyersDiffer, PaymentsOwned, CardsStoredOnce, StoredTwice
<1>3. FailureExplained
  BY DEF FailureExplained
<1> QED BY <1>1, <1>2, <1>3 DEF OverlapInv

\* Why a request may fail.
Excused(r) == \/ r \in hit
              \/ user[r] \in overlapped
              \/ flaw[r] \in {"items", "line"}
              \/ paymentId[r] = r /\ ~Storable(r)

\* Steps that write no buyer and no payment method, and by which no request
\* gets to its second save.
LEMMA ElsewhereOverlap ==
    ASSUME OverlapInv,
           UNCHANGED <<buyers, payments, user, card, flaw, buyerId, paymentId, overlapped>>,
           hit \subseteq hit',
           \A q \in NewOrders :
              /\ pc'[q] \in InFlight => pc[q] \in InFlight
              /\ pc'[q] = "saveOrder" => /\ pc[q] = "saveOrder"
                                         /\ orders'[q] # None => orders[q] # None \/ q \in hit'
              /\ pc'[q] = "readBuyer" => pc[q] \in {"saveOrder", "readBuyer"}
              /\ pc'[q] = "saveBuyer" => pc[q] = "saveBuyer"
              /\ pc'[q] = "failed" => pc[q] = "failed" \/ Excused(q)'
    PROVE  OverlapInv'
<1> USE DEF OverlapInv
<1>1. OneInFlight'
  BY DEF OneInFlight
<1>2. OwnRows'
  <2> SUFFICES ASSUME NEW r \in NewOrders
               PROVE  /\ pc'[r] = "saveOrder" /\ orders'[r] # None => r \in hit'
                      /\ pc'[r] \in {"saveOrder", "readBuyer"} => buyers[r] = None /\ payments[r] = None
                      /\ pc'[r] = "saveBuyer" /\ r \notin hit' => buyers[r] = None /\ payments[r] = None
    BY DEF OwnRows
  <2>1. pc'[r] = "saveOrder" /\ orders'[r] # None => r \in hit'
    BY DEF OwnRows
  <2>2. pc'[r] \in {"saveOrder", "readBuyer"} => buyers[r] = None /\ payments[r] = None
    BY DEF OwnRows
  <2>3. pc'[r] = "saveBuyer" /\ r \notin hit' => buyers[r] = None /\ payments[r] = None
    BY DEF OwnRows
  <2> QED BY <2>1, <2>2, <2>3
<1>3. BuyersDiffer' /\ PaymentsOwned' /\ CardsStoredOnce'
  BY DEF BuyersDiffer, PaymentsOwned, CardsStoredOnce, StoredTwice
<1>4. NotThere'
  BY DEF NotThere
<1>5. FailureExplained'
  BY DEF FailureExplained, Excused, Storable
<1> QED BY <1>1, <1>2, <1>3, <1>4, <1>5

\* First and last save of a request.
LEMMA SaveOrderOverlap ==
    ASSUME IInv, OverlapInv, NEW r \in NewOrders, SaveOrder(r) \/ SaveLink(r)
    PROVE  OverlapInv'
<1>1. /\ UNCHANGED <<buyers, payments, user, card, flaw, buyerId, paymentId, overlapped>>
      /\ hit' \in {hit, hit \cup {r}}
      /\ \/ pc[r] = "saveOrder" /\ pc' = [pc EXCEPT ![r] = "readBuyer"]
         \/ pc[r] = "saveLink" /\ pc' = [pc EXCEPT ![r] = "created"]
         \/ /\ pc[r] \in {"saveOrder", "saveLink"}
            /\ pc' \in {pc, [pc EXCEPT ![r] = "failed"]} /\ r \in hit'
      /\ \A q \in NewOrders \ {r} : orders'[q] = orders[q]
  BY DEF SaveOrder, SaveLink, Acknowledged, Unacknowledged, IInv, TypeOK
<1>2. \A q \in NewOrders \ {r} : pc'[q] = pc[q]
  BY <1>1 DEF IInv, TypeOK
<1>3. \/ pc'[r] \in {"readBuyer", "created"} /\ (pc'[r] = "readBuyer" => pc[r] = "saveOrder")
      \/ pc'[r] \in {pc[r], "failed"} /\ r \in hit'
  BY <1>1 DEF IInv, TypeOK
<1>4. pc[r] \in InFlight /\ pc[r] \in {"saveOrder", "saveLink"}
  BY <1>1 DEF InFlight
<1> QED BY <1>1, <1>2, <1>3, <1>4, ElsewhereOverlap DEF Excused

\* A request that stops, or tries again, without having written anything.
LEMMA StopOverlap ==
    ASSUME IInv, OverlapInv, NEW r \in NewOrders, pc[r] \in InFlight,
           UNCHANGED <<tables, user, card, flaw, buyerId, paymentId, overlapped>>,
           hit' \in {hit, hit \cup {r}},
           pc' \in {pc, [pc EXCEPT ![r] = "failed"], [pc EXCEPT ![r] = "lost"]},
           pc' = [pc EXCEPT ![r] = "failed"] => Excused(r)'
    PROVE  OverlapInv'
<1>1. UNCHANGED <<orders, buyers, payments>>
  BY DEF tables
<1>2. \A q \in NewOrders \ {r} : pc'[q] = pc[q]
  BY DEF IInv, TypeOK
<1>3. pc'[r] \in {pc[r], "failed", "lost"}
  BY DEF IInv, TypeOK
<1>4. pc'[r] = "failed" => Excused(r)'
  BY DEF IInv, TypeOK, InFlight
<1> QED BY <1>1, <1>2, <1>3, <1>4, ElsewhereOverlap DEF InFlight

\* A read of a customer that never overlapped is never refused: there is one
\* buyer with its identity, and one payment method with the card.
LEMMA ReadIsSingle ==
    ASSUME IInv, OverlapInv, NEW r \in NewOrders, pc[r] # "idle",
           NEW found, found = {b \in NewOrders : buyers[b] = user[r]},
           NEW matches, matches = {p \in NewOrders : \E b \in found :
                                      p \in Matching(b, NormalCard(card[r]))}
    PROVE  AtMostOne(found) /\ (AtMostOne(matches) \/ user[r] \in overlapped)
<1>1. user[r] \in Users /\ user[r] # None
  BY NoneAssumption DEF IInv, Received
<1>2. AtMostOne(found)
  BY <1>1 DEF AtMostOne, OverlapInv, BuyersDiffer
<1>3. ASSUME NEW p \in matches, NEW q \in matches, p # q PROVE user[r] \in overlapped
  <2>1. PICK b \in found : payments[p] = [buyer |-> b, card |-> NormalCard(card[r])]
    BY <1>3 DEF Matching
  <2>2. PICK d \in found : payments[q] = [buyer |-> d, card |-> NormalCard(card[r])]
    BY <1>3 DEF Matching
  <2>3. /\ payments[p] # None /\ payments[p].buyer = b /\ payments[p].card = NormalCard(card[r])
        /\ payments[q] # None /\ payments[q].buyer = d /\ payments[q].card = NormalCard(card[r])
    <3>1. NormalCard(card[r]) \in Cards
      BY NormalCardType DEF IInv, Received
    <3>2. [buyer |-> b, card |-> NormalCard(card[r])] \in PaymentRows
          /\ [buyer |-> d, card |-> NormalCard(card[r])] \in PaymentRows
      BY <3>1 DEF PaymentRows
    <3> QED BY <2>1, <2>2, <3>2, NoneAssumption
  <2>4. StoredTwice(p, q)
    BY <1>3, <2>3 DEF StoredTwice
  <2> QED BY <1>3, <2>3, <2>4 DEF OverlapInv, CardsStoredOnce
<1> QED BY <1>2, <1>3 DEF AtMostOne

\* Constraint violations, lost connections and crashes.
LEMMA FaultOverlap ==
    ASSUME IInv, OverlapInv, NEW r \in NewOrders,
           OrderRefused(r) \/ BuyerRefused(r) \/ ConnectionLost(r) \/ Crash(r)
    PROVE  OverlapInv'
<1>1. CASE OrderRefused(r)
  <2>1. ready /\ flaw[r] # "line" => r \in hit
    BY <1>1 DEF OrderRefused, OrderAccepted, OverlapInv, OwnRows
  <2>2. /\ pc[r] = "saveOrder" /\ pc' = [pc EXCEPT ![r] = "failed"]
        /\ hit' = IF ready THEN hit ELSE hit \cup {r}
        /\ UNCHANGED <<tables, user, card, flaw, buyerId, paymentId, overlapped>>
    BY <1>1 DEF OrderRefused, Refused
  <2>3. Excused(r)'
    BY <2>1, <2>2 DEF Excused
  <2> QED BY <2>2, <2>3, StopOverlap DEF InFlight
<1>2. CASE BuyerRefused(r)
  <2>1. pc[r] = "saveBuyer" /\ ~BuyerAccepted(r)
    BY <1>2 DEF BuyerRefused
  <2>2. Excused(r)
    <3>1. CASE buyerId[r] = r /\ \E b \in NewOrders : buyers[b] = user[r]
      BY <2>1, <3>1 DEF OverlapInv, NotThere, Excused
    <3>2. CASE paymentId[r] = r /\ payments[r] # None
      BY <2>1, <3>2 DEF OverlapInv, OwnRows, Excused
    <3>3. CASE paymentId[r] = r /\ ~Storable(r)
      BY <3>3 DEF Excused
    <3> QED BY <2>1, <3>1, <3>2, <3>3 DEF BuyerAccepted
  <2>3. Excused(r)'
    BY <1>2, <2>2 DEF BuyerRefused, Refused, Excused, Storable
  <2> QED BY <1>2, <2>1, <2>3, StopOverlap DEF BuyerRefused, Refused, InFlight
<1>3. CASE ConnectionLost(r)
  BY <1>3, StopOverlap DEF ConnectionLost, Unacknowledged, Excused
<1>4. CASE Crash(r)
  <2>1. pc' = [pc EXCEPT ![r] = "failed"] => Excused(r)'
    BY <1>4 DEF Crash, Excused
  <2> QED BY <1>4, <2>1, StopOverlap DEF Crash
<1> QED BY <1>1, <1>2, <1>3, <1>4

LEMMA ReadBuyerOverlap ==
    ASSUME IInv, OverlapInv, NEW r \in NewOrders, ReadBuyer(r)
    PROVE  OverlapInv'
<1>0. PICK found : found = {b \in NewOrders : buyers[b] = user[r]}
  OBVIOUS
<1>1. PICK matches : matches = {p \in NewOrders : \E b \in found :
                                    p \in Matching(b, NormalCard(card[r]))}
  OBVIOUS
<1>2. pc[r] = "readBuyer" /\ pc[r] \in InFlight
  BY DEF ReadBuyer, InFlight
<1>3. CASE ~(AtMostOne(found) /\ AtMostOne(matches))
  <2>1. Refused(r)
    BY <1>0, <1>1, <1>3 DEF ReadBuyer
  <2>2. user[r] \in overlapped
    BY <1>0, <1>1, <1>2, <1>3, ReadIsSingle
  <2>3. Excused(r)'
    BY <2>1, <2>2 DEF Refused, Excused
  <2> QED BY <1>2, <2>1, <2>3, StopOverlap DEF Refused
<1>4. CASE AtMostOne(found) /\ AtMostOne(matches)
  <2>1. PICK b \in (IF found = {} THEN {r} ELSE found),
             p \in (IF matches = {} THEN {r} ELSE matches) :
          /\ buyerId' = [buyerId EXCEPT ![r] = b]
          /\ paymentId' = [paymentId EXCEPT ![r] = p]
          /\ Acknowledged(r, "saveBuyer")
          /\ UNCHANGED <<tables, user, card, flaw, changeVars, overlapped>>
    BY <1>0, <1>1, <1>4 DEF ReadBuyer
  <2>2. /\ UNCHANGED <<orders, buyers, payments, user, card, overlapped, hit>>
        /\ pc'[r] = "saveBuyer" /\ buyerId'[r] = b /\ paymentId'[r] = p
        /\ flaw' = flaw
        /\ \A q \in NewOrders \ {r} :
              pc'[q] = pc[q] /\ buyerId'[q] = buyerId[q] /\ paymentId'[q] = paymentId[q]
    BY <2>1 DEF Acknowledged, tables, IInv, TypeOK
  <2>3. buyers[r] = None /\ payments[r] = None /\ user[r] # None
    BY <1>2, NoneAssumption DEF OverlapInv, OwnRows, IInv, Received
  <2>4. b = r => \A d \in NewOrders : buyers[d] # user[r]
    BY <1>0, <2>1, <2>3
  <2>5. ASSUME p = r, NEW d \in NewOrders, payments[d] # None,
               payments[d].card = NormalCard(card[r])
        PROVE  buyers[payments[d].buyer] # user[r]
    <3>1. r \notin matches
      <4>1. NormalCard(card[r]) \in Cards
        BY <1>2, NormalCardType DEF IInv, Received
      <4>2. \A e \in found : [buyer |-> e, card |-> NormalCard(card[r])] \in PaymentRows
        BY <1>0, <4>1 DEF PaymentRows
      <4>3. \A e \in found : payments[r] # [buyer |-> e, card |-> NormalCard(card[r])]
        BY <2>3, <4>2, NoneAssumption
      <4> QED BY <1>1, <4>3 DEF Matching
    <3>2. matches = {}
      BY <2>1, <2>5, <3>1
    <3>3. payments[d] \in PaymentRows
      BY <2>5 DEF IInv, TypeOK
    <3>4. payments[d] = [buyer |-> payments[d].buyer, card |-> NormalCard(card[r])]
          /\ payments[d].buyer \in NewOrders
      BY <2>5, <3>3 DEF PaymentRows
    <3> QED BY <1>0, <1>1, <3>2, <3>4 DEF Matching
  <2>6. OneInFlight'
    BY <1>2, <2>2 DEF OverlapInv, OneInFlight, InFlight
  <2>7. OwnRows'
    BY <2>2, <2>3 DEF OverlapInv, OwnRows
  <2>8. BuyersDiffer' /\ PaymentsOwned' /\ CardsStoredOnce'
    BY <2>2 DEF OverlapInv, BuyersDiffer, PaymentsOwned, CardsStoredOnce, StoredTwice
  <2>9. NotThere'
    BY <2>2, <2>4, <2>5 DEF OverlapInv, NotThere
  <2>10. FailureExplained'
    BY <2>2 DEF OverlapInv, FailureExplained, Storable
  <2> QED BY <2>6, <2>7, <2>8, <2>9, <2>10 DEF OverlapInv
<1> QED BY <1>3, <1>4

-----------------------------------------------------------------------------
\* The second save.  If it adds a buyer or a payment method, then no request in
\* flight has found that such a row is not there.
LEMMA SaveBuyerOverlap ==
    ASSUME IInv, OverlapInv, NEW r \in NewOrders, SaveBuyer(r)
    PROVE  OverlapInv'
<1> USE DEF OverlapInv
<1>0. PICK b, p : b = buyerId[r] /\ p = paymentId[r]
  OBVIOUS
<1>1. /\ pc[r] = "saveBuyer" /\ BuyerAccepted(r)
      /\ UNCHANGED <<orders, user, card, flaw, buyerId, paymentId, overlapped>>
      /\ hit' \in {hit, hit \cup {r}}
      /\ \/ pc'[r] = "saveLink"
         \/ pc'[r] \in {pc[r], "failed"} /\ r \in hit'
      /\ \A q \in NewOrders \ {r} : pc'[q] = pc[q]
  BY DEF SaveBuyer, Acknowledged, Unacknowledged, IInv, TypeOK
<1>2. /\ \A d \in NewOrders : buyers[d] # None => buyers'[d] = buyers[d]
      /\ \A d \in NewOrders : payments[d] # None => payments'[d] = payments[d]
      /\ b \in NewOrders /\ p \in NewOrders
      /\ buyers'[b] = user[r] /\ \A d \in NewOrders : d # b => buyers'[d] = buyers[d]
      /\ b # r => buyers' = buyers
      /\ payments'[p] = Row(b, card[r])
      /\ user[r] \in Users /\ user[r] # None
  BY <1>0, SaveBuyerKeepsRows, NoneAssumption
<1>3. /\ \A d \in NewOrders : d # p => payments'[d] = payments[d]
      /\ p # r => payments' = payments
  <2>1. payments' = [payments EXCEPT ![p] = Row(b, card[r])]
    BY <1>0 DEF SaveBuyer, Row
  <2>2. p # r => payments[p] = Row(b, card[r])
    BY <1>0, <1>1 DEF IInv, Working
  <2> QED BY <2>1, <2>2 DEF IInv, TypeOK
<1>4. /\ payments'[p].buyer = b /\ payments'[p].card = NormalCard(card[r])
      /\ p = r => payments[r] = None
      /\ b = r => \A d \in NewOrders : buyers[d] # user[r]
  BY <1>0, <1>1, <1>2 DEF Row, BuyerAccepted
<1>5. \A q \in NewOrders : pc[q] \in InFlight /\ user[q] = user[r] /\ user[r] \notin overlapped
                          => q = r
  BY <1>1 DEF OneInFlight, InFlight
<1>6. \A d \in NewOrders : payments[d] # None =>
         /\ payments'[d] = payments[d] /\ payments[d].buyer \in NewOrders
         /\ buyers'[payments[d].buyer] = buyers[payments[d].buyer]
  BY <1>2 DEF PaymentsOwned
<1>7. OneInFlight'
  BY <1>1 DEF OneInFlight, InFlight
<1>8. OwnRows'
  <2>1. ASSUME NEW q \in NewOrders, q # r
        PROVE  /\ buyers[q] = None => buyers'[q] = None
               /\ payments[q] = None => payments'[q] = None
    <3>1. b # r => buyers[b] = user[r]
      BY <1>0, <1>1 DEF IInv, Working
    <3> QED BY <1>2, <1>3, <2>1, <3>1
  <2>2. ASSUME NEW q \in NewOrders
        PROVE  /\ pc'[q] = "saveOrder" /\ orders[q] # None => q \in hit'
               /\ pc'[q] \in {"saveOrder", "readBuyer"} => buyers'[q] = None /\ payments'[q] = None
               /\ pc'[q] = "saveBuyer" /\ q \notin hit' => buyers'[q] = None /\ payments'[q] = None
    <3>1. CASE q = r
      BY <1>1, <3>1
    <3>2. CASE q # r
      BY <1>1, <2>1, <3>2 DEF OwnRows
    <3> QED BY <3>1, <3>2
  <2> QED BY <1>1, <2>2 DEF OwnRows
<1>9. BuyersDiffer'
  <2>1. CASE b = r
    BY <1>2, <1>4, <2>1 DEF BuyersDiffer
  <2>2. CASE b # r
    BY <1>2, <2>2 DEF BuyersDiffer
  <2> QED BY <2>1, <2>2
<1>10. PaymentsOwned'
  <2>1. ASSUME NEW d \in NewOrders, payments'[d] # None
        PROVE  payments'[d].buyer \in NewOrders /\ buyers'[payments'[d].buyer] # None
    <3>1. CASE d = p
      BY <1>2, <1>4, <3>1
    <3>2. CASE d # p
      <4>1. payments[d] # None /\ payments'[d] = payments[d]
        BY <1>3, <2>1, <3>2
      <4> QED BY <1>6, <4>1 DEF PaymentsOwned
    <3> QED BY <3>1, <3>2
  <2> QED BY <2>1 DEF PaymentsOwned
<1>11. NotThere'
  <2> SUFFICES ASSUME NEW q \in NewOrders, pc'[q] = "saveBuyer", user[q] \notin overlapped
               PROVE  /\ buyerId[q] = q /\ q \notin hit' => \A d \in NewOrders : buyers'[d] # user[q]
                      /\ paymentId[q] = q => \A d \in NewOrders \ {q} :
                           payments'[d] # None /\ payments'[d].card = NormalCard(card[q])
                           => buyers'[payments'[d].buyer] # user[q]
    BY <1>1 DEF NotThere
  <2>1. pc[q] = "saveBuyer" /\ (q = r => q \in hit')
    BY <1>1
  <2>2. q # r => user[q] # user[r]
    BY <1>5, <2>1 DEF InFlight
  <2>3. buyerId[q] = q /\ q \notin hit' => \A d \in NewOrders : buyers'[d] # user[q]
    BY <1>1, <1>2, <2>1, <2>2 DEF NotThere
  <2>4. ASSUME paymentId[q] = q, NEW d \in NewOrders \ {q}, payments'[d] # None,
               payments'[d].card = NormalCard(card[q])
        PROVE  buyers'[payments'[d].buyer] # user[q]
    <3>1. CASE q # r /\ d = p
      BY <1>2, <1>4, <2>2, <3>1
    <3>2. CASE d # p \/ q = r
      <4>1. payments'[d] = payments[d] /\ payments[d] # None
        <5>1. CASE d # p
          BY <1>3, <2>4, <5>1
        <5>2. CASE q = r
          BY <1>0, <1>3, <2>4, <5>2
        <5> QED BY <3>2, <5>1, <5>2
      <4> QED BY <1>6, <2>1, <2>4, <4>1 DEF NotThere
    <3> QED BY <3>1, <3>2
  <2> QED BY <2>3, <2>4
<1>12. FailureExplained'
  <2>1. ASSUME NEW q \in NewOrders, pc'[q] = "failed" PROVE pc[q] = "failed" \/ q \in hit'
    BY <1>1, <2>1
  <2>2. hit \subseteq hit'
    BY <1>1
  <2> QED BY <1>1, <2>1, <2>2 DEF FailureExplained, Storable
<1>13. CardsStoredOnce'
  <2> SUFFICES ASSUME NEW d \in NewOrders, NEW e \in NewOrders, StoredTwice(d, e)'
               PROVE  buyers'[payments'[d].buyer] \in overlapped
    BY <1>1 DEF CardsStoredOnce
  <2>1. /\ d # e /\ payments'[d] # None /\ payments'[e] # None
        /\ payments'[d].card = payments'[e].card
        /\ buyers'[payments'[d].buyer] = buyers'[payments'[e].buyer]
    BY DEF StoredTwice
  <2>2. CASE payments[d] # None /\ payments[e] # None
    BY <1>6, <2>1, <2>2 DEF CardsStoredOnce, StoredTwice
  <2>3. ASSUME payments[p] = None, payments'[p] # None, NEW x \in NewOrders, x # p, payments'[x] # None,
               payments'[x].card = payments'[p].card,
               buyers'[payments'[x].buyer] = buyers'[payments'[p].buyer]
        PROVE  user[r] \in overlapped
    <3>1. p = r /\ paymentId[r] = r
      BY <1>0, <1>3, <2>3
    <3>2. payments[x] # None /\ payments'[x] = payments[x]
      BY <1>3, <2>3
    <3>3. payments[x].card = NormalCard(card[r]) /\ buyers[payments[x].buyer] = user[r]
      BY <1>2, <1>4, <1>6, <2>3, <3>2
    <3> QED BY <1>1, <2>3, <3>1, <3>2, <3>3 DEF NotThere
  <2>4. CASE payments[d] = None
    <3>1. d = p
      BY <1>3, <2>1, <2>4
    <3> QED BY <1>2, <1>4, <2>1, <2>3, <2>4, <3>1
  <2>5. CASE payments[e] = None
    <3>1. e = p
      BY <1>3, <2>1, <2>5
    <3> QED BY <1>2, <1>4, <2>1, <2>3, <2>5, <3>1
  <2> QED BY <2>2, <2>4, <2>5
<1> QED BY <1>7, <1>8, <1>9, <1>10, <1>11, <1>12, <1>13

-----------------------------------------------------------------------------
(* All steps, and the theorems.                                            *)

LEMMA ReceiveOverlap ==
    ASSUME IInv, OverlapInv, NEW r \in NewOrders, NEW u \in Users, NEW c, NEW f,
           Receive(r, u, c, f)
    PROVE  OverlapInv'
<1> USE DEF OverlapInv
<1>1. /\ pc[r] = "idle" /\ user'[r] = u
      /\ \/ pc'[r] = "failed" /\ flaw'[r] = "items"
         \/ /\ pc'[r] = "saveOrder"
            /\ u \notin overlapped' => ~\E q \in NewOrders : user[q] = u /\ pc[q] \in InFlight
      /\ \A q \in NewOrders \ {r} :
            pc'[q] = pc[q] /\ user'[q] = user[q] /\ card'[q] = card[q] /\ flaw'[q] = flaw[q]
      /\ overlapped \subseteq overlapped'
      /\ UNCHANGED <<orders, buyers, payments, buyerId, paymentId, hit>>
  BY DEF Receive, tables, IInv, TypeOK
<1>2. orders[r] = None /\ buyers[r] = None /\ payments[r] = None
  BY <1>1 DEF IInv, Fresh
<1>3. OneInFlight'
  <2> SUFFICES ASSUME NEW p \in NewOrders, NEW q \in NewOrders, pc'[p] \in InFlight,
                      pc'[q] \in InFlight, user'[p] = user'[q], user'[q] \notin overlapped'
               PROVE  p = q
    BY DEF OneInFlight, InFlight
  <2>1. CASE p = r
    BY <1>1, <2>1 DEF InFlight
  <2>2. CASE q = r
    BY <1>1, <2>2 DEF InFlight
  <2>3. CASE p # r /\ q # r
    BY <1>1, <2>3 DEF OneInFlight
  <2> QED BY <2>1, <2>2, <2>3
<1>4. OwnRows'
  BY <1>1, <1>2 DEF OwnRows
<1>5. BuyersDiffer' /\ PaymentsOwned'
  BY <1>1 DEF BuyersDiffer, PaymentsOwned
<1>6. NotThere'
  BY <1>1 DEF NotThere
<1>7. FailureExplained'
  BY <1>1 DEF FailureExplained, Storable
<1>8. CardsStoredOnce'
  BY <1>1 DEF CardsStoredOnce, StoredTwice
<1> QED BY <1>3, <1>4, <1>5, <1>6, <1>7, <1>8

\* Status changes insert no order.
LEMMA StatusOverlap ==
    ASSUME IInv, OverlapInv, NEW c \in StatusChanges,
           \/ \E o \in NewOrders, g \in {"Shipped", "Cancelled"} : ReceiveStatus(c, o, g)
           \/ Find(c) \/ FindRefused(c) \/ SaveStatus(c) \/ StatusConnectionLost(c) \/ StatusCrash(c)
    PROVE  OverlapInv'
<1>1. UNCHANGED <<buyers, payments, pc, user, card, flaw, buyerId, paymentId, hit, overlapped>>
  BY DEF ReceiveStatus, Find, FindRefused, SaveStatus, StatusConnectionLost, StatusCrash, tables, newVars
<1>2. \A q \in NewOrders : orders'[q] # None => orders[q] # None
  <2>1. CASE SaveStatus(c)
    BY <2>1, SaveStatusRow DEF IInv, TypeOK
  <2>2. CASE ~SaveStatus(c)
    BY <2>2 DEF ReceiveStatus, Find, FindRefused, StatusConnectionLost, StatusCrash, tables
  <2> QED BY <2>1, <2>2
<1> QED BY <1>1, <1>2, ElsewhereOverlap

LEMMA NextOverlap == IInv /\ OverlapInv /\ [Next]_vars => OverlapInv'
<1> SUFFICES ASSUME IInv, OverlapInv, [Next]_vars PROVE OverlapInv'
  OBVIOUS
<1>1. ASSUME NEW r \in NewOrders, NEW u \in Users, NEW t \in SentTypes, NEW n \in CardNumbers,
             NEW f \in SentFlaws, Receive(r, u, [type |-> t, number |-> n], f)
      PROVE  OverlapInv'
  BY <1>1, ReceiveOverlap
<1>2. ASSUME NEW r \in NewOrders, NewOrderAsync(r) PROVE OverlapInv'
  BY <1>2, SaveOrderOverlap, FaultOverlap, ReadBuyerOverlap, SaveBuyerOverlap DEF NewOrderAsync
<1>3. ASSUME NEW r \in NewOrders, ConnectionLost(r) \/ Crash(r) PROVE OverlapInv'
  BY <1>3, FaultOverlap
<1>4. ASSUME NEW c \in StatusChanges,
             \/ \E o \in NewOrders, g \in {"Shipped", "Cancelled"} : ReceiveStatus(c, o, g)
             \/ ChangeStatusAsync(c) \/ StatusConnectionLost(c) \/ StatusCrash(c)
      PROVE  OverlapInv'
  BY <1>4, StatusOverlap DEF ChangeStatusAsync
<1>5. CASE UNCHANGED vars
  <2>1. UNCHANGED <<orders, buyers, payments, pc, user, card, flaw, buyerId, paymentId, hit, overlapped>>
    BY <1>5 DEF vars, tables, newVars
  <2> QED BY <2>1, ElsewhereOverlap
<1>6. CASE Prepare
  <2>1. UNCHANGED <<orders, buyers, payments, pc, user, card, flaw, buyerId, paymentId, hit, overlapped>>
    BY <1>6 DEF Prepare, newVars
  <2> QED BY <2>1, ElsewhereOverlap
<1> QED BY <1>1, <1>2, <1>3, <1>4, <1>5, <1>6 DEF Next

LEMMA AlwaysOverlap == Spec => [](IInv /\ OverlapInv)
<1>1. Init => IInv /\ OverlapInv
  BY InitInv, InitOverlap
<1>2. IInv /\ OverlapInv /\ [Next]_vars => (IInv /\ OverlapInv)'
  BY NextInv, NextOverlap
<1> QED BY <1>1, <1>2, PTL DEF Spec

\* A request that met no failure, whose lines are accepted and whose card is
\* stored already or can be, fails only when requests of its customer overlapped.
THEOREM FailuresExplained == Spec => []FailureExplained
<1>1. OverlapInv => FailureExplained
  BY DEF OverlapInv
<1> QED BY <1>1, AlwaysOverlap, PTL

\* A customer whose requests never overlap has every card stored once.
THEOREM CardsOnce == Spec => []CardsStoredOnce
<1>1. OverlapInv => CardsStoredOnce
  BY DEF OverlapInv
<1> QED BY <1>1, AlwaysOverlap, PTL

-----------------------------------------------------------------------------
\* Buyers and payment methods stay as they were inserted.
LEMMA RowsStay ==
    ASSUME IInv, [Next]_vars
    PROVE  /\ \A b \in NewOrders : buyers[b] # None => buyers'[b] = buyers[b]
           /\ \A p \in NewOrders : payments[p] # None => payments'[p] = payments[p]
<1>1. ASSUME NEW r \in NewOrders, SaveBuyer(r)
      PROVE  /\ \A b \in NewOrders : buyers[b] # None => buyers'[b] = buyers[b]
             /\ \A p \in NewOrders : payments[p] # None => payments'[p] = payments[p]
  BY <1>1, SaveBuyerKeepsRows
<1>2. CASE UNCHANGED <<buyers, payments>>
  BY <1>2
<1> QED
  BY <1>1, <1>2
  DEF Next, Prepare, NewOrderAsync, Receive, SaveOrder, OrderRefused, ReadBuyer, SaveLink,
      BuyerRefused, Refused, ConnectionLost, Crash, ChangeStatusAsync,
      ReceiveStatus, Find, FindRefused, SaveStatus, StatusConnectionLost, StatusCrash, vars, tables

\* A request that has yet to read cannot get past the read of a doubled card.
LEMMA DoubledRead ==
    ASSUME IInv, OverlapInv, [Next]_vars, NEW p \in NewOrders, NEW q \in NewOrders,
           StoredTwice(p, q), NEW r \in NewOrders,
           user[r] = buyers[payments[p].buyer], NormalCard(card[r]) = payments[p].card,
           pc[r] \in {"saveOrder", "readBuyer"}
    PROVE  pc'[r] \in {"saveOrder", "readBuyer", "failed", "lost"}
<1>1. CASE ReadBuyer(r)
  <2>0. PICK found : found = {b \in NewOrders : buyers[b] = user[r]}
    OBVIOUS
  <2>1. PICK matches : matches = {x \in NewOrders : \E b \in found :
                                      x \in Matching(b, NormalCard(card[r]))}
    OBVIOUS
  <2>2. ASSUME NEW x \in {p, q} PROVE x \in matches
    <3>1. /\ payments[x] # None /\ payments[x].card = NormalCard(card[r])
          /\ buyers[payments[x].buyer] = user[r]
      BY <2>2 DEF StoredTwice
    <3>2. payments[x] \in PaymentRows
      BY <3>1 DEF IInv, TypeOK
    <3>3. /\ payments[x] = [buyer |-> payments[x].buyer, card |-> NormalCard(card[r])]
          /\ payments[x].buyer \in NewOrders
      BY <3>1, <3>2 DEF PaymentRows
    <3> QED BY <2>0, <2>1, <3>1, <3>3 DEF Matching
  <2>3. ~AtMostOne(matches)
    BY <2>2 DEF AtMostOne, StoredTwice
  <2>4. Refused(r)
    BY <1>1, <2>0, <2>1, <2>3 DEF ReadBuyer
  <2> QED BY <2>4 DEF Refused, IInv, TypeOK
<1>2. CASE SaveOrder(r)
  BY <1>2 DEF SaveOrder, Acknowledged, Unacknowledged, IInv, TypeOK
<1>3. CASE OrderRefused(r) \/ ConnectionLost(r) \/ Crash(r)
  BY <1>3 DEF OrderRefused, Refused, ConnectionLost, Unacknowledged, Crash, IInv, TypeOK
<1>4. ASSUME NEW s \in NewOrders, s # r,
             \/ NewOrderAsync(s) \/ ConnectionLost(s) \/ Crash(s)
             \/ \E u \in Users, t \in SentTypes, n \in CardNumbers, f \in SentFlaws :
                  Receive(s, u, [type |-> t, number |-> n], f)
      PROVE  pc'[r] = pc[r]
  BY <1>4 DEF NewOrderAsync, SaveOrder, OrderRefused, ReadBuyer, SaveBuyer, BuyerRefused,
              SaveLink, Acknowledged, Unacknowledged, Refused, ConnectionLost, Crash, Receive,
              IInv, TypeOK
<1>5. CASE \/ SaveBuyer(r) \/ BuyerRefused(r) \/ SaveLink(r)
           \/ \E u \in Users, t \in SentTypes, n \in CardNumbers, f \in SentFlaws :
                  Receive(r, u, [type |-> t, number |-> n], f)
  BY <1>5 DEF SaveBuyer, BuyerRefused, SaveLink, Receive
<1>6. CASE UNCHANGED pc
  BY <1>6
<1>7. UNCHANGED pc \/ \E s \in NewOrders :
             \/ NewOrderAsync(s) \/ ConnectionLost(s) \/ Crash(s)
             \/ \E u \in Users, t \in SentTypes, n \in CardNumbers, f \in SentFlaws :
                  Receive(s, u, [type |-> t, number |-> n], f)
  BY DEF Next, Prepare, ChangeStatusAsync, ReceiveStatus, Find, FindRefused, SaveStatus,
         StatusConnectionLost, StatusCrash, vars, newVars
<1> QED BY <1>1, <1>2, <1>3, <1>4, <1>5, <1>6, <1>7 DEF NewOrderAsync

\* A card stored twice stays stored twice, and whoever uses it fails.
THEOREM DoubledCardStaysDead == Spec => DoubledCardIsDead
<1>1. ASSUME IInv, OverlapInv, [Next]_vars, NEW p \in NewOrders, NEW q \in NewOrders,
             StoredTwice(p, q)
      PROVE  StoredTwice(p, q)'
  <2>1. /\ payments'[p] = payments[p] /\ payments'[q] = payments[q]
        /\ payments[p] # None /\ payments[q] # None
    BY <1>1, RowsStay DEF StoredTwice
  <2>2. /\ buyers'[payments[p].buyer] = buyers[payments[p].buyer]
        /\ buyers'[payments[q].buyer] = buyers[payments[q].buyer]
    BY <1>1, <2>1, RowsStay DEF OverlapInv, PaymentsOwned
  <2> QED BY <1>1, <2>1, <2>2 DEF StoredTwice
<1>2. IInv /\ OverlapInv /\ [Next]_vars =>
        [\A p, q \in NewOrders : StoredTwice(p, q) =>
           /\ StoredTwice(p, q)'
           /\ \A r \in NewOrders :
                 /\ user[r] = buyers[payments[p].buyer]
                 /\ NormalCard(card[r]) = payments[p].card
                 /\ pc[r] \in {"saveOrder", "readBuyer"}
                 => pc'[r] \in {"saveOrder", "readBuyer", "failed", "lost"}]_vars
  BY <1>1, DoubledRead
<1> QED BY <1>2, AlwaysOverlap, PTL DEF Spec, DoubledCardIsDead

-----------------------------------------------------------------------------
(* Ordering implements OrderBook: its initial states are initial states of *)
(* the book, and each of its steps is a step of the book or leaves the     *)
(* book as it is.                                                          *)

\* The request of the book for a received request.
LEMMA AskedRecord ==
    ASSUME IInv, NEW o \in NewOrders, user[o] \in Users, card[o] \in Cards
    PROVE  /\ BookRequest[o] = [customer |-> user[o], card |-> NormalCard(card[o])]
           /\ BookRequest[o] \in [customer : Users, card : Cards]
           /\ BookRequest[o] # None
BY NormalCardType, NoneAssumption DEF BookRequest

LEMMA BookInit == Init => Book!Init
BY DEF Init, Book!Init, BookRequest, BookStatus, BookOwner, BookCharged,
       BookAnswer, Linked

\* Steps that change neither inputs nor tables: the book changes at most by an
\* error answer.
LEMMA BookStop ==
    ASSUME IInv, NEW r \in NewOrders, pc[r] \in InFlight,
           pc' \in {pc, [pc EXCEPT ![r] = "failed"], [pc EXCEPT ![r] = "lost"]},
           UNCHANGED <<tables, user, card>>
    PROVE  Book!GiveUp(r) \/ UNCHANGED Book!vars
<1> USE DEF IInv
<1>1. UNCHANGED <<BookRequest, BookStatus, BookOwner, BookCharged>>
  BY DEF BookRequest, BookStatus, BookOwner, BookCharged, Linked, tables
<1>2. CASE pc' = pc
  BY <1>1, <1>2 DEF Book!vars, BookAnswer
<1>3. CASE pc' \in {[pc EXCEPT ![r] = "failed"], [pc EXCEPT ![r] = "lost"]}
  <2>1. BookAnswer[r] = "none" /\ BookRequest[r] # None
    BY AskedRecord DEF BookAnswer, BookRequest, InFlight, Received
  <2>2. BookAnswer' = [BookAnswer EXCEPT ![r] = "error"]
    BY <1>3 DEF BookAnswer, TypeOK
  <2> QED BY <1>1, <2>1, <2>2 DEF Book!GiveUp
<1> QED BY <1>2, <1>3

\* A request is received.
LEMMA BookReceive ==
    ASSUME IInv, NEW r \in NewOrders, NEW u \in Users, NEW t \in SentTypes,
           NEW n \in CardNumbers, NEW f \in SentFlaws,
           Receive(r, u, [type |-> t, number |-> n], f)
    PROVE  Book!Ask(r)
<1> DEFINE c == [type |-> t, number |-> n]
           request == [customer |-> u, card |-> NormalCard(c)]
<1> USE NoneAssumption DEF IInv
<1>1. c \in Cards
  BY DEF Cards
<1>2. /\ pc[r] = "idle"
      /\ \E next \in {"saveOrder", "failed"} : pc' = [pc EXCEPT ![r] = next]
      /\ user' = [user EXCEPT ![r] = u] /\ card' = [card EXCEPT ![r] = c]
      /\ UNCHANGED tables
  BY DEF Receive
<1> HIDE DEF c
<1>3. request \in Book!Requests
  BY <1>1, NormalCardType DEF Book!Requests
<1>4. user[r] = None
  BY <1>2 DEF Fresh
<1>5. BookRequest[r] = None /\ BookRequest' = [BookRequest EXCEPT ![r] = request]
  BY <1>2, <1>4 DEF BookRequest, TypeOK
<1>6. UNCHANGED <<BookStatus, BookOwner, BookCharged>>
  BY <1>2 DEF BookStatus, BookOwner, BookCharged, Linked, tables
<1>7. BookAnswer' \in {BookAnswer, [BookAnswer EXCEPT ![r] = "error"]}
  <2>1. CASE pc' = [pc EXCEPT ![r] = "saveOrder"]
    <3>1. UNCHANGED BookAnswer
      BY <1>2, <2>1 DEF BookAnswer, TypeOK
    <3> QED BY <3>1
  <2>2. CASE pc' = [pc EXCEPT ![r] = "failed"]
    <3>1. BookAnswer' = [BookAnswer EXCEPT ![r] = "error"]
      BY <1>2, <2>2 DEF BookAnswer, TypeOK
    <3> QED BY <3>1
  <2> QED BY <1>2, <2>1, <2>2
<1> QED BY <1>3, <1>5, <1>6, <1>7 DEF Book!Ask, Book!MayFail

\* The first save records the order.
LEMMA BookSaveOrder ==
    ASSUME IInv, NEW r \in NewOrders, SaveOrder(r)
    PROVE  Book!Record(r)
<1> DEFINE entity == OrderEntity(None, None)
<1> USE NoneAssumption DEF IInv
<1>1. entity # None /\ entity.buyer = None /\ entity.status = "Submitted"
  BY EntityRow
<1>2. /\ pc[r] = "saveOrder" /\ orders[r] = None
      /\ orders' = [orders EXCEPT ![r] = entity]
      /\ pc' \in {pc, [pc EXCEPT ![r] = "readBuyer"], [pc EXCEPT ![r] = "failed"]}
      /\ UNCHANGED <<buyers, payments, user, card>>
  BY DEF SaveOrder, OrderAccepted, Acknowledged, Unacknowledged
<1> HIDE DEF entity
<1>3. BookRequest[r] # None /\ BookStatus[r] = None /\ BookAnswer[r] = "none"
  BY <1>2, AskedRecord DEF Received, BookStatus, BookAnswer
<1>4. BookStatus' = [BookStatus EXCEPT ![r] = "Submitted"]
  BY <1>1, <1>2 DEF BookStatus, TypeOK
<1>5. UNCHANGED <<BookRequest, BookOwner, BookCharged>>
  BY <1>1, <1>2 DEF BookRequest, BookOwner, BookCharged, Linked, TypeOK
<1>6. BookAnswer' \in {BookAnswer, [BookAnswer EXCEPT ![r] = "error"]}
  <2>1. pc \in [NewOrders -> InFlight \cup {"idle", "created", "failed", "lost"}] /\ pc[r] = "saveOrder"
    BY <1>2 DEF TypeOK
  <2>2. CASE pc' = pc
    BY <2>2 DEF BookAnswer
  <2>3. CASE pc' = [pc EXCEPT ![r] = "readBuyer"]
    <3>1. UNCHANGED BookAnswer
      BY ONLY <2>1, <2>3 DEF BookAnswer
    <3> QED BY <3>1
  <2>4. CASE pc' = [pc EXCEPT ![r] = "failed"]
    <3>1. BookAnswer' = [BookAnswer EXCEPT ![r] = "error"]
      BY ONLY <2>1, <2>4 DEF BookAnswer
    <3> QED BY <3>1
  <2> QED BY <1>2, <2>2, <2>3, <2>4
<1> QED BY <1>3, <1>4, <1>5, <1>6 DEF Book!Record, Book!MayFail

\* The second save inserts rows no order refers to yet.
LEMMA BookSaveBuyer ==
    ASSUME IInv, NEW r \in NewOrders, SaveBuyer(r)
    PROVE  Book!GiveUp(r) \/ UNCHANGED Book!vars
<1> USE NoneAssumption DEF IInv
<1>1. /\ pc[r] = "saveBuyer"
      /\ pc' \in {pc, [pc EXCEPT ![r] = "saveLink"], [pc EXCEPT ![r] = "failed"]}
      /\ UNCHANGED <<orders, user, card>>
  BY DEF SaveBuyer, Acknowledged, Unacknowledged
<1>2. /\ \A b \in NewOrders : buyers[b] # None => buyers'[b] = buyers[b]
      /\ \A p \in NewOrders : payments[p] # None => payments'[p] = payments[p]
  BY SaveBuyerKeepsRows
<1>3. UNCHANGED <<BookRequest, BookStatus>>
  BY <1>1 DEF BookRequest, BookStatus
<1>4. ASSUME NEW o \in NewOrders, Linked(o)
      PROVE  /\ buyers'[orders[o].buyer] = buyers[orders[o].buyer]
             /\ payments'[orders[o].payment] = payments[orders[o].payment]
  <2>1. /\ buyers[orders[o].buyer] = user[o]
        /\ orders[o].payment # None
        /\ payments[orders[o].payment] = Row(orders[o].buyer, card[o])
    BY <1>4 DEF LinkSound, Row
  <2>2. orders[o].buyer \in NewOrders /\ orders[o].payment \in NewOrders
    BY <1>4, <2>1 DEF TypeOK, Linked, OrderRows
  <2>3. user[o] \in Users /\ card[o] \in Cards
    BY <1>4 DEF LinkedLate, Received
  <2>4. Row(orders[o].buyer, card[o]) # None
    BY <2>2, <2>3, NormalCardType DEF Row, PaymentRows
  <2> QED BY <1>2, <2>1, <2>2, <2>3, <2>4
<1>5. UNCHANGED <<BookOwner, BookCharged>>
  BY <1>1, <1>4 DEF BookOwner, BookCharged, Linked
<1>6. CASE pc' \in {pc, [pc EXCEPT ![r] = "saveLink"]}
  <2>1. UNCHANGED BookAnswer
    BY <1>1, <1>6 DEF BookAnswer, TypeOK
  <2> QED BY <1>3, <1>5, <2>1 DEF Book!vars
<1>7. CASE pc' = [pc EXCEPT ![r] = "failed"]
  <2>1. BookRequest[r] # None /\ BookAnswer[r] = "none"
    BY <1>1, AskedRecord DEF Received, BookAnswer
  <2>2. BookAnswer' = [BookAnswer EXCEPT ![r] = "error"]
    BY <1>7 DEF BookAnswer, TypeOK
  <2> QED BY <1>3, <1>5, <2>1, <2>2 DEF Book!GiveUp
<1> QED BY <1>1, <1>6, <1>7

\* The third save places the order.
LEMMA BookSaveLink ==
    ASSUME IInv, NEW r \in NewOrders, SaveLink(r)
    PROVE  Book!Place(r)
<1> DEFINE entity == OrderEntity(buyerId[r], paymentId[r])
<1> USE NoneAssumption DEF IInv
<1>1. /\ pc[r] = "saveLink" /\ orders' = [orders EXCEPT ![r] = entity]
      /\ pc' \in {pc, [pc EXCEPT ![r] = "created"], [pc EXCEPT ![r] = "failed"]}
      /\ UNCHANGED <<buyers, payments, user, card>>
  BY DEF SaveLink, Acknowledged, Unacknowledged
<1>2. /\ buyerId[r] \in NewOrders /\ paymentId[r] \in NewOrders
      /\ buyers[buyerId[r]] = user[r]
      /\ payments[paymentId[r]].card = NormalCard(card[r])
  <2>1. /\ buyerId[r] \in NewOrders /\ paymentId[r] \in NewOrders
        /\ buyers[buyerId[r]] = user[r]
        /\ payments[paymentId[r]] = Row(buyerId[r], card[r])
    BY <1>1 DEF Saved
  <2>2. Row(buyerId[r], card[r]).card = NormalCard(card[r])
    BY DEF Row
  <2> QED BY <2>1, <2>2
<1>3. /\ entity # None /\ entity.status = "Submitted"
      /\ entity.buyer = buyerId[r] /\ entity.payment = paymentId[r]
  BY <1>2, EntityRow
<1> HIDE DEF entity
<1>4. /\ user[r] \in Users /\ card[r] \in Cards
      /\ orders[r] # None
  BY <1>1 DEF Received, Recorded
<1>5. /\ BookRequest[r].customer = user[r]
      /\ BookRequest[r].card = NormalCard(card[r])
  <2> DEFINE asked == [customer |-> user[r], card |-> NormalCard(card[r])]
  <2>1. BookRequest[r] = asked
    BY <1>4, AskedRecord
  <2>2. asked.customer = user[r] /\ asked.card = NormalCard(card[r])
    OBVIOUS
  <2> QED BY <2>1, <2>2
<1>6. BookStatus[r] # None /\ BookAnswer[r] = "none"
  BY <1>1, <1>4 DEF BookStatus, BookAnswer, TypeOK, OrderRows
<1>7. BookStatus' = [BookStatus EXCEPT ![r] = "Submitted"]
  BY <1>1, <1>3 DEF BookStatus, TypeOK
<1>8. /\ Linked(r)' /\ orders'[r].buyer = buyerId[r]
      /\ orders'[r].payment = paymentId[r]
      /\ \A o \in NewOrders : o # r => orders'[o] = orders[o]
  BY <1>1, <1>2, <1>3 DEF Linked, TypeOK
<1>9. BookOwner' = [BookOwner EXCEPT ![r] = user[r]]
  <2>1. BookOwner'[r] = user[r]
    BY <1>1, <1>2, <1>8 DEF BookOwner
  <2>2. \A o \in NewOrders : o # r => BookOwner'[o] = BookOwner[o]
    BY <1>1, <1>8 DEF BookOwner, Linked
  <2> QED BY <2>1, <2>2 DEF BookOwner
<1>10. BookCharged' = [BookCharged EXCEPT ![r] = NormalCard(card[r])]
  <2>1. BookCharged'[r] = NormalCard(card[r])
    BY <1>1, <1>2, <1>8 DEF BookCharged
  <2>2. \A o \in NewOrders : o # r => BookCharged'[o] = BookCharged[o]
    BY <1>1, <1>8 DEF BookCharged, Linked
  <2> QED BY <2>1, <2>2 DEF BookCharged
<1>11. BookAnswer' \in {BookAnswer, [BookAnswer EXCEPT ![r] = "created"],
                        [BookAnswer EXCEPT ![r] = "error"]}
  <2>1. CASE pc' = pc
    BY <2>1 DEF BookAnswer
  <2>2. CASE pc' = [pc EXCEPT ![r] = "created"]
    BY <2>2 DEF BookAnswer, TypeOK
  <2>3. CASE pc' = [pc EXCEPT ![r] = "failed"]
    BY <2>3 DEF BookAnswer, TypeOK
  <2> QED BY <1>1, <2>1, <2>2, <2>3
<1>12. UNCHANGED BookRequest
  BY <1>1 DEF BookRequest
<1> QED
  BY <1>5, <1>6, <1>7, <1>9, <1>10, <1>11, <1>12 DEF Book!Place, Book!MayFail

\* A status change changes the status, or writes the status that is there.
LEMMA BookSaveStatus ==
    ASSUME IInv, NEW c \in StatusChanges, SaveStatus(c)
    PROVE  Book!Change(target[c]) \/ UNCHANGED Book!vars
<1> DEFINE o   == target[c]
           row == Updated(orders[o], seen[c], goal[c])
<1> USE NoneAssumption DEF IInv
<1>1. /\ o \in NewOrders /\ orders[o] \in OrderRows /\ orders[o] # None
      /\ orders' = [orders EXCEPT ![o] = row]
      /\ row # None
      /\ row.buyer = orders[o].buyer /\ row.payment = orders[o].payment
      /\ row.status \in {orders[o].status, goal[c]}
      /\ goal[c] \in {"Shipped", "Cancelled"}
  BY SaveStatusRow
<1>2. UNCHANGED <<buyers, payments, pc, user, card>>
  BY DEF SaveStatus, newVars
<1> HIDE DEF o, row
<1>3. UNCHANGED <<BookRequest, BookAnswer>>
  BY <1>2 DEF BookRequest, BookAnswer
<1>4. UNCHANGED <<BookOwner, BookCharged>>
  BY <1>1, <1>2 DEF BookOwner, BookCharged, Linked, TypeOK
<1>5. BookStatus[o] # None /\ BookStatus' = [BookStatus EXCEPT ![o] = row.status]
  BY <1>1 DEF BookStatus, TypeOK, OrderRows
<1>6. CASE row.status = orders[o].status
  <2>1. UNCHANGED BookStatus
    BY <1>1, <1>5, <1>6 DEF BookStatus
  <2> QED BY <1>3, <1>4, <2>1 DEF Book!vars
<1>7. CASE row.status = goal[c]
  BY <1>1, <1>3, <1>4, <1>5, <1>7 DEF Book!Change, o
<1> QED BY <1>1, <1>6, <1>7

\* Every step of Ordering is a step of the book or a stuttering one.
LEMMA BookStep == IInv /\ [Next]_vars => [Book!Next]_(Book!vars)
<1> SUFFICES ASSUME IInv, [Next]_vars PROVE [Book!Next]_(Book!vars)
  OBVIOUS
<1>1. ASSUME NEW r \in NewOrders,
             \E u \in Users, t \in SentTypes, n \in CardNumbers, f \in SentFlaws :
                Receive(r, u, [type |-> t, number |-> n], f)
      PROVE  Book!Next
  BY <1>1, BookReceive DEF Book!Next
<1>2. ASSUME NEW r \in NewOrders, SaveOrder(r)
      PROVE  Book!Next
  BY <1>2, BookSaveOrder DEF Book!Next
<1>3. ASSUME NEW r \in NewOrders, SaveBuyer(r)
      PROVE  Book!Next \/ UNCHANGED Book!vars
  BY <1>3, BookSaveBuyer DEF Book!Next
<1>4. ASSUME NEW r \in NewOrders, SaveLink(r)
      PROVE  Book!Next
  BY <1>4, BookSaveLink DEF Book!Next
<1>5. ASSUME NEW r \in NewOrders,
             \/ OrderRefused(r) \/ BuyerRefused(r)
             \/ ConnectionLost(r) \/ Crash(r)
      PROVE  Book!Next \/ UNCHANGED Book!vars
  <2>1. Book!GiveUp(r) \/ UNCHANGED Book!vars
    BY <1>5, BookStop
    DEF OrderRefused, BuyerRefused, ConnectionLost, Crash, Refused,
        Unacknowledged, InFlight
  <2> QED BY <2>1 DEF Book!Next
<1>6. ASSUME NEW r \in NewOrders, ReadBuyer(r)
      PROVE  Book!Next \/ UNCHANGED Book!vars
  <2>1. /\ pc[r] = "readBuyer" /\ UNCHANGED <<tables, user, card>>
        /\ pc' \in {[pc EXCEPT ![r] = "failed"], [pc EXCEPT ![r] = "saveBuyer"]}
    BY <1>6 DEF ReadBuyer, Refused, Acknowledged
  <2>2. CASE pc' = [pc EXCEPT ![r] = "failed"]
    BY <2>1, <2>2, BookStop DEF InFlight, Book!Next
  <2>3. CASE pc' = [pc EXCEPT ![r] = "saveBuyer"]
    BY <2>1, <2>3
    DEF Book!vars, BookRequest, BookStatus, BookOwner, BookCharged, BookAnswer,
        Linked, tables, IInv, TypeOK
  <2> QED BY <2>1, <2>2, <2>3
<1>7. ASSUME NEW c \in StatusChanges, SaveStatus(c)
      PROVE  Book!Next \/ UNCHANGED Book!vars
  <2>1. target[c] \in NewOrders
    BY <1>7, SaveStatusRow
  <2> QED BY <1>7, <2>1, BookSaveStatus DEF Book!Next
<1>8. CASE UNCHANGED <<orders, buyers, payments, user, card, pc>>
  BY <1>8 DEF Book!vars, BookRequest, BookStatus, BookOwner, BookCharged,
              BookAnswer, Linked
<1> QED
  BY <1>1, <1>2, <1>3, <1>4, <1>5, <1>6, <1>7, <1>8
  DEF Next, Prepare, NewOrderAsync, ChangeStatusAsync, ReceiveStatus, Find,
      FindRefused, StatusConnectionLost, StatusCrash, vars, newVars, tables

\* Three saves per request and column-wise status updates, interleaved, retried
\* and interrupted at any point, implement the book of orders.
THEOREM OrderingImplementsBook == Spec => BookSpec
BY BookInit, BookStep, Invariant, PTL DEF Spec, BookSpec, Book!Spec
=============================================================================

--------------------------- MODULE PurchaseProofs ---------------------------
(***************************************************************************)
(* That Purchase keeps OrderedOnce and BoughtLeavesBasket, for every set   *)
(* of customers, additions, pages and posts.                               *)
(***************************************************************************)
EXTENDS Purchase, TLAPS

Busy(a)    == apc[a] \in {"read", "write"}
Settled(a) == apc[a] \in {"ok", "error"}
InPost(q)  == ppc[q] \in {"delete", "create", "wait"}
Careful(c) == c \in Customers \ disturbed

\* The checkout of the basket has succeeded for this post.
Spent(q) == ppc[q] \in {"create", "wait", "done"} \/ request[q] # None

BookOK ==
    /\ request \in [Posts -> Book!Requests \cup {None}]
    /\ DOMAIN status = Posts /\ DOMAIN owner = Posts /\ DOMAIN charged = Posts
    /\ DOMAIN answer = Posts

\* Units in baskets, copies and pages are those of their customer.
Owned ==
    /\ \A a \in Adds : apc[a] # "idle" => adder[a] \in Customers
    /\ \A c \in Customers : \A x \in Units(c) : adder[x] = c /\ Settled(x)
    /\ \A f \in Pages : page[f] # None =>
          \A x \in page[f].units : adder[x] = page[f].customer /\ Settled(x)
    /\ \A a \in Adds : apc[a] = "write" =>
          \A x \in copy[a] : x = a \/ (adder[x] = adder[a] /\ Settled(x))

\* A careful customer who adds does nothing else, and overwrites nothing.
AddsAlone ==
    /\ \A a, b \in Adds : Busy(a) /\ Busy(b) /\ Careful(adder[a]) /\ adder[a] = adder[b] => a = b
    /\ \A a \in Adds : Busy(a) /\ Careful(adder[a]) =>
          ~Posting(adder[a]) /\ ~OpenPageOf(adder[a])
    /\ \A a \in Adds : apc[a] = "write" /\ Careful(adder[a]) =>
          copy[a] = Units(adder[a]) \cup {a}

\* The one open page of a careful customer shows the basket, as long as it is
\* there.
OnePage ==
    /\ \A f, g \in Pages : /\ Open(f) /\ Open(g) /\ Careful(page[f].customer)
                           /\ page[f].customer = page[g].customer
                           => f = g
    /\ \A f \in Pages : Open(f) /\ Careful(page[f].customer) =>
          baskets[page[f].customer] \in {page[f].units, None}

\* A page is posted again only after an error or without an answer, and what was
\* asked for is neither in the basket nor on another page.
PostedOnce ==
    /\ \A q \in Posts : InPost(q) /\ Careful(Buyer(q)) => Open(sheet[q])
    /\ \A q, p \in Posts :
          /\ q # p /\ ppc[q] # "idle" /\ ppc[p] # "idle" /\ sheet[q] = sheet[p]
          /\ Careful(Buyer(q))
          => {ppc[q], ppc[p]} \cap {"error", "lost"} # {}
    /\ \A q \in Posts : Spent(q) /\ Careful(Buyer(q)) =>
          /\ Ordered(q) \cap Units(Buyer(q)) = {}
          /\ \A g \in Pages :
                page[g] # None /\ g # sheet[q] /\ page[g].customer = Buyer(q)
                => page[g].units \cap Ordered(q) = {}

\* What the order service knows.
Booked ==
    \A q \in Posts :
        /\ Recorded(q) => request[q] # None
        /\ Listed(q) => Recorded(q) /\ owner[q] = Buyer(q)
        /\ answer[q] = "created" => Listed(q)
        /\ ppc[q] = "done" => answer[q] = "created"

IInv == /\ TypeOK /\ BookOK /\ Owned /\ AddsAlone /\ OnePage /\ PostedOnce /\ Booked
        /\ NothingLost

-----------------------------------------------------------------------------
LEMMA InitIInv == Init => IInv
<1> SUFFICES ASSUME Init PROVE IInv
  OBVIOUS
<1> USE NullAssumption DEF Init, Book!Init
<1>1. TypeOK
  BY DEF TypeOK
<1>2. BookOK /\ Booked
  BY DEF BookOK, Booked, Recorded, Listed
<1>3. Owned
  BY DEF Owned, Units
<1>4. AddsAlone /\ OnePage /\ PostedOnce
  BY DEF AddsAlone, OnePage, PostedOnce, Busy, Open, InPost, Spent
<1>5. NothingLost
  BY DEF NothingLost
<1> QED BY <1>1, <1>2, <1>3, <1>4, <1>5 DEF IInv

\* Nobody who was disturbed is careful again.
LEMMA CarefulBefore ==
    ASSUME disturbed \subseteq disturbed', NEW c, Careful(c)'
    PROVE  Careful(c)
BY DEF Careful

-----------------------------------------------------------------------------
(* AddToCart.                                                              *)

LEMMA AddToCartKeeps ==
    ASSUME IInv, NEW a \in Adds, NEW c \in Customers, AddToCart(a, c)
    PROVE  IInv'
<1> USE DEF IInv
<1>1. /\ apc[a] = "idle" /\ apc' = [apc EXCEPT ![a] = "read"]
      /\ adder' = [adder EXCEPT ![a] = c]
      /\ UNCHANGED <<baskets, copy, page, ppc, sheet, bookVars>>
      /\ disturbed' \in {disturbed, disturbed \cup {c}}
      /\ c \notin disturbed' => ~Adding(c) /\ ~Posting(c) /\ ~OpenPageOf(c)
  BY DEF AddToCart, Begin
<1>2. /\ apc'[a] = "read" /\ adder'[a] = c
      /\ \A b \in Adds \ {a} : apc'[b] = apc[b] /\ adder'[b] = adder[b]
  BY <1>1 DEF TypeOK
<1>3. \A d : Careful(d)' => Careful(d)
  BY <1>1 DEF Careful
<1>4. /\ \A f : Open(f)' <=> Open(f)
      /\ \A d : Posting(d)' <=> Posting(d)
      /\ \A d : OpenPageOf(d)' <=> OpenPageOf(d)
      /\ \A d : Units(d)' = Units(d)
      /\ \A q : Buyer(q)' = Buyer(q) /\ Ordered(q)' = Ordered(q)
      /\ \A q : (Spent(q)' <=> Spent(q)) /\ (InPost(q)' <=> InPost(q))
      /\ \A q : (Recorded(q)' <=> Recorded(q)) /\ (Listed(q)' <=> Listed(q))
  BY <1>1 DEF Open, Posting, OpenPageOf, Units, Buyer, Ordered, Spent, InPost, Recorded, Listed,
              bookVars
<1>5. TypeOK'
  BY <1>1, <1>4 DEF TypeOK, bookVars
<1>6. BookOK' /\ Booked'
  BY <1>1, <1>4 DEF BookOK, Booked, bookVars
<1>7. Owned'
  BY <1>1, <1>2, <1>4 DEF Owned, Settled
<1>8. AddsAlone'
  <2>1. \A b \in Adds \ {a} : Busy(b)' <=> Busy(b)
    BY <1>2 DEF Busy
  <2>2. ASSUME NEW b \in Adds \ {a}, Busy(b), adder[b] = c PROVE ~Careful(c)'
    BY <1>1, <2>2 DEF Adding, Busy, Careful
  <2>3. ASSUME NEW b \in Adds, NEW d \in Adds, Busy(b)', Busy(d)', Careful(adder[b])',
               adder'[b] = adder'[d]
        PROVE  b = d
    BY <1>2, <1>3, <2>1, <2>2, <2>3 DEF AddsAlone
  <2>4. ASSUME NEW b \in Adds, Busy(b)', Careful(adder[b])'
        PROVE  ~Posting(adder[b])' /\ ~OpenPageOf(adder[b])'
    <3>1. CASE b = a
      BY <1>1, <1>2, <1>4, <2>4, <3>1 DEF Careful
    <3>2. CASE b # a
      BY <1>2, <1>3, <1>4, <2>1, <2>4, <3>2 DEF AddsAlone
    <3> QED BY <3>1, <3>2
  <2>5. ASSUME NEW b \in Adds, apc'[b] = "write", Careful(adder[b])'
        PROVE  copy'[b] = Units(adder[b])' \cup {b}
    BY <1>1, <1>2, <1>3, <1>4, <2>5 DEF AddsAlone
  <2> QED BY <2>3, <2>4, <2>5 DEF AddsAlone
<1>9. OnePage' /\ PostedOnce'
  BY <1>1, <1>3, <1>4 DEF OnePage, PostedOnce
<1>10. NothingLost'
  BY <1>1, <1>2, <1>4 DEF NothingLost, bookVars
<1> QED BY <1>5, <1>6, <1>7, <1>8, <1>9, <1>10

LEMMA AddReadKeeps ==
    ASSUME IInv, NEW a \in Adds, AddRead(a)
    PROVE  IInv'
<1> USE DEF IInv
<1> DEFINE c == adder[a]
<1>1. /\ apc[a] = "read" /\ apc' = [apc EXCEPT ![a] = "write"]
      /\ \/ copy' = [copy EXCEPT ![a] = Units(c) \cup {a}] /\ disturbed' = disturbed
         \/ copy' = [copy EXCEPT ![a] = {a}] /\ disturbed' \in {disturbed, disturbed \cup {c}}
            /\ c \in disturbed'
      /\ UNCHANGED <<baskets, adder, page, ppc, sheet, bookVars>>
  BY DEF AddRead, Begin
<1>2. /\ apc'[a] = "write" /\ copy'[a] \in {Units(c) \cup {a}, {a}}
      /\ c \in disturbed' \/ copy'[a] = Units(c) \cup {a}
      /\ \A b \in Adds \ {a} : apc'[b] = apc[b] /\ copy'[b] = copy[b]
      /\ copy' \in [Adds -> SUBSET Adds] /\ c \in Customers
      /\ disturbed \subseteq disturbed' /\ disturbed' \subseteq Customers
  BY <1>1 DEF TypeOK, Owned, Units
<1>3. \A d : Careful(d)' => Careful(d)
  BY <1>2 DEF Careful
<1>4. /\ \A f : Open(f)' <=> Open(f)
      /\ \A d : Posting(d)' <=> Posting(d)
      /\ \A d : OpenPageOf(d)' <=> OpenPageOf(d)
      /\ \A d : Units(d)' = Units(d)
      /\ \A q : Buyer(q)' = Buyer(q) /\ Ordered(q)' = Ordered(q)
      /\ \A q : (Spent(q)' <=> Spent(q)) /\ (InPost(q)' <=> InPost(q))
      /\ \A q : (Recorded(q)' <=> Recorded(q)) /\ (Listed(q)' <=> Listed(q))
  BY <1>1 DEF Open, Posting, OpenPageOf, Units, Buyer, Ordered, Spent, InPost, Recorded, Listed,
              bookVars
<1>5. TypeOK'
  BY <1>1, <1>2, <1>4 DEF TypeOK, bookVars
<1>6. BookOK' /\ Booked'
  BY <1>1, <1>4 DEF BookOK, Booked, bookVars
<1>7. Owned'
  BY <1>1, <1>2, <1>4 DEF Owned, Settled
<1>8. AddsAlone'
  <2>1. \A b \in Adds : Busy(b)' <=> Busy(b)
    BY <1>1, <1>2 DEF Busy
  <2>2. ASSUME NEW b \in Adds, apc'[b] = "write", Careful(adder[b])'
        PROVE  copy'[b] = Units(adder[b])' \cup {b}
    <3>1. CASE b = a
      BY <1>1, <1>2, <1>4, <2>2, <3>1 DEF Careful
    <3>2. CASE b # a
      BY <1>1, <1>2, <1>3, <1>4, <2>2, <3>2 DEF AddsAlone
    <3> QED BY <3>1, <3>2
  <2> QED BY <1>1, <1>3, <1>4, <2>1, <2>2 DEF AddsAlone
<1>9. OnePage' /\ PostedOnce'
  BY <1>1, <1>3, <1>4 DEF OnePage, PostedOnce
<1>10. NothingLost'
  BY <1>1, <1>2, <1>4 DEF NothingLost, bookVars
<1> QED BY <1>5, <1>6, <1>7, <1>8, <1>9, <1>10

\* AddWrite and AddFails: the request ends, and may have written its copy.
LEMMA AddEndsKeeps ==
    ASSUME IInv, NEW a \in Adds, AddWrite(a) \/ AddFails(a)
    PROVE  IInv'
<1> USE DEF IInv
<1>0. PICK c \in Customers : c = adder[a]
  BY DEF AddWrite, AddFails, Owned
<1>1. /\ apc[a] \in {"read", "write"}
      /\ \/ apc' = [apc EXCEPT ![a] = "ok"] /\ apc[a] = "write"
         \/ apc' = [apc EXCEPT ![a] = "error"]
      /\ \/ apc[a] = "write" /\ baskets' = [baskets EXCEPT ![c] = copy[a]]
         \/ baskets' = baskets
      /\ disturbed' \in {disturbed, disturbed \cup {c}}
      /\ UNCHANGED <<adder, copy, page, ppc, sheet, bookVars>>
  BY <1>0 DEF AddWrite, AddFails, Begin
<1>2. /\ apc'[a] \in {"ok", "error"} /\ c \in Customers
      /\ \A b \in Adds \ {a} : apc'[b] = apc[b]
      /\ \A d \in Customers \ {c} : baskets'[d] = baskets[d]
      /\ baskets'[c] = baskets[c] \/ (apc[a] = "write" /\ baskets'[c] = copy[a])
      /\ apc'[a] = "ok" => c \in disturbed' \/ (apc[a] = "write" /\ baskets'[c] = copy[a])
  BY <1>0, <1>1 DEF TypeOK, AddWrite, AddFails, Begin
<1>3. \A d : Careful(d)' => Careful(d)
  BY <1>1 DEF Careful
<1>4. /\ \A f : Open(f)' <=> Open(f)
      /\ \A d : Posting(d)' <=> Posting(d)
      /\ \A d : OpenPageOf(d)' <=> OpenPageOf(d)
      /\ \A q : Buyer(q)' = Buyer(q) /\ Ordered(q)' = Ordered(q)
      /\ \A q : (Spent(q)' <=> Spent(q)) /\ (InPost(q)' <=> InPost(q))
      /\ \A q : (Recorded(q)' <=> Recorded(q)) /\ (Listed(q)' <=> Listed(q))
  BY <1>1 DEF Open, Posting, OpenPageOf, Buyer, Ordered, Spent, InPost, Recorded, Listed, bookVars
<1>5. /\ \A d \in Customers \ {c} : Units(d)' = Units(d)
      /\ Units(c)' = Units(c) \/ (apc[a] = "write" /\ Units(c)' = copy[a])
      /\ apc'[a] = "ok" => c \in disturbed' \/ Units(c)' = copy[a]
      /\ Careful(c)' /\ apc[a] = "write" => copy[a] = Units(c) \cup {a}
      /\ Careful(c)' => Units(c) \subseteq Units(c)' /\ Units(c)' \subseteq Units(c) \cup {a}
  <2>1. copy[a] # None
    BY NullAssumption DEF TypeOK
  <2>2. \A d \in Customers \ {c} : Units(d)' = Units(d)
    BY <1>2 DEF Units
  <2>3. Units(c)' = Units(c) \/ (apc[a] = "write" /\ Units(c)' = copy[a])
    BY <1>2, <2>1 DEF Units
  <2>4. apc'[a] = "ok" => c \in disturbed' \/ Units(c)' = copy[a]
    BY <1>2, <2>1 DEF Units
  <2>5. Careful(c)' /\ apc[a] = "write" => copy[a] = Units(c) \cup {a}
    BY <1>0, <1>2, <1>3 DEF AddsAlone
  <2> QED BY <2>2, <2>3, <2>4, <2>5
<1>6. TypeOK'
  BY <1>1, <1>2, <1>4 DEF TypeOK, bookVars
<1>7. BookOK' /\ Booked'
  BY <1>1, <1>4 DEF BookOK, Booked, bookVars
<1>8. Owned'
  <2>1. \A x \in Adds : Settled(x) => Settled(x)'
    BY <1>1, <1>2 DEF Settled
  <2>2. Settled(a)'
    BY <1>2 DEF Settled
  <2>3. ASSUME NEW d \in Customers, NEW x \in Units(d)' PROVE adder[x] = d /\ Settled(x)'
    <3>1. CASE x \in Units(d)
      BY <2>1, <3>1 DEF Owned, Settled, Units, TypeOK
    <3>2. CASE d = c /\ x \in copy[a] /\ apc[a] = "write"
      BY <1>0, <2>1, <2>2, <3>2 DEF Owned, TypeOK
    <3> QED BY <2>3, <1>5, <3>1, <3>2
  <2>4. ASSUME NEW f \in Pages, page[f] # None, NEW x \in page[f].units
        PROVE  adder[x] = page[f].customer /\ Settled(x)'
    BY <2>1, <2>4 DEF Owned, TypeOK
  <2>5. ASSUME NEW b \in Adds, apc'[b] = "write", NEW x \in copy[b]
        PROVE  x = b \/ (adder[x] = adder[b] /\ Settled(x)')
    BY <1>1, <1>2, <2>1, <2>5 DEF Owned, TypeOK
  <2>6. \A b \in Adds : apc'[b] # "idle" => adder[b] \in Customers
    BY <1>1, <1>2 DEF Owned
  <2> QED BY <1>1, <2>3, <2>4, <2>5, <2>6 DEF Owned
<1>9. AddsAlone'
  <2>1. \A b \in Adds : Busy(b)' => Busy(b) /\ b # a
    BY <1>1, <1>2 DEF Busy
  <2>2. ASSUME NEW b \in Adds, apc'[b] = "write", Careful(adder[b])'
        PROVE  copy[b] = Units(adder[b])' \cup {b}
    <3>1. b # a /\ Busy(b) /\ Busy(a) /\ apc[b] = "write"
      BY <1>1, <1>2, <2>2 DEF Busy
    <3>2. adder[b] # c
      BY <1>0, <1>1, <1>3, <2>2, <3>1 DEF AddsAlone
    <3>3. Units(adder[b])' = Units(adder[b])
      BY <1>1, <1>5, <2>2, <3>1, <3>2 DEF Owned, Careful
    <3> QED BY <1>1, <1>3, <2>2, <3>1, <3>3 DEF AddsAlone
  <2> QED BY <1>1, <1>3, <1>4, <2>1, <2>2 DEF AddsAlone
<1>10. OnePage'
  <2>1. ASSUME NEW f \in Pages, Open(f), Careful(page[f].customer)'
        PROVE  baskets'[page[f].customer] \in {page[f].units, None}
    <3>1. page[f].customer # c
      <4>1. Careful(page[f].customer) /\ OpenPageOf(page[f].customer)
        BY <1>1, <1>3, <2>1 DEF OpenPageOf
      <4>2. Busy(a)
        BY <1>1 DEF Busy
      <4> QED BY <1>0, <4>1, <4>2 DEF AddsAlone
    <3>2. Careful(page[f].customer) /\ page[f].customer \in Customers
      BY <1>1, <1>3, <2>1 DEF Careful
    <3>3. baskets'[page[f].customer] = baskets[page[f].customer]
      BY <1>2, <3>1, <3>2
    <3> QED BY <2>1, <3>2, <3>3 DEF OnePage
  <2> QED BY <1>1, <1>3, <1>4, <2>1 DEF OnePage
<1>11. PostedOnce'
  <2>1. ASSUME NEW q \in Posts, Spent(q), Careful(Buyer(q))'
        PROVE  Ordered(q) \cap Units(Buyer(q))' = {}
    <3>1. Ordered(q) \cap Units(Buyer(q)) = {} /\ Buyer(q) \in Customers
      BY <1>1, <1>3, <1>4, <2>1 DEF PostedOnce, Careful
    <3>2. a \notin Ordered(q)
      BY <1>1, <2>1 DEF Owned, Ordered, Spent, TypeOK, Settled
    <3>3. Units(Buyer(q))' = IF Buyer(q) = c THEN Units(c)' ELSE Units(Buyer(q))
      BY <1>1, <1>4, <1>5, <3>1
    <3> QED BY <1>4, <1>5, <2>1, <3>1, <3>2, <3>3
  <2> QED BY <1>1, <1>3, <1>4, <2>1 DEF PostedOnce
<1>12. NothingLost'
  <2> SUFFICES ASSUME NEW x \in Adds, apc'[x] = "ok", adder[x] \notin disturbed'
               PROVE  \/ x \in Units(adder[x])'
                      \/ \E f \in Pages : Open(f) /\ page[f].customer = adder[x] /\ x \in page[f].units
                      \/ \E q \in Posts : Listed(q) /\ owner[q] = adder[x] /\ x \in Ordered(q)
    BY <1>1, <1>4 DEF NothingLost, bookVars
  <2>1. Careful(adder[x])' /\ adder[x] \in Customers
    BY <1>1, <1>2 DEF Careful, Owned
  <2>2. CASE x = a
    BY <1>0, <1>1, <1>2, <1>5, <2>1, <2>2 DEF Careful
  <2>3. CASE x # a
    <3>1. apc[x] = "ok" /\ adder[x] \notin disturbed
      BY <1>1, <1>2, <2>3
    <3>2. x \in Units(adder[x]) => x \in Units(adder[x])'
      BY <1>1, <1>5, <2>1
    <3> QED BY <3>1, <3>2 DEF NothingLost
  <2> QED BY <2>2, <2>3
<1> QED BY <1>6, <1>7, <1>8, <1>9, <1>10, <1>11, <1>12

-----------------------------------------------------------------------------
(* The order page.                                                         *)

\* What a post that was made says of its page.
LEMMA PostHasPage ==
    ASSUME IInv, NEW q \in Posts
    PROVE  /\ ppc[q] # "idle" => /\ sheet[q] \in Pages /\ page[sheet[q]] # None
                                 /\ Buyer(q) \in Customers /\ Ordered(q) \in SUBSET Adds
           /\ request[q] # None \/ Spent(q) \/ Recorded(q) \/ Listed(q) => ppc[q] # "idle"
<1>1. ppc[q] # "idle" => sheet[q] \in Pages /\ page[sheet[q]] # None
  BY DEF IInv, TypeOK
<1>2. ppc[q] # "idle" => page[sheet[q]] \in [customer : Customers, units : SUBSET Adds]
  BY <1>1 DEF IInv, TypeOK
<1>3. request[q] # None => ppc[q] # "idle"
  BY DEF IInv, TypeOK
<1> QED BY <1>1, <1>2, <1>3 DEF IInv, Booked, Spent, Buyer, Ordered

LEMMA CreateKeeps ==
    ASSUME IInv, NEW f \in Pages, NEW c \in Customers, Create(f, c)
    PROVE  IInv'
<1> USE DEF IInv
<1>1. /\ page[f] = None /\ baskets[c] # None
      /\ page' = [page EXCEPT ![f] = [customer |-> c, units |-> baskets[c]]]
      /\ UNCHANGED <<baskets, apc, adder, copy, ppc, sheet, bookVars>>
      /\ disturbed' \in {disturbed, disturbed \cup {c}}
      /\ c \notin disturbed' => ~Adding(c) /\ ~Posting(c) /\ ~OpenPageOf(c)
  BY DEF Create, Begin, basketVars
<1>2. /\ page'[f] = [customer |-> c, units |-> Units(c)]
      /\ page'[f].customer = c /\ page'[f].units = Units(c) /\ page'[f] # None
      /\ baskets[c] = Units(c) /\ Units(c) \in SUBSET Adds
      /\ page' \in [Pages -> {None} \cup [customer : Customers, units : SUBSET Adds]]
      /\ \A g \in Pages \ {f} : page'[g] = page[g]
  <2>1. baskets[c] = Units(c) /\ Units(c) \in SUBSET Adds
    BY <1>1 DEF TypeOK, Units
  <2>2. page'[f] = [customer |-> c, units |-> Units(c)]
    BY <1>1, <2>1 DEF TypeOK
  <2>3. /\ page' \in [Pages -> {None} \cup [customer : Customers, units : SUBSET Adds]]
        /\ \A g \in Pages \ {f} : page'[g] = page[g]
    BY <1>1, <2>1 DEF TypeOK
  <2>4. page'[f].customer = c /\ page'[f].units = Units(c)
    BY <2>2
  <2>5. page'[f] # None
    BY <2>1, <2>2, NullAssumption
  <2> QED BY <2>1, <2>2, <2>3, <2>4, <2>5
<1>3. \A d : Careful(d)' => Careful(d)
  BY <1>1 DEF Careful
<1>4. /\ \A d : Units(d)' = Units(d)
      /\ \A q : (Spent(q)' <=> Spent(q)) /\ (InPost(q)' <=> InPost(q))
      /\ \A q : (Recorded(q)' <=> Recorded(q)) /\ (Listed(q)' <=> Listed(q))
      /\ \A b : (Busy(b)' <=> Busy(b)) /\ (Settled(b)' <=> Settled(b))
  BY <1>1 DEF Units, Spent, InPost, Recorded, Listed, Busy, Settled, bookVars
<1>5. \A q \in Posts : ppc[q] # "idle" =>
         /\ sheet[q] \in Pages /\ sheet[q] # f /\ page'[sheet[q]] # None
         /\ Buyer(q)' = Buyer(q) /\ Ordered(q)' = Ordered(q)
  BY <1>1, <1>2, PostHasPage DEF Buyer, Ordered
<1>6. \A g \in Pages : Open(g)' <=> (g = f \/ Open(g))
  <2>1. Open(f)'
    BY <1>1, <1>2, <1>5 DEF Open
  <2>2. \A g \in Pages \ {f} : Open(g)' <=> Open(g)
    BY <1>1, <1>2 DEF Open
  <2> QED BY <2>1, <2>2
<1>7. /\ \A d : Posting(d)' <=> Posting(d)
      /\ \A d : OpenPageOf(d)' => OpenPageOf(d) \/ d = c
  <2>1. \A d : Posting(d)' <=> Posting(d)
    BY <1>1, <1>5 DEF Posting
  <2>2. \A d : OpenPageOf(d)' => OpenPageOf(d) \/ d = c
    BY <1>2, <1>6 DEF OpenPageOf
  <2> QED BY <2>1, <2>2
<1>8. TypeOK'
  <2>1. \A g \in Pages : page'[g] # None => page'[g].units # None
    BY <1>1, <1>2 DEF TypeOK
  <2>2. \A q \in Posts : ppc[q] # "idle" => sheet[q] # None /\ page'[sheet[q]] # None
    BY <1>5 DEF TypeOK
  <2>3. \A q \in Posts : request[q] # None =>
           ppc[q] \in {"wait", "done", "error", "lost"} /\ request[q].customer = Buyer(q)'
    BY <1>5, PostHasPage DEF TypeOK
  <2>4. disturbed' \subseteq Customers
    BY <1>1 DEF TypeOK
  <2> QED BY <1>1, <1>2, <2>1, <2>2, <2>3, <2>4 DEF TypeOK, bookVars
<1>9. BookOK' /\ Booked'
  <2>1. BookOK'
    BY <1>1 DEF BookOK, bookVars
  <2>2. \A q \in Posts : Listed(q) => Buyer(q)' = Buyer(q)
    BY <1>5, PostHasPage
  <2> QED BY <1>1, <1>4, <2>1, <2>2 DEF Booked, bookVars
<1>10. Owned'
  <2>1. \A g \in Pages : page'[g] # None =>
           \A x \in page'[g].units : adder[x] = page'[g].customer /\ Settled(x)
    BY <1>2 DEF Owned
  <2> QED BY <1>1, <1>4, <2>1 DEF Owned
<1>11. AddsAlone'
  <2>1. ASSUME NEW b \in Adds, Busy(b), Careful(adder[b])'
        PROVE  ~Posting(adder[b])' /\ ~OpenPageOf(adder[b])'
    <3>1. adder[b] # c
      BY <1>1, <2>1 DEF Adding, Busy, Careful
    <3> QED BY <1>1, <1>3, <1>7, <2>1, <3>1 DEF AddsAlone
  <2> QED BY <1>1, <1>3, <1>4, <2>1 DEF AddsAlone
<1>12. OnePage'
  <2>1. ASSUME NEW g \in Pages, Open(g)', Careful(page[g].customer)', g # f
        PROVE  Open(g) /\ page'[g] = page[g] /\ page[g].customer # c /\ Careful(page[g].customer)
    <3>1. Open(g) /\ page'[g] = page[g] /\ Careful(page[g].customer)
      BY <1>2, <1>3, <1>6, <2>1
    <3>2. page[g].customer # c
      BY <1>1, <2>1, <3>1 DEF OpenPageOf, Careful
    <3> QED BY <3>1, <3>2
  <2>2. ASSUME NEW g \in Pages, NEW h \in Pages, Open(g)', Open(h)', g # h,
               Careful(page[g].customer)', page'[g].customer = page'[h].customer
        PROVE  FALSE
    BY <1>2, <2>1, <2>2 DEF OnePage
  <2>3. ASSUME NEW g \in Pages, Open(g)', Careful(page[g].customer)'
        PROVE  baskets'[page'[g].customer] \in {page'[g].units, None}
    BY <1>1, <1>2, <2>1, <2>3 DEF OnePage
  <2> QED BY <2>2, <2>3 DEF OnePage
<1>13. PostedOnce'
  <2>1. ASSUME NEW q \in Posts, InPost(q)', Careful(Buyer(q))' PROVE Open(sheet[q])'
    BY <1>1, <1>3, <1>4, <1>5, <1>6, <2>1 DEF PostedOnce, InPost
  <2>2. ASSUME NEW q \in Posts, NEW p \in Posts, q # p, ppc[q] # "idle", ppc[p] # "idle",
               sheet[q] = sheet[p], Careful(Buyer(q))'
        PROVE  {ppc[q], ppc[p]} \cap {"error", "lost"} # {}
    BY <1>3, <1>5, <2>2 DEF PostedOnce
  <2>3. ASSUME NEW q \in Posts, Spent(q), Careful(Buyer(q))'
        PROVE  /\ Ordered(q)' \cap Units(Buyer(q))' = {}
               /\ \A g \in Pages : page'[g] # None /\ g # sheet[q] /\ page'[g].customer = Buyer(q)'
                                   => page'[g].units \cap Ordered(q)' = {}
    <3>1. /\ Buyer(q)' = Buyer(q) /\ Ordered(q)' = Ordered(q) /\ Careful(Buyer(q))
          /\ Ordered(q) \cap Units(Buyer(q)) = {}
      BY <1>3, <1>5, <2>3, PostHasPage DEF PostedOnce
    <3>2. ASSUME NEW g \in Pages, page'[g] # None, g # sheet[q], page'[g].customer = Buyer(q)
          PROVE  page'[g].units \cap Ordered(q) = {}
      <4>1. CASE g = f
        BY <1>2, <3>1, <3>2, <4>1
      <4>2. CASE g # f
        BY <1>2, <2>3, <3>1, <3>2, <4>2 DEF PostedOnce
      <4> QED BY <4>1, <4>2
    <3> QED BY <1>4, <3>1, <3>2
  <2> QED BY <1>1, <1>4, <2>1, <2>2, <2>3 DEF PostedOnce
<1>14. NothingLost'
  <2> SUFFICES ASSUME NEW x \in Adds, apc[x] = "ok", adder[x] \notin disturbed'
               PROVE  \/ x \in Units(adder[x])
                      \/ \E g \in Pages : Open(g)' /\ page'[g].customer = adder[x] /\ x \in page'[g].units
                      \/ \E q \in Posts : Listed(q) /\ owner[q] = adder[x] /\ x \in Ordered(q)'
    BY <1>1, <1>4 DEF NothingLost, bookVars
  <2>1. adder[x] \notin disturbed
    BY <1>1
  <2>2. \A g \in Pages : Open(g) => Open(g)' /\ page'[g] = page[g]
    BY <1>1, <1>2, <1>6 DEF Open
  <2>3. \A q \in Posts : Listed(q) => Ordered(q)' = Ordered(q)
    BY <1>5, PostHasPage
  <2> QED BY <2>1, <2>2, <2>3 DEF NothingLost
<1> QED BY <1>8, <1>9, <1>10, <1>11, <1>12, <1>13, <1>14

LEMMA CheckoutKeeps ==
    ASSUME IInv, NEW r \in Posts, NEW f \in Pages, Checkout(r, f)
    PROVE  IInv'
<1> USE DEF IInv
<1>0. PICK c : c = page[f].customer
  OBVIOUS
<1>1. /\ ppc[r] = "idle" /\ page[f] # None
      /\ ppc' = [ppc EXCEPT ![r] = "delete"] /\ sheet' = [sheet EXCEPT ![r] = f]
      /\ UNCHANGED <<baskets, apc, adder, copy, page, bookVars>>
      /\ disturbed' \in {disturbed, disturbed \cup {c}}
      /\ c \notin disturbed' => ~Adding(c) /\ ~Posting(c) /\ Open(f)
  BY <1>0 DEF Checkout, Begin, basketVars
<1>2. /\ ppc'[r] = "delete" /\ sheet'[r] = f /\ c \in Customers
      /\ \A q \in Posts \ {r} : ppc'[q] = ppc[q] /\ sheet'[q] = sheet[q]
      /\ ppc' \in [Posts -> {"idle", "delete", "create", "wait", "done", "error", "lost"}]
      /\ sheet' \in [Posts -> Pages \cup {None}]
      /\ Buyer(r)' = c /\ ~Spent(r)' /\ ~Recorded(r) /\ ~Listed(r) /\ request[r] = None
  <2>1. page[f] \in [customer : Customers, units : SUBSET Adds]
    BY <1>1 DEF TypeOK
  <2>2. /\ ppc'[r] = "delete" /\ sheet'[r] = f /\ c \in Customers
        /\ \A q \in Posts \ {r} : ppc'[q] = ppc[q] /\ sheet'[q] = sheet[q]
        /\ ppc' \in [Posts -> {"idle", "delete", "create", "wait", "done", "error", "lost"}]
        /\ sheet' \in [Posts -> Pages \cup {None}]
    BY <1>0, <1>1, <2>1 DEF TypeOK
  <2>3. request[r] = None /\ ~Recorded(r) /\ ~Listed(r)
    BY <1>1, PostHasPage
  <2>4. Buyer(r)' = c /\ ~Spent(r)'
    BY <1>0, <1>1, <2>2, <2>3 DEF Buyer, Spent, bookVars
  <2> QED BY <2>2, <2>3, <2>4
<1>3. \A d : Careful(d)' => Careful(d)
  BY <1>1 DEF Careful
<1>4. /\ \A d : Units(d)' = Units(d)
      /\ \A q : (Recorded(q)' <=> Recorded(q)) /\ (Listed(q)' <=> Listed(q))
      /\ \A b : (Busy(b)' <=> Busy(b)) /\ (Settled(b)' <=> Settled(b))
      /\ \A g : Open(g)' <=> Open(g)
      /\ \A d : OpenPageOf(d)' <=> OpenPageOf(d)
  <2>1. \A g : Open(g)' <=> Open(g)
    BY <1>1, <1>2 DEF Open
  <2> QED BY <1>1, <2>1 DEF Units, Recorded, Listed, Busy, Settled, bookVars, OpenPageOf
<1>5. \A q \in Posts \ {r} :
         /\ Buyer(q)' = Buyer(q) /\ Ordered(q)' = Ordered(q)
         /\ (Spent(q)' <=> Spent(q)) /\ (InPost(q)' <=> InPost(q))
  BY <1>1, <1>2 DEF Buyer, Ordered, Spent, InPost, bookVars
<1>6. \A d : Posting(d)' => Posting(d) \/ d = c
  BY <1>2, <1>5 DEF Posting
<1>7. TypeOK'
  <2>1. \A q \in Posts : ppc'[q] # "idle" => sheet'[q] # None /\ page[sheet'[q]] # None
    BY <1>1, <1>2, NullAssumption DEF TypeOK
  <2>2. \A q \in Posts : request[q] # None =>
           ppc'[q] \in {"wait", "done", "error", "lost"} /\ request[q].customer = Buyer(q)'
    BY <1>2, <1>5 DEF TypeOK
  <2>3. disturbed' \subseteq Customers
    BY <1>1, <1>2 DEF TypeOK
  <2> QED BY <1>1, <1>2, <2>1, <2>2, <2>3 DEF TypeOK, bookVars
<1>8. BookOK' /\ Booked'
  <2>1. BookOK'
    BY <1>1 DEF BookOK, bookVars
  <2>2. ASSUME NEW q \in Posts
        PROVE  /\ Recorded(q)' => request'[q] # None
               /\ Listed(q)' => Recorded(q)' /\ owner'[q] = Buyer(q)'
               /\ answer'[q] = "created" => Listed(q)'
               /\ ppc'[q] = "done" => answer'[q] = "created"
    <3>1. CASE q = r
      BY <1>1, <1>2, <1>4, <3>1 DEF Booked, bookVars
    <3>2. CASE q # r
      BY <1>1, <1>2, <1>4, <1>5, <3>2 DEF Booked, bookVars
    <3> QED BY <3>1, <3>2
  <2> QED BY <2>1, <2>2 DEF Booked
<1>9. Owned'
  BY <1>1, <1>4 DEF Owned
<1>10. AddsAlone'
  <2>1. ASSUME NEW b \in Adds, Busy(b), Careful(adder[b])' PROVE ~Posting(adder[b])'
    <3>1. adder[b] # c
      BY <1>1, <2>1 DEF Adding, Busy, Careful
    <3> QED BY <1>1, <1>3, <1>6, <2>1, <3>1 DEF AddsAlone
  <2> QED BY <1>1, <1>3, <1>4, <2>1 DEF AddsAlone
<1>11. OnePage'
  BY <1>1, <1>3, <1>4 DEF OnePage
<1>12. PostedOnce'
  <2>1. ASSUME NEW q \in Posts, InPost(q)', Careful(Buyer(q))' PROVE Open(sheet'[q])
    <3>1. CASE q = r
      BY <1>1, <1>2, <2>1, <3>1 DEF Careful
    <3>2. CASE q # r
      BY <1>2, <1>3, <1>5, <2>1, <3>2 DEF PostedOnce
    <3> QED BY <3>1, <3>2
  <2>2. ASSUME NEW p \in Posts \ {r}, ppc[p] # "idle", sheet[p] = f, Careful(c)'
        PROVE  ppc[p] \in {"error", "lost"}
    <3>1. Open(f) /\ ~Posting(c)
      BY <1>1, <2>2 DEF Careful
    <3>2. Buyer(p) = c
      BY <1>0, <2>2 DEF Buyer
    <3>3. ppc[p] # "done"
      BY <2>2, <3>1 DEF Open
    <3>4. ppc[p] \notin {"delete", "create", "wait"}
      BY <3>1, <3>2 DEF Posting
    <3> QED BY <2>2, <3>3, <3>4 DEF TypeOK
  <2>3. ASSUME NEW q \in Posts, NEW p \in Posts, q # p, ppc'[q] # "idle", ppc'[p] # "idle",
               sheet'[q] = sheet'[p], Careful(Buyer(q))'
        PROVE  {ppc'[q], ppc'[p]} \cap {"error", "lost"} # {}
    <3>1. CASE q = r
      BY <1>2, <2>2, <2>3, <3>1
    <3>2. CASE p = r
      <4>1. Buyer(q) = c /\ Buyer(q)' = Buyer(q)
        BY <1>0, <1>2, <1>5, <2>3, <3>2 DEF Buyer
      <4> QED BY <1>2, <2>2, <2>3, <3>2, <4>1
    <3>3. CASE q # r /\ p # r
      BY <1>2, <1>3, <1>5, <2>3, <3>3 DEF PostedOnce
    <3> QED BY <3>1, <3>2, <3>3
  <2>4. ASSUME NEW q \in Posts, Spent(q)', Careful(Buyer(q))'
        PROVE  /\ Ordered(q)' \cap Units(Buyer(q))' = {}
               /\ \A g \in Pages : page'[g] # None /\ g # sheet'[q] /\ page'[g].customer = Buyer(q)'
                                   => page'[g].units \cap Ordered(q)' = {}
    <3>1. q # r
      BY <1>2, <2>4
    <3>2. Spent(q) /\ Careful(Buyer(q)) /\ Buyer(q)' = Buyer(q) /\ Ordered(q)' = Ordered(q)
      BY <1>3, <1>5, <2>4, <3>1
    <3> QED BY <1>1, <1>2, <1>4, <3>1, <3>2 DEF PostedOnce
  <2> QED BY <1>4, <2>1, <2>3, <2>4 DEF PostedOnce
<1>13. NothingLost'
  <2>1. \A q \in Posts : Listed(q) => Ordered(q)' = Ordered(q)
    BY <1>2, <1>5
  <2> QED BY <1>1, <1>4, <2>1 DEF NothingLost, bookVars
<1> QED BY <1>7, <1>8, <1>9, <1>10, <1>11, <1>12, <1>13

-----------------------------------------------------------------------------
(* The two calls of a post.                                                *)

\* A post of a careful customer is the only one under way on its page.
LEMMA PostsAlone ==
    ASSUME IInv, NEW r \in Posts, NEW q \in Posts, InPost(r), InPost(q),
           Careful(Buyer(r)), sheet[q] = sheet[r]
    PROVE  q = r
BY DEF IInv, PostedOnce, InPost

\* What is on the page of a careful customer that is being bought, with the
\* basket deleted, is on no other page.
LEMMA OtherPagesDiffer ==
    ASSUME IInv, NEW r \in Posts, InPost(r), Careful(Buyer(r)),
           NEW g \in Pages, page[g] # None, g # sheet[r], page[g].customer = Buyer(r)
    PROVE  page[g].units \cap Ordered(r) = {}
<1> USE DEF IInv
<1>1. /\ sheet[r] \in Pages /\ page[sheet[r]] # None /\ Open(sheet[r])
      /\ page[sheet[r]].customer = Buyer(r)
  BY PostHasPage DEF PostedOnce, InPost, Buyer
<1>2. ~Open(g)
  BY <1>1 DEF OnePage
<1>3. PICK p \in Posts : ppc[p] = "done" /\ sheet[p] = g
  BY <1>2 DEF Open
<1>4. Spent(p) /\ Buyer(p) = Buyer(r) /\ Ordered(p) = page[g].units
  BY <1>3 DEF Spent, Buyer, Ordered
<1>5. page[sheet[r]].units \cap Ordered(p) = {}
  BY <1>1, <1>3, <1>4 DEF PostedOnce
<1> QED BY <1>4, <1>5 DEF Ordered

\* CheckoutBasket, CallFails and Crash: the post goes on or ends without an
\* answer, and may have deleted the basket.
LEMMA PostMovesKeeps ==
    ASSUME IInv, NEW r \in Posts, CheckoutBasket(r) \/ CallFails(r) \/ Crash(r)
    PROVE  IInv'
<1> USE DEF IInv
<1>0. PICK c : c = Buyer(r)
  OBVIOUS
<1>1. /\ InPost(r) /\ ppc[r] # "idle" /\ ppc[r] # "done"
      /\ \E s \in {"create", "error", "lost"} : ppc' = [ppc EXCEPT ![r] = s]
      /\ baskets' = baskets \/ baskets' = [baskets EXCEPT ![c] = None]
      /\ UNCHANGED <<apc, adder, copy, page, sheet, bookVars, disturbed>>
  BY <1>0 DEF CheckoutBasket, CallFails, Crash, InPost, basketVars
<1>2. /\ c \in Customers /\ sheet[r] \in Pages /\ page[sheet[r]] # None
      /\ ppc'[r] \in {"create", "error", "lost"}
      /\ \A q \in Posts \ {r} : ppc'[q] = ppc[q]
      /\ ppc' \in [Posts -> {"idle", "delete", "create", "wait", "done", "error", "lost"}]
      /\ \A d \in Customers \ {c} : baskets'[d] = baskets[d]
      /\ baskets'[c] \in {baskets[c], None}
      /\ baskets' \in [Customers -> {None} \cup SUBSET Adds]
      /\ ppc'[r] = "create" => baskets'[c] = None
  <2>1. c \in Customers /\ sheet[r] \in Pages /\ page[sheet[r]] # None
    BY <1>0, <1>1, PostHasPage
  <2>2. ppc'[r] = "create" => baskets' = [baskets EXCEPT ![c] = None]
    BY <1>0 DEF CheckoutBasket, CallFails, Crash, TypeOK
  <2> QED BY <1>1, <2>1, <2>2 DEF TypeOK
<1>3. /\ \A q \in Posts : Buyer(q)' = Buyer(q) /\ Ordered(q)' = Ordered(q)
      /\ \A q : (Recorded(q)' <=> Recorded(q)) /\ (Listed(q)' <=> Listed(q))
      /\ \A b : (Busy(b)' <=> Busy(b)) /\ (Settled(b)' <=> Settled(b))
      /\ \A d : Careful(d)' <=> Careful(d)
  BY <1>1 DEF Buyer, Ordered, Recorded, Listed, Busy, Settled, Careful, bookVars
<1>4. /\ \A g : Open(g)' <=> Open(g)
      /\ \A d : OpenPageOf(d)' <=> OpenPageOf(d)
  <2>1. \A g : Open(g)' <=> Open(g)
    BY <1>1, <1>2 DEF Open
  <2> QED BY <1>1, <2>1 DEF OpenPageOf
<1>5. /\ \A q \in Posts : InPost(q)' => InPost(q)
      /\ \A q \in Posts : Spent(q)' => Spent(q) \/ (q = r /\ baskets'[c] = None)
      /\ \A d : Posting(d)' => Posting(d)
  <2>1. \A q \in Posts : InPost(q)' => InPost(q)
    BY <1>1, <1>2 DEF InPost
  <2>2. \A q \in Posts : Spent(q)' => Spent(q) \/ (q = r /\ baskets'[c] = None)
    BY <1>1, <1>2 DEF Spent, bookVars
  <2>3. \A d : Posting(d)' => Posting(d)
    BY <1>3, <2>1 DEF Posting, InPost
  <2> QED BY <2>1, <2>2, <2>3
<1>6. /\ \A d \in Customers \ {c} : Units(d)' = Units(d)
      /\ Units(c)' \in {Units(c), {}}
      /\ baskets'[c] = None => Units(c)' = {}
      /\ \A d \in Customers : Units(d)' \subseteq Units(d)
  BY <1>2 DEF Units
<1>7. Careful(c) => /\ Open(sheet[r]) /\ Posting(c)
                    /\ baskets[c] \in {page[sheet[r]].units, None}
  <2> SUFFICES ASSUME Careful(c) PROVE /\ Open(sheet[r]) /\ Posting(c)
                                      /\ baskets[c] \in {page[sheet[r]].units, None}
    OBVIOUS
  <2>1. Open(sheet[r])
    BY <1>0, <1>1 DEF PostedOnce
  <2>2. Posting(c)
    BY <1>0, <1>1 DEF Posting, InPost
  <2>3. baskets[c] \in {page[sheet[r]].units, None}
    BY <1>0, <1>2, <2>1 DEF OnePage, Buyer
  <2> QED BY <2>1, <2>2, <2>3
<1>8. TypeOK'
  <2>1. \A q \in Posts : ppc'[q] # "idle" => sheet[q] # None /\ page[sheet[q]] # None
    BY <1>1, <1>2 DEF TypeOK
  <2>2. \A q \in Posts : request[q] # None =>
           ppc'[q] \in {"wait", "done", "error", "lost"} /\ request[q].customer = Buyer(q)'
    <3>1. request[r] # None => ppc'[r] # "create"
      BY DEF CheckoutBasket, CallFails, Crash, TypeOK
    <3> QED BY <1>2, <1>3, <3>1 DEF TypeOK
  <2> QED BY <1>1, <1>2, <2>1, <2>2 DEF TypeOK, bookVars
<1>9. BookOK' /\ Booked'
  <2>1. BookOK'
    BY <1>1 DEF BookOK, bookVars
  <2>2. \A q \in Posts : ppc'[q] = "done" => ppc[q] = "done"
    BY <1>2
  <2> QED BY <1>1, <1>3, <2>1, <2>2 DEF Booked, bookVars
<1>10. Owned'
  <2>1. ASSUME NEW d \in Customers, NEW x \in Units(d)' PROVE adder[x] = d /\ Settled(x)
    BY <1>6, <2>1 DEF Owned
  <2> QED BY <1>1, <1>3, <2>1 DEF Owned
<1>11. AddsAlone'
  <2>1. ASSUME NEW b \in Adds, apc[b] = "write", Careful(adder[b])
        PROVE  copy[b] = Units(adder[b])' \cup {b}
    <3>1. adder[b] # c /\ adder[b] \in Customers
      BY <1>7, <2>1 DEF AddsAlone, Busy, Careful
    <3> QED BY <1>1, <1>6, <2>1, <3>1 DEF AddsAlone
  <2>2. \A b \in Adds : Busy(b) /\ Careful(adder[b]) =>
           ~Posting(adder[b])' /\ ~OpenPageOf(adder[b])'
    BY <1>1, <1>4, <1>5 DEF AddsAlone
  <2> QED BY <1>1, <1>3, <2>1, <2>2 DEF AddsAlone
<1>12. OnePage'
  <2>1. ASSUME NEW g \in Pages, Open(g), Careful(page[g].customer)
        PROVE  baskets'[page[g].customer] \in {page[g].units, None}
    BY <1>2, <2>1 DEF OnePage, Careful
  <2> QED BY <1>1, <1>3, <1>4, <2>1 DEF OnePage
<1>13. PostedOnce'
  <2>1. ASSUME NEW q \in Posts, InPost(q)', Careful(Buyer(q)) PROVE Open(sheet[q])
    BY <1>5, <2>1 DEF PostedOnce
  <2>2. ASSUME NEW q \in Posts, NEW p \in Posts, q # p, ppc'[q] # "idle", ppc'[p] # "idle",
               sheet[q] = sheet[p], Careful(Buyer(q))
        PROVE  {ppc'[q], ppc'[p]} \cap {"error", "lost"} # {}
    <3>1. \A s \in Posts : /\ ppc'[s] # "idle" => ppc[s] # "idle"
                           /\ ppc[s] \in {"error", "lost"} => ppc'[s] \in {"error", "lost"}
      BY <1>1, <1>2 DEF InPost
    <3>2. {ppc[q], ppc[p]} \cap {"error", "lost"} # {}
      BY <2>2, <3>1 DEF PostedOnce
    <3> QED BY <3>1, <3>2
  <2>3. ASSUME NEW q \in Posts, Spent(q)', Careful(Buyer(q))
        PROVE  /\ Ordered(q) \cap Units(Buyer(q))' = {}
               /\ \A g \in Pages : page[g] # None /\ g # sheet[q] /\ page[g].customer = Buyer(q)
                                   => page[g].units \cap Ordered(q) = {}
    <3>1. CASE Spent(q)
      <4>1. Buyer(q) \in Customers
        BY <2>3 DEF Careful
      <4>2. Ordered(q) \cap Units(Buyer(q)) = {}
        BY <2>3, <3>1 DEF PostedOnce
      <4>3. Ordered(q) \cap Units(Buyer(q))' = {}
        BY <1>3, <1>6, <4>1, <4>2
      <4> QED BY <2>3, <3>1, <4>3 DEF PostedOnce
    <3>2. CASE q = r /\ baskets'[c] = None
      <4>1. Units(Buyer(q))' = {}
        BY <1>0, <1>3, <1>6, <3>2
      <4> QED BY <1>1, <2>3, <3>2, <4>1, OtherPagesDiffer
    <3> QED BY <1>5, <2>3, <3>1, <3>2
  <2> QED BY <1>1, <1>3, <1>4, <2>1, <2>2, <2>3 DEF PostedOnce
<1>14. NothingLost'
  <2> SUFFICES ASSUME NEW x \in Adds, apc[x] = "ok", adder[x] \notin disturbed
               PROVE  \/ x \in Units(adder[x])'
                      \/ \E g \in Pages : Open(g) /\ page[g].customer = adder[x] /\ x \in page[g].units
                      \/ \E q \in Posts : Listed(q) /\ owner[q] = adder[x] /\ x \in Ordered(q)
    BY <1>1, <1>3, <1>4 DEF NothingLost, bookVars
  <2>1. adder[x] \in Customers /\ Careful(adder[x])
    BY DEF Owned, Careful
  <2>2. CASE x \in Units(adder[x]) /\ adder[x] = c
    <3>1. x \in page[sheet[r]].units /\ Open(sheet[r]) /\ page[sheet[r]].customer = c
      BY <1>0, <1>7, <2>1, <2>2 DEF Units, Buyer
    <3> QED BY <1>2, <2>2, <3>1
  <2>3. CASE x \in Units(adder[x]) /\ adder[x] # c
    BY <1>1, <1>6, <2>1, <2>3
  <2>4. CASE x \notin Units(adder[x])
    BY <2>4 DEF NothingLost
  <2> QED BY <2>2, <2>3, <2>4
<1> QED BY <1>8, <1>9, <1>10, <1>11, <1>12, <1>13, <1>14

LEMMA CreateOrderKeeps ==
    ASSUME IInv, NEW r \in Posts, CreateOrder(r)
    PROVE  IInv'
<1> USE DEF IInv
<1>1. /\ ppc[r] = "create" /\ ppc' = [ppc EXCEPT ![r] = "wait"]
      /\ request[r] = None
      /\ \E s \in Book!Requests : request' = [request EXCEPT ![r] = s]
      /\ request'[r].customer = Buyer(r)
      /\ UNCHANGED <<baskets, apc, adder, copy, page, sheet, disturbed>>
      /\ UNCHANGED <<status, owner, charged>>
      /\ answer' = answer \/ answer' = [answer EXCEPT ![r] = "error"]
  BY DEF CreateOrder, basketVars, Book!Ask, Book!MayFail
<1>2. /\ ppc'[r] = "wait" /\ \A q \in Posts \ {r} : ppc'[q] = ppc[q]
      /\ request' \in [Posts -> Book!Requests \cup {None}]
      /\ \A q \in Posts \ {r} : request'[q] = request[q]
      /\ ppc' \in [Posts -> {"idle", "delete", "create", "wait", "done", "error", "lost"}]
  BY <1>1 DEF TypeOK, BookOK
<1>a. /\ DOMAIN answer' = Posts
      /\ \A q \in Posts : answer'[q] = "created" => answer[q] = "created"
      /\ \A q \in Posts \ {r} : answer'[q] = answer[q]
  <2>1. CASE answer' = answer
    BY <2>1 DEF BookOK
  <2>2. CASE answer' = [answer EXCEPT ![r] = "error"]
    BY <2>2 DEF BookOK
  <2> QED BY <1>1, <2>1, <2>2
<1>3. /\ \A q \in Posts : Buyer(q)' = Buyer(q) /\ Ordered(q)' = Ordered(q)
      /\ \A q : (Recorded(q)' <=> Recorded(q)) /\ (Listed(q)' <=> Listed(q))
      /\ \A b : (Busy(b)' <=> Busy(b)) /\ (Settled(b)' <=> Settled(b))
      /\ \A d : Careful(d)' <=> Careful(d)
      /\ \A d : Units(d)' = Units(d)
  BY <1>1 DEF Buyer, Ordered, Recorded, Listed, Busy, Settled, Careful, Units
<1>4. /\ \A g : Open(g)' <=> Open(g)
      /\ \A d : OpenPageOf(d)' <=> OpenPageOf(d)
  <2>1. \A g : Open(g)' <=> Open(g)
    BY <1>1, <1>2 DEF Open
  <2> QED BY <1>1, <2>1 DEF OpenPageOf
<1>5. /\ \A q \in Posts : (InPost(q)' <=> InPost(q)) /\ (Spent(q)' => Spent(q))
      /\ \A d : Posting(d)' <=> Posting(d)
  <2>1. \A q \in Posts : (InPost(q)' <=> InPost(q)) /\ (Spent(q)' => Spent(q))
    BY <1>1, <1>2 DEF InPost, Spent
  <2> QED BY <1>3, <2>1 DEF Posting, InPost
<1>6. TypeOK'
  <2>1. ASSUME NEW q \in Posts
        PROVE  /\ ppc'[q] # "idle" => sheet[q] # None /\ page[sheet[q]] # None
               /\ request'[q] # None => /\ ppc'[q] \in {"wait", "done", "error", "lost"}
                                        /\ request'[q].customer = Buyer(q)'
    <3>1. CASE q = r
      BY <1>1, <1>2, <1>3, <3>1 DEF TypeOK
    <3>2. CASE q # r
      BY <1>1, <1>2, <1>3, <3>2 DEF TypeOK
    <3> QED BY <3>1, <3>2
  <2> QED BY <1>1, <1>2, <2>1 DEF TypeOK
<1>7. BookOK'
  BY <1>1, <1>2, <1>a DEF BookOK
<1>8. Booked'
  <2>1. ~Recorded(r) /\ \A q \in Posts : ppc'[q] = "done" => ppc[q] = "done" /\ q # r
    BY <1>1, <1>2 DEF Booked
  <2> QED BY <1>1, <1>2, <1>3, <1>a, <2>1 DEF Booked
<1>9. Owned' /\ AddsAlone' /\ OnePage'
  BY <1>1, <1>3, <1>4, <1>5 DEF Owned, AddsAlone, OnePage
<1>10. PostedOnce'
  <2>1. \A s \in Posts : /\ ppc'[s] # "idle" => ppc[s] # "idle"
                         /\ ppc[s] \in {"error", "lost"} => ppc'[s] \in {"error", "lost"}
    BY <1>1, <1>2
  <2>2. ASSUME NEW q \in Posts, NEW p \in Posts, q # p, ppc'[q] # "idle", ppc'[p] # "idle",
               sheet[q] = sheet[p], Careful(Buyer(q))
        PROVE  {ppc'[q], ppc'[p]} \cap {"error", "lost"} # {}
    <3>1. {ppc[q], ppc[p]} \cap {"error", "lost"} # {}
      BY <2>1, <2>2 DEF PostedOnce
    <3> QED BY <2>1, <3>1
  <2> QED BY <1>1, <1>3, <1>4, <1>5, <2>2 DEF PostedOnce
<1>11. NothingLost'
  BY <1>1, <1>3, <1>4 DEF NothingLost
<1> QED BY <1>6, <1>7, <1>8, <1>9, <1>10, <1>11

LEMMA AnsweredKeeps ==
    ASSUME IInv, NEW r \in Posts, Answered(r)
    PROVE  IInv'
<1> USE DEF IInv
<1>1. /\ ppc[r] = "wait"
      /\ \/ ppc' = [ppc EXCEPT ![r] = "done"] /\ answer[r] = "created"
         \/ ppc' = [ppc EXCEPT ![r] = "error"]
      /\ UNCHANGED <<baskets, apc, adder, copy, page, sheet, bookVars, disturbed>>
  BY DEF Answered, basketVars
<1>2. /\ ppc'[r] \in {"done", "error"} /\ \A q \in Posts \ {r} : ppc'[q] = ppc[q]
      /\ ppc'[r] = "done" => answer[r] = "created"
      /\ ppc' \in [Posts -> {"idle", "delete", "create", "wait", "done", "error", "lost"}]
      /\ sheet[r] \in Pages /\ page[sheet[r]] # None
  BY <1>1, PostHasPage DEF TypeOK
<1>3. /\ \A q \in Posts : Buyer(q)' = Buyer(q) /\ Ordered(q)' = Ordered(q)
      /\ \A q : (Recorded(q)' <=> Recorded(q)) /\ (Listed(q)' <=> Listed(q))
      /\ \A b : (Busy(b)' <=> Busy(b)) /\ (Settled(b)' <=> Settled(b))
      /\ \A d : Careful(d)' <=> Careful(d)
      /\ \A d : Units(d)' = Units(d)
  BY <1>1 DEF Buyer, Ordered, Recorded, Listed, Busy, Settled, Careful, Units, bookVars
<1>4. /\ \A g : Open(g)' => Open(g)
      /\ \A g : Open(g) => Open(g)' \/ (g = sheet[r] /\ ppc'[r] = "done")
      /\ \A d : OpenPageOf(d)' => OpenPageOf(d)
  <2>1. \A g : Open(g)' => Open(g)
    BY <1>1, <1>2 DEF Open
  <2>2. \A g : Open(g) => Open(g)' \/ (g = sheet[r] /\ ppc'[r] = "done")
    BY <1>1, <1>2 DEF Open
  <2> QED BY <1>1, <2>1, <2>2 DEF OpenPageOf
<1>5. /\ \A q \in Posts : (InPost(q)' => InPost(q) /\ q # r) /\ (Spent(q)' => Spent(q))
      /\ \A d : Posting(d)' => Posting(d)
  <2>1. \A q \in Posts : (InPost(q)' => InPost(q) /\ q # r) /\ (Spent(q)' => Spent(q))
    BY <1>1, <1>2 DEF InPost, Spent, bookVars
  <2> QED BY <1>3, <2>1 DEF Posting, InPost
<1>6. TypeOK'
  <2>1. ASSUME NEW q \in Posts
        PROVE  /\ ppc'[q] # "idle" => sheet[q] # None /\ page[sheet[q]] # None
               /\ request[q] # None => /\ ppc'[q] \in {"wait", "done", "error", "lost"}
                                       /\ request[q].customer = Buyer(q)'
    BY <1>1, <1>2, <1>3 DEF TypeOK
  <2> QED BY <1>1, <1>2, <2>1 DEF TypeOK, bookVars
<1>7. BookOK' /\ Booked'
  <2>1. BookOK'
    BY <1>1 DEF BookOK, bookVars
  <2>2. \A q \in Posts : ppc'[q] = "done" => answer[q] = "created"
    BY <1>2 DEF Booked
  <2> QED BY <1>1, <1>3, <2>1, <2>2 DEF Booked, bookVars
<1>8. Owned' /\ AddsAlone'
  BY <1>1, <1>3, <1>4, <1>5 DEF Owned, AddsAlone
<1>9. OnePage'
  BY <1>1, <1>3, <1>4 DEF OnePage
<1>10. PostedOnce'
  <2>1. \A s \in Posts : /\ ppc'[s] # "idle" => ppc[s] # "idle"
                         /\ ppc[s] \in {"error", "lost"} => ppc'[s] \in {"error", "lost"}
    BY <1>1, <1>2
  <2>2. ASSUME NEW q \in Posts, NEW p \in Posts, q # p, ppc'[q] # "idle", ppc'[p] # "idle",
               sheet[q] = sheet[p], Careful(Buyer(q))
        PROVE  {ppc'[q], ppc'[p]} \cap {"error", "lost"} # {}
    <3>1. {ppc[q], ppc[p]} \cap {"error", "lost"} # {}
      BY <2>1, <2>2 DEF PostedOnce
    <3> QED BY <2>1, <3>1
  <2>3. ASSUME NEW q \in Posts, InPost(q)', Careful(Buyer(q)) PROVE Open(sheet[q])'
    <3>1. InPost(q) /\ q # r /\ InPost(r)
      BY <1>1, <1>5, <2>3 DEF InPost
    <3>2. sheet[q] # sheet[r]
      BY <2>3, <3>1, PostsAlone
    <3>3. Open(sheet[q])
      BY <2>3, <3>1 DEF PostedOnce
    <3> QED BY <1>1, <1>4, <3>2, <3>3
  <2> QED BY <1>1, <1>3, <1>5, <2>2, <2>3 DEF PostedOnce
<1>11. NothingLost'
  <2> SUFFICES ASSUME NEW x \in Adds, apc[x] = "ok", adder[x] \notin disturbed
               PROVE  \/ x \in Units(adder[x])
                      \/ \E g \in Pages : Open(g)' /\ page[g].customer = adder[x] /\ x \in page[g].units
                      \/ \E q \in Posts : Listed(q) /\ owner[q] = adder[x] /\ x \in Ordered(q)
    BY <1>1, <1>3 DEF NothingLost, bookVars
  <2>1. ASSUME ppc'[r] = "done" PROVE Listed(r) /\ owner[r] = page[sheet[r]].customer
    BY <1>2, <2>1 DEF Booked, Buyer
  <2>2. ASSUME NEW g \in Pages, Open(g), page[g].customer = adder[x], x \in page[g].units
        PROVE  Open(g)' \/ (Listed(r) /\ owner[r] = adder[x] /\ x \in Ordered(r))
    BY <1>4, <2>1, <2>2 DEF Ordered
  <2> QED BY <2>2 DEF NothingLost
<1> QED BY <1>6, <1>7, <1>8, <1>9, <1>10, <1>11

-----------------------------------------------------------------------------
(* The order service, and the theorems.                                    *)

LEMMA OrderServiceKeeps ==
    ASSUME IInv, NEW r \in Posts, OrderService(r)
    PROVE  IInv'
<1> USE DEF IInv
<1>1. /\ UNCHANGED <<baskets, apc, adder, copy, page, ppc, sheet, disturbed, request>>
      /\ request[r] # None /\ answer[r] = "none"
      /\ \/ answer' = answer \/ answer' = [answer EXCEPT ![r] = "error"]
         \/ answer' = [answer EXCEPT ![r] = "created"] /\ owner' = [owner EXCEPT ![r] = request[r].customer]
      /\ \/ status' = status \/ status' = [status EXCEPT ![r] = "Submitted"]
      /\ \/ owner' = owner
         \/ status[r] # None /\ owner' = [owner EXCEPT ![r] = request[r].customer]
      /\ DOMAIN charged' = Posts
  <2>1. CASE Book!Record(r)
    BY <2>1 DEF OrderService, Book!Record, Book!MayFail, basketVars, BookOK
  <2>2. CASE Book!Place(r)
    BY <2>2 DEF OrderService, Book!Place, Book!MayFail, basketVars, BookOK, Booked, Recorded
  <2>3. CASE Book!GiveUp(r)
    BY <2>3 DEF OrderService, Book!GiveUp, basketVars, BookOK
  <2> QED BY <2>1, <2>2, <2>3 DEF OrderService
<1>2. /\ request[r] \in Book!Requests /\ request[r].customer = Buyer(r) /\ Buyer(r) \in Customers
      /\ Buyer(r) # None
  BY <1>1, PostHasPage, NullAssumption DEF BookOK, TypeOK
<1>3. /\ DOMAIN status' = Posts /\ DOMAIN owner' = Posts /\ DOMAIN answer' = Posts
      /\ \A q \in Posts \ {r} : status'[q] = status[q] /\ owner'[q] = owner[q] /\ answer'[q] = answer[q]
      /\ status[r] # None => status'[r] # None
      /\ owner'[r] = owner[r] \/ (status[r] # None /\ owner'[r] = Buyer(r))
      /\ answer'[r] = "created" => owner'[r] = Buyer(r)
  <2>1. DOMAIN status = Posts /\ DOMAIN owner = Posts /\ DOMAIN answer = Posts
    BY DEF BookOK
  <2>2. status' = status \/ status'[r] = "Submitted"
    BY <1>1, <2>1
  <2>3. status[r] # None => status'[r] # None
    BY <1>1, <2>1, NullAssumption
  <2>4. owner'[r] = owner[r] \/ (status[r] # None /\ owner'[r] = Buyer(r))
    BY <1>1, <1>2, <2>1
  <2>5. answer'[r] = "created" => owner'[r] = Buyer(r)
    BY <1>1, <1>2, <2>1
  <2> QED BY <1>1, <2>1, <2>3, <2>4, <2>5
<1>4. /\ \A q \in Posts : Buyer(q)' = Buyer(q) /\ Ordered(q)' = Ordered(q)
      /\ \A q \in Posts : Recorded(q) => Recorded(q)'
      /\ \A q \in Posts : Recorded(q)' => Recorded(q) \/ q = r
      /\ \A q \in Posts : Listed(q) => Listed(q)' /\ owner'[q] = owner[q]
      /\ \A q : (InPost(q)' <=> InPost(q)) /\ (Spent(q)' <=> Spent(q))
      /\ \A b : (Busy(b)' <=> Busy(b)) /\ (Settled(b)' <=> Settled(b))
      /\ \A d : (Careful(d)' <=> Careful(d)) /\ Units(d)' = Units(d)
      /\ \A g : Open(g)' <=> Open(g)
      /\ \A d : (OpenPageOf(d)' <=> OpenPageOf(d)) /\ (Posting(d)' <=> Posting(d))
  <2>1. \A q \in Posts : Buyer(q)' = Buyer(q) /\ Ordered(q)' = Ordered(q)
    BY <1>1 DEF Buyer, Ordered
  <2>2. \A q \in Posts : (Recorded(q) => Recorded(q)') /\ (Recorded(q)' => Recorded(q) \/ q = r)
    BY <1>3 DEF Recorded
  <2>3. ASSUME NEW q \in Posts, Listed(q) PROVE Listed(q)' /\ owner'[q] = owner[q]
    <3>1. owner[q] = Buyer(q) /\ owner[q] # None
      BY <2>3 DEF Booked, Listed
    <3>2. owner'[q] = owner[q]
      BY <1>3, <3>1
    <3> QED BY <3>1, <3>2 DEF Listed
  <2>4. /\ \A q : (InPost(q)' <=> InPost(q)) /\ (Spent(q)' <=> Spent(q))
        /\ \A b : (Busy(b)' <=> Busy(b)) /\ (Settled(b)' <=> Settled(b))
        /\ \A d : (Careful(d)' <=> Careful(d)) /\ Units(d)' = Units(d)
        /\ \A g : Open(g)' <=> Open(g)
    BY <1>1 DEF InPost, Spent, Busy, Settled, Careful, Units, Open
  <2>5. \A d : (OpenPageOf(d)' <=> OpenPageOf(d)) /\ (Posting(d)' <=> Posting(d))
    BY <1>1, <2>1, <2>4 DEF OpenPageOf, Posting
  <2> QED BY <2>1, <2>2, <2>3, <2>4, <2>5
<1>5. TypeOK'
  BY <1>1, <1>4 DEF TypeOK
<1>6. BookOK'
  BY <1>1, <1>3 DEF BookOK
<1>7. Booked'
  <2> SUFFICES ASSUME NEW q \in Posts
               PROVE  /\ Recorded(q)' => request[q] # None
                      /\ Listed(q)' => Recorded(q)' /\ owner'[q] = Buyer(q)
                      /\ answer'[q] = "created" => Listed(q)'
                      /\ ppc[q] = "done" => answer'[q] = "created"
    BY <1>1, <1>4 DEF Booked
  <2>1. CASE q # r
    BY <1>3, <2>1 DEF Booked, Recorded, Listed
  <2>2. CASE q = r
    <3>1. request[r] # None /\ ppc[r] # "done"
      BY <1>1 DEF Booked
    <3>2. Listed(r)' => Recorded(r)' /\ owner'[r] = Buyer(r)
      BY <1>3, <1>4 DEF Booked, Listed, Recorded
    <3>3. answer'[r] = "created" => Listed(r)'
      BY <1>2, <1>3 DEF Listed
    <3> QED BY <2>2, <3>1, <3>2, <3>3
  <2> QED BY <2>1, <2>2
<1>8. Owned' /\ AddsAlone' /\ OnePage'
  BY <1>1, <1>4 DEF Owned, AddsAlone, OnePage
<1>9. PostedOnce'
  BY <1>1, <1>4 DEF PostedOnce
<1>10. NothingLost'
  BY <1>1, <1>4 DEF NothingLost
<1> QED BY <1>5, <1>6, <1>7, <1>8, <1>9, <1>10

\* Every step of the pages and of the order service keeps the invariant.
LEMMA NextIInv == IInv /\ [Next]_vars => IInv'
<1> SUFFICES ASSUME IInv, [Next]_vars PROVE IInv'
  OBVIOUS
<1>1. CASE \E a \in Adds : \E c \in Customers : AddToCart(a, c)
  BY <1>1, AddToCartKeeps
<1>2. CASE \E a \in Adds : AddRead(a)
  BY <1>2, AddReadKeeps
<1>3. CASE \E a \in Adds : AddWrite(a) \/ AddFails(a)
  BY <1>3, AddEndsKeeps
<1>4. CASE \E f \in Pages, c \in Customers : Create(f, c)
  BY <1>4, CreateKeeps
<1>5. CASE \E q \in Posts : \E f \in Pages : Checkout(q, f)
  BY <1>5, CheckoutKeeps
<1>6. CASE \E q \in Posts : CheckoutBasket(q) \/ CallFails(q) \/ Crash(q)
  BY <1>6, PostMovesKeeps
<1>7. CASE \E q \in Posts : CreateOrder(q)
  BY <1>7, CreateOrderKeeps
<1>8. CASE \E q \in Posts : Answered(q)
  BY <1>8, AnsweredKeeps
<1>9. CASE \E q \in Posts : OrderService(q)
  BY <1>9, OrderServiceKeeps
<1>10. CASE UNCHANGED vars
  <2>1. /\ UNCHANGED <<baskets, apc, adder, copy, page, ppc, sheet, disturbed>>
        /\ UNCHANGED <<request, status, owner, charged, answer>>
    BY <1>10 DEF vars, basketVars, bookVars
  <2>2. TypeOK' /\ BookOK' /\ Owned'
    BY <2>1 DEF IInv, TypeOK, BookOK, Owned, Buyer, Units, Settled
  <2>3. AddsAlone' /\ OnePage'
    BY <2>1 DEF IInv, AddsAlone, OnePage, Busy, Careful, Posting, OpenPageOf, Open, Buyer, Units
  <2>4. PostedOnce' /\ Booked'
    BY <2>1 DEF IInv, PostedOnce, Booked, InPost, Careful, Buyer, Ordered, Open, Spent, Units,
                Recorded, Listed
  <2>5. NothingLost'
    BY <2>1 DEF IInv, NothingLost, Units, Open, Listed, Ordered
  <2> QED BY <2>2, <2>3, <2>4, <2>5 DEF IInv
<1> QED BY <1>1, <1>2, <1>3, <1>4, <1>5, <1>6, <1>7, <1>8, <1>9, <1>10 DEF Next

LEMMA AlwaysIInv == Spec => []IInv
<1> QED BY InitIInv, NextIInv, PTL DEF Spec

\* Two orders that share a unit come from one page.
LEMMA OneSheet ==
    ASSUME IInv, NEW q \in Posts, NEW p \in Posts, Recorded(q), Recorded(p),
           Careful(Buyer(q)), Buyer(q) = Buyer(p), Ordered(q) \cap Ordered(p) # {}
    PROVE  sheet[q] = sheet[p]
<1>1. Spent(p) /\ Spent(q) /\ sheet[q] \in Pages /\ page[sheet[q]] # None
  BY PostHasPage DEF IInv, Booked, Spent
<1>2. page[sheet[q]].customer = Buyer(p) /\ page[sheet[q]].units = Ordered(q)
  BY DEF Buyer, Ordered
<1> QED BY <1>1, <1>2 DEF IInv, PostedOnce

\* What a customer who does one thing at a time put into the basket is still
\* there, on a page that can be posted again, or ordered; and it is ordered
\* twice only when a page was posted again after an error or no answer.
THEOREM OrderedOnceAlways == Spec => []OrderedOnce
<1>1. ASSUME IInv PROVE OrderedTwiceExplained
  <2> SUFFICES ASSUME NEW q \in Posts, NEW p \in Posts,
                      q # p, Recorded(q), Recorded(p), Buyer(q) \notin disturbed,
                      Buyer(q) = Buyer(p), Ordered(q) \cap Ordered(p) # {}
               PROVE  sheet[q] = sheet[p] /\ {ppc[q], ppc[p]} \cap {"error", "lost"} # {}
    BY DEF OrderedTwiceExplained
  <2>1. ppc[q] # "idle" /\ ppc[p] # "idle" /\ Careful(Buyer(q))
    BY <1>1, PostHasPage DEF Careful
  <2>2. sheet[q] = sheet[p]
    BY <1>1, <2>1, OneSheet
  <2> QED BY <1>1, <2>1, <2>2 DEF IInv, PostedOnce
<1>2. IInv => OrderedOnce
  BY <1>1 DEF IInv, OrderedOnce
<1> QED BY <1>2, AlwaysIInv, PTL

\* What such a customer's orders contain is in no basket any more.
THEOREM BoughtLeavesBasketAlways == Spec => []BoughtLeavesBasket
<1>1. ASSUME IInv PROVE BoughtLeavesBasket
  <2> SUFFICES ASSUME NEW q \in Posts, Listed(q), Buyer(q) \notin disturbed
               PROVE  Ordered(q) \cap Units(Buyer(q)) = {}
    BY DEF BoughtLeavesBasket
  <2>1. Spent(q) /\ Careful(Buyer(q))
    BY <1>1, PostHasPage DEF IInv, Booked, Spent, Careful
  <2> QED BY <1>1, <2>1 DEF IInv, PostedOnce
<1> QED BY <1>1, AlwaysIInv, PTL
=============================================================================

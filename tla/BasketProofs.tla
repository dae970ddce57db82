---------------------------- MODULE BasketProofs ----------------------------
(***************************************************************************)
(* Proofs about Basket, for any buyers, requests, products and bodies: its *)
(* three invariants, from an inductive one that says what the basket, and  *)
(* the copy each request is about to write, mean.                          *)
(*                                                                         *)
(* Sums over bodies and sequences of requests are recursive functions; the *)
(* little induction they need is derived from finite cardinalities.        *)
(***************************************************************************)
EXTENDS Basket, FiniteSetTheorems, TLAPS

-----------------------------------------------------------------------------
(* Induction over the naturals, for a set: the numbers up to one that is      *)
(* missing would be in a bijection with those of them that are not 0.         *)
LEMMA SetInduction ==
    ASSUME NEW S, 0 \in S, \A n \in Nat : n \in S => n + 1 \in S
    PROVE  \A n \in Nat : n \in S
<1> SUFFICES ASSUME NEW n \in Nat, n \notin S PROVE FALSE
  OBVIOUS
<1> DEFINE T == {i \in 0 .. n : i \in S}
           f == [i \in T |-> i + 1]
<1>1. IsFiniteSet(T)
  <2>1. IsFiniteSet(0 .. n)
    BY FS_Interval
  <2> QED
    BY <2>1, FS_Subset
<1>2. \A i \in T : i \in Nat /\ i + 1 \in T /\ i + 1 # 0
  OBVIOUS
<1>3. 0 \in T
  OBVIOUS
<1> HIDE DEF T
<1>4. f \in Injection(T, T \ {0})
  <2>1. f \in [T -> T \ {0}]
    BY <1>2
  <2>2. \A i, j \in T : f[i] = f[j] => i = j
    BY <1>2
  <2> HIDE DEF f
  <2> QED
    BY <2>1, <2>2 DEF Injection, IsInjective
<1>5. IsFiniteSet(T \ {0}) /\ Cardinality(T \ {0}) = Cardinality(T) - 1 /\ Cardinality(T) \in Nat
  BY <1>1, <1>3, FS_RemoveElement, FS_CardinalityType
<1>6. Cardinality(T) <= Cardinality(T \ {0})
  <2> HIDE DEF f
  <2> QED
    BY <1>4, <1>5, FS_Injection
<1> QED
  BY <1>5, <1>6

\* The largest and the smallest of some places of a sequence are among them.
LEMMA MaxPlace ==
    ASSUME NEW n \in Nat, NEW K \in SUBSET (1 .. n), K # {}
    PROVE  Max(K) \in K
<1> DEFINE S == {m \in Nat : \A L \in SUBSET (1 .. m) : L # {} => \E x \in L : \A y \in L : x >= y}
<1>1. 0 \in S
  <2>1. \A L \in SUBSET (1 .. 0) : \A x \in L : FALSE
    OBVIOUS
  <2> QED
    BY <2>1
<1>2. ASSUME NEW m \in Nat, m \in S PROVE m + 1 \in S
  <2> SUFFICES ASSUME NEW L \in SUBSET (1 .. m + 1), L # {} PROVE \E x \in L : \A y \in L : x >= y
    OBVIOUS
  <2>1. CASE m + 1 \in L
    BY <2>1
  <2>2. CASE m + 1 \notin L
    <3>1. L \in SUBSET (1 .. m)
      BY <2>2
    <3> QED
      BY <1>2, <3>1
  <2> QED
    BY <2>1, <2>2
<1> HIDE DEF S
<1>3. n \in S
  BY <1>1, <1>2, SetInduction
<1>4. \E x \in K : \A y \in K : x >= y
  BY <1>3 DEF S
<1> QED
  BY <1>4 DEF Max

LEMMA MinPlace ==
    ASSUME NEW n \in Nat, NEW K \in SUBSET (1 .. n), K # {}
    PROVE  Min(K) \in K
<1> DEFINE S == {m \in Nat : \A L \in SUBSET (1 .. n) : (\E y \in L : y <= m) => \E x \in L : \A y \in L : x <= y}
<1>1. 0 \in S
  OBVIOUS
<1>2. ASSUME NEW m \in Nat, m \in S PROVE m + 1 \in S
  <2> SUFFICES ASSUME NEW L \in SUBSET (1 .. n), NEW z \in L, z <= m + 1 PROVE \E x \in L : \A y \in L : x <= y
    OBVIOUS
  <2>1. CASE \E y \in L : y <= m
    BY <1>2, <2>1
  <2>2. CASE ~\E y \in L : y <= m
    <3>1. \A y \in L : y \in Int /\ y > m /\ z <= y
      BY <2>2
    <3> QED
      BY <3>1
  <2> QED
    BY <2>1, <2>2
<1> HIDE DEF S
<1>3. n \in S
  BY <1>1, <1>2, SetInduction
<1>4. \E y \in K : y <= n
  <2>1. PICK y \in K : TRUE
    OBVIOUS
  <2>2. y \in 1 .. n
    BY <2>1
  <2> QED
    BY <2>2
<1>5. \E x \in K : \A y \in K : x <= y
  BY <1>3, <1>4 DEF S
<1> QED
  BY <1>5 DEF Min

-----------------------------------------------------------------------------
(* Recursive functions.                                                       *)

\* The units of a product in a body are a number.
LEMMA UnitsType ==
    ASSUME NEW body \in Seq(Lines), NEW p
    PROVE  GroupedQuantity(body, p) \in Int /\ Units(body, p) = GroupedQuantity(body, p)
<1> DEFINE more(k) == IF body[k].product = p THEN body[k].quantity ELSE 0
           Sums(m, g) == g = [k \in 0 .. m |-> IF k = 0 THEN 0 ELSE g[k - 1] + more(k)]
           There(m) == \E g \in [0 .. m -> Int] : Sums(m, g)
           S == {m \in Nat : m <= Len(body) => There(m)}
<1>1. \A k \in 1 .. Len(body) : more(k) \in Int
  <2>1. \A k \in 1 .. Len(body) : body[k] \in Lines
    OBVIOUS
  <2> QED
    BY <2>1 DEF Lines
<1> HIDE DEF more, There
<1>2. 0 \in S
  <2> DEFINE g == [k \in 0 .. 0 |-> 0]
  <2>1. g \in [0 .. 0 -> Int] /\ Sums(0, g)
    OBVIOUS
  <2> QED
    BY <2>1 DEF There
<1>3. ASSUME NEW m \in Nat, m \in S PROVE m + 1 \in S
  <2> SUFFICES ASSUME m + 1 <= Len(body) PROVE There(m + 1)
    OBVIOUS
  <2>0. There(m)
    <3>1. Len(body) \in Nat /\ m <= Len(body)
      OBVIOUS
    <3> QED
      BY <1>3, <3>1
  <2>1. PICK g \in [0 .. m -> Int] : Sums(m, g)
    BY <2>0 DEF There
  <2> DEFINE h == [k \in 0 .. m + 1 |-> IF k = m + 1 THEN g[m] + more(m + 1) ELSE g[k]]
  <2>2. more(m + 1) \in Int
    BY <1>1
  <2>3. h \in [0 .. m + 1 -> Int]
    BY <2>1, <2>2
  <2>4. \A k \in 0 .. m + 1 : h[k] = IF k = 0 THEN 0 ELSE h[k - 1] + more(k)
    <3> SUFFICES ASSUME NEW k \in 0 .. m + 1 PROVE h[k] = IF k = 0 THEN 0 ELSE h[k - 1] + more(k)
      OBVIOUS
    <3>1. CASE k = m + 1
      BY <3>1
    <3>2. CASE k # m + 1
      <4>1. k \in 0 .. m /\ h[k] = g[k] /\ (k # 0 => h[k - 1] = g[k - 1])
        BY <3>2
      <4>2. g[k] = IF k = 0 THEN 0 ELSE g[k - 1] + more(k)
        BY <2>1, <4>1
      <4> QED
        BY <4>1, <4>2
    <3> QED
      BY <3>1, <3>2
  <2>5. Sums(m + 1, h)
    BY <2>4
  <2> QED
    BY <2>3, <2>5 DEF There
<1> HIDE DEF S
<1>4. Len(body) \in S /\ Len(body) \in Nat
  BY <1>2, <1>3, SetInduction
<1>5. \E g \in [0 .. Len(body) -> Int] : Sums(Len(body), g)
  BY <1>4 DEF S, There
<1> DEFINE c == CHOOSE g : Sums(Len(body), g)
<1>6. GroupedQuantity(body, p) = c[Len(body)]
  BY DEF GroupedQuantity, more
<1>7. Sums(Len(body), c)
  BY <1>5
<1> HIDE DEF c
<1> DEFINE S2 == {k \in Nat : k <= Len(body) => c[k] \in Int}
<1>8. 0 \in S2
  BY <1>4, <1>7
<1>9. ASSUME NEW k \in Nat, k \in S2 PROVE k + 1 \in S2
  <2> SUFFICES ASSUME k + 1 <= Len(body) PROVE c[k + 1] \in Int
    OBVIOUS
  <2>1. k \in 0 .. Len(body) /\ k + 1 \in 1 .. Len(body) /\ k + 1 # 0 /\ (k + 1) - 1 = k
    BY <1>4
  <2>2. c[k] \in Int /\ more(k + 1) \in Int
    BY <1>1, <1>9, <2>1
  <2>3. c[k + 1] = c[k] + more(k + 1)
    BY <1>7, <2>1
  <2> QED
    BY <2>2, <2>3
<1> HIDE DEF S2
<1>10. Len(body) \in S2
  BY <1>4, <1>8, <1>9, SetInduction
<1>11. c[Len(body)] \in Int
  BY <1>10 DEF S2
<1>12. Units(body, p) = GroupedQuantity(body, p)
  BY DEF GroupedQuantity, Units
<1> QED
  BY <1>6, <1>11, <1>12

\* What After says of a sequence s of requests whose inputs are those of in.
AfterWith(s, in) ==
    LET basket[n \in 0 .. Len(s)] ==
          IF n = 0 THEN Empty ELSE Meaning(basket[n - 1], in[s[n]], s[n])
    IN  basket[Len(s)]

LEMMA AfterIs == \A s : After(s) = AfterWith(s, input)
BY DEF After, AfterWith

\* It is the end of a chain of baskets.
Chain(s, in, g) ==
    /\ g[0] = Empty
    /\ \A n \in 1 .. Len(s) : g[n] = Meaning(g[n - 1], in[s[n]], s[n])

LEMMA ChainThere ==
    ASSUME NEW s \in Seq(Requests), NEW in
    PROVE  \E g : Chain(s, in, g) /\ AfterWith(s, in) = g[Len(s)]
<1> DEFINE next(f, k) == Meaning(f, in[s[k]], s[k])
           Grows(m, g) == g = [n \in 0 .. m |-> IF n = 0 THEN Empty ELSE next(g[n - 1], n)]
           S == {m \in Nat : \E g : Grows(m, g)}
           c == CHOOSE g : Grows(Len(s), g)
<1>1. AfterWith(s, in) = c[Len(s)]
  BY DEF AfterWith
<1> HIDE DEF next
<1>2. 0 \in S
  <2>1. Grows(0, [n \in 0 .. 0 |-> Empty])
    OBVIOUS
  <2> QED
    BY <2>1
<1>3. ASSUME NEW m \in Nat, m \in S PROVE m + 1 \in S
  <2>1. PICK g : Grows(m, g)
    BY <1>3
  <2> DEFINE h == [n \in 0 .. m + 1 |-> IF n = m + 1 THEN next(g[m], m + 1) ELSE g[n]]
  <2>2. \A n \in 0 .. m + 1 : h[n] = IF n = 0 THEN Empty ELSE next(h[n - 1], n)
    <3> SUFFICES ASSUME NEW n \in 0 .. m + 1 PROVE h[n] = IF n = 0 THEN Empty ELSE next(h[n - 1], n)
      OBVIOUS
    <3>1. CASE n = m + 1
      BY <3>1
    <3>2. CASE n # m + 1
      <4>1. n \in 0 .. m /\ h[n] = g[n] /\ (n # 0 => h[n - 1] = g[n - 1])
        BY <3>2
      <4>2. g[n] = IF n = 0 THEN Empty ELSE next(g[n - 1], n)
        BY <2>1, <4>1
      <4> QED
        BY <4>1, <4>2
    <3> QED
      BY <3>1, <3>2
  <2>3. Grows(m + 1, h)
    BY <2>2
  <2> HIDE DEF h
  <2>4. \E k : Grows(m + 1, k)
    BY <2>3
  <2> HIDE DEF Grows
  <2> QED
    BY <2>4
<1> HIDE DEF S
<1>4. Len(s) \in S /\ Len(s) \in Nat
  BY <1>2, <1>3, SetInduction
<1>5. Grows(Len(s), c)
  BY <1>4 DEF S
<1> HIDE DEF c
<1>6. Chain(s, in, c)
  <2>1. c[0] = Empty
    BY <1>4, <1>5
  <2>2. \A n \in 1 .. Len(s) : c[n] = next(c[n - 1], n)
    BY <1>4, <1>5
  <2> QED
    BY <2>1, <2>2 DEF Chain, next
<1> QED
  BY <1>1, <1>6

\* Chains of sequences that begin alike begin alike.
LEMMA ChainsAgree ==
    ASSUME NEW s \in Seq(Requests), NEW t \in Seq(Requests), Len(s) <= Len(t),
           NEW in, NEW jn, NEW g, NEW h, Chain(s, in, g), Chain(t, jn, h),
           \A n \in 1 .. Len(s) : s[n] = t[n] /\ in[s[n]] = jn[s[n]]
    PROVE  g[Len(s)] = h[Len(s)]
<1> DEFINE S == {n \in Nat : n <= Len(s) => g[n] = h[n]}
<1>1. 0 \in S
  BY DEF Chain
<1>2. ASSUME NEW n \in Nat, n \in S PROVE n + 1 \in S
  <2> SUFFICES ASSUME n + 1 <= Len(s) PROVE g[n + 1] = h[n + 1]
    OBVIOUS
  <2>1. Len(s) \in Nat /\ Len(t) \in Nat
    OBVIOUS
  <2>2. n + 1 \in 1 .. Len(s) /\ n + 1 \in 1 .. Len(t) /\ (n + 1) - 1 = n /\ g[n] = h[n]
    BY <1>2, <2>1
  <2>3. g[n + 1] = Meaning(g[n], in[s[n + 1]], s[n + 1]) /\ h[n + 1] = Meaning(h[n], jn[t[n + 1]], t[n + 1])
    BY <2>2 DEF Chain
  <2> QED
    BY <2>2, <2>3
<1> HIDE DEF S
<1>3. Len(s) \in S
  BY <1>1, <1>2, SetInduction
<1> QED
  BY <1>3 DEF S

LEMMA AfterNone == ASSUME NEW in PROVE AfterWith(<< >>, in) = Empty
<1>1. << >> \in Seq(Requests) /\ Len(<< >>) = 0
  OBVIOUS
<1>2. PICK g : Chain(<< >>, in, g) /\ AfterWith(<< >>, in) = g[0]
  BY <1>1, ChainThere
<1> QED
  BY <1>2 DEF Chain

\* One request more.
LEMMA AfterOne ==
    ASSUME NEW s \in Seq(Requests), NEW r \in Requests, NEW in
    PROVE  AfterWith(Append(s, r), in) = Meaning(AfterWith(s, in), in[r], r)
<1> DEFINE t == Append(s, r)
<1>1. /\ t \in Seq(Requests) /\ Len(s) \in Nat /\ Len(t) = Len(s) + 1 /\ t[Len(s) + 1] = r
      /\ \A n \in 1 .. Len(s) : s[n] = t[n]
  OBVIOUS
<1> HIDE DEF t
<1>2. PICK g : Chain(s, in, g) /\ AfterWith(s, in) = g[Len(s)]
  BY ChainThere
<1>3. PICK h : Chain(t, in, h) /\ AfterWith(t, in) = h[Len(t)]
  BY <1>1, ChainThere
<1>4. g[Len(s)] = h[Len(s)]
  BY <1>1, <1>2, <1>3, ChainsAgree
<1>5. Len(s) + 1 \in 1 .. Len(t) /\ (Len(s) + 1) - 1 = Len(s)
  BY <1>1
<1>6. h[Len(s) + 1] = Meaning(h[Len(s)], in[t[Len(s) + 1]], t[Len(s) + 1])
  BY <1>3, <1>5 DEF Chain
<1> QED
  BY <1>1, <1>2, <1>3, <1>4, <1>6 DEF t

\* Only the inputs of its requests count.
LEMMA AfterSame ==
    ASSUME NEW s \in Seq(Requests), NEW in, NEW jn, \A n \in 1 .. Len(s) : in[s[n]] = jn[s[n]]
    PROVE  AfterWith(s, in) = AfterWith(s, jn)
<1>1. PICK g : Chain(s, in, g) /\ AfterWith(s, in) = g[Len(s)]
  BY ChainThere
<1>2. PICK h : Chain(s, jn, h) /\ AfterWith(s, jn) = h[Len(s)]
  BY ChainThere
<1>3. Len(s) \in Nat /\ Len(s) <= Len(s)
  OBVIOUS
<1>4. g[Len(s)] = h[Len(s)]
  BY <1>1, <1>2, <1>3, ChainsAgree
<1> QED
  BY <1>1, <1>2, <1>4

-----------------------------------------------------------------------------
(* Baskets as functions from products.                                        *)

OneEach(items) == \A k, l \in items : k.product = l.product => k = l

\* A basket that may be stored or changed.
Proper(items) == items \subseteq Lines /\ IsFiniteSet(items) /\ OneEach(items)

LEMMA AtMostOne ==
    ASSUME NEW S, IsFiniteSet(S)
    PROVE  Cardinality(S) <= 1 <=> \A x, y \in S : x = y
<1>1. Cardinality(S) \in Nat
  BY FS_CardinalityType
<1>2. Cardinality(S) <= 1 => \A x, y \in S : x = y
  BY <1>1, FS_EmptySet, FS_Singleton
<1>3. ASSUME \A x, y \in S : x = y PROVE Cardinality(S) <= 1
  <2>1. CASE S = {}
    BY <2>1, FS_EmptySet
  <2>2. CASE S # {}
    <3>1. PICK x \in S : TRUE
      BY <2>2
    <3>2. S = {x}
      BY <1>3, <3>1
    <3> QED
      BY <3>2, FS_Singleton
  <2> QED
    BY <2>1, <2>2
<1> QED
  BY <1>2, <1>3

LEMMA DistinctIs ==
    ASSUME NEW items, items \subseteq Lines, IsFiniteSet(items)
    PROVE  Distinct(items) <=> OneEach(items)
<1>1. \A p : IsFiniteSet(OfProduct(items, p))
  BY FS_Subset DEF OfProduct
<1>2. \A p : Cardinality(OfProduct(items, p)) <= 1 <=> \A x, y \in OfProduct(items, p) : x = y
  BY <1>1, AtMostOne
<1>3. \A l \in items : l.product \in Products
  BY DEF Lines
<1>4. Distinct(items) <=> \A p \in Products : \A x, y \in OfProduct(items, p) : x = y
  BY <1>2 DEF Distinct
<1> QED
  BY <1>3, <1>4 DEF OneEach, OfProduct

LEMMA SetsAreBaskets == \A items \in SUBSET Lines : items # NoBasket
BY NullAssumption DEF NoBasket

Entry(l) == [id |-> l.id, units |-> l.quantity]

\* What Keyed says of a basket, line by line.
LEMMA KeyedAt ==
    ASSUME NEW items \in SUBSET Lines, OneEach(items)
    PROVE  /\ Keyed(items) = [p \in Products |-> Keyed(items)[p]]
           /\ \A p \in Products : (\A l \in items : l.product # p) => Keyed(items)[p] = None
           /\ \A l \in items : l.product \in Products /\ Keyed(items)[l.product] = Entry(l)
<1>1. items # NoBasket
  BY SetsAreBaskets
<1>2. Keyed(items) = [p \in Products |-> Keyed(items)[p]]
  BY DEF Keyed
<1>3. \A p \in Products : (\A l \in items : l.product # p) => Keyed(items)[p] = None
  BY DEF Keyed, OfProduct
<1>4. ASSUME NEW l \in items PROVE l.product \in Products /\ Keyed(items)[l.product] = Entry(l)
  <2>1. l.product \in Products
    BY DEF Lines
  <2>2. OfProduct(items, l.product) # {}
    BY DEF OfProduct
  <2>3. (CHOOSE k \in items : k.product = l.product) = l
    BY DEF OneEach
  <2> QED
    BY <1>1, <2>1, <2>2, <2>3 DEF Keyed, Entry
<1> QED
  BY <1>2, <1>3, <1>4

\* ... and a function of which that is true is Keyed.
LEMMA KeyedIs ==
    ASSUME NEW items \in SUBSET Lines, OneEach(items), NEW f, f = [p \in Products |-> f[p]],
           \A p \in Products : (\A l \in items : l.product # p) => f[p] = None,
           \A l \in items : f[l.product] = Entry(l)
    PROVE  Keyed(items) = f
<1>1. \A p \in Products : Keyed(items)[p] = f[p]
  BY KeyedAt
<1> QED
  BY <1>1, KeyedAt

LEMMA KeyedEmpty == Keyed({}) = Empty /\ Keyed(NoBasket) = Empty
BY DEF Keyed, Empty, OfProduct

\* No entry is null.
LEMMA EntryThere ==
    \A l \in Lines : /\ Entry(l) # None /\ Entry(l).id = l.id /\ Entry(l).units = l.quantity
BY NullAssumption DEF Entry, Lines

\* The lines the aggregator gets of a basket.
Items(basket) == IF Seen(basket) = NoBasket THEN {} ELSE Seen(basket)

LEMMA SeenMeans ==
    ASSUME NEW basket, basket = NoBasket \/ Proper(basket)
    PROVE  /\ Visible(Keyed(basket)) = Keyed(Items(basket))
           /\ Proper(Items(basket)) /\ \A l \in Items(basket) : l.id \in Ids
<1>0. Proper({})
  BY FS_EmptySet DEF Proper, OneEach
<1>1. CASE basket = NoBasket
  <2>1. Visible(Empty) = Empty
    BY DEF Visible, Empty
  <2>2. Items(basket) = {}
    BY <1>1 DEF Items, Seen
  <2> QED
    BY <1>0, <1>1, <2>1, <2>2, KeyedEmpty
<1>2. CASE Proper(basket)
  <2> DEFINE f == Keyed(basket)
  <2>0. basket \in SUBSET Lines /\ OneEach(basket) /\ basket # NoBasket
    BY <1>2, SetsAreBaskets DEF Proper
  <2>1. CASE \E l \in basket : l.id = None
    <3>1. Items(basket) = {}
      BY <2>1 DEF Items, Seen
    <3>2. PICK l \in basket : l.id = None
      BY <2>1
    <3>3. l.product \in Products /\ f[l.product] # None /\ f[l.product].id = None
      BY <2>0, <3>2, KeyedAt, EntryThere
    <3>4. Visible(f) = Empty
      BY <3>3 DEF Visible
    <3> QED
      BY <1>0, <3>1, <3>4, KeyedEmpty
  <2>2. CASE \A l \in basket : l.id # None
    <3>1. Items(basket) = basket
      BY <2>0, <2>2 DEF Items, Seen
    <3>2. \A l \in basket : l.id \in Ids
      BY <2>0, <2>2 DEF Lines
    <3>3. ASSUME NEW p \in Products, f[p] # None, f[p].id = None PROVE FALSE
      <4>1. PICK l \in basket : l.product = p
        BY <2>0, <3>3, KeyedAt
      <4>2. f[p] = Entry(l) /\ l \in Lines
        BY <2>0, <4>1, KeyedAt
      <4>3. Entry(l).id = l.id
        BY <4>2, EntryThere
      <4> QED
        BY <2>2, <3>3, <4>1, <4>2, <4>3
    <3>4. Visible(f) = f
      BY <3>3 DEF Visible
    <3> QED
      BY <1>2, <3>1, <3>2, <3>4
  <2> QED
    BY <2>1, <2>2
<1> QED
  BY <1>1, <1>2

-----------------------------------------------------------------------------
(* The handlers.  What a handler writes means what the request means, and     *)
(* where it writes nothing the request means nothing.                         *)

Kept(items) == {l \in items : l.id # None}

\* The aggregator's copy, and the basket it stands for.
Copy(items, f0) ==
    /\ Proper(items) /\ \A l \in items : l.id \in Ids
    /\ Visible(f0) = Keyed(items)

Right(res, f0, i, r) ==
    \/ /\ res.write = TRUE /\ Proper(res.items)
       /\ Keyed(Kept(res.items)) = Meaning(f0, i, r)
    \/ /\ res.write = FALSE /\ res.answer \in {"badRequest", "error"}
       /\ f0 = Meaning(f0, i, r)

LEMMA InputTypes ==
    ASSUME NEW i \in Inputs
    PROVE  /\ i.op \in {"add", "updateAll", "setQuantities", "post", "checkout", "delete"}
           /\ i.op = "add" => i.product \in Products /\ i.quantity \in Int
           /\ i.op = "updateAll" => i.lines \in Seq(Lines)
           /\ i.op = "setQuantities" => i.updates \in Seq([id : Ids, quantity : Int])
           /\ i.op = "post" => i.lines \in Posted /\ i.lines \subseteq Lines /\ IsFiniteSet(i.lines)
BY CatalogAssumption, BodiesAssumption DEF Inputs

LEMMA KeptProper ==
    ASSUME NEW items, Proper(items)
    PROVE  Proper(Kept(items))
<1>1. Kept(items) \subseteq items
  BY DEF Kept
<1>2. IsFiniteSet(Kept(items))
  BY <1>1, FS_Subset DEF Proper
<1> QED
  BY <1>1, <1>2 DEF Proper, OneEach

LEMMA AddMeans ==
    ASSUME NEW items, NEW f0, Copy(items, f0), NEW r \in Requests,
           NEW i \in Inputs, i.op = "add", ~Rejected(i)
    PROVE  Right(AddBasketItem(items, r, i.product, i.quantity), f0, i, r)
<1> DEFINE p == i.product
           q == i.quantity
           f == Keyed(items)
           old == OfProduct(items, p)
           e == IF f[p] = None THEN [id |-> r, units |-> q] ELSE [id |-> f[p].id, units |-> f[p].units + q]
           g == [f EXCEPT ![p] = e]
<1>1. p \in Products /\ q \in Int
  BY InputTypes
<1>2. Meaning(f0, i, r) = IF p \notin Catalog THEN f0 ELSE g
  <2>1. Visible(f0) = f
    BY DEF Copy
  <2> HIDE DEF f
  <2> QED
    BY <2>1 DEF Meaning
<1>3. Proper(items) /\ items \in SUBSET Lines /\ OneEach(items) /\ IsFiniteSet(items)
  BY DEF Copy, Proper
<1>4. /\ f = [k \in Products |-> f[k]]
      /\ \A k \in Products : (\A l \in items : l.product # k) => f[k] = None
      /\ \A l \in items : l.product \in Products /\ f[l.product] = Entry(l)
  BY <1>3, KeyedAt
<1>5. CASE p \notin Catalog
  BY <1>2, <1>5 DEF Right, AddBasketItem, Reply
<1>6. CASE p \in Catalog /\ old = {}
  <2> DEFINE n == [id |-> r, product |-> p, quantity |-> q]
             new == items \cup {n}
  <2>1. AddBasketItem(items, r, p, q) = ToWrite(new)
    <3>1. Cardinality(old) = 0
      BY <1>6, FS_EmptySet
    <3> QED
      BY <1>6, <3>1 DEF AddBasketItem
  <2>2. n \in Lines /\ n.id # None
    BY <1>1, NullAssumption DEF Lines, Ids
  <2>3. \A l \in items : l.product # p
    BY <1>6 DEF OfProduct
  <2>4. IsFiniteSet(new)
    <3> HIDE DEF n
    <3> QED
      BY <1>3, FS_AddElement
  <2>5. new \in SUBSET Lines /\ OneEach(new) /\ Kept(new) = new
    <3>1. \A l \in items : l.id # None
      BY NullAssumption DEF Copy
    <3> QED
      BY <1>3, <2>2, <2>3, <3>1 DEF OneEach, Kept
  <2>6. f[p] = None /\ e = Entry(n)
    BY <1>1, <1>4, <2>3 DEF Entry
  <2>7. Keyed(new) = g
    <3>1. g = [k \in Products |-> g[k]]
      BY <1>4
    <3>2. \A k \in Products : (\A l \in new : l.product # k) => g[k] = None
      <4>1. n \in new /\ n.product = p
        OBVIOUS
      <4> QED
        BY <1>4, <4>1
    <3>3. \A l \in new : g[l.product] = Entry(l)
      BY <1>1, <1>4, <2>3, <2>6
    <3> HIDE DEF g, new
    <3> QED
      BY <2>5, <3>1, <3>2, <3>3, KeyedIs
  <2> QED
    BY <1>2, <1>6, <2>1, <2>4, <2>5, <2>7 DEF Right, ToWrite, Proper
<1>7. CASE p \in Catalog /\ old # {}
  <2>1. PICK l0 \in items : l0.product = p
    BY <1>7 DEF OfProduct
  <2>2. old = {l0}
    BY <1>3, <2>1 DEF OneEach, OfProduct
  <2> DEFINE n == [l0 EXCEPT !.quantity = @ + q]
             new == (items \ {l0}) \cup {n}
  <2>3. AddBasketItem(items, r, p, q) = ToWrite(new)
    <3>1. Cardinality(old) = 1
      BY <2>2, FS_Singleton
    <3>2. {[l EXCEPT !.quantity = @ + q] : l \in old} = {n}
      BY <2>2
    <3> QED
      BY <1>7, <2>2, <3>1, <3>2 DEF AddBasketItem
  <2>4. /\ l0 \in Lines /\ n \in Lines /\ n.product = p /\ n.id = l0.id
        /\ n.quantity = l0.quantity + q /\ n.id # None
    BY <1>1, <1>3, <2>1, NullAssumption DEF Lines, Copy
  <2>5. IsFiniteSet(new)
    BY <1>3, FS_RemoveElement, FS_AddElement
  <2>6. \A l \in items \ {l0} : l.product # p
    BY <2>2 DEF OfProduct
  <2>7. new \in SUBSET Lines /\ OneEach(new) /\ Kept(new) = new
    <3>1. \A l \in items : l.id # None
      BY NullAssumption DEF Copy
    <3> HIDE DEF n
    <3> QED
      BY <1>3, <2>4, <2>6, <3>1 DEF OneEach, Kept
  <2>8. f[p] = Entry(l0) /\ f[p] # None /\ e = Entry(n)
    BY <1>4, <2>1, <2>4, EntryThere DEF Entry
  <2>9. Keyed(new) = g
    <3>1. g = [k \in Products |-> g[k]]
      BY <1>4
    <3> HIDE DEF n, e
    <3>2. \A k \in Products : (\A l \in new : l.product # k) => g[k] = None
      BY <1>1, <1>4, <2>1, <2>4
    <3>3. \A l \in new : g[l.product] = Entry(l)
      BY <1>1, <1>4, <2>4, <2>6, <2>8
    <3> HIDE DEF g, new
    <3> QED
      BY <2>7, <3>1, <3>2, <3>3, KeyedIs
  <2> HIDE DEF new, g
  <2> QED
    BY <1>2, <1>7, <2>3, <2>5, <2>7, <2>9 DEF Right, ToWrite, Proper
<1> QED
  BY <1>5, <1>6, <1>7

LEMMA ImageFinite ==
    ASSUME NEW S, IsFiniteSet(S), NEW f
    PROVE  IsFiniteSet({f[x] : x \in S})
<1> DEFINE T == {f[x] : x \in S}
           g == [x \in S |-> f[x]]
<1>1. g \in Surjection(S, T)
  BY DEF Surjection
<1> HIDE DEF g
<1> QED
  BY <1>1, FS_Surjection

\* The lines of a body and their products.
LEMMA BodyFacts ==
    ASSUME NEW body \in Seq(Lines)
    PROVE  /\ IsFiniteSet({body[k].product : k \in DOMAIN body})
           /\ \A p \in {body[k].product : k \in DOMAIN body} :
                 p \in Products /\ First(body, p) \in Lines /\ First(body, p).product = p
<1>1. DOMAIN body = 1 .. Len(body) /\ Len(body) \in Nat
  OBVIOUS
<1>2. IsFiniteSet({body[k].product : k \in DOMAIN body})
  <2> DEFINE h == [k \in DOMAIN body |-> body[k].product]
  <2>1. {h[k] : k \in DOMAIN body} = {body[k].product : k \in DOMAIN body}
    OBVIOUS
  <2>2. IsFiniteSet(DOMAIN body)
    BY <1>1, FS_Interval
  <2> HIDE DEF h
  <2> QED
    BY <2>1, <2>2, ImageFinite
<1>3. ASSUME NEW k \in DOMAIN body, NEW p, p = body[k].product
      PROVE  p \in Products /\ First(body, p) \in Lines /\ First(body, p).product = p
  <2>1. body[k] \in Lines
    BY <1>1
  <2>2. Of(body, p) # {} /\ Of(body, p) \in SUBSET (1 .. Len(body))
    BY <1>1, <1>3 DEF Of
  <2>3. Min(Of(body, p)) \in Of(body, p)
    BY <1>1, <2>2, MinPlace
  <2>4. Min(Of(body, p)) \in DOMAIN body /\ body[Min(Of(body, p))].product = p
    BY <2>3 DEF Of
  <2>5. body[Min(Of(body, p))] \in Lines
    BY <1>1, <2>4
  <2> QED
    BY <1>3, <2>1, <2>4, <2>5 DEF First, Lines
<1> QED
  BY <1>2, <1>3

LEMMA UpdateAllMeans ==
    ASSUME NEW items, NEW f0, Copy(items, f0), NEW r \in Requests,
           NEW i \in Inputs, i.op = "updateAll", ~Rejected(i)
    PROVE  Right(UpdateAllBasket(items, i.lines), f0, i, r)
<1> DEFINE body == i.lines
           f == Keyed(items)
           U(p) == GroupedQuantity(body, p)
           named == {body[k].product : k \in DOMAIN body}
           new == {p \in named : OfProduct(items, p) = {}}
           changed(l) == IF l.product \in named THEN [l EXCEPT !.quantity = U(l.product)] ELSE l
           added(p) == [First(body, p) EXCEPT !.quantity = U(p)]
           all == {changed(l) : l \in items} \cup {added(p) : p \in new}
           At(p) == {k \in DOMAIN body : body[k].product = p}
           g == [p \in Products |->
                    IF At(p) = {} THEN f[p]
                    ELSE IF f[p] # None THEN [f[p] EXCEPT !.units = Units(body, p)]
                    ELSE IF First(body, p).id = None THEN None
                    ELSE [id |-> First(body, p).id, units |-> Units(body, p)]]
<1>1. body \in Seq(Lines) /\ body # << >>
  BY InputTypes DEF Rejected
<1>2. Meaning(f0, i, r) = IF \E k \in DOMAIN body : body[k].product \notin Catalog THEN f0 ELSE g
  <2>1. Visible(f0) = f
    BY DEF Copy
  <2> HIDE DEF f
  <2> QED
    BY <2>1 DEF Meaning, First, Of
<1>3. Proper(items) /\ items \in SUBSET Lines /\ OneEach(items) /\ IsFiniteSet(items)
  BY DEF Copy, Proper
<1>4. /\ f = [k \in Products |-> f[k]]
      /\ \A k \in Products : (\A l \in items : l.product # k) => f[k] = None
      /\ \A l \in items : l.product \in Products /\ f[l.product] = Entry(l)
  BY <1>3, KeyedAt
<1>5. /\ IsFiniteSet(named)
      /\ \A p \in named : p \in Products /\ First(body, p) \in Lines /\ First(body, p).product = p
  BY <1>1, BodyFacts
<1>6. UpdateAllBasket(items, body) =
        IF named \cap Catalog = {} THEN Reply("error")
        ELSE IF ~(named \subseteq Catalog) THEN Reply("badRequest")
        ELSE ToWrite(all)
  BY DEF UpdateAllBasket
<1>7. CASE ~(named \subseteq Catalog)
  BY <1>2, <1>6, <1>7 DEF Right, Reply
<1>8. CASE named \subseteq Catalog
  <2>1. named # {}
    <3>1. 1 \in DOMAIN body
      BY <1>1
    <3> QED
      BY <3>1
  <2>2. Meaning(f0, i, r) = g /\ UpdateAllBasket(items, body) = ToWrite(all)
    BY <1>2, <1>6, <1>8, <2>1
  <2>3. \A p : U(p) \in Int /\ Units(body, p) = U(p)
    BY <1>1, UnitsType
  <2> HIDE DEF U, body, f
  <2>4. \A p \in Products : At(p) = {} <=> p \notin named
    OBVIOUS
  <2>5. \A l \in items :
          /\ l \in Lines /\ changed(l) \in Lines /\ changed(l).product = l.product /\ changed(l).id = l.id
          /\ l.id # None
          /\ changed(l).quantity = IF l.product \in named THEN U(l.product) ELSE l.quantity
    BY <1>3, <2>3, NullAssumption DEF Lines, Copy
  <2>6. \A p \in new :
          /\ added(p) \in Lines /\ added(p).product = p /\ added(p).id = First(body, p).id
          /\ added(p).quantity = U(p) /\ p \in Products /\ p \in named
          /\ \A l \in items : l.product # p
    BY <1>5, <2>3 DEF Lines, OfProduct
  <2>7. IsFiniteSet(all)
    <3> DEFINE c == [l \in items |-> changed(l)]
               a == [p \in new |-> added(p)]
    <3>1. {c[l] : l \in items} = {changed(l) : l \in items} /\ {a[p] : p \in new} = {added(p) : p \in new}
      OBVIOUS
    <3>2. IsFiniteSet(new)
      <4>1. new \subseteq named
        OBVIOUS
      <4> HIDE DEF new, named
      <4> QED
        BY <1>5, <4>1, FS_Subset
    <3> HIDE DEF c, a, changed, added, new
    <3>3. IsFiniteSet({c[l] : l \in items}) /\ IsFiniteSet({a[p] : p \in new})
      BY <1>3, <3>2, ImageFinite
    <3> QED
      BY <3>1, <3>3, FS_Union
  <2> HIDE DEF changed, added
  <2>8. all \in SUBSET Lines /\ OneEach(all)
    <3>1. all \in SUBSET Lines
      BY <2>5, <2>6
    <3>2. ASSUME NEW k \in all, NEW l \in all, k.product = l.product PROVE k = l
      <4>1. CASE k \in {changed(x) : x \in items} /\ l \in {changed(x) : x \in items}
        BY <1>3, <2>5, <3>2, <4>1 DEF OneEach
      <4>2. CASE k \in {added(p) : p \in new} /\ l \in {added(p) : p \in new}
        BY <2>6, <3>2, <4>2
      <4>3. CASE k \in {changed(x) : x \in items} /\ l \in {added(p) : p \in new}
        BY <2>5, <2>6, <3>2, <4>3
      <4>4. CASE k \in {added(p) : p \in new} /\ l \in {changed(x) : x \in items}
        BY <2>5, <2>6, <3>2, <4>4
      <4> QED
        BY <4>1, <4>2, <4>3, <4>4
    <3> QED
      BY <3>1, <3>2 DEF OneEach
  <2>9. Keyed(Kept(all)) = g
    <3>1. g = [p \in Products |-> g[p]]
      OBVIOUS
    <3>2. Kept(all) \in SUBSET Lines /\ OneEach(Kept(all))
      BY <2>8 DEF Kept, OneEach
    <3>3. ASSUME NEW p \in Products, \A l \in Kept(all) : l.product # p PROVE g[p] = None
      <4>1. \A l \in items : l.product # p
        BY <2>5, <3>3 DEF Kept
      <4>2. f[p] = None
        BY <1>4, <4>1
      <4>3. CASE p \in named
        <5>1. p \in new
          BY <4>1, <4>3 DEF OfProduct
        <5>2. added(p).id = None
          BY <2>6, <3>3, <5>1 DEF Kept
        <5>3. First(body, p).id = None
          BY <2>6, <5>1, <5>2
        <5> HIDE DEF At
        <5> QED
          BY <2>4, <4>2, <4>3, <5>3
      <4>4. CASE p \notin named
        <5> HIDE DEF At
        <5> QED
          BY <2>4, <4>2, <4>4
      <4> QED
        BY <4>3, <4>4
    <3>4. ASSUME NEW l \in Kept(all) PROVE g[l.product] = Entry(l)
      <4>1. CASE \E x \in items : l = changed(x)
        <5>1. PICK x \in items : l = changed(x)
          BY <4>1
        <5>2. /\ l.product = x.product /\ l.id = x.id /\ x.product \in Products
              /\ f[l.product] = Entry(x) /\ Entry(x) # None
              /\ l.quantity = IF x.product \in named THEN U(x.product) ELSE x.quantity
          BY <1>4, <2>5, <5>1, EntryThere
        <5> HIDE DEF At
        <5>3. CASE x.product \in named
          <6>1. g[l.product] = [Entry(x) EXCEPT !.units = U(x.product)]
            BY <2>3, <2>4, <5>2, <5>3
          <6> QED
            BY <5>2, <5>3, <6>1 DEF Entry
        <5>4. CASE x.product \notin named
          <6>1. g[l.product] = Entry(x)
            BY <2>4, <5>2, <5>4
          <6> QED
            BY <5>2, <5>4, <6>1 DEF Entry
        <5> QED
          BY <5>3, <5>4
      <4>2. CASE \E p \in new : l = added(p)
        <5>1. PICK p \in new : l = added(p)
          BY <4>2
        <5>2. /\ l.product = p /\ l.id = First(body, p).id /\ l.quantity = U(p)
              /\ p \in Products /\ p \in named /\ f[p] = None
          BY <1>4, <2>6, <5>1
        <5>3. l.id # None
          BY DEF Kept
        <5> HIDE DEF At
        <5>4. g[p] = [id |-> First(body, p).id, units |-> U(p)]
          BY <2>3, <2>4, <5>2, <5>3
        <5> QED
          BY <5>2, <5>4 DEF Entry
      <4> QED
        BY <4>1, <4>2 DEF Kept
    <3> HIDE DEF g, all
    <3> QED
      BY <3>1, <3>2, <3>3, <3>4, KeyedIs
  <2> HIDE DEF g, all
  <2> QED
    BY <2>2, <2>7, <2>8, <2>9 DEF Right, ToWrite, Proper, body
<1> HIDE DEF named
<1> QED
  BY <1>7, <1>8

\* An id names one line of the copy if it names one product of the basket.
LEMMA OneNamed ==
    ASSUME NEW items, Proper(items), NEW x
    PROVE  LET f == Keyed(items)
               names == {p \in Products : f[p] # None /\ f[p].id = x}
           IN  Cardinality(WithId(items, x)) = 1 <=> Cardinality(names) = 1
<1> DEFINE f == Keyed(items)
           mine == WithId(items, x)
           names == {p \in Products : f[p] # None /\ f[p].id = x}
           product == [l \in mine |-> l.product]
<1>1. items \in SUBSET Lines /\ OneEach(items) /\ IsFiniteSet(items)
  BY DEF Proper
<1>2. IsFiniteSet(mine)
  BY <1>1, FS_Subset DEF WithId
<1>3. /\ \A p \in Products : (\A l \in items : l.product # p) => f[p] = None
      /\ \A l \in items : l.product \in Products /\ f[l.product] = Entry(l)
  BY <1>1, KeyedAt
<1>4. \A l \in items : Entry(l) # None /\ Entry(l).id = l.id
  BY <1>1, EntryThere
<1> HIDE DEF f
<1>5. names = {product[l] : l \in mine}
  <2>1. ASSUME NEW p \in names PROVE \E l \in mine : product[l] = p
    <3>1. PICK l \in items : l.product = p
      BY <1>3
    <3>2. l.id = x
      BY <1>3, <1>4, <3>1
    <3> QED
      BY <3>1, <3>2 DEF WithId
  <2>2. ASSUME NEW l \in mine PROVE product[l] \in names
    BY <1>3, <1>4 DEF WithId
  <2> HIDE DEF names, product, mine
  <2> QED
    BY <2>1, <2>2
<1>6. IsFiniteSet(names)
  <2> HIDE DEF mine, names, product
  <2> QED
    BY <1>2, <1>5, ImageFinite
<1>7. \A l \in mine : l \in items /\ product[l] = l.product
  BY DEF WithId
<1> HIDE DEF mine, names, product
<1>8. ASSUME NEW l, mine = {l} PROVE \E p : names = {p}
  <2>1. names = {product[l]}
    BY <1>5, <1>8
  <2> QED
    BY <2>1
<1>9. ASSUME NEW p, names = {p} PROVE \E l : mine = {l}
  <2>1. PICK l \in mine : p = product[l]
    BY <1>5, <1>9
  <2>2. \A k \in mine : product[k] = p
    BY <1>5, <1>9
  <2>3. \A k \in mine : k = l
    BY <1>1, <1>7, <2>1, <2>2 DEF OneEach
  <2>4. mine = {l}
    BY <2>1, <2>3
  <2> QED
    BY <2>4
<1>10. Cardinality(mine) = 1 <=> Cardinality(names) = 1
  BY <1>2, <1>6, <1>8, <1>9, FS_Singleton
<1> QED
  BY <1>10 DEF f, mine, names

LEMMA ElementsOf ==
    ASSUME NEW V, NEW s \in Seq(V)
    PROVE  \A k \in 1 .. Len(s) : s[k] \in V
OBVIOUS

LEMMA SetQuantitiesMeans ==
    ASSUME NEW items, NEW f0, Copy(items, f0), NEW r \in Requests,
           NEW i \in Inputs, i.op = "setQuantities", ~Rejected(i)
    PROVE  /\ Right(UpdateQuantities(items, i.updates), f0, i, r)
           /\ items = {} => Right(Reply("badRequest"), f0, i, r)
<1> DEFINE updates == i.updates
           f == Keyed(items)
           Names(x) == {p \in Products : f[p] # None /\ f[p].id = x}
           wrong == {k \in DOMAIN updates : Cardinality(WithId(items, updates[k].id)) # 1}
           For(l) == {k \in DOMAIN updates : updates[k].id = l.id}
           changed(l) == IF For(l) = {} THEN l
                         ELSE [l EXCEPT !.quantity = updates[Max(For(l))].quantity]
           all == {changed(l) : l \in items}
           mine(p) == {k \in DOMAIN updates : p \in Names(updates[k].id)}
           g == [p \in Products |-> IF mine(p) = {} THEN f[p]
                                    ELSE [f[p] EXCEPT !.units = updates[Max(mine(p))].quantity]]
<1>1. updates \in Seq([id : Ids, quantity : Int]) /\ updates # << >>
  BY InputTypes DEF Rejected
<1>2. Meaning(f0, i, r) = IF \E k \in DOMAIN updates : Cardinality(Names(updates[k].id)) # 1 THEN f0 ELSE g
  <2>1. Visible(f0) = f
    BY DEF Copy
  <2> HIDE DEF f
  <2> QED
    BY <2>1 DEF Meaning
<1>3. Proper(items) /\ items \in SUBSET Lines /\ OneEach(items) /\ IsFiniteSet(items)
  BY DEF Copy, Proper
<1>4. /\ f = [k \in Products |-> f[k]]
      /\ \A k \in Products : (\A l \in items : l.product # k) => f[k] = None
      /\ \A l \in items : l.product \in Products /\ f[l.product] = Entry(l)
  BY <1>3, KeyedAt
<1>5. \A x : Cardinality(WithId(items, x)) = 1 <=> Cardinality(Names(x)) = 1
  BY <1>3, OneNamed
<1>6. /\ wrong # {} => /\ UpdateQuantities(items, updates).write = FALSE
                       /\ UpdateQuantities(items, updates).answer \in {"badRequest", "error"}
      /\ wrong = {} => UpdateQuantities(items, updates) = ToWrite(all)
  BY DEF UpdateQuantities, Reply
<1>7. wrong # {} <=> \E k \in DOMAIN updates : Cardinality(Names(updates[k].id)) # 1
  <2> HIDE DEF Names
  <2> QED
    BY <1>5
<1>8. ASSUME items = {} PROVE Right(Reply("badRequest"), f0, i, r)
  <2>1. Cardinality(WithId(items, updates[1].id)) # 1
    BY <1>8, FS_EmptySet DEF WithId
  <2>2. 1 \in DOMAIN updates
    BY <1>1
  <2>3. wrong # {}
    BY <2>1, <2>2
  <2> HIDE DEF wrong, Names
  <2> QED
    BY <1>2, <1>7, <2>3 DEF Right, Reply
<1>9. CASE wrong # {}
  <2> HIDE DEF wrong, Names
  <2> QED
    BY <1>2, <1>6, <1>7, <1>8, <1>9 DEF Right
<1>10. CASE wrong = {}
  <2>1. Meaning(f0, i, r) = g /\ UpdateQuantities(items, updates) = ToWrite(all)
    <3> HIDE DEF wrong, Names, g, all
    <3> QED
      BY <1>2, <1>6, <1>7, <1>10
  <2> HIDE DEF wrong, f
  <2>2. ASSUME NEW l, For(l) # {} PROVE updates[Max(For(l))].quantity \in Int
    <3>1. DOMAIN updates = 1 .. Len(updates) /\ Len(updates) \in Nat
      BY <1>1
    <3>2. For(l) \in SUBSET (1 .. Len(updates))
      BY <3>1
    <3>3. Max(For(l)) \in For(l)
      BY <2>2, <3>1, <3>2, MaxPlace
    <3>4. Max(For(l)) \in 1 .. Len(updates)
      BY <3>2, <3>3
    <3>5. \A k \in 1 .. Len(updates) : updates[k] \in [id : Ids, quantity : Int]
      BY <1>1, ElementsOf
    <3>6. updates[Max(For(l))] \in [id : Ids, quantity : Int]
      BY <3>4, <3>5
    <3> QED
      BY <3>6
  <2>3. \A l \in items :
          /\ l \in Lines /\ changed(l) \in Lines /\ changed(l).product = l.product /\ changed(l).id = l.id
          /\ l.id # None
          /\ changed(l).quantity = IF For(l) = {} THEN l.quantity ELSE updates[Max(For(l))].quantity
    <3> SUFFICES ASSUME NEW l \in items
                 PROVE  /\ l \in Lines /\ changed(l) \in Lines /\ changed(l).product = l.product
                        /\ changed(l).id = l.id /\ l.id # None
                        /\ changed(l).quantity =
                             IF For(l) = {} THEN l.quantity ELSE updates[Max(For(l))].quantity
      OBVIOUS
    <3>1. For(l) # {} => updates[Max(For(l))].quantity \in Int
      BY <2>2
    <3> HIDE DEF For
    <3> QED
      BY <1>3, <3>1, NullAssumption DEF Lines, Copy
  <2>4. \A l \in items : mine(l.product) = For(l)
    BY <1>3, <1>4, EntryThere
  <2>5. \A p \in Products : f[p] = None => mine(p) = {}
    OBVIOUS
  <2> HIDE DEF mine
  <2>6. IsFiniteSet(all)
    <3> DEFINE c == [l \in items |-> changed(l)]
    <3>1. {c[l] : l \in items} = all
      OBVIOUS
    <3> HIDE DEF c, all
    <3> QED
      BY <1>3, <3>1, ImageFinite
  <2> HIDE DEF changed
  <2>7. all \in SUBSET Lines /\ OneEach(all) /\ Kept(all) = all
    <3>1. all \in SUBSET Lines
      BY <2>3
    <3>2. OneEach(all)
      <4>1. \A l \in items : changed(l).product = l.product
        BY <2>3
      <4>2. \A k, l \in items : changed(k).product = changed(l).product => k = l
        BY <1>3, <4>1 DEF OneEach
      <4> QED
        BY <4>2 DEF OneEach
    <3>3. Kept(all) = all
      BY <2>3 DEF Kept
    <3> QED
      BY <3>1, <3>2, <3>3
  <2>8. Keyed(all) = g
    <3>1. g = [p \in Products |-> g[p]]
      OBVIOUS
    <3>2. ASSUME NEW p \in Products, \A l \in all : l.product # p PROVE g[p] = None
      <4>1. \A l \in items : l.product # p
        BY <2>3, <3>2
      <4> QED
        BY <1>4, <2>5, <4>1
    <3>3. ASSUME NEW l \in all PROVE g[l.product] = Entry(l)
      <4>1. PICK x \in items : l = changed(x)
        OBVIOUS
      <4>2. /\ l.product = x.product /\ l.id = x.id /\ x.product \in Products
            /\ f[l.product] = Entry(x)
            /\ l.quantity = IF For(x) = {} THEN x.quantity ELSE updates[Max(For(x))].quantity
        BY <1>4, <2>3, <4>1
      <4>3. mine(x.product) = For(x)
        BY <2>4
      <4> HIDE DEF For
      <4>4. g[l.product] = IF For(x) = {} THEN Entry(x)
                           ELSE [Entry(x) EXCEPT !.units = updates[Max(For(x))].quantity]
        BY <4>2, <4>3
      <4> QED
        BY <4>2, <4>4 DEF Entry
    <3> HIDE DEF g, all
    <3> QED
      BY <2>7, <3>1, <3>2, <3>3, KeyedIs
  <2> HIDE DEF g, all
  <2>9. Right(ToWrite(all), f0, i, r)
    BY <2>1, <2>6, <2>7, <2>8 DEF Right, ToWrite, Proper
  <2> QED
    BY <1>8, <2>1, <2>9
<1> QED
  BY <1>9, <1>10

\* The types of what the handlers write, also from baskets with a product twice.
Sized(items) == items \subseteq Lines /\ IsFiniteSet(items)

Answering(res) ==
    \/ res.write = TRUE /\ Sized(res.items)
    \/ res.write = FALSE /\ res.answer \in {"badRequest", "error"}

LEMMA AddTypes ==
    ASSUME NEW items, Sized(items), NEW r \in Requests, NEW p \in Products, NEW q \in Int
    PROVE  Answering(AddBasketItem(items, r, p, q))
<1> DEFINE old == OfProduct(items, p)
           n == [id |-> r, product |-> p, quantity |-> q]
           h == [l \in old |-> [l EXCEPT !.quantity = @ + q]]
           more == (items \ old) \cup {[l EXCEPT !.quantity = @ + q] : l \in old}
<1>1. Sized(items \cup {n})
  <2>1. n \in Lines
    BY DEF Lines, Ids
  <2> HIDE DEF n
  <2> QED
    BY <2>1, FS_AddElement DEF Sized
<1>2. Sized(more)
  <2>1. old \subseteq items /\ items \ old \subseteq items
    BY DEF OfProduct
  <2>2. IsFiniteSet(old) /\ IsFiniteSet(items \ old)
    BY <2>1, FS_Subset DEF Sized
  <2>3. {h[l] : l \in old} = {[l EXCEPT !.quantity = @ + q] : l \in old}
    OBVIOUS
  <2>4. \A l \in Lines : [l EXCEPT !.quantity = @ + q] \in Lines
    BY DEF Lines
  <2>5. IsFiniteSet({h[l] : l \in old})
    <3> HIDE DEF h, old
    <3> QED
      BY <2>2, ImageFinite
  <2>6. IsFiniteSet(more)
    <3> HIDE DEF h, old
    <3> QED
      BY <2>2, <2>3, <2>5, FS_Union
  <2>7. more \subseteq Lines
    BY <2>1, <2>4 DEF Sized
  <2> QED
    BY <2>6, <2>7 DEF Sized
<1>3. \/ AddBasketItem(items, r, p, q) = Reply("error")
      \/ AddBasketItem(items, r, p, q) = ToWrite(items \cup {n})
      \/ AddBasketItem(items, r, p, q) = ToWrite(more)
  BY DEF AddBasketItem
<1> HIDE DEF n, more
<1> QED
  BY <1>1, <1>2, <1>3 DEF Answering, ToWrite, Reply

LEMMA UpdateAllTypes ==
    ASSUME NEW items, Sized(items), NEW body \in Seq(Lines)
    PROVE  Answering(UpdateAllBasket(items, body))
<1> DEFINE U(p) == GroupedQuantity(body, p)
           named == {body[k].product : k \in DOMAIN body}
           new == {p \in named : OfProduct(items, p) = {}}
           changed(l) == IF l.product \in named THEN [l EXCEPT !.quantity = U(l.product)] ELSE l
           added(p) == [First(body, p) EXCEPT !.quantity = U(p)]
           all == {changed(l) : l \in items} \cup {added(p) : p \in new}
           c == [l \in items |-> changed(l)]
           a == [p \in new |-> added(p)]
<1>1. /\ IsFiniteSet(named)
      /\ \A p \in named : First(body, p) \in Lines
  BY BodyFacts
<1>2. \A p : U(p) \in Int
  BY UnitsType
<1>3. \/ UpdateAllBasket(items, body) \in {Reply("error"), Reply("badRequest")}
      \/ UpdateAllBasket(items, body) = ToWrite(all)
  BY DEF UpdateAllBasket
<1> HIDE DEF U, named
<1>4. \A l \in items : changed(l) \in Lines
  BY <1>2 DEF Lines, Sized
<1>5. \A p \in new : added(p) \in Lines
  BY <1>1, <1>2 DEF Lines
<1>6. {c[l] : l \in items} = {changed(l) : l \in items} /\ {a[p] : p \in new} = {added(p) : p \in new}
  OBVIOUS
<1>7. new \subseteq named
  OBVIOUS
<1> HIDE DEF c, a, changed, added, new
<1>8. IsFiniteSet(new)
  BY <1>1, <1>7, FS_Subset
<1>9. IsFiniteSet({c[l] : l \in items}) /\ IsFiniteSet({a[p] : p \in new})
  BY <1>8, ImageFinite DEF Sized
<1>10. Sized(all)
  BY <1>4, <1>5, <1>6, <1>9, FS_Union DEF Sized
<1> HIDE DEF all
<1> QED
  BY <1>3, <1>10 DEF Answering, ToWrite, Reply

LEMMA SetQuantitiesTypes ==
    ASSUME NEW items, Sized(items), NEW updates \in Seq([id : Ids, quantity : Int])
    PROVE  Answering(UpdateQuantities(items, updates))
<1> DEFINE For(l) == {k \in DOMAIN updates : updates[k].id = l.id}
           changed(l) == IF For(l) = {} THEN l
                         ELSE [l EXCEPT !.quantity = updates[Max(For(l))].quantity]
           all == {changed(l) : l \in items}
           c == [l \in items |-> changed(l)]
           res == UpdateQuantities(items, updates)
<1>1. \/ res.write = FALSE /\ res.answer \in {"badRequest", "error"}
      \/ res = ToWrite(all)
  BY DEF UpdateQuantities, Reply
<1>2. ASSUME NEW l, For(l) # {} PROVE updates[Max(For(l))].quantity \in Int
  <2>1. DOMAIN updates = 1 .. Len(updates) /\ Len(updates) \in Nat
    OBVIOUS
  <2>2. For(l) \in SUBSET (1 .. Len(updates))
    BY <2>1
  <2>3. Max(For(l)) \in For(l)
    BY <1>2, <2>1, <2>2, MaxPlace
  <2>4. Max(For(l)) \in 1 .. Len(updates)
    BY <2>2, <2>3
  <2>5. updates[Max(For(l))] \in [id : Ids, quantity : Int]
    BY <2>4, ElementsOf
  <2> QED
    BY <2>5
<1> HIDE DEF For
<1>3. \A l \in items : changed(l) \in Lines
  BY <1>2 DEF Lines, Sized
<1>4. {c[l] : l \in items} = all
  OBVIOUS
<1>5. IsFiniteSet(all)
  <2> HIDE DEF c, all
  <2> QED
    BY <1>4, ImageFinite DEF Sized
<1>6. Sized(all)
  BY <1>3, <1>5 DEF Sized
<1> HIDE DEF all, res
<1>7. res = ToWrite(all) => Answering(res)
  BY <1>6 DEF Answering, ToWrite
<1> QED
  BY <1>1, <1>7 DEF res, Answering

LEMMA HandleTypes ==
    ASSUME NEW r \in Requests, NEW seen, seen = NoBasket \/ Sized(seen),
           input[r] \in Inputs, input[r].op \in {"add", "updateAll", "setQuantities"}
    PROVE  Answering(Handle(seen, r))
<1> DEFINE i == input[r]
           items == IF seen = NoBasket THEN {} ELSE seen
<1>1. Sized(items)
  BY FS_EmptySet DEF Sized
<1>2. CASE i.op = "add"
  <2>1. Handle(seen, r) = AddBasketItem(items, r, i.product, i.quantity)
    BY <1>2 DEF Handle
  <2> HIDE DEF items
  <2> QED
    BY <1>1, <1>2, <2>1, AddTypes, InputTypes
<1>3. CASE i.op = "updateAll"
  <2>1. Handle(seen, r) = UpdateAllBasket(items, i.lines)
    BY <1>3 DEF Handle
  <2> HIDE DEF items
  <2> QED
    BY <1>1, <1>3, <2>1, UpdateAllTypes, InputTypes
<1>4. CASE i.op = "setQuantities"
  <2>1. Handle(seen, r) \in {Reply("badRequest"), UpdateQuantities(items, i.updates)}
    BY <1>4 DEF Handle
  <2> HIDE DEF items
  <2>2. Answering(Reply("badRequest"))
    BY DEF Answering, Reply
  <2> QED
    BY <1>1, <1>4, <2>1, <2>2, SetQuantitiesTypes, InputTypes
<1> QED
  BY <1>2, <1>3, <1>4

\* What a request does with the basket it was given.
LEMMA HandleMeans ==
    ASSUME NEW r \in Requests, NEW basket, basket = NoBasket \/ Proper(basket),
           input[r] \in Inputs, input[r].op \in {"add", "updateAll", "setQuantities"},
           ~Rejected(input[r])
    PROVE  Right(Handle(Seen(basket), r), Keyed(basket), input[r], r)
<1> DEFINE i == input[r]
           seen == Seen(basket)
           items == Items(basket)
           f0 == Keyed(basket)
<1>1. Copy(items, f0)
  BY SeenMeans DEF Copy
<1>2. items = IF seen = NoBasket THEN {} ELSE seen
  BY DEF Items
<1> HIDE DEF items, seen, f0
<1>3. CASE i.op = "add"
  <2>1. Handle(seen, r) = AddBasketItem(items, r, i.product, i.quantity)
    BY <1>2, <1>3 DEF Handle
  <2>2. Right(Handle(seen, r), f0, i, r)
    BY <1>1, <1>3, <2>1, AddMeans
  <2> QED
    BY <2>2 DEF seen, f0
<1>4. CASE i.op = "updateAll"
  <2>1. Handle(seen, r) = UpdateAllBasket(items, i.lines)
    BY <1>2, <1>4 DEF Handle
  <2>2. Right(Handle(seen, r), f0, i, r)
    BY <1>1, <1>4, <2>1, UpdateAllMeans
  <2> QED
    BY <2>2 DEF seen, f0
<1>5. CASE i.op = "setQuantities"
  <2>1. Handle(seen, r) = IF seen = NoBasket THEN Reply("badRequest") ELSE UpdateQuantities(items, i.updates)
    BY <1>2, <1>5 DEF Handle
  <2>2. Right(Handle(seen, r), f0, i, r)
    BY <1>1, <1>2, <1>5, <2>1, SetQuantitiesMeans
  <2> QED
    BY <2>2 DEF seen, f0
<1> QED
  BY <1>3, <1>4, <1>5

-----------------------------------------------------------------------------
(* The inductive invariant.                                                   *)

\* Where a request is, and what it was asked for.
Flow ==
    /\ baskets = [b \in Buyers |-> baskets[b]] /\ answered = [b \in Buyers |-> answered[b]]
    /\ input = [r \in Requests |-> input[r]] /\ cart = [r \in Requests |-> cart[r]]
    /\ pc \in [Requests -> {"idle"} \cup InFlight \cup Answers]
    /\ buyer \in [Requests -> Buyers \cup {None}]
    /\ hit \subseteq Requests /\ overlapped \subseteq Buyers
    /\ \A r \in Requests :
          /\ pc[r] = "idle" => buyer[r] = None /\ input[r] = None /\ cart[r] = {}
          /\ pc[r] # "idle" => buyer[r] \in Buyers /\ input[r] \in Inputs
          /\ pc[r] \in {"read", "write"} =>
                input[r].op \in {"add", "updateAll", "setQuantities"} /\ ~Rejected(input[r])
          /\ pc[r] = "command" =>
                input[r].op \in {"post", "checkout", "delete"} /\ ~Rejected(input[r])

Finished(b) == {r \in Requests : buyer[r] = b /\ pc[r] \in Answers}

PostedLine(b, l) ==
    \E r \in Requests : buyer[r] = b /\ input[r].op = "post" /\ l \in input[r].lines

\* What is in baskets and copies.
Shapes ==
    /\ \A b \in Buyers :
          /\ baskets[b] = NoBasket \/ Sized(baskets[b])
          /\ baskets[b] # NoBasket => \A l \in baskets[b] : l.id = None => PostedLine(b, l)
          /\ answered[b] \in Seq(Finished(b))
          /\ ~PostedTwice(b) =>
                /\ baskets[b] # NoBasket => OneEach(baskets[b])
                /\ \A r \in Requests : buyer[r] = b => OneEach(cart[r])
    /\ \A r \in Requests : Sized(cart[r])

\* Sequences of different requests.
Orders(F) == {s \in Seq(F) : \A k, n \in DOMAIN s : s[k] = s[n] => k = n}

\* Finished requests explain the basket, and with a request that is about to
\* write others explain its copy.
Explains(b)       == \E s \in Orders(Finished(b)) : Keyed(baskets[b]) = After(s)
WillExplain(b, r) == \E s \in Orders(Finished(b)) : Keyed(Stored(r)) = After(Append(s, r))

OrderInv == \A b \in Buyers : ~PostedTwice(b) =>
    /\ Explains(b)
    /\ \A r \in Requests : pc[r] = "write" /\ buyer[r] = b => WillExplain(b, r)

\* The requests of a buyer that nothing disturbed, in their order, explain both.
Calm(b) == b \notin overlapped /\ ~PostedTwice(b) /\ \A r \in hit : buyer[r] # b

ExplainedBy(b, s) ==
    /\ Keyed(baskets[b]) = After(s)
    /\ \A r \in Requests : pc[r] = "write" /\ buyer[r] = b =>
          Keyed(Stored(r)) = After(Append(s, r))

CalmInv ==
    /\ \A q, r \in Requests : pc[q] \in InFlight /\ pc[r] \in InFlight /\ buyer[q] = buyer[r] =>
          q = r \/ buyer[r] \in overlapped
    /\ \A b \in Buyers : Calm(b) => \A s : s = answered[b] => ExplainedBy(b, s)

IInv == Flow /\ Shapes /\ OrderInv /\ CalmInv

LEMMA InitIInv == Init => IInv
<1> SUFFICES ASSUME Init PROVE IInv
  OBVIOUS
<1>1. Flow
  BY DEF Init, Flow
<1>2. \A b \in Buyers : ~PostedTwice(b)
  BY NullAssumption DEF Init, PostedTwice
<1>3. Shapes
  <2>1. Sized({}) /\ OneEach({})
    BY FS_EmptySet DEF Sized, OneEach
  <2> QED
    BY <2>1, NullAssumption DEF Init, Shapes
<1>4. \A b \in Buyers : Keyed(baskets[b]) = Empty
  BY KeyedEmpty DEF Init
<1>5. After(<< >>) = Empty
  BY AfterIs, AfterNone
<1>6. OrderInv
  <2>1. \A F : << >> \in Orders(F)
    BY DEF Orders
  <2> QED
    BY <1>4, <1>5, <2>1 DEF Init, OrderInv, Explains
<1>7. CalmInv
  BY <1>4, <1>5 DEF Init, CalmInv, ExplainedBy, InFlight
<1> QED
  BY <1>1, <1>3, <1>6, <1>7 DEF IInv

-----------------------------------------------------------------------------
(* What a step of a request in flight does.                                   *)

Moves(r) ==
    /\ pc[r] \in InFlight /\ UNCHANGED <<buyer, input, overlapped>>
    /\ pc' = [pc EXCEPT ![r] = pc'[r]] /\ pc'[r] \in {"write"} \cup Answers
    /\ hit \subseteq hit' /\ hit' \subseteq hit \cup {r}
    /\ \/ answered' = answered /\ (pc'[r] = "write" \/ r \in hit')
       \/ pc'[r] \in Answers /\ answered' = [answered EXCEPT ![buyer[r]] = Append(@, r)]

\* Nothing is stored: a handler that does not write, a failure, a crash.
Stays(r) ==
    /\ UNCHANGED <<baskets, cart>> /\ pc'[r] \in Answers
    /\ r \notin hit' => pc[r] = "read" /\ Handle(Seen(baskets[buyer[r]]), r).write = FALSE

Stores(r) ==
    /\ pc[r] = "write" /\ pc'[r] \in Answers /\ cart' = cart
    /\ baskets' = [baskets EXCEPT ![buyer[r]] = Stored(r)]

Commands(r) ==
    /\ pc[r] = "command" /\ pc'[r] \in Answers /\ cart' = cart
    /\ baskets' = [baskets EXCEPT ![buyer[r]] = Effect(input[r])]

\* The handler has changed its copy of a basket.
Copies(r, basket) ==
    /\ pc[r] = "read" /\ pc'[r] = "write" /\ baskets' = baskets
    /\ Handle(Seen(basket), r).write = TRUE
    /\ cart' = [cart EXCEPT ![r] = Handle(Seen(basket), r).items]
    /\ basket \in {baskets[buyer[r]], NoBasket}
    /\ r \notin hit' => basket = baskets[buyer[r]]

Does(r) == Stays(r) \/ Stores(r) \/ Commands(r) \/ \E basket : Copies(r, basket)

LEMMA Begun ==
    ASSUME Flow, NEW r \in Requests, pc[r] \in InFlight
    PROVE  buyer[r] \in Buyers /\ input[r] \in Inputs
BY DEF Flow, InFlight

LEMMA SeenSized ==
    ASSUME NEW basket, basket = NoBasket \/ Sized(basket)
    PROVE  Seen(basket) = NoBasket \/ Sized(Seen(basket))
BY DEF Seen

LEMMA GoesOn ==
    ASSUME Flow, Shapes, NEW r \in Requests, pc[r] = "read",
           NEW basket, basket \in {baskets[buyer[r]], NoBasket},
           GoOn(r, Seen(basket)), UNCHANGED <<baskets, buyer, input, overlapped>>,
           hit' \in {hit, hit \cup {r}}, r \notin hit' => basket = baskets[buyer[r]]
    PROVE  Moves(r) /\ (Stays(r) \/ (r \in hit' /\ UNCHANGED <<baskets, cart>> /\ pc'[r] \in Answers)
                        \/ Copies(r, basket))
<1> DEFINE result == Handle(Seen(basket), r)
<1>1. buyer[r] \in Buyers /\ input[r] \in Inputs /\ input[r].op \in {"add", "updateAll", "setQuantities"}
  BY Begun DEF Flow, InFlight
<1>2. Answering(result)
  BY <1>1, SeenSized, HandleTypes DEF Shapes
<1> HIDE DEF result
<1>3. IF result.write
      THEN /\ cart' = [cart EXCEPT ![r] = result.items]
           /\ pc' = [pc EXCEPT ![r] = "write"]
           /\ UNCHANGED answered
      ELSE Answer(r, result.answer) /\ UNCHANGED cart
  BY DEF GoOn, result
<1>4. CASE result.write = TRUE
  <2>1. pc'[r] = "write" /\ pc' = [pc EXCEPT ![r] = pc'[r]]
    BY <1>3, <1>4 DEF Flow
  <2>2. Copies(r, basket)
    BY <1>3, <1>4, <2>1 DEF Copies, result
  <2> QED
    BY <1>3, <1>4, <2>1, <2>2 DEF Moves, InFlight
<1>5. CASE result.write = FALSE /\ result.answer \in {"badRequest", "error"}
  <2>1. /\ pc'[r] \in Answers /\ pc' = [pc EXCEPT ![r] = pc'[r]]
        /\ answered' = [answered EXCEPT ![buyer[r]] = Append(@, r)]
    BY <1>3, <1>5 DEF Flow, Answer, Answers
  <2>2. Moves(r)
    BY <2>1 DEF Moves, InFlight
  <2> QED
    BY <1>3, <1>5, <2>1, <2>2 DEF Stays, result
<1> QED
  BY <1>2, <1>4, <1>5 DEF Answering

LEMMA Steps ==
    ASSUME Flow, Shapes, NEW r \in Requests,
           \/ Read(r) \/ ReadFails(r) \/ CatalogFails(r) \/ Write(r) \/ WriteFails(r)
           \/ Command(r) \/ CommandFails(r) \/ Crash(r)
    PROVE  Moves(r) /\ Does(r)
<1> USE DEF Does
<1>1. CASE Read(r)
  BY <1>1, GoesOn DEF Read, Stays
<1>2. CASE ReadFails(r)
  <2>1. Seen(NoBasket) = NoBasket
    BY DEF Seen
  <2> QED
    BY <1>2, <2>1, GoesOn DEF ReadFails, Stays
<1>3. CASE CatalogFails(r)
  BY <1>3 DEF CatalogFails, Answer, Moves, Stays, Flow, InFlight, Answers
<1>4. CASE Write(r)
  BY <1>4 DEF Write, Answer, Moves, Stores, Flow, InFlight, Answers
<1>5. CASE WriteFails(r)
  BY <1>5 DEF WriteFails, Answer, Moves, Stays, Flow, InFlight, Answers
<1>6. CASE Command(r)
  BY <1>6 DEF Command, Answer, Moves, Commands, Flow, InFlight, Answers
<1>7. CASE CommandFails(r)
  BY <1>7 DEF CommandFails, Answer, Moves, Stays, Commands, Flow, InFlight, Answers
<1>8. CASE Crash(r)
  BY <1>8 DEF Crash, Moves, Stays, Stores, Commands, Flow, InFlight, Answers
<1> QED
  BY <1>1, <1>2, <1>3, <1>4, <1>5, <1>6, <1>7, <1>8

LEMMA MovesFlow ==
    ASSUME Flow, NEW r \in Requests, Moves(r), Does(r)
    PROVE  Flow'
<1>1. buyer[r] \in Buyers /\ input[r] \in Inputs
  BY Begun DEF Moves
<1>2. baskets' = [b \in Buyers |-> baskets'[b]] /\ cart' = [q \in Requests |-> cart'[q]]
  BY DEF Does, Stays, Stores, Commands, Copies, Flow
<1>3. answered' = [b \in Buyers |-> answered'[b]]
  BY DEF Moves, Flow
<1>4. pc' \in [Requests -> {"idle"} \cup InFlight \cup Answers]
  BY DEF Moves, Flow, InFlight
<1>5. pc'[r] = "write" => pc[r] = "read"
  BY DEF Does, Stays, Stores, Commands, Copies, Answers
<1>6. \A q \in Requests : q # r => pc'[q] = pc[q]
  BY DEF Moves, Flow
<1>7. pc'[r] \notin {"idle", "read", "command"}
  BY DEF Moves, Answers
<1>8. UNCHANGED <<buyer, input, overlapped>> /\ hit' \subseteq Requests
  BY DEF Moves, Flow
<1>9. ASSUME NEW q \in Requests
      PROVE  /\ pc'[q] = "idle" => buyer'[q] = None /\ input'[q] = None /\ cart'[q] = {}
             /\ pc'[q] # "idle" => buyer'[q] \in Buyers /\ input'[q] \in Inputs
             /\ pc'[q] \in {"read", "write"} =>
                   input'[q].op \in {"add", "updateAll", "setQuantities"} /\ ~Rejected(input'[q])
             /\ pc'[q] = "command" =>
                   input'[q].op \in {"post", "checkout", "delete"} /\ ~Rejected(input'[q])
  <2>1. CASE q = r
    BY <1>1, <1>5, <1>7, <1>8, <2>1 DEF Flow
  <2>2. CASE q # r
    <3>1. cart'[q] = cart[q]
      BY <2>2 DEF Does, Stays, Stores, Commands, Copies, Flow
    <3> QED
      BY <1>6, <1>8, <2>2, <3>1 DEF Flow
  <2> QED
    BY <2>1, <2>2
<1> QED
  BY <1>2, <1>3, <1>4, <1>8, <1>9 DEF Flow

\* What has finished stays so; a request that ends joins.
LEMMA Finishing ==
    ASSUME Flow, NEW r \in Requests, Moves(r)
    PROVE  /\ \A b : Finished(b) \subseteq Finished(b)' /\ r \notin Finished(b)
           /\ pc'[r] \in Answers => \A b : b = buyer[r] => r \in Finished(b)'
           /\ \A b : PostedTwice(b)' <=> PostedTwice(b)
           /\ \A b, l : PostedLine(b, l)' <=> PostedLine(b, l)
           /\ \A s \in Seq(Requests) : After(s)' = After(s)
<1>1. /\ \A q \in Requests : q # r => pc'[q] = pc[q]
      /\ pc[r] \notin Answers /\ UNCHANGED <<buyer, input>>
  BY DEF Moves, Flow, InFlight, Answers
<1>2. \A s \in Seq(Requests) : After(s)' = After(s)
  <2>1. (\A s : After(s) = AfterWith(s, input))'
    BY DEF After, AfterWith
  <2> QED
    BY <1>1, <2>1, AfterIs
<1> QED
  BY <1>1, <1>2 DEF Finished, PostedTwice, PostedLine

LEMMA SequencesGrow ==
    ASSUME NEW F, NEW G, F \subseteq G
    PROVE  Seq(F) \subseteq Seq(G) /\ Orders(F) \subseteq Orders(G)
<1>1. Seq(F) \subseteq Seq(G)
  OBVIOUS
<1> QED
  BY <1>1 DEF Orders

LEMMA OrderAppended ==
    ASSUME NEW F, NEW s \in Orders(F), NEW r, r \notin F
    PROVE  Append(s, r) \in Orders(F \cup {r})
<1>1. s \in Seq(F) /\ DOMAIN s = 1 .. Len(s) /\ Len(s) \in Nat
  BY DEF Orders
<1> DEFINE t == Append(s, r)
<1>2. s \in Seq(F \cup {r})
  BY <1>1, SequencesGrow
<1>3. /\ t \in Seq(F \cup {r}) /\ DOMAIN t = 1 .. Len(s) + 1 /\ t[Len(s) + 1] = r
      /\ \A k \in 1 .. Len(s) : t[k] = s[k] /\ s[k] \in F
  BY <1>1, <1>2
<1> HIDE DEF t
<1>4. ASSUME NEW k \in DOMAIN t, NEW n \in DOMAIN t, t[k] = t[n] PROVE k = n
  <2>1. CASE k \in 1 .. Len(s) /\ n \in 1 .. Len(s)
    BY <1>1, <1>3, <1>4, <2>1 DEF Orders
  <2>2. CASE k = Len(s) + 1 \/ n = Len(s) + 1
    BY <1>1, <1>3, <1>4, <2>2
  <2> QED
    BY <1>1, <1>3, <2>1, <2>2
<1>5. t \in Orders(F \cup {r})
  BY <1>3, <1>4 DEF Orders
<1> QED
  BY <1>5 DEF t

LEMMA StoredFacts ==
    ASSUME NEW r \in Requests, Sized(cart[r])
    PROVE  /\ Sized(Stored(r)) /\ \A l \in Stored(r) : l.id # None
           /\ OneEach(cart[r]) => OneEach(Stored(r))
<1>1. Stored(r) \subseteq cart[r]
  BY DEF Stored
<1>2. IsFiniteSet(Stored(r))
  BY <1>1, FS_Subset DEF Sized
<1> QED
  BY <1>1, <1>2 DEF Sized, OneEach, Stored

LEMMA EffectFacts ==
    ASSUME Flow, NEW r \in Requests, pc[r] = "command"
    PROVE  LET effect == Effect(input[r])
           IN  /\ effect = NoBasket \/ Sized(effect)
               /\ effect # NoBasket => \A l \in effect : PostedLine(buyer[r], l)
               /\ ~PostedTwice(buyer[r]) => (effect # NoBasket => OneEach(effect))
<1>1. /\ buyer[r] \in Buyers /\ input[r] \in Inputs
      /\ input[r].op \in {"post", "checkout", "delete"}
  BY Begun DEF Flow, InFlight
<1>2. CASE input[r].op # "post"
  BY <1>2 DEF Effect
<1>3. CASE input[r].op = "post"
  <2>1. Effect(input[r]) = input[r].lines /\ Sized(input[r].lines)
    BY <1>1, <1>3, InputTypes DEF Effect, Sized
  <2>2. ~PostedTwice(buyer[r]) => OneEach(input[r].lines)
    BY <1>3, <2>1, DistinctIs DEF PostedTwice, Sized
  <2>3. \A l \in input[r].lines : PostedLine(buyer[r], l)
    BY <1>3 DEF PostedLine
  <2> QED
    BY <2>1, <2>2, <2>3
<1> QED
  BY <1>2, <1>3

\* The basket a handler gets is the stored one or none.
LEMMA CopyFacts ==
    ASSUME Flow, Shapes, NEW r \in Requests, NEW basket, Copies(r, basket)
    PROVE  /\ basket = NoBasket \/ Sized(basket)
           /\ Sized(cart'[r])
           /\ ~PostedTwice(buyer[r]) =>
                 /\ OneEach(cart'[r])
                 /\ Keyed(Stored(r)') = Meaning(Keyed(basket), input[r], r)
<1>1. /\ buyer[r] \in Buyers /\ input[r] \in Inputs
      /\ input[r].op \in {"add", "updateAll", "setQuantities"} /\ ~Rejected(input[r])
  BY Begun DEF Flow, InFlight, Copies
<1>2. basket = NoBasket \/ Sized(basket)
  BY <1>1 DEF Copies, Shapes
<1>3. cart'[r] = Handle(Seen(basket), r).items /\ Handle(Seen(basket), r).write = TRUE
  BY DEF Copies, Flow
<1>4. Sized(cart'[r])
  <2>1. Answering(Handle(Seen(basket), r))
    BY <1>1, <1>2, SeenSized, HandleTypes
  <2> QED
    BY <1>3, <2>1 DEF Answering
<1>5. ASSUME ~PostedTwice(buyer[r])
      PROVE  OneEach(cart'[r]) /\ Keyed(Stored(r)') = Meaning(Keyed(basket), input[r], r)
  <2>1. basket = NoBasket \/ Proper(basket)
    BY <1>1, <1>2, <1>5 DEF Copies, Shapes, Proper, Sized
  <2>2. Right(Handle(Seen(basket), r), Keyed(basket), input[r], r)
    BY <1>1, <2>1, HandleMeans
  <2>3. Stored(r)' = Kept(cart'[r])
    BY DEF Stored, Kept
  <2> QED
    BY <1>3, <2>2, <2>3 DEF Right, Proper
<1> QED
  BY <1>2, <1>4, <1>5

LEMMA MovesShapes ==
    ASSUME Flow, Shapes, NEW r \in Requests, Moves(r), Does(r)
    PROVE  Shapes'
<1>1. PICK b0 \in Buyers : b0 = buyer[r]
  BY Begun DEF Moves
<1>2. /\ \A b : Finished(b) \subseteq Finished(b)'
      /\ \A b : PostedTwice(b)' <=> PostedTwice(b)
      /\ \A b, l : PostedLine(b, l)' <=> PostedLine(b, l)
      /\ UNCHANGED <<buyer, input>>
  BY Finishing DEF Moves
<1>3. /\ \A b \in Buyers : b # b0 => baskets'[b] = baskets[b]
      /\ \A q \in Requests : q # r => cart'[q] = cart[q]
  BY <1>1 DEF Does, Stays, Stores, Commands, Copies, Flow
<1>4. /\ baskets'[b0] = NoBasket \/ Sized(baskets'[b0])
      /\ baskets'[b0] # NoBasket => \A l \in baskets'[b0] : l.id = None => PostedLine(b0, l)
      /\ ~PostedTwice(b0) => (baskets'[b0] # NoBasket => OneEach(baskets'[b0]))
  <2>1. CASE baskets' = baskets
    BY <1>1, <2>1 DEF Shapes
  <2>2. CASE Stores(r)
    <3>1. baskets'[b0] = Stored(r)
      BY <1>1, <2>2 DEF Stores, Flow
    <3> QED
      BY <1>1, <3>1, StoredFacts DEF Shapes
  <2>3. CASE Commands(r)
    <3>1. baskets'[b0] = Effect(input[r]) /\ pc[r] = "command"
      BY <1>1, <2>3 DEF Commands, Flow
    <3> QED
      BY <1>1, <3>1, EffectFacts
  <2> QED
    BY <2>1, <2>2, <2>3 DEF Does, Stays, Copies
<1>5. Sized(cart'[r]) /\ (~PostedTwice(b0) => OneEach(cart'[r]))
  <2>1. CASE cart' = cart
    BY <1>1, <2>1 DEF Shapes
  <2>2. CASE \E basket : Copies(r, basket)
    BY <1>1, <2>2, CopyFacts
  <2> QED
    BY <2>1, <2>2 DEF Does, Stays, Stores, Commands
<1>6. ASSUME NEW b \in Buyers PROVE answered'[b] \in Seq(Finished(b)')
  <2>1. answered[b] \in Seq(Finished(b)')
    BY <1>2, SequencesGrow DEF Shapes
  <2>2. CASE answered'[b] = answered[b]
    BY <2>1, <2>2
  <2>3. CASE answered'[b] # answered[b]
    <3>1. pc'[r] \in Answers /\ answered'[b] = Append(answered[b], r) /\ b = b0
      BY <1>1, <2>3 DEF Moves, Flow
    <3>2. r \in Finished(b)'
      BY <1>1, <3>1, Finishing
    <3> QED
      BY <2>1, <3>1, <3>2
  <2> QED
    BY <2>2, <2>3
<1>7. ASSUME NEW b \in Buyers
      PROVE  /\ baskets'[b] = NoBasket \/ Sized(baskets'[b])
             /\ baskets'[b] # NoBasket => \A l \in baskets'[b] : l.id = None => PostedLine(b, l)
             /\ ~PostedTwice(b) => (baskets'[b] # NoBasket => OneEach(baskets'[b]))
  <2>1. CASE b = b0
    BY <1>4, <2>1
  <2>2. CASE b # b0
    BY <1>3, <2>2 DEF Shapes
  <2> QED
    BY <2>1, <2>2
<1>8. ASSUME NEW q \in Requests
      PROVE  /\ Sized(cart'[q])
             /\ \A b \in Buyers : buyer[q] = b /\ ~PostedTwice(b) => OneEach(cart'[q])
  <2>1. CASE q = r
    BY <1>1, <1>5, <2>1
  <2>2. CASE q # r
    BY <1>3, <2>2 DEF Shapes
  <2> QED
    BY <2>1, <2>2
<1> QED
  BY <1>2, <1>6, <1>7, <1>8 DEF Shapes

\* A command means what it stores.
LEMMA CommandMeans ==
    ASSUME Flow, NEW r \in Requests, pc[r] = "command", NEW f
    PROVE  Meaning(f, input[r], r) = Keyed(Effect(input[r]))
<1>1. input[r].op \in {"post", "checkout", "delete"} /\ ~Rejected(input[r])
  BY DEF Flow
<1>2. CASE input[r].op = "post"
  BY <1>1, <1>2 DEF Meaning, Effect
<1>3. CASE input[r].op # "post"
  BY <1>1, <1>3, KeyedEmpty DEF Meaning, Effect
<1> QED
  BY <1>2, <1>3

\* The step of r explains its own basket.
LEMMA MovesOwn ==
    ASSUME IInv, NEW r \in Requests, Moves(r), Does(r),
           NEW b \in Buyers, b = buyer[r], ~PostedTwice(b)
    PROVE  Explains(b)' /\ (pc'[r] = "write" => WillExplain(b, r)')
<1> USE DEF IInv
<1>1. /\ \A s \in Seq(Requests) : After(s)' = After(s)
      /\ Finished(b) \subseteq Finished(b)' /\ r \notin Finished(b)
      /\ pc'[r] \in Answers => r \in Finished(b)'
  BY Finishing
<1>2. Finished(b) \subseteq Requests /\ Orders(Finished(b)) \subseteq Orders(Finished(b)')
  BY <1>1, SequencesGrow DEF Finished
<1>3. Orders(Finished(b)) \subseteq Seq(Requests)
  BY <1>2, SequencesGrow DEF Orders
<1>4. ASSUME NEW s \in Orders(Finished(b)) PROVE Append(s, r) \in Seq(Requests) /\ s \in Seq(Requests)
  BY <1>3
<1>5. ASSUME NEW s \in Orders(Finished(b)), pc'[r] \in Answers
      PROVE  Append(s, r) \in Orders(Finished(b)')
  <2>1. Append(s, r) \in Orders(Finished(b) \cup {r})
    BY <1>1, OrderAppended
  <2>2. Finished(b) \cup {r} \subseteq Finished(b)'
    BY <1>1, <1>5
  <2> QED
    BY <2>1, <2>2, SequencesGrow
<1>6. << >> \in Orders(Finished(b)) /\ After(<< >>) = Empty
  BY AfterIs, AfterNone DEF Orders
<1>7. \A s \in Seq(Requests) : After(Append(s, r)) = Meaning(After(s), input[r], r)
  BY AfterIs, AfterOne
<1>8. Explains(b)
  BY DEF OrderInv
<1>9. CASE baskets' = baskets
  <2>1. PICK s \in Orders(Finished(b)) : Keyed(baskets[b]) = After(s)
    BY <1>8 DEF Explains
  <2>2. s \in Orders(Finished(b)') /\ Keyed(baskets'[b]) = After(s)'
    BY <1>1, <1>2, <1>4, <1>9, <2>1
  <2>3. Explains(b)'
    BY <2>2 DEF Explains
  <2>4. ASSUME NEW basket, Copies(r, basket) PROVE WillExplain(b, r)'
    <3>1. PICK t \in Orders(Finished(b)) : Keyed(basket) = After(t)
      <4>1. basket \in {baskets[b], NoBasket}
        BY <2>4 DEF Copies
      <4> QED
        BY <1>6, <2>1, <4>1, KeyedEmpty
    <3>2. Keyed(Stored(r)') = Meaning(Keyed(basket), input[r], r)
      BY <2>4, CopyFacts
    <3>3. Keyed(Stored(r)') = After(Append(t, r))'
      BY <1>1, <1>4, <1>7, <3>1, <3>2
    <3>4. t \in Orders(Finished(b)')
      BY <1>2, <3>1
    <3> QED
      BY <3>3, <3>4 DEF WillExplain
  <2>5. pc'[r] = "write" => \E basket : Copies(r, basket)
    BY DEF Does, Stays, Stores, Commands, Answers
  <2> QED
    BY <2>3, <2>4, <2>5
<1>10. CASE Stores(r)
  <2>1. PICK s \in Orders(Finished(b)) : Keyed(Stored(r)) = After(Append(s, r))
    BY <1>10 DEF Stores, OrderInv, WillExplain
  <2>2. baskets'[b] = Stored(r) /\ pc'[r] \in Answers
    BY <1>10 DEF Stores, Flow
  <2>3. Append(s, r) \in Orders(Finished(b)') /\ Keyed(baskets'[b]) = After(Append(s, r))'
    BY <1>1, <1>4, <1>5, <2>1, <2>2
  <2> QED
    BY <2>2, <2>3 DEF Explains, Answers
<1>11. CASE Commands(r)
  <2>1. baskets'[b] = Effect(input[r]) /\ pc'[r] \in Answers /\ pc[r] = "command"
    BY <1>11 DEF Commands, Flow
  <2>2. Keyed(baskets'[b]) = After(Append(<< >>, r))'
    BY <1>1, <1>4, <1>6, <1>7, <2>1, CommandMeans
  <2>3. Append(<< >>, r) \in Orders(Finished(b)')
    BY <1>5, <1>6, <2>1
  <2> QED
    BY <2>1, <2>2, <2>3 DEF Explains, Answers
<1> QED
  BY <1>9, <1>10, <1>11 DEF Does, Stays, Copies

LEMMA MovesOrder ==
    ASSUME IInv, NEW r \in Requests, Moves(r), Does(r)
    PROVE  OrderInv'
<1> USE DEF IInv
<1>1. PICK b0 \in Buyers : b0 = buyer[r] /\ buyer' = buyer
  BY Begun DEF Moves
<1>2. /\ \A s \in Seq(Requests) : After(s)' = After(s)
      /\ \A b : PostedTwice(b)' <=> PostedTwice(b)
      /\ \A b : Finished(b) \subseteq Finished(b)'
  BY Finishing
<1>3. \A b : /\ Finished(b) \subseteq Requests
             /\ Orders(Finished(b)) \subseteq Orders(Finished(b)')
             /\ Orders(Finished(b)) \subseteq Seq(Requests)
  <2>1. \A b : Finished(b) \subseteq Requests
    BY DEF Finished
  <2> QED
    BY <1>2, <2>1, SequencesGrow DEF Orders
<1>4. /\ \A b \in Buyers : b # b0 => baskets'[b] = baskets[b]
      /\ \A q \in Requests : q # r => cart'[q] = cart[q] /\ pc'[q] = pc[q]
  BY <1>1 DEF Does, Stays, Stores, Commands, Copies, Moves, Flow
<1>5. ASSUME NEW b \in Buyers, ~PostedTwice(b)' PROVE Explains(b)'
  <2>1. CASE b = b0
    BY <1>1, <1>2, <1>5, <2>1, MovesOwn
  <2>2. CASE b # b0
    <3>1. PICK s \in Orders(Finished(b)) : Keyed(baskets[b]) = After(s)
      BY <1>2, <1>5 DEF OrderInv, Explains
    <3>2. s \in Orders(Finished(b)') /\ Keyed(baskets'[b]) = After(s)'
      BY <1>2, <1>3, <1>4, <2>2, <3>1
    <3> QED
      BY <3>2 DEF Explains
  <2> QED
    BY <2>1, <2>2
<1>6. ASSUME NEW b \in Buyers, ~PostedTwice(b)', NEW q \in Requests, pc'[q] = "write", buyer[q] = b
      PROVE  WillExplain(b, q)'
  <2>1. CASE q = r
    BY <1>1, <1>2, <1>6, <2>1, MovesOwn
  <2>2. CASE q # r
    <3>1. PICK s \in Orders(Finished(b)) : Keyed(Stored(q)) = After(Append(s, q))
      BY <1>2, <1>4, <1>6, <2>2 DEF OrderInv, WillExplain
    <3>2. Stored(q)' = Stored(q)
      BY <1>4, <2>2 DEF Stored
    <3>3. s \in Orders(Finished(b)') /\ s \in Seq(Requests)
      BY <1>3, <3>1
    <3>4. Append(s, q) \in Seq(Requests)
      BY <3>3
    <3>5. Keyed(Stored(q)') = After(Append(s, q))'
      BY <1>2, <3>1, <3>2, <3>4
    <3> QED
      BY <3>3, <3>5 DEF WillExplain
  <2> QED
    BY <2>1, <2>2
<1> QED
  BY <1>1, <1>5, <1>6 DEF OrderInv

\* One at a time: the step of r adds it to the end of the order.
LEMMA MovesCalmOwn ==
    ASSUME IInv, NEW r \in Requests, Moves(r), Does(r),
           NEW b \in Buyers, b = buyer[r], Calm(b), r \notin hit', NEW t, t = answered'[b]
    PROVE  ExplainedBy(b, t)'
<1> USE DEF IInv
<1>1. PICK s \in Seq(Requests) : s = answered[b]
  <2>1. answered[b] \in Seq(Finished(b)) /\ Finished(b) \subseteq Requests
    BY DEF Shapes, Finished
  <2> QED
    BY <2>1, SequencesGrow
<1>2. /\ \A u \in Seq(Requests) : After(u)' = After(u)
      /\ After(Append(s, r)) = Meaning(After(s), input[r], r) /\ Append(s, r) \in Seq(Requests)
  BY Finishing, AfterIs, AfterOne
<1>3. Keyed(baskets[b]) = After(s) /\ ~PostedTwice(b)
  BY <1>1 DEF CalmInv, ExplainedBy, Calm
<1>4. \/ pc'[r] = "write" /\ t = s
      \/ pc'[r] \in Answers /\ t = Append(s, r)
  BY <1>1 DEF Moves, Flow
<1>5. ASSUME NEW q \in Requests, pc'[q] = "write", buyer'[q] = b PROVE q = r
  <2>1. CASE q # r
    <3>1. pc[q] \in InFlight /\ pc[r] \in InFlight /\ buyer[q] = buyer[r] /\ buyer[r] \notin overlapped
      BY <1>5, <2>1 DEF Moves, Flow, InFlight, Calm
    <3> QED
      BY <3>1 DEF CalmInv
  <2> QED
    BY <2>1
<1>6. CASE Stays(r)
  <2>1. pc[r] = "read" /\ Handle(Seen(baskets[b]), r).write = FALSE /\ baskets' = baskets
    BY <1>6 DEF Stays
  <2>2. baskets[b] = NoBasket \/ Proper(baskets[b])
    BY <1>3 DEF Shapes, Proper, Sized
  <2>3. Right(Handle(Seen(baskets[b]), r), Keyed(baskets[b]), input[r], r)
    BY <2>1, <2>2, HandleMeans DEF Flow
  <2>4. Keyed(baskets[b]) = Meaning(Keyed(baskets[b]), input[r], r)
    BY <2>1, <2>3 DEF Right
  <2>5. pc'[r] \in Answers /\ pc'[r] # "write" /\ t = Append(s, r)
    BY <1>4, <1>6 DEF Stays, Answers
  <2> QED
    BY <1>2, <1>3, <1>5, <2>1, <2>4, <2>5 DEF ExplainedBy
<1>7. CASE Stores(r)
  <2>1. pc'[r] # "write" /\ t = Append(s, r) /\ baskets'[b] = Stored(r)
    BY <1>4, <1>7 DEF Stores, Answers, Flow
  <2>2. Keyed(Stored(r)) = After(Append(s, r))
    BY <1>1, <1>7 DEF Stores, CalmInv, ExplainedBy
  <2> QED
    BY <1>2, <1>5, <2>1, <2>2 DEF ExplainedBy
<1>8. CASE Commands(r)
  <2>1. /\ pc'[r] # "write" /\ t = Append(s, r)
        /\ baskets'[b] = Effect(input[r]) /\ pc[r] = "command"
    BY <1>4, <1>8 DEF Commands, Answers, Flow
  <2> QED
    BY <1>2, <1>5, <2>1, CommandMeans DEF ExplainedBy
<1>9. ASSUME NEW basket, Copies(r, basket)
      PROVE  ExplainedBy(b, t)'
  <2>1. baskets' = baskets /\ t = s /\ basket = baskets[b]
    BY <1>4, <1>9 DEF Copies, Answers
  <2>2. Keyed(Stored(r)') = Meaning(Keyed(basket), input[r], r)
    BY <1>3, <1>9, CopyFacts
  <2>3. Keyed(Stored(r)') = After(Append(s, r))'
    BY <1>2, <1>3, <2>1, <2>2
  <2> QED
    BY <1>2, <1>3, <1>5, <2>1, <2>3 DEF ExplainedBy
<1> QED
  BY <1>6, <1>7, <1>8, <1>9 DEF Does

LEMMA MovesCalm ==
    ASSUME IInv, NEW r \in Requests, Moves(r), Does(r)
    PROVE  CalmInv'
<1> USE DEF IInv
<1>1. PICK b0 \in Buyers : b0 = buyer[r] /\ buyer' = buyer
  BY Begun DEF Moves
<1>2. \A t \in Seq(Requests) : After(t)' = After(t)
  BY Finishing
<1>3. /\ \A b \in Buyers : b # b0 => baskets'[b] = baskets[b] /\ answered'[b] = answered[b]
      /\ \A q \in Requests : q # r => cart'[q] = cart[q] /\ pc'[q] = pc[q]
  BY <1>1 DEF Does, Stays, Stores, Commands, Copies, Moves, Flow
<1>4. \A b \in Buyers : Calm(b)' => Calm(b) /\ (b = b0 => r \notin hit')
  BY <1>1, Finishing DEF Calm, Moves
<1>5. \A q \in Requests : pc'[q] \in InFlight => pc[q] \in InFlight
  BY <1>3 DEF Moves
<1>6. ASSUME NEW b \in Buyers, Calm(b)', NEW t, t = answered'[b]
      PROVE  ExplainedBy(b, t)'
  <2>1. CASE b = b0
    BY <1>1, <1>4, <1>6, <2>1, MovesCalmOwn
  <2>2. CASE b # b0
    <3>1. PICK s \in Seq(Requests) : s = answered[b]
      <4>1. answered[b] \in Seq(Finished(b)) /\ Finished(b) \subseteq Requests
        BY DEF Shapes, Finished
      <4> QED
        BY <4>1, SequencesGrow
    <3>2. Keyed(baskets'[b]) = After(s)' /\ t = s
      BY <1>2, <1>3, <1>4, <1>6, <2>2, <3>1 DEF CalmInv, ExplainedBy
    <3>3. ASSUME NEW q \in Requests, pc'[q] = "write", buyer'[q] = b
          PROVE  Keyed(Stored(q)') = After(Append(s, q))'
      <4>1. q # r /\ pc[q] = "write" /\ buyer[q] = b /\ Stored(q)' = Stored(q)
        BY <1>1, <1>3, <2>2, <3>3 DEF Stored
      <4>2. Keyed(Stored(q)) = After(Append(s, q)) /\ Append(s, q) \in Seq(Requests)
        BY <1>4, <1>6, <3>1, <4>1 DEF CalmInv, ExplainedBy
      <4> QED
        BY <1>2, <4>1, <4>2
    <3> QED
      BY <3>2, <3>3 DEF ExplainedBy
  <2> QED
    BY <2>1, <2>2
<1>7. \A p, q \in Requests : pc'[p] \in InFlight /\ pc'[q] \in InFlight /\ buyer'[p] = buyer'[q] =>
          p = q \/ buyer'[q] \in overlapped'
  BY <1>5 DEF Moves, CalmInv
<1> QED
  BY <1>6, <1>7 DEF CalmInv

-----------------------------------------------------------------------------
(* A request arrives.                                                         *)

\* Where Receive leaves the request.
Arrives(r, b, i) ==
    /\ pc[r] = "idle" /\ buyer' = [buyer EXCEPT ![r] = b] /\ input' = [input EXCEPT ![r] = i]
    /\ pc' = [pc EXCEPT ![r] = pc'[r]]
    /\ \/ pc'[r] = "badRequest"
       \/ ~Rejected(i) /\ pc'[r] = "command" /\ i.op \in {"post", "checkout", "delete"}
       \/ ~Rejected(i) /\ pc'[r] = "read" /\ i.op \in {"add", "updateAll", "setQuantities"}
    /\ overlapped \subseteq overlapped' /\ overlapped' \subseteq Buyers
    /\ pc'[r] \in InFlight =>
          \A q \in Requests : buyer[q] = b /\ pc[q] \in InFlight => b \in overlapped'
    /\ UNCHANGED <<baskets, cart, hit, answered>>

LEMMA ReceiveArrives ==
    ASSUME Flow, NEW r \in Requests, NEW b \in Buyers, NEW i \in Inputs, Receive(r, b, i)
    PROVE  Arrives(r, b, i)
<1>1. i.op \in {"add", "updateAll", "setQuantities", "post", "checkout", "delete"}
  BY InputTypes
<1>2. CASE Rejected(i)
  <2>1. pc' = [pc EXCEPT ![r] = "badRequest"] /\ overlapped' = overlapped
    BY <1>2 DEF Receive
  <2>2. pc'[r] = "badRequest"
    BY <2>1 DEF Flow
  <2> QED
    BY <2>1, <2>2 DEF Receive, Arrives, Flow, InFlight
<1>3. CASE ~Rejected(i)
  <2>1. /\ pc' = [pc EXCEPT ![r] =
                   IF i.op \in {"post", "checkout", "delete"} THEN "command" ELSE "read"]
        /\ overlapped' = IF \E o \in Requests : buyer[o] = b /\ pc[o] \in InFlight
                         THEN overlapped \cup {b} ELSE overlapped
    BY <1>3 DEF Receive
  <2>2. /\ pc'[r] = IF i.op \in {"post", "checkout", "delete"} THEN "command" ELSE "read"
        /\ pc' = [pc EXCEPT ![r] = pc'[r]]
    BY <2>1 DEF Flow
  <2>3. overlapped \subseteq overlapped' /\ overlapped' \subseteq Buyers
    BY <2>1 DEF Flow
  <2>4. \A q \in Requests : buyer[q] = b /\ pc[q] \in InFlight => b \in overlapped'
    BY <2>1
  <2> QED
    BY <1>1, <1>3, <2>2, <2>3, <2>4 DEF Receive, Arrives
<1> QED
  BY <1>2, <1>3

\* What is known of the others stays.
LEMMA ArrivesFacts ==
    ASSUME Flow, NEW r \in Requests, NEW b \in Buyers, NEW i \in Inputs, Arrives(r, b, i)
    PROVE  /\ buyer'[r] = b /\ input'[r] = i
           /\ \A q \in Requests : q # r =>
                 buyer'[q] = buyer[q] /\ input'[q] = input[q] /\ pc'[q] = pc[q]
           /\ pc'[r] \notin {"idle", "write"} /\ buyer[r] \notin Buyers
           /\ \A c \in Buyers : Finished(c) \subseteq Finished(c)' /\ r \notin Finished(c)
           /\ \A c \in Buyers : PostedTwice(c) => PostedTwice(c)'
           /\ \A c \in Buyers : \A l : PostedLine(c, l) => PostedLine(c, l)'
<1>1. /\ buyer'[r] = b /\ input'[r] = i
      /\ \A q \in Requests : q # r =>
            buyer'[q] = buyer[q] /\ input'[q] = input[q] /\ pc'[q] = pc[q]
  BY DEF Arrives, Flow
<1>2. pc'[r] \notin {"idle", "write"}
  BY DEF Arrives
<1>3. buyer[r] \notin Buyers /\ pc[r] \notin Answers
  BY NullAssumption DEF Arrives, Flow, Answers
<1>4. ASSUME NEW c \in Buyers, PostedTwice(c) PROVE PostedTwice(c)'
  <2>1. PICK q \in Requests : buyer[q] = c /\ input[q].op = "post" /\ ~Distinct(input[q].lines)
    BY <1>4 DEF PostedTwice
  <2>2. buyer'[q] = c /\ input'[q] = input[q]
    BY <1>1, <1>3, <2>1
  <2> QED
    BY <2>1, <2>2 DEF PostedTwice
<1>5. ASSUME NEW c \in Buyers, NEW l, PostedLine(c, l) PROVE PostedLine(c, l)'
  <2>1. PICK q \in Requests : buyer[q] = c /\ input[q].op = "post" /\ l \in input[q].lines
    BY <1>5 DEF PostedLine
  <2>2. buyer'[q] = c /\ input'[q] = input[q]
    BY <1>1, <1>3, <2>1
  <2> QED
    BY <2>1, <2>2 DEF PostedLine
<1>6. \A c \in Buyers : Finished(c) \subseteq Finished(c)' /\ r \notin Finished(c)
  BY <1>1, <1>3 DEF Finished
<1> QED
  BY <1>1, <1>2, <1>3, <1>4, <1>5, <1>6

LEMMA ArrivesFlow ==
    ASSUME Flow, NEW r \in Requests, NEW b \in Buyers, NEW i \in Inputs, Arrives(r, b, i)
    PROVE  Flow'
<1>1. /\ buyer'[r] = b /\ input'[r] = i
      /\ \A q \in Requests : q # r =>
            buyer'[q] = buyer[q] /\ input'[q] = input[q] /\ pc'[q] = pc[q]
      /\ pc'[r] \notin {"idle", "write"}
  BY ArrivesFacts
<1>2. /\ pc' \in [Requests -> {"idle"} \cup InFlight \cup Answers]
      /\ buyer' \in [Requests -> Buyers \cup {None}]
      /\ input' = [q \in Requests |-> input'[q]]
  BY DEF Arrives, Flow, InFlight, Answers
<1>3. ASSUME NEW q \in Requests
      PROVE  /\ pc'[q] = "idle" => buyer'[q] = None /\ input'[q] = None /\ cart'[q] = {}
             /\ pc'[q] # "idle" => buyer'[q] \in Buyers /\ input'[q] \in Inputs
             /\ pc'[q] \in {"read", "write"} =>
                   input'[q].op \in {"add", "updateAll", "setQuantities"} /\ ~Rejected(input'[q])
             /\ pc'[q] = "command" =>
                   input'[q].op \in {"post", "checkout", "delete"} /\ ~Rejected(input'[q])
  <2>1. CASE q = r
    BY <1>1, <2>1 DEF Arrives
  <2>2. CASE q # r
    BY <1>1, <2>2 DEF Arrives, Flow
  <2> QED
    BY <2>1, <2>2
<1> QED
  BY <1>2, <1>3 DEF Flow, Arrives

LEMMA ArrivesShapes ==
    ASSUME Flow, Shapes, NEW r \in Requests, NEW b \in Buyers, NEW i \in Inputs, Arrives(r, b, i)
    PROVE  Shapes'
<1>1. /\ \A q \in Requests : q # r => buyer'[q] = buyer[q]
      /\ \A c \in Buyers : Finished(c) \subseteq Finished(c)'
      /\ \A c \in Buyers : PostedTwice(c) => PostedTwice(c)'
      /\ \A c \in Buyers : \A l : PostedLine(c, l) => PostedLine(c, l)'
      /\ UNCHANGED <<baskets, cart, answered>>
  BY ArrivesFacts DEF Arrives
<1>2. cart[r] = {} /\ OneEach({})
  BY DEF Arrives, Flow, OneEach
<1>3. \A c \in Buyers : answered[c] \in Seq(Finished(c)')
  BY <1>1, SequencesGrow DEF Shapes
<1>4. ASSUME NEW c \in Buyers, ~PostedTwice(c)', NEW q \in Requests, buyer'[q] = c
      PROVE  OneEach(cart[q])
  <2>1. CASE q = r
    BY <1>2, <2>1
  <2>2. CASE q # r
    BY <1>1, <1>4, <2>2 DEF Shapes
  <2> QED
    BY <2>1, <2>2
<1>5. \A c \in Buyers : baskets[c] # NoBasket => \A l \in baskets[c] : l.id = None => PostedLine(c, l)'
  BY <1>1 DEF Shapes
<1>6. /\ \A c \in Buyers : baskets[c] = NoBasket \/ Sized(baskets[c])
      /\ \A c \in Buyers : ~PostedTwice(c)' => (baskets[c] # NoBasket => OneEach(baskets[c]))
      /\ \A q \in Requests : Sized(cart[q])
  BY <1>1 DEF Shapes
<1> QED
  BY <1>1, <1>3, <1>4, <1>5, <1>6 DEF Shapes

\* The new request is in no sequence yet.
LEMMA ArrivesAfter ==
    ASSUME Flow, NEW r \in Requests, NEW b \in Buyers, NEW i \in Inputs, Arrives(r, b, i),
           NEW F, F \subseteq Requests, r \notin F, NEW s \in Seq(F)
    PROVE  After(s)' = After(s)
<1>1. (\A u : After(u) = AfterWith(u, input))'
  BY DEF After, AfterWith
<1>2. s \in Seq(Requests)
  BY SequencesGrow
<1>3. \A n \in 1 .. Len(s) : s[n] \in F
  OBVIOUS
<1>4. \A q \in Requests : q # r => input'[q] = input[q]
  BY ArrivesFacts
<1>5. \A n \in 1 .. Len(s) : input'[s[n]] = input[s[n]]
  BY <1>3, <1>4
<1>6. AfterWith(s, input') = AfterWith(s, input)
  BY <1>2, <1>5, AfterSame
<1> QED
  BY <1>1, <1>6, AfterIs

\* Nor does it disturb what explains a copy that another is about to write.
LEMMA ArrivesBeside ==
    ASSUME Flow, NEW r \in Requests, NEW b \in Buyers, NEW i \in Inputs, Arrives(r, b, i),
           NEW c \in Buyers, NEW s \in Seq(Finished(c)), NEW q \in Requests, q # r
    PROVE  After(s)' = After(s) /\ After(Append(s, q))' = After(Append(s, q))
<1> DEFINE F == Finished(c) \cup {q}
<1>1. Finished(c) \subseteq F /\ F \subseteq Requests /\ r \notin F
  BY ArrivesFacts DEF Finished
<1>2. q \in F
  OBVIOUS
<1> HIDE DEF F
<1>3. s \in Seq(F)
  BY <1>1, SequencesGrow
<1>4. Append(s, q) \in Seq(F)
  BY <1>2, <1>3
<1>5. \A u \in Seq(F) : After(u)' = After(u)
  BY <1>1, ArrivesAfter
<1> QED
  BY <1>3, <1>4, <1>5

LEMMA ArrivesOrder ==
    ASSUME IInv, NEW r \in Requests, NEW b \in Buyers, NEW i \in Inputs, Arrives(r, b, i)
    PROVE  OrderInv'
<1> USE DEF IInv
<1>1. /\ \A q \in Requests : q # r => buyer'[q] = buyer[q] /\ pc'[q] = pc[q]
      /\ pc'[r] # "write"
      /\ \A c \in Buyers : PostedTwice(c) => PostedTwice(c)'
      /\ UNCHANGED <<baskets, cart>>
  BY ArrivesFacts DEF Arrives
<1>2. \A c \in Buyers : Finished(c) \subseteq Requests /\ r \notin Finished(c)
  BY ArrivesFacts DEF Finished
<1>3. \A c \in Buyers : /\ Orders(Finished(c)) \subseteq Orders(Finished(c)')
                        /\ Orders(Finished(c)) \subseteq Seq(Finished(c))
  <2>1. \A c \in Buyers : Finished(c) \subseteq Finished(c)'
    BY ArrivesFacts
  <2> QED
    BY <2>1, SequencesGrow DEF Orders
<1>4. ASSUME NEW c \in Buyers, ~PostedTwice(c)' PROVE Explains(c)'
  <2>1. PICK s \in Orders(Finished(c)) : Keyed(baskets[c]) = After(s)
    BY <1>1, <1>4 DEF OrderInv, Explains
  <2>2. After(s)' = After(s)
    BY <1>2, <1>3, <2>1, ArrivesAfter
  <2>3. s \in Orders(Finished(c)') /\ Keyed(baskets'[c]) = After(s)'
    BY <1>1, <1>3, <2>1, <2>2
  <2> QED
    BY <2>3 DEF Explains
<1>5. ASSUME NEW c \in Buyers, ~PostedTwice(c)', NEW q \in Requests, pc'[q] = "write", buyer'[q] = c
      PROVE  WillExplain(c, q)'
  <2>1. q # r /\ pc[q] = "write" /\ buyer[q] = c /\ Stored(q)' = Stored(q)
    BY <1>1, <1>5 DEF Stored
  <2>2. PICK s \in Orders(Finished(c)) : Keyed(Stored(q)) = After(Append(s, q))
    BY <1>1, <1>5, <2>1 DEF OrderInv, WillExplain
  <2>3. After(Append(s, q))' = After(Append(s, q))
    BY <1>3, <2>1, <2>2, ArrivesBeside
  <2>4. s \in Orders(Finished(c)') /\ Keyed(Stored(q)') = After(Append(s, q))'
    BY <1>3, <2>1, <2>2, <2>3
  <2> QED
    BY <2>4 DEF WillExplain
<1> QED
  BY <1>4, <1>5 DEF OrderInv

LEMMA ArrivesCalm ==
    ASSUME IInv, NEW r \in Requests, NEW b \in Buyers, NEW i \in Inputs, Arrives(r, b, i)
    PROVE  CalmInv'
<1> USE DEF IInv
<1>1. /\ buyer'[r] = b /\ pc'[r] # "write" /\ buyer[r] \notin Buyers
      /\ \A q \in Requests : q # r => buyer'[q] = buyer[q] /\ pc'[q] = pc[q]
      /\ \A c \in Buyers : PostedTwice(c) => PostedTwice(c)'
      /\ UNCHANGED <<baskets, cart, hit, answered>> /\ overlapped \subseteq overlapped'
  BY ArrivesFacts DEF Arrives
<1>2. ASSUME NEW p \in Requests, NEW q \in Requests,
             pc'[p] \in InFlight, pc'[q] \in InFlight, buyer'[p] = buyer'[q], p # q
      PROVE  buyer'[q] \in overlapped'
  <2>1. CASE p # r /\ q # r
    BY <1>1, <1>2, <2>1 DEF CalmInv
  <2>2. CASE p = r
    BY <1>1, <1>2, <2>2 DEF Arrives
  <2>3. CASE q = r
    BY <1>1, <1>2, <2>3 DEF Arrives
  <2> QED
    BY <2>1, <2>2, <2>3
<1>3. ASSUME NEW c \in Buyers, Calm(c)' PROVE Calm(c)
  <2>1. \A q \in hit : buyer[q] # c
    BY <1>1, <1>3 DEF Calm, Flow
  <2> QED
    BY <1>1, <1>3, <2>1 DEF Calm
<1>4. ASSUME NEW c \in Buyers, Calm(c)', NEW t, t = answered'[c]
      PROVE  ExplainedBy(c, t)'
  <2>1. t \in Seq(Finished(c)) /\ ExplainedBy(c, t)
    BY <1>1, <1>3, <1>4 DEF Shapes, CalmInv
  <2>2. After(t)' = After(t)
    <3>1. Finished(c) \subseteq Requests /\ r \notin Finished(c)
      BY ArrivesFacts DEF Finished
    <3> QED
      BY <2>1, <3>1, ArrivesAfter
  <2>3. ASSUME NEW q \in Requests, pc'[q] = "write", buyer'[q] = c
        PROVE  Keyed(Stored(q)') = After(Append(t, q))'
    <3>1. q # r /\ pc[q] = "write" /\ buyer[q] = c /\ Stored(q)' = Stored(q)
      BY <1>1, <2>3 DEF Stored
    <3>2. After(Append(t, q))' = After(Append(t, q))
      BY <2>1, <3>1, ArrivesBeside
    <3> QED
      BY <2>1, <3>1, <3>2 DEF ExplainedBy
  <2> QED
    BY <1>1, <2>1, <2>2, <2>3 DEF ExplainedBy
<1> QED
  BY <1>2, <1>4 DEF CalmInv

-----------------------------------------------------------------------------
(* The theorems.                                                              *)

LEMMA Unchanged == ASSUME IInv, UNCHANGED vars PROVE IInv'
<1>1. Flow'
  BY DEF IInv, vars, Flow
<1>2. /\ \A b : PostedTwice(b)' <=> PostedTwice(b)
      /\ \A b, l : PostedLine(b, l)' <=> PostedLine(b, l)
      /\ \A b : Finished(b)' = Finished(b)
      /\ \A s : After(s)' = After(s)
      /\ \A r : Stored(r)' = Stored(r)
  BY DEF vars, PostedTwice, PostedLine, Finished, After, Stored
<1>3. Shapes'
  BY <1>2 DEF IInv, vars, Shapes
<1>4. OrderInv'
  BY <1>2 DEF IInv, vars, OrderInv, Explains, WillExplain
<1>5. CalmInv'
  BY <1>2 DEF IInv, vars, CalmInv, Calm, ExplainedBy
<1> QED
  BY <1>1, <1>3, <1>4, <1>5 DEF IInv

LEMMA NextIInv == ASSUME IInv, [Next]_vars PROVE IInv'
<1>1. ASSUME NEW r \in Requests, NEW b \in Buyers, NEW i \in Inputs, Receive(r, b, i) PROVE IInv'
  <2>1. Arrives(r, b, i)
    BY <1>1, ReceiveArrives DEF IInv
  <2> QED
    BY <2>1, ArrivesFlow, ArrivesShapes, ArrivesOrder, ArrivesCalm DEF IInv
<1>2. ASSUME NEW r \in Requests,
             \/ Read(r) \/ ReadFails(r) \/ CatalogFails(r) \/ Write(r) \/ WriteFails(r)
             \/ Command(r) \/ CommandFails(r) \/ Crash(r)
      PROVE  IInv'
  <2>1. Moves(r) /\ Does(r)
    BY <1>2, Steps DEF IInv
  <2> QED
    BY <2>1, MovesFlow, MovesShapes, MovesOrder, MovesCalm DEF IInv
<1>3. CASE UNCHANGED vars
  BY <1>3, Unchanged
<1> QED
  BY <1>1, <1>2, <1>3 DEF Next

LEMMA Invariant == Spec => []IInv
BY InitIInv, NextIInv, PTL DEF Spec

\* The set of sequences of SomeOrderExplains, which is that of Orders.
LEMMA OrdersArePermutations ==
    ASSUME NEW F
    PROVE  Orders(F) \subseteq SetToAllKPermutations(F)
<1> SUFFICES ASSUME NEW s \in Orders(F) PROVE s \in SetToAllKPermutations(F)
  OBVIOUS
<1> DEFINE S == {s[k] : k \in 1 .. Len(s)}
<1>1. s \in [1 .. Len(s) -> S] /\ Len(s) \in Nat /\ S \in SUBSET F
  BY DEF Orders
<1>2. \A k, n \in 1 .. Len(s) : s[k] = s[n] => k = n
  BY DEF Orders
<1> HIDE DEF S
<1>4. s \in Bijection(1 .. Len(s), S)
  BY <1>1, <1>2 DEF S, Bijection, Injection, Surjection, IsInjective
<1>5. Cardinality(S) = Len(s)
  BY <1>1, <1>4, FS_CountingElements DEF ExistsBijection
<1>6. s \in SetToSeqs(S)
  BY <1>1, <1>2, <1>5 DEF SetToSeqs
<1> QED
  BY <1>1, <1>6 DEF SetToAllKPermutations

\* Every stored basket and every copy is well formed, whatever requests overlap,
\* fail or crash (the aggregator's BasketController, RedisBasketRepository).
THEOREM BasketSound == Spec => []BasketsSound
<1>1. IInv => BasketsSound
  <2> SUFFICES ASSUME IInv PROVE TypeOK /\ OneLinePerProduct
    BY DEF BasketsSound
  <2> USE DEF IInv
  <2>1. ASSUME NEW b \in Buyers
        PROVE  /\ baskets[b] = NoBasket \/ baskets[b] \subseteq Lines
               /\ baskets[b] # NoBasket => \A line \in WithId(baskets[b], None) :
                     \E r \in Requests : /\ buyer[r] = b /\ input[r].op = "post"
                                          /\ line \in input[r].lines
               /\ Range(answered[b]) \subseteq {r \in Requests : buyer[r] = b}
    <3>1. baskets[b] = NoBasket \/ baskets[b] \subseteq Lines
      BY DEF Shapes, Sized
    <3>2. baskets[b] # NoBasket => \A line \in WithId(baskets[b], None) : PostedLine(b, line)
      BY DEF Shapes, WithId
    <3>3. Range(answered[b]) \subseteq Finished(b)
      BY DEF Shapes, Range
    <3> QED
      BY <3>1, <3>2, <3>3 DEF PostedLine, Finished
  <2>2. \A r \in Requests : input[r] \in Inputs \cup {None} /\ cart[r] \subseteq Lines
    BY DEF Flow, Shapes, Sized
  <2>3. TypeOK
    BY <2>1, <2>2 DEF TypeOK, Flow
  <2>4. OneLinePerProduct
    BY DistinctIs DEF OneLinePerProduct, Shapes, Sized
  <2> QED
    BY <2>3, <2>4
<1> QED
  BY <1>1, Invariant, PTL

\* What is stored is what some finished requests of the buyer mean one after the
\* other: reading, changing and overwriting without a version (BasketService of
\* the aggregator, UpdateBasketAsync) loses requests but never mixes them.
THEOREM BasketExplained == Spec => []SomeOrderExplains
<1>1. IInv => SomeOrderExplains
  <2> SUFFICES ASSUME IInv, NEW b \in Buyers, ~PostedTwice(b)
               PROVE  \E s \in SetToAllKPermutations(Finished(b)) : Keyed(baskets[b]) = After(s)
    BY DEF SomeOrderExplains, Finished
  <2>1. PICK s \in Orders(Finished(b)) : Keyed(baskets[b]) = After(s)
    BY DEF IInv, OrderInv, Explains
  <2> QED
    BY <2>1, OrdersArePermutations
<1> QED
  BY <1>1, Invariant, PTL

\* Without overlap, failure or crash nothing is lost: the basket is what the
\* answered requests mean, in the order of their answers.
THEOREM BasketSequential == Spec => []UndisturbedIsSequential
<1>1. IInv => UndisturbedIsSequential
  BY DEF IInv, CalmInv, Calm, ExplainedBy, UndisturbedIsSequential
<1> QED
  BY <1>1, Invariant, PTL
=============================================================================

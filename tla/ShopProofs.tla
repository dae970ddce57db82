----------------------------- MODULE ShopProofs -----------------------------
(***************************************************************************)
(* Proofs about the four specifications of MCShop, each for every value of *)
(* its constants: Catalog (EditsExplained, DeletedStaysGone), Webhooks     *)
(* (HooksExplained), Stock (StockExplained) and OrderManager (LinesMerged). *)
(*                                                                         *)
(* A proof about the last three names their definitions as the instances W, *)
(* K and L of MCShop.  ASSUMEs of MCShop that are used: the sets of posts  *)
(* and hooks are finite, names do not clash, two to the width is twice the *)
(* power below it, and prices, discounts and units are numbers, the last of *)
(* the width of an int.                                                    *)
(***************************************************************************)
EXTENDS MCShop, FiniteSetTheorems, TLAPS

Edited(r) == kind[r] = "edit" /\ payload[r] # None

\* What is known of a request from its state.
Begun == \A r \in Requests :
    /\ pc[r] = "idle" => kind[r] = None /\ payload[r] = None /\ repeats[r] = 0 /\ r \notin effect
    /\ pc[r] \in {"find", "save"} =>
          kind[r] # None /\ item[r] \in Items /\ (kind[r] # "delete" => payload[r] \in Rows)
    /\ pc[r] = "find" => kind[r] # "create" /\ r \notin effect
    /\ kind[r] = "create" => item[r] = r
    /\ Edited(r) =>
          /\ item[r] \in Items /\ edit[r] \in Edits
          /\ payload[r][edit[r].field] = edit[r].value
          /\ base[r] <= Len(saves[item[r]])

\* A request whose save was committed, and has not been answered since, has one
\* that is repeated.
Told == \A r \in Requests :
    /\ pc[r] = "save" /\ r \in effect => repeats[r] > 0
    /\ r \in effect /\ kind[r] = "delete" => item[r] \in gone

\* The updates of an item are edits of it, of clients that had not seen their own.
Appended == \A i \in Items : \A k \in DOMAIN saves[i] :
    /\ Edited(saves[i][k]) /\ item[saves[i][k]] = i
    /\ base[saves[i][k]] < k

\* Before its request creates it an item is not there, and was never.
Made == \A i \in Requests :
    ~(i \in effect /\ kind[i] = "create") => ~There(i) /\ saves[i] = <<>> /\ i \notin gone

Removed == \A i \in gone : ~CreateRepeated(i) => ~There(i)

\* Two deletions took effect.
DeletedAgain == \A r, q \in effect :
    r # q /\ kind[r] = "delete" /\ kind[q] = "delete" /\ item[r] = item[q]
    => CreateRepeated(item[r])

\* Of the first n updates of i, k is the last one of f, and not put back since.
Latest(i, f, k, n) ==
    /\ k \in UpdatesOf(f, i) /\ k <= n
    /\ \A m \in UpdatesOf(f, i) : m <= n => m <= k
    /\ \A m \in DOMAIN saves[i] : k < m /\ m <= n => base[saves[i][m]] >= k

\* The table has the latest update of every field, and so has what an edit puts
\* back, as of the time its client read the item.
Tabled == \A i \in Items : There(i) /\ ~CreateRepeated(i) =>
    \A f \in Fields : \A k \in DOMAIN saves[i] :
        Latest(i, f, k, Len(saves[i])) => rows[i][f] = edit[saves[i][k]].value

PutBack == \A r \in Requests : Edited(r) /\ ~CreateRepeated(item[r]) =>
    \A f \in Fields \ {edit[r].field} : \A k \in DOMAIN saves[item[r]] :
        Latest(item[r], f, k, base[r]) => payload[r][f] = edit[saves[item[r]][k]].value

RowInv ==
    /\ Begun /\ Told /\ Appended /\ Made /\ Removed /\ DeletedAgain
    /\ AnswerTellsEffect /\ Tabled /\ PutBack

\* Prices on their way to a basket were offered to its customer.
Carried ==
    /\ \A a \in Adds :
          /\ apc[a] = "idle" => price[a] = None /\ copy[a] = None
          /\ apc[a] # "idle" => shopper[a] \in Customers /\ product[a] \in Items
          /\ price[a] # None => price[a] \in offered[shopper[a]][product[a]]
          /\ copy[a] # None => \A i \in Items :
                copy[a][i] # None => copy[a][i] \in offered[shopper[a]][i]

IInv == TypeOK /\ RowInv /\ Carried /\ ChargedAsOffered

-----------------------------------------------------------------------------
(* A row that is edited.                                                   *)

LEMMA EditRow ==
    ASSUME NEW w \in Rows, NEW e \in Edits
    PROVE  /\ [w EXCEPT ![e.field] = e.value] \in Rows
           /\ e.field \in Fields
           /\ [w EXCEPT ![e.field] = e.value][e.field] = e.value
           /\ \A f \in Fields \ {e.field} : [w EXCEPT ![e.field] = e.value][f] = w[f]
<1>1. e.field \in Fields BY DEF Edits, Fields
<1>2. [w EXCEPT ![e.field] = e.value][e.field] = e.value
  BY <1>1 DEF Rows, Fields
<1>3. \A f \in Fields \ {e.field} : [w EXCEPT ![e.field] = e.value][f] = w[f]
  BY <1>1 DEF Rows, Fields
<1>4. [w EXCEPT ![e.field] = e.value] \in Rows
  BY DEF Rows, Edits
<1> QED BY <1>1, <1>2, <1>3, <1>4

-----------------------------------------------------------------------------
(* What a step of a request leaves alone.                                  *)

\* Of all requests only r changes.
OnlyOf(r) == \A q \in Requests \ {r} :
    /\ pc'[q] = pc[q] /\ item'[q] = item[q] /\ kind'[q] = kind[q]
    /\ edit'[q] = edit[q] /\ payload'[q] = payload[q]
    /\ repeats'[q] = repeats[q] /\ base'[q] = base[q]

LEMMA SameLatest ==
    ASSUME saves' = saves, TypeOK,
           \A i \in Items : \A k \in DOMAIN saves[i] :
              edit'[saves[i][k]] = edit[saves[i][k]] /\ base'[saves[i][k]] = base[saves[i][k]]
    PROVE  \A i \in Items, f \in Fields : \A k, n : Latest(i, f, k, n)' <=> Latest(i, f, k, n)
<1> SUFFICES ASSUME NEW i \in Items, NEW f \in Fields, NEW k, NEW n
             PROVE  Latest(i, f, k, n)' <=> Latest(i, f, k, n)
  OBVIOUS
<1>1. UpdatesOf(f, i)' = UpdatesOf(f, i)
  BY DEF UpdatesOf
<1>2. \A m \in DOMAIN saves[i] : base'[saves'[i][m]] = base[saves[i][m]]
  OBVIOUS
<1> QED BY <1>1, <1>2 DEF Latest

\* A request that begins.
LEMMA Starting ==
    ASSUME IInv, Begun', NEW r \in Requests, pc[r] = "idle", OnlyOf(r),
           UNCHANGED <<rowVars, repeats, effect>>,
           pc'[r] \in {"find", "save", "error"},
           Edited(r)' =>
              /\ There(item'[r]) /\ base'[r] = Len(saves[item'[r]])
              /\ \A f \in Fields \ {edit'[r].field} : payload'[r][f] = rows[item'[r]][f]
    PROVE  RowInv'
<1> USE DEF IInv, RowInv, rowVars
<1>1. \A i \in Items : \A k \in DOMAIN saves[i] : saves[i][k] \in Requests \ {r}
  BY DEF Appended, Begun, Edited, TypeOK
<1>2. \A i \in Items, f \in Fields : \A k, n : Latest(i, f, k, n)' <=> Latest(i, f, k, n)
  BY <1>1, SameLatest DEF OnlyOf
<1>3. \A i : CreateRepeated(i)' <=> CreateRepeated(i)
  BY DEF CreateRepeated
<1>4. r \notin effect
  BY DEF Begun
<1>5. Told'
  BY <1>4 DEF Told, OnlyOf
<1>6. Appended'
  BY <1>1 DEF Appended, OnlyOf, Edited
<1>7. Made'
  BY <1>4 DEF Made, There, OnlyOf
<1>8. Removed'
  BY <1>3 DEF Removed, There
<1>9. DeletedAgain'
  <2> SUFFICES ASSUME NEW p \in effect, NEW q \in effect, p # q,
                      kind'[p] = "delete", kind'[q] = "delete", item'[p] = item'[q]
               PROVE  CreateRepeated(item[p])'
    BY DEF DeletedAgain
  <2>1. p \in Requests \ {r} /\ q \in Requests \ {r}
    BY <1>4 DEF TypeOK
  <2>2. CreateRepeated(item[p])
    BY <2>1 DEF DeletedAgain, OnlyOf
  <2>3. item'[p] = item[p]
    BY <2>1 DEF OnlyOf
  <2> QED BY <2>2, <2>3, <1>3
<1>10. AnswerTellsEffect'
  BY <1>4 DEF AnswerTellsEffect, OnlyOf
<1>11. Tabled'
  BY <1>1, <1>2, <1>3 DEF Tabled, There, OnlyOf
<1>12. PutBack'
  <2> SUFFICES ASSUME NEW q \in Requests, Edited(q)', ~CreateRepeated(item[q])',
                      NEW f \in Fields \ {edit'[q].field}, NEW k \in DOMAIN saves[item'[q]],
                      Latest(item[q], f, k, base[q])'
               PROVE  payload'[q][f] = edit'[saves[item'[q]][k]].value
    BY DEF PutBack
  <2>1. item'[q] \in Items
    BY DEF Begun
  <2>2. Latest(item'[q], f, k, base'[q]) /\ ~CreateRepeated(item'[q])
    BY <1>2, <1>3, <2>1
  <2>3. edit'[saves[item'[q]][k]] = edit[saves[item'[q]][k]]
    BY <1>1, <2>1 DEF OnlyOf
  <2>4. CASE q = r
    <3>1. rows[item'[q]][f] = edit[saves[item'[q]][k]].value
      BY <2>1, <2>2, <2>4 DEF Tabled
    <3> QED BY <3>1, <2>3, <2>4
  <2>5. CASE q # r
    <3>1. Edited(q) /\ item'[q] = item[q] /\ edit'[q] = edit[q] /\ base'[q] = base[q]
          /\ payload'[q] = payload[q]
      BY <2>5 DEF OnlyOf, Edited
    <3>2. payload[q][f] = edit[saves[item[q]][k]].value
      BY <3>1, <2>2 DEF PutBack
    <3> QED BY <3>1, <3>2, <2>3
  <2> QED BY <2>4, <2>5
<1> QED BY <1>5, <1>6, <1>7, <1>8, <1>9, <1>10, <1>11, <1>12

\* A request that goes on without a commit, or ends.
LEMMA Moving ==
    ASSUME IInv, NEW r \in Requests, NEW s,
           pc' = [pc EXCEPT ![r] = s],
           \/ pc[r] = "find" /\ s \in {"save", "notFound", "error"}
           \/ pc[r] = "save" /\ s = "error",
           UNCHANGED <<rowVars, item, kind, edit, payload, repeats, base, effect>>
    PROVE  RowInv'
<1> USE DEF IInv, RowInv, rowVars
<1>1. \A q \in Requests : pc'[q] = IF q = r THEN s ELSE pc[q]
  BY DEF TypeOK
<1>2. \A q \in Requests : Edited(q)' <=> Edited(q)
  BY DEF Edited
<1>3. \A i \in Items, f \in Fields : \A k, n : Latest(i, f, k, n)' <=> Latest(i, f, k, n)
  BY SameLatest
<1>4. \A i : CreateRepeated(i)' <=> CreateRepeated(i)
  BY DEF CreateRepeated
<1>5. Begun'
  BY <1>1, <1>2 DEF Begun
<1>6. Told'
  BY <1>1 DEF Told, Begun
<1>7. Appended'
  BY <1>2 DEF Appended, TypeOK
<1>8. Made' /\ Removed' /\ DeletedAgain'
  BY <1>4 DEF Made, Removed, DeletedAgain, There
<1>9. AnswerTellsEffect'
  BY <1>1 DEF AnswerTellsEffect, Begun, Told
<1>10. Tabled'
  BY <1>3, <1>4 DEF Tabled, There
<1>11. PutBack'
  <2> SUFFICES ASSUME NEW q \in Requests, Edited(q), ~CreateRepeated(item[q])',
                      NEW f \in Fields \ {edit[q].field}, NEW k \in DOMAIN saves[item[q]],
                      Latest(item[q], f, k, base[q])'
               PROVE  payload[q][f] = edit[saves[item[q]][k]].value
    BY <1>2 DEF PutBack
  <2>1. item[q] \in Items
    BY DEF Begun
  <2>2. Latest(item[q], f, k, base[q]) /\ ~CreateRepeated(item[q])
    BY <1>3, <1>4, <2>1
  <2> QED BY <2>2 DEF PutBack
<1> QED BY <1>5, <1>6, <1>7, <1>8, <1>9, <1>10, <1>11

\* A request whose save is committed.
LEMMA Committing ==
    ASSUME IInv, NEW r \in Requests, pc[r] = "save", Commit(r),
           \/ pc' = [pc EXCEPT ![r] = "ok"] /\ repeats' = repeats
           \/ pc' = pc /\ repeats' = [repeats EXCEPT ![r] = @ + 1]
    PROVE  RowInv'
<1> USE DEF IInv, RowInv
<1>0. PICK i \in Items : i = item[r]
  BY DEF Begun
<1>1. /\ i = item[r] /\ kind[r] \in {"edit", "create", "delete"}
      /\ kind[r] = "create" => i = r
      /\ kind[r] # "delete" => payload[r] \in Rows
  BY <1>0 DEF Begun, TypeOK
<1>2. /\ UNCHANGED <<item, kind, edit, payload, base>>
      /\ effect' = effect \cup {r}
      /\ (kind[r] = "create") = ~There(i)
  BY <1>0 DEF Commit, Accepted
<1>3. \A q \in Requests : /\ pc'[q] = pc[q] \/ (q = r /\ pc'[q] = "ok")
                          /\ repeats'[q] >= repeats[q] /\ repeats'[q] \in Nat
                          /\ q # r => repeats'[q] = repeats[q]
                          /\ q = r /\ pc'[q] # "ok" => repeats'[q] > 0
  <2>1. repeats \in [Requests -> Nat] /\ DOMAIN pc = Requests
    BY CatalogAssumption DEF TypeOK
  <2>2. \A q \in Requests : pc'[q] = pc[q] \/ (q = r /\ pc'[q] = "ok")
    <3>1. CASE pc' = [pc EXCEPT ![r] = "ok"]
      BY ONLY <2>1, <3>1, r \in Requests
    <3>2. CASE pc' = pc
      BY <3>2
    <3> QED BY <3>1, <3>2
  <2>3. \A q \in Requests : /\ q # r => repeats'[q] = repeats[q]
                            /\ repeats'[q] \in {repeats[q], repeats[q] + 1}
    BY <2>1
  <2>4. pc'[r] = "ok" \/ repeats'[r] = repeats[r] + 1
    BY <2>1
  <2>5. \A q \in Requests : repeats[q] \in Nat
    BY <2>1
  <2> QED BY <2>2, <2>3, <2>4, <2>5
<1>4. \A j : CreateRepeated(j) => CreateRepeated(j)'
  BY <1>3 DEF CreateRepeated, TypeOK
<1>5. \A q : Edited(q)' <=> Edited(q)
  BY <1>2 DEF Edited
<1>6. /\ \A j \in Items \ {i} : rows'[j] = rows[j] /\ saves'[j] = saves[j]
      /\ rows'[i] = IF kind[r] = "delete" THEN None ELSE payload[r]
      /\ saves'[i] = IF kind[r] = "edit" THEN Append(saves[i], r) ELSE saves[i]
      /\ gone' = IF kind[r] = "delete" THEN gone \cup {i} ELSE gone
  BY <1>1 DEF Commit, Written, TypeOK
<1>7. None \notin Rows
  BY NoneAssumption DEF Rows
<1>8. saves[i] \in Seq(Requests) /\ \A j \in Items : saves[j] \in Seq(Requests)
  BY <1>1 DEF TypeOK
<1>9. Begun'
  <2> SUFFICES ASSUME NEW q \in Requests
               PROVE  /\ pc'[q] = "idle" => kind[q] = None /\ payload[q] = None /\ repeats'[q] = 0
                                            /\ q \notin effect'
                      /\ pc'[q] \in {"find", "save"} =>
                            kind[q] # None /\ item[q] \in Items /\ (kind[q] # "delete" => payload[q] \in Rows)
                      /\ pc'[q] = "find" => kind[q] # "create" /\ q \notin effect'
                      /\ kind[q] = "create" => item[q] = q
                      /\ Edited(q) =>
                            /\ item[q] \in Items /\ edit[q] \in Edits
                            /\ payload[q][edit[q].field] = edit[q].value
                            /\ base[q] <= Len(saves'[item[q]])
    BY <1>2, <1>5 DEF Begun
  <2>1. Edited(q) => base[q] <= Len(saves'[item[q]])
    <3> SUFFICES ASSUME Edited(q) PROVE base[q] <= Len(saves'[item[q]])
      OBVIOUS
    <3>1. item[q] \in Items /\ base[q] <= Len(saves[item[q]]) /\ base[q] \in Nat
      BY DEF Begun, TypeOK
    <3>2. saves'[item[q]] = saves[item[q]] \/ saves'[item[q]] = Append(saves[item[q]], r)
      BY <3>1, <1>6
    <3>3. saves[item[q]] \in Seq(Requests)
      BY <3>1, <1>8
    <3>4. Len(saves'[item[q]]) >= Len(saves[item[q]])
      BY <3>2, <3>3
    <3>5. Len(saves'[item[q]]) \in Nat /\ Len(saves[item[q]]) \in Nat
      BY <3>2, <3>3
    <3> QED BY <3>1, <3>4, <3>5
  <2>2. q # r => pc'[q] = pc[q] /\ repeats'[q] = repeats[q] /\ (q \in effect' <=> q \in effect)
    BY <1>2, <1>3
  <2>3. q = r => pc'[q] \in {"save", "ok"}
    BY <1>3
  <2> QED BY <2>1, <2>2, <2>3 DEF Begun
<1>10. Told'
  BY <1>1, <1>2, <1>3, <1>6 DEF Told
<1>11. AnswerTellsEffect'
  BY <1>2, <1>3 DEF AnswerTellsEffect, TypeOK
<1>12. DeletedAgain'
  <2> SUFFICES ASSUME NEW p \in effect', NEW q \in effect', p # q,
                      kind[p] = "delete", kind[q] = "delete", item[p] = item[q]
               PROVE  CreateRepeated(item[p])'
    BY <1>2 DEF DeletedAgain
  <2>1. CASE p \in effect /\ q \in effect
    <3>1. CreateRepeated(item[p])
      BY <2>1 DEF DeletedAgain
    <3> QED BY <3>1, <1>4, <1>2
  <2>2. ASSUME kind[r] = "delete", i \in gone PROVE CreateRepeated(i)'
    BY <2>2, <1>2, <1>4 DEF Removed
  <2>3. CASE p = r
    BY <2>2, <2>3, <1>1, <1>2, <1>4 DEF Told, TypeOK
  <2>4. CASE q = r
    BY <2>2, <2>4, <1>1, <1>2, <1>4 DEF Told, TypeOK
  <2> QED BY <2>1, <2>3, <2>4, <1>2
<1>13. Made'
  <2> SUFFICES ASSUME NEW j \in Requests, ~(j \in effect' /\ kind[j] = "create")
               PROVE  rows'[j] = None /\ saves'[j] = <<>> /\ j \notin gone'
    BY <1>2 DEF Made, There
  <2>1. ~(j \in effect /\ kind[j] = "create")
    BY <1>2
  <2>2. rows[j] = None /\ saves[j] = <<>> /\ j \notin gone /\ j \in Items
    BY <2>1 DEF Made, There, Items
  <2> QED
    BY <1>1, <1>2, <1>6, <2>1, <2>2 DEF There, TypeOK
<1>14. Removed'
  <2>1. ASSUME kind[r] = "create", i \in gone PROVE CreateRepeated(i)'
    <3>1. r \in effect
      BY <2>1, <1>1 DEF Made
    <3>2. repeats[r] > 0
      BY <3>1 DEF Told
    <3>3. CreateRepeated(i)
      BY <3>2, <2>1, <1>1 DEF CreateRepeated
    <3> QED BY <3>3, <1>4
  <2> SUFFICES ASSUME NEW j \in gone', ~CreateRepeated(j)' PROVE ~There(j)'
    BY DEF Removed
  <2>2. CASE j = i
    <3>1. kind[r] # "create"
      BY <2>1, <2>2, <1>6
    <3>2. kind[r] # "delete" => ~There(i)
      BY <2>2, <1>4, <1>6 DEF Removed
    <3> QED BY <3>1, <3>2, <2>2, <1>2, <1>6 DEF There
  <2>3. CASE j # i
    <3>1. j \in gone /\ j \in Items
      BY <2>3, <1>6 DEF TypeOK
    <3>2. ~There(j)
      BY <3>1, <1>4 DEF Removed
    <3> QED BY <3>1, <3>2, <2>3, <1>6 DEF There
  <2> QED BY <2>2, <2>3
<1>15. Appended'
  <2> SUFFICES ASSUME NEW j \in Items, NEW k \in DOMAIN saves'[j]
               PROVE  /\ Edited(saves'[j][k]) /\ item[saves'[j][k]] = j
                      /\ base[saves'[j][k]] < k
    BY <1>2, <1>5 DEF Appended
  <2>1. CASE j = i /\ kind[r] = "edit"
    <3>1. saves'[j] = Append(saves[i], r) /\ saves[i] \in Seq(Requests)
      BY <2>1, <1>6, <1>8
    <3>2. CASE k \in DOMAIN saves[i]
      BY <3>1, <3>2, <2>1 DEF Appended
    <3>3. CASE k = Len(saves[i]) + 1
      <4>1. saves'[j][k] = r
        BY <3>1, <3>3
      <4>2. Edited(r)
        BY <2>1, <1>1, <1>7 DEF Edited
      <4>3. base[r] <= Len(saves[i])
        BY <4>2, <1>1 DEF Begun
      <4>4. base[r] \in Nat /\ Len(saves[i]) \in Nat
        BY <3>1 DEF TypeOK
      <4> QED BY <4>1, <4>2, <4>3, <4>4, <3>3, <2>1, <1>1
    <3> QED BY <3>1, <3>2, <3>3
  <2>2. CASE ~(j = i /\ kind[r] = "edit")
    BY <2>2, <1>6 DEF Appended
  <2> QED BY <2>1, <2>2
<1>16. Tabled'
  <2> SUFFICES ASSUME NEW j \in Items, There(j)', ~CreateRepeated(j)',
                      NEW f \in Fields, NEW k \in DOMAIN saves'[j],
                      Latest(j, f, k, Len(saves[j]))'
               PROVE  rows'[j][f] = edit[saves'[j][k]].value
    BY <1>2 DEF Tabled
  <2>1. CASE j # i \/ kind[r] # "edit"
    <3>1. saves'[j] = saves[j]
      BY <2>1, <1>6
    <3>2. Latest(j, f, k, Len(saves[j]))
      BY <3>1, <1>2 DEF Latest, UpdatesOf
    <3>3. ~CreateRepeated(j)
      BY <1>4
    <3>4. CASE j # i
      BY <3>1, <3>2, <3>3, <3>4, <1>6 DEF Tabled, There
    <3>5. CASE j = i /\ kind[r] = "delete"
      BY <3>5, <1>6 DEF There
    <3>6. CASE j = i /\ kind[r] = "create"
      <4>1. r \notin effect
        BY <3>3, <3>6, <1>1 DEF Told, CreateRepeated
      <4>2. saves[j] = <<>>
        BY <4>1, <3>6, <1>1 DEF Made
      <4> QED BY <4>2, <3>1
    <3> QED BY <3>4, <3>5, <3>6, <2>1, <1>1
  <2>2. CASE j = i /\ kind[r] = "edit"
    <3>1. saves'[j] = Append(saves[i], r) /\ saves[i] \in Seq(Requests)
      BY <2>2, <1>6, <1>8
    <3> DEFINE n == Len(saves[i])
    <3>2. n \in Nat /\ Len(saves'[j]) = n + 1 /\ DOMAIN saves'[j] = 1 .. n + 1
      BY <3>1
    <3>3. saves'[j][n + 1] = r /\ \A m \in 1 .. n : saves'[j][m] = saves[i][m]
      BY <3>1
    <3>4. Edited(r) /\ rows'[i] = payload[r] /\ payload[r] \in Rows
      BY <2>2, <1>1, <1>6, <1>7 DEF Edited
    <3>5. CASE k = n + 1
      <4>1. edit[r].field = f
        BY <3>2, <3>3, <3>5, <1>2 DEF Latest, UpdatesOf
      <4>2. payload[r][f] = edit[r].value
        BY <4>1, <3>4 DEF Begun
      <4> QED BY <4>2, <3>3, <3>4, <3>5, <2>2
    <3>6. CASE k \in 1 .. n
      <4>1. edit[saves[i][k]].field = f
        BY <3>3, <3>6, <1>2 DEF Latest, UpdatesOf
      <4>2. \A m \in 1 .. n : edit[saves[i][m]].field = f => m <= k
        BY <3>2, <3>3, <1>2 DEF Latest, UpdatesOf
      <4>3. edit[r].field # f
        BY <3>2, <3>3, <3>6, <1>2 DEF Latest, UpdatesOf
      <4>4. base[r] >= k /\ \A m \in 1 .. n : k < m => base[saves[i][m]] >= k
        BY <3>2, <3>3, <3>6, <1>2 DEF Latest
      <4>5. base[r] \in Nat
        BY DEF TypeOK
      <4>6. Latest(i, f, k, base[r])
        BY <3>1, <3>2, <3>6, <4>1, <4>2, <4>4, <4>5, SMTT(30) DEF Latest, UpdatesOf
      <4>7. Edited(r) /\ ~CreateRepeated(item[r]) /\ f \in Fields \ {edit[r].field}
            /\ k \in DOMAIN saves[item[r]] /\ Latest(item[r], f, k, base[r])
        BY <4>3, <4>6, <3>1, <3>2, <3>4, <3>6, <2>2, <1>1, <1>4
      <4>8. payload[r][f] = edit[saves[item[r]][k]].value
        BY <4>7 DEF PutBack
      <4> QED BY <4>8, <3>3, <3>4, <3>6, <2>2, <1>1
    <3> QED BY <3>2, <3>5, <3>6
  <2> QED BY <2>1, <2>2
<1>17. PutBack'
  <2> SUFFICES ASSUME NEW q \in Requests, Edited(q), ~CreateRepeated(item[q])',
                      NEW f \in Fields \ {edit[q].field}, NEW k \in DOMAIN saves'[item[q]],
                      Latest(item[q], f, k, base[q])'
               PROVE  payload[q][f] = edit[saves'[item[q]][k]].value
    BY <1>2, <1>5 DEF PutBack
  <2> DEFINE j == item[q]
             n == Len(saves[j])
  <2>1. j \in Items /\ base[q] <= n /\ base[q] \in Nat
    BY DEF Begun, TypeOK
  <2>2. saves[j] \in Seq(Requests) /\ n \in Nat
    BY <2>1, <1>8
  <2>3. saves'[j] = saves[j] \/ saves'[j] = Append(saves[j], r)
    BY <2>1, <1>6
  <2>4. 1 .. n \subseteq DOMAIN saves'[j] /\ \A m \in 1 .. n : saves'[j][m] = saves[j][m]
    BY <2>2, <2>3
  <2>5. k \in 1 .. n
    BY <1>2, <2>1, <2>2, <2>3 DEF Latest
  <2>6. edit[saves[j][k]].field = f
    BY <1>2, <2>4, <2>5 DEF Latest, UpdatesOf
  <2>7. \A m \in 1 .. n : edit[saves[j][m]].field = f /\ m <= base[q] => m <= k
    BY <1>2, <2>4 DEF Latest, UpdatesOf
  <2>8. \A m \in 1 .. n : k < m /\ m <= base[q] => base[saves[j][m]] >= k
    BY <1>2, <2>4 DEF Latest
  <2>9. k <= base[q]
    BY <1>2 DEF Latest
  <2>10. Latest(j, f, k, base[q])
    BY <2>2, <2>5, <2>6, <2>7, <2>8, <2>9 DEF Latest, UpdatesOf
  <2>11. ~CreateRepeated(j)
    BY <1>2, <1>4
  <2>12. k \in DOMAIN saves[j]
    BY <2>2, <2>5
  <2>13. payload[q][f] = edit[saves[j][k]].value
    BY <2>10, <2>11, <2>12 DEF PutBack
  <2> QED BY <2>13, <2>4, <2>5
<1> QED BY <1>9, <1>10, <1>11, <1>12, <1>13, <1>14, <1>15, <1>16, <1>17

-----------------------------------------------------------------------------
(* The steps of a request.                                                 *)

LEMMA KeptRows ==
    ASSUME IInv, UNCHANGED <<rowVars, reqVars>>
    PROVE  RowInv'
<1> USE DEF IInv, RowInv, rowVars, reqVars
<1>1. \A i \in Items, f \in Fields : \A k, n : Latest(i, f, k, n)' <=> Latest(i, f, k, n)
  BY SameLatest
<1>2. (\A i : CreateRepeated(i)' <=> CreateRepeated(i)) /\ (\A r : Edited(r)' <=> Edited(r))
  BY DEF CreateRepeated, Edited
<1>3. Begun' /\ Told' /\ AnswerTellsEffect'
  BY <1>2 DEF Begun, Told, AnswerTellsEffect
<1>4. Appended'
  BY <1>2 DEF Appended
<1>5. Made' /\ Removed' /\ DeletedAgain'
  BY <1>2 DEF Made, Removed, DeletedAgain, There
<1>6. Tabled'
  BY <1>1, <1>2 DEF Tabled, There
<1>7. PutBack'
  <2> SUFFICES ASSUME NEW q \in Requests, Edited(q), ~CreateRepeated(item[q])',
                      NEW f \in Fields \ {edit[q].field}, NEW k \in DOMAIN saves[item[q]],
                      Latest(item[q], f, k, base[q])'
               PROVE  payload[q][f] = edit[saves[item[q]][k]].value
    BY <1>2 DEF PutBack
  <2>1. item[q] \in Items
    BY DEF Begun
  <2>2. Latest(item[q], f, k, base[q]) /\ ~CreateRepeated(item[q])
    BY <1>1, <1>2, <2>1
  <2> QED BY <2>2 DEF PutBack
<1> QED BY <1>3, <1>4, <1>5, <1>6, <1>7

\* Baskets and requests to the aggregator stay, and prices are only added.
LEMMA KeptShop ==
    ASSUME IInv, UNCHANGED <<apc, shopper, product, price, copy, baskets, charged>>,
           \A c \in Customers, i \in Items : offered[c][i] \subseteq offered'[c][i]
    PROVE  Carried' /\ ChargedAsOffered'
<1> USE DEF IInv
<1>1. Carried'
  <2> SUFFICES ASSUME NEW a \in Adds
               PROVE  /\ apc[a] = "idle" => price[a] = None /\ copy[a] = None
                      /\ apc[a] # "idle" => shopper[a] \in Customers /\ product[a] \in Items
                      /\ price[a] # None => price[a] \in offered'[shopper[a]][product[a]]
                      /\ copy[a] # None => \A i \in Items :
                            copy[a][i] # None => copy[a][i] \in offered'[shopper[a]][i]
    BY DEF Carried
  <2> QED BY DEF Carried
<1>2. ChargedAsOffered'
  BY DEF ChargedAsOffered, TypeOK
<1> QED BY <1>1, <1>2

LEMMA ItemByIdKeeps ==
    ASSUME IInv, NEW r \in Requests, NEW i \in Items, NEW e \in Edits, ItemById(r, i, e)
    PROVE  IInv'
<1> USE DEF IInv
<1>1. /\ pc[r] = "idle" /\ OnlyOf(r) /\ kind'[r] = "edit" /\ item'[r] = i
      /\ UNCHANGED <<rowVars, repeats, effect, shopVars>>
  BY DEF ItemById, OnlyOf, TypeOK
<1>2. pc'[r] \in {"find", "error"}
  BY DEF ItemById, TypeOK
<1>3. CASE ~There(i)
  <2>1. pc'[r] = "error" /\ UNCHANGED <<edit, payload, base>>
    BY <1>3 DEF ItemById, TypeOK
  <2>2. payload'[r] = None /\ ~Edited(r)' /\ r \notin effect
    BY <1>1, <2>1 DEF RowInv, Begun, Edited
  <2>3. Begun'
    BY <1>1, <2>1, <2>2 DEF Begun, OnlyOf, Edited, RowInv, rowVars
  <2>4. TypeOK'
    BY <1>1, <2>1 DEF TypeOK, ItemById, rowVars, shopVars, There
  <2> QED BY <1>1, <2>1, <2>2, <2>3, <2>4, Starting, KeptShop DEF shopVars
<1>4. CASE There(i)
  <2> DEFINE row == [rows[i] EXCEPT ![e.field] = e.value]
  <2>1. rows[i] \in Rows
    BY <1>4 DEF TypeOK, There
  <2>2. /\ row \in Rows /\ e.field \in Fields /\ row[e.field] = e.value
        /\ \A f \in Fields \ {e.field} : row[f] = rows[i][f]
    BY <2>1, EditRow
  <2>3. /\ pc'[r] = "find" /\ edit'[r] = e /\ payload'[r] = row
        /\ base'[r] = Len(saves[i]) /\ There(i)
    BY <1>4 DEF ItemById, TypeOK
  <2>4. edit' = [edit EXCEPT ![r] = e] /\ payload' = [payload EXCEPT ![r] = row]
        /\ base' = [base EXCEPT ![r] = Len(saves[i])]
    BY <1>4 DEF ItemById
  <2> HIDE DEF row
  <2>5. Len(saves[i]) \in Nat /\ r \notin effect
    BY <1>1 DEF TypeOK, RowInv, Begun
  <2>6. row # None
    BY <2>2, NoneAssumption DEF Rows
  <2>7. Begun'
    <3> SUFFICES ASSUME NEW q \in Requests
                 PROVE  /\ pc'[q] = "idle" => kind'[q] = None /\ payload'[q] = None /\ repeats'[q] = 0
                                              /\ q \notin effect
                        /\ pc'[q] \in {"find", "save"} =>
                              kind'[q] # None /\ item'[q] \in Items /\ (kind'[q] # "delete" => payload'[q] \in Rows)
                        /\ pc'[q] = "find" => kind'[q] # "create" /\ q \notin effect
                        /\ kind'[q] = "create" => item'[q] = q
                        /\ Edited(q)' =>
                              /\ item'[q] \in Items /\ edit'[q] \in Edits
                              /\ payload'[q][edit'[q].field] = edit'[q].value
                              /\ base'[q] <= Len(saves[item'[q]])
      BY <1>1 DEF Begun, rowVars
    <3>1. CASE q = r
      BY <1>1, <2>2, <2>3, <2>5, <3>1, NoneAssumption
    <3>2. CASE q # r
      BY <1>1, <3>2 DEF OnlyOf, RowInv, Begun, Edited
    <3> QED BY <3>1, <3>2
  <2>8. TypeOK'
    BY <1>1, <2>2, <2>4, <2>5 DEF TypeOK, ItemById, rowVars, shopVars, There
  <2>9. RowInv'
    <3>1. edit'[r].field = e.field
      BY <2>3
    <3> QED BY <1>1, <2>2, <2>3, <2>7, <3>1, Starting
  <2> QED BY <1>1, <2>8, <2>9, KeptShop DEF shopVars
<1> QED BY <1>3, <1>4

LEMMA CreateProductKeeps ==
    ASSUME IInv, NEW r \in Requests, NEW p \in Prices, NEW b \in Brands, CreateProduct(r, p, b)
    PROVE  IInv'
<1> USE DEF IInv
<1>1. PICK none \in Stocks :
        payload' = [payload EXCEPT ![r] = [price |-> p, stock |-> none, brand |-> b]]
  BY DEF CreateProduct
<1> DEFINE row == [price |-> p, stock |-> none, brand |-> b]
<1>2. row \in Rows
  BY DEF Rows
<1>3. payload' = [payload EXCEPT ![r] = row]
  BY <1>1
<1> HIDE DEF row
<1>4. /\ pc[r] = "idle" /\ pc' = [pc EXCEPT ![r] = "save"]
      /\ kind' = [kind EXCEPT ![r] = "create"] /\ item' = [item EXCEPT ![r] = r]
      /\ UNCHANGED <<rowVars, edit, repeats, base, effect, shopVars>>
  BY DEF CreateProduct
<1>5. /\ OnlyOf(r) /\ pc'[r] = "save" /\ kind'[r] = "create" /\ item'[r] = r
      /\ payload'[r] = row /\ ~Edited(r)'
  BY <1>3, <1>4 DEF OnlyOf, TypeOK, Edited
<1>6. r \in Items /\ kind'[r] # None
  BY <1>5, NoneAssumption DEF Items
<1>7. Begun'
  <2> SUFFICES ASSUME NEW q \in Requests
               PROVE  /\ pc'[q] = "idle" => kind'[q] = None /\ payload'[q] = None /\ repeats[q] = 0
                                            /\ q \notin effect
                      /\ pc'[q] \in {"find", "save"} =>
                            kind'[q] # None /\ item'[q] \in Items /\ (kind'[q] # "delete" => payload'[q] \in Rows)
                      /\ pc'[q] = "find" => kind'[q] # "create" /\ q \notin effect
                      /\ kind'[q] = "create" => item'[q] = q
                      /\ Edited(q)' =>
                            /\ item'[q] \in Items /\ edit[q] \in Edits
                            /\ payload'[q][edit[q].field] = edit[q].value
                            /\ base[q] <= Len(saves[item'[q]])
    BY <1>4 DEF Begun, rowVars
  <2>1. CASE q = r
    BY <1>2, <1>5, <1>6, <2>1
  <2>2. CASE q # r
    BY <1>5, <2>2 DEF OnlyOf, RowInv, Begun, Edited
  <2> QED BY <2>1, <2>2
<1>8. RowInv'
  BY <1>4, <1>5, <1>7, Starting
<1>9. TypeOK'
  BY <1>2, <1>3, <1>4, <1>6 DEF TypeOK, rowVars, shopVars, There
<1> QED BY <1>4, <1>8, <1>9, KeptShop DEF shopVars

LEMMA DeleteProductKeeps ==
    ASSUME IInv, NEW r \in Requests, NEW i \in Items, DeleteProduct(r, i)
    PROVE  IInv'
<1> USE DEF IInv
<1>1. /\ pc[r] = "idle" /\ pc' = [pc EXCEPT ![r] = "find"]
      /\ kind' = [kind EXCEPT ![r] = "delete"] /\ item' = [item EXCEPT ![r] = i]
      /\ UNCHANGED <<rowVars, edit, payload, repeats, base, effect, shopVars>>
  BY DEF DeleteProduct
<1>2. /\ OnlyOf(r) /\ pc'[r] = "find" /\ kind'[r] = "delete" /\ item'[r] = i /\ ~Edited(r)'
  BY <1>1 DEF OnlyOf, TypeOK, Edited
<1>3. kind'[r] # None /\ r \notin effect
  BY <1>1, <1>2, NoneAssumption DEF RowInv, Begun
<1>4. Begun'
  <2> SUFFICES ASSUME NEW q \in Requests
               PROVE  /\ pc'[q] = "idle" => kind'[q] = None /\ payload[q] = None /\ repeats[q] = 0
                                            /\ q \notin effect
                      /\ pc'[q] \in {"find", "save"} =>
                            kind'[q] # None /\ item'[q] \in Items /\ (kind'[q] # "delete" => payload[q] \in Rows)
                      /\ pc'[q] = "find" => kind'[q] # "create" /\ q \notin effect
                      /\ kind'[q] = "create" => item'[q] = q
                      /\ Edited(q)' =>
                            /\ item'[q] \in Items /\ edit[q] \in Edits
                            /\ payload[q][edit[q].field] = edit[q].value
                            /\ base[q] <= Len(saves[item'[q]])
    BY <1>1 DEF Begun, rowVars
  <2>1. CASE q = r
    BY <1>2, <1>3, <2>1
  <2>2. CASE q # r
    BY <1>2, <2>2 DEF OnlyOf, RowInv, Begun, Edited
  <2> QED BY <2>1, <2>2
<1>5. RowInv'
  BY <1>1, <1>2, <1>4, Starting
<1>6. TypeOK'
  BY <1>1 DEF TypeOK, rowVars, shopVars, There
<1> QED BY <1>1, <1>5, <1>6, KeptShop DEF shopVars

\* Find, Refused and Fails.
LEMMA MovingKeeps ==
    ASSUME IInv, NEW r \in Requests, Find(r) \/ Refused(r) \/ Fails(r)
    PROVE  IInv'
<1> USE DEF IInv
<1>1. PICK s \in {"save", "notFound", "error"} :
        /\ pc' = [pc EXCEPT ![r] = s]
        /\ \/ pc[r] = "find"
           \/ pc[r] = "save" /\ s = "error"
  BY DEF Find, Refused, Fails
<1>2. UNCHANGED <<rowVars, item, kind, edit, payload, repeats, base, effect, shopVars>>
  BY DEF Find, Refused, Fails
<1>3. RowInv'
  BY <1>1, <1>2, Moving
<1>4. TypeOK'
  BY <1>1, <1>2 DEF TypeOK, rowVars, shopVars, There
<1> QED BY <1>2, <1>3, <1>4, KeptShop DEF shopVars

\* Save and Unacknowledged.
LEMMA CommittingKeeps ==
    ASSUME IInv, NEW r \in Requests, Save(r) \/ Unacknowledged(r)
    PROVE  IInv'
<1> USE DEF IInv
<1>1. /\ pc[r] = "save" /\ Commit(r)
      /\ \/ pc' = [pc EXCEPT ![r] = "ok"] /\ repeats' = repeats
         \/ /\ pc' = pc /\ repeats' = [repeats EXCEPT ![r] = @ + 1]
            /\ repeats[r] < MaxSaves
  BY DEF Save, Unacknowledged
<1>2. RowInv'
  BY <1>1, Committing
<1> DEFINE new == IF kind[r] = "delete" THEN None ELSE payload[r]
<1>3. /\ item[r] \in Items /\ new \in Rows \cup {None}
      /\ new # None => new.brand \in Known
  BY <1>1 DEF RowInv, Begun, Commit, Accepted
<1>4. /\ rows' = [rows EXCEPT ![item[r]] = new]
      /\ saves' \in {saves, [saves EXCEPT ![item[r]] = Append(@, r)]}
      /\ gone' \in {gone, gone \cup {item[r]}} /\ effect' = effect \cup {r}
      /\ offered' = [c \in Customers |->
                [offered[c] EXCEPT ![item[r]] =
                    IF new # None /\ Asking(c, item[r]) THEN @ \cup {new.price} ELSE @]]
      /\ UNCHANGED <<item, kind, edit, payload, base,
                     apc, shopper, product, price, copy, baskets, charged>>
  BY <1>1 DEF Commit, Written
<1>5. new # None => new.price \in Prices
  BY <1>3 DEF Rows
<1> HIDE DEF new
<1>6. \A c \in Customers, i \in Items :
        /\ offered[c][i] \subseteq offered'[c][i]
        /\ offered'[c][i] \subseteq Prices
  BY <1>3, <1>4, <1>5 DEF TypeOK
<1>7. offered' \in [Customers -> [Items -> SUBSET Prices]]
  <2>1. \A c \in Customers : DOMAIN offered'[c] = Items
    BY <1>3, <1>4 DEF TypeOK
  <2> QED BY <1>4, <1>6, <2>1 DEF TypeOK
<1>8. rows' \in [Items -> Rows \cup {None}] /\ (\A i \in Items : There(i)' => rows'[i].brand \in Known)
  BY <1>3, <1>4 DEF TypeOK, There
<1>9. saves' \in [Items -> Seq(Requests)]
  <2> DEFINE longer == Append(saves[item[r]], r)
  <2>1. saves \in [Items -> Seq(Requests)]
    BY DEF TypeOK
  <2>2. longer \in Seq(Requests)
    BY <2>1, <1>3
  <2>3. saves' = saves \/ saves' = [saves EXCEPT ![item[r]] = longer]
    BY <1>4
  <2> HIDE DEF longer
  <2> QED BY <2>1, <2>2, <2>3, <1>3
<1>10. pc' \in [Requests -> {"idle", "find", "save", "ok", "notFound", "error"}]
  BY <1>1 DEF TypeOK
<1>11. repeats' \in [Requests -> 0 .. MaxSaves]
  <2>1. repeats \in [Requests -> 0 .. MaxSaves] /\ MaxSaves \in Nat
    BY CatalogAssumption DEF TypeOK
  <2>2. CASE repeats' = repeats
    BY <2>1, <2>2
  <2>3. CASE repeats' = [repeats EXCEPT ![r] = @ + 1] /\ repeats[r] < MaxSaves
    <3>1. repeats[r] + 1 \in 0 .. MaxSaves
      BY <2>1, <2>3
    <3> QED BY <2>1, <2>3, <3>1
  <2> QED BY <1>1, <2>2, <2>3
<1>12. gone' \subseteq Items /\ effect' \subseteq Requests
  BY <1>3, <1>4 DEF TypeOK
<1>13. TypeOK'
  BY <1>4, <1>7, <1>8, <1>9, <1>10, <1>11, <1>12 DEF TypeOK
<1> QED BY <1>2, <1>4, <1>6, <1>13, KeptShop

-----------------------------------------------------------------------------
(* The steps of the aggregator and the checkout.                           *)

LEMMA AddStartsKeeps ==
    ASSUME IInv, NEW a \in Adds, NEW c \in Customers, NEW i \in Items, AddStarts(a, c, i)
    PROVE  IInv'
<1> USE DEF IInv
<1>1. /\ apc[a] = "idle" /\ apc' = [apc EXCEPT ![a] = "busy"]
      /\ shopper' = [shopper EXCEPT ![a] = c] /\ product' = [product EXCEPT ![a] = i]
      /\ UNCHANGED <<rowVars, reqVars, price, copy, baskets, charged, offered>>
  BY DEF AddStarts
<1>2. RowInv'
  BY <1>1, KeptRows
<1>3. TypeOK'
  BY <1>1 DEF TypeOK, There, rowVars, reqVars
<1>4. Carried'
  BY <1>1 DEF Carried, TypeOK
<1>5. ChargedAsOffered'
  BY <1>1 DEF ChargedAsOffered
<1> QED BY <1>2, <1>3, <1>4, <1>5

LEMMA PriceReadKeeps ==
    ASSUME IInv, NEW a \in Adds, PriceRead(a)
    PROVE  IInv'
<1> USE DEF IInv
<1> DEFINE i == product[a]
           c == shopper[a]
<1>1. /\ apc[a] = "busy" /\ price[a] = None /\ i \in Items /\ c \in Customers
      /\ UNCHANGED <<rowVars, reqVars, shopper, product, copy, baskets, charged>>
  BY DEF PriceRead, Carried
<1>2. RowInv'
  BY <1>1, KeptRows
<1>3. CASE /\ apc' = [apc EXCEPT ![a] = "error"] /\ UNCHANGED <<price, offered>>
  <2>1. TypeOK'
    BY <1>1, <1>3 DEF TypeOK, There, rowVars, reqVars
  <2>2. Carried'
    BY <1>1, <1>3 DEF Carried, TypeOK
  <2>3. ChargedAsOffered'
    BY <1>1, <1>3 DEF ChargedAsOffered
  <2> QED BY <1>2, <2>1, <2>2, <2>3
<1>4. CASE There(i) /\ apc' = apc /\ price' = [price EXCEPT ![a] = rows[i].price]
           /\ offered' = [offered EXCEPT ![c] =
                             [offered[c] EXCEPT ![i] = offered[c][i] \cup {rows[i].price}]]
  <2> DEFINE p == rows[i].price
             asked == [offered[c] EXCEPT ![i] = offered[c][i] \cup {p}]
  <2>1. p \in Prices /\ p # None
    BY <1>1, <1>4, NoneAssumption DEF TypeOK, There, Rows
  <2>3. offered' = [offered EXCEPT ![c] = asked] /\ price' = [price EXCEPT ![a] = p]
    BY <1>4
  <2> HIDE DEF p
  <2>2. asked \in [Items -> SUBSET Prices] /\ p \in asked[i]
        /\ \A j \in Items : offered[c][j] \subseteq asked[j]
    BY <1>1, <2>1 DEF TypeOK
  <2> HIDE DEF asked
  <2>4. /\ offered' \in [Customers -> [Items -> SUBSET Prices]]
        /\ \A d \in Customers, j \in Items : offered[d][j] \subseteq offered'[d][j]
        /\ p \in offered'[c][i]
    BY <1>1, <2>2, <2>3 DEF TypeOK
  <2>5. /\ price' \in [Adds -> Prices \cup {None}] /\ price'[a] = p
        /\ \A b \in Adds \ {a} : price'[b] = price[b]
    BY <2>1, <2>3 DEF TypeOK
  <2>6. TypeOK'
    BY <1>1, <1>4, <2>4, <2>5 DEF TypeOK, There, rowVars, reqVars
  <2>7. Carried'
    <3> SUFFICES ASSUME NEW b \in Adds
                 PROVE  /\ apc[b] = "idle" => price'[b] = None /\ copy[b] = None
                        /\ apc[b] # "idle" => shopper[b] \in Customers /\ product[b] \in Items
                        /\ price'[b] # None => price'[b] \in offered'[shopper[b]][product[b]]
                        /\ copy[b] # None => \A j \in Items :
                              copy[b][j] # None => copy[b][j] \in offered'[shopper[b]][j]
      BY <1>1, <1>4 DEF Carried
    <3>1. apc[b] = "idle" => b # a /\ price'[b] = None /\ copy[b] = None
      BY <1>1, <2>5 DEF Carried
    <3>2. apc[b] # "idle" => shopper[b] \in Customers /\ product[b] \in Items
      BY DEF Carried
    <3>3. price'[b] # None => price'[b] \in offered'[shopper[b]][product[b]]
      BY <3>1, <3>2, <1>1, <2>4, <2>5 DEF Carried
    <3>4. copy[b] # None => \A j \in Items :
             copy[b][j] # None => copy[b][j] \in offered'[shopper[b]][j]
      BY <3>1, <3>2, <2>4 DEF Carried
    <3> QED BY <3>1, <3>2, <3>3, <3>4
  <2>8. ChargedAsOffered'
    BY <1>1, <2>4 DEF ChargedAsOffered, TypeOK
  <2> QED BY <1>2, <2>6, <2>7, <2>8
<1> QED BY <1>3, <1>4 DEF PriceRead

LEMMA BasketReadKeeps ==
    ASSUME IInv, NEW a \in Adds, BasketRead(a)
    PROVE  IInv'
<1> USE DEF IInv
<1>1. /\ apc[a] = "busy" /\ copy' = [copy EXCEPT ![a] = baskets[shopper[a]]]
      /\ shopper[a] \in Customers
      /\ UNCHANGED <<rowVars, reqVars, apc, shopper, product, price, baskets, charged, offered>>
  BY DEF BasketRead, Carried
<1>2. RowInv'
  BY <1>1, KeptRows
<1>3. TypeOK'
  BY <1>1 DEF TypeOK, There, rowVars, reqVars
<1>4. Carried'
  <2>1. copy'[a] = baskets[shopper[a]] /\ \A b \in Adds \ {a} : copy'[b] = copy[b]
    BY <1>1 DEF TypeOK
  <2>2. \A i \in Items : copy'[a][i] # None => copy'[a][i] \in offered[shopper[a]][i]
    BY <1>1, <2>1 DEF ChargedAsOffered
  <2> QED BY <1>1, <2>1, <2>2 DEF Carried
<1>5. ChargedAsOffered'
  BY <1>1 DEF ChargedAsOffered
<1> QED BY <1>2, <1>3, <1>4, <1>5

LEMMA AddWritesKeeps ==
    ASSUME IInv, NEW a \in Adds, AddWrites(a)
    PROVE  IInv'
<1> USE DEF IInv
<1> DEFINE i == product[a]
           c == shopper[a]
           basket == [copy[a] EXCEPT ![i] = LinePrice(a)]
<1>1. /\ apc[a] = "busy" /\ price[a] # None /\ copy[a] # None /\ i \in Items /\ c \in Customers
      /\ apc' = [apc EXCEPT ![a] = "ok"] /\ baskets' = [baskets EXCEPT ![c] = basket]
      /\ UNCHANGED <<rowVars, reqVars, shopper, product, price, copy, charged, offered>>
  BY DEF AddWrites, Carried
<1>2. /\ copy[a] \in [Items -> Prices \cup {None}] /\ price[a] \in Prices
      /\ price[a] \in offered[c][i]
      /\ \A j \in Items : copy[a][j] # None => copy[a][j] \in offered[c][j]
  BY <1>1 DEF TypeOK, Carried
<1>3. LinePrice(a) \in Prices /\ LinePrice(a) \in offered[c][i]
  BY <1>1, <1>2 DEF LinePrice
<1>4. /\ basket \in [Items -> Prices \cup {None}]
      /\ \A j \in Items : basket[j] # None => basket[j] \in offered[c][j]
  BY <1>1, <1>2, <1>3
<1> HIDE DEF basket
<1>5. RowInv'
  BY <1>1, KeptRows
<1>6. TypeOK'
  BY <1>1, <1>4 DEF TypeOK, There, rowVars, reqVars
<1>7. Carried'
  BY <1>1 DEF Carried, TypeOK
<1>8. ChargedAsOffered'
  BY <1>1, <1>4 DEF ChargedAsOffered, TypeOK
<1> QED BY <1>5, <1>6, <1>7, <1>8

LEMMA CheckoutKeeps ==
    ASSUME IInv, NEW c \in Customers, Checkout(c)
    PROVE  IInv'
<1> USE DEF IInv
<1>1. /\ charged' = charged \cup
            {[customer |-> c, product |-> i, price |-> baskets[c][i]] :
                i \in {j \in Items : baskets[c][j] # None}}
      /\ baskets' = [baskets EXCEPT ![c] = [i \in Items |-> None]]
      /\ UNCHANGED <<rowVars, reqVars, apc, shopper, product, price, copy, offered>>
  BY DEF Checkout
<1>2. \A o \in charged' : \/ o \in charged
                           \/ /\ o \in [customer : Customers, product : Items, price : Prices]
                              /\ o.price \in offered[o.customer][o.product]
  <2> SUFFICES ASSUME NEW o \in charged', o \notin charged
               PROVE  /\ o \in [customer : Customers, product : Items, price : Prices]
                      /\ o.price \in offered[o.customer][o.product]
    OBVIOUS
  <2>1. PICK i \in Items : /\ baskets[c][i] # None
                           /\ o = [customer |-> c, product |-> i, price |-> baskets[c][i]]
    BY <1>1
  <2>2. baskets[c][i] \in Prices /\ baskets[c][i] \in offered[c][i]
    BY <2>1 DEF TypeOK, ChargedAsOffered
  <2> QED BY <2>1, <2>2
<1>3. RowInv'
  BY <1>1, KeptRows
<1>4. charged' \subseteq [customer : Customers, product : Items, price : Prices]
  BY <1>2 DEF TypeOK
<1>5. TypeOK'
  BY <1>1, <1>4 DEF TypeOK, There, rowVars, reqVars
<1>6. Carried'
  BY <1>1 DEF Carried
<1>7. ChargedAsOffered'
  <2>1. \A o \in charged' : o.price \in offered'[o.customer][o.product]
    BY <1>1, <1>2 DEF ChargedAsOffered
  <2>2. \A d \in Customers, i \in Items :
           baskets'[d][i] = IF d = c THEN None ELSE baskets[d][i]
    BY <1>1 DEF TypeOK
  <2> QED BY <1>1, <2>1, <2>2 DEF ChargedAsOffered
<1> QED BY <1>3, <1>5, <1>6, <1>7

-----------------------------------------------------------------------------
LEMMA InitIInv == Init => IInv
<1> SUFFICES ASSUME Init PROVE IInv
  OBVIOUS
<1>1. PICK row \in [Seeded -> {r \in Rows : r.brand \in Known}] :
        rows = [i \in Items |-> IF i \in Seeded THEN row[i] ELSE None]
  BY DEF Init
<1>2. /\ rows \in [Items -> Rows \cup {None}]
      /\ \A i \in Items : There(i) => rows[i].brand \in Known
      /\ \A i \in Requests : ~There(i)
  BY <1>1, CatalogAssumption DEF There, Items
<1>3. saves = [i \in Items |-> <<>>] /\ saves \in [Items -> Seq(Requests)]
      /\ \A i \in Items : DOMAIN saves[i] = {}
  BY DEF Init
<1>4. TypeOK
  BY <1>2, <1>3, CatalogAssumption DEF Init, TypeOK
<1>5. Begun /\ Told /\ AnswerTellsEffect /\ Removed /\ DeletedAgain
  BY NoneAssumption DEF Init, Begun, Told, AnswerTellsEffect, Removed, DeletedAgain, Edited
<1>6. Made
  BY <1>2, <1>3 DEF Init, Made, Items
<1>7. Appended /\ Tabled
  BY <1>3 DEF Appended, Tabled
<1>8. PutBack
  BY DEF Init, PutBack, Edited
<1>9. Carried /\ ChargedAsOffered
  BY DEF Init, Carried, ChargedAsOffered
<1> QED BY <1>4, <1>5, <1>6, <1>7, <1>8, <1>9 DEF IInv, RowInv

LEMMA NextIInv == IInv /\ [Next]_vars => IInv'
<1> SUFFICES ASSUME IInv, [Next]_vars PROVE IInv'
  OBVIOUS
<1>1. CASE UNCHANGED vars
  <2> USE <1>1 DEF IInv, vars
  <2>1. TypeOK'
    BY DEF TypeOK, There, rowVars, reqVars, shopVars
  <2>2. RowInv'
    BY KeptRows
  <2>3. Carried' /\ ChargedAsOffered'
    BY KeptShop DEF shopVars
  <2> QED BY <2>1, <2>2, <2>3
<1>2. ASSUME NEW r \in Requests, NEW i \in Items, NEW e \in Edits, ItemById(r, i, e) PROVE IInv'
  BY <1>2, ItemByIdKeeps
<1>3. ASSUME NEW r \in Requests, NEW i \in Items, DeleteProduct(r, i) PROVE IInv'
  BY <1>3, DeleteProductKeeps
<1>4. ASSUME NEW r \in Requests, NEW p \in Prices, NEW b \in Brands, CreateProduct(r, p, b)
      PROVE  IInv'
  BY <1>4, CreateProductKeeps
<1>5. ASSUME NEW r \in Requests, Find(r) \/ Refused(r) \/ Fails(r) PROVE IInv'
  BY <1>5, MovingKeeps
<1>6. ASSUME NEW r \in Requests, Save(r) \/ Unacknowledged(r) PROVE IInv'
  BY <1>6, CommittingKeeps
<1>7. ASSUME NEW a \in Adds, NEW c \in Customers, NEW i \in Items, AddStarts(a, c, i) PROVE IInv'
  BY <1>7, AddStartsKeeps
<1>8. ASSUME NEW a \in Adds, PriceRead(a) PROVE IInv'
  BY <1>8, PriceReadKeeps
<1>9. ASSUME NEW a \in Adds, BasketRead(a) PROVE IInv'
  BY <1>9, BasketReadKeeps
<1>10. ASSUME NEW a \in Adds, AddWrites(a) PROVE IInv'
  BY <1>10, AddWritesKeeps
<1>11. ASSUME NEW c \in Customers, Checkout(c) PROVE IInv'
  BY <1>11, CheckoutKeeps
<1> QED BY <1>1, <1>2, <1>3, <1>4, <1>5, <1>6, <1>7, <1>8, <1>9, <1>10, <1>11 DEF Next

LEMMA IInvAlways == Spec => []IInv
BY InitIInv, NextIInv, PTL DEF Spec

-----------------------------------------------------------------------------
LEMMA IInvExplains == IInv => EditsExplained
<1> SUFFICES ASSUME IInv PROVE EditsExplained
  OBVIOUS
<1> USE DEF IInv, RowInv
<1>1. LostEditExplained
  <2> SUFFICES ASSUME NEW i \in Items, NEW f \in Fields, NEW k \in UpdatesOf(f, i),
                      There(i), ~CreateRepeated(i),
                      \A n \in UpdatesOf(f, i) : n <= k,
                      \A n \in DOMAIN saves[i] : n > k => base[saves[i][n]] >= k
               PROVE  rows[i][f] = edit[saves[i][k]].value
    BY DEF LostEditExplained
  <2>1. saves[i] \in Seq(Requests) /\ k \in DOMAIN saves[i]
    BY DEF TypeOK, UpdatesOf
  <2>2. k <= Len(saves[i])
    BY <2>1
  <2>3. Latest(i, f, k, Len(saves[i]))
    BY <2>1, <2>2 DEF Latest, UpdatesOf
  <2> QED BY <2>1, <2>3 DEF Tabled
<1>2. DeletedOnce
  BY DEF DeletedOnce, DeletedAgain, AnswerTellsEffect
<1> QED BY <1>1, <1>2 DEF EditsExplained

\* A change that a client made to one field of an item stays until the field is
\* changed again or put back by a client that had not seen it, an item is deleted
\* once, answers tell the effect of requests, and prices charged were offered:
\* for any number of clients, items, prices and repetitions.
THEOREM EditsExplainedAlways == Spec => []EditsExplained
BY IInvAlways, IInvExplains, PTL

\* A deleted item is not inserted again but by a repeated save of its creation.
THEOREM DeletedStaysGoneAlways == Spec => DeletedStaysGone
<1>1. ASSUME IInv, [Next]_vars
      PROVE  [\A i \in gone : ~There(i) /\ ~CreateRepeated(i) => rows'[i] = None]_vars
  <2> SUFFICES ASSUME NEW i \in gone, ~There(i), ~CreateRepeated(i), rows'[i] # None
               PROVE  FALSE
    OBVIOUS
  <2> USE DEF IInv, RowInv
  <2>1. i \in Items /\ rows[i] = None
    BY <1>1 DEF TypeOK, There
  <2>2. rows' # rows
    BY <2>1
  <2>3. PICK r \in Requests : pc[r] = "save" /\ Commit(r)
    BY <1>1, <2>2 DEF Next, vars, rowVars, ItemById, DeleteProduct, CreateProduct, Find, Refused,
          Fails, Save, Unacknowledged, AddStarts, PriceRead, BasketRead, AddWrites, Checkout
  <2>4. item[r] = i /\ kind[r] # "delete"
    BY <1>1, <2>1, <2>3 DEF Commit, TypeOK
  <2>5. kind[r] = "create" /\ r = i
    BY <1>1, <2>3, <2>4 DEF Commit, Accepted, Begun
  <2>6. r \in effect
    BY <1>1, <2>5 DEF Made
  <2>7. repeats[r] > 0
    BY <1>1, <2>3, <2>6 DEF Told
  <2> QED BY <2>5, <2>7 DEF CreateRepeated
<1> QED BY IInvAlways, <1>1, PTL DEF Spec, DeletedStaysGone

-----------------------------------------------------------------------------
(* Webhooks.  ApiInv is the inductive invariant of the API: tokens that were  *)
(* granted, ids that are drawn once, rows counted per post.                   *)

Bodies == [url : W!Origins, grantUrl : W!Origins, token : W!Texts]
Subscription == [url : W!Origins, token : W!Texts]

HookTypes ==
    /\ subscriptions \in [W!Ids -> Subscription \cup {None}]
    /\ nextId \in Nat \ {0} /\ nextId <= (MaxSaves + 1) * Cardinality(Posts) + 1
    /\ hooksPc \in [Posts \cup Deletes -> {"idle", "refused", "notFound", "save", "ok", "error"}]
    /\ post \in [Posts -> Bodies \cup {None}]
    /\ \A p \in Posts : hooksPc[p] = "save" => post[p] \in Bodies
    /\ target \in [Deletes -> Nat]
    /\ \A d \in Deletes : hooksPc[d] # "idle" => target[d] \in W!Ids
    /\ hooksRepeats \in [Posts \cup Deletes -> 0 .. MaxSaves]
    /\ storedBy \in [W!Ids -> Posts \cup {None}]

\* A post that is to be saved, and a row that is there, has passed the check.
GrantedTokens ==
    /\ \A p \in Posts : hooksPc[p] = "save" /\ post[p].url = "client" =>
          W!NotBlank(post[p].token) = W!NotBlank(token)
    /\ \A i \in W!Ids : subscriptions[i] # None /\ subscriptions[i].url = "client" =>
          W!NotBlank(subscriptions[i].token) = W!NotBlank(token)

\* Ids are drawn in their order, once.
IdsDrawn == \A i \in W!Ids :
    /\ storedBy[i] # None <=> i < nextId
    /\ subscriptions[i] # None => i < nextId

RowsOf(p) == {i \in W!Ids : storedBy[i] = p}

\* Every save that was committed has left its row.
RowsCounted == \A p \in Posts :
    /\ hooksPc[p] \in {"idle", "refused"} => hooksRepeats[p] = 0
    /\ Cardinality(RowsOf(p)) = IF hooksPc[p] = "ok" THEN 1 + hooksRepeats[p] ELSE hooksRepeats[p]

Unsubscribed ==
    /\ \A d \in Deletes : hooksPc[d] = "ok" => subscriptions[target[d]] = None /\ target[d] < nextId
    /\ W!UnsubscribedOnce

ApiInv == HookTypes /\ GrantedTokens /\ IdsDrawn /\ RowsCounted /\ Unsubscribed

\* Webhooks has its own instance of Cardinality.
LEMMA SameCardinality == ASSUME NEW s PROVE W!Cardinality(s) = Cardinality(s)
BY DEF W!Cardinality, Cardinality

LEMMA IdsFacts ==
    /\ Cardinality(Posts) \in Nat
    /\ (MaxSaves + 1) * Cardinality(Posts) \in Nat
    /\ W!Ids = 1 .. (MaxSaves + 1) * Cardinality(Posts)
    /\ IsFiniteSet(W!Ids) /\ Cardinality(W!Ids) = (MaxSaves + 1) * Cardinality(Posts)
<1>1. Cardinality(Posts) \in Nat
  BY WebhooksAssumption, FS_CardinalityType
<1>2. (MaxSaves + 1) * Cardinality(Posts) \in Nat
  BY <1>1, CatalogAssumption
<1>3. W!Ids = 1 .. (MaxSaves + 1) * Cardinality(Posts)
  BY SameCardinality DEF W!Ids
<1>4. IsFiniteSet(W!Ids) /\ Cardinality(W!Ids) = (MaxSaves + 1) * Cardinality(Posts)
  <2> DEFINE n == (MaxSaves + 1) * Cardinality(Posts)
  <2>1. n \in Nat /\ W!Ids = 1 .. n
    BY <1>2, <1>3
  <2> HIDE DEF n
  <2>2. IsFiniteSet(1 .. n) /\ Cardinality(1 .. n) = n
    BY <2>1, FS_Interval
  <2> QED
    BY <2>1, <2>2 DEF n
<1> QED
  BY <1>1, <1>2, <1>3, <1>4

\* There is an id left for every post that is to be saved: all ids would be an
\* injection into the posts with as many copies each as there are repetitions,
\* and the post has one fewer.
LEMMA IdLeft ==
    ASSUME HookTypes, IdsDrawn, RowsCounted, NEW p \in Posts, hooksPc[p] = "save"
    PROVE  nextId \in W!Ids
<1> SUFFICES ASSUME nextId \notin W!Ids PROVE FALSE
  OBVIOUS
<1> DEFINE Before(i) == {j \in 1 .. i - 1 : storedBy[j] = storedBy[i]}
           T == (Posts \X (0 .. MaxSaves)) \ {<<p, MaxSaves>>}
           f == [i \in W!Ids |-> <<storedBy[i], Cardinality(Before(i))>>]
<1>1. \A i \in W!Ids : storedBy[i] \in Posts /\ i \in Nat \ {0} /\ i <= (MaxSaves + 1) * Cardinality(Posts)
  BY IdsFacts DEF HookTypes, IdsDrawn
<1>2. ASSUME NEW i \in W!Ids
      PROVE  /\ IsFiniteSet(Before(i)) /\ Before(i) \subseteq W!Ids
             /\ Cardinality(Before(i)) \in 0 .. MaxSaves
             /\ storedBy[i] = p => Cardinality(Before(i)) < MaxSaves
  <2> DEFINE q == storedBy[i]
  <2>1. Before(i) \subseteq RowsOf(q) \ {i} /\ i \in RowsOf(q) /\ RowsOf(q) \subseteq W!Ids
    BY <1>1, IdsFacts DEF RowsOf
  <2>2. IsFiniteSet(RowsOf(q)) /\ Cardinality(RowsOf(q)) \in Nat
    BY <2>1, IdsFacts, FS_Subset, FS_CardinalityType
  <2>3. IsFiniteSet(RowsOf(q) \ {i}) /\ Cardinality(RowsOf(q) \ {i}) = Cardinality(RowsOf(q)) - 1
    BY <2>1, <2>2, FS_RemoveElement
  <2>4. IsFiniteSet(Before(i)) /\ Cardinality(Before(i)) <= Cardinality(RowsOf(q)) - 1
        /\ Cardinality(Before(i)) \in Nat
    <3> HIDE DEF Before
    <3> QED
      BY <2>1, <2>3, FS_Subset, FS_CardinalityType
  <2>5. Cardinality(RowsOf(q)) <= MaxSaves + 1 /\ (q = p => Cardinality(RowsOf(q)) <= MaxSaves)
    BY <1>1, CatalogAssumption DEF RowsCounted, HookTypes
  <2> HIDE DEF Before
  <2> QED
    BY <2>1, <2>2, <2>4, <2>5, CatalogAssumption
<1>3. f \in [W!Ids -> T]
  <2> HIDE DEF Before
  <2> QED
    BY <1>1, <1>2
<1>4. ASSUME NEW i \in W!Ids, NEW j \in W!Ids, i < j, storedBy[i] = storedBy[j]
      PROVE  Cardinality(Before(i)) < Cardinality(Before(j))
  <2>1. Before(i) \cup {i} \subseteq Before(j) /\ i \notin Before(i)
    BY <1>1, <1>4
  <2> HIDE DEF Before
  <2>2. IsFiniteSet(Before(i) \cup {i}) /\ Cardinality(Before(i) \cup {i}) = Cardinality(Before(i)) + 1
    BY <1>2, <2>1, FS_AddElement
  <2>3. Cardinality(Before(i) \cup {i}) <= Cardinality(Before(j))
    BY <1>2, <2>1, FS_Subset
  <2> QED
    BY <1>2, <2>2, <2>3
<1>5. f \in Injection(W!Ids, T)
  <2>1. \A i, j \in W!Ids : f[i] = f[j] => i = j
    <3> SUFFICES ASSUME NEW i \in W!Ids, NEW j \in W!Ids, f[i] = f[j], i # j PROVE FALSE
      OBVIOUS
    <3>1. storedBy[i] = storedBy[j] /\ Cardinality(Before(i)) = Cardinality(Before(j))
      <4> HIDE DEF Before
      <4> QED
        OBVIOUS
    <3>2. i < j \/ j < i
      BY <1>1
    <3> HIDE DEF Before
    <3> QED
      BY <1>2, <1>4, <3>1, <3>2
  <2> QED
    BY <1>3, <2>1 DEF Injection, IsInjective
<1>6. IsFiniteSet(Posts \X (0 .. MaxSaves)) /\ Cardinality(Posts \X (0 .. MaxSaves)) = Cardinality(Posts) * (MaxSaves + 1)
  <2>1. IsFiniteSet(0 .. MaxSaves) /\ Cardinality(0 .. MaxSaves) = MaxSaves + 1
    BY CatalogAssumption, FS_Interval
  <2> QED
    BY <2>1, WebhooksAssumption, FS_Product
<1>7. IsFiniteSet(T) /\ Cardinality(T) = Cardinality(Posts) * (MaxSaves + 1) - 1
  <2>1. <<p, MaxSaves>> \in Posts \X (0 .. MaxSaves)
    BY CatalogAssumption
  <2> QED
    BY <1>6, <2>1, FS_RemoveElement
<1>8. Cardinality(W!Ids) <= Cardinality(T)
  <2> HIDE DEF f, T
  <2> QED
    BY <1>5, <1>7, FS_Injection
<1> HIDE DEF T
<1>9. Cardinality(Posts) * (MaxSaves + 1) = (MaxSaves + 1) * Cardinality(Posts)
  BY IdsFacts, CatalogAssumption
<1> QED
  BY <1>7, <1>8, <1>9, IdsFacts

LEMMA ApiInit == W!Init => ApiInv
<1> SUFFICES ASSUME W!Init PROVE ApiInv
  OBVIOUS
<1> USE WebhooksAssumption, CatalogAssumption, IdsFacts DEF W!Init
<1>1. HookTypes
  BY DEF HookTypes
<1>2. GrantedTokens /\ IdsDrawn
  BY DEF GrantedTokens, IdsDrawn
<1>3. RowsCounted
  <2> SUFFICES ASSUME NEW p \in Posts PROVE RowsOf(p) = {}
    BY FS_EmptySet DEF RowsCounted
  <2> QED
    BY DEF RowsOf
<1>4. Unsubscribed
  BY DEF Unsubscribed, W!UnsubscribedOnce
<1> QED
  BY <1>1, <1>2, <1>3, <1>4 DEF ApiInv

\* The client grants its own token only, or none.
LEMMA Grants ==
    ASSUME NEW text \in W!Texts, NEW a \in W!Answers("client", W!Sent(text)), W!Granted(a, W!Sent(text))
    PROVE  W!NotBlank(text) = W!NotBlank(token)
BY WebhooksAssumption DEF W!Answers, W!Check, W!Answer, W!Granted, W!NotBlank, W!Sent, W!Texts

LEMMA SubscribeKeeps ==
    ASSUME ApiInv, NEW p \in Posts, NEW body \in Bodies, W!SubscribeWebhook(p, body)
    PROVE  ApiInv'
<1> USE DEF ApiInv
<1>1. /\ hooksPc[p] = "idle" /\ post' = [post EXCEPT ![p] = body]
      /\ UNCHANGED <<validate, token, subscriptions, nextId, target, hooksRepeats, storedBy>>
  BY DEF W!SubscribeWebhook, W!settings
<1>2. PICK o \in {"refused", "save"} :
          /\ hooksPc' = [hooksPc EXCEPT ![p] = o]
          /\ o = "save" => body.url = body.grantUrl
                /\ \E a \in W!Answers(body.grantUrl, W!Sent(body.token)) : W!Granted(a, W!Sent(body.token))
  BY DEF W!SubscribeWebhook
<1>3. body.url \in W!Origins /\ body.token \in W!Texts
  BY DEF Bodies
<1>4. o = "save" /\ body.url = "client" => W!NotBlank(body.token) = W!NotBlank(token)
  BY <1>2, <1>3, Grants
<1>5. HookTypes'
  <2> HIDE DEF Bodies
  <2>1. post' \in [Posts -> Bodies \cup {None}] /\ post'[p] = body
    BY <1>1 DEF HookTypes
  <2>2. hooksPc' \in [Posts \cup Deletes -> {"idle", "refused", "notFound", "save", "ok", "error"}]
    BY <1>1, <1>2 DEF HookTypes
  <2>3. \A q \in Posts : hooksPc'[q] = "save" => post'[q] \in Bodies
    BY <1>1, <1>2, <2>1 DEF HookTypes
  <2>4. \A d \in Deletes : hooksPc'[d] # "idle" => target'[d] \in W!Ids
    BY <1>1, <1>2, WebhooksAssumption DEF HookTypes
  <2> QED
    BY <1>1, <2>1, <2>2, <2>3, <2>4 DEF HookTypes
<1>6. GrantedTokens'
  <2>1. ASSUME NEW q \in Posts, hooksPc'[q] = "save", post'[q].url = "client"
        PROVE  W!NotBlank(post'[q].token) = W!NotBlank(token)
    <3>1. CASE q = p
      BY <1>1, <1>2, <1>4, <2>1, <3>1 DEF HookTypes
    <3>2. CASE q # p
      BY <1>1, <1>2, <2>1, <3>2 DEF HookTypes, GrantedTokens
    <3> QED
      BY <3>1, <3>2
  <2>2. \A i \in W!Ids : subscriptions[i] # None /\ subscriptions[i].url = "client" =>
            W!NotBlank(subscriptions[i].token) = W!NotBlank(token)
    BY DEF GrantedTokens
  <2> QED
    BY <1>1, <2>1, <2>2 DEF GrantedTokens, W!NotBlank
<1>7. IdsDrawn'
  BY <1>1 DEF IdsDrawn
<1>8. RowsCounted'
  BY <1>1, <1>2 DEF RowsCounted, RowsOf, HookTypes
<1>9. Unsubscribed'
  BY <1>1, <1>2, WebhooksAssumption DEF Unsubscribed, W!UnsubscribedOnce, HookTypes
<1> QED
  BY <1>5, <1>6, <1>7, <1>8, <1>9

LEMMA UnsubscribeKeeps ==
    ASSUME ApiInv, NEW d \in Deletes, NEW i \in W!Ids, W!UnsubscribeWebhook(d, i)
    PROVE  ApiInv'
<1> USE WebhooksAssumption, IdsFacts DEF ApiInv
<1>1. /\ hooksPc[d] = "idle" /\ target' = [target EXCEPT ![d] = i]
      /\ \E o \in {"notFound", "save"} : hooksPc' = [hooksPc EXCEPT ![d] = o]
      /\ UNCHANGED <<validate, token, subscriptions, nextId, post, hooksRepeats, storedBy>>
  BY DEF W!UnsubscribeWebhook, W!settings
<1>2. HookTypes'
  BY <1>1 DEF HookTypes
<1>3. GrantedTokens' /\ IdsDrawn'
  BY <1>1 DEF GrantedTokens, IdsDrawn, W!NotBlank, HookTypes
<1>4. RowsCounted'
  BY <1>1 DEF RowsCounted, RowsOf, HookTypes
<1>5. Unsubscribed'
  BY <1>1 DEF Unsubscribed, W!UnsubscribedOnce, HookTypes
<1> QED
  BY <1>2, <1>3, <1>4, <1>5

LEMMA FailsKeeps ==
    ASSUME ApiInv, NEW r \in Posts \cup Deletes, W!Fails(r)
    PROVE  ApiInv'
<1> USE DEF ApiInv
<1>1. /\ hooksPc[r] = "save" /\ hooksPc' = [hooksPc EXCEPT ![r] = "error"]
      /\ UNCHANGED <<validate, token, subscriptions, nextId, post, target, hooksRepeats, storedBy>>
  BY DEF W!Fails, W!settings
<1>2. HookTypes'
  BY <1>1 DEF HookTypes
<1>3. GrantedTokens' /\ IdsDrawn'
  BY <1>1 DEF GrantedTokens, IdsDrawn, W!NotBlank, HookTypes
<1>4. RowsCounted'
  BY <1>1 DEF RowsCounted, RowsOf, HookTypes
<1>5. Unsubscribed'
  BY <1>1 DEF Unsubscribed, W!UnsubscribedOnce, HookTypes
<1> QED
  BY <1>2, <1>3, <1>4, <1>5

\* A save that was committed is told or repeated.
LEMMA Committed ==
    ASSUME ApiInv, NEW r \in Posts \cup Deletes, W!Save(r) \/ W!Unacknowledged(r)
    PROVE  /\ W!Commit(r) /\ hooksPc[r] = "save"
           /\ \/ hooksPc' = [hooksPc EXCEPT ![r] = "ok"] /\ hooksRepeats' = hooksRepeats
              \/ /\ hooksPc' = hooksPc
                 /\ hooksRepeats' = [hooksRepeats EXCEPT ![r] = @ + 1] /\ hooksRepeats[r] < MaxSaves
           /\ hooksPc' \in [Posts \cup Deletes -> {"idle", "refused", "notFound", "save", "ok", "error"}]
           /\ hooksRepeats' \in [Posts \cup Deletes -> 0 .. MaxSaves]
<1>1. W!Commit(r) /\ hooksPc[r] = "save"
  BY DEF W!Save, W!Unacknowledged, W!Commit
<1>2. \/ hooksPc' = [hooksPc EXCEPT ![r] = "ok"] /\ hooksRepeats' = hooksRepeats
      \/ /\ hooksPc' = hooksPc
         /\ hooksRepeats' = [hooksRepeats EXCEPT ![r] = @ + 1] /\ hooksRepeats[r] < MaxSaves
  BY DEF W!Save, W!Unacknowledged
<1> QED
  BY <1>1, <1>2, CatalogAssumption DEF ApiInv, HookTypes

LEMMA StoreKeeps ==
    ASSUME ApiInv, NEW p \in Posts, W!Save(p) \/ W!Unacknowledged(p)
    PROVE  ApiInv'
<1> USE DEF ApiInv
<1>1. /\ hooksPc[p] = "save" /\ nextId \in W!Ids /\ post[p] \in Bodies
      /\ subscriptions' = [subscriptions EXCEPT ![nextId] = [url |-> post[p].url, token |-> post[p].token]]
      /\ nextId' = nextId + 1 /\ storedBy' = [storedBy EXCEPT ![nextId] = p]
      /\ UNCHANGED <<validate, token, post, target>>
  BY Committed, IdLeft, WebhooksAssumption DEF W!Commit, W!Store, W!settings, HookTypes
<1> DEFINE row == [url |-> post[p].url, token |-> post[p].token]
<1>2. row \in Subscription /\ row # None
  BY <1>1, WebhooksAssumption DEF Bodies, Subscription
<1>3. HookTypes'
  <2>1. subscriptions' \in [W!Ids -> Subscription \cup {None}] /\ storedBy' \in [W!Ids -> Posts \cup {None}]
    BY <1>1, <1>2 DEF HookTypes
  <2>2. nextId' \in Nat \ {0} /\ nextId' <= (MaxSaves + 1) * Cardinality(Posts) + 1
    BY <1>1, IdsFacts
  <2>3. \A q \in Posts : hooksPc'[q] = "save" => hooksPc[q] = "save"
    BY Committed DEF HookTypes
  <2>4. \A d \in Deletes : hooksPc'[d] # "idle" => hooksPc[d] # "idle"
    BY <1>1, Committed, WebhooksAssumption DEF HookTypes
  <2> QED
    BY <1>1, <2>1, <2>2, <2>3, <2>4, Committed DEF HookTypes
<1>4. GrantedTokens'
  <2>1. \A q \in Posts : hooksPc'[q] = "save" => hooksPc[q] = "save"
    BY Committed DEF HookTypes
  <2>2. ASSUME NEW i \in W!Ids, subscriptions'[i] # None, subscriptions'[i].url = "client"
        PROVE  W!NotBlank(subscriptions'[i].token) = W!NotBlank(token)
    <3>1. CASE i = nextId
      <4>1. subscriptions'[i] = row
        BY <1>1, <3>1 DEF HookTypes
      <4>2. post[p].url = "client" /\ subscriptions'[i].token = post[p].token
        BY <2>2, <4>1
      <4> QED
        BY <1>1, <4>2 DEF GrantedTokens
    <3>2. CASE i # nextId
      BY <1>1, <2>2, <3>2 DEF GrantedTokens, HookTypes
    <3> QED
      BY <3>1, <3>2
  <2> QED
    BY <1>1, <2>1, <2>2 DEF GrantedTokens, W!NotBlank
<1>5. IdsDrawn'
  BY <1>1, IdsFacts, WebhooksAssumption DEF IdsDrawn, HookTypes
<1>6. storedBy[nextId] = None
  BY <1>1, IdsFacts DEF IdsDrawn
<1>7. RowsCounted'
  <2> SUFFICES ASSUME NEW q \in Posts
               PROVE  /\ hooksPc'[q] \in {"idle", "refused"} => hooksRepeats'[q] = 0
                      /\ Cardinality(RowsOf(q)') =
                            IF hooksPc'[q] = "ok" THEN 1 + hooksRepeats'[q] ELSE hooksRepeats'[q]
    BY DEF RowsCounted
  <2>1. CASE q = p
    <3>1. RowsOf(p)' = RowsOf(p) \cup {nextId} /\ nextId \notin RowsOf(p)
      BY <1>1, <1>6, WebhooksAssumption DEF RowsOf, HookTypes
    <3>2. IsFiniteSet(RowsOf(p))
      BY IdsFacts, FS_Subset DEF RowsOf
    <3>3. Cardinality(RowsOf(p)') = Cardinality(RowsOf(p)) + 1
      BY <3>1, <3>2, FS_AddElement
    <3>4. Cardinality(RowsOf(p)) = hooksRepeats[p] /\ hooksRepeats[p] \in Nat
      BY <1>1, CatalogAssumption DEF RowsCounted, HookTypes
    <3> QED
      BY <1>1, <2>1, <3>3, <3>4, Committed DEF HookTypes
  <2>2. CASE q # p
    <3>1. RowsOf(q)' = RowsOf(q)
      BY <1>1, <1>6, <2>2, WebhooksAssumption DEF RowsOf, HookTypes
    <3> QED
      BY <2>2, <3>1, Committed DEF RowsCounted, HookTypes
  <2> QED
    BY <2>1, <2>2
<1>8. Unsubscribed'
  <2>1. \A d \in Deletes : hooksPc'[d] = hooksPc[d]
    BY Committed, WebhooksAssumption DEF HookTypes
  <2>2. \A d \in Deletes : hooksPc[d] = "ok" =>
           target[d] \in W!Ids /\ target[d] # nextId /\ subscriptions'[target[d]] = None /\ target[d] < nextId'
    BY <1>1, IdsFacts DEF Unsubscribed, HookTypes
  <2> QED
    BY <1>1, <2>1, <2>2 DEF Unsubscribed, W!UnsubscribedOnce
<1> QED
  BY <1>3, <1>4, <1>5, <1>7, <1>8

LEMMA DeleteKeeps ==
    ASSUME ApiInv, NEW d \in Deletes, W!Save(d) \/ W!Unacknowledged(d)
    PROVE  ApiInv'
<1> USE DEF ApiInv
<1>1. /\ hooksPc[d] = "save" /\ target[d] \in W!Ids /\ subscriptions[target[d]] # None
      /\ subscriptions' = [subscriptions EXCEPT ![target[d]] = None]
      /\ UNCHANGED <<validate, token, nextId, storedBy, post, target>>
  BY Committed, WebhooksAssumption DEF W!Commit, W!Accepted, W!settings, HookTypes
<1>2. \A p \in Posts : hooksPc'[p] = hooksPc[p] /\ hooksRepeats'[p] = hooksRepeats[p]
  BY Committed, WebhooksAssumption DEF HookTypes
<1>3. HookTypes'
  BY <1>1, <1>2, Committed DEF HookTypes
<1>4. GrantedTokens' /\ IdsDrawn'
  BY <1>1, <1>2 DEF GrantedTokens, IdsDrawn, W!NotBlank, HookTypes
<1>5. RowsCounted'
  BY <1>1, <1>2 DEF RowsCounted, RowsOf
<1>6. Unsubscribed'
  <2>1. target[d] < nextId /\ subscriptions'[target[d]] = None
    BY <1>1 DEF IdsDrawn, HookTypes
  <2>2. \A e \in Deletes \ {d} : hooksPc'[e] = hooksPc[e]
    BY Committed DEF HookTypes
  <2>3. \A e \in Deletes : hooksPc[e] = "ok" => target[e] # target[d] /\ target[e] \in W!Ids
    BY <1>1 DEF Unsubscribed, HookTypes
  <2>4. \A e \in Deletes : hooksPc'[e] = "ok" => subscriptions'[target[e]] = None /\ target[e] < nextId
    BY <1>1, <2>1, <2>2, <2>3 DEF Unsubscribed, HookTypes
  <2> QED
    BY <1>1, <2>2, <2>3, <2>4 DEF Unsubscribed, W!UnsubscribedOnce
<1> QED
  BY <1>3, <1>4, <1>5, <1>6

LEMMA ApiNext == ApiInv /\ [W!Next]_W!vars => ApiInv'
<1> SUFFICES ASSUME ApiInv, [W!Next]_W!vars PROVE ApiInv'
  OBVIOUS
<1>1. CASE UNCHANGED <<validate, token, subscriptions, nextId, hooksPc, post, target, hooksRepeats, storedBy>>
  BY <1>1 DEF ApiInv, HookTypes, GrantedTokens, IdsDrawn, RowsCounted, RowsOf, Unsubscribed,
     W!UnsubscribedOnce, W!NotBlank
<1>2. UNCHANGED W!vars => UNCHANGED <<validate, token, subscriptions, nextId, hooksPc, post, target, hooksRepeats, storedBy>>
  BY DEF W!vars, W!settings, W!apiVars
<1>3. ASSUME NEW h \in Hooks, \/ \E i \in W!Ids : W!OnSendData(h, i)
                              \/ W!AddReads(h) \/ W!AddGrows(h) \/ W!AddStores(h)
      PROVE  UNCHANGED <<validate, token, subscriptions, nextId, hooksPc, post, target, hooksRepeats, storedBy>>
  BY <1>3 DEF W!OnSendData, W!AddReads, W!AddGrows, W!AddStores, W!settings, W!apiVars
<1> QED
  BY <1>1, <1>2, <1>3, SubscribeKeeps, UnsubscribeKeeps, FailsKeeps, StoreKeeps, DeleteKeeps DEF W!Next, Bodies

-----------------------------------------------------------------------------
(* The list of hooks.  Its size never passes the number of hooks that have    *)
(* grown it, and a hook that was added alone is below whatever is read later. *)

ListTypes ==
    /\ hpc \in [Hooks -> {"idle", "accepted", "refused", "read", "grown", "ok"}]
    /\ seen \in [Hooks -> Nat] /\ size \in Nat
    /\ list \in [1 .. Cardinality(Hooks) -> Hooks \cup {None}]

Grown == {h \in Hooks : hpc[h] \in {"grown", "ok"}}

ListCounted ==
    /\ size <= Cardinality(Grown)
    /\ \A h \in Hooks : hpc[h] = "read" => seen[h] <= Cardinality(Grown)
    /\ \A h \in Hooks : hpc[h] = "grown" => seen[h] + 1 <= Cardinality(Grown)

AddedAlone == \A h \in Hooks : h \in alone =>
    /\ hpc[h] \in {"read", "grown"} => W!Overlapping = {h}
    /\ hpc[h] = "grown" => size = seen[h] + 1
    /\ hpc[h] = "ok" => \E n \in 1 .. size :
          /\ n <= Cardinality(Hooks) /\ list[n] = h
          /\ \A g \in W!Overlapping : n <= seen[g]

ListInv == ListTypes /\ ListCounted /\ AddedAlone

LEMMA GrownFacts ==
    ASSUME ListTypes
    PROVE  /\ IsFiniteSet(Grown) /\ Cardinality(Grown) \in Nat
           /\ Cardinality(Hooks) \in Nat /\ Cardinality(Grown) <= Cardinality(Hooks)
<1>1. Grown \subseteq Hooks
  BY DEF Grown
<1> QED
  BY <1>1, WebhooksAssumption, FS_Subset, FS_CardinalityType

LEMMA ListInit == W!Init => ListInv
<1> SUFFICES ASSUME W!Init PROVE ListInv
  OBVIOUS
<1>1. ListTypes /\ size = 0 /\ \A h \in Hooks : hpc[h] = "idle"
  BY SameCardinality DEF W!Init, ListTypes
<1> QED
  BY <1>1, GrownFacts DEF ListInv, ListCounted, AddedAlone

\* A hook is sent: it is not in the list yet.
LEMMA SendsKeeps ==
    ASSUME ListInv, NEW h \in Hooks, NEW i \in W!Ids, W!OnSendData(h, i)
    PROVE  ListInv'
<1> USE DEF ListInv
<1>1. PICK o \in {"accepted", "refused"} : hpc' = [hpc EXCEPT ![h] = o]
  BY DEF W!OnSendData
<1>2. hpc[h] = "idle" /\ UNCHANGED <<seen, list, size, alone>>
  BY DEF W!OnSendData
<1>3. ListTypes'
  BY <1>1, <1>2 DEF ListTypes
<1>4. Grown' = Grown /\ W!Overlapping' = W!Overlapping
  BY <1>1, <1>2 DEF Grown, W!Overlapping, ListTypes
<1>5. ListCounted' /\ AddedAlone'
  BY <1>1, <1>2, <1>4 DEF ListCounted, AddedAlone, ListTypes
<1> QED
  BY <1>3, <1>5

LEMMA ReadsKeeps ==
    ASSUME ListInv, NEW h \in Hooks, W!AddReads(h)
    PROVE  ListInv'
<1> USE DEF ListInv
<1>1. /\ hpc[h] = "accepted" /\ hpc' = [hpc EXCEPT ![h] = "read"]
      /\ seen' = [seen EXCEPT ![h] = size] /\ UNCHANGED <<list, size>>
      /\ alone' = IF W!Overlapping = {} THEN alone ELSE alone \ (W!Overlapping \cup {h})
  BY DEF W!AddReads
<1>2. ListTypes'
  BY <1>1 DEF ListTypes
<1>3. Grown' = Grown /\ W!Overlapping' = W!Overlapping \cup {h}
  BY <1>1 DEF Grown, W!Overlapping, ListTypes
<1>4. ListCounted'
  BY <1>1, <1>3 DEF ListCounted, ListTypes
<1>5. ASSUME NEW k \in Hooks, k \in alone'
      PROVE  /\ hpc'[k] \in {"read", "grown"} => W!Overlapping' = {k}
             /\ hpc'[k] = "grown" => size' = seen'[k] + 1
             /\ hpc'[k] = "ok" => \E n \in 1 .. size' :
                  /\ n <= Cardinality(Hooks) /\ list'[n] = k
                  /\ \A g \in W!Overlapping' : n <= seen'[g]
  <2>1. k \in alone
    BY <1>1, <1>5
  <2>2. hpc'[k] \in {"read", "grown"} => W!Overlapping' = {k}
    <3>1. CASE W!Overlapping = {}
      BY <1>1, <1>3, <3>1 DEF W!Overlapping, ListTypes
    <3>2. CASE W!Overlapping # {}
      BY <1>1, <1>5, <3>2 DEF W!Overlapping, ListTypes
    <3> QED
      BY <3>1, <3>2
  <2>3. hpc'[k] = "grown" => size' = seen'[k] + 1
    BY <1>1, <2>1 DEF AddedAlone, ListTypes
  <2>4. ASSUME hpc'[k] = "ok"
        PROVE  \E n \in 1 .. size' : /\ n <= Cardinality(Hooks) /\ list'[n] = k
                                     /\ \A g \in W!Overlapping' : n <= seen'[g]
    <3>1. PICK n \in 1 .. size : /\ n <= Cardinality(Hooks) /\ list[n] = k
                                 /\ \A g \in W!Overlapping : n <= seen[g]
      BY <1>1, <2>1, <2>4 DEF AddedAlone, ListTypes
    <3>2. \A g \in W!Overlapping' : n <= seen'[g]
      BY <1>1, <1>3, <3>1 DEF ListTypes, W!Overlapping
    <3> QED
      BY <1>1, <3>1, <3>2
  <2> QED
    BY <2>2, <2>3, <2>4
<1>6. AddedAlone'
  BY <1>5 DEF AddedAlone
<1> QED
  BY <1>2, <1>4, <1>6

LEMMA GrowsKeeps ==
    ASSUME ListInv, NEW h \in Hooks, W!AddGrows(h)
    PROVE  ListInv'
<1> USE DEF ListInv
<1>1. /\ hpc[h] = "read" /\ hpc' = [hpc EXCEPT ![h] = "grown"]
      /\ size' = seen[h] + 1 /\ UNCHANGED <<seen, list, alone>>
  BY DEF W!AddGrows
<1>2. ListTypes'
  BY <1>1 DEF ListTypes
<1>3. Grown' = Grown \cup {h} /\ h \notin Grown /\ W!Overlapping' = W!Overlapping
  BY <1>1 DEF Grown, W!Overlapping, ListTypes
<1>4. Cardinality(Grown)' = Cardinality(Grown) + 1 /\ Cardinality(Grown) \in Nat
  <2>1. Cardinality(Grown \cup {h}) = Cardinality(Grown) + 1
    BY <1>3, GrownFacts, FS_AddElement
  <2> QED
    BY <1>3, <2>1, GrownFacts
<1>5. ListCounted'
  <2>1. seen[h] <= Cardinality(Grown) /\ \A g \in Hooks : seen[g] \in Nat
    BY <1>1 DEF ListCounted, ListTypes
  <2>2. \A g \in Hooks : g # h => hpc'[g] = hpc[g]
    BY <1>1 DEF ListTypes
  <2>3. hpc'[h] = "grown"
    BY <1>1 DEF ListTypes
  <2> QED
    BY <1>1, <1>4, <2>1, <2>2, <2>3 DEF ListCounted
<1>6. ASSUME NEW k \in Hooks, k \in alone
      PROVE  /\ hpc'[k] \in {"read", "grown"} => W!Overlapping = {k}
             /\ hpc'[k] = "grown" => size' = seen[k] + 1
             /\ hpc'[k] = "ok" => \E n \in 1 .. size' :
                  /\ n <= Cardinality(Hooks) /\ list[n] = k
                  /\ \A g \in W!Overlapping : n <= seen[g]
  <2>1. h \in W!Overlapping
    BY <1>1 DEF W!Overlapping
  <2>2. CASE k = h
    BY <1>1, <1>6, <2>2 DEF AddedAlone, ListTypes
  <2>3. CASE k # h
    <3>1. hpc'[k] = hpc[k] /\ hpc[k] \notin {"read", "grown"}
      BY <1>1, <1>6, <2>1, <2>3 DEF AddedAlone, ListTypes
    <3>2. ASSUME hpc[k] = "ok"
          PROVE  \E n \in 1 .. size' : /\ n <= Cardinality(Hooks) /\ list[n] = k
                                       /\ \A g \in W!Overlapping : n <= seen[g]
      <4>1. PICK n \in 1 .. size : /\ n <= Cardinality(Hooks) /\ list[n] = k
                                   /\ \A g \in W!Overlapping : n <= seen[g]
        BY <1>6, <3>2 DEF AddedAlone
      <4>2. n \in 1 .. size'
        BY <1>1, <2>1, <4>1 DEF ListTypes
      <4> QED
        BY <4>1, <4>2
    <3> QED
      BY <3>1, <3>2
  <2> QED
    BY <2>2, <2>3
<1>7. AddedAlone'
  BY <1>1, <1>3, <1>6 DEF AddedAlone
<1> QED
  BY <1>2, <1>5, <1>7

LEMMA StoresKeeps ==
    ASSUME ListInv, NEW h \in Hooks, W!AddStores(h)
    PROVE  ListInv'
<1> USE DEF ListInv
<1>1. /\ hpc[h] = "grown" /\ hpc' = [hpc EXCEPT ![h] = "ok"]
      /\ list' = [list EXCEPT ![seen[h] + 1] = h] /\ UNCHANGED <<seen, size, alone>>
  BY DEF W!AddStores, W!Slot
<1>2. seen[h] + 1 \in 1 .. Cardinality(Hooks)
  BY <1>1, GrownFacts DEF ListCounted, ListTypes
<1>3. ListTypes'
  BY <1>1 DEF ListTypes
<1>4. Grown' = Grown /\ W!Overlapping' = W!Overlapping \ {h} /\ h \in W!Overlapping
  BY <1>1 DEF Grown, W!Overlapping, ListTypes
<1>5. ListCounted'
  BY <1>1, <1>4 DEF ListCounted, ListTypes
<1>6. ASSUME NEW k \in Hooks, k \in alone
      PROVE  /\ hpc'[k] \in {"read", "grown"} => W!Overlapping' = {k}
             /\ hpc'[k] = "grown" => size = seen[k] + 1
             /\ hpc'[k] = "ok" => \E n \in 1 .. size :
                  /\ n <= Cardinality(Hooks) /\ list'[n] = k
                  /\ \A g \in W!Overlapping' : n <= seen[g]
  <2>1. CASE k = h
    <3>1. size = seen[h] + 1 /\ W!Overlapping' = {}
      BY <1>1, <1>4, <1>6, <2>1 DEF AddedAlone
    <3>2. seen[h] + 1 \in 1 .. size /\ list'[seen[h] + 1] = h
      BY <1>1, <1>2, <3>1 DEF ListTypes
    <3>3. hpc'[k] = "ok"
      BY <1>1, <2>1 DEF ListTypes
    <3> QED
      BY <1>2, <2>1, <3>1, <3>2, <3>3
  <2>2. CASE k # h
    <3>1. hpc'[k] = hpc[k] /\ hpc[k] \notin {"read", "grown"}
      BY <1>1, <1>4, <1>6, <2>2 DEF AddedAlone, ListTypes
    <3>2. ASSUME hpc[k] = "ok"
          PROVE  \E n \in 1 .. size : /\ n <= Cardinality(Hooks) /\ list'[n] = k
                                      /\ \A g \in W!Overlapping' : n <= seen[g]
      <4>1. PICK n \in 1 .. size : /\ n <= Cardinality(Hooks) /\ list[n] = k
                                   /\ \A g \in W!Overlapping : n <= seen[g]
        BY <1>6, <3>2 DEF AddedAlone
      <4>2. n < seen[h] + 1 /\ n \in 1 .. Cardinality(Hooks)
        BY <1>4, <4>1, GrownFacts DEF ListTypes
      <4>3. list'[n] = k
        BY <1>1, <4>1, <4>2 DEF ListTypes
      <4> QED
        BY <1>4, <4>1, <4>3
    <3> QED
      BY <3>1, <3>2
  <2> QED
    BY <2>1, <2>2
<1>7. AddedAlone'
  BY <1>1, <1>6 DEF AddedAlone
<1> QED
  BY <1>3, <1>5, <1>7

LEMMA ListNext == ListInv /\ [W!Next]_W!vars => ListInv'
<1> SUFFICES ASSUME ListInv, [W!Next]_W!vars PROVE ListInv'
  OBVIOUS
<1>1. CASE UNCHANGED <<hpc, seen, list, size, alone>>
  BY <1>1 DEF ListInv, ListTypes, ListCounted, AddedAlone, Grown, W!Overlapping
<1>2. UNCHANGED W!vars => UNCHANGED <<hpc, seen, list, size, alone>>
  BY DEF W!vars, W!hookVars
<1>3. ASSUME NEW p \in Posts, NEW body \in Bodies, W!SubscribeWebhook(p, body)
      PROVE  UNCHANGED <<hpc, seen, list, size, alone>>
  BY <1>3 DEF W!SubscribeWebhook, W!hookVars
<1>4. ASSUME NEW d \in Deletes, NEW i \in W!Ids, W!UnsubscribeWebhook(d, i)
      PROVE  UNCHANGED <<hpc, seen, list, size, alone>>
  BY <1>4 DEF W!UnsubscribeWebhook, W!hookVars
<1>5. ASSUME NEW r \in Posts \cup Deletes, W!Save(r) \/ W!Unacknowledged(r) \/ W!Fails(r)
      PROVE  UNCHANGED <<hpc, seen, list, size, alone>>
  BY <1>5 DEF W!Save, W!Unacknowledged, W!Fails, W!Commit, W!hookVars
<1> QED
  BY <1>1, <1>2, <1>3, <1>4, <1>5, SendsKeeps, ReadsKeeps, GrowsKeeps, StoresKeeps DEF W!Next, Bodies

-----------------------------------------------------------------------------
\* Whatever the settings of the client: a granted subscription gets hooks the
\* client accepts, a post leaves the rows it answers for, one deletion of each id
\* is told, and a hook added alone is listed.
THEOREM HooksAreExplained == W!Spec => []HooksExplained
<1>1. W!Init => ApiInv /\ ListInv
  BY ApiInit, ListInit
<1>2. ApiInv /\ ListInv /\ [W!Next]_W!vars => ApiInv' /\ ListInv'
  BY ApiNext, ListNext
<1>3. ApiInv /\ ListInv => HooksExplained
  <2> SUFFICES ASSUME ApiInv, ListInv PROVE HooksExplained
    OBVIOUS
  <2>1. W!GrantedHooksAccepted
    <3> SUFFICES ASSUME NEW i \in W!Ids, subscriptions[i] # None, subscriptions[i].url = "client"
                 PROVE  /\ W!NotBlank(subscriptions[i].token) = W!NotBlank(token)
                        /\ ~(validate /\ token = Blank) => W!AcceptsHook(W!NotBlank(subscriptions[i].token))
      BY DEF W!GrantedHooksAccepted
    <3>1. W!NotBlank(subscriptions[i].token) = W!NotBlank(token)
      BY DEF ApiInv, GrantedTokens
    <3> QED
      BY <3>1 DEF W!AcceptsHook, W!NotBlank
  <2>2. W!RowsOfPost
    <3> SUFFICES ASSUME NEW p \in Posts
                 PROVE  /\ hooksPc[p] = "refused" => RowsOf(p) = {}
                        /\ hooksPc[p] = "ok" => W!Cardinality(RowsOf(p)) = 1 + hooksRepeats[p]
                        /\ W!Cardinality(RowsOf(p)) <= 1 + hooksRepeats[p]
      BY DEF W!RowsOfPost, RowsOf
    <3>1. hooksRepeats[p] \in Nat /\ IsFiniteSet(RowsOf(p)) /\ W!Cardinality(RowsOf(p)) = Cardinality(RowsOf(p))
      BY IdsFacts, FS_Subset, SameCardinality, CatalogAssumption DEF ApiInv, HookTypes, RowsOf
    <3>2. hooksPc[p] = "refused" => RowsOf(p) = {}
      BY <3>1, FS_EmptySet DEF ApiInv, RowsCounted
    <3> QED
      BY <3>1, <3>2 DEF ApiInv, RowsCounted
  <2>3. W!UnsubscribedOnce
    BY DEF ApiInv, Unsubscribed
  <2>4. W!ReceivedIsListed
    BY DEF ListInv, AddedAlone, W!ReceivedIsListed
  <2> QED
    BY <2>1, <2>2, <2>3, <2>4 DEF HooksExplained, W!HooksExplained
<1> QED
  BY <1>1, <1>2, <1>3, PTL DEF W!Spec

-----------------------------------------------------------------------------
(* Stock.  Its invariant is the property with the range of integers.          *)

Half == 2 ^ (Width - 1)

\* Remainders of numbers that are out by one turn at most.
LEMMA Remainders ==
    ASSUME NEW m \in Nat \ {0}, NEW a \in 0 .. m - 1
    PROVE  a % m = a /\ (a + m) % m = a /\ (a - m) % m = a
OBVIOUS

LEMMA WrapFacts ==
    /\ Half \in Nat \ {0} /\ K!Ints = -Half .. Half - 1
    /\ \A n \in Int : K!Wrap(n) \in K!Ints
    /\ \A n \in K!Ints : K!Wrap(n) = n /\ K!Wrap(n + 2 * Half) = n /\ K!Wrap(n - 2 * Half) = n
<1> DEFINE H == Half
<1>1. H \in Nat \ {0} /\ K!Ints = -H .. H - 1
  BY WidthAssumption DEF Half, K!Ints
<1>2. \A n : K!Wrap(n) = ((n + H) % (2 * H)) - H
  BY WidthAssumption DEF Half, K!Wrap
<1> HIDE DEF H
<1>3. ASSUME NEW n \in Int PROVE K!Wrap(n) \in K!Ints
  <2>1. (n + H) % (2 * H) \in 0 .. 2 * H - 1
    BY <1>1
  <2> QED
    BY <1>1, <1>2, <2>1
<1>4. ASSUME NEW n \in K!Ints
      PROVE  K!Wrap(n) = n /\ K!Wrap(n + 2 * H) = n /\ K!Wrap(n - 2 * H) = n
  <2>1. n + H \in 0 .. 2 * H - 1 /\ 2 * H \in Nat \ {0} /\ n \in Int /\ H \in Int
    BY <1>1
  <2> DEFINE a == n + H  m == 2 * H
  <2>2. a % m = a /\ (a + m) % m = a /\ (a - m) % m = a
    <3> HIDE DEF a, m
    <3> QED
      BY <2>1, Remainders DEF a, m
  <2>3. (n + 2 * H) + H = a + m /\ (n - 2 * H) + H = a - m
    BY <2>1
  <2> QED
    BY <1>2, <2>1, <2>2, <2>3
<1> QED
  BY <1>1, <1>3, <1>4 DEF H

\* One turn is taken off or put on, or none.
LEMMA OneTurn ==
    ASSUME NEW n \in -(3 * Half) .. 3 * Half - 1
    PROVE  K!Wrap(n) = IF n < -Half THEN n + 2 * Half ELSE IF n >= Half THEN n - 2 * Half ELSE n
<1> DEFINE H == Half
<1>1. H \in Nat \ {0} /\ K!Ints = -H .. H - 1 /\ n \in Int
  BY WrapFacts
<1> HIDE DEF H
<1>2. CASE n < -H
  <2>1. n + 2 * H \in K!Ints /\ n = (n + 2 * H) - 2 * H
    BY <1>1, <1>2 DEF H
  <2> QED
    BY <1>1, <1>2, <2>1, WrapFacts DEF H
<1>3. CASE n >= H
  <2>1. n - 2 * H \in K!Ints /\ n = (n - 2 * H) + 2 * H
    BY <1>1, <1>3 DEF H
  <2> QED
    BY <1>1, <1>3, <2>1, WrapFacts DEF H
<1>4. CASE n \in K!Ints
  BY <1>1, <1>4, WrapFacts DEF H
<1> QED
  BY <1>1, <1>2, <1>3, <1>4 DEF H

\* What AddStock fills up to.
LEMMA RoomFills ==
    ASSUME stock \in K!Ints, limit \in K!Ints
    PROVE  /\ K!Room \in K!Ints /\ K!Wrap(stock + K!Room) = limit
           /\ K!Room < 0 => stock > limit \/ limit - stock >= Half
<1> DEFINE H == Half
<1>1. H \in Nat \ {0} /\ K!Ints = -H .. H - 1
  BY WrapFacts
<1>2. limit - stock \in -(3 * H) .. 3 * H - 1
  <2> HIDE DEF H
  <2> QED
    BY <1>1
<1>3. K!Room = IF limit - stock < -H THEN limit - stock + 2 * H
               ELSE IF limit - stock >= H THEN limit - stock - 2 * H ELSE limit - stock
  BY <1>2, OneTurn DEF K!Room
<1>4. \E d \in {0, 2 * H, -(2 * H)} : stock + K!Room = limit + d
  <2> HIDE DEF H
  <2> QED
    BY <1>1, <1>3
<1>5. K!Wrap(stock + K!Room) = limit
  <2>1. limit + -(2 * H) = limit - 2 * H /\ limit + 0 = limit
    BY <1>1
  <2> QED
    BY <1>4, <2>1, WrapFacts
<1>6. K!Room \in K!Ints
  BY <1>1, WrapFacts DEF K!Room
<1>7. K!Room < 0 => stock > limit \/ limit - stock >= H
  <2> HIDE DEF H
  <2> QED
    BY <1>1, <1>3
<1> QED
  BY <1>5, <1>6, <1>7

StockInv ==
    /\ stock \in K!Ints /\ limit \in K!Ints
    /\ ~spoilt => stock >= 0 /\ limit >= 0
    /\ StockExplained

LEMMA StockInit == K!Init => StockInv
<1>1. 0 \in K!Ints
  BY WrapFacts
<1> QED
  BY <1>1 DEF K!Init, StockInv, StockExplained, K!StockExplained, K!LedgerBalances, K!OversoldExplained,
     K!AddTakesExplained

LEMMA StockUpdate == ASSUME StockInv, NEW n \in K!Ints, NEW m \in K!Ints, K!Update(n, m) PROVE StockInv'
<1>1. /\ stock' = n /\ limit' = m /\ ledger' = n /\ spoilt' = (n < 0 \/ m < 0)
      /\ last'.op = "update" /\ n \in Int /\ m \in Int
  BY WrapFacts DEF K!Update, K!Call
<1>2. ~spoilt' => ~(n < 0 \/ m < 0)
  BY <1>1, Zenon
<1> QED
  BY <1>1, <1>2 DEF StockInv, StockExplained, K!StockExplained, K!LedgerBalances,
     K!OversoldExplained, K!AddTakesExplained

LEMMA StockRemove == ASSUME StockInv, NEW q \in K!Ints, K!RemoveStock(q) PROVE StockInv'
<1> DEFINE removed == IF q < stock THEN q ELSE stock
<1>1. /\ stock # 0 /\ q > 0 /\ stock' = K!Wrap(stock - removed) /\ ledger' = K!Wrap(ledger - removed)
      /\ UNCHANGED <<limit, spoilt>> /\ last'.op = "remove" /\ last'.quantity = q /\ last'.result = removed
  BY WrapFacts DEF K!RemoveStock, K!Refuses, K!Call
<1>2. stock \in Int /\ q \in Int
  BY WrapFacts DEF StockInv
<1>3. stock' \in K!Ints /\ ledger' = stock'
  BY <1>1, <1>2, WrapFacts DEF StockInv, StockExplained, K!StockExplained, K!LedgerBalances
<1>4. ~spoilt => stock' >= 0 /\ removed \in 1 .. q
  <2> SUFFICES ASSUME ~spoilt PROVE stock' >= 0 /\ removed \in 1 .. q
    OBVIOUS
  <2>1. stock > 0 /\ stock - removed >= 0 /\ removed \in 1 .. q /\ stock - removed <= stock
    BY <1>1, <1>2 DEF StockInv
  <2>2. stock - removed \in K!Ints
    BY <1>2, <2>1, WrapFacts DEF StockInv
  <2> QED
    BY <1>1, <2>1, <2>2, WrapFacts
<1> HIDE DEF removed
<1> QED
  BY <1>1, <1>3, <1>4 DEF StockInv, StockExplained, K!StockExplained, K!LedgerBalances,
     K!OversoldExplained, K!AddTakesExplained

LEMMA StockAdd == ASSUME StockInv, NEW q \in K!Ints, K!AddStock(q) PROVE StockInv'
<1> DEFINE sum == K!Wrap(stock + q)
<1>1. /\ stock' = IF sum > limit THEN K!Wrap(stock + K!Room) ELSE sum
      /\ ledger' = K!Wrap(ledger + K!Added(q))
      /\ last'.op = "add" /\ last'.quantity = q /\ last'.limit = limit /\ last'.stock = stock
      /\ last'.result = K!Added(q)
      /\ spoilt' = (spoilt \/ q < 0 \/ stock + q \notin K!Ints) /\ limit' = limit
  BY DEF K!AddStock, K!Call
<1>2. /\ stock \in K!Ints /\ limit \in K!Ints /\ stock \in Int /\ q \in Int /\ limit \in Int
      /\ sum \in K!Ints /\ sum \in Int /\ ledger = stock
  BY WrapFacts DEF StockInv, StockExplained, K!StockExplained, K!LedgerBalances
<1>3. K!Added(q) = IF sum > limit THEN K!Room ELSE q
  BY DEF K!Added
<1> HIDE DEF sum
<1>4. stock' \in K!Ints /\ ledger' = stock' /\ stock' <= limit
  <2>1. CASE sum > limit
    BY <1>1, <1>2, <1>3, <2>1, RoomFills
  <2>2. CASE ~(sum > limit)
    BY <1>1, <1>2, <1>3, <2>2 DEF sum
  <2> QED
    BY <2>1, <2>2
<1>5. ~spoilt' => stock' >= 0
  <2> SUFFICES ASSUME ~spoilt' PROVE stock' >= 0
    OBVIOUS
  <2>0. ~(spoilt \/ q < 0 \/ stock + q \notin K!Ints)
    BY <1>1, Zenon
  <2>1. ~spoilt /\ q >= 0 /\ stock + q \in K!Ints
    BY <1>2, <2>0
  <2>2. stock >= 0 /\ limit >= 0 /\ sum = stock + q
    BY <2>1, WrapFacts DEF StockInv, sum
  <2> QED
    BY <1>1, <1>2, <2>1, <2>2, RoomFills
<1>6. q >= 0 /\ K!Added(q) < 0 => stock > limit
  <2> SUFFICES ASSUME q >= 0, K!Added(q) < 0, ~(stock > limit) PROVE FALSE
    BY <1>2
  <2>1. sum > limit /\ K!Room < 0
    BY <1>2, <1>3
  <2>2. limit - stock >= Half /\ Half \in Nat \ {0} /\ q < Half
    BY <1>2, <2>1, RoomFills, WrapFacts
  <2>3. stock + q < limit /\ stock + q >= stock
    BY <1>2, <2>2
  <2>4. stock + q \in K!Ints
    BY <1>2, <2>3, WrapFacts
  <2>5. sum = stock + q
    BY <2>4, WrapFacts DEF sum
  <2> QED
    BY <1>2, <2>1, <2>3, <2>5
<1>7. ~spoilt' => limit' >= 0
  BY <1>1 DEF StockInv
<1> QED
  BY <1>1, <1>2, <1>4, <1>5, <1>6, <1>7 DEF StockInv, StockExplained, K!StockExplained,
     K!LedgerBalances, K!OversoldExplained, K!AddTakesExplained

\* For integers of any width, whatever stocks and thresholds clients set: what the
\* two operations tell adds up to the stock, and what is odd in it has its reason.
THEOREM StockIsExplained == K!Spec => []StockExplained
<1>1. StockInv /\ [K!Next]_K!vars => StockInv'
  <2> SUFFICES ASSUME StockInv, [K!Next]_K!vars PROVE StockInv'
    OBVIOUS
  <2>1. CASE UNCHANGED K!vars
    BY <2>1 DEF K!vars, StockInv, StockExplained, K!StockExplained, K!LedgerBalances, K!OversoldExplained,
       K!AddTakesExplained
  <2> QED
    BY <2>1, StockUpdate, StockRemove, StockAdd DEF K!Next
<1>2. StockInv => StockExplained
  BY DEF StockInv
<1> QED
  BY <1>1, <1>2, StockInit, PTL DEF K!Spec

-----------------------------------------------------------------------------
(* The lines of an order.                                                     *)

\* Induction over the naturals, for a set: the numbers up to one that is
\* missing would be in a bijection with those of them that are not 0.
LEMMA SetInduction ==
    ASSUME NEW S, 0 \in S, \A n \in Nat : n \in S => n + 1 \in S
    PROVE  \A n \in Nat : n \in S
<1> SUFFICES ASSUME NEW n \in Nat, n \notin S PROVE FALSE
  OBVIOUS
<1> DEFINE T == {i \in 0 .. n : i \in S}
           f == [i \in T |-> i + 1]
<1>1. IsFiniteSet(T)
  <2>1. IsFiniteSet(0 .. n)
    BY FS_Interval
  <2> QED
    BY <2>1, FS_Subset
<1>2. \A i \in T : i \in Nat /\ i + 1 \in T /\ i + 1 # 0
  OBVIOUS
<1>3. 0 \in T
  OBVIOUS
<1> HIDE DEF T
<1>4. f \in Injection(T, T \ {0})
  <2>1. f \in [T -> T \ {0}]
    BY <1>2
  <2>2. \A i, j \in T : f[i] = f[j] => i = j
    BY <1>2
  <2> HIDE DEF f
  <2> QED
    BY <2>1, <2>2 DEF Injection, IsInjective
<1>5. IsFiniteSet(T \ {0}) /\ Cardinality(T \ {0}) = Cardinality(T) - 1 /\ Cardinality(T) \in Nat
  BY <1>1, <1>3, FS_RemoveElement, FS_CardinalityType
<1>6. Cardinality(T) <= Cardinality(T \ {0})
  <2> HIDE DEF f
  <2> QED
    BY <1>4, <1>5, FS_Injection
<1> QED
  BY <1>5, <1>6

\* The sums of f, up to n.
Sums(n, f, s) == s = [k \in 0 .. n |-> IF k = 0 THEN 0 ELSE s[k - 1] + f[k]]

LEMMA SumsThere ==
    ASSUME NEW n \in Nat, NEW f
    PROVE  \E s : Sums(n, f, s)
<1> DEFINE S == {m \in Nat : \E s : Sums(m, f, s)}
<1>1. 0 \in S
  <2> DEFINE s == [k \in 0 .. 0 |-> 0]
  <2>1. Sums(0, f, s)
    BY DEF Sums
  <2> QED BY <2>1
<1>2. ASSUME NEW m \in Nat, m \in S PROVE m + 1 \in S
  <2>1. PICK s : Sums(m, f, s)
    BY <1>2
  <2> DEFINE t == [k \in 0 .. m + 1 |-> IF k = m + 1 THEN s[m] + f[m + 1] ELSE s[k]]
  <2>2. ASSUME NEW k \in 0 .. m + 1 PROVE t[k] = IF k = 0 THEN 0 ELSE t[k - 1] + f[k]
    <3>1. CASE k = m + 1
      BY <3>1
    <3>2. CASE k # m + 1
      <4>1. k \in 0 .. m /\ t[k] = s[k] /\ (k # 0 => k - 1 \in 0 .. m + 1 /\ k - 1 # m + 1 /\ t[k - 1] = s[k - 1])
        BY <3>2
      <4>2. s[k] = IF k = 0 THEN 0 ELSE s[k - 1] + f[k]
        BY <2>1, <4>1 DEF Sums
      <4> QED BY <4>1, <4>2
    <3> QED BY <3>1, <3>2
  <2>3. t = [k \in 0 .. m + 1 |-> t[k]]
    OBVIOUS
  <2> HIDE DEF t
  <2>4. Sums(m + 1, f, t)
    BY <2>2, <2>3 DEF Sums
  <2> QED BY <2>4
<1> HIDE DEF S
<1>3. n \in S
  BY <1>1, <1>2, SetInduction
<1> QED BY <1>3 DEF S

\* Sum is the last of them.
LEMMA SumLast ==
    ASSUME NEW n \in Nat, NEW f
    PROVE  \E s : Sums(n, f, s) /\ L!Sum(n, f) = s[n]
<1> DEFINE s == CHOOSE s : Sums(n, f, s)
<1>1. Sums(n, f, s)
  BY SumsThere
<1>2. L!Sum(n, f) = s[n]
  BY DEF L!Sum, Sums
<1> HIDE DEF s
<1> QED BY <1>1, <1>2

\* Sums of the same numbers are the same.
LEMMA SumsAgree ==
    ASSUME NEW n \in Nat, NEW m \in Nat, m <= n, NEW f, NEW g, NEW s, NEW t,
           Sums(n, f, s), Sums(m, g, t), \A k \in 1 .. m : f[k] = g[k]
    PROVE  s[m] = t[m]
<1> DEFINE S == {k \in Nat : k <= m => s[k] = t[k]}
<1>1. 0 \in S
  BY DEF Sums
<1>2. ASSUME NEW k \in Nat, k \in S PROVE k + 1 \in S
  <2> SUFFICES ASSUME k + 1 <= m PROVE s[k + 1] = t[k + 1]
    OBVIOUS
  <2>1. k + 1 \in 0 .. n /\ k + 1 \in 0 .. m /\ k + 1 \in 1 .. m /\ k + 1 # 0 /\ (k + 1) - 1 = k
    OBVIOUS
  <2>2. s[k + 1] = s[k] + f[k + 1] /\ t[k + 1] = t[k] + g[k + 1]
    BY <2>1 DEF Sums
  <2> QED BY <1>2, <2>1, <2>2
<1> HIDE DEF S
<1>3. m \in S
  BY <1>1, <1>2, SetInduction
<1> QED BY <1>3 DEF S

\* A sum is the sum of what comes before the last, and the last.
LEMMA SumNext ==
    ASSUME NEW n \in Nat, NEW f, NEW g, \A k \in 1 .. n : f[k] = g[k]
    PROVE  L!Sum(n + 1, f) = L!Sum(n, g) + f[n + 1]
<1>1. PICK s : Sums(n + 1, f, s) /\ L!Sum(n + 1, f) = s[n + 1]
  BY SumLast
<1>2. PICK t : Sums(n, g, t) /\ L!Sum(n, g) = t[n]
  BY SumLast
<1>3. s[n] = t[n]
  BY <1>1, <1>2, SumsAgree
<1>4. s[n + 1] = s[n] + f[n + 1]
  <2>1. n + 1 \in 0 .. n + 1 /\ n + 1 # 0 /\ (n + 1) - 1 = n
    OBVIOUS
  <2> QED BY <1>1, <2>1 DEF Sums
<1> QED BY <1>1, <1>2, <1>3, <1>4

LEMMA SumZero == ASSUME NEW f PROVE L!Sum(0, f) = 0
<1>1. PICK s : Sums(0, f, s) /\ L!Sum(0, f) = s[0]
  BY SumLast
<1> QED BY <1>1 DEF Sums

LEMMA SumType ==
    ASSUME NEW n \in Nat, NEW f, \A k \in 1 .. n : f[k] \in Int
    PROVE  L!Sum(n, f) \in Int
<1> DEFINE S == {m \in Nat : m <= n => L!Sum(m, f) \in Int}
<1>1. 0 \in S
  BY SumZero
<1>2. ASSUME NEW m \in Nat, m \in S PROVE m + 1 \in S
  <2>1. L!Sum(m + 1, f) = L!Sum(m, f) + f[m + 1]
    BY SumNext
  <2> QED BY <1>2, <2>1
<1> HIDE DEF S
<1>3. n \in S
  BY <1>1, <1>2, SetInduction
<1> QED BY <1>3 DEF S

\* Numbers that differ in one place, by d, have sums that differ by d.
LEMMA SumChange ==
    ASSUME NEW n \in Nat, NEW f, NEW g, NEW i \in 1 .. n, NEW d \in Int,
           \A k \in 1 .. n : f[k] \in Int /\ g[k] \in Int,
           \A k \in 1 .. n : k # i => g[k] = f[k], g[i] = f[i] + d
    PROVE  L!Sum(n, g) = L!Sum(n, f) + d
<1> DEFINE S == {m \in Nat : m <= n => L!Sum(m, g) = L!Sum(m, f) + (IF i <= m THEN d ELSE 0)}
<1>1. 0 \in S
  BY SumZero
<1>2. ASSUME NEW m \in Nat, m \in S PROVE m + 1 \in S
  <2> SUFFICES ASSUME m + 1 <= n
               PROVE  L!Sum(m + 1, g) = L!Sum(m + 1, f) + (IF i <= m + 1 THEN d ELSE 0)
    OBVIOUS
  <2>1. L!Sum(m + 1, f) = L!Sum(m, f) + f[m + 1] /\ L!Sum(m + 1, g) = L!Sum(m, g) + g[m + 1]
    BY SumNext
  <2>2. L!Sum(m, f) \in Int /\ f[m + 1] \in Int
    <3>1. \A k \in 1 .. m : f[k] \in Int
      OBVIOUS
    <3> QED BY <3>1, SumType
  <2>3. L!Sum(m, g) = L!Sum(m, f) + (IF i <= m THEN d ELSE 0)
    BY <1>2
  <2> HIDE DEF S
  <2>4. g[m + 1] = f[m + 1] + (IF i = m + 1 THEN d ELSE 0)
    OBVIOUS
  <2>5. i <= m + 1 <=> i <= m \/ i = m + 1
    OBVIOUS
  <2> QED BY <2>1, <2>2, <2>3, <2>4, <2>5
<1> HIDE DEF S
<1>3. n \in S
  BY <1>1, <1>2, SetInduction
<1> QED BY <1>3 DEF S

LEMMA SumNone ==
    ASSUME NEW n \in Nat, NEW f, \A k \in 1 .. n : f[k] = 0
    PROVE  L!Sum(n, f) = 0
<1> DEFINE S == {m \in Nat : m <= n => L!Sum(m, f) = 0}
<1>1. 0 \in S
  BY SumZero
<1>2. ASSUME NEW m \in Nat, m \in S PROVE m + 1 \in S
  <2>1. L!Sum(m + 1, f) = L!Sum(m, f) + f[m + 1]
    BY SumNext
  <2> QED BY <1>2, <2>1
<1> HIDE DEF S
<1>3. n \in S
  BY <1>1, <1>2, SetInduction
<1> QED BY <1>3 DEF S

\* Remainders that are whole turns apart are the same.
LEMMA SameRemainder ==
    ASSUME NEW m \in Nat \ {0}, NEW c \in Int, NEW r \in 0 .. m - 1, NEW t \in 0 .. m - 1, m * c = t - r
    PROVE  t = r
<1>1. m * c < m /\ m * c > -m
  OBVIOUS
<1>2. ~(c >= 1) /\ ~(c <= -1)
  BY <1>1
<1>3. c = 0
  BY <1>2
<1> QED BY <1>3

\* Whole turns do not change a remainder.
LEMMA WholeTurns ==
    ASSUME NEW m \in Nat \ {0}, NEW y \in Int, NEW q \in Int, NEW z \in Int, z = y + m * q
    PROVE  z % m = y % m
<1>1. PICK d \in Int, r \in 0 .. m - 1 : y = m * d + r /\ r = y % m
  <2>1. y = m * (y \div m) + (y % m) /\ y \div m \in Int /\ y % m \in 0 .. m - 1
    OBVIOUS
  <2> QED BY <2>1
<1>2. PICK e \in Int, t \in 0 .. m - 1 : z = m * e + t /\ t = z % m
  <2>1. z = m * (z \div m) + (z % m) /\ z \div m \in Int /\ z % m \in 0 .. m - 1
    OBVIOUS
  <2> QED BY <2>1
<1>3. m * ((d + q) - e) = t - r
  <2>1. m * ((d + q) - e) = m * d + m * q - m * e
    OBVIOUS
  <2>2. m * d \in Int /\ m * q \in Int /\ m * e \in Int
    OBVIOUS
  <2>3. m * d = y - r /\ m * e = z - t /\ m * q = z - y
    BY <1>1, <1>2, <2>2
  <2> QED BY <2>1, <2>3
<1>4. t = r
  BY <1>3, SameRemainder
<1> QED BY <1>1, <1>2, <1>4

\* Units may be cut to an int whenever they are added, or once at the end.
LEMMA WrapTwice ==
    ASSUME NEW a \in Int, NEW b \in Int
    PROVE  L!Wrap(a) \in Int /\ L!Wrap(L!Wrap(a) + b) = L!Wrap(a + b)
<1> DEFINE H == Half
           m == 2 * H
<1>1. H \in Nat \ {0} /\ m \in Nat \ {0}
  BY WrapFacts
<1>2. \A n : L!Wrap(n) = ((n + H) % m) - H
  BY WidthAssumption DEF Half, L!Wrap
<1> HIDE DEF H, m
<1> DEFINE r == (a + H) % m
           q == (a + H) \div m
<1>3. r \in Int /\ q \in Int /\ a + H = m * q + r
  BY <1>1
<1> HIDE DEF r, q
<1>4. L!Wrap(a) = r - H
  BY <1>2 DEF r
<1>5. (a + b) + H = (r + b) + m * q /\ ((r - H) + b) + H = r + b /\ r + b \in Int
  BY <1>1, <1>3
<1>6. ((a + b) + H) % m = (r + b) % m
  <2> DEFINE z == (a + b) + H
             y == r + b
  <2>1. z \in Int /\ y \in Int /\ z = y + m * q
    BY <1>1, <1>5
  <2> HIDE DEF z, y
  <2>2. z % m = y % m
    BY <1>1, <1>3, <2>1, WholeTurns, Zenon
  <2> QED BY <2>2 DEF z, y
<1>7. L!Wrap((r - H) + b) = ((r + b) % m) - H
  BY <1>2, <1>5
<1>8. L!Wrap(a + b) = ((r + b) % m) - H
  BY <1>2, <1>5, <1>6
<1> QED BY <1>1, <1>3, <1>4, <1>7, <1>8

-----------------------------------------------------------------------------
\* A line of an order.
Item == [product : Products, price : Prices, discount : Discounts \cup {0}, units : Int]

\* What becomes of a line of the input, and its discount.
Dealt(kd, line)    == IF kd = "draft" THEN L!ToOrderItemDTO(line) ELSE line
Discount(kd, line) == IF kd = "draft" THEN 0 ELSE line.discount

\* The lines of a product in ls, and their units.
Of(ls, p)      == {k \in 1 .. Len(ls) : ls[k].product = p}
UnitsIn(ls, p) == L!Sum(Len(ls), [k \in DOMAIN ls |-> IF ls[k].product = p THEN ls[k].units ELSE 0])

\* What the lines of an order are worth with all their units, and what the lines of
\* the input cost.
Worth(os, ls) == L!Sum(Len(os), [i \in DOMAIN os |-> UnitsIn(ls, os[i].product) * os[i].price])
Cost(ls)      == L!Sum(Len(ls), [k \in DOMAIN ls |-> ls[k].units * ls[k].price])

\* The line of an order is the merge of the lines of its product in ls.
PriceRight(ls, it)        == \E j \in Of(ls, it.product) :
                                /\ \A k \in Of(ls, it.product) : j <= k
                                /\ it.price = ls[j].price
DiscountRight(kd, ls, it) == /\ \A j \in Of(ls, it.product) : it.discount >= Discount(kd, ls[j])
                             /\ \E j \in Of(ls, it.product) : it.discount = Discount(kd, ls[j])
UnitsRight(ls, it)        == it.units = L!Wrap(UnitsIn(ls, it.product))
LineRight(kd, ls, it)     == PriceRight(ls, it) /\ DiscountRight(kd, ls, it) /\ UnitsRight(ls, it)

OneLine(os)      == \A i, j \in 1 .. Len(os) : os[i].product = os[j].product => i = j
EachHasLine(ls, os) == \A k \in 1 .. Len(ls) : \E i \in 1 .. Len(os) : os[i].product = ls[k].product
Named(ls)        == {ls[k].product : k \in 1 .. Len(ls)}
Alike(ls)        == \A j, k \in 1 .. Len(ls) : ls[j].product = ls[k].product => ls[j].price = ls[k].price

\* The invariant, of any input and order.
OrderRight(kd, ls, os) ==
    /\ kd \in {"new", "draft"} /\ ls \in Seq(L!Lines) /\ os \in Seq(Item)
    /\ OneLine(os) /\ EachHasLine(ls, os)
    /\ \A i \in 1 .. Len(os) : LineRight(kd, ls, os[i])
    /\ IsFiniteSet(Named(ls)) /\ Cardinality(Named(ls)) = Len(os)
    /\ Alike(ls) => Worth(os, ls) = Cost(ls)

\* A line of the input, and a line of an order.
LEMMA LineTypes ==
    ASSUME NEW kd \in {"new", "draft"}, NEW line \in L!Lines
    PROVE  /\ line.product \in Products /\ line.price \in Prices /\ line.units \in Int /\ line.price \in Int
           /\ L!Wrap(line.units) = line.units
           /\ Dealt(kd, line) = [product |-> line.product, price |-> line.price,
                                 discount |-> Discount(kd, line), units |-> line.units]
           /\ Dealt(kd, line) \in Item /\ Discount(kd, line) \in Int
<1> USE OrderAssumption DEF L!LinesAssumption
<1>1. line.product \in Products /\ line.price \in Prices /\ line.discount \in Discounts /\ line.units \in Quantities
  BY DEF L!Lines
<1>2. line.units \in Int /\ L!Wrap(line.units) = line.units /\ line.price \in Int /\ line.discount \in Int
  BY <1>1
<1>3. line = [product |-> line.product, price |-> line.price, discount |-> line.discount, units |-> line.units]
  BY DEF L!Lines
<1>4. Dealt(kd, line) = [product |-> line.product, price |-> line.price,
                         discount |-> Discount(kd, line), units |-> line.units]
  BY <1>3 DEF Dealt, Discount, L!ToOrderItemDTO
<1>5. Discount(kd, line) \in Discounts \cup {0} /\ Discount(kd, line) \in Int
  BY <1>1, <1>2 DEF Discount
<1>6. Dealt(kd, line) \in Item
  BY <1>1, <1>2, <1>4, <1>5 DEF Item
<1> QED BY <1>1, <1>2, <1>4, <1>5, <1>6

\* What a line more means.
More(ls, line, ms) ==
    LET n == Len(ls)
        p == line.product
    IN  /\ n \in Nat /\ ms \in Seq(L!Lines) /\ Len(ms) = n + 1 /\ ms[n + 1] = line
        /\ \A k \in 1 .. n : ms[k] = ls[k] /\ ls[k] \in L!Lines
        /\ \A q : Of(ms, q) = Of(ls, q) \cup (IF q = p THEN {n + 1} ELSE {})
        /\ \A q : UnitsIn(ls, q) \in Int
        /\ \A q : UnitsIn(ms, q) = UnitsIn(ls, q) + (IF q = p THEN line.units ELSE 0)
        /\ \A q : Of(ls, q) = {} => UnitsIn(ls, q) = 0
        /\ Cost(ls) \in Int /\ Cost(ms) = Cost(ls) + line.units * line.price
        /\ Named(ms) = Named(ls) \cup {p}
        /\ Alike(ms) => Alike(ls)

LEMMA OneMore ==
    ASSUME NEW ls \in Seq(L!Lines), NEW line \in L!Lines
    PROVE  More(ls, line, Append(ls, line))
<1> DEFINE n == Len(ls)
           ms == Append(ls, line)
<1>1. /\ n \in Nat /\ ms \in Seq(L!Lines) /\ Len(ms) = n + 1 /\ ms[n + 1] = line
      /\ \A k \in 1 .. n : ms[k] = ls[k]
      /\ \A k \in 1 .. n : ls[k] \in L!Lines
      /\ DOMAIN ls = 1 .. n /\ DOMAIN ms = 1 .. n + 1
  OBVIOUS
<1>2. \A k \in 1 .. n : ls[k].units \in Int /\ ls[k].price \in Int
  BY <1>1, LineTypes
<1>3. line.units \in Int /\ line.price \in Int
  BY LineTypes
<1>4. n + 1 \in 1 .. n + 1 /\ \A k \in 1 .. n + 1 : k \in 1 .. n \/ k = n + 1
  BY <1>1
<1>5. \A p : Of(ms, p) = Of(ls, p) \cup (IF p = line.product THEN {n + 1} ELSE {})
  <2> SUFFICES ASSUME NEW p, NEW k
               PROVE  k \in Of(ms, p) <=> k \in Of(ls, p) \/ (p = line.product /\ k = n + 1)
    BY Zenon
  <2> QED BY <1>1, <1>4 DEF Of
<1>6. ASSUME NEW p
      PROVE  /\ UnitsIn(ls, p) \in Int
             /\ UnitsIn(ms, p) = UnitsIn(ls, p) + (IF p = line.product THEN line.units ELSE 0)
             /\ Of(ls, p) = {} => UnitsIn(ls, p) = 0
  <2> DEFINE f == [k \in DOMAIN ls |-> IF ls[k].product = p THEN ls[k].units ELSE 0]
             g == [k \in DOMAIN ms |-> IF ms[k].product = p THEN ms[k].units ELSE 0]
  <2>1. \A k \in 1 .. n : g[k] = f[k] /\ f[k] \in Int /\ (ls[k].product # p => f[k] = 0)
    BY <1>1, <1>2, <1>4
  <2>2. g[n + 1] = IF p = line.product THEN line.units ELSE 0
    BY <1>1, <1>4
  <2>3. UnitsIn(ls, p) = L!Sum(n, f) /\ UnitsIn(ms, p) = L!Sum(n + 1, g)
    BY <1>1 DEF UnitsIn
  <2> HIDE DEF f, g
  <2>4. L!Sum(n, f) \in Int
    BY <1>1, <2>1, SumType
  <2>5. L!Sum(n + 1, g) = L!Sum(n, f) + g[n + 1]
    BY <1>1, <2>1, SumNext
  <2>6. Of(ls, p) = {} => L!Sum(n, f) = 0
    <3> SUFFICES ASSUME Of(ls, p) = {} PROVE L!Sum(n, f) = 0
      OBVIOUS
    <3>1. \A k \in 1 .. n : f[k] = 0
      BY <2>1 DEF Of
    <3> QED BY <1>1, <3>1, SumNone
  <2> QED BY <2>2, <2>3, <2>4, <2>5, <2>6
<1>7. Cost(ls) \in Int /\ Cost(ms) = Cost(ls) + line.units * line.price
  <2> DEFINE f == [k \in DOMAIN ls |-> ls[k].units * ls[k].price]
             g == [k \in DOMAIN ms |-> ms[k].units * ms[k].price]
  <2>1. \A k \in 1 .. n : g[k] = f[k] /\ f[k] \in Int
    BY <1>1, <1>2, <1>4
  <2>2. g[n + 1] = line.units * line.price
    BY <1>1, <1>4
  <2>3. Cost(ls) = L!Sum(n, f) /\ Cost(ms) = L!Sum(n + 1, g)
    BY <1>1 DEF Cost
  <2> HIDE DEF f, g
  <2>4. L!Sum(n, f) \in Int
    BY <1>1, <2>1, SumType
  <2>5. L!Sum(n + 1, g) = L!Sum(n, f) + g[n + 1]
    BY <1>1, <2>1, SumNext
  <2> QED BY <2>2, <2>3, <2>4, <2>5
<1>8. Named(ms) = Named(ls) \cup {line.product}
  <2>1. \A p : p \in Named(ms) <=> p \in Named(ls) \/ p = line.product
    BY <1>1, <1>4 DEF Named
  <2> QED BY <2>1
<1>9. Alike(ms) => Alike(ls)
  BY <1>1, <1>4 DEF Alike
<1> HIDE DEF n, ms
<1>10. More(ls, line, ms)
  BY <1>1, <1>5, <1>6, <1>7, <1>8, <1>9 DEF More, n
<1> QED BY <1>10 DEF ms

\* The line of another product stays right.
LEMMA KeptLine ==
    ASSUME NEW kd \in {"new", "draft"}, NEW ls \in Seq(L!Lines), NEW line \in L!Lines,
           NEW ms, ms = Append(ls, line), NEW it, it.product # line.product, LineRight(kd, ls, it)
    PROVE  LineRight(kd, ms, it)
<1> DEFINE p == it.product
           n == Len(ls)
<1>1. /\ Of(ms, p) = Of(ls, p) /\ UnitsIn(ms, p) = UnitsIn(ls, p)
      /\ \A k \in 1 .. n : ms[k] = ls[k]
  <2>1. More(ls, line, ms)
    BY OneMore
  <2>2. \A k \in 1 .. n : ms[k] = ls[k]
    BY <2>1 DEF More
  <2>3. Of(ms, p) = Of(ls, p)
    <3>1. Of(ms, p) = Of(ls, p) \cup {}
      BY <2>1, Zenon DEF More
    <3> QED BY <3>1
  <2>4. UnitsIn(ms, p) = UnitsIn(ls, p) + 0 /\ UnitsIn(ls, p) \in Int
    BY <2>1 DEF More
  <2> QED BY <2>2, <2>3, <2>4
<1>2. \A k \in Of(ls, p) : ms[k] = ls[k]
  BY <1>1 DEF Of
<1> HIDE DEF p
<1>3. PriceRight(ms, it)
  BY <1>1, <1>2 DEF LineRight, PriceRight, p
<1>4. DiscountRight(kd, ms, it)
  BY <1>1, <1>2 DEF LineRight, DiscountRight, p
<1>5. UnitsRight(ms, it)
  BY <1>1 DEF LineRight, UnitsRight, p
<1> QED BY <1>3, <1>4, <1>5 DEF LineRight

\* A line that line is added to.
Increased(kd, it, line) ==
    [it EXCEPT !.discount = IF Discount(kd, line) > it.discount THEN Discount(kd, line) ELSE it.discount,
               !.units = L!Wrap(it.units + line.units)]

LEMMA IncreasedFields ==
    ASSUME NEW kd \in {"new", "draft"}, NEW line \in L!Lines, NEW it \in Item
    PROVE  LET jt == Increased(kd, it, line)
           IN  /\ jt \in Item
               /\ jt.product = it.product /\ jt.price = it.price
               /\ jt.discount = IF Discount(kd, line) > it.discount THEN Discount(kd, line) ELSE it.discount
               /\ jt.units = L!Wrap(it.units + line.units)
               /\ it.units \in Int /\ it.discount \in Int
<1>1. it.units \in Int /\ it.discount \in Int /\ it.discount \in Discounts \cup {0}
  <2>1. \A d \in Discounts : d \in Int
    BY OrderAssumption DEF L!LinesAssumption
  <2>2. it.units \in Int /\ it.discount \in Discounts \cup {0}
    BY DEF Item
  <2> QED BY <2>1, <2>2
<1>2. line.units \in Int /\ Discount(kd, line) \in Discounts \cup {0}
  BY LineTypes DEF Discount, L!Lines
<1>3. L!Wrap(it.units + line.units) \in Int
  <2>1. it.units + line.units \in Int
    BY <1>1, <1>2
  <2> QED BY <2>1, WrapTwice
<1> QED BY <1>1, <1>2, <1>3 DEF Increased, Item

LEMMA IncreasedLine ==
    ASSUME NEW kd \in {"new", "draft"}, NEW ls \in Seq(L!Lines), NEW line \in L!Lines,
           NEW ms, ms = Append(ls, line), NEW it \in Item, it.product = line.product, LineRight(kd, ls, it)
    PROVE  LineRight(kd, ms, Increased(kd, it, line))
<1> DEFINE p == it.product
           n == Len(ls)
           jt == Increased(kd, it, line)
<1>1. /\ n \in Nat /\ ms[n + 1] = line
      /\ Of(ms, p) = Of(ls, p) \cup {n + 1} /\ UnitsIn(ms, p) = UnitsIn(ls, p) + line.units
      /\ UnitsIn(ls, p) \in Int /\ \A k \in 1 .. n : ms[k] = ls[k]
  BY OneMore DEF More
<1>2. Of(ls, p) \subseteq 1 .. n /\ \A k \in Of(ls, p) : ms[k] = ls[k]
  BY <1>1 DEF Of
<1>3. /\ jt.product = p /\ jt.price = it.price
      /\ jt.discount = IF Discount(kd, line) > it.discount THEN Discount(kd, line) ELSE it.discount
      /\ jt.units = L!Wrap(it.units + line.units)
      /\ it.units \in Int /\ it.discount \in Int
  BY IncreasedFields
<1>4. Discount(kd, line) \in Int /\ line.units \in Int
  BY LineTypes
<1> HIDE DEF p, jt
<1>5. PriceRight(ms, jt)
  <2>1. PICK j \in Of(ls, p) : (\A k \in Of(ls, p) : j <= k) /\ it.price = ls[j].price
    BY DEF LineRight, PriceRight, p
  <2>2. j \in Of(ms, p) /\ j <= n + 1
    BY <1>1, <1>2, <2>1
  <2>3. \A k \in Of(ms, p) : j <= k
    BY <1>1, <2>1, <2>2
  <2> QED BY <1>2, <1>3, <2>1, <2>2, <2>3 DEF PriceRight
<1>6. DiscountRight(kd, ms, jt)
  <2>1. PICK j \in Of(ls, p) : it.discount = Discount(kd, ls[j])
    BY DEF LineRight, DiscountRight, p
  <2>2. \A k \in Of(ls, p) : it.discount >= Discount(kd, ls[k]) /\ Discount(kd, ls[k]) \in Int
    <3>1. \A k \in Of(ls, p) : it.discount >= Discount(kd, ls[k])
      BY DEF LineRight, DiscountRight, p
    <3>2. \A k \in Of(ls, p) : ls[k] \in L!Lines
      BY <1>2
    <3> QED BY <3>1, <3>2, LineTypes
  <2>3. \A k \in Of(ls, p) : jt.discount >= Discount(kd, ms[k])
    BY <1>2, <1>3, <1>4, <2>2
  <2>4. jt.discount >= Discount(kd, ms[n + 1])
    BY <1>1, <1>3, <1>4
  <2>5. \E k \in Of(ms, p) : jt.discount = Discount(kd, ms[k])
    <3>1. CASE Discount(kd, line) > it.discount
      <4>1. n + 1 \in Of(ms, p) /\ jt.discount = Discount(kd, ms[n + 1])
        BY <1>1, <1>3, <3>1
      <4> QED BY <4>1
    <3>2. CASE ~(Discount(kd, line) > it.discount)
      <4>1. j \in Of(ms, p) /\ jt.discount = Discount(kd, ms[j])
        BY <1>1, <1>2, <1>3, <2>1, <3>2
      <4> QED BY <4>1
    <3> QED BY <3>1, <3>2
  <2>6. \A k \in Of(ms, p) : jt.discount >= Discount(kd, ms[k])
    BY <1>1, <2>3, <2>4
  <2> QED BY <1>3, <2>5, <2>6 DEF DiscountRight
<1>7. UnitsRight(ms, jt)
  <2>1. it.units = L!Wrap(UnitsIn(ls, p))
    BY DEF LineRight, UnitsRight, p
  <2>2. L!Wrap(L!Wrap(UnitsIn(ls, p)) + line.units) = L!Wrap(UnitsIn(ls, p) + line.units)
    BY <1>1, <1>4, WrapTwice
  <2> QED BY <1>1, <1>3, <2>1, <2>2 DEF UnitsRight
<1> QED BY <1>5, <1>6, <1>7 DEF LineRight, jt

\* The first line of a product.
LEMMA FirstLine ==
    ASSUME NEW kd \in {"new", "draft"}, NEW ls \in Seq(L!Lines), NEW line \in L!Lines,
           NEW ms, ms = Append(ls, line), Of(ls, line.product) = {}
    PROVE  LineRight(kd, ms, Dealt(kd, line))
<1> DEFINE p == line.product
           n == Len(ls)
           it == Dealt(kd, line)
<1>1. n \in Nat /\ ms[n + 1] = line /\ Of(ms, p) = {n + 1} /\ UnitsIn(ms, p) = line.units
  <2>1. /\ n \in Nat /\ ms[n + 1] = line /\ Of(ms, p) = Of(ls, p) \cup {n + 1}
        /\ UnitsIn(ls, p) = 0 /\ UnitsIn(ms, p) = UnitsIn(ls, p) + line.units
    BY OneMore DEF More
  <2>2. line.units \in Int
    BY LineTypes
  <2> QED BY <2>1, <2>2
<1>2. /\ it.product = p /\ it.price = line.price /\ it.discount = Discount(kd, line) /\ it.units = line.units
      /\ L!Wrap(line.units) = line.units /\ Discount(kd, line) \in Int
  BY LineTypes
<1> HIDE DEF it, p
<1>3. PriceRight(ms, it)
  BY <1>1, <1>2 DEF PriceRight
<1>4. DiscountRight(kd, ms, it)
  BY <1>1, <1>2 DEF DiscountRight
<1>5. UnitsRight(ms, it)
  BY <1>1, <1>2 DEF UnitsRight
<1> QED BY <1>3, <1>4, <1>5 DEF LineRight, it

-----------------------------------------------------------------------------
\* A product that has no line yet.
LEMMA AddsNew ==
    ASSUME NEW kd, NEW ls, NEW os, OrderRight(kd, ls, os), NEW line \in L!Lines,
           \A i \in 1 .. Len(os) : os[i].product # line.product
    PROVE  OrderRight(kd, Append(ls, line), Append(os, Dealt(kd, line)))
<1> DEFINE p == line.product
           n == Len(ls)
           m == Len(os)
           new == Dealt(kd, line)
           ms == Append(ls, line)
           ks == Append(os, new)
<1>1. kd \in {"new", "draft"} /\ ls \in Seq(L!Lines) /\ os \in Seq(Item)
  BY DEF OrderRight
<1>2. /\ n \in Nat /\ ms \in Seq(L!Lines) /\ Len(ms) = n + 1 /\ ms[n + 1] = line
      /\ \A k \in 1 .. n : ms[k] = ls[k]
      /\ \A q : UnitsIn(ls, q) \in Int
      /\ \A q : UnitsIn(ms, q) = UnitsIn(ls, q) + (IF q = p THEN line.units ELSE 0)
      /\ Of(ls, p) = {} => UnitsIn(ls, p) = 0
      /\ Cost(ls) \in Int /\ Cost(ms) = Cost(ls) + line.units * line.price
      /\ Named(ms) = Named(ls) \cup {p} /\ (Alike(ms) => Alike(ls))
  BY <1>1, OneMore DEF More
<1>3. /\ new \in Item /\ new.product = p /\ new.price = line.price /\ new.units = line.units
      /\ line.units \in Int /\ line.price \in Int
  BY <1>1, LineTypes
<1>4. /\ m \in Nat /\ ks \in Seq(Item) /\ Len(ks) = m + 1 /\ ks[m + 1] = new
      /\ \A i \in 1 .. m : ks[i] = os[i] /\ os[i] \in Item /\ os[i].product # p
      /\ \A i \in 1 .. m + 1 : i \in 1 .. m \/ i = m + 1
      /\ DOMAIN os = 1 .. m /\ DOMAIN ks = 1 .. m + 1
  BY <1>1, <1>3
<1> HIDE DEF ms, ks, new
<1>5. Of(ls, p) = {} /\ p \notin Named(ls)
  BY <1>4 DEF OrderRight, EachHasLine, Of, Named
<1>6. OneLine(ks)
  BY <1>3, <1>4 DEF OneLine, OrderRight
<1>7. EachHasLine(ms, ks)
  <2> SUFFICES ASSUME NEW k \in 1 .. n + 1 PROVE \E i \in 1 .. m + 1 : ks[i].product = ms[k].product
    BY <1>2, <1>4 DEF EachHasLine
  <2>1. CASE k = n + 1
    BY <1>2, <1>3, <1>4, <2>1
  <2>2. CASE k \in 1 .. n
    <3>1. PICK i \in 1 .. m : os[i].product = ls[k].product
      BY <2>2 DEF OrderRight, EachHasLine
    <3>2. i \in 1 .. m + 1 /\ ks[i].product = ms[k].product
      BY <1>2, <1>4, <2>2, <3>1
    <3> QED BY <3>2
  <2> QED BY <1>2, <2>1, <2>2
<1>8. ASSUME NEW i \in 1 .. m + 1 PROVE LineRight(kd, ms, ks[i])
  <2>1. CASE i = m + 1
    BY <1>1, <1>4, <1>5, <2>1, FirstLine DEF ms, new
  <2>2. CASE i \in 1 .. m
    <3>1. LineRight(kd, ls, os[i]) /\ os[i].product # p
      BY <1>4, <2>2 DEF OrderRight
    <3>2. LineRight(kd, ms, os[i])
      BY <1>1, <3>1, KeptLine DEF ms
    <3> QED BY <1>4, <2>2, <3>2
  <2> QED BY <1>4, <2>1, <2>2
<1>9. IsFiniteSet(Named(ms)) /\ Cardinality(Named(ms)) = m + 1
  <2>1. IsFiniteSet(Named(ls)) /\ Cardinality(Named(ls)) = m
    BY DEF OrderRight
  <2>2. IsFiniteSet(Named(ls) \cup {p}) /\ Cardinality(Named(ls) \cup {p}) = Cardinality(Named(ls)) + 1
    BY <1>5, <2>1, FS_AddElement
  <2> QED BY <1>2, <2>1, <2>2
<1>10. ASSUME Alike(ms) PROVE Worth(ks, ms) = Cost(ms)
  <2> DEFINE f == [i \in DOMAIN os |-> UnitsIn(ls, os[i].product) * os[i].price]
             g == [i \in DOMAIN ks |-> UnitsIn(ms, ks[i].product) * ks[i].price]
  <2>1. Worth(os, ls) = Cost(ls)
    BY <1>2, <1>10 DEF OrderRight
  <2>2. Worth(os, ls) = L!Sum(m, f) /\ Worth(ks, ms) = L!Sum(m + 1, g)
    BY <1>4 DEF Worth
  <2>3. \A i \in 1 .. m : g[i] = f[i]
    <3> SUFFICES ASSUME NEW i \in 1 .. m PROVE g[i] = f[i]
      OBVIOUS
    <3>1. UnitsIn(ms, os[i].product) = UnitsIn(ls, os[i].product)
      BY <1>2, <1>4
    <3> QED BY <1>4, <3>1
  <2>4. g[m + 1] = line.units * line.price
    <3>1. UnitsIn(ms, p) = line.units
      BY <1>2, <1>3, <1>5
    <3> QED BY <1>3, <1>4, <3>1
  <2> HIDE DEF f, g
  <2>5. L!Sum(m + 1, g) = L!Sum(m, f) + g[m + 1]
    BY <1>4, <2>3, SumNext
  <2> QED BY <1>2, <2>1, <2>2, <2>4, <2>5
<1>11. OrderRight(kd, ms, ks)
  BY <1>1, <1>2, <1>4, <1>6, <1>7, <1>8, <1>9, <1>10 DEF OrderRight
<1> QED BY <1>11 DEF ms, ks, new

\* A product that has one.
LEMMA AddsMore ==
    ASSUME NEW kd, NEW ls, NEW os, OrderRight(kd, ls, os), NEW line \in L!Lines,
           NEW x \in 1 .. Len(os), os[x].product = line.product
    PROVE  OrderRight(kd, Append(ls, line), [os EXCEPT ![x] = Increased(kd, os[x], line)])
<1> DEFINE p == line.product
           n == Len(ls)
           m == Len(os)
           it == os[x]
           jt == Increased(kd, it, line)
           ms == Append(ls, line)
           ks == [os EXCEPT ![x] = jt]
<1>1. kd \in {"new", "draft"} /\ ls \in Seq(L!Lines) /\ os \in Seq(Item) /\ it \in Item
  BY DEF OrderRight
<1>2. /\ n \in Nat /\ ms \in Seq(L!Lines) /\ Len(ms) = n + 1 /\ ms[n + 1] = line
      /\ \A k \in 1 .. n : ms[k] = ls[k]
      /\ \A q : UnitsIn(ls, q) \in Int
      /\ \A q : UnitsIn(ms, q) = UnitsIn(ls, q) + (IF q = p THEN line.units ELSE 0)
      /\ Cost(ls) \in Int /\ Cost(ms) = Cost(ls) + line.units * line.price
      /\ Named(ms) = Named(ls) \cup {p} /\ (Alike(ms) => Alike(ls))
  BY <1>1, OneMore DEF More
<1>3. line.units \in Int /\ line.price \in Int
  BY <1>1, LineTypes
<1>4. jt \in Item /\ jt.product = it.product /\ jt.price = it.price
  BY <1>1, IncreasedFields
<1>5. /\ m \in Nat /\ ks \in Seq(Item) /\ Len(ks) = m /\ ks[x] = jt
      /\ \A i \in 1 .. m : os[i] \in Item /\ (i # x => ks[i] = os[i])
      /\ DOMAIN os = 1 .. m /\ DOMAIN ks = 1 .. m
  BY <1>1, <1>4
<1>6. \A i \in 1 .. m : ks[i].product = os[i].product /\ ks[i].price = os[i].price
  BY <1>4, <1>5
<1>7. \A i \in 1 .. m : i # x => os[i].product # p
  BY DEF OrderRight, OneLine
<1> HIDE DEF ms, ks, jt
<1>8. OneLine(ks)
  BY <1>5, <1>6 DEF OneLine, OrderRight
<1>9. EachHasLine(ms, ks)
  <2> SUFFICES ASSUME NEW k \in 1 .. n + 1 PROVE \E i \in 1 .. m : ks[i].product = ms[k].product
    BY <1>2, <1>5 DEF EachHasLine
  <2>1. CASE k = n + 1
    BY <1>2, <1>6, <2>1
  <2>2. CASE k \in 1 .. n
    <3>1. PICK i \in 1 .. m : os[i].product = ls[k].product
      BY <2>2 DEF OrderRight, EachHasLine
    <3> QED BY <1>2, <1>6, <2>2, <3>1
  <2> QED BY <1>2, <2>1, <2>2
<1>10. ASSUME NEW i \in 1 .. m PROVE LineRight(kd, ms, ks[i])
  <2>1. LineRight(kd, ls, os[i])
    BY DEF OrderRight
  <2>2. CASE i = x
    <3>1. LineRight(kd, ms, jt)
      BY <1>1, <2>1, <2>2, IncreasedLine DEF ms, jt
    <3> QED BY <1>5, <2>2, <3>1
  <2>3. CASE i # x
    <3>1. LineRight(kd, ms, os[i])
      BY <1>1, <1>7, <2>1, <2>3, KeptLine DEF ms
    <3> QED BY <1>5, <2>3, <3>1
  <2> QED BY <2>2, <2>3
<1>11. PICK j \in Of(ls, p) : it.price = ls[j].price
  BY DEF OrderRight, LineRight, PriceRight
<1>12. Named(ms) = Named(ls)
  <2>1. p \in Named(ls)
    BY <1>11 DEF Of, Named
  <2> QED BY <1>2, <2>1
<1>13. ASSUME Alike(ms) PROVE Worth(ks, ms) = Cost(ms)
  <2> DEFINE f == [i \in DOMAIN os |-> UnitsIn(ls, os[i].product) * os[i].price]
             g == [i \in DOMAIN ks |-> UnitsIn(ms, ks[i].product) * ks[i].price]
  <2>1. Worth(os, ls) = Cost(ls)
    BY <1>2, <1>13 DEF OrderRight
  <2>2. Worth(os, ls) = L!Sum(m, f) /\ Worth(ks, ms) = L!Sum(m, g)
    BY <1>5 DEF Worth
  <2>3. it.price = line.price
    <3>1. j \in 1 .. n /\ ls[j].product = p
      BY <1>11 DEF Of
    <3>2. j \in 1 .. n + 1 /\ n + 1 \in 1 .. n + 1 /\ ms[j] = ls[j]
      BY <1>2, <3>1
    <3> QED BY <1>2, <1>11, <1>13, <3>1, <3>2 DEF Alike
  <2>4. \A i \in 1 .. m : i # x => g[i] = f[i]
    <3> SUFFICES ASSUME NEW i \in 1 .. m, i # x PROVE g[i] = f[i]
      OBVIOUS
    <3>1. UnitsIn(ms, os[i].product) = UnitsIn(ls, os[i].product)
      BY <1>2, <1>7
    <3> QED BY <1>5, <3>1
  <2>5. g[x] = f[x] + line.units * line.price
    <3>1. g[x] = (UnitsIn(ls, p) + line.units) * line.price /\ f[x] = UnitsIn(ls, p) * line.price
      BY <1>2, <1>5, <1>6, <2>3
    <3>2. UnitsIn(ls, p) \in Int
      BY <1>2
    <3>3. \A a, b, c \in Int : (a + b) * c = a * c + b * c
      OBVIOUS
    <3> QED BY <1>3, <3>1, <3>2, <3>3
  <2>6. \A i \in 1 .. m : f[i] \in Int /\ g[i] \in Int
    <3> SUFFICES ASSUME NEW i \in 1 .. m PROVE f[i] \in Int /\ g[i] \in Int
      OBVIOUS
    <3>1. os[i].price \in Int
      BY <1>5, OrderAssumption DEF Item, L!LinesAssumption
    <3>2. f[i] = UnitsIn(ls, os[i].product) * os[i].price /\ g[i] = UnitsIn(ms, os[i].product) * os[i].price
      BY <1>5, <1>6
    <3>3. UnitsIn(ls, os[i].product) \in Int /\ UnitsIn(ms, os[i].product) \in Int
      BY <1>2, <1>3
    <3> QED BY <3>1, <3>2, <3>3
  <2>7. line.units * line.price \in Int
    BY <1>3
  <2> HIDE DEF f, g
  <2>8. L!Sum(m, g) = L!Sum(m, f) + line.units * line.price
    BY <1>5, <2>4, <2>5, <2>6, <2>7, SumChange
  <2> QED BY <1>2, <2>1, <2>2, <2>8
<1>14. OrderRight(kd, ms, ks)
  <2>1. IsFiniteSet(Named(ms)) /\ Cardinality(Named(ms)) = m
    BY <1>12 DEF OrderRight
  <2> QED BY <1>1, <1>2, <1>5, <1>8, <1>9, <1>10, <1>13, <2>1 DEF OrderRight
<1> QED BY <1>14 DEF ms, ks, jt

\* One line after the other.
LEMMA AddsRight ==
    ASSUME NEW kd, NEW ls, NEW os, OrderRight(kd, ls, os), NEW line \in L!Lines
    PROVE  OrderRight(kd, Append(ls, line), L!AddOrderItem(os, Dealt(kd, line)))
<1> DEFINE new == Dealt(kd, line)
<1>1. /\ kd \in {"new", "draft"} /\ os \in Seq(Item)
      /\ new.product = line.product /\ new.discount = Discount(kd, line) /\ new.units = line.units
  BY LineTypes DEF OrderRight
<1>2. L!Matches(os, new) = {i \in 1 .. Len(os) : os[i].product = line.product}
  BY <1>1 DEF L!Matches
<1> HIDE DEF new
<1>3. CASE L!Matches(os, new) = {}
  <2>1. L!AddOrderItem(os, new) = Append(os, new)
    BY <1>3 DEF L!AddOrderItem
  <2>2. OrderRight(kd, Append(ls, line), Append(os, new))
    BY <1>2, <1>3, AddsNew DEF new
  <2> QED BY <2>1, <2>2 DEF new
<1>4. CASE L!Matches(os, new) # {}
  <2> DEFINE x == CHOOSE k \in L!Matches(os, new) : TRUE
  <2>1. x \in 1 .. Len(os) /\ os[x].product = line.product
    BY <1>2, <1>4
  <2>2. L!AddOrderItem(os, new) = [os EXCEPT ![x] = Increased(kd, os[x], line)]
    BY <1>1, <1>4 DEF L!AddOrderItem, Increased
  <2> HIDE DEF x
  <2>3. OrderRight(kd, Append(ls, line), [os EXCEPT ![x] = Increased(kd, os[x], line)])
    BY <2>1, AddsMore
  <2> QED BY <2>2, <2>3 DEF new
<1> QED BY <1>3, <1>4

\* What comes in is in the end what the order holds.
LEMMA UnitsAre == \A p : L!UnitsOf(p) = UnitsIn(lines, p)
BY DEF L!UnitsOf, UnitsIn

LEMMA LinesAre == lines \in Seq(L!Lines) => \A p : L!LinesOf(p) = Of(lines, p)
BY DEF L!LinesOf, Of

\* Each line of the order is what Merged says of its product.
LEMMA LineIsMerged ==
    ASSUME orderKind \in {"new", "draft"}, lines \in Seq(L!Lines),
           NEW it \in Item, LineRight(orderKind, lines, it)
    PROVE  it = L!Merged(it.product)
<1> DEFINE p == it.product
           mine == Of(lines, p)
<1>1. L!LinesOf(p) = mine /\ L!UnitsOf(p) = UnitsIn(lines, p)
  BY UnitsAre, LinesAre
<1>2. mine \subseteq 1 .. Len(lines) /\ \A k \in mine : lines[k] \in L!Lines
  BY DEF Of
<1> HIDE DEF mine
<1>3. it.price = lines[CHOOSE k \in mine : \A j \in mine : k <= j].price
  <2>1. PICK j \in mine : (\A k \in mine : j <= k) /\ it.price = lines[j].price
    BY DEF LineRight, PriceRight, mine
  <2>2. \A x, y \in mine : x <= y /\ y <= x => x = y
    BY <1>2
  <2>3. \A x \in mine : (\A k \in mine : x <= k) => x = j
    BY <2>1, <2>2
  <2>4. (CHOOSE k \in mine : \A i \in mine : k <= i) = j
    BY <2>1, <2>3
  <2> QED BY <2>1, <2>4
<1>4. it.discount = IF orderKind = "draft" THEN 0
                    ELSE CHOOSE d \in {lines[k].discount : k \in mine} : \A k \in mine : d >= lines[k].discount
  <2>1. PICK j \in mine : it.discount = Discount(orderKind, lines[j])
    BY DEF LineRight, DiscountRight, mine
  <2>2. \A k \in mine : it.discount >= Discount(orderKind, lines[k])
    BY DEF LineRight, DiscountRight, mine
  <2>3. CASE orderKind = "draft"
    BY <2>1, <2>3 DEF Discount
  <2>4. CASE orderKind # "draft"
    <3> DEFINE ds == {lines[k].discount : k \in mine}
    <3>1. \A k \in mine : lines[k].discount \in Int
      BY <1>2, <2>4, LineTypes DEF Discount
    <3>2. it.discount \in ds /\ \A k \in mine : it.discount >= lines[k].discount
      BY <2>1, <2>2, <2>4 DEF Discount
    <3>3. \A d \in ds : (\A k \in mine : d >= lines[k].discount) => d = it.discount
      <4> SUFFICES ASSUME NEW x \in mine, \A k \in mine : lines[x].discount >= lines[k].discount
                   PROVE  lines[x].discount = it.discount
        OBVIOUS
      <4>1. it.discount = lines[j].discount
        BY <2>1, <2>4 DEF Discount
      <4> QED BY <3>1, <3>2, <4>1
    <3> HIDE DEF ds
    <3>4. (CHOOSE d \in ds : \A k \in mine : d >= lines[k].discount) = it.discount
      BY <3>2, <3>3
    <3> QED BY <2>4, <3>4 DEF ds
  <2> QED BY <2>3, <2>4
<1>5. it.units = L!Wrap(UnitsIn(lines, p))
  BY DEF LineRight, UnitsRight
<1>6. it = [product |-> it.product, price |-> it.price, discount |-> it.discount, units |-> it.units]
  BY DEF Item
<1>7. L!Merged(p) = [product |-> p,
                     price |-> lines[CHOOSE k \in mine : \A j \in mine : k <= j].price,
                     discount |-> IF orderKind = "draft" THEN 0
                                  ELSE CHOOSE d \in {lines[k].discount : k \in mine} :
                                          \A k \in mine : d >= lines[k].discount,
                     units |-> L!Wrap(UnitsIn(lines, p))]
  BY <1>1 DEF L!Merged
<1> QED BY <1>3, <1>4, <1>5, <1>6, <1>7, Zenon

\* An order with one line per product is rebuilt from its own lines.
LEMMA RebuildsItself ==
    ASSUME NEW os \in Seq(Item), OneLine(os)
    PROVE  L!Rebuilt(os) = os
<1> DEFINE n == Len(os)
           begin(k) == [i \in 1 .. k |-> os[i]]
           Builds(b) == b = [k \in 0 .. n |-> IF k = 0 THEN <<>> ELSE L!AddOrderItem(b[k - 1], os[k])]
           b == CHOOSE b : Builds(b)
<1>1. n \in Nat /\ os = begin(n) /\ begin(0) = <<>>
  OBVIOUS
<1>2. ASSUME NEW k \in 1 .. n PROVE L!AddOrderItem(begin(k - 1), os[k]) = begin(k)
  <2>1. k - 1 \in Nat /\ begin(k - 1) \in Seq(Item) /\ Len(begin(k - 1)) = k - 1
    OBVIOUS
  <2>2. L!Matches(begin(k - 1), os[k]) = {}
    <3>1. \A i \in 1 .. k - 1 : os[i].product # os[k].product
      BY DEF OneLine
    <3> QED BY <3>1 DEF L!Matches
  <2>3. L!AddOrderItem(begin(k - 1), os[k]) = Append(begin(k - 1), os[k])
    BY <2>2 DEF L!AddOrderItem
  <2>4. Append(begin(k - 1), os[k]) = begin(k)
    BY <2>1
  <2> QED BY <2>3, <2>4
<1> HIDE DEF begin
<1>3. Builds([k \in 0 .. n |-> begin(k)])
  <2> DEFINE c == [k \in 0 .. n |-> begin(k)]
  <2>1. ASSUME NEW k \in 0 .. n PROVE c[k] = IF k = 0 THEN <<>> ELSE L!AddOrderItem(c[k - 1], os[k])
    <3>1. CASE k = 0
      BY <1>1, <3>1
    <3>2. CASE k # 0
      <4>1. k \in 1 .. n /\ k - 1 \in 0 .. n
        BY <1>1, <3>2
      <4> QED BY <1>2, <3>2, <4>1
    <3> QED BY <3>1, <3>2
  <2>2. c = [k \in 0 .. n |-> c[k]]
    OBVIOUS
  <2> HIDE DEF c
  <2>3. Builds(c)
    BY <2>1, <2>2
  <2> QED BY <2>3 DEF c
<1>4. Builds(b)
  <2> HIDE DEF Builds
  <2> QED BY <1>3
<1>5. L!Rebuilt(os) = b[n]
  BY DEF L!Rebuilt
<1> HIDE DEF b
<1> DEFINE S == {k \in Nat : k <= n => b[k] = begin(k)}
<1>6. 0 \in S
  BY <1>1, <1>4
<1>7. ASSUME NEW k \in Nat, k \in S PROVE k + 1 \in S
  <2> SUFFICES ASSUME k + 1 <= n PROVE b[k + 1] = begin(k + 1)
    OBVIOUS
  <2>1. k + 1 \in 0 .. n /\ k + 1 \in 1 .. n /\ k + 1 # 0 /\ (k + 1) - 1 = k /\ b[k] = begin(k)
    BY <1>1, <1>7
  <2>2. b[k + 1] = L!AddOrderItem(b[k], os[k + 1])
    BY <1>4, <2>1
  <2>3. L!AddOrderItem(begin((k + 1) - 1), os[k + 1]) = begin(k + 1)
    BY <1>2, <2>1
  <2> QED BY <2>1, <2>2, <2>3
<1> HIDE DEF S
<1>8. n \in S
  BY <1>1, <1>6, <1>7, SetInduction
<1>9. b[n] = begin(n)
  BY <1>1, <1>8 DEF S
<1> QED BY <1>1, <1>5, <1>9

\* So has OrderManager.
LEMMA OrderCardinality == ASSUME NEW s PROVE L!Cardinality(s) = Cardinality(s)
BY DEF L!Cardinality, Cardinality

\* The invariant says that lines are merged.
LEMMA RightIsMerged == OrderRight(orderKind, lines, order) => L!LinesMerged
<1> SUFFICES ASSUME OrderRight(orderKind, lines, order) PROVE L!LinesMerged
  OBVIOUS
<1>1. orderKind \in {"new", "draft"} /\ lines \in Seq(L!Lines) /\ order \in Seq(Item)
  BY DEF OrderRight
<1>2. DOMAIN lines = 1 .. Len(lines) /\ DOMAIN order = 1 .. Len(order) /\ \A i \in DOMAIN order : order[i] \in Item
  BY <1>1
<1>3. \A i \in DOMAIN order : order[i] = L!Merged(order[i].product) /\ LineRight(orderKind, lines, order[i])
  BY <1>1, <1>2, LineIsMerged DEF OrderRight
<1>4. {lines[k].product : k \in DOMAIN lines} = Named(lines)
  BY <1>2 DEF Named
<1>5. {order[i].product : i \in DOMAIN order} = Named(lines)
  <2>1. \A i \in DOMAIN order : order[i].product \in Named(lines)
    <3> SUFFICES ASSUME NEW i \in DOMAIN order PROVE order[i].product \in Named(lines)
      OBVIOUS
    <3>1. PICK j \in Of(lines, order[i].product) : TRUE
      BY <1>3 DEF LineRight, PriceRight
    <3> QED BY <3>1 DEF Of, Named
  <2>2. \A q \in Named(lines) : \E i \in DOMAIN order : q = order[i].product
    BY <1>2 DEF OrderRight, EachHasLine, Named
  <2> QED BY <2>1, <2>2
<1>6. L!OrderIsMerge
  <2>1. {order[i] : i \in DOMAIN order} = {L!Merged(q) : q \in Named(lines)}
    <3>1. \A i \in DOMAIN order : order[i].product \in Named(lines)
      BY <1>5
    <3>2. \A q \in Named(lines) : \E i \in DOMAIN order : q = order[i].product
      BY <1>5
    <3>3. \A i \in DOMAIN order : order[i] \in {L!Merged(q) : q \in Named(lines)}
      BY <1>3, <3>1
    <3>4. \A q \in Named(lines) : L!Merged(q) \in {order[i] : i \in DOMAIN order}
      BY <1>3, <3>2
    <3> QED BY <3>3, <3>4
  <2>2. Len(order) = Cardinality(Named(lines))
    BY DEF OrderRight
  <2>3. L!Cardinality(Named(lines)) = Len(order)
    BY <2>2, OrderCardinality
  <2> QED BY <1>4, <2>1, <2>3, Zenon DEF L!OrderIsMerge
<1>7. L!TotalIsSumOfLines
  <2> SUFFICES ASSUME L!OnePrice, \A q \in Products : L!UnitsOf(q) = L!Wrap(L!UnitsOf(q))
               PROVE  L!GetTotal(order) = Cost(lines)
    BY DEF L!TotalIsSumOfLines, Cost
  <2>1. Alike(lines)
    BY <1>2 DEF L!OnePrice, Alike
  <2>2. Worth(order, lines) = Cost(lines)
    BY <2>1 DEF OrderRight
  <2>3. \A i \in DOMAIN order : order[i].units = UnitsIn(lines, order[i].product)
    <3> SUFFICES ASSUME NEW i \in DOMAIN order PROVE order[i].units = UnitsIn(lines, order[i].product)
      OBVIOUS
    <3>1. order[i].product \in Products
      BY <1>2 DEF Item
    <3>2. order[i].units = L!Wrap(UnitsIn(lines, order[i].product))
      BY <1>3 DEF LineRight, UnitsRight
    <3> QED BY <3>1, <3>2, UnitsAre
  <2>4. [i \in DOMAIN order |-> order[i].units * order[i].price] =
        [i \in DOMAIN order |-> UnitsIn(lines, order[i].product) * order[i].price]
    BY <2>3
  <2> QED BY <2>2, <2>4, Zenon DEF L!GetTotal, Worth
<1>8. L!RebuildIsStable
  BY <1>1, RebuildsItself DEF OrderRight, L!RebuildIsStable
<1> QED BY <1>6, <1>7, <1>8 DEF L!LinesMerged

\* Nothing is in an order at first.
LEMMA InitRight == L!Init => OrderRight(orderKind, lines, order)
<1> SUFFICES ASSUME L!Init PROVE OrderRight(orderKind, lines, order)
  OBVIOUS
<1>1. orderKind \in {"new", "draft"} /\ lines = <<>> /\ order = <<>>
  BY DEF L!Init
<1>2. lines \in Seq(L!Lines) /\ order \in Seq(Item) /\ Len(lines) = 0 /\ Len(order) = 0
  BY <1>1
<1>3. OneLine(order) /\ EachHasLine(lines, order)
  BY <1>2 DEF OneLine, EachHasLine
<1>4. IsFiniteSet(Named(lines)) /\ Cardinality(Named(lines)) = 0
  <2>1. Named(lines) = {}
    BY <1>2 DEF Named
  <2> QED BY <2>1, FS_EmptySet
<1>5. Worth(order, lines) = 0 /\ Cost(lines) = 0
  BY <1>2, SumZero DEF Worth, Cost
<1> QED BY <1>1, <1>2, <1>3, <1>4, <1>5 DEF OrderRight

\* However the lines of a request or a basket are mixed, for any prices, discounts
\* and width of an int: an order has one line per product, which has all its units,
\* its largest discount and its first price; its total is what the lines cost unless
\* a product has two prices or too many units; and the draft, sent back, is itself.
THEOREM OrdersAreMerged == L!Spec => []LinesMerged
<1>1. OrderRight(orderKind, lines, order) /\ [L!Next]_L!vars => OrderRight(orderKind, lines, order)'
  <2> SUFFICES ASSUME OrderRight(orderKind, lines, order), [L!Next]_L!vars
               PROVE  OrderRight(orderKind', lines', order')
    BY DEF OrderRight, OneLine, EachHasLine, LineRight, PriceRight, DiscountRight, UnitsRight, Of, Named, Alike,
           Worth, Cost, UnitsIn, Discount
  <2>1. CASE UNCHANGED L!vars
    BY <2>1 DEF L!vars
  <2>2. CASE L!Next
    <3>1. PICK line \in L!Lines : L!AddLine(line)
      BY <2>2 DEF L!Next
    <3>2. /\ orderKind' = orderKind /\ lines' = Append(lines, line)
          /\ order' = L!AddOrderItem(order, Dealt(orderKind, line))
      BY <3>1 DEF L!AddLine, Dealt
    <3> QED BY <3>2, AddsRight
  <2> QED BY <2>1, <2>2
<1>2. OrderRight(orderKind, lines, order) => LinesMerged
  BY RightIsMerged DEF LinesMerged
<1> QED BY <1>1, <1>2, InitRight, PTL DEF L!Spec
=============================================================================

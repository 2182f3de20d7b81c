---------------------------- MODULE DeliveryProofs ----------------------------
(***************************************************************************)
(* Machine-checked proofs about the way of a message from the tab to the   *)
(* driver of its card (ChatDelivery), for any number of messages, any      *)
(* number of backends and any faults: no words are lost, no turn is taken  *)
(* twice.                                                                  *)
(*                                                                         *)
(* Delivery relates what the tab keeps (queue, outbox, bubbles) to what is *)
(* on the wire, the receipts of each driver, the appends under way and the *)
(* history.  It holds when no two messages have the same words (Distinct): *)
(* with twins the replay proves an entry by the line of the other, and a   *)
(* reconciliation may keep the wrong one of the two.  Those histories are  *)
(* left to the model checker.                                              *)
(*                                                                         *)
(* First what the operators do: filters, the claims of reconcileOutbox and *)
(* the reconciliation itself.  Then one lemma per action, XStep.  That the *)
(* page of an open socket has a driver is taken from ChatProofs (IInv).    *)
(***************************************************************************)
EXTENDS ChatProofs

-----------------------------------------------------------------------------
(* The operators of the delivery: least and greatest numbers, what a filter *)
(* keeps, which line each entry of the outbox claims.                      *)

\* A set of numbers that is not empty has a least one: the one with the fewest numbers
\* up to it, and strict inclusion of finite sets is well-founded.
LEMMA Least ==
  ASSUME NEW S \in SUBSET Nat, S # {}
  PROVE  Min(S) \in S /\ \A x \in S : Min(S) <= x
<1> DEFINE R == StrictSubsetOrdering(Nat)
           T == {0 .. s : s \in S}
<1>1. T \subseteq FiniteSubsetsOf(Nat) /\ T # {}
  <2>1. \A s \in S : 0 .. s \in SUBSET Nat /\ IsFiniteSet(0 .. s)
    BY FS_Interval
  <2> QED
    BY <2>1 DEF FiniteSubsetsOf
<1>2. \E x \in T : \A y \in T : ~ (<<y, x>> \in R)
  <2>1. IsWellFoundedOn(R, FiniteSubsetsOf(Nat))
    BY FS_StrictSubsetOrderingWellFounded
  <2> HIDE DEF R, T
  <2> QED
    BY <1>1, <2>1, WFMin
<1>3. PICK s \in S : \A t \in S : ~ (<<0 .. t, 0 .. s>> \in R)
  BY <1>2
<1>4. ASSUME NEW t \in S, t < s PROVE FALSE
  <2>1. 0 .. t \subseteq 0 .. s /\ s \in 0 .. s /\ s \notin 0 .. t
    BY <1>4
  <2>2. 0 .. t \in SUBSET Nat /\ 0 .. s \in SUBSET Nat
    OBVIOUS
  <2>3. <<0 .. t, 0 .. s>> \in R
    BY <2>1, <2>2 DEF StrictSubsetOrdering
  <2> QED
    BY <1>3, <2>3
<1>5. \A x \in S : s <= x
  BY <1>4
<1> HIDE DEF R, T
<1> QED
  BY <1>5 DEF Min

\* A finite one has a greatest: the one with the fewest numbers above it.
LEMMA Greatest ==
  ASSUME NEW S \in SUBSET Nat, S # {}, IsFiniteSet(S)
  PROVE  Max(S) \in S /\ \A x \in S : x <= Max(S)
<1> DEFINE R == StrictSubsetOrdering(Nat)
           Above(s) == {x \in S : x > s}
           T == {Above(s) : s \in S}
<1>1. T \subseteq FiniteSubsetsOf(Nat) /\ T # {}
  <2>1. \A s \in S : Above(s) \in SUBSET Nat /\ IsFiniteSet(Above(s))
    BY FS_Subset
  <2> QED
    BY <2>1 DEF FiniteSubsetsOf
<1>2. \E x \in T : \A y \in T : ~ (<<y, x>> \in R)
  <2>1. IsWellFoundedOn(R, FiniteSubsetsOf(Nat))
    BY FS_StrictSubsetOrderingWellFounded
  <2> HIDE DEF R, T
  <2> QED
    BY <1>1, <2>1, WFMin
<1>3. PICK s \in S : \A t \in S : ~ (<<Above(t), Above(s)>> \in R)
  BY <1>2
<1>4. ASSUME NEW t \in S, t > s PROVE FALSE
  <2>0. t \in Nat /\ s \in Nat /\ t > s
    BY <1>4
  <2>1. Above(t) \subseteq Above(s) /\ t \in Above(s) /\ t \notin Above(t)
    <3>1. ASSUME NEW x \in S, x > t PROVE x > s
      <4>1. x \in Nat
        BY <3>1
      <4> QED
        BY <2>0, <3>1, <4>1
    <3>2. t > s /\ ~(t > t)
      BY <2>0
    <3> QED
      BY <3>1, <3>2
  <2>2. Above(t) \in SUBSET Nat /\ Above(s) \in SUBSET Nat
    OBVIOUS
  <2>3. <<Above(t), Above(s)>> \in R
    BY <2>1, <2>2 DEF StrictSubsetOrdering
  <2> QED
    BY <1>3, <2>3
<1>5. \A x \in S : x <= s
  BY <1>4
<1> HIDE DEF R, T, Above
<1> QED
  BY <1>5 DEF Max

\* What a filter keeps: every element it is to keep, once, and nothing else.
LEMMA FilteredFacts ==
  ASSUME NEW T, NEW s \in Seq(T), NEW I \in SUBSET DOMAIN s
  PROVE  /\ Filtered(s, I) \in Seq(T) /\ IsFiniteSet(I) /\ Cardinality(I) \in Nat
         /\ DOMAIN Filtered(s, I) = 1 .. Cardinality(I)
         /\ \E from \in [1 .. Cardinality(I) -> I] :
              /\ \A k \in 1 .. Cardinality(I) : Filtered(s, I)[k] = s[from[k]]
              /\ \A k, l \in 1 .. Cardinality(I) : from[k] = from[l] => k = l
              /\ \A i \in I : \E k \in 1 .. Cardinality(I) : from[k] = i
<1> DEFINE n == Cardinality(I)
           place(i) == Cardinality({j \in I : j <= i})
           rank == [i \in I |-> place(i)]
<1>1. Len(s) \in Nat /\ DOMAIN s = 1 .. Len(s) /\ \A i \in DOMAIN s : s[i] \in T
  BY LenProperties, ElementOfSeq
<1>2. IsFiniteSet(I) /\ n \in Nat /\ I \subseteq Nat
  <2>1. IsFiniteSet(DOMAIN s) /\ DOMAIN s \subseteq Nat
    BY <1>1, FS_Interval
  <2> QED
    BY <2>1, FS_Subset, FS_CardinalityType
<1>3. \A i \in I : place(i) \in 1 .. n
  <2> TAKE i \in I
  <2> DEFINE B == {j \in I : j <= i}
  <2>1. IsFiniteSet(B) /\ Cardinality(B) \in Nat /\ Cardinality(B) <= n
    BY <1>2, FS_Subset, FS_CardinalityType
  <2>2. i \in B
    BY <1>2
  <2>3. Cardinality(B) # 0
    <3> HIDE DEF B
    <3> QED
      BY <2>1, <2>2, FS_EmptySet
  <2> QED
    BY <1>2, <2>1, <2>3
<1>4. \A i, j \in I : i < j => place(i) < place(j)
  <2> TAKE i, j \in I
  <2> HAVE i < j
  <2> DEFINE B == {k \in I : k <= i}
             C == {k \in I : k <= j}
  <2>1. B \subseteq C /\ j \in C /\ j \notin B /\ i \in Nat /\ j \in Nat
    BY <1>2
  <2>2. IsFiniteSet(B) /\ IsFiniteSet(C)
    BY <1>2, FS_Subset
  <2> HIDE DEF B, C
  <2>3. Cardinality(B) <= Cardinality(C) /\ (Cardinality(B) = Cardinality(C) => B = C)
    BY <2>1, <2>2, FS_Subset
  <2>4. Cardinality(B) \in Nat /\ Cardinality(C) \in Nat
    BY <2>2, FS_CardinalityType
  <2>5. Cardinality(B) < Cardinality(C)
    BY <2>1, <2>3, <2>4
  <2> QED
    BY <2>5 DEF B, C
<1>5. rank \in Injection(I, 1 .. n)
  <2>1. rank \in [I -> 1 .. n]
    BY <1>3
  <2>2. \A i, j \in I : rank[i] = rank[j] => i = j
    <3> SUFFICES ASSUME NEW i \in I, NEW j \in I, i # j PROVE rank[i] # rank[j]
      OBVIOUS
    <3>1. place(i) \in Nat /\ place(j) \in Nat /\ i \in Nat /\ j \in Nat
      BY <1>2, <1>3
    <3>2. i < j \/ j < i
      BY <3>1
    <3> HIDE DEF place
    <3> QED
      BY <1>4, <3>1, <3>2
  <2> HIDE DEF rank
  <2> QED
    BY <2>1, <2>2, Fun_IsInj
<1>6. \A k \in 1 .. n : \E i \in I : place(i) = k
  <2>1. Cardinality(1 .. n) = n /\ IsFiniteSet(1 .. n)
    BY <1>2, FS_Interval
  <2>2. rank \in Surjection(I, 1 .. n)
    <3> HIDE DEF rank
    <3> QED
      BY <1>2, <1>5, <2>1, FS_Injection
  <2> QED
    BY <2>2 DEF Surjection
<1> DEFINE from == [k \in 1 .. n |-> CHOOSE i \in I : place(i) = k]
<1> HIDE DEF place, rank, n
<1>7. \A k \in 1 .. n : from[k] \in I /\ place(from[k]) = k
  BY <1>6
<1>8. Filtered(s, I) = [k \in 1 .. n |-> s[from[k]]]
  BY DEF Filtered, n, place
<1>9. from \in [1 .. n -> I]
  BY <1>7
<1> HIDE DEF from
<1>10. \A k \in 1 .. n : s[from[k]] \in T
  BY <1>1, <1>7
<1>11. Filtered(s, I) \in Seq(T) /\ DOMAIN Filtered(s, I) = 1 .. n
       /\ \A k \in 1 .. n : Filtered(s, I)[k] = s[from[k]]
  BY <1>2, <1>8, <1>10
<1>12. \A k, l \in 1 .. n : from[k] = from[l] => k = l
  BY <1>7
<1>13. \A i, j \in I : place(i) = place(j) => i = j
  BY <1>5, Fun_IsInj DEF rank, Injection, IsInjective
<1>14. \A i \in I : \E k \in 1 .. n : from[k] = i
  BY <1>3, <1>7, <1>13 DEF n, place
<1> QED
  BY <1>2, <1>9, <1>11, <1>12, <1>14 DEF n

\* The first line that proves an entry, of those the entries before the i-th left.
FirstFree(sent, e, claim, i) ==
  LET free == Proofs(sent, e) \ {claim[j] : j \in 1 .. i - 1}
  IN  IF free = {} THEN 0 ELSE Min(free)

\* Claims is the assignment its definition describes: one is built entry by entry.
LEMMA ClaimsRule ==
  ASSUME NEW sent, NEW outbox, NEW n \in Nat, DOMAIN outbox = 1 .. n
  PROVE  \A i \in 1 .. n :
           Claims(sent, outbox)[i] = FirstFree(sent, outbox[i], Claims(sent, outbox), i)
<1> DEFINE Free(f, i) == Proofs(sent, outbox[i]) \ {f[j] : j \in 1 .. i - 1}
           Rule(f, i) == IF Free(f, i) = {} THEN 0 ELSE Min(Free(f, i))
           Obeys(f, k) == \A i \in 1 .. k : f[i] = Rule(f, i)
           Fails == {k \in 0 .. n : ~ \E f : Obeys(f, k)}
<1>1. \A f, g : \A i \in Nat : (\A j \in 1 .. i - 1 : f[j] = g[j]) => Rule(f, i) = Rule(g, i)
  <2> SUFFICES ASSUME NEW f, NEW g, NEW i \in Nat, \A j \in 1 .. i - 1 : f[j] = g[j]
               PROVE  Rule(f, i) = Rule(g, i)
    BY Zenon
  <2>1. Free(f, i) = Free(g, i)
    OBVIOUS
  <2> HIDE DEF Free
  <2> QED
    BY <2>1
<1> HIDE DEF Rule
<1>2. Fails = {}
  <2> SUFFICES ASSUME Fails # {} PROVE FALSE
    OBVIOUS
  <2>1. Fails \in SUBSET Nat
    OBVIOUS
  <2> DEFINE k == Min(Fails)
  <2>2. k \in Fails /\ \A x \in Fails : k <= x
    <3> HIDE DEF Fails
    <3> QED
      BY <2>1, Least
  <2> HIDE DEF k
  <2>3. k \in 0 .. n /\ k # 0
    <3>1. \E f : Obeys(f, 0)
      OBVIOUS
    <3> QED
      BY <2>2, <3>1
  <2>4. k - 1 \in 0 .. n /\ k - 1 \notin Fails
    <3>1. k - 1 \in 0 .. n /\ ~(k <= k - 1)
      BY <2>3
    <3> HIDE DEF Fails
    <3> QED
      BY <2>2, <3>1
  <2>5. PICK f : Obeys(f, k - 1)
    BY <2>4
  <2> DEFINE g == [i \in 1 .. k |-> IF i = k THEN Rule(f, k) ELSE f[i]]
  <2>6. \A i \in 1 .. k : g[i] = Rule(g, i)
    <3> TAKE i \in 1 .. k
    <3>1. i \in Nat /\ \A j \in 1 .. i - 1 : f[j] = g[j]
      BY <2>3
    <3>2. Rule(f, i) = Rule(g, i)
      <4> HIDE DEF g
      <4> QED
        BY <1>1, <3>1
    <3>3. g[i] = Rule(f, i)
      <4>1. CASE i = k
        BY <4>1
      <4>2. CASE i # k
        <5>1. i \in 1 .. k - 1 /\ g[i] = f[i]
          BY <2>3, <4>2
        <5> QED
          BY <2>5, <5>1
      <4> QED
        BY <4>1, <4>2
    <3> HIDE DEF g
    <3> QED
      BY <3>2, <3>3
  <2>7. Obeys(g, k)
    <3> HIDE DEF g
    <3> QED
      BY <2>6
  <2> HIDE DEF g
  <2> QED
    BY <2>2, <2>7
<1>3. PICK f : Obeys(f, n)
  <2>1. n \in 0 .. n
    OBVIOUS
  <2> HIDE DEF Obeys
  <2> QED
    BY <1>2, <2>1
<1> DEFINE h == [i \in 1 .. n |-> f[i]]
<1>4. \A i \in 1 .. n : h[i] = Rule(h, i)
  <2> TAKE i \in 1 .. n
  <2>1. i \in Nat /\ \A j \in 1 .. i - 1 : f[j] = h[j]
    OBVIOUS
  <2>2. h[i] = f[i]
    OBVIOUS
  <2> HIDE DEF h
  <2> QED
    BY <1>1, <1>3, <2>1, <2>2
<1>5. h = [i \in 1 .. n |-> Rule(h, i)]
  BY <1>4
<1> HIDE DEF h
<1> DEFINE claim == CHOOSE c : c = [i \in 1 .. n |-> Rule(c, i)]
<1>6. claim = [i \in 1 .. n |-> Rule(claim, i)]
  BY <1>5
<1>7. Claims(sent, outbox) = claim
  BY DEF Claims, Rule
<1> HIDE DEF claim
<1>8. \A i \in 1 .. n : claim[i] = Rule(claim, i)
  BY <1>6
<1> QED
  BY <1>7, <1>8 DEF Rule, FirstFree

-----------------------------------------------------------------------------
(* The types of the delivery, with every mark of a send at zero: what the   *)
(* reconciliation does when no two messages have the same words.           *)

Distinct == "twins" \in DOMAIN budget /\ budget.twins = FALSE

LineType  == [m: Msgs, at: Nat \ {0}]
EntryType == [m: Msgs, undelivered: BOOLEAN, since: Nat, seen: {0}]
RowType   == [m: Msgs, at: Nat, live: BOOLEAN, state: {"sending", "sent", "undelivered"}]
TabType   == [queue: Seq(Msgs), outbox: Seq(EntryType), rows: Seq(RowType), ready: BOOLEAN]

\* No message stands twice in a sequence of records, or of messages.
OneEach(seq) == \A i, j \in DOMAIN seq : seq[i].m = seq[j].m => i = j
NoRepeat(seq) == \A i, j \in DOMAIN seq : seq[i] = seq[j] => i = j

\* A sequence has finitely many places.
LEMMA PlacesFinite ==
  ASSUME NEW T, NEW s \in Seq(T)
  PROVE  IsFiniteSet(DOMAIN s)
<1>1. Len(s) \in Nat /\ DOMAIN s = 1 .. Len(s)
  BY LenProperties
<1>2. IsFiniteSet(1 .. Len(s))
  BY <1>1, FS_Interval
<1> QED
  BY <1>1, <1>2

\* What is kept, element by element.
LEMMA KeptElements ==
  ASSUME NEW T, NEW s \in Seq(T), NEW I \in SUBSET DOMAIN s
  PROVE  LET kept == Filtered(s, I)
         IN  /\ kept \in Seq(T)
             /\ \A k \in DOMAIN kept : \E i \in I : kept[k] = s[i]
             /\ \A i \in I : \E k \in DOMAIN kept : kept[k] = s[i]
             /\ OneEach(s) => OneEach(kept)
             /\ \A m : Has(kept, m) <=> \E i \in I : s[i].m = m
<1> DEFINE kept == Filtered(s, I)
           n == Cardinality(I)
<1>1. kept \in Seq(T) /\ DOMAIN kept = 1 .. n
  BY FilteredFacts
<1>2. PICK from \in [1 .. n -> I] :
        /\ \A k \in 1 .. n : kept[k] = s[from[k]]
        /\ \A k, l \in 1 .. n : from[k] = from[l] => k = l
        /\ \A i \in I : \E k \in 1 .. n : from[k] = i
  BY FilteredFacts
<1> HIDE DEF kept, n
<1>3. \A k \in 1 .. n : from[k] \in I /\ from[k] \in DOMAIN s
  BY <1>2
<1>4. \A k \in DOMAIN kept : \E i \in I : kept[k] = s[i]
  BY <1>1, <1>2, <1>3
<1>5. \A i \in I : \E k \in DOMAIN kept : kept[k] = s[i]
  BY <1>1, <1>2
<1>6. OneEach(s) => OneEach(kept)
  BY <1>1, <1>2, <1>3 DEF OneEach
<1>7. \A m : Has(kept, m) <=> \E i \in I : s[i].m = m
  BY <1>4, <1>5 DEF Has
<1> QED
  BY <1>1, <1>4, <1>5, <1>6, <1>7 DEF kept

\* dropFromOutbox: every entry but that of the message.
LEMMA DropFacts ==
  ASSUME NEW s \in Seq(EntryType), NEW m
  PROVE  /\ dropFromOutbox(s, m) \in Seq(EntryType)
         /\ \A k \in DOMAIN dropFromOutbox(s, m) : \E i \in DOMAIN s :
              dropFromOutbox(s, m)[k] = s[i] /\ s[i].m # m
         /\ OneEach(s) => OneEach(dropFromOutbox(s, m))
         /\ \A w : Has(dropFromOutbox(s, m), w) <=> Has(s, w) /\ w # m
<1> DEFINE I == {i \in DOMAIN s : s[i].m # m}
           kept == Filtered(s, I)
<1>1. I \in SUBSET DOMAIN s
  OBVIOUS
<1>2. /\ kept \in Seq(EntryType)
      /\ \A k \in DOMAIN kept : \E i \in I : kept[k] = s[i]
      /\ OneEach(s) => OneEach(kept)
      /\ \A w : Has(kept, w) <=> \E i \in I : s[i].m = w
  <2> HIDE DEF I
  <2> QED
    BY <1>1, KeptElements
<1>3. dropFromOutbox(s, m) = kept
  BY DEF dropFromOutbox
<1> HIDE DEF kept
<1>4. \A w : Has(kept, w) <=> Has(s, w) /\ w # m
  BY <1>2 DEF Has
<1> QED
  BY <1>2, <1>3, <1>4

\* With words of its own, an entry is missing exactly when no line of its message came
\* after its mark: no other entry claims such a line.
LEMMA MissingFacts ==
  ASSUME Distinct, NEW sent \in Seq(RowType), NEW o \in Seq(EntryType), OneEach(o)
  PROVE  \A i \in DOMAIN o :
           Claims(sent, o)[i] = 0 <=>
             ~ \E k \in DOMAIN sent :
                 sent[k].m = o[i].m /\ (o[i].since = 0 \/ sent[k].at > o[i].since)
<1> DEFINE n == Len(o)
           claim == Claims(sent, o)
           Same(i) == {k \in DOMAIN sent :
                         sent[k].m = o[i].m /\ (o[i].since = 0 \/ sent[k].at > o[i].since)}
           Taken(i) == {claim[j] : j \in 1 .. i - 1}
<1>1. n \in Nat /\ DOMAIN o = 1 .. n /\ \A i \in DOMAIN o : o[i] \in EntryType
  BY LenProperties, ElementOfSeq
<1>2. Len(sent) \in Nat /\ DOMAIN sent = 1 .. Len(sent)
  BY LenProperties
<1>3. \A i \in 1 .. n : Proofs(sent, o[i]) = Same(i)
  <2> TAKE i \in 1 .. n
  <2>1. o[i].seen = 0
    BY <1>1 DEF EntryType
  <2>2. \A k \in DOMAIN sent : Cardinality({j \in Same(i) : j < k}) >= 0
    <3> TAKE k \in DOMAIN sent
    <3>1. IsFiniteSet(DOMAIN sent) /\ {j \in Same(i) : j < k} \subseteq DOMAIN sent
      BY <1>2, FS_Interval
    <3> HIDE DEF Same
    <3>2. Cardinality({j \in Same(i) : j < k}) \in Nat
      BY <3>1, FS_Subset, FS_CardinalityType
    <3> QED
      BY <3>2
  <2>3. Proofs(sent, o[i]) = {k \in Same(i) : Cardinality({j \in Same(i) : j < k}) >= o[i].seen}
    BY DEF Proofs, Words, Distinct
  <2> HIDE DEF Same
  <2>4. Same(i) \subseteq DOMAIN sent
    BY DEF Same
  <2> QED
    BY <2>1, <2>2, <2>3, <2>4
<1>4. \A i \in 1 .. n :
        claim[i] = IF Same(i) \ Taken(i) = {} THEN 0 ELSE Min(Same(i) \ Taken(i))
  <2>0. \A i \in 1 .. n : claim[i] = FirstFree(sent, o[i], claim, i)
    <3> HIDE DEF Same, n
    <3> QED
      BY <1>1, ClaimsRule
  <2> TAKE i \in 1 .. n
  <2>1. claim[i] = IF Proofs(sent, o[i]) \ Taken(i) = {} THEN 0
                   ELSE Min(Proofs(sent, o[i]) \ Taken(i))
    BY <2>0 DEF FirstFree
  <2> HIDE DEF claim, Taken, Same
  <2> QED
    BY <1>3, <2>1
<1>5. \A i \in 1 .. n : Same(i) \in SUBSET (Nat \ {0})
  BY <1>2
<1> HIDE DEF claim
<1>6. \A i \in 1 .. n : claim[i] \in Same(i) \cup {0}
  <2> TAKE i \in 1 .. n
  <2> DEFINE F == Same(i) \ Taken(i)
  <2>1. F \in SUBSET Nat /\ F \subseteq Same(i)
    BY <1>5
  <2>2. claim[i] = IF F = {} THEN 0 ELSE Min(F)
    BY <1>4
  <2> HIDE DEF F
  <2>3. F # {} => Min(F) \in F
    BY <2>1, Least
  <2> HIDE DEF Same
  <2> QED
    BY <2>1, <2>2, <2>3
<1>7. \A i, j \in 1 .. n : i # j => Same(i) \cap Same(j) = {}
  BY <1>1 DEF OneEach
<1>8. ASSUME NEW i \in 1 .. n PROVE claim[i] = 0 <=> Same(i) = {}
  <2>1. Same(i) \cap Taken(i) = {}
    <3> SUFFICES ASSUME NEW j \in 1 .. i - 1 PROVE claim[j] \notin Same(i)
      OBVIOUS
    <3>1. j \in 1 .. n /\ j # i /\ 0 \notin Same(i)
      BY <1>1, <1>5
    <3> HIDE DEF Same, Taken
    <3> QED
      BY <1>6, <1>7, <3>1
  <2>2. 0 \notin Same(i)
    BY <1>5
  <2>3. Same(i) \ Taken(i) = Same(i) /\ (Same(i) # {} => Min(Same(i)) \in Same(i))
    <3>1. Same(i) \in SUBSET Nat
      BY <1>5
    <3> HIDE DEF Same, Taken
    <3> QED
      BY <2>1, <3>1, Least
  <2> HIDE DEF Same, Taken
  <2> QED
    BY <1>4, <2>2, <2>3
<1>9. \A i \in 1 .. n : Same(i) = {} <=>
        ~ \E k \in DOMAIN sent :
            sent[k].m = o[i].m /\ (o[i].since = 0 \/ sent[k].at > o[i].since)
  OBVIOUS
<1> HIDE DEF Same
<1> QED
  BY <1>1, <1>8, <1>9 DEF claim

\* A line of m that came after every mark the outbox holds for m.
ProvenBy(t, lines, m) ==
  \E i \in DOMAIN lines :
    /\ lines[i].m = m
    /\ \A j \in DOMAIN t.outbox : t.outbox[j].m = m => lines[i].at > t.outbox[j].since

\* A tab in which nothing is kept twice, and no send it waits for shows as confirmed.
TabGood(t) ==
  /\ NoRepeat(t.queue) /\ OneEach(t.outbox)
  /\ \A i \in DOMAIN t.outbox : t.outbox[i].m \notin Range(t.queue)
  /\ \A i \in DOMAIN t.rows : t.rows[i].state = "sent" /\ t.rows[i].at = 0 =>
       t.rows[i].m \notin Range(t.queue) /\ ~Has(t.outbox, t.rows[i].m)

\* The messages a tab keeps or shows.
Shows(t, m) == m \in Range(t.queue) \/ Has(t.outbox, m) \/ Has(t.rows, m)

\* The verdicts at the ready of a connection: what was kept is queued, still kept, or a
\* line of the replay; a message that is proven is in neither.
LEMMA ReconciledFacts ==
  ASSUME Distinct, NEW t \in TabType, TabGood(t), NEW lines \in Seq(LineType)
  PROVE  LET r == Reconciled(t, lines)
         IN  /\ r \in TabType /\ TabGood(r) /\ r.ready
             /\ \A m : /\ m \in Range(t.queue) => m \in Range(r.queue)
                       /\ Has(t.outbox, m) => m \in Range(r.queue) \/ Has(r.outbox, m)
                                              \/ Has(lines, m)
                       /\ Shows(r, m) => Shows(t, m) \/ Has(lines, m)
                       /\ ProvenBy(t, lines, m) /\ m \notin Range(t.queue)
                            => m \notin Range(r.queue) /\ ~Has(r.outbox, m)
<1> DEFINE rows   == [i \in DOMAIN lines |-> Line(lines[i])]
           o      == t.outbox
           lost   == reconcileOutbox(rows, o)
           A      == {i \in DOMAIN lost : ~lost[i].undelivered}
           B      == {i \in DOMAIN lost : lost[i].undelivered}
           queued == Filtered(lost, A)
           kept   == Filtered(lost, B)
           front  == [i \in DOMAIN queued |-> queued[i].m]
           marked == [i \in DOMAIN kept |-> Row(kept[i].m, "undelivered")]
           r      == [queue |-> front \o t.queue, outbox |-> kept,
                      rows |-> rows \o marked, ready |-> TRUE]
<1>1. Reconciled(t, lines) = r
  BY DEF Reconciled
<1>2. /\ o \in Seq(EntryType) /\ t.queue \in Seq(Msgs) /\ OneEach(o) /\ NoRepeat(t.queue)
      /\ Len(o) \in Nat /\ DOMAIN o = 1 .. Len(o) /\ \A i \in DOMAIN o : o[i] \in EntryType
      /\ \A i \in DOMAIN o : o[i].m \notin Range(t.queue)
  BY LenProperties, ElementOfSeq DEF TabType, TabGood
<1>3. Len(lines) \in Nat /\ DOMAIN lines = 1 .. Len(lines) /\ \A i \in DOMAIN lines : lines[i] \in LineType
  BY LenProperties, ElementOfSeq
<1>4. /\ rows \in Seq(RowType) /\ DOMAIN rows = DOMAIN lines
      /\ \A i \in DOMAIN lines : rows[i].m = lines[i].m /\ rows[i].at = lines[i].at
                                 /\ rows[i].at # 0
  <2>1. \A i \in DOMAIN lines : /\ rows[i] \in RowType /\ rows[i].m = lines[i].m
                                /\ rows[i].at = lines[i].at /\ rows[i].at # 0
    BY <1>3 DEF Line, LineType, RowType
  <2> QED
    BY <1>3, <2>1
<1> HIDE DEF rows, o
<1> DEFINE I == {i \in DOMAIN o : Claims(rows, o)[i] = 0}
           Late(i) == \E k \in DOMAIN rows :
                        rows[k].m = o[i].m /\ (o[i].since = 0 \/ rows[k].at > o[i].since)
<1>5. \A i \in DOMAIN o : Claims(rows, o)[i] = 0 <=> ~Late(i)
  <2> HIDE DEF Late
  <2>1. \A i \in DOMAIN o : Claims(rows, o)[i] = 0 <=> ~Late(i)
    BY <1>2, <1>4, MissingFacts DEF Late
  <2> QED
    BY <2>1
<1>6. I \in SUBSET DOMAIN o
  OBVIOUS
<1>7. lost = Filtered(o, I)
  BY DEF reconcileOutbox
<1> HIDE DEF I, Late, lost
<1>8. /\ lost \in Seq(EntryType) /\ OneEach(lost)
      /\ \A k \in DOMAIN lost : \E i \in I : lost[k] = o[i]
      /\ \A i \in I : \E k \in DOMAIN lost : lost[k] = o[i]
  BY <1>2, <1>6, <1>7, KeptElements
<1>9. /\ A \in SUBSET DOMAIN lost /\ B \in SUBSET DOMAIN lost
      /\ \A i \in A : i \in DOMAIN lost /\ i \notin B
      /\ \A i \in B : i \in DOMAIN lost
      /\ \A i \in DOMAIN lost : i \in A \/ i \in B
  OBVIOUS
<1> HIDE DEF A, B
<1>10. /\ queued \in Seq(EntryType) /\ OneEach(queued)
       /\ \A k \in DOMAIN queued : \E i \in A : queued[k] = lost[i]
       /\ \A i \in A : \E k \in DOMAIN queued : queued[k] = lost[i]
  BY <1>8, <1>9, KeptElements
<1>11. /\ kept \in Seq(EntryType) /\ OneEach(kept)
       /\ \A k \in DOMAIN kept : \E i \in B : kept[k] = lost[i]
       /\ \A i \in B : \E k \in DOMAIN kept : kept[k] = lost[i]
  BY <1>8, <1>9, KeptElements
<1> HIDE DEF queued, kept
<1>12. \A i \in DOMAIN queued, k \in DOMAIN kept : queued[i].m # kept[k].m
  <2> SUFFICES ASSUME NEW i \in DOMAIN queued, NEW k \in DOMAIN kept, queued[i].m = kept[k].m
               PROVE  FALSE
    OBVIOUS
  <2>1. PICK a \in A : queued[i] = lost[a]
    BY <1>10
  <2>2. PICK b \in B : kept[k] = lost[b]
    BY <1>11
  <2>3. a \in DOMAIN lost /\ b \in DOMAIN lost /\ lost[a].m = lost[b].m /\ a # b
    BY <1>9, <2>1, <2>2
  <2> QED
    BY <1>8, <2>3 DEF OneEach
<1> DEFINE Missing(m) == \E i \in I : o[i].m = m
<1>13. \A m : Missing(m) <=> (\E i \in DOMAIN queued : queued[i].m = m) \/ Has(kept, m)
  <2> TAKE m
  <2>1. ASSUME NEW i \in I, o[i].m = m
        PROVE  (\E k \in DOMAIN queued : queued[k].m = m) \/ Has(kept, m)
    <3>1. PICK j \in DOMAIN lost : lost[j] = o[i]
      BY <1>8
    <3> QED
      BY <1>9, <1>10, <1>11, <2>1, <3>1 DEF Has
  <2>2. \A k \in DOMAIN queued : \E i \in I : queued[k] = o[i]
    <3> TAKE k \in DOMAIN queued
    <3>1. \E a \in DOMAIN lost : queued[k] = lost[a]
      BY <1>9, <1>10
    <3> QED
      BY <1>8, <3>1
  <2>3. \A k \in DOMAIN kept : \E i \in I : kept[k] = o[i]
    <3> TAKE k \in DOMAIN kept
    <3>1. \E a \in DOMAIN lost : kept[k] = lost[a]
      BY <1>9, <1>11
    <3> QED
      BY <1>8, <3>1
  <2> QED
    BY <2>1, <2>2, <2>3 DEF Has
<1>14. /\ front \in Seq(Msgs) /\ NoRepeat(front) /\ DOMAIN front = DOMAIN queued
       /\ \A i \in DOMAIN front : front[i] = queued[i].m
       /\ marked \in Seq(RowType) /\ DOMAIN marked = DOMAIN kept
       /\ \A i \in DOMAIN kept : marked[i].m = kept[i].m /\ marked[i].state = "undelivered"
  <2>1. Len(queued) \in Nat /\ DOMAIN queued = 1 .. Len(queued) /\ \A i \in DOMAIN queued : queued[i] \in EntryType
    BY <1>10, LenProperties, ElementOfSeq
  <2>2. Len(kept) \in Nat /\ DOMAIN kept = 1 .. Len(kept) /\ \A i \in DOMAIN kept : kept[i] \in EntryType
    BY <1>11, LenProperties, ElementOfSeq
  <2>3. \A i \in DOMAIN queued : queued[i].m \in Msgs
    BY <2>1 DEF EntryType
  <2>4. \A i \in DOMAIN kept : Row(kept[i].m, "undelivered") \in RowType
    BY <2>2 DEF EntryType, Row, RowType
  <2>5. front \in Seq(Msgs) /\ marked \in Seq(RowType)
    BY <2>1, <2>2, <2>3, <2>4
  <2> QED
    BY <1>10, <2>5 DEF OneEach, NoRepeat, Row
<1> HIDE DEF front, marked
<1> DEFINE q == front \o t.queue
           s == rows \o marked
<1>15. /\ q \in Seq(Msgs) /\ Len(front) \in Nat /\ Len(t.queue) \in Nat
       /\ DOMAIN q = 1 .. Len(front) + Len(t.queue)
       /\ DOMAIN front = 1 .. Len(front) /\ DOMAIN t.queue = 1 .. Len(t.queue)
       /\ \A i \in DOMAIN q : q[i] = IF i <= Len(front) THEN front[i] ELSE t.queue[i - Len(front)]
  BY <1>2, <1>14, ConcatProperties, LenProperties
<1>16. /\ s \in Seq(RowType) /\ Len(rows) \in Nat /\ Len(marked) \in Nat
       /\ DOMAIN s = 1 .. Len(rows) + Len(marked)
       /\ DOMAIN rows = 1 .. Len(rows) /\ DOMAIN marked = 1 .. Len(marked)
       /\ \A i \in DOMAIN s : s[i] = IF i <= Len(rows) THEN rows[i] ELSE marked[i - Len(rows)]
  BY <1>4, <1>14, ConcatProperties, LenProperties
<1> HIDE DEF q, s
<1>17. \A i \in DOMAIN q : \/ i \in DOMAIN front /\ q[i] = front[i]
                           \/ i - Len(front) \in DOMAIN t.queue /\ q[i] = t.queue[i - Len(front)]
                              /\ ~ (i <= Len(front))
  BY <1>15
<1>18. \A m : m \in Range(q) <=> (\E i \in DOMAIN queued : queued[i].m = m) \/ m \in Range(t.queue)
  <2> TAKE m
  <2>1. \A i \in DOMAIN front : i \in DOMAIN q /\ q[i] = front[i]
    BY <1>15
  <2>2. \A i \in DOMAIN t.queue : i + Len(front) \in DOMAIN q /\ q[i + Len(front)] = t.queue[i]
    BY <1>15
  <2>3. m \in Range(q) <=> m \in Range(front) \/ m \in Range(t.queue)
    <3>1. ASSUME m \in Range(q) PROVE m \in Range(front) \/ m \in Range(t.queue)
      BY <1>17, <3>1 DEF Range
    <3>2. ASSUME m \in Range(front) \/ m \in Range(t.queue) PROVE m \in Range(q)
      BY <2>1, <2>2, <3>2 DEF Range
    <3> QED
      BY <3>1, <3>2
  <2>4. m \in Range(front) <=> \E i \in DOMAIN queued : queued[i].m = m
    BY <1>14 DEF Range
  <2> QED
    BY <2>3, <2>4
<1>19. \A i \in DOMAIN s : \/ i \in DOMAIN rows /\ s[i] = rows[i]
                           \/ i - Len(rows) \in DOMAIN marked /\ s[i] = marked[i - Len(rows)]
  BY <1>16
<1>20. \A m : Has(s, m) => Has(lines, m) \/ Has(kept, m)
  <2> SUFFICES ASSUME NEW i \in DOMAIN s PROVE Has(lines, s[i].m) \/ Has(kept, s[i].m)
    BY DEF Has
  <2>1. CASE i \in DOMAIN rows /\ s[i] = rows[i]
    <3>1. i \in DOMAIN lines /\ s[i].m = lines[i].m
      BY <1>4, <2>1
    <3> QED
      BY <3>1 DEF Has
  <2>2. CASE i - Len(rows) \in DOMAIN marked /\ s[i] = marked[i - Len(rows)]
    <3>1. i - Len(rows) \in DOMAIN kept /\ s[i].m = kept[i - Len(rows)].m
      BY <1>14, <2>2
    <3> QED
      BY <3>1 DEF Has
  <2> QED
    BY <1>19, <2>1, <2>2
<1>21. \A i \in DOMAIN front : front[i] \notin Range(t.queue)
  <2>1. \A k \in DOMAIN queued : \E i \in DOMAIN o : queued[k] = o[i]
    BY <1>6, <1>8, <1>9, <1>10
  <2> QED
    BY <1>2, <1>14, <2>1
<1>22. NoRepeat(q)
  <2> SUFFICES ASSUME NEW i \in DOMAIN q, NEW j \in DOMAIN q, q[i] = q[j] PROVE i = j
    BY DEF NoRepeat
  <2>1. CASE i <= Len(front) /\ j <= Len(front)
    BY <1>14, <1>17, <2>1 DEF NoRepeat
  <2>2. CASE ~(i <= Len(front)) /\ ~(j <= Len(front))
    <3>1. /\ i - Len(front) \in DOMAIN t.queue /\ j - Len(front) \in DOMAIN t.queue
          /\ t.queue[i - Len(front)] = t.queue[j - Len(front)]
      BY <1>15, <2>2
    <3>2. i - Len(front) = j - Len(front)
      BY <1>2, <3>1 DEF NoRepeat
    <3> QED
      BY <1>15, <3>2
  <2>3. CASE i <= Len(front) /\ ~(j <= Len(front))
    <3>1. i \in DOMAIN front /\ q[i] = front[i]
          /\ j - Len(front) \in DOMAIN t.queue /\ q[j] = t.queue[j - Len(front)]
      BY <1>15, <2>3
    <3> QED
      BY <1>21, <3>1 DEF Range
  <2>4. CASE ~(i <= Len(front)) /\ j <= Len(front)
    <3>1. j \in DOMAIN front /\ q[j] = front[j]
          /\ i - Len(front) \in DOMAIN t.queue /\ q[i] = t.queue[i - Len(front)]
      BY <1>15, <2>4
    <3> QED
      BY <1>21, <3>1 DEF Range
  <2> QED
    BY <2>1, <2>2, <2>3, <2>4
<1>23. \A i \in DOMAIN kept : kept[i].m \notin Range(q)
  <2>1. \A k \in DOMAIN kept : \E i \in DOMAIN o : kept[k] = o[i]
    BY <1>6, <1>8, <1>9, <1>11
  <2> QED
    BY <1>2, <1>12, <1>18, <2>1
<1>24. \A i \in DOMAIN s : ~(s[i].state = "sent" /\ s[i].at = 0)
  BY <1>4, <1>14, <1>19
<1>25. /\ r.queue = q /\ r.outbox = kept /\ r.rows = s /\ r.ready
       /\ r \in TabType
  BY <1>11, <1>15, <1>16 DEF q, s, TabType
<1> HIDE DEF r
<1>26. TabGood(r)
  BY <1>11, <1>22, <1>23, <1>24, <1>25 DEF TabGood
<1>27. \A m : Missing(m) => Has(o, m)
  BY <1>6 DEF Has
<1>28. \A m : Has(o, m) => Missing(m) \/ Has(lines, m)
  <2> SUFFICES ASSUME NEW i \in DOMAIN o, i \notin I PROVE Has(lines, o[i].m)
    BY DEF Has
  <2>1. Late(i)
    BY <1>5 DEF I
  <2> QED
    BY <1>4, <2>1 DEF Late, Has
<1>29. \A m : ProvenBy(t, lines, m) => ~Missing(m)
  <2> SUFFICES ASSUME NEW m, ProvenBy(t, lines, m), NEW i \in I, o[i].m = m PROVE FALSE
    OBVIOUS
  <2>1. ~Late(i)
    BY <1>5, <1>6 DEF I
  <2> QED
    BY <1>4, <1>6, <2>1 DEF Late, ProvenBy, o
<1> HIDE DEF Missing
<1>30. \A m : /\ m \in Range(t.queue) => m \in Range(r.queue)
              /\ Has(o, m) => m \in Range(r.queue) \/ Has(r.outbox, m) \/ Has(lines, m)
              /\ Shows(r, m) => m \in Range(t.queue) \/ Has(o, m) \/ Has(lines, m)
              /\ ProvenBy(t, lines, m) /\ m \notin Range(t.queue)
                   => m \notin Range(r.queue) /\ ~Has(r.outbox, m)
  BY <1>13, <1>18, <1>20, <1>25, <1>27, <1>28, <1>29 DEF Shows
<1> QED
  BY <1>1, <1>25, <1>26, <1>30 DEF Shows, o

-----------------------------------------------------------------------------
(* Sequences that grow at the end and shrink at the front.                 *)

\* A sequence with one more element at its end.
LEMMA Grown ==
  ASSUME NEW T, NEW s \in Seq(T), NEW e \in T
  PROVE  LET q == Append(s, e)
         IN  /\ q \in Seq(T) /\ Range(q) = Range(s) \cup {e}
             /\ \A i \in DOMAIN q : \/ i \in DOMAIN s /\ q[i] = s[i]
                                    \/ i \notin DOMAIN s /\ q[i] = e
             /\ \A i \in DOMAIN s : i \in DOMAIN q /\ q[i] = s[i]
             /\ \E i \in DOMAIN q : q[i] = e
             /\ \A m : Has(q, m) <=> Has(s, m) \/ e.m = m
             /\ OneEach(s) /\ ~Has(s, e.m) => OneEach(q)
             /\ NoRepeat(s) /\ e \notin Range(s) => NoRepeat(q)
<1> DEFINE q == Append(s, e)
           n == Len(s)
<1>1. /\ n \in Nat /\ q \in Seq(T) /\ DOMAIN s = 1 .. n /\ DOMAIN q = 1 .. n + 1
      /\ q[n + 1] = e /\ \A i \in 1 .. n : q[i] = s[i]
  BY AppendProperties, LenProperties
<1> HIDE DEF q, n
<1>2. \A i \in DOMAIN q : \/ i \in DOMAIN s /\ q[i] = s[i]
                          \/ i \notin DOMAIN s /\ i = n + 1 /\ q[i] = e
  BY <1>1
<1>3. \A i \in DOMAIN s : i \in DOMAIN q /\ q[i] = s[i]
  BY <1>1
<1>4. n + 1 \in DOMAIN q /\ q[n + 1] = e
  BY <1>1
<1>5. Range(q) = Range(s) \cup {e}
  BY <1>2, <1>3, <1>4 DEF Range
<1>6. \A m : Has(q, m) <=> Has(s, m) \/ e.m = m
  BY <1>2, <1>3, <1>4 DEF Has
<1>7. OneEach(s) /\ ~Has(s, e.m) => OneEach(q)
  BY <1>2 DEF OneEach, Has
<1>8. NoRepeat(s) /\ e \notin Range(s) => NoRepeat(q)
  BY <1>2 DEF NoRepeat, Range
<1> QED
  BY <1>1, <1>2, <1>3, <1>4, <1>5, <1>6, <1>7, <1>8 DEF q

\* A sequence without its first element.
LEMMA Shrunk ==
  ASSUME NEW T, NEW s \in Seq(T), s # <<>>
  PROVE  LET q == Tail(s)
         IN  /\ q \in Seq(T) /\ Head(s) \in T /\ Head(s) \in Range(s)
             /\ Range(s) = Range(q) \cup {Head(s)}
             /\ \A i \in DOMAIN q : i + 1 \in DOMAIN s /\ i + 1 # 1 /\ q[i] = s[i + 1]
             /\ 1 \in DOMAIN s /\ Head(s) = s[1]
             /\ \A m : Has(s, m) <=> Has(q, m) \/ Head(s).m = m
             /\ NoRepeat(s) => NoRepeat(q) /\ Head(s) \notin Range(q)
<1> DEFINE q == Tail(s)
           n == Len(s) - 1
<1>1. /\ n \in Nat /\ q \in Seq(T) /\ DOMAIN q = 1 .. n /\ DOMAIN s = 1 .. n + 1
      /\ Head(s) = s[1] /\ Head(s) \in T /\ \A i \in 1 .. n : q[i] = s[i + 1]
  BY HeadTailProperties, EmptySeq, LenProperties, ElementOfSeq
<1> HIDE DEF q, n
<1>2. \A i \in DOMAIN q : i + 1 \in DOMAIN s /\ i + 1 # 1 /\ q[i] = s[i + 1]
  BY <1>1
<1>3. \A i \in DOMAIN s : i = 1 \/ (i - 1 \in DOMAIN q /\ q[i - 1] = s[i])
  BY <1>1
<1>4. 1 \in DOMAIN s
  BY <1>1
<1>5. Range(s) = Range(q) \cup {Head(s)} /\ Head(s) \in Range(s)
  <2>1. \A x \in Range(s) : x = Head(s) \/ x \in Range(q)
    BY <1>1, <1>3 DEF Range
  <2>2. \A x \in Range(q) : x \in Range(s)
    BY <1>2 DEF Range
  <2>3. Head(s) \in Range(s)
    BY <1>1, <1>4 DEF Range
  <2> QED
    BY <2>1, <2>2, <2>3
<1>6. \A m : Has(s, m) <=> Has(q, m) \/ Head(s).m = m
  <2> TAKE m
  <2>1. ASSUME Has(s, m) PROVE Has(q, m) \/ Head(s).m = m
    BY <1>1, <1>3, <2>1 DEF Has
  <2>2. ASSUME Has(q, m) PROVE Has(s, m)
    BY <1>2, <2>2 DEF Has
  <2>3. ASSUME Head(s).m = m PROVE Has(s, m)
    BY <1>1, <1>4, <2>3 DEF Has
  <2> QED
    BY <2>1, <2>2, <2>3
<1>7. ASSUME NoRepeat(s) PROVE NoRepeat(q) /\ Head(s) \notin Range(q)
  <2>1. ASSUME NEW i \in DOMAIN q, NEW j \in DOMAIN q, q[i] = q[j] PROVE i = j
    <3>1. s[i + 1] = s[j + 1] /\ i + 1 \in DOMAIN s /\ j + 1 \in DOMAIN s
      BY <1>2, <2>1
    <3>2. i + 1 = j + 1
      BY <1>7, <3>1 DEF NoRepeat
    <3> QED
      BY <1>1, <3>2
  <2>2. ASSUME NEW i \in DOMAIN q, q[i] = s[1] PROVE FALSE
    BY <1>2, <1>4, <1>7, <2>2 DEF NoRepeat
  <2> QED
    BY <1>1, <2>1, <2>2 DEF NoRepeat, Range
<1> QED
  BY <1>1, <1>2, <1>4, <1>5, <1>6, <1>7 DEF q

\* sendMark: the newest time on the screen, and no confirmed send of the same words
\* after it when no row of the message is one.
LEMMA EntryGood ==
  ASSUME Distinct, NEW rows \in Seq(RowType), NEW m \in Msgs,
         \A i \in DOMAIN rows : ~(rows[i].m = m /\ rows[i].state = "sent" /\ rows[i].at = 0)
  PROVE  Entry(rows, m) \in EntryType /\ Entry(rows, m).m = m
<1> DEFINE I      == {i \in DOMAIN rows : rows[i].state = "sent"}
           known  == Filtered(rows, I)
           timed  == {i \in DOMAIN known : known[i].at > 0}
           times  == {0} \cup {known[i].at : i \in timed}
           since  == Max(times)
           anchor == Max({0} \cup {i \in timed : known[i].at = since})
           seen   == {i \in DOMAIN known :
                        i > anchor /\ known[i].at = 0 /\ Words(known[i].m) = Words(m)}
<1>1. I \in SUBSET DOMAIN rows /\ \A i \in I : rows[i].state = "sent" /\ i \in DOMAIN rows
  OBVIOUS
<1> HIDE DEF I
<1>2. known \in Seq(RowType) /\ \A k \in DOMAIN known : \E i \in I : known[k] = rows[i]
  BY <1>1, KeptElements
<1>3. deliveredUserTexts(rows) = known
  BY DEF deliveredUserTexts, I
<1> HIDE DEF known
<1>4. seen = {}
  BY <1>1, <1>2 DEF Words, Distinct
<1>5. IsFiniteSet(DOMAIN known) /\ \A k \in DOMAIN known : known[k].at \in Nat
  <2>1. Len(known) \in Nat /\ DOMAIN known = 1 .. Len(known)
        /\ \A k \in DOMAIN known : known[k] \in RowType
    BY <1>2, LenProperties, ElementOfSeq
  <2>2. IsFiniteSet(DOMAIN known)
    BY <2>1, FS_Interval
  <2> QED
    BY <2>1, <2>2 DEF RowType
<1>6. since \in Nat
  <2> DEFINE f == [i \in timed |-> known[i].at]
             S == {known[i].at : i \in timed}
  <2>1. IsFiniteSet(timed)
    BY <1>5, FS_Subset
  <2>2. f \in Surjection(timed, S)
    BY Fun_IsSurj
  <2>3. IsFiniteSet(S)
    <3> HIDE DEF f, S, timed
    <3> QED
      BY <2>1, <2>2, FS_Surjection
  <2>4. S \in SUBSET Nat
    BY <1>5
  <2> HIDE DEF S
  <2>5. times = S \cup {0}
    BY DEF S
  <2> HIDE DEF times
  <2>6. IsFiniteSet(times) /\ times \in SUBSET Nat /\ times # {}
    BY <2>3, <2>4, <2>5, FS_AddElement
  <2> QED
    BY <2>6, Greatest
<1>7. Entry(rows, m) = [m |-> m, undelivered |-> FALSE, since |-> since, seen |-> Cardinality(seen)]
  BY <1>3 DEF Entry, sendMark
<1> HIDE DEF since, seen
<1> QED
  BY <1>4, <1>6, <1>7, FS_EmptySet DEF EntryType

-----------------------------------------------------------------------------
(* The inductive invariant of the delivery.                                *)

FrameType == [k: {"ready", "line", "ack", "nack"}, m: Msgs \cup {"none"}, at: Nat]
LateType  == [b: Backends, m: Msgs]
WriteType == [b: Backends, m: Msgs, at: Nat \ {0}, again: BOOLEAN]
WireType  == [st: {"down", "setup", "read", "open"}, b: Nat, deaf: BOOLEAN, up: Seq(Msgs),
              dn: Seq(FrameType), snap: Nat, asked: SUBSET Msgs]

Typed ==
  /\ tab \in TabType /\ conn \in WireType /\ late \in Seq(LateType)
  /\ accepted \in [Backends -> SUBSET LineType] /\ writing \in Seq(WriteType)
  /\ history \in Seq(LineType) /\ taken \in [Msgs -> Nat]
  /\ wrote \subseteq Msgs /\ blind \subseteq Msgs

\* Nothing is on its way or on the screen that the person has not written.
Written ==
  /\ \A m : Shows(tab, m) => m \in wrote
  /\ Range(conn.up) \subseteq wrote /\ conn.asked \subseteq wrote
  /\ \A i \in DOMAIN late : late[i].m \in wrote
  /\ \A i \in DOMAIN history : history[i].m \in wrote
  /\ \A i \in DOMAIN writing : writing[i].m \in wrote
  /\ \A m \in Msgs : taken[m] # 0 => m \in wrote

\* A receipt is only given for a line of the history, to a tab that no longer queues it.
FrameGood(f) ==
  /\ f.k # "ready" => f.m \in wrote
  /\ f.k = "line" => f.at # 0
  /\ f.k = "ready" => f.at <= Len(history)
  /\ f.k = "ack" => Has(history, f.m) /\ f.m \notin Range(tab.queue)

\* One ready, the first frame of its socket; what is sent before it is only lines.
WireGood ==
  /\ conn.st \in {"setup", "read"} => ~tab.ready
  /\ ~wireUp => /\ conn.up = <<>> /\ conn.asked = {}
                /\ \A i \in DOMAIN conn.dn : conn.dn[i].k \in {"ready", "line"}
  /\ \A i \in DOMAIN conn.dn :
       /\ FrameGood(conn.dn[i])
       /\ conn.dn[i].k = "ready" => i = 1 /\ ~tab.ready /\ conn.st = "open"
  /\ \A m \in Range(tab.queue) : m \notin Range(conn.up) /\ m \notin conn.asked
  /\ conn.snap <= Len(history)

\* The page of a socket is on a driver that lives, and so do its receipts.
PageGood ==
  /\ page \in Backends => Open(drv[page])
  /\ conn.st = "open" => page = conn.b

Receipts == \A b \in Backends : \A l, k \in accepted[b] : l.m = k.m => l = k

\* A message that was taken, and that the last replay proved, is known to the driver it
\* may still reach.
Settles(m) ==
  \/ Knows(conn.b, m)
  \/ m \notin Range(tab.queue) /\ ~Has(tab.outbox, m) /\ m \notin Range(conn.up)
Once ==
  /\ wireUp => /\ \A i \in DOMAIN late : late[i].m \in blind
               /\ \A m \in Msgs : taken[m] # 0 => m \in blind \/ Settles(m)
  /\ ~wireUp =>
       \A i \in DOMAIN late :
         \/ late[i].m \in blind
         \/ /\ \A j \in DOMAIN late : late[j].m = late[i].m => late[j].b = late[i].b
            /\ taken[late[i].m] # 0 => Knows(late[i].b, late[i].m)

\* The tab keeps its copy until the history has it.
Somewhere ==
  \A m \in wrote : m \in Range(tab.queue) \/ Has(tab.outbox, m) \/ Has(history, m)

Core == Typed /\ Written /\ TabGood(tab) /\ WireGood /\ Receipts /\ Once /\ Somewhere
Delivery == Distinct /\ PageGood /\ Core

-----------------------------------------------------------------------------
(* What no step changes: the kind of words, and that the page has a driver. *)

\* What a budget loses is never the kind of words.
Inputs == {"person", "page", "interrupt", "extra", "apiError", "error", "crash", "pause",
           "deploy", "prepare", "ink", "words", "reload", "slow", "wire", "disk"}

\* So spending one leaves the words of the messages distinct.
LEMMA Spent ==
  ASSUME Distinct, NEW what \in Inputs, Spend(what)
  PROVE  Distinct'
<1>1. budget' = [budget EXCEPT ![what] = budget[what] - 1]
  BY DEF Spend
<1> QED
  BY <1>1 DEF Distinct, Inputs

\* No step decides how alike the words are: messages that differ go on differing.
LEMMA DistinctKept ==
  ASSUME Distinct, [ChatNext]_chatVars
  PROVE  Distinct'
<1>1. ASSUME budget' = budget \/ \E what \in Inputs : Spend(what) PROVE Distinct'
  BY <1>1, Spent DEF Distinct
<1> DEFINE Bounded == budget' = budget \/ \E what \in Inputs : Spend(what)
<1>2. ASSUME NEW b \in Backends, Card(b) PROVE Bounded
  <2>1. CASE AgentTurn(b) \/ Interrupt(b) \/ Crash(b) \/ Pause(b)
    BY <2>1 DEF AgentTurn, Interrupt, Crash, Pause, Inputs
  <2>2. CASE Cli(b)
    BY <2>2 DEF Cli, CliTakes, CliSpeaks, CliSchedules, CliStartsTask, CliTaskEnds,
                CliOpensTurn, CliCloses, CliErrs, Inputs
  <2>3. CASE Manager(b)
    BY <2>3 DEF Manager, Hear, ExitSeen, DriverClosed, WatchFires, RetryFires, IdleFires,
                SettleFires, Inputs
  <2>4. CASE Deploy(b)
    BY <2>4 DEF Deploy, Boot, Sigterm, Exit, Sigkill, BeatStale, Goes, Inputs
  <2>5. CASE MarkerFile(b)
    BY <2>5 DEF MarkerFile, Lands, MarkerFails, Inputs
  <2> QED
    BY <1>2, <2>1, <2>2, <2>3, <2>4, <2>5 DEF Card
<1>3. ASSUME NEW b \in Backends, Page(b) PROVE Bounded
  BY <1>3 DEF Page, Attach, Detach, Inputs
<1>4. ASSUME NEW t \in Tasks, Resume(t) PROVE Bounded
  <2>1. CASE SweepDecides(t) \/ SweepFails(t) \/ CrashLooks(t) \/ ResumeRules(t) \/ RulesFail(t)
    BY <2>1 DEF SweepDecides, SweepFails, CrashLooks, ResumeRules, RulesFail, Inputs
  <2>2. CASE ResumeClears(t) \/ PrepareFails(t) \/ ResumeLooks(t)
    BY <2>2 DEF ResumeClears, PrepareFails, ResumeLooks, Inputs
  <2>3. CASE ResumeInjects(t) \/ ResumeInjectsLate(t) \/ ResumeYields(t)
    BY <2>3 DEF ResumeInjects, ResumeInjectsLate, ResumeYields, Resumed, Inputs
  <2> QED
    BY <1>4, <2>1, <2>2, <2>3 DEF Resume
<1>5. ASSUME TabStep PROVE Bounded
  <2>1. CASE (\E m \in Msgs : Writes(m)) \/ Reload \/ Watchdog \/ WireDies
    BY <2>1 DEF Writes, Reload, Watchdog, WireDies, Inputs
  <2>2. CASE Dispatches \/ Hears \/ DropSeen \/ \E b \in Backends : Connect(b)
    <3>1. budget' = budget
      BY <2>2, Zenon DEF Dispatches, Hears, DropSeen, Connect
    <3> QED
      BY <3>1
  <2> QED
    BY <1>5, <2>1, <2>2 DEF TabStep
<1>6. ASSUME ServerStep PROVE Bounded
  <2>1. CASE WriteFails \/ ServerReads
    BY <2>1 DEF WriteFails, ServerReads, Inputs
  <2>2. CASE ~(WriteFails \/ ServerReads)
    <3>1. budget' = budget
      BY <1>6, <2>2 DEF ServerStep, ServerAttaches, ServerHandles, LateHandled, WriteEnds
    <3> QED
      BY <3>1
  <2> QED
    BY <2>1, <2>2
<1>7. ASSUME UNCHANGED chatVars PROVE Bounded
  <2>1. budget' = budget
    BY <1>7 DEF chatVars, vars
  <2> QED
    BY <2>1
<1> HIDE DEF Bounded
<1>8. Bounded
  <2>1. CASE ChatStep
    BY <1>2, <1>3, <1>4, <2>1 DEF ChatStep
  <2> QED
    BY <1>5, <1>6, <1>7, <2>1 DEF ChatNext
<1> QED
  BY <1>1, <1>8 DEF Bounded

\* The page only moves to a driver that is there, or away.
LEMMA PageMoves ==
  ASSUME [ChatNext]_chatVars
  PROVE  page' = page \/ page' = 0 \/ \E b \in Backends \cup {conn.b} : Attaches(b)
<1> DEFINE Moves == page' = page \/ page' = 0 \/ \E b \in Backends \cup {conn.b} : Attaches(b)
<1>2. ASSUME NEW b \in Backends, Card(b) PROVE Moves
  <2>1. CASE AgentTurn(b) \/ Interrupt(b) \/ Crash(b) \/ Pause(b)
    BY <2>1 DEF AgentTurn, Interrupt, Crash, Pause, Leaves
  <2>2. CASE Cli(b)
    BY <2>2 DEF Cli, CliTakes, CliSpeaks, CliSchedules, CliStartsTask, CliTaskEnds,
                CliOpensTurn, CliCloses, CliErrs, CliKeeps
  <2>3. CASE Manager(b)
    BY <2>3 DEF Manager, Hear, ExitSeen, DriverClosed, WatchFires, RetryFires, IdleFires,
                SettleFires, Leaves
  <2>4. CASE Deploy(b)
    BY <2>4 DEF Deploy, Boot, Sigterm, Exit, Sigkill, BeatStale, Goes, Dies, Leaves
  <2>5. CASE MarkerFile(b)
    BY <2>5 DEF MarkerFile, Lands, MarkerFails, InkKeeps
  <2> QED
    BY <1>2, <2>1, <2>2, <2>3, <2>4, <2>5 DEF Card
<1>3. ASSUME NEW b \in Backends, Page(b) PROVE Moves
  BY <1>3 DEF Page, Attach, Detach, Detaches
<1>4. ASSUME NEW t \in Tasks, Resume(t) PROVE Moves
  <2>1. CASE SweepDecides(t) \/ SweepFails(t) \/ CrashLooks(t) \/ ResumeRules(t) \/ RulesFail(t)
    BY <2>1 DEF SweepDecides, SweepFails, CrashLooks, ResumeRules, RulesFail, LookKeeps, ResumeKeeps
  <2>2. CASE ResumeClears(t) \/ PrepareFails(t) \/ ResumeLooks(t)
    BY <2>2 DEF ResumeClears, PrepareFails, ResumeLooks, LookKeeps, ResumeKeeps
  <2>3. CASE ResumeInjects(t) \/ ResumeInjectsLate(t) \/ ResumeYields(t)
    BY <2>3 DEF ResumeInjects, ResumeInjectsLate, ResumeYields, Resumed, LookKeeps, ResumeKeeps
  <2> QED
    BY <1>4, <2>1, <2>2, <2>3 DEF Resume
<1>5. ASSUME TabStep PROVE Moves
  BY <1>5 DEF TabStep, Writes, Dispatches, Hears, Reload, Watchdog, WireDies, DropSeen, Connect,
              Sends, ChatKeeps, TabCloses, Detaches
<1>6. ASSUME ServerStep PROVE Moves
  BY <1>6 DEF ServerStep, ServerReads, ServerAttaches, ServerHandles, LateHandled, WriteEnds,
              WriteFails, WriteKeeps, ChatKeeps, Takes, Charges, Refuses
<1>7. ASSUME UNCHANGED chatVars PROVE Moves
  BY <1>7 DEF chatVars, vars
<1> HIDE DEF Moves
<1>8. Moves
  <2>1. CASE ChatStep
    BY <1>2, <1>3, <1>4, <2>1 DEF ChatStep
  <2> QED
    BY <1>5, <1>6, <1>7, <2>1 DEF ChatNext
<1> QED
  BY <1>8 DEF Moves

\* An answer is one more frame for the tab, and leaves the rest of its socket alone.
LEMMA AnswerKeeps ==
  ASSUME NEW c \in WireType, NEW k \in {"ack", "nack"}, NEW m \in Msgs
  PROVE  /\ Answer(c, k, m) \in WireType
         /\ \/ Answer(c, k, m) = c
            \/ /\ Answer(c, k, m) = [c EXCEPT !.dn = Append(c.dn, Frame(k, m, 0))]
               /\ Frame(k, m, 0) \in FrameType
<1>1. Frame(k, m, 0) \in FrameType
  BY DEF Frame, FrameType
<1>2. c.dn \in Seq(FrameType)
  BY DEF WireType
<1>3. Append(c.dn, Frame(k, m, 0)) \in Seq(FrameType)
  BY <1>1, <1>2, AppendProperties
<1>4. [c EXCEPT !.dn = Append(c.dn, Frame(k, m, 0))] \in WireType
  BY <1>3 DEF WireType
<1> QED
  BY <1>1, <1>4 DEF Answer

\* Whatever is said on a socket, and asked of it, it stays the same socket.
LEMMA AnswerStays ==
  ASSUME NEW c, NEW k, NEW m, {"st", "b"} \subseteq DOMAIN c
  PROVE  /\ Answer(c, k, m).st = c.st /\ Answer(c, k, m).b = c.b
         /\ {"st", "b"} \subseteq DOMAIN Answer(c, k, m)
BY DEF Answer

\* A driver closes under a page only as the page leaves it.
LEMMA PageHolds ==
  ASSUME IInv, Connection(conn), [ChatNext]_chatVars, page \in Backends, page' = page,
         Open(drv[page])
  PROVE  Open(drv'[page])
<1>1. CASE NoneCloses
  BY <1>1 DEF NoneCloses
<1>2. ASSUME NEW b \in Backends, IdleFires(b), ~NoneCloses PROVE Open(drv'[page])
  <2>1. \A c \in Backends \ {b} : drv'[c] = drv[c]
    BY <1>2, IdleLeaves
  <2>2. ~attached(b)
    <3> SUFFICES ASSUME attached(b) PROVE NoneCloses
      BY <1>2
    <3> DEFINE i == [drv[b] EXCEPT !.idleTimer = FALSE]
    <3>1. CommitOver(b, i, FALSE) /\ Open(drv[b])
      BY <1>2 DEF IdleFires, Commit
    <3>2. GoodSession(i) /\ i.child = drv[b].child
      BY DriverFacts, TimersGood DEF Alike
    <3> HIDE DEF i
    <3> QED
      BY <3>1, <3>2, HandlerKeeps DEF Open
  <2>3. page # b
    BY <2>2 DEF attached
  <2> QED
    BY <2>1, <2>3
<1>3. ASSUME NEW b \in Backends, Pause(b) \/ Sigterm(b) \/ Sigkill(b) \/ DriverClosed(b)
      PROVE  Open(drv'[page])
  <2>1. page # b
    BY <1>3 DEF Pause, Sigterm, Sigkill, Dies, DriverClosed, Leaves, attached, Backends
  <2>2. drv \in [Backends -> SessionType]
    BY DEF IInv, ProcessTyped
  <2>3. \E d : drv' = [drv EXCEPT ![b] = d] \/ drv' = drv
    BY <1>3 DEF Pause, Sigterm, Sigkill, Dies, DriverClosed, Commit, CommitOver
  <2> QED
    BY <2>1, <2>2, <2>3
<1> QED
  BY <1>1, <1>2, <1>3, WhatCloses

\* The driver of the page is there after every step, and the open socket is the page's.
LEMMA PageKept ==
  ASSUME IInv, Connection(conn), conn \in WireType, PageGood, [ChatNext]_chatVars
  PROVE  PageGood'
<1>1. page' \in Backends => Open(drv'[page'])
  <2>1. CASE page' = page
    BY <2>1, PageHolds DEF PageGood
  <2>2. CASE page' = 0
    BY <2>2 DEF Backends
  <2>3. ASSUME NEW b \in Backends \cup {conn.b}, Attaches(b), page' \in Backends
        PROVE  Open(drv'[page'])
    <3>1. page' = b /\ b \in Backends
      BY <2>3 DEF Attaches
    <3>2. drv' = [drv EXCEPT ![b] = IF Open(drv[b]) THEN [drv[b] EXCEPT !.idleTimer = FALSE]
                                    ELSE FreshSession]
      BY <2>3 DEF Attaches
    <3>3. drv \in [Backends -> SessionType]
      BY DEF IInv, ProcessTyped
    <3> QED
      BY <3>1, <3>2, <3>3, FreshGood DEF SessionType, Open
  <2> QED
    BY <2>1, <2>2, <2>3, PageMoves
<1>2. ASSUME conn'.st = "open" PROVE page' = conn'.b
  <2>0. Down.st = "down" /\ \A b : [Down EXCEPT !.st = "setup", !.b = b].st = "setup"
    BY DEF Down
  <2>1. CASE ChatStep
    BY <1>2, <2>0, <2>1 DEF ChatStep, DeliveryReacts
  <2>2. ASSUME page' = page, conn'.st = conn.st \/ conn'.st # "open", conn'.b = conn.b \/ conn'.st # "open"
        PROVE  page' = conn'.b
    BY <1>2, <2>2 DEF PageGood
  <2>3. CASE Reload \/ Watchdog \/ DropSeen \/ \E b \in Backends : Connect(b)
    BY <1>2, <2>0, <2>3 DEF Reload, Watchdog, DropSeen, TabCloses, Connect
  <2>4. CASE (\E m \in Msgs : Writes(m)) \/ Dispatches \/ Hears \/ WireDies
    <3>1. page' = page
      BY <2>4 DEF Writes, Dispatches, Hears, WireDies, Sends, ChatKeeps
    <3>2. conn'.st = conn.st /\ conn'.b = conn.b
      BY <2>4 DEF Writes, Dispatches, Hears, WireDies, Sends, WireType
    <3> QED
      BY <2>2, <3>1, <3>2
  <2>5. CASE ServerReads \/ ServerAttaches
    BY <1>2, <2>5 DEF ServerReads, ServerAttaches, Attaches, WireType
  <2>6. CASE ServerHandles \/ LateHandled \/ WriteEnds \/ WriteFails
    <3>1. page' = page
      BY <2>6 DEF ServerHandles, LateHandled, WriteEnds, WriteFails, WriteKeeps, ChatKeeps,
                  Takes, Charges, Refuses
    <3>2. conn'.st = conn.st /\ conn'.b = conn.b
      <4> DEFINE rest == [conn EXCEPT !.up = Tail(conn.up)]
                 asks == [rest EXCEPT !.asked = rest.asked \cup {Head(conn.up)}]
      <4>0. {"st", "b"} \subseteq DOMAIN conn
        BY DEF WireType
      <4>1. /\ rest.st = conn.st /\ rest.b = conn.b /\ {"st", "b"} \subseteq DOMAIN rest
            /\ asks.st = conn.st /\ asks.b = conn.b
        BY DEF WireType
      <4> HIDE DEF rest
      <4>2. \A k, m : Answer(rest, k, m).st = conn.st /\ Answer(rest, k, m).b = conn.b
        BY <4>1, AnswerStays
      <4>3. \A w, k : Answered(w, k).st = conn.st /\ Answered(w, k).b = conn.b
        <5> TAKE w, k
        <5> DEFINE a == Answer(conn, k, w.m)
        <5>1. a.st = conn.st /\ a.b = conn.b /\ {"st", "b"} \subseteq DOMAIN a
          BY <4>0, AnswerStays
        <5> HIDE DEF a
        <5> QED
          BY <5>1 DEF Answered, a
      <4>4. CASE ServerHandles
        <5>1. \/ conn' = asks
              \/ conn' = Answer(rest, "ack", Head(conn.up))
              \/ conn' = Answer(rest, "nack", Head(conn.up))
          BY <4>4 DEF ServerHandles, rest
        <5> HIDE DEF asks
        <5> QED
          BY <4>1, <4>2, <5>1
      <4>5. CASE LateHandled
        BY <4>0, <4>5 DEF LateHandled
      <4>6. CASE WriteEnds \/ WriteFails
        BY <4>3, <4>6 DEF WriteEnds, WriteFails
      <4> QED
        BY <2>6, <4>4, <4>5, <4>6
    <3> QED
      BY <2>2, <3>1, <3>2
  <2>7. CASE UNCHANGED chatVars
    BY <2>2, <2>7 DEF chatVars, vars, deliveryVars
  <2> QED
    BY <2>1, <2>3, <2>4, <2>5, <2>6, <2>7 DEF ChatNext, TabStep, ServerStep
<1> QED
  BY <1>1, <1>2 DEF PageGood

-----------------------------------------------------------------------------
(* The steps.                                                              *)

\* A tab without a socket has nothing on the wire.
LEMMA DownTyped ==
  /\ Down \in WireType /\ Down.st = "down" /\ Down.up = <<>> /\ Down.dn = <<>>
  /\ Down.asked = {} /\ Down.snap = 0
  /\ DOMAIN Down.dn = {} /\ Range(Down.up) = {}
<1>1. Down.up = <<>> /\ Down.dn = <<>>
  BY DEF Down
<1>2. DOMAIN <<>> = {} /\ Range(<<>>) = {}
  BY DEF Range
<1>3. <<>> \in Seq(Msgs) /\ <<>> \in Seq(FrameType)
  BY EmptySeq
<1> QED
  BY <1>1, <1>2, <1>3 DEF Down, WireType

\* Nothing of the delivery moves.
LEMMA CoreStands ==
  ASSUME Core, UNCHANGED deliveryVars
  PROVE  Core'
<1>1. /\ tab' = tab /\ conn' = conn /\ late' = late /\ accepted' = accepted
      /\ writing' = writing /\ history' = history /\ taken' = taken /\ wrote' = wrote
      /\ blind' = blind
  BY DEF deliveryVars
<1>2. Typed' /\ Written' /\ TabGood(tab)'
  BY <1>1 DEF Core, Typed, Written
<1>3. wireUp' <=> wireUp
  BY <1>1 DEF wireUp
<1>4. WireGood' /\ Receipts' /\ Somewhere'
  BY <1>1, <1>3 DEF Core, WireGood, FrameGood, Receipts, Somewhere
<1>5. \A m : Settles(m)' <=> Settles(m)
  BY <1>1 DEF Settles, Knows
<1>6. Once'
  BY <1>1, <1>3, <1>5 DEF Core, Once, Knows
<1> QED
  BY <1>2, <1>4, <1>6 DEF Core

\* What the life of the card does to its tab: sockets and receipts go together.
LEMMA ReactsStep ==
  ASSUME Core, PageGood', Connection(conn), DeliveryReacts
  PROVE  Core'
<1>0. Typed
  BY DEF Core
<1>1. UNCHANGED <<tab, history, taken, wrote, blind>>
  BY DEF DeliveryReacts
<1>2. conn' = conn \/ conn' = Down
  BY DEF DeliveryReacts
<1>3. accepted' = [b \in Backends |-> IF Open(drv'[b]) THEN accepted[b] ELSE {}]
  BY DEF DeliveryReacts
<1>4. /\ late' \in Seq(LateType)
      /\ \A k \in DOMAIN late' : \E i \in DOMAIN late : late'[k] = late[i] /\ Open(drv'[late[i].b])
  <2> DEFINE I == {i \in DOMAIN late : Open(drv'[late[i].b])}
             kept == Filtered(late, I)
  <2>1. I \in SUBSET DOMAIN late /\ \A i \in I : i \in DOMAIN late /\ Open(drv'[late[i].b])
    OBVIOUS
  <2>2. late' = kept
    BY DEF DeliveryReacts
  <2> HIDE DEF I
  <2>3. kept \in Seq(LateType) /\ \A k \in DOMAIN kept : \E i \in I : kept[k] = late[i]
    BY <1>0, <2>1, KeptElements DEF Typed
  <2> HIDE DEF kept
  <2> QED
    BY <2>1, <2>2, <2>3
<1>5. /\ writing' \in Seq(WriteType)
      /\ \A k \in DOMAIN writing' : \E i \in DOMAIN writing : writing'[k] = writing[i]
  <2> DEFINE I == {i \in DOMAIN writing : bk'[writing[i].b] # "gone"}
             kept == Filtered(writing, I)
  <2>1. I \in SUBSET DOMAIN writing /\ \A i \in I : i \in DOMAIN writing
    OBVIOUS
  <2>2. writing' = kept
    BY DEF DeliveryReacts
  <2> HIDE DEF I
  <2>3. kept \in Seq(WriteType) /\ \A k \in DOMAIN kept : \E i \in I : kept[k] = writing[i]
    BY <1>0, <2>1, KeptElements DEF Typed
  <2> HIDE DEF kept
  <2> QED
    BY <2>1, <2>2, <2>3
<1>6. Typed'
  <2>1. accepted' \in [Backends -> SUBSET LineType]
    BY <1>0, <1>3 DEF Typed
  <2> QED
    BY <1>0, <1>1, <1>2, <1>4, <1>5, <2>1, DownTyped DEF Typed
<1>7. Written'
  <2>1. Range(conn'.up) \subseteq wrote /\ conn'.asked \subseteq wrote
    BY <1>2, DownTyped DEF Core, Written
  <2>2. /\ \A k \in DOMAIN late' : late'[k].m \in wrote
        /\ \A k \in DOMAIN writing' : writing'[k].m \in wrote
    BY <1>4, <1>5 DEF Core, Written
  <2> QED
    BY <1>1, <2>1, <2>2 DEF Core, Written
<1>8. WireGood'
  <2>1. CASE conn' = conn
    <3>1. wireUp' <=> wireUp
      BY <1>1, <2>1 DEF wireUp
    <3> QED
      BY <1>1, <2>1, <3>1 DEF Core, WireGood, FrameGood
  <2>2. CASE conn' = Down
    BY <1>1, <2>2, DownTyped DEF WireGood, Core, Typed
  <2> QED
    BY <1>2, <2>1, <2>2
<1>9. Receipts'
  BY <1>3 DEF Core, Receipts
<1>10. Once'
  <2>1. \A m : \A b \in Backends : Open(drv'[b]) => (Knows(b, m)' <=> Knows(b, m))
    BY <1>3 DEF Knows
  <2>2. ASSUME wireUp' PROVE /\ \A i \in DOMAIN late' : late'[i].m \in blind
                             /\ \A m \in Msgs : taken[m] # 0 => m \in blind \/ Settles(m)'
    <3>1. wireUp /\ conn' = conn
      BY <1>1, <1>2, <2>2, DownTyped DEF wireUp
    <3>2. conn.b \in Backends /\ Open(drv'[conn.b])
      BY <3>1 DEF wireUp, PageGood, Connection
    <3>3. \A m : Settles(m) => Settles(m)'
      BY <1>1, <2>1, <3>1, <3>2 DEF Settles
    <3> QED
      BY <1>4, <3>1, <3>3 DEF Core, Once
  <2>3. ASSUME ~wireUp', NEW k \in DOMAIN late', late'[k].m \notin blind
        PROVE  /\ \A j \in DOMAIN late' : late'[j].m = late'[k].m => late'[j].b = late'[k].b
               /\ taken[late'[k].m] # 0 => Knows(late[k].b, late[k].m)'
    <3>1. PICK i \in DOMAIN late : late'[k] = late[i] /\ Open(drv'[late[i].b])
      BY <1>4
    <3>2. ~wireUp
      BY <2>3, <3>1 DEF Core, Once
    <3>3. /\ \A j \in DOMAIN late : late[j].m = late[i].m => late[j].b = late[i].b
          /\ taken[late[i].m] # 0 => Knows(late[i].b, late[i].m)
      BY <2>3, <3>1, <3>2 DEF Core, Once
    <3>4. late[i].b \in Backends
      <4>1. late \in Seq(LateType)
        BY <1>0 DEF Typed
      <4>2. late[i] \in LateType
        BY <4>1, ElementOfSeq
      <4> QED
        BY <4>2 DEF LateType
    <3>5. ASSUME NEW j \in DOMAIN late', late'[j].m = late'[k].m PROVE late'[j].b = late'[k].b
      <4>1. PICK l \in DOMAIN late : late'[j] = late[l]
        BY <1>4
      <4> QED
        BY <3>1, <3>3, <3>5, <4>1
    <3>6. taken[late[i].m] # 0 => \E l \in accepted'[late[i].b] : l.m = late[i].m
      BY <2>1, <3>1, <3>3, <3>4 DEF Knows
    <3>7. taken[late[i].m] # 0 => Knows(late[k].b, late[k].m)'
      BY <3>1, <3>6 DEF Knows
    <3> QED
      BY <3>1, <3>5, <3>7
  <2>4. ASSUME ~wireUp', NEW k \in DOMAIN late'
        PROVE  \/ late'[k].m \in blind
               \/ /\ \A j \in DOMAIN late' : late'[j].m = late'[k].m => late'[j].b = late'[k].b
                  /\ taken[late'[k].m] # 0 => Knows(late[k].b, late[k].m)'
    BY <2>3, <2>4
  <2> HIDE DEF Settles
  <2> QED
    BY <1>1, <2>2, <2>4 DEF Once
<1> QED
  BY <1>1, <1>6, <1>7, <1>8, <1>9, <1>10 DEF Core, Somewhere

\* What the verdicts rest on stays when the tab keeps no more than it did, nothing new is
\* sent, and no receipt is lost.
LEMMA OnceStays ==
  ASSUME Once, Range(tab'.queue) \subseteq Range(tab.queue),
         \A m : Has(tab'.outbox, m) => Has(tab.outbox, m),
         wireUp' <=> wireUp, conn'.b = conn.b, Range(conn'.up) \subseteq Range(conn.up),
         conn.b \in Backends, accepted' = accepted, UNCHANGED <<late, taken, blind>>
  PROVE  Once'
<1>1. \A m : Settles(m) => Settles(m)'
  BY DEF Settles, Knows
<1>2. \A b, m : Knows(b, m)' <=> Knows(b, m)
  BY DEF Knows
<1>3. ASSUME wireUp'
      PROVE  /\ \A i \in DOMAIN late' : late'[i].m \in blind'
             /\ \A m \in Msgs : taken'[m] # 0 => m \in blind' \/ Settles(m)'
  BY <1>1, <1>3 DEF Once
<1>4. ASSUME ~wireUp', NEW i \in DOMAIN late'
      PROVE  \/ late'[i].m \in blind'
             \/ /\ \A j \in DOMAIN late' : late'[j].m = late'[i].m => late'[j].b = late'[i].b
                /\ taken'[late'[i].m] # 0 => Knows(late[i].b, late[i].m)'
  BY <1>2, <1>4 DEF Once
<1> HIDE DEF Settles
<1> QED
  BY <1>3, <1>4 DEF Once

\* The socket stays sound when it stays the same, and what it brings is what it brought or
\* may follow it.
LEMMA WireStays ==
  ASSUME WireGood, Range(tab'.queue) \subseteq Range(tab.queue), tab'.ready = tab.ready,
         conn'.st = conn.st, conn'.snap = conn.snap,
         Range(conn'.up) \subseteq Range(conn.up), conn.up = <<>> => conn'.up = <<>>,
         conn'.asked \subseteq conn.asked \cup Range(conn.up),
         wrote' = wrote, Len(history) \in Nat, Len(history') \in Nat, Len(history) <= Len(history'),
         conn.snap \in Nat, \A i \in DOMAIN conn.dn : conn.dn[i].at \in Nat,
         \A m : Has(history, m) => Has(history', m),
         \A i \in DOMAIN conn'.dn :
           \/ \E j \in DOMAIN conn.dn : /\ conn'.dn[i] = conn.dn[j]
                                        /\ conn.dn[j].k = "ready" => i = 1
           \/ \E f : /\ conn'.dn[i] = f /\ FrameGood(f)' /\ f.k # "ready"
                     /\ wireUp \/ f.k = "line"
  PROVE  WireGood' /\ (wireUp' <=> wireUp)
<1>1. wireUp' <=> wireUp
  BY DEF wireUp
<1>2. ASSUME NEW i \in DOMAIN conn'.dn, NEW j \in DOMAIN conn.dn, conn'.dn[i] = conn.dn[j]
      PROVE  /\ conn'.dn[i].k # "ready" => conn'.dn[i].m \in wrote'
             /\ conn'.dn[i].k = "line" => conn'.dn[i].at # 0
             /\ conn'.dn[i].k = "ready" => conn'.dn[i].at <= Len(history')
             /\ conn'.dn[i].k = "ack" => Has(history', conn'.dn[i].m)
                                         /\ conn'.dn[i].m \notin Range(tab'.queue)
  BY <1>2 DEF WireGood, FrameGood
<1>3. ASSUME NEW i \in DOMAIN conn'.dn
      PROVE  /\ conn'.dn[i].k # "ready" => conn'.dn[i].m \in wrote'
             /\ conn'.dn[i].k = "line" => conn'.dn[i].at # 0
             /\ conn'.dn[i].k = "ready" => conn'.dn[i].at <= Len(history')
             /\ conn'.dn[i].k = "ack" => Has(history', conn'.dn[i].m)
                                         /\ conn'.dn[i].m \notin Range(tab'.queue)
             /\ conn'.dn[i].k = "ready" => i = 1 /\ ~tab'.ready /\ conn'.st = "open"
             /\ ~wireUp' => conn'.dn[i].k \in {"ready", "line"}
  <2>1. ASSUME NEW j \in DOMAIN conn.dn, conn'.dn[i] = conn.dn[j],
               conn.dn[j].k = "ready" => i = 1
        PROVE  /\ conn'.dn[i].k = "ready" => i = 1 /\ ~tab'.ready /\ conn'.st = "open"
               /\ ~wireUp' => conn'.dn[i].k \in {"ready", "line"}
    BY <1>1, <2>1 DEF WireGood
  <2> QED
    <3>1. CASE \E j \in DOMAIN conn.dn : conn'.dn[i] = conn.dn[j] /\ (conn.dn[j].k = "ready" => i = 1)
      BY <1>2, <2>1, <3>1
    <3>2. ASSUME NEW f, conn'.dn[i] = f, FrameGood(f)', f.k # "ready", wireUp \/ f.k = "line"
          PROVE  /\ conn'.dn[i].k # "ready" => conn'.dn[i].m \in wrote'
                 /\ conn'.dn[i].k = "line" => conn'.dn[i].at # 0
                 /\ conn'.dn[i].k = "ack" => Has(history', conn'.dn[i].m)
                                             /\ conn'.dn[i].m \notin Range(tab'.queue)
                 /\ conn'.dn[i].k # "ready"
                 /\ ~wireUp' => conn'.dn[i].k \in {"ready", "line"}
      BY <1>1, <3>2 DEF FrameGood
    <3> QED
      BY <3>1, <3>2
<1>4. /\ conn'.st \in {"setup", "read"} => ~tab'.ready
      /\ ~wireUp' => conn'.up = <<>> /\ conn'.asked = {}
  <2>1. conn.up = <<>> => Range(conn.up) = {}
    BY DEF Range
  <2> QED
    BY <1>1, <2>1 DEF WireGood
<1>5. /\ \A m \in Range(tab'.queue) : m \notin Range(conn'.up) /\ m \notin conn'.asked
      /\ conn'.snap <= Len(history')
  BY DEF WireGood
<1> QED
  BY <1>1, <1>3, <1>4, <1>5 DEF WireGood, FrameGood

\* A tab that leaves its connection keeps what it owes, and shows nothing.
LEMMA RowsGone ==
  ASSUME Typed, TabGood(tab), tab' = [tab EXCEPT !.rows = <<>>, !.ready = FALSE]
  PROVE  /\ tab' \in TabType /\ TabGood(tab)' /\ ~tab'.ready
         /\ tab'.queue = tab.queue /\ tab'.outbox = tab.outbox
         /\ \A m : Shows(tab, m)' => Shows(tab, m)
<1>1. tab \in TabType
  BY DEF Typed
<1>2. tab' \in TabType /\ tab'.rows = <<>> /\ ~tab'.ready
      /\ tab'.queue = tab.queue /\ tab'.outbox = tab.outbox
  BY <1>1, EmptySeq DEF TabType
<1>3. DOMAIN <<>> = {}
  OBVIOUS
<1> QED
  BY <1>2, <1>3 DEF TabGood, Shows, Has

\* A new connection of the tab.
LEMMA ConnectStep ==
  ASSUME Core, NEW b \in Backends, Connect(b)
  PROVE  Core'
<1>0. Typed /\ Written /\ TabGood(tab) /\ WireGood /\ Receipts /\ Once /\ Somewhere
  BY DEF Core
<1>1. /\ tab' \in TabType /\ TabGood(tab)' /\ ~tab'.ready
      /\ tab'.queue = tab.queue /\ tab'.outbox = tab.outbox
      /\ \A m : Shows(tab, m)' => Shows(tab, m)
  BY <1>0, RowsGone DEF Connect
<1>2. UNCHANGED <<late, accepted, writing, history, taken, wrote, blind>>
  BY DEF Connect, BackKeeps
<1>3. /\ conn' \in WireType /\ conn'.st = "setup" /\ conn'.up = <<>> /\ conn'.dn = <<>>
      /\ conn'.asked = {} /\ conn'.snap = 0
  <2>1. Down \in WireType /\ b \in Nat
    BY DownTyped DEF Backends
  <2>2. conn' = [Down EXCEPT !.st = "setup", !.b = b]
    BY DEF Connect
  <2> QED
    BY <2>1, <2>2, DownTyped DEF WireType
<1>4. DOMAIN <<>> = {} /\ Range(<<>>) = {}
  BY DEF Range
<1>5. ~wireUp /\ ~wireUp'
  BY <1>3 DEF Connect, wireUp
<1>6. Typed' /\ Written' /\ Receipts' /\ Somewhere'
  BY <1>0, <1>1, <1>2, <1>3, <1>4 DEF Typed, Written, Receipts, Somewhere
<1>7. WireGood'
  BY <1>0, <1>1, <1>2, <1>3, <1>4, LenProperties DEF WireGood, Typed
<1>8. Once'
  BY <1>0, <1>2, <1>5 DEF Once, Knows
<1> QED
  BY <1>1, <1>6, <1>7, <1>8 DEF Core

\* The tab closes its socket: what it had sent is of messages the last replay proved, or of
\* messages nobody took or that driver knows.
LEMMA ClosesStep ==
  ASSUME Core, Connection(conn), TabCloses, tab' \in TabType, TabGood(tab)',
         tab'.queue = tab.queue, \A m : Has(tab'.outbox, m) <=> Has(tab.outbox, m),
         \A m : Shows(tab, m)' => Shows(tab, m)
  PROVE  Core'
<1>0. Typed /\ Written /\ TabGood(tab) /\ WireGood /\ Receipts /\ Once /\ Somewhere
  BY DEF Core
<1>1. UNCHANGED <<accepted, writing, history, taken, wrote, blind>> /\ conn' = Down
  BY DEF TabCloses
<1> DEFINE sent == [i \in DOMAIN conn.up |-> [b |-> conn.b, m |-> conn.up[i]]]
<1>2. /\ conn.up \in Seq(Msgs) /\ Len(conn.up) \in Nat /\ DOMAIN conn.up = 1 .. Len(conn.up)
      /\ \A i \in DOMAIN conn.up : conn.up[i] \in Msgs
  BY <1>0, LenProperties, ElementOfSeq DEF Typed, WireType
<1>3. conn.b \in Backends
  BY DEF TabCloses, Connection
<1>4. sent \in Seq(LateType) /\ DOMAIN sent = DOMAIN conn.up
      /\ \A i \in DOMAIN sent : sent[i].b = conn.b /\ sent[i].m = conn.up[i]
  <2>1. \A i \in 1 .. Len(conn.up) : [b |-> conn.b, m |-> conn.up[i]] \in LateType
    BY <1>2, <1>3 DEF LateType
  <2> QED
    BY <1>2, <2>1
<1> HIDE DEF sent
<1>5. /\ late' \in Seq(LateType)
      /\ \A k \in DOMAIN late' :
           \/ \E i \in DOMAIN late : late'[k] = late[i]
           \/ late'[k].b = conn.b /\ late'[k].m \in Range(conn.up)
  <2>1. CASE late' = late
    BY <1>0, <2>1 DEF Typed
  <2>2. CASE late' = late \o sent
    <3>1. /\ late' \in Seq(LateType) /\ Len(late') = Len(late) + Len(sent)
          /\ \A k \in 1 .. Len(late) + Len(sent) :
               late'[k] = IF k <= Len(late) THEN late[k] ELSE sent[k - Len(late)]
      BY <1>0, <1>4, <2>2, ConcatProperties DEF Typed
    <3>2. /\ Len(late) \in Nat /\ DOMAIN late = 1 .. Len(late)
          /\ Len(sent) \in Nat /\ DOMAIN sent = 1 .. Len(sent)
          /\ DOMAIN late' = 1 .. Len(late')
      BY <1>0, <1>4, <3>1, LenProperties DEF Typed
    <3>3. ASSUME NEW k \in DOMAIN late'
          PROVE  \/ \E i \in DOMAIN late : late'[k] = late[i]
                 \/ late'[k].b = conn.b /\ late'[k].m \in Range(conn.up)
      <4>1. CASE k <= Len(late)
        BY <3>1, <3>2, <4>1
      <4>2. CASE ~(k <= Len(late))
        <5>1. k - Len(late) \in DOMAIN sent /\ late'[k] = sent[k - Len(late)]
          BY <3>1, <3>2, <4>2
        <5> QED
          BY <1>4, <5>1 DEF Range
      <4> QED
        BY <4>1, <4>2
    <3> QED
      BY <3>1, <3>3
  <2> QED
    BY <2>1, <2>2 DEF TabCloses, sent
<1>6. Typed'
  BY <1>0, <1>1, <1>5, DownTyped DEF Typed
<1>7. Written' /\ Receipts' /\ Somewhere' /\ WireGood'
  <2>1. \A i \in DOMAIN late' : late'[i].m \in wrote
    BY <1>0, <1>5 DEF Written
  <2>2. Written'
    BY <1>0, <1>1, <2>1, DownTyped DEF Written
  <2>3. Receipts' /\ Somewhere'
    BY <1>0, <1>1 DEF Receipts, Somewhere
  <2>4. WireGood'
    BY <1>0, <1>1, DownTyped, LenProperties DEF WireGood, Typed
  <2> QED
    BY <2>2, <2>3, <2>4
<1>8. Once'
  <2>1. ~wireUp'
    BY <1>1, DownTyped DEF wireUp
  <2>2. \A b, m : Knows(b, m)' <=> Knows(b, m)
    BY <1>1 DEF Knows
  <2>3. ASSUME NEW k \in DOMAIN late', late'[k].m \notin blind
        PROVE  /\ \A j \in DOMAIN late' : late'[j].m = late'[k].m => late'[j].b = late'[k].b
               /\ taken[late'[k].m] # 0 => \E l \in accepted[late'[k].b] : l.m = late'[k].m
    <3>1. CASE wireUp
      <4>1. \A j \in DOMAIN late' : late'[j].m = late'[k].m =>
              late'[j].b = conn.b /\ late'[j].m \in Range(conn.up)
        BY <1>0, <1>5, <2>3, <3>1 DEF Once
      <4>2. late'[k].b = conn.b /\ late'[k].m \in Range(conn.up) /\ late'[k].m \in Msgs
        <5>1. late'[k] \in LateType
          BY <1>5, ElementOfSeq
        <5> QED
          BY <4>1, <5>1 DEF LateType
      <4>3. taken[late'[k].m] # 0 => Knows(conn.b, late'[k].m)
        BY <1>0, <2>3, <3>1, <4>2 DEF Once, Settles
      <4> QED
        BY <4>1, <4>2, <4>3 DEF Knows
    <3>2. CASE ~wireUp
      <4>1. Range(conn.up) = {}
        BY <1>0, <3>2 DEF WireGood, Range
      <4>2. \A j \in DOMAIN late' : \E i \in DOMAIN late : late'[j] = late[i]
        BY <1>5, <4>1
      <4>3. PICK i \in DOMAIN late : late'[k] = late[i]
        BY <4>2
      <4>4. /\ \A j \in DOMAIN late : late[j].m = late[i].m => late[j].b = late[i].b
            /\ taken[late[i].m] # 0 => Knows(late[i].b, late[i].m)
        BY <1>0, <2>3, <3>2, <4>3 DEF Once
      <4> QED
        BY <4>2, <4>3, <4>4 DEF Knows
    <3> QED
      BY <3>1, <3>2
  <2> QED
    BY <1>1, <2>1, <2>3 DEF Once, Knows
<1> QED
  BY <1>6, <1>7, <1>8 DEF Core

\* markUndelivered and settleUserRow: a verdict changes no place in either list.
LEMMA MarkedFacts ==
  ASSUME NEW o \in Seq(EntryType), NEW ms
  PROVE  /\ markUndelivered(o, ms) \in Seq(EntryType)
         /\ DOMAIN markUndelivered(o, ms) = DOMAIN o
         /\ \A i \in DOMAIN o : markUndelivered(o, ms)[i].m = o[i].m
         /\ \A m : Has(markUndelivered(o, ms), m) <=> Has(o, m)
<1>1. Len(o) \in Nat /\ DOMAIN o = 1 .. Len(o) /\ \A i \in DOMAIN o : o[i] \in EntryType
  BY LenProperties, ElementOfSeq
<1>2. ASSUME NEW i \in DOMAIN o
      PROVE  /\ [o[i] EXCEPT !.undelivered = TRUE] \in EntryType
             /\ [o[i] EXCEPT !.undelivered = TRUE].m = o[i].m
  <2>1. o[i] \in EntryType
    BY <1>1
  <2> QED
    BY <2>1 DEF EntryType
<1>3. /\ markUndelivered(o, ms) \in Seq(EntryType)
      /\ DOMAIN markUndelivered(o, ms) = DOMAIN o
      /\ \A i \in DOMAIN o : markUndelivered(o, ms)[i].m = o[i].m
  BY <1>1, <1>2 DEF markUndelivered
<1> QED
  BY <1>3 DEF Has

\* settleUserRow changes the state of a bubble, and neither its message nor its time.
LEMMA SettledFacts ==
  ASSUME NEW rows \in Seq(RowType), NEW ms, NEW state \in {"sending", "sent", "undelivered"}
  PROVE  /\ settleUserRow(rows, ms, state) \in Seq(RowType)
         /\ DOMAIN settleUserRow(rows, ms, state) = DOMAIN rows
         /\ \A i \in DOMAIN rows : /\ settleUserRow(rows, ms, state)[i].m = rows[i].m
                                   /\ settleUserRow(rows, ms, state)[i].at = rows[i].at
                                   /\ \/ settleUserRow(rows, ms, state)[i] = rows[i]
                                      \/ /\ settleUserRow(rows, ms, state)[i].state = state
                                         /\ rows[i].m \in ms
         /\ \A m : Has(settleUserRow(rows, ms, state), m) <=> Has(rows, m)
<1>1. Len(rows) \in Nat /\ DOMAIN rows = 1 .. Len(rows) /\ \A i \in DOMAIN rows : rows[i] \in RowType
  BY LenProperties, ElementOfSeq
<1>2. ASSUME NEW i \in DOMAIN rows
      PROVE  /\ [rows[i] EXCEPT !.state = state] \in RowType
             /\ [rows[i] EXCEPT !.state = state].m = rows[i].m
             /\ [rows[i] EXCEPT !.state = state].at = rows[i].at
             /\ [rows[i] EXCEPT !.state = state].state = state
  <2>1. rows[i] \in RowType
    BY <1>1
  <2> QED
    BY <2>1 DEF RowType
<1>3. /\ settleUserRow(rows, ms, state) \in Seq(RowType)
      /\ DOMAIN settleUserRow(rows, ms, state) = DOMAIN rows
      /\ \A i \in DOMAIN rows : settleUserRow(rows, ms, state)[i] =
           IF rows[i].live /\ rows[i].m \in ms THEN [rows[i] EXCEPT !.state = state] ELSE rows[i]
  BY <1>1, <1>2 DEF settleUserRow
<1>4. \A i \in DOMAIN rows : /\ settleUserRow(rows, ms, state)[i].m = rows[i].m
                             /\ settleUserRow(rows, ms, state)[i].at = rows[i].at
                             /\ \/ settleUserRow(rows, ms, state)[i] = rows[i]
                                \/ /\ settleUserRow(rows, ms, state)[i].state = state
                                   /\ rows[i].m \in ms
  BY <1>2, <1>3
<1> QED
  BY <1>3, <1>4 DEF Has

\* A reload, a drop that is seen, and the watchdog, which marks what it waited for.
LEMMA GoneStep ==
  ASSUME Core, Connection(conn), Reload \/ Watchdog \/ DropSeen
  PROVE  Core'
<1>0. Typed /\ TabGood(tab) /\ tab \in TabType
  BY DEF Core, Typed
<1>1. CASE Reload
  BY <1>0, <1>1, RowsGone, ClosesStep DEF Reload
<1>2. CASE DropSeen
  BY <1>0, <1>2, ClosesStep DEF DropSeen, Shows, TabGood
<1>3. CASE Watchdog
  <2>1. PICK silent :
          tab' = [tab EXCEPT !.outbox = markUndelivered(tab.outbox, silent),
                             !.rows = settleUserRow(tab.rows, silent, "undelivered")]
    BY <1>3 DEF Watchdog
  <2> DEFINE o == markUndelivered(tab.outbox, silent)
             r == settleUserRow(tab.rows, silent, "undelivered")
  <2>2. tab.outbox \in Seq(EntryType) /\ tab.rows \in Seq(RowType)
    BY <1>0 DEF TabType
  <2>3. /\ o \in Seq(EntryType) /\ DOMAIN o = DOMAIN tab.outbox
        /\ \A i \in DOMAIN o : o[i].m = tab.outbox[i].m
        /\ \A m : Has(o, m) <=> Has(tab.outbox, m)
    BY <2>2, MarkedFacts
  <2>4. /\ r \in Seq(RowType) /\ DOMAIN r = DOMAIN tab.rows
        /\ \A i \in DOMAIN r : /\ r[i].m = tab.rows[i].m /\ r[i].at = tab.rows[i].at
                               /\ r[i] = tab.rows[i] \/ r[i].state = "undelivered"
        /\ \A m : Has(r, m) <=> Has(tab.rows, m)
    BY <2>2, SettledFacts
  <2> HIDE DEF o, r
  <2>5. /\ tab' \in TabType /\ tab'.outbox = o /\ tab'.rows = r /\ tab'.queue = tab.queue
    BY <1>0, <2>1, <2>3, <2>4 DEF o, r, TabType
  <2>6. TabGood(tab)'
    BY <1>0, <2>3, <2>4, <2>5 DEF TabGood, OneEach
  <2>7. \A m : Has(tab'.outbox, m) <=> Has(tab.outbox, m)
    BY <2>3, <2>5
  <2>8. \A m : Shows(tab, m)' => Shows(tab, m)
    BY <2>3, <2>4, <2>5 DEF Shows
  <2> QED
    BY <1>3, <2>5, <2>6, <2>7, <2>8, ClosesStep DEF Watchdog
<1> QED
  BY <1>1, <1>2, <1>3

\* The wire dies, and the replay of a connection is read.
LEMMA QuietStep ==
  ASSUME Core, Connection(conn), WireDies \/ ServerReads
  PROVE  Core'
<1>0. /\ Typed /\ Written /\ TabGood(tab) /\ WireGood /\ Receipts /\ Once /\ Somewhere
      /\ conn \in WireType /\ history \in Seq(LineType)
  BY DEF Core, Typed
<1>1. UNCHANGED <<tab, late, accepted, writing, history, taken, wrote, blind>>
  BY DEF WireDies, ServerReads, BackKeeps
<1>2. Len(history) \in Nat
  BY <1>0, LenProperties
<1>3. DOMAIN <<>> = {} /\ Range(<<>>) = {} /\ <<>> \in Seq(Msgs) /\ <<>> \in Seq(FrameType)
  BY EmptySeq DEF Range
<1>4. /\ conn' \in WireType /\ conn'.b = conn.b /\ conn'.asked = conn.asked
      /\ conn.st # "down" /\ conn'.snap <= Len(history)
      /\ \/ conn'.up = <<>> /\ conn'.dn = <<>> /\ conn'.st = conn.st
         \/ conn'.up = conn.up /\ conn'.dn = conn.dn /\ conn.st = "setup" /\ conn'.st = "read"
  <2>1. CASE WireDies
    BY <1>0, <1>2, <1>3, <2>1 DEF WireDies, WireType, WireGood
  <2>2. CASE ServerReads
    <3>1. \/ conn' = [conn EXCEPT !.st = "read", !.snap = Len(history)]
          \/ conn' = [conn EXCEPT !.st = "read", !.snap = 0]
      BY <2>2, Zenon DEF ServerReads
    <3>2. Len(history) \in 0 .. Len(history) /\ 0 \in 0 .. Len(history)
      BY <1>2
    <3>3. PICK n \in 0 .. Len(history) : conn' = [conn EXCEPT !.st = "read", !.snap = n]
      BY <3>1, <3>2, Zenon
    <3>4. conn.st = "setup" /\ n \in Nat /\ n <= Len(history)
      BY <1>2, <2>2 DEF ServerReads
    <3>5. conn' \in WireType
      BY <1>0, <3>3, <3>4 DEF WireType
    <3> QED
      BY <1>0, <3>3, <3>4, <3>5 DEF WireType
  <2> QED
    BY <2>1, <2>2
<1>5. conn.b \in Backends
  BY <1>4 DEF Connection
<1>6. wireUp' <=> wireUp
  BY <1>1, <1>4 DEF wireUp
<1>7. Range(conn'.up) \subseteq Range(conn.up)
  BY <1>3, <1>4
<1>8. Once'
  BY <1>0, <1>1, <1>4, <1>5, <1>6, <1>7, OnceStays
<1>9. Typed' /\ Written' /\ Receipts' /\ Somewhere' /\ TabGood(tab)'
  BY <1>0, <1>1, <1>4, <1>7 DEF Typed, Written, Receipts, Somewhere
<1>10. WireGood'
  BY <1>0, <1>1, <1>3, <1>4, <1>6, <1>7 DEF WireGood, FrameGood
<1> QED
  BY <1>8, <1>9, <1>10 DEF Core

\* What a replay has of the history.
LEMMA ReplayFacts ==
  ASSUME NEW T, NEW s \in Seq(T), NEW n \in Nat, n <= Len(s)
  PROVE  /\ SubSeq(s, 1, n) \in Seq(T)
         /\ \A m : Has(SubSeq(s, 1, n), m) => Has(s, m)
<1> DEFINE q == SubSeq(s, 1, n)
<1>1. Len(s) \in Nat /\ DOMAIN s = 1 .. Len(s) /\ \A i \in DOMAIN s : s[i] \in T
  BY LenProperties, ElementOfSeq
<1>2. \A i \in 1 .. n : s[i] \in T
  BY <1>1
<1>3. /\ q \in Seq(T) /\ Len(q) = IF 1 <= n THEN n - 1 + 1 ELSE 0
      /\ \A i \in 1 .. n - 1 + 1 : q[i] = s[1 + i - 1]
  BY <1>2, SubSeqProperties
<1>4. DOMAIN q = 1 .. n
  BY <1>3, LenProperties
<1> HIDE DEF q
<1>5. \A i \in DOMAIN q : i \in DOMAIN s /\ q[i] = s[i]
  BY <1>1, <1>3, <1>4
<1> QED
  BY <1>3, <1>5 DEF Has, q

\* The ready of a connection, and the lines its replay lacks.
LEMMA ReadyStep ==
  ASSUME Core, Connection(conn), ServerAttaches
  PROVE  Core'
<1>0. /\ Typed /\ Written /\ TabGood(tab) /\ WireGood /\ Receipts /\ Once /\ Somewhere
      /\ conn \in WireType /\ history \in Seq(LineType) /\ conn.dn \in Seq(FrameType)
      /\ conn.snap \in Nat /\ conn.snap <= Len(history)
  BY DEF Core, Typed, WireType, WireGood
<1>1. UNCHANGED <<tab, late, accepted, writing, history, taken, wrote, blind>>
  BY DEF ServerAttaches, BackKeeps
<1> DEFINE hello == Frame("ready", "none", conn.snap)
           I == {i \in DOMAIN conn.dn : ~Has(SubSeq(history, 1, conn.snap), conn.dn[i].m)}
           missed == Filtered(conn.dn, I)
           front == <<hello>>
<1>2. hello \in FrameType /\ hello.k = "ready" /\ hello.at = conn.snap
  BY <1>0 DEF Frame, FrameType
<1>3. I \in SUBSET DOMAIN conn.dn
  OBVIOUS
<1>4. conn.st = "read"
  BY DEF ServerAttaches
<1>5. /\ conn'.dn = IF conn.deaf THEN <<>> ELSE front \o missed
      /\ conn' = [conn EXCEPT !.st = "open", !.dn = conn'.dn]
  BY <1>0 DEF ServerAttaches, WireType
<1> HIDE DEF hello, I
<1>6. missed \in Seq(FrameType) /\ \A k \in DOMAIN missed : \E i \in DOMAIN conn.dn : missed[k] = conn.dn[i]
  BY <1>0, <1>3, KeptElements
<1> HIDE DEF missed
<1>7. front \in Seq(FrameType) /\ Len(front) = 1 /\ front[1] = hello
  BY <1>2
<1> HIDE DEF front
<1>8. /\ front \o missed \in Seq(FrameType)
      /\ \A i \in DOMAIN (front \o missed) :
           \/ i = 1 /\ (front \o missed)[i] = hello
           \/ \E j \in DOMAIN conn.dn : (front \o missed)[i] = conn.dn[j]
  <2>1. /\ front \o missed \in Seq(FrameType) /\ Len(front \o missed) = 1 + Len(missed)
        /\ \A k \in 1 .. 1 + Len(missed) :
             (front \o missed)[k] = IF k <= 1 THEN front[k] ELSE missed[k - 1]
    BY <1>6, <1>7, ConcatProperties
  <2>2. Len(missed) \in Nat /\ DOMAIN missed = 1 .. Len(missed)
        /\ DOMAIN (front \o missed) = 1 .. 1 + Len(missed)
    BY <1>6, <2>1, LenProperties
  <2>3. ASSUME NEW i \in 1 .. 1 + Len(missed), i # 1
        PROVE  i - 1 \in DOMAIN missed /\ (front \o missed)[i] = missed[i - 1]
    BY <2>1, <2>2, <2>3
  <2> QED
    BY <1>6, <1>7, <2>1, <2>2, <2>3
<1>9. conn' \in WireType /\ conn'.st = "open" /\ conn'.b = conn.b /\ conn'.up = conn.up
      /\ conn'.asked = conn.asked /\ conn'.snap = conn.snap
  <2> DEFINE d == conn'.dn
  <2>1. d \in Seq(FrameType)
    BY <1>5, <1>8, EmptySeq
  <2>2. conn' = [conn EXCEPT !.st = "open", !.dn = d]
    BY <1>5
  <2> HIDE DEF d
  <2> QED
    BY <1>0, <2>1, <2>2 DEF WireType
<1>10. ~wireUp /\ ~tab.ready /\ ~wireUp'
  BY <1>0, <1>1, <1>4 DEF WireGood, wireUp
<1>11. \A i \in DOMAIN conn'.dn : \/ i = 1 /\ conn'.dn[i] = hello
                                  \/ \E j \in DOMAIN conn.dn : conn'.dn[i] = conn.dn[j]
  BY <1>5, <1>8
<1>12. ASSUME NEW i \in DOMAIN conn'.dn
       PROVE  /\ conn'.dn[i].k # "ready" => conn'.dn[i].m \in wrote
              /\ conn'.dn[i].k = "line" => conn'.dn[i].at # 0
              /\ conn'.dn[i].k = "ready" => conn'.dn[i].at <= Len(history) /\ i = 1
              /\ conn'.dn[i].k \in {"ready", "line"}
  BY <1>0, <1>2, <1>4, <1>10, <1>11 DEF WireGood, FrameGood
<1>13. WireGood'
  BY <1>0, <1>1, <1>9, <1>10, <1>12 DEF WireGood, FrameGood
<1>14. Once'
  BY <1>0, <1>1, <1>10 DEF Once, Knows
<1>15. Typed' /\ Written' /\ Receipts' /\ Somewhere' /\ TabGood(tab)'
  BY <1>0, <1>1, <1>9 DEF Typed, Written, Receipts, Somewhere
<1> QED
  BY <1>13, <1>14, <1>15 DEF Core

\* What the tab keeps after a line or an answer: no more than it did, and what the answer
\* settles is a line of the history.
LEMMA HeardTab ==
  ASSUME Core, NEW f \in FrameType, FrameGood(f), f.k # "ready",
         f.k = "line" => tab' = [tab EXCEPT !.rows = Append(tab.rows, Line(f))],
         f.k = "ack"  => tab' = [tab EXCEPT !.outbox = dropFromOutbox(tab.outbox, f.m),
                                            !.rows = settleUserRow(tab.rows, {f.m}, "sent")],
         f.k = "nack" => tab' = [tab EXCEPT !.outbox = markUndelivered(tab.outbox, {f.m}),
                                            !.rows = settleUserRow(tab.rows, {f.m}, "undelivered")]
  PROVE  /\ tab' \in TabType /\ TabGood(tab)' /\ tab'.queue = tab.queue /\ tab'.ready = tab.ready
         /\ \A m : Has(tab'.outbox, m) => Has(tab.outbox, m)
         /\ \A m : Has(tab.outbox, m) => Has(tab'.outbox, m) \/ Has(history, m)
         /\ \A m : Shows(tab, m)' => Shows(tab, m) \/ m \in wrote
<1>0. /\ tab \in TabType /\ TabGood(tab) /\ tab.outbox \in Seq(EntryType)
      /\ tab.rows \in Seq(RowType) /\ OneEach(tab.outbox) /\ wrote \subseteq Msgs
  BY DEF Core, Typed, TabType, TabGood
<1>1. f.m \in wrote /\ f.m \in Msgs
  BY <1>0 DEF FrameGood
<1>2. CASE f.k = "line"
  <2> DEFINE r == Append(tab.rows, Line(f))
  <2>1. Line(f) \in RowType /\ Line(f).m = f.m /\ Line(f).at # 0
    BY <1>1, <1>2 DEF Line, RowType, FrameGood, FrameType
  <2>2. /\ r \in Seq(RowType) /\ \A m : Has(r, m) <=> Has(tab.rows, m) \/ Line(f).m = m
        /\ \A i \in DOMAIN r : (i \in DOMAIN tab.rows /\ r[i] = tab.rows[i]) \/ r[i] = Line(f)
    BY <1>0, <2>1, Grown
  <2>3. tab' = [tab EXCEPT !.rows = r]
    BY <1>2
  <2> HIDE DEF r
  <2>4. /\ tab' \in TabType /\ tab'.queue = tab.queue /\ tab'.ready = tab.ready
        /\ tab'.outbox = tab.outbox /\ tab'.rows = r
    BY <1>0, <2>2, <2>3 DEF TabType
  <2>5. TabGood(tab)'
    BY <1>0, <2>1, <2>2, <2>4 DEF TabGood
  <2> QED
    BY <1>1, <2>1, <2>2, <2>4, <2>5 DEF Shows
<1>3. CASE f.k = "ack"
  <2> DEFINE o == dropFromOutbox(tab.outbox, f.m)
             r == settleUserRow(tab.rows, {f.m}, "sent")
  <2>1. /\ o \in Seq(EntryType) /\ OneEach(o)
        /\ \A k \in DOMAIN o : \E i \in DOMAIN tab.outbox : o[k] = tab.outbox[i] /\ tab.outbox[i].m # f.m
        /\ \A m : Has(o, m) <=> Has(tab.outbox, m) /\ m # f.m
    BY <1>0, DropFacts
  <2>2. /\ r \in Seq(RowType) /\ DOMAIN r = DOMAIN tab.rows
        /\ \A i \in DOMAIN tab.rows : /\ r[i].m = tab.rows[i].m /\ r[i].at = tab.rows[i].at
                                      /\ r[i] = tab.rows[i] \/ tab.rows[i].m = f.m
        /\ \A m : Has(r, m) <=> Has(tab.rows, m)
    BY <1>0, SettledFacts
  <2>3. tab' = [tab EXCEPT !.outbox = o, !.rows = r]
    BY <1>3
  <2> HIDE DEF o, r
  <2>4. /\ tab' \in TabType /\ tab'.queue = tab.queue /\ tab'.ready = tab.ready
        /\ tab'.outbox = o /\ tab'.rows = r
    BY <1>0, <2>1, <2>2, <2>3 DEF TabType
  <2>5. f.m \notin Range(tab.queue) /\ Has(history, f.m)
    BY <1>3 DEF FrameGood
  <2>6. \A i \in DOMAIN r : r[i].state = "sent" /\ r[i].at = 0 =>
          r[i].m \notin Range(tab.queue) /\ ~Has(o, r[i].m)
    BY <1>0, <2>1, <2>2, <2>5 DEF TabGood
  <2>7. \A i \in DOMAIN o : o[i].m \notin Range(tab.queue)
    BY <1>0, <2>1 DEF TabGood
  <2>8. TabGood(tab)'
    BY <1>0, <2>1, <2>4, <2>6, <2>7 DEF TabGood
  <2> QED
    BY <2>1, <2>2, <2>4, <2>5, <2>8 DEF Shows
<1>4. CASE f.k = "nack"
  <2> DEFINE o == markUndelivered(tab.outbox, {f.m})
             r == settleUserRow(tab.rows, {f.m}, "undelivered")
  <2>1. /\ o \in Seq(EntryType) /\ DOMAIN o = DOMAIN tab.outbox
        /\ \A i \in DOMAIN tab.outbox : o[i].m = tab.outbox[i].m
        /\ \A m : Has(o, m) <=> Has(tab.outbox, m)
    BY <1>0, MarkedFacts
  <2>2. /\ r \in Seq(RowType) /\ DOMAIN r = DOMAIN tab.rows
        /\ \A i \in DOMAIN tab.rows : /\ r[i].m = tab.rows[i].m /\ r[i].at = tab.rows[i].at
                                      /\ r[i] = tab.rows[i] \/ r[i].state = "undelivered"
        /\ \A m : Has(r, m) <=> Has(tab.rows, m)
    BY <1>0, SettledFacts
  <2>3. tab' = [tab EXCEPT !.outbox = o, !.rows = r]
    BY <1>4
  <2> HIDE DEF o, r
  <2>4. /\ tab' \in TabType /\ tab'.queue = tab.queue /\ tab'.ready = tab.ready
        /\ tab'.outbox = o /\ tab'.rows = r
    BY <1>0, <2>1, <2>2, <2>3 DEF TabType
  <2>5. OneEach(o) /\ \A i \in DOMAIN o : o[i].m \notin Range(tab.queue)
    BY <1>0, <2>1 DEF TabGood, OneEach
  <2>6. \A i \in DOMAIN r : r[i].state = "sent" /\ r[i].at = 0 =>
          r[i].m \notin Range(tab.queue) /\ ~Has(o, r[i].m)
    BY <1>0, <2>1, <2>2 DEF TabGood
  <2>7. TabGood(tab)'
    BY <1>0, <2>4, <2>5, <2>6 DEF TabGood
  <2> QED
    BY <2>1, <2>2, <2>4, <2>7 DEF Shows
<1> QED
  BY <1>2, <1>3, <1>4 DEF FrameType

\* The tab reads a frame: the verdicts of a ready, a line, an answer.
LEMMA HearsStep ==
  ASSUME Distinct, Core, Connection(conn), Hears
  PROVE  Core'
<1>0. /\ Typed /\ Written /\ TabGood(tab) /\ WireGood /\ Receipts /\ Once /\ Somewhere
      /\ conn \in WireType /\ history \in Seq(LineType) /\ conn.dn \in Seq(FrameType)
      /\ tab \in TabType /\ conn.snap \in Nat
  BY DEF Core, Typed, WireType
<1>1. UNCHANGED <<late, accepted, writing, history, taken, wrote>>
  BY DEF Hears, BackKeeps
<1> DEFINE f == Head(conn.dn)
           rest == Tail(conn.dn)
<1>2. conn.dn # <<>> /\ conn' = [conn EXCEPT !.dn = rest] /\ conn.st = "open"
  BY DEF Hears
<1>3. /\ rest \in Seq(FrameType) /\ f \in FrameType
      /\ \A i \in DOMAIN rest : i + 1 \in DOMAIN conn.dn /\ i + 1 # 1 /\ rest[i] = conn.dn[i + 1]
      /\ 1 \in DOMAIN conn.dn /\ f = conn.dn[1]
  BY <1>0, <1>2, Shrunk
<1>4. /\ f.k # "ready" => blind' = blind
      /\ f.k = "line" => tab' = [tab EXCEPT !.rows = Append(tab.rows, Line(f))]
      /\ f.k = "ack"  => tab' = [tab EXCEPT !.outbox = dropFromOutbox(tab.outbox, f.m),
                                            !.rows = settleUserRow(tab.rows, {f.m}, "sent")]
      /\ f.k = "nack" => tab' = [tab EXCEPT !.outbox = markUndelivered(tab.outbox, {f.m}),
                                            !.rows = settleUserRow(tab.rows, {f.m}, "undelivered")]
  BY DEF Hears
<1>5. f.k = "ready" => /\ tab' = Reconciled(tab, SubSeq(history, 1, f.at))
                       /\ blind' = Unproved(tab, SubSeq(history, 1, f.at))
  BY DEF Hears
<1> HIDE DEF f, rest
<1>6. /\ conn' \in WireType /\ conn'.st = conn.st /\ conn'.b = conn.b /\ conn'.up = conn.up
      /\ conn'.dn = rest /\ conn'.asked = conn.asked /\ conn'.snap = conn.snap
  BY <1>0, <1>2, <1>3 DEF WireType
<1>7. FrameGood(f) /\ (f.k = "ready" => ~tab.ready)
  BY <1>0, <1>3 DEF WireGood
<1>8. conn.b \in Backends
  BY <1>2 DEF Connection
<1>9. Len(history) \in Nat /\ \A i \in DOMAIN conn.dn : conn.dn[i].at \in Nat
  <2>1. \A i \in DOMAIN conn.dn : conn.dn[i] \in FrameType
    BY <1>0, ElementOfSeq
  <2> QED
    BY <1>0, <2>1, LenProperties DEF FrameType
<1>10. CASE f.k # "ready"
  <2>1. /\ tab' \in TabType /\ TabGood(tab)' /\ tab'.queue = tab.queue /\ tab'.ready = tab.ready
        /\ \A m : Has(tab'.outbox, m) => Has(tab.outbox, m)
        /\ \A m : Has(tab.outbox, m) => Has(tab'.outbox, m) \/ Has(history, m)
        /\ \A m : Shows(tab, m)' => Shows(tab, m) \/ m \in wrote
    BY <1>3, <1>4, <1>7, <1>10, HeardTab
  <2>2. wireUp' <=> wireUp
    BY <1>6, <2>1 DEF wireUp
  <2>3. \A i \in DOMAIN conn'.dn : \E j \in DOMAIN conn.dn : conn'.dn[i] = conn.dn[j]
                                                            /\ (conn.dn[j].k = "ready" => i = 1)
    BY <1>0, <1>3, <1>6 DEF WireGood
  <2>4. WireGood'
    BY <1>0, <1>1, <1>6, <1>9, <2>1, <2>3, WireStays
  <2>5. Once'
    BY <1>0, <1>1, <1>4, <1>6, <1>8, <1>10, <2>1, <2>2, OnceStays
  <2>6. Typed' /\ Written' /\ Receipts' /\ Somewhere'
    BY <1>0, <1>1, <1>4, <1>6, <1>10, <2>1 DEF Typed, Written, Receipts, Somewhere
  <2> QED
    BY <2>1, <2>4, <2>5, <2>6 DEF Core
<1>11. CASE f.k = "ready"
  <2> DEFINE lines == SubSeq(history, 1, f.at)
  <2>0. f.at \in Nat /\ f.at <= Len(history)
    BY <1>3, <1>7, <1>11 DEF FrameGood, FrameType
  <2>1. lines \in Seq(LineType) /\ \A m : Has(lines, m) => Has(history, m)
    BY <1>0, <2>0, ReplayFacts
  <2>2. tab' = Reconciled(tab, lines) /\ blind' = Unproved(tab, lines)
    BY <1>5, <1>11
  <2> HIDE DEF lines
  <2> DEFINE r == Reconciled(tab, lines)
  <2>3. /\ r \in TabType /\ TabGood(r) /\ r.ready
        /\ \A m : /\ m \in Range(tab.queue) => m \in Range(r.queue)
                  /\ Has(tab.outbox, m) => m \in Range(r.queue) \/ Has(r.outbox, m) \/ Has(lines, m)
                  /\ Shows(r, m) => Shows(tab, m) \/ Has(lines, m)
                  /\ ProvenBy(tab, lines, m) /\ m \notin Range(tab.queue)
                       => m \notin Range(r.queue) /\ ~Has(r.outbox, m)
    BY <1>0, <2>1, ReconciledFacts
  <2>4. tab' = r
    BY <2>2
  <2> HIDE DEF r
  <2>5. ~wireUp /\ conn.up = <<>> /\ conn.asked = {}
        /\ \A i \in DOMAIN conn.dn : conn.dn[i].k \in {"ready", "line"}
    BY <1>0, <1>7, <1>11 DEF WireGood, wireUp
  <2>6. Range(conn.up) = {}
    BY <2>5 DEF Range
  <2>7. \A m : m \in blind' <=>
          m \in wrote /\ (m \in Range(tab.queue) \/ Has(late, m) \/ ~ProvenBy(tab, lines, m))
    BY <2>2 DEF Unproved, ProvenBy
  <2>8. wireUp'
    BY <1>2, <1>6, <2>3, <2>4 DEF wireUp
  <2>9. Once'
    <3>1. \A i \in DOMAIN late' : late'[i].m \in blind'
      BY <1>0, <1>1, <2>7 DEF Written, Has
    <3>2. ASSUME NEW m \in Msgs, taken'[m] # 0, m \notin blind' PROVE Settles(m)'
      <4>1. m \in wrote
        BY <1>0, <1>1, <3>2 DEF Written
      <4>2. m \notin Range(tab'.queue) /\ ~Has(tab'.outbox, m)
        BY <2>3, <2>4, <2>7, <3>2, <4>1
      <4> QED
        BY <1>6, <2>6, <4>2 DEF Settles
    <3> HIDE DEF Settles
    <3> QED
      BY <2>8, <3>1, <3>2 DEF Once
  <2>10. \A i \in DOMAIN conn'.dn : /\ conn'.dn[i].k = "line" /\ FrameGood(conn.dn[i + 1])
                                    /\ conn'.dn[i] = conn.dn[i + 1]
    <3>1. ASSUME NEW i \in DOMAIN rest PROVE rest[i].k = "line" /\ FrameGood(conn.dn[i + 1])
      BY <1>0, <1>3, <2>5, <3>1 DEF WireGood
    <3> QED
      BY <1>3, <1>6, <3>1
  <2>11. WireGood'
    BY <1>0, <1>1, <1>2, <1>6, <2>5, <2>6, <2>8, <2>10 DEF WireGood, FrameGood
  <2>12. \A m : Shows(tab, m)' => m \in wrote
    <3>1. \A m : Has(lines, m) => m \in wrote
      BY <1>0, <2>1 DEF Written, Has
    <3>2. \A m : Shows(tab, m)' => Shows(r, m)
      BY <2>4 DEF Shows
    <3> QED
      BY <1>0, <2>3, <3>1, <3>2 DEF Written
  <2>13. blind' \subseteq Msgs
    BY <1>0, <2>7 DEF Typed
  <2>14. Typed' /\ Written' /\ Receipts'
    BY <1>0, <1>1, <1>6, <2>3, <2>4, <2>12, <2>13 DEF Typed, Written, Receipts
  <2>15. Somewhere'
    BY <1>0, <1>1, <2>1, <2>3, <2>4 DEF Somewhere
  <2> QED
    BY <2>3, <2>4, <2>9, <2>11, <2>14, <2>15 DEF Core
<1> QED
  BY <1>10, <1>11

\* A message leaves: it was new, queued or kept, and is now kept and on the wire.
LEMMA LeavesStep ==
  ASSUME Distinct, Core, Connection(conn), NEW m \in Msgs, NEW rows \in Seq(RowType),
         NEW queue \in Seq(Msgs), Sends(m, rows, queue), wrote' = wrote \cup {m},
         \A i \in DOMAIN rows : rows[i].state = "sent" => \E j \in DOMAIN tab.rows : tab.rows[j] = rows[i],
         \A w : Has(rows, w) => Has(tab.rows, w) \/ w = m,
         NoRepeat(queue), m \notin Range(queue), Range(queue) \subseteq Range(tab.queue),
         Range(tab.queue) \subseteq Range(queue) \cup {m},
         m \notin wrote \/ m \in Range(tab.queue) \/ Has(tab.outbox, m)
  PROVE  Core'
<1>0. /\ Typed /\ Written /\ TabGood(tab) /\ WireGood /\ Receipts /\ Once /\ Somewhere
      /\ conn \in WireType /\ conn.up \in Seq(Msgs) /\ tab \in TabType
      /\ tab.outbox \in Seq(EntryType) /\ tab.rows \in Seq(RowType) /\ OneEach(tab.outbox)
  BY DEF Core, Typed, WireType, TabType, TabGood
<1>1. UNCHANGED <<late, accepted, writing, history, taken, blind>> /\ wireUp
  BY DEF Sends, BackKeeps
<1> DEFINE e == Entry(tab.rows, m)
           o == dropFromOutbox(tab.outbox, m)
           p == Append(o, e)
<1>2. \A i \in DOMAIN tab.rows :
        ~(tab.rows[i].m = m /\ tab.rows[i].state = "sent" /\ tab.rows[i].at = 0)
  BY <1>0 DEF TabGood, Written, Shows, Has
<1>3. e \in EntryType /\ e.m = m
  BY <1>0, <1>2, EntryGood
<1>4. tab' = [tab EXCEPT !.queue = queue, !.rows = rows, !.outbox = p]
  BY DEF Sends
<1> HIDE DEF e
<1>5. /\ o \in Seq(EntryType) /\ OneEach(o)
      /\ \A k \in DOMAIN o : \E i \in DOMAIN tab.outbox : o[k] = tab.outbox[i] /\ tab.outbox[i].m # m
      /\ \A w : Has(o, w) <=> Has(tab.outbox, w) /\ w # m
  <2>1. tab.outbox \in Seq(EntryType) /\ OneEach(tab.outbox)
    BY <1>0
  <2> QED
    BY <2>1, DropFacts
<1> HIDE DEF o
<1>6. /\ p \in Seq(EntryType) /\ OneEach(p)
      /\ \A i \in DOMAIN p : (i \in DOMAIN o /\ p[i] = o[i]) \/ p[i] = e
      /\ \A w : Has(p, w) <=> Has(o, w) \/ w = m
  BY <1>3, <1>5, Grown
<1> HIDE DEF p
<1>7. /\ tab' \in TabType /\ tab'.queue = queue /\ tab'.outbox = p /\ tab'.rows = rows
      /\ tab'.ready = tab.ready
  BY <1>0, <1>4, <1>6 DEF TabType
<1>8. TabGood(tab)'
  <2>1. \A i \in DOMAIN p : p[i].m \notin Range(queue)
    <3>1. \A i \in DOMAIN tab.outbox : tab.outbox[i].m \notin Range(queue)
      BY <1>0 DEF TabGood
    <3>2. \A i \in DOMAIN o : o[i].m \notin Range(queue)
      BY <1>5, <3>1
    <3> QED
      BY <1>3, <1>6, <3>2
  <2>2. ASSUME NEW i \in DOMAIN rows, rows[i].state = "sent", rows[i].at = 0
        PROVE  rows[i].m \notin Range(queue) /\ ~Has(p, rows[i].m)
    <3>1. PICK j \in DOMAIN tab.rows : tab.rows[j] = rows[i]
      BY <2>2
    <3>2. rows[i].m # m
      BY <1>2, <2>2, <3>1
    <3> QED
      BY <1>0, <1>5, <1>6, <2>2, <3>1, <3>2 DEF TabGood
  <2> QED
    BY <1>6, <1>7, <2>1, <2>2 DEF TabGood
<1>9. /\ conn' \in WireType /\ conn'.st = conn.st /\ conn'.b = conn.b /\ conn'.dn = conn.dn
      /\ conn'.asked = conn.asked /\ conn'.snap = conn.snap
      /\ Range(conn'.up) \subseteq Range(conn.up) \cup {m}
  <2> DEFINE u == Append(conn.up, m)
  <2>1. u \in Seq(Msgs) /\ Range(u) = Range(conn.up) \cup {m}
    BY <1>0, Grown
  <2>2. conn' = conn \/ conn' = [conn EXCEPT !.up = u]
    <3>1. CASE conn.deaf
      <4>1. conn' = [conn EXCEPT !.up = conn.up]
        BY <3>1 DEF Sends
      <4> QED
        BY <1>0, <4>1 DEF WireType
    <3>2. CASE ~conn.deaf
      BY <3>2 DEF Sends
    <3> QED
      BY <3>1, <3>2
  <2> HIDE DEF u
  <2>3. [conn EXCEPT !.up = u] \in WireType
    BY <1>0, <2>1 DEF WireType
  <2>4. CASE conn' = conn
    BY <1>0, <2>4
  <2>5. CASE conn' = [conn EXCEPT !.up = u]
    BY <1>0, <2>1, <2>3, <2>5 DEF WireType
  <2> QED
    BY <2>2, <2>4, <2>5
<1>10. wireUp'
  BY <1>1, <1>7, <1>9 DEF wireUp
<1>11. WireGood'
  BY <1>0, <1>1, <1>7, <1>9, <1>10 DEF WireGood, FrameGood, wireUp
<1>12. Once'
  <2>1. ASSUME NEW w \in Msgs, taken[w] # 0, w \notin blind PROVE Settles(w)'
    <3>1. Settles(w) /\ (w = m => Knows(conn.b, w))
      BY <1>0, <1>1, <2>1 DEF Once, Settles, Written
    <3> QED
      BY <1>1, <1>5, <1>6, <1>7, <1>9, <3>1 DEF Settles, Knows
  <2> HIDE DEF Settles
  <2> QED
    BY <1>0, <1>1, <1>10, <2>1 DEF Once
<1>13. Written'
  <2>1. \A w : Shows(tab, w)' => w \in wrote \/ w = m
    BY <1>0, <1>5, <1>6, <1>7 DEF Written, Shows
  <2> QED
    BY <1>0, <1>1, <1>9, <2>1 DEF Written
<1>14. Typed' /\ Receipts'
  BY <1>0, <1>1, <1>7, <1>9 DEF Typed, Receipts
<1>15. Somewhere'
  BY <1>0, <1>1, <1>5, <1>6, <1>7 DEF Somewhere
<1> QED
  BY <1>8, <1>11, <1>12, <1>13, <1>14, <1>15 DEF Core

\* A new bubble for a message that leaves.
LEMMA BubbleFacts ==
  ASSUME NEW rows \in Seq(RowType), NEW m \in Msgs
  PROVE  /\ Append(rows, Row(m, "sending")) \in Seq(RowType)
         /\ \A i \in DOMAIN Append(rows, Row(m, "sending")) :
              Append(rows, Row(m, "sending"))[i].state = "sent" =>
                \E j \in DOMAIN rows : rows[j] = Append(rows, Row(m, "sending"))[i]
         /\ \A w : Has(Append(rows, Row(m, "sending")), w) => Has(rows, w) \/ w = m
<1> DEFINE after == Append(rows, Row(m, "sending"))
<1>1. Row(m, "sending") \in RowType /\ Row(m, "sending").m = m /\ Row(m, "sending").state = "sending"
  BY DEF Row, RowType
<1> HIDE DEF Row
<1>2. /\ after \in Seq(RowType)
      /\ \A i \in DOMAIN after : (i \in DOMAIN rows /\ after[i] = rows[i])
                                 \/ after[i] = Row(m, "sending")
      /\ \A w : Has(after, w) <=> Has(rows, w) \/ Row(m, "sending").m = w
  BY <1>1, Grown
<1> HIDE DEF after
<1>3. /\ after \in Seq(RowType)
      /\ \A i \in DOMAIN after : after[i].state = "sent" => \E j \in DOMAIN rows : rows[j] = after[i]
      /\ \A w : Has(after, w) => Has(rows, w) \/ w = m
  BY <1>1, <1>2
<1> QED
  BY <1>3 DEF after

\* The dispatch of a resend or of the queue.
LEMMA DispatchesStep ==
  ASSUME Distinct, Core, Connection(conn), Dispatches
  PROVE  Core'
<1>0. /\ Typed /\ Written /\ TabGood(tab) /\ tab.outbox \in Seq(EntryType)
      /\ tab.rows \in Seq(RowType) /\ tab.queue \in Seq(Msgs) /\ NoRepeat(tab.queue)
  BY DEF Core, Typed, TabType, TabGood
<1>1. wrote' = wrote
  BY DEF Dispatches
<1>2. ASSUME NEW i \in DOMAIN tab.outbox,
             Sends(tab.outbox[i].m, settleUserRow(tab.rows, {tab.outbox[i].m}, "sending"), tab.queue)
      PROVE  Core'
  <2> DEFINE m == tab.outbox[i].m
             rows == settleUserRow(tab.rows, {m}, "sending")
  <2>1. tab.outbox[i] \in EntryType
    BY <1>0, ElementOfSeq
  <2>2. m \in Msgs /\ m \notin Range(tab.queue) /\ Has(tab.outbox, m) /\ m \in wrote
    BY <1>0, <2>1 DEF EntryType, TabGood, Has, Written, Shows
  <2>3. Sends(m, rows, tab.queue)
    BY <1>2
  <2> HIDE DEF m
  <2>4. /\ rows \in Seq(RowType)
        /\ \A j \in DOMAIN rows : rows[j].state = "sent" => \E k \in DOMAIN tab.rows : tab.rows[k] = rows[j]
        /\ \A w : Has(rows, w) => Has(tab.rows, w) \/ w = m
    <3>1. tab.rows \in Seq(RowType)
      BY <1>0
    <3>2. /\ rows \in Seq(RowType) /\ DOMAIN rows = DOMAIN tab.rows
          /\ \A j \in DOMAIN tab.rows : rows[j] = tab.rows[j] \/ rows[j].state = "sending"
          /\ \A w : Has(rows, w) <=> Has(tab.rows, w)
      BY <3>1, SettledFacts
    <3> HIDE DEF rows
    <3> QED
      BY <3>2
  <2> HIDE DEF rows
  <2>5. wrote' = wrote \cup {m}
    BY <1>1, <2>2
  <2> QED
    BY <1>0, <2>2, <2>3, <2>4, <2>5, LeavesStep
<1>3. ASSUME tab.queue # <<>>,
             Sends(Head(tab.queue), Append(tab.rows, Row(Head(tab.queue), "sending")), Tail(tab.queue))
      PROVE  Core'
  <2> DEFINE m == Head(tab.queue)
             rows == Append(tab.rows, Row(m, "sending"))
             queue == Tail(tab.queue)
  <2>1. /\ m \in Msgs /\ queue \in Seq(Msgs) /\ Range(tab.queue) = Range(queue) \cup {m}
        /\ NoRepeat(queue) /\ m \notin Range(queue) /\ m \in Range(tab.queue)
    BY <1>0, <1>3, Shrunk
  <2>2. m \in wrote
    BY <1>0, <2>1 DEF Written, Shows
  <2>3. Sends(m, rows, queue)
    BY <1>3
  <2> HIDE DEF m, queue
  <2>4. /\ rows \in Seq(RowType)
        /\ \A j \in DOMAIN rows : rows[j].state = "sent" => \E k \in DOMAIN tab.rows : tab.rows[k] = rows[j]
        /\ \A w : Has(rows, w) => Has(tab.rows, w) \/ w = m
    <3>1. tab.rows \in Seq(RowType)
      BY <1>0
    <3> QED
      BY <2>1, <3>1, BubbleFacts
  <2> HIDE DEF rows
  <2>5. wrote' = wrote \cup {m}
    BY <1>1, <2>2
  <2> QED
    BY <2>1, <2>3, <2>4, <2>5, LeavesStep
<1> QED
  BY <1>2, <1>3 DEF Dispatches

\* The person writes: straight out, or behind the queue.
LEMMA WritesStep ==
  ASSUME Distinct, Core, Connection(conn), NEW m \in Msgs, Writes(m)
  PROVE  Core'
<1>0. /\ Typed /\ Written /\ TabGood(tab) /\ WireGood /\ Receipts /\ Once /\ Somewhere
      /\ tab \in TabType /\ tab.rows \in Seq(RowType) /\ tab.queue \in Seq(Msgs)
  BY DEF Core, Typed, TabType
<1>1. m \notin wrote /\ wrote' = wrote \cup {m}
  BY DEF Writes
<1>2. CASE tab.queue = <<>> /\ Sends(m, Append(tab.rows, Row(m, "sending")), <<>>)
  <2> DEFINE rows == Append(tab.rows, Row(m, "sending"))
             queue == <<>>
  <2>1. /\ queue \in Seq(Msgs) /\ NoRepeat(queue) /\ Range(queue) = {} /\ Range(tab.queue) = {}
    BY <1>2, EmptySeq DEF NoRepeat, Range
  <2>2. /\ rows \in Seq(RowType)
        /\ \A j \in DOMAIN rows : rows[j].state = "sent" => \E k \in DOMAIN tab.rows : tab.rows[k] = rows[j]
        /\ \A w : Has(rows, w) => Has(tab.rows, w) \/ w = m
    BY <1>0, BubbleFacts
  <2>3. Sends(m, rows, queue)
    BY <1>2
  <2> HIDE DEF rows, queue
  <2> QED
    BY <1>1, <2>1, <2>2, <2>3, LeavesStep
<1>3. CASE /\ tab' = [tab EXCEPT !.queue = Append(tab.queue, m)]
           /\ UNCHANGED <<conn, blind, skewed>> /\ BackKeeps /\ ChatKeeps
  <2>1. UNCHANGED <<conn, late, accepted, writing, history, taken, blind>>
    BY <1>3 DEF BackKeeps
  <2> DEFINE q == Append(tab.queue, m)
  <2>2. m \notin Range(tab.queue)
    BY <1>0, <1>1 DEF Written, Shows
  <2>3. q \in Seq(Msgs) /\ Range(q) = Range(tab.queue) \cup {m} /\ NoRepeat(q)
    BY <1>0, <2>2, Grown DEF TabGood
  <2>4. tab' = [tab EXCEPT !.queue = q]
    BY <1>3
  <2> HIDE DEF q
  <2>5. /\ tab' \in TabType /\ tab'.queue = q /\ tab'.outbox = tab.outbox /\ tab'.rows = tab.rows
        /\ tab'.ready = tab.ready
    BY <1>0, <2>3, <2>4 DEF TabType
  <2>6. \A w : Shows(tab, w) => w # m
    BY <1>0, <1>1 DEF Written
  <2>7. TabGood(tab)'
    BY <1>0, <2>3, <2>5, <2>6 DEF TabGood, Shows, Has
  <2>8. wireUp' <=> wireUp
    BY <2>1, <2>5 DEF wireUp
  <2>9. WireGood'
    BY <1>0, <1>1, <2>1, <2>3, <2>5, <2>8 DEF WireGood, FrameGood, Written
  <2>10. Once'
    <3>1. \A w \in Msgs : taken[w] # 0 => w # m
      BY <1>0, <1>1 DEF Written
    <3>2. \A w : w # m /\ Settles(w) => Settles(w)'
      BY <2>1, <2>3, <2>5 DEF Settles, Knows
    <3> HIDE DEF Settles
    <3> QED
      BY <1>0, <2>1, <2>8, <3>1, <3>2 DEF Once, Knows
  <2>11. Written'
    <3>1. \A w : Shows(tab, w)' => w \in wrote \/ w = m
      BY <1>0, <2>3, <2>5 DEF Written, Shows
    <3> QED
      BY <1>0, <1>1, <2>1, <3>1 DEF Written
  <2>12. Typed' /\ Receipts' /\ Somewhere'
    BY <1>0, <1>1, <2>1, <2>3, <2>5 DEF Typed, Receipts, Somewhere
  <2> QED
    BY <2>7, <2>9, <2>10, <2>11, <2>12 DEF Core
<1> QED
  BY <1>2, <1>3 DEF Writes

\* What an answer leaves of its socket.
LEMMA ReplyFacts ==
  ASSUME NEW c \in WireType, NEW k \in {"ack", "nack"}, NEW m \in Msgs
  PROVE  /\ Answer(c, k, m) \in WireType /\ Answer(c, k, m).st = c.st
         /\ Answer(c, k, m).b = c.b /\ Answer(c, k, m).snap = c.snap
         /\ Answer(c, k, m).up = c.up /\ Answer(c, k, m).asked = c.asked
         /\ \/ Answer(c, k, m).dn = c.dn
            \/ Answer(c, k, m).dn = Append(c.dn, Frame(k, m, 0))
<1> DEFINE d == Append(c.dn, Frame(k, m, 0))
<1>1. Answer(c, k, m) \in WireType
      /\ (Answer(c, k, m) = c \/ Answer(c, k, m) = [c EXCEPT !.dn = d])
  BY AnswerKeeps
<1> HIDE DEF d
<1>2. CASE Answer(c, k, m) = c
  BY <1>1, <1>2
<1>3. CASE Answer(c, k, m) = [c EXCEPT !.dn = d]
  <2>1. /\ [c EXCEPT !.dn = d].st = c.st /\ [c EXCEPT !.dn = d].b = c.b
        /\ [c EXCEPT !.dn = d].snap = c.snap /\ [c EXCEPT !.dn = d].up = c.up
        /\ [c EXCEPT !.dn = d].asked = c.asked /\ [c EXCEPT !.dn = d].dn = d
    BY DEF WireType
  <2> QED
    BY <1>1, <1>3, <2>1 DEF d
<1> QED
  BY <1>1, <1>2, <1>3

\* The frames of a socket, with one more at most.
LEMMA FramesGrow ==
  ASSUME WireGood, conn.dn \in Seq(FrameType), NEW f \in FrameType, FrameGood(f)',
         f.k # "ready", wireUp \/ f.k = "line",
         conn'.dn = conn.dn \/ conn'.dn = Append(conn.dn, f)
  PROVE  \A i \in DOMAIN conn'.dn :
           \/ \E j \in DOMAIN conn.dn : /\ conn'.dn[i] = conn.dn[j]
                                        /\ conn.dn[j].k = "ready" => i = 1
           \/ \E g : /\ conn'.dn[i] = g /\ FrameGood(g)' /\ g.k # "ready"
                     /\ wireUp \/ g.k = "line"
<1> DEFINE p == Append(conn.dn, f)
<1>1. \A i \in DOMAIN p : (i \in DOMAIN conn.dn /\ p[i] = conn.dn[i]) \/ p[i] = f
  BY Grown
<1> HIDE DEF p
<1>2. \A i \in DOMAIN conn'.dn : (i \in DOMAIN conn.dn /\ conn'.dn[i] = conn.dn[i]) \/ conn'.dn[i] = f
  BY <1>1 DEF p
<1>3. \A i \in DOMAIN conn.dn : conn.dn[i].k = "ready" => i = 1
  BY DEF WireGood
<1> QED
  BY <1>2, <1>3

\* A turn taken: one receipt more, that of the message, and its line to be appended.
LEMMA TakenFacts ==
  ASSUME IInv, Typed, Written, Receipts, NEW b \in Backends, NEW m \in wrote, Takes(b, m)
  PROVE  /\ writing' \in Seq(WriteType) /\ \A i \in DOMAIN writing' : writing'[i].m \in wrote
         /\ accepted' \in [Backends -> SUBSET LineType] /\ taken' \in [Msgs -> Nat]
         /\ Receipts' /\ ~Knows(b, m) /\ Knows(b, m)' /\ ServerTime \in Nat \ {0}
         /\ \A c \in Backends : \A w : Knows(c, w) => Knows(c, w)'
         /\ taken'[m] = taken[m] + 1 /\ \A w \in Msgs \ {m} : taken'[w] = taken[w]
<1> DEFINE line == [m |-> m, at |-> ServerTime]
           w0 == [b |-> b, m |-> m, at |-> ServerTime, again |-> FALSE]
<1>1. /\ accepted \in [Backends -> SUBSET LineType] /\ writing \in Seq(WriteType)
      /\ taken \in [Msgs -> Nat] /\ m \in Msgs
  BY DEF Typed
<1>2. ServerTime \in Nat \ {0}
  BY BaseFacts DEF IInv, Promise, DiskGood, Now, ServerTime
<1>3. line \in LineType /\ line.m = m /\ w0 \in WriteType /\ w0.m = m
  BY <1>1, <1>2 DEF LineType, WriteType
<1>4. /\ ~Knows(b, m) /\ writing' = Append(writing, w0)
      /\ accepted' = [accepted EXCEPT ![b] = accepted[b] \cup {line}]
      /\ taken' = [taken EXCEPT ![m] = taken[m] + 1]
  BY DEF Takes, Appended
<1> HIDE DEF line, w0
<1>5. writing' \in Seq(WriteType) /\ \A i \in DOMAIN writing' : writing'[i].m \in wrote
  BY <1>1, <1>3, <1>4, Grown DEF Written
<1>6. /\ accepted' \in [Backends -> SUBSET LineType] /\ accepted'[b] = accepted[b] \cup {line}
      /\ \A c \in Backends \ {b} : accepted'[c] = accepted[c]
  BY <1>1, <1>3, <1>4
<1>7. Receipts'
  BY <1>3, <1>4, <1>6 DEF Receipts, Knows
<1>8. Knows(b, m)' /\ \A c \in Backends : \A w : Knows(c, w) => Knows(c, w)'
  BY <1>3, <1>6 DEF Knows
<1>9. taken' \in [Msgs -> Nat] /\ taken'[m] = taken[m] + 1 /\ \A w \in Msgs \ {m} : taken'[w] = taken[w]
  BY <1>1, <1>4
<1> QED
  BY <1>2, <1>4, <1>5, <1>6, <1>7, <1>8, <1>9

\* A receipt given before: at most its line is appended again.
LEMMA ChargedFacts ==
  ASSUME Typed, Written, NEW b \in Backends, NEW m \in wrote, Charges(b, m) \/ Refuses(b, m)
  PROVE  /\ writing' \in Seq(WriteType) /\ \A i \in DOMAIN writing' : writing'[i].m \in wrote
         /\ UNCHANGED <<accepted, taken>>
<1>1. writing \in Seq(WriteType) /\ accepted \in [Backends -> SUBSET LineType]
  BY DEF Typed
<1>2. UNCHANGED <<accepted, taken>>
  BY DEF Charges, Refuses
<1>3. CASE Refuses(b, m)
  BY <1>1, <1>2, <1>3 DEF Refuses, Written
<1>4. CASE Charges(b, m)
  <2>1. PICK l \in accepted[b] : l.m = m /\ chargeReceipt(b, l)
    BY <1>4 DEF Charges
  <2>2. l \in LineType
    BY <1>1
  <2> DEFINE w0 == [b |-> b, m |-> l.m, at |-> l.at, again |-> FALSE]
             same == [i \in DOMAIN writing |->
                        IF writing[i].m = l.m /\ writing[i].at = l.at
                        THEN [writing[i] EXCEPT !.again = TRUE] ELSE writing[i]]
  <2>3. writing' = writing \/ writing' = same \/ writing' = Append(writing, w0)
    BY <2>1 DEF chargeReceipt, Appended
  <2>4. CASE writing' = writing
    BY <1>1, <1>2, <2>4 DEF Written
  <2>5. CASE writing' = same
    <3>1. Len(writing) \in Nat /\ DOMAIN writing = 1 .. Len(writing)
          /\ \A i \in DOMAIN writing : writing[i] \in WriteType
      BY <1>1, LenProperties, ElementOfSeq
    <3>2. ASSUME NEW i \in DOMAIN writing
          PROVE  /\ [writing[i] EXCEPT !.again = TRUE] \in WriteType
                 /\ [writing[i] EXCEPT !.again = TRUE].m = writing[i].m
      <4>1. writing[i] \in WriteType
        BY <3>1
      <4> QED
        BY <4>1 DEF WriteType
    <3>3. /\ same \in Seq(WriteType) /\ DOMAIN same = DOMAIN writing
          /\ \A i \in DOMAIN writing : same[i].m = writing[i].m
      BY <3>1, <3>2
    <3> HIDE DEF same
    <3> QED
      BY <1>2, <2>5, <3>3 DEF Written
  <2>6. CASE writing' = Append(writing, w0)
    <3>1. w0 \in WriteType /\ w0.m = m
      BY <2>1, <2>2 DEF LineType, WriteType
    <3> HIDE DEF w0
    <3> QED
      BY <1>1, <1>2, <2>6, <3>1, Grown DEF Written
  <2> QED
    BY <2>3, <2>4, <2>5, <2>6
<1> QED
  BY <1>3, <1>4

\* The server reads a frame of the tab: it takes the turn, knows it, or refuses it.
LEMMA HandlesStep ==
  ASSUME IInv, Core, Connection(conn), ServerHandles
  PROVE  Core'
<1>0. /\ Typed /\ Written /\ TabGood(tab) /\ WireGood /\ Receipts /\ Once /\ Somewhere
      /\ conn \in WireType /\ conn.up \in Seq(Msgs) /\ conn.dn \in Seq(FrameType)
      /\ history \in Seq(LineType) /\ conn.snap \in Nat /\ conn.asked \subseteq Msgs
  BY DEF Core, Typed, WireType
<1>1. UNCHANGED <<tab, late, history, wrote, blind>> /\ conn.st = "open" /\ conn.up # <<>>
  BY DEF ServerHandles
<1>2. PICK m \in Msgs : /\ m = Head(conn.up) /\ m \in Range(conn.up)
                        /\ Tail(conn.up) \in Seq(Msgs)
                        /\ Range(Tail(conn.up)) \subseteq Range(conn.up)
  BY <1>0, <1>1, Shrunk
<1>3. PICK b \in Backends : b = conn.b
  BY <1>1 DEF Connection
<1>4. wireUp /\ m \in wrote /\ m \notin Range(tab.queue)
  BY <1>0, <1>1, <1>2 DEF WireGood, Written
<1> DEFINE rest == [conn EXCEPT !.up = Tail(conn.up)]
           asks == [rest EXCEPT !.asked = rest.asked \cup {m}]
<1>5. /\ rest \in WireType /\ rest.st = conn.st /\ rest.b = b /\ rest.snap = conn.snap
      /\ rest.up = Tail(conn.up) /\ rest.asked = conn.asked /\ rest.dn = conn.dn
  BY <1>0, <1>2, <1>3 DEF WireType
<1>6. \/ Takes(b, m) /\ conn' = asks
      \/ Charges(b, m) /\ (conn' = asks \/ (conn' = Answer(rest, "ack", m) /\ Has(history, m)))
      \/ Refuses(b, m) /\ conn' = Answer(rest, "nack", m)
  <2>1. \/ Takes(b, m) /\ conn' = asks
        \/ /\ Charges(b, m)
           /\ conn' = IF \E l \in accepted[b] : l.m = m /\ l \in Range(history)
                      THEN Answer(rest, "ack", m) ELSE asks
        \/ Refuses(b, m) /\ conn' = Answer(rest, "nack", m)
    BY <1>2, <1>3 DEF ServerHandles
  <2>2. (\E l \in accepted[b] : l.m = m /\ l \in Range(history)) => Has(history, m)
    BY DEF Has, Range
  <2> HIDE DEF rest, asks
  <2> QED
    BY <2>1, <2>2
<1> HIDE DEF rest
<1>7. asks \in WireType /\ asks.st = conn.st /\ asks.b = b /\ asks.snap = conn.snap
      /\ asks.up = Tail(conn.up) /\ asks.asked = conn.asked \cup {m} /\ asks.dn = conn.dn
  BY <1>0, <1>5 DEF WireType
<1> HIDE DEF asks
<1>8. \A k \in {"ack", "nack"} :
        /\ Answer(rest, k, m) \in WireType /\ Answer(rest, k, m).st = conn.st
        /\ Answer(rest, k, m).b = b /\ Answer(rest, k, m).snap = conn.snap
        /\ Answer(rest, k, m).up = Tail(conn.up) /\ Answer(rest, k, m).asked = conn.asked
        /\ \/ Answer(rest, k, m).dn = conn.dn
           \/ Answer(rest, k, m).dn = Append(conn.dn, Frame(k, m, 0))
  <2> TAKE k \in {"ack", "nack"}
  <2> DEFINE r == Answer(rest, k, m)
  <2>1. /\ r \in WireType /\ r.st = rest.st /\ r.b = rest.b /\ r.snap = rest.snap
        /\ r.up = rest.up /\ r.asked = rest.asked
        /\ r.dn = rest.dn \/ r.dn = Append(rest.dn, Frame(k, m, 0))
    BY <1>5, ReplyFacts, SMTT(60)
  <2> HIDE DEF r
  <2>2. /\ r \in WireType /\ r.st = conn.st /\ r.b = b /\ r.snap = conn.snap
        /\ r.up = Tail(conn.up) /\ r.asked = conn.asked
        /\ r.dn = conn.dn \/ r.dn = Append(conn.dn, Frame(k, m, 0))
    BY <1>5, <2>1
  <2> QED
    BY <2>2 DEF r
<1>9. /\ conn' \in WireType /\ conn'.st = conn.st /\ conn'.b = b /\ conn'.snap = conn.snap
      /\ conn'.up = Tail(conn.up) /\ conn'.asked \subseteq conn.asked \cup {m}
      /\ \/ conn'.dn = conn.dn
         \/ conn'.dn = Append(conn.dn, Frame("ack", m, 0)) /\ Has(history, m)
         \/ conn'.dn = Append(conn.dn, Frame("nack", m, 0))
  BY <1>6, <1>7, <1>8
<1>10. PICK f \in FrameType : /\ FrameGood(f)' /\ f.k # "ready"
                              /\ conn'.dn = conn.dn \/ conn'.dn = Append(conn.dn, f)
  <2>1. /\ Frame("ack", m, 0) \in FrameType /\ Frame("ack", m, 0).k = "ack" /\ Frame("ack", m, 0).m = m
        /\ Frame("nack", m, 0) \in FrameType /\ Frame("nack", m, 0).k = "nack" /\ Frame("nack", m, 0).m = m
    BY DEF Frame, FrameType
  <2>2. FrameGood(Frame("nack", m, 0))' /\ (Has(history, m) => FrameGood(Frame("ack", m, 0))')
    BY <1>1, <1>4, <2>1 DEF FrameGood
  <2> QED
    BY <1>9, <2>1, <2>2
<1>11. \A i \in DOMAIN conn'.dn :
         \/ \E j \in DOMAIN conn.dn : /\ conn'.dn[i] = conn.dn[j]
                                      /\ conn.dn[j].k = "ready" => i = 1
         \/ \E g : /\ conn'.dn[i] = g /\ FrameGood(g)' /\ g.k # "ready"
                   /\ wireUp \/ g.k = "line"
  BY <1>0, <1>4, <1>10, FramesGrow
<1>12. Len(history) \in Nat /\ \A i \in DOMAIN conn.dn : conn.dn[i].at \in Nat
  <2>1. \A i \in DOMAIN conn.dn : conn.dn[i] \in FrameType
    BY <1>0, ElementOfSeq
  <2> QED
    BY <1>0, <2>1, LenProperties DEF FrameType
<1>13. WireGood' /\ wireUp'
  <2>1. conn'.asked \subseteq conn.asked \cup Range(conn.up)
    BY <1>2, <1>9
  <2>2. Range(conn'.up) \subseteq Range(conn.up)
    BY <1>2, <1>9
  <2>3. Range(tab'.queue) \subseteq Range(tab.queue) /\ tab'.ready = tab.ready
        /\ wrote' = wrote /\ Len(history') = Len(history) /\ \A w : Has(history, w) => Has(history', w)
    BY <1>1
  <2> QED
    BY <1>0, <1>1, <1>4, <1>9, <1>11, <1>12, <2>1, <2>2, <2>3, WireStays
<1>14. /\ writing' \in Seq(WriteType) /\ \A i \in DOMAIN writing' : writing'[i].m \in wrote
       /\ accepted' \in [Backends -> SUBSET LineType] /\ taken' \in [Msgs -> Nat] /\ Receipts'
       /\ \A w : Knows(b, w) => Knows(b, w)'
       /\ \A w \in Msgs : taken'[w] = taken[w] \/ (w = m /\ Knows(b, w)')
  <2>1. CASE Takes(b, m)
    <3>1. Knows(b, m)' /\ \A w \in Msgs \ {m} : taken'[w] = taken[w]
      BY <1>0, <1>4, <2>1, TakenFacts
    <3> QED
      BY <1>0, <1>4, <2>1, <3>1, TakenFacts
  <2>2. CASE Charges(b, m) \/ Refuses(b, m)
    <3>1. /\ writing' \in Seq(WriteType) /\ \A i \in DOMAIN writing' : writing'[i].m \in wrote
          /\ UNCHANGED <<accepted, taken>>
      BY <1>0, <1>4, <2>2, ChargedFacts
    <3> QED
      BY <1>0, <3>1 DEF Typed, Receipts, Knows
  <2> QED
    BY <1>6, <2>1, <2>2
<1>15. Once'
  <2>1. ASSUME NEW w \in Msgs, taken'[w] # 0 PROVE w \in blind \/ Settles(w)'
    <3>1. CASE Knows(b, w)'
      BY <1>3, <1>9, <3>1 DEF Settles, Knows
    <3>2. CASE ~Knows(b, w)'
      <4>1. w \in blind \/ Settles(w)
        BY <1>0, <1>4, <1>14, <2>1, <3>2 DEF Once
      <4>2. CASE Settles(w)
        BY <1>1, <1>2, <1>3, <1>9, <1>14, <3>2, <4>2 DEF Settles
      <4> QED
        BY <4>1, <4>2
    <3> QED
      BY <3>1, <3>2
  <2> HIDE DEF Settles
  <2> QED
    BY <1>0, <1>1, <1>4, <1>13, <2>1 DEF Once
<1>16. Written'
  <2>1. \A w \in Msgs : taken'[w] # 0 => w \in wrote
    BY <1>0, <1>4, <1>14 DEF Written
  <2>2. Range(conn'.up) \subseteq wrote /\ conn'.asked \subseteq wrote
    BY <1>0, <1>2, <1>4, <1>9 DEF Written
  <2> QED
    BY <1>0, <1>1, <1>14, <2>1, <2>2 DEF Written
<1>17. Typed' /\ TabGood(tab)' /\ Somewhere'
  BY <1>0, <1>1, <1>9, <1>14 DEF Typed, Somewhere
<1> QED
  BY <1>13, <1>14, <1>15, <1>16, <1>17 DEF Core

\* The frame of a socket that is gone: it waits for its driver alone, or for a verdict the
\* last replay could not give.
LEMMA LateStep ==
  ASSUME IInv, Core, Connection(conn), LateHandled
  PROVE  Core'
<1>0. /\ Typed /\ Written /\ TabGood(tab) /\ WireGood /\ Receipts /\ Once /\ Somewhere
      /\ conn \in WireType /\ conn.dn \in Seq(FrameType) /\ late \in Seq(LateType)
      /\ history \in Seq(LineType) /\ conn.snap \in Nat
  BY DEF Core, Typed, WireType
<1>1. UNCHANGED <<tab, history, wrote, blind>> /\ late # <<>> /\ late' = Tail(late)
  BY DEF LateHandled
<1>2. /\ late' \in Seq(LateType) /\ Head(late) \in LateType
      /\ 1 \in DOMAIN late /\ Head(late) = late[1]
      /\ \A i \in DOMAIN late' : i + 1 \in DOMAIN late /\ late'[i] = late[i + 1]
  BY <1>0, <1>1, Shrunk
<1>3. PICK m \in Msgs : m = Head(late).m
  BY <1>2 DEF LateType
<1>4. PICK b \in Backends :
        /\ Head(late).b = b
        /\ \/ /\ Takes(b, m)
              /\ \/ conn' = conn
                 \/ conn' = [conn EXCEPT !.dn = Append(conn.dn, Frame("line", m, ServerTime))]
           \/ (Charges(b, m) \/ Refuses(b, m)) /\ conn' = conn
  BY <1>3 DEF LateHandled
<1>5. m \in wrote
  BY <1>0, <1>2, <1>3 DEF Written
<1>6. /\ writing' \in Seq(WriteType) /\ \A i \in DOMAIN writing' : writing'[i].m \in wrote
      /\ accepted' \in [Backends -> SUBSET LineType] /\ taken' \in [Msgs -> Nat] /\ Receipts'
      /\ \A c \in Backends : \A w : Knows(c, w) => Knows(c, w)'
      /\ \A w \in Msgs : taken'[w] = taken[w] \/ (w = m /\ Knows(b, w)')
  <2>1. CASE Takes(b, m)
    <3>1. Knows(b, m)' /\ \A w \in Msgs \ {m} : taken'[w] = taken[w]
      BY <1>0, <1>5, <2>1, TakenFacts
    <3> QED
      BY <1>0, <1>5, <2>1, <3>1, TakenFacts
  <2>2. CASE Charges(b, m) \/ Refuses(b, m)
    <3>1. /\ writing' \in Seq(WriteType) /\ \A i \in DOMAIN writing' : writing'[i].m \in wrote
          /\ UNCHANGED <<accepted, taken>>
      BY <1>0, <1>5, <2>2, ChargedFacts
    <3> QED
      BY <1>0, <3>1 DEF Typed, Receipts, Knows
  <2> QED
    BY <1>4, <2>1, <2>2
<1>7. PICK f \in FrameType : /\ FrameGood(f)' /\ f.k = "line"
                             /\ conn' = conn \/ conn' = [conn EXCEPT !.dn = Append(conn.dn, f)]
  <2>1. CASE Takes(b, m)
    <3>1. ServerTime \in Nat \ {0}
      BY <1>0, <1>5, <2>1, TakenFacts
    <3>2. PICK at : at = ServerTime
      OBVIOUS
    <3>3. /\ Frame("line", m, at) \in FrameType /\ Frame("line", m, at).k = "line"
          /\ Frame("line", m, at).m = m /\ Frame("line", m, at).at # 0
      BY <3>1, <3>2 DEF Frame, FrameType
    <3>4. FrameGood(Frame("line", m, at))'
      BY <1>1, <1>5, <3>3 DEF FrameGood
    <3>5. conn' = conn \/ conn' = [conn EXCEPT !.dn = Append(conn.dn, Frame("line", m, at))]
      BY <1>4, <3>2
    <3> QED
      BY <3>3, <3>4, <3>5
  <2>2. CASE ~Takes(b, m)
    <3>1. conn' = conn
      BY <1>4, <2>2
    <3>2. /\ Frame("line", m, 1) \in FrameType /\ Frame("line", m, 1).k = "line"
          /\ Frame("line", m, 1).m = m /\ Frame("line", m, 1).at # 0
      BY DEF Frame, FrameType
    <3>3. FrameGood(Frame("line", m, 1))'
      BY <1>1, <1>5, <3>2 DEF FrameGood
    <3> QED
      BY <3>1, <3>2, <3>3
  <2> QED
    BY <2>1, <2>2
<1>8. /\ conn' \in WireType /\ conn'.st = conn.st /\ conn'.b = conn.b /\ conn'.snap = conn.snap
      /\ conn'.up = conn.up /\ conn'.asked = conn.asked
      /\ conn'.dn = conn.dn \/ conn'.dn = Append(conn.dn, f)
  <2> DEFINE d == Append(conn.dn, f)
  <2>1. d \in Seq(FrameType)
    BY <1>0, AppendProperties
  <2> HIDE DEF d
  <2>2. CASE conn' = conn
    BY <1>0, <2>2
  <2>3. CASE conn' = [conn EXCEPT !.dn = d]
    <3>1. conn' \in WireType /\ conn'.dn = d
      BY <1>0, <2>1, <2>3 DEF WireType
    <3> QED
      BY <1>0, <2>3, <3>1 DEF WireType, d
  <2> QED
    BY <1>7, <2>2, <2>3 DEF d
<1>9. \A i \in DOMAIN conn'.dn :
        \/ \E j \in DOMAIN conn.dn : /\ conn'.dn[i] = conn.dn[j]
                                     /\ conn.dn[j].k = "ready" => i = 1
        \/ \E g : /\ conn'.dn[i] = g /\ FrameGood(g)' /\ g.k # "ready"
                  /\ wireUp \/ g.k = "line"
  BY <1>0, <1>7, <1>8, FramesGrow
<1>10. Len(history) \in Nat /\ \A i \in DOMAIN conn.dn : conn.dn[i].at \in Nat
  <2>1. \A i \in DOMAIN conn.dn : conn.dn[i] \in FrameType
    BY <1>0, ElementOfSeq
  <2> QED
    BY <1>0, <2>1, LenProperties DEF FrameType
<1>11. WireGood' /\ (wireUp' <=> wireUp)
  <2>1. Range(tab'.queue) \subseteq Range(tab.queue) /\ tab'.ready = tab.ready
        /\ wrote' = wrote /\ Len(history') = Len(history) /\ \A w : Has(history, w) => Has(history', w)
    BY <1>1
  <2> QED
    BY <1>0, <1>8, <1>9, <1>10, <2>1, WireStays
<1>12. Once'
  <2>1. ASSUME wireUp
        PROVE  /\ \A i \in DOMAIN late' : late'[i].m \in blind
               /\ \A w \in Msgs : taken'[w] # 0 => w \in blind \/ Settles(w)'
    <3>1. \A i \in DOMAIN late' : late'[i].m \in blind
      BY <1>0, <1>2, <2>1 DEF Once
    <3>2. m \in blind
      BY <1>0, <1>2, <1>3, <2>1 DEF Once
    <3>3. conn.b \in Backends
      BY <2>1 DEF wireUp, Connection
    <3>4. \A w : Settles(w) => Settles(w)'
      <4>1. \A w : Knows(conn.b, w) => \E l \in accepted'[conn'.b] : l.m = w
        <5>1. PICK c \in Backends : c = conn.b
          BY <3>3
        <5>2. \A w : Knows(c, w) => \E l \in accepted'[c] : l.m = w
          BY <1>6 DEF Knows
        <5> QED
          BY <1>8, <5>1, <5>2 DEF Knows
      <4> QED
        BY <1>1, <1>8, <4>1 DEF Settles, Knows
    <3> HIDE DEF Settles
    <3> QED
      BY <1>0, <1>6, <2>1, <3>1, <3>2, <3>4 DEF Once
  <2>2. ASSUME ~wireUp, NEW k \in DOMAIN late', late'[k].m \notin blind
        PROVE  /\ \A j \in DOMAIN late' : late'[j].m = late'[k].m => late'[j].b = late'[k].b
               /\ taken'[late'[k].m] # 0 => Knows(late[k].b, late[k].m)'
    <3>1. PICK i \in DOMAIN late : late'[k] = late[i]
      BY <1>2
    <3>2. /\ \A j \in DOMAIN late : late[j].m = late[i].m => late[j].b = late[i].b
          /\ taken[late[i].m] # 0 => Knows(late[i].b, late[i].m)
      BY <1>0, <2>2, <3>1 DEF Once
    <3>3. \A j \in DOMAIN late' : late'[j].m = late'[k].m => late'[j].b = late'[k].b
      BY <1>2, <3>1, <3>2
    <3>4. late[i] \in LateType
      BY <1>0, ElementOfSeq
    <3>5. PICK w \in Msgs, c \in Backends : w = late[i].m /\ c = late[i].b
      BY <3>4 DEF LateType
    <3>6. taken'[w] # 0 => Knows(c, w)'
      <4>1. CASE taken'[w] = taken[w]
        BY <1>6, <3>2, <3>5, <4>1
      <4>2. CASE w = m /\ Knows(b, w)'
        <5>1. c = b
          BY <1>2, <1>3, <1>4, <3>2, <3>5, <4>2
        <5> QED
          BY <4>2, <5>1
      <4> QED
        BY <1>6, <4>1, <4>2
    <3>7. taken'[late'[k].m] # 0 => Knows(late[k].b, late[k].m)'
      BY <3>1, <3>5, <3>6 DEF Knows
    <3> QED
      BY <3>3, <3>7
  <2>3. ASSUME ~wireUp', NEW k \in DOMAIN late'
        PROVE  \/ late'[k].m \in blind'
               \/ /\ \A j \in DOMAIN late' : late'[j].m = late'[k].m => late'[j].b = late'[k].b
                  /\ taken'[late'[k].m] # 0 => Knows(late[k].b, late[k].m)'
    BY <1>1, <1>11, <2>2, <2>3
  <2> HIDE DEF Settles
  <2> QED
    BY <1>1, <1>11, <2>1, <2>3 DEF Once
<1>13. Written'
  <2>1. \A w \in Msgs : taken'[w] # 0 => w \in wrote
    BY <1>0, <1>5, <1>6 DEF Written
  <2>2. \A i \in DOMAIN late' : late'[i].m \in wrote
    BY <1>0, <1>2 DEF Written
  <2> QED
    BY <1>0, <1>1, <1>6, <1>8, <2>1, <2>2 DEF Written
<1>14. Typed' /\ TabGood(tab)' /\ Somewhere'
  BY <1>0, <1>1, <1>2, <1>6, <1>8 DEF Typed, Somewhere
<1> QED
  BY <1>6, <1>11, <1>12, <1>13, <1>14 DEF Core

\* What is left of a sequence without one element.
LEMMA RemovedFacts ==
  ASSUME NEW T, NEW s \in Seq(T), NEW i \in DOMAIN s
  PROVE  /\ RemoveAt(s, i) \in Seq(T)
         /\ \A k \in DOMAIN RemoveAt(s, i) : \E j \in DOMAIN s : RemoveAt(s, i)[k] = s[j]
<1> DEFINE n == Len(s)
           p == SubSeq(s, 1, i - 1)
           q == SubSeq(s, i + 1, n)
           r == p \o q
<1>1. n \in Nat /\ DOMAIN s = 1 .. n /\ i \in 1 .. n /\ \A k \in 1 .. n : s[k] \in T
  BY LenProperties, ElementOfSeq
<1>2. /\ p \in Seq(T) /\ Len(p) = i - 1 /\ \A k \in 1 .. i - 1 : p[k] = s[k]
  <2>1. \A k \in 1 .. i - 1 : s[k] \in T
    BY <1>1
  <2>2. i - 1 \in Int /\ 1 \in Int
    BY <1>1
  <2>3. /\ p \in Seq(T) /\ Len(p) = IF 1 <= i - 1 THEN i - 1 - 1 + 1 ELSE 0
        /\ \A k \in 1 .. i - 1 - 1 + 1 : p[k] = s[1 + k - 1]
    BY <2>1, <2>2, SubSeqProperties
  <2> HIDE DEF p
  <2> QED
    BY <1>1, <2>3
<1>3. /\ q \in Seq(T) /\ Len(q) = n - i /\ \A k \in 1 .. n - i : q[k] = s[i + k]
  <2>1. \A k \in i + 1 .. n : s[k] \in T
    BY <1>1
  <2>2. i + 1 \in Int /\ n \in Int
    BY <1>1
  <2>3. /\ q \in Seq(T) /\ Len(q) = IF i + 1 <= n THEN n - (i + 1) + 1 ELSE 0
        /\ \A k \in 1 .. n - (i + 1) + 1 : q[k] = s[i + 1 + k - 1]
    BY <2>1, <2>2, SubSeqProperties
  <2> HIDE DEF q
  <2>4. n - (i + 1) + 1 = n - i /\ n - i \in Nat /\ (IF i + 1 <= n THEN n - i ELSE 0) = n - i
    BY <1>1
  <2>5. \A k \in 1 .. n - i : i + 1 + k - 1 = i + k
    BY <1>1
  <2> QED
    BY <2>3, <2>4, <2>5
<1> HIDE DEF p, q
<1>4. /\ r \in Seq(T) /\ Len(r) = Len(p) + Len(q)
      /\ \A k \in 1 .. Len(p) + Len(q) : r[k] = IF k <= Len(p) THEN p[k] ELSE q[k - Len(p)]
  BY <1>2, <1>3, ConcatProperties
<1>5. DOMAIN r = 1 .. i - 1 + n - i
  <2>1. DOMAIN r = 1 .. Len(r)
    BY <1>4, LenProperties
  <2> QED
    BY <1>1, <1>2, <1>3, <1>4, <2>1
<1> HIDE DEF r
<1>6. ASSUME NEW k \in DOMAIN r PROVE \E j \in DOMAIN s : r[k] = s[j]
  <2>1. CASE k <= i - 1
    BY <1>1, <1>2, <1>3, <1>4, <1>5, <2>1
  <2>2. CASE ~(k <= i - 1)
    <3>0. k \in 1 .. Len(p) + Len(q) /\ ~(k <= Len(p)) /\ Len(p) = i - 1
      BY <1>1, <1>2, <1>3, <1>5, <2>2
    <3>1. k - (i - 1) \in 1 .. n - i /\ r[k] = q[k - (i - 1)]
      <4>1. r[k] = q[k - (i - 1)]
        BY <1>4, <3>0
      <4>2. k - (i - 1) \in 1 .. n - i
        BY <1>1, <1>5, <2>2
      <4> QED
        BY <4>1, <4>2
    <3>2. i + (k - (i - 1)) \in DOMAIN s /\ r[k] = s[i + (k - (i - 1))]
      BY <1>1, <1>3, <3>1
    <3> QED
      BY <3>2
  <2> QED
    BY <2>1, <2>2
<1>7. RemoveAt(s, i) = r
  BY DEF RemoveAt, r, p, q, n
<1> QED
  BY <1>4, <1>6, <1>7

\* What is left of a socket once an append is over: the answer, if it was asked for.
LEMMA AnsweredFacts ==
  ASSUME conn \in WireType, NEW w \in WriteType, NEW k \in {"ack", "nack"}
  PROVE  /\ Answered(w, k) \in WireType /\ Answered(w, k).st = conn.st
         /\ Answered(w, k).b = conn.b /\ Answered(w, k).snap = conn.snap
         /\ Answered(w, k).up = conn.up /\ Answered(w, k).asked \subseteq conn.asked
         /\ \/ Answered(w, k).dn = conn.dn
            \/ Answered(w, k).dn = Append(conn.dn, Frame(k, w.m, 0)) /\ w.m \in conn.asked
<1> DEFINE a == Answer(conn, k, w.m)
           c == [a EXCEPT !.asked = a.asked \ {w.m}]
<1>1. w.m \in Msgs
  BY DEF WriteType
<1>2. /\ a \in WireType /\ a.st = conn.st /\ a.b = conn.b /\ a.snap = conn.snap
      /\ a.up = conn.up /\ a.asked = conn.asked
      /\ a.dn = conn.dn \/ a.dn = Append(conn.dn, Frame(k, w.m, 0))
  BY <1>1, ReplyFacts
<1>3. /\ Asked(w) => Answered(w, k) = c /\ w.m \in conn.asked
      /\ ~Asked(w) => Answered(w, k) = conn
  BY DEF Answered, Asked
<1> HIDE DEF a
<1>4. /\ c \in WireType /\ c.st = a.st /\ c.b = a.b /\ c.snap = a.snap /\ c.up = a.up
      /\ c.dn = a.dn /\ c.asked = a.asked \ {w.m}
  BY <1>2 DEF WireType
<1> HIDE DEF c
<1> QED
  BY <1>2, <1>3, <1>4

\* An append that ends or fails: its line is in the history before its receipt is given.
LEMMA AppendStep ==
  ASSUME Core, Connection(conn), WriteEnds \/ WriteFails
  PROVE  Core'
<1>0. /\ Typed /\ Written /\ TabGood(tab) /\ WireGood /\ Receipts /\ Once /\ Somewhere
      /\ conn \in WireType /\ conn.dn \in Seq(FrameType) /\ writing \in Seq(WriteType)
      /\ history \in Seq(LineType) /\ conn.snap \in Nat
  BY DEF Core, Typed, WireType
<1>1. UNCHANGED <<tab, late, accepted, taken, wrote, blind>>
  BY DEF WriteEnds, WriteFails, WriteKeeps
<1>2. PICK i \in DOMAIN writing, w \in WriteType :
        /\ w = writing[i]
        /\ \/ /\ history' = Append(history, [m |-> w.m, at |-> w.at])
              /\ writing' = RemoveAt(writing, i) /\ conn' = Answered(w, "ack")
           \/ /\ history' = history
              /\ \/ writing' = RemoveAt(writing, i)
                 \/ writing' = Append(RemoveAt(writing, i), [w EXCEPT !.again = FALSE])
              /\ conn' = conn \/ conn' = Answered(w, "nack")
  <2>0. \A i \in DOMAIN writing : writing[i] \in WriteType
    BY <1>0, ElementOfSeq
  <2>1. CASE WriteEnds
    BY <2>0, <2>1 DEF WriteEnds
  <2>2. CASE WriteFails
    <3>1. PICK i \in DOMAIN writing :
            /\ writing' = IF writing[i].again
                          THEN Append(RemoveAt(writing, i), [writing[i] EXCEPT !.again = FALSE])
                          ELSE RemoveAt(writing, i)
            /\ conn' = IF writing[i].again THEN conn ELSE Answered(writing[i], "nack")
      BY <2>2 DEF WriteFails
    <3>2. history' = history
      BY <2>2 DEF WriteFails
    <3> QED
      BY <2>0, <3>1, <3>2
  <2> QED
    BY <2>1, <2>2
<1>3. w \in WriteType /\ w.m \in wrote /\ w.m \in Msgs
  <2>1. w \in WriteType
    BY <1>0, <1>2, ElementOfSeq
  <2> QED
    BY <1>0, <1>2, <2>1 DEF WriteType, Written
<1>4. writing' \in Seq(WriteType) /\ \A k \in DOMAIN writing' : writing'[k].m \in wrote
  <2> DEFINE r == RemoveAt(writing, i)
             e == [w EXCEPT !.again = FALSE]
  <2>1. r \in Seq(WriteType) /\ \A k \in DOMAIN r : \E j \in DOMAIN writing : r[k] = writing[j]
    BY <1>0, <1>2, RemovedFacts
  <2>2. e \in WriteType /\ e.m = w.m
    BY <1>3 DEF WriteType
  <2>3. writing' = r \/ writing' = Append(r, e)
    BY <1>2
  <2> HIDE DEF r, e
  <2>4. \A k \in DOMAIN r : r[k].m \in wrote
    BY <1>0, <2>1 DEF Written
  <2>5. CASE writing' = r
    BY <2>1, <2>4, <2>5
  <2>6. CASE writing' = Append(r, e)
    BY <1>3, <2>1, <2>2, <2>4, <2>6, Grown
  <2> QED
    BY <2>3, <2>5, <2>6
<1>5. /\ history' \in Seq(LineType) /\ Len(history) \in Nat /\ Len(history') \in Nat
      /\ Len(history) <= Len(history') /\ \A m : Has(history, m) => Has(history', m)
      /\ \A k \in DOMAIN history' : history'[k].m \in wrote
      /\ history' = history \/ Has(history', w.m)
  <2>1. CASE history' = history
    BY <1>0, <2>1, LenProperties DEF Written
  <2>2. CASE history' = Append(history, [m |-> w.m, at |-> w.at])
    <3> DEFINE e == [m |-> w.m, at |-> w.at]
    <3>1. e \in LineType /\ e.m = w.m
      BY <1>3 DEF WriteType, LineType
    <3>0. history' = Append(history, e) /\ history \in Seq(LineType)
      BY <1>0, <2>2
    <3> HIDE DEF e
    <3>2. /\ history' \in Seq(LineType) /\ \A m : Has(history', m) <=> Has(history, m) \/ e.m = m
          /\ \A k \in DOMAIN history' : (k \in DOMAIN history /\ history'[k] = history[k])
                                        \/ history'[k] = e
      BY <3>0, <3>1, Grown, SMTT(60)
    <3>3. Len(history') = Len(history) + 1 /\ Len(history) \in Nat
      BY <3>0, <3>1, AppendProperties, LenProperties, SMTT(60)
    <3>4. Has(history', w.m) /\ \A m : Has(history, m) => Has(history', m)
      BY <3>1, <3>2
    <3>5. \A k \in DOMAIN history' : history'[k].m \in wrote
      BY <1>0, <1>3, <3>1, <3>2 DEF Written
    <3>6. Len(history') \in Nat /\ Len(history) <= Len(history')
      BY <3>3
    <3> QED
      BY <3>2, <3>3, <3>4, <3>5, <3>6
  <2> QED
    BY <1>2, <2>1, <2>2
<1>6. PICK k \in {"ack", "nack"} :
        /\ conn' = conn \/ conn' = Answered(w, k)
        /\ k = "ack" => Has(history', w.m)
  <2>1. CASE history' = Append(history, [m |-> w.m, at |-> w.at]) /\ conn' = Answered(w, "ack")
    <3>1. Has(history', w.m)
      <4> DEFINE e == [m |-> w.m, at |-> w.at]
      <4>1. e \in LineType /\ e.m = w.m /\ history' = Append(history, e)
        BY <1>3, <2>1 DEF WriteType, LineType
      <4> HIDE DEF e
      <4> QED
        BY <1>0, <4>1, Grown
    <3> QED
      BY <2>1, <3>1
  <2>2. CASE conn' = conn \/ conn' = Answered(w, "nack")
    BY <2>2
  <2> QED
    BY <1>2, <2>1, <2>2
<1>7. /\ conn' \in WireType /\ conn'.st = conn.st /\ conn'.b = conn.b /\ conn'.snap = conn.snap
      /\ conn'.up = conn.up /\ conn'.asked \subseteq conn.asked
      /\ \/ conn'.dn = conn.dn
         \/ conn'.dn = Append(conn.dn, Frame(k, w.m, 0)) /\ w.m \in conn.asked
  <2>1. CASE conn' = conn
    BY <1>0, <2>1
  <2>2. CASE conn' = Answered(w, k)
    BY <1>0, <1>3, <2>2, AnsweredFacts
  <2> QED
    BY <1>6, <2>1, <2>2
<1>8. PICK f \in FrameType : /\ FrameGood(f)' /\ f.k # "ready" /\ (wireUp \/ f.k = "line")
                             /\ conn'.dn = conn.dn \/ conn'.dn = Append(conn.dn, f)
  <2>1. CASE conn'.dn = conn.dn
    <3>1. /\ Frame("line", w.m, 1) \in FrameType /\ Frame("line", w.m, 1).k = "line"
          /\ Frame("line", w.m, 1).m = w.m /\ Frame("line", w.m, 1).at # 0
      BY <1>3 DEF Frame, FrameType
    <3>2. FrameGood(Frame("line", w.m, 1))'
      BY <1>1, <1>3, <3>1 DEF FrameGood
    <3> QED
      BY <2>1, <3>1, <3>2
  <2>2. CASE conn'.dn = Append(conn.dn, Frame(k, w.m, 0)) /\ w.m \in conn.asked
    <3>1. /\ Frame(k, w.m, 0) \in FrameType /\ Frame(k, w.m, 0).k = k /\ Frame(k, w.m, 0).m = w.m
      BY <1>3 DEF Frame, FrameType
    <3>2. wireUp /\ w.m \notin Range(tab.queue)
      BY <1>0, <2>2 DEF WireGood
    <3>3. PICK f \in FrameType : f = Frame(k, w.m, 0)
      BY <3>1
    <3>4. f.k = k /\ f.m = w.m /\ f.m \in wrote' /\ f.m \notin Range(tab'.queue)
      BY <1>1, <1>3, <3>1, <3>2, <3>3
    <3>5. f.k = "ack" => Has(history', f.m)
      BY <1>6, <3>4
    <3>6. FrameGood(f)' /\ f.k # "ready"
      BY <1>6, <3>4, <3>5 DEF FrameGood
    <3> QED
      BY <2>2, <3>2, <3>3, <3>6
  <2> QED
    BY <1>7, <2>1, <2>2
<1>9. \A j \in DOMAIN conn'.dn :
        \/ \E l \in DOMAIN conn.dn : /\ conn'.dn[j] = conn.dn[l]
                                     /\ conn.dn[l].k = "ready" => j = 1
        \/ \E g : /\ conn'.dn[j] = g /\ FrameGood(g)' /\ g.k # "ready"
                  /\ wireUp \/ g.k = "line"
  BY <1>0, <1>8, FramesGrow
<1>10. \A j \in DOMAIN conn.dn : conn.dn[j].at \in Nat
  <2>1. \A j \in DOMAIN conn.dn : conn.dn[j] \in FrameType
    BY <1>0, ElementOfSeq
  <2> QED
    BY <2>1 DEF FrameType
<1>11. WireGood' /\ (wireUp' <=> wireUp)
  <2>1. /\ Range(tab'.queue) \subseteq Range(tab.queue) /\ tab'.ready = tab.ready
        /\ wrote' = wrote /\ Range(conn'.up) \subseteq Range(conn.up)
        /\ conn'.asked \subseteq conn.asked \cup Range(conn.up)
    BY <1>1, <1>7
  <2> QED
    BY <1>0, <1>5, <1>7, <1>9, <1>10, <2>1, WireStays
<1>12. Once'
  <2>1. \A b, m : Knows(b, m)' <=> Knows(b, m)
    BY <1>1 DEF Knows
  <2>2. \A m : Settles(m) => Settles(m)'
    BY <1>1, <1>7 DEF Settles, Knows
  <2>3. wireUp => /\ \A j \in DOMAIN late : late[j].m \in blind
                  /\ \A m \in Msgs : taken[m] # 0 => m \in blind \/ Settles(m)'
    BY <1>0, <2>2 DEF Once
  <2>4. ~wireUp => \A j \in DOMAIN late :
          \/ late[j].m \in blind
          \/ /\ \A l \in DOMAIN late : late[l].m = late[j].m => late[l].b = late[j].b
             /\ taken[late[j].m] # 0 => \E l \in accepted[late[j].b] : l.m = late[j].m
    BY <1>0 DEF Once, Knows
  <2> HIDE DEF Settles
  <2> QED
    BY <1>1, <1>11, <2>3, <2>4 DEF Once, Knows
<1>13. Written'
  BY <1>0, <1>1, <1>4, <1>5, <1>7 DEF Written
<1>14. Typed' /\ TabGood(tab)' /\ Receipts' /\ Somewhere'
  BY <1>0, <1>1, <1>4, <1>5, <1>7 DEF Typed, Receipts, Somewhere
<1> QED
  BY <1>11, <1>12, <1>13, <1>14 DEF Core

-----------------------------------------------------------------------------
(* The theorems.                                                           *)

\* Before anything is written, nothing is owed.
LEMMA DeliveryStarts ==
  ASSUME ChatInit, Distinct
  PROVE  Delivery
<1>0. <<>> \in Seq(Msgs) /\ <<>> \in Seq(EntryType) /\ <<>> \in Seq(RowType) /\ <<>> \in Seq(LateType)
      /\ <<>> \in Seq(WriteType) /\ <<>> \in Seq(LineType) /\ DOMAIN <<>> = {} /\ Range(<<>>) = {}
  BY EmptySeq DEF Range
<1>1. /\ tab = [queue |-> <<>>, outbox |-> <<>>, rows |-> <<>>, ready |-> FALSE] /\ conn = Down
      /\ late = <<>> /\ writing = <<>> /\ history = <<>> /\ wrote = {} /\ blind = {}
      /\ accepted = [b \in Backends |-> {}] /\ taken = [m \in Msgs |-> 0]
  BY DEF ChatInit
<1>2. tab \in TabType /\ tab.queue = <<>> /\ tab.outbox = <<>> /\ tab.rows = <<>> /\ ~tab.ready
  BY <1>0, <1>1 DEF TabType
<1>3. Typed
  BY <1>0, <1>1, <1>2, DownTyped DEF Typed
<1>4. \A m : ~Shows(tab, m)
  BY <1>0, <1>2 DEF Shows, Has
<1>5. Written
  BY <1>0, <1>1, <1>4, DownTyped DEF Written
<1>6. TabGood(tab)
  BY <1>0, <1>2 DEF TabGood, NoRepeat, OneEach
<1>7. ~wireUp
  BY <1>2 DEF wireUp
<1>8. WireGood
  BY <1>0, <1>1, <1>2, <1>3, <1>7, DownTyped, LenProperties DEF WireGood, Typed
<1>9. Receipts /\ Somewhere
  BY <1>1 DEF Receipts, Somewhere
<1>10. Once
  BY <1>0, <1>1, <1>7 DEF Once
<1>11. PageGood
  BY <1>1, DownTyped DEF ChatInit, Init, PageGood, Backends
<1> QED
  BY <1>3, <1>5, <1>6, <1>8, <1>9, <1>10, <1>11 DEF Delivery, Core

\* Every step of the chat, of the tab and of the server keeps the delivery.
LEMMA DeliveryStep ==
  ASSUME IInv, Connection(conn), Delivery, [ChatNext]_chatVars
  PROVE  Delivery'
<1>0. Distinct /\ PageGood /\ Core /\ conn \in WireType
  BY DEF Delivery, Core, Typed
<1>1. Distinct'
  BY <1>0, DistinctKept
<1>2. PageGood'
  BY <1>0, PageKept
<1> SUFFICES Core'
  BY <1>1, <1>2 DEF Delivery
<1>3. CASE ChatStep
  BY <1>0, <1>2, <1>3, ReactsStep DEF ChatStep
<1>4. CASE TabStep
  <2>1. CASE \E m \in Msgs : Writes(m)
    BY <1>0, <2>1, WritesStep
  <2>2. CASE Dispatches
    BY <1>0, <2>2, DispatchesStep
  <2>3. CASE Hears
    BY <1>0, <2>3, HearsStep
  <2>4. CASE Reload \/ Watchdog \/ DropSeen
    BY <1>0, <2>4, GoneStep
  <2>5. CASE WireDies
    BY <1>0, <2>5, QuietStep
  <2>6. CASE \E b \in Backends : Connect(b)
    BY <1>0, <2>6, ConnectStep
  <2> QED
    BY <1>4, <2>1, <2>2, <2>3, <2>4, <2>5, <2>6 DEF TabStep
<1>5. CASE ServerStep
  <2>1. CASE ServerReads
    BY <1>0, <2>1, QuietStep
  <2>2. CASE ServerAttaches
    BY <1>0, <2>2, ReadyStep
  <2>3. CASE ServerHandles
    BY <1>0, <2>3, HandlesStep
  <2>4. CASE LateHandled
    BY <1>0, <2>4, LateStep
  <2>5. CASE WriteEnds \/ WriteFails
    BY <1>0, <2>5, AppendStep
  <2> QED
    BY <1>5, <2>1, <2>2, <2>3, <2>4, <2>5 DEF ServerStep
<1>6. CASE UNCHANGED chatVars
  BY <1>0, <1>6, CoreStands DEF chatVars
<1> QED
  BY <1>3, <1>4, <1>5, <1>6 DEF ChatNext

\* The delivery is sound in every state, as long as no two messages have the same words.
THEOREM DeliveryInvariant == ChatSpec /\ Distinct => []Delivery
<1>1. ChatInit /\ Distinct => Delivery
  BY DeliveryStarts
<1>2. IInv /\ Connection(conn) /\ Delivery /\ [ChatNext]_chatVars => Delivery'
  BY DeliveryStep
<1> QED
  BY <1>1, <1>2, Invariant, PTL DEF ChatSpec

\* A finite set with a member has one at least.
LEMMA OneAtLeast ==
  ASSUME NEW S, IsFiniteSet(S)
  PROVE  Cardinality(S) \in Nat /\ (S # {} => Cardinality(S) >= 1)
BY FS_CardinalityType, FS_EmptySet

\* Words are in the queue, in the outbox or in the history, whatever is dropped, restarted
\* or lost on the way (sdkOutbox.ts).
THEOREM WordsStay == ChatSpec /\ Distinct => []WordsNeverVanish
<1>1. Delivery => WordsNeverVanish
  <2> SUFFICES ASSUME Delivery, NEW m \in wrote
               PROVE  Cardinality({k \in Msgs : Words(k) = Words(m) /\ k \in Range(tab.queue)})
                        + Of(Words(m), tab.outbox) + Of(Words(m), history) >= Wrote(Words(m))
    BY DEF WordsNeverVanish
  <2>1. Distinct /\ Typed /\ Somewhere
    BY DEF Delivery, Core
  <2>2. \A k : Words(k) = k
    BY <2>1 DEF Words, Distinct
  <2> DEFINE Q == {k \in Msgs : k = m /\ k \in Range(tab.queue)}
             O == {i \in DOMAIN tab.outbox : tab.outbox[i].m = m}
             H == {i \in DOMAIN history : history[i].m = m}
  <2>3. IsFiniteSet(Q) /\ IsFiniteSet(O) /\ IsFiniteSet(H)
    <3>1. tab.outbox \in Seq(EntryType) /\ history \in Seq(LineType)
      BY <2>1 DEF Typed, TabType
    <3>2. IsFiniteSet(DOMAIN tab.outbox) /\ IsFiniteSet(DOMAIN history)
      BY <3>1, PlacesFinite
    <3>3. Q \subseteq {m} /\ IsFiniteSet({m})
      BY FS_Singleton
    <3> QED
      BY <3>2, <3>3, FS_Subset
  <2>4. Q # {} \/ O # {} \/ H # {}
    BY <2>1 DEF Somewhere, Typed, Has
  <2>5. /\ Cardinality({k \in Msgs : Words(k) = Words(m) /\ k \in Range(tab.queue)}) = Cardinality(Q)
        /\ Of(Words(m), tab.outbox) = Cardinality(O) /\ Of(Words(m), history) = Cardinality(H)
    <3>1. {k \in Msgs : Words(k) = Words(m) /\ k \in Range(tab.queue)} = Q
      BY <2>2
    <3>2. {i \in DOMAIN tab.outbox : Words(tab.outbox[i].m) = Words(m)} = O
      BY <2>2
    <3>3. {i \in DOMAIN history : Words(history[i].m) = Words(m)} = H
      BY <2>2
    <3> QED
      BY <3>1, <3>2, <3>3 DEF Of
  <2>6. Wrote(Words(m)) = 1
    <3>1. {k \in wrote : Words(k) = Words(m)} = {m}
      BY <2>2
    <3> QED
      BY <2>2, <3>1, FS_Singleton DEF Wrote
  <2> HIDE DEF Q, O, H
  <2>7. /\ Cardinality(Q) \in Nat /\ (Q # {} => Cardinality(Q) >= 1)
        /\ Cardinality(O) \in Nat /\ (O # {} => Cardinality(O) >= 1)
        /\ Cardinality(H) \in Nat /\ (H # {} => Cardinality(H) >= 1)
    BY <2>3, OneAtLeast
  <2> QED
    BY <2>4, <2>5, <2>6, <2>7
<1> QED
  BY <1>1, DeliveryInvariant, PTL

\* Only a frame of the tab raises a count of turns.
LEMMA WhoTakes ==
  ASSUME [ChatNext]_chatVars
  PROVE  taken' = taken \/ ServerHandles \/ LateHandled
<1>1. CASE ChatStep
  BY <1>1 DEF ChatStep, DeliveryReacts
<1>2. CASE TabStep
  BY <1>2 DEF TabStep, Writes, Dispatches, Sends, Hears, Reload, Watchdog, DropSeen, TabCloses,
              WireDies, Connect, BackKeeps
<1>3. CASE ServerStep
  BY <1>3 DEF ServerStep, ServerReads, ServerAttaches, WriteEnds, WriteFails, WriteKeeps, BackKeeps
<1>4. CASE UNCHANGED chatVars
  BY <1>4 DEF chatVars, deliveryVars
<1> QED
  BY <1>1, <1>2, <1>3, <1>4 DEF ChatNext

\* A driver that takes a message again takes one the last replay could not prove.
LEMMA TakenAgain ==
  ASSUME IInv, Connection(conn), Core, [ChatNext]_chatVars, NEW m \in Msgs, taken'[m] > taken[m]
  PROVE  m \in wrote /\ (taken[m] = 0 \/ m \in blind)
<1>0. Typed /\ Written /\ WireGood /\ Once /\ Receipts /\ taken[m] \in Nat
      /\ conn.up \in Seq(Msgs) /\ late \in Seq(LateType) /\ taken \in [Msgs -> Nat]
  BY DEF Core, Typed, WireType
<1>1. \A b \in Backends : \A w \in wrote : Takes(b, w) /\ w # m => taken'[m] = taken[m]
  BY <1>0, TakenFacts
<1>2. CASE ServerHandles
  <2>1. PICK w \in Msgs : /\ w = Head(conn.up) /\ w \in Range(conn.up)
                          /\ Takes(conn.b, w) \/ taken' = taken
    <3>1. Head(conn.up) \in Msgs /\ Head(conn.up) \in Range(conn.up)
      BY <1>0, <1>2, Shrunk DEF ServerHandles
    <3>2. Takes(conn.b, Head(conn.up)) \/ taken' = taken
      BY <1>2 DEF ServerHandles, Charges, Refuses
    <3> QED
      BY <3>1, <3>2
  <2>2. w \in wrote /\ Takes(conn.b, w) /\ conn.b \in Backends
    BY <1>0, <1>2, <2>1 DEF Written, ServerHandles, Connection
  <2>3. w = m
    BY <1>0, <1>1, <2>2
  <2>4. wireUp
    BY <1>0, <1>2 DEF ServerHandles, WireGood
  <2>5. ~Knows(conn.b, m)
    BY <2>2, <2>3 DEF Takes
  <2> QED
    BY <1>0, <2>1, <2>2, <2>3, <2>4, <2>5 DEF Once, Settles
<1>3. CASE LateHandled
  <2>1. late # <<>> /\ 1 \in DOMAIN late /\ Head(late) = late[1] /\ Head(late) \in LateType
    BY <1>0, <1>3, Shrunk DEF LateHandled
  <2>2. PICK b \in Backends : late[1].b = b /\ (Takes(b, late[1].m) \/ taken' = taken)
    BY <1>3, <2>1 DEF LateHandled, Charges, Refuses
  <2>3. PICK w \in Msgs : w = late[1].m
    BY <2>1 DEF LateType
  <2>4. w \in wrote /\ Takes(b, w)
    BY <1>0, <2>1, <2>2, <2>3 DEF Written
  <2>5. w = m
    BY <1>0, <1>1, <2>4
  <2>6. ~Knows(b, m)
    BY <2>4, <2>5 DEF Takes
  <2> QED
    BY <1>0, <2>1, <2>2, <2>3, <2>4, <2>5, <2>6 DEF Once
<1> QED
  BY <1>0, <1>2, <1>3, WhoTakes

\* No message is read twice: one driver takes it once, and what another takes again is a
\* message the last replay could not prove (acceptedCids, reconcileOutbox).
THEOREM NoTurnTwice == ChatSpec /\ Distinct => NoSecondTurn
<1>1. IInv /\ Connection(conn) /\ Delivery /\ Delivery' /\ [ChatNext]_chatVars =>
        [\A m \in Msgs : taken'[m] > taken[m] =>
            LET twins == {k \in wrote : Words(k) = Words(m)}
            IN  /\ \A b \in Backends : Cardinality({l \in accepted'[b] : l.m = m}) <= 1
                /\ \/ taken[m] = 0 \/ skewed
                   \/ twins \cap blind # {}
                   \/ MapThenSumSet(LAMBDA k : taken'[k], twins) <= Cardinality(twins)]_chatVars
  <2> SUFFICES ASSUME IInv, Connection(conn), Delivery, Delivery', [ChatNext]_chatVars,
                      NEW m \in Msgs, taken'[m] > taken[m]
               PROVE  /\ \A b \in Backends : Cardinality({l \in accepted'[b] : l.m = m}) <= 1
                      /\ taken[m] = 0 \/ {k \in wrote : Words(k) = Words(m)} \cap blind # {}
    OBVIOUS
  <2>1. \A b \in Backends : Cardinality({l \in accepted'[b] : l.m = m}) <= 1
    <3> TAKE b \in Backends
    <3> DEFINE S == {l \in accepted'[b] : l.m = m}
    <3>1. \A l, k \in S : l = k
      BY DEF Delivery, Core, Receipts
    <3> HIDE DEF S
    <3>2. ASSUME NEW x \in S PROVE S = {x}
      BY <3>1
    <3>3. Cardinality(S) = 0 \/ Cardinality(S) = 1
      BY <3>2, FS_EmptySet, FS_Singleton
    <3> QED
      BY <3>3 DEF S
  <2>2. Core
    BY DEF Delivery
  <2>3. m \in wrote /\ (taken[m] = 0 \/ m \in blind)
    BY <2>2, TakenAgain
  <2> QED
    BY <2>1, <2>3
<1> QED
  BY <1>1, Invariant, DeliveryInvariant, PTL DEF ChatSpec, NoSecondTurn

\* A driver takes no message twice, whatever words the messages have: it keeps the
\* receipts it gave, and looks there first (acceptedCids, handleClientFrame).
THEOREM NoReceiptTwice == ChatSpec => []Receipts
<1> DEFINE Whole == accepted = [b \in Backends |-> accepted[b]]
<1>1. ChatInit => Whole /\ Receipts
  BY DEF ChatInit, Receipts
<1>2. Whole /\ Receipts /\ [ChatNext]_chatVars => Whole' /\ Receipts'
  <2> SUFFICES ASSUME Whole, Receipts, [ChatNext]_chatVars PROVE Whole' /\ Receipts'
    OBVIOUS
  <2>1. CASE UNCHANGED accepted
    BY <2>1 DEF Receipts
  <2>2. ASSUME NEW b, NEW m, Takes(b, m) PROVE Whole' /\ Receipts'
    <3> DEFINE line == [m |-> m, at |-> ServerTime]
    <3>1. ~Knows(b, m) /\ accepted' = [accepted EXCEPT ![b] = accepted[b] \cup {line}]
          /\ line.m = m
      BY <2>2 DEF Takes
    <3> HIDE DEF line
    <3>2. /\ Whole'
          /\ \A c \in Backends :
               accepted'[c] = accepted[c] \/ (c = b /\ accepted'[c] = accepted[c] \cup {line})
      BY <3>1
    <3> QED
      BY <3>1, <3>2 DEF Knows, Receipts
  <2>3. CASE ChatStep
    <3>1. accepted' = [b \in Backends |-> IF Open(drv'[b]) THEN accepted[b] ELSE {}]
      BY <2>3 DEF ChatStep, DeliveryReacts
    <3>2. Whole' /\ \A b \in Backends : accepted'[b] \in {accepted[b], {}}
      BY <3>1
    <3> QED
      BY <3>2 DEF Receipts
  <2>4. CASE TabStep
    BY <2>1, <2>4 DEF TabStep, Writes, Dispatches, Sends, Hears, Reload, Watchdog, DropSeen,
                      TabCloses, WireDies, Connect, BackKeeps
  <2>5. CASE ServerStep
    <3>1. \/ UNCHANGED accepted
          \/ \E b, m : Takes(b, m)
      BY <2>5 DEF ServerStep, ServerReads, ServerAttaches, ServerHandles, LateHandled, WriteEnds,
                  WriteFails, WriteKeeps, BackKeeps, Charges, Refuses
    <3> QED
      BY <2>1, <2>2, <3>1
  <2>6. CASE UNCHANGED chatVars
    BY <2>1, <2>6 DEF chatVars, deliveryVars
  <2> QED
    BY <2>3, <2>4, <2>5, <2>6 DEF ChatNext
<1> QED
  BY <1>1, <1>2, PTL DEF ChatSpec
===============================================================================

---------------------------- MODULE TxPoolProofs ----------------------------
(***************************************************************************)
(* Proofs about TxPool, for any senders, nonces and offers and a pool of   *)
(* any size: the stored sequence implements the set PoolSpec promises, no  *)
(* two stored entries compete for one (sender, nonce) slot, the list of    *)
(* ready transactions is whole and in order, and mining ready transactions *)
(* strands no other pending one.                                           *)
(***************************************************************************)
EXTENDS TxPool, SequenceTheorems, FiniteSetTheorems, WellFoundedInduction, TLAPS

-----------------------------------------------------------------------------
(* Lemmas about the operators. *)

(* A non-empty set of naturals has a least element. *)
LEMMA LeastNatural ==
  ASSUME NEW T \in SUBSET Nat, T # {}
  PROVE  \E n \in T : \A m \in T : n <= m
<1> DEFINE R == OpToRel(<, Nat)
<1>1. \E n \in T : \A m \in T : ~(<<m, n>> \in R)
  BY NatLessThanWellFounded, WFMin
<1>2. PICK n \in T : \A m \in T : ~(<<m, n>> \in R)
  BY <1>1
<1>3. \A m \in T : ~(m < n)
  BY <1>2 DEF OpToRel
<1>4. \A m \in T : n <= m
  BY <1>3
<1> QED
  BY <1>4

(* Induction over the naturals, for a set of them. *)
LEMMA AllNaturals ==
  ASSUME NEW T \in SUBSET Nat, 0 \in T, \A n \in T : n + 1 \in T
  PROVE  T = Nat
<1>1. SUFFICES ASSUME Nat \ T # {} PROVE FALSE
  OBVIOUS
<1>2. PICK n \in Nat \ T : \A m \in Nat \ T : n <= m
  BY <1>1, LeastNatural
<1>3. n - 1 \in Nat /\ n - 1 \notin Nat \ T
  BY <1>2
<1> QED
  BY <1>2, <1>3

(* findTransactionIndex finds the slot exactly when it is occupied. *)
InSlot(e, s, n) == e.tx.sender = s /\ e.tx.nonce = n

LEMMA IndexFinds ==
  ASSUME txs \in Seq(Offer), NEW s, NEW n
  PROVE  \/ /\ TransactionIndex(s, n) = 0
            /\ \A i \in DOMAIN txs : ~InSlot(txs[i], s, n)
         \/ /\ TransactionIndex(s, n) \in DOMAIN txs
            /\ TransactionIndex(s, n) # 0
            /\ InSlot(txs[TransactionIndex(s, n)], s, n)
<1> DEFINE I == {i \in 1..Len(txs) : txs[i].tx.sender = s /\ txs[i].tx.nonce = n}
<1>0. TransactionIndex(s, n) = IF I # {} THEN SE!Min(I) ELSE 0
  BY DEF TransactionIndex, SE!SelectInSeq
<1>1. I \in SUBSET Nat
  OBVIOUS
<1>2. DOMAIN txs = 1..Len(txs) /\ Len(txs) \in Nat
  OBVIOUS
<1>3. CASE I = {}
  <2>1. \A i \in DOMAIN txs : ~InSlot(txs[i], s, n)
    BY <1>2, <1>3 DEF InSlot
  <2> QED
    BY <1>0, <1>3, <2>1
<1>4. CASE I # {}
  <2>1. \E x \in I : \A y \in I : x <= y
    <3> HIDE DEF I
    <3> QED
      BY <1>1, <1>4, LeastNatural
  <2>2. SE!Min(I) \in I
    <3> HIDE DEF I
    <3> QED
      BY <2>1 DEF SE!Min
  <2>3. TransactionIndex(s, n) = SE!Min(I)
    BY <1>0, <1>4
  <2>4. TransactionIndex(s, n) \in I
    BY <2>2, <2>3
  <2> HIDE DEF TransactionIndex
  <2>5. /\ TransactionIndex(s, n) \in DOMAIN txs
        /\ InSlot(txs[TransactionIndex(s, n)], s, n)
    BY <1>2, <2>4 DEF InSlot
  <2> QED
    BY <1>2, <2>5
<1> QED
  BY <1>3, <1>4

(* Numbering the members of a set of positions in order reaches every      *)
(* number up to its size, and different positions get different numbers.   *)
LEMMA EveryRankIsTaken ==
  ASSUME NEW n \in Nat, NEW P \in SUBSET (1..n)
  PROVE  /\ IsFiniteSet(P)
         /\ Cardinality(P) \in Nat
         /\ \A k \in 1..Cardinality(P) :
              \E i \in P : Cardinality({j \in P : j <= i}) = k
         /\ \A i \in P : Cardinality({j \in P : j <= i}) \in 1..Cardinality(P)
         /\ \A i, l \in P : i < l =>
              Cardinality({j \in P : j <= i}) < Cardinality({j \in P : j <= l})
<1> DEFINE below(i) == {j \in P : j <= i}
           rank == [i \in P |-> Cardinality(below(i))]
           c == Cardinality(P)
<1>0. \A i \in P : i \in Nat
  OBVIOUS
<1>1. IsFiniteSet(P) /\ c \in Nat
  <2>1. IsFiniteSet(1..n)
    BY FS_Interval
  <2> QED
    BY <2>1, FS_Subset, FS_CardinalityType
<1>2. \A i \in P : IsFiniteSet(below(i)) /\ Cardinality(below(i)) \in Nat
                   /\ Cardinality(below(i)) <= c
  BY <1>1, FS_Subset, FS_CardinalityType
<1>3. ASSUME NEW i \in P PROVE rank[i] \in 1..c
  <2>1. i \in below(i)
    OBVIOUS
  <2>2. Cardinality(below(i)) # 0
    BY <2>1, <1>2, FS_EmptySet
  <2> QED
    BY <2>2, <1>1, <1>2
<1>4. ASSUME NEW i \in P, NEW l \in P, i < l PROVE rank[i] < rank[l]
  <2>1. below(i) \subseteq below(l) /\ l \in below(l) /\ l \notin below(i)
    <3>1. i \in Nat /\ l \in Nat
      BY <1>0
    <3>2. \A j \in P : j <= i => j <= l
      BY <1>0, <1>4, <3>1
    <3>3. l <= l /\ ~(l <= i)
      BY <1>4, <3>1
    <3> QED
      BY <3>2, <3>3
  <2>2. Cardinality(below(i)) <= Cardinality(below(l))
    BY <2>1, <1>2, FS_Subset
  <2>3. Cardinality(below(i)) # Cardinality(below(l))
    BY <2>1, <1>2, FS_Subset
  <2> QED
    BY <2>2, <2>3, <1>2
<1>5. rank \in Injection(P, 1..c)
  <2>1. rank \in [P -> 1..c]
    BY <1>3
  <2>2. ASSUME NEW i \in P, NEW l \in P, rank[i] = rank[l] PROVE i = l
    <3>1. ~(i < l)
      BY <1>3, <1>4, <2>2
    <3>2. ~(l < i)
      BY <1>3, <1>4, <2>2
    <3> QED
      BY <3>1, <3>2
  <2> QED
    BY <2>1, <2>2 DEF Injection, IsInjective
<1>6. IsFiniteSet(1..c) /\ Cardinality(1..c) = c
  BY <1>1, FS_Interval
<1>7. rank \in Surjection(P, 1..c)
  <2> HIDE DEF rank
  <2> QED
    BY <1>5, <1>6, FS_Injection
<1>8. \A k \in 1..c : \E i \in P : rank[i] = k
  BY <1>7 DEF Surjection
<1> QED
  BY <1>1, <1>3, <1>4, <1>8

(* Keeping some positions keeps exactly the entries at them, each once.    *)
LEMMA KeepKeeps ==
  ASSUME txs \in Seq(Offer), NEW P \in SUBSET (DOMAIN txs)
  PROVE  /\ Keep(P) \in Seq(Offer)
         /\ SE!ToSet(Keep(P)) = {txs[i] : i \in P}
         /\ \A k \in DOMAIN Keep(P) : \E i \in P :
              /\ Keep(P)[k] = txs[i]
              /\ Cardinality({j \in P : j <= i}) = k
<1> DEFINE rank(i) == Cardinality({j \in P : j <= i})
           at(k) == CHOOSE i \in P : rank(i) = k
<1>1. DOMAIN txs = 1..Len(txs) /\ Len(txs) \in Nat
  OBVIOUS
<1>2. P \in SUBSET (1..Len(txs))
  BY <1>1
<1>3. /\ Cardinality(P) \in Nat
      /\ \A k \in 1..Cardinality(P) : \E i \in P : rank(i) = k
      /\ \A i \in P : rank(i) \in 1..Cardinality(P)
      /\ \A i, l \in P : i < l => rank(i) < rank(l)
  BY <1>1, <1>2, EveryRankIsTaken
<1>4. \A k \in 1..Cardinality(P) : at(k) \in P /\ rank(at(k)) = k
  <2> HIDE DEF rank
  <2> QED
    BY <1>3
<1>5. Keep(P) = [k \in 1..Cardinality(P) |-> txs[at(k)]]
  BY DEF Keep
<1>6. \A i \in P : txs[i] \in Offer
  BY <1>2
<1> HIDE DEF at
<1>7. Keep(P) \in Seq(Offer) /\ DOMAIN Keep(P) = 1..Cardinality(P)
  <2>1. Keep(P) \in [1..Cardinality(P) -> Offer]
    BY <1>4, <1>5, <1>6
  <2> QED
    BY <1>3, <2>1, SeqDef
<1>8. ASSUME NEW i \in P PROVE \E k \in DOMAIN Keep(P) : Keep(P)[k] = txs[i]
  <2>1. rank(i) \in 1..Cardinality(P)
    BY <1>3
  <2>2. at(rank(i)) \in P /\ rank(at(rank(i))) = rank(i)
    BY <2>1, <1>4
  <2>3. ASSUME at(rank(i)) # i PROVE FALSE
    <3>1. at(rank(i)) < i \/ i < at(rank(i))
      BY <2>2, <2>3, <1>2
    <3>2. rank(at(rank(i))) # rank(i)
      <4>1. rank(i) \in Nat /\ rank(at(rank(i))) \in Nat
        BY <2>1, <2>2
      <4>2. rank(at(rank(i))) < rank(i) \/ rank(i) < rank(at(rank(i)))
        <5> HIDE DEF rank
        <5> QED
          BY <3>1, <2>2, <1>3
      <4> QED
        BY <4>1, <4>2
    <3> QED
      BY <3>2, <2>2
  <2> QED
    BY <2>1, <2>3, <1>5, <1>7
<1>9. ASSUME NEW k \in DOMAIN Keep(P)
      PROVE  \E i \in P : Keep(P)[k] = txs[i] /\ rank(i) = k
  BY <1>4, <1>5, <1>7
<1>10. SE!ToSet(Keep(P)) = {txs[i] : i \in P}
  <2>1. SE!ToSet(Keep(P)) = {Keep(P)[k] : k \in DOMAIN Keep(P)}
    BY DEF SE!ToSet
  <2>2. ASSUME NEW e \in {txs[i] : i \in P} PROVE e \in SE!ToSet(Keep(P))
    BY <1>8, <2>1
  <2>3. ASSUME NEW e \in SE!ToSet(Keep(P)) PROVE e \in {txs[i] : i \in P}
    <3>1. PICK k \in DOMAIN Keep(P) : e = Keep(P)[k]
      BY <2>1
    <3>2. at(k) \in P /\ e = txs[at(k)]
      BY <3>1, <1>4, <1>5, <1>7
    <3> QED
      BY <3>2
  <2>4. SE!ToSet(Keep(P)) \subseteq {txs[i] : i \in P}
    BY <2>3
  <2>5. {txs[i] : i \in P} \subseteq SE!ToSet(Keep(P))
    BY <2>2
  <2> QED
    BY <2>4, <2>5
<1>11. \A k \in DOMAIN Keep(P) : \E i \in P :
         Keep(P)[k] = txs[i] /\ Cardinality({j \in P : j <= i}) = k
  BY <1>9
<1> QED
  BY <1>7, <1>10, <1>11

(* removeMined raises the base nonce of a sender to the largest successor  *)
(* of its mined entries and leaves it where there is none.                 *)
MinedNonces(s, hashes) ==
  {SatSucc(e.tx.nonce) :
     e \in {f \in Stored : Hash(f.tx) \in hashes /\ f.tx.sender = s}}

LEMMA BaseIsLargest ==
  ASSUME Stored \subseteq Offer, base \in [Sender -> Nonce], NEW s \in Sender, NEW hashes
  PROVE  LET n == BaseAfterMined(Stored, base, hashes)[s]
             M == MinedNonces(s, hashes) \cup {base[s]}
         IN  n \in M /\ n \in Nonce /\ \A m \in M : m <= n
<1> DEFINE M == MinedNonces(s, hashes) \cup {base[s]}
           T == {MaxNonce - m : m \in M}
<1>0. MaxNonce \in Nat
  BY PoolAssumption
<1>1. \A m \in M : m \in Nonce
  <2>1. \A e \in Stored : e.tx.nonce \in Nonce
    BY TxPoolAssumption DEF Entry, Envelope
  <2>2. \A n \in Nonce : SatSucc(n) \in Nonce
    BY <1>0 DEF SatSucc, Nonce
  <2> QED
    BY <2>1, <2>2 DEF MinedNonces
<1> HIDE DEF M
<1>2. T \in SUBSET Nat /\ T # {}
  BY <1>0, <1>1 DEF Nonce, M
<1>3. PICK t \in T : \A u \in T : t <= u
  <2> HIDE DEF T
  <2> QED
    BY <1>2, LeastNatural
<1>4. PICK n \in M : t = MaxNonce - n
  BY <1>3
<1>5. ASSUME NEW m \in M PROVE m <= n
  <2>1. MaxNonce - n <= MaxNonce - m
    BY <1>3, <1>4
  <2> QED
    BY <2>1, <1>0, <1>1, <1>4 DEF Nonce
<1>6. BaseAfterMined(Stored, base, hashes)[s] = CHOOSE k \in M : \A m \in M : m <= k
  BY DEF BaseAfterMined, M, MinedNonces
<1> DEFINE c == CHOOSE k \in M : \A m \in M : m <= k
<1>7. c \in M /\ \A m \in M : m <= c
  BY <1>5
<1> HIDE DEF c
<1> QED
  BY <1>1, <1>6, <1>7 DEF M, c

-----------------------------------------------------------------------------
(* The invariant. *)

(* No two positions hold the same slot. *)
SlotsAreDistinct ==
  \A i, j \in DOMAIN txs :
    InSlot(txs[i], txs[j].tx.sender, txs[j].tx.nonce) => i = j

Inv ==
  /\ TypeOK
  /\ SlotsAreDistinct

(* Where the types hold, what is stored are offers. *)
LEMMA StoredTypes ==
  ASSUME TypeOK
  PROVE  /\ Stored \subseteq Offer
         /\ Stored = {txs[i] : i \in DOMAIN txs}
         /\ DOMAIN txs = 1..Len(txs)
         /\ Len(txs) \in Nat
         /\ \A e \in Stored : e.tx.sender \in Sender /\ e.tx.nonce \in Nonce
<1>1. DOMAIN txs = 1..Len(txs) /\ Len(txs) \in Nat /\ \A i \in DOMAIN txs : txs[i] \in Offer
  BY DEF TypeOK
<1>2. Stored = {txs[i] : i \in DOMAIN txs}
  BY DEF Stored, SE!ToSet
<1>3. Stored \subseteq Offer
  BY <1>1, <1>2
<1> QED
  BY <1>1, <1>2, <1>3, TxPoolAssumption DEF Entry, Envelope

(* What each method makes of the sequence: the positions that keep their   *)
(* entry, and the entry that is new.                                       *)
LEMMA ReplacedSet ==
  ASSUME TypeOK, NEW i \in DOMAIN txs, NEW e \in Offer
  PROVE  /\ SE!ReplaceAt(txs, i, e) \in Seq(Offer)
         /\ DOMAIN SE!ReplaceAt(txs, i, e) = DOMAIN txs
         /\ \A j \in DOMAIN txs : SE!ReplaceAt(txs, i, e)[j] = IF j = i THEN e ELSE txs[j]
<1>1. txs \in Seq(Offer)
  BY DEF TypeOK
<1> QED
  BY <1>1, ExceptSeq DEF SE!ReplaceAt

(* removeByHash shortens the sequence by the first entry with the hash.    *)
Without(h) == SE!RemoveFirstMatch(txs, LAMBDA e : Hash(e.tx) = h)

LEMMA RemovedFirst ==
  ASSUME TypeOK, NEW h \in StoredHashes
  PROVE  \E i \in DOMAIN txs :
           /\ Hash(txs[i].tx) = h
           /\ Without(h) \in Seq(Offer)
           /\ DOMAIN Without(h) = 1..(Len(txs) - 1)
           /\ \A j \in DOMAIN Without(h) :
                Without(h)[j] = IF j < i THEN txs[j] ELSE txs[j + 1]
<1> DEFINE I == {i \in 1..Len(txs) : Hash(txs[i].tx) = h}
           first == SE!Min(I)
<1>1. txs \in Seq(Offer) /\ DOMAIN txs = 1..Len(txs) /\ Len(txs) \in Nat
  BY StoredTypes DEF TypeOK
<1>2. I \in SUBSET Nat /\ I # {}
  BY StoredTypes DEF StoredHashes
<1>3. first \in I
  <2>1. \E x \in I : \A y \in I : x <= y
    <3> HIDE DEF I
    <3> QED
      BY <1>2, LeastNatural
  <2> HIDE DEF I
  <2> QED
    BY <2>1 DEF SE!Min
<1>4. Without(h) = SubSeq(txs, 1, first - 1) \o SubSeq(txs, first + 1, Len(txs))
  <2>1. \E j \in 1..Len(txs) : Hash(txs[j].tx) = h
    BY <1>3
  <2>2. SE!SelectInSeq(txs, LAMBDA e : Hash(e.tx) = h) = first
    BY <1>2 DEF SE!SelectInSeq
  <2> QED
    BY <2>1, <2>2 DEF Without, SE!RemoveFirstMatch, SE!RemoveAt
<1> HIDE DEF first
<1>5. first \in DOMAIN txs /\ first \in 1..Len(txs) /\ Hash(txs[first].tx) = h
  BY <1>1, <1>3
<1>6. /\ Without(h) \in Seq(Offer)
      /\ DOMAIN Without(h) = 1..(Len(txs) - 1)
      /\ \A j \in DOMAIN Without(h) :
           Without(h)[j] = IF j < first THEN txs[j] ELSE txs[j + 1]
  <2> DEFINE s == SubSeq(txs, 1, first - 1)
             t == SubSeq(txs, first + 1, Len(txs))
  <2>1. first \in Nat /\ 1 <= first /\ first <= Len(txs)
    BY <1>1, <1>5
  <2>2. s \in Seq(Offer) /\ Len(s) = first - 1 /\ \A j \in 1..(first - 1) : s[j] = txs[j]
    BY <1>1, <2>1
  <2>3. /\ t \in Seq(Offer) /\ Len(t) = Len(txs) - first
        /\ \A j \in 1..(Len(txs) - first) : t[j] = txs[first + j]
    <3>1. \A j \in (first + 1)..Len(txs) : txs[j] \in Offer
      BY <1>1, <2>1
    <3>2. first + 1 \in Int /\ Len(txs) \in Int
      BY <1>1, <2>1
    <3>3. /\ t \in Seq(Offer)
          /\ Len(t) = IF first + 1 <= Len(txs) THEN Len(txs) - (first + 1) + 1 ELSE 0
          /\ \A j \in 1..(Len(txs) - (first + 1) + 1) : t[j] = txs[first + 1 + j - 1]
      BY <3>1, <3>2, SubSeqProperties
    <3> HIDE DEF t
    <3>4. Len(txs) - (first + 1) + 1 = Len(txs) - first
      BY <1>1, <2>1
    <3>5. ASSUME NEW j \in 1..(Len(txs) - first) PROVE t[j] = txs[first + j]
      <4>1. first + 1 + j - 1 = first + j
        BY <2>1
      <4> QED
        BY <3>3, <3>4, <4>1
    <3>6. Len(t) = Len(txs) - first
      <4>1. CASE first + 1 <= Len(txs)
        BY <3>3, <3>4, <4>1
      <4>2. CASE ~(first + 1 <= Len(txs))
        <5>1. Len(txs) = first
          BY <2>1, <3>2, <4>2
        <5>2. Len(t) = 0
          BY <3>3, <4>2
        <5> QED
          BY <2>1, <5>1, <5>2
      <4> QED
        BY <4>1, <4>2
    <3>7. t \in Seq(Offer)
      BY <3>3
    <3> QED
      BY <3>5, <3>6, <3>7
  <2>7. Without(h) = s \o t
    BY <1>4
  <2> HIDE DEF s, t
  <2>4. /\ Without(h) \in Seq(Offer)
        /\ Len(Without(h)) = Len(txs) - 1
        /\ \A j \in 1..(Len(txs) - 1) :
             Without(h)[j] = IF j <= first - 1 THEN s[j] ELSE t[j - (first - 1)]
    <3>1. /\ s \o t \in Seq(Offer)
          /\ Len(s \o t) = Len(s) + Len(t)
          /\ \A j \in 1..(Len(s) + Len(t)) :
               (s \o t)[j] = IF j <= Len(s) THEN s[j] ELSE t[j - Len(s)]
      BY <2>2, <2>3, ConcatProperties
    <3>2. Len(s) + Len(t) = Len(txs) - 1
      BY <1>1, <2>1, <2>2, <2>3
    <3> QED
      BY <2>2, <2>7, <3>1, <3>2
  <2>5. DOMAIN Without(h) = 1..(Len(txs) - 1)
    BY <2>4
  <2>6. ASSUME NEW j \in DOMAIN Without(h)
        PROVE  Without(h)[j] = IF j < first THEN txs[j] ELSE txs[j + 1]
    <3>1. CASE j < first
      BY <1>1, <2>1, <2>2, <2>4, <2>5, <3>1
    <3>2. CASE ~(j < first)
      <4>1. j - (first - 1) \in 1..(Len(txs) - first)
        BY <1>1, <2>1, <2>5, <3>2
      <4>2. t[j - (first - 1)] = txs[first + (j - (first - 1))]
        BY <4>1, <2>3
      <4>3. first + (j - (first - 1)) = j + 1
        BY <1>1, <2>1, <2>5
      <4> QED
        BY <1>1, <2>1, <2>4, <2>5, <3>2, <4>2, <4>3
    <3> QED
      BY <3>1, <3>2
  <2> QED
    BY <2>4, <2>5, <2>6
<1> QED
  BY <1>5, <1>6

-----------------------------------------------------------------------------
(* The types, the slots and the refinement, method by method. *)

(* add on a free slot. *)
LEMMA AddNewStep ==
  ASSUME Inv, NEW e \in Offer, AddNew(e)
  PROVE  Inv' /\ Promise!Add(e)
<1>1. txs \in Seq(Offer) /\ txs' = Append(txs, e) /\ base' = base
  BY DEF Inv, TypeOK, AddNew
<1>2. \A i \in DOMAIN txs : ~InSlot(txs[i], e.tx.sender, e.tx.nonce)
  BY <1>1, IndexFinds DEF AddNew
<1>3. /\ txs' \in Seq(Offer)
      /\ DOMAIN txs' = 1..(Len(txs) + 1)
      /\ \A i \in DOMAIN txs : txs'[i] = txs[i]
      /\ txs'[Len(txs) + 1] = e
      /\ DOMAIN txs = 1..Len(txs) /\ Len(txs) \in Nat
  BY <1>1
<1>4. TypeOK'
  BY <1>1, <1>3 DEF Inv, TypeOK
<1>5. SlotsAreDistinct'
  BY <1>2, <1>3 DEF Inv, SlotsAreDistinct, InSlot
<1>6. Stored' = Stored \cup {e}
  <2>1. Stored = {txs[i] : i \in DOMAIN txs} /\ Stored' = {txs'[i] : i \in DOMAIN txs'}
    BY DEF Stored, SE!ToSet
  <2>2. DOMAIN txs' = DOMAIN txs \cup {Len(txs) + 1}
    BY <1>3
  <2> QED
    BY <2>1, <2>2, <1>3
<1>7. Slot(Stored, e.tx.sender, e.tx.nonce) = {}
  BY <1>2 DEF Slot, Stored, SE!ToSet, InSlot
<1>8. Promise!Slot(Stored, e.tx.sender, e.tx.nonce) = {}
  BY <1>7 DEF Slot, Promise!Slot
<1>9. Promise!Add(e)
  BY <1>1, <1>6, <1>8
     DEF Promise!Add, Promise!Underpriced, Promise!Added, Promise!SameHashPresent
<1> QED
  BY <1>4, <1>5, <1>9 DEF Inv

(* add on an occupied slot. *)
LEMMA AddReplacementStep ==
  ASSUME Inv, NEW e \in Offer, AddReplacement(e)
  PROVE  Inv' /\ Promise!Add(e)
<1> DEFINE i == TransactionIndex(e.tx.sender, e.tx.nonce)
<1>0. TypeOK /\ txs \in Seq(Offer)
  BY DEF Inv, TypeOK
<1>1. /\ i \in DOMAIN txs
      /\ InSlot(txs[i], e.tx.sender, e.tx.nonce)
      /\ Hash(txs[i].tx) # Hash(e.tx)
      /\ IsPriceReplacement(txs[i], e)
      /\ txs' = SE!ReplaceAt(txs, i, e)
      /\ base' = base
  BY <1>0, IndexFinds DEF AddReplacement
<1> HIDE DEF i
<1>2. /\ txs' \in Seq(Offer)
      /\ DOMAIN txs' = DOMAIN txs
      /\ \A j \in DOMAIN txs : txs'[j] = IF j = i THEN e ELSE txs[j]
  BY <1>0, <1>1, ReplacedSet
<1>3. TypeOK'
  BY <1>1, <1>2 DEF Inv, TypeOK
<1>4. SlotsAreDistinct'
  BY <1>1, <1>2 DEF Inv, SlotsAreDistinct, InSlot
<1>5. \A j \in DOMAIN txs : InSlot(txs[j], e.tx.sender, e.tx.nonce) => j = i
  BY <1>1 DEF Inv, SlotsAreDistinct, InSlot
<1>6. Slot(Stored, e.tx.sender, e.tx.nonce) = {txs[i]}
  BY <1>1, <1>5 DEF Slot, Stored, SE!ToSet, InSlot
<1>7. Stored' = (Stored \ {txs[i]}) \cup {e}
  <2>1. Stored = {txs[j] : j \in DOMAIN txs} /\ Stored' = {txs'[j] : j \in DOMAIN txs}
    BY <1>2 DEF Stored, SE!ToSet
  <2>2. \A j \in DOMAIN txs : txs[j] = txs[i] => j = i
    BY <1>1, <1>5
  <2>3. ASSUME NEW f \in Stored' PROVE f \in (Stored \ {txs[i]}) \cup {e}
    BY <1>2, <2>1, <2>2
  <2>4. ASSUME NEW f \in (Stored \ {txs[i]}) \cup {e} PROVE f \in Stored'
    BY <1>1, <1>2, <2>1
  <2> QED
    BY <2>3, <2>4
<1>8. Promise!Slot(Stored, e.tx.sender, e.tx.nonce) = {txs[i]}
  BY <1>6 DEF Slot, Promise!Slot
<1>9. ~Promise!Underpriced(Stored, e)
  BY <1>1, <1>8 DEF Promise!Underpriced, Promise!IsPriceReplacement, IsPriceReplacement
<1>10. ~Promise!SameHashPresent(Stored, e)
  BY <1>1, <1>8 DEF Promise!SameHashPresent, Promise!Hash, Hash
<1>11. Promise!Add(e)
  BY <1>1, <1>7, <1>8, <1>9, <1>10 DEF Promise!Add, Promise!Added
<1> QED
  BY <1>3, <1>4, <1>11 DEF Inv

(* removeByHash. *)
LEMMA RemoveByHashStep ==
  ASSUME Inv, NEW h \in StoredHashes, RemoveByHash(h)
  PROVE  Inv' /\ \E e \in Stored : Promise!Remove(e)
<1>0. TypeOK /\ DOMAIN txs = 1..Len(txs) /\ Len(txs) \in Nat
  BY StoredTypes DEF Inv
<1>1. txs' = Without(h) /\ base' = base
  BY DEF RemoveByHash, Without
<1>2. PICK i \in DOMAIN txs :
        /\ Hash(txs[i].tx) = h
        /\ txs' \in Seq(Offer)
        /\ DOMAIN txs' = 1..(Len(txs) - 1)
        /\ \A j \in DOMAIN txs' : txs'[j] = IF j < i THEN txs[j] ELSE txs[j + 1]
  BY <1>0, <1>1, RemovedFirst
<1> DEFINE from(j) == IF j < i THEN j ELSE j + 1
<1>3. \A j \in DOMAIN txs' : from(j) \in DOMAIN txs \ {i} /\ txs'[j] = txs[from(j)]
  BY <1>0, <1>2
<1>4. \A j, l \in DOMAIN txs' : from(j) = from(l) => j = l
  BY <1>0, <1>2
<1>5. ASSUME NEW j \in DOMAIN txs \ {i}
      PROVE  \E l \in DOMAIN txs' : from(l) = j
  <2>1. CASE j < i
    <3>1. j \in DOMAIN txs' /\ from(j) = j
      BY <1>0, <1>2, <2>1
    <3> QED
      BY <3>1
  <2>2. CASE ~(j < i)
    <3>1. j - 1 \in DOMAIN txs' /\ from(j - 1) = j
      BY <1>0, <1>2, <2>2
    <3> QED
      BY <3>1
  <2> QED
    BY <2>1, <2>2
<1> HIDE DEF from
<1>6. TypeOK'
  BY <1>1, <1>2 DEF Inv, TypeOK
<1>7. SlotsAreDistinct'
  BY <1>3, <1>4 DEF Inv, SlotsAreDistinct
<1>8. Stored' = Stored \ {txs[i]}
  <2>1. Stored = {txs[j] : j \in DOMAIN txs} /\ Stored' = {txs'[j] : j \in DOMAIN txs'}
    BY DEF Stored, SE!ToSet
  <2>2. \A j \in DOMAIN txs : txs[j] = txs[i] => j = i
    BY DEF Inv, SlotsAreDistinct, InSlot
  <2>3. ASSUME NEW f \in Stored' PROVE f \in Stored \ {txs[i]}
    BY <1>3, <2>1, <2>2
  <2>4. ASSUME NEW f \in Stored \ {txs[i]} PROVE f \in Stored'
    BY <1>3, <1>5, <2>1
  <2> QED
    BY <2>3, <2>4
<1>9. txs[i] \in Stored
  BY DEF Stored, SE!ToSet
<1> QED
  BY <1>1, <1>6, <1>7, <1>8, <1>9 DEF Inv, Promise!Remove

(* removeMined. *)
LEMMA RemoveMinedStep ==
  ASSUME Inv, NEW hashes \in SUBSET Minable, RemoveMined(hashes)
  PROVE  Inv' /\ Promise!RemoveMined(hashes)
<1> DEFINE P == {i \in DOMAIN txs : Hash(txs[i].tx) \notin hashes}
<1>0. /\ TypeOK /\ txs \in Seq(Offer)
      /\ DOMAIN txs = 1..Len(txs) /\ Len(txs) \in Nat
      /\ Stored \subseteq Offer
      /\ P \in SUBSET (DOMAIN txs)
  BY StoredTypes DEF Inv, TypeOK
<1>1. txs' = Keep(P) /\ base' = BaseAfterMined(Stored, base, hashes)
  BY DEF RemoveMined
<1> DEFINE rank(i) == Cardinality({j \in P : j <= i})
<1>2. /\ txs' \in Seq(Offer)
      /\ SE!ToSet(txs') = {txs[i] : i \in P}
      /\ \A k \in DOMAIN txs' : \E i \in P : txs'[k] = txs[i] /\ rank(i) = k
  <2> HIDE DEF P
  <2> QED
    BY <1>0, <1>1, KeepKeeps
<1>3. base' \in [Sender -> Nonce]
  <2> DEFINE largest(s) == CHOOSE n \in MinedNonces(s, hashes) \cup {base[s]} :
                             \A m \in MinedNonces(s, hashes) \cup {base[s]} : m <= n
  <2>1. base \in [Sender -> Nonce]
    BY <1>0 DEF TypeOK
  <2>2. base' = [s \in Sender |-> largest(s)]
    BY <1>1, <2>1 DEF BaseAfterMined, MinedNonces
  <2> HIDE DEF largest
  <2>3. ASSUME NEW s \in Sender PROVE largest(s) \in Nonce
    <3>1. base'[s] \in Nonce
      BY <1>0, <1>1, <2>1, BaseIsLargest
    <3> QED
      BY <2>2, <3>1
  <2> QED
    BY <2>2, <2>3
<1>4. TypeOK'
  BY <1>2, <1>3 DEF TypeOK
<1>5. SlotsAreDistinct'
  <2> HIDE DEF P, rank
  <2>1. SUFFICES ASSUME NEW k \in DOMAIN txs', NEW l \in DOMAIN txs',
                        InSlot(txs'[k], txs'[l].tx.sender, txs'[l].tx.nonce)
                 PROVE  k = l
    BY DEF SlotsAreDistinct
  <2>2. PICK i \in P : txs'[k] = txs[i] /\ rank(i) = k
    BY <1>2
  <2>3. PICK j \in P : txs'[l] = txs[j] /\ rank(j) = l
    BY <1>2
  <2>4. i = j
    BY <1>0, <2>1, <2>2, <2>3 DEF Inv, SlotsAreDistinct
  <2> QED
    BY <2>2, <2>3, <2>4
<1>6. Stored' = Removed(Stored, hashes)
  <2>1. Stored = {txs[i] : i \in DOMAIN txs} /\ Stored' = {txs[i] : i \in P}
    BY <1>2 DEF Stored, SE!ToSet
  <2> QED
    BY <2>1 DEF Removed
<1>7. hashes \in SUBSET {Promise!Hash(e.tx) : e \in Stored}
  BY DEF Minable, StoredHashes, Hash, Promise!Hash
<1>8. Promise!RemoveMined(hashes)
  BY <1>1, <1>6
     DEF Promise!RemoveMined, Promise!Removed, Removed, Promise!Hash, Hash,
         Promise!BaseAfterMined, BaseAfterMined, Promise!SatSucc, SatSucc
<1> QED
  BY <1>4, <1>5, <1>8 DEF Inv

(* A pending entry that is not mined outlives the mining of ready ones:    *)
(* the mined nonces of its sender are all below its own, so the new base   *)
(* nonce is not above it, and none of the entries between the two is mined.*)
LEMMA PendingSurvives ==
  ASSUME Inv, NEW hashes \in SUBSET Minable, ReadyPrefix(hashes), RemoveMined(hashes),
         NEW f \in Stored', EntryIsPending(f)
  PROVE  EntryIsPending(f)'
<1> DEFINE s == f.tx.sender
           top == f.tx.nonce
           b == BaseAfterMined(Stored, base, hashes)
<1>0. MaxNonce \in Nat
  BY PoolAssumption
<1>1. /\ base' = b
      /\ Stored' = {e \in Stored : Hash(e.tx) \notin hashes}
  BY RemoveMinedStep
     DEF Promise!RemoveMined, Promise!Removed, Promise!Hash, Hash, RemoveMined
<1>2. /\ Stored \subseteq Offer
      /\ base \in [Sender -> Nonce]
      /\ \A e \in Stored : e.tx.sender \in Sender /\ e.tx.nonce \in Nonce
  BY StoredTypes DEF Inv, TypeOK
<1>3. f \in Stored /\ Hash(f.tx) \notin hashes
  BY <1>1
<1>4. s \in Sender /\ top \in Nat /\ top <= MaxNonce
  BY <1>0, <1>2, <1>3 DEF Nonce
<1>5. ASSUME NEW e \in Stored, NEW g \in Stored, InSlot(e, g.tx.sender, g.tx.nonce)
      PROVE  e = g
  BY <1>5 DEF Inv, SlotsAreDistinct, Stored, SE!ToSet, InSlot
<1>6. ASSUME NEW e \in Stored, Hash(e.tx) \in hashes, e.tx.sender = s
      PROVE  e.tx.nonce < top
  <2>1. ~(top < e.tx.nonce)
    BY <1>3, <1>6 DEF ReadyPrefix
  <2>2. e.tx.nonce # top
    BY <1>3, <1>5, <1>6 DEF InSlot
  <2> QED
    BY <1>2, <1>4, <1>0, <2>1, <2>2 DEF Nonce
<1>7. /\ b[s] \in MinedNonces(s, hashes) \cup {base[s]}
      /\ b[s] \in Nonce
      /\ \A m \in MinedNonces(s, hashes) \cup {base[s]} : m <= b[s]
  BY <1>2, <1>4, BaseIsLargest
<1>8. base[s] <= top /\ \A m \in base[s]..top : Slot(Stored, s, m) # {}
  BY DEF EntryIsPending, IsPending
<1> HIDE DEF b
<1>9. b[s] <= top
  <2>1. CASE b[s] = base[s]
    BY <1>8, <2>1
  <2>2. CASE b[s] \in MinedNonces(s, hashes)
    <3>1. PICK e \in Stored : /\ Hash(e.tx) \in hashes
                              /\ e.tx.sender = s
                              /\ b[s] = SatSucc(e.tx.nonce)
      BY <2>2 DEF MinedNonces
    <3>2. e.tx.nonce < top /\ e.tx.nonce \in Nonce
      BY <1>2, <1>6, <3>1
    <3> QED
      BY <1>0, <1>4, <3>1, <3>2 DEF SatSucc, Nonce
  <2> QED
    BY <1>7, <2>1, <2>2
<1>10. ASSUME NEW m \in b[s]..top
       PROVE  Slot(Stored', s, m) # {}
  <2>1. m \in base[s]..top
    <3>1. base[s] \in Nat /\ b[s] \in Nat
      BY <1>0, <1>2, <1>4, <1>7 DEF Nonce
    <3>2. base[s] <= b[s]
      BY <1>7
    <3>3. m \in Nat /\ b[s] <= m /\ m <= top
      BY <1>4, <1>10, <3>1
    <3> QED
      BY <1>4, <3>1, <3>2, <3>3
  <2>2. PICK g \in Stored : g.tx.sender = s /\ g.tx.nonce = m
    BY <1>8, <2>1 DEF Slot
  <2>3. Hash(g.tx) \notin hashes
    <3>1. SUFFICES ASSUME Hash(g.tx) \in hashes PROVE FALSE
      OBVIOUS
    <3>2. m < top
      BY <1>6, <2>2, <3>1
    <3>3. SatSucc(m) <= b[s]
      BY <1>7, <2>2, <3>1 DEF MinedNonces
    <3>4. SatSucc(m) = m + 1
      BY <1>0, <1>4, <2>1, <1>2, <3>2 DEF SatSucc, Nonce
    <3> QED
      BY <1>0, <1>7, <1>10, <3>3, <3>4 DEF Nonce
  <2>4. g \in Slot(Stored', s, m)
    BY <1>1, <2>2, <2>3 DEF Slot
  <2> QED
    BY <2>4
<1>11. IsPending(Stored', base', s, top)
  BY <1>1, <1>9, <1>10 DEF IsPending, b
<1> QED
  BY <1>11 DEF EntryIsPending

-----------------------------------------------------------------------------
(* The walks of pendingNonce and getReady over a pool with one entry per   *)
(* slot.                                                                   *)

(* FlattenSeq appends the sequences one after the other: there are partial *)
(* results from the empty sequence to the whole, each one run longer.      *)
Appended(R, f, n) ==
  /\ f[0] = <<>>
  /\ \A i \in 1..n : f[i] = f[i - 1] \o R[i]

LEMMA PartialResults ==
  ASSUME NEW T, NEW R \in Seq(Seq(T))
  PROVE  \E f \in [0..Len(R) -> Seq(T)] : Appended(R, f, Len(R))
<1> DEFINE Built == {n \in Nat : n <= Len(R) =>
                        \E f \in [0..n -> Seq(T)] : Appended(R, f, n)}
<1>1. 0 \in Built
  <2>1. [i \in 0..0 |-> <<>>] \in [0..0 -> Seq(T)]
    OBVIOUS
  <2>2. Appended(R, [i \in 0..0 |-> <<>>], 0)
    BY DEF Appended
  <2> QED
    BY <2>1, <2>2
<1>2. ASSUME NEW n \in Built PROVE n + 1 \in Built
  <2>1. SUFFICES ASSUME n + 1 <= Len(R)
                 PROVE  \E f \in [0..(n + 1) -> Seq(T)] : Appended(R, f, n + 1)
    OBVIOUS
  <2>0. n \in Nat
    OBVIOUS
  <2>2. PICK f \in [0..n -> Seq(T)] : Appended(R, f, n)
    BY <2>1
  <2> DEFINE g == [i \in 0..(n + 1) |-> IF i = n + 1 THEN f[n] \o R[n + 1] ELSE f[i]]
  <2>3. f[n] \in Seq(T) /\ R[n + 1] \in Seq(T)
    BY <2>1, <2>2
  <2>4. g \in [0..(n + 1) -> Seq(T)]
    <3>1. ASSUME NEW i \in 0..(n + 1) PROVE g[i] \in Seq(T)
      <4>1. CASE i = n + 1
        BY <2>3, <4>1, ConcatProperties
      <4>2. CASE i # n + 1
        BY <2>2, <4>2
      <4> QED
        BY <4>1, <4>2
    <3> QED
      BY <3>1
  <2>5. g[0] = <<>>
    BY <2>0, <2>2 DEF Appended
  <2>6. ASSUME NEW i \in 1..(n + 1) PROVE g[i] = g[i - 1] \o R[i]
    <3>1. i \in 0..(n + 1) /\ i - 1 \in 0..(n + 1) /\ i - 1 # n + 1
      BY <2>0, <2>6
    <3>2. g[i - 1] = f[i - 1]
      BY <3>1
    <3>3. CASE i = n + 1
      BY <2>0, <3>1, <3>2, <3>3
    <3>4. CASE i # n + 1
      <4>1. i \in 1..n
        BY <2>0, <3>4
      <4>2. f[i] = f[i - 1] \o R[i]
        BY <2>2, <4>1 DEF Appended
      <4> QED
        BY <3>1, <3>2, <3>4, <4>2
    <3> QED
      BY <3>3, <3>4
  <2>7. Appended(R, g, n + 1)
    <3> HIDE DEF g
    <3> QED
      BY <2>5, <2>6 DEF Appended
  <2> QED
    BY <2>4, <2>7
<1>3. Built = Nat
  <2> HIDE DEF Built
  <2>1. Built \in SUBSET Nat
    BY DEF Built
  <2> QED
    BY <1>1, <1>2, <2>1, AllNaturals
<1>4. Len(R) \in Built
  <2> HIDE DEF Built
  <2> QED
    BY <1>3
<1> QED
  BY <1>4

LEMMA FlattenAppends ==
  ASSUME NEW T, NEW R \in Seq(Seq(T))
  PROVE  \E f \in [0..Len(R) -> Seq(T)] :
           Appended(R, f, Len(R)) /\ SE!FlattenSeq(R) = f[Len(R)]
<1>1. Len(R) \in Nat /\ \A i \in 1..Len(R) : R[i] \in Seq(T)
  OBVIOUS
<1>2. PICK f \in [0..Len(R) -> Seq(T)] : Appended(R, f, Len(R))
  BY PartialResults
<1>3. f[0] = <<>> /\ \A i \in 1..Len(R) : f[i] = f[i - 1] \o R[i]
  BY <1>2 DEF Appended
<1>4. CASE Len(R) = 0
  <2>1. R = <<>>
    BY <1>4
  <2>2. SE!FlattenSeq(R) = R
    BY <1>4 DEF SE!FlattenSeq
  <2> QED
    BY <1>2, <1>3, <1>4, <2>1, <2>2
<1>5. CASE Len(R) # 0
  <2> DEFINE step(h) == [i \in 1..Len(R) |-> IF i = 1 THEN R[i] ELSE h[i - 1] \o R[i]]
             flatten == CHOOSE h : h = step(h)
             fn == [i \in 1..Len(R) |-> f[i]]
  <2>0. f[1] = R[1]
    <3>1. 1 \in 1..Len(R) /\ 1 - 1 = 0
      BY <1>1, <1>5
    <3>2. f[1] = <<>> \o R[1]
      BY <1>3, <3>1
    <3> QED
      BY <1>1, <3>1, <3>2, ConcatEmptySeq
  <2>1. fn = step(fn)
    <3>1. ASSUME NEW i \in 1..Len(R) PROVE fn[i] = step(fn)[i]
      <4>1. CASE i = 1
        BY <2>0, <4>1
      <4>2. CASE i # 1
        <5>1. i - 1 \in 1..Len(R)
          BY <1>1, <4>2
        <5>2. fn[i - 1] = f[i - 1]
          BY <5>1
        <5> QED
          BY <1>3, <4>2, <5>2
      <4> QED
        BY <4>1, <4>2
    <3> QED
      BY <3>1
  <2>2. flatten = step(flatten)
    BY <2>1
  <2>3. SE!FlattenSeq(R) = flatten[Len(R)]
    BY <1>5 DEF SE!FlattenSeq
  <2> HIDE DEF flatten
  <2>4. /\ flatten[1] = R[1]
        /\ \A i \in 1..Len(R) : i # 1 => flatten[i] = flatten[i - 1] \o R[i]
    <3>1. \A i \in 1..Len(R) : step(flatten)[i] = IF i = 1 THEN R[i] ELSE flatten[i - 1] \o R[i]
      OBVIOUS
    <3>2. \A i \in 1..Len(R) : flatten[i] = IF i = 1 THEN R[i] ELSE flatten[i - 1] \o R[i]
      <4> HIDE DEF step
      <4> QED
        BY <2>2, <3>1
    <3>3. 1 \in 1..Len(R)
      BY <1>1, <1>5
    <3> QED
      BY <3>2, <3>3
  <2> DEFINE Same == {n \in Nat : n + 1 <= Len(R) => flatten[n + 1] = f[n + 1]}
  <2>5. 0 \in Same
    BY <2>0, <2>4
  <2>6. ASSUME NEW n \in Same PROVE n + 1 \in Same
    <3>1. SUFFICES ASSUME n + 2 <= Len(R) PROVE flatten[n + 2] = f[n + 2]
      OBVIOUS
    <3>2. n \in Nat /\ n + 2 \in 1..Len(R) /\ n + 2 # 1 /\ (n + 2) - 1 = n + 1
      BY <1>1, <3>1
    <3>3. flatten[n + 1] = f[n + 1]
      BY <1>1, <3>1
    <3>4. flatten[n + 2] = flatten[n + 1] \o R[n + 2]
      BY <2>4, <3>2
    <3>5. f[n + 2] = f[n + 1] \o R[n + 2]
      BY <1>3, <3>2
    <3> QED
      BY <3>3, <3>4, <3>5
  <2>7. Same = Nat
    <3> HIDE DEF Same
    <3>1. Same \in SUBSET Nat
      BY DEF Same
    <3> QED
      BY <2>5, <2>6, <3>1, AllNaturals
  <2>8. Len(R) - 1 \in Same
    <3> HIDE DEF Same
    <3> QED
      BY <1>1, <1>5, <2>7
  <2>9. (Len(R) - 1) + 1 = Len(R) /\ Len(R) <= Len(R)
    BY <1>1
  <2>10. flatten[Len(R)] = f[Len(R)]
    BY <2>8, <2>9
  <2> QED
    BY <1>2, <2>3, <2>10
<1> QED
  BY <1>4, <1>5

(* The nonces of sender s that are pending, and the positions that hold    *)
(* its pending entries.                                                    *)
PendingNonces(s) ==
  {n \in base[s]..MaxNonce : \A m \in base[s]..n : TransactionIndex(s, m) # 0}
PendingAt(s) == {i \in DOMAIN txs : EntryIsPending(txs[i]) /\ txs[i].tx.sender = s}

(* A slot is occupied exactly when findTransactionIndex finds it. *)
LEMMA OccupiedIsFound ==
  ASSUME Inv, NEW s, NEW n
  PROVE  /\ Slot(Stored, s, n) # {} <=> TransactionIndex(s, n) # 0
         /\ TransactionIndex(s, n) # 0 =>
              /\ TransactionIndex(s, n) \in DOMAIN txs
              /\ InSlot(txs[TransactionIndex(s, n)], s, n)
<1>1. txs \in Seq(Offer) /\ Stored = {txs[i] : i \in DOMAIN txs}
  BY StoredTypes DEF Inv, TypeOK
<1>2. Slot(Stored, s, n) # {} <=> \E i \in DOMAIN txs : InSlot(txs[i], s, n)
  BY <1>1 DEF Slot, InSlot
<1> QED
  BY <1>1, <1>2, IndexFinds

(* isPending read off the occupied slots. *)
LEMMA PendingByNonce ==
  ASSUME Inv, NEW e \in Stored
  PROVE  EntryIsPending(e) <=> e.tx.nonce \in PendingNonces(e.tx.sender)
<1> DEFINE s == e.tx.sender
           n == e.tx.nonce
<1>0. MaxNonce \in Nat
  BY PoolAssumption
<1>1. /\ s \in Sender /\ n \in Nat /\ n <= MaxNonce
      /\ base[s] \in Nat
  BY <1>0, StoredTypes DEF Inv, TypeOK, Nonce
<1>2. EntryIsPending(e) <=> base[s] <= n /\ \A m \in base[s]..n : TransactionIndex(s, m) # 0
  BY OccupiedIsFound DEF EntryIsPending, IsPending
<1> QED
  BY <1>0, <1>1, <1>2 DEF PendingNonces

(* The pending nonces of a sender run from its base nonce without a gap. *)
LEMMA PendingNoncesRun ==
  ASSUME Inv, NEW s \in Sender
  PROVE  \E c \in Nat :
           /\ base[s] + c <= MaxNonce + 1
           /\ PendingNonces(s) = base[s]..(base[s] + c - 1)
           /\ base[s] + c <= MaxNonce => TransactionIndex(s, base[s] + c) = 0
<1> DEFINE b == base[s]
           Stops == {k \in Nat : b + k \notin PendingNonces(s)}
<1>0. MaxNonce \in Nat /\ b \in Nat /\ b <= MaxNonce
  BY PoolAssumption DEF Inv, TypeOK, Nonce
<1> HIDE DEF b
<1>1. MaxNonce + 1 - b \in Stops
  <2>1. MaxNonce + 1 - b \in Nat /\ b + (MaxNonce + 1 - b) = MaxNonce + 1
    BY <1>0
  <2>2. MaxNonce + 1 \notin PendingNonces(s)
    BY <1>0 DEF PendingNonces, b
  <2> QED
    BY <2>1, <2>2
<1>2. PICK c \in Stops : \A k \in Stops : c <= k
  <2>1. Stops \in SUBSET Nat /\ Stops # {}
    BY <1>1
  <2> HIDE DEF Stops
  <2> QED
    BY <2>1, LeastNatural
<1>3. c \in Nat /\ b + c \notin PendingNonces(s)
  OBVIOUS
<1>4. b + c <= MaxNonce + 1
  BY <1>0, <1>1, <1>2, <1>3
<1>5. ASSUME NEW k \in Nat, k < c PROVE b + k \in PendingNonces(s)
  BY <1>2, <1>5
<1>6. ASSUME NEW n \in PendingNonces(s) PROVE n \in b..(b + c - 1)
  <2>1. n \in b..MaxNonce /\ \A m \in b..n : TransactionIndex(s, m) # 0
    BY DEF PendingNonces, b
  <2>2. SUFFICES ASSUME n >= b + c PROVE FALSE
    BY <1>0, <1>3, <2>1
  <2>3. b + c \in b..MaxNonce /\ \A m \in b..(b + c) : m \in b..n
    BY <1>0, <1>3, <2>1, <2>2
  <2>4. b + c \in PendingNonces(s)
    BY <2>1, <2>3 DEF PendingNonces, b
  <2> QED
    BY <1>3, <2>4
<1>7. ASSUME NEW n \in b..(b + c - 1) PROVE n \in PendingNonces(s)
  <2>1. n - b \in Nat /\ n - b < c /\ b + (n - b) = n
    BY <1>0, <1>3
  <2>2. b + (n - b) \in PendingNonces(s)
    BY <1>5, <2>1
  <2> QED
    BY <2>1, <2>2
<1>8. PendingNonces(s) = b..(b + c - 1)
  BY <1>6, <1>7
<1>9. ASSUME b + c <= MaxNonce, TransactionIndex(s, b + c) # 0 PROVE FALSE
  <2>1. ASSUME NEW m \in b..(b + c) PROVE TransactionIndex(s, m) # 0
    <3>1. CASE m = b + c
      BY <1>9, <3>1
    <3>2. CASE m # b + c
      <4>1. m \in PendingNonces(s) /\ m \in b..m
        BY <1>0, <1>3, <1>8, <3>2
      <4> QED
        BY <4>1 DEF PendingNonces, b
    <3> QED
      BY <3>1, <3>2
  <2>2. b + c \in b..MaxNonce
    BY <1>0, <1>3, <1>9
  <2>3. b + c \in PendingNonces(s)
    BY <2>1, <2>2 DEF PendingNonces, b
  <2> QED
    BY <1>3, <2>3
<1> QED
  BY <1>3, <1>4, <1>8, <1>9 DEF b

(* As many entries of a sender are pending as nonces are. *)
LEMMA PendingAtCounts ==
  ASSUME Inv, NEW s \in Sender
  PROVE  /\ IsFiniteSet(PendingAt(s))
         /\ IsFiniteSet(PendingNonces(s))
         /\ Cardinality(PendingNonces(s)) \in Nat
         /\ Cardinality(PendingAt(s)) = Cardinality(PendingNonces(s))
         /\ Cardinality({e \in Stored : e.tx.sender = s /\ EntryIsPending(e)})
              = Cardinality(PendingNonces(s))
<1> DEFINE E == {e \in Stored : e.tx.sender = s /\ EntryIsPending(e)}
           nonceAt == [i \in PendingAt(s) |-> txs[i].tx.nonce]
           entryAt == [i \in PendingAt(s) |-> txs[i]]
<1>1. /\ txs \in Seq(Offer) /\ Stored = {txs[i] : i \in DOMAIN txs}
      /\ DOMAIN txs = 1..Len(txs) /\ Len(txs) \in Nat
  BY StoredTypes DEF Inv, TypeOK
<1>2. IsFiniteSet(PendingAt(s))
  <2>1. IsFiniteSet(1..Len(txs)) /\ PendingAt(s) \in SUBSET (1..Len(txs))
    BY <1>1, FS_Interval DEF PendingAt
  <2> QED
    BY <2>1, FS_Subset
<1>3. ASSUME NEW i \in PendingAt(s)
      PROVE  /\ i \in DOMAIN txs /\ txs[i] \in E
             /\ txs[i].tx.sender = s /\ txs[i].tx.nonce \in PendingNonces(s)
  BY <1>1, PendingByNonce DEF PendingAt
<1>4. ASSUME NEW i \in PendingAt(s), NEW j \in PendingAt(s), txs[i].tx.nonce = txs[j].tx.nonce
      PROVE  i = j
  BY <1>3, <1>4 DEF Inv, SlotsAreDistinct, InSlot
<1>5. ASSUME NEW n \in PendingNonces(s) PROVE \E i \in PendingAt(s) : txs[i].tx.nonce = n
  <2>1. TransactionIndex(s, n) # 0
    <3>1. n \in base[s]..MaxNonce /\ base[s] \in Nat
      BY PoolAssumption DEF PendingNonces, Inv, TypeOK, Nonce
    <3>2. n \in base[s]..n
      BY <3>1
    <3> QED
      BY <3>2 DEF PendingNonces
  <2>2. PICK i \in DOMAIN txs : InSlot(txs[i], s, n)
    BY <2>1, OccupiedIsFound
  <2>3. EntryIsPending(txs[i])
    BY <1>1, <2>2, PendingByNonce DEF InSlot
  <2> QED
    BY <2>2, <2>3 DEF PendingAt, InSlot
<1>6. ASSUME NEW e \in E PROVE \E i \in PendingAt(s) : txs[i] = e
  BY <1>1 DEF PendingAt
<1>7. nonceAt \in Bijection(PendingAt(s), PendingNonces(s))
  BY <1>3, <1>4, <1>5 DEF Bijection, Injection, Surjection, IsInjective
<1>8. entryAt \in Bijection(PendingAt(s), E)
  <2> HIDE DEF E
  <2>1. \A i, j \in PendingAt(s) : txs[i] = txs[j] => i = j
    BY <1>4
  <2> QED
    BY <1>3, <1>6, <2>1 DEF Bijection, Injection, Surjection, IsInjective
<1> HIDE DEF nonceAt, entryAt, E
<1>9. IsFiniteSet(PendingNonces(s)) /\ Cardinality(PendingNonces(s)) = Cardinality(PendingAt(s))
  BY <1>2, <1>7, FS_Bijection DEF ExistsBijection
<1>10. Cardinality(E) = Cardinality(PendingAt(s))
  BY <1>2, <1>8, FS_Bijection DEF ExistsBijection
<1>11. Cardinality(PendingNonces(s)) \in Nat
  BY <1>9, FS_CardinalityType
<1> QED
  BY <1>2, <1>9, <1>10, <1>11 DEF E

(* Together: a sender with c pending entries has them at its base nonce    *)
(* and the c - 1 nonces after it.                                          *)
LEMMA PendingRun ==
  ASSUME Inv, NEW s \in Sender
  PROVE  LET c == Cardinality(PendingAt(s))
         IN  /\ c \in Nat
             /\ base[s] + c <= MaxNonce + 1
             /\ PendingNonces(s) = base[s]..(base[s] + c - 1)
             /\ base[s] + c <= MaxNonce => TransactionIndex(s, base[s] + c) = 0
<1>0. base[s] \in Nat
  BY PoolAssumption DEF Inv, TypeOK, Nonce
<1>1. PICK c \in Nat :
        /\ base[s] + c <= MaxNonce + 1
        /\ PendingNonces(s) = base[s]..(base[s] + c - 1)
        /\ base[s] + c <= MaxNonce => TransactionIndex(s, base[s] + c) = 0
  BY PendingNoncesRun
<1>2. Cardinality(base[s]..(base[s] + c - 1)) = c
  <2> DEFINE top == base[s] + c - 1
  <2>1. top \in Int /\ base[s] \in Int
    BY <1>0
  <2>2. (base[s] > top <=> c = 0) /\ top - base[s] + 1 = c
    BY <1>0
  <2> HIDE DEF top
  <2>3. Cardinality(base[s]..top) = IF base[s] > top THEN 0 ELSE top - base[s] + 1
    BY <2>1, FS_Interval
  <2>4. Cardinality(base[s]..top) = c
    BY <2>2, <2>3
  <2> QED
    BY <2>4 DEF top
<1>3. Cardinality(PendingAt(s)) = c
  BY <1>1, <1>2, PendingAtCounts
<1> QED
  BY <1>1, <1>3

(* The walk of pendingNonce stops where the pending entries end, or at the *)
(* largest nonce.                                                          *)
LEMMA PendingNonceCounts ==
  ASSUME Inv, NEW s \in Sender
  PROVE  LET n == base[s] + Cardinality(PendingAt(s))
         IN  PendingNonce(s, base[s]) = IF n > MaxNonce THEN MaxNonce ELSE n
<1> DEFINE b == base[s]
           c == Cardinality(PendingAt(s))
           end == IF b + c > MaxNonce THEN MaxNonce ELSE b + c
           Stop(n) == /\ \A m \in b..(n - 1) : TransactionIndex(s, m) # 0
                      /\ TransactionIndex(s, n) = 0 \/ n = MaxNonce
<1>0. MaxNonce \in Nat /\ b \in Nat /\ b <= MaxNonce
  BY PoolAssumption DEF Inv, TypeOK, Nonce
<1>1. /\ c \in Nat
      /\ b + c <= MaxNonce + 1
      /\ PendingNonces(s) = b..(b + c - 1)
      /\ b + c <= MaxNonce => TransactionIndex(s, b + c) = 0
  BY PendingRun
<1>2. PendingNonce(s, b) = CHOOSE n \in b..MaxNonce : Stop(n)
  BY DEF PendingNonce
<1> HIDE DEF b, c
<1>3. ASSUME NEW m \in b..(b + c - 1) PROVE TransactionIndex(s, m) # 0
  <2>1. m \in PendingNonces(s) /\ m \in b..m
    BY <1>0, <1>1
  <2> QED
    BY <2>1 DEF PendingNonces, b
<1>4. end \in b..MaxNonce /\ Stop(end)
  <2>1. end \in b..MaxNonce /\ \A m \in b..(end - 1) : m \in b..(b + c - 1)
    BY <1>0, <1>1
  <2>2. TransactionIndex(s, end) = 0 \/ end = MaxNonce
    BY <1>0, <1>1
  <2> QED
    BY <1>3, <2>1, <2>2
<1>5. ASSUME NEW n \in b..MaxNonce, Stop(n) PROVE n = end
  <2>1. n <= b + c
    <3>1. SUFFICES ASSUME n > b + c PROVE FALSE
      BY <1>0, <1>1
    <3>2. b + c \in b..(n - 1) /\ b + c <= MaxNonce
      BY <1>0, <1>1, <3>1
    <3> QED
      BY <1>1, <1>5, <3>2
  <2>2. n < b + c => n = MaxNonce
    <3>1. n < b + c => n \in b..(b + c - 1)
      BY <1>0, <1>1
    <3> QED
      BY <1>3, <1>5, <3>1
  <2> QED
    BY <1>0, <1>1, <2>1, <2>2
<1> HIDE DEF end, Stop
<1>6. PendingNonce(s, b) = end
  BY <1>2, <1>4, <1>5
<1> QED
  BY <1>6 DEF end, b, c

-----------------------------------------------------------------------------
(* getReady: the positions of the group heads, the heads and their runs. *)
HeadAt == {i \in DOMAIN txs :
             EntryIsPending(txs[i]) /\ txs[i].tx.nonce = base[txs[i].tx.sender]}
Heads == Keep(HeadAt)
Runs == [i \in DOMAIN Heads |-> RunFrom(Heads[i])]

LEMMA ReadyIsRuns == GetReady = SE!FlattenSeq(Runs)
  BY DEF GetReady, Runs, Heads, HeadAt

(* Every sender with a pending entry heads one group, and only those.      *)
LEMMA OneHeadPerSender ==
  ASSUME Inv
  PROVE  /\ Heads \in Seq(Offer)
         /\ \A k \in DOMAIN Heads :
              /\ Heads[k].tx.sender \in Sender
              /\ Heads[k].tx.nonce = base[Heads[k].tx.sender]
         /\ \A k, l \in DOMAIN Heads :
              Heads[k].tx.sender = Heads[l].tx.sender => k = l
         /\ \A i \in DOMAIN txs : EntryIsPending(txs[i]) =>
              \E k \in DOMAIN Heads : Heads[k].tx.sender = txs[i].tx.sender
<1>1. /\ TypeOK /\ txs \in Seq(Offer) /\ Stored = {txs[i] : i \in DOMAIN txs}
      /\ \A i \in DOMAIN txs : txs[i].tx.sender \in Sender /\ txs[i].tx.nonce \in Nonce
  BY StoredTypes DEF Inv, TypeOK
<1> DEFINE rank(i) == Cardinality({j \in HeadAt : j <= i})
<1>2. /\ Heads \in Seq(Offer)
      /\ SE!ToSet(Heads) = {txs[i] : i \in HeadAt}
      /\ \A k \in DOMAIN Heads : \E i \in HeadAt : Heads[k] = txs[i] /\ rank(i) = k
  <2>1. HeadAt \in SUBSET (DOMAIN txs)
    BY DEF HeadAt
  <2> QED
    BY <1>1, <2>1, KeepKeeps DEF Heads
<1>3. ASSUME NEW k \in DOMAIN Heads
      PROVE  Heads[k].tx.sender \in Sender /\ Heads[k].tx.nonce = base[Heads[k].tx.sender]
  BY <1>1, <1>2 DEF HeadAt
<1>4. ASSUME NEW k \in DOMAIN Heads, NEW l \in DOMAIN Heads,
             Heads[k].tx.sender = Heads[l].tx.sender
      PROVE  k = l
  <2>1. PICK i \in HeadAt : Heads[k] = txs[i] /\ rank(i) = k
    BY <1>2
  <2>2. PICK j \in HeadAt : Heads[l] = txs[j] /\ rank(j) = l
    BY <1>2
  <2>3. i = j
    BY <1>4, <2>1, <2>2 DEF HeadAt, Inv, SlotsAreDistinct, InSlot
  <2> QED
    BY <2>1, <2>2, <2>3
<1>5. ASSUME NEW i \in DOMAIN txs, EntryIsPending(txs[i])
      PROVE  \E k \in DOMAIN Heads : Heads[k].tx.sender = txs[i].tx.sender
  <2> DEFINE s == txs[i].tx.sender
  <2>1. s \in Sender /\ base[s] \in Nat
    BY <1>1, PoolAssumption DEF TypeOK, Nonce
  <2>2. txs[i].tx.nonce \in PendingNonces(s)
    BY <1>1, <1>5, PendingByNonce
  <2>3. base[s] \in PendingNonces(s)
    <3>1. /\ txs[i].tx.nonce \in base[s]..MaxNonce
          /\ \A m \in base[s]..txs[i].tx.nonce : TransactionIndex(s, m) # 0
      BY <2>2 DEF PendingNonces
    <3>2. /\ base[s] \in base[s]..MaxNonce
          /\ \A m \in base[s]..base[s] : m \in base[s]..txs[i].tx.nonce
      BY <2>1, <3>1, PoolAssumption
    <3> QED
      BY <3>1, <3>2 DEF PendingNonces
  <2>4. TransactionIndex(s, base[s]) # 0
    BY <2>1, <2>3 DEF PendingNonces
  <2>5. PICK h \in DOMAIN txs : InSlot(txs[h], s, base[s])
    BY <2>4, OccupiedIsFound
  <2>6. EntryIsPending(txs[h])
    BY <1>1, <2>3, <2>5, PendingByNonce DEF InSlot
  <2>7. h \in HeadAt
    BY <2>5, <2>6 DEF HeadAt, InSlot
  <2>8. txs[h] \in SE!ToSet(Heads)
    BY <1>2, <2>7
  <2>9. PICK k \in DOMAIN Heads : Heads[k] = txs[h]
    BY <2>8 DEF SE!ToSet
  <2> QED
    BY <2>5, <2>9 DEF InSlot
<1> QED
  BY <1>2, <1>3, <1>4, <1>5

(* The run of a head holds its sender's pending entries, one for each      *)
(* nonce from the base nonce on.                                           *)
LEMMA RunsExecute ==
  ASSUME Inv, NEW k \in DOMAIN Heads
  PROVE  LET s == Heads[k].tx.sender
         IN  /\ Runs[k] \in Seq(Offer)
             /\ Len(Runs[k]) = Cardinality(PendingAt(s))
             /\ \A p \in 1..Len(Runs[k]) :
                  InSlot(Runs[k][p], s, base[s] + p - 1)
<1> DEFINE s == Heads[k].tx.sender
           c == Cardinality(PendingAt(s))
<1>1. s \in Sender /\ Heads[k].tx.nonce = base[s] /\ base[s] \in Nat
  BY OneHeadPerSender, PoolAssumption DEF Inv, TypeOK, Nonce
<1>2. c \in Nat /\ PendingNonces(s) = base[s]..(base[s] + c - 1)
  BY <1>1, PendingRun
<1>3. Runs[k] = [p \in 1..c |-> txs[TransactionIndex(s, base[s] + p - 1)]]
  <2>1. Cardinality(PendingNonces(s)) = c
    BY <1>1, PendingAtCounts
  <2>2. Runs[k] = RunFrom(Heads[k])
    BY DEF Runs
  <2> QED
    BY <1>1, <2>1, <2>2 DEF RunFrom, PendingNonces
<1> HIDE DEF c
<1>4. ASSUME NEW p \in 1..c
      PROVE  /\ Runs[k][p] \in Offer
             /\ InSlot(Runs[k][p], s, base[s] + p - 1)
  <2>1. base[s] + p - 1 \in PendingNonces(s) /\ base[s] + p - 1 \in base[s]..(base[s] + p - 1)
    BY <1>1, <1>2
  <2>2. TransactionIndex(s, base[s] + p - 1) # 0
    BY <2>1 DEF PendingNonces
  <2>3. /\ TransactionIndex(s, base[s] + p - 1) \in DOMAIN txs
        /\ InSlot(txs[TransactionIndex(s, base[s] + p - 1)], s, base[s] + p - 1)
    BY <2>2, OccupiedIsFound
  <2>4. Runs[k][p] = txs[TransactionIndex(s, base[s] + p - 1)]
    BY <1>3
  <2>5. txs \in Seq(Offer)
    BY DEF Inv, TypeOK
  <2> QED
    BY <2>3, <2>4, <2>5
<1>5. Runs[k] \in Seq(Offer) /\ Len(Runs[k]) = c
  <2>1. Runs[k] \in [1..c -> Offer]
    BY <1>3, <1>4
  <2> QED
    BY <1>2, <2>1, SeqDef
<1> QED
  BY <1>4, <1>5 DEF c

-----------------------------------------------------------------------------
(* What the first i runs have emitted: one entry for each pending entry of *)
(* the first i heads' senders, and every nonce one above the last of its   *)
(* sender.                                                                 *)
Reached(i) == {Heads[k].tx.sender : k \in 1..i}
ReachedAt(i) == {p \in DOMAIN txs : EntryIsPending(txs[p]) /\ txs[p].tx.sender \in Reached(i)}
Earlier(list, p) == {q \in 1..(p - 1) : list[q].tx.sender = list[p].tx.sender}
Emitted(i, list) ==
  /\ list \in Seq(Offer)
  /\ Len(list) = Cardinality(ReachedAt(i))
  /\ \A p \in 1..Len(list) :
       /\ list[p].tx.sender \in Reached(i)
       /\ list[p].tx.nonce = base[list[p].tx.sender] + Cardinality(Earlier(list, p))

LEMMA NothingEmitted ==
  ASSUME Inv
  PROVE  Emitted(0, <<>>)
<1>1. ReachedAt(0) = {}
  BY DEF ReachedAt, Reached
<1>2. Cardinality(ReachedAt(0)) = 0
  BY <1>1, FS_EmptySet
<1>3. <<>> \in Seq(Offer) /\ Len(<<>>) = 0
  BY EmptySeq
<1> QED
  BY <1>2, <1>3 DEF Emitted

(* One more run: its sender is new, so it adds all of that sender's entries*)
(* and the count of earlier entries starts over.                           *)
LEMMA RunIsEmitted ==
  ASSUME Inv, NEW i \in 1..Len(Heads), NEW list, Emitted(i - 1, list)
  PROVE  Emitted(i, list \o Runs[i])
<1> DEFINE s == Heads[i].tx.sender
           run == Runs[i]
           n == Len(list)
           longer == list \o run
<1>0. Len(Heads) \in Nat /\ DOMAIN Heads = 1..Len(Heads) /\ i \in DOMAIN Heads
  BY OneHeadPerSender, LenProperties
<1>1. /\ list \in Seq(Offer)
      /\ n \in Nat
      /\ n = Cardinality(ReachedAt(i - 1))
      /\ \A p \in 1..n :
           /\ list[p].tx.sender \in Reached(i - 1)
           /\ list[p].tx.nonce = base[list[p].tx.sender] + Cardinality(Earlier(list, p))
  BY LenProperties DEF Emitted
<1>2. s \in Sender /\ base[s] \in Nat
  BY <1>0, OneHeadPerSender, PoolAssumption DEF Inv, TypeOK, Nonce
<1>3. /\ run \in Seq(Offer)
      /\ Len(run) = Cardinality(PendingAt(s))
      /\ Len(run) \in Nat
      /\ \A p \in 1..Len(run) : InSlot(run[p], s, base[s] + p - 1)
  <2>1. /\ run \in Seq(Offer)
        /\ Len(run) = Cardinality(PendingAt(s))
        /\ \A p \in 1..Len(run) : InSlot(run[p], s, base[s] + p - 1)
    BY <1>0, RunsExecute
  <2> QED
    BY <2>1, LenProperties
<1>4. s \notin Reached(i - 1)
  <2>1. \A k \in 1..(i - 1) : k \in DOMAIN Heads /\ k # i
    BY <1>0
  <2> QED
    BY <1>0, <2>1, OneHeadPerSender DEF Reached
<1>5. Reached(i) = Reached(i - 1) \cup {s}
  <2>1. 1..i = (1..(i - 1)) \cup {i}
    BY <1>0
  <2> QED
    BY <2>1 DEF Reached
<1> HIDE DEF s, run, n
<1>6. /\ longer \in Seq(Offer)
      /\ Len(longer) = n + Len(run)
      /\ \A p \in 1..n : longer[p] = list[p]
      /\ \A p \in (n + 1)..(n + Len(run)) : longer[p] = run[p - n]
  <2>1. /\ longer \in Seq(Offer)
        /\ Len(longer) = Len(list) + Len(run)
        /\ \A p \in 1..(Len(list) + Len(run)) :
             longer[p] = IF p <= Len(list) THEN list[p] ELSE run[p - Len(list)]
    BY <1>1, <1>3, ConcatProperties
  <2>2. /\ \A p \in 1..n : p \in 1..(n + Len(run)) /\ p <= n
        /\ \A p \in (n + 1)..(n + Len(run)) : p \in 1..(n + Len(run)) /\ ~(p <= n)
    BY <1>1, <1>3
  <2> HIDE DEF longer
  <2> QED
    BY <2>1, <2>2 DEF n
<1> HIDE DEF longer
<1>7. Len(longer) = Cardinality(ReachedAt(i))
  <2>1. ReachedAt(i) = ReachedAt(i - 1) \cup PendingAt(s)
    BY <1>5 DEF ReachedAt, PendingAt
  <2>2. ReachedAt(i - 1) \cap PendingAt(s) = {}
    BY <1>4 DEF ReachedAt, PendingAt
  <2>3. IsFiniteSet(ReachedAt(i - 1)) /\ IsFiniteSet(PendingAt(s))
    <3>1. DOMAIN txs = 1..Len(txs) /\ Len(txs) \in Nat
      BY StoredTypes DEF Inv
    <3>2. IsFiniteSet(DOMAIN txs)
      BY <3>1, FS_Interval
    <3>3. ReachedAt(i - 1) \in SUBSET (DOMAIN txs) /\ PendingAt(s) \in SUBSET (DOMAIN txs)
      BY DEF ReachedAt, PendingAt
    <3> QED
      BY <3>2, <3>3, FS_Subset
  <2>4. Cardinality(ReachedAt(i - 1) \cup PendingAt(s))
          = Cardinality(ReachedAt(i - 1)) + Cardinality(PendingAt(s)) - Cardinality({})
    BY <2>2, <2>3, FS_Union
  <2>5. Cardinality({}) = 0
    BY FS_EmptySet
  <2> QED
    BY <1>1, <1>3, <1>6, <2>1, <2>4, <2>5
<1>8. ASSUME NEW p \in 1..Len(longer)
      PROVE  /\ longer[p].tx.sender \in Reached(i)
             /\ longer[p].tx.nonce = base[longer[p].tx.sender] + Cardinality(Earlier(longer, p))
  <2>1. CASE p \in 1..n
    <3>1. longer[p] = list[p] /\ \A q \in 1..(p - 1) : longer[q] = list[q]
      BY <1>1, <1>6, <2>1
    <3>2. Earlier(longer, p) = Earlier(list, p)
      BY <3>1 DEF Earlier
    <3> QED
      BY <1>1, <1>5, <2>1, <3>1, <3>2
  <2>2. CASE p \in (n + 1)..(n + Len(run))
    <3>1. p - n \in 1..Len(run) /\ longer[p] = run[p - n]
      BY <1>1, <1>3, <1>6, <2>2
    <3>2. longer[p].tx.sender = s /\ longer[p].tx.nonce = base[s] + (p - n) - 1
      <4>1. InSlot(run[p - n], s, base[s] + (p - n) - 1)
        BY <1>3, <3>1
      <4>2. InSlot(longer[p], s, base[s] + (p - n) - 1)
        BY <3>1, <4>1
      <4> QED
        BY <4>2 DEF InSlot
    <3>3. ASSUME NEW q \in 1..(p - 1)
          PROVE  longer[q].tx.sender = s <=> q \in (n + 1)..(p - 1)
      <4>1. CASE q \in 1..n
        <5>1. longer[q].tx.sender \in Reached(i - 1)
          BY <1>1, <1>6, <4>1
        <5>2. longer[q].tx.sender # s
          BY <1>4, <5>1
        <5>3. q \notin (n + 1)..(p - 1)
          BY <1>1, <4>1
        <5> QED
          BY <5>2, <5>3
      <4>2. CASE q \in (n + 1)..(p - 1)
        <5>1. q \in (n + 1)..(n + Len(run)) /\ q - n \in 1..Len(run)
          BY <1>1, <1>3, <2>2, <4>2
        <5>2. longer[q].tx.sender = s
          BY <1>3, <1>6, <5>1 DEF InSlot
        <5> QED
          BY <4>2, <5>2
      <4> QED
        BY <1>1, <2>2, <4>1, <4>2
    <3>4. Earlier(longer, p) = (n + 1)..(p - 1)
      <4>1. \A q \in (n + 1)..(p - 1) : q \in 1..(p - 1)
        BY <1>1, <2>2
      <4> QED
        BY <3>2, <3>3, <4>1 DEF Earlier
    <3>5. Cardinality((n + 1)..(p - 1)) = (p - n) - 1
      <4> DEFINE lo == n + 1
                 hi == p - 1
      <4>0. n \in Int /\ p \in Int /\ n < p
        BY <1>1, <1>3, <2>2
      <4>1. /\ lo \in Int /\ hi \in Int
            /\ lo > hi => (p - n) - 1 = 0
            /\ hi - lo + 1 = (p - n) - 1
        BY <4>0
      <4> HIDE DEF lo, hi
      <4>2. Cardinality(lo..hi) = IF lo > hi THEN 0 ELSE hi - lo + 1
        BY <4>1, FS_Interval
      <4>3. Cardinality(lo..hi) = (p - n) - 1
        BY <4>1, <4>2
      <4> QED
        BY <4>3 DEF lo, hi
    <3>6. base[s] + (p - n) - 1 = base[s] + ((p - n) - 1)
      BY <1>1, <1>2, <3>1
    <3> QED
      BY <1>5, <3>2, <3>4, <3>5, <3>6
  <2> QED
    BY <1>1, <1>3, <1>6, <2>1, <2>2
<1> QED
  BY <1>6, <1>7, <1>8 DEF Emitted, longer, run

(* All runs: what getReady returns. *)
LEMMA ReadyIsEmitted ==
  ASSUME Inv
  PROVE  Emitted(Len(Heads), GetReady)
<1>1. Len(Heads) \in Nat /\ DOMAIN Heads = 1..Len(Heads)
  BY OneHeadPerSender, LenProperties
<1>2. Runs \in Seq(Seq(Offer)) /\ Len(Runs) = Len(Heads)
  <2>1. \A k \in DOMAIN Heads : Runs[k] \in Seq(Offer)
    BY RunsExecute
  <2>2. Runs \in [1..Len(Heads) -> Seq(Offer)]
    BY <1>1, <2>1 DEF Runs
  <2> QED
    BY <1>1, <2>2, SeqDef
<1>3. PICK f \in [0..Len(Runs) -> Seq(Offer)] :
        Appended(Runs, f, Len(Runs)) /\ SE!FlattenSeq(Runs) = f[Len(Runs)]
  BY <1>2, FlattenAppends
<1>4. f[0] = <<>> /\ \A i \in 1..Len(Heads) : f[i] = f[i - 1] \o Runs[i]
  BY <1>2, <1>3 DEF Appended
<1> DEFINE T == {i \in Nat : i <= Len(Heads) => Emitted(i, f[i])}
<1>5. 0 \in T
  BY <1>4, NothingEmitted
<1>6. ASSUME NEW i \in T PROVE i + 1 \in T
  <2>1. SUFFICES ASSUME i + 1 <= Len(Heads) PROVE Emitted(i + 1, f[i + 1])
    OBVIOUS
  <2>2. i \in Nat /\ i + 1 \in 1..Len(Heads) /\ (i + 1) - 1 = i /\ i <= Len(Heads)
    BY <1>1, <2>1
  <2>3. Emitted((i + 1) - 1, f[i])
    BY <2>2
  <2>4. Emitted(i + 1, f[i] \o Runs[i + 1])
    BY <2>2, <2>3, RunIsEmitted
  <2> QED
    BY <1>4, <2>2, <2>4
<1>7. Len(Heads) \in T
  <2>1. T \in SUBSET Nat
    OBVIOUS
  <2> HIDE DEF T
  <2> QED
    BY <1>1, <1>5, <1>6, <2>1, AllNaturals
<1> QED
  BY <1>1, <1>2, <1>3, <1>7, ReadyIsRuns

(* The list is whole and in order where the invariant holds. *)
LEMMA InvImpliesReady == Inv => ReadyListIsRight
<1> SUFFICES ASSUME Inv PROVE ReadyListIsRight
  OBVIOUS
<1>1. Emitted(Len(Heads), GetReady)
  BY ReadyIsEmitted
<1>2. ReachedAt(Len(Heads)) = {i \in DOMAIN txs : EntryIsPending(txs[i])}
  <2>1. DOMAIN Heads = 1..Len(Heads)
    BY OneHeadPerSender, LenProperties
  <2> QED
    BY <2>1, OneHeadPerSender DEF ReachedAt, Reached
<1>3. Len(GetReady) = PendingCount
  BY <1>1, <1>2 DEF Emitted, PendingCount
<1>4. ASSUME NEW s \in Sender
      PROVE  LET k == Cardinality({e \in Stored : e.tx.sender = s /\ EntryIsPending(e)})
                 n == base[s] + k
             IN  PendingNonce(s, base[s]) = IF n > MaxNonce THEN MaxNonce ELSE n
  BY PendingNonceCounts, PendingAtCounts
<1>5. ReadyExecutesInOrder
  <2>1. DOMAIN GetReady = 1..Len(GetReady)
    BY <1>1, LenProperties DEF Emitted
  <2> QED
    BY <1>1, <2>1 DEF Emitted, Earlier, ReadyExecutesInOrder
<1> QED
  BY <1>3, <1>4, <1>5 DEF ReadyListIsRight, WalksAgree

-----------------------------------------------------------------------------
(* Theorems. *)

LEMMA InvInit == Init => Inv /\ Promise!Init
<1> SUFFICES ASSUME Init PROVE Inv /\ Promise!Init
  OBVIOUS
<1>1. txs = <<>> /\ txs \in Seq(Offer) /\ DOMAIN txs = {}
  BY DEF Init
<1>2. base \in [Sender -> Nonce]
  BY PoolAssumption DEF Init, Nonce
<1>3. Stored = {}
  BY <1>1 DEF Stored, SE!ToSet
<1> QED
  BY <1>1, <1>2, <1>3 DEF Init, Inv, TypeOK, SlotsAreDistinct, Promise!Init

(* Every step keeps the invariant and is a step of PoolSpec or a stutter.  *)
LEMMA InvStep == Inv /\ [Next]_vars => Inv' /\ [Promise!Next]_(Promise!vars)
<1> SUFFICES ASSUME Inv, [Next]_vars PROVE Inv' /\ [Promise!Next]_(Promise!vars)
  OBVIOUS
<1>1. ASSUME NEW s \in Sender, NEW n \in Nonce, SetNonce(s, n)
      PROVE  Inv' /\ Promise!Next
  <2>1. txs' = txs /\ base' = [base EXCEPT ![s] = n]
    BY <1>1 DEF SetNonce
  <2>2. Stored' = Stored
    BY <2>1 DEF Stored
  <2>3. Inv'
    BY <2>1 DEF Inv, TypeOK, SlotsAreDistinct
  <2>4. Promise!SetNonce(s, n) /\ n \in Promise!Nonce
    BY <2>1, <2>2 DEF Promise!SetNonce, Promise!Nonce, Nonce
  <2> QED
    BY <2>3, <2>4 DEF Promise!Next
<1>2. ASSUME NEW e \in Offer, AddNew(e) \/ AddReplacement(e)
      PROVE  Inv' /\ Promise!Next
  BY <1>2, AddNewStep, AddReplacementStep DEF Promise!Next
<1>3. ASSUME NEW h \in StoredHashes, RemoveByHash(h)
      PROVE  Inv' /\ Promise!Next
  BY <1>3, RemoveByHashStep DEF Promise!Next
<1>4. ASSUME NEW hashes \in SUBSET Minable, RemoveMined(hashes)
      PROVE  Inv' /\ Promise!Next
  <2>1. Inv' /\ Promise!RemoveMined(hashes)
    BY <1>4, RemoveMinedStep
  <2>2. hashes \in SUBSET {Promise!Hash(e.tx) : e \in Stored}
    BY DEF Minable, StoredHashes, Hash, Promise!Hash
  <2> QED
    BY <2>1, <2>2 DEF Promise!Next
<1>5. ASSUME Clear
      PROVE  Inv' /\ Promise!Next
  <2>1. txs' = <<>> /\ txs' \in Seq(Offer) /\ DOMAIN txs' = {}
    BY <1>5 DEF Clear
  <2>2. base' = [s \in Sender |-> 0] /\ base' \in [Sender -> Nonce]
    BY <1>5, PoolAssumption DEF Clear, Nonce
  <2>3. Stored' = {}
    BY <2>1 DEF Stored, SE!ToSet
  <2> QED
    BY <2>1, <2>2, <2>3 DEF Inv, TypeOK, SlotsAreDistinct, Promise!Next, Promise!Clear
<1>6. ASSUME UNCHANGED vars
      PROVE  Inv' /\ UNCHANGED Promise!vars
  BY <1>6 DEF vars, Promise!vars, Inv, TypeOK, SlotsAreDistinct, Stored
<1> QED
  BY <1>1, <1>2, <1>3, <1>4, <1>5, <1>6 DEF Next

(* The invariant holds throughout. *)
THEOREM Invariance == Spec => []Inv
  BY InvInit, InvStep, PTL DEF Spec

(* Every reachable pool holds offers, and every sender has a base nonce.   *)
THEOREM TypeCorrect == Spec => []TypeOK
  BY Invariance, PTL DEF Inv

(* No two stored transactions compete for a (sender, nonce) slot, however  *)
(* the pool was filled, replaced in, mined from and cleared.               *)
THEOREM SlotsHoldOne == Spec => []OnePerSlot(Stored)
<1>1. Inv => OnePerSlot(Stored)
  BY DEF Inv, SlotsAreDistinct, OnePerSlot, Stored, SE!ToSet, InSlot
<1> QED
  BY <1>1, Invariance, PTL

(* The stored sequence implements the set of entries callers are promised: *)
(* appending, replacing in place, removing the first match and removing    *)
(* what was mined are the four changes of a set with one entry per slot.   *)
THEOREM PoolImplementsSpec == Spec => ImplementsPoolSpec
<1>1. Spec => []Inv
  BY Invariance
<1> QED
  BY <1>1, InvInit, InvStep, PTL DEF Spec, ImplementsPoolSpec, Promise!Spec

(* The list a block is built from is whole and in order in every reachable *)
(* pool, and eth_getTransactionCount "pending" counts the same entries:    *)
(* getReady fills its slice exactly, and each transaction of a sender      *)
(* carries the nonce after the one before it, from the base nonce on.      *)
THEOREM ReadyListStaysRight == Spec => []ReadyListIsRight
  BY InvImpliesReady, Invariance, PTL

(* Mining the first ready transactions of some senders strands no other    *)
(* pending transaction: removeMined moves each base nonce exactly past     *)
(* what was mined.                                                         *)
THEOREM MiningStrandsNobody == Spec => PendingSurvivesMining
<1>1. Inv /\ [Next]_vars =>
        [\A hashes \in SUBSET Minable :
           ReadyPrefix(hashes) /\ RemoveMined(hashes) =>
             \A f \in Stored' : EntryIsPending(f) => EntryIsPending(f)']_vars
  BY PendingSurvives
<1> QED
  BY <1>1, Invariance, PTL DEF Spec, PendingSurvivesMining
=============================================================================

------------------------- MODULE OutboxDispatch_proofs -------------------------
(***************************************************************************)
(* Theorems about OutboxDispatch: for any number of sessions and events,   *)
(* any batch size, and any number of failing calls and crashes.            *)
(*                                                                         *)
(* The invariant has three parts.  RowsInv: a row is in one place of the   *)
(* table, what is in the table, the batch or the file was enqueued, and    *)
(* the item that is about to be marked is in the file.  PaidFor: of the    *)
(* lines of the file, the second ones and those whose events may still be  *)
(* sent again were paid for by a failure.  OrderInv: as long as no call    *)
(* has failed, the events before a row or an item are in the file or in    *)
(* front of it.                                                            *)
(***************************************************************************)
EXTENDS OutboxDispatch, TLAPS, FiniteSetTheorems

-----------------------------------------------------------------------------
(* Sequences of rows.                                                       *)

Once(q) == \A i, j \in 1..Len(q) : q[i] = q[j] => i = j

LEMMA InSeq ==
  ASSUME NEW S, NEW q \in Seq(S), NEW x
  PROVE  x \in ToSet(q) <=> \E i \in 1..Len(q) : q[i] = x
<1>1. DOMAIN q = 1..Len(q)
  OBVIOUS
<1> QED BY <1>1 DEF ToSet

LEMMA AppendSet ==
  ASSUME NEW S, NEW q \in Seq(S), NEW x \in S
  PROVE  /\ Append(q, x) \in Seq(S) /\ Len(q) \in Nat /\ Len(Append(q, x)) = Len(q) + 1
         /\ ToSet(Append(q, x)) = ToSet(q) \cup {x}
         /\ Once(q) /\ x \notin ToSet(q) => Once(Append(q, x))
         /\ \A i \in 1..Len(q) : Append(q, x)[i] = q[i]
         /\ Append(q, x)[Len(q) + 1] = x
<1> DEFINE r == Append(q, x)
<1>1. /\ r \in Seq(S) /\ Len(q) \in Nat /\ Len(r) = Len(q) + 1
      /\ \A i \in 1..Len(q) : r[i] = q[i]
      /\ r[Len(q) + 1] = x
  OBVIOUS
<1>2. \A y : y \in ToSet(r) <=> \E i \in 1..Len(r) : r[i] = y
  BY <1>1, InSeq
<1>3. \A y : y \in ToSet(q) <=> \E i \in 1..Len(q) : q[i] = y
  BY InSeq
<1> HIDE DEF r
<1>4. ToSet(r) = ToSet(q) \cup {x}
  <2>1. ASSUME NEW y \in ToSet(r) PROVE y \in ToSet(q) \cup {x}
    <3>1. PICK i \in 1..Len(r) : r[i] = y
      BY <1>2, <2>1
    <3>2. i = Len(q) + 1 \/ i \in 1..Len(q)
      BY <1>1
    <3> QED BY <1>1, <1>3, <3>1, <3>2
  <2>2. ASSUME NEW y \in ToSet(q) PROVE y \in ToSet(r)
    <3>1. PICK i \in 1..Len(q) : q[i] = y
      BY <1>3, <2>2
    <3>2. i \in 1..Len(r) /\ r[i] = y
      BY <1>1, <3>1
    <3> QED BY <1>2, <3>2
  <2>3. x \in ToSet(r)
    <3>1. Len(q) + 1 \in 1..Len(r)
      BY <1>1
    <3> QED BY <1>1, <1>2, <3>1
  <2> QED BY <2>1, <2>2, <2>3
<1>5. Once(q) /\ x \notin ToSet(q) => Once(r)
  <2> SUFFICES ASSUME Once(q), x \notin ToSet(q), NEW i \in 1..Len(r), NEW j \in 1..Len(r), r[i] = r[j]
               PROVE  i = j
    BY DEF Once
  <2>1. \A k \in 1..Len(q) : q[k] # x
    BY <1>3
  <2> QED BY <1>1, <2>1 DEF Once
<1> QED BY <1>1, <1>4, <1>5 DEF r

LEMMA TailSet ==
  ASSUME NEW S, NEW q \in Seq(S), q # <<>>
  PROVE  /\ Tail(q) \in Seq(S) /\ Head(q) \in S /\ Head(q) = q[1]
         /\ Len(q) \in Nat /\ Len(Tail(q)) = Len(q) - 1 /\ Len(q) >= 1
         /\ \A i \in 1..Len(Tail(q)) : Tail(q)[i] = q[i + 1]
         /\ ToSet(q) = ToSet(Tail(q)) \cup {Head(q)}
         /\ Once(q) => Once(Tail(q)) /\ Head(q) \notin ToSet(Tail(q))
<1> DEFINE r == Tail(q)
<1>1. /\ r \in Seq(S) /\ Head(q) \in S /\ Head(q) = q[1]
      /\ Len(q) \in Nat /\ Len(r) = Len(q) - 1 /\ Len(q) >= 1
      /\ \A i \in 1..Len(r) : r[i] = q[i + 1]
  OBVIOUS
<1>2. \A y : y \in ToSet(r) <=> \E i \in 1..Len(r) : r[i] = y
  BY <1>1, InSeq
<1>3. \A y : y \in ToSet(q) <=> \E i \in 1..Len(q) : q[i] = y
  BY InSeq
<1> HIDE DEF r
<1>4. ToSet(q) = ToSet(r) \cup {q[1]}
  <2>1. ASSUME NEW y \in ToSet(q) PROVE y \in ToSet(r) \cup {q[1]}
    <3>1. PICK i \in 1..Len(q) : q[i] = y
      BY <1>3, <2>1
    <3>2. i = 1 \/ (i - 1 \in 1..Len(r) /\ r[i - 1] = q[i])
      BY <1>1
    <3> QED BY <1>2, <3>1, <3>2
  <2>2. ASSUME NEW y \in ToSet(r) PROVE y \in ToSet(q)
    <3>1. PICK i \in 1..Len(r) : r[i] = y
      BY <1>2, <2>2
    <3>2. i + 1 \in 1..Len(q) /\ q[i + 1] = y
      BY <1>1, <3>1
    <3> QED BY <1>3, <3>2
  <2>3. 1 \in 1..Len(q)
    BY <1>1
  <2> QED BY <1>3, <2>1, <2>2, <2>3
<1>5. Once(q) => Once(r) /\ q[1] \notin ToSet(r)
  <2> SUFFICES ASSUME Once(q) PROVE Once(r) /\ q[1] \notin ToSet(r)
    OBVIOUS
  <2>1. \A i \in 1..Len(r) : i + 1 \in 1..Len(q) /\ i + 1 # 1 /\ 1 \in 1..Len(q)
    BY <1>1
  <2>2. \A i \in 1..Len(r) : r[i] # q[1]
    BY <1>1, <2>1 DEF Once
  <2>3. Once(r)
    <3> SUFFICES ASSUME NEW i \in 1..Len(r), NEW j \in 1..Len(r), r[i] = r[j] PROVE i = j
      BY DEF Once
    <3>1. i + 1 = j + 1
      BY <1>1, <2>1 DEF Once
    <3> QED BY <3>1
  <2> QED BY <1>2, <2>2, <2>3
<1> QED BY <1>1, <1>4, <1>5 DEF r

\* A sequence has as many elements as places, if it repeats none.
LEMMA SeqCardinality ==
  ASSUME NEW S, NEW q \in Seq(S)
  PROVE  /\ IsFiniteSet(ToSet(q)) /\ Cardinality(ToSet(q)) \in Nat /\ Len(q) \in Nat
         /\ Once(q) => Cardinality(ToSet(q)) = Len(q)
<1>1. Len(q) \in Nat /\ 1 \in Int /\ Len(q) \in Int
  OBVIOUS
<1>2. IsFiniteSet(1..Len(q)) /\ Cardinality(1..Len(q)) = IF 1 > Len(q) THEN 0 ELSE Len(q) - 1 + 1
  BY <1>1, FS_Interval, Zenon
<1>3. Cardinality(1..Len(q)) = Len(q)
  BY <1>1, <1>2
<1>4. \A x : x \in ToSet(q) <=> \E i \in 1..Len(q) : q[i] = x
  BY InSeq
<1>5. q \in Surjection(1..Len(q), ToSet(q))
  <2>1. q \in [1..Len(q) -> ToSet(q)]
    BY <1>4
  <2> QED BY <1>4, <2>1 DEF Surjection
<1>6. /\ IsFiniteSet(ToSet(q))
      /\ Cardinality(ToSet(q)) = Cardinality(1..Len(q)) <=> q \in Injection(1..Len(q), ToSet(q))
  BY <1>2, <1>5, FS_Surjection, Zenon
<1>7. Once(q) => q \in Injection(1..Len(q), ToSet(q))
  BY <1>5 DEF Once, Injection, IsInjective, Surjection
<1>8. Cardinality(ToSet(q)) \in Nat
  BY <1>6, FS_CardinalityType, Zenon
<1> QED BY <1>1, <1>3, <1>6, <1>7, <1>8

-----------------------------------------------------------------------------
(* Without: the places of the rows that are left.                           *)

Kept(rows, gone) == {i \in 1..Len(rows) : rows[i] \notin gone}
Place(rows, gone, i) == Cardinality({j \in Kept(rows, gone) : j <= i})

\* The places number the kept rows in their order, without a gap.
LEMMA PlacesAreDense ==
  ASSUME NEW S, NEW q \in Seq(S), NEW gone
  PROVE  /\ Cardinality(Kept(q, gone)) \in Nat
         /\ \A i \in Kept(q, gone) : Place(q, gone, i) \in 1..Cardinality(Kept(q, gone))
         /\ \A i, j \in Kept(q, gone) : i < j => Place(q, gone, i) < Place(q, gone, j)
         /\ \A n \in 1..Cardinality(Kept(q, gone)) : \E i \in Kept(q, gone) : Place(q, gone, i) = n
<1> DEFINE K == Kept(q, gone)
           size == Cardinality(K)
           UpTo(i) == {j \in K : j <= i}
           place == [i \in K |-> Cardinality(UpTo(i))]
<1>1. Len(q) \in Nat /\ K \subseteq 1..Len(q)
  BY DEF Kept
<1>2. IsFiniteSet(K) /\ size \in Nat
  <2>1. 1 \in Int /\ Len(q) \in Int
    BY <1>1
  <2>2. IsFiniteSet(1..Len(q)) /\ K \in SUBSET (1..Len(q))
    BY <1>1, <2>1, FS_Interval, Zenon
  <2> QED BY <2>2, FS_Subset, FS_CardinalityType, Zenon
<1>3. \A i \in K : i \in Nat
  BY <1>1
<1> HIDE DEF K
<1>4. ASSUME NEW i \in K
      PROVE  IsFiniteSet(UpTo(i)) /\ Cardinality(UpTo(i)) \in 1..size
  <2>1. UpTo(i) \in SUBSET K /\ i \in UpTo(i)
    BY <1>3
  <2>2. IsFiniteSet(UpTo(i)) /\ Cardinality(UpTo(i)) <= size
    BY <1>2, <2>1, FS_Subset, Zenon
  <2>3. Cardinality(UpTo(i)) \in Nat
    BY <2>2, FS_CardinalityType, Zenon
  <2>4. UpTo(i) # {}
    BY <2>1
  <2>5. Cardinality(UpTo(i)) # 0
    BY <2>2, <2>4, FS_EmptySet, Zenon
  <2> HIDE DEF UpTo, size
  <2> QED BY <1>2, <2>2, <2>3, <2>5
<1>5. ASSUME NEW i \in K, NEW j \in K, i < j
      PROVE  Cardinality(UpTo(i)) < Cardinality(UpTo(j))
  <2>1. UpTo(i) \in SUBSET UpTo(j) /\ j \in UpTo(j) /\ j \notin UpTo(i)
    BY <1>3, <1>5
  <2>2. UpTo(i) # UpTo(j)
    BY <2>1
  <2>3. Cardinality(UpTo(i)) <= Cardinality(UpTo(j))
    BY <1>4, <2>1, FS_Subset, Zenon
  <2>4. Cardinality(UpTo(i)) # Cardinality(UpTo(j))
    BY <1>4, <2>1, <2>2, FS_Subset, Zenon
  <2>5. Cardinality(UpTo(i)) \in 1..size /\ Cardinality(UpTo(j)) \in 1..size
    BY <1>4
  <2> HIDE DEF UpTo, size
  <2> QED BY <1>2, <2>3, <2>4, <2>5
<1>6. place \in Injection(K, 1..size)
  <2>1. place \in [K -> 1..size]
    BY <1>4
  <2>2. ASSUME NEW i \in K, NEW j \in K, place[i] = place[j] PROVE i = j
    <3>1. Cardinality(UpTo(i)) = Cardinality(UpTo(j))
      BY <2>2
    <3>2. /\ Cardinality(UpTo(i)) \in 1..size /\ Cardinality(UpTo(j)) \in 1..size
          /\ i < j => Cardinality(UpTo(i)) < Cardinality(UpTo(j))
          /\ j < i => Cardinality(UpTo(j)) < Cardinality(UpTo(i))
      BY <1>4, <1>5
    <3>3. i \in Nat /\ j \in Nat
      BY <1>3
    <3> HIDE DEF UpTo, size
    <3> QED BY <1>2, <3>1, <3>2, <3>3
  <2> HIDE DEF place
  <2> QED BY <2>1, <2>2 DEF Injection, IsInjective
<1>7. place \in Surjection(K, 1..size)
  <2>1. 1 \in Int /\ size \in Int
    BY <1>2
  <2>2. IsFiniteSet(1..size) /\ Cardinality(1..size) = IF 1 > size THEN 0 ELSE size - 1 + 1
    BY <2>1, FS_Interval, Zenon
  <2>3. Cardinality(1..size) = size
    <3> HIDE DEF size
    <3> QED BY <1>2, <2>2
  <2> HIDE DEF place
  <2> QED BY <1>6, <2>2, <2>3, FS_Injection, Zenon
<1>8. \A i \in K : Place(q, gone, i) = place[i]
  BY DEF Place, K
<1>9. \A n \in 1..size : \E i \in K : place[i] = n
  <2> HIDE DEF place, size
  <2> QED BY <1>7 DEF Surjection
<1>10. \A i \in K : Place(q, gone, i) \in 1..size
  BY <1>4, <1>8
<1>11. \A i, j \in K : i < j => Place(q, gone, i) < Place(q, gone, j)
  BY <1>5, <1>8
<1> HIDE DEF place
<1> QED BY <1>2, <1>8, <1>9, <1>10, <1>11 DEF K

LEMMA WithoutFacts ==
  ASSUME NEW S, NEW q \in Seq(S), NEW gone
  PROVE  /\ Without(q, gone) \in Seq(S) /\ Len(Without(q, gone)) \in Nat
         /\ \A i \in Kept(q, gone) :
              /\ Place(q, gone, i) \in 1..Len(Without(q, gone))
              /\ Without(q, gone)[Place(q, gone, i)] = q[i]
         /\ \A i, j \in Kept(q, gone) : i < j => Place(q, gone, i) < Place(q, gone, j)
         /\ \A n \in 1..Len(Without(q, gone)) : \E i \in Kept(q, gone) : Place(q, gone, i) = n
<1> DEFINE K == Kept(q, gone)
           size == Cardinality(K)
           at(n) == CHOOSE i \in K : Place(q, gone, i) = n
           r == [n \in 1..size |-> q[at(n)]]
<1>1. Without(q, gone) = r
  BY DEF Without, Kept, Place
<1>2. /\ size \in Nat
      /\ \A i \in K : Place(q, gone, i) \in 1..size
      /\ \A i, j \in K : i < j => Place(q, gone, i) < Place(q, gone, j)
      /\ \A n \in 1..size : \E i \in K : Place(q, gone, i) = n
  BY PlacesAreDense, Zenon
<1>3. K \subseteq 1..Len(q)
  BY DEF Kept
<1>4. \A i \in K : Place(q, gone, i) \in Nat
  <2> HIDE DEF K, size
  <2> QED BY <1>2
<1> HIDE DEF K, size
<1>5. \A n \in 1..size : at(n) \in K /\ Place(q, gone, at(n)) = n
  BY <1>2, Zenon
<1>6. ASSUME NEW i \in K PROVE at(Place(q, gone, i)) = i
  <2> DEFINE k == at(Place(q, gone, i))
  <2>1. k \in K /\ Place(q, gone, k) = Place(q, gone, i)
    BY <1>2, <1>5
  <2> HIDE DEF k
  <2>2. k \in Nat /\ i \in Nat
    BY <1>3, <2>1
  <2>3. ~(k < i) /\ ~(i < k)
    BY <1>2, <1>4, <2>1
  <2> QED BY <2>2, <2>3 DEF k
<1>7. \A n \in 1..size : q[at(n)] \in S
  <2> HIDE DEF at
  <2> SUFFICES ASSUME NEW n \in 1..size PROVE q[at(n)] \in S
    OBVIOUS
  <2>1. at(n) \in 1..Len(q)
    BY <1>3, <1>5
  <2> QED BY <2>1
<1> HIDE DEF at
<1>8. r \in Seq(S) /\ Len(r) = size
  BY <1>2, <1>7
<1>9. \A i \in K : r[Place(q, gone, i)] = q[i]
  BY <1>2, <1>6
<1> HIDE DEF r
<1> QED BY <1>1, <1>2, <1>8, <1>9 DEF K

LEMMA WithoutSet ==
  ASSUME NEW S, NEW q \in Seq(S), NEW gone
  PROVE  /\ Without(q, gone) \in Seq(S)
         /\ ToSet(Without(q, gone)) = ToSet(q) \ gone
         /\ Once(q) => Once(Without(q, gone))
<1> DEFINE r == Without(q, gone)
           K == Kept(q, gone)
           P(i) == Place(q, gone, i)
<1>1. /\ r \in Seq(S) /\ Len(r) \in Nat
      /\ \A i \in K : P(i) \in 1..Len(r) /\ r[P(i)] = q[i]
      /\ \A n \in 1..Len(r) : \E i \in K : P(i) = n
  BY WithoutFacts
<1>2. \A i : i \in K <=> i \in 1..Len(q) /\ q[i] \notin gone
  BY DEF Kept
<1>3. \A x : x \in ToSet(q) <=> \E i \in 1..Len(q) : q[i] = x
  BY InSeq
<1> HIDE DEF r, K, P
<1>4. \A x : x \in ToSet(r) <=> \E i \in 1..Len(r) : r[i] = x
  BY <1>1, InSeq
<1>5. ToSet(r) = ToSet(q) \ gone
  <2>1. ASSUME NEW x \in ToSet(r) PROVE x \in ToSet(q) \ gone
    <3>1. PICK n \in 1..Len(r) : r[n] = x
      BY <1>4, <2>1
    <3>2. PICK i \in K : P(i) = n
      BY <1>1
    <3> QED BY <1>1, <1>2, <1>3, <3>1, <3>2
  <2>2. ASSUME NEW x \in ToSet(q) \ gone PROVE x \in ToSet(r)
    <3>1. PICK i \in 1..Len(q) : q[i] = x
      BY <1>3, <2>2
    <3> QED BY <1>1, <1>2, <1>4, <2>2, <3>1
  <2> QED BY <2>1, <2>2
<1>6. Once(q) => Once(r)
  <2> SUFFICES ASSUME Once(q), NEW m \in 1..Len(r), NEW n \in 1..Len(r), r[m] = r[n]
               PROVE  m = n
    BY DEF Once
  <2>1. PICK i \in K : P(i) = m
    BY <1>1
  <2>2. PICK j \in K : P(j) = n
    BY <1>1
  <2>3. q[i] = q[j]
    BY <1>1, <2>1, <2>2
  <2>4. i = j
    BY <1>2, <2>3 DEF Once
  <2> QED BY <2>1, <2>2, <2>4
<1> QED BY <1>1, <1>5, <1>6 DEF r

LEMMA WithoutEmpty ==
  ASSUME NEW gone
  PROVE  Without(<<>>, gone) = <<>>
<1> DEFINE r == Without(<<>>, gone)
<1>1. <<>> \in Seq({}) /\ Len(<<>>) = 0
  OBVIOUS
<1>2. r \in Seq({}) /\ \A n \in 1..Len(r) : \E i \in Kept(<<>>, gone) : TRUE
  BY <1>1, WithoutFacts
<1>3. Kept(<<>>, gone) = {}
  BY <1>1 DEF Kept
<1> HIDE DEF r
<1>4. r = <<>>
  BY <1>2, <1>3
<1> QED BY <1>4 DEF r

-----------------------------------------------------------------------------
(* The invariant.                                                           *)

Types ==
  /\ enqueued \in [Sessions -> 0..MaxEvents]
  /\ deleted \subseteq Sessions
  /\ dispatched \subseteq Events
  /\ due \in Seq(Events) /\ putOff \in Seq(Events)
  /\ file \in Seq(Events)
  /\ dpc \in {"idle", "append", "mark", "retry"}
  /\ batch \in Seq(Events)
  /\ dpc = "idle" <=> batch = <<>>
  /\ faults \in Nat /\ crashes \in Nat

\* A row is PENDING in one place or DISPATCHED.
InOnePlace ==
  /\ Once(due) /\ Once(putOff) /\ ToSet(due) \cap ToSet(putOff) = {}
  /\ Pending \cap dispatched = {}

\* Rows, items and lines stem from enqueueEvent; the rows of a deleted session
\* are gone, its items and lines are not.
StemsFromEnqueue ==
  /\ \A e \in Pending \cup dispatched : Enqueued(e) /\ e[1] \notin deleted
  /\ \A e \in ToSet(batch) \cup ToSet(file) : Enqueued(e)

WrittenFirst ==
  /\ Once(batch)
  /\ dpc = "mark" => InFile(Item)
  /\ dispatched \subseteq ToSet(file)

RowsInv == InOnePlace /\ StemsFromEnqueue /\ WrittenFirst /\ NothingLost

-----------------------------------------------------------------------------
(* Types, and where rows, items and lines stem from.                        *)

LEMMA EventFacts ==
  /\ \A e \in Events : e[1] \in Sessions /\ e[2] \in 1..MaxEvents /\ e = <<e[1], e[2]>>
  /\ \A s \in Sessions, n \in 1..MaxEvents :
       <<s, n>> \in Events /\ <<s, n>>[1] = s /\ <<s, n>>[2] = n
  BY DEF Events

LEMMA RowTypes ==
  ASSUME Types
  PROVE  /\ ToSet(due) \subseteq Events /\ ToSet(putOff) \subseteq Events
         /\ Pending \subseteq Events /\ ToSet(batch) \subseteq Events /\ ToSet(file) \subseteq Events
         /\ batch # <<>> => Item \in Events /\ Item = batch[1]
<1>1. due \in Seq(Events) /\ putOff \in Seq(Events) /\ batch \in Seq(Events) /\ file \in Seq(Events)
  BY DEF Types
<1>2. \A q \in Seq(Events) : ToSet(q) \subseteq Events
  <2> SUFFICES ASSUME NEW q \in Seq(Events), NEW x \in ToSet(q) PROVE x \in Events
    OBVIOUS
  <2>1. PICK i \in 1..Len(q) : q[i] = x
    BY InSeq
  <2> QED BY <2>1
<1>3. batch # <<>> => Item \in Events /\ Item = batch[1]
  BY <1>1 DEF Item
<1> QED BY <1>1, <1>2, <1>3 DEF Pending

\* The next event of a session is new to all of them.
LEMMA NextEventIsNew ==
  ASSUME Types, RowsInv, NEW s \in Sessions, enqueued[s] < MaxEvents
  PROVE  /\ <<s, enqueued[s] + 1>> \in Events
         /\ <<s, enqueued[s] + 1>> \notin Pending \cup dispatched \cup ToSet(batch) \cup ToSet(file)
<1> DEFINE e == <<s, enqueued[s] + 1>>
<1>1. enqueued[s] \in Nat
  BY OutboxAssumption DEF Types
<1>2. enqueued[s] + 1 \in 1..MaxEvents
  BY <1>1, OutboxAssumption
<1>3. e \in Events /\ e[1] = s /\ e[2] = enqueued[s] + 1
  BY <1>2, EventFacts
<1>4. ~Enqueued(e)
  BY <1>1, <1>3 DEF Enqueued
<1> HIDE DEF e
<1>5. e \notin Pending \cup dispatched \cup ToSet(batch) \cup ToSet(file)
  BY <1>4 DEF RowsInv, StemsFromEnqueue
<1> QED BY <1>3, <1>5 DEF e

LEMMA NextItemFacts ==
  ASSUME Types, Once(batch), batch # <<>>, NextItem
  PROVE  /\ batch' \in Seq(Events) /\ dpc' \in {"idle", "append"}
         /\ dpc' = "idle" <=> batch' = <<>>
         /\ Once(batch') /\ ToSet(batch') = ToSet(batch) \ {Item}
         /\ Len(batch) \in Nat /\ Len(batch') = Len(batch) - 1
         /\ \A i \in 1..Len(batch') : batch'[i] = batch[i + 1]
<1>1. batch \in Seq(Events)
  BY DEF Types
<1>2. batch' = Tail(batch) /\ dpc' = IF batch' = <<>> THEN "idle" ELSE "append"
  BY DEF NextItem
<1> QED BY <1>1, <1>2, TailSet DEF Item

LEMMA AbortFacts ==
  ASSUME AbortBatch
  PROVE  /\ batch' \in Seq(Events) /\ dpc' = "idle" /\ batch' = <<>>
         /\ Once(batch') /\ ToSet(batch') = {} /\ Len(batch') = 0
<1>1. <<>> \in Seq(Events) /\ Len(<<>>) = 0 /\ DOMAIN <<>> = 1..0
  OBVIOUS
<1>2. ToSet(<<>>) = {} /\ Once(<<>>)
  BY <1>1 DEF ToSet, Once
<1> QED BY <1>1, <1>2 DEF AbortBatch

\* The batch is the front of the rows that are due.
LEMMA ClaimFacts ==
  ASSUME Types, InOnePlace, ClaimPendingEvents
  PROVE  /\ batch' \in Seq(Events) /\ dpc' \in {"idle", "append"}
         /\ dpc' = "idle" <=> batch' = <<>>
         /\ Once(batch') /\ ToSet(batch') \subseteq ToSet(due)
         /\ Len(batch') \in Nat /\ Len(batch') <= Len(due)
         /\ \A i \in 1..Len(batch') : batch'[i] = due[i]
<1> DEFINE n == IF Len(due) < BatchSize THEN Len(due) ELSE BatchSize
<1>1. due \in Seq(Events) /\ Len(due) \in Nat
  BY DEF Types
<1>2. n \in Nat /\ n <= Len(due)
  BY <1>1, OutboxAssumption
<1>3. batch' = SubSeq(due, 1, n) /\ dpc' = IF batch' = <<>> THEN "idle" ELSE "append"
  BY DEF ClaimPendingEvents
<1> HIDE DEF n
<1>4. /\ batch' \in Seq(Events) /\ Len(batch') = n
      /\ \A i \in 1..Len(batch') : batch'[i] = due[i] /\ i \in 1..Len(due)
  BY <1>1, <1>2, <1>3
<1>5. Once(batch')
  <2>1. Once(due)
    BY DEF InOnePlace
  <2> QED BY <1>4, <2>1 DEF Once
<1>6. ToSet(batch') \subseteq ToSet(due)
  <2> SUFFICES ASSUME NEW x \in ToSet(batch') PROVE x \in ToSet(due)
    OBVIOUS
  <2>1. PICK i \in 1..Len(batch') : batch'[i] = x
    BY <1>4, InSeq
  <2> QED BY <1>1, <1>4, <2>1, InSeq
<1> QED BY <1>2, <1>3, <1>4, <1>5, <1>6

\* The sets of rows that are left, and those that a row joins.
LEMMA RowsLeft ==
  ASSUME Types, InOnePlace, NEW gone
  PROVE  LET d == Without(due, gone)
             p == Without(putOff, gone)
         IN  /\ d \in Seq(Events) /\ p \in Seq(Events) /\ Once(d) /\ Once(p)
             /\ ToSet(d) = ToSet(due) \ gone /\ ToSet(p) = ToSet(putOff) \ gone
<1>1. due \in Seq(Events) /\ putOff \in Seq(Events) /\ Once(due) /\ Once(putOff)
  BY DEF Types, InOnePlace
<1> QED BY <1>1, WithoutSet

-----------------------------------------------------------------------------
(* The table: what each step keeps of RowsInv.                              *)

LEMMA EnqueueRows ==
  ASSUME Types, RowsInv, NEW s \in Sessions, EnqueueEvent(s)
  PROVE  Types' /\ RowsInv' /\ Pending' = Pending \cup {<<s, enqueued[s] + 1>>}
<1> DEFINE e == <<s, enqueued[s] + 1>>
<1>1. /\ enqueued[s] < MaxEvents /\ s \notin deleted
      /\ enqueued' = [enqueued EXCEPT ![s] = @ + 1] /\ due' = Append(due, e)
      /\ UNCHANGED <<deleted, dispatched, putOff, file, dpc, batch, faults, crashes>>
  BY DEF EnqueueEvent, dispatcherVars
<1>2. e \in Events /\ e \notin Pending \cup dispatched \cup ToSet(batch) \cup ToSet(file)
  BY <1>1, NextEventIsNew
<1>3. e[1] = s /\ e[2] = enqueued[s] + 1
  OBVIOUS
<1> HIDE DEF e
<1>4. /\ due' \in Seq(Events) /\ ToSet(due') = ToSet(due) \cup {e}
      /\ Once(due) /\ e \notin ToSet(due) => Once(due')
  BY <1>1, <1>2, AppendSet DEF Types
<1>5. enqueued[s] \in 0..MaxEvents /\ enqueued \in [Sessions -> 0..MaxEvents]
  BY DEF Types
<1>6. enqueued' \in [Sessions -> 0..MaxEvents]
  <2>1. enqueued[s] + 1 \in 0..MaxEvents
    BY <1>1, <1>5, OutboxAssumption
  <2> QED BY <1>1, <1>5, <2>1
<1>7. Types'
  BY <1>1, <1>4, <1>6 DEF Types
<1>8. Pending' = Pending \cup {e}
  BY <1>1, <1>4 DEF Pending
<1>9. InOnePlace'
  BY <1>1, <1>2, <1>4, <1>8 DEF RowsInv, InOnePlace, Pending
<1>10. \A f \in Events : Enqueued(f)' <=> Enqueued(f) \/ f = e
  <2> SUFFICES ASSUME NEW f \in Events PROVE f[2] <= enqueued'[f[1]] <=> f[2] <= enqueued[f[1]] \/ f = e
    BY DEF Enqueued
  <2>1. f[1] \in Sessions /\ f[2] \in Nat /\ f = <<f[1], f[2]>>
    BY EventFacts, OutboxAssumption
  <2>2. CASE f[1] = s
    <3>1. enqueued'[f[1]] = enqueued[s] + 1 /\ enqueued[s] \in Nat
      BY <1>1, <1>5, <2>2
    <3>2. f = e <=> f[2] = enqueued[s] + 1
      BY <2>1, <2>2 DEF e
    <3> QED BY <2>1, <2>2, <3>1, <3>2
  <2>3. CASE f[1] # s
    BY <1>1, <1>3, <1>5, <2>1, <2>3
  <2> QED BY <2>2, <2>3
<1>11. StemsFromEnqueue'
  <2>1. \A f \in Pending' \cup dispatched' : Enqueued(f)' /\ f[1] \notin deleted'
    BY <1>1, <1>2, <1>3, <1>8, <1>10, RowTypes DEF RowsInv, StemsFromEnqueue, Types
  <2>2. \A f \in ToSet(batch') \cup ToSet(file') : Enqueued(f)'
    BY <1>1, <1>10, RowTypes DEF RowsInv, StemsFromEnqueue
  <2> QED BY <2>1, <2>2 DEF StemsFromEnqueue
<1>12. WrittenFirst'
  BY <1>1 DEF RowsInv, WrittenFirst, InFile, Item
<1>13. NothingLost'
  BY <1>1, <1>8, <1>10 DEF RowsInv, NothingLost, InFile, IsPending
<1> QED BY <1>7, <1>8, <1>9, <1>11, <1>12, <1>13 DEF RowsInv, e

LEMMA DeleteRows ==
  ASSUME Types, RowsInv, NEW s \in Sessions, DeleteSession(s)
  PROVE  Types' /\ RowsInv' /\ Pending' \subseteq Pending
<1>1. /\ deleted' = deleted \cup {s}
      /\ due' = Without(due, EventsOf(s)) /\ putOff' = Without(putOff, EventsOf(s))
      /\ dispatched' = dispatched \ EventsOf(s)
      /\ UNCHANGED <<enqueued, file, dpc, batch, faults, crashes>>
  BY DEF DeleteSession, dispatcherVars
<1>2. /\ due' \in Seq(Events) /\ putOff' \in Seq(Events) /\ Once(due') /\ Once(putOff')
      /\ ToSet(due') = ToSet(due) \ EventsOf(s) /\ ToSet(putOff') = ToSet(putOff) \ EventsOf(s)
  BY <1>1, RowsLeft DEF RowsInv
<1>3. \A e \in Events : e \in EventsOf(s) <=> e[1] = s
  BY DEF Events, EventsOf
<1>4. Types'
  BY <1>1, <1>2 DEF Types
<1>5. Pending' = Pending \ EventsOf(s)
  BY <1>2 DEF Pending
<1>6. InOnePlace'
  BY <1>1, <1>2, <1>5 DEF RowsInv, InOnePlace
<1>7. \A e : Enqueued(e)' <=> Enqueued(e)
  BY <1>1 DEF Enqueued
<1>8. StemsFromEnqueue'
  <2>1. Pending \cup dispatched \subseteq Events
    BY RowTypes DEF Types
  <2> QED BY <1>1, <1>3, <1>5, <1>7, <2>1 DEF RowsInv, StemsFromEnqueue
<1>9. WrittenFirst'
  BY <1>1 DEF RowsInv, WrittenFirst, InFile, Item
<1>10. NothingLost'
  BY <1>1, <1>3, <1>5, <1>7 DEF RowsInv, NothingLost, InFile, IsPending
<1> QED BY <1>4, <1>5, <1>6, <1>8, <1>9, <1>10 DEF RowsInv

\* Where the rows, the deleted sessions and the number of events are the same,
\* what remains to be shown is about the dispatcher.
LEMMA SameRows ==
  ASSUME Types, RowsInv, InOnePlace', WrittenFirst',
         Pending' = Pending, dispatched' = dispatched, enqueued' = enqueued, deleted' = deleted,
         ToSet(file) \subseteq ToSet(file'), ToSet(batch') \cup ToSet(file') \subseteq
           ToSet(batch) \cup ToSet(file) \cup Pending
  PROVE  RowsInv'
<1>1. \A e : Enqueued(e)' <=> Enqueued(e)
  BY DEF Enqueued
<1>2. StemsFromEnqueue'
  BY <1>1 DEF RowsInv, StemsFromEnqueue
<1>3. NothingLost'
  BY <1>1 DEF RowsInv, NothingLost, InFile, IsPending
<1> QED BY <1>2, <1>3 DEF RowsInv

LEMMA RetryTimeRows ==
  ASSUME Types, RowsInv, RetryTimeComes
  PROVE  Types' /\ RowsInv' /\ Pending' = Pending
<1>1. /\ putOff # <<>> /\ due' = Append(due, Head(putOff)) /\ putOff' = Tail(putOff)
      /\ UNCHANGED <<enqueued, deleted, dispatched, file, dpc, batch, faults, crashes>>
  BY DEF RetryTimeComes, dispatcherVars
<1> DEFINE e == Head(putOff)
<1>2. /\ putOff' \in Seq(Events) /\ e \in Events /\ ToSet(putOff) = ToSet(putOff') \cup {e}
      /\ Once(putOff) => Once(putOff') /\ e \notin ToSet(putOff')
  BY <1>1, TailSet DEF Types
<1> HIDE DEF e
<1>3. due' = Append(due, e) /\ due \in Seq(Events)
  BY <1>1 DEF e, Types
<1>4. /\ due' \in Seq(Events) /\ ToSet(due') = ToSet(due) \cup {e}
      /\ Once(due) /\ e \notin ToSet(due) => Once(due')
  BY <1>2, <1>3, AppendSet
<1>5. Types'
  BY <1>1, <1>2, <1>4 DEF Types
<1>6. Pending' = Pending
  BY <1>2, <1>4 DEF Pending
<1>7. InOnePlace'
  BY <1>1, <1>2, <1>4, <1>6 DEF RowsInv, InOnePlace
<1>8. WrittenFirst'
  BY <1>1 DEF RowsInv, WrittenFirst, InFile, Item
<1> QED BY <1>1, <1>5, <1>6, <1>7, <1>8, SameRows

\* A dispatcher step that changes no row.
LEMMA DispatcherRows ==
  ASSUME Types, RowsInv, UNCHANGED tableVars, Types', Once(batch'),
         dpc' = "mark" => InFile(Item)', ToSet(file) \subseteq ToSet(file'),
         ToSet(batch') \cup ToSet(file') \subseteq ToSet(batch) \cup ToSet(file) \cup Pending
  PROVE  RowsInv' /\ Pending' = Pending
<1>1. UNCHANGED <<enqueued, deleted, dispatched, due, putOff>>
  BY DEF tableVars
<1>2. Pending' = Pending
  BY <1>1 DEF Pending
<1>3. InOnePlace'
  BY <1>1, <1>2 DEF RowsInv, InOnePlace
<1>4. WrittenFirst'
  BY <1>1 DEF RowsInv, WrittenFirst
<1> QED BY <1>1, <1>2, <1>3, <1>4, SameRows

LEMMA ClaimRows ==
  ASSUME Types, RowsInv, ClaimPendingEvents
  PROVE  Types' /\ RowsInv' /\ Pending' = Pending
<1>1. UNCHANGED <<enqueued, deleted, dispatched, due, putOff, file, faults, crashes>>
  BY DEF ClaimPendingEvents, DispatchFrame
<1>2. /\ batch' \in Seq(Events) /\ dpc' \in {"idle", "append"} /\ (dpc' = "idle" <=> batch' = <<>>)
      /\ Once(batch') /\ ToSet(batch') \subseteq ToSet(due)
  BY ClaimFacts DEF RowsInv
<1>3. Types'
  BY <1>1, <1>2 DEF Types
<1>4. ToSet(batch') \subseteq Pending
  BY <1>2 DEF Pending
<1> QED BY <1>1, <1>2, <1>3, <1>4, DispatcherRows DEF tableVars

\* A line is written: the current item's.
LEMMA LineFacts ==
  ASSUME Types, dpc = "append", file' = Append(file, Item)
  PROVE  /\ file' \in Seq(Events) /\ ToSet(file') = ToSet(file) \cup {Item}
         /\ Len(file) \in Nat /\ Len(file') = Len(file) + 1
         /\ \A i \in 1..Len(file) : file'[i] = file[i]
         /\ file'[Len(file) + 1] = Item
         /\ Item \in Events /\ Item = batch[1] /\ Item \in ToSet(batch)
<1>1. batch # <<>> /\ batch \in Seq(Events) /\ file \in Seq(Events)
  BY DEF Types
<1>2. Item \in Events /\ Item = batch[1] /\ Item \in ToSet(batch)
  BY <1>1, TailSet DEF Item
<1> QED BY <1>1, <1>2, AppendSet

LEMMA AppendRows ==
  ASSUME Types, RowsInv, AppendEvent
  PROVE  Types' /\ RowsInv' /\ Pending' = Pending
<1>1. /\ dpc = "append" /\ file' = Append(file, Item) /\ dpc' = "mark"
      /\ UNCHANGED <<enqueued, deleted, dispatched, due, putOff, batch, faults, crashes>>
  BY DEF AppendEvent, DispatchFrame
<1>2. file' \in Seq(Events) /\ ToSet(file') = ToSet(file) \cup {Item} /\ Item \in ToSet(batch)
  BY <1>1, LineFacts
<1>3. Types'
  BY <1>1, <1>2 DEF Types
<1>4. InFile(Item)'
  BY <1>1, <1>2 DEF InFile, Item
<1>5. Once(batch')
  BY <1>1 DEF RowsInv, WrittenFirst
<1> QED BY <1>1, <1>2, <1>3, <1>4, <1>5, DispatcherRows DEF tableVars

\* The row is DISPATCHED, or no longer there.
LEMMA MarkRows ==
  ASSUME Types, RowsInv, MarkDispatched
  PROVE  /\ Types' /\ RowsInv'
         /\ \/ Pending' = Pending /\ ~IsPending(Item) /\ dpc' = "retry" /\ batch' = batch
            \/ Pending' = Pending \ {Item} /\ NextItem /\ due' = Without(due, {Item})
               /\ putOff' = Without(putOff, {Item})
<1>0. dpc = "mark" /\ UNCHANGED <<enqueued, deleted, file, faults, crashes>> /\ InFile(Item)
  BY DEF MarkDispatched, DispatchFrame, RowsInv, WrittenFirst
<1>1. CASE ~IsPending(Item)
  <2>1. dpc' = "retry" /\ UNCHANGED <<batch, dispatched, due, putOff>>
    BY <1>1 DEF MarkDispatched
  <2>2. Types'
    BY <1>0, <2>1 DEF Types
  <2>3. Once(batch')
    BY <2>1 DEF RowsInv, WrittenFirst
  <2> QED BY <1>0, <1>1, <2>1, <2>2, <2>3, DispatcherRows DEF tableVars
<1>2. CASE IsPending(Item)
  <2>1. /\ dispatched' = dispatched \cup {Item} /\ NextItem
        /\ due' = Without(due, {Item}) /\ putOff' = Without(putOff, {Item})
    BY <1>2 DEF MarkDispatched
  <2>2. batch # <<>> /\ Once(batch)
    BY <1>0 DEF Types, RowsInv, WrittenFirst
  <2>3. Item \in Events
    BY <2>2, RowTypes
  <2>4. /\ due' \in Seq(Events) /\ putOff' \in Seq(Events) /\ Once(due') /\ Once(putOff')
        /\ ToSet(due') = ToSet(due) \ {Item} /\ ToSet(putOff') = ToSet(putOff) \ {Item}
    BY <2>1, RowsLeft DEF RowsInv
  <2>5. /\ batch' \in Seq(Events) /\ dpc' \in {"idle", "append"} /\ (dpc' = "idle" <=> batch' = <<>>)
        /\ Once(batch') /\ ToSet(batch') = ToSet(batch) \ {Item}
    BY <2>1, <2>2, NextItemFacts
  <2> DEFINE i == Item
  <2>6. dispatched' = dispatched \cup {i} /\ i \in Events /\ i \in Pending /\ InFile(i)
    BY <1>0, <1>2, <2>1, <2>3 DEF IsPending
  <2>7. Pending' = Pending \ {i}
    BY <2>4 DEF Pending
  <2>8. Types'
    BY <1>0, <2>3, <2>4, <2>5, <2>1 DEF Types
  <2> HIDE DEF i
  <2>9. InOnePlace'
    <3>1. Once(due') /\ Once(putOff') /\ ToSet(due') \cap ToSet(putOff') = {}
      BY <2>4 DEF RowsInv, InOnePlace
    <3>2. Pending' \cap dispatched' = {}
      BY <2>6, <2>7 DEF RowsInv, InOnePlace
    <3> QED BY <3>1, <3>2 DEF InOnePlace
  <2>10. \A e : Enqueued(e)' <=> Enqueued(e)
    BY <1>0 DEF Enqueued
  <2>11. StemsFromEnqueue'
    <3>1. Pending' \cup dispatched' \subseteq Pending \cup dispatched
      BY <2>6, <2>7
    <3>2. ToSet(batch') \cup ToSet(file') \subseteq ToSet(batch) \cup ToSet(file)
      BY <1>0, <2>5
    <3> QED BY <1>0, <2>10, <3>1, <3>2 DEF RowsInv, StemsFromEnqueue
  <2>12. WrittenFirst'
    BY <1>0, <2>5, <2>6 DEF RowsInv, WrittenFirst, InFile
  <2>13. NothingLost'
    <3> SUFFICES ASSUME NEW e \in Events, Enqueued(e), e[1] \notin deleted
                 PROVE  (e \in dispatched' /\ e \in ToSet(file)) \/ e \in Pending'
      BY <1>0, <2>10 DEF NothingLost, InFile, IsPending
    <3>1. (e \in dispatched /\ e \in ToSet(file)) \/ e \in Pending
      BY DEF RowsInv, NothingLost, InFile, IsPending
    <3> QED BY <2>6, <2>7, <3>1 DEF InFile
  <2> QED BY <2>1, <2>7, <2>8, <2>9, <2>11, <2>12, <2>13 DEF RowsInv, i
<1> QED BY <1>1, <1>2

\* The row goes to the end of those put off, or the run ends.
LEMMA RetryRows ==
  ASSUME Types, RowsInv, MarkRetry
  PROVE  /\ Types' /\ RowsInv' /\ Pending' = Pending
         /\ \/ IsPending(Item) /\ NextItem
            \/ ~IsPending(Item) /\ AbortBatch /\ UNCHANGED <<due, putOff>>
<1>0. dpc = "retry" /\ UNCHANGED <<enqueued, deleted, file, dispatched, faults, crashes>>
  BY DEF MarkRetry, DispatchFrame
<1>1. CASE ~IsPending(Item)
  <2>1. AbortBatch /\ UNCHANGED <<due, putOff>>
    BY <1>1 DEF MarkRetry
  <2>2. /\ batch' \in Seq(Events) /\ dpc' = "idle" /\ batch' = <<>> /\ Once(batch')
        /\ ToSet(batch') = {}
    BY <2>1, AbortFacts
  <2>3. Types'
    BY <1>0, <2>1, <2>2 DEF Types
  <2> QED BY <1>0, <1>1, <2>1, <2>2, <2>3, DispatcherRows DEF tableVars
<1>2. CASE IsPending(Item)
  <2>1. /\ due' = Without(due, {Item}) /\ putOff' = Append(Without(putOff, {Item}), Item) /\ NextItem
    BY <1>2 DEF MarkRetry
  <2>2. batch # <<>> /\ Once(batch)
    BY <1>0 DEF Types, RowsInv, WrittenFirst
  <2> DEFINE i == Item
             p == Without(putOff, {i})
  <2>3. i \in Events /\ i \in Pending
    BY <1>2, <2>2, RowTypes DEF IsPending
  <2>4. /\ due' \in Seq(Events) /\ p \in Seq(Events) /\ Once(due') /\ Once(p)
        /\ ToSet(due') = ToSet(due) \ {i} /\ ToSet(p) = ToSet(putOff) \ {i}
    BY <2>1, RowsLeft DEF RowsInv
  <2>5. /\ batch' \in Seq(Events) /\ dpc' \in {"idle", "append"} /\ (dpc' = "idle" <=> batch' = <<>>)
        /\ Once(batch') /\ ToSet(batch') = ToSet(batch) \ {i}
    BY <2>1, <2>2, NextItemFacts
  <2>6. putOff' = Append(p, i)
    BY <2>1
  <2> HIDE DEF p, i
  <2>7. /\ putOff' \in Seq(Events) /\ ToSet(putOff') = ToSet(p) \cup {i}
        /\ Once(p) /\ i \notin ToSet(p) => Once(putOff')
    BY <2>3, <2>4, <2>6, AppendSet
  <2>8. Types'
    BY <1>0, <2>4, <2>5, <2>7 DEF Types
  <2>9. Pending' = Pending
    BY <2>3, <2>4, <2>7 DEF Pending
  <2>10. InOnePlace'
    <3>1. Once(due') /\ Once(putOff')
      BY <2>4, <2>7
    <3>2. ToSet(due') \cap ToSet(putOff') = {}
      BY <2>4, <2>7 DEF RowsInv, InOnePlace
    <3>3. Pending' \cap dispatched' = {}
      BY <1>0, <2>9 DEF RowsInv, InOnePlace
    <3> QED BY <3>1, <3>2, <3>3 DEF InOnePlace
  <2>11. WrittenFirst'
    BY <1>0, <2>5 DEF RowsInv, WrittenFirst
  <2> QED BY <1>0, <1>2, <2>1, <2>5, <2>8, <2>9, <2>10, <2>11, SameRows
<1> QED BY <1>1, <1>2

LEMMA FailureRows ==
  ASSUME Types, RowsInv, AppendFails \/ MarkFails \/ RunFails \/ Crash \/ UNCHANGED vars
  PROVE  Types' /\ RowsInv' /\ Pending' = Pending
<1> USE DEF Fault, vars, tableVars, dispatcherVars
<1>1. UNCHANGED tableVars /\ faults' \in {faults, faults + 1} /\ crashes' \in {crashes, crashes + 1}
  BY DEF AppendFails, MarkFails, RunFails, Crash
<1>2. faults' \in Nat /\ crashes' \in Nat
  BY <1>1 DEF Types
<1>3. /\ file' \in Seq(Events) /\ ToSet(file) \subseteq ToSet(file')
      /\ ToSet(file') \subseteq ToSet(file) \cup ToSet(batch)
  <2>1. CASE dpc = "append" /\ file' = Append(file, Item)
    BY <2>1, LineFacts
  <2>2. CASE file' = file
    BY <2>2 DEF Types
  <2> QED BY <2>1, <2>2 DEF AppendFails, MarkFails, RunFails, Crash
<1>4. /\ batch' \in Seq(Events) /\ Once(batch') /\ ToSet(batch') \subseteq ToSet(batch)
      /\ dpc' \in {"idle", "append", "mark", "retry"} /\ (dpc' = "idle" <=> batch' = <<>>)
  <2>1. CASE AbortBatch
    BY <2>1, AbortFacts
  <2>2. CASE ~AbortBatch
    <3>1. batch' = batch /\ dpc' \in {"retry", dpc} /\ (dpc' = "idle" <=> dpc = "idle")
      BY <2>2 DEF AppendFails, MarkFails, RunFails, Crash
    <3> QED BY <3>1 DEF Types, RowsInv, WrittenFirst
  <2> QED BY <2>1, <2>2
<1>5. dpc' = "mark" => InFile(Item)'
  <2>1. dpc' = "mark" => dpc = "mark" /\ UNCHANGED <<batch, file>>
    BY DEF AppendFails, MarkFails, RunFails, Crash, AbortBatch
  <2> QED BY <2>1 DEF RowsInv, WrittenFirst, InFile, Item
<1>6. Types'
  BY <1>1, <1>2, <1>3, <1>4 DEF Types
<1> QED BY <1>1, <1>3, <1>4, <1>5, <1>6, DispatcherRows

LEMMA NextRows ==
  ASSUME Types, RowsInv, [Next]_vars
  PROVE  Types' /\ RowsInv'
  BY EnqueueRows, DeleteRows, RetryTimeRows, ClaimRows, AppendRows, MarkRows, RetryRows, FailureRows
     DEF Next, DispatchStep

LEMMA RowsInit == Init => Types /\ RowsInv
<1> SUFFICES ASSUME Init PROVE Types /\ RowsInv
  OBVIOUS
<1>1. <<>> \in Seq(Events) /\ Len(<<>>) = 0 /\ DOMAIN <<>> = 1..0
  OBVIOUS
<1>2. ToSet(<<>>) = {} /\ Once(<<>>)
  BY <1>1 DEF ToSet, Once
<1>3. Types
  BY <1>1, OutboxAssumption DEF Init, Types
<1>4. Pending = {} /\ dispatched = {}
  BY <1>2 DEF Init, Pending
<1>5. \A e \in Events : ~Enqueued(e)
  <2> SUFFICES ASSUME NEW e \in Events PROVE ~(e[2] <= enqueued[e[1]])
    BY DEF Enqueued
  <2>1. enqueued[e[1]] = 0 /\ e[2] \in 1..MaxEvents
    BY EventFacts DEF Init
  <2> QED BY <2>1, OutboxAssumption
<1>6. InOnePlace /\ StemsFromEnqueue /\ WrittenFirst
  BY <1>2, <1>4 DEF Init, InOnePlace, StemsFromEnqueue, WrittenFirst
<1> QED BY <1>3, <1>5, <1>6 DEF RowsInv, NothingLost

-----------------------------------------------------------------------------
(* Lines that are paid for.                                                 *)

\* The events that may still be sent: those pending, and those of the batch,
\* but neither the one whose line was just written nor the one that failed.
Unsent ==
  CASE dpc = "mark"  -> (Pending \cup ToSet(batch)) \ {Item}
    [] dpc = "retry" -> Pending \cup (ToSet(batch) \ {Item})
    [] OTHER         -> Pending \cup ToSet(batch)

\* Those of them that were sent before.
Redo == Unsent \cap ToSet(file)

Failures == faults + crashes
PaidFor  == Len(file) + Cardinality(Redo) <= Cardinality(ToSet(file)) + Failures

LEMMA RedoFinite ==
  ASSUME Types
  PROVE  /\ Len(file) \in Nat /\ IsFiniteSet(ToSet(file)) /\ Redo \in SUBSET ToSet(file)
         /\ Failures \in Nat
<1>1. faults \in Nat /\ crashes \in Nat
  BY DEF Types
<1>2. Failures \in Nat
  BY <1>1 DEF Failures
<1>3. Redo \in SUBSET ToSet(file)
  BY DEF Redo
<1> QED BY <1>2, <1>3, SeqCardinality DEF Types

\* The file stays: what may be sent again, in addition, is paid for.
LEMMA PaidRedo ==
  ASSUME NEW lines \in Nat, NEW F, IsFiniteSet(F), NEW R \in SUBSET F, NEW R2 \in SUBSET F, NEW e,
         NEW owed \in Nat, NEW paid \in Nat,
         lines + Cardinality(R) <= Cardinality(F) + owed,
         R2 \subseteq IF paid = 0 THEN R ELSE R \cup {e}
  PROVE  lines + Cardinality(R2) <= Cardinality(F) + (owed + paid)
<1> DEFINE f == Cardinality(F)
           r == Cardinality(R)
           r2 == Cardinality(R2)
<1>1. IsFiniteSet(R) /\ IsFiniteSet(R2)
  BY FS_Subset, Zenon
<1>2. f \in Nat /\ r \in Nat /\ r2 \in Nat
  BY <1>1, FS_CardinalityType, Zenon
<1>3. /\ IsFiniteSet(R \cup {e})
      /\ Cardinality(R \cup {e}) = IF e \in R THEN r ELSE r + 1
  BY <1>1, FS_AddElement, Zenon
<1>4. CASE paid = 0
  <2>1. R2 \in SUBSET R
    BY <1>4
  <2>2. r2 <= r
    BY <1>1, <2>1, FS_Subset, Zenon
  <2>3. lines + r <= f + owed
    OBVIOUS
  <2> HIDE DEF f, r, r2
  <2>4. lines + r2 <= f + (owed + paid)
    BY <1>2, <1>4, <2>2, <2>3
  <2> QED BY <2>4 DEF f, r2
<1>5. CASE paid # 0
  <2>1. R2 \in SUBSET (R \cup {e})
    BY <1>5
  <2>2. r2 <= Cardinality(R \cup {e})
    BY <1>3, <2>1, FS_Subset, Zenon
  <2>3. lines + r <= f + owed
    OBVIOUS
  <2> HIDE DEF f, r, r2
  <2>4. r2 <= r + 1
    BY <1>2, <1>3, <2>2
  <2>5. lines + r2 <= f + (owed + paid)
    BY <1>2, <1>5, <2>3, <2>4
  <2> QED BY <2>5 DEF f, r2
<1> QED BY <1>4, <1>5

\* A line is written.  The first one of its event is free.  After the second
\* one the event may no longer be sent again, or that is paid for.
LEMMA PaidLine ==
  ASSUME NEW lines \in Nat, NEW F, IsFiniteSet(F), NEW U, NEW U2, NEW e \in U,
         NEW owed \in Nat, NEW paid \in Nat,
         lines + Cardinality(U \cap F) <= Cardinality(F) + owed,
         U2 \subseteq IF paid = 0 THEN U \ {e} ELSE U
  PROVE  lines + 1 + Cardinality(U2 \cap (F \cup {e})) <= Cardinality(F \cup {e}) + (owed + paid)
<1> DEFINE R == U \cap F
           R2 == U2 \cap (F \cup {e})
           G == F \cup {e}
           f == Cardinality(F)
           g == Cardinality(G)
           r == Cardinality(R)
           r2 == Cardinality(R2)
<1>1. R \in SUBSET F /\ R2 \in SUBSET G /\ (e \in R <=> e \in F)
  OBVIOUS
<1>2. R2 \subseteq IF paid = 0 THEN R \ {e} ELSE R \cup {e}
  OBVIOUS
<1>3. IsFiniteSet(G) /\ g = IF e \in F THEN f ELSE f + 1
  BY FS_AddElement, Zenon
<1>4. lines + r <= f + owed
  OBVIOUS
<1> HIDE DEF G, R, R2
<1>5. IsFiniteSet(R) /\ IsFiniteSet(R2)
  BY <1>1, <1>3, FS_Subset, Zenon
<1>6. f \in Nat /\ g \in Nat /\ r \in Nat /\ r2 \in Nat
  BY <1>3, <1>5, FS_CardinalityType, Zenon
<1>7. /\ IsFiniteSet(R \cup {e}) /\ Cardinality(R \cup {e}) = IF e \in R THEN r ELSE r + 1
      /\ IsFiniteSet(R \ {e}) /\ Cardinality(R \ {e}) = IF e \in R THEN r - 1 ELSE r
  BY <1>5, FS_AddElement, FS_RemoveElement, Zenon
<1>8. CASE paid = 0
  <2>1. R2 \in SUBSET (R \ {e})
    BY <1>2, <1>8
  <2>2. r2 <= Cardinality(R \ {e})
    BY <1>7, <2>1, FS_Subset, Zenon
  <2> HIDE DEF f, g, r, r2
  <2>3. lines + 1 + r2 <= g + (owed + paid)
    BY <1>1, <1>3, <1>4, <1>6, <1>7, <1>8, <2>2
  <2> QED BY <2>3 DEF g, r2, G, R2
<1>9. CASE paid # 0
  <2>1. R2 \in SUBSET (R \cup {e})
    BY <1>2, <1>9
  <2>2. r2 <= Cardinality(R \cup {e})
    BY <1>7, <2>1, FS_Subset, Zenon
  <2> HIDE DEF f, g, r, r2
  <2>3. lines + 1 + r2 <= g + (owed + paid)
    BY <1>1, <1>3, <1>4, <1>6, <1>7, <1>9, <2>2
  <2> QED BY <2>3 DEF g, r2, G, R2
<1> QED BY <1>8, <1>9

LEMMA PaidSameFile ==
  ASSUME Types, PaidFor, file' = file, NEW paid \in Nat, NEW e, Failures' = Failures + paid,
         Redo' \subseteq IF paid = 0 THEN Redo ELSE Redo \cup {e}
  PROVE  PaidFor'
<1>1. /\ Len(file) \in Nat /\ IsFiniteSet(ToSet(file)) /\ Redo \in SUBSET ToSet(file)
      /\ Failures \in Nat
  BY RedoFinite
<1>2. Redo' \in SUBSET ToSet(file)
  BY DEF Redo
<1>3. Len(file) + Cardinality(Redo) <= Cardinality(ToSet(file)) + Failures
  BY DEF PaidFor
<1>4. Len(file) + Cardinality(Redo') <= Cardinality(ToSet(file)) + (Failures + paid)
  BY <1>1, <1>2, <1>3, PaidRedo, Zenon
<1> QED BY <1>4, Zenon DEF PaidFor

LEMMA PaidNewLine ==
  ASSUME Types, PaidFor, NEW e \in Unsent, NEW paid \in Nat, Failures' = Failures + paid,
         Len(file') = Len(file) + 1, ToSet(file') = ToSet(file) \cup {e},
         Unsent' \subseteq IF paid = 0 THEN Unsent \ {e} ELSE Unsent
  PROVE  PaidFor'
<1>1. /\ Len(file) \in Nat /\ IsFiniteSet(ToSet(file)) /\ Failures \in Nat
  BY RedoFinite
<1>2. Len(file) + Cardinality(Unsent \cap ToSet(file)) <= Cardinality(ToSet(file)) + Failures
  BY DEF PaidFor, Redo
<1>3. Len(file) + 1 + Cardinality(Unsent' \cap (ToSet(file) \cup {e}))
        <= Cardinality(ToSet(file) \cup {e}) + (Failures + paid)
  BY <1>1, <1>2, PaidLine, Zenon
<1> QED BY <1>3, Zenon DEF PaidFor, Redo

LEMMA NoFailure ==
  ASSUME Types, PaidFor, file' = file, UNCHANGED <<faults, crashes>>, Redo' \subseteq Redo
  PROVE  PaidFor'
<1>1. Failures \in Nat
  BY RedoFinite
<1>2. Failures' = Failures + 0
  <2>1. Failures' = Failures
    BY DEF Failures
  <2> QED BY <1>1, <2>1
<1> QED BY <1>2, PaidSameFile

LEMMA OneFailure ==
  ASSUME Types, \/ faults' = faults + 1 /\ crashes' = crashes
                \/ faults' = faults /\ crashes' = crashes + 1
  PROVE  Failures' = Failures + 1
<1>1. faults \in Nat /\ crashes \in Nat
  BY DEF Types
<1>2. Failures' = faults' + crashes' /\ Failures = faults + crashes
  BY DEF Failures
<1>3. CASE faults' = faults + 1 /\ crashes' = crashes
  <2>1. Failures' = (faults + 1) + crashes
    BY <1>2, <1>3
  <2> QED BY <1>1, <1>2, <2>1
<1>4. CASE faults' = faults /\ crashes' = crashes + 1
  <2>1. Failures' = faults + (crashes + 1)
    BY <1>2, <1>4
  <2> QED BY <1>1, <1>2, <2>1
<1> QED BY <1>3, <1>4

\* What the rest of the program does leaves nothing more to be sent again.
LEMMA RestPaid ==
  ASSUME Types, RowsInv, PaidFor,
         (\E s \in Sessions : EnqueueEvent(s) \/ DeleteSession(s)) \/ RetryTimeComes
  PROVE  PaidFor'
<1>1. UNCHANGED <<file, dpc, batch, faults, crashes>>
  BY DEF EnqueueEvent, DeleteSession, RetryTimeComes, dispatcherVars
<1>2. \A e \in Pending' : e \in Pending \/ e \notin ToSet(file)
  <2>1. ASSUME NEW s \in Sessions, EnqueueEvent(s) PROVE \A e \in Pending' : e \in Pending \/ e \notin ToSet(file)
    <3>1. enqueued[s] < MaxEvents
      BY <2>1 DEF EnqueueEvent
    <3> QED BY <2>1, <3>1, EnqueueRows, NextEventIsNew
  <2>2. ASSUME NEW s \in Sessions, DeleteSession(s) PROVE Pending' \subseteq Pending
    BY <2>2, DeleteRows
  <2>3. CASE RetryTimeComes
    BY <2>3, RetryTimeRows
  <2> QED BY <2>1, <2>2, <2>3
<1>3. Item' = Item
  BY <1>1 DEF Item
<1>4. Redo' \subseteq Redo
  BY <1>1, <1>2, <1>3 DEF Redo, Unsent
<1> QED BY <1>1, <1>4, NoFailure

\* The dispatcher pays by what it leaves unsent.
LEMMA DispatchPaid ==
  ASSUME Types, RowsInv, PaidFor, DispatchStep
  PROVE  PaidFor'
<1>1. UNCHANGED <<faults, crashes>>
  BY DEF DispatchStep, ClaimPendingEvents, AppendEvent, MarkDispatched, MarkRetry, DispatchFrame
<1>2. CASE ClaimPendingEvents
  <2>1. file' = file /\ dpc' \in {"idle", "append"} /\ dpc = "idle"
    BY <1>2, ClaimFacts DEF ClaimPendingEvents, RowsInv
  <2>2. Pending' = Pending /\ ToSet(batch') \subseteq Pending
    BY <1>2, ClaimRows, ClaimFacts DEF RowsInv, Pending
  <2>3. Redo' \subseteq Redo
    BY <2>1, <2>2 DEF Redo, Unsent
  <2> QED BY <1>1, <2>1, <2>3, NoFailure
<1>3. CASE AppendEvent
  <2>1. dpc = "append" /\ file' = Append(file, Item) /\ dpc' = "mark" /\ batch' = batch
    BY <1>3 DEF AppendEvent
  <2>2. ToSet(file') = ToSet(file) \cup {Item} /\ Len(file') = Len(file) + 1 /\ Item \in ToSet(batch)
    BY <2>1, LineFacts
  <2>3. Pending' = Pending /\ Item' = Item
    BY <1>3, <2>1, AppendRows DEF Item
  <2>4. Item \in Unsent /\ Unsent' = Unsent \ {Item}
    BY <2>1, <2>2, <2>3 DEF Unsent
  <2>5. Failures \in Nat /\ Failures' = Failures
    BY <1>1, RedoFinite DEF Failures
  <2>6. Failures' = Failures + 0
    BY <2>5
  <2> QED BY <2>2, <2>4, <2>6, PaidNewLine
<1>4. CASE MarkDispatched
  <2>1. dpc = "mark" /\ file' = file
    BY <1>4 DEF MarkDispatched
  <2>2. batch # <<>> /\ Once(batch)
    BY <2>1 DEF Types, RowsInv, WrittenFirst
  <2>3. CASE Pending' = Pending /\ ~IsPending(Item) /\ dpc' = "retry" /\ batch' = batch
    <3>1. Item' = Item
      BY <2>3 DEF Item
    <3> QED BY <1>1, <2>1, <2>3, <3>1, NoFailure DEF Redo, Unsent, IsPending
  <2>4. CASE Pending' = Pending \ {Item} /\ NextItem
    <3>1. dpc' \in {"idle", "append"} /\ ToSet(batch') = ToSet(batch) \ {Item}
      BY <2>2, <2>4, NextItemFacts
    <3>2. Redo' \subseteq Redo
      BY <2>1, <2>4, <3>1 DEF Redo, Unsent
    <3> QED BY <1>1, <2>1, <3>2, NoFailure
  <2> QED BY <1>4, <2>3, <2>4, MarkRows
<1>5. CASE MarkRetry
  <2>1. dpc = "retry" /\ file' = file /\ Pending' = Pending
    BY <1>5, RetryRows DEF MarkRetry
  <2>2. batch # <<>> /\ Once(batch)
    BY <2>1 DEF Types, RowsInv, WrittenFirst
  <2>3. dpc' \in {"idle", "append"} /\ ToSet(batch') \subseteq ToSet(batch) \ {Item}
    BY <1>5, <2>2, RetryRows, NextItemFacts, AbortFacts
  <2>4. Redo' \subseteq Redo
    BY <2>1, <2>3 DEF Redo, Unsent
  <2> QED BY <1>1, <2>1, <2>4, NoFailure
<1> QED BY <1>2, <1>3, <1>4, <1>5 DEF DispatchStep

\* A failing call or a crash pays for one event: the current item.
LEMMA FailurePaid ==
  ASSUME Types, RowsInv, PaidFor, AppendFails \/ MarkFails \/ RunFails \/ Crash
  PROVE  PaidFor'
<1> USE DEF Fault
<1>1. Failures' = Failures + 1
  BY OneFailure DEF AppendFails, MarkFails, RunFails, Crash
<1>2. Pending' = Pending
  BY FailureRows
<1>3. CASE AppendFails /\ file' = Append(file, Item)
  <2>1. dpc = "append" /\ dpc' = "retry" /\ batch' = batch
    BY <1>3 DEF AppendFails
  <2>2. ToSet(file') = ToSet(file) \cup {Item} /\ Len(file') = Len(file) + 1 /\ Item \in ToSet(batch)
    BY <1>3, <2>1, LineFacts
  <2>3. Item \in Unsent /\ Unsent' \subseteq Unsent
    BY <1>2, <2>1, <2>2 DEF Unsent
  <2> QED BY <1>1, <2>2, <2>3, PaidNewLine
<1>4. ASSUME file' = file, Unsent' \subseteq Unsent \cup {Item} PROVE PaidFor'
  <2>1. Redo' \subseteq Redo \cup {Item}
    BY <1>4 DEF Redo
  <2> QED BY <1>1, <1>4, <2>1, PaidSameFile
<1>5. CASE AppendFails /\ file' = file
  <2>1. dpc = "append" /\ dpc' = "retry" /\ batch' = batch
    BY <1>5 DEF AppendFails
  <2> QED BY <1>2, <1>4, <1>5, <2>1 DEF Unsent
<1>6. CASE MarkFails
  <2>1. dpc = "mark" /\ dpc' = "retry" /\ batch' = batch /\ file' = file
    BY <1>6 DEF MarkFails
  <2> QED BY <1>2, <1>4, <2>1 DEF Unsent
<1>7. CASE RunFails \/ Crash
  <2>1. dpc' = "idle" /\ ToSet(batch') = {} /\ file' = file
    BY <1>7, AbortFacts DEF RunFails, Crash
  <2> QED BY <1>2, <1>4, <2>1 DEF Unsent
<1> QED BY <1>3, <1>5, <1>6, <1>7 DEF AppendFails

LEMMA NextPaid ==
  ASSUME Types, RowsInv, PaidFor, [Next]_vars
  PROVE  PaidFor'
<1>1. CASE UNCHANGED vars
  <2>1. UNCHANGED <<due, putOff, file, dpc, batch, faults, crashes>>
    BY <1>1 DEF vars, tableVars, dispatcherVars
  <2>2. Redo' = Redo
    BY <2>1 DEF Redo, Unsent, Pending, Item
  <2> QED BY <2>1, <2>2, NoFailure
<1> QED BY <1>1, RestPaid, DispatchPaid, FailurePaid DEF Next

LEMMA PaidInit == Init => PaidFor
<1> SUFFICES ASSUME Init PROVE PaidFor
  OBVIOUS
<1>1. Len(<<>>) = 0 /\ DOMAIN <<>> = 1..0
  OBVIOUS
<1>2. ToSet(file) = {} /\ Len(file) = 0 /\ Failures = 0
  BY <1>1 DEF Init, ToSet, Failures
<1>3. Redo = {}
  BY <1>2 DEF Redo
<1>4. Cardinality({}) = 0
  BY FS_EmptySet, Zenon
<1> QED BY <1>2, <1>3, <1>4 DEF PaidFor

-----------------------------------------------------------------------------
(* The order of a session's events.                                         *)

\* The events of the session before an element of q are in F or before it in q.
Before(q, F) ==
  \A k \in 1..Len(q) : \A n \in 1..(q[k][2] - 1) :
    \/ <<q[k][1], n>> \in F
    \/ \E j \in 1..(k - 1) : q[j] = <<q[k][1], n>>

OrderInv ==
  faults = 0 =>
    /\ putOff = <<>>
    /\ dpc = "retry" => ~IsPending(Item)
    /\ Before(due, ToSet(file)) /\ Before(batch, ToSet(file))
    /\ Before(file, {})

LEMMA BeforeMore ==
  ASSUME NEW q, NEW F, NEW G, F \subseteq G, Before(q, F)
  PROVE  Before(q, G)
  BY Zenon DEF Before

LEMMA BeforeAppend ==
  ASSUME NEW q \in Seq(Events), NEW F, Before(q, F), NEW e \in Events,
         \A n \in 1..(e[2] - 1) : <<e[1], n>> \in F \cup ToSet(q)
  PROVE  Before(Append(q, e), F)
<1> DEFINE r == Append(q, e)
<1>1. /\ Len(q) \in Nat /\ Len(r) = Len(q) + 1
      /\ \A i \in 1..Len(q) : r[i] = q[i]
      /\ r[Len(q) + 1] = e
  BY AppendSet
<1> HIDE DEF r
<1> SUFFICES ASSUME NEW k \in 1..Len(r), NEW n \in 1..(r[k][2] - 1), <<r[k][1], n>> \notin F
             PROVE  \E j \in 1..(k - 1) : r[j] = <<r[k][1], n>>
  BY DEF Before, r
<1>2. CASE k = Len(q) + 1
  <2>1. r[k] = e
    BY <1>1, <1>2
  <2>2. <<e[1], n>> \in ToSet(q)
    BY <2>1
  <2>3. PICK j \in 1..Len(q) : q[j] = <<e[1], n>>
    BY <2>2, InSeq
  <2>4. j \in 1..(k - 1) /\ r[j] = <<r[k][1], n>>
    BY <1>1, <1>2, <2>1, <2>3
  <2> QED BY <2>4
<1>3. CASE k # Len(q) + 1
  <2>1. k \in 1..Len(q) /\ r[k] = q[k]
    BY <1>1, <1>3
  <2>2. PICK j \in 1..(k - 1) : q[j] = <<q[k][1], n>>
    BY <2>1 DEF Before
  <2>3. j \in 1..Len(q)
    BY <1>1, <2>1
  <2> QED BY <1>1, <2>1, <2>2, <2>3
<1> QED BY <1>2, <1>3

LEMMA BeforeTail ==
  ASSUME NEW q \in Seq(Events), q # <<>>, NEW F, Before(q, F), Head(q) \in F
  PROVE  Before(Tail(q), F)
<1> DEFINE r == Tail(q)
<1>1. /\ Len(q) \in Nat /\ Len(r) = Len(q) - 1 /\ Len(q) >= 1 /\ Head(q) = q[1]
      /\ \A i \in 1..Len(r) : r[i] = q[i + 1]
  BY TailSet
<1> HIDE DEF r
<1> SUFFICES ASSUME NEW k \in 1..Len(r), NEW n \in 1..(r[k][2] - 1), <<r[k][1], n>> \notin F
             PROVE  \E j \in 1..(k - 1) : r[j] = <<r[k][1], n>>
  BY DEF Before, r
<1>2. k + 1 \in 1..Len(q) /\ q[k + 1] = r[k] /\ (k + 1) - 1 = k
  BY <1>1
<1>3. PICK j \in 1..k : q[j] = <<r[k][1], n>>
  BY <1>2 DEF Before
<1>4. j # 1
  BY <1>1, <1>3
<1>5. j - 1 \in 1..(k - 1) /\ r[j - 1] = q[j]
  <2>1. j - 1 \in 1..(k - 1) /\ j - 1 \in 1..Len(r) /\ (j - 1) + 1 = j
    BY <1>1, <1>4
  <2> QED BY <1>1, <2>1
<1> QED BY <1>3, <1>5

LEMMA BeforePrefix ==
  ASSUME NEW q \in Seq(Events), NEW p \in Seq(Events), Len(p) <= Len(q),
         \A i \in 1..Len(p) : p[i] = q[i], NEW F, Before(q, F)
  PROVE  Before(p, F)
<1>1. Len(p) \in Nat /\ Len(q) \in Nat
  OBVIOUS
<1> SUFFICES ASSUME NEW k \in 1..Len(p), NEW n \in 1..(p[k][2] - 1), <<p[k][1], n>> \notin F
             PROVE  \E j \in 1..(k - 1) : p[j] = <<p[k][1], n>>
  BY DEF Before
<1>2. k \in 1..Len(q) /\ p[k] = q[k]
  BY <1>1
<1>3. PICK j \in 1..(k - 1) : q[j] = <<q[k][1], n>>
  BY <1>2 DEF Before
<1>4. j \in 1..Len(p)
  BY <1>1
<1> QED BY <1>2, <1>3, <1>4

\* Rows may go, if what others wait for goes with them or is in F.
LEMMA BeforeWithout ==
  ASSUME NEW q \in Seq(Events), NEW gone, NEW F, Before(q, F),
         \A e \in Events : \A n \in 1..(e[2] - 1) :
           e \notin gone /\ <<e[1], n>> \in gone => <<e[1], n>> \in F
  PROVE  Before(Without(q, gone), F)
<1> DEFINE r == Without(q, gone)
           K == Kept(q, gone)
           P(i) == Place(q, gone, i)
<1>1. /\ Len(r) \in Nat
      /\ \A i \in K : P(i) \in 1..Len(r) /\ r[P(i)] = q[i]
      /\ \A i, j \in K : i < j => P(i) < P(j)
      /\ \A n \in 1..Len(r) : \E i \in K : P(i) = n
  BY WithoutFacts
<1>2. \A i : i \in K <=> i \in 1..Len(q) /\ q[i] \notin gone
  BY DEF Kept
<1> HIDE DEF r, K, P
<1> SUFFICES ASSUME NEW k \in 1..Len(r), NEW n \in 1..(r[k][2] - 1), <<r[k][1], n>> \notin F
             PROVE  \E j \in 1..(k - 1) : r[j] = <<r[k][1], n>>
  BY DEF Before, r
<1>3. PICK i \in K : P(i) = k
  BY <1>1
<1>4. r[k] = q[i] /\ i \in 1..Len(q) /\ q[i] \in Events /\ q[i] \notin gone
  BY <1>1, <1>2, <1>3
<1>5. PICK j \in 1..(i - 1) : q[j] = <<q[i][1], n>>
  BY <1>4 DEF Before
<1>6. <<q[i][1], n>> \notin gone
  BY <1>4
<1>7. j \in 1..Len(q) /\ j < i
  BY <1>4
<1>8. j \in K
  BY <1>2, <1>5, <1>6, <1>7
<1>9. P(j) < k /\ P(j) \in 1..Len(r) /\ r[P(j)] = q[j]
  BY <1>1, <1>3, <1>7, <1>8
<1>10. P(j) \in 1..(k - 1)
  BY <1>1, <1>9
<1> QED BY <1>4, <1>5, <1>9, <1>10

\* What OrderInv says as long as no call has failed.
InOrder ==
  /\ putOff = <<>>
  /\ dpc = "retry" => ~IsPending(Item)
  /\ Before(due, ToSet(file)) /\ Before(batch, ToSet(file))
  /\ Before(file, {})

\* The session's earlier events are in the file or due: nothing is lost, and
\* nothing is put off.
LEMMA EnqueueOrder ==
  ASSUME Types, RowsInv, InOrder, NEW s \in Sessions, EnqueueEvent(s)
  PROVE  InOrder'
<1> DEFINE e == <<s, enqueued[s] + 1>>
<1>1. /\ enqueued[s] < MaxEvents /\ s \notin deleted /\ due' = Append(due, e)
      /\ UNCHANGED <<putOff, file, dpc, batch>>
  BY DEF EnqueueEvent, dispatcherVars
<1>2. e \in Events /\ e[1] = s /\ e[2] = enqueued[s] + 1
  BY <1>1, NextEventIsNew
<1>3. enqueued[s] \in Nat /\ due \in Seq(Events)
  BY OutboxAssumption DEF Types
<1>4. Pending = ToSet(due)
  <2>1. putOff = <<>> /\ DOMAIN <<>> = 1..0
    BY DEF InOrder
  <2> QED BY <2>1 DEF Pending, ToSet
<1>5. ASSUME NEW n \in 1..(e[2] - 1) PROVE <<e[1], n>> \in ToSet(file) \cup ToSet(due)
  <2>1. n \in 1..MaxEvents /\ n <= enqueued[s]
    BY <1>1, <1>2, <1>3, OutboxAssumption
  <2> DEFINE f == <<s, n>>
  <2>2. f \in Events /\ f[1] = s /\ f[2] = n
    BY <2>1, EventFacts
  <2> HIDE DEF f
  <2>3. Enqueued(f) /\ f[1] \notin deleted
    BY <1>1, <2>1, <2>2 DEF Enqueued
  <2>4. f \in ToSet(file) \/ f \in Pending
    BY <2>2, <2>3 DEF RowsInv, NothingLost, InFile, IsPending
  <2> QED BY <1>2, <1>4, <2>4 DEF f
<1> HIDE DEF e
<1>6. Before(due, ToSet(file))
  BY DEF InOrder
<1>7. Before(due', ToSet(file))
  BY <1>1, <1>2, <1>3, <1>5, <1>6, BeforeAppend
<1>8. dpc' = "retry" => ~IsPending(Item)'
  <2> SUFFICES ASSUME dpc' = "retry" PROVE Item' \notin Pending'
    BY DEF IsPending
  <2>1. dpc = "retry" /\ Item' = Item /\ Item \notin Pending
    BY <1>1 DEF InOrder, IsPending, Item
  <2>2. Item \in ToSet(batch)
    <3>1. batch \in Seq(Events) /\ batch # <<>>
      BY <2>1 DEF Types
    <3> QED BY <3>1, TailSet DEF Item
  <2>3. e \notin ToSet(batch) /\ Pending' = Pending \cup {e}
    BY <1>1, EnqueueRows, NextEventIsNew DEF e
  <2> QED BY <2>1, <2>2, <2>3
<1> QED BY <1>1, <1>7, <1>8 DEF InOrder

\* All events of the session go.
LEMMA DeleteOrder ==
  ASSUME Types, RowsInv, InOrder, NEW s \in Sessions, DeleteSession(s)
  PROVE  InOrder'
<1>1. /\ due' = Without(due, EventsOf(s)) /\ putOff' = Without(putOff, EventsOf(s))
      /\ UNCHANGED <<file, dpc, batch>>
  BY DEF DeleteSession, dispatcherVars
<1>2. putOff' = <<>>
  BY <1>1, WithoutEmpty DEF InOrder
<1>3. Before(due', ToSet(file))
  <2>1. due \in Seq(Events) /\ Before(due, ToSet(file))
    BY DEF Types, InOrder
  <2>2. ASSUME NEW e \in Events, NEW n \in 1..(e[2] - 1), e \notin EventsOf(s)
        PROVE  <<e[1], n>> \notin EventsOf(s)
    <3>1. e[1] # s
      BY <2>2, EventFacts DEF EventsOf
    <3> QED BY <3>1 DEF EventsOf
  <2> QED BY <1>1, <2>1, <2>2, BeforeWithout
<1>4. dpc' = "retry" => ~IsPending(Item)'
  BY <1>1, DeleteRows DEF InOrder, IsPending, Item
<1> QED BY <1>1, <1>2, <1>3, <1>4 DEF InOrder

LEMMA ClaimOrder ==
  ASSUME Types, RowsInv, InOrder, ClaimPendingEvents
  PROVE  InOrder'
<1>1. UNCHANGED <<due, putOff, file>>
  BY DEF ClaimPendingEvents
<1>2. /\ batch' \in Seq(Events) /\ dpc' \in {"idle", "append"} /\ Len(batch') <= Len(due)
      /\ \A i \in 1..Len(batch') : batch'[i] = due[i]
  BY ClaimFacts DEF RowsInv
<1>3. due \in Seq(Events) /\ Before(due, ToSet(file))
  BY DEF Types, InOrder
<1>4. Before(batch', ToSet(file))
  BY <1>2, <1>3, BeforePrefix
<1> QED BY <1>1, <1>2, <1>4 DEF InOrder

\* What comes before the first item is in the file.
LEMMA AppendOrder ==
  ASSUME Types, RowsInv, InOrder, AppendEvent
  PROVE  InOrder'
<1>1. /\ dpc = "append" /\ file' = Append(file, Item) /\ dpc' = "mark"
      /\ UNCHANGED <<due, putOff, batch>>
  BY DEF AppendEvent
<1>2. /\ ToSet(file') = ToSet(file) \cup {Item} /\ Item \in Events /\ Item = batch[1]
      /\ batch \in Seq(Events) /\ batch # <<>> /\ file \in Seq(Events)
  BY <1>1, LineFacts DEF Types
<1>3. ASSUME NEW n \in 1..(Item[2] - 1) PROVE <<Item[1], n>> \in ToSet(file)
  <2>1. 1 \in 1..Len(batch) /\ 1..(1 - 1) = {}
    BY <1>2
  <2> QED BY <1>2, <2>1 DEF InOrder, Before
<1>4. Before(file', {})
  <2>1. Before(file, {})
    BY DEF InOrder
  <2> DEFINE i == Item
  <2>2. i \in Events /\ \A n \in 1..(i[2] - 1) : <<i[1], n>> \in {} \cup ToSet(file)
    BY <1>2, <1>3
  <2>3. file' = Append(file, i)
    BY <1>1
  <2> HIDE DEF i
  <2> QED BY <1>2, <2>1, <2>2, <2>3, BeforeAppend
<1>5. Before(due, ToSet(file')) /\ Before(batch, ToSet(file'))
  <2>1. ToSet(file) \subseteq ToSet(file')
    BY <1>2
  <2>2. Before(due, ToSet(file)) /\ Before(batch, ToSet(file))
    BY DEF InOrder
  <2> QED BY <2>1, <2>2, BeforeMore, Zenon
<1> QED BY <1>1, <1>4, <1>5 DEF InOrder

\* The row that goes is in the file.
LEMMA MarkOrder ==
  ASSUME Types, RowsInv, InOrder, MarkDispatched
  PROVE  InOrder'
<1>1. dpc = "mark" /\ file' = file /\ Item \in ToSet(file)
  BY DEF MarkDispatched, RowsInv, WrittenFirst, InFile
<1>2. CASE ~IsPending(Item)
  <2>1. dpc' = "retry" /\ UNCHANGED <<batch, due, putOff>>
    BY <1>2 DEF MarkDispatched
  <2>2. ~IsPending(Item)'
    BY <1>2, <2>1 DEF IsPending, Pending, Item
  <2> QED BY <1>1, <2>1, <2>2 DEF InOrder
<1>3. CASE IsPending(Item)
  <2>1. due' = Without(due, {Item}) /\ putOff' = Without(putOff, {Item}) /\ NextItem
    BY <1>3 DEF MarkDispatched
  <2>2. batch \in Seq(Events) /\ batch # <<>> /\ Once(batch) /\ due \in Seq(Events)
    BY <1>1 DEF Types, RowsInv, WrittenFirst
  <2>3. Before(due', ToSet(file))
    <3>1. Before(due, ToSet(file))
      BY DEF InOrder
    <3> DEFINE i == Item
    <3>2. due' = Without(due, {i}) /\ i \in ToSet(file)
      BY <1>1, <2>1
    <3> HIDE DEF i
    <3> QED BY <2>2, <3>1, <3>2, BeforeWithout
  <2>4. Before(batch', ToSet(file))
    <3>1. Before(batch, ToSet(file)) /\ batch' = Tail(batch) /\ Head(batch) \in ToSet(file)
      BY <1>1, <2>1 DEF InOrder, NextItem, Item
    <3> QED BY <2>2, <3>1, BeforeTail
  <2>5. putOff' = <<>>
    BY <2>1, WithoutEmpty DEF InOrder
  <2>6. dpc' # "retry"
    BY <2>1, <2>2, NextItemFacts
  <2> QED BY <1>1, <2>3, <2>4, <2>5, <2>6 DEF InOrder
<1> QED BY <1>2, <1>3

\* An empty batch is in order.
LEMMA AbortOrder ==
  ASSUME InOrder, AbortBatch, UNCHANGED <<due, putOff, file>>
  PROVE  InOrder'
<1>1. batch' = <<>> /\ dpc' = "idle" /\ Len(<<>>) = 0
  BY DEF AbortBatch
<1>2. Before(batch', ToSet(file))
  BY <1>1 DEF Before
<1> QED BY <1>1, <1>2 DEF InOrder

LEMMA NextOrder ==
  ASSUME Types, RowsInv, OrderInv, [Next]_vars
  PROVE  OrderInv'
<1> SUFFICES ASSUME faults' = 0 PROVE InOrder'
  BY DEF OrderInv, InOrder
<1>1. faults = 0 /\ ~AppendFails /\ ~MarkFails /\ ~RunFails
  <2>1. AppendFails \/ MarkFails \/ RunFails => faults' = faults + 1
    BY DEF AppendFails, MarkFails, RunFails, Fault
  <2>2. faults + 1 # 0
    BY DEF Types
  <2>3. AppendFails \/ MarkFails \/ RunFails \/ faults' = faults
    BY DEF Next, DispatchStep, EnqueueEvent, DeleteSession, RetryTimeComes, ClaimPendingEvents,
           AppendEvent, MarkDispatched, MarkRetry, DispatchFrame, Crash, vars
  <2> QED BY <2>1, <2>2, <2>3
<1>2. InOrder
  BY <1>1 DEF OrderInv, InOrder
<1>3. CASE MarkRetry
  <2>1. ~IsPending(Item) /\ file' = file
    BY <1>2, <1>3 DEF MarkRetry, InOrder
  <2>2. AbortBatch /\ UNCHANGED <<due, putOff, file>>
    BY <1>3, <2>1 DEF MarkRetry
  <2> QED BY <1>2, <2>2, AbortOrder
<1>4. CASE Crash
  BY <1>2, <1>4, AbortOrder DEF Crash, tableVars
<1>5. CASE UNCHANGED vars
  BY <1>2, <1>5 DEF vars, tableVars, dispatcherVars, InOrder, IsPending, Pending, Item
<1>6. ~RetryTimeComes
  BY <1>2 DEF RetryTimeComes, InOrder
<1> QED BY <1>1, <1>2, <1>3, <1>4, <1>5, <1>6, EnqueueOrder, DeleteOrder, ClaimOrder, AppendOrder,
           MarkOrder DEF Next, DispatchStep

LEMMA OrderInit == Init => OrderInv
<1> SUFFICES ASSUME Init PROVE InOrder
  BY DEF OrderInv, InOrder
<1>1. Len(<<>>) = 0
  OBVIOUS
<1>2. \A F : Before(<<>>, F)
  BY <1>1 DEF Before
<1> QED BY <1>2 DEF Init, InOrder

-----------------------------------------------------------------------------
(* The theorems.                                                            *)

OutboxInv == Types /\ RowsInv /\ PaidFor /\ OrderInv

\* The invariant behind the four promises of the outbox (openclaw_event_outbox
\* and its dispatcher), which no event, deletion, failing call or crash leaves.
THEOREM OutboxInvariant == Spec => []OutboxInv
<1>1. Init => OutboxInv
  BY RowsInit, PaidInit, OrderInit DEF OutboxInv
<1>2. OutboxInv /\ [Next]_vars => OutboxInv'
  BY NextRows, NextPaid, NextOrder DEF OutboxInv
<1> QED BY <1>1, <1>2, PTL DEF Spec

\* Every row is where the table, the batch and the file can have it; in
\* particular the two sequences of pending rows have no row twice.
THEOREM OutboxTypes == Spec => []TypeOK
<1>1. OutboxInv => TypeOK
  <2> SUFFICES ASSUME OutboxInv PROVE TypeOK
    OBVIOUS
  <2> DEFINE D == ToSet(due)
             P == ToSet(putOff)
  <2>1. /\ due \in Seq(Events) /\ putOff \in Seq(Events) /\ Once(due) /\ Once(putOff)
        /\ D \cap P = {} /\ Pending \cap dispatched = {}
    BY DEF OutboxInv, Types, RowsInv, InOnePlace
  <2>2. /\ IsFiniteSet(D) /\ IsFiniteSet(P) /\ Len(due) \in Nat /\ Len(putOff) \in Nat
        /\ Cardinality(D) = Len(due) /\ Cardinality(P) = Len(putOff)
    BY <2>1, SeqCardinality
  <2>3. Pending = D \cup P
    BY DEF Pending
  <2> HIDE DEF D, P
  <2>4. Cardinality(D \cup P) = Cardinality(D) + Cardinality(P) - Cardinality({})
    <3>1. Cardinality(D \cup P) = Cardinality(D) + Cardinality(P) - Cardinality(D \cap P)
      BY <2>2, FS_Union, Zenon
    <3> QED BY <2>1, <3>1
  <2>5. Cardinality({}) = 0
    BY FS_EmptySet, Zenon
  <2>6. Len(due) + Len(putOff) = Cardinality(Pending)
    BY <2>2, <2>3, <2>4, <2>5
  <2> QED BY <2>1, <2>6 DEF OutboxInv, Types, TypeOK
<1> QED BY <1>1, OutboxInvariant, PTL

\* At least once, the safety half: markDispatched comes after the append, and
\* nothing but a deleted session takes a row out of the table.
THEOREM NoEventIsLost == Spec => []NothingLost
<1>1. OutboxInv => NothingLost
  BY DEF OutboxInv, RowsInv
<1> QED BY <1>1, OutboxInvariant, PTL

\* Each line beyond the first of its event was paid for by a failed call or a
\* crash.
THEOREM DuplicatesArePaidFor == Spec => []DuplicatesNeedFailure
<1>1. OutboxInv => DuplicatesNeedFailure
  <2> SUFFICES ASSUME OutboxInv PROVE DuplicatesNeedFailure
    OBVIOUS
  <2> DEFINE lines == Len(file)
             redo == Cardinality(Redo)
             events == Cardinality(ToSet(file))
  <2>1. /\ lines \in Nat /\ IsFiniteSet(ToSet(file)) /\ Redo \in SUBSET ToSet(file)
        /\ faults \in Nat /\ crashes \in Nat
    BY RedoFinite DEF OutboxInv, Types
  <2>2. redo \in Nat /\ events \in Nat
    BY <2>1, FS_Subset, FS_CardinalityType, Zenon
  <2>3. lines + redo <= events + (faults + crashes)
    BY DEF OutboxInv, PaidFor, Failures
  <2> HIDE DEF lines, redo, events
  <2>4. lines <= events + faults + crashes
    BY <2>1, <2>2, <2>3
  <2> QED BY <2>4 DEF DuplicatesNeedFailure, lines, events
<1> QED BY <1>1, OutboxInvariant, PTL

\* As long as no call fails, the events of a session reach the file in the
\* order in which they were enqueued, whatever crashes and deletions do.
THEOREM DeliveredInOrder == Spec => []FirstDeliveriesInOrder
<1>1. OutboxInv => FirstDeliveriesInOrder
  BY DEF OutboxInv, OrderInv, Before, FirstDeliveriesInOrder
<1> QED BY <1>1, OutboxInvariant, PTL
=============================================================================

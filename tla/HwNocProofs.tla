---------------------------- MODULE HwNocProofs ----------------------------
(***************************************************************************)
(* The hardware network implements the service it is given for: whatever   *)
(* the lengths of the FIFOs, packets and targets, a packet offered at an   *)
(* input comes out once at the output it is addressed to, after those the  *)
(* same input offered before it for that output, or a reset removes it.    *)
(*                                                                         *)
(* Every inductive fact is about one input x and one output j: what is     *)
(* between them is a queue in three parts, the packet x waits with, what   *)
(* the switch of its group holds for it and what the last switch holds.    *)
(***************************************************************************)
EXTENDS HwNoc, OperatorProofs

-----------------------------------------------------------------------------
(* The packets of a queue that come from one input.                        *)

Places(s, S) == {n \in 1..Len(s) : s[n] \in S}

(* The k-th place of P.                                                    *)
Place(P, k) == CHOOSE n \in P : Cardinality({m \in P : m < n}) + 1 = k

LEMMA PlaceIs ==
  ASSUME NEW N \in Nat, NEW P, P \subseteq 0..N, NEW k \in 1..Cardinality(P)
  PROVE  Place(P, k) \in P /\ Count(P, Place(P, k)) + 1 = k
<1> DEFINE total == Cardinality(P)
           back == total + 1 - k
<1>1. total \in Nat /\ k \in 1..total /\ back \in 1..total
  <2>1. total \in 0..(N + 1)
    BY Total, Zenon
  <2>2. k \in 1..total
    OBVIOUS
  <2> HIDE DEF total
  <2>3. QED
    BY <2>1, <2>2
<1>2. PICK b \in P : back + Count(P, b) = total
  BY <1>1, BusIs
<1>3. \A n \in P : Cardinality({m \in P : m < n}) = Count(P, n) /\ Count(P, n) \in Nat
  <2>1. \A n \in P : n \in 0..N /\ n \in Nat
    OBVIOUS
  <2>2. \A n \in P : {m \in P : m < n} = {m \in 0..(n - 1) : m \in P}
    BY <2>1, Total
  <2>3. \A n \in P : Cardinality({m \in P : m < n}) = Count(P, n)
    BY <2>2 DEF Count
  <2>4. \A n \in P : Count(P, n) \in Nat
    BY <2>1, CountStep
  <2>5. QED
    BY <2>3, <2>4
<1>4. Cardinality({m \in P : m < b}) + 1 = k
  <2>1. Count(P, b) \in Nat /\ Cardinality({m \in P : m < b}) = Count(P, b)
    BY <1>2, <1>3, Zenon
  <2> HIDE DEF total
  <2>2. Count(P, b) + 1 = k
    BY <1>1, <1>2, <2>1
  <2>3. QED
    BY <2>1, <2>2
<1>5. Place(P, k) \in P /\ Cardinality({m \in P : m < Place(P, k)}) + 1 = k
  BY <1>4 DEF Place
<1>6. QED
  BY <1>3, <1>5

(* Only as a sequence: it has each element in S, after those before it.    *)
IsOnly(t, s, S, P) ==
  /\ P \subseteq 1..Len(s) /\ P \subseteq 0..Len(s) /\ Len(s) \in Nat
  /\ t \in Seq(S) /\ Len(t) = Cardinality(P) /\ Len(t) <= Len(s)
  /\ \A n \in P : Count(P, n) + 1 \in 1..Len(t) /\ t[Count(P, n) + 1] = s[n]

LEMMA OnlyIs ==
  ASSUME NEW U, NEW s \in Seq(U), NEW S
  PROVE  IsOnly(Only(s, S), s, S, Places(s, S))
<1> DEFINE N == Len(s)
           P == Places(s, S)
           t == Only(s, S)
           total == Cardinality(P)
<1>1. N \in Nat /\ P \subseteq 1..N /\ P \subseteq 0..N /\ \A n \in P : s[n] \in S
  BY DEF Places
<1>2. total \in Nat /\ total <= N
  <2> HIDE DEF N
  <2>1. 1 \in Int /\ N \in Int
    BY <1>1
  <2>2. IsFiniteSet(1..N) /\ Cardinality(1..N) = IF 1 > N THEN 0 ELSE N - 1 + 1
    BY <2>1, FS_Interval
  <2>3. Cardinality(1..N) = N
    BY <1>1, <2>2
  <2>4. QED
    BY <1>1, <2>2, <2>3, FS_Subset, FS_CardinalityType
<1>3. t = [k \in 1..total |-> s[Place(P, k)]]
  BY DEF Only, Places, Place
<1> HIDE DEF P, t
<1>4. \A k \in 1..total : Place(P, k) \in P /\ Count(P, Place(P, k)) + 1 = k
  BY <1>1, PlaceIs
<1>5. t \in Seq(S) /\ Len(t) = total
  <2>1. \A k \in 1..total : s[Place(P, k)] \in S
    BY <1>1, <1>4
  <2> HIDE DEF total
  <2>2. QED
    BY <1>2, <1>3, <2>1
<1>6. ASSUME NEW n \in P
      PROVE  Count(P, n) + 1 \in 1..total /\ t[Count(P, n) + 1] = s[n]
  <2> DEFINE k == Count(P, n) + 1
  <2>1. n \in Nat /\ n <= N /\ Count(P, n) \in Nat
    BY <1>1, CountStep
  <2>2. k \in 1..total
    <3>1. n < N + 1 /\ N + 1 \in Nat
      BY <1>1, <2>1
    <3>2. Count(P, n) + 1 <= Count(P, N + 1)
      BY <2>1, <3>1, CountGrows
    <3>3. Count(P, N + 1) = total
      BY <1>1, Total
    <3>4. QED
      BY <1>2, <2>1, <3>2, <3>3
  <2> DEFINE m == Place(P, k)
  <2>3. m \in P /\ Count(P, m) = Count(P, n) /\ m \in Nat
    <3>1. m \in P /\ Count(P, m) + 1 = Count(P, n) + 1
      BY <1>4, <2>2
    <3> HIDE DEF m
    <3>2. m \in Nat
      BY <1>1, <3>1
    <3>3. Count(P, m) \in Nat
      BY <3>2, CountStep
    <3>4. QED
      BY <2>1, <3>1, <3>2, <3>3
  <2> HIDE DEF m
  <2>4. ~ (m < n) /\ ~ (n < m)
    BY <2>1, <2>3, CountGrows
  <2>5. m = n
    BY <2>1, <2>3, <2>4
  <2>6. QED
    BY <1>3, <2>2, <2>5 DEF m
<1>7. IsOnly(t, s, S, P)
  BY <1>1, <1>2, <1>5, <1>6 DEF IsOnly
<1>8. QED
  BY <1>7 DEF P, t

(* These facts decide what it is.                                          *)
LEMMA OnlyEquals ==
  ASSUME NEW U, NEW s \in Seq(U), NEW S,
         NEW P, P = Places(s, S), NEW V, NEW t \in Seq(V),
         Len(t) = Cardinality(P), \A n \in P : t[Count(P, n) + 1] = s[n]
  PROVE  t = Only(s, S)
<1> DEFINE o == Only(s, S)
<1>1. /\ P \subseteq 0..Len(s) /\ Len(s) \in Nat
      /\ o \in Seq(S) /\ Len(o) = Cardinality(P)
      /\ \A n \in P : o[Count(P, n) + 1] = s[n]
  <2>1. IsOnly(o, s, S, P)
    BY OnlyIs, Zenon
  <2> HIDE DEF o
  <2>2. QED
    BY <2>1 DEF IsOnly
<1> HIDE DEF o
<1>2. ASSUME NEW k \in 1..Len(t) PROVE t[k] = o[k]
  <2>1. Place(P, k) \in P /\ Count(P, Place(P, k)) + 1 = k
    BY <1>1, PlaceIs
  <2>2. QED
    BY <1>1, <2>1
<1>3. t = o
  BY <1>1, <1>2, SeqEqual
<1>4. QED
  BY <1>3 DEF o

LEMMA OnlyEmpty ==
  ASSUME NEW S
  PROVE  Only(<<>>, S) = <<>>
<1>1. <<>> \in Seq({}) /\ Len(<<>>) = 0
  BY EmptySeq
<1>2. Places(<<>>, S) = {}
  BY <1>1 DEF Places
<1>3. Only(<<>>, S) \in Seq(S) /\ Len(Only(<<>>, S)) = 0
  <2>1. IsOnly(Only(<<>>, S), <<>>, S, Places(<<>>, S))
    BY <1>1, OnlyIs
  <2>2. QED
    BY <1>2, <2>1, FS_EmptySet DEF IsOnly
<1>4. QED
  BY <1>3, EmptySeq

LEMMA OnlyAppend ==
  ASSUME NEW U, NEW s \in Seq(U), NEW d \in U, NEW S
  PROVE  Only(Append(s, d), S) = IF d \in S THEN Append(Only(s, S), d) ELSE Only(s, S)
<1> DEFINE s2 == Append(s, d)
           N == Len(s)
           P == Places(s, S)
           P2 == Places(s2, S)
           o == Only(s, S)
<1>1. /\ N \in Nat /\ s2 \in Seq(U) /\ Len(s2) = N + 1
      /\ \A n \in 1..N : s2[n] = s[n]
      /\ s2[N + 1] = d
  OBVIOUS
<1>2. /\ P \subseteq 1..N /\ P \subseteq 0..N
      /\ o \in Seq(S) /\ Len(o) = Cardinality(P)
      /\ \A n \in P : Count(P, n) + 1 \in 1..Len(o) /\ o[Count(P, n) + 1] = s[n]
  <2>1. IsOnly(o, s, S, P)
    BY OnlyIs, Zenon
  <2> HIDE DEF o, P
  <2>2. QED
    BY <2>1 DEF IsOnly
<1>3. P2 = IF d \in S THEN P \cup {N + 1} ELSE P
  <2>1. 1..(N + 1) = (1..N) \cup {N + 1} /\ N + 1 \notin 1..N
    BY <1>1
  <2> HIDE DEF s2
  <2>2. QED
    BY <1>1, <2>1 DEF Places
<1> HIDE DEF s2, P, P2, o
<1>4. CASE d \notin S
  <2>1. \A n \in P2 : o[Count(P2, n) + 1] = s2[n]
    BY <1>1, <1>2, <1>3, <1>4
  <2>2. Len(o) = Cardinality(P2)
    BY <1>2, <1>3, <1>4
  <2>3. o = Only(s2, S)
    BY <1>1, <1>2, <2>1, <2>2, OnlyEquals DEF P2
  <2>4. QED
    BY <1>4, <2>3 DEF o, s2
<1>5. CASE d \in S
  <2> DEFINE t == Append(o, d)
             total == Cardinality(P)
  <2>1. P2 = P \cup {N + 1} /\ N + 1 \notin P
    BY <1>1, <1>2, <1>3, <1>5
  <2>2. total \in Nat /\ IsFiniteSet(P) /\ Cardinality(P2) = total + 1 /\ Count(P, N + 1) = total
    <3>1. total \in Nat /\ Count(P, N + 1) = total
      <4>1. Count(P, N + 1) = Cardinality(P) /\ Cardinality(P) \in 0..(N + 1)
        BY <1>1, <1>2, Total, Zenon
      <4>2. QED
        BY <1>1, <4>1
    <3>2. IsFiniteSet(P)
      <4>1. 1 \in Int /\ N \in Int
        BY <1>1
      <4>2. IsFiniteSet(1..N)
        BY <4>1, FS_Interval
      <4>3. QED
        BY <1>2, <4>2, FS_Subset
    <3>3. QED
      BY <2>1, <3>1, <3>2, FS_AddElement
  <2>3. \A n \in 0..(N + 1) : Count(P2, n) = Count(P, n)
    <3>1. ASSUME NEW n \in 0..(N + 1)
          PROVE  {b \in 0..(n - 1) : b \in P2} = {b \in 0..(n - 1) : b \in P}
      <4>1. N + 1 \notin 0..(n - 1)
        BY <1>1
      <4>2. QED
        BY <2>1, <4>1
    <3>2. QED
      BY <3>1 DEF Count
  <2>4. t \in Seq(S) /\ Len(t) = total + 1 /\ t[total + 1] = d
        /\ \A k \in 1..total : t[k] = o[k]
    BY <1>2, <1>5, <2>2
  <2> HIDE DEF t, total
  <2>5. ASSUME NEW n \in P2 PROVE t[Count(P2, n) + 1] = s2[n]
    <3>1. CASE n = N + 1
      <4>1. Count(P2, n) = total
        BY <1>1, <2>2, <2>3, <3>1
      <4>2. QED
        BY <1>1, <2>4, <3>1, <4>1
    <3>2. CASE n # N + 1
      <4>1. n \in P /\ n \in 1..N /\ n \in 0..(N + 1)
        BY <1>1, <1>2, <2>1, <3>2
      <4>2. Count(P2, n) = Count(P, n)
        BY <2>3, <4>1
      <4>3. Count(P, n) + 1 \in 1..total /\ o[Count(P, n) + 1] = s[n]
        BY <1>2, <4>1 DEF total
      <4>4. QED
        BY <1>1, <2>4, <4>1, <4>2, <4>3
    <3>3. QED
      BY <3>1, <3>2
  <2>6. t = Only(s2, S)
    BY <1>1, <2>2, <2>4, <2>5, OnlyEquals DEF P2
  <2>7. QED
    BY <1>5, <2>6 DEF t, o, s2
<1>6. QED
  BY <1>4, <1>5

LEMMA OnlyTail ==
  ASSUME NEW U, NEW s \in Seq(U), s # <<>>, NEW S
  PROVE  IF Head(s) \in S
         THEN /\ Only(s, S) # <<>> /\ Head(Only(s, S)) = Head(s)
              /\ Only(Tail(s), S) = Tail(Only(s, S))
         ELSE Only(Tail(s), S) = Only(s, S)
<1> DEFINE s2 == Tail(s)
           N == Len(s) - 1
           P == Places(s, S)
           P2 == Places(s2, S)
           o == Only(s, S)
           first1 == One(1 \in P)
<1>1. /\ N \in Nat /\ Len(s) = N + 1 /\ s2 \in Seq(U) /\ Len(s2) = N
      /\ \A n \in 1..N : s2[n] = s[n + 1]
      /\ Head(s) = s[1]
  BY EmptySeq
<1>2. /\ P \subseteq 1..(N + 1) /\ P \subseteq 0..(N + 1)
      /\ o \in Seq(S) /\ Len(o) = Cardinality(P)
      /\ \A n \in P : Count(P, n) + 1 \in 1..Len(o) /\ o[Count(P, n) + 1] = s[n]
  <2>1. IsOnly(o, s, S, P)
    BY OnlyIs, Zenon
  <2> HIDE DEF o, P
  <2>2. QED
    BY <1>1, <2>1 DEF IsOnly
<1>3. /\ 1 \in P <=> Head(s) \in S
      /\ \A n \in 1..N : n \in P2 <=> n + 1 \in P
      /\ P2 \subseteq 1..N /\ P2 \subseteq 0..N
  <2> HIDE DEF s2
  <2>1. 1 \in 1..(N + 1) /\ \A n \in 1..N : n + 1 \in 1..(N + 1)
    BY <1>1
  <2>2. QED
    BY <1>1, <2>1 DEF Places
<1> HIDE DEF s2, P, P2, o
<1>4. first1 \in {0, 1} /\ (first1 = 1 <=> Head(s) \in S)
  BY <1>3 DEF One
<1>5. \A n \in 1..(N + 1) : Count(P2, n) + first1 = Count(P, n + 1)
  <2> DEFINE good(n) == Count(P2, n) + first1 = Count(P, n + 1)
             bad == {n \in 1..(N + 1) : ~good(n)}
  <2>1. SUFFICES ASSUME bad # {} PROVE FALSE
    OBVIOUS
  <2>2. PICK n \in bad : \A m \in bad : n <= m
    <3>1. bad \subseteq Nat
      OBVIOUS
    <3> HIDE DEF bad
    <3>2. Min(bad) \in bad /\ \A m \in bad : Min(bad) <= m
      BY <2>1, <3>1, MinNat
    <3>3. QED
      BY <3>2
  <2> HIDE DEF good
  <2>3. n \in 1..(N + 1) /\ ~good(n) /\ n \in Nat
    OBVIOUS
  <2>4. CASE n = 1
    <3>1. Count(P2, 0 + 1) = Count(P2, 0) + One(0 \in P2) /\ Count(P2, 0) = 0
      BY CountStep
    <3>2. /\ Count(P, 0 + 1) = Count(P, 0) + One(0 \in P) /\ Count(P, 0) = 0
          /\ Count(P, 1 + 1) = Count(P, 1) + first1
      BY CountStep
    <3>3. 0 \notin P2 /\ 0 \notin P
      BY <1>2, <1>3
    <3>4. One(0 \in P2) = 0 /\ One(0 \in P) = 0
      BY <3>3 DEF One
    <3>5. Count(P2, 1) = 0 /\ Count(P, 2) = first1
      <4> HIDE DEF first1
      <4>1. QED
        BY <1>4, <3>1, <3>2, <3>4
    <3>6. good(1)
      <4> HIDE DEF first1
      <4>1. Count(P2, 1) + first1 = Count(P, 1 + 1)
        BY <1>4, <3>5
      <4>2. QED
        BY <4>1 DEF good, first1
    <3>7. QED
      BY <2>3, <2>4, <3>6
  <2>5. CASE n # 1
    <3> DEFINE m == n - 1
    <3>1. m \in 1..N /\ m \in 1..(N + 1) /\ m \in Nat /\ m + 1 = n /\ m < n /\ n + 1 \in Nat
      BY <1>1, <2>3, <2>5
    <3>2. good(m)
      <4>1. m \notin bad
        BY <2>2, <3>1
      <4> HIDE DEF m
      <4>2. QED
        BY <3>1, <4>1
    <3> HIDE DEF m
    <3>3. /\ Count(P2, m + 1) = Count(P2, m) + One(m \in P2) /\ Count(P2, m) \in Nat
          /\ Count(P, n + 1) = Count(P, n) + One(n \in P) /\ Count(P, n) \in Nat
      BY <2>3, <3>1, CountStep
    <3>4. m \in P2 <=> n \in P
      BY <1>3, <3>1
    <3>5. One(m \in P2) = One(n \in P) /\ One(n \in P) \in Nat
      BY <3>4 DEF One
    <3>6. Count(P2, m) + first1 = Count(P, n)
      BY <3>1, <3>2 DEF good
    <3>7. Count(P2, n) + first1 = Count(P, n + 1)
      <4> HIDE DEF first1
      <4>1. QED
        BY <1>4, <3>1, <3>3, <3>5, <3>6
    <3>8. good(n)
      BY <3>7 DEF good
    <3>9. QED
      BY <2>3, <3>8
  <2>6. QED
    BY <2>4, <2>5
<1>6. Cardinality(P2) + first1 = Cardinality(P) /\ Cardinality(P2) \in Nat
  <2>1. Count(P2, N + 1) = Cardinality(P2) /\ Cardinality(P2) \in Nat
    <3>1. Count(P2, N + 1) = Cardinality(P2) /\ Cardinality(P2) \in 0..(N + 1)
      BY <1>1, <1>3, Total, Zenon
    <3>2. QED
      BY <1>1, <3>1
  <2>2. Count(P, (N + 1) + 1) = Cardinality(P)
    <3>1. N + 1 \in Nat
      BY <1>1
    <3>2. QED
      BY <1>2, <3>1, Total, Zenon
  <2>3. N + 1 \in 1..(N + 1)
    BY <1>1
  <2>4. QED
    BY <1>5, <2>1, <2>2, <2>3
<1>7. ASSUME NEW n \in P2
      PROVE  /\ Count(P2, n) + first1 = Count(P, n + 1)
             /\ Count(P2, n) \in Nat
             /\ Count(P, n + 1) + 1 \in 1..Len(o)
             /\ o[Count(P, n + 1) + 1] = s2[n]
  <2>1. n \in 1..N /\ n \in 1..(N + 1) /\ n \in Nat /\ n + 1 \in P
    BY <1>1, <1>3
  <2>2. QED
    BY <1>1, <1>2, <1>5, <2>1, CountStep
<1>8. CASE Head(s) \notin S
  <2>1. first1 = 0
    BY <1>4, <1>8
  <2> HIDE DEF first1
  <2>2. Len(o) = Cardinality(P2)
    BY <1>2, <1>6, <2>1
  <2>3. \A n \in P2 : o[Count(P2, n) + 1] = s2[n]
    BY <1>7, <2>1
  <2>4. o = Only(s2, S)
    BY <1>1, <1>2, <2>2, <2>3, OnlyEquals DEF P2
  <2>5. QED
    BY <1>8, <2>4 DEF o, s2
<1>9. CASE Head(s) \in S
  <2>1. first1 = 1 /\ 1 \in P
    BY <1>3, <1>4, <1>9
  <2> HIDE DEF first1
  <2>2. Len(o) = Cardinality(P2) + 1 /\ Len(o) > 0 /\ o # <<>>
    BY <1>2, <1>6, <2>1, EmptySeq
  <2>3. Head(o) = Head(s)
    <3>1. Count(P, 0 + 1) = Count(P, 0) + One(0 \in P) /\ Count(P, 0) = 0 /\ 0 \notin P
      BY <1>2, CountStep
    <3>2. Count(P, 1) = 0
      BY <3>1 DEF One
    <3>3. o[1] = s[1]
      BY <1>2, <2>1, <3>2
    <3>4. QED
      BY <1>1, <1>2, <2>2, <3>3
  <2> DEFINE t == Tail(o)
  <2>4. t \in Seq(S) /\ Len(t) = Cardinality(P2) /\ \A k \in 1..Len(t) : t[k] = o[k + 1]
    BY <1>2, <1>6, <2>2
  <2> HIDE DEF t
  <2>5. ASSUME NEW n \in P2 PROVE t[Count(P2, n) + 1] = s2[n]
    <3>1. Count(P2, n) + 1 \in 1..Len(t) /\ (Count(P2, n) + 1) + 1 = Count(P, n + 1) + 1
      BY <1>6, <1>7, <2>1, <2>2, <2>4
    <3>2. QED
      BY <1>7, <2>4, <3>1
  <2>6. t = Only(s2, S)
    BY <1>1, <2>4, <2>5, OnlyEquals DEF P2
  <2>7. QED
    BY <1>9, <2>2, <2>3, <2>6 DEF t, o, s2
<1>10. QED
  BY <1>8, <1>9

-----------------------------------------------------------------------------
(* The acknowledgement of a router is a parity: it turns with each of the  *)
(* acknowledgements it stands for.                                         *)
LEMMA ParityTurns ==
  ASSUME NEW acks, NEW acks2, NEW j \in Outs,
         acks[j] \in Bits, acks2[j] \in Bits,
         \A k \in Outs \ {j} : acks2[k] = acks[k]
  PROVE  /\ InAck(acks) \in Bits /\ InAck(acks2) \in Bits
         /\ acks2[j] = acks[j] => InAck(acks2) = InAck(acks)
         /\ acks2[j] # acks[j] => InAck(acks2) # InAck(acks)
<1> DEFINE high == {k \in Outs : acks[k] = 1}
           high2 == {k \in Outs : acks2[k] = 1}
           low == high \ {j}
<1>1. IsFiniteSet(Outs)
  <2>1. 0 \in Int /\ 3 \in Int
    OBVIOUS
  <2>2. IsFiniteSet(0..3)
    BY <2>1, FS_Interval
  <2>3. QED
    BY <2>2, OutsAssumption, FS_Subset
<1>2. low \subseteq Outs /\ IsFiniteSet(low) /\ Cardinality(low) \in Nat
  BY <1>1, FS_Subset, FS_CardinalityType
<1>3. /\ high = IF acks[j] = 1 THEN low \cup {j} ELSE low
      /\ high2 = IF acks2[j] = 1 THEN low \cup {j} ELSE low
      /\ j \notin low
  OBVIOUS
<1> DEFINE c == Cardinality(low)
<1>4. /\ Cardinality(high) = IF acks[j] = 1 THEN c + 1 ELSE c
      /\ Cardinality(high2) = IF acks2[j] = 1 THEN c + 1 ELSE c
  <2>1. Cardinality(low \cup {j}) = c + 1
    BY <1>2, <1>3, FS_AddElement
  <2>2. QED
    BY <1>3, <2>1
<1>5. InAck(acks) = Cardinality(high) % 2 /\ InAck(acks2) = Cardinality(high2) % 2
  BY DEF InAck
<1> HIDE DEF c, high, high2
<1>6. c \in Nat
  BY <1>2 DEF c
<1>7. c % 2 \in {0, 1} /\ (c + 1) % 2 \in {0, 1} /\ (c + 1) % 2 # c % 2
  BY <1>6
<1>8. acks[j] \in {0, 1} /\ acks2[j] \in {0, 1}
  BY DEF Bits
<1>9. QED
  BY <1>4, <1>5, <1>7, <1>8 DEF Bits

-----------------------------------------------------------------------------
(* The inductive invariant.                                                *)

T == Packets \cup {NoPacket}

Types ==
  /\ routers \in [Inputs -> [Outs -> Bits]]
  /\ first \in [Groups -> [Outs -> SwitchRegs(GroupSize, fifo_size_8x4, T)]]
  /\ last \in [Outs -> SwitchRegs(NbGroups, fifo_size_4x1, T)]
  /\ din \in [Inputs -> T] /\ in_req \in [Inputs -> Bits]
  /\ out_ack \in [Outs -> Bits]

(* A packet that waits is one of its input, and only the request that its  *)
(* address names can be unanswered: the parity the router acknowledges     *)
(* with then tells whether that one is.                                    *)
Handshake(x) ==
  /\ in_req[x] # in_ack(x) => din[x] \in PacketsOf(x)
  /\ \A j \in Outs : Forwarded(x, j) => j = Address(din[x]) /\ in_req[x] # in_ack(x)

(* The packets in the FIFOs are of the inputs before them.                 *)
GroupPackets(g) == UNION {PacketsOf(<<g, i>>) : i \in GroupPorts}

Origins ==
  /\ \A x \in Inputs, j \in Outs : Queued(x, j) \in Seq(PacketsOf(x))
  /\ \A g \in Groups, j \in Outs : Merged(g, j) \in Seq(GroupPackets(g))

IInv == Types /\ (\A x \in Inputs : Handshake(x)) /\ Origins

LEMMA InputIs ==
  ASSUME NEW x \in Inputs
  PROVE  /\ x[1] \in Groups /\ x[2] \in GroupPorts /\ x = <<x[1], x[2]>>
         /\ x[2] \in PortsOf(GroupSize) /\ x[1] \in PortsOf(NbGroups)
         /\ PacketsOf(x) \subseteq Packets
BY DEF Inputs, Groups, GroupPorts, PacketsOf

LEMMA WrAckBit ==
  ASSUME NEW n, NEW N \in Nat, NEW U, NEW s \in SwitchRegs(n, N, U), NEW i \in PortsOf(n)
  PROVE  WrAck(s, i) \in Bits
<1>1. s.fifo[i] \in FifoRegs(N, U) /\ s.rd_ack[i] \in Bits
  BY SwitchRegsIs
<1>2. NbStages(s.fifo[i]) = N /\ s.fifo[i].pred_ack \in [1..N -> Bits]
  BY <1>1, StagesIs
<1>3. 0 # N => 0 + 1 \in 1..N
  OBVIOUS
<1>4. QED
  BY <1>1, <1>2, <1>3 DEF WrAck, Ack

(* The types of the wires.                                                 *)
LEMMA WiresType ==
  ASSUME Types, NEW g \in Groups, NEW j \in Outs
  PROVE  /\ first[g][j] \in SwitchRegs(GroupSize, fifo_size_8x4, T)
         /\ last[j] \in SwitchRegs(NbGroups, fifo_size_4x1, T)
         /\ group_din(g) \in [PortsOf(GroupSize) -> T]
         /\ fifo_reqs(g, j) \in [PortsOf(GroupSize) -> Bits]
         /\ mid_acks(g, j) \in Bits
         /\ mid_entry(j) \in [PortsOf(NbGroups) -> T]
         /\ mid_reqs(j) \in [PortsOf(NbGroups) -> Bits]
         /\ \A i \in GroupPorts : WrAck(first[g][j], i) \in Bits
<1>1. /\ first[g][j] \in SwitchRegs(GroupSize, fifo_size_8x4, T)
      /\ last[j] \in SwitchRegs(NbGroups, fifo_size_4x1, T)
      /\ \A h \in Groups : first[h][j] \in SwitchRegs(GroupSize, fifo_size_8x4, T)
  BY DEF Types
<1>2. \A i \in GroupPorts : <<g, i>> \in Inputs
  BY DEF Inputs
<1>3. /\ group_din(g) \in [PortsOf(GroupSize) -> T]
      /\ fifo_reqs(g, j) \in [PortsOf(GroupSize) -> Bits]
  BY <1>2 DEF Types, group_din, fifo_reqs, GroupPorts
<1>4. mid_acks(g, j) \in Bits
  BY <1>1, WrAckBit, SizesAssumption DEF mid_acks, Groups
<1>5. \A h \in Groups : first[h][j].out0 \in T /\ first[h][j].out0_req \in Bits
  BY <1>1, SwitchRegsIs
<1>6. /\ mid_entry(j) \in [PortsOf(NbGroups) -> T]
      /\ mid_reqs(j) \in [PortsOf(NbGroups) -> Bits]
  BY <1>5 DEF mid_entry, mid_reqs, Groups
<1>7. \A i \in GroupPorts : WrAck(first[g][j], i) \in Bits
  BY <1>1, WrAckBit, SizesAssumption DEF GroupPorts
<1>8. QED
  BY <1>1, <1>3, <1>4, <1>6, <1>7

-----------------------------------------------------------------------------
(* An edge, seen from the parts.                                           *)

(* A generator toggles its request only when the last one was answered.    *)
LEMMA GenerateIs ==
  ASSUME Types, Generate
  PROVE  /\ in_req' \in [Inputs -> Bits] /\ din' \in [Inputs -> T]
         /\ \A x \in Inputs :
              IF in_req'[x] = in_req[x] THEN din'[x] = din[x]
              ELSE in_req[x] = in_ack(x) /\ din'[x] \in PacketsOf(x)
<1>1. PICK offers \in SUBSET {x \in Inputs : in_req[x] = in_ack(x)} :
        /\ in_req' = [x \in Inputs |-> IF x \in offers THEN 1 - in_req[x] ELSE in_req[x]]
        /\ \E offered \in [offers -> Packets] :
             /\ \A x \in offers : offered[x] \in PacketsOf(x)
             /\ din' = [x \in Inputs |-> IF x \in offers THEN offered[x] ELSE din[x]]
  BY Zenon DEF Generate
<1>2. PICK offered \in [offers -> Packets] :
        /\ \A x \in offers : offered[x] \in PacketsOf(x)
        /\ din' = [x \in Inputs |-> IF x \in offers THEN offered[x] ELSE din[x]]
  BY <1>1
<1>3. in_req \in [Inputs -> Bits] /\ din \in [Inputs -> T]
  BY DEF Types
<1>4. \A b \in Bits : 1 - b \in Bits /\ 1 - b # b
  BY DEF Bits
<1>5. in_req' \in [Inputs -> Bits]
  BY <1>1, <1>3, <1>4
<1>6. din' \in [Inputs -> T]
  BY <1>2, <1>3 DEF T
<1>7. ASSUME NEW x \in Inputs
      PROVE  IF in_req'[x] = in_req[x] THEN din'[x] = din[x]
             ELSE in_req[x] = in_ack(x) /\ din'[x] \in PacketsOf(x)
  <2>1. CASE x \in offers
    BY <1>1, <1>2, <1>3, <1>4, <2>1
  <2>2. CASE x \notin offers
    BY <1>1, <1>2, <2>2
  <2>3. QED
    BY <2>1, <2>2
<1>8. QED
  BY <1>5, <1>6, <1>7

(* A router forwards the packet that waits, to the FIFO its address names. *)
LEMMA RouterIs ==
  ASSUME Types, NEW m8, NEW m4, NEW r8, NEW r4, Tick(m8, m4, r8, r4), NEW x \in Inputs,
         in_req[x] # in_ack(x) => Address(din[x]) \in Outs
  PROVE  /\ routers'[x] \in [Outs -> Bits]
         /\ \A j \in Outs :
              routers'[x][j] # routers[x][j]
                <=> in_req[x] # in_ack(x) /\ j = Address(din[x]) /\ ~Forwarded(x, j)
<1> DEFINE a == Address(din[x])
           acks == fifo_acks(x[1], x[2])
           can == CanForward(routers[x], din[x], in_req[x], acks)
<1>1. routers[x] \in [Outs -> Bits]
  BY DEF Types
<1>2. routers'[x] = IF can THEN [routers[x] EXCEPT ![a] = 1 - @] ELSE routers[x]
  BY DEF Tick, RouterTick
<1>3. can <=> in_req[x] # in_ack(x) /\ acks[a] = routers[x][a]
  BY DEF CanForward, in_ack
<1>4. a \in Outs => (acks[a] = routers[x][a] <=> ~Forwarded(x, a))
  BY DEF fifo_acks, Forwarded
<1>5. \A b \in Bits : 1 - b \in Bits /\ 1 - b # b
  BY DEF Bits
<1> HIDE DEF can, a, acks
<1>6. CASE can
  <2>1. a \in Outs /\ in_req[x] # in_ack(x) /\ ~Forwarded(x, a)
    BY <1>3, <1>4, <1>6 DEF a
  <2>2. routers'[x] = [routers[x] EXCEPT ![a] = 1 - @]
    BY <1>2, <1>6
  <2>3. \A j \in Outs : routers'[x][j] = IF j = a THEN 1 - routers[x][j] ELSE routers[x][j]
    BY <1>1, <2>2
  <2>4. routers'[x] \in [Outs -> Bits]
    BY <1>1, <1>5, <2>2
  <2>5. \A j \in Outs : routers'[x][j] # routers[x][j] <=> j = a
    BY <1>1, <1>5, <2>3
  <2>6. QED
    BY <2>1, <2>4, <2>5 DEF a
<1>7. CASE ~can
  <2>1. routers'[x] = routers[x]
    BY <1>2, <1>7
  <2>2. ~ (in_req[x] # in_ack(x) /\ ~Forwarded(x, a))
    BY <1>3, <1>4, <1>7 DEF a
  <2>3. QED
    BY <1>1, <2>1, <2>2 DEF a
<1>8. QED
  BY <1>6, <1>7

LEMMA InAckBit ==
  ASSUME NEW acks
  PROVE  InAck(acks) \in Bits
<1> DEFINE high == {k \in Outs : acks[k] = 1}
<1>1. IsFiniteSet(0..3)
  <2>1. 0 \in Int /\ 3 \in Int
    OBVIOUS
  <2>2. QED
    BY <2>1, FS_Interval
<1>2. high \subseteq 0..3
  BY OutsAssumption
<1> HIDE DEF high
<1>3. Cardinality(high) \in Nat
  BY <1>1, <1>2, FS_Subset, FS_CardinalityType
<1>4. Cardinality(high) % 2 \in {0, 1}
  BY <1>3
<1>5. QED
  BY <1>4 DEF InAck, high, Bits

(* A FIFO acknowledges what the router has forwarded, and nothing else.    *)
LEMMA FifoAck ==
  ASSUME Types, "lru" \notin UsedModes,
         NEW m8 \in UsedModes, NEW m4, NEW r8 \in GroupPorts, NEW r4, Tick(m8, m4, r8, r4),
         NEW x \in Inputs, NEW j \in Outs
  PROVE  /\ WrAck(first[x[1]][j], x[2]) \in Bits
         /\ WrAck(first'[x[1]][j], x[2]) \in Bits
         /\ WrAck(first'[x[1]][j], x[2]) # WrAck(first[x[1]][j], x[2]) => Forwarded(x, j)
         /\ LET s == first[x[1]][j]
            IN BusFull(s.fifo[x[2]], routers[x][j], s.rd_ack[x[2]], 0) <=> Forwarded(x, j)
<1> DEFINE g == x[1]
           i == x[2]
           s == first[g][j]
           s2 == first'[g][j]
           wr == fifo_reqs(g, j)
<1>1. g \in Groups /\ i \in GroupPorts /\ i \in PortsOf(GroupSize) /\ x = <<g, i>>
  BY InputIs
<1>2. s2 = SwitchTick(s, group_din(g), wr, mid_acks(g, j), m8, r8)
  BY <1>1 DEF Tick
<1>3. /\ s \in SwitchRegs(GroupSize, fifo_size_8x4, T)
      /\ group_din(g) \in [PortsOf(GroupSize) -> T]
      /\ wr \in [PortsOf(GroupSize) -> Bits]
      /\ mid_acks(g, j) \in Bits
  BY <1>1, WiresType
<1>4. m8 \in SwitchModes \ {"lru"} /\ r8 \in PortsOf(GroupSize)
  BY UsedModesAssumption DEF GroupPorts
<1>5. wr[i] = routers[x][j]
  BY <1>1 DEF fifo_reqs
<1> HIDE DEF s, s2, wr
<1>6. /\ WrAck(s, i) \in Bits /\ WrAck(s2, i) \in Bits
      /\ BusFull(s.fifo[i], wr[i], s.rd_ack[i], 0) <=> wr[i] # WrAck(s, i)
      /\ WrAck(s2, i) # WrAck(s, i) => WrAck(s, i) # wr[i]
  BY <1>1, <1>2, <1>3, <1>4, SwitchAck, SizesAssumption
<1>7. Forwarded(x, j) <=> routers[x][j] # WrAck(s, i)
  BY DEF Forwarded, s
<1>8. QED
  BY <1>5, <1>6, <1>7 DEF s, s2

(* The router's acknowledgement turns with the only one that can turn.     *)
LEMMA RouterAck ==
  ASSUME Types, "lru" \notin UsedModes,
         NEW m8 \in UsedModes, NEW m4, NEW r8 \in GroupPorts, NEW r4, Tick(m8, m4, r8, r4),
         NEW x \in Inputs
  PROVE  /\ (\A j \in Outs : ~Forwarded(x, j)) => in_ack(x)' = in_ack(x)
         /\ \A k \in Outs :
              (\A j \in Outs \ {k} : ~Forwarded(x, j)) =>
                (in_ack(x)' # in_ack(x)
                   <=> WrAck(first'[x[1]][k], x[2]) # WrAck(first[x[1]][k], x[2]))
<1> DEFINE acks == fifo_acks(x[1], x[2])
           acks2 == [j \in Outs |-> WrAck(first'[x[1]][j], x[2])]
<1>1. acks' = acks2
  BY DEF fifo_acks
<1>2. in_ack(x) = InAck(acks) /\ in_ack(x)' = InAck(acks2)
  BY <1>1 DEF in_ack
<1>3. \A j \in Outs : /\ acks[j] = WrAck(first[x[1]][j], x[2])
                      /\ acks2[j] = WrAck(first'[x[1]][j], x[2])
                      /\ acks[j] \in Bits /\ acks2[j] \in Bits
                      /\ acks2[j] # acks[j] => Forwarded(x, j)
  BY FifoAck DEF fifo_acks
<1>4. acks = [j \in Outs |-> acks[j]] /\ acks2 = [j \in Outs |-> acks2[j]]
  BY DEF fifo_acks
<1> HIDE DEF acks, acks2
<1>5. ASSUME \A j \in Outs : ~Forwarded(x, j) PROVE in_ack(x)' = in_ack(x)
  <2>1. \A j \in Outs : acks2[j] = acks[j]
    BY <1>3, <1>5
  <2>2. acks2 = acks
    BY <1>4, <2>1
  <2>3. QED
    BY <1>2, <2>2
<1>6. ASSUME NEW k \in Outs, \A j \in Outs \ {k} : ~Forwarded(x, j)
      PROVE  in_ack(x)' # in_ack(x)
               <=> WrAck(first'[x[1]][k], x[2]) # WrAck(first[x[1]][k], x[2])
  <2>1. \A j \in Outs \ {k} : acks2[j] = acks[j]
    BY <1>3, <1>6
  <2>2. /\ acks2[k] = acks[k] => InAck(acks2) = InAck(acks)
        /\ acks2[k] # acks[k] => InAck(acks2) # InAck(acks)
    BY <1>3, <2>1, ParityTurns
  <2>3. QED
    BY <1>2, <1>3, <2>2
<1>7. QED
  BY <1>5, <1>6

-----------------------------------------------------------------------------
(* An input at an edge: it offers a packet, its router forwards one, or    *)
(* what waits stays.                                                       *)
LEMMA InputStep ==
  ASSUME Types, "lru" \notin UsedModes,
         NEW m8 \in UsedModes, NEW m4, NEW r8 \in GroupPorts, NEW r4, Tick(m8, m4, r8, r4),
         NEW x \in Inputs, Handshake(x)
  PROVE  /\ Handshake(x)' /\ routers'[x] \in [Outs -> Bits]
         /\ \A j \in Outs :
              /\ Forwarded(x, j) => din'[x] = din[x] /\ routers'[x][j] = routers[x][j]
              /\ routers'[x][j] # routers[x][j] =>
                   /\ din'[x] = din[x] /\ din[x] \in PacketsOf(x)
                   /\ Waits(x, j) = <<din[x]>> /\ Waits(x, j)' = <<>>
              /\ routers'[x][j] = routers[x][j] =>
                   \/ Waits(x, j)' = Waits(x, j)
                   \/ /\ Waits(x, j) = <<>> /\ ~Forwarded(x, j)
                      /\ Waits(x, j)' = <<din'[x]>> /\ din'[x] \in PacketsOf(x)
<1> DEFINE a == Address(din[x])
           waiting == in_req[x] # in_ack(x)
           ack(j) == WrAck(first[x[1]][j], x[2])
           ack2(j) == WrAck(first'[x[1]][j], x[2])
<1>1. /\ Generate
      /\ in_req[x] \in Bits /\ in_ack(x) \in Bits /\ in_ack(x)' \in Bits
      /\ in_req' \in [Inputs -> Bits] /\ in_req'[x] \in Bits
  <2>1. Generate
    BY DEF Tick
  <2>2. in_req[x] \in Bits
    BY DEF Types
  <2>3. in_ack(x) \in Bits
    BY InAckBit DEF in_ack
  <2>4. in_ack(x)' \in Bits
    BY InAckBit DEF in_ack
  <2>5. in_req' \in [Inputs -> Bits]
    BY <2>1, GenerateIs
  <2>6. QED
    BY <2>1, <2>2, <2>3, <2>4, <2>5
<1>2. waiting => a \in Outs /\ din[x] \in PacketsOf(x)
  BY InputIs, AddressAssumption DEF Handshake
<1>3. /\ routers'[x] \in [Outs -> Bits] /\ routers[x] \in [Outs -> Bits]
      /\ \A j \in Outs : routers'[x][j] # routers[x][j]
                           <=> waiting /\ j = a /\ ~Forwarded(x, j)
  <2>1. routers[x] \in [Outs -> Bits]
    BY DEF Types
  <2>2. QED
    BY <1>2, <2>1, RouterIs
<1>4. \A j \in Outs : /\ ack(j) \in Bits /\ ack2(j) \in Bits
                      /\ ack2(j) # ack(j) => Forwarded(x, j)
                      /\ Forwarded(x, j) <=> routers[x][j] # ack(j)
                      /\ Forwarded(x, j)' <=> routers'[x][j] # ack2(j)
  BY FifoAck DEF Forwarded
<1>5. IF in_req'[x] = in_req[x] THEN din'[x] = din[x]
      ELSE ~waiting /\ din'[x] \in PacketsOf(x)
  BY <1>1, GenerateIs
<1>6. \A j \in Outs : Forwarded(x, j) => j = a /\ waiting
  BY DEF Handshake
<1>7. /\ \A j \in Outs : Waits(x, j) = IF waiting /\ a = j /\ ~Forwarded(x, j)
                                       THEN <<din[x]>> ELSE <<>>
      /\ \A j \in Outs : Waits(x, j)' = IF /\ in_req'[x] # in_ack(x)'
                                           /\ Address(din'[x]) = j /\ ~Forwarded(x, j)'
                                        THEN <<din'[x]>> ELSE <<>>
  BY DEF Waits
<1>8. Handshake(x)' <=> /\ in_req'[x] # in_ack(x)' => din'[x] \in PacketsOf(x)
                        /\ \A j \in Outs : Forwarded(x, j)' => /\ j = Address(din'[x])
                                                               /\ in_req'[x] # in_ack(x)'
  BY DEF Handshake, PacketsOf
<1>9. /\ (\A j \in Outs : ~Forwarded(x, j)) => in_ack(x)' = in_ack(x)
      /\ \A k \in Outs : (\A j \in Outs \ {k} : ~Forwarded(x, j)) =>
                           (in_ack(x)' # in_ack(x) <=> ack2(k) # ack(k))
  BY RouterAck
<1> HIDE DEF ack, ack2, a
<1>10. CASE ~waiting
  <2>1. in_ack(x)' = in_ack(x)
    BY <1>6, <1>9, <1>10
  <2>2. \A j \in Outs : ~Forwarded(x, j) /\ ~Forwarded(x, j)' /\ routers'[x][j] = routers[x][j]
    BY <1>3, <1>4, <1>6, <1>10
  <2>3. in_req'[x] # in_req[x] <=> in_req'[x] # in_ack(x)'
    BY <1>10, <2>1
  <2>4. Handshake(x)'
    BY <1>5, <1>8, <2>2, <2>3
  <2>5. \A j \in Outs : Waits(x, j) = <<>>
    BY <1>7, <1>10
  <2>6. \A j \in Outs : \/ Waits(x, j)' = <<>>
                        \/ Waits(x, j)' = <<din'[x]>> /\ din'[x] \in PacketsOf(x)
    BY <1>5, <1>7, <2>3
  <2>7. QED
    BY <1>3, <2>2, <2>4, <2>5, <2>6
<1>11. CASE waiting
  <2>0. PICK k \in Outs : k = a
    BY <1>2, <1>11
  <2>1. /\ in_req'[x] = in_req[x] /\ din'[x] = din[x]
        /\ k \in Outs /\ din[x] \in PacketsOf(x) /\ Address(din'[x]) = k
    BY <1>2, <1>5, <1>11, <2>0 DEF a
  <2>2. \A j \in Outs \ {k} : /\ ~Forwarded(x, j) /\ ~Forwarded(x, j)'
                              /\ routers'[x][j] = routers[x][j]
    BY <1>3, <1>4, <1>6, <2>0
  <2>3. \A j \in Outs \ {k} : Waits(x, j) = <<>> /\ Waits(x, j)' = <<>>
    BY <1>7, <2>0, <2>1
  <2>4. in_ack(x)' # in_ack(x) <=> ack2(k) # ack(k)
    BY <1>9, <2>1, <2>2
  <2>5. /\ routers'[x][k] \in Bits /\ routers[x][k] \in Bits
        /\ ack(k) \in Bits /\ ack2(k) \in Bits
    BY <1>3, <1>4, <2>1
  <2>6. CASE ~Forwarded(x, k)
    <3>1. routers'[x][k] # routers[x][k] /\ ack2(k) = ack(k) /\ routers[x][k] = ack(k)
      BY <1>3, <1>4, <1>11, <2>0, <2>1, <2>6
    <3>2. Forwarded(x, k)' /\ in_ack(x)' = in_ack(x)
      BY <1>4, <2>1, <2>4, <3>1
    <3>3. Waits(x, k) = <<din[x]>> /\ Waits(x, k)' = <<>>
      BY <1>7, <1>11, <2>0, <2>1, <2>6, <3>2
    <3>4. Handshake(x)'
      BY <1>8, <1>11, <2>1, <2>2, <3>2
    <3>5. \A j \in Outs : ~Forwarded(x, j)
      BY <2>2, <2>6
    <3>6. QED
      BY <1>3, <2>1, <2>2, <2>3, <3>1, <3>3, <3>4, <3>5
  <2>7. CASE Forwarded(x, k)
    <3>1. routers'[x][k] = routers[x][k] /\ routers[x][k] # ack(k)
      BY <1>3, <1>4, <2>1, <2>7
    <3>2. Waits(x, k) = <<>>
      BY <1>7, <2>1, <2>7
    <3>3. Handshake(x)' /\ Waits(x, k)' = <<>>
      <4>1. CASE ack2(k) = ack(k)
        <5>1. Forwarded(x, k)' /\ in_ack(x)' = in_ack(x)
          BY <1>4, <2>1, <2>4, <3>1, <4>1
        <5>2. QED
          BY <1>7, <1>8, <1>11, <2>1, <2>2, <5>1
      <4>2. CASE ack2(k) # ack(k)
        <5>1. ~Forwarded(x, k)'
          BY <1>4, <2>1, <2>5, <3>1, <4>2 DEF Bits
        <5>2. in_req'[x] = in_ack(x)'
          BY <1>1, <1>11, <2>1, <2>4, <4>2 DEF Bits
        <5>3. QED
          BY <1>7, <1>8, <2>1, <2>2, <5>1, <5>2
      <4>3. QED
        BY <4>1, <4>2
    <3>4. \A j \in Outs : routers'[x][j] = routers[x][j] /\ Waits(x, j)' = Waits(x, j)
      BY <2>2, <2>3, <3>1, <3>2, <3>3
    <3>5. QED
      BY <1>3, <2>1, <3>3, <3>4
  <2>8. QED
    BY <2>6, <2>7
<1>12. QED
  BY <1>10, <1>11

-----------------------------------------------------------------------------
(* The three queues of a flow as one.                                      *)

(* What a queue keeps of its packets when it gives one, or none.           *)
Rest(q, gives) == IF gives THEN Tail(q) ELSE q

LEMMA TailConcat ==
  ASSUME NEW U, NEW s \in Seq(U), NEW t \in Seq(U), s # <<>>
  PROVE  /\ s \o t # <<>> /\ Head(s \o t) = Head(s)
         /\ Tail(s \o t) = Tail(s) \o t
         /\ <<Head(s)>> \o Tail(s) = s
<1>1. Len(s) \in Nat /\ Len(t) \in Nat /\ Len(s) > 0 /\ Head(s) = s[1]
  BY EmptySeq, LenProperties
<1>2. /\ s \o t \in Seq(U) /\ Len(s \o t) = Len(s) + Len(t)
      /\ \A k \in 1..(Len(s) + Len(t)) :
           (s \o t)[k] = IF k <= Len(s) THEN s[k] ELSE t[k - Len(s)]
  BY ConcatProperties
<1>3. /\ Tail(s) \in Seq(U) /\ Len(Tail(s)) = Len(s) - 1
      /\ \A k \in 1..(Len(s) - 1) : Tail(s)[k] = s[k + 1]
      /\ Head(s) \in U
  BY HeadTailProperties
<1>4. s \o t # <<>> /\ Head(s \o t) = Head(s)
  <2>1. Len(s \o t) > 0 /\ (s \o t)[1] = s[1]
    BY <1>1, <1>2
  <2>2. s \o t # <<>>
    BY <1>2, <2>1, EmptySeq
  <2>3. Head(s \o t) = (s \o t)[1]
    BY <1>2, <2>2
  <2>4. QED
    BY <1>1, <2>1, <2>2, <2>3
<1>5. Tail(s \o t) = Tail(s) \o t
  <2> DEFINE l == Tail(s \o t)
             r == Tail(s) \o t
             n == Len(s) - 1 + Len(t)
  <2>1. /\ l \in Seq(U) /\ Len(l) = n
        /\ \A k \in 1..n : l[k] = (s \o t)[k + 1]
    BY <1>1, <1>2, <1>4, HeadTailProperties
  <2>2. /\ r \in Seq(U) /\ Len(r) = n
        /\ \A k \in 1..n : r[k] = IF k <= Len(s) - 1 THEN Tail(s)[k] ELSE t[k - (Len(s) - 1)]
    BY <1>3, ConcatProperties
  <2> HIDE DEF l, r
  <2>3. ASSUME NEW k \in 1..n PROVE l[k] = r[k]
    <3>1. k + 1 \in 1..(Len(s) + Len(t)) /\ (k + 1) - Len(s) = k - (Len(s) - 1)
          /\ (k + 1 <= Len(s) <=> k <= Len(s) - 1) /\ (k <= Len(s) - 1 => k \in 1..(Len(s) - 1))
      BY <1>1
    <3>2. QED
      BY <1>2, <1>3, <2>1, <2>2, <3>1
  <2>4. l = r
    BY <2>1, <2>2, <2>3, SeqEqual
  <2>5. QED
    BY <2>4 DEF l, r
<1>6. <<Head(s)>> \o Tail(s) = s
  <2> DEFINE h == <<Head(s)>>
             r == h \o Tail(s)
  <2>1. h \in Seq(U) /\ Len(h) = 1 /\ h[1] = s[1]
    BY <1>1, <1>3
  <2> HIDE DEF h
  <2> DEFINE u == Tail(s)
  <2>2. /\ r \in Seq(U) /\ Len(r) = 1 + (Len(s) - 1)
        /\ \A k \in 1..(1 + (Len(s) - 1)) : r[k] = IF k <= 1 THEN h[k] ELSE Tail(s)[k - 1]
    <3>1. u \in Seq(U) /\ Len(u) = Len(s) - 1
      BY <1>3
    <3> HIDE DEF u
    <3>2. /\ h \o u \in Seq(U) /\ Len(h \o u) = Len(h) + Len(u)
          /\ \A k \in 1..(Len(h) + Len(u)) :
               (h \o u)[k] = IF k <= Len(h) THEN h[k] ELSE u[k - Len(h)]
      BY <2>1, <3>1, ConcatProperties, Zenon
    <3>3. QED
      BY <2>1, <3>1, <3>2 DEF u
  <2> HIDE DEF r
  <2>3. Len(r) = Len(s)
    BY <1>1, <2>2
  <2>4. ASSUME NEW k \in 1..Len(s) PROVE r[k] = s[k]
    <3>1. k \in 1..(1 + (Len(s) - 1)) /\ (k # 1 => k - 1 \in 1..(Len(s) - 1) /\ (k - 1) + 1 = k)
      BY <1>1
    <3>2. CASE k = 1
      BY <2>1, <2>2, <3>1, <3>2
    <3>3. CASE k # 1
      <4>1. ~ (k <= 1)
        BY <3>3
      <4>2. r[k] = Tail(s)[k - 1]
        BY <2>2, <3>1, <4>1
      <4>3. QED
        BY <1>3, <3>1, <3>3, <4>2
    <3>4. QED
      BY <3>2, <3>3
  <2>5. r = s
    BY <2>2, <2>3, <2>4, SeqEqual
  <2>6. QED
    BY <2>5 DEF r, h
<1>7. QED
  BY <1>4, <1>5, <1>6

(* Concatenation as an operator that the provers need not look into.       *)
Joined(s, t) == s \o t

LEMMA JoinedType ==
  ASSUME NEW U, NEW s \in Seq(U), NEW t \in Seq(U)
  PROVE  Joined(s, t) \in Seq(U)
BY ConcatProperties DEF Joined

LEMMA JoinedAssociative ==
  ASSUME NEW U, NEW s \in Seq(U), NEW t \in Seq(U), NEW u \in Seq(U)
  PROVE  Joined(Joined(s, t), u) = Joined(s, Joined(t, u))
BY ConcatAssociative DEF Joined

LEMMA Regroup ==
  ASSUME NEW U, NEW a \in Seq(U), NEW d \in Seq(U), NEW r \in Seq(U),
         NEW c \in Seq(U), NEW e \in Seq(U)
  PROVE  Joined(Joined(a, d), Joined(r, Joined(c, e)))
           = Joined(Joined(Joined(a, Joined(d, r)), c), e)
<1>1. /\ Joined(c, e) \in Seq(U) /\ Joined(d, r) \in Seq(U)
      /\ Joined(r, Joined(c, e)) \in Seq(U) /\ Joined(a, Joined(d, r)) \in Seq(U)
  BY JoinedType
<1>2. Joined(Joined(a, d), Joined(r, Joined(c, e))) = Joined(a, Joined(d, Joined(r, Joined(c, e))))
  BY <1>1, JoinedAssociative
<1>3. Joined(d, Joined(r, Joined(c, e))) = Joined(Joined(d, r), Joined(c, e))
  BY <1>1, JoinedAssociative
<1>4. Joined(a, Joined(Joined(d, r), Joined(c, e))) = Joined(Joined(a, Joined(d, r)), Joined(c, e))
  BY <1>1, JoinedAssociative
<1>5. Joined(Joined(a, Joined(d, r)), Joined(c, e)) = Joined(Joined(Joined(a, Joined(d, r)), c), e)
  BY <1>1, JoinedAssociative
<1>6. QED
  BY <1>2, <1>3, <1>4, <1>5

(* A packet that goes from one of the queues to the one before it does not *)
(* change the flow.                                                        *)
FlowMoved(a, b, c, a2, b2, c2, e, giveA) ==
  /\ (a2 \o b2) \o c2 = Rest((a \o b) \o c, giveA) \o e
  /\ giveA => (a \o b) \o c # <<>> /\ Head((a \o b) \o c) = Head(a)

LEMMA FlowMoves ==
  ASSUME NEW U, NEW a \in Seq(U), NEW b \in Seq(U), NEW c \in Seq(U), NEW e \in Seq(U),
         NEW giveA \in BOOLEAN, NEW giveB \in BOOLEAN,
         giveA => a # <<>>, giveB => b # <<>>,
         NEW d, d = IF giveB THEN <<Head(b)>> ELSE <<>>,
         NEW a2, a2 = Joined(Rest(a, giveA), d),
         NEW b2 \in Seq(U), NEW c2 \in Seq(U),
         Joined(b2, c2) = Joined(Rest(b, giveB), Joined(c, e))
  PROVE  FlowMoved(a, b, c, a2, b2, c2, e, giveA)
<1> DEFINE ra == Rest(a, giveA)
           rb == Rest(b, giveB)
<1>1. d \in Seq(U) /\ ra \in Seq(U) /\ rb \in Seq(U) /\ d \o rb = b
  <2>1. CASE giveB
    <3>1. Head(b) \in U /\ Tail(b) \in Seq(U)
      BY <2>1, HeadTailProperties
    <3>2. <<Head(b)>> \o Tail(b) = b
      BY <2>1, TailConcat
    <3>3. ra \in Seq(U)
      BY HeadTailProperties DEF Rest
    <3>4. QED
      BY <2>1, <3>1, <3>2, <3>3 DEF Rest
  <2>2. CASE ~giveB
    <3>1. <<>> \o b = b
      BY ConcatEmptySeq
    <3>2. ra \in Seq(U)
      BY HeadTailProperties DEF Rest
    <3>3. QED
      BY <2>2, <3>1, <3>2 DEF Rest
  <2>3. QED
    BY <2>1, <2>2
<1>2. (ra \o b) \o c = Rest((a \o b) \o c, giveA)
      /\ (giveA => (a \o b) \o c # <<>> /\ Head((a \o b) \o c) = Head(a))
  <2>1. CASE giveA
    <3>1. /\ a \o b \in Seq(U) /\ a \o b # <<>> /\ Tail(a \o b) = Tail(a) \o b
          /\ Head(a \o b) = Head(a)
      BY <2>1, TailConcat, ConcatProperties
    <3>2. /\ (a \o b) \o c # <<>> /\ Tail((a \o b) \o c) = Tail(a \o b) \o c
          /\ Head((a \o b) \o c) = Head(a \o b)
      <4> DEFINE ab == a \o b
      <4>1. ab \in Seq(U) /\ ab # <<>>
        BY <3>1
      <4> HIDE DEF ab
      <4>2. ab \o c # <<>> /\ Tail(ab \o c) = Tail(ab) \o c /\ Head(ab \o c) = Head(ab)
        BY <4>1, TailConcat
      <4>3. QED
        BY <4>2 DEF ab
    <3>3. QED
      BY <2>1, <3>1, <3>2 DEF Rest
  <2>2. CASE ~giveA
    BY <2>2 DEF Rest
  <2>3. QED
    BY <2>1, <2>2
<1>3. a2 = ra \o d
  BY DEF Joined
<1>4. a2 \in Seq(U)
  <2>1. Joined(ra, d) \in Seq(U)
    BY <1>1, JoinedType
  <2>2. QED
    BY <1>3, <2>1 DEF Joined
<1>5. Joined(a2, Joined(b2, c2)) = Joined(Joined(a2, b2), c2)
  <2>1. \A s, t, u \in Seq(U) : Joined(Joined(s, t), u) = Joined(s, Joined(t, u))
    BY JoinedAssociative
  <2>2. QED
    BY <1>4, <2>1
<1>6. Joined(Joined(ra, d), Joined(rb, Joined(c, e)))
        = Joined(Joined(Joined(ra, Joined(d, rb)), c), e)
  <2> HIDE DEF ra, rb
  <2>1. /\ ra \in Seq(U) /\ d \in Seq(U) /\ rb \in Seq(U)
        /\ c \in Seq(U) /\ e \in Seq(U)
    BY <1>1
  <2>2. QED
    BY ONLY <2>1, Regroup
<1>7. /\ a2 = Joined(ra, d) /\ Joined(d, rb) = b
      /\ Joined(b2, c2) = Joined(rb, Joined(c, e))
  BY <1>1, <1>3 DEF Joined
<1>8. Joined(Joined(a2, b2), c2) = Joined(Joined(Joined(ra, b), c), e)
  <2> HIDE DEF ra, rb
  <2>1. QED
    BY <1>5, <1>6, <1>7
<1>9. (a2 \o b2) \o c2 = ((ra \o b) \o c) \o e
  BY <1>8 DEF Joined
<1>10. QED
  <2> HIDE DEF ra
  <2>1. QED
    BY <1>2, <1>9 DEF FlowMoved

(* A queue of elements of S becomes q2.                                    *)
Passes(q, q2, d, wr, rd, wr2, rd2, S) ==
  /\ rd2 # rd => q # <<>>
  /\ q \in Seq(S) /\ Rest(q, rd2 # rd) \in Seq(S) /\ q2 \in Seq(S)
  /\ q2 = Rest(q, rd2 # rd) \o (IF wr2 # wr THEN <<d>> ELSE <<>>)

(* What a queue does at an edge, in these terms.                           *)
LEMMA StepIs ==
  ASSUME NEW U, NEW N, NEW q \in Seq(U), NEW q2, NEW d,
         NEW wr, NEW rd, NEW wr2, NEW rd2, QueueStep(N, q, q2, d, wr, rd, wr2, rd2),
         wr2 # wr => d \in U
  PROVE  Passes(q, q2, d, wr, rd, wr2, rd2, U)
<1>1. rd2 # rd => q # <<>>
  BY DEF QueueStep
<1>2. Rest(q, rd2 # rd) \in Seq(U)
  BY <1>1, HeadTailProperties DEF Rest
<1>3. CASE wr2 # wr
  <2>1. q2 = Append(Rest(q, rd2 # rd), d)
    BY <1>3 DEF QueueStep, Rest
  <2>2. Append(Rest(q, rd2 # rd), d) = Rest(q, rd2 # rd) \o <<d>>
    BY <1>2, <1>3, AppendIsConcat
  <2>3. q2 \in Seq(U)
    BY <1>2, <1>3, <2>1, AppendProperties
  <2>4. QED
    BY <1>1, <1>2, <1>3, <2>1, <2>2, <2>3 DEF Passes
<1>4. CASE wr2 = wr
  <2>1. q2 = Rest(q, rd2 # rd)
    BY <1>4 DEF QueueStep, Rest
  <2>2. Rest(q, rd2 # rd) \o <<>> = Rest(q, rd2 # rd)
    BY <1>2, ConcatEmptySeq
  <2>3. q2 \in Seq(U)
    BY <1>2, <2>1
  <2>4. QED
    BY <1>1, <1>2, <1>4, <2>1, <2>2, <2>3 DEF Passes
<1>5. QED
  BY <1>3, <1>4

-----------------------------------------------------------------------------
(* The queues of the network at an edge.                                   *)

FirstGrant(g, j, mode, rnd) ==
  Granted(first[g][j], fifo_reqs(g, j), mid_acks(g, j), mode, rnd)

LastGrant(j, mode, rnd) ==
  Granted(last[j], mid_reqs(j), out_ack[j], mode, rnd)

(* Queue q of elements of S becomes q2: it gives its head, word, if port i *)
(* is granted, and takes d if its request toggles.                         *)
QueueMoves(q, q2, d, wr, wr2, i, granted, word, S) ==
  /\ i = granted => q # <<>> /\ Head(q) = word
  /\ Rest(q, i = granted) \in Seq(S) /\ q2 \in Seq(S)
  /\ q2 = Rest(q, i = granted) \o (IF wr2 # wr THEN <<d>> ELSE <<>>)

LEMMA QueuedStep ==
  ASSUME Types, "lru" \notin UsedModes,
         NEW m8 \in UsedModes, NEW m4, NEW r8 \in GroupPorts, NEW r4, Tick(m8, m4, r8, r4),
         NEW x \in Inputs, NEW j \in Outs,
         Handshake(x), Queued(x, j) \in Seq(PacketsOf(x)),
         NEW g8, g8 = FirstGrant(x[1], j, m8, r8)
  PROVE  /\ QueueMoves(Queued(x, j), Queued(x, j)', din'[x], routers[x][j], routers'[x][j],
                       x[2], g8, first'[x[1]][j].out0, PacketsOf(x))
         /\ ~Forwarded(x, j) => Len(Queued(x, j)) <= fifo_size_8x4
<1> DEFINE g == x[1]
           i == x[2]
           s == first[g][j]
           s2 == first'[g][j]
           din8 == group_din(g)
           wr == fifo_reqs(g, j)
           ack == mid_acks(g, j)
           d2 == din'[x]
           w2 == routers'[x][j]
           q == Queued(x, j)
           q2 == Queued(x, j)'
<1>1. g \in Groups /\ i \in GroupPorts /\ i \in PortsOf(GroupSize) /\ x = <<g, i>>
  BY InputIs
<1>2. s2 = SwitchTick(s, din8, wr, ack, m8, r8)
  BY <1>1 DEF Tick
<1>3. /\ s \in SwitchRegs(GroupSize, fifo_size_8x4, T)
      /\ din8 \in [PortsOf(GroupSize) -> T]
      /\ wr \in [PortsOf(GroupSize) -> Bits]
      /\ ack \in Bits
  BY <1>1, WiresType
<1>4. m8 \in SwitchModes \ {"lru"} /\ r8 \in PortsOf(GroupSize)
  BY UsedModesAssumption DEF GroupPorts
<1>5. wr[i] = routers[x][j] /\ din8[i] = din[x]
  BY <1>1 DEF fifo_reqs, group_din
<1>6. /\ d2 \in T /\ w2 \in Bits
      /\ Forwarded(x, j) => d2 = din8[i] /\ w2 = wr[i]
      /\ w2 # wr[i] => d2 \in PacketsOf(x)
  <2>1. routers'[x] \in [Outs -> Bits]
    BY InputStep
  <2>2. Generate
    BY DEF Tick
  <2>3. din' \in [Inputs -> T]
    BY <2>2, GenerateIs
  <2>4. /\ Forwarded(x, j) => d2 = din[x] /\ w2 = routers[x][j]
        /\ w2 # routers[x][j] => d2 = din[x] /\ din[x] \in PacketsOf(x)
    BY InputStep
  <2>5. QED
    BY <1>5, <2>1, <2>3, <2>4
<1>7. /\ q = Content(s.fifo[i], din8[i], wr[i], s.rd_ack[i])
      /\ q2 = Content(s2.fifo[i], d2, w2, s2.rd_ack[i])
  BY <1>5 DEF Queued
<1>8. BusFull(s.fifo[i], wr[i], s.rd_ack[i], 0) <=> Forwarded(x, j)
  BY <1>5, FifoAck
<1>9. g8 = Granted(s, wr, ack, m8, r8)
  BY DEF FirstGrant
<1>10. q \in Seq(PacketsOf(x))
  OBVIOUS
<1>11. s2.rd_ack[i] \in Bits /\ s.rd_ack[i] \in Bits /\ s.fifo[i] \in FifoRegs(fifo_size_8x4, T)
  <2> HIDE DEF s, s2, din8, wr, ack, i
  <2>1. s2 \in SwitchRegs(GroupSize, fifo_size_8x4, T)
    BY <1>2, <1>3, <1>4, SwitchTickIs, SizesAssumption
  <2>2. QED
    BY <1>1, <1>3, <2>1, SwitchRegsIs
<1> HIDE DEF s, s2, din8, wr, ack, d2, w2, q, q2, i
<1>12. PortStep(fifo_size_8x4, q, q2, d2, wr[i], s.rd_ack[i], w2, s2.rd_ack[i], i, g8, s2.out0)
  <2>1. /\ w2 # wr[i] => ~BusFull(s.fifo[i], wr[i], s.rd_ack[i], 0)
        /\ w2 = wr[i] /\ BusFull(s.fifo[i], wr[i], s.rd_ack[i], 0) => d2 = din8[i]
    BY <1>6, <1>8
  <2>2. GroupSize \in Nat \ {0} /\ fifo_size_8x4 \in Nat
    BY SizesAssumption
  <2>3. d2 \in T /\ w2 \in Bits
    BY <1>6
  <2>4. QED
    BY <1>1, <1>2, <1>3, <1>4, <1>7, <1>9, <2>1, <2>2, <2>3, SwitchPort, Zenon
<1>13. QueueMoves(q, q2, d2, wr[i], w2, i, g8, s2.out0, PacketsOf(x))
  <2>1. Passes(q, q2, d2, wr[i], s.rd_ack[i], w2, s2.rd_ack[i], PacketsOf(x))
    <3>1. QueueStep(fifo_size_8x4, q, q2, d2, wr[i], s.rd_ack[i], w2, s2.rd_ack[i])
      BY <1>12 DEF PortStep
    <3>2. w2 # wr[i] => d2 \in PacketsOf(x)
      BY <1>6
    <3>3. QED
      BY <1>10, <3>1, <3>2, StepIs, Zenon
  <2>2. (s2.rd_ack[i] # s.rd_ack[i]) = (i = g8)
    BY <1>12 DEF PortStep
  <2>3. QED
    BY <1>12, <2>1, <2>2 DEF Passes, PortStep, QueueMoves
<1>14. ASSUME ~Forwarded(x, j) PROVE Len(q) <= fifo_size_8x4
  <2>1. ~BusFull(s.fifo[i], wr[i], s.rd_ack[i], 0)
    BY <1>8, <1>14
  <2>2. din8[i] \in T /\ wr[i] \in Bits
    BY <1>1, <1>3
  <2>3. ~BusFull(s.fifo[i], wr[i], s.rd_ack[i], 0) =>
          Len(Content(s.fifo[i], din8[i], wr[i], s.rd_ack[i])) <= fifo_size_8x4
    BY <1>11, <2>2, ContentType, SizesAssumption
  <2>4. QED
    BY <1>7, <2>1, <2>3
<1>15. QED
  BY <1>5, <1>13, <1>14 DEF s2, d2, w2, q, q2, i

(* The packets of input k of group g are those of no other input of it.    *)
LEMMA OwnPackets ==
  ASSUME NEW g \in Groups, NEW i \in GroupPorts, NEW k \in GroupPorts,
         NEW p \in PacketsOf(<<g, i>>), p \in PacketsOf(<<g, k>>)
  PROVE  i = k
<1>1. Id[<<g, i>>] = Id[<<g, k>>]
  BY DEF PacketsOf
<1>2. <<g, i>> \in Inputs /\ <<g, k>> \in Inputs
  BY DEF Inputs
<1>3. <<g, i>> = <<g, k>>
  BY <1>1, <1>2, IdAssumption
<1>4. QED
  BY <1>3

(* The first switch of group g and output j at an edge.                    *)
LEMMA FirstOutput ==
  ASSUME IInv, "lru" \notin UsedModes,
         NEW m8 \in UsedModes, NEW m4, NEW r8 \in GroupPorts, NEW r4, Tick(m8, m4, r8, r4),
         NEW g \in Groups, NEW j \in Outs,
         NEW g8, g8 = FirstGrant(g, j, m8, r8)
  PROVE  /\ g8 \in GroupPorts \cup {NoPort}
         /\ first'[g][j].out0 \in T /\ first'[g][j].out0_req \in Bits
         /\ first'[g][j].out0_req # first[g][j].out0_req <=> g8 # NoPort
         /\ g8 = NoPort => first'[g][j].out0 = first[g][j].out0
         /\ g8 # NoPort => /\ first[g][j].out0_req = mid_acks(g, j)
                           /\ first'[g][j].out0 \in PacketsOf(<<g, g8>>)
<1> DEFINE s == first[g][j]
           s2 == first'[g][j]
           din8 == group_din(g)
           wr == fifo_reqs(g, j)
           ack == mid_acks(g, j)
<1>1. s2 = SwitchTick(s, din8, wr, ack, m8, r8)
  BY DEF Tick
<1>2. /\ s \in SwitchRegs(GroupSize, fifo_size_8x4, T)
      /\ din8 \in [PortsOf(GroupSize) -> T]
      /\ wr \in [PortsOf(GroupSize) -> Bits]
      /\ ack \in Bits
  BY WiresType DEF IInv
<1>3. m8 \in SwitchModes /\ r8 \in PortsOf(GroupSize)
  BY UsedModesAssumption DEF GroupPorts
<1>4. g8 = Granted(s, wr, ack, m8, r8)
  BY DEF FirstGrant
<1>5. ASSUME g8 \in GroupPorts PROVE s2.out0 \in PacketsOf(<<g, g8>>)
  <2> DEFINE x == <<g, g8>>
  <2>1. x \in Inputs /\ x[1] = g /\ x[2] = g8
    BY <1>5 DEF Inputs
  <2> HIDE DEF x
  <2>2. Handshake(x) /\ Queued(x, j) \in Seq(PacketsOf(x)) /\ Types
    BY <2>1 DEF IInv, Origins
  <2>3. g8 = FirstGrant(x[1], j, m8, r8)
    BY <2>1
  <2>4. QueueMoves(Queued(x, j), Queued(x, j)', din'[x], routers[x][j], routers'[x][j],
                   x[2], g8, first'[x[1]][j].out0, PacketsOf(x))
    BY <2>1, <2>2, <2>3, QueuedStep, Zenon
  <2>5. Queued(x, j) # <<>> /\ Head(Queued(x, j)) = s2.out0
    BY <2>1, <2>4 DEF QueueMoves
  <2>6. Head(Queued(x, j)) \in PacketsOf(x)
    <3> DEFINE q == Queued(x, j)
    <3>1. q \in Seq(PacketsOf(x)) /\ q # <<>>
      BY <2>2, <2>5
    <3> HIDE DEF q
    <3>2. Head(q) \in PacketsOf(x)
      BY <3>1
    <3>3. QED
      BY <3>2 DEF q
  <2>7. QED
    BY <2>5, <2>6 DEF x
<1> HIDE DEF s, s2, din8, wr, ack
<1>6. GroupSize \in Nat \ {0} /\ fifo_size_8x4 \in Nat
  BY SizesAssumption
<1>7. /\ g8 \in PortsOf(GroupSize) \cup {NoPort}
      /\ s2.out0_req # s.out0_req <=> g8 # NoPort
      /\ g8 # NoPort => s.out0_req = ack
      /\ g8 = NoPort => s2.out0 = s.out0
  BY <1>1, <1>2, <1>3, <1>4, <1>6, SwitchOutput
<1>8. s2 \in SwitchRegs(GroupSize, fifo_size_8x4, T)
  BY <1>1, <1>2, <1>3, <1>6, SwitchTickIs
<1>9. s2.out0 \in T /\ s2.out0_req \in Bits
  BY <1>8, SwitchRegsIs
<1>10. QED
  BY <1>5, <1>7, <1>9 DEF s, s2, ack, GroupPorts

LEMMA MergedStep ==
  ASSUME IInv, "lru" \notin UsedModes,
         NEW m8 \in UsedModes, NEW m4 \in UsedModes, NEW r8 \in GroupPorts, NEW r4 \in Groups,
         Tick(m8, m4, r8, r4),
         NEW g \in Groups, NEW j \in Outs,
         NEW g8, g8 = FirstGrant(g, j, m8, r8),
         NEW g4, g4 = LastGrant(j, m4, r4)
  PROVE  /\ QueueMoves(Merged(g, j), Merged(g, j)', first'[g][j].out0, NoPort, g8,
                       g, g4, last'[j].out0, GroupPackets(g))
         /\ Len(Merged(g, j)) <= fifo_size_4x1 + 1
<1> DEFINE s == last[j]
           s2 == last'[j]
           din4 == mid_entry(j)
           wr == mid_reqs(j)
           ack == out_ack[j]
           d2 == first'[g][j].out0
           w2 == first'[g][j].out0_req
           q == Merged(g, j)
           q2 == Merged(g, j)'
           S == GroupPackets(g)
<1>1. s2 = SwitchTick(s, din4, wr, ack, m4, r4)
  BY DEF Tick
<1>2. /\ s \in SwitchRegs(NbGroups, fifo_size_4x1, T)
      /\ din4 \in [PortsOf(NbGroups) -> T]
      /\ wr \in [PortsOf(NbGroups) -> Bits]
      /\ ack \in Bits
  <2>1. ack \in Bits
    BY DEF IInv, Types
  <2>2. QED
    BY <2>1, WiresType DEF IInv
<1>3. m4 \in SwitchModes \ {"lru"} /\ r4 \in PortsOf(NbGroups) /\ g \in PortsOf(NbGroups)
  BY UsedModesAssumption DEF Groups
<1>4. g4 = Granted(s, wr, ack, m4, r4)
  BY DEF LastGrant
<1>5. /\ wr[g] = first[g][j].out0_req /\ din4[g] = first[g][j].out0
      /\ mid_acks(g, j) = WrAck(s, g)
  BY DEF mid_reqs, mid_entry, mid_acks
<1>6. /\ g8 \in GroupPorts \cup {NoPort}
      /\ d2 \in T /\ w2 \in Bits
      /\ w2 # wr[g] <=> g8 # NoPort
      /\ g8 = NoPort => d2 = din4[g]
      /\ g8 # NoPort => wr[g] = WrAck(s, g) /\ d2 \in PacketsOf(<<g, g8>>)
  BY <1>5, FirstOutput
<1>7. g8 # NoPort => d2 \in S
  BY <1>6 DEF GroupPackets
<1>8. /\ q = Content(s.fifo[g], din4[g], wr[g], s.rd_ack[g])
      /\ q2 = Content(s2.fifo[g], d2, w2, s2.rd_ack[g])
  BY <1>5 DEF Merged
<1>9. q \in Seq(S)
  BY DEF IInv, Origins
<1> HIDE DEF s, s2, din4, wr, ack, d2, w2, q, q2, S
<1>10. NbGroups \in Nat \ {0} /\ fifo_size_4x1 \in Nat
  BY SizesAssumption
<1>11. BusFull(s.fifo[g], wr[g], s.rd_ack[g], 0) <=> wr[g] # WrAck(s, g)
  BY <1>1, <1>2, <1>3, <1>10, SwitchAck
<1>12. /\ w2 # wr[g] => ~BusFull(s.fifo[g], wr[g], s.rd_ack[g], 0)
       /\ w2 = wr[g] /\ BusFull(s.fifo[g], wr[g], s.rd_ack[g], 0) => d2 = din4[g]
  BY <1>6, <1>11
<1>13. PortStep(fifo_size_4x1, q, q2, d2, wr[g], s.rd_ack[g], w2, s2.rd_ack[g], g, g4, s2.out0)
  <2>1. d2 \in T /\ w2 \in Bits
    BY <1>6
  <2>2. QED
    BY <1>1, <1>2, <1>3, <1>4, <1>8, <1>10, <1>12, <2>1, SwitchPort, Zenon
<1>14. Passes(q, q2, d2, wr[g], s.rd_ack[g], w2, s2.rd_ack[g], S)
  <2>1. QueueStep(fifo_size_4x1, q, q2, d2, wr[g], s.rd_ack[g], w2, s2.rd_ack[g])
    BY <1>13 DEF PortStep
  <2>2. w2 # wr[g] => d2 \in S
    BY <1>6, <1>7
  <2>3. QED
    BY <1>9, <2>1, <2>2, StepIs, Zenon
<1>15. QueueMoves(q, q2, d2, NoPort, g8, g, g4, s2.out0, S)
  <2>1. (s2.rd_ack[g] # s.rd_ack[g]) = (g = g4) /\ (w2 # wr[g]) = (g8 # NoPort)
    BY <1>6, <1>13 DEF PortStep
  <2>2. QED
    BY <1>13, <1>14, <2>1 DEF Passes, PortStep, QueueMoves
<1>16. Len(q) <= fifo_size_4x1 + 1
  <2>1. s.fifo[g] \in FifoRegs(fifo_size_4x1, T) /\ s.rd_ack[g] \in Bits
    BY <1>2, <1>3, SwitchRegsIs
  <2>2. din4[g] \in T /\ wr[g] \in Bits
    BY <1>2, <1>3
  <2>3. Len(Content(s.fifo[g], din4[g], wr[g], s.rd_ack[g])) <= fifo_size_4x1 + 1
    BY <1>10, <2>1, <2>2, ContentType
  <2>4. QED
    BY <1>8, <2>3
<1>17. QED
  BY <1>15, <1>16 DEF s2, d2, q, q2, S

(* Giving and taking, seen from the packets of one input.                  *)
LEMMA OnlyRest ==
  ASSUME NEW U, NEW q \in Seq(U), NEW gives \in BOOLEAN, gives => q # <<>>, NEW S,
         NEW served \in BOOLEAN, served <=> gives /\ Head(q) \in S
  PROVE  /\ Only(Rest(q, gives), S) = Rest(Only(q, S), served)
         /\ served => Only(q, S) # <<>> /\ Head(Only(q, S)) = Head(q)
<1>1. CASE gives
  <2>1. q # <<>> /\ Rest(q, gives) = Tail(q)
    BY <1>1 DEF Rest
  <2>2. IF Head(q) \in S
        THEN /\ Only(q, S) # <<>> /\ Head(Only(q, S)) = Head(q)
             /\ Only(Tail(q), S) = Tail(Only(q, S))
        ELSE Only(Tail(q), S) = Only(q, S)
    BY <2>1, OnlyTail
  <2>3. QED
    BY <1>1, <2>1, <2>2 DEF Rest
<1>2. CASE ~gives
  BY <1>2 DEF Rest
<1>3. QED
  BY <1>1, <1>2

(* The packets of input x that its group has merged.                       *)
LEMMA OnlyStep ==
  ASSUME IInv, "lru" \notin UsedModes,
         NEW m8 \in UsedModes, NEW m4 \in UsedModes, NEW r8 \in GroupPorts, NEW r4 \in Groups,
         Tick(m8, m4, r8, r4),
         NEW x \in Inputs, NEW j \in Outs,
         NEW g8, g8 = FirstGrant(x[1], j, m8, r8),
         NEW served \in BOOLEAN,
         served <=> x[1] = LastGrant(j, m4, r4) /\ Head(Merged(x[1], j)) \in PacketsOf(x)
  PROVE  LET q == Only(Merged(x[1], j), PacketsOf(x)) IN
         /\ q \in Seq(PacketsOf(x)) /\ Len(q) <= fifo_size_4x1 + 1
         /\ served => q # <<>> /\ Head(q) = last'[j].out0
         /\ Only(Merged(x[1], j)', PacketsOf(x))
              = Rest(q, served) \o (IF x[2] = g8 THEN <<first'[x[1]][j].out0>> ELSE <<>>)
<1> DEFINE g == x[1]
           P == PacketsOf(x)
           S == GroupPackets(g)
           m == Merged(g, j)
           m2 == Merged(g, j)'
           word == first'[g][j].out0
           q == Only(m, P)
<1>0. PICK g4 : g4 = LastGrant(j, m4, r4)
  OBVIOUS
<1>1. g \in Groups /\ x[2] \in GroupPorts /\ x = <<g, x[2]>> /\ x[2] # NoPort
  BY InputIs, PortNumbers, SizesAssumption DEF GroupPorts
<1>2. /\ QueueMoves(m, m2, word, NoPort, g8, g, g4, last'[j].out0, S)
      /\ Len(m) <= fifo_size_4x1 + 1
  BY <1>0, <1>1, MergedStep, Zenon
<1>3. m \in Seq(S)
  BY <1>1 DEF IInv, Origins
<1>4. /\ g8 \in GroupPorts \cup {NoPort}
      /\ g8 # NoPort => word \in PacketsOf(<<g, g8>>)
  BY <1>1, FirstOutput
<1>5. /\ g8 # NoPort => word \in S
      /\ g8 # NoPort /\ word \in P <=> x[2] = g8
  <2>1. ASSUME g8 # NoPort PROVE word \in S
    BY <1>4, <2>1 DEF GroupPackets
  <2>2. ASSUME g8 # NoPort, word \in P PROVE x[2] = g8
    BY <1>1, <1>4, <2>2, OwnPackets
  <2>3. ASSUME x[2] = g8 PROVE g8 # NoPort /\ word \in P
    BY <1>1, <1>4, <2>3
  <2>4. QED
    BY <2>1, <2>2, <2>3
<1> HIDE DEF m, m2, word, g, P, S
<1>6. q \in Seq(P) /\ Len(q) <= fifo_size_4x1 + 1
  <2>1. IsOnly(q, m, P, Places(m, P))
    BY <1>3, OnlyIs
  <2> HIDE DEF q
  <2>2. q \in Seq(P) /\ Len(q) <= Len(m) /\ Len(q) \in Nat /\ Len(m) \in Nat
    BY <2>1 DEF IsOnly
  <2>3. QED
    BY <1>2, <2>2, SizesAssumption
<1>7. /\ g = g4 => m # <<>> /\ Head(m) = last'[j].out0
      /\ Rest(m, g = g4) \in Seq(S)
      /\ m2 = Rest(m, g = g4) \o (IF g8 # NoPort THEN <<word>> ELSE <<>>)
  BY <1>2 DEF QueueMoves
<1>8. served <=> g = g4 /\ Head(m) \in P
  BY <1>0 DEF g, m, P
<1>9. /\ Only(Rest(m, g = g4), P) = Rest(q, served)
      /\ served => q # <<>> /\ Head(q) = last'[j].out0
  <2> DEFINE gives == (g = g4)
  <2>1. gives \in BOOLEAN /\ (gives => m # <<>> /\ Head(m) = last'[j].out0)
        /\ (served <=> gives /\ Head(m) \in P)
    BY <1>7, <1>8
  <2> HIDE DEF gives
  <2>2. /\ Only(Rest(m, gives), P) = Rest(q, served)
        /\ served => q # <<>> /\ Head(q) = Head(m)
    BY <1>3, <2>1, OnlyRest
  <2>3. QED
    BY <2>1, <2>2 DEF gives
<1>10. Only(m2, P) = Rest(q, served) \o (IF x[2] = g8 THEN <<word>> ELSE <<>>)
  <2> DEFINE r == Rest(m, g = g4)
             o == Rest(q, served)
  <2>1. r \in Seq(S) /\ m2 = r \o (IF g8 # NoPort THEN <<word>> ELSE <<>>)
    BY <1>7
  <2>2. Only(r, P) = o /\ o \in Seq(P)
    <3>1. served => q # <<>>
      BY <1>9
    <3> HIDE DEF q
    <3>2. o \in Seq(P)
      BY <1>6, <3>1, HeadTailProperties DEF Rest
    <3>3. QED
      BY <1>9, <3>2 DEF q
  <2> HIDE DEF r, q, o
  <2>3. r \o <<>> = r /\ o \o <<>> = o
    BY <2>1, <2>2, ConcatEmptySeq
  <2>4. CASE g8 = NoPort
    <3>1. m2 = r /\ x[2] # g8
      BY <1>1, <2>1, <2>3, <2>4
    <3>2. QED
      BY <2>2, <2>3, <3>1 DEF o
  <2>5. CASE g8 # NoPort
    <3>1. m2 = r \o <<word>> /\ word \in S
      BY <1>5, <2>1, <2>5
    <3>2. r \o <<word>> = Append(r, word)
      BY <2>1, <3>1, AppendIsConcat
    <3>3. Only(Append(r, word), P) = IF word \in P THEN Append(Only(r, P), word) ELSE Only(r, P)
      BY <2>1, <3>1, OnlyAppend
    <3>4. word \in P <=> x[2] = g8
      BY <1>5, <2>5
    <3>5. word \in P => Append(o, word) = o \o <<word>>
      BY <2>2, AppendIsConcat
    <3>6. QED
      BY <2>2, <2>3, <3>1, <3>2, <3>3, <3>4, <3>5 DEF o
  <2>6. QED
    BY <2>4, <2>5
<1>11. QED
  BY <1>6, <1>9, <1>10 DEF g, P, m, m2, word

(* The two queues before the last switch, as one: the packet that the      *)
(* router forwards stays in it.                                            *)
EntryMoves(b, c, b2, c2, i, g8, word, P, A) ==
  /\ b \in Seq(P) /\ c \in Seq(P) /\ b2 \in Seq(P) /\ c2 \in Seq(P)
  /\ i = g8 => b # <<>> /\ Head(b) = word
  /\ \E e \in Seq(P) :
       /\ b2 \o c2 = Rest(b, i = g8) \o (c \o e)
       /\ \/ e = <<>>
          \/ /\ \E p \in A : e = <<p>>
             /\ c = <<>> /\ Len(b) <= fifo_size_8x4

LEMMA EntryStep ==
  ASSUME IInv, "lru" \notin UsedModes,
         NEW m8 \in UsedModes, NEW m4, NEW r8 \in GroupPorts, NEW r4, Tick(m8, m4, r8, r4),
         NEW x \in Inputs, NEW j \in Outs,
         NEW g8, g8 = FirstGrant(x[1], j, m8, r8)
  PROVE  EntryMoves(Queued(x, j), Waits(x, j), Queued(x, j)', Waits(x, j)', x[2], g8,
                    first'[x[1]][j].out0, PacketsOf(x), PacketsFor(x, j))
<1> DEFINE b == Queued(x, j)
           c == Waits(x, j)
           b2 == Queued(x, j)'
           c2 == Waits(x, j)'
           P == PacketsOf(x)
           A == PacketsFor(x, j)
           r == Rest(b, x[2] = g8)
           word == first'[x[1]][j].out0
           toggles == (routers'[x][j] # routers[x][j])
<1>1. Types /\ Handshake(x) /\ b \in Seq(P)
  BY DEF IInv, Origins
<1>2. /\ QueueMoves(b, b2, din'[x], routers[x][j], routers'[x][j], x[2], g8, word, P)
      /\ ~Forwarded(x, j) => Len(b) <= fifo_size_8x4
  BY <1>1, QueuedStep, Zenon
<1>3. /\ toggles => /\ din'[x] = din[x] /\ din[x] \in P
                    /\ c = <<din[x]>> /\ c2 = <<>>
      /\ ~toggles => \/ c2 = c
                     \/ /\ c = <<>> /\ ~Forwarded(x, j)
                        /\ c2 = <<din'[x]>> /\ din'[x] \in A
  <2>1. /\ toggles => /\ din'[x] = din[x] /\ din[x] \in P
                      /\ c = <<din[x]>> /\ c2 = <<>>
        /\ ~toggles => \/ c2 = c
                       \/ /\ c = <<>> /\ ~Forwarded(x, j)
                          /\ c2 = <<din'[x]>> /\ din'[x] \in P
    BY <1>1, InputStep
  <2>2. c2 # <<>> => Address(din'[x]) = j
    BY DEF Waits
  <2>3. din'[x] \in P /\ c2 = <<din'[x]>> => din'[x] \in A
    BY <2>2 DEF PacketsFor
  <2>4. QED
    BY <2>1, <2>3
<1>4. c \in Seq(P)
  <2>1. in_req[x] # in_ack(x) => din[x] \in P
    BY <1>1 DEF Handshake
  <2>2. QED
    BY <2>1 DEF Waits
<1>5. /\ r \in Seq(P) /\ b2 \in Seq(P)
      /\ x[2] = g8 => b # <<>> /\ Head(b) = word
      /\ b2 = r \o (IF toggles THEN <<din'[x]>> ELSE <<>>)
  BY <1>2 DEF QueueMoves
<1>10. A \subseteq P
  BY DEF PacketsFor
<1> HIDE DEF b, c, b2, c2, P, A, r, word, toggles
<1>6. c2 \in Seq(P)
  <2>1. <<>> \in Seq(P) /\ \A p \in P : <<p>> \in Seq(P)
    OBVIOUS
  <2>2. CASE toggles
    BY <1>3, <2>1, <2>2
  <2>3. CASE ~toggles
    BY <1>3, <1>4, <1>10, <2>1, <2>3
  <2>4. QED
    BY <2>2, <2>3
<1>7. r \o <<>> = r /\ c \o <<>> = c /\ <<>> \in Seq(P)
  BY <1>4, <1>5, ConcatEmptySeq
<1>8. \E e \in Seq(P) :
        /\ b2 \o c2 = r \o (c \o e)
        /\ \/ e = <<>>
           \/ /\ \E p \in A : e = <<p>>
              /\ c = <<>> /\ Len(b) <= fifo_size_8x4
  <2>1. CASE toggles
    <3>1. b2 = r \o c /\ c2 = <<>>
      BY <1>2, <1>5, <1>3, <2>1
    <3>2. b2 \o <<>> = b2
      BY <1>2, <1>5, ConcatEmptySeq
    <3>3. QED
      BY <1>7, <3>1, <3>2
  <2>2. CASE ~toggles /\ c2 = c
    <3>1. b2 = r
      BY <1>2, <1>5, <1>7, <2>2
    <3>2. QED
      BY <1>7, <2>2, <3>1
  <2>3. CASE ~toggles /\ c2 # c
    <3>1. c = <<>> /\ ~Forwarded(x, j) /\ c2 = <<din'[x]>> /\ din'[x] \in A
      BY <1>3, <2>3
    <3>2. b2 = r /\ Len(b) <= fifo_size_8x4
      BY <1>2, <1>5, <1>7, <2>3, <3>1
    <3>3. <<>> \o c2 = c2
      BY <1>6, ConcatEmptySeq
    <3>4. WITNESS c2 \in Seq(P)
    <3>5. QED
      BY <3>1, <3>2, <3>3
  <2>4. QED
    BY <2>1, <2>2, <2>3
<1>9. QED
  <2>1. EntryMoves(b, c, b2, c2, x[2], g8, word, P, A)
    BY <1>1, <1>2, <1>4, <1>5, <1>6, <1>8 DEF r, EntryMoves
  <2>2. QED
    BY <2>1 DEF b, c, b2, c2, P, A, word

Capacity == fifo_size_8x4 + fifo_size_4x1 + 2

(* The flow from input x to output j at an edge.                           *)
LEMMA FlowStep ==
  ASSUME IInv, "lru" \notin UsedModes,
         NEW m8 \in UsedModes, NEW m4 \in UsedModes, NEW r8 \in GroupPorts, NEW r4 \in Groups,
         Tick(m8, m4, r8, r4),
         NEW x \in Inputs, NEW j \in Outs,
         NEW served \in BOOLEAN,
         served <=> x[1] = LastGrant(j, m4, r4) /\ Head(Merged(x[1], j)) \in PacketsOf(x)
  PROVE  /\ served => FlowOf(x, j) # <<>> /\ Head(FlowOf(x, j)) = last'[j].out0
         /\ \/ FlowOf(x, j)' = Rest(FlowOf(x, j), served)
            \/ /\ Len(FlowOf(x, j)) < Capacity
               /\ \E p \in PacketsFor(x, j) :
                    FlowOf(x, j)' = Append(Rest(FlowOf(x, j), served), p)
<1> DEFINE P == PacketsOf(x)
           A == PacketsFor(x, j)
           a == Only(Merged(x[1], j), P)
           b == Queued(x, j)
           c == Waits(x, j)
           a2 == Only(Merged(x[1], j)', P)
           b2 == Queued(x, j)'
           c2 == Waits(x, j)'
           word == first'[x[1]][j].out0
           f == FlowOf(x, j)
<1>1. PICK g8 : g8 = FirstGrant(x[1], j, m8, r8)
  OBVIOUS
<1> DEFINE gives == (x[2] = g8)
<1>2. /\ a \in Seq(P) /\ Len(a) <= fifo_size_4x1 + 1
      /\ served => a # <<>> /\ Head(a) = last'[j].out0
      /\ a2 = Rest(a, served) \o (IF gives THEN <<word>> ELSE <<>>)
  BY <1>1, OnlyStep
<1>3. /\ b \in Seq(P) /\ c \in Seq(P) /\ b2 \in Seq(P) /\ c2 \in Seq(P)
      /\ gives => b # <<>> /\ Head(b) = word
      /\ \E e \in Seq(P) :
           /\ b2 \o c2 = Rest(b, gives) \o (c \o e)
           /\ \/ e = <<>>
              \/ /\ \E p \in A : e = <<p>>
                 /\ c = <<>> /\ Len(b) <= fifo_size_8x4
  <2>1. EntryMoves(b, c, b2, c2, x[2], g8, word, P, A)
    BY <1>1, EntryStep
  <2> HIDE DEF b, c, b2, c2, P, A, word
  <2>2. QED
    BY <2>1 DEF EntryMoves
<1>4. f = (a \o b) \o c /\ FlowOf(x, j)' = (a2 \o b2) \o c2
  BY DEF FlowOf, PacketsOf
<1>5. gives \in BOOLEAN
  OBVIOUS
<1> HIDE DEF a, b, c, a2, b2, c2, P, A, gives, word
<1>6. PICK e \in Seq(P) :
        /\ b2 \o c2 = Rest(b, gives) \o (c \o e)
        /\ \/ e = <<>>
           \/ /\ \E p \in A : e = <<p>>
              /\ c = <<>> /\ Len(b) <= fifo_size_8x4
  BY <1>3
<1>7. a2 = Rest(a, served) \o (IF gives THEN <<Head(b)>> ELSE <<>>)
  BY <1>2, <1>3
<1>8. /\ FlowOf(x, j)' = Rest(f, served) \o e
      /\ served => f # <<>> /\ Head(f) = Head(a)
  <2> HIDE DEF f
  <2>1. /\ (a2 \o b2) \o c2 = Rest((a \o b) \o c, served) \o e
        /\ served => (a \o b) \o c # <<>> /\ Head((a \o b) \o c) = Head(a)
    <3> DEFINE d == IF gives THEN <<Head(b)>> ELSE <<>>
    <3>1. a2 = Joined(Rest(a, served), d) /\ Joined(b2, c2) = Joined(Rest(b, gives), Joined(c, e))
      BY <1>6, <1>7 DEF Joined
    <3>2. (served => a # <<>>) /\ (gives => b # <<>>)
      BY <1>2, <1>3
    <3>3. d = IF gives THEN <<Head(b)>> ELSE <<>>
      OBVIOUS
    <3> HIDE DEF d
    <3>4. FlowMoved(a, b, c, a2, b2, c2, e, served)
      BY <1>2, <1>3, <1>5, <3>1, <3>2, <3>3, FlowMoves, Zenon
    <3>5. QED
      BY <3>4 DEF FlowMoved
  <2>2. QED
    BY <1>4, <2>1
<1>9. f \in Seq(P) /\ Len(f) = Len(a) + Len(b) + Len(c)
  <2>1. a \o b \in Seq(P) /\ Len(a \o b) = Len(a) + Len(b)
    BY <1>2, <1>3, ConcatProperties
  <2>2. QED
    BY <1>3, <1>4, <2>1, ConcatProperties
<1> HIDE DEF f
<1>10. Rest(f, served) \in Seq(P)
  BY <1>8, <1>9, HeadTailProperties DEF Rest
<1>11. CASE e = <<>>
  <2>1. Rest(f, served) \o <<>> = Rest(f, served)
    BY <1>10, ConcatEmptySeq
  <2>2. QED
    BY <1>2, <1>8, <1>11, <2>1 DEF f
<1>12. CASE e # <<>>
  <2>1. PICK p \in A : e = <<p>>
    BY <1>6, <1>12
  <2>2. Append(Rest(f, served), p) = Rest(f, served) \o <<p>>
    <3>1. p \in P
      BY DEF A, P, PacketsFor
    <3>2. QED
      BY <1>10, <3>1, AppendIsConcat
  <2>3. Len(f) < Capacity
    <3>1. c = <<>> /\ Len(b) <= fifo_size_8x4 /\ Len(a) <= fifo_size_4x1 + 1
      BY <1>2, <1>6, <1>12
    <3>2. Len(c) = 0 /\ Len(a) \in Nat /\ Len(b) \in Nat
      BY <1>2, <1>3, <3>1
    <3>3. QED
      BY <1>9, <3>1, <3>2, SizesAssumption DEF Capacity
  <2>4. QED
    BY <1>2, <1>8, <2>1, <2>2, <2>3 DEF f, A
<1>13. QED
  BY <1>11, <1>12

-----------------------------------------------------------------------------
(* After the start and after a reset every request is answered, and every  *)
(* queue empty.                                                            *)
Quiet ==
  /\ \A x \in Inputs : in_req[x] = 0
  /\ \A x \in Inputs, j \in Outs : routers[x][j] = 0 /\ Queued(x, j) = <<>>
  /\ \A g \in Groups, j \in Outs : /\ Merged(g, j) = <<>>
                                   /\ \A i \in GroupPorts : WrAck(first[g][j], i) = 0
  /\ \A j \in Outs : last[j].out0_req = 0 /\ out_ack[j] = 0

LEMMA InAckLow ==
  ASSUME NEW acks, \A j \in Outs : acks[j] = 0
  PROVE  InAck(acks) = 0
<1>1. {k \in Outs : acks[k] = 1} = {}
  OBVIOUS
<1>2. Cardinality({}) % 2 = 0
  BY FS_EmptySet
<1>3. QED
  BY <1>1, <1>2 DEF InAck

LEMMA QuietIs ==
  Types /\ Quiet => IInv /\ \A x \in Inputs, j \in Outs : FlowOf(x, j) = <<>>
<1> SUFFICES ASSUME Types, Quiet
             PROVE  IInv /\ \A x \in Inputs, j \in Outs : FlowOf(x, j) = <<>>
  OBVIOUS
<1>1. ASSUME NEW x \in Inputs
      PROVE  in_req[x] = in_ack(x) /\ \A j \in Outs : ~Forwarded(x, j)
  <2>1. \A j \in Outs : WrAck(first[x[1]][j], x[2]) = 0
    BY InputIs DEF Quiet
  <2>2. \A j \in Outs : fifo_acks(x[1], x[2])[j] = 0
    BY <2>1 DEF fifo_acks
  <2>3. InAck(fifo_acks(x[1], x[2])) = 0
    BY <2>2, InAckLow, Zenon
  <2>4. QED
    BY <2>1, <2>3 DEF Quiet, in_ack, Forwarded
<1>2. \A x \in Inputs : Handshake(x)
  BY <1>1 DEF Handshake
<1>3. \A S : <<>> \in Seq(S)
  OBVIOUS
<1>4. Origins
  BY <1>3 DEF Quiet, Origins
<1>5. ASSUME NEW x \in Inputs, NEW j \in Outs PROVE FlowOf(x, j) = <<>>
  <2>1. Only(Merged(x[1], j), PacketsOf(x)) = <<>>
    <3>1. Merged(x[1], j) = <<>>
      BY InputIs DEF Quiet
    <3>2. QED
      BY <3>1, OnlyEmpty
  <2>2. Queued(x, j) = <<>> /\ Waits(x, j) = <<>>
    BY <1>1 DEF Quiet, Waits
  <2>3. <<>> \o <<>> = <<>>
    BY <1>3, ConcatEmptySeq
  <2>4. QED
    BY <2>1, <2>2, <2>3 DEF FlowOf
<1>6. QED
  BY <1>2, <1>4, <1>5 DEF IInv

LEMMA InitQuiet == Init => Types /\ Quiet
<1> SUFFICES ASSUME Init PROVE Types /\ Quiet
  OBVIOUS
<1>1. /\ NbGroups \in Nat \ {0} /\ GroupSize \in Nat \ {0}
      /\ fifo_size_8x4 \in Nat /\ fifo_size_4x1 \in Nat /\ NoPacket \in T
  BY SizesAssumption DEF T
<1>2. PICK s : s = InitSwitch(GroupSize, fifo_size_8x4, NoPacket)
  OBVIOUS
<1>3. /\ s \in SwitchRegs(GroupSize, fifo_size_8x4, T)
      /\ s.out0_req = 0 /\ s.out0 = NoPacket
      /\ \A i \in PortsOf(GroupSize) :
           s.fifo[i] = InitRegs(fifo_size_8x4, NoPacket) /\ s.rd_ack[i] = 0 /\ WrAck(s, i) = 0
  <2>1. s \in SwitchRegs(GroupSize, fifo_size_8x4, T) /\ SwitchIsReset(s, PortsOf(GroupSize), NoPacket)
    BY <1>1, <1>2, InitSwitchIs
  <2>2. \A i \in PortsOf(GroupSize) : s.fifo[i] = InitRegs(fifo_size_8x4, NoPacket)
    BY <1>2 DEF InitSwitch
  <2>3. QED
    BY <2>1, <2>2 DEF SwitchIsReset
<1>4. PICK t : t = InitSwitch(NbGroups, fifo_size_4x1, NoPacket)
  OBVIOUS
<1>5. /\ t \in SwitchRegs(NbGroups, fifo_size_4x1, T)
      /\ t.out0_req = 0
      /\ \A g \in PortsOf(NbGroups) :
           t.fifo[g] = InitRegs(fifo_size_4x1, NoPacket) /\ t.rd_ack[g] = 0
  <2>1. t \in SwitchRegs(NbGroups, fifo_size_4x1, T) /\ SwitchIsReset(t, PortsOf(NbGroups), NoPacket)
    BY <1>1, <1>4, InitSwitchIs
  <2>2. \A g \in PortsOf(NbGroups) : t.fifo[g] = InitRegs(fifo_size_4x1, NoPacket)
    BY <1>4 DEF InitSwitch
  <2>3. QED
    BY <2>1, <2>2 DEF SwitchIsReset
<1>6. /\ \A g \in Groups, j \in Outs : first[g][j] = s
      /\ \A j \in Outs : last[j] = t
      /\ first = [g \in Groups |-> [j \in Outs |-> s]]
      /\ last = [j \in Outs |-> t]
  BY <1>2, <1>4 DEF Init
<1>7. Types
  BY <1>1, <1>3, <1>5, <1>6 DEF Init, Types, Bits
<1>8. ASSUME NEW x \in Inputs, NEW j \in Outs PROVE Queued(x, j) = <<>>
  <2>1. first[x[1]][j] = s /\ x[2] \in PortsOf(GroupSize)
    BY <1>6, InputIs
  <2>2. Queued(x, j) = Content(InitRegs(fifo_size_8x4, NoPacket), NoPacket, 0, 0)
    BY <1>3, <2>1 DEF Queued, Init
  <2>3. QED
    BY <1>1, <2>2, FreshRegs
<1>9. ASSUME NEW g \in Groups, NEW j \in Outs PROVE Merged(g, j) = <<>>
  <2>1. g \in PortsOf(NbGroups)
    BY DEF Groups
  <2>2. Merged(g, j) = Content(InitRegs(fifo_size_4x1, NoPacket), NoPacket, 0, 0)
    BY <1>3, <1>5, <1>6, <2>1 DEF Merged
  <2>3. QED
    BY <1>1, <2>2, FreshRegs
<1>10. QED
  BY <1>3, <1>5, <1>6, <1>7, <1>8, <1>9 DEF Init, Quiet, GroupPorts

LEMMA ResetQuiet == Types /\ Reset => Types' /\ Quiet'
<1> SUFFICES ASSUME Types, Reset PROVE Types' /\ Quiet'
  OBVIOUS
<1>1. /\ NbGroups \in Nat \ {0} /\ GroupSize \in Nat \ {0}
      /\ fifo_size_8x4 \in Nat /\ fifo_size_4x1 \in Nat
  BY SizesAssumption
<1>2. ASSUME NEW g \in Groups, NEW j \in Outs
      PROVE  /\ first'[g][j] \in SwitchRegs(GroupSize, fifo_size_8x4, T)
             /\ first'[g][j].out0_req = 0
             /\ \A i \in PortsOf(GroupSize) :
                  /\ first'[g][j].rd_ack[i] = 0
                  /\ \A e : Content(first'[g][j].fifo[i], e, 0, 0) = <<>>
                  /\ WrAck(first'[g][j], i) = 0
  <2>1. first'[g][j] = ResetSwitch(first[g][j])
    BY DEF Reset
  <2>2. first[g][j] \in SwitchRegs(GroupSize, fifo_size_8x4, T)
    BY DEF Types
  <2>3. /\ first'[g][j] \in SwitchRegs(GroupSize, fifo_size_8x4, T)
        /\ SwitchIsReset(first'[g][j], PortsOf(GroupSize), first[g][j].out0)
        /\ FifosEmpty(first'[g][j].fifo, PortsOf(GroupSize))
    BY <1>1, <2>1, <2>2, ResetSwitchIs, Zenon
  <2>4. QED
    BY <2>3 DEF SwitchIsReset, FifosEmpty
<1>3. ASSUME NEW j \in Outs
      PROVE  /\ last'[j] \in SwitchRegs(NbGroups, fifo_size_4x1, T)
             /\ last'[j].out0_req = 0
             /\ \A g \in PortsOf(NbGroups) :
                  /\ last'[j].rd_ack[g] = 0
                  /\ \A e : Content(last'[j].fifo[g], e, 0, 0) = <<>>
  <2>1. last'[j] = ResetSwitch(last[j])
    BY DEF Reset
  <2>2. last[j] \in SwitchRegs(NbGroups, fifo_size_4x1, T)
    BY DEF Types
  <2>3. /\ last'[j] \in SwitchRegs(NbGroups, fifo_size_4x1, T)
        /\ SwitchIsReset(last'[j], PortsOf(NbGroups), last[j].out0)
        /\ FifosEmpty(last'[j].fifo, PortsOf(NbGroups))
    BY <1>1, <2>1, <2>2, ResetSwitchIs, Zenon
  <2>4. QED
    BY <2>3 DEF SwitchIsReset, FifosEmpty
<1>4. /\ first' \in [Groups -> [Outs -> SwitchRegs(GroupSize, fifo_size_8x4, T)]]
      /\ last' \in [Outs -> SwitchRegs(NbGroups, fifo_size_4x1, T)]
  <2>1. /\ first' = [g \in Groups |-> [j \in Outs |-> first'[g][j]]]
        /\ last' = [j \in Outs |-> last'[j]]
    BY DEF Reset
  <2>2. QED
    BY <1>2, <1>3, <2>1
<1>5. Types'
  BY <1>4 DEF Reset, Types, Bits
<1>6. ASSUME NEW x \in Inputs, NEW j \in Outs PROVE Queued(x, j)' = <<>>
  <2>1. x[1] \in Groups /\ x[2] \in PortsOf(GroupSize)
    BY InputIs
  <2>2. Queued(x, j)' = Content(first'[x[1]][j].fifo[x[2]], din'[x], 0, 0)
    BY <1>2, <2>1 DEF Queued, Reset
  <2>3. QED
    BY <1>2, <2>1, <2>2
<1>7. ASSUME NEW g \in Groups, NEW j \in Outs PROVE Merged(g, j)' = <<>>
  <2>1. g \in PortsOf(NbGroups)
    BY DEF Groups
  <2>2. Merged(g, j)' = Content(last'[j].fifo[g], first'[g][j].out0, 0, 0)
    BY <1>2, <1>3, <2>1 DEF Merged
  <2>3. QED
    BY <1>3, <2>1, <2>2
<1>8. QED
  BY <1>2, <1>3, <1>5, <1>6, <1>7 DEF Reset, Quiet, GroupPorts

-----------------------------------------------------------------------------
(* An edge keeps the invariant.                                            *)
LEMMA TickInvariant ==
  ASSUME IInv, "lru" \notin UsedModes,
         NEW m8 \in UsedModes, NEW m4 \in UsedModes, NEW r8 \in GroupPorts, NEW r4 \in Groups,
         Tick(m8, m4, r8, r4)
  PROVE  IInv'
<1>1. Types /\ \A x \in Inputs : Handshake(x)
  BY DEF IInv
<1>2. /\ NbGroups \in Nat \ {0} /\ GroupSize \in Nat \ {0}
      /\ fifo_size_8x4 \in Nat /\ fifo_size_4x1 \in Nat
  BY SizesAssumption
<1>3. ASSUME NEW x \in Inputs PROVE Handshake(x)' /\ routers'[x] \in [Outs -> Bits]
  BY <1>1, InputStep
<1>4. ASSUME NEW g \in Groups, NEW j \in Outs
      PROVE  first'[g][j] \in SwitchRegs(GroupSize, fifo_size_8x4, T)
  <2> DEFINE s == first[g][j]
             s2 == first'[g][j]
             din8 == group_din(g)
             wr == fifo_reqs(g, j)
             ack == mid_acks(g, j)
  <2>1. s2 = SwitchTick(s, din8, wr, ack, m8, r8)
    BY DEF Tick
  <2>2. /\ s \in SwitchRegs(GroupSize, fifo_size_8x4, T)
        /\ din8 \in [PortsOf(GroupSize) -> T]
        /\ wr \in [PortsOf(GroupSize) -> Bits]
        /\ ack \in Bits
    BY <1>1, WiresType
  <2>3. m8 \in SwitchModes /\ r8 \in PortsOf(GroupSize)
    BY UsedModesAssumption DEF GroupPorts
  <2> HIDE DEF s, s2, din8, wr, ack
  <2>4. s2 \in SwitchRegs(GroupSize, fifo_size_8x4, T)
    BY <1>2, <2>1, <2>2, <2>3, SwitchTickIs
  <2>5. QED
    BY <2>4 DEF s2
<1>5. ASSUME NEW j \in Outs
      PROVE  last'[j] \in SwitchRegs(NbGroups, fifo_size_4x1, T)
  <2> DEFINE s == last[j]
             s2 == last'[j]
             din4 == mid_entry(j)
             wr == mid_reqs(j)
             ack == out_ack[j]
  <2>1. s2 = SwitchTick(s, din4, wr, ack, m4, r4)
    BY DEF Tick
  <2>2. ack \in Bits
    BY <1>1 DEF Types
  <2>3. /\ s \in SwitchRegs(NbGroups, fifo_size_4x1, T)
        /\ din4 \in [PortsOf(NbGroups) -> T]
        /\ wr \in [PortsOf(NbGroups) -> Bits]
    <3>1. r4 \in Groups
      OBVIOUS
    <3>2. QED
      BY <1>1, <3>1, WiresType
  <2>4. m4 \in SwitchModes /\ r4 \in PortsOf(NbGroups)
    BY UsedModesAssumption DEF Groups
  <2> HIDE DEF s, s2, din4, wr, ack
  <2>5. s2 \in SwitchRegs(NbGroups, fifo_size_4x1, T)
    BY <1>2, <2>1, <2>2, <2>3, <2>4, SwitchTickIs
  <2>6. QED
    BY <2>5 DEF s2
<1>6. Types'
  <2>1. Generate /\ Accept
    BY DEF Tick
  <2>2. in_req' \in [Inputs -> Bits] /\ din' \in [Inputs -> T]
    BY <1>1, <2>1, GenerateIs
  <2>3. out_ack' \in [Outs -> Bits]
    BY <2>1 DEF Accept, Bits
  <2>4. routers' \in [Inputs -> [Outs -> Bits]]
    <3>1. routers' = [x \in Inputs |-> routers'[x]]
      BY DEF Tick
    <3>2. QED
      BY <1>3, <3>1
  <2>5. first' \in [Groups -> [Outs -> SwitchRegs(GroupSize, fifo_size_8x4, T)]]
    <3>1. first' = [g \in Groups |-> [j \in Outs |-> first'[g][j]]]
      BY DEF Tick
    <3>2. QED
      BY <1>4, <3>1
  <2>6. last' \in [Outs -> SwitchRegs(NbGroups, fifo_size_4x1, T)]
    <3>1. last' = [j \in Outs |-> last'[j]]
      BY DEF Tick
    <3>2. QED
      BY <1>5, <3>1
  <2>7. QED
    BY <2>2, <2>3, <2>4, <2>5, <2>6 DEF Types
<1>7. ASSUME NEW x \in Inputs, NEW j \in Outs PROVE Queued(x, j)' \in Seq(PacketsOf(x))
  <2>1. PICK g8 : g8 = FirstGrant(x[1], j, m8, r8)
    OBVIOUS
  <2>2. EntryMoves(Queued(x, j), Waits(x, j), Queued(x, j)', Waits(x, j)', x[2], g8,
                   first'[x[1]][j].out0, PacketsOf(x), PacketsFor(x, j))
    BY <2>1, EntryStep, Zenon
  <2>3. QED
    BY <2>2 DEF EntryMoves
<1>8. ASSUME NEW g \in Groups, NEW j \in Outs PROVE Merged(g, j)' \in Seq(GroupPackets(g))
  <2>1. PICK g8 : g8 = FirstGrant(g, j, m8, r8)
    OBVIOUS
  <2>2. PICK g4 : g4 = LastGrant(j, m4, r4)
    OBVIOUS
  <2>3. QueueMoves(Merged(g, j), Merged(g, j)', first'[g][j].out0, NoPort, g8,
                   g, g4, last'[j].out0, GroupPackets(g))
    BY <2>1, <2>2, MergedStep, Zenon
  <2>4. QED
    BY <2>3 DEF QueueMoves
<1>9. Origins'
  BY <1>7, <1>8 DEF Origins, PacketsOf, GroupPackets
<1>10. QED
  BY <1>3, <1>6, <1>9 DEF IInv

(* The output bus j at an edge.                                            *)
LEMMA LastOutput ==
  ASSUME IInv, NEW m8, NEW m4 \in UsedModes, NEW r8, NEW r4 \in Groups,
         Tick(m8, m4, r8, r4), NEW j \in Outs, NEW g4, g4 = LastGrant(j, m4, r4)
  PROVE  /\ g4 \in Groups \cup {NoPort}
         /\ g4 = NoPort =>
              /\ last'[j].out0 = last[j].out0
              /\ last'[j].out0_req # out_ack'[j] => last[j].out0_req # out_ack[j]
         /\ g4 # NoPort => /\ last[j].out0_req = out_ack[j]
                           /\ last'[j].out0_req # out_ack'[j]
<1> DEFINE s == last[j]
           s2 == last'[j]
           din4 == mid_entry(j)
           wr == mid_reqs(j)
           ack == out_ack[j]
<1>1. s2 = SwitchTick(s, din4, wr, ack, m4, r4)
  BY DEF Tick
<1>2. Types /\ ack \in Bits
  BY DEF IInv, Types
<1>3. /\ s \in SwitchRegs(NbGroups, fifo_size_4x1, T)
      /\ din4 \in [PortsOf(NbGroups) -> T]
      /\ wr \in [PortsOf(NbGroups) -> Bits]
  <2>1. r4 \in Groups
    OBVIOUS
  <2>2. QED
    BY <1>2, <2>1, WiresType
<1>4. m4 \in SwitchModes /\ r4 \in PortsOf(NbGroups)
  BY UsedModesAssumption DEF Groups
<1>5. g4 = Granted(s, wr, ack, m4, r4)
  BY DEF LastGrant
<1>6. out_ack'[j] \in {ack, s.out0_req}
  BY DEF Tick, Accept
<1>7. NbGroups \in Nat \ {0} /\ fifo_size_4x1 \in Nat
  BY SizesAssumption
<1> HIDE DEF s, s2, din4, wr, ack
<1>8. /\ g4 \in PortsOf(NbGroups) \cup {NoPort}
      /\ s2.out0_req # s.out0_req <=> g4 # NoPort
      /\ g4 # NoPort => s.out0_req = ack
      /\ g4 = NoPort => s2.out0 = s.out0
  BY <1>1, <1>2, <1>3, <1>4, <1>5, <1>7, SwitchOutput
<1>9. QED
  BY <1>6, <1>8 DEF s, s2, ack, Groups

(* The mapped state of the service.                                        *)
Flows == [j \in Outs |-> [x \in Inputs |-> FlowOf(x, j)]]

Shown == [j \in Outs |-> last[j].out0]

Full == [j \in Outs |-> last[j].out0_req # out_ack[j]]

(* The packet at the head of a last FIFO is of one input of its group.     *)
LEMMA MergedHead ==
  ASSUME IInv, NEW g \in Groups, NEW j \in Outs, Merged(g, j) # <<>>
  PROVE  \E i \in GroupPorts : /\ Head(Merged(g, j)) \in PacketsOf(<<g, i>>)
                               /\ \A k \in GroupPorts :
                                    Head(Merged(g, j)) \in PacketsOf(<<g, k>>) => k = i
<1> DEFINE m == Merged(g, j)
<1>1. m \in Seq(GroupPackets(g)) /\ m # <<>>
  BY DEF IInv, Origins
<1> HIDE DEF m
<1>2. Head(m) \in GroupPackets(g)
  BY <1>1
<1>3. PICK i \in GroupPorts : Head(m) \in PacketsOf(<<g, i>>)
  BY <1>2 DEF GroupPackets
<1>4. \A k \in GroupPorts : Head(m) \in PacketsOf(<<g, k>>) => k = i
  BY <1>3, OwnPackets
<1>5. QED
  BY <1>3, <1>4 DEF m

LEMMA TickServes ==
  ASSUME IInv, "lru" \notin UsedModes,
         NEW m8 \in UsedModes, NEW m4 \in UsedModes, NEW r8 \in GroupPorts, NEW r4 \in Groups,
         Tick(m8, m4, r8, r4)
  PROVE  Service!Edge
<1>1. /\ \A j \in Outs, x \in Inputs : Flows[j][x] = FlowOf(x, j) /\ Flows'[j][x] = FlowOf(x, j)'
      /\ \A j \in Outs : /\ Shown[j] = last[j].out0 /\ Shown'[j] = last'[j].out0
                         /\ Full[j] <=> last[j].out0_req # out_ack[j]
                         /\ Full'[j] <=> last'[j].out0_req # out_ack'[j]
  BY DEF Flows, Shown, Full
<1> SUFFICES ASSUME NEW j \in Outs
             PROVE  (\E x \in Inputs : Service!Serve(j, x)) \/ Service!NoServe(j)
  BY DEF Service!Edge
<1>2. PICK g4 : g4 = LastGrant(j, m4, r4)
  OBVIOUS
<1>3. /\ g4 \in Groups \cup {NoPort}
      /\ g4 = NoPort =>
           /\ last'[j].out0 = last[j].out0
           /\ last'[j].out0_req # out_ack'[j] => last[j].out0_req # out_ack[j]
      /\ g4 # NoPort => /\ last[j].out0_req = out_ack[j]
                        /\ last'[j].out0_req # out_ack'[j]
  BY <1>2, LastOutput
<1> DEFINE taken(x) == x[1] = g4 /\ Head(Merged(x[1], j)) \in PacketsOf(x)
<1>4. ASSUME NEW x \in Inputs
      PROVE  /\ taken(x) => /\ FlowOf(x, j) # <<>> /\ Head(FlowOf(x, j)) = last'[j].out0
                            /\ Service!Accepts(j, x, Tail(FlowOf(x, j)))
             /\ ~taken(x) => Service!Accepts(j, x, FlowOf(x, j))
  <2>1. PICK served \in BOOLEAN : served <=> taken(x)
    OBVIOUS
  <2>2. served <=> x[1] = LastGrant(j, m4, r4) /\ Head(Merged(x[1], j)) \in PacketsOf(x)
    BY <1>2, <2>1
  <2>3. /\ served => FlowOf(x, j) # <<>> /\ Head(FlowOf(x, j)) = last'[j].out0
        /\ \/ FlowOf(x, j)' = Rest(FlowOf(x, j), served)
           \/ /\ Len(FlowOf(x, j)) < Capacity
              /\ \E p \in PacketsFor(x, j) :
                   FlowOf(x, j)' = Append(Rest(FlowOf(x, j), served), p)
    BY <2>2, FlowStep
  <2>4. Service!Accepts(j, x, Rest(FlowOf(x, j), served))
    <3>1. CASE FlowOf(x, j)' = Rest(FlowOf(x, j), served)
      BY <1>1, <3>1 DEF Service!Accepts, Flows
    <3>2. CASE /\ Len(FlowOf(x, j)) < Capacity
               /\ \E p \in PacketsFor(x, j) :
                    FlowOf(x, j)' = Append(Rest(FlowOf(x, j), served), p)
      BY <1>1, <3>2 DEF Service!Accepts, Flows, Capacity
    <3>3. QED
      BY <2>3, <3>1, <3>2
  <2> HIDE DEF taken
  <2>5. QED
    BY <2>1, <2>3, <2>4 DEF Rest
<1>5. CASE g4 = NoPort
  <2>1. \A x \in Inputs : ~taken(x)
    BY <1>5, InputIs, PortNumbers, SizesAssumption DEF Groups
  <2>2. \A x \in Inputs : Service!Accepts(j, x, FlowOf(x, j))
    BY <1>4, <2>1
  <2>3. /\ last'[j].out0 = last[j].out0
        /\ last'[j].out0_req # out_ack'[j] => last[j].out0_req # out_ack[j]
    BY <1>3, <1>5
  <2>4. Service!NoServe(j)
    BY <1>1, <2>2, <2>3 DEF Service!NoServe, Flows, Shown, Full
  <2>5. QED
    BY <2>4
<1>6. CASE g4 # NoPort
  <2>1. g4 \in Groups
    BY <1>3, <1>6
  <2>2. Merged(g4, j) # <<>>
    <3>1. PICK g8 : g8 = FirstGrant(g4, j, m8, r8)
      OBVIOUS
    <3>2. QueueMoves(Merged(g4, j), Merged(g4, j)', first'[g4][j].out0, NoPort, g8,
                     g4, g4, last'[j].out0, GroupPackets(g4))
      BY <1>2, <2>1, <3>1, MergedStep, Zenon
    <3>3. QED
      BY <3>2 DEF QueueMoves
  <2>3. PICK i \in GroupPorts : /\ Head(Merged(g4, j)) \in PacketsOf(<<g4, i>>)
                                /\ \A k \in GroupPorts :
                                     Head(Merged(g4, j)) \in PacketsOf(<<g4, k>>) => k = i
    BY <2>1, <2>2, MergedHead
  <2> DEFINE x == <<g4, i>>
  <2>4. x \in Inputs /\ taken(x)
    BY <2>1, <2>3 DEF Inputs
  <2>5. \A y \in Inputs \ {x} : ~taken(y)
    <3>1. ASSUME NEW y \in Inputs, taken(y) PROVE y = x
      <4>1. y = <<g4, y[2]>> /\ y[2] \in GroupPorts
        BY <3>1, InputIs
      <4>2. y[2] = i
        BY <2>3, <3>1, <4>1
      <4>3. QED
        BY <4>1, <4>2
    <3>2. QED
      BY <3>1
  <2> HIDE DEF x, taken
  <2>6. /\ FlowOf(x, j) # <<>> /\ Head(FlowOf(x, j)) = last'[j].out0
        /\ Service!Accepts(j, x, Tail(FlowOf(x, j)))
        /\ \A y \in Inputs \ {x} : Service!Accepts(j, y, FlowOf(y, j))
    BY <1>4, <2>4, <2>5
  <2>7. last[j].out0_req = out_ack[j] /\ last'[j].out0_req # out_ack'[j]
    BY <1>3, <1>6
  <2>8. Service!Serve(j, x)
    BY <1>1, <2>4, <2>6, <2>7 DEF Service!Serve, Flows, Shown, Full
  <2>9. QED
    BY <2>4, <2>8
<1>7. QED
  BY <1>5, <1>6

LEMMA Invariance ==
  ASSUME "lru" \notin UsedModes
  PROVE  Spec => []IInv
<1>1. Init => IInv
  BY InitQuiet, QuietIs
<1>2. IInv /\ [Next]_vars => IInv'
  <2> SUFFICES ASSUME IInv, [Next]_vars PROVE IInv'
    OBVIOUS
  <2>1. CASE AnyTick
    BY <2>1, TickInvariant DEF AnyTick
  <2>2. CASE Reset
    <3>1. Types' /\ Quiet'
      BY <2>2, ResetQuiet DEF IInv
    <3>2. (Types /\ Quiet => IInv)'
      BY QuietIs, PTL
    <3>3. QED
      BY <3>1, <3>2
  <2>3. CASE UNCHANGED vars
    <3>1. Types'
      BY <2>3 DEF vars, IInv, Types
    <3>2. \A x \in Inputs : Handshake(x)'
      BY <2>3 DEF vars, IInv, Handshake, in_ack, fifo_acks, Forwarded, PacketsOf
    <3>3. Origins'
      BY <2>3 DEF vars, IInv, Origins, Queued, Merged, PacketsOf, GroupPackets
    <3>4. QED
      BY <3>1, <3>2, <3>3 DEF IInv
  <2>4. QED
    BY <2>1, <2>2, <2>3 DEF Next
<1>3. QED
  BY <1>1, <1>2, PTL DEF Spec

(* The whole network is one lossless bounded queue per input and output,   *)
(* whose heads the output buses show: no packet is lost, repeated or       *)
(* overtaken within its flow, for every size of the network and of its     *)
(* FIFOs, when neither arbiter is in the mode lru.                         *)
THEOREM HwNetworkServes ==
  ASSUME "lru" \notin UsedModes
  PROVE  Spec => ImplementsService
<1>1. ASSUME Init PROVE Service!Init
  <2>1. \A x \in Inputs, j \in Outs : FlowOf(x, j) = <<>>
    BY <1>1, InitQuiet, QuietIs
  <2>2. \A j \in Outs : last[j].out0 = NoPacket /\ last[j].out0_req = out_ack[j]
    BY <1>1 DEF Init, InitSwitch
  <2>3. QED
    BY <2>1, <2>2, NoPacketAssumption DEF Service!Init
<1>2. ASSUME IInv, [Next]_vars PROVE [Service!Next]_<<Flows, Shown, Full>>
  <2>1. CASE AnyTick
    <3>1. Service!Edge
      BY <1>2, <2>1, TickServes DEF AnyTick
    <3>2. QED
      BY <3>1 DEF Service!Next
  <2>2. CASE Reset
    <3>1. Types' /\ Quiet'
      BY <1>2, <2>2, ResetQuiet DEF IInv
    <3>2. (Types /\ Quiet => IInv /\ \A x \in Inputs, j \in Outs : FlowOf(x, j) = <<>>)'
      BY QuietIs, PTL
    <3>3. \A x \in Inputs, j \in Outs : FlowOf(x, j)' = <<>>
      BY <3>1, <3>2
    <3>4. \A j \in Outs : last'[j].out0_req = out_ack'[j]
      BY <3>1 DEF Quiet
    <3>5. \A j \in Outs : last'[j].out0 = last[j].out0
      <4>1. ASSUME NEW j \in Outs PROVE last'[j].out0 = last[j].out0
        <5>1. last'[j] = ResetSwitch(last[j]) /\ last[j] \in SwitchRegs(NbGroups, fifo_size_4x1, T)
          BY <1>2, <2>2 DEF Reset, IInv, Types
        <5>2. QED
          BY <5>1 DEF ResetSwitch, SwitchRegs
      <4>2. QED
        BY <4>1
    <3>6. Service!Flush
      BY <3>3, <3>4, <3>5 DEF Service!Flush
    <3>7. QED
      BY <3>6 DEF Service!Next
  <2>3. CASE UNCHANGED vars
    <3>1. \A x \in Inputs, j \in Outs : FlowOf(x, j)' = FlowOf(x, j)
      BY <2>3 DEF vars, FlowOf, Merged, Queued, Waits, Forwarded, in_ack, fifo_acks, PacketsOf
    <3>2. UNCHANGED <<Flows, Shown, Full>>
      BY <2>3, <3>1 DEF vars, Flows, Shown, Full
    <3>3. QED
      BY <3>2
  <2>4. QED
    BY <1>2, <2>1, <2>2, <2>3 DEF Next
<1>3. [Service!Next]_<<Flows, Shown, Full>> =>
        [Service!Next]_<<[j \in Outs |-> [x \in Inputs |-> FlowOf(x, j)]],
                         [j \in Outs |-> last[j].out0],
                         [j \in Outs |-> last[j].out0_req # out_ack[j]]>>
  BY DEF Flows, Shown, Full
<1>4. QED
  BY <1>1, <1>2, <1>3, Invariance, PTL DEF Spec, ImplementsService, Service!Spec, Service!vars

=============================================================================

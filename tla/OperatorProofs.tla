--------------------------- MODULE OperatorProofs ---------------------------
(***************************************************************************)
(* Facts about the operators of the models: what an sc_fifo keeps, for     *)
(* every depth; what the choice functions and register updates of the      *)
(* arbiter do, for every number of FIFOs; what the chain of stages of a    *)
(* hardware FIFO does at an edge of the clock, for every length; what the  *)
(* hardware arbiters choose and remember, and what a hardware switch does  *)
(* at an edge, for every number of ports.                                  *)
(***************************************************************************)
EXTENDS ArbiterPolicy, Channels, HwSwitch, FiniteSetTheorems, SequenceTheorems,
        WellFoundedInduction, NaturalsInduction, TLAPS

-----------------------------------------------------------------------------
(* Channels.                                                               *)

(* The ring buffer holds what readers may still take and what writers have *)
(* added in this phase, and the places promised to both never exceed it.   *)
Balanced(q, depth) ==
  /\ Len(q.buf) = q.readable - q.numRead + q.numWritten
  /\ q.readable + q.numWritten <= depth
  /\ q.numRead <= q.readable

(* A new FIFO is empty.                                                    *)
LEMMA EmptyFifoBalanced ==
  ASSUME NEW T, NEW depth \in Nat
  PROVE  /\ EmptyFifo \in Fifo(depth, T)
         /\ Balanced(EmptyFifo, depth)
         /\ NumAvailable(EmptyFifo) = 0
<1>1. <<>> \in Seq(T) /\ Len(<<>>) = 0
  BY EmptySeq
<1>2. QED
  BY <1>1 DEF EmptyFifo, Fifo, Balanced, NumAvailable

(* read() on a FIFO with a readable packet takes the oldest one.           *)
LEMMA FifoReadBalanced ==
  ASSUME NEW T, NEW depth \in Nat, NEW q \in Fifo(depth, T),
         Balanced(q, depth), NumAvailable(q) > 0
  PROVE  /\ FifoRead(q) \in Fifo(depth, T)
         /\ Balanced(FifoRead(q), depth)
         /\ NumAvailable(FifoRead(q)) = NumAvailable(q) - 1
         /\ FifoRead(q).numWritten = q.numWritten
         /\ Head(q.buf) \in T
<1>1. /\ q.buf \in Seq(T)
      /\ q.readable \in 0..depth /\ q.numRead \in 0..depth
      /\ q.numWritten \in 0..depth
  BY DEF Fifo
<1>2. Len(q.buf) \in Nat /\ Len(q.buf) > 0
  BY <1>1, LenProperties DEF Balanced, NumAvailable
<1>3. q.buf # <<>>
  BY <1>1, <1>2, EmptySeq
<1>4. /\ Head(q.buf) \in T /\ Tail(q.buf) \in Seq(T)
      /\ Len(Tail(q.buf)) = Len(q.buf) - 1
  BY <1>1, <1>3, HeadTailProperties
<1>5. q.numRead + 1 \in 0..depth
  BY <1>1 DEF NumAvailable
<1>6. /\ FifoRead(q) \in Fifo(depth, T)
      /\ FifoRead(q).buf = Tail(q.buf)
      /\ FifoRead(q).readable = q.readable
      /\ FifoRead(q).numRead = q.numRead + 1
      /\ FifoRead(q).numWritten = q.numWritten
  BY <1>4, <1>5 DEF FifoRead, Fifo
<1>7. Balanced(FifoRead(q), depth)
  <2>1. q.numRead < q.readable
    BY <1>1 DEF NumAvailable
  <2>2. Len(Tail(q.buf)) = q.readable - (q.numRead + 1) + q.numWritten
    BY <1>1, <1>4 DEF Balanced
  <2>3. QED
    BY <1>1, <1>6, <2>1, <2>2 DEF Balanced
<1>8. NumAvailable(FifoRead(q)) = NumAvailable(q) - 1
  BY <1>1, <1>6 DEF NumAvailable
<1>9. QED
  BY <1>4, <1>6, <1>7, <1>8

(* write() on a FIFO with room keeps the packet.                           *)
LEMMA FifoWriteBalanced ==
  ASSUME NEW T, NEW depth \in Nat, NEW q \in Fifo(depth, T), NEW v \in T,
         Balanced(q, depth), NumFree(q, depth) > 0
  PROVE  /\ FifoWrite(q, depth, v) \in Fifo(depth, T)
         /\ Balanced(FifoWrite(q, depth, v), depth)
         /\ NumAvailable(FifoWrite(q, depth, v)) = NumAvailable(q)
         /\ FifoWrite(q, depth, v).numWritten = q.numWritten + 1
         /\ FifoWrite(q, depth, v).buf = Append(q.buf, v)
<1>1. /\ q.buf \in Seq(T)
      /\ q.readable \in 0..depth /\ q.numRead \in 0..depth
      /\ q.numWritten \in 0..depth
  BY DEF Fifo
<1>2. Len(q.buf) < depth
  BY <1>1 DEF Balanced, NumFree
<1>3. Append(q.buf, v) \in Seq(T) /\ Len(Append(q.buf, v)) = Len(q.buf) + 1
  BY <1>1, AppendProperties
<1>4. q.numWritten + 1 \in 0..depth
  BY <1>1 DEF NumFree
<1>5. /\ FifoWrite(q, depth, v) \in Fifo(depth, T)
      /\ FifoWrite(q, depth, v).buf = Append(q.buf, v)
      /\ FifoWrite(q, depth, v).readable = q.readable
      /\ FifoWrite(q, depth, v).numRead = q.numRead
      /\ FifoWrite(q, depth, v).numWritten = q.numWritten + 1
  <2>1. DOMAIN q = {"buf", "readable", "numRead", "numWritten"}
    BY DEF Fifo
  <2>2. FifoWrite(q, depth, v) =
          [buf |-> Append(q.buf, v), readable |-> q.readable,
           numRead |-> q.numRead, numWritten |-> q.numWritten + 1]
    <3>1. FifoWrite(q, depth, v) = [q EXCEPT !.buf = Append(q.buf, v),
                                             !.numWritten = q.numWritten + 1]
      BY <1>2 DEF FifoWrite
    <3>2. QED
      BY <2>1, <3>1 DEF Fifo
  <2>3. QED
    BY <1>1, <1>3, <1>4, <2>2 DEF Fifo
<1>6. Balanced(FifoWrite(q, depth, v), depth)
  <2>1. q.readable + (q.numWritten + 1) <= depth
    BY <1>1 DEF NumFree
  <2>2. Len(q.buf) + 1 = q.readable - q.numRead + (q.numWritten + 1)
    BY <1>1 DEF Balanced
  <2>3. q.numRead <= q.readable
    BY DEF Balanced
  <2>4. Len(FifoWrite(q, depth, v).buf) = Len(q.buf) + 1
    BY <1>3, <1>5
  <2>5. QED
    BY <1>5, <2>1, <2>2, <2>3, <2>4 DEF Balanced
<1>7. QED
  BY <1>5, <1>6 DEF NumAvailable

(* The update phase publishes what was written.                            *)
LEMMA FifoUpdateBalanced ==
  ASSUME NEW T, NEW depth \in Nat, NEW q \in Fifo(depth, T), Balanced(q, depth)
  PROVE  /\ FifoUpdate(q) \in Fifo(depth, T)
         /\ Balanced(FifoUpdate(q), depth)
         /\ NumAvailable(FifoUpdate(q)) = NumAvailable(q) + q.numWritten
         /\ FifoUpdate(q).numWritten = 0
<1>1. /\ q.buf \in Seq(T)
      /\ q.readable \in 0..depth /\ q.numRead \in 0..depth
      /\ q.numWritten \in 0..depth
  BY DEF Fifo
<1>2. Len(q.buf) \in 0..depth
  BY <1>1, LenProperties DEF Balanced
<1>3. QED
  BY <1>1, <1>2 DEF FifoUpdate, Fifo, Balanced, NumAvailable

-----------------------------------------------------------------------------
(* Arbiters.                                                               *)

(* A non-empty set of natural numbers has a least element: the positions   *)
(* and FIFO numbers the choice functions search through.                   *)
LEMMA MinNat ==
  ASSUME NEW S, S \subseteq Nat, S # {}
  PROVE  Min(S) \in S /\ \A x \in S : Min(S) <= x
<1>1. PICK m \in S : \A y \in S : ~ (<<y, m>> \in OpToRel(<, Nat))
  BY NatLessThanWellFounded, WFMin
<1>2. \A y \in S : ~ (y < m)
  BY <1>1 DEF OpToRel
<1>3. \A y \in S : m <= y
  BY <1>2
<1>4. \E x \in S : \A y \in S : x <= y
  BY <1>3
<1>5. QED
  BY <1>4 DEF Min

(* A fixed-priority arbiter chooses an available FIFO.                     *)
LEMMA ChooseFixedAvailable ==
  ASSUME NEW avail, avail \subseteq Fifos, avail # {}
  PROVE  ChooseFixed(avail) \in avail
<1>1. avail \subseteq Nat
  BY NbFifosAssumption DEF Fifos
<1>2. QED
  BY <1>1, MinNat DEF ChooseFixed

(* A round-robin arbiter chooses an available FIFO.                        *)
LEMMA ChooseRoundRobinAvailable ==
  ASSUME NEW avail, avail \subseteq Fifos, avail # {}, NEW last \in Fifos
  PROVE  ChooseRoundRobin(last, avail) \in avail
<1> DEFINE S == {k \in 1..NbFifos : (last + k) % NbFifos \in avail}
<1>1. NbFifos \in Nat \ {0}
  BY NbFifosAssumption
<1>2. PICK a \in avail : a \in 0..(NbFifos - 1)
  BY DEF Fifos
<1>3. S # {}
  <2>1. CASE last < a
    <3>1. a - last \in 1..NbFifos /\ last + (a - last) = a
      BY <1>1, <1>2, <2>1 DEF Fifos
    <3>2. a % NbFifos = a
      BY <1>1, <1>2
    <3>3. QED
      BY <3>1, <3>2, <1>2
  <2>2. CASE a <= last
    <3>1. a + NbFifos - last \in 1..NbFifos /\ last + (a + NbFifos - last) = a + NbFifos
      BY <1>1, <1>2, <2>2 DEF Fifos
    <3>2. (a + NbFifos) % NbFifos = a
      BY <1>1, <1>2
    <3>3. QED
      BY <3>1, <3>2, <1>2
  <2>3. QED
    BY <2>1, <2>2, <1>2 DEF Fifos
<1>4. Min(S) \in S
  BY <1>3, MinNat
<1>5. QED
  BY <1>4 DEF ChooseRoundRobin

(* Every FIFO is somewhere in the LRU register.                            *)
Covers(lru) == \A i \in Fifos : \E k \in Fifos : lru[k] = i

(* LRU chooses the available FIFO that is nearest to the register's head.  *)
LEMMA ChooseLruFirst ==
  ASSUME NEW avail, avail \subseteq Fifos, avail # {},
         NEW lru \in [Fifos -> Fifos], Covers(lru)
  PROVE  \E h \in Fifos :
           /\ ChooseLru(lru, avail) = lru[h]
           /\ lru[h] \in avail
           /\ \A k \in Fifos : lru[k] \in avail => h <= k
<1> DEFINE S == {k \in Fifos : lru[k] \in avail}
<1>1. S # {}
  BY DEF Covers
<1>2. S \subseteq Nat
  BY NbFifosAssumption DEF Fifos
<1>3. Min(S) \in S /\ \A x \in S : Min(S) <= x
  BY <1>1, <1>2, MinNat
<1>4. ChooseLru(lru, avail) = lru[Min(S)]
  BY DEF ChooseLru
<1>5. QED
  BY <1>3, <1>4

(* update_lru() keeps every FIFO in the register.                          *)
LEMMA UpdateLruCovers ==
  ASSUME NEW lru \in [Fifos -> Fifos], Covers(lru), NEW served \in Fifos
  PROVE  /\ UpdateLru(lru, served) \in [Fifos -> Fifos]
         /\ Covers(UpdateLru(lru, served))
<1>1. NbFifos \in Nat \ {0}
  BY NbFifosAssumption
<1>2. UpdateLru(lru, served) \in [Fifos -> Fifos]
  <2>1. \A k \in Fifos : k # NbFifos - 1 => k + 1 \in Fifos
    BY <1>1 DEF Fifos
  <2>2. \A k \in Fifos : lru[k] \in Fifos
    OBVIOUS
  <2>3. \A k \in Fifos : k # NbFifos - 1 => lru[k + 1] \in Fifos
    BY <2>1, <2>2
  <2>4. QED
    BY <2>2, <2>3 DEF UpdateLru
<1>3. ASSUME NEW i \in Fifos
      PROVE  \E k \in Fifos : UpdateLru(lru, served)[k] = i
  <2>1. CASE i = served
    BY <1>1, <2>1 DEF UpdateLru, Fifos
  <2>2. CASE i # served
    <3>1. PICK q \in Fifos : lru[q] = i
      BY DEF Covers
    <3>2. PICK p \in Fifos : lru[p] = served
      BY DEF Covers
    <3>3. CASE \E l \in 0..q : lru[l] = served
      <4>1. /\ q - 1 \in Fifos /\ q - 1 # NbFifos - 1 /\ (q - 1) + 1 = q
            /\ \E l \in 0..(q - 1) : lru[l] = served
        <5>1. PICK l \in 0..q : lru[l] = served
          BY <3>3
        <5>2. q \in 0..(NbFifos - 1) /\ l # q
          BY <2>2, <3>1, <5>1 DEF Fifos
        <5>3. l \in 0..(q - 1) /\ q > 0
          BY <1>1, <5>2
        <5>4. q - 1 \in 0..(NbFifos - 1) /\ q - 1 # NbFifos - 1 /\ (q - 1) + 1 = q
          BY <1>1, <5>2, <5>3
        <5>5. QED
          BY <5>1, <5>3, <5>4 DEF Fifos
      <4>2. UpdateLru(lru, served)[q - 1] = lru[q]
        BY <4>1 DEF UpdateLru
      <4>3. QED
        BY <3>1, <4>1, <4>2
    <3>4. CASE ~ \E l \in 0..q : lru[l] = served
      <4>1. q # NbFifos - 1
        BY <1>1, <3>2, <3>4 DEF Fifos
      <4>2. UpdateLru(lru, served)[q] = lru[q]
        BY <3>4, <4>1 DEF UpdateLru
      <4>3. QED
        BY <3>1, <4>2
    <3>5. QED
      BY <3>3, <3>4
  <2>3. QED
    BY <2>1, <2>2
<1>4. QED
  BY <1>2, <1>3 DEF Covers

(* RAND: whatever the random number, there is an available FIFO with that  *)
(* many available FIFOs before it (the loop of choose_rand() never falls   *)
(* through to its assert(false)).                                          *)
LEMMA ChooseRandAvailable ==
  ASSUME NEW avail, avail \subseteq Fifos, avail # {}, NEW number \in Nat
  PROVE  ChooseRand(number, avail) \in avail
<1> DEFINE before(i) == {k \in avail : k < i}
           rank(i) == Cardinality(before(i))
           n == number % Cardinality(avail)
           T == {i \in 0..NbFifos : rank(i) > n}
<1>1. NbFifos \in Nat \ {0} /\ \A k \in avail : k \in Nat /\ k < NbFifos
  BY NbFifosAssumption DEF Fifos
<1>2. IsFiniteSet(avail)
  <2>1. IsFiniteSet(Fifos)
    BY <1>1, FS_Interval DEF Fifos
  <2>2. QED
    BY <1>1, <2>1, FS_Subset
<1>3. Cardinality(avail) \in Nat \ {0}
  BY <1>2, FS_CardinalityType, FS_EmptySet
<1>4. n \in Nat /\ n < Cardinality(avail)
  BY <1>3
<1>5. ASSUME NEW i \in 0..NbFifos
      PROVE  IsFiniteSet(before(i)) /\ rank(i) \in Nat
  BY <1>2, FS_Subset, FS_CardinalityType
<1>6. NbFifos \in T
  <2>1. before(NbFifos) = avail
    BY <1>1
  <2>2. QED
    BY <1>1, <1>4, <2>1
<1>7. T \subseteq Nat
  BY <1>1
<1>8. PICK m \in T : \A x \in T : m <= x
  BY <1>6, <1>7, MinNat
<1>9. m \in 1..NbFifos /\ rank(m) > n
  <2>1. before(0) = {}
    BY <1>1
  <2>2. rank(0) = 0
    BY <2>1, FS_EmptySet
  <2>3. QED
    BY <1>1, <1>4, <1>8, <2>2
<1>10. m - 1 \in 0..NbFifos /\ m - 1 \notin T
  BY <1>1, <1>8, <1>9
<1>11. rank(m - 1) <= n
  BY <1>4, <1>5, <1>10
<1>12. m - 1 \in avail /\ rank(m) = rank(m - 1) + 1
  <2>1. CASE m - 1 \in avail
    <3>1. \A k \in avail : k < m <=> k < m - 1 \/ k = m - 1
      BY <1>1, <1>9
    <3>2. before(m) = before(m - 1) \cup {m - 1}
      BY <2>1, <3>1
    <3>3. m - 1 \notin before(m - 1)
      BY <1>9
    <3>4. QED
      BY <1>5, <1>10, <2>1, <3>2, <3>3, FS_AddElement
  <2>2. CASE m - 1 \notin avail
    <3>1. \A k \in avail : k < m <=> k < m - 1
      BY <1>1, <1>9, <2>2
    <3>2. before(m) = before(m - 1)
      BY <3>1
    <3>3. QED
      BY <1>4, <1>5, <1>9, <1>10, <1>11, <3>2
  <2>3. QED
    BY <2>1, <2>2
<1>13. rank(m - 1) = n
  <2>1. rank(m - 1) \in Nat
    BY <1>5, <1>10
  <2>2. QED
    BY <2>1, <1>4, <1>9, <1>11, <1>12
<1>14. \E i \in avail : rank(i) = n
  BY <1>12, <1>13
<1>15. QED
  BY <1>14 DEF ChooseRand

-----------------------------------------------------------------------------
(* The arrival register: how many entries of FIFO i there are.             *)
LEMMA CountType ==
  ASSUME NEW s \in Seq(Fifos), NEW i
  PROVE  /\ IsFiniteSet({k \in DOMAIN s : s[k] = i})
         /\ CountOf(s, i) \in Nat
         /\ CountOf(s, i) > 0 <=> \E k \in 1..Len(s) : s[k] = i
<1> DEFINE K == {k \in DOMAIN s : s[k] = i}
<1>1. Len(s) \in Nat /\ DOMAIN s = 1..Len(s)
  BY LenProperties
<1>2. IsFiniteSet(1..Len(s))
  BY <1>1, FS_Interval
<1>3. IsFiniteSet(K)
  BY <1>1, <1>2, FS_Subset
<1>4. Cardinality(K) \in Nat /\ (Cardinality(K) = 0 <=> K = {})
  BY <1>3, FS_CardinalityType, FS_EmptySet
<1>5. QED
  BY <1>1, <1>3, <1>4 DEF CountOf

(* pushed_in_fifo() adds one entry.                                        *)
LEMMA CountAppend ==
  ASSUME NEW s \in Seq(Fifos), NEW e \in Fifos, NEW i \in Fifos
  PROVE  CountOf(Append(s, e), i) = CountOf(s, i) + (IF e = i THEN 1 ELSE 0)
<1> DEFINE t == Append(s, e)
           K == {k \in DOMAIN s : s[k] = i}
           L == {k \in DOMAIN t : t[k] = i}
           z == Len(s) + 1
<1>1. /\ Len(s) \in Nat /\ DOMAIN s = 1..Len(s)
      /\ DOMAIN t = 1..(Len(s) + 1)
      /\ t[z] = e
      /\ \A k \in 1..Len(s) : t[k] = s[k]
  BY LenProperties, AppendProperties
<1>2. IsFiniteSet(K) /\ Cardinality(K) \in Nat
  BY CountType DEF CountOf
<1>3. CASE e = i
  <2>1. L = K \cup {z} /\ z \notin K
    BY <1>1, <1>3
  <2>2. Cardinality(L) = Cardinality(K) + 1
    BY <1>2, <2>1, FS_AddElement
  <2>3. QED
    BY <1>3, <2>2 DEF CountOf
<1>4. CASE e # i
  <2>1. L = K
    BY <1>1, <1>4
  <2>2. CountOf(t, i) = CountOf(s, i) /\ CountOf(s, i) \in Nat
    BY <1>2, <2>1 DEF CountOf
  <2>3. QED
    BY <1>4, <2>2
<1>5. QED
  BY <1>3, <1>4

(* update_fifo() removes exactly one entry, one of the served FIFO.        *)
LEMMA CountUpdateFifo ==
  ASSUME NEW s \in Seq(Fifos), NEW served \in Fifos, CountOf(s, served) > 0
  PROVE  /\ UpdateFifo(s, served) \in Seq(Fifos)
         /\ \A i \in Fifos :
              CountOf(UpdateFifo(s, served), i) =
                CountOf(s, i) - (IF served = i THEN 1 ELSE 0)
<1> DEFINE n == Len(s)
           u == UpdateFifo(s, served)
           H == {k \in 1..n : s[k] = served}
<1>1. n \in Nat /\ DOMAIN s = 1..n /\ \A k \in 1..n : s[k] \in Fifos
  BY LenProperties, ElementOfSeq
<1>2. H # {} /\ H \subseteq Nat
  <2>1. \E k \in 1..n : s[k] = served
    BY CountType
  <2>2. QED
    BY <1>1, <2>1
<1>3. PICK p \in H : \A k \in H : p <= k
  <2> HIDE DEF H
  <2>1. Min(H) \in H /\ \A k \in H : Min(H) <= k
    BY <1>2, MinNat
  <2>2. QED
    BY <2>1
<1>4. p \in 1..n /\ s[p] = served /\ n - 1 \in Nat
  BY <1>1, <1>3
<1>5. \A k \in 1..(n - 1) : (\E l \in 1..k : s[l] = served) <=> p <= k
  <2>1. TAKE k \in 1..(n - 1)
  <2>2. k \in Nat /\ k <= n /\ p \in Nat /\ 1 <= p
    BY <1>1, <1>4
  <2>3. CASE p <= k
    <3>1. p \in 1..k
      BY <2>2, <2>3
    <3>2. QED
      BY <1>4, <2>3, <3>1
  <2>4. ASSUME NEW l \in 1..k, s[l] = served
        PROVE  p <= k
    <3>1. l \in H /\ l <= k
      BY <1>1, <2>2, <2>4
    <3>2. p <= l
      BY <1>3, <3>1
    <3>3. QED
      BY <2>2, <3>1, <3>2
  <2>5. QED
    BY <2>3, <2>4
<1>6. /\ DOMAIN u = 1..(n - 1)
      /\ \A k \in 1..(n - 1) : u[k] = IF p <= k THEN s[k + 1] ELSE s[k]
  BY <1>5 DEF UpdateFifo
<1>7. \A k \in 1..(n - 1) : u[k] \in Fifos
  BY <1>1, <1>4, <1>6
<1>8. u \in [1..(n - 1) -> Fifos]
  BY <1>7 DEF UpdateFifo
<1>9. u \in Seq(Fifos)
  BY <1>4, <1>8, SeqDef
<1>10. ASSUME NEW i \in Fifos
       PROVE  CountOf(u, i) = CountOf(s, i) - (IF served = i THEN 1 ELSE 0)
  <2> DEFINE K == {k \in DOMAIN s : s[k] = i}
             L == {k \in DOMAIN u : u[k] = i}
             f == [k \in K \ {p} |-> IF p < k THEN k - 1 ELSE k]
  <2>1. IsFiniteSet(K) /\ Cardinality(K) \in Nat
    BY CountType DEF CountOf
  <2>2. IsFiniteSet(K \ {p}) /\
        Cardinality(K \ {p}) = Cardinality(K) - (IF served = i THEN 1 ELSE 0)
    <3>1. p \in K <=> served = i
      BY <1>1, <1>4
    <3>2. /\ IsFiniteSet(K \ {p})
          /\ Cardinality(K \ {p}) =
               IF p \in K THEN Cardinality(K) - 1 ELSE Cardinality(K)
      BY <2>1, FS_RemoveElement
    <3>3. QED
      BY <2>1, <3>1, <3>2
  <2>3. \A k \in K \ {p} : f[k] \in L
    <3>1. TAKE k \in K \ {p}
    <3>2. CASE p < k
      <4>1. k - 1 \in 1..(n - 1) /\ p <= k - 1 /\ (k - 1) + 1 = k
        BY <1>1, <1>4, <3>2
      <4>2. QED
        BY <1>6, <3>2, <4>1
    <3>3. CASE ~ (p < k)
      <4>1. k \in 1..(n - 1) /\ ~ (p <= k)
        BY <1>1, <1>4, <3>3
      <4>2. QED
        BY <1>6, <3>3, <4>1
    <3>4. QED
      BY <3>2, <3>3
  <2>4. f \in [K \ {p} -> L]
    BY <2>3
  <2>5. \A a, b \in K \ {p} : f[a] = f[b] => a = b
    BY <1>1, <1>4
  <2>6. \A k \in L : \E a \in K \ {p} : f[a] = k
    <3>1. TAKE k \in L
    <3>2. k \in 1..(n - 1)
      BY <1>6
    <3>3. CASE p <= k
      <4>1. k + 1 \in K \ {p} /\ p < k + 1 /\ (k + 1) - 1 = k
        BY <1>1, <1>4, <1>6, <3>2, <3>3
      <4>2. QED
        BY <4>1
    <3>4. CASE ~ (p <= k)
      <4>1. k \in K \ {p} /\ ~ (p < k)
        BY <1>1, <1>4, <1>6, <3>2, <3>4
      <4>2. QED
        BY <4>1
    <3>5. QED
      BY <3>3, <3>4
  <2>7. f \in Bijection(K \ {p}, L)
    BY <2>4, <2>5, <2>6 DEF Bijection, Injection, Surjection, IsInjective
  <2>8. Cardinality(L) = Cardinality(K \ {p})
    BY <2>2, <2>7, FS_Bijection DEF ExistsBijection
  <2>9. QED
    BY <2>2, <2>8 DEF CountOf
<1>11. QED
  BY <1>9, <1>10

(* A register with at most d entries of each FIFO is at most NbFifos * d   *)
(* long: an entry is told by its FIFO and the number of earlier entries of *)
(* that FIFO.                                                              *)
LEMMA RegisterLength ==
  ASSUME NEW s \in Seq(Fifos), NEW d \in Nat \ {0},
         \A i \in Fifos : CountOf(s, i) <= d
  PROVE  Len(s) <= NbFifos * d
<1> DEFINE n == Len(s)
           Of(i) == {k \in DOMAIN s : s[k] = i}
           Before(k) == {l \in 1..n : s[l] = s[k] /\ l < k}
           P == Fifos \X (0..(d - 1))
           f == [k \in 1..n |-> <<s[k], Cardinality(Before(k))>>]
<1>1. n \in Nat /\ DOMAIN s = 1..n /\ \A k \in 1..n : s[k] \in Fifos
  BY LenProperties, ElementOfSeq
<1>2. \A k \in 1..n :
        IsFiniteSet(Before(k)) /\ Cardinality(Before(k)) \in 0..(d - 1)
  <2>1. SUFFICES ASSUME NEW k \in 1..n
                 PROVE  IsFiniteSet(Before(k)) /\ Cardinality(Before(k)) \in 0..(d - 1)
    OBVIOUS
  <2>2. IsFiniteSet(Of(s[k])) /\ Cardinality(Of(s[k])) \in Nat
    BY CountType, FS_CardinalityType
  <2>3. Cardinality(Of(s[k])) <= d
    BY <1>1 DEF CountOf
  <2>4. Before(k) \in SUBSET Of(s[k]) /\ k \in Of(s[k]) /\ k \notin Before(k)
    BY <1>1
  <2>5. IsFiniteSet(Before(k)) /\ Cardinality(Before(k)) <= Cardinality(Of(s[k]))
    BY <2>2, <2>4, FS_Subset
  <2>6. Cardinality(Before(k)) # Cardinality(Of(s[k]))
    BY <2>2, <2>4, FS_Subset
  <2>7. Cardinality(Before(k)) \in Nat
    BY <2>5, FS_CardinalityType
  <2>8. QED
    BY <2>2, <2>3, <2>5, <2>6, <2>7
<1>3. \A k, m \in 1..n : k < m /\ s[k] = s[m] =>
        Cardinality(Before(k)) # Cardinality(Before(m))
  <2>1. SUFFICES ASSUME NEW k \in 1..n, NEW m \in 1..n, k < m, s[k] = s[m]
                 PROVE  Cardinality(Before(k)) # Cardinality(Before(m))
    OBVIOUS
  <2>2. Before(k) \in SUBSET Before(m) /\ k \in Before(m) /\ k \notin Before(k)
    BY <2>1
  <2>3. QED
    BY <1>2, <2>2, FS_Subset
<1>4. f \in [1..n -> P]
  BY <1>1, <1>2
<1>5. \A k, m \in 1..n : f[k] = f[m] => k = m
  <2>1. SUFFICES ASSUME NEW k \in 1..n, NEW m \in 1..n, f[k] = f[m]
                 PROVE  k = m
    OBVIOUS
  <2>2. s[k] = s[m] /\ Cardinality(Before(k)) = Cardinality(Before(m))
    BY <2>1
  <2>3. ~ (k < m) /\ ~ (m < k)
    BY <1>3, <2>2
  <2>4. QED
    BY <1>1, <2>3
<1>6. f \in Injection(1..n, P)
  BY <1>4, <1>5 DEF Injection, IsInjective
<1>7. /\ IsFiniteSet(Fifos) /\ Cardinality(Fifos) = NbFifos
      /\ IsFiniteSet(0..(d - 1)) /\ Cardinality(0..(d - 1)) = d
  <2> DEFINE e == d - 1
             b == NbFifos - 1
  <2>1. e \in Nat /\ b \in Nat /\ d = e + 1 /\ NbFifos = b + 1
    BY NbFifosAssumption
  <2>2. \A a \in Nat : IsFiniteSet(0..a) /\ Cardinality(0..a) = a + 1
    <3>1. TAKE a \in Nat
    <3>2. 0 \in Int /\ a \in Int /\ ~ (0 > a)
      OBVIOUS
    <3>3. IsFiniteSet(0..a) /\ Cardinality(0..a) = IF 0 > a THEN 0 ELSE a - 0 + 1
      BY <3>2, FS_Interval
    <3>4. QED
      BY <3>2, <3>3
  <2>3. IsFiniteSet(0..e) /\ Cardinality(0..e) = e + 1
    BY <2>1, <2>2
  <2>4. IsFiniteSet(0..b) /\ Cardinality(0..b) = b + 1
    BY <2>1, <2>2
  <2>5. QED
    BY <2>1, <2>3, <2>4 DEF Fifos
<1>8. IsFiniteSet(P) /\ Cardinality(P) = NbFifos * d
  <2>1. /\ IsFiniteSet(P)
        /\ Cardinality(P) = Cardinality(Fifos) * Cardinality(0..(d - 1))
    BY <1>7, FS_Product
  <2>2. QED
    BY <1>7, <2>1
<1>9. Cardinality(1..n) = n
  <2> HIDE DEF n
  <2>1. n \in Int /\ 1 \in Int
    BY <1>1
  <2>2. Cardinality(1..n) = IF 1 > n THEN 0 ELSE n - 1 + 1
    BY <2>1, FS_Interval
  <2>3. QED
    BY <1>1, <2>2
<1>10. Cardinality(1..n) <= Cardinality(P)
  <2> HIDE DEF f, P
  <2>1. QED
    BY <1>6, <1>8, FS_Injection
<1>11. QED
  BY <1>8, <1>9, <1>10

-----------------------------------------------------------------------------
(* The chain of stages of a hardware FIFO, of any length, is a queue, for  *)
(* the FIFOs of switches as for a FIFO alone.  First, counting the packets *)
(* behind a bus.                                                           *)

(* The number of elements of P below k.                                    *)
Count(P, k) == Cardinality({b \in 0..(k - 1) : b \in P})

One(b) == IF b THEN 1 ELSE 0

LEMMA CountStep ==
  ASSUME NEW P, NEW k \in Nat
  PROVE  /\ Count(P, 0) = 0
         /\ Count(P, k) \in Nat /\ Count(P, k) <= k
         /\ Count(P, k + 1) = Count(P, k) + One(k \in P)
<1> DEFINE below(n) == {b \in 0..(n - 1) : b \in P}
<1>1. IsFiniteSet(0..(k - 1)) /\ Cardinality(0..(k - 1)) = k
  <2>1. CASE k = 0
    <3>1. 0..(k - 1) = {}
      BY <2>1
    <3>2. QED
      BY <2>1, <3>1, FS_EmptySet
  <2>2. CASE k > 0
    <3>1. 0 <= k - 1 /\ (k - 1) - 0 + 1 = k
      BY <2>2
    <3>2. QED
      BY <3>1, FS_Interval
  <2>3. QED
    BY <2>1, <2>2
<1>2. below(k) \subseteq 0..(k - 1)
  OBVIOUS
<1>3. IsFiniteSet(below(k)) /\ Cardinality(below(k)) \in Nat /\ Cardinality(below(k)) <= k
  BY <1>1, <1>2, FS_Subset, FS_CardinalityType
<1>4. Count(P, 0) = 0
  <2>1. below(0) = {}
    OBVIOUS
  <2>2. QED
    BY <2>1, FS_EmptySet DEF Count
<1>5. Count(P, k + 1) = Count(P, k) + One(k \in P)
  <2>0. Count(P, k + 1) = Cardinality(below(k + 1)) /\ Count(P, k) = Cardinality(below(k))
    BY DEF Count
  <2>1. CASE k \in P
    <3>1. below(k + 1) = below(k) \cup {k} /\ k \notin below(k)
      BY <2>1
    <3>2. Cardinality(below(k + 1)) = Cardinality(below(k)) + 1
      BY <1>3, <3>1, FS_AddElement
    <3>3. QED
      BY <2>0, <2>1, <3>2 DEF One
  <2>2. CASE k \notin P
    <3>1. below(k + 1) = below(k)
      BY <2>2
    <3>2. Count(P, k + 1) = Count(P, k)
      BY <2>0, <3>1
    <3>3. Count(P, k) \in Nat
      BY <1>3, <2>0
    <3>4. QED
      BY <2>2, <3>2, <3>3 DEF One
  <2>3. QED
    BY <2>1, <2>2
<1>6. QED
  BY <1>3, <1>4, <1>5 DEF Count

(* A packet on bus m is behind every packet on a bus n > m.                *)
LEMMA CountGrows ==
  ASSUME NEW P, NEW m \in Nat, NEW n \in Nat, m < n, m \in P
  PROVE  Count(P, m) + 1 <= Count(P, n)
<1> DEFINE below(k) == {b \in 0..(k - 1) : b \in P}
<1>1. below(m + 1) \subseteq below(n)
  OBVIOUS
<1>2. IsFiniteSet(below(n))
  <2>1. n - 1 \in Int /\ 0 \in Int
    OBVIOUS
  <2>2. IsFiniteSet(0..(n - 1))
    BY <2>1, FS_Interval
  <2>3. below(n) \subseteq 0..(n - 1)
    OBVIOUS
  <2>4. QED
    BY <2>2, <2>3, FS_Subset
<1>3. Cardinality(below(m + 1)) <= Cardinality(below(n))
  BY <1>1, <1>2, FS_Subset
<1>4. Count(P, m + 1) <= Count(P, n)
  BY <1>3 DEF Count
<1>5. Count(P, m + 1) = Count(P, m) + 1 /\ Count(P, m) \in Nat
  BY CountStep DEF One
<1>6. QED
  BY <1>4, <1>5

-----------------------------------------------------------------------------
(* The packets by their places, the oldest first.                          *)

Buses(f, wr_req, rd_ack) == {n \in 0..NbStages(f) : BusFull(f, wr_req, rd_ack, n)}

(* The bus of the k-th packet, when P are the full buses.                  *)
Bus(P, k) == CHOOSE n \in P : k + Cardinality({m \in P : m < n}) = Cardinality(P)

LEMMA StagesIs ==
  ASSUME NEW N \in Nat, NEW T, NEW f \in FifoRegs(N, T)
  PROVE  /\ NbStages(f) = N
         /\ f.succ_req \in [1..N -> Bits] /\ f.pred_ack \in [1..N -> Bits]
         /\ f.dout \in [1..N -> T]
<1>1. /\ f.succ_req \in [1..N -> Bits] /\ f.pred_ack \in [1..N -> Bits]
      /\ f.dout \in [1..N -> T]
  BY DEF FifoRegs
<1>2. f.dout \in Seq(T) /\ Len(f.dout) = N
  BY <1>1
<1>3. QED
  BY <1>1, <1>2 DEF NbStages

LEMMA ContentIs ==
  ASSUME NEW f, NEW din, NEW wr_req, NEW rd_ack
  PROVE  Content(f, din, wr_req, rd_ack)
           = [k \in 1..Cardinality(Buses(f, wr_req, rd_ack)) |->
                Data(f, din, Bus(Buses(f, wr_req, rd_ack), k))]
BY DEF Content, Buses, Bus

LEMMA Total ==
  ASSUME NEW N \in Nat, NEW P, P \subseteq 0..N
  PROVE  /\ Count(P, N + 1) = Cardinality(P)
         /\ Cardinality(P) \in 0..(N + 1)
         /\ \A n \in 0..N : {m \in P : m < n} = {b \in 0..(n - 1) : b \in P}
<1>1. N \in Nat
  OBVIOUS
<1>2. {b \in 0..((N + 1) - 1) : b \in P} = P
  <2>1. (N + 1) - 1 = N
    BY <1>1
  <2>2. QED
    BY <2>1, Zenon
<1>3. Count(P, N + 1) = Cardinality(P)
  BY <1>2 DEF Count
<1>4. Count(P, N + 1) \in Nat /\ Count(P, N + 1) <= N + 1
  BY <1>1, CountStep
<1>5. ASSUME NEW n \in 0..N PROVE {m \in P : m < n} = {b \in 0..(n - 1) : b \in P}
  <2>0. \A b \in P : b \in Nat
    BY <1>1
  <2>1. \A m : m \in {b \in P : b < n} <=> m \in {b \in 0..(n - 1) : b \in P}
    <3>1. ASSUME NEW m \in P, m < n PROVE m \in 0..(n - 1)
      BY <1>1, <2>0, <3>1
    <3>2. ASSUME NEW m \in 0..(n - 1) PROVE m < n
      BY <1>1
    <3>3. QED
      BY <3>1, <3>2, Zenon
  <2>2. QED
    BY <2>1, Zenon
<1>6. QED
  BY <1>1, <1>3, <1>4, <1>5

(* The k-th packet is on bus n exactly if all but k packets are behind it. *)
LEMMA BusIs ==
  ASSUME NEW N \in Nat, NEW P, P \subseteq 0..N, NEW k \in 1..Cardinality(P)
  PROVE  /\ Bus(P, k) \in P
         /\ k + Count(P, Bus(P, k)) = Cardinality(P)
         /\ \A n \in P : k + Count(P, n) = Cardinality(P) => n = Bus(P, k)
<1> DEFINE total == Cardinality(P)
           rest == total - k
           high(n) == Count(P, n + 1) > rest
           S == {n \in 0..N : high(n)}
<1>1. /\ N \in Nat /\ total \in Nat /\ k \in Nat
      /\ rest \in Nat /\ rest < total
      /\ Count(P, N + 1) = total
      /\ \A n \in P : n \in 0..N
  <2>1. N \in Nat /\ total \in 0..(N + 1) /\ Count(P, N + 1) = total
    BY Total
  <2>2. k \in 1..total
    OBVIOUS
  <2> HIDE DEF total
  <2>3. QED
    BY <2>1, <2>2
<1> HIDE DEF total
<1>2. N \in S
  BY <1>1
<1> HIDE DEF high
<1>3. PICK m \in S : \A y \in S : ~ (<<y, m>> \in OpToRel(<, Nat))
  <2>1. S \subseteq Nat /\ S # {}
    BY <1>1, <1>2
  <2>2. QED
    BY <2>1, NatLessThanWellFounded, WFMin
<1>4. m \in 0..N /\ m \in Nat /\ Count(P, m + 1) > rest
  <2>1. m \in 0..N /\ high(m)
    BY Zenon
  <2> HIDE DEF S
  <2>2. QED
    BY <1>1, <2>1 DEF high
<1>5. \A y \in S : ~ (y < m)
  <2>1. \A y \in S : y \in Nat
    BY <1>1
  <2> HIDE DEF S
  <2>2. QED
    BY <1>3, <1>4, <2>1 DEF OpToRel
<1>6. Count(P, m) <= rest
  <2>1. CASE m = 0
    BY <1>1, <2>1, CountStep
  <2>2. CASE m # 0
    <3>1. m - 1 \in 0..N /\ m - 1 < m /\ (m - 1) + 1 = m
      BY <1>1, <1>4, <2>2
    <3>2. ~ (Count(P, (m - 1) + 1) > rest)
      BY <1>5, <3>1 DEF high
    <3>3. Count(P, m) \in Nat
      BY <1>4, CountStep
    <3>4. QED
      BY <1>1, <3>1, <3>2, <3>3
  <2>3. QED
    BY <2>1, <2>2
<1>7. m \in P /\ Count(P, m) = rest
  <2>1. Count(P, m + 1) = Count(P, m) + One(m \in P) /\ Count(P, m) \in Nat
    BY <1>4, CountStep
  <2>2. QED
    BY <1>1, <1>4, <1>6, <2>1 DEF One
<1>8. \A n \in P : Cardinality({b \in P : b < n}) = Count(P, n)
  <2>1. \A n \in P : {b \in P : b < n} = {b \in 0..(n - 1) : b \in P}
    BY Total
  <2>2. QED
    BY <2>1 DEF Count
<1>9. k + Cardinality({b \in P : b < m}) = Cardinality(P)
  BY <1>1, <1>7, <1>8 DEF total
<1>10. Bus(P, k) \in P /\ k + Cardinality({b \in P : b < Bus(P, k)}) = Cardinality(P)
  BY <1>7, <1>9 DEF Bus
<1>11. Bus(P, k) \in P /\ k + Count(P, Bus(P, k)) = Cardinality(P)
  BY <1>8, <1>10
<1>12. ASSUME NEW n \in P, k + Count(P, n) = Cardinality(P)
       PROVE  n = Bus(P, k)
  <2> DEFINE b == Bus(P, k)
  <2>1. n \in Nat /\ b \in Nat /\ b \in P
    <3>1. n \in P /\ b \in P
      BY <1>11
    <3> HIDE DEF b
    <3>2. QED
      BY <1>1, <3>1
  <2> HIDE DEF b
  <2>2. Count(P, n) \in Nat /\ Count(P, b) \in Nat
    BY <2>1, CountStep
  <2>3. Count(P, n) = Count(P, b)
    BY <1>1, <1>11, <1>12, <2>2 DEF b, total
  <2>4. ~ (n < b) /\ ~ (b < n)
    BY <2>1, <2>2, <2>3, CountGrows
  <2>5. QED
    BY <2>1, <2>4 DEF b
<1>13. QED
  BY <1>10, <1>11, <1>12

-----------------------------------------------------------------------------
(* One edge, on the set P of the full buses.                               *)

(* Stage k copies.                                                         *)
Copies(P, k) == k > 0 /\ k - 1 \in P /\ k \notin P

(* The packet on bus n leaves it, read by the reader or copied.            *)
Leaves(N, P, read, n) == IF n = N THEN read ELSE Copies(P, n + 1)

(* Q are the full buses after the edge.                                    *)
Follows(N, P, Q, written, read) ==
  /\ P \subseteq 0..N /\ Q \subseteq 0..N
  /\ written \in BOOLEAN /\ read \in BOOLEAN
  /\ written => 0 \notin P
  /\ read => N \in P
  /\ \A n \in 0..N :
       n \in Q <=> \/ n = 0 /\ written
                   \/ Copies(P, n)
                   \/ n \in P /\ ~Leaves(N, P, read, n)

(* A packet that passes bus k is one fewer behind it, and a packet that is *)
(* written one more: none appears, vanishes or overtakes.                  *)
LEMMA Flow ==
  ASSUME NEW N \in Nat, NEW P, NEW Q, NEW written, NEW read, Follows(N, P, Q, written, read)
  PROVE  \A k \in 0..N :
           Count(Q, k) + One(Copies(P, k)) = Count(P, k) + One(written /\ k > 0)
<1> DEFINE good(k) == Count(Q, k) + One(Copies(P, k)) = Count(P, k) + One(written /\ k > 0)
           bad == {k \in 0..N : ~good(k)}
<1>1. N \in Nat /\ written \in BOOLEAN
  BY DEF Follows
<1>2. SUFFICES ASSUME bad # {} PROVE FALSE
  OBVIOUS
<1>3. good(0)
  <2>1. Count(Q, 0) = 0 /\ Count(P, 0) = 0
    BY <1>1, CountStep
  <2>2. ~Copies(P, 0) /\ ~(written /\ 0 > 0)
    BY DEF Copies
  <2>3. QED
    BY <2>1, <2>2 DEF One
<1> HIDE DEF good
<1>4. bad \subseteq Nat
  OBVIOUS
<1>5. PICK m \in bad : \A y \in bad : ~ (<<y, m>> \in OpToRel(<, Nat))
  BY <1>2, <1>4, NatLessThanWellFounded, WFMin
<1>6. \A y \in bad : ~ (y < m)
  BY <1>4, <1>5 DEF OpToRel
<1>7. m \in 0..N /\ ~good(m) /\ m # 0
  BY <1>3
<1> DEFINE j == m - 1
<1>8. j \in 0..N /\ j < N /\ j + 1 = m /\ j \in Nat /\ j < m /\ j # N /\ m > 0
  BY <1>1, <1>7
<1>9. good(j)
  BY <1>6, <1>8
<1>10. /\ Count(Q, m) = Count(Q, j) + One(j \in Q)
       /\ Count(P, m) = Count(P, j) + One(j \in P)
       /\ Count(Q, j) \in Nat /\ Count(P, j) \in Nat
  <2>1. /\ Count(Q, j + 1) = Count(Q, j) + One(j \in Q)
        /\ Count(P, j + 1) = Count(P, j) + One(j \in P)
        /\ Count(Q, j) \in Nat /\ Count(P, j) \in Nat
    BY <1>8, CountStep
  <2>2. QED
    BY <1>8, <2>1
<1>11. j \in Q <=> \/ j = 0 /\ written
                   \/ Copies(P, j)
                   \/ j \in P /\ ~Copies(P, m)
  BY <1>8 DEF Follows, Leaves
<1>12. /\ Copies(P, j) => j \notin P /\ j > 0
       /\ Copies(P, m) => j \in P
       /\ written /\ j = 0 => j \notin P
  BY DEF Copies, Follows
<1>13. One(j \in Q) + One(Copies(P, m)) + One(written /\ j > 0)
         = One(j \in P) + One(Copies(P, j)) + One(written)
  <2>1. (j > 0) <=> (j # 0)
    BY <1>8
  <2>2. CASE j = 0 /\ written
    BY <1>1, <1>11, <1>12, <2>1, <2>2 DEF One
  <2>3. CASE ~(j = 0 /\ written)
    BY <1>1, <1>11, <1>12, <2>1, <2>3 DEF One
  <2>4. QED
    BY <2>2, <2>3
<1>14. Count(Q, j) + One(Copies(P, j)) = Count(P, j) + One(written /\ j > 0)
  BY <1>9 DEF good
<1>15. written /\ m > 0 <=> written
  BY <1>8
<1>16. One(written /\ m > 0) = One(written)
  BY <1>15 DEF One
<1>17. \A b : One(b) \in Nat
  BY DEF One
<1>18. good(m)
  <2> HIDE DEF j
  <2>1. Count(Q, m) + One(Copies(P, m)) = Count(P, m) + One(written)
    BY <1>10, <1>13, <1>14, <1>17
  <2>2. QED
    BY <1>16, <2>1 DEF good
<1>19. QED
  BY <1>7, <1>18

(* The number of packets: one more if one is written, one fewer if one is  *)
(* read.                                                                   *)
LEMMA FlowTotal ==
  ASSUME NEW N \in Nat, NEW P, NEW Q, NEW written, NEW read, Follows(N, P, Q, written, read)
  PROVE  Cardinality(Q) + One(read) = Cardinality(P) + One(written)
<1>1. N \in Nat /\ N \in 0..N /\ written \in BOOLEAN /\ read \in BOOLEAN
  BY DEF Follows
<1>2. /\ Count(Q, N + 1) = Count(Q, N) + One(N \in Q)
      /\ Count(P, N + 1) = Count(P, N) + One(N \in P)
      /\ Count(Q, N) \in Nat /\ Count(P, N) \in Nat
  BY <1>1, CountStep
<1>3. Count(Q, N + 1) = Cardinality(Q) /\ Count(P, N + 1) = Cardinality(P)
  BY Total DEF Follows
<1>4. Count(Q, N) + One(Copies(P, N)) = Count(P, N) + One(written /\ N > 0)
  BY <1>1, Flow
<1>5. N \in Q <=> \/ N = 0 /\ written
                  \/ Copies(P, N)
                  \/ N \in P /\ ~read
  BY <1>1 DEF Follows, Leaves
<1>6. /\ Copies(P, N) => N \notin P /\ N > 0
      /\ written /\ N = 0 => N \notin P
      /\ read => N \in P
  BY DEF Copies, Follows
<1>7. One(N \in Q) + One(read) + One(written /\ N > 0)
        = One(N \in P) + One(Copies(P, N)) + One(written)
  <2>1. (N > 0) <=> (N # 0)
    BY <1>1
  <2>2. CASE N = 0 /\ written
    BY <1>1, <1>5, <1>6, <2>1, <2>2 DEF One
  <2>3. CASE ~(N = 0 /\ written)
    <3>1. CASE read
      BY <1>1, <1>5, <1>6, <2>1, <2>3, <3>1 DEF One
    <3>2. CASE ~read
      BY <1>1, <1>5, <1>6, <2>1, <2>3, <3>2 DEF One
    <3>3. QED
      BY <3>1, <3>2
  <2>4. QED
    BY <2>2, <2>3
<1>8. \A b : One(b) \in Nat
  BY DEF One
<1>9. QED
  <2>1. Count(Q, N + 1) + One(read) = Count(P, N + 1) + One(written)
    <3> DEFINE a == One(N \in Q)
               b == One(N \in P)
               c == One(Copies(P, N))
               d == One(written /\ N > 0)
               r == One(read)
               w == One(written)
               p == Count(P, N)
               q == Count(Q, N)
    <3>1. /\ a \in Nat /\ b \in Nat /\ c \in Nat /\ d \in Nat
          /\ r \in Nat /\ w \in Nat /\ p \in Nat /\ q \in Nat
          /\ q + c = p + d /\ a + r + d = b + c + w
      BY <1>2, <1>4, <1>7, <1>8, Zenon
    <3>2. Count(Q, N + 1) = q + a /\ Count(P, N + 1) = p + b
      BY <1>2
    <3> HIDE DEF a, b, c, d, r, w, p, q
    <3>3. (q + a) + r = (p + b) + w
      BY <3>1
    <3>4. QED
      BY <3>2, <3>3 DEF r, w
  <2>2. QED
    BY <1>3, <2>1

-----------------------------------------------------------------------------
(* FifoTick: the registers of all stages at once.  f2, wr2 and rd2 are the *)
(* registers and wires after the edge.                                     *)

LEMMA BitsFlip ==
  /\ \A b \in Bits : Not(b) \in Bits /\ Not(b) # b
  /\ \A b, c \in Bits : b # c <=> c = Not(b)
BY DEF Bits, Not

LEMMA TickStages ==
  ASSUME NEW N \in Nat, NEW T, NEW f \in FifoRegs(N, T), NEW din, NEW wr, NEW rd
  PROVE  NbStages(FifoTick(f, din, wr, rd)) = N
<1> DEFINE moves(n) == Moves(f, wr, rd, n)
           data == [n \in 1..N |-> IF moves(n) THEN Data(f, din, n - 1) ELSE f.dout[n]]
<1>1. NbStages(f) = N
  BY StagesIs
<1>2. FifoTick(f, din, wr, rd).dout = data
  BY <1>1 DEF FifoTick
<1>3. Len(data) = N
  <2> DEFINE value(n) == IF moves(n) THEN Data(f, din, n - 1) ELSE f.dout[n]
  <2> HIDE DEF value
  <2>1. Len([n \in 1..N |-> value(n)]) = N
    OBVIOUS
  <2>2. QED
    BY <2>1 DEF value
<1>4. QED
  BY <1>2, <1>3 DEF NbStages

LEMMA TickFollows ==
  ASSUME NEW N \in Nat, NEW T, NEW f \in FifoRegs(N, T), NEW din,
         NEW wr \in Bits, NEW rd \in Bits, NEW wr2 \in Bits, NEW rd2 \in Bits,
         wr2 # wr => ~BusFull(f, wr, rd, 0),
         rd2 # rd => BusFull(f, wr, rd, N)
  PROVE  Follows(N, Buses(f, wr, rd), Buses(FifoTick(f, din, wr, rd), wr2, rd2),
                 wr2 # wr, rd2 # rd)
<1> DEFINE P == Buses(f, wr, rd)
           f2 == FifoTick(f, din, wr, rd)
           Q == Buses(f2, wr2, rd2)
           written == wr2 # wr
           read == rd2 # rd
<1>1. /\ N \in Nat
      /\ f.succ_req \in [1..N -> Bits] /\ f.pred_ack \in [1..N -> Bits]
      /\ NbStages(f) = N /\ NbStages(f2) = N
  BY StagesIs, TickStages
<1>2. \A n \in 1..N : Moves(f, wr, rd, n) <=> Copies(P, n)
  <2>1. \A n \in 1..N : n - 1 \in 0..N /\ n \in 0..N /\ n > 0
    BY <1>1
  <2>2. QED
    BY <1>1, <2>1 DEF Moves, Copies, Buses
<1>3. /\ \A n \in 1..N :
           f2.succ_req[n] = IF Copies(P, n) THEN Not(f.succ_req[n]) ELSE f.succ_req[n]
      /\ \A n \in 1..N :
           f2.pred_ack[n] = IF Copies(P, n) THEN Not(f.pred_ack[n]) ELSE f.pred_ack[n]
  BY <1>1, <1>2 DEF FifoTick
<1>4. /\ P \subseteq 0..N /\ Q \subseteq 0..N
      /\ written => 0 \notin P
      /\ read => N \in P
  BY <1>1 DEF Buses
<1> HIDE DEF f2
<1>5. ASSUME NEW n \in 0..N
      PROVE  n \in Q <=> \/ n = 0 /\ written
                         \/ Copies(P, n)
                         \/ n \in P /\ ~Leaves(N, P, read, n)
  <2> DEFINE req == Req(f, wr, n)
             ack == Ack(f, rd, n)
             req2 == Req(f2, wr2, n)
             ack2 == Ack(f2, rd2, n)
             comes == Copies(P, n) \/ (n = 0 /\ written)
             goes == Leaves(N, P, read, n)
  <2>1. req \in Bits /\ ack \in Bits
    <3>1. (n # 0 => n \in 1..N) /\ (n # N => n + 1 \in 1..N)
      BY <1>1
    <3>2. QED
      BY <1>1, <3>1 DEF Req, Ack
  <2>2. req2 = IF comes THEN Not(req) ELSE req
    <3>1. CASE n = 0
      <4>1. ~Copies(P, n)
        BY <3>1 DEF Copies
      <4>2. req = wr /\ req2 = wr2
        BY <3>1 DEF Req
      <4>3. QED
        BY <3>1, <4>1, <4>2, BitsFlip
    <3>2. CASE n # 0
      <4>1. n \in 1..N
        BY <1>1, <3>2
      <4>2. req = f.succ_req[n] /\ req2 = f2.succ_req[n]
        BY <3>2 DEF Req
      <4>3. QED
        BY <1>3, <3>2, <4>1, <4>2
    <3>3. QED
      BY <3>1, <3>2
  <2>3. ack2 = IF goes THEN Not(ack) ELSE ack
    <3>1. CASE n = N
      <4>1. ack = rd /\ ack2 = rd2
        BY <1>1, <3>1 DEF Ack
      <4>2. goes <=> read
        BY <3>1 DEF Leaves
      <4>3. QED
        BY <4>1, <4>2, BitsFlip
    <3>2. CASE n # N
      <4>1. n + 1 \in 1..N
        BY <1>1, <3>2
      <4>2. ack = f.pred_ack[n + 1] /\ ack2 = f2.pred_ack[n + 1]
        BY <1>1, <3>2 DEF Ack
      <4>3. goes <=> Copies(P, n + 1)
        BY <3>2 DEF Leaves
      <4>4. QED
        BY <1>3, <4>1, <4>2, <4>3
    <3>3. QED
      BY <3>1, <3>2
  <2>4. n \in P <=> req # ack
    BY <1>1 DEF Buses, BusFull
  <2>5. n \in Q <=> req2 # ack2
    BY <1>1 DEF Buses, BusFull
  <2>6. comes => n \notin P
    BY <1>4 DEF Copies
  <2>7. goes => n \in P
    <3>1. (n + 1) - 1 = n
      BY <1>1
    <3>2. QED
      BY <1>4, <3>1 DEF Leaves, Copies
  <2>8. n \in Q <=> comes \/ (n \in P /\ ~goes)
    <3> HIDE DEF req, ack, req2, ack2, comes, goes, P, Q
    <3>1. QED
      BY <2>1, <2>2, <2>3, <2>4, <2>5, <2>6, <2>7, BitsFlip
  <2>9. QED
    BY <2>8
<1>6. written \in BOOLEAN /\ read \in BOOLEAN
  OBVIOUS
<1>7. QED
  <2> HIDE DEF P, Q, written, read
  <2>1. Follows(N, P, Q, written, read)
    BY <1>4, <1>5, <1>6 DEF Follows
  <2>2. QED
    BY <2>1 DEF P, Q, written, read, f2

(* Where the packet on a bus comes from, and that it is the same packet.   *)
LEMMA TickMoves ==
  ASSUME NEW N \in Nat, NEW T, NEW f \in FifoRegs(N, T), NEW din, NEW din2,
         NEW wr \in Bits, NEW rd \in Bits, NEW wr2 \in Bits, NEW rd2 \in Bits,
         wr2 # wr => ~BusFull(f, wr, rd, 0),
         rd2 # rd => BusFull(f, wr, rd, N),
         wr2 = wr /\ BusFull(f, wr, rd, 0) => din2 = din,
         NEW n \in Buses(FifoTick(f, din, wr, rd), wr2, rd2),
         ~ (n = 0 /\ wr2 # wr)
  PROVE  \E m \in Buses(f, wr, rd) :
           /\ Data(FifoTick(f, din, wr, rd), din2, n) = Data(f, din, m)
           /\ Count(Buses(FifoTick(f, din, wr, rd), wr2, rd2), n)
                = Count(Buses(f, wr, rd), m) + One(wr2 # wr)
<1> DEFINE P == Buses(f, wr, rd)
           f2 == FifoTick(f, din, wr, rd)
           Q == Buses(f2, wr2, rd2)
           written == wr2 # wr
           read == rd2 # rd
<1>1. /\ N \in Nat /\ n \in 0..N /\ n \in Nat
      /\ f.dout \in [1..N -> T]
      /\ NbStages(f) = N /\ NbStages(f2) = N
  <2>1. NbStages(f) = N /\ NbStages(f2) = N /\ f.dout \in [1..N -> T]
    BY StagesIs, TickStages
  <2>2. n \in 0..N
    BY <2>1 DEF Buses
  <2>3. QED
    BY <2>1, <2>2
<1>2. Follows(N, P, Q, written, read)
  BY TickFollows
<1>3. Count(Q, n) + One(Copies(P, n)) = Count(P, n) + One(written /\ n > 0)
  <2>1. \A k \in 0..N :
          Count(Q, k) + One(Copies(P, k)) = Count(P, k) + One(written /\ k > 0)
    BY <1>2, Flow, Zenon
  <2>2. n \in 0..N
    BY <1>1
  <2>3. QED
    BY <2>1, <2>2, Zenon
<1>4. Copies(P, n) \/ (n \in P /\ ~Leaves(N, P, read, n))
  BY <1>1, <1>2 DEF Follows
<1>5. ASSUME NEW k \in 1..N
      PROVE  Data(f2, din2, k) = IF Copies(P, k) THEN Data(f, din, k - 1) ELSE Data(f, din, k)
  <2>1. k - 1 \in 0..N /\ k \in 0..N /\ k > 0 /\ k # 0
    BY <1>1
  <2>2. Moves(f, wr, rd, k) <=> Copies(P, k)
    BY <1>1, <2>1 DEF Moves, Copies, Buses
  <2>3. f2.dout[k] = IF Moves(f, wr, rd, k) THEN Data(f, din, k - 1) ELSE f.dout[k]
    BY <1>1 DEF FifoTick
  <2>4. QED
    BY <2>1, <2>2, <2>3 DEF Data
<1> HIDE DEF f2
<1>6. CASE Copies(P, n)
  <2> DEFINE m == n - 1
  <2>1. n > 0 /\ m \in P /\ m \in Nat /\ m + 1 = n /\ n \in 1..N
    BY <1>1, <1>6 DEF Copies
  <2>2. Data(f2, din2, n) = Data(f, din, m)
    BY <1>5, <1>6, <2>1
  <2>3. Count(P, m + 1) = Count(P, m) + 1 /\ Count(P, m) \in Nat /\ Count(Q, n) \in Nat
    <3>1. Count(P, m + 1) = Count(P, m) + One(m \in P) /\ Count(P, m) \in Nat
      BY <2>1, CountStep
    <3>2. Count(Q, n) \in Nat
      BY <1>1, CountStep
    <3>3. One(m \in P) = 1
      BY <2>1 DEF One
    <3>4. QED
      BY <3>1, <3>2, <3>3
  <2>4. (written /\ n > 0) <=> written
    BY <2>1
  <2>5. Count(Q, n) + 1 = Count(P, n) + One(written) /\ One(written) \in Nat
    BY <1>3, <1>6, <2>4 DEF One
  <2>6. Count(Q, n) = Count(P, m) + One(written)
    <3> DEFINE a == Count(Q, n)
               b == Count(P, m)
               c == Count(P, n)
               d == One(written)
    <3>1. /\ a + 1 = c + d /\ c = b + 1
          /\ a \in Nat /\ b \in Nat /\ d \in Nat
      BY <2>1, <2>3, <2>5, Zenon
    <3> HIDE DEF a, b, c, d
    <3>2. a = b + d
      BY <3>1
    <3>3. QED
      BY <3>2 DEF a, b, d
  <2>7. QED
    BY <2>1, <2>2, <2>6 DEF f2
<1>7. CASE ~Copies(P, n)
  <2>1. n \in P
    BY <1>4, <1>7
  <2>2. (written /\ n > 0) <=> written
    BY <1>1
  <2>3. Count(Q, n) = Count(P, n) + One(written)
    <3>1. Count(P, n) \in Nat /\ Count(Q, n) \in Nat /\ One(written) \in Nat
      BY <1>1, CountStep DEF One
    <3>2. Count(Q, n) + 0 = Count(P, n) + One(written)
      BY <1>3, <1>7, <2>2 DEF One
    <3> HIDE DEF written
    <3>3. QED
      BY <3>1, <3>2
  <2>4. Data(f2, din2, n) = Data(f, din, n)
    <3>1. CASE n = 0
      <4>1. BusFull(f, wr, rd, 0) /\ wr2 = wr
        BY <2>1, <3>1 DEF Buses
      <4>2. QED
        BY <3>1, <4>1 DEF Data
    <3>2. CASE n # 0
      <4>1. n \in 1..N
        BY <1>1, <3>2
      <4>2. QED
        BY <1>5, <1>7, <4>1
    <3>3. QED
      BY <3>1, <3>2
  <2>5. QED
    BY <2>1, <2>3, <2>4 DEF f2
<1>8. QED
  BY <1>6, <1>7

-----------------------------------------------------------------------------
(* The chain is a queue: at an edge the oldest packet leaves if the reader *)
(* takes it, and the one that is written comes in at the end.              *)
LEMMA TickQueue ==
  ASSUME NEW N \in Nat, NEW T, NEW f \in FifoRegs(N, T), NEW din, NEW din2,
         NEW wr \in Bits, NEW rd \in Bits, NEW wr2 \in Bits, NEW rd2 \in Bits,
         wr2 # wr => ~BusFull(f, wr, rd, 0),
         rd2 # rd => BusFull(f, wr, rd, N),
         wr2 = wr /\ BusFull(f, wr, rd, 0) => din2 = din,
         NEW q, q = Content(f, din, wr, rd),
         NEW q2, q2 = Content(FifoTick(f, din, wr, rd), din2, wr2, rd2),
         NEW w, w = One(wr2 # wr), NEW r, r = One(rd2 # rd)
  PROVE  /\ Len(q) \in 0..(N + 1) /\ Len(q2) \in 0..(N + 1)
         /\ Len(q2) = Len(q) - r + w
         /\ r <= Len(q)
         /\ wr2 # wr => Len(q) < N + 1
         /\ \A k \in 1..Len(q2) : q2[k] = IF k + r > Len(q) THEN din2 ELSE q[k + r]
<1> DEFINE P == Buses(f, wr, rd)
           f2 == FifoTick(f, din, wr, rd)
           Q == Buses(f2, wr2, rd2)
           old == Cardinality(P)
           new == Cardinality(Q)
<1>1. /\ Follows(N, P, Q, wr2 # wr, rd2 # rd)
      /\ P \subseteq 0..N /\ Q \subseteq 0..N
  <2>1. Follows(N, P, Q, wr2 # wr, rd2 # rd)
    BY TickFollows
  <2>2. QED
    BY <2>1 DEF Follows
<1>2. /\ N \in Nat /\ old \in 0..(N + 1) /\ new \in 0..(N + 1)
      /\ w \in {0, 1} /\ r \in {0, 1}
  BY <1>1, Total DEF One
<1>3. new + r = old + w
  BY <1>1, FlowTotal
<1>4. r <= old
  <2>1. CASE r = 0
    BY <1>2, <2>1
  <2>2. CASE r # 0
    <3>1. N \in P
      BY <1>1, <2>2 DEF Follows, One
    <3>2. Count(P, N + 1) = Count(P, N) + 1 /\ Count(P, N) \in Nat
      BY <1>2, <3>1, CountStep DEF One
    <3>3. Count(P, N + 1) = old
      BY <1>1, Total
    <3>4. QED
      BY <1>2, <3>2, <3>3
  <2>3. QED
    BY <2>1, <2>2
<1>5. q = [k \in 1..old |-> Data(f, din, Bus(P, k))]
  BY ContentIs
<1>6. q2 = [k \in 1..new |-> Data(f2, din2, Bus(Q, k))]
  BY ContentIs
<1>7. Len(q) = old /\ Len(q2) = new
  <2> HIDE DEF old, new, P, Q
  <2>1. QED
    BY <1>2, <1>5, <1>6
<1>8. ASSUME NEW k \in 1..new
      PROVE  Data(f2, din2, Bus(Q, k)) = IF k + r > old THEN din2 ELSE q[k + r]
  <2> DEFINE n == Bus(Q, k)
  <2>1. /\ n \in Q /\ k + Count(Q, n) = new
        /\ k \in Nat /\ n \in 0..N /\ n \in Nat
    <3>1. n \in Q /\ k + Count(Q, n) = new
      BY <1>1, BusIs
    <3>2. k \in Nat /\ new \in Nat
      BY <1>2
    <3>3. n \in 0..N
      BY <1>1, <3>1
    <3>4. QED
      BY <1>2, <3>1, <3>2, <3>3
  <2>2. CASE n = 0 /\ wr2 # wr
    <3>1. Count(Q, n) = 0 /\ w = 1
      BY <2>2, CountStep DEF One
    <3>2. k + r > old
      <4> HIDE DEF n, old, new
      <4>1. QED
        BY <1>2, <1>3, <2>1, <3>1
    <3>3. Data(f2, din2, n) = din2
      BY <2>2 DEF Data
    <3>4. QED
      BY <3>2, <3>3
  <2>3. CASE ~ (n = 0 /\ wr2 # wr)
    <3>1. PICK m \in P : /\ Data(f2, din2, n) = Data(f, din, m)
                         /\ Count(Q, n) = Count(P, m) + w
      <4>1. n \in Buses(FifoTick(f, din, wr, rd), wr2, rd2)
        BY <2>1
      <4>2. \E j \in P : /\ Data(f2, din2, n) = Data(f, din, j)
                         /\ Count(Q, n) = Count(P, j) + One(wr2 # wr)
        <5> HIDE DEF n
        <5>1. QED
          BY <2>3, <4>1, TickMoves
      <4>3. QED
        BY <4>2
    <3>2. Count(P, m) \in Nat
      <4>1. m \in 0..N
        BY <1>1
      <4>2. m \in Nat
        BY <1>2, <4>1
      <4>3. QED
        BY <4>2, CountStep
    <3>3. k + r \in 1..old /\ (k + r) + Count(P, m) = old
      <4> HIDE DEF n, old, new
      <4>1. QED
        BY <1>2, <1>3, <2>1, <3>1, <3>2
    <3>4. m = Bus(P, k + r)
      BY <1>1, <3>3, BusIs
    <3>5. q[k + r] = Data(f, din, m)
      BY <1>5, <3>3, <3>4
    <3>6. ~ (k + r > old)
      <4> HIDE DEF old
      <4>1. QED
        BY <1>2, <3>3
    <3>7. QED
      BY <3>1, <3>5, <3>6
  <2>4. QED
    BY <2>2, <2>3
<1>9. \A k \in 1..new : q2[k] = IF k + r > old THEN din2 ELSE q[k + r]
  <2> HIDE DEF old, new, P, Q, f2
  <2>1. QED
    BY <1>6, <1>8
<1>10. new = old - r + w
  <2> HIDE DEF old, new
  <2>1. QED
    BY <1>2, <1>3
<1>11. wr2 # wr => old < N + 1
  <2> SUFFICES ASSUME wr2 # wr PROVE old < N + 1
    OBVIOUS
  <2>1. P \subseteq 1..N
    BY <1>1, <1>2 DEF Follows
  <2>2. IsFiniteSet(1..N) /\ Cardinality(1..N) <= N
    <3>1. 1 \in Int /\ N \in Int
      BY <1>2
    <3>2. /\ IsFiniteSet(1..N)
          /\ Cardinality(1..N) = IF 1 > N THEN 0 ELSE N - 1 + 1
      BY <3>1, FS_Interval
    <3>3. QED
      BY <1>2, <3>2
  <2>3. old <= Cardinality(1..N) /\ Cardinality(1..N) \in Nat
    BY <2>1, <2>2, FS_Subset, FS_CardinalityType
  <2>4. QED
    BY <1>2, <2>2, <2>3
<1>12. QED
  BY <1>2, <1>4, <1>7, <1>9, <1>10, <1>11

(* The registers of a chain keep their type at an edge.                    *)
LEMMA FifoTickType ==
  ASSUME NEW N \in Nat, NEW T, NEW f \in FifoRegs(N, T), NEW d \in T, NEW wr \in Bits, NEW rd \in Bits
  PROVE  /\ FifoTick(f, d, wr, rd) \in FifoRegs(N, T)
         /\ Data(f, d, N) \in T
<1>1. \A b \in Bits : Not(b) \in Bits
  BY DEF Bits, Not
<1>2. \A n \in 1..N : n - 1 = 0 \/ n - 1 \in 1..N
  OBVIOUS
<1>3. \A n \in 1..N : Data(f, d, n - 1) \in T
  BY <1>2 DEF FifoRegs, Data
<1>4. FifoTick(f, d, wr, rd) \in FifoRegs(N, T)
  <2>1. /\ NbStages(f) = N
        /\ f.succ_req \in [1..N -> Bits] /\ f.pred_ack \in [1..N -> Bits]
        /\ f.dout \in [1..N -> T]
    BY StagesIs
  <2>2. QED
    BY <1>1, <1>3, <2>1 DEF FifoTick, FifoRegs
<1>5. N = 0 \/ N \in 1..N
  OBVIOUS
<1>6. Data(f, d, N) \in T
  BY <1>5 DEF FifoRegs, Data
<1>7. QED
  BY <1>4, <1>6

(* Its packets, the oldest of which is on the last bus.                    *)
LEMMA ContentType ==
  ASSUME NEW N \in Nat, NEW T, NEW f \in FifoRegs(N, T), NEW din \in T, NEW wr \in Bits, NEW rd \in Bits
  PROVE  LET q == Content(f, din, wr, rd)
         IN /\ q \in Seq(T) /\ Len(q) <= N + 1
            /\ BusFull(f, wr, rd, N)
                 => q # <<>> /\ Head(q) = Data(f, din, N)
            /\ ~BusFull(f, wr, rd, 0) => Len(q) <= N
<1> DEFINE P == Buses(f, wr, rd)
           q == Content(f, din, wr, rd)
           total == Cardinality(P)
<1>1. /\ N \in Nat /\ P \subseteq 0..N /\ total \in Nat /\ total <= N + 1
      /\ f.dout \in [1..N -> T]
  <2>1. P \subseteq 0..N
    BY StagesIs DEF Buses
  <2>2. total \in 0..(N + 1)
    BY <2>1, Total
  <2>3. QED
    BY <2>1, <2>2 DEF FifoRegs
<1>2. q = [k \in 1..total |-> Data(f, din, Bus(P, k))]
  BY ContentIs
<1>3. ASSUME NEW k \in 1..total PROVE Data(f, din, Bus(P, k)) \in T
  <2>1. Bus(P, k) \in 0..N
    BY <1>1, BusIs
  <2>2. Bus(P, k) = 0 \/ Bus(P, k) \in 1..N
    BY <1>1, <2>1
  <2>3. QED
    BY <1>1, <2>2 DEF Data
<1>4. q \in Seq(T) /\ Len(q) = total
  <2> HIDE DEF total, P, q
  <2>1. QED
    BY <1>1, <1>2, <1>3
<1>5. ASSUME BusFull(f, wr, rd, N)
      PROVE  q # <<>> /\ Head(q) = Data(f, din, N)
  <2>1. N \in P
    BY <1>1, <1>5, StagesIs DEF Buses
  <2>2. Count(P, N + 1) = Count(P, N) + 1 /\ Count(P, N) \in Nat
    BY <1>1, <2>1, CountStep DEF One
  <2>3. Count(P, N + 1) = total
    BY <1>1, Total
  <2>4. 1 \in 1..total /\ 1 + Count(P, N) = total
    <3> HIDE DEF total
    <3>1. QED
      BY <1>1, <2>2, <2>3
  <2>5. N = Bus(P, 1)
    BY <1>1, <2>1, <2>4, BusIs
  <2>6. q[1] = Data(f, din, N)
    BY <1>2, <2>4, <2>5
  <2> HIDE DEF total, q
  <2>7. QED
    BY <1>1, <1>4, <2>4, <2>6
<1>6. ASSUME ~BusFull(f, wr, rd, 0) PROVE total <= N
  <2>1. 0 \notin P
    BY <1>6 DEF Buses
  <2>2. P \subseteq 1..N
    BY <1>1, <2>1
  <2>3. IsFiniteSet(1..N) /\ Cardinality(1..N) = N
    BY <1>1, FS_Interval
  <2>4. QED
    BY <1>1, <2>2, <2>3, FS_Subset
<1>7. QED
  BY <1>1, <1>4, <1>5, <1>6

(* The four kinds of edges, by which of the wires toggle.                  *)
QueueStep(N, q, q2, d, wr, rd, wr2, rd2) ==
  /\ wr2 # wr => Len(q) < N + 1
  /\ wr2 = wr /\ rd2 = rd => q2 = q
  /\ wr2 # wr /\ rd2 = rd => q2 = Append(q, d)
  /\ wr2 = wr /\ rd2 # rd => q2 = Tail(q) /\ q # <<>>
  /\ wr2 # wr /\ rd2 # rd => q2 = Append(Tail(q), d) /\ q # <<>>

LEMMA ChainQueue ==
  ASSUME NEW N \in Nat, NEW T, NEW f \in FifoRegs(N, T), NEW din \in T, NEW din2 \in T,
         NEW wr \in Bits, NEW rd \in Bits, NEW wr2 \in Bits, NEW rd2 \in Bits,
         wr2 # wr => ~BusFull(f, wr, rd, 0),
         rd2 # rd => BusFull(f, wr, rd, N),
         wr2 = wr /\ BusFull(f, wr, rd, 0) => din2 = din
  PROVE  QueueStep(N, Content(f, din, wr, rd), Content(FifoTick(f, din, wr, rd), din2, wr2, rd2),
                   din2, wr, rd, wr2, rd2)
<1> DEFINE f2 == FifoTick(f, din, wr, rd)
<1>0. PICK q, q2, w, r :
        /\ q = Content(f, din, wr, rd) /\ q2 = Content(f2, din2, wr2, rd2)
        /\ w = One(wr2 # wr) /\ r = One(rd2 # rd)
  BY Zenon
<1> SUFFICES QueueStep(N, q, q2, din2, wr, rd, wr2, rd2)
  BY <1>0
<1> DEFINE n == Len(q)
<1>1. /\ n \in 0..(N + 1) /\ Len(q2) \in 0..(N + 1)
      /\ Len(q2) = n - r + w
      /\ r <= n
      /\ wr2 # wr => n < N + 1
      /\ \A k \in 1..Len(q2) : q2[k] = IF k + r > n THEN din2 ELSE q[k + r]
  BY <1>0, TickQueue
<1>2. q \in Seq(T) /\ q2 \in Seq(T) /\ N \in Nat /\ n \in Nat
  <2>1. f2 \in FifoRegs(N, T)
    BY FifoTickType
  <2>2. q \in Seq(T) /\ q2 \in Seq(T)
    BY <1>0, <2>1, ContentType
  <2>3. QED
    BY <2>2, LenProperties
<1> HIDE DEF n
<1>3. n = Len(q) /\ (n >= 1 => q # <<>>)
  BY <1>2 DEF n
<1>4. CASE wr2 = wr /\ rd2 = rd
  <2>1. w = 0 /\ r = 0
    BY <1>0, <1>4 DEF One
  <2>2. Len(q2) = n /\ \A k \in 1..n : q2[k] = q[k]
    BY <1>1, <1>2, <2>1
  <2>3. q2 = q
    BY <1>2, <1>3, <2>2, SeqEqual
  <2>4. QED
    BY <1>4, <2>3 DEF QueueStep
<1>5. CASE wr2 # wr /\ rd2 = rd
  <2>1. w = 1 /\ r = 0
    BY <1>0, <1>5 DEF One
  <2>2. /\ Len(q2) = n + 1
        /\ \A k \in 1..(n + 1) : q2[k] = IF k > n THEN din2 ELSE q[k]
    BY <1>1, <1>2, <2>1
  <2>3. /\ Append(q, din2) \in Seq(T) /\ Len(Append(q, din2)) = n + 1
        /\ \A k \in 1..(n + 1) : Append(q, din2)[k] = IF k > n THEN din2 ELSE q[k]
    BY <1>2, <1>3
  <2>4. q2 = Append(q, din2)
    BY <1>2, <2>2, <2>3, SeqEqual
  <2>5. QED
    BY <1>1, <1>5, <2>4 DEF n, QueueStep
<1>6. CASE wr2 = wr /\ rd2 # rd
  <2>1. w = 0 /\ r = 1
    BY <1>0, <1>6 DEF One
  <2>2. /\ n >= 1 /\ Len(q2) = n - 1
        /\ \A k \in 1..(n - 1) : q2[k] = q[k + 1]
    BY <1>1, <1>2, <2>1
  <2>3. /\ Tail(q) \in Seq(T) /\ Len(Tail(q)) = n - 1
        /\ \A k \in 1..(n - 1) : Tail(q)[k] = q[k + 1]
    BY <1>2, <1>3, <2>2
  <2>4. q2 = Tail(q)
    BY <1>2, <2>2, <2>3, SeqEqual
  <2>5. QED
    BY <1>3, <1>6, <2>2, <2>4 DEF QueueStep
<1>7. CASE wr2 # wr /\ rd2 # rd
  <2>1. w = 1 /\ r = 1
    BY <1>0, <1>7 DEF One
  <2>2. /\ n >= 1 /\ Len(q2) = n
        /\ \A k \in 1..n : q2[k] = IF k + 1 > n THEN din2 ELSE q[k + 1]
    BY <1>1, <1>2, <2>1
  <2> DEFINE t == Tail(q)
  <2>3. /\ t \in Seq(T) /\ Len(t) = n - 1
        /\ \A k \in 1..(n - 1) : t[k] = q[k + 1]
    BY <1>2, <1>3, <2>2
  <2> HIDE DEF t
  <2>4. /\ Append(t, din2) \in Seq(T) /\ Len(Append(t, din2)) = n
        /\ \A k \in 1..n : Append(t, din2)[k] = IF k = n THEN din2 ELSE t[k]
    BY <1>2, <2>2, <2>3
  <2>5. \A k \in 1..n : q2[k] = Append(t, din2)[k]
    BY <1>2, <2>2, <2>3, <2>4
  <2>6. q2 = Append(t, din2)
    BY <1>2, <2>2, <2>4, <2>5, SeqEqual
  <2>7. QED
    BY <1>1, <1>3, <1>7, <2>2, <2>6 DEF n, t, QueueStep
<1>8. QED
  BY <1>4, <1>5, <1>6, <1>7

(* A chain after a reset is empty.                                         *)
LEMMA FreshChain ==
  ASSUME NEW N \in Nat, NEW T, NEW f \in FifoRegs(N, T), NEW din,
         f.succ_req = [n \in 1..N |-> 0], f.pred_ack = [n \in 1..N |-> 0]
  PROVE  Content(f, din, 0, 0) = <<>>
<1> DEFINE P == Buses(f, 0, 0)
<1>0. NbStages(f) = N
  BY StagesIs
<1>1. \A n \in 0..N : ~BusFull(f, 0, 0, n)
  <2>1. \A n \in 0..N : (n # 0 => n \in 1..N) /\ (n # N => n + 1 \in 1..N)
    OBVIOUS
  <2>2. QED
    BY <1>0, <2>1 DEF BusFull, Req, Ack
<1>2. P = {}
  BY <1>0, <1>1 DEF Buses
<1>3. Cardinality(P) = 0
  BY <1>2, FS_EmptySet
<1>4. Content(f, din, 0, 0) = [k \in 1..0 |-> Data(f, din, Bus(P, k))]
  BY <1>3, ContentIs
<1>5. QED
  BY <1>4

-----------------------------------------------------------------------------
(* The hardware arbiters, for every number n of ports.                     *)

LEMMA PortNumbers ==
  ASSUME NEW n \in Nat \ {0}
  PROVE  /\ \A i : i \in PortsOf(n) <=> i \in Nat /\ i < n
         /\ 0 \in PortsOf(n)
         /\ NoPort \notin PortsOf(n)
BY DEF PortsOf, NoPort

(* arbiter_fixed chooses a port with a packet.                             *)
LEMMA FixedPending ==
  ASSUME NEW n \in Nat \ {0}, NEW pending, pending \subseteq PortsOf(n), pending # {}
  PROVE  choice_fixed(pending) \in pending
<1> DEFINE S == {n - i : i \in pending}
<1>1. \A i \in pending : i \in Nat /\ n - i \in Nat
  BY PortNumbers
<1>2. S \subseteq Nat /\ S # {}
  BY <1>1
<1>3. PICK m \in S : \A x \in S : m <= x
  BY <1>2, MinNat
<1>4. PICK j \in pending : m = n - j
  OBVIOUS
<1>5. \A i \in pending : n - j <= n - i
  BY <1>3, <1>4
<1>6. \A i \in pending : j >= i
  BY <1>1, <1>5
<1>7. Max(pending) \in pending
  BY <1>6 DEF Max
<1>8. QED
  BY <1>7 DEF choice_fixed

(* arbiter_round chooses a port with a packet, the nearest above its       *)
(* register, and only if there is none the nearest above port 0.           *)
LEMMA RoundPending ==
  ASSUME NEW n \in Nat \ {0}, NEW pending, pending \subseteq PortsOf(n), pending # {},
         NEW first \in PortsOf(n)
  PROVE  LET c == choice_round(first, pending)
         IN /\ c \in pending
            /\ \A i \in pending : IF first <= i THEN first <= c /\ c <= i
                                               ELSE first <= c \/ c <= i
<1> DEFINE above == {i \in pending : i >= first}
           seen == IF above = {} THEN pending ELSE above
           c == choice_round(first, pending)
<1>1. seen \subseteq Nat /\ seen # {}
  BY PortNumbers
<1>2. Min(seen) \in seen /\ \A i \in seen : Min(seen) <= i
  BY <1>1, MinNat
<1>3. c = Min(seen)
  BY DEF choice_round
<1>4. \A i \in pending : i \in Nat /\ first \in Nat
  BY PortNumbers
<1>5. CASE above = {}
  BY <1>2, <1>3, <1>4, <1>5
<1>6. CASE above # {}
  BY <1>2, <1>3, <1>4, <1>6
<1>7. QED
  BY <1>5, <1>6

(* arbiter_lru chooses some entry of its register.                         *)
LEMMA LruEntry ==
  ASSUME NEW n \in Nat \ {0}, NEW pending, pending \subseteq PortsOf(n), pending # {},
         NEW lru \in [PortsOf(n) -> PortsOf(n)]
  PROVE  choice_lru(lru, pending) \in PortsOf(n)
<1>1. pending \subseteq Nat
  BY PortNumbers
<1>2. Min(pending) \in pending
  BY <1>1, MinNat
<1>3. QED
  BY <1>2 DEF choice_lru

(* A choice is a port or none, and with all arbiters but arbiter_lru a     *)
(* port with a packet.                                                     *)
LEMMA ChoiceIs ==
  ASSUME NEW n \in Nat \ {0}, NEW s, NEW wr, NEW mode \in SwitchModes,
         NEW rnd \in PortsOf(n), DOMAIN s.fifo = PortsOf(n),
         s.lru \in [PortsOf(n) -> PortsOf(n)], s.first \in PortsOf(n)
  PROVE  LET choice == Choice(s, wr, mode, rnd)
         IN /\ choice \in PortsOf(n) \cup {NoPort}
            /\ mode # "lru" => choice \in PendingPorts(s, wr) \cup {NoPort}
<1> DEFINE pending == PendingPorts(s, wr)
<1>1. pending \subseteq PortsOf(n)
  BY DEF PendingPorts
<1>2. CASE mode = "fixed"
  <2>1. Choice(s, wr, mode, rnd) = choice_fixed(pending)
    BY <1>2 DEF Choice
  <2>2. choice_fixed(pending) \in pending \cup {NoPort}
    BY <1>1, FixedPending DEF choice_fixed
  <2>3. QED
    BY <1>1, <2>1, <2>2
<1>3. CASE mode = "lru"
  <2>1. Choice(s, wr, mode, rnd) = choice_lru(s.lru, pending)
    BY <1>3 DEF Choice
  <2>2. choice_lru(s.lru, pending) \in PortsOf(n) \cup {NoPort}
    BY <1>1, LruEntry DEF choice_lru
  <2>3. QED
    BY <1>3, <2>1, <2>2
<1>4. CASE mode = "rand"
  <2>1. Choice(s, wr, mode, rnd) = choice_rand(rnd, pending)
    BY <1>4 DEF Choice
  <2>2. choice_rand(rnd, pending) \in pending \cup {NoPort}
    BY DEF choice_rand
  <2>3. QED
    BY <1>1, <2>1, <2>2
<1>5. CASE mode = "round"
  <2>1. Choice(s, wr, mode, rnd) = choice_round(s.first, pending)
    BY <1>5 DEF Choice
  <2>2. choice_round(s.first, pending) \in pending \cup {NoPort}
    BY <1>1, RoundPending DEF choice_round
  <2>3. QED
    BY <1>1, <2>1, <2>2
<1>6. QED
  BY <1>2, <1>3, <1>4, <1>5 DEF SwitchModes

(* Every port is in the register of arbiter_lru.                           *)
KeepsPorts(lru) == \A i \in DOMAIN lru : \E k \in DOMAIN lru : lru[k] = i

(* update_lru keeps it so: what leaves an entry is in the one before it.   *)
LEMMA UpdateKeepsPorts ==
  ASSUME NEW n \in Nat \ {0}, NEW lru \in [PortsOf(n) -> PortsOf(n)],
         NEW served \in PortsOf(n)
  PROVE  /\ update_lru(lru, served) \in [PortsOf(n) -> PortsOf(n)]
         /\ KeepsPorts(lru) => KeepsPorts(update_lru(lru, served))
<1>0. /\ DOMAIN lru = PortsOf(n)
      /\ \A k \in PortsOf(n) : k + 1 \notin PortsOf(n) <=> k = n - 1
      /\ n - 1 \in PortsOf(n) /\ PortsOf(n) = 0..(n - 1)
  BY DEF PortsOf
<1> DEFINE lru2 == update_lru(lru, served)
<1>1. lru2 = [k \in PortsOf(n) |->
                IF k = n - 1 THEN served
                ELSE IF \E m \in 0..k : lru[m] = served THEN lru[k + 1]
                ELSE lru[k]]
  BY <1>0 DEF update_lru
<1>2. lru2 \in [PortsOf(n) -> PortsOf(n)]
  <2>1. \A k \in PortsOf(n) : k # n - 1 => lru[k + 1] \in PortsOf(n)
    BY <1>0
  <2>2. QED
    BY <1>1, <2>1
<1> HIDE DEF lru2
<1>3. ASSUME KeepsPorts(lru), NEW i \in PortsOf(n)
      PROVE  \E k \in PortsOf(n) : lru2[k] = i
  <2>1. PICK q \in PortsOf(n) : lru[q] = i
    BY <1>0, <1>3 DEF KeepsPorts
  <2>2. PICK p \in PortsOf(n) : lru[p] = served
    BY <1>0, <1>3 DEF KeepsPorts
  <2>3. CASE i = served
    <3>1. lru2[n - 1] = served
      BY <1>0, <1>1
    <3>2. QED
      BY <1>0, <2>3, <3>1
  <2>4. CASE i # served /\ \E m \in 0..q : lru[m] = served
    <3>1. PICK m \in 0..q : lru[m] = served
      BY <2>4
    <3>2. q \in 0..(n - 1) /\ m # q
      BY <1>0, <2>1, <2>4, <3>1
    <3>3. m \in 0..(q - 1) /\ q - 1 \in 0..(n - 1)
          /\ q - 1 # n - 1 /\ (q - 1) + 1 = q
      BY <3>2
    <3>4. q - 1 \in PortsOf(n)
      BY <1>0, <3>3
    <3>5. lru2[q - 1] = lru[q]
      BY <1>1, <3>1, <3>3, <3>4
    <3>6. QED
      BY <2>1, <3>4, <3>5
  <2>5. CASE i # served /\ ~ \E m \in 0..q : lru[m] = served
    <3>1. p \in 0..(n - 1) /\ q \in 0..(n - 1) /\ p \notin 0..q
      BY <1>0, <2>2, <2>5
    <3>2. q # n - 1
      BY <3>1
    <3>3. lru2[q] = lru[q]
      BY <1>1, <2>5, <3>2
    <3>4. QED
      BY <2>1, <3>3
  <2>6. QED
    BY <2>3, <2>4, <2>5
<1>4. KeepsPorts(lru) => KeepsPorts(lru2)
  <2>1. DOMAIN lru2 = PortsOf(n)
    BY <1>2
  <2>2. QED
    BY <1>3, <2>1 DEF KeepsPorts
<1>5. QED
  BY <1>2, <1>4 DEF lru2

(* The port after the one chosen is the next to be looked at first.        *)
LEMMA UpdateFirstIs ==
  ASSUME NEW n \in Nat \ {0}, NEW choice \in PortsOf(n)
  PROVE  /\ update_first(choice, PortsOf(n)) = IF choice = n - 1 THEN 0 ELSE choice + 1
         /\ update_first(choice, PortsOf(n)) \in PortsOf(n)
BY DEF update_first, PortsOf

-----------------------------------------------------------------------------
(* A hardware switch at an edge, for every number n of ports and N of      *)
(* stages, s2 being its registers after the edge.                          *)

LEMMA SwitchRegsIs ==
  ASSUME NEW n, NEW N, NEW T, NEW s \in SwitchRegs(n, N, T)
  PROVE  /\ s.fifo \in [PortsOf(n) -> FifoRegs(N, T)] /\ s.rd_ack \in [PortsOf(n) -> Bits]
         /\ s.out0 \in T /\ s.out0_req \in Bits
         /\ s.lru \in [PortsOf(n) -> PortsOf(n)] /\ s.first \in PortsOf(n)
         /\ DOMAIN s.fifo = PortsOf(n)
BY DEF SwitchRegs

(* What an edge does to the registers: without a grant, and with one, g.   *)
SwitchTicked(ports, s, din, wr, ack, choice, s2, g) ==
  /\ \A i \in ports : s2.fifo[i] = FifoTick(s.fifo[i], din[i], wr[i], s.rd_ack[i])
  /\ g \in ports \cup {NoPort}
  /\ g = NoPort => /\ s2.lru = s.lru /\ s2.first = s.first
                   /\ s2.rd_ack = s.rd_ack
                   /\ s2.out0 = s.out0 /\ s2.out0_req = s.out0_req
  /\ g # NoPort => /\ g = choice
                   /\ s2.lru = update_lru(s.lru, g)
                   /\ s2.first = update_first(g, ports)
                   /\ s2.rd_ack = [s.rd_ack EXCEPT ![g] = Not(@)]
                   /\ s2.out0 = LastData(s.fifo[g], din[g])
                   /\ s2.out0_req = Not(s.out0_req)
                   /\ ack = s.out0_req

LEMMA SwitchTickIs ==
  ASSUME NEW n \in Nat \ {0}, NEW N \in Nat, NEW T, NEW s \in SwitchRegs(n, N, T),
         NEW din \in [PortsOf(n) -> T], NEW wr \in [PortsOf(n) -> Bits], NEW ack \in Bits,
         NEW mode \in SwitchModes, NEW rnd \in PortsOf(n),
         NEW s2, s2 = SwitchTick(s, din, wr, ack, mode, rnd),
         NEW g, g = Granted(s, wr, ack, mode, rnd)
  PROVE  /\ s2 \in SwitchRegs(n, N, T)
         /\ SwitchTicked(PortsOf(n), s, din, wr, ack, Choice(s, wr, mode, rnd), s2, g)
<1> DEFINE choice == Choice(s, wr, mode, rnd)
           ticked == [i \in PortsOf(n) |-> FifoTick(s.fifo[i], din[i], wr[i], s.rd_ack[i])]
           moved == [s EXCEPT !.fifo = ticked]
<1>1. /\ s.lru \in [PortsOf(n) -> PortsOf(n)] /\ s.first \in PortsOf(n)
      /\ s.fifo \in [PortsOf(n) -> FifoRegs(N, T)] /\ s.rd_ack \in [PortsOf(n) -> Bits]
      /\ s.out0 \in T /\ s.out0_req \in Bits /\ DOMAIN s.fifo = PortsOf(n)
  BY SwitchRegsIs
<1>2. choice \in PortsOf(n) \cup {NoPort}
  BY <1>1, ChoiceIs
<1>3. ticked \in [PortsOf(n) -> FifoRegs(N, T)]
  BY <1>1, FifoTickType
<1> HIDE DEF choice
<1>4. /\ g \in PortsOf(n) \cup {NoPort}
      /\ g # NoPort => g = choice /\ ack = s.out0_req
  BY <1>2 DEF Granted, choice_used, choice
<1>5. [s EXCEPT !.fifo = [i \in PortsOf(n) |->
                            FifoTick(@[i], din[i], wr[i], s.rd_ack[i])]] = moved
  BY DEF SwitchRegs
<1>6. s2 = IF g = NoPort THEN moved
           ELSE [moved EXCEPT !.out0 = LastData(s.fifo[g], din[g]),
                              !.rd_ack[g] = Not(@),
                              !.out0_req = Not(@),
                              !.lru = update_lru(@, g),
                              !.first = update_first(g, PortsOf(n))]
  BY <1>1, <1>5 DEF SwitchTick
<1> HIDE DEF ticked
<1>7. moved \in SwitchRegs(n, N, T)
  BY <1>3 DEF SwitchRegs
<1>8. /\ moved.lru = s.lru /\ moved.first = s.first
      /\ moved.fifo = ticked /\ moved.rd_ack = s.rd_ack
      /\ moved.out0 = s.out0 /\ moved.out0_req = s.out0_req
  BY DEF SwitchRegs
<1>9. \A i \in PortsOf(n) : ticked[i] = FifoTick(s.fifo[i], din[i], wr[i], s.rd_ack[i])
  BY DEF ticked
<1>10. CASE g = NoPort
  BY <1>4, <1>6, <1>7, <1>8, <1>9, <1>10 DEF SwitchTicked
<1>11. CASE g # NoPort
  <2> DEFINE word == LastData(s.fifo[g], din[g])
             acks == [s.rd_ack EXCEPT ![g] = Not(@)]
             lru2 == update_lru(s.lru, g)
             first2 == update_first(g, PortsOf(n))
             end == [moved EXCEPT !.out0 = word, !.rd_ack = acks,
                                  !.out0_req = Not(s.out0_req),
                                  !.lru = lru2, !.first = first2]
  <2>1. g \in PortsOf(n) /\ g = choice
    BY <1>4, <1>11
  <2>2. word \in T
    <3>1. s.fifo[g] \in FifoRegs(N, T) /\ din[g] \in T /\ wr[g] \in Bits /\ s.rd_ack[g] \in Bits
      BY <1>1, <2>1
    <3>2. Data(s.fifo[g], din[g], N) \in T
      BY <3>1, FifoTickType
    <3>3. QED
      BY <3>1, <3>2, StagesIs DEF LastData
  <2>3. acks \in [PortsOf(n) -> Bits] /\ Not(s.out0_req) \in Bits
    BY <1>1, BitsFlip
  <2>4. lru2 \in [PortsOf(n) -> PortsOf(n)] /\ first2 \in PortsOf(n)
    BY <1>1, <2>1, UpdateKeepsPorts, UpdateFirstIs
  <2>5. s2 = [moved EXCEPT !.out0 = word, !.rd_ack[g] = Not(@), !.out0_req = Not(@),
                           !.lru = update_lru(@, g), !.first = first2]
    BY <1>6, <1>11
  <2> HIDE DEF word, lru2, first2, moved
  <2>6. s2 = end
    BY <1>7, <1>8, <2>5 DEF SwitchRegs, lru2
  <2> HIDE DEF acks
  <2>7. /\ end \in SwitchRegs(n, N, T)
        /\ end.lru = lru2 /\ end.first = first2
        /\ end.fifo = ticked /\ end.rd_ack = acks /\ end.out0 = word
        /\ end.out0_req = Not(s.out0_req)
    BY <1>7, <1>8, <2>2, <2>3, <2>4 DEF SwitchRegs
  <2> HIDE DEF end
  <2>8. QED
    BY <1>4, <1>9, <1>11, <2>1, <2>6, <2>7 
            DEF word, acks, lru2, first2, choice, SwitchTicked
<1>12. QED
  BY <1>10, <1>11

(* The queue q of port i becomes q2: it gives exactly if its port is g,    *)
(* the granted one, and what it gives is word.                             *)
PortStep(N, q, q2, d2, wr, rd, w2, rd2, i, g, word) ==
  /\ QueueStep(N, q, q2, d2, wr, rd, w2, rd2)
  /\ rd2 # rd <=> i = g
  /\ i = g => q # <<>> /\ Head(q) = word

(* The FIFO of port i: it gives exactly if its port is granted, and what   *)
(* it gives is on the output bus.  Nothing is known of the arbiter_lru.    *)
LEMMA SwitchPort ==
  ASSUME NEW n \in Nat \ {0}, NEW N \in Nat, NEW T, NEW s \in SwitchRegs(n, N, T),
         NEW din \in [PortsOf(n) -> T], NEW wr \in [PortsOf(n) -> Bits], NEW ack \in Bits,
         NEW mode \in SwitchModes \ {"lru"}, NEW rnd \in PortsOf(n),
         NEW s2, s2 = SwitchTick(s, din, wr, ack, mode, rnd),
         NEW g, g = Granted(s, wr, ack, mode, rnd),
         NEW i \in PortsOf(n), NEW d2 \in T, NEW w2 \in Bits,
         w2 # wr[i] => ~BusFull(s.fifo[i], wr[i], s.rd_ack[i], 0),
         w2 = wr[i] /\ BusFull(s.fifo[i], wr[i], s.rd_ack[i], 0) => d2 = din[i],
         NEW q, q = Content(s.fifo[i], din[i], wr[i], s.rd_ack[i]),
         NEW q2, q2 = Content(s2.fifo[i], d2, w2, s2.rd_ack[i])
  PROVE  PortStep(N, q, q2, d2, wr[i], s.rd_ack[i], w2, s2.rd_ack[i], i, g, s2.out0)
<1> DEFINE f == s.fifo[i]
           rd == s.rd_ack[i]
           rd2 == s2.rd_ack[i]
<1>1. /\ f \in FifoRegs(N, T) /\ rd \in Bits /\ din[i] \in T /\ wr[i] \in Bits
      /\ s.rd_ack \in [PortsOf(n) -> Bits]
      /\ s.lru \in [PortsOf(n) -> PortsOf(n)] /\ s.first \in PortsOf(n)
      /\ DOMAIN s.fifo = PortsOf(n)
  BY SwitchRegsIs
<1>2. /\ s2.fifo[i] = FifoTick(f, din[i], wr[i], rd)
      /\ g = NoPort => s2.rd_ack = s.rd_ack
      /\ g # NoPort => /\ g = Choice(s, wr, mode, rnd)
                       /\ s2.rd_ack = [s.rd_ack EXCEPT ![g] = Not(@)]
                       /\ s2.out0 = LastData(s.fifo[g], din[g])
  BY SwitchTickIs DEF SwitchTicked
<1>3. i # NoPort
  BY PortNumbers
<1>4. rd2 \in Bits /\ (rd2 # rd <=> i = g)
  <2>1. rd2 = IF i = g THEN Not(rd) ELSE rd
    BY <1>1, <1>2, <1>3
  <2>2. QED
    BY <1>1, <2>1, BitsFlip
<1>5. NbStages(f) = N
  BY <1>1, StagesIs
<1>6. ASSUME i = g
      PROVE  BusFull(f, wr[i], rd, N) /\ s2.out0 = Data(f, din[i], N)
  <2>1. i = Choice(s, wr, mode, rnd)
    BY <1>2, <1>3, <1>6
  <2>2. i \in PendingPorts(s, wr)
    BY <1>1, <1>3, <2>1, ChoiceIs
  <2>3. QED
    BY <1>2, <1>3, <1>5, <1>6, <2>2 DEF PendingPorts, LastBusFull, LastData
<1>7. QueueStep(N, q, q2, d2, wr[i], rd, w2, rd2)
  <2>1. q = Content(f, din[i], wr[i], rd)
    OBVIOUS
  <2>2. q2 = Content(FifoTick(f, din[i], wr[i], rd), d2, w2, rd2)
    BY <1>2
  <2>3. rd2 # rd => BusFull(f, wr[i], rd, N)
    BY <1>4, <1>6
  <2> HIDE DEF f, rd, rd2
  <2>4. /\ w2 # wr[i] => ~BusFull(f, wr[i], rd, 0)
        /\ w2 = wr[i] /\ BusFull(f, wr[i], rd, 0) => d2 = din[i]
    BY DEF f, rd
  <2>5. QueueStep(N, Content(f, din[i], wr[i], rd),
                  Content(FifoTick(f, din[i], wr[i], rd), d2, w2, rd2),
                  d2, wr[i], rd, w2, rd2)
    BY <1>1, <1>4, <2>3, <2>4, ChainQueue
  <2>6. QED
    BY <2>1, <2>2, <2>5
<1>8. i = g => q # <<>> /\ Head(q) = s2.out0
  <2>1. LET c == Content(f, din[i], wr[i], rd)
        IN BusFull(f, wr[i], rd, N) => c # <<>> /\ Head(c) = Data(f, din[i], N)
    <3> HIDE DEF f, rd
    <3>1. QED
      BY <1>1, ContentType
  <2>2. QED
    BY <1>6, <2>1
<1>9. QED
  BY <1>4, <1>7, <1>8 DEF PortStep

(* The output bus: a packet is put on it at a grant, and only if it is     *)
(* free.                                                                   *)
LEMMA SwitchOutput ==
  ASSUME NEW n \in Nat \ {0}, NEW N \in Nat, NEW T, NEW s \in SwitchRegs(n, N, T),
         NEW din \in [PortsOf(n) -> T], NEW wr \in [PortsOf(n) -> Bits], NEW ack \in Bits,
         NEW mode \in SwitchModes, NEW rnd \in PortsOf(n),
         NEW s2, s2 = SwitchTick(s, din, wr, ack, mode, rnd),
         NEW g, g = Granted(s, wr, ack, mode, rnd)
  PROVE  /\ g \in PortsOf(n) \cup {NoPort}
         /\ s2.out0_req # s.out0_req <=> g # NoPort
         /\ g # NoPort => s.out0_req = ack
         /\ g = NoPort => s2.out0 = s.out0
<1>1. s.out0_req \in Bits
  BY SwitchRegsIs
<1>2. QED
  <2>1. Not(s.out0_req) # s.out0_req
    BY <1>1, BitsFlip
  <2>2. /\ g \in PortsOf(n) \cup {NoPort}
        /\ g = NoPort => s2.out0 = s.out0 /\ s2.out0_req = s.out0_req
        /\ g # NoPort => s2.out0_req = Not(s.out0_req) /\ ack = s.out0_req
    <3>1. SwitchTicked(PortsOf(n), s, din, wr, ack, Choice(s, wr, mode, rnd), s2, g)
      BY SwitchTickIs, Zenon
    <3>2. QED
      BY <3>1 DEF SwitchTicked
  <2>3. QED
    BY <2>1, <2>2

(* An input bus that is not full is not acknowledged.                      *)
LEMMA SwitchAck ==
  ASSUME NEW n \in Nat \ {0}, NEW N \in Nat, NEW T, NEW s \in SwitchRegs(n, N, T),
         NEW din \in [PortsOf(n) -> T], NEW wr \in [PortsOf(n) -> Bits], NEW ack \in Bits,
         NEW mode \in SwitchModes \ {"lru"}, NEW rnd \in PortsOf(n),
         NEW s2, s2 = SwitchTick(s, din, wr, ack, mode, rnd),
         NEW i \in PortsOf(n)
  PROVE  /\ WrAck(s, i) \in Bits /\ WrAck(s2, i) \in Bits
         /\ BusFull(s.fifo[i], wr[i], s.rd_ack[i], 0) <=> wr[i] # WrAck(s, i)
         /\ WrAck(s2, i) # WrAck(s, i) => WrAck(s, i) # wr[i]
<1> DEFINE f == s.fifo[i]
           f2 == s2.fifo[i]
           rd == s.rd_ack[i]
           rd2 == s2.rd_ack[i]
           w == wr[i]
           g == Granted(s, wr, ack, mode, rnd)
<1>1. /\ f \in FifoRegs(N, T) /\ rd \in Bits /\ din[i] \in T /\ w \in Bits
      /\ s.rd_ack \in [PortsOf(n) -> Bits]
      /\ s.lru \in [PortsOf(n) -> PortsOf(n)] /\ s.first \in PortsOf(n)
      /\ DOMAIN s.fifo = PortsOf(n)
  BY SwitchRegsIs
<1>2. /\ f2 = FifoTick(f, din[i], w, rd)
      /\ s2 \in SwitchRegs(n, N, T)
      /\ g = NoPort => s2.rd_ack = s.rd_ack
      /\ g # NoPort => /\ g = Choice(s, wr, mode, rnd)
                       /\ s2.rd_ack = [s.rd_ack EXCEPT ![g] = Not(@)]
  BY SwitchTickIs DEF SwitchTicked
<1>3. f2 \in FifoRegs(N, T) /\ rd2 \in Bits
  BY <1>2, SwitchRegsIs
<1>4. /\ NbStages(f) = N /\ NbStages(f2) = N
      /\ f.pred_ack \in [1..N -> Bits] /\ f2.pred_ack \in [1..N -> Bits]
  BY <1>1, <1>3, StagesIs
<1> HIDE DEF g
<1>5. CASE N = 0
  <2>1. WrAck(s, i) = rd /\ WrAck(s2, i) = rd2
    BY <1>4, <1>5 DEF WrAck, Ack
  <2>2. BusFull(f, w, rd, 0) <=> w # rd
    BY <1>4, <1>5 DEF BusFull, Req, Ack
  <2>3. ASSUME rd2 # rd PROVE BusFull(f, w, rd, 0)
    <3>1. i = g /\ g # NoPort /\ g = Choice(s, wr, mode, rnd)
      BY <1>1, <1>2, <2>3, PortNumbers
    <3>2. i \in PendingPorts(s, wr)
      BY <1>1, <3>1, ChoiceIs
    <3>3. QED
      BY <1>4, <1>5, <3>2 DEF PendingPorts, LastBusFull
  <2>4. QED
    BY <1>1, <1>3, <2>1, <2>2, <2>3
<1>6. CASE N # 0
  <2>1. /\ 0 # N /\ 0 + 1 = 1 /\ 1 \in 1..N
    BY <1>6
  <2>2. WrAck(s, i) = f.pred_ack[1] /\ WrAck(s2, i) = f2.pred_ack[1]
    BY <1>4, <2>1 DEF WrAck, Ack
  <2>3. BusFull(f, w, rd, 0) <=> w # f.pred_ack[1]
    BY <1>4, <2>1 DEF BusFull, Req, Ack
  <2>4. f2.pred_ack[1] # f.pred_ack[1] => Moves(f, w, rd, 1)
    BY <1>2, <1>4, <2>1 DEF FifoTick
  <2>5. Moves(f, w, rd, 1) => BusFull(f, w, rd, 0)
    BY DEF Moves
  <2>6. f.pred_ack[1] \in Bits /\ f2.pred_ack[1] \in Bits
    BY <1>4, <2>1
  <2> HIDE DEF f, f2, rd, w
  <2>7. QED
    BY <2>2, <2>3, <2>4, <2>5, <2>6 DEF f, rd, w
<1>7. QED
  BY <1>5, <1>6

-----------------------------------------------------------------------------
(* The start, and a reset: every wire is low and every FIFO empty.         *)
LEMMA FreshRegs ==
  ASSUME NEW N \in Nat, NEW T, NEW d \in T
  PROVE  /\ InitRegs(N, d) \in FifoRegs(N, T)
         /\ Content(InitRegs(N, d), d, 0, 0) = <<>>
         /\ \A f \in FifoRegs(N, T) : /\ ResetRegs(f) \in FifoRegs(N, T)
                                      /\ \A e : Content(ResetRegs(f), e, 0, 0) = <<>>
<1>1. [k \in 1..N |-> 0] \in [1..N -> Bits]
  BY DEF Bits
<1>2. /\ InitRegs(N, d) \in FifoRegs(N, T)
      /\ InitRegs(N, d).succ_req = [k \in 1..N |-> 0]
      /\ InitRegs(N, d).pred_ack = [k \in 1..N |-> 0]
  BY <1>1 DEF InitRegs, FifoRegs
<1>3. Content(InitRegs(N, d), d, 0, 0) = <<>>
  BY <1>2, FreshChain
<1>4. ASSUME NEW f \in FifoRegs(N, T)
      PROVE  /\ ResetRegs(f) \in FifoRegs(N, T)
             /\ \A e : Content(ResetRegs(f), e, 0, 0) = <<>>
  <2>1. NbStages(f) = N
    BY StagesIs
  <2>2. /\ ResetRegs(f) \in FifoRegs(N, T)
        /\ ResetRegs(f).succ_req = [k \in 1..N |-> 0]
        /\ ResetRegs(f).pred_ack = [k \in 1..N |-> 0]
    BY <1>1, <2>1 DEF ResetRegs, FifoRegs
  <2>3. QED
    BY <2>2, FreshChain
<1>5. QED
  BY <1>2, <1>3, <1>4

LEMMA FreshLru ==
  ASSUME NEW n \in Nat \ {0}
  PROVE  /\ ResetLru(PortsOf(n)) \in [PortsOf(n) -> PortsOf(n)]
         /\ KeepsPorts(ResetLru(PortsOf(n)))
BY DEF ResetLru, KeepsPorts

SwitchIsReset(s, ports, d) ==
  /\ s.out0_req = 0 /\ s.out0 = d
  /\ s.lru = ResetLru(ports) /\ s.first = 0
  /\ \A i \in ports : s.rd_ack[i] = 0 /\ WrAck(s, i) = 0

(* With its wires low a FIFO is empty, whatever is on its data wires.      *)
FifosEmpty(fifo, ports) == \A i \in ports : \A e : Content(fifo[i], e, 0, 0) = <<>>

LEMMA InitSwitchIs ==
  ASSUME NEW n \in Nat \ {0}, NEW N \in Nat, NEW T, NEW d \in T,
         NEW s, s = InitSwitch(n, N, d)
  PROVE  /\ s \in SwitchRegs(n, N, T) /\ SwitchIsReset(s, PortsOf(n), d)
         /\ \A i \in PortsOf(n) : s.fifo[i] = InitRegs(N, d)
<1>1. /\ s.out0_req = 0 /\ s.out0 = d /\ s.lru = ResetLru(PortsOf(n)) /\ s.first = 0
      /\ s.rd_ack = [i \in PortsOf(n) |-> 0]
      /\ s.fifo = [i \in PortsOf(n) |-> InitRegs(N, d)]
  BY DEF InitSwitch
<1>2. s \in SwitchRegs(n, N, T)
  BY FreshRegs, FreshLru, PortNumbers DEF InitSwitch, SwitchRegs, Bits
<1>3. ASSUME NEW i \in PortsOf(n) PROVE WrAck(s, i) = 0
  <2>1. s.fifo[i] = InitRegs(N, d) /\ s.rd_ack[i] = 0 /\ s.fifo[i] \in FifoRegs(N, T)
    BY <1>1, FreshRegs
  <2>2. NbStages(s.fifo[i]) = N
    BY <2>1, StagesIs
  <2>3. N # 0 => InitRegs(N, d).pred_ack[1] = 0
    BY DEF InitRegs
  <2>4. QED
    BY <2>1, <2>2, <2>3 DEF WrAck, Ack
<1>4. QED
  BY <1>1, <1>2, <1>3 DEF SwitchIsReset

LEMMA ResetSwitchIs ==
  ASSUME NEW n \in Nat \ {0}, NEW N \in Nat, NEW T, NEW s \in SwitchRegs(n, N, T),
         NEW s2, s2 = ResetSwitch(s)
  PROVE  /\ s2 \in SwitchRegs(n, N, T) /\ SwitchIsReset(s2, PortsOf(n), s.out0)
         /\ FifosEmpty(s2.fifo, PortsOf(n))
<1>0. /\ s.fifo \in [PortsOf(n) -> FifoRegs(N, T)]
      /\ DOMAIN s.fifo = PortsOf(n) /\ s.out0 \in T
  BY SwitchRegsIs
<1>1. /\ s2.out0_req = 0 /\ s2.out0 = s.out0
      /\ s2.lru = ResetLru(PortsOf(n)) /\ s2.first = 0
      /\ s2.rd_ack = [i \in PortsOf(n) |-> 0]
      /\ s2.fifo = [i \in PortsOf(n) |-> ResetRegs(s.fifo[i])]
  BY <1>0 DEF ResetSwitch, SwitchRegs
<1>2. [i \in PortsOf(n) |-> ResetRegs(s.fifo[i])] \in [PortsOf(n) -> FifoRegs(N, T)]
  <2>1. \A f \in FifoRegs(N, T) : ResetRegs(f) \in FifoRegs(N, T)
    BY <1>0, FreshRegs
  <2>2. QED
    BY <1>0, <2>1
<1>3. s2 \in SwitchRegs(n, N, T)
  BY <1>0, <1>2, FreshLru, PortNumbers DEF ResetSwitch, SwitchRegs, Bits
<1>4. ASSUME NEW i \in PortsOf(n)
      PROVE  /\ s2.rd_ack[i] = 0
             /\ \A e : Content(s2.fifo[i], e, 0, 0) = <<>>
             /\ WrAck(s2, i) = 0
  <2>1. /\ s2.fifo[i] = ResetRegs(s.fifo[i]) /\ s2.rd_ack[i] = 0
        /\ s.fifo[i] \in FifoRegs(N, T) /\ s2.fifo[i] \in FifoRegs(N, T)
    BY <1>0, <1>1, <1>2
  <2>2. NbStages(s2.fifo[i]) = N /\ NbStages(s.fifo[i]) = N
    BY <2>1, StagesIs
  <2>3. N # 0 => ResetRegs(s.fifo[i]).pred_ack[1] = 0
    BY <2>1, <2>2 DEF ResetRegs, FifoRegs
  <2>4. WrAck(s2, i) = 0
    BY <2>1, <2>2, <2>3 DEF WrAck, Ack
  <2>5. \A e : Content(s2.fifo[i], e, 0, 0) = <<>>
    <3>1. \A f \in FifoRegs(N, T) : \A e : Content(ResetRegs(f), e, 0, 0) = <<>>
      BY <1>0, FreshRegs
    <3>2. \A e : Content(ResetRegs(s.fifo[i]), e, 0, 0) = <<>>
      BY <2>1, <3>1, Zenon
    <3>3. QED
      BY <2>1, <3>2
  <2>6. QED
    BY <2>1, <2>4, <2>5
<1>5. QED
  BY <1>1, <1>3, <1>4 DEF SwitchIsReset, FifosEmpty

=============================================================================

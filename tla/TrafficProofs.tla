---------------------------- MODULE TrafficProofs ----------------------------
(***************************************************************************)
(* Theorems about the two ends of a simulation.  Traffic: pace, quota and  *)
(* life times for every period, burst length, range of addresses and       *)
(* length of an emission.  Tracer: for any number of inputs, places,       *)
(* extras and contents, as long as no content is used twice at a time,     *)
(* every extra belongs to one packet under way and is freed with it.       *)
(***************************************************************************)
EXTENDS Traffic, Tracer, SequenceTheorems, TLAPS


(* What the quotient of generate() says about the product.                 *)
LEMMA QuotientBound ==
  ASSUME NEW n \in Nat, NEW d \in Nat \ {0}, NEW p \in Nat, n \div d >= p
  PROVE  p * d <= n
<1> DEFINE q == n \div d
<1>1. q \in Nat /\ q * d <= n
  OBVIOUS
<1>2. q >= p /\ d >= 0
  OBVIOUS
<1> HIDE DEF q
<1>3. p * d <= q * d
  BY <1>1, <1>2, SMTT(30)
<1>4. p * d \in Nat /\ q * d \in Nat
  BY <1>1
<1>5. QED
  BY <1>1, <1>3, <1>4

(* And of the product when it is too small.                                *)
LEMMA QuotientBelow ==
  ASSUME NEW n \in Nat, NEW d \in Nat \ {0}, NEW p \in Nat, n \div d < p
  PROVE  n < p * d
<1> DEFINE q == n \div d
<1>1. q \in Nat /\ n < q * d + d
  OBVIOUS
<1>2. q + 1 <= p
  BY <1>1
<1> HIDE DEF q
<1>3. (q + 1) * d <= p * d
  BY <1>1, <1>2, SMTT(30)
<1>4. (q + 1) * d = q * d + d
  BY <1>1
<1>5. p * d \in Nat /\ q * d \in Nat
  BY <1>1
<1>6. QED
  BY <1>1, <1>3, <1>4, <1>5

-----------------------------------------------------------------------------
(* The inductive invariant.                                                *)

Types ==
  /\ kind \in {"stream", "burst"}
  /\ count \in Nat
  /\ counterRun \in BOOLEAN
  /\ pc \in {"wait", "run", "emitting"}
  /\ length \in Nat
  /\ since \in Nat
  /\ packets \in Nat
  /\ life \in 0..255
  /\ used \in Nat

Pending == IF counterRun THEN 1 ELSE 0

(* The count, with the edge clock_counter() has not yet seen, is right or  *)
(* one too many: generate() may set it to zero before clock_counter() runs *)
(* at the same edge.                                                       *)
CountFollows == since <= count + Pending /\ count + Pending <= since + 1

(* A stream sets its count to zero when an emission begins.                *)
StreamCounts == kind = "stream" /\ pc = "emitting" => since = length

(* What the third argument of set_burst() bounds: a burst has no more       *)
(* packets than short periods begin in that many edges.                    *)
BurstBounded == packets > 0 => (packets - 1) * ShortPeriod < BurstLength

IInv ==
  Types /\ CountFollows /\ StreamCounts /\ NotTooSlow /\ BurstBounded /\ LeftInTime

(* A drawn life time has eight bits.                                       *)
LEMMA DrawnLife ==
  ASSUME NEW a, NEW l, choose_new_random_address(a, l)
  PROVE  l \in 0..255
BY LifeTimeAssumption DEF choose_new_random_address

LEMMA InitIInv ==
  Init => IInv
<1> SUFFICES ASSUME Init PROVE IInv
  OBVIOUS
<1>1. life \in 0..255
  BY DrawnLife DEF Init, GeneratorInit
<1>2. Types
  BY <1>1 DEF Init, GeneratorInit, Types
<1>3. CountFollows /\ StreamCounts /\ NotTooSlow
  BY PeriodsAssumption
  DEF Init, GeneratorInit, CountFollows, Pending, StreamCounts, NotTooSlow
<1>4. BurstBounded /\ LeftInTime
  BY <1>1 DEF Init, GeneratorInit, BurstBounded, LeftInTime
<1>5. QED
  BY <1>2, <1>3, <1>4 DEF IInv

(* get_address(): the countdown and its wrap.                              *)
LEMMA GetAddressLife ==
  ASSUME Types, LeftInTime, get_address
  PROVE  life' \in 0..255 /\ used' \in Nat /\ LeftInTime'
<1> DEFINE left == (life - 1) % 256
<1>1. left = IF life = 0 THEN 255 ELSE life - 1
  BY DEF Types
<1>2. CASE left = 0
  <2>1. used' = 0
    BY <1>2 DEF get_address
  <2>2. life' \in 0..255
    <3>1. choose_new_random_address(address', life')
      BY <1>2 DEF get_address
    <3>2. QED
      BY <3>1, DrawnLife
  <2>3. \A n \in 0..255 : 0 + n <= 256
    OBVIOUS
  <2>4. used' + life' <= 256
    BY <2>1, <2>2, <2>3
  <2>5. ~(used' > 0) /\ used' \in Nat
    BY <2>1
  <2>6. QED
    BY <2>2, <2>4, <2>5 DEF LeftInTime
<1>3. CASE left # 0
  <2>1. life' = left /\ used' = used + 1
    BY <1>3 DEF get_address
  <2>2. left \in 1..255
    BY <1>1, <1>3 DEF Types
  <2> HIDE DEF left
  <2>3. life' \in 0..255 /\ used' \in Nat /\ life' > 0
    BY <2>1, <2>2 DEF Types
  <2>4. used' + life' <= 256
    BY <1>1, <2>1, <2>2 DEF Types, LeftInTime
  <2>5. QED
    BY <2>3, <2>4 DEF LeftInTime
<1>4. QED
  BY <1>2, <1>3

LEMMA EdgeIInv ==
  IInv /\ UNCHANGED <<kind, packets>> /\ (PosEdge \/ clock_counter) => IInv'
<1> SUFFICES ASSUME IInv, UNCHANGED <<kind, packets>>, PosEdge \/ clock_counter
             PROVE  IInv'
  OBVIOUS
<1>1. UNCHANGED <<life, used>>
  BY DEF PosEdge, clock_counter, addressVars
<1> DEFINE pos == /\ counterRun' = TRUE /\ counterRun = FALSE
                  /\ since' = since + 1 /\ count' = count
                  /\ \/ pc = "wait" /\ pc' = "run" /\ length' = length
                     \/ pc = "emitting" /\ pc' = pc /\ length' = length + 1
           counted == /\ counterRun = TRUE /\ counterRun' = FALSE
                      /\ count' = count + 1 /\ pc' = pc /\ length' = length
                      /\ since' = since
<1>2. pos \/ counted
  BY DEF IInv, Types, PosEdge, clock_counter
<1>3. BurstBounded' /\ LeftInTime'
  BY <1>1 DEF IInv, BurstBounded, LeftInTime
<1>4. Types'
  <2>1. kind' = kind /\ packets' = packets /\ life' = life /\ used' = used
    BY <1>1
  <2>2. count' \in Nat /\ since' \in Nat /\ length' \in Nat
    BY <1>2 DEF IInv, Types
  <2>3. counterRun' \in BOOLEAN
    BY <1>2, Zenon
  <2>4. pc' \in {"wait", "run", "emitting"}
    BY <1>2 DEF IInv, Types
  <2>5. QED
    BY <2>1, <2>2, <2>3, <2>4 DEF IInv, Types
<1>5. CountFollows' /\ StreamCounts' /\ NotTooSlow'
  BY <1>2 DEF IInv, Types, CountFollows, Pending, StreamCounts, NotTooSlow
<1>6. QED
  BY <1>3, <1>4, <1>5 DEF IInv

LEMMA StreamIInv ==
  IInv /\ kind = "stream" /\ UNCHANGED kind /\ (StreamEmit \/ StreamRest \/ StreamReturn)
    => IInv'
<1> SUFFICES ASSUME IInv, kind = "stream", UNCHANGED kind,
                    StreamEmit \/ StreamRest \/ StreamReturn
             PROVE  IInv'
  OBVIOUS
<1>1. CASE StreamEmit
  <2>1. /\ count' = 0 /\ since' = 0 /\ packets' = packets
        /\ pc' = "emitting" /\ length' = 0 /\ counterRun' = counterRun
    BY <1>1 DEF StreamEmit, EmissionStarts, reset_clock_count
  <2>2. life' \in 0..255 /\ used' \in Nat /\ LeftInTime'
    BY <1>1, GetAddressLife DEF IInv, StreamEmit, EmissionStarts
  <2>3. Types'
    BY <2>1, <2>2 DEF IInv, Types
  <2>4. CountFollows' /\ StreamCounts' /\ NotTooSlow' /\ BurstBounded'
    BY <2>1 DEF IInv, Types, CountFollows, Pending, StreamCounts, NotTooSlow, BurstBounded
  <2>5. QED
    BY <2>2, <2>3, <2>4 DEF IInv
<1>2. CASE StreamRest
  <2>1. /\ count < Period /\ pc' = "wait"
        /\ UNCHANGED <<count, since, packets, counterRun, length, life, used>>
    BY <1>2 DEF StreamRest, NothingDue, addressVars
  <2>2. Types' /\ LeftInTime' /\ BurstBounded'
    BY <2>1 DEF IInv, Types, LeftInTime, BurstBounded
  <2>3. since' <= Period
    BY <2>1, PeriodsAssumption DEF IInv, Types, CountFollows, Pending
  <2>4. CountFollows' /\ StreamCounts' /\ NotTooSlow'
    BY <2>1, <2>3 DEF IInv, Types, CountFollows, Pending, StreamCounts, NotTooSlow
  <2>5. QED
    BY <2>2, <2>4 DEF IInv
<1>3. CASE StreamReturn
  <2>1. /\ pc = "emitting" /\ pc' = "wait"
        /\ UNCHANGED <<count, since, packets, counterRun, length, life, used>>
    BY <1>3 DEF StreamReturn, EmissionEnds, addressVars
  <2>2. Types' /\ LeftInTime' /\ BurstBounded'
    BY <2>1 DEF IInv, Types, LeftInTime, BurstBounded
  <2>3. CountFollows' /\ StreamCounts' /\ NotTooSlow'
    BY <2>1 DEF IInv, Types, CountFollows, Pending, StreamCounts, NotTooSlow
  <2>4. QED
    BY <2>2, <2>3 DEF IInv
<1>4. QED
  BY <1>1, <1>2, <1>3

LEMMA BurstIInv ==
  IInv /\ kind = "burst" /\ UNCHANGED kind /\ (BurstEmit \/ BurstRest \/ BurstReturn)
    => IInv'
<1> SUFFICES ASSUME IInv, kind = "burst", UNCHANGED kind,
                    BurstEmit \/ BurstRest \/ BurstReturn
             PROVE  IInv'
  OBVIOUS
<1>1. ShortPeriod \in Nat \ {0} /\ BurstLength \in Nat
  BY PeriodsAssumption
<1>2. CASE BurstEmit
  <2>1. /\ Due /\ packets' = packets + 1 /\ UNCHANGED <<count, since, counterRun>>
        /\ pc' = "emitting" /\ length' = 0
    BY <1>2 DEF BurstEmit, EmissionStarts
  <2>2. life' \in 0..255 /\ used' \in Nat /\ LeftInTime'
    BY <1>2, GetAddressLife DEF IInv, BurstEmit, EmissionStarts
  <2>3. Types'
    BY <2>1, <2>2 DEF IInv, Types
  <2>4. BurstBounded'
    <3>1. packets * ShortPeriod <= count /\ count < BurstLength
      BY <1>1, <2>1, QuotientBound DEF Due, IInv, Types
    <3>2. packets' - 1 = packets
      BY <2>1 DEF IInv, Types
    <3>3. packets * ShortPeriod \in Nat
      BY <1>1 DEF IInv, Types
    <3>4. packets * ShortPeriod < BurstLength
      BY <1>1, <3>1, <3>3 DEF IInv, Types
    <3>5. QED
      BY <3>2, <3>4 DEF BurstBounded
  <2>5. CountFollows' /\ StreamCounts' /\ NotTooSlow'
    BY <2>1 DEF IInv, Types, CountFollows, Pending, StreamCounts, NotTooSlow
  <2>6. QED
    BY <2>2, <2>3, <2>4, <2>5 DEF IInv
<1>3. CASE BurstRest \/ BurstReturn
  <2>1. NewBurst /\ pc' = "wait" /\ UNCHANGED <<counterRun, length, life, used>>
    BY <1>3 DEF BurstRest, BurstReturn, NothingDue, EmissionEnds, addressVars
  <2>2. \/ count' = 0 /\ since' = 0 /\ packets' = 0
        \/ UNCHANGED <<count, since, packets>>
    BY <2>1 DEF NewBurst, reset_clock_count
  <2>3. Types' /\ LeftInTime'
    BY <2>1, <2>2 DEF IInv, Types, LeftInTime
  <2>4. BurstBounded'
    BY <2>2 DEF IInv, BurstBounded
  <2>5. CountFollows' /\ StreamCounts' /\ NotTooSlow'
    BY <2>1, <2>2 DEF IInv, Types, CountFollows, Pending, StreamCounts, NotTooSlow
  <2>6. QED
    BY <2>3, <2>4, <2>5 DEF IInv
<1>4. QED
  BY <1>2, <1>3

LEMMA NextIInv ==
  IInv /\ [Next]_vars => IInv'
<1>1. IInv /\ UNCHANGED vars => IInv'
  BY DEF IInv, Types, CountFollows, Pending, StreamCounts, NotTooSlow, BurstBounded,
         LeftInTime, vars, clockVars, addressVars
<1>2. QED
  BY <1>1, EdgeIInv, StreamIInv, BurstIInv DEF Next

LEMMA Invariance ==
  Spec => []IInv
BY InitIInv, NextIInv, PTL DEF Spec

-----------------------------------------------------------------------------
(* A stream's next packet is not late (stream_generator::generate).        *)
THEOREM NotTooSlowCorrect == Spec => []NotTooSlow
<1>1. IInv => NotTooSlow
  BY DEF IInv
<1>2. QED
  BY <1>1, Invariance, PTL

(* A burst is bounded by its length in edges, however long the router holds *)
(* its packets (burst_generator::generate, _burst_length).                 *)
THEOREM BurstBoundedCorrect == Spec => []BurstBounded
<1>1. IInv => BurstBounded
  BY DEF IInv
<1>2. QED
  BY <1>1, Invariance, PTL

(* An address serves at most 256 packets (get_address).                    *)
THEOREM LifeTimeCorrect == Spec => []LeftInTime
<1>1. IInv => LeftInTime
  BY DEF IInv
<1>2. QED
  BY <1>1, Invariance, PTL

(* A stream is not too fast, in whatever order the threads run.            *)
THEOREM NotTooFastCorrect == Spec => NotTooFast
<1>1. IInv /\ [Next]_vars => [kind = "stream" /\ StreamEmit => since >= Period - 1]_vars
  <2> SUFFICES ASSUME IInv, StreamEmit PROVE since >= Period - 1
    OBVIOUS
  <2>1. count >= Period
    BY DEF StreamEmit
  <2>2. QED
    BY <2>1, PeriodsAssumption DEF IInv, Types, CountFollows, Pending
<1>2. QED
  BY <1>1, Invariance, PTL DEF Spec, NotTooFast

(* No packet of a burst is ahead of its time, none is left overdue while   *)
(* generate() rests (burst_generator::generate).                           *)
THEOREM ScheduleCorrect == Spec => ScheduleKept
<1> DEFINE p == packets * ShortPeriod
<1>1. ASSUME IInv PROVE p \in Nat /\ count <= since + 1 /\ since <= count + 1
  <2>1. ShortPeriod \in Nat /\ packets \in Nat
    BY <1>1, PeriodsAssumption DEF IInv, Types
  <2>2. count <= since + 1 /\ since <= count + 1
    BY <1>1 DEF IInv, Types, CountFollows, Pending
  <2>3. QED
    BY <2>1, <2>2
<1>2. ASSUME IInv, BurstEmit PROVE since >= p - 1
  <2>1. ShortPeriod \in Nat \ {0} /\ packets \in Nat /\ count \in Nat /\ since \in Nat
    BY <1>2, PeriodsAssumption DEF IInv, Types
  <2>2. p <= count
    BY <1>2, <2>1, QuotientBound DEF BurstEmit, Due
  <2> HIDE DEF p
  <2>3. QED
    BY <1>1, <1>2, <2>1, <2>2
<1>3. ASSUME IInv, BurstRest PROVE since <= p \/ since >= BurstLength - 1
  <2>1. /\ ShortPeriod \in Nat \ {0} /\ BurstLength \in Nat
        /\ packets \in Nat /\ count \in Nat /\ since \in Nat
    BY <1>3, PeriodsAssumption DEF IInv, Types
  <2>2. CASE count >= BurstLength
    BY <1>1, <1>3, <2>1, <2>2
  <2>3. CASE count < BurstLength
    <3>1. count \div ShortPeriod < packets
      <4>1. ~(count \div ShortPeriod >= packets)
        BY <1>3, <2>3 DEF BurstRest, Due
      <4>2. count \div ShortPeriod \in Int
        BY <2>1
      <4>3. QED
        BY <2>1, <4>1, <4>2
    <3>2. count < p
      BY <2>1, <3>1, QuotientBelow
    <3> HIDE DEF p
    <3>3. QED
      BY <1>1, <1>3, <2>1, <3>2
  <2>4. QED
    BY <2>1, <2>2, <2>3
<1>4. IInv /\ [Next]_vars
        => [kind = "burst" =>
              /\ BurstEmit => since >= packets * ShortPeriod - 1
              /\ BurstRest => since <= packets * ShortPeriod \/ since >= BurstLength - 1]_vars
  BY <1>2, <1>3
<1>5. QED
  BY <1>4, Invariance, PTL DEF Spec, ScheduleKept

-----------------------------------------------------------------------------
(* The packet tracer.                                                      *)

Packet == [data : Data \cup {NoData}, extra : Extras \cup {Null}]

TracerTypeOK ==
  /\ input \in [Inputs -> Packet]
  /\ pending \in [Inputs -> BOOLEAN]
  /\ fifo \in [Inputs -> Seq(Packet)]
  /\ output \in Packet
  /\ watch \in BOOLEAN

(* The packets of input i that have not come out: those in the FIFO and,   *)
(* while the router has not read it, the one on the wire.                  *)
Count(i) == Len(fifo[i]) + (IF pending[i] THEN 1 ELSE 0)

At(i, k) == IF k <= Len(fifo[i]) THEN fifo[i][k] ELSE input[i]

Separate(p, q) == p.data # q.data /\ p.extra # q.extra

(* No two packets share a content or an extra, nor does one share them     *)
(* with the packet at the output.                                          *)
Alone ==
  \A i \in Inputs : \A k \in 1..Count(i) :
    /\ \A j \in Inputs : \A l \in 1..Count(j) :
         i # j \/ k # l => Separate(At(i, k), At(j, l))
    /\ At(i, k).data # output.data
    /\ watch => At(i, k).extra # output.extra

(* The live extras are those of the packets under way.                     *)
Lives ==
  \A e : e \in live <=> \/ \E i \in Inputs : \E k \in 1..Count(i) : e = At(i, k).extra
                        \/ watch /\ e = output.extra

Dated ==
  /\ \A i \in Inputs : \A k \in 1..Len(fifo[i]) : fifo[i][k].extra \in inserted
  /\ watch => output.extra \in inserted

TracerIInv == TracerTypeOK /\ Alone /\ Lives /\ Dated

-----------------------------------------------------------------------------
LEMMA Counts ==
  ASSUME TracerTypeOK, NEW i \in Inputs
  PROVE  /\ Len(fifo[i]) \in Nat
         /\ pending[i] \in BOOLEAN
         /\ Count(i) = IF pending[i] THEN Len(fifo[i]) + 1 ELSE Len(fifo[i])
         /\ Count(i) \in Nat
         /\ \A k \in 1..Len(fifo[i]) : k \in 1..Count(i) /\ At(i, k) = fifo[i][k]
         /\ pending[i] => Count(i) \in 1..Count(i) /\ At(i, Count(i)) = input[i]
<1>1. fifo[i] \in Seq(Packet) /\ pending[i] \in BOOLEAN
  BY DEF TracerTypeOK
<1>2. Len(fifo[i]) \in Nat
  BY <1>1, LenProperties
<1>3. Count(i) = IF pending[i] THEN Len(fifo[i]) + 1 ELSE Len(fifo[i])
  <2>1. CASE pending[i]
    BY <1>2, <2>1 DEF Count
  <2>2. CASE ~pending[i]
    BY <1>2, <2>2 DEF Count
  <2>3. QED
    BY <2>1, <2>2
<1>4. QED
  BY <1>1, <1>2, <1>3 DEF At

LEMMA TracerStarts ==
  TracerInit => TracerIInv
<1> SUFFICES ASSUME TracerInit PROVE TracerIInv
  OBVIOUS
<1>1. TracerTypeOK
  BY EmptySeq DEF TracerInit, TracerTypeOK, Packet, packet
<1>2. \A i \in Inputs : Count(i) = 0 /\ Len(fifo[i]) = 0
  <2>1. \A i \in Inputs : fifo[i] = <<>> /\ ~pending[i]
    BY DEF TracerInit
  <2>2. QED
    BY <1>1, <2>1, Counts, EmptySeq
<1>3. \A i \in Inputs : 1..Count(i) = {} /\ 1..Len(fifo[i]) = {}
  <2>1. 1..0 = {}
    OBVIOUS
  <2>2. QED
    BY <1>2, <2>1, Zenon
<1>4. ~watch /\ live = {}
  BY DEF TracerInit
<1>5. QED
  BY <1>1, <1>3, <1>4 DEF TracerIInv, Alone, Lives, Dated

-----------------------------------------------------------------------------
(* A packet is emitted.                                                    *)
LEMMA EmitKeepsTracer ==
  ASSUME Fresh, TracerIInv, NEW i \in Inputs, NEW d \in Data, NEW e \in Extras, Emit(i, d, e)
  PROVE  TracerIInv'
<1> DEFINE new == packet(d, e)
<1>0. PICK n : n = Count(i)
  OBVIOUS
<1>1. TracerTypeOK /\ Alone /\ Lives /\ Dated
  BY DEF TracerIInv
<1>2. /\ ~pending[i] /\ ~InUse(d) /\ e \notin live
      /\ live' = live \cup {e} /\ inserted' = inserted \ {e}
      /\ pending' = [pending EXCEPT ![i] = TRUE]
      /\ fifo' = fifo /\ output' = output /\ watch' = watch
  BY DEF Emit, prepare_packet
<1>3. input' = [input EXCEPT ![i] = new] /\ new \in Packet
  <2>1. ~Equal(new, input[i])
    BY <1>2 DEF InUse, Equal, packet
  <2>2. QED
    BY <2>1 DEF Emit, Written, Packet, packet
<1>4. TracerTypeOK'
  BY <1>1, <1>2, <1>3 DEF TracerTypeOK
<1>5. n = Len(fifo[i]) /\ n \in Nat
  BY <1>0, <1>1, <1>2, Counts
<1>6. ASSUME NEW j \in Inputs
      PROVE  /\ Count(j)' = IF j = i THEN n + 1 ELSE Count(j)
             /\ Count(j) \in Nat
             /\ \A k \in 1..Count(j) : At(j, k)' = At(j, k)
  <2>1. Count(j) \in Nat /\ Len(fifo[j]) \in Nat
        /\ Count(j) = IF pending[j] THEN Len(fifo[j]) + 1 ELSE Len(fifo[j])
    BY <1>1, Counts
  <2>2. CASE j = i
    <3>1. pending'[j] = TRUE
      BY <1>1, <1>2, <2>2 DEF TracerTypeOK
    <3>2. Count(j)' = n + 1
      BY <1>2, <1>5, <2>2, <3>1 DEF Count
    <3>3. \A k \in 1..Count(j) : At(j, k)' = At(j, k)
      <4>1. \A k \in 1..Count(j) : k <= Len(fifo[j])
        <5>1. Count(j) = Len(fifo[j]) /\ Len(fifo[j]) \in Nat
          BY <1>0, <1>5, <2>1, <2>2
        <5>2. QED
          BY <5>1
      <4>2. QED
        BY <1>2, <4>1 DEF At
    <3>4. QED
      BY <2>1, <2>2, <3>2, <3>3
  <2>3. CASE j # i
    <3>1. pending'[j] = pending[j] /\ input'[j] = input[j]
      BY <1>1, <1>2, <1>3, <2>3 DEF TracerTypeOK
    <3>2. QED
      BY <1>2, <2>1, <2>3, <3>1 DEF Count, At
  <2>4. QED
    BY <2>2, <2>3
<1>7. At(i, n + 1)' = new
  BY <1>1, <1>2, <1>3, <1>5 DEF At, TracerTypeOK
<1>8. ASSUME NEW j \in Inputs, NEW k \in 1..Count(j)
      PROVE  At(j, k).data # d /\ At(j, k).extra # e
  <2>1. At(j, k).extra \in live
    BY <1>1 DEF Lives
  <2>2. k \in 1..Len(fifo[j]) \/ At(j, k) = input[j]
    <3>1. Len(fifo[j]) \in Nat
      BY <1>1, Counts
    <3>2. k \in Nat /\ k >= 1
      BY <1>6
    <3>3. QED
      BY <3>1, <3>2 DEF At
  <2>3. At(j, k).data # d
    <3>1. CASE k \in 1..Len(fifo[j])
      <4>1. At(j, k) = fifo[j][k]
        BY <1>1, <3>1, Counts
      <4>2. QED
        BY <1>2, <3>1, <4>1 DEF InUse
    <3>2. CASE At(j, k) = input[j]
      BY <1>2, <3>2 DEF InUse
    <3>3. QED
      BY <2>2, <3>1, <3>2
  <2>4. QED
    BY <1>2, <2>1, <2>3
<1>9. new.data = d /\ new.extra = e
  BY DEF packet
<1>10. output.data # d /\ (watch => output.extra # e)
  BY <1>1, <1>2 DEF InUse, Lives
<1>11. ASSUME NEW j \in Inputs, NEW k \in 1..Count(j)'
       PROVE  \/ k \in 1..Count(j) /\ At(j, k)' = At(j, k)
              \/ j = i /\ k = n + 1 /\ At(j, k)' = new
  <2>1. CASE j = i
    <3>1. Count(j)' = n + 1 /\ Count(j) = n
      BY <1>0, <1>6, <2>1
    <3>2. k \in 1..n \/ k = n + 1
      BY <1>5, <3>1
    <3>3. QED
      BY <1>6, <1>7, <2>1, <3>1, <3>2
  <2>2. CASE j # i
    BY <1>6, <2>2
  <2>3. QED
    BY <2>1, <2>2
<1> HIDE DEF new
<1>12. Alone'
  <2>1. ASSUME NEW j \in Inputs, NEW k \in 1..Count(j)',
               NEW h \in Inputs, NEW l \in 1..Count(h)', j # h \/ k # l
        PROVE  Separate(At(j, k)', At(h, l)')
    <3>1. CASE k \in 1..Count(j) /\ At(j, k)' = At(j, k)
      <4>1. CASE l \in 1..Count(h) /\ At(h, l)' = At(h, l)
        BY <1>1, <2>1, <3>1, <4>1 DEF Alone
      <4>2. CASE At(h, l)' = new
        BY <1>8, <1>9, <3>1, <4>2 DEF Separate
      <4>3. QED
        BY <1>11, <4>1, <4>2
    <3>2. CASE j = i /\ k = n + 1 /\ At(j, k)' = new
      <4>1. l \in 1..Count(h) /\ At(h, l)' = At(h, l)
        BY <1>11, <2>1, <3>2
      <4>2. QED
        BY <1>8, <1>9, <3>2, <4>1 DEF Separate
    <3>3. QED
      BY <1>11, <3>1, <3>2
  <2>2. ASSUME NEW j \in Inputs, NEW k \in 1..Count(j)'
        PROVE  At(j, k)'.data # output.data /\ (watch => At(j, k)'.extra # output.extra)
    BY <1>1, <1>9, <1>10, <1>11 DEF Alone
  <2>3. QED
    BY <1>2, <2>1, <2>2 DEF Alone
<1>13. Lives'
  <2>1. ASSUME NEW x, x \in live'
        PROVE  \/ \E j \in Inputs : \E k \in 1..Count(j)' : x = At(j, k)'.extra
               \/ watch /\ x = output.extra
    <3>1. CASE x = e
      <4>1. n + 1 \in 1..Count(i)'
        BY <1>5, <1>6
      <4>2. QED
        BY <1>7, <1>9, <3>1, <4>1
    <3>2. CASE x \in live
      <4>1. \A j \in Inputs : \A k \in 1..Count(j) : k \in 1..Count(j)' /\ At(j, k)' = At(j, k)
        <5>1. ASSUME NEW j \in Inputs, NEW k \in 1..Count(j)
              PROVE  k \in 1..Count(j)'
          <6>1. Count(j) \in Nat /\ (Count(j)' = Count(j) \/ Count(j)' = Count(j) + 1)
            BY <1>0, <1>6
          <6>2. QED
            BY <6>1
        <5>2. QED
          BY <1>6, <5>1
      <4>2. QED
        BY <1>1, <3>2, <4>1 DEF Lives
    <3>3. QED
      BY <1>2, <2>1, <3>1, <3>2
  <2>2. ASSUME NEW j \in Inputs, NEW k \in 1..Count(j)'
        PROVE  At(j, k)'.extra \in live'
    <3>1. CASE k \in 1..Count(j) /\ At(j, k)' = At(j, k)
      BY <1>1, <1>2, <3>1 DEF Lives
    <3>2. CASE At(j, k)' = new
      BY <1>2, <1>9, <3>2
    <3>3. QED
      BY <1>11, <3>1, <3>2
  <2>3. watch => output.extra \in live'
    BY <1>1, <1>2 DEF Lives
  <2>4. QED
    BY <1>2, <2>1, <2>2, <2>3 DEF Lives
<1>14. Dated'
  <2>1. \A j \in Inputs : \A k \in 1..Len(fifo[j]) : fifo[j][k].extra # e
    BY <1>1, <1>8, Counts
  <2>2. QED
    BY <1>1, <1>2, <1>10, <2>1 DEF Dated
<1>15. QED
  BY <1>4, <1>12, <1>13, <1>14 DEF TracerIInv

(* A packet is stored: the packets of its input are the same as before.    *)
LEMMA InsertKeepsTracer ==
  ASSUME TracerIInv, NEW i \in Inputs, Insert(i)
  PROVE  TracerIInv'
<1>1. TracerTypeOK /\ Alone /\ Lives /\ Dated
  BY DEF TracerIInv
<1>2. /\ pending[i]
      /\ inserted' = inserted \cup {input[i].extra}
      /\ fifo' = [fifo EXCEPT ![i] = Append(fifo[i], input[i])]
      /\ pending' = [pending EXCEPT ![i] = FALSE]
      /\ input' = input /\ output' = output /\ watch' = watch /\ live' = live
  BY DEF Insert
<1>3. fifo[i] \in Seq(Packet) /\ input[i] \in Packet
  BY <1>1 DEF TracerTypeOK
<1>4. /\ Append(fifo[i], input[i]) \in Seq(Packet)
      /\ Len(Append(fifo[i], input[i])) = Len(fifo[i]) + 1
      /\ Len(fifo[i]) \in Nat
      /\ \A k \in 1..(Len(fifo[i]) + 1) :
           Append(fifo[i], input[i])[k] = IF k <= Len(fifo[i]) THEN fifo[i][k] ELSE input[i]
  BY <1>3, AppendProperties, LenProperties
<1>5. TracerTypeOK'
  BY <1>1, <1>2, <1>4 DEF TracerTypeOK
<1>6. /\ fifo'[i] = Append(fifo[i], input[i]) /\ pending'[i] = FALSE
      /\ \A j \in Inputs : j # i => fifo'[j] = fifo[j] /\ pending'[j] = pending[j]
  BY <1>1, <1>2 DEF TracerTypeOK
<1>7. ASSUME NEW j \in Inputs
      PROVE  Count(j)' = Count(j) /\ \A k \in 1..Count(j) : At(j, k)' = At(j, k)
  <2>1. CASE j = i
    <3>1. Count(i) = Len(fifo[i]) + 1
      BY <1>1, <1>2, Counts
    <3>2. Count(i)' = Len(fifo[i]) + 1
      <4>1. Count(i)' = Len(fifo'[i]) + (IF pending'[i] THEN 1 ELSE 0)
        BY DEF Count
      <4>2. Len(fifo'[i]) = Len(fifo[i]) + 1 /\ ~pending'[i]
        BY <1>4, <1>6
      <4>3. QED
        BY <1>4, <4>1, <4>2
    <3>3. \A k \in 1..(Len(fifo[i]) + 1) : At(i, k)' = At(i, k)
      BY <1>4, <1>6 DEF At
    <3>4. QED
      BY <2>1, <3>1, <3>2, <3>3
  <2>2. CASE j # i
    BY <1>2, <1>6, <2>2 DEF Count, At
  <2>3. QED
    BY <2>1, <2>2
<1>8. Alone' /\ Lives'
  <2>1. Alone'
    BY <1>1, <1>2, <1>7 DEF Alone
  <2>2. Lives'
    BY <1>1, <1>2, <1>7 DEF Lives
  <2>3. QED
    BY <2>1, <2>2
<1>9. Dated'
  <2>1. ASSUME NEW j \in Inputs, NEW k \in 1..Len(fifo'[j])
        PROVE  fifo'[j][k].extra \in inserted'
    <3>1. CASE j = i
      <4>1. k \in 1..(Len(fifo[i]) + 1)
        BY <1>4, <1>6, <3>1
      <4>2. fifo'[j][k] = IF k <= Len(fifo[i]) THEN fifo[i][k] ELSE input[i]
        BY <1>4, <1>6, <3>1, <4>1
      <4>3. k <= Len(fifo[i]) => k \in 1..Len(fifo[i])
        BY <1>4, <4>1
      <4>4. QED
        BY <1>1, <1>2, <4>2, <4>3 DEF Dated
    <3>2. CASE j # i
      BY <1>1, <1>2, <1>6, <3>2 DEF Dated
    <3>3. QED
      BY <3>1, <3>2
  <2>2. watch' => output'.extra \in inserted'
    BY <1>1, <1>2 DEF Dated
  <2>3. QED
    BY <2>1, <2>2 DEF Dated
<1>10. QED
  BY <1>5, <1>8, <1>9 DEF TracerIInv

(* A packet comes out: it is not equal to the one before it.               *)
LEMMA DeliverKeepsTracer ==
  ASSUME TracerIInv, NEW i \in Inputs, Deliver(i)
  PROVE  TracerIInv'
<1> DEFINE head == Head(fifo[i])
<1>1. TracerTypeOK /\ Alone /\ Lives /\ Dated
  BY DEF TracerIInv
<1>2. /\ ~watch /\ fifo[i] # <<>>
      /\ output' = Written(output, head)
      /\ watch' = ~Equal(head, output)
      /\ fifo' = [fifo EXCEPT ![i] = Tail(fifo[i])]
      /\ input' = input /\ pending' = pending /\ live' = live /\ inserted' = inserted
  BY DEF Deliver
<1>3. fifo[i] \in Seq(Packet)
  BY <1>1 DEF TracerTypeOK
<1>4. PICK n \in Nat : Len(fifo[i]) = n + 1
  <2>1. Len(fifo[i]) \in Nat /\ Len(fifo[i]) # 0
    BY <1>2, <1>3, LenProperties, EmptySeq
  <2>2. Len(fifo[i]) - 1 \in Nat /\ Len(fifo[i]) = (Len(fifo[i]) - 1) + 1
    BY <2>1
  <2>3. QED
    BY <2>2
<1>5. /\ Tail(fifo[i]) \in Seq(Packet) /\ Len(Tail(fifo[i])) = n
      /\ \A k \in 1..n : Tail(fifo[i])[k] = fifo[i][k + 1]
      /\ head = fifo[i][1] /\ head \in Packet
  BY <1>2, <1>3, <1>4, HeadTailProperties
<1>6. 1 \in 1..Count(i) /\ head = At(i, 1)
  <2>1. 1 \in 1..Len(fifo[i])
    BY <1>4
  <2>2. QED
    BY <1>1, <1>5, <2>1, Counts
<1>7. output' = head /\ watch' = TRUE
  <2>1. head.data # output.data
    BY <1>1, <1>6 DEF Alone
  <2>2. QED
    BY <1>2, <2>1 DEF Written, Equal
<1> HIDE DEF head
<1>8. TracerTypeOK'
  BY <1>1, <1>2, <1>5, <1>7 DEF TracerTypeOK
<1>9. /\ fifo'[i] = Tail(fifo[i])
      /\ \A j \in Inputs : j # i => fifo'[j] = fifo[j]
  BY <1>1, <1>2 DEF TracerTypeOK
(* Where a packet that stays was before.                                   *)
<1> DEFINE place(j, k) == IF j = i THEN k + 1 ELSE k
<1>10. ASSUME NEW j \in Inputs
       PROVE  /\ j # i => Count(j)' = Count(j)
              /\ j = i => Count(j) = Count(j)' + 1
              /\ Count(j)' \in Nat
              /\ \A k \in 1..Count(j)' :
                   place(j, k) \in 1..Count(j) /\ At(j, k)' = At(j, place(j, k))
              /\ \A k \in 1..Count(j) :
                   (j = i /\ k = 1) \/ \E l \in 1..Count(j)' : k = place(j, l)
  <2>1. CASE j = i
    <3>1. PICK m \in {0, 1} : m = IF pending[i] THEN 1 ELSE 0
      OBVIOUS
    <3>2. Count(i) = n + 1 + m /\ Count(i)' = n + m
      BY <1>2, <1>4, <1>5, <1>9, <3>1 DEF Count
    <3>3. ASSUME NEW k \in 1..(n + m)
          PROVE  k + 1 \in 1..Count(j) /\ At(j, k)' = At(j, k + 1)
      <4>1. k + 1 \in 1..(n + 1 + m) /\ (k <= n <=> k + 1 <= n + 1) /\ (k <= n => k \in 1..n)
        BY <3>1
      <4>2. At(i, k)' = IF k <= n THEN fifo[i][k + 1] ELSE input[i]
        BY <1>2, <1>5, <1>9, <4>1 DEF At
      <4>3. At(i, k + 1) = IF k <= n THEN fifo[i][k + 1] ELSE input[i]
        BY <1>4, <4>1 DEF At
      <4>4. QED
        BY <2>1, <3>2, <4>1, <4>2, <4>3
    <3>4. ASSUME NEW k \in 1..(n + 1 + m), k # 1
          PROVE  k - 1 \in 1..(n + m) /\ k = (k - 1) + 1
      BY <3>1, <3>4
    <3>5. n + m \in Nat /\ n + 1 + m = (n + m) + 1
      BY <3>1
    <3>6. QED
      BY <2>1, <3>2, <3>3, <3>4, <3>5
  <2>2. CASE j # i
    <3>1. Count(j)' = Count(j) /\ \A k \in 1..Count(j) : At(j, k)' = At(j, k)
      BY <1>2, <1>9, <2>2 DEF Count, At
    <3>2. Count(j) \in Nat
      BY <1>1, Counts
    <3>3. QED
      BY <2>2, <3>1, <3>2
  <2>3. QED
    BY <2>1, <2>2
<1>11. ASSUME NEW j \in Inputs, NEW k \in 1..Count(j)'
       PROVE  /\ place(j, k) \in 1..Count(j) /\ At(j, k)' = At(j, place(j, k))
              /\ j = i => place(j, k) # 1
              /\ \A l \in 1..Count(j)' : k # l => place(j, k) # place(j, l)
  <2>1. Count(j)' \in Nat
    BY <1>10
  <2>2. place(j, k) \in 1..Count(j) /\ At(j, k)' = At(j, place(j, k))
    BY <1>10
  <2>3. \A l \in 1..Count(j)' : k # l => k + 1 # l + 1
    BY <2>1
  <2>4. k + 1 # 1
    BY <2>1
  <2>5. QED
    BY <2>2, <2>3, <2>4
<1>12. Alone'
  <2>1. ASSUME NEW j \in Inputs, NEW k \in 1..Count(j)',
               NEW h \in Inputs, NEW l \in 1..Count(h)', j # h \/ k # l
        PROVE  Separate(At(j, k)', At(h, l)')
    <3>1. j # h \/ place(j, k) # place(h, l)
      BY <1>11, <2>1
    <3>2. Separate(At(j, place(j, k)), At(h, place(h, l)))
      <4> HIDE DEF place
      <4>1. QED
        BY <1>1, <1>11, <3>1 DEF Alone
    <3>3. QED
      BY <1>11, <3>2
  <2>2. ASSUME NEW j \in Inputs, NEW k \in 1..Count(j)'
        PROVE  At(j, k)'.data # head.data /\ At(j, k)'.extra # head.extra
    <3>1. j # i \/ place(j, k) # 1
      BY <1>11
    <3>2. Separate(At(j, place(j, k)), At(i, 1))
      <4> HIDE DEF place
      <4>1. QED
        BY <1>1, <1>6, <1>11, <3>1 DEF Alone
    <3>3. QED
      BY <1>6, <1>11, <3>2 DEF Separate
  <2>3. QED
    BY <1>7, <2>1, <2>2 DEF Alone
<1>13. Lives'
  <2> HIDE DEF place
  <2>1. ASSUME NEW x, x \in live
        PROVE  \/ \E j \in Inputs : \E k \in 1..Count(j)' : x = At(j, k)'.extra
               \/ x = head.extra
    <3>1. PICK j \in Inputs : \E k \in 1..Count(j) : x = At(j, k).extra
      BY <1>1, <1>2, <2>1 DEF Lives
    <3> PICK k \in 1..Count(j) : x = At(j, k).extra
      BY <3>1
    <3>2. (j = i /\ k = 1) \/ \E l \in 1..Count(j)' : k = place(j, l)
      BY <1>10
    <3>3. QED
      BY <1>6, <1>11, <3>1, <3>2
  <2>2. ASSUME NEW j \in Inputs, NEW k \in 1..Count(j)'
        PROVE  At(j, k)'.extra \in live
    BY <1>1, <1>11 DEF Lives
  <2>3. head.extra \in live
    BY <1>1, <1>6 DEF Lives
  <2>4. QED
    BY <1>2, <1>7, <2>1, <2>2, <2>3 DEF Lives
<1>14. Dated'
  <2>1. ASSUME NEW j \in Inputs, NEW k \in 1..Len(fifo'[j])
        PROVE  fifo'[j][k].extra \in inserted
    <3>1. CASE j = i
      <4>1. k \in 1..n /\ k + 1 \in 1..Len(fifo[i])
        <5>1. Len(fifo'[j]) = n
          BY <1>5, <1>9, <3>1
        <5>2. k \in 1..n
          BY <2>1, <5>1
        <5>3. k + 1 \in 1..(n + 1)
          BY <5>2
        <5>4. QED
          BY <1>4, <5>2, <5>3
      <4>2. fifo'[j][k] = fifo[i][k + 1]
        BY <1>5, <1>9, <3>1, <4>1
      <4>3. QED
        BY <1>1, <4>1, <4>2 DEF Dated
    <3>2. CASE j # i
      BY <1>1, <1>9, <3>2 DEF Dated
    <3>3. QED
      BY <3>1, <3>2
  <2>2. 1 \in 1..Len(fifo[i])
    BY <1>4
  <2>3. head.extra \in inserted
    BY <1>1, <1>5, <2>2 DEF Dated
  <2>4. QED
    BY <1>2, <1>7, <2>1, <2>3 DEF Dated
<1>15. QED
  BY <1>8, <1>12, <1>13, <1>14 DEF TracerIInv

(* The watcher frees the extra of the packet at the output, and no other.  *)
LEMMA WatcherKeepsTracer ==
  ASSUME TracerIInv, input_watcher
  PROVE  TracerIInv'
<1>1. TracerTypeOK /\ Alone /\ Lives /\ Dated
  BY DEF TracerIInv
<1>2. /\ watch /\ watch' = FALSE
      /\ live' = live \ {output.extra} /\ inserted' = inserted \ {output.extra}
      /\ input' = input /\ pending' = pending /\ fifo' = fifo /\ output' = output
  BY DEF input_watcher
<1>3. \A i \in Inputs : Count(i)' = Count(i) /\ \A k : At(i, k)' = At(i, k)
  BY <1>2 DEF Count, At
<1>4. TracerTypeOK'
  BY <1>1, <1>2 DEF TracerTypeOK
<1>5. Alone'
  BY <1>1, <1>2, <1>3 DEF Alone
<1>6. \A i \in Inputs : \A k \in 1..Count(i) : At(i, k).extra # output.extra
  BY <1>1, <1>2 DEF Alone
<1>7. Lives'
  BY <1>1, <1>2, <1>3, <1>6 DEF Lives
<1>8. Dated'
  <2>1. \A i \in Inputs : \A k \in 1..Len(fifo[i]) : fifo[i][k].extra # output.extra
    BY <1>1, <1>6, Counts
  <2>2. QED
    BY <1>1, <1>2, <2>1 DEF Dated
<1>9. QED
  BY <1>4, <1>5, <1>7, <1>8 DEF TracerIInv

LEMMA TracerStepKeeps ==
  ASSUME Fresh
  PROVE  TracerIInv /\ [TracerNext]_tracerVars => TracerIInv'
<1>1. TracerIInv /\ UNCHANGED tracerVars => TracerIInv'
  <2> SUFFICES ASSUME TracerIInv, UNCHANGED tracerVars PROVE TracerIInv'
    OBVIOUS
  <2>1. /\ input' = input /\ pending' = pending /\ fifo' = fifo /\ output' = output
        /\ watch' = watch /\ live' = live /\ inserted' = inserted
    BY DEF tracerVars
  <2>2. \A i \in Inputs : Count(i)' = Count(i) /\ \A k : At(i, k)' = At(i, k)
    BY <2>1 DEF Count, At
  <2>3. TracerTypeOK' /\ Dated'
    BY <2>1 DEF TracerIInv, TracerTypeOK, Dated
  <2>4. Alone'
    BY <2>1, <2>2 DEF TracerIInv, Alone
  <2>5. Lives'
    BY <2>1, <2>2 DEF TracerIInv, Lives
  <2>6. QED
    BY <2>3, <2>4, <2>5 DEF TracerIInv
<1>2. QED
  BY <1>1, EmitKeepsTracer, InsertKeepsTracer, DeliverKeepsTracer, WatcherKeepsTracer DEF TracerNext

LEMMA TracerInvariance ==
  ASSUME Fresh
  PROVE  TracerSpec => []TracerIInv
BY TracerStarts, TracerStepKeeps, PTL DEF TracerSpec

-----------------------------------------------------------------------------
(* While no content is used twice at a time, the assertions of the watcher *)
(* (packet_tracer.cpp:262 and 281) hold.                                   *)
THEOREM WatcherCorrect ==
  ASSUME Fresh
  PROVE  TracerSpec => []WatchedIsLive
<1>1. TracerIInv => WatchedIsLive
  BY DEF TracerIInv, Lives, Dated, WatchedIsLive
<1>2. QED
  BY <1>1, TracerInvariance, PTL

(* Then every extra is freed when its packet has come out, and not before. *)
THEOREM ExtrasCorrect ==
  ASSUME Fresh
  PROVE  TracerSpec => []NoExtraLost
<1>1. TracerIInv => NoExtraLost
  <2> SUFFICES ASSUME TracerIInv PROVE live = UnderWay
    BY DEF NoExtraLost
  <2>1. TracerTypeOK /\ Lives
    BY DEF TracerIInv
  <2> DEFINE waiting == {input[i].extra : i \in {k \in Inputs : pending[k]}}
             stored(i) == {fifo[i][k].extra : k \in 1..Len(fifo[i])}
             allStored == UNION {stored(i) : i \in Inputs}
             shown == IF watch THEN {output.extra} ELSE {}
  <2>u. UnderWay = waiting \cup allStored \cup shown
    BY DEF UnderWay
  <2>w. \A x : x \in waiting <=> \E i \in Inputs : pending[i] /\ x = input[i].extra
    BY Zenon
  <2>s. \A x : x \in allStored
          <=> \E i \in Inputs : \E k \in 1..Len(fifo[i]) : x = fifo[i][k].extra
    <3>1. \A i, x : x \in stored(i) <=> \E k \in 1..Len(fifo[i]) : x = fifo[i][k].extra
      OBVIOUS
    <3> HIDE DEF stored
    <3>2. \A x : x \in allStored <=> \E i \in Inputs : x \in stored(i)
      OBVIOUS
    <3>3. QED
      BY <3>1, <3>2
  <2>o. \A x : x \in shown <=> watch /\ x = output.extra
    OBVIOUS
  <2> HIDE DEF waiting, allStored, shown
  <2>2. ASSUME NEW x, x \in live PROVE x \in UnderWay
    <3>1. CASE watch /\ x = output.extra
      BY <2>u, <2>o, <3>1
    <3>2. CASE \E i \in Inputs : \E k \in 1..Count(i) : x = At(i, k).extra
      <4>1. PICK i \in Inputs : \E k \in 1..Count(i) : x = At(i, k).extra
        BY <3>2
      <4> PICK k \in 1..Count(i) : x = At(i, k).extra
        BY <4>1
      <4>2. /\ Len(fifo[i]) \in Nat
            /\ Count(i) = IF pending[i] THEN Len(fifo[i]) + 1 ELSE Len(fifo[i])
        BY <2>1, Counts
      <4>3. CASE k \in 1..Len(fifo[i])
        <5>1. x = fifo[i][k].extra
          BY <2>1, <4>1, <4>3, Counts
        <5>2. QED
          BY <2>u, <2>s, <4>3, <5>1
      <4>4. CASE k \notin 1..Len(fifo[i])
        <5>1. pending[i] /\ x = input[i].extra
          BY <4>1, <4>2, <4>4 DEF At
        <5>2. QED
          BY <2>u, <2>w, <5>1
      <4>5. QED
        BY <4>3, <4>4
    <3>3. QED
      BY <2>1, <2>2, <3>1, <3>2 DEF Lives
  <2>3. ASSUME NEW x, x \in UnderWay PROVE x \in live
    <3>1. CASE \E i \in Inputs : pending[i] /\ x = input[i].extra
      BY <2>1, <3>1, Counts DEF Lives
    <3>2. CASE \E i \in Inputs : \E k \in 1..Len(fifo[i]) : x = fifo[i][k].extra
      BY <2>1, <3>2, Counts DEF Lives
    <3>3. CASE watch /\ x = output.extra
      BY <2>1, <3>3 DEF Lives
    <3>4. QED
      BY <2>u, <2>w, <2>s, <2>o, <2>3, <3>1, <3>2, <3>3
  <2>4. QED
    BY <2>2, <2>3
<1>2. QED
  BY <1>1, TracerInvariance, PTL

=============================================================================

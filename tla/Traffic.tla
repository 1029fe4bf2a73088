------------------------------- MODULE Traffic -------------------------------
(***************************************************************************)
(* The two traffic generators (src/src/traffic_generator.cpp): one of      *)
(* them, of either kind, emits packets as fast as its parameters and the   *)
(* router let it.                                                          *)
(***************************************************************************)
EXTENDS TrafficGenerator

CONSTANTS
  Period,                                  \* of a stream
  LongPeriod, ShortPeriod, BurstLength     \* the arguments of set_burst()

ASSUME PeriodsAssumption ==
  {Period, LongPeriod, ShortPeriod, BurstLength} \subseteq Nat \ {0}

VARIABLES
  kind,        \* which of the two classes the generator is of
  packets      \* _current_packet_count of a burst generator

vars == <<clockVars, addressVars, kind, packets>>

Init ==
  /\ GeneratorInit
  /\ kind \in {"stream", "burst"}
  /\ packets = 0

-----------------------------------------------------------------------------
(* stream_generator::generate()                                            *)

\* Mutant: the count is set to zero after the emission, not before it.
StreamEmitLateReset ==
  /\ pc = "run"
  /\ count >= Period
  /\ EmissionStarts
  /\ since' = 0
  /\ UNCHANGED <<count, packets>>

StreamEmit ==
  /\ pc = "run"
  /\ count >= Period
  /\ reset_clock_count
  /\ EmissionStarts
  /\ UNCHANGED packets

\* Mutant: the period must be exceeded, not reached.
StreamRestAtPeriod ==
  /\ pc = "run"
  /\ count <= Period
  /\ NothingDue
  /\ UNCHANGED <<count, since, packets>>

StreamRest ==
  /\ pc = "run"
  /\ count < Period
  /\ NothingDue
  /\ UNCHANGED <<count, since, packets>>

StreamReturn == EmissionEnds /\ UNCHANGED <<count, since, packets>>

-----------------------------------------------------------------------------
(* burst_generator::generate()                                             *)

\* Mutant: a packet is due as soon as the one before it is under way.
DueEarly == count < BurstLength /\ count \div ShortPeriod + 1 >= packets

Due == count < BurstLength /\ count \div ShortPeriod >= packets

\* Mutant: the packets of a burst are not counted anew.
ResetKeepsPackets ==
  IF count >= LongPeriod THEN reset_clock_count /\ UNCHANGED packets
                         ELSE UNCHANGED <<count, since, packets>>

(* The second test of the loop: a new burst.                               *)
NewBurst ==
  IF count >= LongPeriod THEN reset_clock_count /\ packets' = 0
                         ELSE UNCHANGED <<count, since, packets>>

BurstEmit ==
  /\ pc = "run"
  /\ Due
  /\ packets' = packets + 1
  /\ EmissionStarts
  /\ UNCHANGED <<count, since>>

BurstRest ==
  /\ pc = "run"
  /\ ~Due
  /\ NewBurst
  /\ NothingDue

BurstReturn == EmissionEnds /\ NewBurst

-----------------------------------------------------------------------------
Next ==
  /\ UNCHANGED kind
  /\ \/ (PosEdge \/ clock_counter) /\ UNCHANGED packets
     \/ kind = "stream" /\ (StreamEmit \/ StreamRest \/ StreamReturn)
     \/ kind = "burst" /\ (BurstEmit \/ BurstRest \/ BurstReturn)

Spec == Init /\ [][Next]_vars

(* The clock runs, and the router takes every packet in the end.           *)
FairSpec == Spec /\ WF_vars(Next)

-----------------------------------------------------------------------------
(* A stream is never faster than asked for, by more than the one edge the  *)
(* two threads may disagree about, not even when packets that could not be *)
(* emitted in time are overdue.                                            *)
NotTooFast == [][kind = "stream" /\ StreamEmit => since >= Period - 1]_vars

(* Nor slower: the next packet follows after the period, or as soon as the *)
(* router has taken the last one.                                          *)
NotTooSlow ==
  kind = "stream" /\ pc = "wait" => since <= Period \/ since <= length + 1

(* A burst follows its schedule.  Its packets are due at every short       *)
(* period from its start: none is emitted ahead of that, the one edge the  *)
(* two threads may disagree about excepted, and generate() never rests     *)
(* while one is overdue before the burst's length is over.  Packets that   *)
(* are overdue follow each other as fast as the router takes them, closer  *)
(* than the short period.                                                  *)
ScheduleKept ==
  [][kind = "burst" =>
       /\ BurstEmit => since >= packets * ShortPeriod - 1
       /\ BurstRest => since <= packets * ShortPeriod \/ since >= BurstLength - 1]_vars

(* The third argument of set_burst() is the quantity of packets a burst    *)
(* emits (src/rapport/architecture.tex:57-60).                             *)
QuotaIsBurstLength ==
  [][kind = "burst" /\ packets > 0 /\ packets' = 0 => packets = BurstLength]_vars

(* There is always another packet, hence another burst: an emission that   *)
(* outlasts the long period, or a count that jumps past it, does not leave *)
(* generate() waiting for ever.                                            *)
BurstsRecur == []<>(pc = "emitting")

(* An address is left for another one after at most 256 packets: the       *)
(* eight-bit countdown never passes zero without a draw, and a draw of     *)
(* zero, which it wraps to 255, is used up as well.                        *)
LeftInTime ==
  /\ used + life <= 256
  /\ used > 0 => life > 0

=============================================================================

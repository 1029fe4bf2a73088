---------------------------- MODULE KernelProofs ----------------------------
(***************************************************************************)
(* Theorems about the kernel, for any threads, events, sensitivities,      *)
(* delays and programs.                                                    *)
(***************************************************************************)
EXTENDS Kernel, FiniteSetTheorems, SequenceTheorems, TLAPS

Goals ==
  [type : TriggerTypes \cup {"NONE", "CYCLES"}, of : SUBSET Events, missing : Int,
   repeats : Nat, left : Int, seen : SUBSET Events, expired : BOOLEAN]

Types ==
  /\ TypeOK
  /\ asked \in [Events -> Nat \cup {-1}]
  /\ goal \in [Threads -> Goals]

(* Where the threads are, in each phase.                                   *)
Places ==
  /\ current \notin runnable
  /\ ready \subseteq suspended
  /\ suspended \cap (runnable \cup {current}) = {}
  /\ phase # "evaluate" => current = NoThread
  /\ phase = "update" => firing = NoEvent

(* trigger() has still to look at every thread in the list of the event.   *)
(* A timeout is triggered for a thread that awaits it, or for one that     *)
(* runs already.                                                           *)
Triggering ==
  /\ firing = NoEvent => examined = {}
  /\ firing # NoEvent =>
       /\ dynamic[firing] \subseteq examined
       /\ \A p \in examined : p \in dynamic[firing] \/ firing \in Static[p]
  /\ firing \in Threads => firing \in dynamic[firing] \/ ~Waiting(firing)

Entries(p) == {e \in Events : p \in dynamic[e]}

InLists(p) ==
  /\ triggerType[p] = "STATIC" => list[p] = {}
  /\ triggerType[p] \notin AndLists => Entries(p) = list[p]
  /\ triggerType[p] \in AndLists =>
       /\ Entries(p) \subseteq list[p] /\ IsFiniteSet(Entries(p))
       /\ count[p] = Cardinality(Entries(p)) /\ (list[p] # {} => count[p] > 0)
  /\ \A q \in Threads : p \in dynamic[q] <=> p = q /\ triggerType[p] \in WithTimeout
  /\ triggerType[p] # "STATIC" => Waiting(p)

Timeout(p) ==
  /\ triggerType[p] \in WithTimeout => due[p] = goal[p].left
  /\ firing # p => (notifyType[p] # "NONE" <=> triggerType[p] \in WithTimeout)

(* What the kernel's variables say of the goal of a thread.  The goal has  *)
(* seen the event that is being triggered, the kernel has not before it    *)
(* has examined the thread.  The kernel counts the triggers still to come, *)
(* repeated ones among them.                                               *)
Reached(p) ==
  goal[p].type # "NONE" =>
    /\ Over(p)
    /\ goal[p].type # "CYCLES"
         => (timedOut[p] <=> goal[p].expired /\ goal[p].type # "TIMEOUT")

AwaitsCycles(p) ==
  /\ goal[p].type = "CYCLES" /\ goal[p].of = Static[p] /\ goal[p].left = -1
  /\ ~goal[p].expired
  /\ goal[p].missing - goal[p].repeats = IF p \in examined THEN cycles[p] ELSE cycles[p] + 1

SeenBefore(p) == IF triggerType[p] \in AndLists THEN list[p] \ Entries(p) ELSE {}

AwaitsEvents(p) ==
  /\ goal[p].type = triggerType[p] /\ goal[p].of = list[p]
  /\ goal[p].left = -1 <=> triggerType[p] \notin WithTimeout
  /\ goal[p].expired <=> firing = p
  /\ goal[p].seen = SeenBefore(p) \cup ({firing} \cap Entries(p))

Progress(p) ==
  /\ ~Waiting(p) => Reached(p)
  /\ Waiting(p) /\ triggerType[p] = "STATIC" => AwaitsCycles(p)
  /\ Waiting(p) /\ triggerType[p] # "STATIC" => AwaitsEvents(p)

ThreadOK(p) == InLists(p) /\ Timeout(p) /\ Progress(p)

Notified(e) ==
  IF e = firing THEN asked[e] = -1
  ELSE /\ notifyType[e] = "NONE" => asked[e] = -1
       /\ notifyType[e] = "DELTA" => asked[e] = 0
       /\ notifyType[e] = "TIMED" => asked[e] = due[e]

Delta(e) == notifyType[e] = "DELTA"

Distinct == \A k, l \in 1..Len(deltaEvents) : deltaEvents[k] = deltaEvents[l] => k = l

(* Outside the loop over m_delta_events the vector lists the events that   *)
(* have a delta notification, each once.                                   *)
Listed ==
  /\ size = Len(deltaEvents) /\ slot = 0 /\ Distinct
  /\ \A e \in AllEvents : Delta(e) <=> \E k \in 1..size : deltaEvents[k] = e
  /\ phase = "timed" => size = 0
  /\ firing # NoEvent => ~Delta(firing)

(* Nobody waits for the event, if it is a timeout its thread runs.         *)
Spent(e) == IF e \in Threads THEN ~Waiting(e) ELSE dynamic[e] = {}

(* In the loop, every such event is in a slot still to come.  What else is *)
(* in the memory is an event triggered before, or a timeout cancelled      *)
(* since: either is spent.                                                 *)
InLoop ==
  /\ \A e \in AllEvents : Delta(e) =>
       /\ \E k \in 1..size : deltaEvents[k] = e
       /\ e # firing => \E k \in 1..slot : deltaEvents[k] = e
  /\ \A k \in 1..Len(deltaEvents) :
       Delta(deltaEvents[k]) \/ deltaEvents[k] = firing \/ Spent(deltaEvents[k])
  /\ size = Len(deltaEvents) =>
       /\ Distinct
       /\ \A k \in 1..slot : Delta(deltaEvents[k])
       /\ firing # NoEvent => slot < size /\ firing = deltaEvents[slot + 1]

Vector == IF phase = "notify" THEN InLoop ELSE Listed

IInv ==
  /\ Types
  /\ Places
  /\ Triggering
  /\ \A p \in Threads : ThreadOK(p)
  /\ \A e \in Events : Notified(e)
  /\ Vector

-----------------------------------------------------------------------------
(* m_delta_events.                                                         *)

LEMMA Names ==
  /\ Events \subseteq AllEvents /\ Threads \subseteq AllEvents
  /\ \A e \in Events : e \notin Threads
  /\ NoThread \notin Threads /\ NoEvent \notin AllEvents
  /\ \A p \in Threads : Static[p] \subseteq Events
BY NamesAssumption, StaticAssumption DEF AllEvents

LEMMA AddType ==
  ASSUME Types, NEW e \in AllEvents, add_delta_event(e)
  PROVE  /\ deltaEvents' \in Seq(AllEvents) /\ Len(deltaEvents') = Len(deltaEvents) + 1
         /\ size' \in 0..Len(deltaEvents')
         /\ \A k \in 1..Len(deltaEvents) : deltaEvents'[k] = deltaEvents[k]
         /\ deltaEvents'[Len(deltaEvents) + 1] = e
         /\ Len(deltaEvents) \in Nat
<1>1. deltaEvents \in Seq(AllEvents) /\ size \in 0..Len(deltaEvents)
  BY DEF Types, TypeOK
<1>2. deltaEvents' = Append(deltaEvents, e) /\ size' = size + 1
  BY DEF add_delta_event
<1>3. QED
  BY <1>1, <1>2, AppendProperties, LenProperties

(* Where a removed event was, and the memory after it.                     *)
LEMMA RemoveType ==
  ASSUME Types, NEW e \in AllEvents, \E k \in 1..size : deltaEvents[k] = e,
         remove_delta_event(e)
  PROVE  /\ deltaEvents' \in Seq(AllEvents)
         /\ size \in 1..Len(deltaEvents) /\ size' = size - 1 /\ Len(deltaEvents) \in Nat
         /\ Len(deltaEvents') = IF phase = "notify" THEN Len(deltaEvents) ELSE size - 1
         /\ \E k \in 1..size :
              /\ deltaEvents[k] = e
              /\ \A l \in 1..Len(deltaEvents') :
                   deltaEvents'[l] = IF l = k THEN deltaEvents[size] ELSE deltaEvents[l]
<1> DEFINE k == IndexOf(e)
           moved == [deltaEvents EXCEPT ![k] = deltaEvents[size]]
<1>1. deltaEvents \in Seq(AllEvents) /\ size \in 0..Len(deltaEvents)
  BY DEF Types, TypeOK
<1>2. Len(deltaEvents) \in Nat
  BY <1>1, LenProperties
<1>3. k \in 1..size /\ deltaEvents[k] = e
  BY DEF IndexOf
<1>4. size \in 1..Len(deltaEvents) /\ k \in 1..Len(deltaEvents)
  BY <1>1, <1>2, <1>3
<1> HIDE DEF k
<1>5. deltaEvents[size] \in AllEvents
  BY <1>1, <1>4, ElementOfSeq
<1>6. /\ moved \in Seq(AllEvents) /\ Len(moved) = Len(deltaEvents)
      /\ \A l \in 1..Len(deltaEvents) :
           moved[l] = IF l = k THEN deltaEvents[size] ELSE deltaEvents[l]
  BY <1>1, <1>4, <1>5, ExceptSeq, LenProperties
<1> HIDE DEF moved
<1>7. /\ deltaEvents' = IF phase = "notify" THEN moved ELSE SubSeq(moved, 1, size - 1)
      /\ size' = size - 1
  BY DEF remove_delta_event, k, moved
<1>8. /\ SubSeq(moved, 1, size - 1) \in Seq(AllEvents)
      /\ Len(SubSeq(moved, 1, size - 1)) = size - 1
      /\ \A l \in 1..(size - 1) : SubSeq(moved, 1, size - 1)[l] = moved[l]
  <2>1. size - 1 \in Int /\ \A l \in 1..(size - 1) : l \in 1..Len(moved)
    BY <1>2, <1>4, <1>6
  <2>2. \A l \in 1..(size - 1) : moved[l] \in AllEvents
    BY <1>6, <2>1, ElementOfSeq
  <2>3. /\ SubSeq(moved, 1, size - 1) \in Seq(AllEvents)
        /\ Len(SubSeq(moved, 1, size - 1)) = IF 1 <= size - 1 THEN (size - 1) - 1 + 1 ELSE 0
        /\ \A l \in 1..((size - 1) - 1 + 1) : SubSeq(moved, 1, size - 1)[l] = moved[1 + l - 1]
    BY <2>1, <2>2, SubSeqProperties
  <2>4. (size - 1) - 1 + 1 = size - 1 /\ \A l \in 1..(size - 1) : 1 + l - 1 = l
    BY <1>4
  <2>5. QED
    BY <1>4, <2>3, <2>4
<1>9. CASE phase = "notify"
  BY <1>2, <1>3, <1>4, <1>6, <1>7, <1>9
<1>10. CASE phase # "notify"
  <2>1. \A l \in 1..(size - 1) : l \in 1..Len(deltaEvents)
    BY <1>2, <1>4
  <2>2. QED
    BY <1>2, <1>3, <1>4, <1>6, <1>7, <1>8, <1>10, <2>1
<1>11. QED
  BY <1>9, <1>10

LEMMA DeltaListed ==
  ASSUME Types, Vector, NEW e \in AllEvents, Delta(e)
  PROVE  \E k \in 1..size : deltaEvents[k] = e
BY DEF Vector, Listed, InLoop

LEMMA CancelType ==
  ASSUME Types, Vector, NEW e \in AllEvents, cancel(e)
  PROVE  /\ notifyType' \in [AllEvents -> {"NONE", "DELTA", "TIMED"}]
         /\ due' \in [AllEvents -> Nat]
         /\ notifyType'[e] = "NONE" /\ due'[e] = 0
         /\ \A q \in AllEvents : q # e => notifyType'[q] = notifyType[q] /\ due'[q] = due[q]
         /\ deltaEvents' \in Seq(AllEvents) /\ size' \in 0..Len(deltaEvents')
         /\ slot \in 0..Len(deltaEvents')
<1>1. /\ notifyType \in [AllEvents -> {"NONE", "DELTA", "TIMED"}] /\ due \in [AllEvents -> Nat]
      /\ deltaEvents \in Seq(AllEvents) /\ size \in 0..Len(deltaEvents)
      /\ slot \in 0..Len(deltaEvents)
  BY DEF Types, TypeOK
<1>2. /\ notifyType' = [notifyType EXCEPT ![e] = "NONE"]
      /\ due' = [due EXCEPT ![e] = 0]
  BY DEF cancel
<1>3. /\ deltaEvents' \in Seq(AllEvents) /\ size' \in 0..Len(deltaEvents')
      /\ slot \in 0..Len(deltaEvents')
  <2>1. CASE Delta(e)
    <3>1. remove_delta_event(e)
      BY <2>1 DEF cancel, Delta
    <3>2. \E k \in 1..size : deltaEvents[k] = e
      BY <2>1, DeltaListed
    <3>3. /\ deltaEvents' \in Seq(AllEvents) /\ size \in 1..Len(deltaEvents) /\ size' = size - 1
          /\ Len(deltaEvents') = IF phase = "notify" THEN Len(deltaEvents) ELSE size - 1
          /\ Len(deltaEvents) \in Nat
      BY <3>1, <3>2, RemoveType
    <3>4. phase # "notify" => slot = 0
      BY DEF Vector, Listed
    <3>5. QED
      BY <1>1, <3>3, <3>4
  <2>2. CASE ~Delta(e)
    BY <1>1, <2>2 DEF cancel, Delta
  <2>3. QED
    BY <2>1, <2>2
<1>4. QED
  BY <1>1, <1>2, <1>3

(* The vector stays right while events other than delta ones change.       *)
LEMMA VectorSame ==
  ASSUME Types, Vector,
         UNCHANGED <<deltaEvents, size, slot, phase, firing>>,
         \A e \in AllEvents : Delta(e)' <=> Delta(e),
         phase = "notify" => \A e \in AllEvents : Spent(e) => Spent(e)'
  PROVE  Vector'
<1>1. deltaEvents' = deltaEvents /\ size' = size /\ slot' = slot /\ phase' = phase
      /\ firing' = firing
  OBVIOUS
<1>2. /\ \A k \in 1..Len(deltaEvents) : deltaEvents[k] \in AllEvents
      /\ slot \in 0..Len(deltaEvents) /\ Len(deltaEvents) \in Nat
  BY ElementOfSeq, LenProperties DEF Types, TypeOK
<1>3. firing = NoEvent \/ firing \in AllEvents
  BY DEF Types, TypeOK
<1>4. CASE phase = "notify"
  <2>1. InLoop
    BY <1>4 DEF Vector
  <2>2. \A e \in AllEvents : Delta(e)' =>
          /\ \E k \in 1..size' : deltaEvents'[k] = e
          /\ e # firing' => \E k \in 1..slot' : deltaEvents'[k] = e
    BY <1>1, <2>1 DEF InLoop
  <2>3. \A k \in 1..Len(deltaEvents) :
          Delta(deltaEvents[k])' \/ deltaEvents[k] = firing \/ Spent(deltaEvents[k])'
    BY <1>2, <1>4, <2>1 DEF InLoop
  <2>4. \A k \in 1..slot : k \in 1..Len(deltaEvents)
    BY <1>2
  <2>5. size = Len(deltaEvents) => Distinct' /\ \A k \in 1..slot : Delta(deltaEvents[k])'
    BY <1>1, <1>2, <2>1, <2>4 DEF InLoop, Distinct
  <2>6. size = Len(deltaEvents) /\ firing # NoEvent
          => slot < size /\ firing = deltaEvents[slot + 1]
    BY <2>1 DEF InLoop
  <2>7. InLoop'
    BY <1>1, <2>2, <2>3, <2>5, <2>6 DEF InLoop, Delta, Spent, Waiting
  <2>8. QED
    BY <1>1, <1>4, <2>7 DEF Vector
<1>5. CASE phase # "notify"
  <2>1. Listed
    BY <1>5 DEF Vector
  <2>2. Listed'
    BY <1>1, <1>3, <2>1 DEF Listed, Distinct
  <2>3. QED
    BY <1>1, <1>5, <2>2 DEF Vector
<1>6. QED
  BY <1>4, <1>5

LEMMA VectorAdd ==
  ASSUME Types, Vector, NEW e \in AllEvents, add_delta_event(e),
         phase \notin {"notify", "timed"}, firing = NoEvent,
         ~Delta(e), notifyType' = [notifyType EXCEPT ![e] = "DELTA"],
         UNCHANGED <<slot, phase, firing>>
  PROVE  Vector'
<1>1. Listed
  BY DEF Vector
<1>2. notifyType \in [AllEvents -> {"NONE", "DELTA", "TIMED"}]
  BY DEF Types, TypeOK
<1>3. \A q \in AllEvents : Delta(q)' <=> Delta(q) \/ q = e
  BY <1>2 DEF Delta
<1>4. /\ size = Len(deltaEvents) /\ size \in Nat /\ size' = size + 1
      /\ Len(deltaEvents') = size + 1
      /\ \A k \in 1..size : deltaEvents'[k] = deltaEvents[k]
      /\ deltaEvents'[size + 1] = e
  BY <1>1, AddType DEF Listed, add_delta_event
<1>5. \A k \in 1..(size + 1) : k \in 1..size \/ k = size + 1
  BY <1>4
<1>6. \A k \in 1..size : deltaEvents[k] # e /\ k \in 1..(size + 1)
  BY <1>1, <1>4 DEF Listed
<1>7. Distinct'
  <2>1. ASSUME NEW k \in 1..(size + 1), NEW l \in 1..(size + 1), deltaEvents'[k] = deltaEvents'[l]
        PROVE  k = l
    BY <1>1, <1>4, <1>5, <1>6, <2>1 DEF Listed, Distinct
  <2>2. QED
    BY <1>4, <2>1 DEF Distinct
<1>8. \A q \in AllEvents : Delta(q)' <=> \E k \in 1..size' : deltaEvents'[k] = q
  <2>1. ASSUME NEW q \in AllEvents, Delta(q)' PROVE \E k \in 1..(size + 1) : deltaEvents'[k] = q
    <3>1. CASE q = e
      BY <1>4, <3>1
    <3>2. CASE Delta(q)
      BY <1>1, <1>4, <1>6, <3>2 DEF Listed
    <3>3. QED
      BY <1>3, <2>1, <3>1, <3>2
  <2>2. ASSUME NEW q \in AllEvents, NEW k \in 1..(size + 1), deltaEvents'[k] = q PROVE Delta(q)'
    BY <1>1, <1>3, <1>4, <1>5, <2>2 DEF Listed
  <2>3. QED
    BY <1>4, <2>1, <2>2
<1>9. QED
  BY <1>1, <1>4, <1>7, <1>8 DEF Vector, Listed

(* A cancelled event leaves the vector; in the loop it was a timeout, and  *)
(* its thread runs.                                                        *)
LEMMA VectorCancel ==
  ASSUME Types, Vector, NEW e \in AllEvents, cancel(e),
         UNCHANGED <<slot, phase>>,
         firing' = firing \/ firing' = e,
         phase # "notify" => firing = NoEvent \/ firing # e,
         phase = "notify" =>
           /\ firing' = firing /\ firing # e
           /\ \A q \in AllEvents : Spent(q) => Spent(q)'
           /\ Spent(e)'
  PROVE  Vector'
<1>1. /\ notifyType'[e] = "NONE"
      /\ \A q \in AllEvents : q # e => notifyType'[q] = notifyType[q]
  BY CancelType
<1>2. \A q \in AllEvents : Delta(q)' <=> Delta(q) /\ q # e
  BY <1>1 DEF Delta
<1>3. firing \in AllEvents \cup {NoEvent}
  BY DEF Types, TypeOK
<1>4. CASE ~Delta(e)
  <2>1. UNCHANGED <<deltaEvents, size, slot, phase>> /\ \A q \in AllEvents : Delta(q)' <=> Delta(q)
    BY <1>2, <1>4 DEF cancel, Delta
  <2>2. CASE firing' = firing
    BY <2>1, <2>2, VectorSame
  <2>3. CASE phase # "notify" /\ firing' = e
    BY <1>2, <2>1, <2>3 DEF Vector, Listed, Distinct
  <2>4. QED
    BY <2>2, <2>3
<1>5. CASE Delta(e)
  <2>1. remove_delta_event(e) /\ \E k \in 1..size : deltaEvents[k] = e
    BY <1>5, DeltaListed DEF cancel, Delta
  <2>2. /\ size \in 1..Len(deltaEvents) /\ size' = size - 1 /\ Len(deltaEvents) \in Nat
        /\ Len(deltaEvents') = IF phase = "notify" THEN Len(deltaEvents) ELSE size - 1
    BY <2>1, RemoveType
  <2>3. PICK k \in 1..size :
          /\ deltaEvents[k] = e
          /\ \A l \in 1..Len(deltaEvents') :
               deltaEvents'[l] = IF l = k THEN deltaEvents[size] ELSE deltaEvents[l]
    BY <2>1, RemoveType
  <2>4. ASSUME NEW q \in AllEvents, q # e, NEW j \in 1..size, deltaEvents[j] = q
        PROVE  \E l \in 1..(size - 1) : deltaEvents'[l] = q
    <3>1. \A l \in 1..(size - 1) : l \in 1..Len(deltaEvents')
      BY <2>2
    <3>2. CASE j = size
      <4>1. k \in 1..(size - 1)
        BY <2>2, <2>3, <2>4, <3>2
      <4>2. deltaEvents'[k] = q
        BY <2>3, <2>4, <3>1, <3>2, <4>1
      <4>3. QED
        BY <4>1, <4>2
    <3>3. CASE j # size
      <4>1. j \in 1..(size - 1) /\ j # k
        BY <2>2, <2>3, <2>4, <3>3
      <4>2. deltaEvents'[j] = q
        BY <2>3, <2>4, <3>1, <4>1
      <4>3. QED
        BY <4>1, <4>2
    <3>4. QED
      BY <3>2, <3>3
  <2>5. CASE phase # "notify"
    <3>1. Listed /\ Len(deltaEvents') = size - 1
      BY <2>2, <2>5 DEF Vector
    <3>2. \A l \in 1..(size - 1) :
            /\ l \in 1..size /\ l # size
            /\ deltaEvents'[l] = IF l = k THEN deltaEvents[size] ELSE deltaEvents[l]
      BY <2>2, <2>3, <3>1
    <3>3. Distinct'
      <4>1. size \in 1..size
        BY <2>2
      <4>2. ASSUME NEW l \in 1..(size - 1), NEW m \in 1..(size - 1),
                    deltaEvents'[l] = deltaEvents'[m]
            PROVE  l = m
        <5>1. \A i, j \in 1..size : deltaEvents[i] = deltaEvents[j] => i = j
          BY <3>1 DEF Listed, Distinct
        <5>2. CASE l = k /\ m # k
          BY <3>2, <4>1, <4>2, <5>1, <5>2
        <5>3. CASE l # k /\ m = k
          BY <3>2, <4>1, <4>2, <5>1, <5>3
        <5>4. CASE l # k /\ m # k
          BY <3>2, <4>2, <5>1, <5>4
        <5>5. QED
          BY <5>2, <5>3, <5>4
      <4>3. QED
        BY <3>1, <4>2 DEF Distinct
    <3>4. \A q \in AllEvents : Delta(q)' <=> \E l \in 1..(size - 1) : deltaEvents'[l] = q
      <4>1. \A q \in AllEvents : Delta(q)' => \E l \in 1..(size - 1) : deltaEvents'[l] = q
        BY <1>2, <2>4, <3>1 DEF Listed
      <4>2. ASSUME NEW q \in AllEvents, NEW l \in 1..(size - 1), deltaEvents'[l] = q
            PROVE  Delta(q)'
        <5>1. PICK m \in 1..size : deltaEvents[m] = q /\ m # k
          BY <2>2, <2>3, <3>2, <4>2
        <5>2. q # e
          BY <2>3, <3>1, <5>1 DEF Listed, Distinct
        <5>3. QED
          BY <1>2, <3>1, <5>1, <5>2 DEF Listed
      <4>3. QED
        BY <4>1, <4>2
    <3>5. phase # "timed"
      BY <2>2, <3>1 DEF Listed
    <3>6. firing' # NoEvent => notifyType'[firing'] # "DELTA"
      BY <1>1, <1>3, <3>1 DEF Listed, Delta
    <3>7. Listed'
      BY <2>2, <3>1, <3>3, <3>4, <3>5, <3>6 DEF Listed, Delta
    <3>8. QED
      BY <2>5, <3>7 DEF Vector
  <2>6. CASE phase = "notify"
    <3>1. InLoop /\ Len(deltaEvents') = Len(deltaEvents)
      BY <2>2, <2>6 DEF Vector
    <3>2. slot \in 0..Len(deltaEvents)
      BY DEF Types, TypeOK
    <3>3. \A q \in AllEvents : Delta(q)' =>
            /\ \E l \in 1..(size - 1) : deltaEvents'[l] = q
            /\ q # firing => \E l \in 1..slot : deltaEvents'[l] = q
      <4>1. ASSUME NEW q \in AllEvents, Delta(q)', q # firing
            PROVE  \E l \in 1..slot : deltaEvents'[l] = q
        <5>1. PICK l \in 1..slot : deltaEvents[l] = q /\ q # e
          BY <1>2, <3>1, <4>1 DEF InLoop
        <5>2. l \in 1..Len(deltaEvents') /\ l # k
          BY <2>2, <2>3, <3>1, <3>2, <5>1
        <5>3. QED
          BY <2>3, <5>1, <5>2
      <4>2. QED
        BY <1>2, <2>4, <3>1, <4>1 DEF InLoop
    <3>4. ASSUME NEW l \in 1..Len(deltaEvents), NEW q, deltaEvents'[l] = q
          PROVE  Delta(q)' \/ q = firing \/ Spent(q)'
      <4>1. PICK m \in 1..Len(deltaEvents) : deltaEvents[m] = q
        BY <2>2, <2>3, <3>1, <3>4
      <4>2. q \in AllEvents
        BY <4>1, ElementOfSeq DEF Types, TypeOK
      <4>3. CASE q = e
        BY <2>6, <4>3
      <4>4. CASE q # e
        <5>1. Delta(q) \/ q = firing \/ Spent(q)
          BY <3>1, <4>1 DEF InLoop
        <5>2. QED
          BY <1>2, <2>6, <4>2, <4>4, <5>1
      <4>5. QED
        BY <4>3, <4>4
    <3>5. size' # Len(deltaEvents')
      BY <2>2, <3>1
    <3>6. InLoop'
      BY <2>2, <2>6, <3>1, <3>3, <3>4, <3>5 DEF InLoop, Delta, Spent, Waiting
    <3>7. QED
      BY <2>6, <3>6 DEF Vector
  <2>7. QED
    BY <2>5, <2>6
<1>6. QED
  BY <1>4, <1>5

LEMMA VectorFireDelta ==
  ASSUME Types, Vector, FireDelta
  PROVE  /\ Vector' /\ firing' \in AllEvents /\ slot' \in 0..Len(deltaEvents)
         /\ Delta(firing') \/ Spent(firing')
         /\ size = Len(deltaEvents) => Delta(firing')
<1>1. /\ phase = "notify" /\ firing = NoEvent /\ slot > 0
      /\ slot' = slot - 1 /\ firing' = deltaEvents[slot]
      /\ phase' = phase /\ deltaEvents' = deltaEvents /\ size' = size /\ notifyType' = notifyType
      /\ current' = current /\ runnable' = runnable /\ ready' = ready /\ dynamic' = dynamic
  BY DEF FireDelta, Fire, eventVars, stateVars, waitVars
<1>2. /\ \A k \in 1..Len(deltaEvents) : deltaEvents[k] \in AllEvents
      /\ slot \in 1..Len(deltaEvents) /\ Len(deltaEvents) \in Nat
      /\ size \in 0..Len(deltaEvents)
  BY <1>1, ElementOfSeq, LenProperties DEF Types, TypeOK
<1>3. NoEvent \notin AllEvents /\ Threads \subseteq AllEvents
  BY Names
<1>4. InLoop
  BY <1>1 DEF Vector
<1>5. \A e \in AllEvents : Delta(e)' =>
        /\ \E k \in 1..size : deltaEvents[k] = e
        /\ e # firing' => \E k \in 1..(slot - 1) : deltaEvents[k] = e
  <2>1. ASSUME NEW e \in AllEvents, Delta(e), e # deltaEvents[slot]
        PROVE  \E k \in 1..(slot - 1) : deltaEvents[k] = e
    <3>1. PICK k \in 1..slot : deltaEvents[k] = e
      BY <1>1, <1>3, <1>4, <2>1 DEF InLoop
    <3>2. k \in 1..(slot - 1)
      BY <1>2, <2>1, <3>1
    <3>3. QED
      BY <3>1, <3>2
  <2>2. QED
    BY <1>1, <1>4, <2>1 DEF InLoop, Delta
<1>6. \A k \in 1..(slot - 1) : k \in 1..slot
  BY <1>2
<1>7. \A k \in 1..Len(deltaEvents) : Delta(deltaEvents[k]) \/ Spent(deltaEvents[k])
  BY <1>1, <1>2, <1>3, <1>4 DEF InLoop
<1>8. size = Len(deltaEvents) =>
        /\ Distinct' /\ \A k \in 1..slot' : Delta(deltaEvents[k])
        /\ slot' < size /\ firing' = deltaEvents[slot' + 1]
  BY <1>1, <1>2, <1>4, <1>6 DEF InLoop, Distinct
<1>9. InLoop'
  BY <1>1, <1>5, <1>7, <1>8 DEF InLoop, Delta, Spent, Waiting
<1>10. Vector'
  BY <1>1, <1>9 DEF Vector
<1>11. size = Len(deltaEvents) => Delta(firing')
  BY <1>1, <1>2, <1>4 DEF InLoop
<1>12. QED
  BY <1>1, <1>2, <1>7, <1>10, <1>11

LEMMA VectorFired ==
  ASSUME Types, Vector, Fired, Spent(firing)
  PROVE  Vector'
<1>1. /\ firing # NoEvent /\ firing' = NoEvent
      /\ notifyType' = [notifyType EXCEPT ![firing] = "NONE"]
      /\ phase' = phase /\ slot' = slot /\ deltaEvents' = deltaEvents /\ size' = size
      /\ current' = current /\ runnable' = runnable /\ ready' = ready /\ dynamic' = dynamic
  BY DEF Fired, stateVars, waitVars
<1>2. firing \in AllEvents /\ notifyType \in [AllEvents -> {"NONE", "DELTA", "TIMED"}]
      /\ slot \in 0..Len(deltaEvents) /\ Len(deltaEvents) \in Nat
  BY <1>1, LenProperties DEF Types, TypeOK
<1>3. \A e \in AllEvents : Delta(e)' <=> Delta(e) /\ e # firing
  BY <1>1, <1>2 DEF Delta
<1>4. CASE phase # "notify"
  BY <1>1, <1>2, <1>3, <1>4 DEF Vector, Listed, Distinct
<1>5. CASE phase = "notify"
  <2>1. InLoop
    BY <1>5 DEF Vector
  <2>2. \A e \in AllEvents : Delta(e)' =>
          /\ \E k \in 1..size : deltaEvents[k] = e
          /\ e # NoEvent => \E k \in 1..slot : deltaEvents[k] = e
    BY <1>3, <2>1 DEF InLoop
  <2>3. \A k \in 1..Len(deltaEvents) :
          notifyType'[deltaEvents[k]] = "DELTA" \/ Spent(deltaEvents[k])
    <3>1. \A k \in 1..Len(deltaEvents) : deltaEvents[k] \in AllEvents
      BY ElementOfSeq DEF Types, TypeOK
    <3>2. QED
      BY <1>3, <2>1, <3>1 DEF InLoop, Delta
  <2>4. size = Len(deltaEvents) =>
          /\ Distinct' /\ \A k \in 1..slot : notifyType'[deltaEvents[k]] = "DELTA"
    <3>1. ASSUME size = Len(deltaEvents), NEW k \in 1..slot
          PROVE  notifyType'[deltaEvents[k]] = "DELTA"
      <4>1. slot < size /\ firing = deltaEvents[slot + 1]
        BY <1>1, <2>1, <3>1 DEF InLoop
      <4>2. k \in 1..Len(deltaEvents) /\ slot + 1 \in 1..Len(deltaEvents) /\ k # slot + 1
        BY <1>2, <3>1, <4>1
      <4>3. deltaEvents[k] # firing
        BY <2>1, <3>1, <4>1, <4>2 DEF InLoop, Distinct
      <4>4. deltaEvents[k] \in AllEvents
        BY <4>2, ElementOfSeq DEF Types, TypeOK
      <4>5. Delta(deltaEvents[k])
        BY <2>1, <3>1 DEF InLoop
      <4>6. QED
        BY <1>1, <1>2, <4>3, <4>4, <4>5 DEF Delta
    <3>2. QED
      BY <1>1, <2>1, <3>1 DEF InLoop, Distinct
  <2>5. InLoop'
    BY <1>1, <2>2, <2>3, <2>4 DEF InLoop, Delta, Spent, Waiting
  <2>6. QED
    BY <1>1, <1>5, <2>5 DEF Vector
<1>6. QED
  BY <1>4, <1>5

LEMMA VectorEndUpdate ==
  ASSUME Types, Vector, Places, EndUpdate
  PROVE  Vector' /\ slot' \in 0..Len(deltaEvents)
<1>1. /\ phase = "update" /\ phase' = "notify" /\ slot' = size /\ firing' = firing
      /\ deltaEvents' = deltaEvents /\ size' = size /\ notifyType' = notifyType
      /\ firing = NoEvent
  BY DEF EndUpdate, eventVars, Places
<1>2. Listed /\ \A k \in 1..Len(deltaEvents) : deltaEvents[k] \in AllEvents
  BY <1>1, ElementOfSeq DEF Vector, Types, TypeOK
<1>3. InLoop'
  BY <1>1, <1>2 DEF Listed, InLoop, Delta, Distinct
<1>4. QED
  BY <1>1, <1>3 DEF Vector, Types, TypeOK

LEMMA VectorEndNotification ==
  ASSUME Types, Vector, EndNotification
  PROVE  Vector'
<1>1. /\ phase = "notify" /\ firing = NoEvent /\ slot = 0
      /\ deltaEvents' = <<>> /\ size' = 0 /\ phase' # "notify"
      /\ slot' = slot /\ firing' = firing /\ notifyType' = notifyType
  BY DEF EndNotification
<1>2. \A e \in AllEvents : ~Delta(e)
  <2>1. \A e \in AllEvents : e # NoEvent
    BY Names
  <2>2. \A k \in 1..0 : FALSE
    OBVIOUS
  <2>3. QED
    BY <1>1, <2>1, <2>2 DEF Vector, InLoop
<1>3. Len(<<>>) = 0 /\ \A k \in 1..0 : FALSE
  OBVIOUS
<1>4. Listed'
  BY <1>1, <1>2, <1>3 DEF Listed, Delta, Distinct
<1>5. QED
  BY <1>1, <1>4 DEF Vector

-----------------------------------------------------------------------------
(* What a step leaves alone.                                               *)
Untouched(p) ==
  /\ Waiting(p)' <=> Waiting(p)
  /\ triggerType'[p] = triggerType[p] /\ list'[p] = list[p] /\ count'[p] = count[p]
  /\ cycles'[p] = cycles[p] /\ timedOut'[p] = timedOut[p] /\ goal'[p] = goal[p]
  /\ notifyType'[p] = notifyType[p]
  /\ triggerType[p] \in WithTimeout => due'[p] = due[p]
  /\ \A e \in AllEvents : p \in dynamic'[e] <=> p \in dynamic[e]
  /\ firing' = firing
  /\ p \in examined' <=> p \in examined

LEMMA Local ==
  ASSUME NEW p \in Threads, ThreadOK(p), Untouched(p)
  PROVE  ThreadOK(p)'
<1>1. Waiting(p)' <=> Waiting(p)
  BY DEF Untouched
<1>2. Over(p)' <=> Over(p)
  BY DEF Over, Satisfied, CutShort, Untouched
<1>3. Entries(p)' = Entries(p)
  BY Names DEF Entries, Untouched
<1>4. InLists(p)'
  BY <1>1, <1>3, Names DEF ThreadOK, InLists, Untouched
<1>5. Timeout(p)'
  BY DEF ThreadOK, Timeout, Untouched
<1>6. Progress(p)'
  <2>1. Reached(p) => Reached(p)'
    BY <1>2 DEF Reached, Untouched
  <2>2. AwaitsCycles(p) => AwaitsCycles(p)'
    BY DEF AwaitsCycles, Untouched
  <2>3. AwaitsEvents(p) => AwaitsEvents(p)'
    BY <1>3 DEF AwaitsEvents, SeenBefore, Untouched
  <2>4. QED
    BY <1>1, <2>1, <2>2, <2>3 DEF ThreadOK, Progress, Untouched
<1>7. QED
  BY <1>4, <1>5, <1>6 DEF ThreadOK

(* A step that concerns events of the program only.                        *)
Quiet ==
  /\ UNCHANGED <<current, runnable, suspended, ready, firing, examined, waitVars, goal>>
  /\ \A p \in Threads : notifyType'[p] = notifyType[p] /\ due'[p] = due[p]

LEMMA QuietThreads ==
  ASSUME IInv, Quiet, phase' = "update" => firing' = NoEvent,
         phase' # "evaluate" => current = NoThread
  PROVE  Places' /\ Triggering' /\ \A p \in Threads : ThreadOK(p)'
<1>1. UNCHANGED <<current, runnable, suspended, ready, firing, examined, dynamic>>
  BY DEF Quiet, waitVars
<1>2. Places'
  BY <1>1 DEF IInv, Places
<1>3. Triggering'
  BY <1>1 DEF IInv, Triggering, Waiting
<1>4. \A p \in Threads : Untouched(p)
  BY DEF Untouched, Quiet, waitVars, Waiting
<1>5. QED
  BY <1>2, <1>3, <1>4, Local DEF IInv

LEMMA LaterIInv ==
  ASSUME IInv, NEW p \in Threads, NEW e \in Events, NEW t \in Delays \cup {0},
         NotifyLater(p, e, t), Ask(e, t), UNCHANGED goal
  PROVE  IInv'
<1>1. Types /\ Vector /\ \A q \in Events : Notified(q)
  BY DEF IInv
<1>2. /\ phase = "evaluate" /\ firing = NoEvent
      /\ UNCHANGED <<phase, slot, firing, examined, current, runnable, requested,
                     waitVars, stateVars>>
      /\ IF t = 0 THEN notify_delta(e) ELSE notify_timed(e, t)
  BY DEF NotifyLater, Runs, loopVars
<1>3. t \in Nat /\ e \in AllEvents /\ e \notin Threads /\ e # NoEvent
  BY Names, DelaysAssumption
<1>4. /\ notifyType \in [AllEvents -> {"NONE", "DELTA", "TIMED"}] /\ due \in [AllEvents -> Nat]
      /\ slot = 0 /\ asked \in [Events -> Nat \cup {-1}]
  BY <1>1, <1>2 DEF Types, TypeOK, Vector, Listed
<1>5. /\ notifyType' \in [AllEvents -> {"NONE", "DELTA", "TIMED"}] /\ due' \in [AllEvents -> Nat]
      /\ \A q \in AllEvents \ {e} : notifyType'[q] = notifyType[q] /\ due'[q] = due[q]
  BY <1>2, <1>3, <1>4 DEF notify_delta, notify_timed, eventVars
<1>6. deltaEvents' \in Seq(AllEvents) /\ size' \in 0..Len(deltaEvents') /\ Vector'
  <2>1. CASE UNCHANGED <<deltaEvents, size>>
            /\ (notifyType[e] = "DELTA" <=> notifyType'[e] = "DELTA")
    <3>1. \A q \in AllEvents : Delta(q)' <=> Delta(q)
      BY <1>5, <2>1 DEF Delta
    <3>2. QED
      BY <1>1, <1>2, <2>1, <3>1, VectorSame DEF Types, TypeOK
  <2>2. CASE ~Delta(e) /\ add_delta_event(e) /\ notifyType' = [notifyType EXCEPT ![e] = "DELTA"]
    BY <1>1, <1>2, <1>3, <2>2, AddType, VectorAdd
  <2>3. QED
    BY <1>2, <1>3, <1>4, <2>1, <2>2 DEF notify_delta, notify_timed, eventVars, Delta
<1>7. asked' \in [Events -> Nat \cup {-1}]
  BY <1>3, <1>4 DEF Ask
<1>8. 0 \in 0..Len(deltaEvents')
  BY <1>6, LenProperties
<1>9. Types'
  BY <1>1, <1>2, <1>4, <1>5, <1>6, <1>7, <1>8 DEF Types, TypeOK, waitVars, stateVars
<1>10. \A q \in Events : Notified(q)'
  <2>1. ASSUME NEW q \in Events, q # e PROVE Notified(q)'
    BY <1>1, <1>2, <1>4, <1>5, <2>1, Names DEF Notified, Ask
  <2>2. asked'[e] = IF asked[e] = -1 \/ t < asked[e] THEN t ELSE asked[e]
    BY <1>4 DEF Ask
  <2>3. Notified(e)'
    <3>1. CASE t = 0
      BY <1>1, <1>2, <1>3, <1>4, <2>2, <3>1 DEF Notified, notify_delta, eventVars
    <3>2. CASE t # 0
      BY <1>1, <1>2, <1>3, <1>4, <2>2, <3>2 DEF Notified, notify_timed, eventVars
    <3>3. QED
      BY <3>1, <3>2
  <2>4. QED
    BY <2>1, <2>3
<1>11. Quiet
  BY <1>2, <1>3, <1>5, Names DEF Quiet, stateVars
<1>12. QED
  BY <1>2, <1>6, <1>9, <1>10, <1>11, QuietThreads DEF IInv, Places

LEMMA CancelIInv ==
  ASSUME IInv, NEW p \in Threads, NEW e \in Events, Cancel(p, e), Forget(e), UNCHANGED goal
  PROVE  IInv'
<1>1. Types /\ Vector /\ \A q \in Events : Notified(q)
  BY DEF IInv
<1>2. /\ phase = "evaluate" /\ firing = NoEvent /\ cancel(e)
      /\ UNCHANGED <<phase, slot, firing, examined, current, runnable, requested,
                     waitVars, stateVars>>
  BY DEF Cancel, Runs, loopVars
<1>3. e \in AllEvents /\ e \notin Threads /\ e # NoEvent
  BY Names
<1>4. /\ notifyType' \in [AllEvents -> {"NONE", "DELTA", "TIMED"}] /\ due' \in [AllEvents -> Nat]
      /\ notifyType'[e] = "NONE" /\ due'[e] = 0
      /\ \A q \in AllEvents : q # e => notifyType'[q] = notifyType[q] /\ due'[q] = due[q]
      /\ deltaEvents' \in Seq(AllEvents) /\ size' \in 0..Len(deltaEvents')
      /\ slot \in 0..Len(deltaEvents')
  BY <1>1, <1>2, <1>3, CancelType
<1>5. Vector'
  BY <1>1, <1>2, <1>3, VectorCancel
<1>6. asked' = [asked EXCEPT ![e] = -1] /\ asked \in [Events -> Nat \cup {-1}]
  BY <1>1 DEF Forget, Types
<1>7. Types'
  BY <1>1, <1>2, <1>4, <1>6 DEF Types, TypeOK, waitVars, stateVars
<1>8. \A q \in Events : Notified(q)'
  BY <1>1, <1>2, <1>3, <1>4, <1>6, Names DEF Notified
<1>9. Quiet
  BY <1>2, <1>3, <1>4, Names DEF Quiet, stateVars
<1>10. QED
  BY <1>2, <1>5, <1>7, <1>8, <1>9, QuietThreads DEF IInv, Places

LEMMA RequestIInv ==
  ASSUME IInv, NEW p \in Threads, NEW e \in Events, RequestUpdate(p, e), UNCHANGED <<asked, goal>>
  PROVE  IInv'
<1>1. Types /\ Vector /\ \A q \in Events : Notified(q)
  BY DEF IInv
<1>2. /\ phase = "evaluate" /\ firing = NoEvent /\ requested' = requested \cup {e}
      /\ UNCHANGED <<phase, slot, firing, examined, current, runnable, eventVars,
                     waitVars, stateVars>>
  BY DEF RequestUpdate, Runs, loopVars
<1>3. Types'
  BY <1>1, <1>2 DEF Types, TypeOK, waitVars, stateVars, eventVars
<1>4. Vector'
  BY <1>1, <1>2, VectorSame DEF eventVars, Delta
<1>5. \A q \in Events : Notified(q)'
  BY <1>1, <1>2 DEF Notified, eventVars
<1>6. Quiet
  BY <1>2 DEF Quiet, stateVars, eventVars
<1>7. QED
  BY <1>2, <1>3, <1>4, <1>5, <1>6, QuietThreads DEF IInv, Places

LEMMA UpdateIInv ==
  ASSUME IInv, NEW e \in Events, UpdateChannel(e), Ask(e, 0), UNCHANGED goal
  PROVE  IInv'
<1>1. Types /\ Vector /\ Places /\ \A q \in Events : Notified(q)
  BY DEF IInv
<1>2. /\ phase = "update" /\ firing = NoEvent /\ notify_delta(e) /\ requested' \subseteq requested
      /\ UNCHANGED <<phase, slot, firing, examined, current, runnable, waitVars, stateVars>>
  BY <1>1 DEF UpdateChannel, loopVars, Places
<1>3. e \in AllEvents /\ e \notin Threads /\ e # NoEvent
  BY Names
<1>4. /\ notifyType \in [AllEvents -> {"NONE", "DELTA", "TIMED"}] /\ due \in [AllEvents -> Nat]
      /\ slot = 0 /\ asked \in [Events -> Nat \cup {-1}]
  BY <1>1, <1>2 DEF Types, TypeOK, Vector, Listed
<1>5. /\ notifyType' \in [AllEvents -> {"NONE", "DELTA", "TIMED"}] /\ due' \in [AllEvents -> Nat]
      /\ notifyType'[e] = "DELTA"
      /\ \A q \in AllEvents \ {e} : notifyType'[q] = notifyType[q] /\ due'[q] = due[q]
  BY <1>2, <1>3, <1>4 DEF notify_delta, eventVars
<1>6. deltaEvents' \in Seq(AllEvents) /\ size' \in 0..Len(deltaEvents') /\ Vector'
  <2>1. CASE Delta(e)
    <3>1. UNCHANGED eventVars
      BY <1>2, <2>1 DEF notify_delta, Delta
    <3>2. QED
      BY <1>1, <1>2, <3>1, VectorSame DEF Types, TypeOK, eventVars, Delta
  <2>2. CASE ~Delta(e)
    <3>1. add_delta_event(e) /\ notifyType' = [notifyType EXCEPT ![e] = "DELTA"]
      BY <1>2, <2>2 DEF notify_delta, Delta
    <3>2. QED
      BY <1>1, <1>2, <1>3, <2>2, <3>1, AddType, VectorAdd
  <2>3. QED
    BY <2>1, <2>2
<1>7. asked' \in [Events -> Nat \cup {-1}]
      /\ asked' = [asked EXCEPT ![e] = 0]
  <2>1. asked[e] \in Nat \cup {-1}
    BY <1>4
  <2>2. (IF asked[e] = -1 \/ 0 < asked[e] THEN 0 ELSE asked[e]) = 0
    BY <2>1
  <2>3. QED
    BY <1>4, <2>2 DEF Ask
<1>8. 0 \in 0..Len(deltaEvents')
  BY <1>6, LenProperties
<1>9. Types'
  BY <1>1, <1>2, <1>4, <1>5, <1>6, <1>7, <1>8 DEF Types, TypeOK, waitVars, stateVars
<1>10. \A q \in Events : Notified(q)'
  BY <1>1, <1>2, <1>3, <1>4, <1>5, <1>7, Names DEF Notified
<1>11. Quiet
  BY <1>2, <1>3, <1>5, Names DEF Quiet, stateVars
<1>12. QED
  BY <1>1, <1>2, <1>6, <1>9, <1>10, <1>11, QuietThreads DEF IInv, Places

(* The ends of the evaluation, of the update and of the notifications, and *)
(* the return to crunch().                                                 *)
LEMMA PhaseIInv ==
  ASSUME IInv, EndEvaluation \/ EndUpdate \/ EndNotification \/ Crunch,
         UNCHANGED <<asked, goal>>
  PROVE  IInv'
<1>1. Types /\ Vector /\ Places /\ \A q \in Events : Notified(q)
  BY DEF IInv
<1>2. /\ firing = NoEvent /\ current = NoThread
      /\ UNCHANGED <<firing, examined, current, runnable, requested, notifyType, due,
                     waitVars, stateVars>>
  BY <1>1 DEF EndEvaluation, EndUpdate, EndNotification, Crunch, Runs, eventVars, Places
<1>3. Vector' /\ slot' \in 0..Len(deltaEvents') /\ deltaEvents' \in Seq(AllEvents)
      /\ size' \in 0..Len(deltaEvents')
  <2>1. CASE EndEvaluation \/ Crunch
    <3>1. /\ phase # "notify" /\ phase' \notin {"notify", "timed"}
          /\ UNCHANGED <<slot, eventVars>>
      BY <2>1 DEF EndEvaluation, Crunch, Runs
    <3>2. Listed'
      BY <1>1, <1>2, <3>1 DEF Vector, Listed, Delta, Distinct, eventVars
    <3>3. QED
      BY <1>1, <3>1, <3>2 DEF Vector, Types, TypeOK, eventVars
  <2>2. CASE EndUpdate
    BY <1>1, <2>2, VectorEndUpdate DEF EndUpdate, eventVars, Types, TypeOK
  <2>3. CASE EndNotification
    <3>1. deltaEvents' = <<>> /\ size' = 0 /\ slot' = 0
      BY <2>3 DEF EndNotification
    <3>2. QED
      BY <1>1, <2>3, <3>1, VectorEndNotification, EmptySeq
  <2>4. QED
    BY <2>1, <2>2, <2>3
<1>4. phase' \in {"evaluate", "update", "notify", "timed"}
  BY DEF EndEvaluation, EndUpdate, EndNotification, Crunch
<1>5. Types'
  BY <1>1, <1>2, <1>3, <1>4 DEF Types, TypeOK, waitVars, stateVars
<1>6. \A q \in Events : Notified(q)'
  BY <1>1, <1>2 DEF Notified
<1>7. Quiet
  BY <1>2 DEF Quiet, stateVars
<1>8. QED
  BY <1>2, <1>3, <1>5, <1>6, <1>7, QuietThreads DEF IInv

-----------------------------------------------------------------------------
(* The threads that do not take part in a step are left alone.             *)
LEMMA Others ==
  ASSUME IInv, NEW p \in Threads,
         UNCHANGED firing,
         \A q \in Threads \ {p} :
           /\ q \in examined' <=> q \in examined
           /\ Waiting(q)' <=> Waiting(q)
           /\ triggerType'[q] = triggerType[q] /\ list'[q] = list[q] /\ count'[q] = count[q]
           /\ cycles'[q] = cycles[q] /\ timedOut'[q] = timedOut[q] /\ goal'[q] = goal[q]
           /\ notifyType'[q] = notifyType[q] /\ due'[q] = due[q]
           /\ \A e \in AllEvents : q \in dynamic'[e] <=> q \in dynamic[e]
  PROVE  \A q \in Threads \ {p} : ThreadOK(q)'
<1>1. ASSUME NEW q \in Threads \ {p} PROVE ThreadOK(q)'
  <2>1. Untouched(q)
    BY DEF Untouched
  <2>2. QED
    BY <2>1, Local DEF IInv
<1>2. QED
  BY <1>1

(* A thread that does not wait has left all lists, and has no timeout.     *)
LEMMA NotWaiting ==
  ASSUME IInv, NEW p \in Threads, ~Waiting(p)
  PROVE  /\ triggerType[p] = "STATIC" /\ list[p] = {} /\ Reached(p)
         /\ \A e \in AllEvents : p \notin dynamic[e]
         /\ firing # p => notifyType[p] = "NONE"
<1>1. ThreadOK(p)
  BY DEF IInv
<1>2. triggerType[p] = "STATIC"
  BY <1>1 DEF ThreadOK, InLists
<1>3. triggerType[p] \notin AndLists \cup WithTimeout
  BY <1>2 DEF AndLists, WithTimeout
<1>4. list[p] = {} /\ \A e \in Events : p \notin dynamic[e]
  BY <1>1, <1>2, <1>3 DEF ThreadOK, InLists, Entries
<1>5. \A q \in Threads : p \notin dynamic[q]
  BY <1>1, <1>3 DEF ThreadOK, InLists
<1>6. QED
  BY <1>1, <1>2, <1>3, <1>4, <1>5 DEF ThreadOK, Timeout, Progress, AllEvents

LEMMA DispatchIInv ==
  ASSUME IInv, NEW p \in Threads, Dispatch(p),
         goal' = [goal EXCEPT ![p] = NoGoal], UNCHANGED asked
  PROVE  IInv'
<1>1. Types /\ Vector /\ Places /\ Triggering /\ \A q \in Events : Notified(q)
  BY DEF IInv
<1>2. /\ phase = "evaluate" /\ firing = NoEvent /\ current = NoThread /\ p \in runnable
      /\ current' = p /\ runnable' = runnable \ {p}
      /\ UNCHANGED <<phase, slot, firing, examined, requested, eventVars, waitVars, stateVars>>
  BY DEF Dispatch, Runs, loopVars
<1>3. goal \in [Threads -> Goals] /\ NoGoal \in Goals
  BY <1>1 DEF Types, Goals, NoGoal, Goal
<1>4. Types'
  BY <1>1, <1>2, <1>3 DEF Types, TypeOK, waitVars, stateVars, eventVars
<1>5. Vector'
  BY <1>1, <1>2, VectorSame DEF eventVars, Delta
<1>6. \A q \in Events : Notified(q)'
  BY <1>1, <1>2 DEF Notified, eventVars
<1>7. Places' /\ Triggering'
  BY <1>1, <1>2, Names DEF Places, Triggering, stateVars
<1>8. \A q \in Threads \ {p} : ThreadOK(q)'
  BY <1>2, <1>3, Others, Names DEF stateVars, waitVars, eventVars, Waiting
<1>9. ThreadOK(p)'
  <2>1. ~Waiting(p) /\ ~Waiting(p)' /\ firing # p
    BY <1>2, Names DEF Waiting
  <2>2. /\ triggerType'[p] = "STATIC" /\ list'[p] = {} /\ \A e \in AllEvents : p \notin dynamic'[e]
        /\ notifyType'[p] = "NONE"
    BY <1>2, <2>1, NotWaiting DEF waitVars, eventVars
  <2>3. goal'[p].type = "NONE"
    BY <1>3 DEF NoGoal, Goal
  <2>4. InLists(p)' /\ Timeout(p)'
    BY <2>1, <2>2, Names DEF InLists, Timeout, Entries, AndLists, WithTimeout
  <2>5. Progress(p)'
    BY <2>1, <2>3 DEF Progress, Reached
  <2>6. QED
    BY <2>4, <2>5 DEF ThreadOK
<1>10. QED
  BY <1>4, <1>5, <1>6, <1>7, <1>8, <1>9 DEF IInv

(* The thread that runs is on no list and in no queue.                     *)
LEMMA Running ==
  ASSUME IInv, NEW p \in Threads, Runs(p)
  PROVE  /\ current = p /\ phase = "evaluate" /\ firing = NoEvent /\ firing # p /\ examined = {}
         /\ p \notin runnable /\ p \notin ready /\ p \notin suspended
         /\ triggerType[p] = "STATIC" /\ list[p] = {} /\ notifyType[p] = "NONE"
         /\ \A e \in AllEvents : p \notin dynamic[e]
<1>1. current = p /\ phase = "evaluate" /\ firing = NoEvent /\ firing # p /\ ~Waiting(p)
  BY Names DEF Runs, Waiting
<1>2. p \notin runnable /\ p \notin ready /\ p \notin suspended /\ examined = {}
  BY <1>1 DEF IInv, Places, Triggering
<1>3. QED
  BY <1>1, <1>2, NotWaiting

LEMMA GoalType ==
  ASSUME NEW type \in TriggerTypes \cup {"NONE", "CYCLES"}, NEW es \in SUBSET Events,
         NEW n \in Int, NEW t \in Int
  PROVE  /\ Goal(type, es, n, t) \in Goals
         /\ Goal(type, es, n, t).type = type /\ Goal(type, es, n, t).of = es
         /\ Goal(type, es, n, t).missing = n /\ Goal(type, es, n, t).repeats = 0
         /\ Goal(type, es, n, t).left = t
         /\ Goal(type, es, n, t).seen = {} /\ Goal(type, es, n, t).expired = FALSE
BY DEF Goal, Goals

(* The places of the threads when the one that runs starts to wait.        *)
LEMMA StopRunning ==
  ASSUME IInv, NEW p \in Threads, Runs(p), current' = NoThread,
         UNCHANGED <<phase, firing, examined, runnable, stateVars>>
  PROVE  Places' /\ Triggering' /\ Waiting(p)'
<1>1. /\ p \notin runnable /\ p \notin ready /\ firing = NoEvent /\ examined = {}
      /\ phase = "evaluate"
  BY Running
<1>2. suspended \subseteq Threads /\ runnable \subseteq Threads
  BY DEF IInv, Types, TypeOK
<1>3. Places'
  BY <1>1, <1>2, Names DEF IInv, Places, stateVars
<1>4. Triggering'
  BY <1>1, Names DEF Triggering, AllEvents
<1>5. Waiting(p)'
  BY <1>1, Names DEF Waiting, stateVars
<1>6. QED
  BY <1>3, <1>4, <1>5

LEMMA WaitStaticIInv ==
  ASSUME IInv, NEW p \in Threads, NEW n \in 1..MaxCycles, WaitStatic(p, n),
         goal' = [goal EXCEPT ![p] = Goal("CYCLES", {e \in Events : e \in Static[p]}, n, -1)],
         UNCHANGED asked
  PROVE  IInv'
<1>1. Types /\ Vector /\ Places /\ Triggering /\ \A q \in Events : Notified(q)
  BY DEF IInv
<1>2. Runs(p) /\ cycles' = [cycles EXCEPT ![p] = n - 1] /\ current' = NoThread
      /\ UNCHANGED <<phase, slot, firing, examined, runnable, requested, eventVars, triggerType,
                     list, count, timedOut, dynamic, stateVars>>
  BY DEF WaitStatic, loopVars
<1>3. /\ current = p /\ phase = "evaluate" /\ firing = NoEvent /\ firing # p /\ examined = {}
      /\ p \notin runnable /\ p \notin ready
      /\ triggerType[p] = "STATIC" /\ list[p] = {} /\ notifyType[p] = "NONE"
      /\ \A e \in AllEvents : p \notin dynamic[e]
  BY <1>2, Running
<1>4. {e \in Events : e \in Static[p]} = Static[p]
  BY Names
<1> DEFINE g == Goal("CYCLES", Static[p], n, -1)
<1>5. goal \in [Threads -> Goals] /\ g \in Goals /\ goal' = [goal EXCEPT ![p] = g]
  <2>1. Static[p] \in SUBSET Events /\ n \in Int
      /\ "CYCLES" \in TriggerTypes \cup {"NONE", "CYCLES"}
    BY Names
  <2>2. g \in Goals
    BY <2>1 DEF Goal, Goals
  <2>3. QED
    BY <1>1, <1>4, <2>2 DEF Types
<1>6. MaxCycles \in Nat /\ n - 1 \in 0..(MaxCycles - 1)
      /\ cycles \in [Threads -> 0..(MaxCycles - 1)]
  BY <1>1, DelaysAssumption DEF Types, TypeOK
<1>7. Types'
  <2>1. cycles' \in [Threads -> 0..(MaxCycles - 1)] /\ goal' \in [Threads -> Goals]
    BY <1>2, <1>5, <1>6
  <2>2. QED
    BY <1>1, <1>2, <2>1 DEF Types, TypeOK, stateVars, eventVars
<1>8. Vector'
  BY <1>1, <1>2, <1>3, VectorSame DEF eventVars, Delta
<1>9. \A q \in Events : Notified(q)'
  BY <1>1, <1>2 DEF Notified, eventVars
<1>10. Places' /\ Triggering' /\ Waiting(p)'
  BY <1>2, StopRunning
<1>11. \A q \in Threads \ {p} : ThreadOK(q)'
  BY <1>2, <1>3, <1>5, <1>6, Others, Names DEF stateVars, eventVars, Waiting
<1>12. ThreadOK(p)'
  <2>1. Waiting(p)'
    BY <1>10
  <2>2. InLists(p)' /\ Timeout(p)'
    BY <1>2, <1>3, <2>1, Names DEF InLists, Timeout, Entries, AndLists, WithTimeout, eventVars
  <2>3. goal'[p] = g /\ cycles'[p] = n - 1
    BY <1>2, <1>5, <1>6
  <2>4. AwaitsCycles(p)'
    <3>1. /\ g.type = "CYCLES" /\ g.of = Static[p] /\ g.left = -1 /\ g.expired = FALSE
          /\ g.missing = n /\ g.repeats = 0
      BY DEF Goal
    <3>2. n - 0 = n - 1 + 1
      OBVIOUS
    <3>3. QED
      BY <1>2, <1>3, <2>3, <3>1, <3>2 DEF AwaitsCycles
  <2>5. Progress(p)'
    BY <1>2, <1>3, <2>1, <2>4 DEF Progress
  <2>6. QED
    BY <2>2, <2>5 DEF ThreadOK
<1>13. QED
  BY <1>7, <1>8, <1>9, <1>10, <1>11, <1>12 DEF IInv

(* What a wait for events or a timeout can be.                             *)
LEMMA FormIs ==
  ASSUME NEW f \in Forms
  PROVE  /\ f \in Goals /\ f.type \in TriggerTypes \ {"STATIC"}
         /\ f.of \in SUBSET Events /\ IsFiniteSet(f.of)
         /\ f.type \in WithTimeout => f.left \in Delays \cup {0}
         /\ f.type \notin WithTimeout => f.left = -1
         /\ f.seen = {} /\ ~f.expired
<1> USE DEF WithTimeout, AndLists
<1>1. \A t \in Delays \cup {0} : t \in Int
  BY DelaysAssumption
<1>2. IsFiniteSet({}) /\ \A e : IsFiniteSet({e})
  BY FS_EmptySet, FS_Singleton
<1>3. PICK type \in TriggerTypes \ {"STATIC"}, es \in SUBSET Events, t \in Int :
        /\ f = Goal(type, es, 0, t) /\ IsFiniteSet(es)
        /\ IF type \in WithTimeout THEN t \in Delays \cup {0} ELSE t = -1
  <2> DEFINE One == {Goal("EVENT", {e}, 0, -1) : e \in Events}
             Timed == {Goal("TIMEOUT", {}, 0, t) : t \in Delays \cup {0}}
             OneTimed == {Goal("EVENT_TIMEOUT", {e}, 0, t) : e \in Events, t \in Delays \cup {0}}
             Lists == {Goal(type, es, 0, -1) : type \in {"OR_LIST", "AND_LIST"}, es \in EventLists}
             ListsTimed == {Goal(type, es, 0, t) : type \in {"OR_LIST_TIMEOUT", "AND_LIST_TIMEOUT"},
                                                   es \in EventLists, t \in Delays \cup {0}}
  <2> HIDE DEF One, Timed, OneTimed, Lists, ListsTimed
  <2>1. CASE f \in One
    <3>1. PICK e \in Events : f = Goal("EVENT", {e}, 0, -1)
      BY <2>1 DEF One
    <3>2. {e} \in SUBSET Events /\ "EVENT" \in TriggerTypes \ {"STATIC"} /\ -1 \in Int
      BY DEF TriggerTypes
    <3>3. QED
      BY <1>2, <3>1, <3>2
  <2>2. CASE f \in Timed
    <3>1. PICK t \in Delays \cup {0} : f = Goal("TIMEOUT", {}, 0, t)
      BY <2>2 DEF Timed
    <3>2. {} \in SUBSET Events /\ "TIMEOUT" \in TriggerTypes \ {"STATIC"} /\ t \in Int
      BY <1>1 DEF TriggerTypes
    <3>3. QED
      BY <1>2, <3>1, <3>2
  <2>3. CASE f \in OneTimed
    <3>1. PICK e \in Events, t \in Delays \cup {0} : f = Goal("EVENT_TIMEOUT", {e}, 0, t)
      BY <2>3 DEF OneTimed, Goal
    <3>2. {e} \in SUBSET Events /\ "EVENT_TIMEOUT" \in TriggerTypes \ {"STATIC"} /\ t \in Int
      BY <1>1 DEF TriggerTypes
    <3>3. QED
      BY <1>2, <3>1, <3>2
  <2>4. CASE f \in Lists
    <3>1. PICK type \in {"OR_LIST", "AND_LIST"}, es \in EventLists : f = Goal(type, es, 0, -1)
      BY <2>4 DEF Lists
    <3>2. es \in SUBSET Events /\ type \in TriggerTypes \ {"STATIC"} /\ -1 \in Int
      BY EventListsAssumption DEF TriggerTypes
    <3>3. QED
      BY <3>1, <3>2, EventListsAssumption
  <2>5. CASE f \in ListsTimed
    <3>1. PICK type \in {"OR_LIST_TIMEOUT", "AND_LIST_TIMEOUT"}, es \in EventLists,
               t \in Delays \cup {0} : f = Goal(type, es, 0, t)
      BY <2>5 DEF ListsTimed
    <3>2. es \in SUBSET Events /\ type \in TriggerTypes \ {"STATIC"} /\ t \in Int
      BY <1>1, EventListsAssumption DEF TriggerTypes
    <3>3. QED
      BY <3>1, <3>2, EventListsAssumption
  <2>6. Forms = One \cup Timed \cup OneTimed \cup Lists \cup ListsTimed
    BY DEF Forms, One, Timed, OneTimed, Lists, ListsTimed
  <2>7. QED
    BY <2>1, <2>2, <2>3, <2>4, <2>5, <2>6
<1>4. /\ f \in Goals /\ f.type = type /\ f.of = es /\ f.left = t /\ f.seen = {} /\ f.expired = FALSE
  <2>1. type \in TriggerTypes \cup {"NONE", "CYCLES"} /\ 0 \in Int
    OBVIOUS
  <2>2. QED
    BY <1>3, <2>1 DEF Goal, Goals
<1>5. QED
  BY <1>3, <1>4

LEMMA WaitDynamicIInv ==
  ASSUME IInv, NEW p \in Threads, NEW f \in Forms, WaitDynamic(p, f.type, f.of, f.left),
         goal' = [goal EXCEPT ![p] = f], UNCHANGED asked
  PROVE  IInv'
<1>1. Types /\ Vector /\ Places /\ Triggering /\ \A q \in Events : Notified(q)
  BY DEF IInv
<1>2. /\ f \in Goals /\ f.type \in TriggerTypes \ {"STATIC"}
      /\ f.of \in SUBSET Events /\ IsFiniteSet(f.of)
      /\ f.type \in WithTimeout => f.left \in Delays \cup {0}
      /\ f.type \notin WithTimeout => f.left = -1
      /\ f.seen = {} /\ ~f.expired
  BY FormIs
<1>3. /\ Runs(p)
      /\ triggerType' = [triggerType EXCEPT ![p] = f.type]
      /\ list' = [list EXCEPT ![p] = f.of]
      /\ count' = [count EXCEPT ![p] = IF f.type \in AndLists THEN Cardinality(f.of) ELSE 0]
      /\ dynamic' = [e \in AllEvents |->
                       IF e \in f.of \/ (e = p /\ f.type \in WithTimeout)
                       THEN dynamic[e] \cup {p} ELSE dynamic[e]]
      /\ IF f.type \in WithTimeout THEN StartTimeout(p, f.left) ELSE UNCHANGED eventVars
      /\ current' = NoThread
      /\ UNCHANGED <<phase, slot, firing, examined, runnable, requested, cycles, timedOut,
                     stateVars>>
  BY DEF WaitDynamic, loopVars
<1>4. /\ current = p /\ phase = "evaluate" /\ firing = NoEvent /\ firing # p /\ examined = {}
      /\ p \notin runnable /\ p \notin ready
      /\ triggerType[p] = "STATIC" /\ list[p] = {} /\ notifyType[p] = "NONE"
      /\ \A e \in AllEvents : p \notin dynamic[e]
  BY <1>3, Running
<1>5. /\ goal \in [Threads -> Goals] /\ triggerType \in [Threads -> TriggerTypes]
      /\ list \in [Threads -> SUBSET Events] /\ count \in [Threads -> Nat]
      /\ dynamic \in [AllEvents -> SUBSET Threads]
      /\ notifyType \in [AllEvents -> {"NONE", "DELTA", "TIMED"}] /\ due \in [AllEvents -> Nat]
  BY <1>1 DEF Types, TypeOK
<1>6. p \in AllEvents /\ p \notin Events /\ p # NoEvent
  BY Names
<1>7. /\ notifyType' \in [AllEvents -> {"NONE", "DELTA", "TIMED"}] /\ due' \in [AllEvents -> Nat]
      /\ \A q \in AllEvents : q # p => notifyType'[q] = notifyType[q] /\ due'[q] = due[q]
      /\ f.type \in WithTimeout => notifyType'[p] # "NONE" /\ due'[p] = f.left
      /\ f.type \notin WithTimeout => notifyType'[p] = "NONE"
  <2>1. CASE f.type \in WithTimeout
    <3>1. f.left \in Nat
      <4>1. f.left \in Delays \cup {0}
        BY <1>2, <2>1
      <4>2. \A t \in Delays \cup {0} : t \in Nat
        BY DelaysAssumption
      <4>3. QED
        BY <4>1, <4>2
    <3>2. QED
      BY <1>3, <1>5, <1>6, <2>1, <3>1 DEF StartTimeout
  <2>2. CASE f.type \notin WithTimeout
    BY <1>3, <1>4, <1>5, <2>2 DEF eventVars
  <2>3. QED
    BY <2>1, <2>2
<1>8. deltaEvents' \in Seq(AllEvents) /\ size' \in 0..Len(deltaEvents') /\ Vector'
  <2>1. CASE UNCHANGED <<deltaEvents, size>> /\ notifyType'[p] # "DELTA"
    <3>1. \A q \in AllEvents : Delta(q)' <=> Delta(q)
      BY <1>4, <1>7, <2>1 DEF Delta
    <3>2. QED
      BY <1>1, <1>3, <1>4, <2>1, <3>1, VectorSame DEF Types, TypeOK
  <2>2. CASE add_delta_event(p) /\ notifyType' = [notifyType EXCEPT ![p] = "DELTA"]
    <3>1. ~Delta(p)
      BY <1>4 DEF Delta
    <3>2. QED
      BY <1>1, <1>3, <1>4, <1>6, <2>2, <3>1, AddType, VectorAdd
  <2>3. CASE f.type \notin WithTimeout
    BY <1>3, <1>4, <2>1, <2>3 DEF eventVars
  <2>4. CASE f.type \in WithTimeout /\ f.left = 0
    BY <1>3, <2>2, <2>4 DEF StartTimeout
  <2>5. CASE f.type \in WithTimeout /\ f.left # 0
    <3>1. notifyType' = [notifyType EXCEPT ![p] = "TIMED"] /\ UNCHANGED <<deltaEvents, size>>
      BY <1>3, <2>5 DEF StartTimeout
    <3>2. notifyType'[p] # "DELTA"
      BY <1>5, <1>6, <3>1
    <3>3. QED
      BY <2>1, <3>1, <3>2
  <2>6. QED
    BY <2>3, <2>4, <2>5
<1>9. Cardinality(f.of) \in Nat /\ (f.of # {} => Cardinality(f.of) > 0)
  <2>1. Cardinality(f.of) \in Nat /\ (Cardinality(f.of) = 0 <=> f.of = {})
    BY <1>2, FS_CardinalityType, FS_EmptySet
  <2>2. QED
    BY <1>2, <2>1
<1>10. /\ \A e \in AllEvents : \A q \in Threads : q # p => (q \in dynamic'[e] <=> q \in dynamic[e])
       /\ \A e \in AllEvents : p \in dynamic'[e] <=> e \in f.of \/ (e = p /\ f.type \in WithTimeout)
       /\ dynamic' \in [AllEvents -> SUBSET Threads]
  BY <1>3, <1>4, <1>5
<1>11. Types'
  <2>1. 0 \in 0..Len(deltaEvents') /\ slot = 0
    BY <1>1, <1>4, <1>8, LenProperties DEF Vector, Listed
  <2>2. triggerType' \in [Threads -> TriggerTypes] /\ list' \in [Threads -> SUBSET Events]
        /\ count' \in [Threads -> Nat] /\ goal' \in [Threads -> Goals]
    BY <1>2, <1>3, <1>5, <1>9
  <2>3. QED
    BY <1>1, <1>3, <1>7, <1>8, <1>10, <2>1, <2>2 DEF Types, TypeOK, stateVars
<1>12. \A q \in Events : Notified(q)'
  BY <1>1, <1>3, <1>6, <1>7, Names DEF Notified
<1>13. Places' /\ Triggering' /\ Waiting(p)'
  BY <1>3, StopRunning
<1>14. \A q \in Threads \ {p} : ThreadOK(q)'
  BY <1>3, <1>4, <1>5, <1>7, <1>10, Others, Names DEF stateVars, Waiting
<1>15. ThreadOK(p)'
  <2>1. Waiting(p)'
    BY <1>13
  <2>2. triggerType'[p] = f.type /\ list'[p] = f.of /\ goal'[p] = f
        /\ (f.type \in AndLists => count'[p] = Cardinality(f.of))
    BY <1>3, <1>5
  <2>3. Entries(p)' = f.of
    BY <1>2, <1>6, <1>10, Names DEF Entries
  <2>4. InLists(p)'
    BY <1>2, <1>9, <1>10, <2>1, <2>2, <2>3, Names DEF InLists
  <2>5. Timeout(p)'
    BY <1>7, <2>2 DEF Timeout
  <2>6. AwaitsEvents(p)'
    <3>1. firing' = NoEvent /\ NoEvent \notin f.of /\ NoEvent # p
      BY <1>2, <1>3, <1>4, Names
    <3>2. f.left = -1 <=> f.type \notin WithTimeout
      BY <1>2, DelaysAssumption
    <3>3. QED
      BY <1>2, <2>2, <2>3, <3>1, <3>2 DEF AwaitsEvents, SeenBefore
  <2>7. Progress(p)'
    BY <1>2, <2>1, <2>2, <2>6 DEF Progress
  <2>8. QED
    BY <2>4, <2>5, <2>7 DEF ThreadOK
<1>16. QED
  BY <1>8, <1>11, <1>12, <1>13, <1>14, <1>15 DEF IInv

LEMMA SuspendIInv ==
  ASSUME IInv, NEW p \in Threads, NEW q \in Threads, Suspend(p, q), UNCHANGED <<asked, goal>>
  PROVE  IInv'
<1>1. Types /\ Vector /\ Places /\ Triggering /\ \A e \in Events : Notified(e)
  BY DEF IInv
<1>2. /\ Runs(p) /\ suspended' = suspended \cup {q}
      /\ ready' = IF q \in runnable \/ q = p THEN ready \cup {q} ELSE ready
      /\ runnable' = runnable \ {q} /\ current' = IF q = p THEN NoThread ELSE p
      /\ UNCHANGED <<phase, slot, firing, examined, requested, eventVars, waitVars>>
  BY DEF Suspend, loopVars
<1>3. /\ current = p /\ phase = "evaluate" /\ firing = NoEvent /\ examined = {}
      /\ p \notin runnable /\ p \notin ready /\ p \notin suspended
  BY <1>2, Running
<1>4. suspended \subseteq Threads /\ runnable \subseteq Threads /\ ready \subseteq Threads
  BY <1>1 DEF Types, TypeOK
<1>5. Types'
  BY <1>1, <1>2 DEF Types, TypeOK, eventVars, waitVars
<1>6. Vector'
  BY <1>1, <1>2, <1>3, VectorSame DEF eventVars, Delta
<1>7. \A e \in Events : Notified(e)'
  BY <1>1, <1>2 DEF Notified, eventVars
<1>8. Places'
  BY <1>1, <1>2, <1>3, <1>4, Names DEF Places
<1>9. Triggering'
  BY <1>2, <1>3, Names DEF Triggering, AllEvents
<1>10. \A r \in Threads : Untouched(r)
  <2>1. \A r \in Threads : Waiting(r)' <=> Waiting(r)
    BY <1>2, <1>3, Names DEF Waiting
  <2>2. QED
    BY <1>2, <2>1 DEF Untouched, eventVars, waitVars
<1>11. \A r \in Threads : ThreadOK(r)'
  BY <1>10, Local DEF IInv
<1>12. QED
  BY <1>5, <1>6, <1>7, <1>8, <1>9, <1>11 DEF IInv

LEMMA ResumeIInv ==
  ASSUME IInv, NEW p \in Threads, NEW q \in Threads, Resume(p, q), UNCHANGED <<asked, goal>>
  PROVE  IInv'
<1>1. Types /\ Vector /\ Places /\ Triggering /\ \A e \in Events : Notified(e)
  BY DEF IInv
<1>2. /\ Runs(p) /\ suspended' = suspended \ {q} /\ ready' = ready \ {q}
      /\ UNCHANGED <<phase, slot, firing, examined, current, requested, count, cycles, timedOut>>
  BY DEF Resume, loopVars
<1>3. /\ current = p /\ phase = "evaluate" /\ firing = NoEvent /\ firing # q /\ examined = {}
      /\ p \notin runnable /\ p \notin ready /\ p \notin suspended
  BY <1>2, Running, Names
<1>4. CASE q \in ready
  <2>1. /\ runnable' = runnable \cup {q} /\ StopWaiting(q) /\ cancel(q)
        /\ q \in AllEvents /\ q \notin Events
    BY <1>4, Names DEF Resume
  <2>2. ~Waiting(q)
    BY <1>4 DEF Waiting
  <2>3. /\ triggerType[q] = "STATIC" /\ list[q] = {} /\ notifyType[q] = "NONE"
        /\ \A e \in AllEvents : q \notin dynamic[e]
    BY <1>3, <2>2, NotWaiting
  <2>4. UNCHANGED <<triggerType, list, dynamic>>
    BY <1>1, <2>1, <2>3 DEF StopWaiting, Types, TypeOK
  <2>5. /\ notifyType' \in [AllEvents -> {"NONE", "DELTA", "TIMED"}] /\ due' \in [AllEvents -> Nat]
        /\ notifyType'[q] = "NONE"
        /\ \A e \in AllEvents : e # q => notifyType'[e] = notifyType[e] /\ due'[e] = due[e]
        /\ deltaEvents' \in Seq(AllEvents) /\ size' \in 0..Len(deltaEvents')
        /\ slot \in 0..Len(deltaEvents')
    BY <1>1, <2>1, CancelType
  <2>6. Types'
    BY <1>1, <1>2, <2>1, <2>4, <2>5 DEF Types, TypeOK
  <2>7. Vector'
    BY <1>1, <1>2, <1>3, <2>1, VectorCancel
  <2>8. \A e \in Events : Notified(e)'
    BY <1>1, <1>2, <2>1, <2>5, Names DEF Notified
  <2>9. Places'
    BY <1>1, <1>2, <1>3, <1>4, <2>1 DEF Places
  <2>10. Triggering'
    BY <1>2, <1>3, Names DEF Triggering, AllEvents
  <2>11. \A r \in Threads : Untouched(r)
    <3>1. \A r \in Threads : Waiting(r)' <=> Waiting(r)
      BY <1>2, <1>4, <2>1 DEF Waiting
    <3>2. \A r \in Threads : notifyType'[r] = notifyType[r]
                            /\ (triggerType[r] \in WithTimeout => due'[r] = due[r])
      BY <2>3, <2>5, Names DEF WithTimeout
    <3>3. QED
      BY <1>2, <2>4, <3>1, <3>2 DEF Untouched
  <2>12. \A r \in Threads : ThreadOK(r)'
    BY <2>11, Local DEF IInv
  <2>13. QED
    BY <2>6, <2>7, <2>8, <2>9, <2>10, <2>12 DEF IInv
<1>5. CASE q \notin ready
  <2>1. ready' = ready /\ UNCHANGED <<runnable, triggerType, list, dynamic, eventVars>>
    BY <1>2, <1>5 DEF Resume
  <2>2. Types'
    BY <1>1, <1>2, <2>1 DEF Types, TypeOK, eventVars
  <2>3. Vector'
    BY <1>1, <1>2, <1>3, <2>1, VectorSame DEF eventVars, Delta
  <2>4. \A e \in Events : Notified(e)'
    BY <1>1, <1>2, <2>1 DEF Notified, eventVars
  <2>5. Places'
    BY <1>1, <1>2, <1>3, <1>5, <2>1 DEF Places
  <2>6. Triggering'
    BY <1>2, <1>3, Names DEF Triggering, AllEvents
  <2>7. \A r \in Threads : Untouched(r)
    BY <1>2, <2>1 DEF Untouched, eventVars, Waiting
  <2>8. \A r \in Threads : ThreadOK(r)'
    BY <2>7, Local DEF IInv
  <2>9. QED
    BY <2>2, <2>3, <2>4, <2>5, <2>6, <2>8 DEF IInv
<1>6. QED
  BY <1>4, <1>5

-----------------------------------------------------------------------------
(* An event is triggered.                                                  *)

(* Whoever waits has not got what it waits for.                            *)
LEMMA NotOver ==
  ASSUME IInv, firing = NoEvent, NEW p \in Threads, Waiting(p)
  PROVE  ~Over(p) /\ goal[p].type # "NONE"
<1>1. ThreadOK(p) /\ p # NoEvent /\ NoEvent \notin Entries(p) /\ examined = {}
  BY Names DEF IInv, Entries, AllEvents, Triggering
<1>2. triggerType \in [Threads -> TriggerTypes] /\ cycles \in [Threads -> 0..(MaxCycles - 1)]
  BY DEF IInv, Types, TypeOK
<1>3. CASE triggerType[p] = "STATIC"
  <2>1. /\ goal[p].type = "CYCLES" /\ ~goal[p].expired
        /\ goal[p].missing - goal[p].repeats = cycles[p] + 1
    BY <1>1, <1>3 DEF ThreadOK, Progress, AwaitsCycles
  <2>2. goal[p].missing \in Int /\ goal[p].repeats \in Nat
    BY DEF IInv, Types, Goals
  <2>3. goal[p].missing # 0 /\ ~(goal[p].missing <= goal[p].repeats)
    BY <1>2, <2>1, <2>2
  <2>4. QED
    BY <2>1, <2>3 DEF Over, Satisfied, CutShort, AndLists
<1>4. CASE triggerType[p] # "STATIC"
  <2>1. /\ goal[p].type = triggerType[p] /\ goal[p].of = list[p] /\ ~goal[p].expired
        /\ goal[p].seen = SeenBefore(p)
    BY <1>1, <1>4 DEF ThreadOK, Progress, AwaitsEvents
  <2>2. triggerType[p] \notin {"NONE", "CYCLES"}
    BY <1>2 DEF TriggerTypes
  <2>3. CASE triggerType[p] \in AndLists
    <3>1. Entries(p) \subseteq list[p] /\ (list[p] # {} => Entries(p) # {})
      BY <1>1, <2>3, FS_EmptySet DEF ThreadOK, InLists
    <3>2. goal[p].of = {} \/ goal[p].seen # goal[p].of
      BY <2>1, <2>3, <3>1 DEF SeenBefore
    <3>3. QED
      BY <2>1, <2>2, <2>3, <3>2 DEF Over, Satisfied, CutShort
  <2>4. CASE triggerType[p] \notin AndLists
    BY <2>1, <2>2, <2>4 DEF Over, Satisfied, CutShort, SeenBefore
  <2>5. QED
    BY <2>3, <2>4
<1>5. QED
  BY <1>3, <1>4

LEMMA SeeType ==
  ASSUME goal \in [Threads -> Goals], NEW e, See(e) \/ Repeats(e)
  PROVE  /\ goal' \in [Threads -> Goals]
         /\ \A p \in Threads : goal'[p].type = goal[p].type /\ goal'[p].left = goal[p].left
                            /\ goal'[p].of = goal[p].of
<1>1. ASSUME NEW p \in Threads
      PROVE  /\ goal'[p] \in Goals
             /\ goal'[p].type = goal[p].type /\ goal'[p].left = goal[p].left
             /\ goal'[p].of = goal[p].of
  <2>1. goal[p] \in Goals
    OBVIOUS
  <2>2. CASE goal'[p] = goal[p]
    BY <2>1, <2>2
  <2>3. CASE goal'[p] = [goal[p] EXCEPT !.expired = TRUE]
    BY <2>1, <2>3 DEF Goals
  <2>4. CASE goal'[p] = [goal[p] EXCEPT !.missing = @ - 1]
    BY <2>1, <2>4 DEF Goals
  <2>5. CASE goal'[p] = [goal[p] EXCEPT !.seen = @ \cup ({e} \cap goal[p].of)]
    BY <2>1, <2>5 DEF Goals
  <2>6. CASE goal'[p] = [goal[p] EXCEPT !.repeats = @ + 1]
    BY <2>1, <2>6 DEF Goals
  <2>7. QED
    BY <2>2, <2>3, <2>4, <2>5, <2>6 DEF See, Repeats
<1>2. QED
  BY <1>1 DEF See, Repeats

(* The threads have seen the event, the kernel is about to tell them.      *)
LEMMA FireThreads ==
  ASSUME IInv, NEW e \in AllEvents, firing = NoEvent, Fire(e),
         See(e) \/ (Repeats(e) /\ e \in Events /\ dynamic[e] = {}),
         UNCHANGED <<current, runnable, stateVars, waitVars>>,
         \A q \in Threads : notifyType'[q] = notifyType[q] /\ due'[q] = due[q],
         e \in Threads => e \in dynamic[e] \/ ~Waiting(e)
  PROVE  Triggering' /\ \A p \in Threads : ThreadOK(p)'
<1>1. /\ firing' = e /\ examined' = Sensitive(e) /\ e # NoEvent /\ NoEvent \notin Events
      /\ NoEvent \notin Threads /\ \A q \in Threads : q \notin Events
      /\ current' = current /\ runnable' = runnable /\ ready' = ready
      /\ triggerType' = triggerType /\ list' = list /\ count' = count /\ cycles' = cycles
      /\ timedOut' = timedOut /\ dynamic' = dynamic
  BY Names DEF Fire, waitVars, stateVars, AllEvents
<1>2. \A p \in Threads : Waiting(p)' <=> Waiting(p)
  BY <1>1 DEF Waiting
<1>3. Triggering'
  BY <1>1, <1>2 DEF Triggering, Sensitive
<1>4. /\ goal \in [Threads -> Goals] /\ triggerType \in [Threads -> TriggerTypes]
      /\ cycles \in [Threads -> 0..(MaxCycles - 1)] /\ list \in [Threads -> SUBSET Events]
      /\ examined = {}
  BY DEF IInv, Types, TypeOK, Triggering
<1>5. ASSUME NEW p \in Threads PROVE ThreadOK(p)'
  <2>1. ThreadOK(p)
    BY DEF IInv
  <2>2. /\ goal'[p].type = goal[p].type /\ goal'[p].left = goal[p].left
        /\ goal'[p].of = goal[p].of /\ goal[p] \in Goals
    BY <1>4, SeeType
  <2>3. Entries(p)' = Entries(p)
    BY <1>1 DEF Entries
  <2>4. InLists(p)'
    BY <1>1, <1>2, <2>1, <2>3 DEF ThreadOK, InLists
  <2>5. firing # p
    BY <1>1
  <2>6. Timeout(p)'
    BY <1>1, <2>1, <2>2, <2>5 DEF ThreadOK, Timeout
  <2>7. CASE ~Waiting(p)
    <3>1. Reached(p)
      BY <2>1, <2>7 DEF ThreadOK, Progress
    <3>2. goal'[p] = goal[p]
      BY <3>1 DEF Reached, See, Repeats
    <3>3. Progress(p)'
      BY <1>1, <1>2, <2>7, <3>1, <3>2 DEF Progress, Reached, Over, Satisfied, CutShort
    <3>4. QED
      BY <2>4, <2>6, <3>3 DEF ThreadOK
  <2>8. CASE Waiting(p) /\ triggerType[p] = "STATIC"
    <3>1. /\ goal[p].type = "CYCLES" /\ goal[p].of = Static[p] /\ goal[p].left = -1
          /\ ~goal[p].expired /\ goal[p].missing - goal[p].repeats = cycles[p] + 1
      BY <1>4, <2>1, <2>8 DEF ThreadOK, Progress, AwaitsCycles
    <3>2. triggerType[p] \notin WithTimeout /\ triggerType[p] \notin AndLists
      BY <2>8 DEF WithTimeout, AndLists
    <3>3. \A q \in AllEvents : p \notin dynamic[q]
      BY <2>1, <2>8, <3>2 DEF ThreadOK, InLists, Entries, AllEvents
    <3>4. e # p
      BY <2>8, <3>3
    <3>5. p \in examined' <=> e \in Static[p]
      BY <1>1, <3>3 DEF Sensitive
    <3>6. ~Over(p) /\ goal[p].type # "NONE"
      BY <2>8, NotOver
    <3>7. ASSUME See(e)
          PROVE  /\ goal'[p].expired = goal[p].expired /\ goal'[p].repeats = goal[p].repeats
                 /\ goal'[p].missing = goal[p].missing - (IF e \in Static[p] THEN 1 ELSE 0)
      <4>1. goal'[p] = IF e \in Static[p] THEN [goal[p] EXCEPT !.missing = @ - 1]
                       ELSE [goal[p] EXCEPT !.seen = @ \cup ({e} \cap goal[p].of)]
        BY <3>1, <3>4, <3>6, <3>7 DEF See
      <4>2. /\ goal'[p].expired = goal[p].expired /\ goal'[p].repeats = goal[p].repeats
            /\ goal'[p].missing = IF e \in Static[p] THEN goal[p].missing - 1 ELSE goal[p].missing
        BY <2>2, <4>1 DEF Goals
      <4>3. goal[p].missing \in Int
        BY <2>2 DEF Goals
      <4>4. QED
        BY <4>2, <4>3
    <3>8. ASSUME Repeats(e)
          PROVE  /\ goal'[p].expired = goal[p].expired /\ goal'[p].missing = goal[p].missing
                 /\ goal'[p].repeats = goal[p].repeats + (IF e \in Static[p] THEN 1 ELSE 0)
      <4>1. goal'[p] = IF e \in Static[p] THEN [goal[p] EXCEPT !.repeats = @ + 1] ELSE goal[p]
        BY <3>1, <3>6, <3>8 DEF Repeats
      <4>2. /\ goal'[p].expired = goal[p].expired /\ goal'[p].missing = goal[p].missing
            /\ goal'[p].repeats = IF e \in Static[p] THEN goal[p].repeats + 1 ELSE goal[p].repeats
        BY <2>2, <4>1 DEF Goals
      <4>3. goal[p].repeats \in Int
        BY <2>2 DEF Goals
      <4>4. QED
        BY <4>2, <4>3
    <3>9. /\ goal'[p].expired = goal[p].expired
          /\ goal'[p].missing - goal'[p].repeats =
               goal[p].missing - goal[p].repeats - (IF e \in Static[p] THEN 1 ELSE 0)
      <4>1. goal[p].missing \in Int /\ goal[p].repeats \in Int
        BY <2>2 DEF Goals
      <4>2. QED
        BY <3>7, <3>8, <4>1
    <3>10. AwaitsCycles(p)'
      <4>1. goal'[p].missing - goal'[p].repeats =
              IF p \in examined' THEN cycles[p] ELSE cycles[p] + 1
        BY <1>4, <3>1, <3>5, <3>9
      <4>2. QED
        BY <1>1, <2>2, <3>1, <3>9, <4>1 DEF AwaitsCycles
    <3>11. Progress(p)'
      BY <1>1, <1>2, <2>8, <3>10 DEF Progress
    <3>12. QED
      BY <2>4, <2>6, <3>11 DEF ThreadOK
  <2>9. CASE Waiting(p) /\ triggerType[p] # "STATIC"
    <3>1. /\ goal[p].type = triggerType[p] /\ goal[p].of = list[p]
          /\ goal[p].left = -1 <=> triggerType[p] \notin WithTimeout
          /\ ~goal[p].expired /\ goal[p].seen = SeenBefore(p)
      BY <1>1, <2>1, <2>5, <2>9 DEF ThreadOK, Progress, AwaitsEvents, Entries
    <3>2. ~Over(p) /\ goal[p].type # "NONE"
      BY <2>9, NotOver
    <3>3. triggerType[p] # "CYCLES"
      BY <1>4 DEF TriggerTypes
    <3>4. SeenBefore(p)' = SeenBefore(p)
      BY <1>1, <2>3 DEF SeenBefore
    <3>5. CASE e = p
      <4>1. goal'[p] = [goal[p] EXCEPT !.expired = TRUE]
        BY <1>1, <3>2, <3>5 DEF See
      <4>2. goal'[p].expired = TRUE /\ goal'[p].seen = goal[p].seen
        BY <2>2, <4>1 DEF Goals
      <4>3. p \notin Entries(p)
        BY <1>1 DEF Entries
      <4>4. AwaitsEvents(p)'
        BY <1>1, <2>2, <2>3, <3>1, <3>4, <3>5, <4>2, <4>3 DEF AwaitsEvents
      <4>5. QED
        BY <1>1, <1>2, <2>4, <2>6, <2>9, <4>4 DEF ThreadOK, Progress
    <3>6. CASE e # p
      <4>1. SeenBefore(p) \cup ({e} \cap list[p]) = SeenBefore(p) \cup ({e} \cap Entries(p))
        <5>1. CASE triggerType[p] \in AndLists
          BY <2>1, <5>1 DEF SeenBefore, ThreadOK, InLists
        <5>2. CASE triggerType[p] \notin AndLists
          BY <2>1, <5>2 DEF ThreadOK, InLists
        <5>3. QED
          BY <5>1, <5>2
      <4>2. ASSUME See(e)
            PROVE  /\ goal'[p].expired = goal[p].expired
                   /\ goal'[p].seen = SeenBefore(p) \cup ({e} \cap Entries(p))
        <5>1. goal'[p] = [goal[p] EXCEPT !.seen = @ \cup ({e} \cap goal[p].of)]
          BY <3>1, <3>2, <3>3, <3>6, <4>2 DEF See
        <5>2. goal'[p].expired = goal[p].expired
              /\ goal'[p].seen = goal[p].seen \cup ({e} \cap goal[p].of)
          BY <2>2, <5>1 DEF Goals
        <5>3. QED
          BY <3>1, <4>1, <5>2
      <4>3. ASSUME Repeats(e), dynamic[e] = {}
            PROVE  /\ goal'[p].expired = goal[p].expired
                   /\ goal'[p].seen = SeenBefore(p) \cup ({e} \cap Entries(p))
        <5>1. goal'[p] = goal[p]
          BY <3>1, <3>3, <4>3 DEF Repeats
        <5>2. {e} \cap Entries(p) = {}
          BY <4>3 DEF Entries
        <5>3. QED
          BY <3>1, <5>1, <5>2
      <4>4. /\ goal'[p].expired = goal[p].expired
            /\ goal'[p].seen = SeenBefore(p) \cup ({e} \cap Entries(p))
        BY <4>2, <4>3
      <4>5. AwaitsEvents(p)'
        BY <1>1, <2>2, <2>3, <3>1, <3>4, <3>6, <4>4 DEF AwaitsEvents
      <4>6. QED
        BY <1>1, <1>2, <2>4, <2>6, <2>9, <4>5 DEF ThreadOK, Progress
    <3>7. QED
      BY <3>5, <3>6
  <2>10. QED
    BY <2>7, <2>8, <2>9
<1>6. QED
  BY <1>3, <1>5

LEMMA FiringIInv ==
  ASSUME IInv, NEW e \in AllEvents, firing = NoEvent, phase # "update", Fire(e),
         Happens(e) \/ (IsRepeat(e) /\ Repeats(e) /\ dynamic[e] = {}),
         UNCHANGED <<phase, current, runnable, requested, stateVars, waitVars>>,
         \A q \in AllEvents : q # e \/ q \in Threads
                                => notifyType'[q] = notifyType[q] /\ due'[q] = due[q],
         e \in Threads => e \in dynamic[e] \/ ~Waiting(e),
         notifyType' \in [AllEvents -> {"NONE", "DELTA", "TIMED"}], due' \in [AllEvents -> Nat],
         deltaEvents' \in Seq(AllEvents), size' \in 0..Len(deltaEvents'),
         slot' \in 0..Len(deltaEvents'), Vector'
  PROVE  IInv'
<1>1. Types /\ Places /\ \A q \in Events : Notified(q)
  BY DEF IInv
<1>2. /\ firing' = e /\ examined' = Sensitive(e) /\ e # NoEvent
      /\ See(e) \/ (Repeats(e) /\ e \in Events /\ dynamic[e] = {})
      /\ IF e \in Events THEN Forget(e) \/ (asked[e] = -1 /\ UNCHANGED asked)
                         ELSE UNCHANGED asked
  BY Names DEF Fire, Happens, IsRepeat, Repeats
<1>3. asked \in [Events -> Nat \cup {-1}] /\ goal \in [Threads -> Goals]
      /\ dynamic \in [AllEvents -> SUBSET Threads]
  BY <1>1 DEF Types, TypeOK
<1>4. asked' \in [Events -> Nat \cup {-1}]
      /\ \A q \in Events : asked'[q] = IF q = e THEN -1 ELSE asked[q]
  BY <1>2, <1>3 DEF Forget
<1>5. goal' \in [Threads -> Goals] /\ examined' \subseteq Threads
  BY <1>2, <1>3, SeeType DEF Sensitive
<1>6. Types'
  BY <1>1, <1>2, <1>4, <1>5 DEF Types, TypeOK, stateVars, waitVars
<1>7. Places'
  BY <1>1 DEF Places, stateVars
<1>8. Triggering' /\ \A p \in Threads : ThreadOK(p)'
  BY <1>2, FireThreads, Names
<1>9. ASSUME NEW q \in Events PROVE Notified(q)'
  <2>1. q \in AllEvents /\ q # firing /\ Notified(q)
    BY <1>1, Names
  <2>2. QED
    BY <1>2, <1>4, <2>1 DEF Notified
<1>10. QED
  BY <1>6, <1>7, <1>8, <1>9 DEF IInv

(* A pending timeout has its thread in its list.                           *)
LEMMA PendingTimeout ==
  ASSUME IInv, firing = NoEvent, NEW p \in Threads, notifyType[p] # "NONE"
  PROVE  p \in dynamic[p]
<1>1. ThreadOK(p) /\ firing # p
  BY Names DEF IInv, AllEvents
<1>2. QED
  BY <1>1 DEF ThreadOK, Timeout, InLists

LEMMA NotifyIInv ==
  ASSUME IInv, NEW p \in Threads, NEW e \in Events, Notify(p, e), Happens(e)
  PROVE  IInv'
<1>1. /\ phase = "evaluate" /\ firing = NoEvent /\ cancel(e) /\ Fire(e)
      /\ UNCHANGED <<phase, slot, current, runnable, requested, waitVars, stateVars>>
  BY DEF Notify, Runs
<1>2. e \in AllEvents /\ e \notin Threads /\ Types /\ Vector
  BY Names DEF IInv
<1>3. /\ notifyType' \in [AllEvents -> {"NONE", "DELTA", "TIMED"}] /\ due' \in [AllEvents -> Nat]
      /\ \A q \in AllEvents : q # e => notifyType'[q] = notifyType[q] /\ due'[q] = due[q]
      /\ deltaEvents' \in Seq(AllEvents) /\ size' \in 0..Len(deltaEvents')
      /\ slot \in 0..Len(deltaEvents')
  BY <1>1, <1>2, CancelType
<1>4. Vector'
  BY <1>1, <1>2, VectorCancel DEF Fire
<1>5. QED
  BY <1>1, <1>2, <1>3, <1>4, FiringIInv

LEMMA FireDeltaIInv ==
  ASSUME IInv, FireDelta, IF IsRepeat(firing') THEN Repeats(firing') ELSE Happens(firing')
  PROVE  IInv'
<1>1. Types /\ Vector /\ \A q \in Events : Notified(q)
  BY DEF IInv
<1>2. /\ phase = "notify" /\ firing = NoEvent /\ Fire(deltaEvents[slot])
      /\ firing' = deltaEvents[slot]
      /\ UNCHANGED <<phase, current, runnable, requested, eventVars, waitVars, stateVars>>
  BY DEF FireDelta, Fire
<1>3. PICK e \in AllEvents : e = deltaEvents[slot]
  BY <1>1, <1>2, VectorFireDelta
<1>4. Vector' /\ slot' \in 0..Len(deltaEvents) /\ (Delta(e) \/ Spent(e))
  BY <1>1, <1>2, <1>3, VectorFireDelta
<1>5. e \in Threads => e \in dynamic[e] \/ ~Waiting(e)
  BY <1>2, <1>4, PendingTimeout DEF Delta, Spent
<1>6. Fire(e) /\ (Happens(e) \/ (IsRepeat(e) /\ Repeats(e) /\ dynamic[e] = {}))
  <2>1. Fire(e) /\ firing' = e
    BY <1>2, <1>3
  <2>2. CASE ~IsRepeat(e)
    BY <2>1, <2>2
  <2>3. CASE IsRepeat(e)
    <3>1. e \in Events /\ e \notin Threads /\ e # firing /\ asked[e] = -1
      BY <1>2, <2>3, Names DEF IsRepeat
    <3>2. ~Delta(e)
      BY <1>1, <3>1 DEF Notified, Delta
    <3>3. dynamic[e] = {}
      BY <1>4, <3>1, <3>2 DEF Spent
    <3>4. QED
      BY <2>1, <2>3, <3>3
  <2>4. QED
    BY <2>2, <2>3
<1>7. /\ notifyType' \in [AllEvents -> {"NONE", "DELTA", "TIMED"}] /\ due' \in [AllEvents -> Nat]
      /\ deltaEvents' \in Seq(AllEvents) /\ size' \in 0..Len(deltaEvents')
      /\ slot' \in 0..Len(deltaEvents')
      /\ notifyType' = notifyType /\ due' = due
  BY <1>1, <1>2, <1>4 DEF Types, TypeOK, eventVars
<1>8. QED
  BY <1>2, <1>4, <1>5, <1>6, <1>7, FiringIInv

LEMMA FireTimedIInv ==
  ASSUME IInv, NEW e \in AllEvents, FireTimed(e), Happens(e)
  PROVE  IInv'
<1>1. Types /\ Vector
  BY DEF IInv
<1>2. /\ phase = "timed" /\ firing = NoEvent /\ notifyType[e] = "TIMED" /\ Fire(e)
      /\ UNCHANGED <<phase, slot, current, runnable, requested, eventVars, waitVars, stateVars>>
  BY DEF FireTimed, DueNow
<1>3. Vector'
  <2>1. Listed /\ firing' = e
    BY <1>1, <1>2 DEF Vector, Fire
  <2>2. Listed'
    BY <1>2, <2>1 DEF Listed, Delta, Distinct, eventVars
  <2>3. QED
    BY <1>2, <2>2 DEF Vector
<1>4. e \in Threads => e \in dynamic[e] \/ ~Waiting(e)
  BY <1>2, PendingTimeout
<1>5. /\ notifyType' \in [AllEvents -> {"NONE", "DELTA", "TIMED"}] /\ due' \in [AllEvents -> Nat]
      /\ deltaEvents' \in Seq(AllEvents) /\ size' \in 0..Len(deltaEvents')
      /\ slot' \in 0..Len(deltaEvents')
      /\ notifyType' = notifyType /\ due' = due
  BY <1>1, <1>2 DEF Types, TypeOK, eventVars
<1>6. QED
  BY <1>2, <1>3, <1>4, <1>5, FiringIInv

LEMMA FiredIInv ==
  ASSUME IInv, Fired, UNCHANGED <<asked, goal>>
  PROVE  IInv'
<1>1. Types /\ Vector /\ Places /\ Triggering /\ \A e \in Events : Notified(e)
  BY DEF IInv
<1>2. /\ firing # NoEvent /\ examined = {} /\ firing' = NoEvent
      /\ notifyType' = [notifyType EXCEPT ![firing] = "NONE"]
      /\ due' = [due EXCEPT ![firing] = 0]
      /\ UNCHANGED <<phase, slot, examined, current, runnable, requested, deltaEvents, size,
                     waitVars, stateVars>>
  BY DEF Fired
<1>3. /\ firing \in AllEvents /\ notifyType \in [AllEvents -> {"NONE", "DELTA", "TIMED"}]
      /\ due \in [AllEvents -> Nat]
  BY <1>1, <1>2 DEF Types, TypeOK
<1>4. dynamic[firing] = {} /\ (firing \in Threads => ~Waiting(firing))
  BY <1>1, <1>2 DEF Triggering
<1>5. Vector'
  BY <1>1, <1>4, VectorFired DEF Spent
<1>6. Types'
  BY <1>1, <1>2, <1>3 DEF Types, TypeOK, stateVars, waitVars
<1>7. Places' /\ Triggering'
  BY <1>1, <1>2, Names DEF Places, Triggering, stateVars, AllEvents
<1>8. ASSUME NEW e \in Events PROVE Notified(e)'
  <2>1. e # NoEvent /\ e \in AllEvents /\ Notified(e)
    BY <1>1, Names DEF AllEvents
  <2>2. QED
    BY <1>2, <1>3, <2>1 DEF Notified
<1>9. ASSUME NEW p \in Threads PROVE ThreadOK(p)'
  <2>1. ThreadOK(p) /\ p \in AllEvents /\ p # NoEvent
    BY Names DEF IInv, AllEvents
  <2>2. Waiting(p)' <=> Waiting(p)
    BY <1>2 DEF Waiting, stateVars
  <2>3. InLists(p)'
    BY <1>2, <2>1, <2>2 DEF ThreadOK, InLists, Entries, waitVars
  <2>4. firing = p => triggerType[p] \notin WithTimeout
    BY <1>4, <2>1 DEF ThreadOK, InLists
  <2>5. Timeout(p)'
    BY <1>2, <1>3, <2>1, <2>4 DEF ThreadOK, Timeout, waitVars
  <2>6. Progress(p)'
    <3>1. ~Waiting(p) => Reached(p)'
      BY <1>2, <2>1 DEF ThreadOK, Progress, Reached, Over, Satisfied, CutShort,
                              waitVars
    <3>2. Waiting(p) /\ triggerType[p] = "STATIC" => AwaitsCycles(p)'
      BY <1>2, <2>1 DEF ThreadOK, Progress, AwaitsCycles, waitVars
    <3>3. ASSUME Waiting(p), triggerType[p] # "STATIC" PROVE AwaitsEvents(p)'
      <4>1. AwaitsEvents(p) /\ firing # p
        BY <1>4, <2>1, <3>3 DEF ThreadOK, Progress
      <4>2. firing \notin Entries(p) /\ NoEvent \notin Entries(p)
        BY <1>4, Names DEF Entries, AllEvents
      <4>3. Entries(p)' = Entries(p)
        BY <1>2 DEF Entries, waitVars
      <4>4. QED
        BY <1>2, <2>1, <4>1, <4>2, <4>3 DEF AwaitsEvents, SeenBefore, waitVars
    <3>4. QED
      BY <1>2, <2>2, <3>1, <3>2, <3>3 DEF Progress, waitVars
  <2>7. QED
    BY <2>3, <2>5, <2>6 DEF ThreadOK
<1>10. QED
  BY <1>5, <1>6, <1>7, <1>8, <1>9 DEF IInv

-----------------------------------------------------------------------------
(* trigger_static() and trigger_dynamic().                                 *)

LEMMA Woken ==
  ASSUME IInv, NEW p \in Threads, p # current, Wake(p),
         UNCHANGED <<current, suspended, phase, firing>>
  PROVE  /\ Places' /\ ~Waiting(p)'
         /\ \A q \in Threads \ {p} : Waiting(q)' <=> Waiting(q)
         /\ runnable' \subseteq Threads /\ ready' \subseteq Threads
<1>1. Places /\ runnable \subseteq Threads /\ ready \subseteq Threads
  BY DEF IInv, Types, TypeOK
<1>2. CASE p \in suspended
  BY <1>1, <1>2 DEF Wake, Places, Waiting
<1>3. CASE p \notin suspended
  BY <1>1, <1>3 DEF Wake, Places, Waiting
<1>4. QED
  BY <1>2, <1>3

LEMMA TriggerStaticIInv ==
  ASSUME IInv, NEW p \in Threads, trigger_static(p), UNCHANGED <<asked, goal>>
  PROVE  IInv'
<1>1. Types /\ Vector /\ Places /\ Triggering /\ \A e \in Events : Notified(e)
  BY DEF IInv
<1>2. /\ p \in examined /\ p \notin dynamic[firing] /\ examined' = examined \ {p}
      /\ UNCHANGED <<phase, slot, firing, current, requested, eventVars, triggerType,
                     list, count, timedOut, dynamic, suspended>>
  BY DEF trigger_static
<1>3. firing # NoEvent
  BY <1>1, <1>2 DEF Triggering
<1>4. ThreadOK(p) /\ cycles \in [Threads -> 0..(MaxCycles - 1)]
  BY <1>1 DEF IInv, Types, TypeOK
<1>5. /\ Places' /\ (~Waiting(p) => ~Waiting(p)')
      /\ \A q \in Threads \ {p} : Waiting(q)' <=> Waiting(q)
      /\ runnable' \subseteq Threads /\ ready' \subseteq Threads
      /\ cycles' \in [Threads -> 0..(MaxCycles - 1)]
      /\ \A q \in Threads \ {p} : cycles'[q] = cycles[q]
  <2>1. CASE UNCHANGED <<runnable, ready>>
    <3>1. Places' /\ \A q \in Threads : Waiting(q)' <=> Waiting(q)
      BY <1>1, <1>2, <2>1 DEF Places, Waiting
    <3>2. cycles' = cycles \/ (cycles[p] > 0 /\ cycles' = [cycles EXCEPT ![p] = @ - 1])
          \/ (cycles' = cycles /\ Wake(p))
      BY DEF trigger_static
    <3>3. cycles' \in [Threads -> 0..(MaxCycles - 1)]
          /\ \A q \in Threads \ {p} : cycles'[q] = cycles[q]
      BY <1>4, <3>2, DelaysAssumption
    <3>4. QED
      BY <1>1, <2>1, <3>1, <3>3 DEF Types, TypeOK
  <2>2. CASE Wake(p) /\ cycles' = cycles /\ p # current
    BY <1>2, <1>4, <2>2, Woken
  <2>3. QED
    BY <2>1, <2>2 DEF trigger_static
<1>6. Vector'
  <2>1. \A e \in AllEvents : Spent(e) => Spent(e)'
    BY <1>2, <1>5 DEF Spent
  <2>2. QED
    BY <1>1, <1>2, <2>1, VectorSame DEF eventVars, Delta
<1>7. Types'
  BY <1>1, <1>2, <1>5 DEF Types, TypeOK, eventVars
<1>8. Triggering'
  BY <1>1, <1>2, <1>3, <1>5 DEF Triggering
<1>9. \A e \in Events : Notified(e)'
  BY <1>1, <1>2 DEF Notified, eventVars
<1>10. \A q \in Threads \ {p} : ThreadOK(q)'
  BY <1>2, <1>5, Others DEF eventVars
<1>11. ThreadOK(p)'
  <2>1. Timeout(p)'
    BY <1>2, <1>4 DEF ThreadOK, Timeout, eventVars
  <2>2. CASE UNCHANGED <<cycles, runnable, ready>>
            /\ (p \in runnable \/ p = current \/ triggerType[p] # "STATIC")
    <3>1. Waiting(p)' <=> Waiting(p)
      BY <1>2, <2>2 DEF Waiting
    <3>2. Waiting(p) => triggerType[p] # "STATIC"
      BY <2>2 DEF Waiting
    <3>3. InLists(p)'
      BY <1>2, <1>4, <3>1 DEF ThreadOK, InLists, Entries
    <3>4. Progress(p)'
      BY <1>2, <1>4, <3>1, <3>2 DEF ThreadOK, Progress, Reached, Over, Satisfied, CutShort,
                                   AwaitsEvents, SeenBefore, Entries
    <3>5. QED
      BY <2>1, <3>3, <3>4 DEF ThreadOK
  <2>3. CASE /\ p # current /\ triggerType[p] = "STATIC"
             /\ IF cycles[p] > 0
                THEN cycles' = [cycles EXCEPT ![p] = @ - 1] /\ UNCHANGED <<runnable, ready>>
                ELSE Wake(p) /\ UNCHANGED cycles
    <3>1. triggerType[p] \notin WithTimeout /\ triggerType[p] \notin AndLists
      BY <2>3 DEF WithTimeout, AndLists
    <3>2. InLists(p)'
      BY <1>2, <1>4, <2>3, <3>1 DEF ThreadOK, InLists, Entries
    <3>3. Reached(p) => Reached(p)'
      BY <1>2 DEF Reached, Over, Satisfied, CutShort
    <3>4. Progress(p)'
      <4>1. CASE ~Waiting(p)
        BY <1>4, <1>5, <3>3, <4>1 DEF ThreadOK, Progress
      <4>2. CASE Waiting(p) /\ cycles[p] > 0
        <5>1. AwaitsCycles(p) /\ Waiting(p)'
          BY <1>2, <1>4, <2>3, <4>2 DEF ThreadOK, Progress, Waiting
        <5>2. cycles'[p] = cycles[p] - 1 /\ cycles[p] - 1 + 1 = cycles[p] /\ p \notin examined'
          BY <1>2, <1>4, <2>3, <4>2
        <5>3. AwaitsCycles(p)'
          BY <1>2, <5>1, <5>2 DEF AwaitsCycles
        <5>4. QED
          BY <1>2, <2>3, <5>1, <5>3 DEF Progress
      <4>3. CASE Waiting(p) /\ ~(cycles[p] > 0)
        <5>1. AwaitsCycles(p) /\ cycles[p] = 0
          BY <1>4, <2>3, <4>3 DEF ThreadOK, Progress
        <5>2. goal[p].type = "CYCLES" /\ goal[p].missing - goal[p].repeats = 0
          BY <1>2, <5>1 DEF AwaitsCycles
        <5>3. goal[p].missing \in Int /\ goal[p].repeats \in Int
          BY <1>1 DEF Types, Goals
        <5>4. goal[p].missing <= goal[p].repeats
          BY <5>2, <5>3
        <5>5. Reached(p)
          BY <5>2, <5>4 DEF Reached, Over, CutShort
        <5>6. ~Waiting(p)'
          BY <1>2, <2>3, <4>3, Woken
        <5>7. QED
          BY <3>3, <5>5, <5>6 DEF Progress
      <4>4. QED
        BY <4>1, <4>2, <4>3
    <3>5. QED
      BY <2>1, <3>2, <3>4 DEF ThreadOK
  <2>4. QED
    BY <2>2, <2>3 DEF trigger_static
<1>12. QED
  BY <1>5, <1>6, <1>7, <1>8, <1>9, <1>10, <1>11 DEF IInv

(* A thread in the list of the event that is triggered waits, and the goal *)
(* has seen the event.                                                     *)
LEMMA InListOfFiring ==
  ASSUME IInv, NEW p \in Threads, p \in examined, p \in dynamic[firing]
  PROVE  /\ firing # NoEvent /\ Waiting(p) /\ triggerType[p] # "STATIC"
         /\ p # current /\ p \notin runnable /\ p \notin ready
         /\ ThreadOK(p) /\ AwaitsEvents(p)
         /\ firing # p => firing \in Entries(p) /\ firing \notin Threads
<1>1. Types /\ Triggering /\ ThreadOK(p)
  BY DEF IInv
<1>2. firing # NoEvent /\ firing \in AllEvents
  BY <1>1 DEF Triggering, Types, TypeOK
<1>3. Waiting(p)
  BY <1>2, NotWaiting
<1>4. triggerType[p] # "STATIC"
  <2>1. SUFFICES ASSUME triggerType[p] = "STATIC" PROVE FALSE
    OBVIOUS
  <2>2. triggerType[p] \notin WithTimeout /\ triggerType[p] \notin AndLists
    BY <2>1 DEF WithTimeout, AndLists
  <2>3. QED
    BY <1>1, <1>2, <2>1, <2>2 DEF ThreadOK, InLists, Entries, AllEvents
<1>5. AwaitsEvents(p)
  BY <1>1, <1>3, <1>4 DEF ThreadOK, Progress
<1>6. firing # p => firing \notin Threads
  BY <1>1 DEF ThreadOK, InLists
<1>7. firing # p => firing \in Entries(p)
  BY <1>2, <1>6 DEF Entries, AllEvents
<1>8. QED
  BY <1>1, <1>2, <1>3, <1>4, <1>5, <1>6, <1>7 DEF Waiting

(* One event of an AND list less to wait for.                              *)
LEMMA CountedIInv ==
  ASSUME IInv, NEW p \in Threads, p \in examined, p \in dynamic[firing],
         triggerType[p] \in AndLists, firing # p, count[p] > 1,
         examined' = examined \ {p},
         count' = [count EXCEPT ![p] = @ - 1],
         timedOut' = [timedOut EXCEPT ![p] = FALSE],
         dynamic' = [dynamic EXCEPT ![firing] = @ \ {p}],
         UNCHANGED <<phase, slot, firing, current, runnable, requested, eventVars,
                     triggerType, list, cycles, stateVars, asked, goal>>
  PROVE  IInv'
<1>1. Types /\ Vector /\ Places /\ Triggering /\ \A e \in Events : Notified(e)
  BY DEF IInv
<1>2. /\ firing # NoEvent /\ Waiting(p) /\ triggerType[p] # "STATIC"
      /\ ThreadOK(p) /\ AwaitsEvents(p) /\ firing \in Entries(p) /\ firing \notin Threads
  BY InListOfFiring
<1>3. /\ count \in [Threads -> Nat] /\ timedOut \in [Threads -> BOOLEAN]
      /\ dynamic \in [AllEvents -> SUBSET Threads] /\ firing \in AllEvents
  BY <1>1, <1>2 DEF Types, TypeOK
<1>4. /\ dynamic' \in [AllEvents -> SUBSET Threads]
      /\ dynamic'[firing] = dynamic[firing] \ {p}
      /\ \A e \in AllEvents : e # firing => dynamic'[e] = dynamic[e]
  BY <1>3
<1>5. \A q \in Threads : Waiting(q)' <=> Waiting(q)
  BY DEF Waiting, stateVars
<1>6. Types'
  <2>1. count' \in [Threads -> Nat] /\ timedOut' \in [Threads -> BOOLEAN]
    BY <1>3
  <2>2. QED
    BY <1>1, <1>4, <2>1 DEF Types, TypeOK, eventVars, stateVars
<1>7. Vector'
  <2>1. \A e \in AllEvents : Spent(e) => Spent(e)'
    BY <1>4, <1>5 DEF Spent
  <2>2. QED
    BY <1>1, <2>1, VectorSame DEF eventVars, Delta
<1>8. \A e \in Events : Notified(e)'
  BY <1>1 DEF Notified, eventVars
<1>9. Places'
  BY <1>1 DEF Places, stateVars
<1>10. Triggering'
  BY <1>1, <1>2, <1>4 DEF Triggering
<1>11. \A q \in Threads \ {p} : ThreadOK(q)'
  <2>1. \A q \in Threads \ {p}, e \in AllEvents : q \in dynamic'[e] <=> q \in dynamic[e]
    BY <1>4
  <2>2. \A q \in Threads \ {p} : count'[q] = count[q] /\ timedOut'[q] = timedOut[q]
    BY <1>3
  <2>3. QED
    BY <1>5, <2>1, <2>2, Others DEF eventVars
<1>12. ThreadOK(p)'
  <2>1. Entries(p)' = Entries(p) \ {firing}
    BY <1>3, <1>4, Names DEF Entries
  <2>2. /\ Entries(p) \subseteq list[p] /\ IsFiniteSet(Entries(p))
        /\ count[p] = Cardinality(Entries(p))
    BY <1>2 DEF ThreadOK, InLists
  <2>3. IsFiniteSet(Entries(p)') /\ Cardinality(Entries(p)') = count[p] - 1
    <3>1. /\ IsFiniteSet(Entries(p) \ {firing})
          /\ Cardinality(Entries(p) \ {firing}) = Cardinality(Entries(p)) - 1
      BY <1>2, <2>2, FS_RemoveElement
    <3>2. QED
      BY <2>1, <2>2, <3>1
  <2>4. count'[p] = count[p] - 1 /\ count'[p] > 0
    BY <1>3
  <2>5. \A q \in Threads : p \in dynamic'[q] <=> p \in dynamic[q]
    BY <1>2, <1>4, Names
  <2>6. InLists(p)'
    BY <1>2, <1>5, <2>1, <2>2, <2>3, <2>4, <2>5 DEF ThreadOK, InLists
  <2>7. Timeout(p)'
    BY <1>2 DEF ThreadOK, Timeout, eventVars
  <2>8. SeenBefore(p)' = SeenBefore(p) \cup {firing} /\ {firing} \cap Entries(p)' = {}
    BY <1>2, <2>1, <2>2 DEF SeenBefore
  <2>9. AwaitsEvents(p)'
    BY <1>2, <2>8 DEF AwaitsEvents
  <2>10. QED
    BY <1>2, <1>5, <2>6, <2>7, <2>9 DEF ThreadOK, Progress
<1>13. QED
  BY <1>6, <1>7, <1>8, <1>9, <1>10, <1>11, <1>12 DEF IInv

(* The wait ends.                                                          *)
LEMMA WokenIInv ==
  ASSUME IInv, NEW p \in Threads, p \in examined, p \in dynamic[firing],
         ~(triggerType[p] \in AndLists /\ firing # p /\ count[p] > 1),
         examined' = examined \ {p},
         timedOut' = [timedOut EXCEPT ![p] = firing = p /\ triggerType[p] # "TIMEOUT"],
         count' = [count EXCEPT ![p] = 0],
         StopWaiting(p), Wake(p), WithdrawTimeout(p),
         UNCHANGED <<phase, slot, firing, current, requested, cycles, suspended, asked, goal>>
  PROVE  IInv'
<1>1. Types /\ Vector /\ Places /\ Triggering /\ \A e \in Events : Notified(e)
  BY DEF IInv
<1>2. /\ firing # NoEvent /\ Waiting(p) /\ triggerType[p] # "STATIC" /\ p # current
      /\ ThreadOK(p) /\ AwaitsEvents(p)
      /\ firing # p => firing \in Entries(p) /\ firing \notin Threads
  BY InListOfFiring
<1>3. /\ count \in [Threads -> Nat] /\ timedOut \in [Threads -> BOOLEAN]
      /\ dynamic \in [AllEvents -> SUBSET Threads] /\ firing \in AllEvents
      /\ triggerType \in [Threads -> TriggerTypes] /\ list \in [Threads -> SUBSET Events]
      /\ p \in AllEvents /\ p \notin Events
  BY <1>1, <1>2, Names DEF Types, TypeOK
<1>4. /\ Places' /\ ~Waiting(p)'
      /\ \A q \in Threads \ {p} : Waiting(q)' <=> Waiting(q)
      /\ runnable' \subseteq Threads /\ ready' \subseteq Threads
  BY <1>2, Woken
<1>5. /\ triggerType' = [triggerType EXCEPT ![p] = "STATIC"]
      /\ list' = [list EXCEPT ![p] = {}]
      /\ dynamic' = [e \in AllEvents |-> dynamic[e] \ {p}]
  BY DEF StopWaiting
<1>6. /\ notifyType' \in [AllEvents -> {"NONE", "DELTA", "TIMED"}] /\ due' \in [AllEvents -> Nat]
      /\ deltaEvents' \in Seq(AllEvents) /\ size' \in 0..Len(deltaEvents')
      /\ slot \in 0..Len(deltaEvents') /\ Vector'
      /\ \A q \in AllEvents : q # p => notifyType'[q] = notifyType[q] /\ due'[q] = due[q]
      /\ firing # p => notifyType'[p] = "NONE"
  <2>0. (\A e \in AllEvents : Spent(e) => Spent(e)') /\ Spent(p)'
    BY <1>4, <1>5 DEF Spent
  <2>1. CASE triggerType[p] \in WithTimeout /\ firing # p
    <3>1. cancel(p)
      BY <2>1 DEF WithdrawTimeout
    <3>2. Vector'
      BY <1>1, <1>3, <1>4, <2>0, <2>1, <3>1, VectorCancel
    <3>3. QED
      BY <1>1, <1>3, <3>1, <3>2, CancelType
  <2>2. CASE ~(triggerType[p] \in WithTimeout /\ firing # p)
    <3>1. UNCHANGED eventVars
      BY <2>2 DEF WithdrawTimeout
    <3>2. Vector'
      BY <1>1, <2>0, <3>1, VectorSame DEF eventVars, Delta
    <3>3. firing # p => notifyType[p] = "NONE"
      BY <1>2, <2>2 DEF ThreadOK, Timeout
    <3>4. QED
      BY <1>1, <3>1, <3>2, <3>3 DEF eventVars, Types, TypeOK
  <2>3. QED
    BY <2>1, <2>2
<1>7. Types'
  <2>1. /\ count' \in [Threads -> Nat] /\ timedOut' \in [Threads -> BOOLEAN]
        /\ triggerType' \in [Threads -> TriggerTypes] /\ list' \in [Threads -> SUBSET Events]
        /\ dynamic' \in [AllEvents -> SUBSET Threads]
    BY <1>3, <1>5 DEF TriggerTypes
  <2>2. QED
    BY <1>1, <1>4, <1>6, <2>1 DEF Types, TypeOK
<1>8. ASSUME NEW e \in Events PROVE Notified(e)'
  <2>1. e \in AllEvents /\ e # p /\ Notified(e)
    BY <1>1, <1>3, Names
  <2>2. QED
    BY <1>6, <2>1 DEF Notified
<1>9. Triggering'
  <2>1. dynamic'[firing] = dynamic[firing] \ {p}
    BY <1>3, <1>5
  <2>2. firing \in Threads => firing = p
    BY <1>2
  <2>3. QED
    BY <1>1, <1>2, <1>4, <2>1, <2>2 DEF Triggering
<1>10. \A q \in Threads \ {p} : ThreadOK(q)'
  <2>1. \A q \in Threads \ {p}, e \in AllEvents : q \in dynamic'[e] <=> q \in dynamic[e]
    BY <1>5
  <2>2. \A q \in Threads \ {p} : /\ count'[q] = count[q] /\ timedOut'[q] = timedOut[q]
                                /\ triggerType'[q] = triggerType[q] /\ list'[q] = list[q]
                                /\ notifyType'[q] = notifyType[q] /\ due'[q] = due[q]
    BY <1>3, <1>5, <1>6, Names
  <2>3. QED
    BY <1>4, <2>1, <2>2, Others
<1>11. ThreadOK(p)'
  <2>1. /\ triggerType'[p] = "STATIC" /\ list'[p] = {}
        /\ \A e \in AllEvents : p \notin dynamic'[e]
        /\ timedOut'[p] = (firing = p /\ triggerType[p] # "TIMEOUT")
    BY <1>3, <1>5
  <2>2. InLists(p)' /\ Timeout(p)'
    BY <1>4, <1>6, <2>1, Names DEF InLists, Timeout, Entries, AndLists, WithTimeout
  <2>3. /\ goal[p].type = triggerType[p] /\ goal[p].of = list[p]
        /\ goal[p].expired <=> firing = p
        /\ goal[p].seen = SeenBefore(p) \cup ({firing} \cap Entries(p))
    BY <1>2 DEF AwaitsEvents
  <2>4. triggerType[p] # "CYCLES"
    BY <1>3 DEF TriggerTypes
  <2>5. Satisfied(p)
    <3>1. CASE firing = p
      BY <2>3, <3>1 DEF Satisfied
    <3>2. CASE firing # p /\ triggerType[p] \in AndLists
      <4>1. /\ Entries(p) \subseteq list[p] /\ IsFiniteSet(Entries(p))
            /\ count[p] = Cardinality(Entries(p)) /\ count[p] > 0 /\ list[p] # {}
        BY <1>2, <3>2 DEF ThreadOK, InLists
      <4>2. count[p] = 1
        BY <1>3, <3>2, <4>1
      <4>3. Entries(p) = {firing}
        <5>1. PICK e : Entries(p) = {e}
          BY <4>1, <4>2, FS_Singleton
        <5>2. QED
          BY <1>2, <3>2, <5>1
      <4>4. goal[p].of # {} /\ goal[p].seen = goal[p].of
        BY <2>3, <3>2, <4>1, <4>3 DEF SeenBefore
      <4>5. QED
        BY <2>3, <2>4, <3>2, <4>4 DEF Satisfied
    <3>3. CASE firing # p /\ triggerType[p] \notin AndLists
      <4>1. goal[p].seen # {}
        BY <1>2, <2>3, <3>3
      <4>2. QED
        BY <2>3, <2>4, <3>3, <4>1 DEF Satisfied
    <3>4. QED
      BY <3>1, <3>2, <3>3
  <2>6. Reached(p)'
    <3>1. Over(p)'
      BY <2>5 DEF Over, Satisfied
    <3>2. QED
      BY <2>1, <2>3, <3>1 DEF Reached
  <2>7. QED
    BY <1>4, <2>2, <2>6 DEF ThreadOK, Progress
<1>12. QED
  BY <1>4, <1>6, <1>7, <1>8, <1>9, <1>10, <1>11 DEF IInv

LEMMA TriggerDynamicIInv ==
  ASSUME IInv, NEW p \in Threads, trigger_dynamic(p), UNCHANGED <<asked, goal>>
  PROVE  IInv'
<1>1. /\ p \in examined /\ p \in dynamic[firing] /\ examined' = examined \ {p}
      /\ UNCHANGED <<phase, slot, firing, current, requested, cycles, suspended>>
  BY DEF trigger_dynamic
<1>2. p \notin runnable /\ triggerType[p] # "STATIC"
  BY <1>1, InListOfFiring
<1>3. CASE triggerType[p] \in AndLists /\ firing # p /\ count[p] > 1
  BY <1>1, <1>2, <1>3, CountedIInv DEF trigger_dynamic, eventVars, stateVars
<1>4. CASE ~(triggerType[p] \in AndLists /\ firing # p /\ count[p] > 1)
  <2>1. /\ timedOut' = [timedOut EXCEPT ![p] = firing = p /\ triggerType[p] # "TIMEOUT"]
        /\ count' = [count EXCEPT ![p] = 0]
        /\ StopWaiting(p) /\ Wake(p) /\ WithdrawTimeout(p)
    BY <1>2, <1>4 DEF trigger_dynamic
  <2>2. QED
    BY <1>1, <1>4, <2>1, WokenIInv
<1>5. QED
  BY <1>3, <1>4

-----------------------------------------------------------------------------
(* The time advances.                                                      *)
LEMMA AdvanceIInv ==
  ASSUME IInv, NEW t \in Times, Advance(t), Elapse(t)
  PROVE  IInv'
<1>1. Types /\ Vector /\ Places /\ Triggering /\ \A e \in Events : Notified(e)
  BY DEF IInv
<1>2. /\ phase = "timed" /\ firing = NoEvent
      /\ \A e \in AllEvents : notifyType[e] = "TIMED" => t <= due[e]
      /\ due' = [e \in AllEvents |-> IF notifyType[e] = "TIMED" THEN due[e] - t ELSE 0]
      /\ UNCHANGED <<phase, slot, firing, examined, current, runnable, requested, notifyType,
                     deltaEvents, size, waitVars, stateVars>>
  BY DEF Advance, loopVars
<1>3. t \in Nat
  BY DelaysAssumption DEF Times
<1>4. /\ due \in [AllEvents -> Nat] /\ asked \in [Events -> Nat \cup {-1}]
      /\ notifyType \in [AllEvents -> {"NONE", "DELTA", "TIMED"}]
      /\ goal \in [Threads -> Goals] /\ triggerType \in [Threads -> TriggerTypes]
      /\ deltaEvents \in Seq(AllEvents)
  BY <1>1 DEF Types, TypeOK
<1>5. \A e \in AllEvents : ~Delta(e)
  <2>1. Listed /\ size = 0
    BY <1>1, <1>2 DEF Vector, Listed
  <2>2. \A k \in 1..0 : FALSE
    OBVIOUS
  <2>3. QED
    BY <2>1, <2>2 DEF Listed
<1>6. due' \in [AllEvents -> Nat]
  BY <1>2, <1>3, <1>4
<1>7. ASSUME NEW e \in Events
      PROVE  Notified(e)' /\ asked'[e] \in Nat \cup {-1}
  <2>1. e \in AllEvents /\ e # NoEvent /\ Notified(e) /\ ~Delta(e)
    BY <1>1, <1>5, Names
  <2>2. asked'[e] = IF asked[e] = -1 THEN -1 ELSE asked[e] - t
    BY DEF Elapse
  <2>3. CASE notifyType[e] = "NONE"
    BY <1>2, <2>1, <2>2, <2>3 DEF Notified
  <2>4. CASE notifyType[e] = "TIMED"
    <3>1. asked[e] = due[e] /\ due[e] \in Nat /\ due'[e] = due[e] - t /\ t <= due[e]
      BY <1>2, <1>4, <2>1, <2>4 DEF Notified
    <3>2. asked'[e] = due'[e] /\ asked'[e] \in Nat
      BY <1>3, <2>2, <3>1
    <3>3. QED
      BY <1>2, <2>1, <2>4, <3>2 DEF Notified
  <2>5. QED
    BY <1>4, <2>1, <2>3, <2>4 DEF Delta
<1>8. ASSUME NEW p \in Threads
      PROVE  /\ goal'[p] \in Goals
             /\ goal'[p] = goal[p] \/ (goal[p].left # -1 /\ ~Over(p))
             /\ goal'[p].type = goal[p].type /\ goal'[p].of = goal[p].of
             /\ goal'[p].missing = goal[p].missing /\ goal'[p].repeats = goal[p].repeats
             /\ goal'[p].seen = goal[p].seen
             /\ goal'[p].expired = goal[p].expired
             /\ goal'[p].left = IF goal[p].left = -1 \/ Over(p) THEN goal[p].left
                                ELSE goal[p].left - t
  <2>1. goal'[p] = IF goal[p].left = -1 \/ Over(p) THEN goal[p]
                   ELSE [goal[p] EXCEPT !.left = @ - t]
    BY DEF Elapse
  <2>2. goal[p] \in Goals
    BY <1>4
  <2>3. CASE goal[p].left = -1 \/ Over(p)
    BY <2>1, <2>2, <2>3
  <2>4. CASE ~(goal[p].left = -1 \/ Over(p))
    <3>1. goal'[p] = [goal[p] EXCEPT !.left = @ - t]
      BY <2>1, <2>4
    <3>2. QED
      BY <1>3, <2>2, <2>4, <3>1 DEF Goals
  <2>5. QED
    BY <2>3, <2>4
<1>9. Types'
  <2>1. asked' \in [Events -> Nat \cup {-1}] /\ goal' \in [Threads -> Goals]
    BY <1>7, <1>8 DEF Elapse
  <2>2. QED
    BY <1>1, <1>2, <1>6, <2>1 DEF Types, TypeOK, stateVars, waitVars
<1>10. Places' /\ Triggering'
  BY <1>1, <1>2 DEF Places, Triggering, stateVars, waitVars, Waiting
<1>11. Vector'
  BY <1>1, <1>2, VectorSame DEF Delta
<1>12. ASSUME NEW p \in Threads PROVE ThreadOK(p)'
  <2>1. ThreadOK(p) /\ p \in AllEvents /\ firing # p
    BY <1>2, Names DEF IInv
  <2>2. Waiting(p)' <=> Waiting(p)
    BY <1>2 DEF Waiting, stateVars
  <2>3. InLists(p)'
    BY <1>2, <2>1, <2>2 DEF ThreadOK, InLists, Entries, waitVars
  <2>4. CASE ~Waiting(p)
    <3>1. triggerType[p] = "STATIC" /\ notifyType[p] = "NONE" /\ Reached(p)
      BY <2>1, <2>4, NotWaiting
    <3>2. triggerType[p] \notin WithTimeout
      BY <3>1 DEF WithTimeout
    <3>3. Timeout(p)'
      BY <1>2, <3>1, <3>2 DEF Timeout, waitVars
    <3>4. Reached(p)'
      BY <1>2, <1>8, <3>1 DEF Reached, Over, Satisfied, CutShort, waitVars
    <3>5. QED
      BY <2>2, <2>3, <2>4, <3>3, <3>4 DEF ThreadOK, Progress
  <2>5. CASE Waiting(p) /\ triggerType[p] \notin WithTimeout
    <3>1. goal[p].left = -1
      BY <2>1, <2>5 DEF ThreadOK, Progress, AwaitsCycles, AwaitsEvents
    <3>2. goal'[p] = goal[p]
      BY <1>8, <3>1
    <3>3. Timeout(p)'
      BY <1>2, <2>1, <2>5 DEF ThreadOK, Timeout, waitVars
    <3>4. AwaitsCycles(p) => AwaitsCycles(p)'
      BY <1>2, <3>2 DEF AwaitsCycles, waitVars
    <3>5. AwaitsEvents(p) => AwaitsEvents(p)'
      BY <1>2, <3>2 DEF AwaitsEvents, SeenBefore, Entries, waitVars
    <3>6. QED
      BY <1>2, <2>1, <2>2, <2>3, <2>5, <3>3, <3>4, <3>5 DEF ThreadOK, Progress, waitVars
  <2>6. CASE Waiting(p) /\ triggerType[p] \in WithTimeout
    <3>1. ~Over(p)
      BY <1>2, <2>6, NotOver
    <3>2. triggerType[p] # "STATIC"
      BY <2>6 DEF WithTimeout
    <3>3. AwaitsEvents(p) /\ due[p] = goal[p].left /\ goal[p].left # -1 /\ notifyType[p] # "NONE"
      BY <2>1, <2>6, <3>2 DEF ThreadOK, Progress, Timeout, AwaitsEvents
    <3>4. notifyType[p] = "TIMED"
      BY <1>4, <1>5, <2>1, <3>3 DEF Delta
    <3>5. due'[p] = due[p] - t /\ goal'[p].left = due'[p] /\ goal'[p].left # -1
      BY <1>2, <1>6, <1>8, <2>1, <3>1, <3>3, <3>4
    <3>6. Timeout(p)'
      BY <1>2, <2>6, <3>3, <3>5 DEF Timeout, waitVars
    <3>7. AwaitsEvents(p)'
      BY <1>2, <1>8, <2>6, <3>3, <3>5 DEF AwaitsEvents, SeenBefore, Entries, waitVars
    <3>8. QED
      BY <1>2, <2>2, <2>3, <2>6, <3>2, <3>6, <3>7 DEF ThreadOK, Progress, waitVars
  <2>7. QED
    BY <2>4, <2>5, <2>6
<1>13. QED
  BY <1>7, <1>9, <1>10, <1>11, <1>12 DEF IInv

-----------------------------------------------------------------------------
LEMMA InitIInv ==
  KernelInit => IInv
<1> SUFFICES ASSUME KernelInit PROVE IInv
  OBVIOUS
<1> USE DEF KernelInit, Init
<1>2. Types
  <2>1. <<>> \in Seq(AllEvents) /\ Len(<<>>) = 0
    OBVIOUS
  <2>2. goal \in [Threads -> Goals]
    BY DEF NoGoal, Goal, Goals
  <2>3. TypeOK
    BY <2>1, DelaysAssumption DEF TypeOK, TriggerTypes
  <2>4. QED
    BY <2>2, <2>3 DEF Types
<1>3. Places /\ Triggering
  BY Names DEF Places, Triggering, AllEvents
<1>4. Vector
  <2>1. Len(<<>>) = 0 /\ \A k \in 1..0 : FALSE
    OBVIOUS
  <2>2. \A e \in AllEvents : ~Delta(e)
    BY DEF Delta
  <2>3. Listed
    BY <2>1, <2>2 DEF Listed, Distinct
  <2>4. QED
    BY <2>3 DEF Vector
<1>5. \A e \in Events : Notified(e)
  BY Names DEF Notified, AllEvents
<1>6. ASSUME NEW p \in Threads PROVE ThreadOK(p)
  <2>1. ~Waiting(p) /\ firing # p /\ p \in AllEvents
    BY Names DEF Waiting
  <2>2. InLists(p) /\ Timeout(p)
    BY <2>1 DEF InLists, Timeout, Entries, AndLists, WithTimeout, AllEvents
  <2>3. goal[p].type = "NONE"
    BY DEF NoGoal, Goal
  <2>4. QED
    BY <2>1, <2>2, <2>3 DEF ThreadOK, Progress, Reached
<1>7. QED
  BY <1>2, <1>3, <1>4, <1>5, <1>6 DEF IInv

LEMMA StutterIInv ==
  ASSUME IInv, UNCHANGED vars
  PROVE  IInv'
<1>1. Types /\ Vector /\ Places /\ \A q \in Events : Notified(q)
  BY DEF IInv
<1>2. UNCHANGED <<phase, slot, firing, examined, current, runnable, requested, eventVars,
                  waitVars, stateVars, asked, goal>>
  BY DEF vars, loopVars
<1>3. Types'
  BY <1>1, <1>2 DEF Types, TypeOK, waitVars, stateVars, eventVars
<1>4. Vector'
  BY <1>1, <1>2, VectorSame DEF eventVars, waitVars, stateVars, Delta, Spent, Waiting
<1>5. \A q \in Events : Notified(q)'
  BY <1>1, <1>2 DEF Notified, eventVars
<1>6. Quiet
  BY <1>2 DEF Quiet, stateVars, eventVars
<1>7. QED
  BY <1>1, <1>2, <1>3, <1>4, <1>5, <1>6, QuietThreads DEF IInv, Places

LEMMA ThreadStepIInv ==
  ASSUME IInv, NEW p \in Threads, ThreadStep(p)
  PROVE  IInv'
<1>1. CASE Dispatch(p) /\ goal' = [goal EXCEPT ![p] = NoGoal] /\ UNCHANGED asked
  BY <1>1, DispatchIInv
<1>2. ASSUME NEW e \in Events,
             \/ Notify(p, e) /\ Happens(e)
             \/ \E t \in Delays \cup {0} : NotifyLater(p, e, t) /\ Ask(e, t) /\ UNCHANGED goal
             \/ Cancel(p, e) /\ Forget(e) /\ UNCHANGED goal
             \/ RequestUpdate(p, e) /\ UNCHANGED <<asked, goal>>
      PROVE  IInv'
  BY <1>2, NotifyIInv, LaterIInv, CancelIInv, RequestIInv
<1>3. ASSUME NEW n \in 1..MaxCycles, WaitStatic(p, n),
             goal' = [goal EXCEPT ![p] = Goal("CYCLES", {e \in Events : e \in Static[p]}, n, -1)],
             UNCHANGED asked
      PROVE  IInv'
  BY <1>3, WaitStaticIInv
<1>4. ASSUME NEW f \in Forms, WaitDynamic(p, f.type, f.of, f.left),
             goal' = [goal EXCEPT ![p] = f], UNCHANGED asked
      PROVE  IInv'
  BY <1>4, WaitDynamicIInv
<1>5. ASSUME NEW q \in Threads, Suspend(p, q) \/ Resume(p, q), UNCHANGED <<asked, goal>>
      PROVE  IInv'
  BY <1>5, SuspendIInv, ResumeIInv
<1>6. QED
  BY <1>1, <1>2, <1>3, <1>4, <1>5 DEF ThreadStep

LEMMA LoopStepIInv ==
  ASSUME IInv, LoopStep
  PROVE  IInv'
<1>1. CASE Fired /\ UNCHANGED <<asked, goal>>
  BY <1>1, FiredIInv
<1>2. CASE (EndEvaluation \/ EndUpdate \/ EndNotification \/ Crunch) /\ UNCHANGED <<asked, goal>>
  BY <1>2, PhaseIInv
<1>3. ASSUME NEW e \in Events, UpdateChannel(e), Ask(e, 0), UNCHANGED goal PROVE IInv'
  BY <1>3, UpdateIInv
<1>4. CASE FireDelta /\ IF IsRepeat(firing') THEN Repeats(firing') ELSE Happens(firing')
  BY <1>4, FireDeltaIInv
<1>5. ASSUME NEW e \in AllEvents, FireTimed(e), Happens(e) PROVE IInv'
  BY <1>5, FireTimedIInv
<1>6. ASSUME NEW t \in Times, Advance(t), Elapse(t) PROVE IInv'
  BY <1>6, AdvanceIInv
<1>7. QED
  BY <1>1, <1>2, <1>3, <1>4, <1>5, <1>6 DEF LoopStep

LEMMA NextIInv ==
  ASSUME IInv, [Next]_vars
  PROVE  IInv'
<1>1. CASE LoopStep
  BY <1>1, LoopStepIInv
<1>2. ASSUME NEW p \in Threads, ThreadStep(p) PROVE IInv'
  BY <1>2, ThreadStepIInv
<1>3. ASSUME NEW p \in Threads, TriggerStep(p) PROVE IInv'
  BY <1>3, TriggerStaticIInv, TriggerDynamicIInv DEF TriggerStep
<1>4. CASE UNCHANGED vars
  BY <1>4, StutterIInv
<1>5. QED
  BY <1>1, <1>2, <1>3, <1>4 DEF Next

THEOREM KernelInvariance == Spec => []IInv
<1>1. IInv /\ [Next]_vars => IInv'
  BY NextIInv
<1>2. QED
  BY InitIInv, <1>1, PTL DEF Spec

-----------------------------------------------------------------------------
(* The kernel's variables keep their values in range whatever the threads  *)
(* do; the loop over m_delta_events never leaves the memory of the vector. *)
THEOREM KernelTypeCorrect == Spec => []TypeOK
<1>1. IInv => TypeOK
  BY DEF IInv, Types
<1>2. QED
  BY <1>1, KernelInvariance, PTL

(* An event that was notified several times, with any delays, keeps one    *)
(* notification, the earliest (sc_event::notify, notify_delayed, cancel).  *)
THEOREM EarliestWinsCorrect == Spec => []EarliestWins
<1>1. ASSUME IInv PROVE EarliestWins
  <2>1. ASSUME firing = NoEvent, NEW e \in Events
        PROVE  CASE notifyType[e] = "NONE"  -> asked[e] = -1
                 [] notifyType[e] = "DELTA" -> asked[e] = 0
                 [] notifyType[e] = "TIMED" -> asked[e] = due[e]
    <3>1. Notified(e) /\ e \in AllEvents /\ e # firing
      BY <1>1, <2>1, Names DEF IInv
    <3>2. notifyType[e] \in {"NONE", "DELTA", "TIMED"}
      BY <1>1, <3>1 DEF IInv, Types, TypeOK
    <3>3. QED
      BY <3>1, <3>2 DEF Notified
  <2>2. QED
    BY <2>1 DEF EarliestWins
<1>2. QED
  BY <1>1, KernelInvariance, PTL

(* A thread that waits for events or for a timeout runs when, and only     *)
(* when, what it waits for has happened, and knows whether it was the      *)
(* timeout; one in wait(n) runs no later than at the n-th notification,    *)
(* and earlier only by the triggers it met that were none (trigger_static, *)
(* trigger_dynamic).                                                       *)
THEOREM WaitsInTimeCorrect == Spec => []WaitsEndInTime
<1>1. ASSUME IInv PROVE WaitsEndInTime
  <2>1. ASSUME firing = NoEvent, NEW p \in Threads, goal[p].type # "NONE"
        PROVE  /\ Over(p) <=> ~Waiting(p)
               /\ Over(p) /\ goal[p].type # "CYCLES"
                    => (timedOut[p] <=> goal[p].expired /\ goal[p].type # "TIMEOUT")
    <3>1. CASE Waiting(p)
      BY <1>1, <2>1, <3>1, NotOver
    <3>2. CASE ~Waiting(p)
      <4>1. Reached(p)
        BY <1>1, <3>2, NotWaiting
      <4>2. QED
        BY <2>1, <3>2, <4>1 DEF Reached
    <3>3. QED
      BY <3>1, <3>2
  <2>2. QED
    BY <2>1 DEF WaitsEndInTime
<1>2. QED
  BY <1>1, KernelInvariance, PTL

(* The timeout event of a thread is notified while the thread is in a wait *)
(* that has a timeout, for the time the wait gave, and never otherwise:    *)
(* nothing of a wait that an event ended cuts a later one short.           *)
THEOREM TimeoutsCorrect == Spec => []TimeoutsOnTime
<1>1. ASSUME IInv PROVE TimeoutsOnTime
  <2>1. ASSUME firing = NoEvent, NEW p \in Threads
        PROVE  IF Waiting(p) /\ goal[p].left # -1
               THEN notifyType[p] # "NONE" /\ due[p] = goal[p].left
               ELSE notifyType[p] = "NONE"
    <3>1. ThreadOK(p) /\ firing # p
      BY <1>1, <2>1, Names DEF IInv, AllEvents
    <3>2. CASE ~Waiting(p)
      BY <1>1, <3>1, <3>2, NotWaiting
    <3>3. CASE Waiting(p) /\ triggerType[p] = "STATIC"
      <4>1. goal[p].left = -1 /\ triggerType[p] \notin WithTimeout
        BY <3>1, <3>3 DEF ThreadOK, Progress, AwaitsCycles, WithTimeout
      <4>2. QED
        BY <3>1, <4>1 DEF ThreadOK, Timeout
    <3>4. CASE Waiting(p) /\ triggerType[p] # "STATIC"
      <4>1. goal[p].left = -1 <=> triggerType[p] \notin WithTimeout
        BY <3>1, <3>4 DEF ThreadOK, Progress, AwaitsEvents
      <4>2. QED
        BY <3>1, <3>4, <4>1 DEF ThreadOK, Timeout
    <3>5. QED
      BY <3>2, <3>3, <3>4
  <2>2. QED
    BY <2>1 DEF TimeoutsOnTime
<1>2. QED
  BY <1>1, KernelInvariance, PTL

(* A thread is in the lists of the events it waits for and in no other,    *)
(* also while trigger() walks through one of them, and the counter of an   *)
(* AND list is the number of lists it is in (add_dynamic, remove_dynamic). *)
THEOREM ListsAgreeCorrect == Spec => []ListsAgree
<1>1. ASSUME IInv PROVE ListsAgree
  <2>1. \A p \in Threads : InLists(p)
    BY <1>1 DEF IInv, ThreadOK
  <2>2. QED
    BY <2>1 DEF ListsAgree, InLists, Entries
<1>2. QED
  BY <1>1, KernelInvariance, PTL

(* In the loop over m_delta_events, only an event that has a notification  *)
(* to come is triggered, as long as no timeout has been cancelled in it.   *)
THEOREM TriggeredOnceCorrect == Spec => TriggeredOnce
<1>1. ASSUME IInv, Next, phase = "notify", firing = NoEvent, IsRepeat(firing')
      PROVE  size < Len(deltaEvents)
  <2>1. firing' # firing /\ examined = {}
    BY <1>1, Names DEF IInv, Triggering, AllEvents, IsRepeat
  <2>2. FireDelta
    <3>1. ~\E p \in Threads : ThreadStep(p)
      BY <1>1 DEF ThreadStep, Dispatch, Notify, NotifyLater, Cancel, RequestUpdate, WaitStatic,
                  WaitDynamic, Suspend, Resume, Runs
    <3>2. ~\E p \in Threads : TriggerStep(p)
      BY <2>1 DEF TriggerStep, trigger_static, trigger_dynamic
    <3>3. LoopStep
      BY <1>1, <3>1, <3>2 DEF Next
    <3>4. ~Fired /\ ~EndEvaluation /\ ~EndUpdate /\ ~EndNotification /\ ~Crunch
      BY <1>1, <2>1 DEF Fired, EndEvaluation, EndUpdate, EndNotification, Crunch, Runs
    <3>5. /\ \A e \in Events : ~UpdateChannel(e)
          /\ \A e \in AllEvents : ~FireTimed(e)
          /\ \A t \in Times : ~Advance(t)
      BY <1>1 DEF UpdateChannel, FireTimed, Advance
    <3>6. QED
      BY <3>3, <3>4, <3>5 DEF LoopStep
  <2>3. size = Len(deltaEvents) => Delta(firing')
    BY <1>1, <2>2, VectorFireDelta DEF IInv
  <2>4. ~Delta(firing')
    BY <1>1, <2>1 DEF IInv, Notified, Delta, IsRepeat
  <2>5. size \in 0..Len(deltaEvents) /\ Len(deltaEvents) \in Nat
    BY <1>1, LenProperties DEF IInv, Types, TypeOK
  <2>6. QED
    BY <2>3, <2>4, <2>5
<1>2. IInv /\ [Next]_vars
        => [phase = "notify" /\ firing = NoEvent /\ IsRepeat(firing')
              => size < Len(deltaEvents)]_vars
  BY <1>1
<1>3. QED
  BY <1>2, KernelInvariance, PTL DEF Spec, TriggeredOnce

=============================================================================

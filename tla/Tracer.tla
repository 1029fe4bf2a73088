------------------------------- MODULE Tracer -------------------------------
(***************************************************************************)
(* test::packet_tracer (src/src/test/packet_tracer.cpp) watching one       *)
(* output of the network.  Each packet carries a pointer to a packet_extra *)
(* that prepare_packet() allocates when the packet is emitted and          *)
(* input_watcher() frees when the packet shows at the output.  Two packets *)
(* are equal when their address and data are (src/include/noc/packet.h:    *)
(* 38-39), whatever their extra points to, and a signal that is written an *)
(* equal value keeps the old one.                                          *)
(***************************************************************************)
EXTENDS Integers, Sequences

CONSTANTS
  Inputs,
  Data,            \* the contents (address and data) of the packets
  NoData,          \* the content of packet(), before the first packet
  Extras,          \* the addresses malloc can return
  Null,
  Depth,           \* the depth of the FIFOs
  Fresh            \* a content is not used again while a signal or FIFO has it

ASSUME DepthAssumption == Depth \in Nat \ {0}

ASSUME FreshAssumption == Fresh \in BOOLEAN /\ NoData \notin Data

VARIABLES
  input,           \* the signal from a generator to its router
  pending,         \* the router has not yet read it since the last emission
  fifo,            \* the FIFO from the router to the arbiter of the output
  output,          \* the signal input_watcher() is sensitive to
  watch,           \* it has changed and input_watcher() has not run
  live,            \* _packet_extra_set, the extras that are not freed
  inserted         \* the live extras that have a fifo_insertion_date

tracerVars == <<input, pending, fifo, output, watch, live, inserted>>

packet(d, e) == [data |-> d, extra |-> e]

TracerInit ==
  /\ input = [i \in Inputs |-> packet(NoData, Null)]
  /\ pending = [i \in Inputs |-> FALSE]
  /\ fifo = [i \in Inputs |-> <<>>]
  /\ output = packet(NoData, Null)
  /\ watch = FALSE
  /\ live = {}
  /\ inserted = {}

Equal(p, q) == p.data = q.data

Written(signal, p) == IF Equal(p, signal) THEN signal ELSE p

InUse(d) ==
  \/ output.data = d
  \/ \E i \in Inputs :
       input[i].data = d \/ \E k \in 1..Len(fifo[i]) : fifo[i][k].data = d

\* Mutant: the new extra is not put into the set.
prepare_unregistered(e) == e \notin live /\ UNCHANGED live

(* malloc returns any address that is not in use.                          *)
prepare_packet(e) == e \notin live /\ live' = live \cup {e}

(* emit_random_package(): create the packet and write it on the wire.      *)
Emit(i, d, e) ==
  /\ ~pending[i]
  /\ Fresh => ~InUse(d)
  /\ prepare_packet(e)
  /\ inserted' = inserted \ {e}
  /\ input' = [input EXCEPT ![i] = Written(@, packet(d, e))]
  /\ pending' = [pending EXCEPT ![i] = TRUE]
  /\ UNCHANGED <<fifo, output, watch>>

(* read_packet(): mark the packet that is on the wire and store it.        *)
Insert(i) ==
  /\ pending[i]
  /\ Len(fifo[i]) < Depth
  /\ inserted' = inserted \cup {input[i].extra}
  /\ fifo' = [fifo EXCEPT ![i] = Append(@, input[i])]
  /\ pending' = [pending EXCEPT ![i] = FALSE]
  /\ UNCHANGED <<input, output, watch, live>>

(* The arbiter writes the head of a FIFO to the output, at most once per   *)
(* clock cycle, which gives input_watcher() the time to run.               *)
Deliver(i) ==
  /\ ~watch
  /\ fifo[i] # <<>>
  /\ output' = Written(output, Head(fifo[i]))
  /\ watch' = ~Equal(Head(fifo[i]), output)
  /\ fifo' = [fifo EXCEPT ![i] = Tail(@)]
  /\ UNCHANGED <<input, pending, live, inserted>>

\* Mutant: the extra is freed and stays in the set.
watcher_keeps ==
  /\ watch
  /\ watch' = FALSE
  /\ inserted' = inserted \ {output.extra}
  /\ UNCHANGED <<input, pending, fifo, output, live>>

(* The assertion _packet_extra_set.count(extra) is property WatchedIsLive. *)
input_watcher ==
  /\ watch
  /\ watch' = FALSE
  /\ live' = live \ {output.extra}
  /\ inserted' = inserted \ {output.extra}
  /\ UNCHANGED <<input, pending, fifo, output>>

TracerNext ==
  \/ \E i \in Inputs : \/ \E d \in Data, e \in Extras : Emit(i, d, e)
                       \/ Insert(i)
                       \/ Deliver(i)
  \/ input_watcher

TracerSpec == TracerInit /\ [][TracerNext]_tracerVars

-----------------------------------------------------------------------------
(* A packet that shows at the output carries an extra of its own, live and *)
(* dated at its insertion: the assertions of packet_tracer.cpp:262 and 281.  *)
WatchedIsLive == watch => output.extra \in live \cap inserted

(* The packets under way are those whose extra is live: none is leaked,    *)
(* freed too early or shared, so that every packet counts once in the      *)
(* statistics.                                                             *)
UnderWay ==
  {input[i].extra : i \in {k \in Inputs : pending[k]}}
    \cup (UNION {{fifo[i][k].extra : k \in 1..Len(fifo[i])} : i \in Inputs})
    \cup (IF watch THEN {output.extra} ELSE {})

NoExtraLost == live = UnderWay

=============================================================================

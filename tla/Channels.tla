------------------------------ MODULE Channels ------------------------------
(***************************************************************************)
(* The two SystemC primitive channels the simulated network is wired with, *)
(* as the code under src/src uses them: sc_fifo<packet> between a router   *)
(* and an arbiter, sc_signal<T> everywhere else.  Both have the SystemC    *)
(* request/update discipline: what a process writes in an evaluation phase *)
(* is visible to the others only after the next update phase.              *)
(***************************************************************************)
EXTENDS Integers, Sequences

-----------------------------------------------------------------------------
(* sc_fifo: a ring buffer of `depth' places.  `readable' is the number of  *)
(* elements the last update published; numRead and numWritten count what   *)
(* this evaluation phase has taken and added.                              *)

Fifo(depth, T) == [buf : Seq(T), readable : 0..depth,
                   numRead : 0..depth, numWritten : 0..depth]

EmptyFifo == [buf |-> <<>>, readable |-> 0, numRead |-> 0, numWritten |-> 0]

NumAvailable(q) == q.readable - q.numRead

NumFree(q, depth) == depth - q.readable - q.numWritten

(* The caller has checked num_free() > 0, so write() does not block.  A    *)
(* full ring buffer would drop the value silently (buf_write).             *)
FifoWrite(q, depth, v) ==
  [q EXCEPT !.buf = IF Len(@) < depth THEN Append(@, v) ELSE @,
            !.numWritten = @ + 1]

FifoRead(q) == [q EXCEPT !.buf = Tail(@), !.numRead = @ + 1]

FifoChanged(q) == q.numRead > 0 \/ q.numWritten > 0

FifoUpdate(q) ==
  [buf |-> q.buf, readable |-> Len(q.buf), numRead |-> 0, numWritten |-> 0]

-----------------------------------------------------------------------------
(* sc_signal: the value the readers see and the value the next update      *)
(* installs.  Writing an equal value is no change and triggers no event.   *)

Signal(T) == [cur : T, new : T]

InitSignal(v) == [cur |-> v, new |-> v]

SignalWrite(s, v) == [s EXCEPT !.new = v]

SignalChanged(s) == s.new # s.cur

SignalUpdate(s) == [s EXCEPT !.cur = s.new]

=============================================================================

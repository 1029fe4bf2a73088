------------------------------- MODULE HwFifo -------------------------------
(***************************************************************************)
(* The hardware FIFO (src/vhdl/fifo.vhd): a chain of fifo_stage registers  *)
(* linked by buses.  A bus carries data and the two wires of the two-phase *)
(* handshake; it is full when request and acknowledgement differ.  Bus 0   *)
(* is the FIFO's input, the last bus its output; with no stage both are    *)
(* one.                                                                    *)
(*                                                                         *)
(* The operators compute one rising clock edge from the values before it.  *)
(* The generic nb_stages of a FIFO is the length of its registers, so that *)
(* FIFOs of different lengths can stand side by side.                      *)
(***************************************************************************)
EXTENDS Integers, Sequences, FiniteSets

Bits == {0, 1}

\* Mutant: the toggle counts.
NotCounting(b) == b + 1

Not(b) == 1 - b

(* The registers of a FIFO: one entry per fifo_stage.                      *)
FifoRegs(nb_stages, T) ==
  [succ_req : [1..nb_stages -> Bits], pred_ack : [1..nb_stages -> Bits],
   dout : [1..nb_stages -> T]]

NbStages(f) == Len(f.dout)

ResetRegs(f) == [f EXCEPT !.succ_req = [n \in 1..NbStages(f) |-> 0],
                          !.pred_ack = [n \in 1..NbStages(f) |-> 0]]

InitRegs(nb_stages, d) == [succ_req |-> [n \in 1..nb_stages |-> 0],
                           pred_ack |-> [n \in 1..nb_stages |-> 0],
                           dout     |-> [n \in 1..nb_stages |-> d]]

-----------------------------------------------------------------------------
(* The wires of bus n, driven by the stage before it and the stage after   *)
(* it, or by the FIFO's own ports din, wr_req and rd_ack.                  *)
Req(f, wr_req, n) == IF n = 0 THEN wr_req ELSE f.succ_req[n]

Ack(f, rd_ack, n) == IF n = NbStages(f) THEN rd_ack ELSE f.pred_ack[n + 1]

Data(f, din, n) == IF n = 0 THEN din ELSE f.dout[n]

BusFull(f, wr_req, rd_ack, n) == Req(f, wr_req, n) # Ack(f, rd_ack, n)

\* Mutant: a stage does not wait for its successor.
MovesAlways(f, wr_req, rd_ack, n) == BusFull(f, wr_req, rd_ack, n - 1)

\* Mutant: a stage moves only once its request is low again.
MovesOnce(f, wr_req, rd_ack, n) ==
  /\ BusFull(f, wr_req, rd_ack, n - 1)
  /\ Req(f, wr_req, n) = 0

(* Stage n copies when the bus before it is full and the one after is not. *)
Moves(f, wr_req, rd_ack, n) ==
  /\ BusFull(f, wr_req, rd_ack, n - 1)
  /\ ~BusFull(f, wr_req, rd_ack, n)

FifoTick(f, din, wr_req, rd_ack) ==
  LET stages == 1..NbStages(f)
      moves(n) == Moves(f, wr_req, rd_ack, n) IN
  [succ_req |-> [n \in stages |-> IF moves(n) THEN Not(f.succ_req[n]) ELSE f.succ_req[n]],
   pred_ack |-> [n \in stages |-> IF moves(n) THEN Not(f.pred_ack[n]) ELSE f.pred_ack[n]],
   dout     |-> [n \in stages |-> IF moves(n) THEN Data(f, din, n - 1) ELSE f.dout[n]]]

(* The packets in the FIFO, oldest first: those on its full buses, where   *)
(* the k-th packet has all but k of them behind it.                        *)
Content(f, din, wr_req, rd_ack) ==
  LET buses == {n \in 0..NbStages(f) : BusFull(f, wr_req, rd_ack, n)}
      behind(n) == {m \in buses : m < n}
      bus(k) == CHOOSE n \in buses :
                  k + Cardinality(behind(n)) = Cardinality(buses)
  IN [k \in 1..Cardinality(buses) |-> Data(f, din, bus(k))]

=============================================================================

---------------------------- MODULE HwFifoSystem ----------------------------
(***************************************************************************)
(* A hardware FIFO between a traffic generator that offers a packet when   *)
(* its bus is free and a reader that takes one when it likes               *)
(* (src/vhdl/tb_fifo.vhd), with a common synchronous reset.                *)
(***************************************************************************)
EXTENDS HwFifo

CONSTANT Stages     \* nb_stages, zero included

ASSUME StagesAssumption == Stages \in Nat

CONSTANTS Packets, NoPacket

CONSTANT MaxAge      \* bound of the latency counter

ASSUME MaxAgeAssumption == MaxAge \in Nat

VARIABLES
  regs,              \* the registers of the stages
  din, wr_req,       \* driven by the writer
  rd_ack,            \* driven by the reader
  age                \* history: edges at which nothing was written and the
                     \* reader did not hesitate, since the last other one

vars == <<regs, din, wr_req, rd_ack, age>>

Queue == Content(regs, din, wr_req, rd_ack)

Full(n) == BusFull(regs, wr_req, rd_ack, n)

Init ==
  /\ regs = InitRegs(Stages, NoPacket)
  /\ din = NoPacket
  /\ wr_req = 0
  /\ rd_ack = 0
  /\ age = 0

(* traffic_generator: a new packet, only when the bus is free.             *)
Write ==
  /\ ~Full(0)
  /\ din' \in Packets
  /\ wr_req' = Not(wr_req)

NoWrite == UNCHANGED <<din, wr_req>>

(* traffic_acceptor, or a reader that makes the FIFO wait.                 *)
Read == Full(Stages) /\ rd_ack' = Not(rd_ack)

NoRead == UNCHANGED rd_ack

(* A rising edge of the clock: all registers at once.                      *)
Tick ==
  /\ regs' = FifoTick(regs, din, wr_req, rd_ack)
  /\ Write \/ NoWrite
  /\ Read \/ NoRead
  /\ age' = IF wr_req' # wr_req \/ (Full(Stages) /\ ~Read) THEN 0
            ELSE IF age < MaxAge THEN age + 1 ELSE age

Reset ==
  /\ regs' = ResetRegs(regs)
  /\ wr_req' = 0
  /\ rd_ack' = 0
  /\ age' = 0
  /\ UNCHANGED din

Next == Tick \/ Reset

Spec == Init /\ [][Next]_vars

(* The clock runs, and the reader takes what it is offered in the end.     *)
FairSpec == Spec /\ WF_vars(Tick) /\ WF_vars(Tick /\ Read)

-----------------------------------------------------------------------------
(* The values the registers take.                                          *)
TypeOK ==
  /\ regs \in FifoRegs(Stages, Packets \cup {NoPacket})
  /\ din \in Packets \cup {NoPacket}
  /\ wr_req \in Bits
  /\ rd_ack \in Bits
  /\ age \in 0..MaxAge

(* The chain of stages is one bounded queue: every stage deciding for      *)
(* itself, from the values before the edge, no packet is lost, repeated or *)
(* overtaken, and a reset empties all of them.                             *)
Queues == INSTANCE HwQueue WITH
  queue <- Queue, Capacity <- Stages + 1

ImplementsQueue == Queues!Spec

(* A packet leaves a FIFO whose reader does not hesitate at most 2N + 1    *)
(* edges after it was offered, however full the N stages were: the latency *)
(* of src/rapport/implementation.tex:101-102, and the reader's edge.       *)
LatencyBound == (\E n \in 0..Stages : Full(n)) => age <= 2 * Stages

(* The writer can offer its next packet in the end, whenever resets come.  *)
WriterNotStuck == Full(0) ~> ~Full(0)

=============================================================================

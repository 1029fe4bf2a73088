------------------------------ MODULE HwSwitch ------------------------------
(***************************************************************************)
(* The hardware switches (src/vhdl/sw_4x1.vhd and its eight-port copy      *)
(* sw_8x1.vhd): a FIFO per port, the four arbiters, and an output register *)
(* that takes a packet of the chosen FIFO when the output bus is free.     *)
(***************************************************************************)
EXTENDS HwFifo, HwArbiters

SwitchModes == {"fixed", "lru", "rand", "round"}

(* The registers of a switch with n ports.                                 *)
PortsOf(n) == 0..(n - 1)

SwitchRegs(n, nb_stages, T) ==
  [fifo : [PortsOf(n) -> FifoRegs(nb_stages, T)], rd_ack : [PortsOf(n) -> Bits],
   out0 : T, out0_req : Bits,
   lru : [PortsOf(n) -> PortsOf(n)], first : PortsOf(n)]

InitSwitch(n, nb_stages, d) ==
  [fifo |-> [i \in PortsOf(n) |-> InitRegs(nb_stages, d)],
   rd_ack |-> [i \in PortsOf(n) |-> 0],
   out0 |-> d, out0_req |-> 0,
   lru |-> ResetLru(PortsOf(n)), first |-> 0]

(* rst: every handshake back to zero, the data left as it is.              *)
ResetSwitch(s) ==
  LET ports == DOMAIN s.fifo IN
  [s EXCEPT !.fifo = [i \in ports |-> ResetRegs(@[i])],
            !.rd_ack = [i \in ports |-> 0],
            !.out0_req = 0,
            !.lru = ResetLru(ports),
            !.first = 0]

-----------------------------------------------------------------------------
(* wr_req and din are the wires of the input buses, out0_ack that of the   *)
(* output bus, rnd the port the shift register designates at this edge.    *)

LastBusFull(f, wr_req, rd_ack) == BusFull(f, wr_req, rd_ack, NbStages(f))

PendingPorts(s, wr_req) ==
  {i \in DOMAIN s.fifo : LastBusFull(s.fifo[i], wr_req[i], s.rd_ack[i])}

(* The acknowledgement of input bus i.                                     *)
WrAck(s, i) == Ack(s.fifo[i], s.rd_ack[i], 0)

(* The mux of the choices, selected by arbiter_mode.                       *)
Choice(s, wr_req, mode, rnd) ==
  LET pending == PendingPorts(s, wr_req) IN
  CASE mode = "fixed" -> choice_fixed(pending)
    [] mode = "lru"   -> choice_lru(s.lru, pending)
    [] mode = "rand"  -> choice_rand(rnd, pending)
    [] mode = "round" -> choice_round(s.first, pending)

\* Mutant: the output register does not wait for the output bus.
UsedAlways(s, wr_req, out0_ack, mode, rnd) ==
  Choice(s, wr_req, mode, rnd) # NoPort

choice_used(s, wr_req, out0_ack, mode, rnd) ==
  /\ Choice(s, wr_req, mode, rnd) # NoPort
  /\ out0_ack = s.out0_req

(* The port whose packet is moved to the output bus.                       *)
Granted(s, wr_req, out0_ack, mode, rnd) ==
  IF choice_used(s, wr_req, out0_ack, mode, rnd)
  THEN Choice(s, wr_req, mode, rnd) ELSE NoPort

LastData(f, din) == Data(f, din, NbStages(f))

SwitchTick(s, din, wr_req, out0_ack, mode, rnd) ==
  LET ports == DOMAIN s.fifo
      granted == Granted(s, wr_req, out0_ack, mode, rnd)
      moved == [s EXCEPT !.fifo = [i \in ports |->
                                     FifoTick(@[i], din[i], wr_req[i], s.rd_ack[i])]]
  IN IF granted = NoPort THEN moved
     ELSE [moved EXCEPT !.out0 = LastData(s.fifo[granted], din[granted]),
                        !.rd_ack[granted] = Not(@),
                        !.out0_req = Not(@),
                        !.lru = update_lru(@, granted),
                        !.first = update_first(granted, ports)]

=============================================================================

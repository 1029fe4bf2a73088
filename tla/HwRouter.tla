------------------------------ MODULE HwRouter ------------------------------
(***************************************************************************)
(* The hardware router (src/vhdl/router_1x4.vhd): it toggles the request   *)
(* of the output its two address bits name, and acknowledges with the      *)
(* exclusive or of the acknowledgements of all outputs.                    *)
(*                                                                         *)
(* A packet is a record of the fields of its 40 bits: bit 39 is zero, bits *)
(* 38..37 are target, 36..32 id, 31..0 payload                             *)
(* (src/vhdl/traffic_generator.vhd:42-45).                                 *)
(***************************************************************************)
EXTENDS Integers, FiniteSets

CONSTANTS
  AddressBase,     \* address_base, the lower of the two address bits
  Outs             \* the outputs that are in use, of the four

ASSUME AddressBaseAssumption == AddressBase \in 32..38

ASSUME OutsAssumption == Outs \subseteq 0..3

(* in0(address_base+1 downto address_base).                                *)
Address(p) == ((p.target * 32 + p.id) \div 2 ^ (AddressBase - 32)) % 4

(* out_acks[j] is the acknowledgement of output j.                         *)
InAck(out_acks) == Cardinality({j \in Outs : out_acks[j] = 1}) % 2

\* Mutant: the router does not wait for its output bus to be free.
CanForwardAlways(out_req, in0, in0_req, out_acks) == in0_req # InAck(out_acks)

CanForward(out_req, in0, in0_req, out_acks) ==
  /\ in0_req # InAck(out_acks)
  /\ out_acks[Address(in0)] = out_req[Address(in0)]

RouterTick(out_req, in0, in0_req, out_acks) ==
  IF CanForward(out_req, in0, in0_req, out_acks)
  THEN [out_req EXCEPT ![Address(in0)] = 1 - @]
  ELSE out_req

=============================================================================

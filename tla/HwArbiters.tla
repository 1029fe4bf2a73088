----------------------------- MODULE HwArbiters -----------------------------
(***************************************************************************)
(* The arbiters of the hardware switches, for any number of ports:         *)
(* arbiter_fixed, arbiter_lru, arbiter_rand and arbiter_round with their   *)
(* eight-port copies (src/vhdl/arbiter_*.vhd).  A one-hot vector is the    *)
(* port whose bit is set, the null vector is NoPort.                       *)
(***************************************************************************)
EXTENDS Integers, FiniteSets, Sequences, FiniteSetsExt

NoPort == -1

-----------------------------------------------------------------------------
(* The combinational choices, from the set of the ports whose empty bit is *)
(* low.                                                                    *)

(* arbiter_fixed: the highest port that is not empty.                      *)
choice_fixed(pending) ==
  IF pending = {} THEN NoPort ELSE Max(pending)

(* arbiter_round: the first port that is not empty, going up from first    *)
(* and, after the last port, from port 0.                                  *)
choice_round(first, pending) ==
  LET above == {i \in pending : i >= first} IN
  IF pending = {} THEN NoPort ELSE Min(IF above = {} THEN pending ELSE above)

(* arbiter_rand: the port the shift register designates, if not empty.     *)
choice_rand(extracted_bits, pending) ==
  IF extracted_bits \in pending THEN extracted_bits ELSE NoPort

(* arbiter_lru: the entry of lru at the first index k for which port k,    *)
(* not port lru[k], is not empty.                                          *)
choice_lru(lru, pending) ==
  IF pending = {} THEN NoPort ELSE lru[Min(pending)]

-----------------------------------------------------------------------------
(* The registers after an edge at which choice was used.                   *)

ResetLru(ports) == [k \in ports |-> k]

\* Mutant: the entries do not move, the choice is written over the last.
update_lru_no_shift(lru, choice) == [lru EXCEPT ![Max(DOMAIN lru)] = choice]

(* An entry moves down when the choice is at or before its place.          *)
update_lru(lru, choice) ==
  [k \in DOMAIN lru |->
     IF k + 1 \notin DOMAIN lru THEN choice
     ELSE IF \E n \in 0..k : lru[n] = choice THEN lru[k + 1]
     ELSE lru[k]]

\* Mutant: the search starts at the port chosen last.
update_first_stays(choice, ports) == choice

(* The vector turns by one.                                                *)
update_first(choice, ports) == IF choice + 1 \in ports THEN choice + 1 ELSE 0

=============================================================================

-------------------------------- MODULE Lfsr --------------------------------
(***************************************************************************)
(* The random numbers of noc::arbiter: init_rand(), update_rand() and the  *)
(* eight bits choose_rand() reads (src/src/arbiter.cpp:11-27, 54-58).      *)
(* _lfsr is a signed int of 32 bits: >> rounds down and %, of C++, towards *)
(* zero, so that a negative odd number has the remainder -1.               *)
(***************************************************************************)
EXTENDS Integers

\* Mutant: the register is not seeded.
init_rand_zero == 0

init_rand == 1

(* x % 2 as C++ computes it.                                               *)
Rem2(x) == IF x < 0 THEN -(x % 2) ELSE x % 2

(* (x << 1) + r in 32 bits, in steps that do not leave them.               *)
ShiftIn(x, r) ==
  LET half == 2 ^ 30
      low == IF x >= half THEN x - half ELSE IF x < -half THEN x + half ELSE x
      even == IF x >= half THEN 2 * low - half - half
              ELSE IF x < -half THEN 2 * low + half + half
              ELSE 2 * low
  IN IF even = -half - half /\ r < 0
     THEN half + (half - 1)
     ELSE even + r

update_rand(x) ==
  ShiftIn(x, Rem2((x \div 2) + (x \div 2 ^ 6) + (x \div 2 ^ 16)))

(* The byte choose_rand() builds: its i-th term is bit 4i, shifted by i, as *)
(* a number modulo 256.                                                    *)
randomNumber ==
  [x \in Int |->
     LET bit(i) == Rem2(x \div 2 ^ (4 * i)) * 2 ^ i
     IN (bit(0) + bit(1) + bit(2) + bit(3) + bit(4) + bit(5) + bit(6) + bit(7))
          % 256]

-----------------------------------------------------------------------------
(* 2^n transfers from the register x on: the register after them, and the  *)
(* registers they drew from.                                               *)
Orbit[n \in Nat, x \in Int] ==
  IF n = 0
  THEN [after |-> update_rand(x), drawn |-> {x}]
  ELSE LET half == Orbit[n - 1, x]
           rest == Orbit[n - 1, half.after]
       IN  [after |-> rest.after, drawn |-> half.drawn \cup rest.drawn]

(* The registers that recur: the whole orbit has fewer than 2^14.          *)
Cycle == Orbit[14, Orbit[14, init_rand].after].drawn

(* The register falls into this cycle and does not leave it.               *)
RegisterRecurs == {update_rand(x) : x \in Cycle} = Cycle

(* The bytes that are drawn again and again.                               *)
Bytes == {randomNumber[x] : x \in Cycle}

=============================================================================

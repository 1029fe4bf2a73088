------------------------------ MODULE MCArbiter ------------------------------
(***************************************************************************)
(* The arbiters with the random register they draw from, for TLC.          *)
(***************************************************************************)
EXTENDS ArbiterSystem, Lfsr

(* Whichever FIFOs hold packets, the mode RAND draws each of them again    *)
(* and again: the register recurs, is not zero, from which there is no way *)
(* back, and is in no cycle that leaves one of up to eight FIFOs out       *)
(* (update_rand, choose_rand).                                             *)
EveryFifoDrawn ==
  /\ RegisterRecurs
  /\ \A n \in 1..8 : {b % n : b \in Bytes} = 0..(n - 1)
  /\ \A j \in Outputs :
       Avail(j) # {} => {ChooseRand(b, Avail(j)) : b \in Bytes} = Avail(j)

=============================================================================

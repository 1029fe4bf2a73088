--------------------------- MODULE TrafficGenerator ---------------------------
(***************************************************************************)
(* What the two traffic generators share (abstract_traffic_generator,      *)
(* src/src/traffic_generator.cpp): a thread that counts the positive edges *)
(* of the clock, beside the thread generate() that reads the count at the  *)
(* same edges, in an order SystemC does not define, and sets it to zero;   *)
(* and the addresses of the packets, drawn anew when their life ends.      *)
(*                                                                         *)
(* emit_random_package() is the interval between two of its waits: at      *)
(* least the edge at which the router answers and the edge at which the    *)
(* request is taken back, and as many more as the router's FIFO is full    *)
(* for.  Its steps are those of module Generator.                          *)
(***************************************************************************)
EXTENDS Integers

CONSTANTS
  MaxStall,                 \* bound of the length of an emission, in edges
  AddressMin, AddressMax,   \* the range of addresses, AddressMax excluded
  MaxLifeTime               \* max_life_time, an unsigned

ASSUME MaxStallAssumption == MaxStall \in Nat /\ MaxStall >= 2

ASSUME RangeAssumption ==
  AddressMin \in 0..255 /\ AddressMax \in 0..255 /\ AddressMin < AddressMax

ASSUME LifeTimeAssumption == MaxLifeTime \in Nat \ {0}

VARIABLES
  count,        \* _clock_count
  counterRun,   \* clock_counter() has not run at this edge
  pc,           \* generate(): "wait", "run" or "emitting"
  length,       \* edges of the emission under way, or of the last one
  since,        \* history: edges since generate() last set the count to zero
  address,      \* _current_address
  life,         \* _current_address_life_time, eight bits
  used          \* history: packets given this address since it was drawn

clockVars == <<count, counterRun, pc, length, since>>

addressVars == <<address, life, used>>

(* rand() % n is any value below n; the life time keeps its low eight bits. *)
choose_new_random_address(a, l) ==
  /\ a \in AddressMin..(AddressMax - 1)
  /\ l \in {r % 256 : r \in 0..(MaxLifeTime - 1)}

GeneratorInit ==
  /\ count = 0
  /\ counterRun = FALSE
  /\ pc = "wait"
  /\ length = 0
  /\ since = 0
  /\ choose_new_random_address(address, life)
  /\ used = 0

\* Mutant: the life time is compared with zero before it is counted down.
get_address_late ==
  IF life = 0
  THEN choose_new_random_address(address', life') /\ used' = 0
  ELSE /\ life' = life - 1
       /\ used' = used + 1
       /\ UNCHANGED address

(* The life time is counted down, modulo 256, then compared with zero.     *)
get_address ==
  LET left == (life - 1) % 256 IN
  IF left = 0
  THEN choose_new_random_address(address', life') /\ used' = 0
  ELSE /\ life' = left
       /\ used' = used + 1
       /\ UNCHANGED address

(* A positive edge: both threads can run, if generate() is not emitting.   *)
PosEdge ==
  /\ ~counterRun
  /\ pc # "run"
  /\ pc = "emitting" => length < MaxStall
  /\ counterRun' = TRUE
  /\ since' = since + 1
  /\ IF pc = "wait" THEN pc' = "run" /\ UNCHANGED length
                    ELSE length' = length + 1 /\ UNCHANGED pc
  /\ UNCHANGED <<count, addressVars>>

clock_counter ==
  /\ counterRun
  /\ counterRun' = FALSE
  /\ count' = count + 1
  /\ UNCHANGED <<pc, length, since, addressVars>>

(* emit_random_package() is called, and draws the address first.           *)
EmissionStarts ==
  /\ pc' = "emitting"
  /\ length' = 0
  /\ get_address
  /\ UNCHANGED counterRun

(* It returns, at a negative edge.                                         *)
EmissionEnds ==
  /\ pc = "emitting"
  /\ ~counterRun
  /\ length >= 2
  /\ pc' = "wait"
  /\ UNCHANGED <<counterRun, length, addressVars>>

(* generate() finds nothing to do at this edge.                            *)
NothingDue == pc' = "wait" /\ UNCHANGED <<counterRun, length, addressVars>>

reset_clock_count == count' = 0 /\ since' = 0

=============================================================================

------------------------------ MODULE SimKernel ------------------------------
(***************************************************************************)
(* The SystemC kernel under the simulation: sc_event, the waits of         *)
(* sc_thread_process and the loops of sc_simcontext (3rd_party/systemc-    *)
(* 2.3.0, src/sysc/kernel).  The threads do anything: notify and cancel    *)
(* events, ask channels for an update, suspend and resume each other, and  *)
(* wait in every way there is.                                             *)
(*                                                                         *)
(* Times are relative to the current time, so that time has no bound.  The *)
(* run queues are one set: what holds, holds for every order.              *)
(***************************************************************************)
EXTENDS Integers, Sequences, FiniteSets

CONSTANTS
  Threads,      \* a thread stands for its m_timeout_event_p, too
  Events,       \* the events of the program
  Delays,       \* the delays of notify(t) and wait(t), zero excepted
  MaxCycles,    \* the largest n of wait(n)
  Static,       \* Static[p]: the events thread p is statically sensitive to
  NoThread,
  NoEvent

ASSUME DelaysAssumption == Delays \subseteq Nat \ {0} /\ MaxCycles \in Nat \ {0}
ASSUME StaticAssumption == Static \in [Threads -> SUBSET Events]
ASSUME NamesAssumption ==
  Threads \cap Events = {} /\ NoThread \notin Threads /\ NoEvent \notin Events \cup Threads

AllEvents == Events \cup Threads

TriggerTypes ==
  {"STATIC", "EVENT", "OR_LIST", "AND_LIST",
   "TIMEOUT", "EVENT_TIMEOUT", "OR_LIST_TIMEOUT", "AND_LIST_TIMEOUT"}

WithTimeout == {"TIMEOUT", "EVENT_TIMEOUT", "OR_LIST_TIMEOUT", "AND_LIST_TIMEOUT"}

AndLists == {"AND_LIST", "AND_LIST_TIMEOUT"}

VARIABLES
  phase,         \* where crunch() and simulate() are
  current,       \* the thread that runs
  runnable,      \* the threads in a run queue
  requested,     \* the channels to update, each named by the event it notifies
  notifyType,    \* m_notify_type of each event
  due,           \* time to go until a TIMED notification
  deltaEvents,   \* the memory of m_delta_events
  size,          \* its size()
  slot,          \* the loop over it: slots still to be triggered
  firing,        \* the event whose trigger() is under way
  examined,      \* the threads trigger() has still to look at
  triggerType,   \* m_trigger_type of each thread
  list,          \* m_event_list_p, or m_event_p alone
  count,         \* m_event_count
  cycles,        \* m_wait_cycle_n
  timedOut,      \* m_timed_out
  suspended,     \* ps_bit_suspended
  ready,         \* ps_bit_ready_to_run
  dynamic        \* m_threads_dynamic of each event

eventVars == <<notifyType, due, deltaEvents, size>>
waitVars == <<triggerType, list, count, cycles, timedOut, dynamic>>
stateVars == <<suspended, ready>>
loopVars == <<phase, slot, firing, examined>>

Init ==
  /\ phase = "evaluate"
  /\ current = NoThread
  /\ runnable = Threads
  /\ requested = {}
  /\ notifyType = [e \in AllEvents |-> "NONE"]
  /\ due = [e \in AllEvents |-> 0]
  /\ deltaEvents = <<>>
  /\ size = 0
  /\ slot = 0
  /\ firing = NoEvent
  /\ examined = {}
  /\ triggerType = [p \in Threads |-> "STATIC"]
  /\ list = [p \in Threads |-> {}]
  /\ count = [p \in Threads |-> 0]
  /\ cycles = [p \in Threads |-> 0]
  /\ timedOut = [p \in Threads |-> FALSE]
  /\ suspended = {}
  /\ ready = {}
  /\ dynamic = [e \in AllEvents |-> {}]

-----------------------------------------------------------------------------
(* m_delta_events.                                                         *)

add_delta_event(e) ==
  /\ deltaEvents' = Append(deltaEvents, e)
  /\ size' = size + 1

IndexOf(e) == CHOOSE k \in 1..size : deltaEvents[k] = e

(* The last event takes the place of the removed one.  The loop over the   *)
(* vector does not see it shrink: it reads on in the same memory.          *)
remove_delta_event(e) ==
  LET moved == [deltaEvents EXCEPT ![IndexOf(e)] = deltaEvents[size]]
  IN /\ deltaEvents' = IF phase = "notify" THEN moved ELSE SubSeq(moved, 1, size - 1)
     /\ size' = size - 1

(* sc_event::cancel(), notifications to come of an event withdrawn.        *)
cancel(e) ==
  /\ notifyType' = [notifyType EXCEPT ![e] = "NONE"]
  /\ due' = [due EXCEPT ![e] = 0]
  /\ IF notifyType[e] = "DELTA" THEN remove_delta_event(e)
                                ELSE UNCHANGED <<deltaEvents, size>>

\* Mutant: an event that is notified already is added again.
notify_delta_again(e) ==
  /\ notifyType' = [notifyType EXCEPT ![e] = "DELTA"]
  /\ due' = [due EXCEPT ![e] = 0]
  /\ add_delta_event(e)

(* sc_event::notify(SC_ZERO_TIME)                                          *)
notify_delta(e) ==
  IF notifyType[e] = "DELTA" THEN UNCHANGED eventVars
  ELSE /\ notifyType' = [notifyType EXCEPT ![e] = "DELTA"]
       /\ due' = [due EXCEPT ![e] = 0]
       /\ add_delta_event(e)

\* Mutant: a later notification replaces the one that is pending.
notify_timed_last(e, t) ==
  IF notifyType[e] = "DELTA"
  THEN UNCHANGED eventVars
  ELSE /\ notifyType' = [notifyType EXCEPT ![e] = "TIMED"]
       /\ due' = [due EXCEPT ![e] = t]
       /\ UNCHANGED <<deltaEvents, size>>

(* sc_event::notify(t): the earlier notification wins.                     *)
notify_timed(e, t) ==
  IF notifyType[e] = "DELTA" \/ (notifyType[e] = "TIMED" /\ due[e] <= t)
  THEN UNCHANGED eventVars
  ELSE /\ notifyType' = [notifyType EXCEPT ![e] = "TIMED"]
       /\ due' = [due EXCEPT ![e] = t]
       /\ UNCHANGED <<deltaEvents, size>>

-----------------------------------------------------------------------------
(* sc_event::trigger(), one thread after the other.                        *)

Sensitive(e) == dynamic[e] \cup {p \in Threads : e \in Static[p]}

Fire(e) ==
  /\ firing' = e
  /\ examined' = Sensitive(e)

(* The thread that has got what it waited for.                             *)
Wake(p) ==
  IF p \in suspended
  THEN ready' = ready \cup {p} /\ UNCHANGED runnable
  ELSE runnable' = runnable \cup {p} /\ UNCHANGED ready

(* trigger_static(), for a thread in wait() or wait(n).                    *)
trigger_static(p) ==
  /\ p \in examined /\ p \notin dynamic[firing]
  /\ examined' = examined \ {p}
  /\ IF p \in runnable \/ p = current \/ triggerType[p] # "STATIC"
     THEN UNCHANGED <<cycles, runnable, ready>>
     ELSE IF cycles[p] > 0
          THEN cycles' = [cycles EXCEPT ![p] = @ - 1] /\ UNCHANGED <<runnable, ready>>
          ELSE Wake(p) /\ UNCHANGED cycles
  /\ UNCHANGED <<phase, slot, firing, current, requested, eventVars, triggerType,
                 list, count, timedOut, dynamic, suspended>>

\* Mutant: the other events of the wait keep the thread in their lists.
StopWaitingForOne(p) ==
  /\ triggerType' = [triggerType EXCEPT ![p] = "STATIC"]
  /\ list' = [list EXCEPT ![p] = {}]
  /\ dynamic' = [dynamic EXCEPT ![firing] = @ \ {p}]

(* The wait ends: the thread leaves the lists of all its events.           *)
StopWaiting(p) ==
  /\ triggerType' = [triggerType EXCEPT ![p] = "STATIC"]
  /\ list' = [list EXCEPT ![p] = {}]
  /\ dynamic' = [e \in AllEvents |-> dynamic[e] \ {p}]

\* Mutant: the timeout of a wait that is over stays pending.
KeepTimeout(p) == UNCHANGED eventVars

(* An event came first: the timeout of the wait is cancelled.              *)
WithdrawTimeout(p) ==
  IF triggerType[p] \in WithTimeout /\ firing # p THEN cancel(p) ELSE UNCHANGED eventVars

(* trigger_dynamic(), for a thread in any other wait.  A thread that runs   *)
(* already, or waits no longer, only leaves the list.                      *)
trigger_dynamic(p) ==
  /\ p \in examined /\ p \in dynamic[firing]
  /\ examined' = examined \ {p}
  /\ IF p \in runnable \/ triggerType[p] = "STATIC"
     THEN /\ timedOut' = [timedOut EXCEPT ![p] = FALSE]
          /\ dynamic' = [dynamic EXCEPT ![firing] = @ \ {p}]
          /\ UNCHANGED <<triggerType, list, count, runnable, ready, eventVars>>
     ELSE IF triggerType[p] \in AndLists /\ firing # p /\ count[p] > 1
     THEN /\ count' = [count EXCEPT ![p] = @ - 1]
          /\ timedOut' = [timedOut EXCEPT ![p] = FALSE]
          /\ dynamic' = [dynamic EXCEPT ![firing] = @ \ {p}]
          /\ UNCHANGED <<triggerType, list, runnable, ready, eventVars>>
     ELSE /\ timedOut' = [timedOut EXCEPT ![p] = firing = p /\ triggerType[p] # "TIMEOUT"]
          /\ count' = [count EXCEPT ![p] = 0]
          /\ StopWaiting(p)
          /\ Wake(p)
          /\ WithdrawTimeout(p)
  /\ UNCHANGED <<phase, slot, firing, current, requested, cycles, suspended>>

(* The end of trigger().                                                   *)
Fired ==
  /\ firing # NoEvent
  /\ examined = {}
  /\ firing' = NoEvent
  /\ notifyType' = [notifyType EXCEPT ![firing] = "NONE"]
  /\ due' = [due EXCEPT ![firing] = 0]
  /\ UNCHANGED <<phase, slot, examined, current, runnable, requested, deltaEvents, size,
                 waitVars, stateVars>>

-----------------------------------------------------------------------------
(* What a thread does while it runs.                                       *)

Runs(p) == phase = "evaluate" /\ firing = NoEvent /\ current = p

(* The evaluation takes the next thread from the run queue.                *)
Dispatch(p) ==
  /\ Runs(NoThread)
  /\ p \in runnable
  /\ current' = p
  /\ runnable' = runnable \ {p}
  /\ UNCHANGED <<loopVars, requested, eventVars, waitVars, stateVars>>

Notify(p, e) ==
  /\ Runs(p)
  /\ cancel(e)
  /\ Fire(e)
  /\ UNCHANGED <<phase, slot, current, runnable, requested, waitVars, stateVars>>

NotifyLater(p, e, t) ==
  /\ Runs(p)
  /\ IF t = 0 THEN notify_delta(e) ELSE notify_timed(e, t)
  /\ UNCHANGED <<loopVars, current, runnable, requested, waitVars, stateVars>>

Cancel(p, e) ==
  /\ Runs(p)
  /\ cancel(e)
  /\ UNCHANGED <<loopVars, current, runnable, requested, waitVars, stateVars>>

(* A channel is written: its update() will notify e.                       *)
RequestUpdate(p, e) ==
  /\ Runs(p)
  /\ requested' = requested \cup {e}
  /\ UNCHANGED <<loopVars, current, runnable, eventVars, waitVars, stateVars>>

\* Mutant: one notification too many.
WaitStaticOneMore(p, n) ==
  /\ Runs(p)
  /\ cycles' = [cycles EXCEPT ![p] = n]
  /\ current' = NoThread
  /\ UNCHANGED <<loopVars, runnable, requested, eventVars, triggerType, list, count,
                 timedOut, dynamic, stateVars>>

(* wait(), and wait(n): n notifications of the static sensitivity.         *)
WaitStatic(p, n) ==
  /\ Runs(p)
  /\ cycles' = [cycles EXCEPT ![p] = n - 1]
  /\ current' = NoThread
  /\ UNCHANGED <<loopVars, runnable, requested, eventVars, triggerType, list, count,
                 timedOut, dynamic, stateVars>>

(* notify_internal() of the timeout event, which nothing else notifies.    *)
StartTimeout(p, t) ==
  /\ notifyType' = [notifyType EXCEPT ![p] = IF t = 0 THEN "DELTA" ELSE "TIMED"]
  /\ due' = [due EXCEPT ![p] = t]
  /\ IF t = 0 THEN add_delta_event(p) ELSE UNCHANGED <<deltaEvents, size>>

(* wait(e), wait(list), wait(t), wait(t, e) and wait(t, list).             *)
WaitDynamic(p, type, es, t) ==
  /\ Runs(p)
  /\ triggerType' = [triggerType EXCEPT ![p] = type]
  /\ list' = [list EXCEPT ![p] = es]
  /\ count' = [count EXCEPT ![p] = IF type \in AndLists THEN Cardinality(es) ELSE 0]
  /\ dynamic' = [e \in AllEvents |->
                   IF e \in es \/ (e = p /\ type \in WithTimeout)
                   THEN dynamic[e] \cup {p} ELSE dynamic[e]]
  /\ IF type \in WithTimeout THEN StartTimeout(p, t) ELSE UNCHANGED eventVars
  /\ current' = NoThread
  /\ UNCHANGED <<loopVars, runnable, requested, cycles, timedOut, stateVars>>

(* suspend_process(), of itself or of another thread.                      *)
Suspend(p, q) ==
  /\ Runs(p)
  /\ suspended' = suspended \cup {q}
  /\ ready' = IF q \in runnable \/ q = p THEN ready \cup {q} ELSE ready
  /\ runnable' = runnable \ {q}
  /\ current' = IF q = p THEN NoThread ELSE p
  /\ UNCHANGED <<loopVars, requested, eventVars, waitVars>>

(* resume_process(): a thread that is ready runs, and waits for nothing.   *)
Resume(p, q) ==
  /\ Runs(p)
  /\ suspended' = suspended \ {q}
  /\ ready' = ready \ {q}
  /\ IF q \in ready
     THEN /\ runnable' = runnable \cup {q}
          /\ StopWaiting(q)
          /\ cancel(q)
     ELSE UNCHANGED <<runnable, triggerType, list, dynamic, eventVars>>
  /\ UNCHANGED <<loopVars, current, requested, count, cycles, timedOut>>

-----------------------------------------------------------------------------
(* The loops of crunch() and simulate().                                   *)

(* No thread is left: the update phase.                                    *)
EndEvaluation ==
  /\ Runs(NoThread)
  /\ runnable = {}
  /\ phase' = "update"
  /\ UNCHANGED <<slot, firing, examined, current, runnable, requested, eventVars, waitVars,
                 stateVars>>

(* perform_update() of one channel.                                        *)
UpdateChannel(e) ==
  /\ phase = "update"
  /\ e \in requested
  /\ requested' = requested \ {e}
  /\ notify_delta(e)
  /\ UNCHANGED <<loopVars, current, runnable, waitVars, stateVars>>

EndUpdate ==
  /\ phase = "update"
  /\ requested = {}
  /\ phase' = "notify"
  /\ slot' = size
  /\ UNCHANGED <<firing, examined, current, runnable, requested, eventVars, waitVars, stateVars>>

(* l_events[i]->trigger(), from the last slot to the first.                *)
FireDelta ==
  /\ phase = "notify"
  /\ firing = NoEvent
  /\ slot > 0
  /\ slot' = slot - 1
  /\ Fire(deltaEvents[slot])
  /\ UNCHANGED <<phase, current, runnable, requested, eventVars, waitVars, stateVars>>

EndNotification ==
  /\ phase = "notify"
  /\ firing = NoEvent
  /\ slot = 0
  /\ deltaEvents' = <<>>
  /\ size' = 0
  /\ phase' = IF runnable = {} THEN "timed" ELSE "evaluate"
  /\ UNCHANGED <<slot, firing, examined, current, runnable, requested, notifyType, due,
                 waitVars, stateVars>>

DueNow == {e \in AllEvents : notifyType[e] = "TIMED" /\ due[e] = 0}

(* The timed notifications of the current time, in any order.              *)
FireTimed(e) ==
  /\ phase = "timed"
  /\ firing = NoEvent
  /\ e \in DueNow
  /\ Fire(e)
  /\ UNCHANGED <<phase, slot, current, runnable, requested, eventVars, waitVars, stateVars>>

(* next_time(): nothing runs, the time advances to the next notification.  *)
Advance(t) ==
  /\ phase = "timed"
  /\ firing = NoEvent
  /\ DueNow = {}
  /\ runnable = {}
  /\ \E e \in AllEvents : notifyType[e] = "TIMED" /\ due[e] = t
  /\ \A e \in AllEvents : notifyType[e] = "TIMED" => t <= due[e]
  /\ due' = [e \in AllEvents |-> IF notifyType[e] = "TIMED" THEN due[e] - t ELSE 0]
  /\ UNCHANGED <<loopVars, current, runnable, requested, notifyType, deltaEvents, size,
                 waitVars, stateVars>>

Crunch ==
  /\ phase = "timed"
  /\ firing = NoEvent
  /\ DueNow = {}
  /\ runnable # {}
  /\ phase' = "evaluate"
  /\ UNCHANGED <<slot, firing, examined, current, runnable, requested, eventVars, waitVars,
                 stateVars>>

=============================================================================

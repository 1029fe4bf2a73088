-------------------------------- MODULE Kernel --------------------------------
(***************************************************************************)
(* Programs of any kind on the SystemC kernel (module SimKernel), and what *)
(* the kernel owes them: a notification is the earliest one asked for, and *)
(* a wait ends when what the thread waits for has happened.                *)
(***************************************************************************)
EXTENDS SimKernel

CONSTANT EventLists    \* the lists of events the threads wait for

ASSUME EventListsAssumption ==
  \A es \in EventLists : es \subseteq Events /\ IsFiniteSet(es)

VARIABLES
  asked,    \* history: the earliest notification asked for, -1 if none
  goal      \* history: what each thread waits for, and what it has seen of it

vars == <<loopVars, current, runnable, requested, eventVars, waitVars, stateVars,
          asked, goal>>

(* type and of: the wait and its events.  missing: the notifications        *)
(* wait(n) still needs; repeats: the times its event was triggered without  *)
(* one.  left: the time to the timeout, -1 if there is none.                *)
Goal(type, of, n, t) ==
  [type |-> type, of |-> of, missing |-> n, repeats |-> 0, left |-> t, seen |-> {},
   expired |-> FALSE]

NoGoal == Goal("NONE", {}, 0, -1)

KernelInit ==
  /\ Init
  /\ asked = [e \in Events |-> -1]
  /\ goal = [p \in Threads |-> NoGoal]

-----------------------------------------------------------------------------
Ask(e, t) ==
  asked' = [asked EXCEPT ![e] = IF @ = -1 \/ t < @ THEN t ELSE @]

Forget(e) == asked' = [asked EXCEPT ![e] = -1]

(* What thread p waits for has happened.  An empty list is never complete. *)
Satisfied(p) ==
  \/ goal[p].expired
  \/ CASE goal[p].type = "CYCLES"   -> goal[p].missing = 0
       [] goal[p].type \in AndLists -> goal[p].of # {} /\ goal[p].seen = goal[p].of
       [] OTHER                     -> goal[p].seen # {}

(* Repeated triggers have stood in for all the notifications that miss.    *)
CutShort(p) == goal[p].type = "CYCLES" /\ goal[p].missing <= goal[p].repeats

Over(p) == Satisfied(p) \/ CutShort(p)

(* The threads that wait for e see it.                                     *)
See(e) ==
  goal' = [p \in Threads |->
             IF goal[p].type = "NONE" \/ Over(p) THEN goal[p]
             ELSE IF e = p THEN [goal[p] EXCEPT !.expired = TRUE]
             ELSE IF goal[p].type = "CYCLES" /\ e \in goal[p].of
             THEN [goal[p] EXCEPT !.missing = @ - 1]
             ELSE [goal[p] EXCEPT !.seen = @ \cup ({e} \cap goal[p].of)]]

(* Event e is triggered: what was asked of it is done.                     *)
Happens(e) == See(e) /\ IF e \in Events THEN Forget(e) ELSE UNCHANGED asked

(* Event e is triggered and nothing was asked of it: it does not happen,   *)
(* and only a wait(n) counts it.                                           *)
IsRepeat(e) == e \in Events /\ asked[e] = -1

Repeats(e) ==
  /\ goal' = [p \in Threads |->
                IF goal[p].type = "CYCLES" /\ e \in goal[p].of /\ ~Over(p)
                THEN [goal[p] EXCEPT !.repeats = @ + 1]
                ELSE goal[p]]
  /\ UNCHANGED asked

Elapse(t) ==
  /\ asked' = [e \in Events |-> IF asked[e] = -1 THEN -1 ELSE asked[e] - t]
  /\ goal' = [p \in Threads |->
                IF goal[p].left = -1 \/ Over(p) THEN goal[p]
                ELSE [goal[p] EXCEPT !.left = @ - t]]

Forms ==
  {Goal("EVENT", {e}, 0, -1) : e \in Events}
    \cup {Goal("TIMEOUT", {}, 0, t) : t \in Delays \cup {0}}
    \cup {Goal("EVENT_TIMEOUT", {e}, 0, t) : e \in Events, t \in Delays \cup {0}}
    \cup {Goal(type, es, 0, -1) : type \in {"OR_LIST", "AND_LIST"}, es \in EventLists}
    \cup {Goal(type, es, 0, t) : type \in {"OR_LIST_TIMEOUT", "AND_LIST_TIMEOUT"},
                                 es \in EventLists, t \in Delays \cup {0}}

ThreadStep(p) ==
  \/ /\ Dispatch(p)
     /\ goal' = [goal EXCEPT ![p] = NoGoal]
     /\ UNCHANGED asked
  \/ \E e \in Events :
       \/ Notify(p, e) /\ Happens(e)
       \/ \E t \in Delays \cup {0} : NotifyLater(p, e, t) /\ Ask(e, t) /\ UNCHANGED goal
       \/ Cancel(p, e) /\ Forget(e) /\ UNCHANGED goal
       \/ RequestUpdate(p, e) /\ UNCHANGED <<asked, goal>>
  \/ \E n \in 1..MaxCycles :
       /\ WaitStatic(p, n)
       /\ goal' = [goal EXCEPT ![p] = Goal("CYCLES", {e \in Events : e \in Static[p]}, n, -1)]
       /\ UNCHANGED asked
  \/ \E f \in Forms :
       /\ WaitDynamic(p, f.type, f.of, f.left)
       /\ goal' = [goal EXCEPT ![p] = f]
       /\ UNCHANGED asked
  \/ \E q \in Threads : (Suspend(p, q) \/ Resume(p, q)) /\ UNCHANGED <<asked, goal>>

TriggerStep(p) == (trigger_static(p) \/ trigger_dynamic(p)) /\ UNCHANGED <<asked, goal>>

Times == UNION {1..t : t \in Delays}

LoopStep ==
  \/ (Fired \/ EndEvaluation \/ EndUpdate \/ EndNotification \/ Crunch)
       /\ UNCHANGED <<asked, goal>>
  \/ \E e \in Events : UpdateChannel(e) /\ Ask(e, 0) /\ UNCHANGED goal
  \/ FireDelta /\ IF IsRepeat(firing') THEN Repeats(firing') ELSE Happens(firing')
  \/ \E e \in AllEvents : FireTimed(e) /\ Happens(e)
  \/ \E t \in Times : Advance(t) /\ Elapse(t)

Next == LoopStep \/ \E p \in Threads : ThreadStep(p) \/ TriggerStep(p)

Spec == KernelInit /\ [][Next]_vars

-----------------------------------------------------------------------------
(* The values of the kernel's variables.                                   *)
TypeOK ==
  /\ phase \in {"evaluate", "update", "notify", "timed"}
  /\ current \in Threads \cup {NoThread}
  /\ runnable \in SUBSET Threads
  /\ requested \in SUBSET Events
  /\ notifyType \in [AllEvents -> {"NONE", "DELTA", "TIMED"}]
  /\ due \in [AllEvents -> Nat]
  /\ deltaEvents \in Seq(AllEvents)
  /\ size \in 0..Len(deltaEvents)
  /\ slot \in 0..Len(deltaEvents)
  /\ firing \in AllEvents \cup {NoEvent}
  /\ examined \in SUBSET Threads
  /\ triggerType \in [Threads -> TriggerTypes]
  /\ list \in [Threads -> SUBSET Events]
  /\ count \in [Threads -> Nat]
  /\ cycles \in [Threads -> 0..(MaxCycles - 1)]
  /\ timedOut \in [Threads -> BOOLEAN]
  /\ suspended \in SUBSET Threads
  /\ ready \in SUBSET Threads
  /\ dynamic \in [AllEvents -> SUBSET Threads]

Waiting(p) == p # current /\ p \notin runnable \cup ready

(* An event has one notification to come, the earliest that was asked for  *)
(* since it last happened or was cancelled: notify(t) never delays one     *)
(* that is pending, and never loses one (sc_event::notify, cancel and the  *)
(* removal from m_delta_events by moving the last event).                  *)
EarliestWins ==
  firing = NoEvent =>
    \A e \in Events :
      CASE notifyType[e] = "NONE"  -> asked[e] = -1
        [] notifyType[e] = "DELTA" -> asked[e] = 0
        [] notifyType[e] = "TIMED" -> asked[e] = due[e]

(* No wait ends late: it is over as soon as what it waits for has          *)
(* happened, whatever other waits of the thread left in the lists of       *)
(* events, and however often it was suspended.  No wait ends early, but a  *)
(* wait(n) whose event was triggered without a notification, and that one  *)
(* by the triggers it met and no more.  timed_out() tells whether the      *)
(* timeout ended a wait (trigger_static, trigger_dynamic).                 *)
WaitsEndInTime ==
  firing = NoEvent =>
    \A p \in Threads : goal[p].type # "NONE" =>
      /\ Over(p) <=> ~Waiting(p)
      /\ Over(p) /\ goal[p].type # "CYCLES"
           => (timedOut[p] <=> goal[p].expired /\ goal[p].type # "TIMEOUT")

(* The cycles of wait(n) are notifications of the events the thread waits  *)
(* for statically: it does not return before the n-th (the comment at      *)
(* sc_thread_process.h:367-368; trigger_static counts calls).              *)
CyclesAreNotifications ==
  firing = NoEvent =>
    \A p \in Threads : goal[p].type = "CYCLES" /\ ~Waiting(p) => Satisfied(p)

(* The timeout of a thread that waits is pending at the time it gave, and  *)
(* no thread that waits without one has a timeout left from an earlier     *)
(* wait, which would cut a later one short (m_timeout_event_p).            *)
TimeoutsOnTime ==
  firing = NoEvent =>
    \A p \in Threads :
      IF Waiting(p) /\ goal[p].left # -1
      THEN /\ notifyType[p] # "NONE"
           /\ due[p] = goal[p].left
      ELSE notifyType[p] = "NONE"

(* The lists of the events and what the threads wait for agree: a stale    *)
(* entry would wake a thread from a later wait, a missing one would let it *)
(* sleep for ever; an AND list counts the entries that are left.           *)
ListsAgree ==
  \A p \in Threads :
    LET entries == {e \in Events : p \in dynamic[e]}
    IN /\ triggerType[p] \notin AndLists => entries = list[p]
       /\ triggerType[p] \in AndLists =>
            /\ entries \subseteq list[p] /\ count[p] = Cardinality(entries)
            /\ list[p] # {} => count[p] > 0
       /\ \A q \in Threads :
            p \in dynamic[q] <=> p = q /\ triggerType[p] \in WithTimeout
       /\ triggerType[p] # "STATIC" => Waiting(p)

(* Nobody is told of a notification twice: the loop over the delta events  *)
(* triggers an event for which no notification is due only behind a        *)
(* timeout that was cancelled during the same loop, whose slot the last    *)
(* event has taken (crunch, remove_delta_event).                           *)
TriggeredOnce ==
  [][phase = "notify" /\ firing = NoEvent /\ IsRepeat(firing')
       => size < Len(deltaEvents)]_vars
=============================================================================

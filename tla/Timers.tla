------------------------------- MODULE Timers -------------------------------
(***************************************************************************)
(* The timers of katcp/ts.c, which the server's main loop runs off a heap. *)
(*                                                                         *)
(* The functions of the interface are operators on a record x with fields  *)
(* heap and timer, so that a handler that makes several calls is their     *)
(* composition.  A timer is found by its data, the reference given when it *)
(* was registered.  Disarming a timer only marks it: it is removed when it *)
(* surfaces at the top of the heap.                                        *)
(*                                                                         *)
(* Times are relative to the clock: a timer whose when is not above 0 is   *)
(* due.  The clock does not step backwards.                                *)
(***************************************************************************)
EXTENDS Heap, FiniteSets

CONSTANTS
    TimerIds,   \* addresses of timers
    Nothing        \* no timer, no timeout

ASSUME TimersAssumption == Nothing \notin TimerIds /\ IsFiniteSet(TimerIds)

NoTimers == [heap |-> << >>, timer |-> [t \in TimerIds |-> Nothing]]

Keys(timer) == [t \in TimerIds |-> IF timer[t] = Nothing THEN 0 ELSE timer[t].when]

InHeap(x) == {x.heap[i] : i \in 1 .. Len(x.heap)}

Unused(x) == {t \in TimerIds : x.timer[t] = Nothing}

\* create_ts_katcp and add_to_heap, shared by the register functions.
Registered(x, data, when, interval) ==
    LET t == CHOOSE u \in Unused(x) : TRUE
        timer == [x.timer EXCEPT ![t] =
                     [when |-> when, interval |-> interval, armed |-> TRUE, data |-> data]]
    IN  [x EXCEPT !.timer = timer, !.heap = AddToHeap(Keys(timer), x.heap, t)]

RegisterIn(x, data, tv) == Registered(x, data, tv, 0)
RegisterEvery(x, data, tv) == Registered(x, data, tv, tv)

\* find_by_data_ref_heap_timer_katcp: the places of a reference in the heap,
\* of which the first is taken.
Places(x, data) == {i \in 1 .. Len(x.heap) : x.timer[x.heap[i]].data = data}

FirstPlace(x, data) == CHOOSE i \in Places(x, data) : \A j \in Places(x, data) : i <= j

\* disarm_by_ref_heap_timer
Disarmed(x, data) ==
    IF Places(x, data) = {} THEN x
    ELSE [x EXCEPT !.timer[x.heap[FirstPlace(x, data)]].armed = FALSE]

\* Mutant: the heap is not told that the time has changed.
AdjustedInPlace(x, data, tv) ==
    IF Places(x, data) = {} THEN x
    ELSE LET t == x.heap[FirstPlace(x, data)]
         IN  [x EXCEPT !.timer[t].interval = tv, !.timer[t].when = tv]

\* adjust_interval_anonymous_heap_timer_katcp: the timer starts afresh.  A
\* timer that has been disarmed stays so.
Adjusted(x, data, tv) ==
    IF Places(x, data) = {} THEN x
    ELSE LET i == FirstPlace(x, data)
             timer == [x.timer EXCEPT ![x.heap[i]].interval = tv, ![x.heap[i]].when = tv]
         IN  [x EXCEPT !.timer = timer, !.heap = UpdateNodeOnHeap(Keys(timer), x.heap, i)]

\* remove_top_of_heap and destroy_ts_katcp
Dropped(x) ==
    [x EXCEPT !.heap = RemoveTopOfHeap(Keys(x.timer), x.heap), !.timer[Head(x.heap)] = Nothing]

\* A timer at the top that has been disarmed is removed.
Collected(x) == IF x.heap # << >> /\ ~x.timer[Head(x.heap)].armed THEN Dropped(x) ELSE x

\* load_heap_timers_katcp removes what has been disarmed off the top.  The
\* loop then waits until the first timer is due, or for ever.
Loaded(x) ==
    LET collect[n \in 0 .. Len(x.heap)] == IF n = 0 THEN x ELSE Collected(collect[n - 1])
    IN  collect[Len(x.heap)]

Timeout(x) == IF x.heap = << >> THEN Nothing ELSE x.timer[Head(x.heap)].when

\* run_heap_timers_katcp calls at most one timer, the first, if it is due.
TopDue(x) ==
    /\ x.heap # << >>
    /\ x.timer[Head(x.heap)].armed
    /\ x.timer[Head(x.heap)].when <= 0

\* Mutant: a periodic timer is left where it is in the heap.
FinishedInPlace(x) ==
    LET t == Head(x.heap)
        next == x.timer[t].when + x.timer[t].interval
    IN  IF x.timer[t].interval = 0 THEN Dropped(x)
        ELSE [x EXCEPT !.timer[t].when = IF next <= 0 THEN x.timer[t].interval ELSE next]

\* After the call: a timer without interval is done, a periodic one is due
\* an interval later, but not in the past.
Finished(x) ==
    LET t == Head(x.heap)
        next == x.timer[t].when + x.timer[t].interval
        timer == [x.timer EXCEPT ![t].when = IF next <= 0 THEN x.timer[t].interval ELSE next]
    IN  IF x.timer[t].interval = 0 THEN Dropped(x)
        ELSE [x EXCEPT !.timer = timer, !.heap = UpdateNodeOnHeap(Keys(timer), x.heap, 1)]

\* The clock advances.
Later(timer) == [t \in TimerIds |-> IF timer[t] = Nothing THEN Nothing ELSE [timer[t] EXCEPT !.when = @ - 1]]

=============================================================================

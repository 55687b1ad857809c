------------------------------- MODULE Sensors ------------------------------
(***************************************************************************)
(* The sensors of katcp/nonsense.c and the timers that poll them.          *)
(*                                                                         *)
(* An acquire obtains a value, by a function it polls or because somebody  *)
(* sets it, and feeds the sensors linked to it.  A client that samples a   *)
(* sensor has a shadow of it (struct katcp_nonsense) with the strategy it  *)
(* asked for.  An acquire has one timer, at the shortest period that any   *)
(* of the clients of its sensors needs.                                    *)
(*                                                                         *)
(* The part of the main loop (katcp/server.c) that matters here: timers    *)
(* are loaded first, then clients may go away, then the loop waits; after  *)
(* that it runs at most one timer and handles requests.                    *)
(*                                                                         *)
(* Callbacks of timers leave the timers alone: the function of an acquire  *)
(* that is polled, and the wake of a notice, change none (nor does any     *)
(* other callback in the repository).                                      *)
(***************************************************************************)
EXTENDS Timers

CONSTANTS
    Acquires,   \* addresses of acquires
    Sensors,    \* addresses of sensors
    Samplers,   \* clients
    Periods,    \* periods a client may ask for
    Poll,       \* a_poll, the period at which events are looked for
    Alarms,     \* the data of timers that are not an acquire's: notices to be woken
    MaxAlarms,  \* bound on how many of those timers there are
    MaxLate     \* bound on how late a timer may be

\* What is at the address of a timer, an acquire, a sensor and a shadow.
Values == {0, 1}

\* The differential strategy, an event that ignores small changes, is left out.
Strategies == {"off", "period", "event", "forced"}

Timer == [when : Int, interval : Nat, armed : BOOLEAN, data : Acquires \cup Alarms]
Acquire == [polls : BOOLEAN, recent : BOOLEAN, value : Values, periodics : Nat, current : Nat]
Sensor == [acquire : Acquires, current : Values]
Nonsense == [strategy : Strategies, period : Nat, previous : Values]

\* There are timers for everybody: running out of memory is not modelled.
ASSUME SensorsAssumption ==
    /\ Periods \subseteq Nat \ {0}
    /\ Poll \in Nat \ {0}
    /\ MaxLate \in Nat /\ MaxAlarms \in Nat
    /\ IsFiniteSet(Samplers) /\ IsFiniteSet(Sensors) /\ IsFiniteSet(Acquires)
    /\ Alarms \cap Acquires = {}
    /\ Cardinality(Acquires) + MaxAlarms <= Cardinality(TimerIds)
    /\ Nothing \notin Int \cup Timer \cup Acquire \cup Sensor \cup Nonsense

VARIABLES
    x,          \* heap and timer, see module Timers
    acquire,    \* what is at the address of an acquire
    sensor,     \* what is at the address of a sensor
    nonsense,   \* the shadow a client has of a sensor
    phase,      \* place in the main loop: load, wait or serve
    timeout     \* how long it waits

svars == <<acquire, sensor, nonsense>>
sensorvars == <<x, acquire, sensor, nonsense, phase, timeout>>

Live == {a \in Acquires : acquire[a] # Nothing}

\* What the handlers work on.
World == [x |-> x, acquire |-> acquire, sensor |-> sensor, nonsense |-> nonsense]

Becomes(w) ==
    /\ x' = w.x /\ acquire' = w.acquire /\ sensor' = w.sensor /\ nonsense' = w.nonsense

SensorsInit ==
    /\ x = NoTimers
    /\ acquire = [a \in Acquires |-> Nothing]
    /\ sensor = [s \in Sensors |-> Nothing]
    /\ nonsense = [c \in Samplers |-> [s \in Sensors |-> Nothing]]
    /\ phase = "serve" /\ timeout = Nothing

-----------------------------------------------------------------------------
(* Values on their way to the clients.                                     *)

LinkedTo(w, a) == {s \in Sensors : w.sensor[s] # Nothing /\ w.sensor[s].acquire = a}

\* The extract functions; the status, a function of the value, is left out.
Extracted(sn, value) == [sn EXCEPT !.current = value]

\* The check functions of the strategies: the one that reports changes keeps
\* what it has reported.  The report itself is not modelled.
Checked(ns, sn) ==
    IF ns.strategy = "event" THEN [ns EXCEPT !.previous = sn.current] ELSE ns

Propagated(w, a) ==
    LET sensors == [s \in Sensors |->
                       IF s \in LinkedTo(w, a) THEN Extracted(w.sensor[s], w.acquire[a].value)
                                               ELSE w.sensor[s]]
    IN  [w EXCEPT !.sensor = sensors,
                  !.nonsense = [c \in Samplers |-> [s \in Sensors |->
                      IF s \in LinkedTo(w, a) /\ w.nonsense[c][s] # Nothing
                      THEN Checked(w.nonsense[c][s], sensors[s]) ELSE w.nonsense[c][s]]]]

\* run_acquire_katcp: the function is not called again within a_limit, here
\* the time between two steps of the clock, but what is known is passed on.
RunAcquire(w, a, value) ==
    LET polls == w.acquire[a].polls /\ ~w.acquire[a].recent
    IN  Propagated([w EXCEPT !.acquire[a].value = IF polls THEN value ELSE @,
                             !.acquire[a].recent = TRUE], a)

-----------------------------------------------------------------------------
(* reload_sensor_katcp: decide how often an acquire has to run.            *)

\* Clients of an acquire whose strategy needs it to run periodically.
Pollers(w, a) ==
    {p \in Samplers \X LinkedTo(w, a) :
        LET ns == w.nonsense[p[1]][p[2]]
        IN  ns # Nothing /\ (ns.strategy = "period" \/ (ns.strategy = "event" /\ w.acquire[a].polls))}

\* All of them, and those for whom a value is only fetched right now.
Shadows(w, a) == {p \in Samplers \X LinkedTo(w, a) : w.nonsense[p[1]][p[2]] # Nothing}
Forced(w, a) == {p \in Shadows(w, a) : w.nonsense[p[1]][p[2]].strategy = "forced"}

Shortest(w, a) ==
    LET periods == {w.nonsense[p[1]][p[2]].period : p \in Pollers(w, a)}
    IN  CHOOSE t \in periods : \A u \in periods : t <= u

\* Mutant: the period of the timer is not revised.
ReloadKept(w, a) ==
    LET periodics == Cardinality(Pollers(w, a))
        counted == [w EXCEPT !.acquire[a].periodics = periodics]
    IN  IF periodics > 0
        THEN IF Places(w.x, a) = {}
             THEN [counted EXCEPT !.x = RegisterEvery(w.x, a, Shortest(w, a)),
                                  !.acquire[a].current = Shortest(w, a)]
             ELSE counted
        ELSE LET stopped == [counted EXCEPT !.x = IF w.acquire[a].periodics > 0
                                                  THEN Disarmed(w.x, a) ELSE w.x]
             IN  IF Shadows(w, a) # Forced(w, a) THEN Propagated(stopped, a) ELSE stopped

\* Mutant: a change made while nobody listened is not looked for.
ReloadSilent(w, a) ==
    LET periodics == Cardinality(Pollers(w, a))
        counted == [w EXCEPT !.acquire[a].periodics = periodics]
    IN  IF periodics > 0
        THEN [counted EXCEPT !.acquire[a].current = Shortest(w, a),
                             !.x = IF Places(w.x, a) = {}
                                   THEN RegisterEvery(w.x, a, Shortest(w, a))
                                   ELSE Adjusted(w.x, a, Shortest(w, a))]
        ELSE [counted EXCEPT !.x = IF w.acquire[a].periodics > 0 THEN Disarmed(w.x, a) ELSE w.x]

\* Mutant: the timer runs on when nobody needs it.
ReloadRunning(w, a) ==
    LET periodics == Cardinality(Pollers(w, a))
        counted == [w EXCEPT !.acquire[a].periodics = periodics]
    IN  IF periodics > 0
        THEN [counted EXCEPT !.acquire[a].current = Shortest(w, a),
                             !.x = IF Places(w.x, a) = {}
                                   THEN RegisterEvery(w.x, a, Shortest(w, a))
                                   ELSE Adjusted(w.x, a, Shortest(w, a))]
        ELSE IF Shadows(w, a) # Forced(w, a) THEN Propagated(counted, a) ELSE counted

Reload(w, a) ==
    LET periodics == Cardinality(Pollers(w, a))
        counted == [w EXCEPT !.acquire[a].periodics = periodics]
    IN  IF periodics > 0
        THEN [counted EXCEPT !.acquire[a].current = Shortest(w, a),
                             !.x = IF Places(w.x, a) = {}
                                   THEN RegisterEvery(w.x, a, Shortest(w, a))
                                   ELSE Adjusted(w.x, a, Shortest(w, a))]
        ELSE LET stopped == [counted EXCEPT !.x = IF w.acquire[a].periodics > 0
                                                  THEN Disarmed(w.x, a) ELSE w.x]
             IN  IF Shadows(w, a) # Forced(w, a) THEN Propagated(stopped, a) ELSE stopped

-----------------------------------------------------------------------------
(* Clients.                                                                *)

\* create_nonsense_katcp, unless there is one.
Shadowed(w, c, s) ==
    IF w.nonsense[c][s] # Nothing THEN w
    ELSE [w EXCEPT !.nonsense[c][s] =
             [strategy |-> "off", period |-> w.acquire[w.sensor[s].acquire].current,
              previous |-> w.sensor[s].current]]

\* destroy_nonsense_katcp
Unshadowed(w, c, s) == Reload([w EXCEPT !.nonsense[c][s] = Nothing], w.sensor[s].acquire)

\* configure_sensor_katcp
Configured(w, c, s, strategy, period) ==
    LET a == w.sensor[s].acquire
        v == Shadowed(w, c, s)
        ns == v.nonsense[c][s]
    IN  IF strategy = "off"
        THEN IF w.nonsense[c][s] = Nothing THEN w ELSE Unshadowed(w, c, s)
        ELSE Reload([v EXCEPT !.nonsense[c][s] =
                 [ns EXCEPT !.strategy = strategy,
                            !.period = CASE strategy = "period" -> period
                                         [] strategy = "event" -> Poll
                                         [] OTHER -> @]], a)

\* sensor_sampling_cmd_katcp
Sampling(c, s) ==
    /\ phase = "serve"
    /\ sensor[s] # Nothing
    /\ \/ \E period \in Periods : Becomes(Configured(World, c, s, "period", period))
       \/ \E strategy \in {"off", "event"} : Becomes(Configured(World, c, s, strategy, 0))
    /\ UNCHANGED <<phase, timeout>>

\* The same, with a period or a delta that is missing or makes no sense.
\* The shadow that has been made stays, without a strategy.
SamplingFails(c, s) ==
    /\ phase = "serve"
    /\ sensor[s] # Nothing
    /\ Becomes(Shadowed(World, c, s))
    /\ UNCHANGED <<phase, timeout>>

\* sensor_value_cmd_katcp, force_acquire_katcp: whoever does not sample the
\* sensor has a shadow of it for as long as it takes.
SensorValue(c, s) ==
    /\ phase = "serve"
    /\ sensor[s] # Nothing
    /\ \E value \in Values :
          LET a == sensor[s].acquire
              ns == nonsense[c][s]
              forced == RunAcquire([World EXCEPT !.nonsense[c][s].strategy = "forced"], a, value)
              begun == Configured(World, c, s, "forced", 0)
          IN  IF ns # Nothing
              THEN Becomes([forced EXCEPT !.nonsense[c][s].strategy = ns.strategy])
              ELSE Becomes(Configured(RunAcquire(begun, a, value), c, s, "off", 0))
    /\ UNCHANGED <<phase, timeout>>

\* destroy_nonsensors_katcp, one sensor after the other.
SamplerLeaves(c, s) ==
    /\ phase \in {"load", "serve"}
    /\ nonsense[c][s] # Nothing
    /\ Becomes(Unshadowed(World, c, s))
    /\ UNCHANGED <<phase, timeout>>

-----------------------------------------------------------------------------
(* The owners of sensors.                                                  *)

\* setup_..._acquire_katcp; polls says if it is given a function to call.
SetupAcquire(a) ==
    /\ phase = "serve"
    /\ acquire[a] = Nothing
    /\ \E polls \in BOOLEAN :
          acquire' = [acquire EXCEPT ![a] = [polls |-> polls, recent |-> FALSE, value |-> 0,
                                             periodics |-> 0, current |-> 0]]
    /\ UNCHANGED <<x, sensor, nonsense, phase, timeout>>

\* create_sensor_katcp and link_acquire_katcp
DeclareSensor(s, a) ==
    /\ phase = "serve"
    /\ sensor[s] = Nothing /\ acquire[a] # Nothing
    /\ sensor' = [sensor EXCEPT ![s] = [acquire |-> a, current |-> 0]]
    /\ UNCHANGED <<x, acquire, nonsense, phase, timeout>>

\* destroy_sensor_katcp, once its clients are gone (SamplerLeaves); del_acquire_katcp
\* destroys the acquire along with its last sensor, destroy_acquire_katcp
\* stops its timer.
DestroySensor(s) ==
    LET a == sensor[s].acquire
    IN  /\ phase = "serve"
        /\ sensor[s] # Nothing
        /\ \A c \in Samplers : nonsense[c][s] = Nothing
        /\ sensor' = [sensor EXCEPT ![s] = Nothing]
        /\ IF LinkedTo(World, a) = {s}
           THEN /\ acquire' = [acquire EXCEPT ![a] = Nothing]
                /\ x' = IF acquire[a].periodics > 0 THEN Disarmed(x, a) ELSE x
           ELSE UNCHANGED <<acquire, x>>
        /\ UNCHANGED <<nonsense, phase, timeout>>

\* set_integer_acquire_katcp
SetAcquire(a) ==
    /\ phase = "serve"
    /\ acquire[a] # Nothing /\ ~acquire[a].polls
    /\ \E value \in Values : Becomes(Propagated([World EXCEPT !.acquire[a].value = value], a))
    /\ UNCHANGED <<phase, timeout>>

\* Timers that are not an acquire's.
Ringing(y) == {t \in InHeap(y) : y.timer[t].data \in Alarms}

\* wake_notice_in_tv_katcp: a one-shot timer, also if the notice has one
\* already (?notice wake with a delay, twice).
SetAlarm(alarm) ==
    /\ phase = "serve"
    /\ Cardinality(Ringing(x)) < MaxAlarms
    /\ \E tv \in Periods : x' = RegisterIn(x, alarm, tv)
    /\ UNCHANGED <<acquire, sensor, nonsense, phase, timeout>>

-----------------------------------------------------------------------------
(* The main loop.                                                          *)

Load ==
    /\ phase = "serve"
    /\ x' = Loaded(x)
    /\ timeout' = Timeout(Loaded(x))
    /\ phase' = "load"
    /\ UNCHANGED svars

Wait ==
    /\ phase = "load"
    /\ phase' = "wait"
    /\ UNCHANGED <<x, acquire, sensor, nonsense, timeout>>

\* pselect() returns, for a client or because the time is up, and
\* run_heap_timers_katcp is called.
Event ==
    /\ phase = "wait"
    /\ LET ts == x.timer[Head(x.heap)]
       IN  IF TopDue(x)
           THEN \E value \in Values :
                   LET w == IF ts.data \in Alarms THEN World ELSE RunAcquire(World, ts.data, value)
                   IN  Becomes([w EXCEPT !.x = Finished(x)])
           ELSE x' = Collected(x) /\ UNCHANGED svars
    /\ phase' = "serve" /\ timeout' = Nothing

\* Time passes while the loop waits or is at work.
Tick ==
    /\ phase \in {"wait", "serve"}
    /\ \A t \in InHeap(x) : x.timer[t].when > -MaxLate
    /\ phase = "wait" /\ timeout # Nothing => timeout > 0
    /\ x' = [x EXCEPT !.timer = Later(@)]
    /\ timeout' = IF timeout = Nothing THEN Nothing ELSE timeout - 1
    /\ acquire' = [a \in Acquires |-> IF a \in Live THEN [acquire[a] EXCEPT !.recent = FALSE] ELSE Nothing]
    /\ UNCHANGED <<sensor, nonsense, phase>>

SensorsNext ==
    \/ \E c \in Samplers, s \in Sensors :
          Sampling(c, s) \/ SamplingFails(c, s) \/ SensorValue(c, s) \/ SamplerLeaves(c, s)
    \/ \E a \in Acquires : SetupAcquire(a) \/ SetAcquire(a)
    \/ \E s \in Sensors : DestroySensor(s) \/ \E a \in Acquires : DeclareSensor(s, a)
    \/ \E alarm \in Alarms : SetAlarm(alarm)
    \/ Load \/ Wait \/ Event \/ Tick

SensorsSpec == SensorsInit /\ [][SensorsNext]_sensorvars

-----------------------------------------------------------------------------
(* Properties.                                                             *)

\* The timers allocated are the ones in the heap, each once; a shadow is one
\* of a sensor, and the strategy of ?sensor-value does not outlive it.
SensorsTypeOK ==
    /\ x.heap \in Seq(TimerIds)
    /\ InHeap(x) = TimerIds \ Unused(x)
    /\ Len(x.heap) = Cardinality(InHeap(x))
    /\ \A c \in Samplers, s \in Sensors :
          nonsense[c][s] # Nothing => sensor[s] # Nothing /\ nonsense[c][s].strategy \in Strategies \ {"forced"}
    /\ phase \in {"load", "wait", "serve"}

\* However timers are registered, adjusted, disarmed and rescheduled, the
\* first one is due first.
Ordered == HeapOrdered(Keys(x.timer), x.heap)

\* A timer of an acquire that is armed has it to run: destroy_acquire_katcp has
\* stopped the timer of one that is freed, and no acquire has two, not even one
\* that is created where another was while the timer of that is in the heap.
ArmedLive ==
    /\ SensorsTypeOK
    /\ \A t \in InHeap(x) \ Ringing(x) :
          /\ x.timer[t].armed => x.timer[t].data \in Live
          /\ Cardinality(Places(x, x.timer[t].data)) = 1

\* The timer of an acquire runs at the shortest period its clients need.
PollsFastest ==
    \A a \in Live :
        /\ acquire[a].periodics = Cardinality(Pollers(World, a))
        /\ \A i \in Places(x, a) :
              acquire[a].periodics > 0 => x.timer[x.heap[i]].interval = Shortest(World, a)

\* As reload_sensor_katcp puts it: "we need timers, replace old with new if
\* necessary".  An acquire that has to be polled has a timer that will run.
PolledArmed ==
    \A a \in Live : acquire[a].periodics > 0 => \E i \in Places(x, a) : x.timer[x.heap[i]].armed

\* The loop does not sleep past the time at which a timer is due, although
\* clients may go away, and with that reschedule timers, after the timeout has
\* been computed.  An acquire whose timer was missing (PolledArmed) may be
\* given one at that time, which the timeout does not know of.
SleepsEnough == \A t \in InHeap(x) : x.timer[t].armed => timeout # Nothing /\ timeout <= x.timer[t].when

SleepsInTime ==
    [][(phase' \in {"load", "wait"} /\ (phase = "serve" \/ (PolledArmed /\ SleepsEnough))) => SleepsEnough']_sensorvars

\* A client that wants to know of changes has been told of the last one, if
\* the owner of the sensor sets its value and nothing else polls it: also of
\* a change made before the client asked or while it had another strategy.
ChangesChecked ==
    \A c \in Samplers, s \in Sensors :
        LET ns == nonsense[c][s]
            ac == acquire[sensor[s].acquire]
        IN  ns # Nothing /\ ns.strategy = "event" /\ ac.periodics = 0 /\ ~ac.polls =>
                ns.previous = ac.value

=============================================================================

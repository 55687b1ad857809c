--------------------------- MODULE GatewareProofs ---------------------------
(***************************************************************************)
(* Whatever the number of clients and files, whatever fails and whoever    *)
(* goes away, uploads and programming leave port data, files, the mapping  *)
(* and paused clients accounted for.                                       *)
(***************************************************************************)
EXTENDS Gateware, TLAPS

\* A job wakes a notice of its own kind, so that no two jobs wake the same one
\* (the names given to create_notice_katcp and run_child_process_tbs).
JobsOwn ==
    /\ task["upload"] \in Files \cup {"config", Unused}
    /\ task["progremote"] \in {"ram", Unused}
    /\ task["kcpfpg"] \in {"kcpfpg", Unused}

GatewareInv == GatewareTypeOK /\ JobsOwn /\ Accounted

-----------------------------------------------------------------------------
(* What the parts of a request do to the gateware.                          *)

Fpgas == {"down", "loaded", "mapped", "ready"}
Gates == [fpga : Fpgas, registers : BOOLEAN, top : BOOLEAN, maps : Nat]

\* MapExact of a state of the gateware.
Mapped(g) ==
    /\ g.maps = IF g.fpga \in {"mapped", "ready"} THEN 1 ELSE 0
    /\ g.fpga \in {"mapped", "ready"} => g.registers

LEMMA UnmappedLoses ==
    ASSUME NEW g \in Gates, Mapped(g)
    PROVE  Unmapped(g) \in Gates /\ Unmapped(g).fpga \notin {"mapped", "ready"} /\ Unmapped(g).maps = 0
<1>1. CASE g.fpga \in {"mapped", "ready"}
  <2> DEFINE m == g.maps - 1
             u == [g EXCEPT !.fpga = "loaded", !.maps = m]
  <2>1. m \in Nat /\ m = 0
    BY <1>1 DEF Mapped
  <2> HIDE DEF m
  <2>2. u \in Gates /\ u.fpga = "loaded" /\ u.maps = m
    BY <2>1 DEF Gates, Fpgas
  <2>3. Unmapped(g) = u
    BY <1>1 DEF Unmapped, m
  <2>4. QED
    BY <2>1, <2>2, <2>3
<1>2. CASE g.fpga \notin {"mapped", "ready"}
  BY <1>2 DEF Mapped, Unmapped
<1>3. QED
  BY <1>1, <1>2

LEMMA StopsMapped ==
    ASSUME NEW g \in Gates, Mapped(g), NEW s \in Stops(g)
    PROVE  s.gate \in Gates /\ Mapped(s.gate)
<1> DEFINE u == Unmapped(g)
           bare == [u EXCEPT !.registers = FALSE, !.top = FALSE]
           down == [bare EXCEPT !.fpga = "down"]
<1>1. u \in Gates /\ u.fpga \notin {"mapped", "ready"} /\ u.maps = 0
  BY UnmappedLoses
<1>2. s.gate = bare \/ s.gate = down
  BY DEF Stops
<1> HIDE DEF u
<1>3. bare \in Gates /\ bare.fpga = u.fpga /\ bare.maps = u.maps
  BY <1>1 DEF Gates, Fpgas
<1> HIDE DEF bare
<1>4. down \in Gates /\ down.fpga = "down" /\ down.maps = bare.maps
  BY <1>3 DEF Gates, Fpgas
<1>5. QED
  BY <1>1, <1>2, <1>3, <1>4 DEF Mapped

LEMMA BofLoadsGates ==
    ASSUME NEW g, NEW l \in BofLoads(g)
    PROVE  l.gate = g \/ \E top \in BOOLEAN : l.gate = [g EXCEPT !.fpga = "loaded", !.top = top]
<1> DEFINE L(top) == [g EXCEPT !.fpga = "loaded", !.top = top]
           loaded == {L(top) : top \in BOOLEAN}
<1>1. l \in {[gate |-> g, ok |-> FALSE]} \cup [gate : loaded, ok : BOOLEAN]
  BY Zenon DEF BofLoads
<1> HIDE DEF L
<1>2. l.gate = g \/ l.gate \in loaded
  <2> HIDE DEF loaded
  <2>1. QED
    BY <1>1
<1>3. l.gate = g \/ \E top \in BOOLEAN : l.gate = L(top)
  BY <1>2
<1>4. QED
  BY <1>3 DEF L

LEMMA BofStartsGates ==
    ASSUME NEW g, ~g.registers, NEW s \in BofStarts(g)
    PROVE  \/ \E l \in BofLoads([g EXCEPT !.registers = TRUE]) : s.gate = l.gate
           \/ \E l \in BofLoads([g EXCEPT !.registers = TRUE]) :
                  s.gate = [l.gate EXCEPT !.fpga = "ready", !.maps = @ + 1]
<1> DEFINE M(m) == [m EXCEPT !.fpga = "ready", !.maps = @ + 1]
           loads == BofLoads([g EXCEPT !.registers = TRUE])
           mapped == {l.gate : l \in {m \in loads : m.ok /\ m.gate.top}}
<1>1. s \in {[gate |-> l.gate, ok |-> FALSE] : l \in loads} \cup {[gate |-> M(m), ok |-> TRUE] : m \in mapped}
  BY Zenon DEF BofStarts
<1> HIDE DEF M, loads
<1>2. \/ \E l \in loads : s.gate = l.gate
      \/ \E l \in loads : s.gate = M(l.gate)
  BY <1>1
<1>3. QED
  BY <1>2 DEF M, loads

LEMMA BofStartsMapped ==
    ASSUME NEW g \in Gates, Mapped(g), NEW s \in BofStarts(g)
    PROVE  s.gate \in Gates /\ Mapped(s.gate)
<1>1. CASE g.registers
  BY <1>1 DEF BofStarts
<1>2. CASE ~g.registers
  <2> DEFINE h == [g EXCEPT !.registers = TRUE]
  <2>1. h \in Gates /\ h.fpga \notin {"mapped", "ready"} /\ h.maps = 0 /\ h.registers
    <3>1. g.fpga \notin {"mapped", "ready"} /\ g.maps = 0
      BY <1>2 DEF Mapped
    <3>2. h \in Gates /\ h.fpga = g.fpga /\ h.maps = g.maps /\ h.registers
      BY DEF Gates
    <3>3. QED
      BY <3>1, <3>2
  <2>2. \/ \E l \in BofLoads(h) : s.gate = l.gate
        \/ \E l \in BofLoads(h) : s.gate = [l.gate EXCEPT !.fpga = "ready", !.maps = @ + 1]
    BY <1>2, BofStartsGates
  <2> HIDE DEF h
  <2>3. ASSUME NEW l \in BofLoads(h)
        PROVE  l.gate \in Gates /\ l.gate.fpga \notin {"mapped", "ready"} /\ l.gate.maps = 0 /\ l.gate.registers
    <3>1. l.gate = h \/ \E top \in BOOLEAN : l.gate = [h EXCEPT !.fpga = "loaded", !.top = top]
      BY BofLoadsGates
    <3>2. QED
      BY <2>1, <3>1 DEF Gates, Fpgas
  <2>4. ASSUME NEW l \in BofLoads(h), s.gate = [l.gate EXCEPT !.fpga = "ready", !.maps = @ + 1]
        PROVE  s.gate \in Gates /\ Mapped(s.gate)
    <3> DEFINE m == l.gate.maps + 1
    <3>1. m \in Nat /\ m = 1 /\ s.gate = [l.gate EXCEPT !.fpga = "ready", !.maps = m]
      BY <2>3, <2>4
    <3> HIDE DEF m
    <3>2. s.gate \in Gates /\ s.gate.fpga = "ready" /\ s.gate.registers = l.gate.registers /\ s.gate.maps = m
      BY <2>3, <3>1 DEF Gates, Fpgas
    <3>3. QED
      BY <2>3, <3>1, <3>2 DEF Mapped
  <2>5. ASSUME NEW l \in BofLoads(h), s.gate = l.gate
        PROVE  s.gate \in Gates /\ Mapped(s.gate)
    BY <2>3, <2>5 DEF Mapped
  <2>6. QED
    BY <2>2, <2>4, <2>5
<1>3. QED
  BY <1>1, <1>2 DEF Gates

LEMMA FpgStartedMapped ==
    ASSUME NEW g \in Gates, Mapped(g)
    PROVE  FpgStarted(g) \in Gates /\ Mapped(FpgStarted(g))
<1>1. CASE g.registers
  BY <1>1 DEF FpgStarted
<1>2. CASE ~g.registers
  <2>1. FpgStarted(g) = [g EXCEPT !.fpga = "loaded", !.registers = TRUE, !.top = FALSE]
    BY <1>2 DEF FpgStarted
  <2>2. FpgStarted(g) \in Gates /\ FpgStarted(g).fpga = "loaded" /\ FpgStarted(g).maps = g.maps
    BY <2>1 DEF Gates, Fpgas
  <2>3. g.maps = 0
    BY <1>2 DEF Mapped
  <2>4. QED
    BY <2>2, <2>3 DEF Mapped
<1>3. QED
  BY <1>1, <1>2 DEF Gates

LEMMA DefinedMapped ==
    ASSUME NEW g \in Gates, Mapped(g)
    PROVE  Defined(g) \in Gates /\ Mapped(Defined(g))
  BY DEF Defined, Gates, Fpgas, Mapped

LEMMA FinalisedMapped ==
    ASSUME NEW g \in Gates, Mapped(g), Mappable(g) => g.registers,
           Mappable(g) \/ g.fpga \in {"mapped", "ready"}
    PROVE  Finalised(g) \in Gates /\ Mapped(Finalised(g))
<1> DEFINE m == IF g.fpga = "loaded" THEN g.maps + 1 ELSE g.maps
           h == Finalised(g)
<1>1. m \in Nat /\ m = 1 /\ g.registers
  BY DEF Mappable, Mapped
<1>2. h = [g EXCEPT !.fpga = "ready", !.maps = m]
  BY DEF Finalised
<1> HIDE DEF m, h
<1>3. h \in Gates /\ h.fpga = "ready" /\ h.registers = g.registers /\ h.maps = m
  BY <1>1, <1>2 DEF Gates, Fpgas
<1>4. h \in Gates /\ Mapped(h)
  BY <1>1, <1>3 DEF Mapped
<1>5. QED
  BY <1>4 DEF h

-----------------------------------------------------------------------------
(* The callbacks, the port data, the jobs and the clients that are paused.  *)

\* Each action leaves these as it finds them, or changes them in one of a few
\* ways.
Books ==
    /\ hooks \in [Places -> SUBSET (Peers \cup {Server})]
    /\ port \in [Places -> {"none", "live", "freed"}]
    /\ task \in [Tasks -> Places \cup {Unused}]
    /\ waits \subseteq Peers
    /\ JobsOwn /\ PortExact /\ WaitsServed

LEMMA PlacesApart ==
    /\ Unused \notin Places /\ Server \notin Peers
    /\ "config" \notin Files /\ "ram" \notin Files /\ "kcpfpg" \notin Files
    /\ {"config", "ram", "kcpfpg"} \cup Files = Places
  BY GatewareAssumption DEF Places, Peers, Server

\* No two jobs wake the same notice.
LEMMA JobsApart ==
    ASSUME JobsOwn, NEW t \in Tasks, NEW u \in Tasks, Runs(t), task[t] = task[u]
    PROVE  t = u
  BY PlacesApart DEF JobsOwn, Tasks, Runs

\* ?saveremote and ?uploadbin
LEMMA UploadLaunches ==
    ASSUME Books, NEW c \in Peers, c \notin waits, NEW n \in Files \cup {"config"}, ~Pending(n),
           NEW started \in BOOLEAN, Launch("upload", n, {Server, c}, started), Pauses(c, started)
    PROVE  Books'
<1> USE DEF Books, Launch, Spawn, Pauses
<1>1. n \in Places /\ n \notin {"ram", "kcpfpg"} /\ "upload" \in Tasks /\ Server \notin Peers /\ Unused \notin Places
  BY PlacesApart DEF Tasks
<1>2. hooks[n] = {} /\ \A t \in Tasks : task[t] # n
  BY DEF Pending
<1>3. /\ hooks' \in [Places -> SUBSET (Peers \cup {Server})]
      /\ port' \in [Places -> {"none", "live", "freed"}]
      /\ task' \in [Tasks -> Places \cup {Unused}]
      /\ waits' \subseteq Peers
  BY <1>1
<1>4. JobsOwn'
  BY <1>1 DEF JobsOwn, Tasks
<1>5. /\ hooks'[n] = {Server, c}
      /\ \A m \in Places \ {n} : hooks'[m] = hooks[m] /\ port'[m] = port[m]
      /\ port'[n] = IF started THEN "live" ELSE "freed"
  BY <1>1
<1>6. CASE started
  <2>1. task["upload"] = Unused /\ task'["upload"] = n /\ \A t \in Tasks \ {"upload"} : task'[t] = task[t]
    BY <1>1, <1>6
  <2>2. waits' = waits \cup {c}
    BY <1>6
  <2>3. PortExact'
    <3>1. ASSUME NEW m \in Places \ {n}
          PROVE  (\E t \in Tasks : task'[t] = m) <=> \E t \in Tasks : task[t] = m
      BY <1>1, <2>1
    <3>2. QED
      BY <1>1, <1>5, <1>6, <2>1, <3>1 DEF PortExact
  <2>4. ASSUME NEW d \in waits'
        PROVE  \E t \in Tasks : Runs(t)' /\ d \in hooks'[task'[t]]
    <3>1. CASE d = c
      BY <1>1, <1>5, <2>1, <3>1 DEF Runs
    <3>2. CASE d \in waits
      <4>1. PICK t \in Tasks : Runs(t) /\ d \in hooks[task[t]]
        BY <3>2 DEF WaitsServed
      <4>2. t # "upload" /\ task[t] # n /\ task[t] \in Places
        BY <1>2, <2>1, <4>1 DEF Runs
      <4>3. QED
        BY <1>5, <2>1, <4>1, <4>2 DEF Runs
    <3>3. QED
      BY <2>2, <2>4, <3>1, <3>2
  <2>5. ASSUME NEW d \in Peers, NEW t \in Tasks, NEW u \in Tasks, Runs(t)', Runs(u)',
               d \in hooks'[task'[t]], d \in hooks'[task'[u]]
        PROVE  d \in waits' /\ t = u
    <3>1. ASSUME NEW v \in Tasks \ {"upload"}, Runs(v)', d \in hooks'[task'[v]]
          PROVE  Runs(v) /\ d \in hooks[task[v]] /\ d \in waits
      <4>1. task[v] = task'[v] /\ Runs(v) /\ task[v] \in Places \ {n}
        BY <1>2, <2>1, <3>1 DEF Runs
      <4>2. QED
        BY <1>5, <3>1, <4>1 DEF WaitsServed
    <3>2. CASE t = "upload" /\ u = "upload"
      BY <1>1, <1>5, <2>1, <2>2, <2>5, <3>2
    <3>3. CASE t # "upload" /\ u # "upload"
      BY <2>2, <2>5, <3>1, <3>3 DEF WaitsServed
    <3>4. ASSUME NEW v \in Tasks \ {"upload"}, Runs(v)', d \in hooks'[task'[v]], d \in hooks'[task'["upload"]]
          PROVE  FALSE
      <4>1. d = c
        BY <1>1, <1>5, <2>1, <3>4
      <4>2. QED
        BY <3>1, <3>4, <4>1
    <3>5. QED
      BY <2>5, <3>2, <3>3, <3>4
  <2>6. WaitsServed'
    BY <2>4, <2>5 DEF WaitsServed
  <2>7. QED
    BY <1>3, <1>4, <2>3, <2>6
<1>7. CASE ~started
  <2>1. task' = task /\ waits' = waits
    BY <1>7
  <2>2. PortExact'
    BY <1>2, <1>5, <1>7, <2>1 DEF PortExact
  <2>3. \A t \in Tasks : Runs(t) => hooks'[task[t]] = hooks[task[t]]
    BY <1>2, <1>5 DEF Runs
  <2>4. WaitsServed'
    BY <2>1, <2>3 DEF WaitsServed, Runs
  <2>5. QED
    BY <1>3, <1>4, <2>2, <2>4
<1>8. QED
  BY <1>6, <1>7

\* ?progremote: no client waits for it.
LEMMA RemoteLaunches ==
    ASSUME Books, ~Pending("ram"), NEW started \in BOOLEAN,
           Launch("progremote", "ram", {Server}, started), waits' = waits
    PROVE  Books'
<1> USE DEF Books, Launch, Spawn
<1>1. "ram" \in Places \ (Files \cup {"config", "kcpfpg"}) /\ "progremote" \in Tasks /\ Server \notin Peers /\ Unused \notin Places
  BY PlacesApart DEF Tasks
<1>2. hooks["ram"] = {} /\ \A t \in Tasks : task[t] # "ram"
  BY DEF Pending
<1>3. /\ hooks' \in [Places -> SUBSET (Peers \cup {Server})]
      /\ port' \in [Places -> {"none", "live", "freed"}]
      /\ task' \in [Tasks -> Places \cup {Unused}]
      /\ waits' \subseteq Peers
  BY <1>1
<1>4. JobsOwn'
  BY <1>1 DEF JobsOwn, Tasks
<1>5. /\ hooks'["ram"] = {Server}
      /\ \A m \in Places \ {"ram"} : hooks'[m] = hooks[m] /\ port'[m] = port[m]
      /\ port'["ram"] = IF started THEN "live" ELSE "freed"
  BY <1>1
<1>6. \A t \in Tasks : task'[t] = task[t] \/ (started /\ t = "progremote" /\ task'[t] = "ram" /\ task[t] = Unused)
  BY <1>1
<1>7. PortExact'
  <2>1. ASSUME NEW m \in Places \ {"ram"}
        PROVE  (\E t \in Tasks : task'[t] = m) <=> \E t \in Tasks : task[t] = m
    BY <1>1, <1>6
  <2>2. (\E t \in Tasks : task'[t] = "ram") <=> started
    BY <1>1, <1>2
  <2>3. QED
    BY <1>1, <1>5, <2>1, <2>2 DEF PortExact
<1>8. WaitsServed'
  <2>1. ASSUME NEW d \in waits
        PROVE  \E t \in Tasks : Runs(t)' /\ d \in hooks'[task'[t]]
    <3>1. PICK t \in Tasks : Runs(t) /\ d \in hooks[task[t]]
      BY <2>1 DEF WaitsServed
    <3>2. task'[t] = task[t] /\ task[t] \in Places \ {"ram"}
      BY <1>2, <1>6, <3>1 DEF Runs
    <3>3. QED
      BY <1>5, <3>1, <3>2 DEF Runs
  <2>2. ASSUME NEW d \in Peers, NEW t \in Tasks, Runs(t)', d \in hooks'[task'[t]]
        PROVE  Runs(t) /\ d \in hooks[task[t]]
    <3>1. task'[t] # "ram"
      BY <1>1, <1>5, <2>2
    <3>2. task'[t] = task[t] /\ task[t] \in Places \ {"ram"}
      BY <1>6, <2>2, <3>1 DEF Runs
    <3>3. QED
      BY <1>5, <2>2, <3>2 DEF Runs
  <2>3. QED
    BY <2>1, <2>2 DEF WaitsServed
<1>9. QED
  BY <1>3, <1>4, <1>7, <1>8

\* ?progdev, for an fpg file
LEMMA KcpfpgRuns ==
    ASSUME Books, NEW c \in Peers, c \notin waits, ~Pending("kcpfpg"), NEW started \in BOOLEAN,
           RunKcpfpg({c}, started), Pauses(c, started), port' = port
    PROVE  Books'
<1> USE DEF Books, RunKcpfpg, Pauses
<1>1. "kcpfpg" \in Places /\ "kcpfpg" \in Tasks /\ Server \notin Peers /\ Unused \notin Places
  BY PlacesApart DEF Tasks
<1>2. hooks["kcpfpg"] = {} /\ \A t \in Tasks : task[t] # "kcpfpg"
  BY DEF Pending
<1>3. /\ hooks' \in [Places -> SUBSET (Peers \cup {Server})]
      /\ task' \in [Tasks -> Places \cup {Unused}]
      /\ waits' \subseteq Peers
  BY <1>1
<1>4. JobsOwn'
  BY <1>1 DEF JobsOwn, Tasks
<1>5. hooks'["kcpfpg"] = {c} /\ \A m \in Places \ {"kcpfpg"} : hooks'[m] = hooks[m]
  BY <1>1
<1>6. task["kcpfpg"] = Unused
  BY <1>1, <1>2 DEF JobsOwn
<1>7. \A t \in Tasks : IF t = "kcpfpg" /\ started THEN task'[t] = "kcpfpg" ELSE task'[t] = task[t]
  BY <1>1
<1>8. waits' = IF started THEN waits \cup {c} ELSE waits
  OBVIOUS
<1>9. PortExact'
  <2>1. ASSUME NEW m \in Places \ {"kcpfpg"}
        PROVE  (\E t \in Tasks : task'[t] = m) <=> \E t \in Tasks : task[t] = m
    BY <1>1, <1>6, <1>7
  <2>2. port["kcpfpg"] # "live" /\ Server \notin hooks'["kcpfpg"]
    BY <1>1, <1>2, <1>5 DEF PortExact
  <2>3. QED
    BY <1>1, <1>5, <2>1, <2>2 DEF PortExact
<1>10. ASSUME NEW d \in waits'
       PROVE  \E t \in Tasks : Runs(t)' /\ d \in hooks'[task'[t]]
  <2>1. CASE d \in waits
    <3>1. PICK t \in Tasks : Runs(t) /\ d \in hooks[task[t]]
      BY <2>1 DEF WaitsServed
    <3>2. task'[t] = task[t] /\ task[t] \in Places \ {"kcpfpg"}
      BY <1>2, <1>6, <1>7, <3>1 DEF Runs
    <3>3. QED
      BY <1>5, <3>1, <3>2 DEF Runs
  <2>2. CASE d = c /\ started
    BY <1>1, <1>5, <1>7, <2>2 DEF Runs
  <2>3. QED
    BY <1>8, <1>10, <2>1, <2>2
<1>11. ASSUME NEW d \in Peers, NEW t \in Tasks, Runs(t)', d \in hooks'[task'[t]]
       PROVE  \/ t = "kcpfpg" /\ d = c /\ started
              \/ t # "kcpfpg" /\ Runs(t) /\ d \in hooks[task[t]] /\ d # c
  <2>1. CASE t = "kcpfpg"
    <3>1. started /\ task'[t] = "kcpfpg"
      BY <1>6, <1>7, <1>11, <2>1 DEF Runs
    <3>2. d \in hooks'["kcpfpg"]
      BY <1>11, <3>1, Zenon
    <3>3. d = c
      BY <1>5, <3>2
    <3>4. QED
      BY <2>1, <3>1, <3>3
  <2>2. CASE t # "kcpfpg"
    <3>1. task'[t] = task[t] /\ task[t] \in Places \ {"kcpfpg"}
      BY <1>2, <1>7, <1>11, <2>2 DEF Runs
    <3>2. Runs(t) /\ d \in hooks[task[t]]
      BY <1>5, <1>11, <3>1 DEF Runs
    <3>3. QED
      BY <2>2, <3>2 DEF WaitsServed
  <2>3. QED
    BY <2>1, <2>2
<1>12. WaitsServed'
  <2>1. ASSUME NEW d \in Peers, NEW t \in Tasks, NEW u \in Tasks, Runs(t)', Runs(u)',
               d \in hooks'[task'[t]], d \in hooks'[task'[u]]
        PROVE  d \in waits' /\ t = u
    <3>1. \/ t = "kcpfpg" /\ u = "kcpfpg" /\ d = c /\ started
          \/ Runs(t) /\ Runs(u) /\ d \in hooks[task[t]] /\ d \in hooks[task[u]]
      BY <1>11, <2>1
    <3>2. QED
      BY <1>8, <3>1 DEF WaitsServed
  <2>2. QED
    BY <1>10, <2>1 DEF WaitsServed
<1>13. QED
  BY <1>3, <1>4, <1>9, <1>12

\* The end of ?saveremote, of ?uploadbin and of ?progremote.
LEMMA UploadEnded ==
    ASSUME Books, NEW t \in {"upload", "progremote"}, NEW n \in Places, task[t] = n,
           task' = [task EXCEPT ![t] = Unused], port' = [port EXCEPT ![n] = "freed"],
           Resumes(t, n, NoMore)
    PROVE  Books'
<1> USE DEF Books
<1>1. t \in Tasks /\ t # "kcpfpg" /\ Unused \notin Places
  BY PlacesApart DEF Tasks
<1>2. waits' = waits \ hooks[n] /\ hooks' = [m \in Places |-> IF m = n THEN {} ELSE hooks[m]]
  <2>1. Ended(t) = {} /\ \A m \in Places : NoMore[m] = {}
    BY <1>1 DEF Ended, NoMore
  <2>2. \A m \in Places : (hooks[m] \ Ended(t)) \cup NoMore[m] = hooks[m]
    BY <2>1
  <2>3. QED
    BY <2>1, <2>2 DEF Resumes
<1>3. /\ hooks' \in [Places -> SUBSET (Peers \cup {Server})]
      /\ port' \in [Places -> {"none", "live", "freed"}]
      /\ task' \in [Tasks -> Places \cup {Unused}]
      /\ waits' \subseteq Peers
  BY <1>1, <1>2
<1>4. JobsOwn'
  BY <1>1 DEF JobsOwn, Tasks
<1>5. hooks'[n] = {} /\ \A m \in Places \ {n} : hooks'[m] = hooks[m] /\ port'[m] = port[m]
  BY <1>2
<1>6. task'[t] = Unused /\ \A u \in Tasks \ {t} : task'[u] = task[u]
  BY <1>1
<1>7. \A u \in Tasks \ {t} : task[u] # n
  BY <1>1, JobsApart DEF Runs
<1>8. PortExact'
  <2>1. ASSUME NEW m \in Places \ {n}
        PROVE  (\E u \in Tasks : task'[u] = m) <=> \E u \in Tasks : task[u] = m
    BY <1>1, <1>6
  <2>2. port'[n] = "freed"
    OBVIOUS
  <2>3. QED
    BY <1>5, <2>1, <2>2 DEF PortExact
<1>9. ASSUME NEW d, NEW u \in Tasks
      PROVE  Runs(u)' /\ d \in hooks'[task'[u]] <=> u # t /\ Runs(u) /\ d \in hooks[task[u]]
  <2>1. CASE u = t
    BY <1>6, <2>1 DEF Runs
  <2>2. CASE u # t /\ Runs(u)
    <3>1. task'[u] = task[u] /\ task[u] \in Places \ {n}
      BY <1>6, <1>7, <2>2 DEF Runs
    <3>2. QED
      BY <1>5, <2>2, <3>1 DEF Runs
  <2>3. CASE u # t /\ ~Runs(u)
    BY <1>6, <2>3 DEF Runs
  <2>4. QED
    BY <2>1, <2>2, <2>3
<1>10. ASSUME NEW d \in waits'
       PROVE  \E u \in Tasks : Runs(u)' /\ d \in hooks'[task'[u]]
  <2>1. PICK u \in Tasks : Runs(u) /\ d \in hooks[task[u]]
    BY <1>2, <1>10 DEF WaitsServed
  <2>2. u # t
    BY <1>2, <1>10, <2>1
  <2>3. QED
    BY <1>9, <2>1, <2>2
<1>11. ASSUME NEW d \in Peers, NEW u \in Tasks, NEW v \in Tasks, Runs(u)', Runs(v)',
              d \in hooks'[task'[u]], d \in hooks'[task'[v]]
       PROVE  d \in waits' /\ u = v
  <2>1. u # t /\ v # t /\ Runs(u) /\ Runs(v) /\ d \in hooks[task[u]] /\ d \in hooks[task[v]]
    BY <1>9, <1>11
  <2>2. d \in waits /\ u = v
    BY <2>1 DEF WaitsServed
  <2>3. d \notin hooks[n]
    <3>1. SUFFICES ASSUME d \in hooks[n]
                   PROVE  FALSE
      OBVIOUS
    <3>2. Runs(t)
      BY <1>1 DEF Runs
    <3>3. QED
      BY <1>1, <2>1, <3>1, <3>2 DEF WaitsServed
  <2>4. QED
    BY <1>2, <2>2, <2>3
<1>12. WaitsServed'
  BY <1>10, <1>11 DEF WaitsServed
<1>13. QED
  BY <1>3, <1>4, <1>8, <1>12

\* A kcpfpg process ends, and its connection with it.
LEMMA KcpfpgEnded ==
    ASSUME Books, task["kcpfpg"] = "kcpfpg",
           task' = [task EXCEPT !["kcpfpg"] = Unused],
           port' = IF Server \in hooks["kcpfpg"] THEN [port EXCEPT !["kcpfpg"] = "freed"] ELSE port,
           Resumes("kcpfpg", "kcpfpg", NoMore)
    PROVE  Books'
<1> USE DEF Books
<1> DEFINE n == "kcpfpg"
<1>1. n \in Tasks /\ n \in Places /\ Unused \notin Places /\ Server \notin {Kcpfpg}
  BY PlacesApart DEF Tasks, Peers
<1>2. /\ waits' = waits \ (hooks[n] \cup {Kcpfpg})
      /\ hooks' = [m \in Places |-> IF m = n THEN {} ELSE hooks[m] \ {Kcpfpg}]
  <2>1. Ended(n) = {Kcpfpg} /\ \A m \in Places : NoMore[m] = {}
    BY DEF Ended, NoMore
  <2>2. \A m \in Places : (hooks[m] \ Ended(n)) \cup NoMore[m] = hooks[m] \ {Kcpfpg}
    BY <2>1
  <2>3. QED
    BY <2>1, <2>2 DEF Resumes
<1>3. /\ hooks' \in [Places -> SUBSET (Peers \cup {Server})]
      /\ port' \in [Places -> {"none", "live", "freed"}]
      /\ task' \in [Tasks -> Places \cup {Unused}]
      /\ waits' \subseteq Peers
  BY <1>1, <1>2
<1>4. JobsOwn'
  BY <1>1 DEF JobsOwn, Tasks
<1>5. hooks'[n] = {} /\ \A m \in Places \ {n} : hooks'[m] = hooks[m] \ {Kcpfpg} /\ port'[m] = port[m]
  BY <1>1, <1>2
<1>6. task'[n] = Unused /\ \A u \in Tasks \ {n} : task'[u] = task[u] /\ task[u] # n
  BY <1>1, JobsApart DEF Runs
<1>7. PortExact'
  <2>1. ASSUME NEW m \in Places \ {n}
        PROVE  (\E u \in Tasks : task'[u] = m) <=> \E u \in Tasks : task[u] = m
    BY <1>1, <1>6
  <2>2. port'[n] # "live"
    BY <1>1 DEF PortExact
  <2>3. QED
    BY <1>1, <1>5, <2>1, <2>2 DEF PortExact
<1>8. ASSUME NEW d, NEW u \in Tasks
      PROVE  Runs(u)' /\ d \in hooks'[task'[u]] <=> u # n /\ Runs(u) /\ d \in hooks[task[u]] /\ d # Kcpfpg
  <2>1. CASE u = n
    BY <1>6, <2>1 DEF Runs
  <2>2. CASE u # n /\ Runs(u)
    <3>1. task'[u] = task[u] /\ task[u] \in Places \ {n}
      BY <1>6, <2>2 DEF Runs
    <3>2. QED
      BY <1>5, <2>2, <3>1 DEF Runs
  <2>3. CASE u # n /\ ~Runs(u)
    BY <1>6, <2>3 DEF Runs
  <2>4. QED
    BY <2>1, <2>2, <2>3
<1>9. ASSUME NEW d \in waits'
      PROVE  \E u \in Tasks : Runs(u)' /\ d \in hooks'[task'[u]]
  <2>1. PICK u \in Tasks : Runs(u) /\ d \in hooks[task[u]]
    BY <1>2, <1>9 DEF WaitsServed
  <2>2. u # n /\ d # Kcpfpg
    BY <1>2, <1>9, <2>1
  <2>3. QED
    BY <1>8, <2>1, <2>2
<1>10. ASSUME NEW d \in Peers, NEW u \in Tasks, NEW v \in Tasks, Runs(u)', Runs(v)',
              d \in hooks'[task'[u]], d \in hooks'[task'[v]]
       PROVE  d \in waits' /\ u = v
  <2>1. /\ u # n /\ v # n /\ Runs(u) /\ Runs(v) /\ d # Kcpfpg
        /\ d \in hooks[task[u]] /\ d \in hooks[task[v]]
    BY <1>8, <1>10
  <2>2. d \in waits /\ u = v
    BY <2>1 DEF WaitsServed
  <2>3. d \notin hooks[n]
    <3>1. SUFFICES ASSUME d \in hooks[n]
                   PROVE  FALSE
      OBVIOUS
    <3>2. Runs(n)
      BY <1>1 DEF Runs
    <3>3. QED
      BY <1>1, <2>1, <3>1, <3>2 DEF WaitsServed
  <2>4. QED
    BY <1>2, <2>1, <2>2, <2>3
<1>11. WaitsServed'
  BY <1>9, <1>10 DEF WaitsServed
<1>12. QED
  BY <1>3, <1>4, <1>7, <1>11

\* What ?progremote has received is given to kcpfpg: the server moves from one
\* notice to the other, and no client waits for either.
LEMMA RemoteGives ==
    ASSUME Books, task["progremote"] = "ram", ~Pending("kcpfpg"), NEW started \in BOOLEAN,
           port' = [port EXCEPT !["ram"] = IF started THEN "none" ELSE "freed",
                                !["kcpfpg"] = IF started THEN "live" ELSE "freed"],
           Resumes("progremote", "ram", [NoMore EXCEPT !["kcpfpg"] = {Server}]),
           task' = [task EXCEPT !["progremote"] = Unused, !["kcpfpg"] = IF started THEN "kcpfpg" ELSE @]
    PROVE  Books'
<1> USE DEF Books
<1>1. /\ "progremote" \in Tasks /\ "kcpfpg" \in Tasks
      /\ "ram" \in Places /\ "kcpfpg" \in Places
      /\ Unused \notin Places /\ Server \notin Peers
  BY PlacesApart DEF Tasks
<1>2. hooks["kcpfpg"] = {} /\ \A t \in Tasks : task[t] # "kcpfpg"
  BY DEF Pending
<1>3. waits' = waits \ hooks["ram"] /\ hooks' = [hooks EXCEPT !["ram"] = {}, !["kcpfpg"] = {Server}]
  <2> DEFINE more == [NoMore EXCEPT !["kcpfpg"] = {Server}]
  <2>1. /\ Ended("progremote") = {}
        /\ \A m \in Places : more[m] = IF m = "kcpfpg" THEN {Server} ELSE {}
    BY <1>1 DEF Ended, NoMore
  <2> HIDE DEF more
  <2>2. \A m \in Places : (hooks[m] \ Ended("progremote")) \cup more[m] = IF m = "kcpfpg" THEN {Server} ELSE hooks[m]
    BY <1>2, <2>1
  <2>3. /\ waits' = waits \ (hooks["ram"] \cup Ended("progremote"))
        /\ hooks' = [m \in Places |-> IF m = "ram" THEN {} ELSE (hooks[m] \ Ended("progremote")) \cup more[m]]
    BY DEF Resumes, more
  <2>4. hooks' = [m \in Places |-> IF m = "ram" THEN {} ELSE IF m = "kcpfpg" THEN {Server} ELSE hooks[m]]
    BY <2>2, <2>3
  <2>5. QED
    BY <1>1, <2>1, <2>3, <2>4
<1>4. /\ hooks' \in [Places -> SUBSET (Peers \cup {Server})]
      /\ port' \in [Places -> {"none", "live", "freed"}]
      /\ task' \in [Tasks -> Places \cup {Unused}]
      /\ waits' \subseteq Peers
  BY <1>1, <1>3
<1>5. JobsOwn'
  BY <1>1 DEF JobsOwn, Tasks
<1>6. /\ hooks'["ram"] = {} /\ hooks'["kcpfpg"] = {Server}
      /\ \A m \in Places \ {"ram", "kcpfpg"} : hooks'[m] = hooks[m] /\ port'[m] = port[m]
      /\ port'["kcpfpg"] = IF started THEN "live" ELSE "freed"
      /\ port'["ram"] # "live"
  BY <1>1, <1>3
<1>7. task["kcpfpg"] = Unused
  BY <1>1, <1>2 DEF JobsOwn
<1>8. /\ task'["progremote"] = Unused
      /\ task'["kcpfpg"] = IF started THEN "kcpfpg" ELSE Unused
      /\ \A u \in Tasks \ {"progremote", "kcpfpg"} : task'[u] = task[u]
  BY <1>1, <1>7
<1>9. \A u \in Tasks \ {"progremote"} : task[u] # "ram"
  BY <1>1, JobsApart DEF Runs
<1>10. PortExact'
  <2>1. ASSUME NEW m \in Places \ {"ram", "kcpfpg"}
        PROVE  (\E u \in Tasks : task'[u] = m) <=> \E u \in Tasks : task[u] = m
    BY <1>1, <1>7, <1>8
  <2>2. (\E u \in Tasks : task'[u] = "kcpfpg") <=> started
    BY <1>1, <1>2, <1>8
  <2>3. QED
    BY <1>6, <2>1, <2>2 DEF PortExact
<1>11. ASSUME NEW d \in Peers, NEW u \in Tasks
       PROVE  Runs(u)' /\ d \in hooks'[task'[u]] <=> u # "progremote" /\ Runs(u) /\ d \in hooks[task[u]]
  <2>1. CASE u = "progremote"
    BY <1>8, <2>1 DEF Runs
  <2>2. CASE u = "kcpfpg"
    BY <1>1, <1>6, <1>7, <1>8, <2>2 DEF Runs
  <2>3. CASE u \notin {"progremote", "kcpfpg"} /\ Runs(u)
    <3>1. task'[u] = task[u] /\ task[u] \in Places \ {"ram", "kcpfpg"}
      BY <1>2, <1>8, <1>9, <2>3 DEF Runs
    <3>2. QED
      BY <1>6, <2>3, <3>1 DEF Runs
  <2>4. CASE u \notin {"progremote", "kcpfpg"} /\ ~Runs(u)
    BY <1>8, <2>4 DEF Runs
  <2>5. QED
    BY <2>1, <2>2, <2>3, <2>4
<1>12. ASSUME NEW d \in waits'
       PROVE  \E u \in Tasks : Runs(u)' /\ d \in hooks'[task'[u]]
  <2>1. PICK u \in Tasks : Runs(u) /\ d \in hooks[task[u]]
    BY <1>3, <1>12 DEF WaitsServed
  <2>2. u # "progremote"
    BY <1>3, <1>12, <2>1
  <2>3. QED
    BY <1>4, <1>11, <1>12, <2>1, <2>2
<1>13. ASSUME NEW d \in Peers, NEW u \in Tasks, NEW v \in Tasks, Runs(u)', Runs(v)',
              d \in hooks'[task'[u]], d \in hooks'[task'[v]]
       PROVE  d \in waits' /\ u = v
  <2>1. /\ u # "progremote" /\ v # "progremote" /\ Runs(u) /\ Runs(v)
        /\ d \in hooks[task[u]] /\ d \in hooks[task[v]]
    BY <1>11, <1>13
  <2>2. d \in waits /\ u = v
    BY <2>1 DEF WaitsServed
  <2>3. d \notin hooks["ram"]
    <3>1. SUFFICES ASSUME d \in hooks["ram"]
                   PROVE  FALSE
      OBVIOUS
    <3>2. Runs("progremote")
      BY <1>1 DEF Runs
    <3>3. QED
      BY <1>1, <2>1, <3>1, <3>2 DEF WaitsServed
  <2>4. QED
    BY <1>3, <2>2, <2>3
<1>14. WaitsServed'
  BY <1>12, <1>13 DEF WaitsServed
<1>15. QED
  BY <1>4, <1>5, <1>10, <1>14

\* A client hangs up.
LEMMA BooksWithout ==
    ASSUME Books, NEW c \in Peers, hooks' = [n \in Places |-> hooks[n] \ {c}], waits' = waits \ {c},
           UNCHANGED <<port, task>>
    PROVE  Books'
<1> USE DEF Books
<1>1. Server # c /\ Unused \notin Places
  BY PlacesApart
<1>2. /\ hooks' \in [Places -> SUBSET (Peers \cup {Server})]
      /\ waits' \subseteq Peers
      /\ JobsOwn'
  BY DEF JobsOwn
<1>3. PortExact'
  BY <1>1 DEF PortExact
<1>4. ASSUME NEW u \in Tasks, Runs(u)
      PROVE  hooks'[task'[u]] = hooks[task[u]] \ {c}
  BY <1>4 DEF Runs
<1>5. WaitsServed'
  BY <1>4 DEF WaitsServed, Runs
<1>6. QED
  BY <1>2, <1>3, <1>5

LEMMA BooksSame ==
    ASSUME Books, UNCHANGED <<hooks, port, task, waits>>
    PROVE  Books'
  BY DEF Books, JobsOwn, PortExact, WaitsServed, Runs

-----------------------------------------------------------------------------
(* The invariant, action by action.                                         *)

GateOK == gate \in Gates /\ Mapped(gate)

FilesOK == stored \in [Files -> {"absent", "partial", "whole"}] /\ FilesWhole

Steps == {"none", "start", "uploading", "uploaded", "defined", "done", "failed"}

StepOK == step \in Steps /\ up \in BOOLEAN

LEMMA InvParts == GatewareInv <=> GateOK /\ Books /\ FilesOK /\ StepOK
  BY Zenon DEF GatewareInv, GatewareTypeOK, Accounted, GateOK, Gates, Fpgas, Mapped, MapExact, Books, FilesOK, Steps, StepOK

LEMMA InvPartsNext == GatewareInv' <=> GateOK' /\ Books' /\ FilesOK' /\ StepOK'
  BY InvParts, PTL

LEMMA FilesSame ==
    ASSUME FilesOK, stored' = stored, task'["upload"] = task["upload"] \/ task["upload"] \notin Files
    PROVE  FilesOK'
  BY DEF FilesOK, FilesWhole

LEMMA SaveRemoteKeeps ==
    ASSUME GatewareInv, NEW c \in Requesters, NEW f \in Files, SaveRemote(c, f)
    PROVE  GatewareInv'
<1>1. GateOK /\ Books /\ FilesOK /\ StepOK
  BY InvParts
<1>2. GateOK' /\ StepOK'
  BY <1>1 DEF SaveRemote, GateOK, Mapped, StepOK
<1>3. CASE \E started \in BOOLEAN :
                /\ Launch("upload", f, {Server, c}, started)
                /\ Pauses(c, started)
                /\ stored' = [stored EXCEPT ![f] = IF started THEN "partial" ELSE "absent"]
  <2>1. PICK started \in BOOLEAN :
            /\ Launch("upload", f, {Server, c}, started)
            /\ Pauses(c, started)
            /\ stored' = [stored EXCEPT ![f] = IF started THEN "partial" ELSE "absent"]
    BY <1>3
  <2>2. Books'
    BY <1>1, <2>1, UploadLaunches DEF SaveRemote, Free, Peers
  <2>3. "upload" \in Tasks /\ task \in [Tasks -> Places \cup {Unused}] /\ Unused \notin Files
    BY <1>1, PlacesApart DEF Tasks, Books, Places
  <2>4. CASE started
    <3>1. task["upload"] = Unused /\ task'["upload"] = f
      BY <2>1, <2>3, <2>4 DEF Launch, Spawn
    <3>2. FilesOK'
      BY <1>1, <2>1, <2>3, <2>4, <3>1 DEF FilesOK, FilesWhole
    <3>3. QED
      BY <1>2, <2>2, <3>2, InvPartsNext
  <2>5. CASE ~started
    <3>1. task' = task
      BY <2>1, <2>5 DEF Launch, Spawn
    <3>2. FilesOK'
      BY <1>1, <2>1, <2>5, <3>1 DEF FilesOK, FilesWhole
    <3>3. QED
      BY <1>2, <2>2, <3>2, InvPartsNext
  <2>6. QED
    BY <2>4, <2>5
<1>4. CASE stored' = [stored EXCEPT ![f] = "absent"] /\ UNCHANGED <<hooks, port, task, waits>>
  <2>1. Books'
    BY <1>1, <1>4, BooksSame
  <2>2. FilesOK'
    BY <1>1, <1>4 DEF FilesOK, FilesWhole
  <2>3. QED
    BY <1>2, <2>1, <2>2, InvPartsNext
<1>5. QED
  BY <1>3, <1>4 DEF SaveRemote

\* ?uploadbin of a client, or of kcpfpg.
LEMMA UploadBinKeeps ==
    ASSUME GatewareInv, NEW c \in Peers, NEW started \in BOOLEAN, UploadBin(c, started), step' \in Steps
    PROVE  GatewareInv'
<1>1. GateOK /\ Books /\ FilesOK /\ StepOK
  BY InvParts
<1>2. c \notin waits /\ ~Pending("config") /\ Pauses(c, started) /\ UNCHANGED <<stored, up>>
  BY DEF UploadBin, Free
<1>3. PICK s \in Stops(gate) :
          /\ gate' = s.gate
          /\ \/ Launch("upload", "config", {Server, c}, started)
             \/ ~started /\ UNCHANGED <<hooks, task, port>>
  BY DEF UploadBin
<1>4. GateOK'
  BY <1>1, <1>3, StopsMapped DEF GateOK
<1>5. CASE Launch("upload", "config", {Server, c}, started)
  <2>1. Books'
    BY <1>1, <1>2, <1>5, UploadLaunches
  <2>2. task'["upload"] = task["upload"] \/ task["upload"] = Unused
    BY <1>5 DEF Launch, Spawn
  <2>3. FilesOK'
    BY <1>1, <1>2, <2>2, FilesSame, PlacesApart DEF Places
  <2>4. QED
    BY <1>1, <1>2, <1>4, <2>1, <2>3, InvPartsNext DEF StepOK
<1>6. CASE ~started /\ UNCHANGED <<hooks, task, port>>
  <2>1. Books'
    BY <1>1, <1>2, <1>6, BooksSame DEF Pauses
  <2>2. FilesOK'
    BY <1>1, <1>2, <1>6, FilesSame
  <2>3. QED
    BY <1>1, <1>2, <1>4, <2>1, <2>2, InvPartsNext DEF StepOK
<1>7. QED
  BY <1>3, <1>5, <1>6

LEMMA ProgRemoteKeeps ==
    ASSUME GatewareInv, NEW c \in Requesters, ProgRemote(c)
    PROVE  GatewareInv'
<1>1. GateOK /\ Books /\ FilesOK /\ StepOK
  BY InvParts
<1>2. PICK s \in Stops(gate), started \in BOOLEAN :
          gate' = s.gate /\ Launch("progremote", "ram", {Server}, started)
  BY DEF ProgRemote
<1>3. GateOK'
  BY <1>1, <1>2, StopsMapped DEF GateOK
<1>4. Books'
  BY <1>1, <1>2, RemoteLaunches DEF ProgRemote
<1>5. FilesOK'
  <2>1. task'["upload"] = task["upload"]
    BY <1>1, <1>2 DEF Launch, Spawn, Books, Tasks
  <2>2. QED
    BY <1>1, <2>1, FilesSame DEF ProgRemote
<1>6. StepOK'
  BY <1>1 DEF ProgRemote, StepOK
<1>7. QED
  BY <1>3, <1>4, <1>5, <1>6, InvPartsNext

LEMMA ProgDevKeeps ==
    ASSUME GatewareInv, NEW c \in Requesters, ProgDev(c)
    PROVE  GatewareInv'
<1>1. GateOK /\ Books /\ FilesOK /\ StepOK
  BY InvParts
<1>2. /\ c \notin waits /\ c \in Peers /\ ~Pending("kcpfpg") /\ UNCHANGED <<port, stored, up>>
  BY DEF ProgDev, Free, Peers
<1>3. PICK s \in Stops(gate) :
          \/ gate' = s.gate /\ UNCHANGED <<hooks, task, waits, step>>
          \/ (\E r \in BofStarts(s.gate) : gate' = r.gate) /\ UNCHANGED <<hooks, task, waits, step>>
          \/ gate' = s.gate /\ \E started \in BOOLEAN : RunKcpfpg({c}, started) /\ Pauses(c, started)
  BY DEF ProgDev
<1>4. GateOK'
  BY <1>1, <1>3, StopsMapped, BofStartsMapped DEF GateOK
<1>5. CASE UNCHANGED <<hooks, task, waits, step>>
  <2>1. Books'
    BY <1>1, <1>2, <1>5, BooksSame
  <2>2. FilesOK'
    BY <1>1, <1>2, <1>5, FilesSame
  <2>3. QED
    BY <1>1, <1>2, <1>4, <1>5, <2>1, <2>2, InvPartsNext DEF StepOK
<1>6. ASSUME NEW started \in BOOLEAN, RunKcpfpg({c}, started), Pauses(c, started)
      PROVE  GatewareInv'
  <2>1. Books'
    BY <1>1, <1>2, <1>6, KcpfpgRuns
  <2>2. task'["upload"] = task["upload"]
    BY <1>1, <1>6 DEF RunKcpfpg, Books, Tasks
  <2>3. FilesOK'
    BY <1>1, <1>2, <2>2, FilesSame
  <2>4. StepOK'
    BY <1>1, <1>2, <1>6 DEF RunKcpfpg, StepOK, Steps
  <2>5. QED
    BY <1>4, <2>1, <2>3, <2>4, InvPartsNext
<1>7. QED
  BY <1>3, <1>5, <1>6

\* ?register and ?finalise of a client, or of kcpfpg.
LEMMA RegisterKeeps ==
    ASSUME GatewareInv, NEW c \in Peers, Register(c), step' \in Steps
    PROVE  GatewareInv'
<1>1. GateOK /\ Books /\ FilesOK /\ StepOK
  BY InvParts
<1>2. gate' = Defined(gate) /\ UNCHANGED <<hooks, port, task, stored, waits, up>>
  BY DEF Register
<1>3. GateOK'
  BY <1>1, <1>2, DefinedMapped DEF GateOK
<1>4. Books' /\ FilesOK' /\ StepOK'
  BY <1>1, <1>2, BooksSame, FilesSame DEF StepOK
<1>5. QED
  BY <1>3, <1>4, InvPartsNext

LEMMA FinaliseKeeps ==
    ASSUME GatewareInv, NEW c \in Peers, Finalise(c), step' \in Steps
    PROVE  GatewareInv'
<1>1. GateOK /\ Books /\ FilesOK /\ StepOK
  BY InvParts
<1>2. UNCHANGED <<hooks, port, task, stored, waits>> /\ up' \in BOOLEAN
  BY <1>1 DEF Finalise, StepOK
<1>3. GateOK'
  <2>1. CASE Mappable(gate) /\ ~gate.registers
    BY <1>1, <2>1 DEF Finalise, GateOK
  <2>2. CASE ~(Mappable(gate) /\ ~gate.registers)
    <3>1. gate' = Finalised(gate) /\ (Mappable(gate) \/ gate.fpga \in {"mapped", "ready"})
      BY <2>2 DEF Finalise
    <3>2. QED
      BY <1>1, <2>2, <3>1, FinalisedMapped DEF GateOK
  <2>3. QED
    BY <2>1, <2>2
<1>4. Books' /\ FilesOK' /\ StepOK'
  BY <1>2, <1>1, BooksSame, FilesSame DEF StepOK
<1>5. QED
  BY <1>3, <1>4, InvPartsNext

LEMMA DelBofKeeps ==
    ASSUME GatewareInv, NEW c \in Requesters, NEW f \in Files, DelBof(c, f)
    PROVE  GatewareInv'
<1>1. GateOK /\ Books /\ FilesOK /\ StepOK
  BY InvParts
<1>2. Books' /\ StepOK' /\ GateOK'
  BY <1>1, BooksSame DEF DelBof, StepOK, GateOK, Mapped
<1>3. FilesOK'
  BY <1>1 DEF DelBof, FilesOK, FilesWhole
<1>4. QED
  BY <1>2, <1>3, InvPartsNext

LEMMA HangUpKeeps ==
    ASSUME GatewareInv, NEW c \in Requesters, HangUp(c)
    PROVE  GatewareInv'
<1>1. GateOK /\ Books /\ FilesOK /\ StepOK
  BY InvParts
<1>2. Books'
  BY <1>1, BooksWithout DEF HangUp, Peers
<1>3. FilesOK' /\ StepOK' /\ GateOK'
  BY <1>1, FilesSame DEF HangUp, StepOK, GateOK, Mapped
<1>4. QED
  BY <1>2, <1>3, InvPartsNext

LEMMA SaveEndsKeeps ==
    ASSUME GatewareInv, NEW ok \in BOOLEAN, SaveEnds(ok)
    PROVE  GatewareInv'
<1> DEFINE f == task["upload"]
<1>1. GateOK /\ Books /\ FilesOK /\ StepOK
  BY InvParts
<1>2. /\ f \in Files /\ f \in Places
      /\ task' = [task EXCEPT !["upload"] = Unused]
      /\ port' = [port EXCEPT ![f] = "freed"]
      /\ stored' = [stored EXCEPT ![f] = IF ok /\ @ = "partial" THEN "whole" ELSE "absent"]
      /\ Resumes("upload", f, NoMore)
  BY DEF SaveEnds, Places
<1>3. Books'
  BY <1>1, <1>2, UploadEnded
<1>4. FilesOK'
  BY <1>1, <1>2 DEF FilesOK, FilesWhole
<1>5. GateOK' /\ StepOK'
  BY <1>1 DEF SaveEnds, GateOK, Mapped, StepOK
<1>6. QED
  BY <1>3, <1>4, <1>5, InvPartsNext

LEMMA BinEndsKeeps ==
    ASSUME GatewareInv, NEW ok \in BOOLEAN, BinEnds(ok)
    PROVE  GatewareInv'
<1>1. GateOK /\ Books /\ FilesOK /\ StepOK
  BY InvParts
<1>2. /\ task["upload"] = "config" /\ "config" \in Places
      /\ task' = [task EXCEPT !["upload"] = Unused]
      /\ port' = [port EXCEPT !["config"] = "freed"]
      /\ Resumes("upload", "config", NoMore)
      /\ UNCHANGED <<stored, up>>
  BY DEF BinEnds, Places
<1>3. Books'
  BY <1>1, <1>2, UploadEnded
<1>4. FilesOK'
  BY <1>1, <1>2, FilesSame, PlacesApart
<1>5. GateOK'
  BY <1>1, FpgStartedMapped DEF BinEnds, GateOK, Mapped
<1>6. StepOK'
  BY <1>1 DEF BinEnds, StepAfter, StepOK, Steps
<1>7. QED
  BY <1>3, <1>4, <1>5, <1>6, InvPartsNext

LEMMA RemoteEndsKeeps ==
    ASSUME GatewareInv, NEW ok \in BOOLEAN, RemoteEnds(ok)
    PROVE  GatewareInv'
<1>1. GateOK /\ Books /\ FilesOK /\ StepOK
  BY InvParts
<1>2. task["progremote"] = "ram" /\ UNCHANGED <<stored, up>> /\ "ram" \in Places
  BY PlacesApart DEF RemoteEnds
<1>3. GateOK'
  <2>1. \/ gate' = gate
        \/ \E s \in Stops(gate) : gate' = s.gate
        \/ \E s \in Stops(gate) : \E r \in BofStarts(s.gate) : gate' = r.gate
    BY DEF RemoteEnds
  <2>2. QED
    BY <1>1, <2>1, StopsMapped, BofStartsMapped DEF GateOK
<1>4. \/ /\ port' = [port EXCEPT !["ram"] = "freed"]
         /\ Resumes("progremote", "ram", NoMore)
         /\ task' = [task EXCEPT !["progremote"] = Unused]
         /\ step' = step
      \/ /\ ~Pending("kcpfpg")
         /\ \E started \in BOOLEAN :
               /\ port' = [port EXCEPT !["ram"] = IF started THEN "none" ELSE "freed",
                                       !["kcpfpg"] = IF started THEN "live" ELSE "freed"]
               /\ Resumes("progremote", "ram", [NoMore EXCEPT !["kcpfpg"] = {Server}])
               /\ task' = [task EXCEPT !["progremote"] = Unused,
                                       !["kcpfpg"] = IF started THEN "kcpfpg" ELSE @]
               /\ step' = IF started THEN "start" ELSE step
  BY Zenon DEF RemoteEnds
<1>5. Books'
  BY <1>1, <1>2, <1>4, UploadEnded, RemoteGives
<1>6. FilesOK'
  <2>1. task'["upload"] = task["upload"]
    BY <1>1, <1>4 DEF Books, Tasks
  <2>2. QED
    BY <1>1, <1>2, <2>1, FilesSame
<1>7. StepOK'
  BY <1>1, <1>2, <1>4 DEF StepOK, Steps
<1>8. QED
  BY <1>3, <1>5, <1>6, <1>7, InvPartsNext

LEMMA KcpfpgEndsKeeps ==
    ASSUME GatewareInv, KcpfpgEnds
    PROVE  GatewareInv'
<1>1. GateOK /\ Books /\ FilesOK /\ StepOK
  BY InvParts
<1>2. Books'
  BY <1>1, KcpfpgEnded DEF KcpfpgEnds
<1>3. FilesOK'
  <2>1. task'["upload"] = task["upload"]
    BY <1>1 DEF KcpfpgEnds, Books, Tasks
  <2>2. QED
    BY <1>1, <2>1, FilesSame DEF KcpfpgEnds
<1>4. GateOK' /\ StepOK'
  BY <1>1 DEF KcpfpgEnds, GateOK, Mapped, StepOK, Steps
<1>5. QED
  BY <1>2, <1>3, <1>4, InvPartsNext

LEMMA KcpfpgStepKeeps ==
    ASSUME GatewareInv, KcpfpgStep
    PROVE  GatewareInv'
<1>1. GateOK /\ Books /\ FilesOK /\ StepOK /\ Kcpfpg \in Peers
  BY InvParts DEF Peers
<1>2. CASE KcpfpgUploads
  <2>1. PICK started \in BOOLEAN : UploadBin(Kcpfpg, started) /\ step' = IF started THEN "uploading" ELSE "failed"
    BY <1>2 DEF KcpfpgUploads
  <2>2. QED
    BY <1>1, <2>1, UploadBinKeeps DEF Steps
<1>3. CASE KcpfpgDefines
  BY <1>1, <1>3, RegisterKeeps DEF KcpfpgDefines, Steps
<1>4. CASE KcpfpgFinalises
  BY <1>1, <1>4, FinaliseKeeps DEF KcpfpgFinalises, Steps
<1>5. CASE KcpfpgFails
  <2>1. Books' /\ FilesOK'
    BY <1>1, <1>5, BooksSame, FilesSame DEF KcpfpgFails
  <2>2. GateOK' /\ StepOK'
    BY <1>1, <1>5 DEF KcpfpgFails, GateOK, Mapped, StepOK, Steps
  <2>3. QED
    BY <2>1, <2>2, InvPartsNext
<1>6. QED
  BY <1>2, <1>3, <1>4, <1>5 DEF KcpfpgStep

LEMMA GatewareStart == GatewareInit => GatewareInv
<1> SUFFICES ASSUME GatewareInit
             PROVE  GatewareInv
  OBVIOUS
<1>1. GateOK
  BY DEF GatewareInit, GateOK, Gates, Fpgas, Mapped
<1>2. \A t \in Tasks : task[t] = Unused
  BY DEF GatewareInit
<1>3. Books
  <2>1. JobsOwn
    BY <1>2 DEF JobsOwn, Tasks
  <2>2. PortExact
    BY <1>2, PlacesApart DEF GatewareInit, PortExact
  <2>3. WaitsServed
    BY <1>2 DEF GatewareInit, WaitsServed, Runs
  <2>4. QED
    BY <2>1, <2>2, <2>3 DEF GatewareInit, Books
<1>4. FilesOK /\ StepOK
  BY DEF GatewareInit, FilesOK, FilesWhole, StepOK, Steps
<1>5. QED
  BY <1>1, <1>3, <1>4, InvParts

LEMMA GatewareNextKeeps ==
    ASSUME GatewareInv, [GatewareNext]_gatevars
    PROVE  GatewareInv'
<1>1. step \in Steps
  BY InvParts DEF StepOK
<1>2. ASSUME NEW c \in Requesters, NEW f \in Files, SaveRemote(c, f) \/ DelBof(c, f)
      PROVE  GatewareInv'
  BY <1>2, SaveRemoteKeeps, DelBofKeeps
<1>3. ASSUME NEW c \in Requesters, NEW started \in BOOLEAN, UploadBin(c, started), step' = step
      PROVE  GatewareInv'
  BY <1>1, <1>3, UploadBinKeeps DEF Peers
<1>4. ASSUME NEW c \in Requesters,
             \/ ProgRemote(c) \/ ProgDev(c) \/ HangUp(c)
             \/ Register(c) /\ step' = step
             \/ Finalise(c) /\ step' = step
      PROVE  GatewareInv'
  BY <1>1, <1>4, ProgRemoteKeeps, ProgDevKeeps, HangUpKeeps, RegisterKeeps, FinaliseKeeps DEF Peers
<1>5. CASE KcpfpgStep
  BY <1>5, KcpfpgStepKeeps
<1>6. CASE UploadEnds \/ ProgRemoteEnds \/ KcpfpgEnds
  BY <1>6, SaveEndsKeeps, BinEndsKeeps, RemoteEndsKeeps, KcpfpgEndsKeeps DEF UploadEnds, ProgRemoteEnds
<1>7. CASE UNCHANGED gatevars
  <2>1. GateOK' /\ Books' /\ FilesOK' /\ StepOK'
    BY <1>7, InvParts, BooksSame, FilesSame DEF gatevars, GateOK, Mapped, StepOK
  <2>2. QED
    BY <2>1, InvPartsNext
<1>8. QED
  BY <1>2, <1>3, <1>4, <1>5, <1>6, <1>7 DEF GatewareNext

-----------------------------------------------------------------------------
(* The theorems.                                                            *)

LEMMA GatewareInvariant == GatewareSpec => []GatewareInv
  BY GatewareStart, GatewareNextKeeps, PTL DEF GatewareSpec

\* The types of the state of uploads and programming (struct tbs_raw, struct
\* katcp_notice, struct katcp_job).
THEOREM GatewareTyped == GatewareSpec => []GatewareTypeOK
<1>1. GatewareInv => GatewareTypeOK
  BY DEF GatewareInv
<1>2. QED
  BY <1>1, GatewareInvariant, PTL

\* Whatever fails and whoever goes away, port data are freed or held by the
\* callback of a job that runs, no file stays incomplete, the memory is mapped
\* once if at all, and who is paused waits for one job (upload.c, raw.c).
THEOREM GatewareAccounted == GatewareSpec => []Accounted
<1>1. GatewareInv => Accounted
  BY DEF GatewareInv
<1>2. QED
  BY <1>1, GatewareInvariant, PTL

=============================================================================

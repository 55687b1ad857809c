------------------------------ MODULE Gateware ------------------------------
(***************************************************************************)
(* How tcpborphserver3 programs the FPGA: the requests of raw.c and the    *)
(* uploads of upload.c, and kcpfpg (fpg/fpg.c), which the server runs for  *)
(* an fpg file and which is in turn a client of the server.                *)
(*                                                                         *)
(* An upload subscribes the server (port data in hand) and, but for        *)
(* ?progremote, its client to a notice that is named after where the       *)
(* upload goes, and creates a job that wakes the notice when it ends.  The *)
(* job ends in run_jobs_katcp and its notice is run in the same turn, with *)
(* no request in between, so that both are one action here.                *)
(*                                                                         *)
(* A job wakes its halt notice once, with the status of its process: that  *)
(* is what module Job shows.  That a client wakes one of these notices by  *)
(* its name (?notice wake) is left out, and with it that the callback on a *)
(* notice left behind without a job would use port data that have been     *)
(* freed (upload.c:691).  A lock only refuses requests, and is left out.   *)
(* Memory does not run out.                                                *)
(* Builds are the ones that fix positions up when they map, not for PPC.   *)
(***************************************************************************)
EXTENDS Integers

CONSTANTS
    Requesters,  \* clients
    Kcpfpg,      \* the connection of a kcpfpg process
    Files,       \* names in the directory of images
    Faults,      \* what may fail, see GatewareAssumption
    Unused

\* A process may not be created, and the device of the gateware or a file not
\* be opened.
ASSUME GatewareAssumption ==
    /\ Faults \subseteq {"fork", "config", "file"}
    /\ Kcpfpg \notin Requesters
    /\ "server" \notin Requesters \cup {Kcpfpg}
    /\ Unused \notin {"config", "ram", "kcpfpg"} \cup Files
    /\ Files \cap {"config", "ram", "kcpfpg"} = {}

VARIABLES
    gate,     \* struct tbs_raw: r_fpga, whether there is a tree of registers, whether r_top_register is set, and how many mappings are held
    hooks,    \* who has a callback on a notice
    port,     \* the port data given to the callback of the server
    task,     \* the notice a job will wake, its j_halt
    stored,   \* what is in a file
    waits,    \* clients that are paused
    step,     \* how far the kcpfpg process is
    up        \* the server runs

gatevars == <<gate, hooks, port, task, stored, waits, step, up>>

Server == "server"
Peers == Requesters \cup {Kcpfpg}
Places == {"config", "ram", "kcpfpg"} \cup Files
Tasks == {"upload", "progremote", "kcpfpg"}

\* find_notice_katcp: one that is neither subscribed to nor held is collected.
Pending(n) == hooks[n] # {} \/ \E t \in Tasks : task[t] = n

GatewareInit ==
    /\ gate = [fpga |-> "down", registers |-> TRUE, top |-> FALSE, maps |-> 0]
    /\ hooks = [n \in Places |-> {}]
    /\ port = [n \in Places |-> "none"]
    /\ task = [t \in Tasks |-> Unused]
    /\ stored \in [Files -> {"absent", "whole"}]
    /\ waits = {}
    /\ step = "none"
    /\ up = TRUE

-----------------------------------------------------------------------------
(* The gateware.                                                            *)

\* unmap_raw_tbs
Unmapped(g) ==
    IF g.fpga \in {"mapped", "ready"} THEN [g EXCEPT !.fpga = "loaded", !.maps = @ - 1] ELSE g

\* stop_fpga_tbs: the device is opened, which may fail, only if it is loaded;
\* the registers go all the same.
Stops(g) ==
    LET bare == [Unmapped(g) EXCEPT !.registers = FALSE, !.top = FALSE]
    IN  IF bare.fpga # "loaded" THEN {[gate |-> bare, ok |-> TRUE]}
        ELSE {[gate |-> [bare EXCEPT !.fpga = "down"], ok |-> TRUE]}
                 \cup {[gate |-> bare, ok |-> FALSE] : f \in Faults \cap {"config"}}

\* start_fpg_tbs
FpgStarted(g) ==
    IF g.registers THEN g ELSE [g EXCEPT !.fpga = "loaded", !.registers = TRUE, !.top = FALSE]

\* program_bof and index_bof: the gateware may not get in, and the registers
\* not be indexed, none or not all of them.
BofLoads(g) ==
    {[gate |-> g, ok |-> FALSE]}
        \cup [gate : {[g EXCEPT !.fpga = "loaded", !.top = top] : top \in BOOLEAN}, ok : BOOLEAN]

\* start_bof_tbs: without registers the memory is not mapped, and it may not be
\* with them.
BofStarts(g) ==
    LET loads  == BofLoads([g EXCEPT !.registers = TRUE])
        mapped == {l.gate : l \in {m \in loads : m.ok /\ m.gate.top}}
    IN  IF g.registers THEN {[gate |-> g, ok |-> FALSE]}
        ELSE {[gate |-> l.gate, ok |-> FALSE] : l \in loads}
                 \cup {[gate |-> [m EXCEPT !.fpga = "ready", !.maps = @ + 1], ok |-> TRUE] : m \in mapped}

\* register_cmd: before the memory is mapped the extent to be mapped grows, even
\* if the register cannot be kept because there is no tree.
Defined(g) == IF g.fpga = "loaded" THEN [g EXCEPT !.top = TRUE] ELSE g

\* finalise_cmd with map_raw_tbs, when the memory is not mapped yet.
Mappable(g) == g.fpga = "loaded" /\ g.top

Finalised(g) == [g EXCEPT !.fpga = "ready", !.maps = IF g.fpga = "loaded" THEN @ + 1 ELSE @]

-----------------------------------------------------------------------------
(* Requests.                                                                *)

Free(c) == up /\ c \notin waits

\* run_child_process_tbs, unless there is a job of that name.
Spawn(t, n, started) ==
    /\ IF started THEN task[t] = Unused ELSE task[t] # Unused \/ "fork" \in Faults
    /\ task' = IF started THEN [task EXCEPT ![t] = n] ELSE task

\* A mutant: the port data are kept when there is no job.
LaunchKeeping(t, n, who, started) ==
    /\ hooks' = [hooks EXCEPT ![n] = who]
    /\ Spawn(t, n, started)
    /\ port' = [port EXCEPT ![n] = "live"]

\* The end of an upload request: the notice has got its callbacks.  Without a
\* job the port data are destroyed, and the notice is left as it is.
Launch(t, n, who, started) ==
    /\ hooks' = [hooks EXCEPT ![n] = who]
    /\ Spawn(t, n, started)
    /\ port' = [port EXCEPT ![n] = IF started THEN "live" ELSE "freed"]

Pauses(c, started) == waits' = IF started THEN waits \cup {c} ELSE waits

\* upload_filesystem_cmd: the file is truncated first, and removed if that is
\* all that happens, or if it cannot be opened (create_port_data_tbs).
SaveRemote(c, f) ==
    /\ Free(c) /\ ~Pending(f)
    /\ \/ \E started \in BOOLEAN :
             /\ Launch("upload", f, {Server, c}, started)
             /\ Pauses(c, started)
             /\ stored' = [stored EXCEPT ![f] = IF started THEN "partial" ELSE "absent"]
       \/ /\ "file" \in Faults
          /\ stored' = [stored EXCEPT ![f] = "absent"]
          /\ UNCHANGED <<hooks, port, task, waits>>
    /\ UNCHANGED <<gate, step, up>>

\* upload_bin_cmd, unless there is an upload in progress.  The device may fail
\* to be opened here too.
UploadBin(c, started) ==
    /\ Free(c) /\ ~Pending("config")
    /\ \E s \in Stops(gate) :
          /\ gate' = s.gate
          /\ \/ s.ok /\ Launch("upload", "config", {Server, c}, started)
             \/ (~s.ok \/ "config" \in Faults) /\ ~started /\ UNCHANGED <<hooks, task, port>>
    /\ Pauses(c, started)
    /\ UNCHANGED <<stored, up>>

\* upload_program_cmd does not mind if the gateware is not taken out, and
\* answers at once.
ProgRemote(c) ==
    /\ Free(c) /\ ~Pending("ram")
    /\ \E s \in Stops(gate), started \in BOOLEAN :
          gate' = s.gate /\ Launch("progremote", "ram", {Server}, started)
    /\ UNCHANGED <<stored, waits, step, up>>

\* A mutant: the client of ?progdev is not subscribed.
RunKcpfpgUnheard(who, started) ==
    /\ hooks' = hooks
    /\ started \/ "fork" \in Faults
    /\ task' = IF started THEN [task EXCEPT !["kcpfpg"] = "kcpfpg"] ELSE task
    /\ step' = IF started THEN "start" ELSE step

\* process_name_create_job_katcp, with a notice that has its callback.
RunKcpfpg(who, started) ==
    /\ hooks' = [hooks EXCEPT !["kcpfpg"] = who]
    /\ started \/ "fork" \in Faults
    /\ task' = IF started THEN [task EXCEPT !["kcpfpg"] = "kcpfpg"] ELSE task
    /\ step' = IF started THEN "start" ELSE step

\* progdev_cmd: takes the gateware out, and puts another in if there is a file
\* of a format that it knows.
ProgDev(c) ==
    /\ Free(c) /\ ~Pending("kcpfpg")
    /\ \E s \in Stops(gate) :
          \/ gate' = s.gate /\ UNCHANGED <<hooks, task, waits, step>>
          \/ /\ \E f \in Files : stored[f] # "absent"
             /\ \/ \E r \in BofStarts(s.gate) : gate' = r.gate
                   /\ UNCHANGED <<hooks, task, waits, step>>
                \/ /\ gate' = s.gate
                   /\ \E started \in BOOLEAN : RunKcpfpg({c}, started) /\ Pauses(c, started)
    /\ UNCHANGED <<port, stored, up>>

Register(c) ==
    /\ Free(c) /\ gate.fpga # "down"
    /\ gate' = Defined(gate)
    /\ UNCHANGED <<hooks, port, task, stored, waits, up>>

\* The positions of the registers are fixed up before the memory is mapped,
\* whether there are any or not: without a tree the server is lost.  That the
\* memory cannot be opened or mapped after that changes none of the variables,
\* and has no case of its own; kcpfpg then fails (KcpfpgFails).
Finalise(c) ==
    /\ Free(c)
    /\ Mappable(gate) \/ gate.fpga \in {"mapped", "ready"}
    /\ IF Mappable(gate) /\ ~gate.registers THEN up' = FALSE /\ gate' = gate
       ELSE up' = up /\ gate' = Finalised(gate)
    /\ UNCHANGED <<hooks, port, task, stored, waits>>

\* delbof_cmd
DelBof(c, f) ==
    /\ Free(c) /\ stored[f] # "absent"
    /\ stored' = [stored EXCEPT ![f] = "absent"]
    /\ UNCHANGED <<gate, hooks, port, task, waits, step, up>>

\* A client goes away, paused or not (disown_notices_katcp).
HangUp(c) ==
    /\ up
    /\ hooks' = [n \in Places |-> hooks[n] \ {c}]
    /\ waits' = waits \ {c}
    /\ UNCHANGED <<gate, port, task, stored, step, up>>

-----------------------------------------------------------------------------
(* kcpfpg: uploads the bitstream, repeats the requests of the file and       *)
(* finalises; whatever fails or takes too long ends it.                      *)

KcpfpgUploads ==
    /\ step = "start"
    /\ \E started \in BOOLEAN :
          UploadBin(Kcpfpg, started) /\ step' = IF started THEN "uploading" ELSE "failed"

KcpfpgDefines ==
    /\ step = "uploaded"
    /\ Register(Kcpfpg) /\ step' = "defined"

KcpfpgFinalises ==
    /\ step \in {"uploaded", "defined"}
    /\ Finalise(Kcpfpg) /\ step' = "done"

KcpfpgFails ==
    /\ up
    /\ step \in {"start", "uploading", "uploaded", "defined"}
    /\ step' = "failed"
    /\ UNCHANGED <<gate, hooks, port, task, stored, waits, up>>

KcpfpgStep == KcpfpgUploads \/ KcpfpgDefines \/ KcpfpgFinalises \/ KcpfpgFails

-----------------------------------------------------------------------------
(* Jobs end, and run_notices_katcp calls back: the server first, then a      *)
(* client (upload_generic_resume_tbs).                                       *)

\* The job is deleted, the callbacks are gone and clients go on; the connection
\* of a kcpfpg process ends with the process.
Ended(t) == IF t = "kcpfpg" THEN {Kcpfpg} ELSE {}

Resumes(t, n, more) ==
    /\ waits' = waits \ (hooks[n] \cup Ended(t))
    /\ hooks' = [m \in Places |-> IF m = n THEN {} ELSE (hooks[m] \ Ended(t)) \cup more[m]]

NoMore == [m \in Places |-> {}]

\* kcpfpg is told what came of the upload it waits for.
StepAfter(n, ok) ==
    IF step = "uploading" /\ Kcpfpg \in hooks[n] THEN IF ok THEN "uploaded" ELSE "failed" ELSE step

\* upload_filesystem_complete_tbs: what has not got through is removed.
SaveEnds(ok) ==
    LET f == task["upload"]
    IN  /\ up /\ f \in Files
        /\ task' = [task EXCEPT !["upload"] = Unused]
        /\ port' = [port EXCEPT ![f] = "freed"]
        /\ stored' = [stored EXCEPT ![f] = IF ok /\ @ = "partial" THEN "whole" ELSE "absent"]
        /\ Resumes("upload", f, NoMore)
        /\ UNCHANGED <<gate, step, up>>

\* upload_bin_complete_tbs
BinEnds(ok) ==
    /\ up /\ task["upload"] = "config"
    /\ task' = [task EXCEPT !["upload"] = Unused]
    /\ port' = [port EXCEPT !["config"] = "freed"]
    /\ gate' = IF ok THEN FpgStarted(gate) ELSE gate
    /\ Resumes("upload", "config", NoMore)
    /\ step' = StepAfter("config", ok)
    /\ UNCHANGED <<stored, up>>

\* upload_program_partial_tbs.  An fpg file is left to kcpfpg, and the port data
\* are to be destroyed when that ends.
RemoteEnds(ok) ==
    LET freed == [port EXCEPT !["ram"] = "freed"]
        Give(started) ==
            /\ port' = [port EXCEPT !["ram"] = IF started THEN "none" ELSE "freed",
                                    !["kcpfpg"] = IF started THEN "live" ELSE "freed"]
            /\ Resumes("progremote", "ram", [NoMore EXCEPT !["kcpfpg"] = {Server}])
            /\ task' = [task EXCEPT !["progremote"] = Unused,
                                    !["kcpfpg"] = IF started THEN "kcpfpg" ELSE @]
            /\ step' = IF started THEN "start" ELSE step
        Stay ==
            /\ port' = freed
            /\ Resumes("progremote", "ram", NoMore)
            /\ task' = [task EXCEPT !["progremote"] = Unused]
            /\ step' = step
    IN  /\ up /\ task["progremote"] = "ram"
        /\ \/ (~ok \/ Pending("kcpfpg")) /\ gate' = gate /\ Stay
           \/ /\ ok /\ ~Pending("kcpfpg")
              /\ \E s \in Stops(gate) :
                    \/ gate' = s.gate /\ Stay
                    \/ s.ok /\ (\E r \in BofStarts(s.gate) : gate' = r.gate) /\ Stay
                    \/ /\ s.ok /\ gate' = s.gate
                       /\ \E started \in BOOLEAN : (started \/ "fork" \in Faults) /\ Give(started)
        /\ UNCHANGED <<stored, up>>

\* upload_program_complete_tbs, if it is the server that waits.
KcpfpgEnds ==
    /\ up /\ task["kcpfpg"] = "kcpfpg" /\ step \in {"done", "failed"}
    /\ task' = [task EXCEPT !["kcpfpg"] = Unused]
    /\ port' = IF Server \in hooks["kcpfpg"] THEN [port EXCEPT !["kcpfpg"] = "freed"] ELSE port
    /\ Resumes("kcpfpg", "kcpfpg", NoMore)
    /\ step' = "none"
    /\ UNCHANGED <<gate, stored, up>>

-----------------------------------------------------------------------------
(* The specification.                                                       *)

UploadEnds == \E ok \in BOOLEAN : SaveEnds(ok) \/ BinEnds(ok)
ProgRemoteEnds == \E ok \in BOOLEAN : RemoteEnds(ok)

GatewareNext ==
    \/ \E c \in Requesters :
          \/ \E f \in Files : SaveRemote(c, f) \/ DelBof(c, f)
          \/ \E started \in BOOLEAN : UploadBin(c, started) /\ step' = step
          \/ ProgRemote(c) \/ ProgDev(c)
          \/ Register(c) /\ step' = step
          \/ Finalise(c) /\ step' = step
          \/ HangUp(c)
    \/ KcpfpgStep
    \/ UploadEnds \/ ProgRemoteEnds \/ KcpfpgEnds

\* The process of an upload sets itself an alarm, and kcpfpg waits for no
\* answer for ever: processes end, and the loop gets to know.
GatewareFairness ==
    /\ WF_gatevars(UploadEnds) /\ WF_gatevars(ProgRemoteEnds)
    /\ WF_gatevars(KcpfpgStep) /\ WF_gatevars(KcpfpgEnds)

GatewareSpec == GatewareInit /\ [][GatewareNext]_gatevars /\ GatewareFairness

-----------------------------------------------------------------------------
(* Properties.                                                              *)

GatewareTypeOK ==
    /\ gate \in [fpga : {"down", "loaded", "mapped", "ready"}, registers : BOOLEAN, top : BOOLEAN, maps : Nat]
    /\ hooks \in [Places -> SUBSET (Peers \cup {Server})]
    /\ port \in [Places -> {"none", "live", "freed"}]
    /\ task \in [Tasks -> Places \cup {Unused}]
    /\ stored \in [Files -> {"absent", "partial", "whole"}]
    /\ waits \subseteq Peers
    /\ step \in {"none", "start", "uploading", "uploaded", "defined", "done", "failed"}
    /\ up \in BOOLEAN

Runs(t) == task[t] # Unused

\* The callback of the server on a notice that a job will wake has port data
\* that have not been freed, and port data are freed unless there is one:
\* through every early return of the uploads, and where ?progremote hands them
\* on to the callback of another notice.
PortExact ==
    \A n \in Places : port[n] = "live" <=> Server \in hooks[n] /\ \E t \in Tasks : task[t] = n

\* A file is incomplete only while it is being saved.
FilesWhole == \A f \in Files : stored[f] = "partial" => task["upload"] = f

\* The memory is mapped exactly if r_fpga says so, and then the registers are
\* known: no request unmaps it twice, or maps it again and leaks the first.
MapExact ==
    /\ gate.maps = IF gate.fpga \in {"mapped", "ready"} THEN 1 ELSE 0
    /\ gate.fpga \in {"mapped", "ready"} => gate.registers

\* A client that is paused waits for a notice that a job will wake, and for no
\* other; and no job wakes a notice whose client is not paused.
WaitsServed ==
    /\ \A c \in waits : \E t \in Tasks : Runs(t) /\ c \in hooks[task[t]]
    /\ \A c \in Peers : \A t, u \in Tasks :
          Runs(t) /\ Runs(u) /\ c \in hooks[task[t]] \cap hooks[task[u]] => c \in waits /\ t = u

\* All that uploads and programming take is accounted for: port data, files,
\* the mapping and paused clients, whatever fails, whoever goes away, and with
\* the requests of clients in between those of kcpfpg (upload.c, raw.c).
Accounted == PortExact /\ FilesWhole /\ MapExact /\ WaitsServed

\* Each ?saveremote, ?uploadbin and ?progdev is answered in the end, unless the
\* server dies (upload_generic_resume_tbs).
TransferAnswered == \A c \in Requesters : c \in waits ~> c \notin waits \/ ~up

=============================================================================

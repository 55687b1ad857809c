# Formal models of the katcp library

katcp is a line protocol for instrument control: requests (`?name`), replies
(`!name`) and informs (`#name`) over TCP. The library under `src/katcp/` is a
single-threaded server core that programs such as `tcpborphserver3` and `kcs`
link against. This directory holds TLA+ models of that core, the TLC runs that
check them on small instances, and TLAPS proofs that hold for every value of the
constants. `PROJECT.json` has the machine-readable index: which definition models
which lines, which run checks which property, which code hazards each property is
there for, and for each property a mutated definition that breaks it.

Every definition follows the C code. Names are those of the code where TLA+ allows
them (`j_sendr`, `e_refcount`, `s_busy`). The build modelled is the one of
`src/Makefile.inc`: `KATCP_CONSISTENCY_CHECKS`, `KATCP_HEAP_TIMERS`,
`KATCP_SUBPROCESS`, `KATCP_EXPERIMENTAL` and `KATCP_DEPRECATED` are defined, `DEBUG`
is not.

## 1. The system

One thread runs `run_core_loop_katcp` (server.c). Each turn fills descriptor sets
(the `load_*` functions), sleeps in `pselect()` unless something has called
`mark_busy_katcp`, and then runs, in this order: waiting for children, timers,
duplex connections, endpoints, clients, jobs, notices, arbitrary descriptors, new
connections. There are no locks. What makes the code hard is that all its parts
call each other back inside one turn: a callback may add to or remove from the very
table that is being walked, things are shared by hand-kept reference counts, and
what is left over at the end of a turn has to make `pselect()` return or it is
forgotten.

| Component | State | Operations | Hard behaviour | What makes it correct |
|---|---|---|---|---|
| Parse queue (queue.c), messages (parse.c) | ring `q_queue/q_head/q_count/q_size`; `p_refs`, `p_state` | add, remove, clear, destroy; create, copy, reuse, destroy | growth by one slot while the content wraps; sharing by count | first in first out; counts exact; a queued message is not overwritten |
| Generic queue (generic-queue.c) | ring `g_*` | add, remove head, remove from the middle, clear | two ways to close a gap, either side of the wrap | the others keep their order |
| Endpoints (endpoint.c) | list `s_endpoints`; state, count, queue, precedence; messages | create, send, reference, turnaround, flush, release, run | callbacks that send, create and release during the walk; collection | no dangling reference; every request comes back; no sleep on a message |
| Jobs (job.c) | `j_state`, queue of notices, `j_sendr`, `j_recvr`, line, pid | submit, send, field, acknowledge, drain, wait, stop | many ways to end; replies matched by position; a request behind a request | each requester woken once, with its own reply or a failure |
| Notices (notice.c, map.c) | `s_notices`, `n_vector`, `n_use`, `n_trigger`, `n_queue`; back links `d_notices` | create, watch, wake, hold, release, run, disown | subscribers removed under the loop; collection; resumed clients | each subscriber called once; both directions agree; whoever waits is resumed |
| Dispatch, clients (dispatch.c, shared.c) | `s_clients`, `d_pause`, `d_run`, modes, command lists | read, look up, call, pause, resume, release, mode change | release moves another client into the slot; paused input | a resumed client's input is handled |
| Main loop (server.c, loop.c) | `s_busy`, descriptor sets | load, select, run, accept | when to skip the sleep | never sleeps on work it could do |
| Timers (ts.c, heap.c) | binary heap of timers, found by data | register, adjust, disarm, load, run | timers changed in place, disarmed ones left in the heap | heap order; the loop does not sleep past a timer |
| Sensors (nonsense.c) | acquires, sensors, shadows per client with their strategy | declare, sample, force, set, poll, destroy | several clients share one timer; a change of strategy by one affects it | polled at the shortest period needed; changes are told |
| Lines and parser (line.c, parse.c) | output queue, staged bytes; input message and parser state | append, write, read, parse, exchange of the parse | any split of the bytes between reads and writes | what arrives is what was sent |
| Duplex connections (dpx-core.c, dpx-forward.c) | flats with two endpoints, slots of response handlers, deferred requests | relay, answer, defer, cancel, break, terminate | two hops, connections that end in between, too few slots | a reply for every request, the right one |
| Trees (avltree.c) | nodes with parents and balances | add, find, delete, walk | balances are updated, never computed | sorted, balanced, complete |
| Tap devices (tcpborphserver3/tg.c) | DHCP state, its counters and notice; table of neighbours with a wrapping counter | poll, receive, ask, stop; sweep, glean, announce | late, lost and repeated answers; wrap | clients are answered; leases are not outlived; every neighbour is seen to |
| Registers (tcpborphserver3/raw.c, bytebit.c) | table of registers, mapped memory | `?register`, `?read`, `?write`, `?wordread`, `?wordwrite` | a register starts and ends at any bit, memory is accessed in words | exactly the bits meant are read or changed |
| Uploads and gateware (tcpborphserver3/upload.c, raw.c, subprocess.c, loadbof.c; fpg/fpg.c) | `r_fpga`, the tree of registers, the mapping; notices, port data, jobs, files; how far kcpfpg is | `?saveremote`, `?uploadbin`, `?progremote`, `?progdev`, `?register`, `?finalise`, `?delbof`; the ends of the processes | many ways out half way; a program the server runs is in turn its client; callbacks shared by the server and a client | port data, files, mapping and paused clients are accounted for; whoever waits is answered |
| Variables, database, other containers | trees, stacks | sequential | none beyond data structure code | unit tests |
| Other programs (kcs, cmd, con, monitors, ...) | | | users of the library | not modelled |

Interactions: a client's request may start a **job**, whose end wakes a **notice**,
whose callback resumes the **client** (`d_pause`) and leaves a reply to be written.
**Timers** wake notices, poll **sensors** and run the tap devices, whose DHCP client
wakes notices too. Notices keep messages in **parse queues**; endpoints keep theirs in
**generic queues**; **duplex connections** talk only through **endpoints**; clients, jobs
and flats read and write through **lines**. All share `s_busy` and the descriptor sets.

## 2. Modules

| Module | Models | Composition |
|---|---|---|
| `Fifo` | what a queue promises: order, no loss, no duplication (`Spec`; `SpecAny` allows removal from the middle) | abstract specification |
| `Ring` | the ring both queues share: growth with rotation, storing, removal at the head and on either side of the wrap | operators only |
| `ParseQueue` | queue.c and the life of a `struct katcl_parse` | extends `Ring`, refines `Fifo!Spec` |
| `Gueue` | generic-queue.c | extends `Ring`, refines `Fifo!SpecAny` |
| `Endpoint` | endpoint.c with the part of the main loop that runs it | queue as a sequence, justified by `Gueue` |
| `Job` | one job of job.c, its line, its peer and its subprocess, with the main loop | notices as outcomes |
| `Notice` | notice.c with everybody who touches notices in a turn: timers, clients, jobs, the accepting of connections | jobs as far as notices see them |
| `Heap`, `Timers` | heap.c; the timers of ts.c on it | operators only; `Timers` extends `Heap` |
| `Sensors` | nonsense.c with the part of the main loop that runs timers | extends `Timers` |
| `Line` | writing and reading of messages (line.c) and the parser (parse.c), over one or two connections | queue as a sequence, justified by `ParseQueue` |
| `Duplex` | flats and what they relay (dpx-core.c, dpx-forward.c) | endpoints as queues, justified by `Endpoint`; lines as sequences, justified by `Line` |
| `Avl` | avltree.c | |
| `Dhcp`, `Arp` | the DHCP client and the address table of a tap device (tg.c) | `Dhcp` has the notices its clients wait for |
| `Registers` | registers of the gateware in mapped memory (raw.c) with positions in bytes and bits (bytebit.c) | |
| `Gateware` | uploads and the programming of the FPGA (upload.c, raw.c), with kcpfpg (fpg.c) | notices and jobs by what `Notice` and `Job` show of them |
| `*Proofs` | theorems about `Ring`, `ParseQueue` and `Gueue` (`QueueProofs`), `Endpoint`, `Job`, `Notice`, `Gateware`, `Arp` and `Dhcp` (`TapProofs`), `Duplex`, `Heap` to `Sensors` (`SensorProofs`) | extend those modules |
| `MC*` | the instances TLC checks | `MCLibrary`, `MCServers`, `MCLoop`, `MCLive`: several components side by side |

`MCLibrary`, `MCServers`, `MCLoop` and `MCLive` put components next to each other that share no
state: a behaviour uses one of them and leaves the others in their initial state, so that the
states to check are the sum and not the product of theirs. The components lose nothing by
it: `LibraryNext` offers all steps of each.

**Ring, ParseQueue, Gueue.** A ring is a record of `size`, `head`, `count` and the
function `slot`. `Grown` is the reallocation by one slot with its rotation
(queue.c:147-174), `RemoveHead` the clearing of the first slot and the advance of the head, `RemoveAhead` and `RemoveBehind` the two `memmove()`s of
generic-queue.c:290-326. `realloc()` failing is the bound `MaxSize`: the operation
then returns an error and leaves the queue as it was. In `ParseQueue` the users of
the queue hold `held[p]` references outside it; `CopyParse`, `DestroyParse` and
`ReuseParse` have the code's guards on `p_refs` and `p_state`. queue.c:277 computes
the end of the window without reducing it modulo the size, which is wrong for an index
other than the head of a wrapped ring; all callers pass the head, so only that case is
modelled (generic-queue.c has the reduced form, and there all cases are).

**Endpoint.** `at` is the place in the main loop: the functions outside endpoint.c
("load", "run") and the wake callback ("call") may create, send, reference, forget,
close or release endpoints; `run_endpoints_katcp` walks the list with its saved
pointers `ep` and `msg`. `Flush`/`Flushed` are the steps of a release, during which the
endpoint turns its remaining requests around. `ReturnOwn`, `ReturnResult` and
`ReturnLater` are what a callback may return. Handlers are otherwise arbitrary.
`close_sending_endpoint_katcp` has no caller and is left out. Messages and queue slots
can always be allocated.

**Job.** `j_state` follows JOB_STATE_*; `DELETED` is the freed job. `RunNext` is one
pass of `run_jobs_katcp` in its order: connect, read, field, write, finish. The peer
and the kernel are separate actors (`Peer*`, `ChildExit`), and the peer may send
requests, stray replies and `#return` unasked (bound `Budget`), close, or fail. What the
peer asks for is answered by handlers run from `run_notices_katcp`, in the same turn
(`Acknowledge`). Requests and messages are whole; the ring of job.c (63-179) is a copy
of the one in `Ring` and a sequence here. Left out: informs, `j_code`, allocation
failure, a failing `fork()`, two jobs with one name. `Zap` is `?job stop`, which runs
before `run_jobs_katcp`; a zap out of a notice callback with nothing to flush would not
make the loop return, but there is none in the library. `WaitJobs` may overtake output
of the subprocess that has not been read: the requester is then told of a
disconnection, which is what the code does.

**Notice.** A turn of the loop goes through `pc` = select, timers, visit/read/dispatch
(each client), jobs, notice/call/leave (each notice), accept. A subscription is an entry
of `vector[n]` with its client and its callback: `resume` (`resume_notice` and
`subprocess_resume_job_katcp`), `match` (`?job match`), `relay` and `log` (the relays of
a job's informs, which stay subscribed). `links` is the client's back link `d_notices`,
`use` the count of holders. A job has one halt notice and one notice in its map. The
number of requests read and not handled stands for the input, and whether there is
output for the output; logging counts as no output, so that what must wake the loop is
not left to a log message. Left out: triggers of a single subscriber (no caller),
renaming and `remove_notice_katcp` (used by kcs only), `d_end` (never set), modes,
`?quit`, `?halt` and the shutdown of the server, allocation failure.

**Timers, Sensors.** The functions of ts.c are operators on a record of the heap and the
timers, so that `reload_sensor_katcp`, which may register, adjust or disarm, is one
expression, and a handler that releases several things is their composition. Times are
relative to the clock. `phase` is the place in the main loop: timers are loaded, clients may
go, the loop waits, one timer is run and requests are handled. `RunAcquire` has the limit
on how often the function of an acquire is called (`recent`). An acquire's timer is found by
its data; a notice may have several, one for each `?notice wake` with a delay (`SetAlarm`).
Callbacks of timers change no timers, as none in the repository does. Left out: the differential
strategy, value types (one stands for all), the text of reports, the sensors of a
subprocess, timers found by name, periodic timers of notices, a clock that steps back.

**Line.** Characters are the ones the automaton tells apart: escapes and what they stand for,
separators, tags, digits, and the rest. `Copied` is the copying into the buffer with its
escapes, `Write` a partial write, `Read` a partial read, `Parsed` the automaton of
`parse_katcl` with its marks (`kept`, `used` and the end of what has been read), `Remainder` the exchange of
the parse when a message is complete. A chain of two connections has the owner of the
middle lines relay each message. Left out: accounting of descriptors, passing of
descriptors, truncation.

**Avl.** A name is its node; what the C code writes twice, for left and right, is written
once with the side as a parameter. Freeing and printing of whole trees are left out.

**Duplex.** A client's flat defers further requests while one is outstanding, relays one to
the flat of the upstream server and keeps in a slot whom to answer; the upstream flat does
the same on its side. `Setups` are the configurations: names of requests, number of slots,
deferred requests allowed. Flats break (the connection is lost), or are terminated
and flush. Left out: groups, scopes and searches, handlers other than the relay, listening.
Memory does not run out.

**Dhcp, Arp.** An action of `Dhcp` is a poll of the device (`Poll` with the state machine's
step), a frame arriving, a request of a client, or the run of the notices that were woken.
Of a transaction id only matters whether it is the latest, so that answers may be late,
repeated or lost. Servers send no times for renewal (options 58 and 59), and leases are
longer than the interval between two steps of the machine. `Arp` has the sweep through the
table, its counter modulo `Wrap`, and what is learnt from others.

**Registers.** A bit of memory, or of what is read, is the set of places its value comes from:
a shift moves these sets, an or unites them, a masked bit is empty. One request so shows what
becomes of all contents of memory. `Written`, `Joined` and `ShiftedWord` are the loops
over words, `MakeBB`, `WordNormalised`, `AddBB` and `Exceeds` the arithmetic of bytebit.c with its
marks of alignment (which decide what is normalised again). The gateware changes memory between requests
(`Renamed`). The build is that of the ROACH's PowerPC: most significant bit first, shifts by 32
give 0. Left out: clobbering a register, images that are not mapped yet, register offsets of
more than a word (raw.c:2463 then adds words as if they were bytes, and no such definition is
known), bus errors.

**Gateware.** `hooks[n]` says who has a callback on a notice that is named after where an upload
goes, `task[t]` which notice a job will wake, `port[n]` whether the data given to the server's
callback are still there, `gate` what `struct tbs_raw` says of the FPGA. A request is one
action up to its pause or reply; `Launch` is the end of each upload, with what is left behind when
there is no job. The end of a job and the callbacks of its notice are one action, since they
happen in one turn with no request in between. `Kcpfpg*` are the steps of kcpfpg, which sends
its requests through the same actions as any client. `up` becomes false where the server
dereferences a tree that is not there. Left out: locks (they only refuse requests), the options
and data of the transfers, tap devices that are stopped along the way, where registers are in the mapping (their positions are fixed up
before `map_raw_tbs` opens and maps the device, and once more if that fails and `?finalise` is
repeated, raw.c:2717), builds for PowerPC, which map without fixing positions up, and a `?notice wake`
of a notice that was left behind, whose callback then uses port data that have been freed.

## 3. Runs

| Run | Instance | Checks |
|---|---|---|
| `library` | queues: 3 messages, up to 5 slots; lines: 1 or 2 connections, 2 messages, a foreign text; trees of up to 10 names; an address table of 2 neighbours | exact reference counts, no reuse of a queued message, refinement of `Fifo` by both queues; what arrives is what was sent, and all of it, without overrunning a buffer; trees balanced and searched right; no neighbour missed |
| `endpoint` | 2 connections, 1 sensor, 2 messages | dangling references, queues, no sleep on a message, every request answered |
| `live` | 2 connections, 2 messages; 2 clients, kcpfpg, 1 file, processes and the device may fail | every message is dealt with; port data, files, mapping and paused clients accounted for, every transfer answered |
| `endpointprecedence` | as `endpoint` | **violation**: requests do not wait for other messages |
| `job` | 2 requesters and 1 message of the peer, or 1 and 2; halt notice | one request outstanding, own reply, nobody forgotten, woken once, no sleep on work; the requester is told something, what was received is handled |
| `jobterminating` | 2 requesters | **violation**: a terminating job sends requests |
| `notice` | 2 clients, 1 name, 1 job, 4 requests or informs; 1 sensor, 2 clients, 2 timers of a notice | links exact, nothing dangling, each subscriber called once, no sleep on work; heap order, armed timers have an acquire to run, shortest period, changes told, no sleep past a timer |
| `noticelive` | 2 clients, 1 name, 1 job, 2 requests or informs | whoever waits for a notice that is triggered or held is resumed; buffered requests are handled after resuming |
| `noticepaused` | 2 clients, 1 name | **violation**: a paused client that waits for nothing |
| `sensorrearm` | the sensor of `notice` | **violation**: a sensor that has to be polled and whose timer is disarmed |
| `servers` | 2 clients and an upstream server, 2 requests, 1 connection that ends, 3 setups; 2 clients that ask for a lease; a register in 6 words | requests in one place, answered once, with the right answer, and eventually; DHCP clients answered, truly; leases not outlived; the bits meant, no others, are written and read |
| `registersread` | a register in 6 words | **violation**: reads of several words that do not start at a word |

**Why the bounds are enough.** A ring of four slots grows at every position of the head,
wrapped or not, with a second growth on top; five slots give a removal from the middle
entries to move on both sides of the wrap. Three endpoints are the three kinds there are
(slow, fast, without a wake function), two messages let a request meet its own reply and a
second request. For `job`, two requesters are one being answered and one queued behind it;
two unasked messages give a request behind a request, and a stray reply with
another one following; the joint bound `MCEffort` excludes two of each. Two clients and a
job are enough for a vector with two clients'
entries and one of the template, a table that is full, and a client that leaves while it
is subscribed; four requests make a client subscribe twice and be paused with
input left. Two requests are enough for liveness: one that starts a subprocess and waits for
it, and one behind it.

A buffer of six characters and a margin of three are the smallest that hold an escape in
any position next to the limit; the two messages have empty arguments and escapes at
either end, and more characters than fit. Trees of ten names have removals that rebalance at
two levels, in every shape that can be reached. Three timers give a heap entry two
children; periods 1 (events) and 2 give timers of one acquire and of others a different
order before and after an adjustment; the joint bound `Effort` excludes two clients that
sample together with two other timers. Those are of one notice, since nothing in ts.c
tells timers of two notices from two of one. Two clients that relay give two requests of one
name, a deferred request and a full table of slots; one ending connection is that of a client or
of the server. Two clients that ask for a lease are one that waits and one that
replaces it. The address table has four places, of which two are neighbours, and a counter
that wraps at 32, the smallest multiple for which the rates satisfy `ArpAssumption`. Registers have
bytes of two bits (`Byte`; the code's 8 is only ever a factor), so that every offset in a word and
lengths up to two words and more are tried at every start.

The counters that are bounded for TLC (`MaxSize`, `MaxHeld`, `Budget`, `MaxLoad`, `MaxLate`, `MaxAlarms`,
`MaxSent`, `MaxEnded`) are constants, and the theorems hold for every value of them.
The device's retries are one in `servers`, and a lease seven or nine polls at an
interval of six: before, at and after a renewal.

**Deadlock** is checked except in the runs of `Job`, where a deleted job really stops, and in
`servers`, where clients that have sent their requests and got their answers do, and `live`,
where the server may die (`up`).

**Fairness.** The loop keeps going: one thread, no lock, callbacks return.
- `Endpoint`: weak fairness of the loop, strong fairness of a handler dealing with a
  message in a visit (`Handle`), which excludes only handlers that put the same message
  off for ever. Nothing is assumed of clients.
- `Job`: weak fairness of the loop; strong fairness of `Select` and `WaitJobs`, because
  other work interrupts or skips `pselect()` only now and then (only the first turn of a
  busy run skips it); the peer completes or refuses connections and handles what it is
  sent; a subprocess that has closed its side exits. Nothing makes the peer close or send
  anything unasked.
- `Notice`: the loop runs, but sleeps in `pselect()` unless output, a timer or a job is
  due; strong fairness of `Write` (clients read their sockets), `TimerFires` (timers run
  out) and `JobFinish` (jobs end). Clients need not send anything, so nobody is woken by
  a request that may never come.
- `Duplex` (`LoopFairness`): endpoints are run, lines are written, and the upstream server
  answers what it has been asked. Nobody needs to connect, to ask or to go.
- `Dhcp`: weak fairness of the turns of the loop and of the callbacks of woken notices,
  strong fairness of `Poll`: the timer of a device is not due in every turn, but time and
  again. Servers need never answer.
- `Gateware`: weak fairness of the ends of uploads and of kcpfpg. The process of an upload sets
  itself an alarm, anew with each piece it gets (upload.c:158, 224), and senders are taken to come to an end;
  kcpfpg waits for no answer for ever (fpg.c:68). Clients need not ask or go.

## 4. Where code and words disagree

- `endpointprecedence`: endpoint.c:308 says requests are handled after other work; both
  precedences are defined as 0 (endpoint.c:18), so the oldest message is always taken.
- `jobterminating`: the `switch` at job.c:838 logs "not sending request, job is
  terminating", but its `break` leaves only the `switch`, and the request is sent.
- `noticepaused`: `add_notice_katcp` (notice.c:492) does not compare the client when it
  looks for duplicates. The second client that watches a notice is paused (katpriv.h:876:
  "waiting for a notice") without being subscribed, and nothing resumes it.
- `sensorrearm`: the comment at nonsense.c:3209 says "we need timers, replace old with new
  if necessary". A client that stops sampling disarms the timer, which stays in the heap
  until it is due; one that starts before that adjusts it (ts.c:1313), which does not arm
  it: the sensor is polled no more.
- `registersread`: the comment at raw.c:1572 says "start at bit offset, read arb bytes and
  bits => shift, then copy". The loop carries over bits of the word it has put together, not of
  the word in memory (raw.c:1600; `word_read_cmd` does the latter, raw.c:1368), so that of a
  `?read` that does not start at a word only the first word is right.

Observed, but stated nowhere and so not checked:
- When a command run as a subprocess sends informs and ends within one turn, its reply is
  sent before the relayed informs, because its halt notice comes first in `s_notices`
  (job.c:2023); `set_parse_notice_katcp` drops messages queued for a notice.
- Replies to relayed requests are matched by name and sender; with two of one name under
  way the issuers get each other's (dpx-core.c:1157). `OwnAnswers` is about distinct names.
- A flat that is torn down forgets the issuers of what it has relayed (dpx-core.c:858).
  `Answered` excludes clients of an upstream server that goes.
- A tap device that is stopped forgets the client that waits for its lease (tg.c:1685), and
  a notice woken just before reads a device that has been freed.
- The times for renewal are worked out only while they are zero (tg.c:3546): a lease shorter
  than the first one is held too long. `LeaseTimed` is about the others.
- A `?read` whose last bits cross the end of a word takes a word too many, and the consistency
  check aborts the server (raw.c:1625): the outcome `abort` of `ReadCmd`.
- A `?write` of more than a word that does not start at one is wrong, as the comment at raw.c:1138
  says; `TransfersExact` is about the others.
- An upload that finds no way to run its process leaves its notice behind, subscribed and with
  nobody to wake it ("we need to cancel notice somehow ?", upload.c:689): from then on all uploads
  to that place are told that another one seems to be in progress (upload.c:638). It takes a
  `?uploadbin` while a `?saveremote` runs, since both jobs are called `upload`; so kcpfpg fails
  too while a file is saved.
- A `?saveremote` that is refused that way has truncated the file before, and removes it; one whose
  file cannot be opened removes it as well (upload.c:122).
- `?progdev` of a bof file while a `?uploadbin` runs makes the latter end without a tree of its own ("already
  programmed", raw.c:2816), and it is answered with ok all the same.
- If the device cannot be opened to take gateware out, the registers are gone but `r_fpga` stays
  (raw.c:2776): `?register` then sets the extent to be mapped, and `?finalise` dereferences the tree
  that is missing (raw.c:2717). `up` of module Gateware.
- A sweep of the address table that is started afresh again and again does not get to the
  end of the table (tg.c:2287); `NeverMissed` takes it to happen once per sweep.

## 5. Proofs

All are checked by TLAPS, with no assumption besides the `ASSUME`s of the modules
(bounds are natural numbers, clients and jobs are finitely many, `NULL` is neither an entry nor a
message nor a notice, `Nothing` is no value of a field of a sensor and there are timers for everybody, a client is not the template, a job's notices are its own; of `Arp`,
numbers are natural and what is ahead is less than half of `Wrap`; `NULL` is no handler of a flat), which TLC evaluates in every run.

- **`QueueProofs`**: first what each ring operation does to `Items(r)`, the sequence of the
  entries in the window: adding appends, growing changes nothing, removing at any position
  removes that element, and each keeps the shape. The argument is about positions modulo
  the size (`ModWrap`, `SlotWrap`), with a case for either side of the wrap. Then of the parse
  queue `QueueInvariant`, from which `TypeCorrect`, `ShapeKept`,
  `RefsCounted`, `FreedWithLast`, `QueuedSafe`; and `ImplementsFifo`, the refinement. The
  inductive invariant is the conjunction of the five: that a queued message is complete
  needs its count to be exact (or `ReuseParse` could clear it), and exact counts need the
  shape of the ring (or `Items` would miss an occurrence). `Occurrences` lemmas count how
  often a message is in the queue. Of the generic queue `GueueInvariant` and `GueueOrder`, the
  refinement of `Fifo!SpecAny`.
- **`EndpointProofs`**: `EndpointNotFreed`, `EndpointQueues`, `EndpointSleeps`,
  `EndpointTypeCorrect` and the action property `EndpointAnswers`, for any number of endpoints
  and messages. `EndpointInv == Data /\ Loop`. `Data` has the queues as sets of messages
  (`Queued`: they are those addressed to the endpoint), so that a message that moves from one
  queue to another changes two sets and two counts by one each, and what the counts rest on:
  both ends of a message are listed and differ (`Proper`: it would be counted twice), what is
  not up does not send (`Flagged`), what is held is listed once (`Linked`). `Loop` says where
  the loop is: the endpoint it visits is in the list, the message its callback has is in the
  queue, an endpoint being flushed is up. Without it a callback that releases or creates
  endpoints could leave the loop with one that is gone.
- **`JobProofs`**: `JobInvariant` with
  `Inv == TypeOK /\ Rests /\ OneOutstanding /\ OwnReply /\ NobodyForgotten /\ Idle`, hence
  `JobTypeCorrect`, `JobOneOutstanding`, `JobOwnReply`, `JobNobodyForgotten`, `JobSleeps`; and
  the action property `JobWokenOnce`. `OwnReply` rests on `OneOutstanding` (the only reply under
  way belongs to the head of the queue, since replies are not compared with requests), that on
  the counter `j_sendr` in `TypeOK`; `Rests` keeps a deleted job from being touched. `Idle` is what
  the stages of a turn leave for `load_jobs_katcp`: a job that is done does not reach it, one
  that drains has output, input is left only behind a request yet to be answered. For any
  number of requesters and of messages of the peer.
- **`NoticeProofs`**: `NoticeNotDangling`, `NoticeLinksExact`, `NoticeEachOnce`, `NoticeSleeps`
  and `NoticeTypeCorrect`, for any number of clients, notices and jobs. The invariant
  `NoticeInv` adds to these what none of them says and all rest on:
  - `Shaped` and `Alone`: an entry is in a vector once, and who asks to be called again has no
    other entry there. `dispatch_compact_notice_katcp` forgets all references of a client when one
    of its entries is done; that is right only if the client's other entries go in the same run.
    `InCall` says so in the middle of a run: a client that has lost its references has only entries
    yet to be called, and none that stays.
  - `Waiting`, `Halting` and `Relayed` are why `Alone` holds: a client waits for one notice at a
    time; nobody but the job wakes the notice without a name that ends a subprocess; and informs of
    the job are relayed to a client only while it waits for that end, or until the job's last
    message, which takes every relay off the vector before the client's next request is handled.
  - `Untriggered` (what the loop over the notices has passed is not triggered again before the loop
    sleeps: callbacks wake nobody) and `Reminded` give `NoticeSleeps`; `Placed` places clients and
    jobs.

  That removing a client's entries one by one leaves exactly the others is a statement about a
  recursive function. `Least` and `UpTo` prove induction up to a number as a fact about sets, from
  the well-foundedness of finite subsets, which takes no operator as a parameter; `Compacted` is
  unrolled with it.
- **`GatewareProofs`**: `GatewareAccounted` and `GatewareTyped`, for any number of clients that
  upload, program and register. `GatewareInv == GatewareTypeOK /\ JobsOwn /\ Accounted`:
  `Accounted` is nearly inductive, but needs that a job wakes a notice of its own kind, or the
  end of one job could answer the clients of another.
- **`TapProofs`**: `ArpNeverMissed`, `DhcpLeaseTimed` and the action property `DhcpToldTruly`, for
  tables, counters, rates, times and clients of any size. `Arp`: `InTime` bounds how late an
  entry may be by the distance the sweep has gone since it passed, which depends on whether the
  entry is behind the sweep, ahead of it, or ahead of one that has been started afresh; so the sum of
  two sweeps is never exceeded. All differences are modulo `Wrap` (`Late`, `Lateness`, `MadeDue`,
  `OneLater`): that nothing overdue is taken for what is far ahead is what the `ASSUME` about
  `Ahead` is for. `Dhcp`: `Timed` ties the timer of a bound machine to the age of the lease and
  to the count of polls, but only if `Renewing` (a machine without a lease starts with the timer at
  zero, or is about to start over) and `FirstLease` (the times for renewal are computed once, from the
  first lease) hold in the states without one. `Truly` says that a client is called in the turn
  in which it is woken, with the device as it was then.

- **`DuplexProofs`**: `RequestInOnePlace` (`OneOutside`) and `RequestsAnsweredOnce`
  (`Conserved`), for any number of clients, slots and requests. `DuplexInv` is `Places`, `Ends`
  and, for each client, `Client`. `Places` says which messages can be where: what is queued for
  the peer of a client comes from its own connection or is a reply of the relay, a slot of the
  upstream flat is held for the peer of the client whose request it keeps. Without it a reply
  counted for one client could be the answer to another. `Client` has the two hops and the
  ledger. `Hop` counts: a request is asked, awaited or answered, one at a time (`OneOutside`),
  and at the second hop it is relayed, upstream or returning, never more often than it is awaited
  at the first. After the client has closed its peer or upstream has gone only this bound is left,
  and it is enough. `Relaying(c) + Upstreaming(c) <= 1` holds also for a client that has gone, whose
  connection can no longer be counted: so when the upstream flat is torn down, `Released` turns
  at most one request per client round. `Num` counts the positions at which a sequence has
  a message of a set; its lemmas say what appending and taking the first message do, and `Passed`
  joins both into what a callback does to all queues at once.

- **`SensorProofs`**: `FirstTimerFirst` (`Ordered`), `ArmedTimersLive` (`ArmedLive`),
  `PolledAtShortest` (`PollsFastest`), `ChangesReachClients` (`ChangesChecked`) and the action
  property `LoopWakesInTime` (`SleepsInTime`), for any number of acquires, sensors, clients and
  timers. `SensorsInv == WorldOK(World) /\ NotForced(World) /\ Loop`, in four layers:
  - The heap. A cascade is a step (`Risen`, `Sunk`) repeated as often as the heap has entries.
    While an entry rises, only it may be less than its parent, and its children are not less than
    its parent (`UpOK`); while it sinks, only its children may be less than it (`DownOK`). Each step
    keeps that and moves the entry or leaves it for good, so that after as many steps as there are
    entries it rests, whichever way its key has changed (`UpdateNodeOnHeap`).
  - The timers, `TimersOK`: what is in the heap is what is allocated, once each, in order, and
    no acquire has two (`OneEach`), nor are there more of the others than the bound allows (`Few`).
    Disarming and adjusting need the first (or `FirstPlace` would find one of two), registering needs
    the second to find a free address (`Room`), and collecting takes only what is disarmed.
  - The acquires, `AcquireOK`. `TimersSound`: a timer is not further away than its interval, and
    armed only for an acquire that has pollers. `Paced`: the count of pollers is that of the shadows
    that poll, and the timer runs at the shortest of their periods. `Told`: if nothing polls, who waits
    for changes knows the value. The properties of the runs follow from these; the
    invariant says them of all acquires at once, since a reload changes the heap everybody's timers are in.
  - `Shape` (sensors have an acquire, shadows a sensor) and `NotForced` (the strategy of a
    `?sensor-value` lasts only for the request: `Reload` passes nothing on if it finds no other).

  An operation on one acquire is shown to leave the other acquires, sensors and shadows alone, so that
  of `AcquireOK` only its own has to be shown again. Timers may run in any number in a turn: what
  a loop over them does is unrolled with `Least`, as in `NoticeProofs`. The theorems assume that there
  are at least as many addresses for timers as there are acquires and, by `MaxAlarms`, timers of
  notices, because the model has no failing allocation, and that `Nothing` is no value of a field.

The invariants contain the type invariants and the shapes of the rings, which are proved and
for that reason not among the properties of the runs.

Only model-checked: liveness (out of the prover's reach); `OwnAnswers` of `Duplex`, which is about
the order of all answers a client has got and not only their number; and everything in
`Line`, `Avl` and `Registers`. What the recursive operators of `Line` and `Avl` compute for
every input is beyond the provers, which have no induction over data, and `Registers` divides by
word sizes that are variables.

## 6. Not modelled, and the plan

Not modelled: running out of memory in most modules; modes, hooks and shutdown; groups and
commands of duplex connections; variables and the database; arbitrary descriptors; of
tcpborphserver3 the locks and the frames of tap devices; the other programs. The reasons are with each component in
`PROJECT.json`.

Next, in order of importance:
1. `Dispatch`: mode changes, results of handlers, shutdown (shared.c:887-1446).
2. Several jobs with one name, where the acknowledgement finds the wrong one (job.c:338).
3. Proofs: `OwnAnswers` of `Duplex`, `TransfersExact` of `Registers`.

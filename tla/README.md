# A TLA+ model of waeio

waeio is a collection of I/O code for WebAssembly guests: a freelist, a small
I/O layer (WASIO) over sockets that the host lends to the guest, a fiber
scheduler, and HTTP servers written with and without fibers. This directory
holds TLA+ modules that model the parts which keep state, TLC configurations
that check them on small instances, and TLAPS proofs, for every instance, about
the freelist, the two tables of virtual descriptors, the three programs that are
built on such a table and the three servers over a poll array. `PROJECT.json` maps
each definition to the lines it models and lists runs, mutants, hazards, findings
and theorems.

Paths below are relative to the repository; `wasm guest` is the program, `host
driver` the native process that runs it and makes its system calls.

## Inventory

| Part | State | Operations | Interacts with | What makes it correct |
|---|---|---|---|---|
| freelist (`src/freelist.c`) | size, number of words, bitmap | new, next, reclaim, resize, delete | called by the virtual-descriptor backends | an entry has one holder; entries lie below the size; FULL only when all are held |
| host driver, sockets (`src/host/driver/socket.c`) | none of its own: the kernel's sockets | listen, accept, connect, recv, send, close | one system call per binding; clients act between any two | answers and errno reach the guest unchanged |
| host driver, poll (`src/host/driver/poll.c`) | none | poll, the flag constants | fills the guest's array in place | every polled slot gets fresh revents |
| WASIO host poll backend (`src/wasio/host_poll.c`) | array of pollfds, length, capacity | listen, poll, accept, recv, send, close | used by the fiber server, which edits array and length itself | never writes past the capacity |
| WASIO virtual descriptors (`src/wasio_host.c`) | freelist, two parallel arrays, length | init, finalize, listen/wrap, accept, recv, send, close, notify, poll | freelist, host | bitmap, arrays, count and host descriptors agree; a binding lasts until it is closed |
| WASIO on WASI (`src/wasio_wasi.c`) | the same, but the arrays differ: preopened sockets in one, what is polled in the other | init, finalize, wrap, accept, recv, send, close, mark_ready, poll | freelist, WASI | a free entry is empty, a socket is behind one entry, none is lost unnoticed |
| fiber HTTP server on WASIO (`examples/httpserver/httpserver_wasio_fiber.c`) | poll array, parallel array of fibers, a global `fd`, flags | listener fiber, handler fibers, main's scan, completion, compaction, clean-up | WASIO; fibers share all globals | arrays in step, a fiber works on its own descriptor, shutdown completes |
| fiber HTTP server (`httpserver_fiber.c`) | the same over the bindings | the same | bindings | the same |
| HTTP server without fibers (`httpserver_bespoke.c`) | poll array, flags | one loop | bindings | watches exactly the open connections, closes them at the end |
| waeio scheduler (`src/waeio.c`) | two stacks of ready fibers, fiber per descriptor, connection count | main loop, async, accept, recv, send, close, cancel | virtual-descriptor WASIO, fiber-c | a suspended fiber is in a queue or an event of its descriptor leads to it; a queued one runs; freed ones do not |
| HTTP server on ready queues (`httpserver.c`) | two ready queues, the fibers by descriptor, one global command, client count | listener, handlers, command loop, scan, clean-up | virtual-descriptor WASIO, whose array it reads and clears | clients counted right, queued fibers run once, waiting ones resumed |
| echo server (`examples/echoserver/echoserver.c`) | a buffer per descriptor, client count | one event loop | virtual-descriptor WASIO | a client's data waits for it alone and for the right event; "quit" ends the program |
| embeddings, `hostgen.c`, `http_utils.h`, `hello.c` | none | set-up and formatting | wasmtime | not a matter for a model |

There is one thread. Concurrency comes from two sides: fibers that yield and are
resumed by the main loop, all through the same global variables; and clients and
kernel, which change sockets between any two system calls. Failures come from
system calls, peers that close or reset, and a full table or descriptor limit.
Nothing is persisted, so nothing recovers from a crash.

`wassert` is `assert` only in a build with `-DDEBUG` and nothing otherwise, while
`assert` is always checked (no target sets `NDEBUG`). The constant `Debug` of the
server model tells the builds apart.

## Modules

```
FreelistOps ── Freelist ──(refines)── Allocator
     │              └── MCFreelist
     ├── WasioWasi ──(refines)── SocketTable
     │       └── MCWasioWasi
     └── WasioHost ──(refines)── DescriptorTable
             ├── MCWasioHost
             └── WasioProgram
                     ├── HttpServer ── MCHttpServer
                     ├── WaeioScheduler ── MCWaeioScheduler
                     └── EchoServer ── MCEchoServer
HostSockets ── PollArray ── WasioHostPoll ── WasioFiberServer ── MCWasioFiberServer
                   ├──────── FiberServer ── MCFiberServer
                   └──────── BespokeServer ── MCBespokeServer
ConnectionServer        refined by HttpServer, EchoServer, WasioFiberServer,
                        FiberServer and BespokeServer

FreelistOpsProofs ─┬─ FreelistProofs        proofs, each EXTENDS the
                   ├─ WasioHostProofs       module it is about, the second
                   └─ WasioWasiProofs       also the programs on WasioHost
PollArrayProofs ───┬─ BespokeServerProofs
                   ├─ FiberServerProofs
                   └─ WasioFiberServerProofs
```

* **FreelistOps** - the struct and the pure effect of each function of
  `freelist.c`. A word is the set of its 1-bits, the width a constant; the loop
  of `freelist_next` is "the first word that passes the test", with the test as
  the code has it (line 86 compares the bit index with the size). The words
  `realloc` adds are any words at all.
* **Freelist** - one freelist and its callers: an action per function, with each
  error return. `held` is a history variable. `Spec` allows every call sequence;
  `DisciplinedSpec` the ones the repository relies on (below).
* **Allocator** - what a freelist promises: the least number nobody holds, FULL
  only when there is none. `Freelist!ImplementsAllocator` is the refinement.
* **WasioHost** - `src/wasio_host.c`: an action per function of the API, for any
  virtual descriptor below the capacity whether or not it is in use, with the
  host's answer chosen freely. `wants` is history: which notifications the
  caller asked for.
* **DescriptorTable** - what such a table promises: the least free virtual
  descriptor, a binding that lasts until it is released, a host descriptor that
  is lost only when the table is full. `WasioHost!ImplementsDescriptorTable` is
  the refinement; `Bound` maps an entry in use to its host descriptor.
* **WasioWasi** - `src/wasio_wasi.c`, in the same manner. accept, recv and
  mark_ready read `fds`, send, close and poll read `vfds`; only Wrap of a
  preopened socket fills the first and only accept and mark_ready the second.
  `vfd` is the variable of the caller whose address each call gets, since
  accept writes through it what a failed wrap left there.
* **SocketTable** - what is left of the promise of `DescriptorTable`: an entry may
  be taken for nothing (a failed accept), have a second socket (an accept into a
  full table) and lose one that stays open (a mark), but it is the least free one
  that is taken, for a socket no other entry has, and a close frees one entry
  and closes one socket of it. `WasioWasi!ImplementsSocketTable` is the
  refinement; `Behind` maps an entry in use to the sockets of both arrays.
* **WasioProgram** - what the three programs on `wasio_host.c` share: the
  listening socket behind the first virtual descriptor (`Listens`), a kernel that
  hands out the lowest descriptor, and the scan of the events that a poll left in
  the table's own array (`Ready`, `TakesEvent`). `pc` is where the thread is, `i`
  the index of its loop, `cur` whose code runs, `conn` the connection that was
  just accepted and `how` the way the program ended.
* **HttpServer** - `httpserver.c`, which extends `WasioProgram`: each of its calls
  is the action of `WasioHost` with what the server does before and after it.
  Main alternates between the front queue, a poll and the scan; a fiber is named
  by its virtual descriptor. Here the host's answers are chosen freely, since
  the questions are about the queues and counts and not about clients. Whatever
  resumes a null fiber ends the run, with `no_fiber` in `how` (line 358). The code after
  a handler's yield (lines 119-120 and 132-133) is not in the model: it is reached
  only from line 358 by an entry of `fibers`, and only the listener has one
  (`http_waiters` shows what comes instead). As a
  `ConnectionServer` (`HttpImplementsServer`) it has as many places as clients may
  be, watches the connections whose handler runs or is queued, and forgets the
  ones whose handler has yielded (`Waiting`).
* **WaeioScheduler** - `waeio.c`, likewise. `pc` is in
  run_next's two loops (`front`, `scan`), in `handle_request` (`handle`), in the
  fiber (`run`, or in the call it resumes: `accept`, `recv`, `send`) or in the
  clean-up. The repository has no client of this scheduler, so the fibers are
  its interface: a listener that accepts and starts a handler for each
  connection before it accepts the next, and handlers that receive, send, close
  and return, in any order; any fiber may cancel everything at any time. A
  listener that is freed or returns with a connection in hand leaves it behind. The queues are the stacks they are in the
  code. Three values are undefined (the heads of fresh queues; the descriptor of
  an I/O command, which is read from the other member of the union; the status
  after a poll, whose address goes where the argument belongs), and each is any
  value a build may produce; `lucky` is history: they have all been the intended
  ones so far. A resumption that no program survives ends the run, with the
  cause in `how`: a junk queue head, a fiber that is freed or null, a fresh one
  that takes `&status` for its descriptor. `WASIO_EVENT_FOREACH` is taken as
  `httpserver.c` writes it out in lines 354-356. After a poll a fiber gets NULL or
  `&status`, never the kill signal, so the branches that test for it are left
  out, as nothing sends it.
* **EchoServer** - `echoserver.c`, likewise. A buffer is null, the data of the
  connection on the descriptor (`own`) or what an earlier one left (`old`). The
  clean-up takes the count of clients for the highest descriptor, so it may
  close past the table: then the run goes on or ends. The branch of line 67 is
  unreachable, since WASIO turns EAGAIN into an answer of its own. As a
  `ConnectionServer` (`EchoImplementsServer`) it has all of the table for clients
  and forgets none, but may return with some open.
* **HostSockets** - the listening socket, its backlog and the accepted
  connections, as the bindings of `socket.c` and `poll.c` show them to a guest;
  and, external to the repository, what clients, network and kernel do: connect,
  send, close, reset, an error on the socket, an aborted connection, no
  descriptor left. accept returns the lowest free descriptor, so a descriptor
  that is closed comes back for another connection.
* **PollArray** - the array of pollfds with a length that every server of
  `examples/httpserver` keeps, the slots `host_poll` fills and the compaction
  loop. The loop is written by its result: the slots below length that hold a
  descriptor, in order. What lies above length afterwards is never read again,
  so it is not kept; nor are revents that the next poll overwrites.
* **WasioHostPoll** - `src/wasio/host_poll.c` over the two modules above.
* **WasioFiberServer** - the fiber server. `pc` is where the one thread is: in
  main (`poll`, `scan`, `compress`, `cleanup`) or in the fiber it resumed
  (`listener`, `recv`, `send`, `return`). A fiber runs on until it would block,
  but each of its system calls is a step, and the clients may act between them.
  A fiber is named by the descriptor it was allocated for, and is fresh or
  suspended; its whole state at a yield is which of the two functions it runs,
  since both start over at the same point. `Finished` and `Yielded` are
  `handle_command` with the rest of the loop body. An assertion that fails ends
  the program and leaves its line in `failed`.
* **FiberServer** - `httpserver_fiber.c`, the server that uses the bindings
  directly. It differs in what the questions are about: a fiber's descriptor is
  a local that each resume sets from `fibers[i].fd` while main polls
  `fds[i].fd`; a poll that fails ends the server; the answer of close is not
  looked at; a fiber that was never resumed survives the kill signal.
* **BespokeServer** - the server without fibers, in the same manner.
* **ConnectionServer** - what such a server does with connections, seen from
  outside: accept into a free place, never once it is to end, close one at a
  time, stop. `MayForget` says whether it may stop watching a connection it
  keeps open. The bespoke server implements it without forgetting and stops
  with everything closed; the two fiber servers implement it only with forgetting,
  and so do the two programs on `wasio_host.c`. To end is to be told to, so a program
  that fails stands still in this view.

Mutants of a definition stand before it, under a comment that says so; no
specification uses them.

Data are abstracted to what the control tells apart. A received buffer is one of
`get` (anything answered), `quit` (GET /quit) and `drop` (no headers: the
handler returns without an answer); the queue of a socket is a sequence of them
of which one `recv` takes all and the parser sees the first. Events a slot is
polled for are POLLIN throughout and left out.

## What the runs check

| Run | Question | Result |
|---|---|---|
| `freelist` | Used with discipline, is a freelist an allocator? Types, bitmap and holders agree, no double issue, no false FULL, refinement | holds |
| `wasio_host` | Do bitmap, arrays, count and host agree after any sequence of calls; is no event of a closed descriptor left over; is it a table of descriptors from outside? | holds |
| `fiber` | Do the arrays stay in step through accepts, hang-ups, completions and compactions; does a fiber only ever see its own descriptor; which assertions can fail; when are connections forgotten; does the server stop when told to, receive what is waiting or forget the connection, accept while there is room? | holds as stated |
| `fiber_shutdown` | Is the array empty after the clean-up, as line 334 asserts? | violated: the clean-up loop stops half way |
| `fiberargs` | Does each resume hand a fiber the descriptor of its own slot; is no fiber suspended on a closed descriptor; what does the server look like from outside; does it stop when told to, and receive what is waiting or forget the connection? | holds, with forgetting |
| `bespoke` | Does the array list every open connection once, without gaps, within its bounds; from outside, is any connection forgotten or left open at the exit; does it stop when told to and receive what is waiting? | holds; the last unless one client keeps it busy |
| `http` | Are clients and open descriptors counted right; is a queued fiber run, and queued once; what can overflow the queue; what does the server look like from outside? | holds, with the answers below, and with forgetting |
| `http_waiters` | Is a handler that has yielded continued by the next event of its connection, as lines 120, 133 and 312 have it? | violated: main finds a null fiber |
| `waeio` | Is a suspended fiber always in a queue or in wait of an event that leads to it; are freed fibers ever resumed; does main come back to its poll, and to every queued fiber, and why? | holds, the first two while undefined values are what was meant, and with a gap (below) |
| `waeio_full` | Does accept wait while there is no space, as lines 209-210 say? | violated: nconns does not count connections |
| `echo` | Whose data does a client get, which event does it wait for, does "quit" end the program? | holds as stated below |
| `wasi` | Is a free entry empty, a socket behind one entry only; how can a socket leave the table without being closed? | holds |

Some results need a word.

*Discipline of the freelist.* `Freelist!DisciplinedNext` keeps to sizes that fill
their words or fit in the first, and to resizes that add no word: the
capacities in the repository are 512 and 1024, the test's at most 4. Both
conditions are needed. With a last word that is partly used, line 86 (which
compares the bit index and not the entry with the size) hands out entries past
the size; a resize that adds words leaves them as realloc found them. The model
has both, under `Spec`.

*Forgotten connections.* The fiber server takes a finished connection off
`wfd.length` twice: in `handle_command` (line 207; line 277 for a hang-up) and
again when the compaction drops its slot (line 306). The slot at the end falls
off, and `compress_pollfd`, once set, also clears the slots of fibers that merely
yielded later in the same scan (line 295). The connections are open, polled by
nobody and never closed. No document or assertion of the repository says that
this does not happen, so it is not a violated run; `OrphansByCompactionOnly`
states the exact extent: a connection is forgotten only in a round in which some
connection ended, and for good. What saves the server is a part of
`ArraysInSync`: the listener keeps slot 0, since it is scanned before any mark
can be set. `RequestsReceived` names forgetting as one of the ways in which
a request that waits stops waiting (`Forgotten`): received, closed, server ended, or
open in no slot for good, which a client cannot tell from a server that hangs.
`FiberServer` has the same code, and states it as a refinement of
`ConnectionServer` with forgetting, which `WasioFiberServer` is proved to be too.

*Assertions.* `OnlyShutdownAsserts` says which `assert`s and `wassert`s can fail.
In a release build: none. In a debug build: the entry of a fiber that is first
entered with the kill signal (56, 150), and main's own after the loop (320, 328,
334). That every close of the clean-up succeeds (330) is part of the property: what
is left in a slot then is open. `httpserver_fiber.c` has the like of these, and its 293 fails also when the
listener ends before any connection. In particular `wasio_accept`'s capacity
assertions never fail, although the length goes down more often than connections
do.

*The clean-up loops.* Both fiber servers shrink the length inside a loop that
counts up to it (lines 323-333 on WASIO, 294-304 without). `fiber_shutdown` shows
what that leaves; the other server has the same loop and no run of its own.

*The server on ready queues.* w_accept does not enter the handler it allocates
in `fibers` (lines 141-145, commented out, did), so an event for a handler that
waits makes main resume a null fiber: `http_waiters`. From outside that is a
connection forgotten, the moment its handler yields, which is how
`HttpImplementsServer` states it: nothing brings it back into the queues, and its
descriptor is never given to another client.
`OnlyListenerQueuedTwice` is about both queues, the part of the front queue that
main is past left aside: the abort of `fq_push` needs no more connections than
the limit admits, but a listener that waits for space in the queue while its
socket has events; it is resumed for both and queues itself again for each.
`ClientsAreCounted`: while main runs, clients and open descriptors are counted
right, and the table is never full when a connection arrives. The clean-up, for
the same reason as above, counts down for none of them: line 389 asserts
`clients == 0`, and it fails whenever a client ends the server with GET /quit, if
only for that client. This has no violated run, but a theorem that says more,
`QuitLeavesClients`: the program never returns from main.

*The scheduler.* `nconns` goes up once, for the listening socket, and down for
each fiber that ends, so it wraps and its test against the limit has nothing to
do with the table: `waeio_full`. `NoFiberLost` and `StaleFibersNotResumed` are about
the runs in which the undefined values were the intended ones: an I/O command with another
descriptor arms that one, and the fiber then waits for nothing; a status that was
left over frees fibers that are suspended. In the runs with intended values a fiber
that waits has its descriptor open, armed and recorded as its own. Whether main
looks there is another matter: the scan stops at `wfd.length`, a count, so with
virtual descriptor 1 closed the handler on 2 is passed over until 1 is taken again.
`NoFiberLost` names that gap (`BehindGap`) and excludes every other. That an
event leads to a fiber that was freed is possible in such runs too, but only after
the listener returned, since the descriptor of any other is closed before its
fiber ends; and one leads to no fiber when the listener cancels everything with a
connection in hand (`StaleFibersNotResumed`; only the queue at hand is left then,
and a poll still comes). This is so as long as there is memory for a fiber
for each descriptor; when `fiber_alloc` fails, waeio queues and records a null
fiber and resumes it. `PollsForEver` and `QueuedFibersRunAgain` hold in every
run, the ones with wrong values included. They rest on the swap: what yields goes to
the rear queue, and only a poll makes it the front queue. `RoundsAreBounded` says it
as a measure: in either loop of `run_next` each step, of main or of the fiber it
resumed, brings the end of the loop closer.

*The pollout flag.* `wasio_host.c` line 42 imports `host_pollout` under the
name `pollin`, so what waits to send is polled for input. The model has it so.
The echo server takes an event of a connection whose data waits for "Ready to
send" (line 77), though it comes when the client sends more. "Armed" in `NoFiberLost` means for any event, and `InterestMatchesBuffer` is
about what the caller asked for.

*The echo server.* A client that is echoed in one go is closed without freeing
its buffer or counting it down (line 75): the next client on that descriptor is
sent the old buffer, as if it were waiting to be sent, and counted down.
`StaleBuffersCounted` bounds the damage: the surplus of `nclients` is at least
the number of buffers left behind. `QuitEnds` says that the clean-up loop still
terminates; what it closes past the table is unspecified.

*The WASI backend.* `wasio_wrap` answers EFULL with a positive number and
`wasio_accept` looks for negative ones (lines 58-59), so a connection accepted
into a full table overwrites an entry of the caller's; and `mark_ready` of an accepted
connection overwrites it with nothing. `SocketsLost` lists these and the
consequence, a close that drops the other socket of the entry, and excludes all
other ways.

*The array of the bespoke server* is written with no test against its length.
`NeverOverruns` holds on the condition that the process has fewer descriptors
for connections than the array has slots for them.

## Bounds

| Constant | Value | Why it is enough |
|---|---|---|
| `IntWidth` | 2, in `waeio` and `echo` 4 | two bits make in-word and cross-word cases; 3 words make a first, middle and last. The theorems hold for every width |
| `Sizes`, `Entries` | 0..6 | zero, below, at and across word boundaries; an entry at the size |
| `Capacity` of `WasioHost` and `WasioWasi` | 4, with 5 host descriptors | two words; one descriptor more than the table holds, so it is full while the host accepts. In `wasio_host` the host descriptors are a symmetry set: only equality is used of them, and `FewArmed` bounds the armed interests to the first word. `Preopened` is two, one to wrap and one to wrap after it was closed |
| `ConnFds` | 5..6 | one connection may end in a round in which the other only yields, or falls off the end; descriptors come back for new connections. The safety properties of these servers are proved for every set of descriptors |
| `Capacity` of the servers | 3 | the array is full with two connections, while a third waits in the backlog |
| `Debug` | true | more assertions can fail then; without it main goes on where an assertion of the clean-up would have ended it. The proofs are about both builds |
| `Capacity`, `HostFds` of `HttpServer` | 4, with 5 host descriptors (2 in `http_waiters`) | three clients make less and more than half of the places, and a hole in the table below its highest descriptor; one descriptor more than the table holds, so that one could be lost. The kernel hands out the lowest |
| `Capacity`, `Fibers` of `WaeioScheduler` | 3, with 4 host descriptors and 3 fibers | the listener and two handlers, so that one may close while the other waits above it, and fibers are freed and allocated again while others wait; the table is full with both. Every undefined value occurs; after the first wrong one the constraint `LuckyOrOneHandler` goes on with one handler. One kind of event for each descriptor (`OneKindOfEvent`) is enough, since the scheduler only asks whether there is one |
| `CountRange`, `MaxQueue` | 4, 3 | nconns wraps after two fibers and comes round to the limit (2<sup>32</sup> values in the code); a queue holds each fiber and, if one is not there, a copy of the listener. A longer one ends the run (`bound` in `how`), so that it may grow is not shown by these runs; the proof of `RoundsAreBounded` has any `MaxQueue` |
| `Capacity`, `HostFds` of `EchoServer`, `MaxCount` | 4, 5, 6 | three clients; the count goes two past the table. No client connects beyond `MaxCount` |
| `MaxBacklog`, `MaxRx` | 1 or 2, 1 | connections and requests are interchangeable; a second may arrive as soon as the first is taken |

Servers stop by design, so their runs do not check for deadlock; that they do
not stop early is what the liveness properties say.

## Fairness

`FairSpec` is weak fairness of the thread's own step, `MainNext`, and nothing
else: the process has one thread and the operating system goes on scheduling it.
Clients are under no fairness, so they may be silent for ever; a poll that would
wait has its timeout as the alternative. A failing poll (`PollFails`) is outside
`MainNext`: it may happen any number of times but not for ever, or no server of
this shape could stop.

In `HttpServer`, `WaeioScheduler` and `EchoServer` every step is the thread's:
`HttpFairSpec`, `WaeioFairSpec` and `EchoFairSpec` are weak fairness of the whole
next-state relation. `HttpServer!QueuedFibersRun` assumes that main comes back to
its front queue again and again, that is, that no handler is kept busy for ever
and nothing ends the program; `http_waiters` needs no such assumption. The scheduler's
needs none either, since every call yields before it tries.

A handler runs on while its client keeps sending, and nothing bounds that:
`RequestsReceived` and `ConnectsAccepted` therefore assume that main comes back
to poll again and again. The fiber servers' `ShutdownCompletes` needs no such
assumption because handlers look at `end_server`; the bespoke server's inner loop
does not, so its property assumes that the loop is left again and again.

## Proofs

Each part has one inductive invariant, `IInv` (for the programs on the table
`HttpIInv`, `EchoIInv` and `WaeioIInv`). Its module of proofs shows that the
initial states satisfy it and that every step preserves it, with a lemma for each
operation, concludes that it holds for ever (`Invariance`, `HttpInvariance`, ...)
and draws the theorems below from that. The specifications in them have no
fairness, so they hold of every behaviour. Every invariant and action property
of the runs that hold is stated by a theorem.

| Module | Theorem | States |
|---|---|---|
| `FreelistProofs` | `BitmapCorrect`, `FullCorrect`, `NoDoubleIssueCorrect` | `BitmapMatchesHeld` (with `TypeOK`), `FullIsTruthful`, `NoDoubleIssue` of `DisciplinedSpec` |
| | `Refinement` | `ImplementsAllocator` |
| `WasioHostProofs` | `TableConsistentCorrect`, `NoStaleEventsCorrect` | `TableConsistent`, `NoStaleEvents` |
| | `Refinement` | `ImplementsDescriptorTable` |
| | `ClientsAreCountedCorrect` | `ClientsAreCounted` of `HttpServer` |
| | `QuitLeavesClients` | that `httpserver.c` never ends with all clients counted down, whatever line 389 asserts |
| | `OnlyListenerQueuedTwiceCorrect` | `OnlyListenerQueuedTwice`, if the table has more than one place |
| | `StaleBuffersCountedCorrect`, `InterestMatchesBufferCorrect` | `StaleBuffersCounted`, `InterestMatchesBuffer` of `EchoServer` |
| | `NoFiberLostCorrect` | `NoFiberLost` of `WaeioScheduler` |
| | `StaleFibersNotResumedCorrect` | `StaleFibersNotResumed`, if there is memory for a fiber for each descriptor |
| | `RoundsAreBoundedCorrect` | `RoundsAreBounded` |
| | `HttpServesCorrect`, `EchoServesCorrect` | `HttpImplementsServer`, `EchoImplementsServer`: the programs as servers of connections |
| | `HttpKeepsTable`, `EchoKeepsTable`, `WaeioKeepsTable` | `TableIsKept`: each program goes on using the table as one of `DescriptorTable`; of `httpserver.c` also `NothingIsLost` |
| `WasioWasiProofs` | `FreeEntriesEmptyCorrect`, `OneEntryPerSocketCorrect`, `SocketsLostCorrect` | `FreeEntriesEmpty`, `OneEntryPerSocket`, `SocketsLost` |
| | `Refinement` | `ImplementsSocketTable` |
| `BespokeServerProofs` | `ArrayIsOpenSetCorrect`, `NeverOverrunsCorrect` | `ArrayIsOpenSet`, `NeverOverruns` |
| | `Refinement` | `ImplementsConnectionServer`, if there are fewer descriptors than slots |
| `FiberServerProofs` | `SlotsMatchFibersCorrect`, `RunsOnOwnFdCorrect`, `SuspendedFibersAreOpenCorrect` | `SlotsMatchFibers`, `RunsOnOwnFd`, `SuspendedFibersAreOpen` |
| | `Refinement` | `ImplementsConnectionServer` |
| `WasioFiberServerProofs` | `ArraysInSyncCorrect`, `FiberSeesOwnFdCorrect`, `OnlyShutdownAssertsCorrect`, `OrphansByCompactionOnlyCorrect` | `ArraysInSync`, `FiberSeesOwnFd`, `OnlyShutdownAsserts`, `OrphansByCompactionOnly` |
| | `Refinement` | `ImplementsConnectionServer` |

### The freelist

`FreelistOpsProofs` has lemmas about the operators: what `calc_vector_len`
returns, that the lowest bit and the first eligible word exist, how an entry
number and its word and bit determine each other, and what next, reclaim and
resize do to a bitmap that agrees with a set of holders. In `FreelistProofs`,
`IInv == SizeIsWhole /\ BitmapMatchesHeld /\ FullIsTruthful`, where the second
holds `TypeOK` as well. None of the three is inductive alone: that FULL is truthful
follows from the bitmap agreeing with the holders for all bits and from the size being whole
(else bits past the size would be taken for entries, or the test of line 86
would hide some), and the size stays whole only by the discipline.

### The tables of virtual descriptors

`WasioHost`: the bitmap agrees with the set of entries that have a host
descriptor, for every bit of every word and not only below the capacity; both
arrays name the same descriptor in each entry, an open one; no two entries have
the same; `length` counts them. `TableConsistent` is what can be seen of
this. The invariant has to say more, because the next `wasio_wrap` gets its entry
from the bitmap: only the lemmas about the freelist turn "bitmap and arrays
agree" into "the entry it gets is unused", and those need the bits that are past
the capacity too. `NoStaleEvents` is inductive only beside it. In the refinement
a wrap that succeeds takes the least unused entry (`WrapTakesLeast`), and one
that answers EFULL finds every entry in use (`FullTableIsFull`).

`WasioWasi`: its arrays do not mirror each other, so the invariant speaks of the
free entries: a free one is empty in both arrays, what either array names has
not been closed, and no socket is behind two entries. The second is what lets a
descriptor that the host hands out be a new one. `SocketsLost` is an action
property and is proved step by step from the invariant. `Refinement` has a lemma
for each call: `TakeEntryFacts` and `CloseFacts` say what a call does to the free
entries and to the sockets of every other entry, and serve the invariant too.

### The programs on the table

`WasioHostProofs` goes on with what the calls of the table do for a caller: a
successful accept gives the new connection an entry nobody had (`AcceptGrows`),
a close of an entry in use succeeds and takes out that one (`CloseShrinks`), every
other call and the scan of events leave the bindings alone (`CallKeepsBindings`,
`TakesEventFacts`), and as long as the connections are fewer than the places
beside the listening socket there is room (`RoomForConn`). `TableInUse`, the
invariant of the table together with `up`, is in each of the three invariants as
long as the program runs.

* `HttpIInv`. The counter: every connection is counted but the one between
  `wasio_accept` and the push of its handler (`HttpCounted`), so clients below the
  bound means room in the table, and no descriptor is lost. Whose code runs:
  `recorded` holds nothing but the listener, so handlers run from the front queue
  only (`HttpRuns`), and a handler that waits is not in what is left of it; hence
  one that runs is at its entry (`HandlersRunFromTheirEntry`), which is why the model gives handlers no other place
  to go on from. The
  queues: a handler still to be run is in one place of one queue, the part of the
  front queue that main is past left aside (`HttpQueued`). Together with the
  counter that bounds the queue (`QueueIsShort`): without copies of the listener it
  is not full. The copies need `HttpCrowded`: when the listener is in a queue twice
  nobody else is in it, and there is no space. A copy comes from yielding for space in both loops of one round, the
  first time before anything else was pushed; had there been space in between, it
  would have waited for its event instead. With one place in the table there is
  no client and the queue is full with one listener, hence the hypothesis.
* `EchoIInv`. `EchoCounted`: buffers left behind and connections together are at most
  `nclients`, since whoever leaves a buffer is not counted down. `EchoArmed`: a
  connection whose own data waits is registered for sending, except between
  receiving and sending; every connection but the newest for receiving. Both rest
  on what `EchoRuns` knows of the buffer at each place of the loop, which is what
  decides whether an event means receive or send.
* `WaeioIInv` speaks of runs that are still scheduling and in which the undefined
  values were the intended ones (`lucky`). `Owners`: `ctl.fibers` leads from the
  descriptor of each live fiber back to it, so no two fibers share one, and only
  the listener works on the socket. `Places`: where each fiber is suspended, and
  that a command that is being handled is the one it yielded. None of the parts ties
  `conn`, the listener's own, to what other fibers do, but that it is given up
  when the listener is freed (`HasConn`). `Held`: each live
  fiber is in a queue, waits with its descriptor armed, is in the scheduler's hands
  or cancelled everything; this rests on `WaeioCalls`, that no step disarms a
  descriptor. For `StaleFibersNotResumed` it needs more (`Reached`): in
  the queues are only the listener and handlers that have not started, each of
  these in one place of one queue, and every connection but the newest has a live
  fiber. That handlers never suspend but wait is what makes a handler come off a
  queue only once. `Reached` assumes memory (`EnoughFibers`): by a count, a new
  connection leaves a fiber that can be allocated (`MemoryIsLeft`). In no part is
  `nconns` mentioned beyond its type; nothing rests on it. That a waiting fiber is
  scanned or behind a gap is counting (`PassedOverBehindGap`): descriptors that are all
  in use below one are as many as its number.
* `RoundsAreBoundedCorrect` needs no more than types, and not `lucky`: each action
  takes one from the calls that are left of the resumed fiber or one from the
  queue or the scan at hand.

`TableIsKept` says that the steps of a program, its writes to `revents` included,
are steps of `DescriptorTable` or not seen from outside: it follows from
`StepMaps`, on which `Refinement` rests as well. Of the scheduler it covers the
descriptors of the table that its I/O commands may name by mistake; a write past the
table ends the run (`wild_write`), and what that does to memory is not in the
model. The echo server and the scheduler
may lose a descriptor to a full table; `NothingIsLost` is for `httpserver.c` alone.

`HttpServesCorrect` and `EchoServesCorrect` go one step up: each step of a program is
one of `ConnectionServer` or not seen there. Of `httpserver.c` most steps only move
handlers about; `MovesResumeNone` shows, from `HttpRuns`, that none of them makes a
handler pending that was not, so what changes is a `Forget` of the rest
(`HttpForgets`). A step that accepts gives the new client a descriptor neither
watched nor forgotten, by `AcceptGrows`, and a place, by the count of clients. A
step that closes takes one connection that is watched: the handler that ends is
the one that runs, hence not one that waits. The echo server has a place as
long as an entry is free; its clean-up closes for a count, which hits one
connection, the listening socket or nothing (`EchoCloses`), and it is past its loop
then, so nothing is accepted after it.

### The servers over a poll array

`PollArrayProofs` has lemmas about arrays of any length and about the bindings.
The one that carries most is the compaction: slot `k` of the result is the slot
`KeptAt(k)` of the array before, `Rank` is the inverse, and both rise; so slots
are moved, in order, and none is lost or doubled. These are not facts an
induction over the loop would be needed for, since the model states the
loop by its result.

* `BespokeServerProofs`. As long as the loop runs, every open descriptor is in
  exactly one slot, a gap is never without the flag that asks for the
  compaction, and the listener has the first slot. The last two are why the
  invariant is inductive: an accept appends at `nfds`, which is only right if
  nothing was closed earlier in the same scan, and nothing was because the
  listener is scanned first. `CleanupCovers` says that what is still open lies
  ahead of the clean-up. `NeverOverruns` takes a count: fewer slots than open
  descriptors are impossible, so fewer descriptors than slots leave one. The
  condition is part of the property, and the hypothesis of `Refinement`.
* `FiberServerProofs`. A slot that holds a descriptor has the fiber of that
  descriptor beside it, alive, and no other slot has it (`SlotsMatch`).
  The length goes down twice for a finished connection, so the invariant bounds
  it: `nfds + i >= pollfd_size`, at most once for each slot that was scanned,
  and this keeps it from going below zero. Gaps are behind the scan. Nothing is
  closed or ended before the first slot is scanned (`RoundBegins`); hence the
  listener appends to both arrays at the same place. The refinement needs no
  hypothesis, since the code compares with the capacity: it shows that each
  way of dropping a slot is a close or a `Forget` of `ConnectionServer`.
* `WasioFiberServerProofs`. The same invariant with what the assertions need:
  the bound is strict once the listener was scanned, so that the array main
  polls is never empty unless the server is to end; the listener keeps slot 0 and
  its socket never reports POLLHUP there; it returns only when `end_server` is
  set. `OnlyShutdownAsserts` is itself part of the invariant; that 330 holds takes
  `LeftToClose`, that what the clean-up still has before it is open and in one slot. For
  `OrphansByCompactionOnly`, a connection that is closed is one in a slot, a new one
  takes a descriptor that was not open, and the slots that a step drops come
  from the compaction or from the end of the array after one ended. The refinement
  is the argument of `FiberServerProofs` with one thing less to say, since here the
  closure has the descriptor of the slot: an accept finds the listener in the
  first slot and every slot in use, so fewer connections are watched than there are
  places (`WatchedFits`), and each drop of a slot is a close of what it held
  (`CloseRefines`) or a `Forget` (`LessRefines`).

### Assumptions

The proofs use the assumptions the modules state of their constants, and TLC
evaluates each in a run: `IntWidth` is a positive number; sizes and entries are
numbers; the capacity of a table is a positive number of whole words, or fits in
the first (512 and 1024 do); no host descriptor is -1, and the preopened ones are
host descriptors; the descriptors for connections are a finite set of
numbers above the listener's; the capacity of a poll array is positive; the
bounds of the sockets are numbers; for the programs on the table, host descriptors
are numbers, `MaxCount` and `MaxQueue` are numbers, the fibers a set of numbers with
the main fiber's, 0, and `nconns` has at least two values. The set of
descriptors has to be finite because `Cardinality` is taken of its subsets.

Three theorems have a hypothesis of their own. `Refinement` of the bespoke server
needs fewer descriptors than slots (`NeverOverruns` says so itself).
`OnlyListenerQueuedTwiceCorrect` assumes `Capacity > 1`, and
`StaleFibersNotResumedCorrect` assumes `EnoughFibers`: the fibers that can be
allocated are finitely many, and at least as many as the table has places. The
instances that TLC checks satisfy all three.

### What is only model-checked

* All liveness: fairness and ENABLED are out of the prover's reach. Deadlock
  likewise.
* The three violated properties, which TLC refutes.

Three refinements are the other way round: `EchoImplementsServer`,
`ImplementsSocketTable`, and `ImplementsConnectionServer` of `WasioFiberServer` are
proved and in no run of the list. TLC finds no violation of them either when they
are added to the properties of the `echo`, `wasi` and `fiber` runs.

## Not modelled, and why

* Contents of requests and responses: `http_utils.h` and the parser (a submodule
  that is absent). Generating a response fails only for a buffer that is too
  small, and the servers' buffers are not; that branch is left out.
* A failing `fcntl` on a fresh descriptor, a failing `listen` (the servers exit
  at once) and `host_connect`, which no server calls.
* A `send` that sends a part: the servers treat it as sent.
* Failing `malloc` in `wasio_init` (line 79): the writes after it trap.
* Embeddings, code generation, the hello example.
* `waeio.c`, `echoserver.c` and `httpserver.c` use, with `wasio_host.c` and
  `wasio_wasi.c`, a version of the WASIO interface that `inc/wasio.h` no longer
  declares; what they need of it (`wfd->fl`, `vfds`, `fds`,
  `WASIO_EVENT_FOREACH`) is known from their use of it only.
* The kill signal in `waeio.c`: nothing sends it. `wasio_poll`'s events on WASI,
  which the caller reads in `wfd->vfds`.
* The assertions of debug builds that are listed above but have no violated
  run of their own (56, 150, 293, 304, 320, 328).

## Plan

1. Done: every part of the inventory that keeps state has a module, with
   abstract specifications for the freelist, the table of descriptors and the
   servers over a poll array.
2. Done: theorems about every invariant and action property that the runs
   check, of the freelist, both tables of virtual descriptors, the three programs
   on a table and the three servers over a poll array, with the refinements of
   `Allocator`, `DescriptorTable`, `SocketTable` and `ConnectionServer`; and that
   the programs on the table keep it a `DescriptorTable`.
3. Next, if a client of the scheduler comes to exist: that client as a program on
   `WaeioScheduler`, and the pair as a `ConnectionServer`, which every other server
   here is shown to be.

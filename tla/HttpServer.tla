---------------------------- MODULE HttpServer ----------------------------
(***************************************************************************)
(* The HTTP server src/examples/httpserver/httpserver.c: a listener fiber,  *)
(* a handler fiber for each connection, two ready queues, and main, which   *)
(* runs the front queue, polls, and resumes the fiber of each descriptor    *)
(* with an event.  Its descriptors are the virtual ones of wasio_host.c     *)
(* (WasioHost), which it calls and whose array it also reads and writes.    *)
(*                                                                         *)
(* A fiber is named by the virtual descriptor it was allocated for.  Each   *)
(* call into WASIO is a step.  A handler that has yielded is not resumed,   *)
(* for main never records it: its next event ends the program (ScanNext,    *)
(* line 358).  So a handler needs no resumption point; and cmd, which every *)
(* fiber sets before its first system call and main reads when the fiber    *)
(* yields, has the value of that fiber.                                     *)
(***************************************************************************)
EXTENDS WasioProgram, SequencesExt

VARIABLES loop,       \* the loop of main that resumes fibers: 339 or 354
          front,      \* frontq->q, the fibers to run
          rear,       \* rearq->q
          clients,
          recorded,   \* the descriptors with fibers[fd].fd # -1
          max_accept, \* w_accept's argument
          quitting    \* the handler has read GET /quit

queues == <<front, rear>>
locals == <<conn, max_accept, quitting>>
server == <<pc, loop, i, cur, queues, clients, recorded, locals, how>>
httpVars == <<wasio, server>>

MaxClients == Capacity - 1

Fail(why) == Ends(why) /\ cur' = NoFd
BackToMain == GoesTo(loop) /\ cur' = NoFd
Resume(v) == pc' = (IF v = ServFd THEN "listener" ELSE "recv") /\ cur' = v

\* After lines 307-333: the table holds the listening socket, the front queue
\* its fiber.  A failure before that ends the program.
HttpInit ==
  /\ Listens({}, {})
  /\ pc = "front" /\ loop = "front" /\ i = 0 /\ cur = NoFd /\ conn = NoFd
  /\ front = <<ServFd>> /\ rear = <<>>
  /\ clients = 0 /\ recorded = {ServFd}
  /\ max_accept = 0 /\ quitting = FALSE /\ how = "not"

----------------------------------------------------------------------------
(* main *)

\* Lines 339-344.
RunFront ==
  /\ pc = "front" /\ i < Len(front)
  /\ Resume(front[i + 1]) /\ i' = i + 1 /\ loop' = "front"
  /\ UNCHANGED <<wasio, queues, clients, recorded, locals, how>>

\* Lines 349-354: a poll that fails fails the assertion.
PollIO ==
  /\ pc = "front" /\ i = Len(front)
  /\ Poll
  /\ \/ /\ ret' = "WASIO_OK" /\ pc' = "scan" /\ loop' = "scan" /\ i' = 0
        /\ UNCHANGED <<cur, how>>
     \/ ret' # "WASIO_OK" /\ Fail("poll") /\ UNCHANGED <<loop, i>>
  /\ UNCHANGED <<queues, clients, recorded, locals>>

\* Lines 354-362: an event of a descriptor that fibers does not have resumes
\* NULL.
ScanNext ==
  /\ pc = "scan"
  /\ \E v \in Vfds :
       /\ TakesEvent(v)
       /\ \/ v \in recorded /\ Resume(v) /\ i' = v + 1 /\ UNCHANGED how
          \/ v \notin recorded /\ Fail("no_fiber") /\ UNCHANGED i
  /\ UNCHANGED <<loop, queues, clients, recorded, locals>>

\* Mutants of SwapQueues: the rear queue is not reset; it is reset before the
\* swap.
SwapWith(newFront, newRear) ==
  /\ pc = "scan" /\ Ready = {}
  /\ front' = newFront /\ rear' = newRear
  /\ pc' = "front" /\ loop' = "front" /\ i' = 0
  /\ UNCHANGED <<wasio, cur, clients, recorded, locals, how>>
SwapUnreset == SwapWith(rear, front)
SwapAfterReset == SwapWith(<<>>, front)

\* Lines 372-374.
SwapQueues ==
  /\ pc = "scan" /\ Ready = {}
  /\ front' = rear /\ rear' = <<>>
  /\ pc' = "front" /\ loop' = "front" /\ i' = 0
  /\ UNCHANGED <<wasio, cur, clients, recorded, locals, how>>

\* Lines 377-394, after QUIT: a fiber that is recorded is killed, and the
\* assertion on clients comes before wasio_finalize.
CleanUp ==
  /\ pc = "cleanup"
  /\ LET left == clients - Cardinality(recorded \ {ServFd})
     IN  /\ clients' = left
         /\ Fail(IF left = 0 THEN "returned" ELSE "clients")
  /\ recorded' = {}
  /\ UNCHANGED <<wasio, loop, i, queues, locals>>

----------------------------------------------------------------------------
(* handle_request *)

\* fq_push to rearq, which aborts when it is full.
PushRear(v) == rear' = Append(rear, v) /\ UNCHANGED front

\* Mutant of RearIsFull: one place is not used.
RearIsFullEarly == Len(rear) = Capacity - 1
RearIsFull == Len(rear) = Capacity

\* FIBER_OK, lines 266-273: the handler has returned.
Finished ==
  /\ Close(cur)
  /\ \/ /\ ret' = "WASIO_OK"
        /\ recorded' = recorded \ {cur} /\ clients' = clients - 1 /\ BackToMain
     \/ ret' # "WASIO_OK" /\ Fail("close") /\ UNCHANGED <<recorded, clients>>
  /\ UNCHANGED <<loop, i, queues, locals>>

\* FIBER_YIELD with RECV or SEND.
Waits == BackToMain /\ UNCHANGED <<loop, i, queues, clients, recorded, locals>>

----------------------------------------------------------------------------
(* The listener *)

\* Lines 247-248 with YIELD, 281-284: no space for another client.
ListenerYields ==
  /\ pc = "listener" /\ clients = MaxClients
  /\ \/ RearIsFull /\ Fail("full_queue") /\ UNCHANGED queues
     \/ ~RearIsFull /\ PushRear(ServFd) /\ BackToMain
  /\ UNCHANGED <<wasio, loop, i, clients, recorded, locals>>

\* Mutant of StartAccept: room for one client too many.
StartOneTooMany ==
  /\ pc = "listener" /\ clients # MaxClients
  /\ max_accept' = MaxClients - clients + 1 /\ pc' = "accept"
  /\ UNCHANGED <<wasio, loop, i, cur, queues, clients, recorded, conn, quitting, how>>

\* Line 252: the space that is left is the bound, and &clients the counter.
StartAccept ==
  /\ pc = "listener" /\ clients # MaxClients
  /\ max_accept' = MaxClients - clients /\ pc' = "accept"
  /\ UNCHANGED <<wasio, loop, i, cur, queues, clients, recorded, conn, quitting, how>>

\* Lines 146-150, 158: any error ends w_accept, and its answer is not used.
AcceptOne ==
  /\ pc = "accept" /\ clients < max_accept
  /\ Accept(ServFd) /\ LowestFd
  /\ \/ ret' = "WASIO_OK" /\ pc' = "accepted" /\ conn' = NextEntry(fl)
     \/ ret' # "WASIO_OK" /\ pc' = "rest" /\ UNCHANGED conn
  /\ UNCHANGED <<loop, i, cur, queues, clients, recorded, max_accept, quitting, how>>

\* Lines 152-155: the interest is that of the listening socket, and fibers
\* does not get the handler.
Accepted ==
  /\ pc = "accepted"
  /\ NotifyRecv(ServFd)
  /\ \/ RearIsFull /\ Fail("full_queue") /\ UNCHANGED <<queues, clients>>
     \/ /\ ~RearIsFull
        /\ PushRear(conn) /\ clients' = clients + 1 /\ pc' = "accept"
        /\ UNCHANGED <<cur, how>>
  /\ conn' = NoFd
  /\ UNCHANGED <<loop, i, recorded, max_accept, quitting>>

\* Lines 254-256 with RECV, 285-288.
ListenerWaits ==
  /\ pc = "rest" \/ (pc = "accept" /\ clients >= max_accept)
  /\ NotifyRecv(ServFd)
  /\ Waits

----------------------------------------------------------------------------
(* A handler *)

\* Lines 179-228: what is received becomes an answer.  A part of a request is
\* received and nothing else happens, which is a stuttering step.
Receive ==
  /\ pc = "recv"
  /\ Transfer(cur) /\ ret' = "WASIO_OK"
  /\ quitting' \in BOOLEAN /\ pc' = "send"
  /\ UNCHANGED <<loop, i, cur, queues, clients, recorded, conn, max_accept, how>>

\* Lines 116-118, 285-288.
ReceiveLater == pc = "recv" /\ NotifyRecv(cur) /\ Waits

\* Lines 182-187: the client is gone, or recv fails.
ReceiveNothing == pc = "recv" /\ Finished

\* Lines 230-237: after a send, failed or not, the next request; or QUIT.
Send ==
  /\ pc = "send"
  /\ Transfer(cur) /\ ret' # "WASIO_EAGAIN"
  /\ pc' = IF quitting THEN "cleanup" ELSE "recv"
  /\ UNCHANGED <<loop, i, cur, queues, clients, recorded, locals, how>>

\* Lines 129-131, 289-292.
SendLater == pc = "send" /\ NotifySend(cur) /\ Waits

----------------------------------------------------------------------------
HttpNext ==
  \/ RunFront \/ PollIO \/ ScanNext \/ SwapQueues \/ CleanUp
  \/ ListenerYields \/ StartAccept \/ AcceptOne \/ Accepted \/ ListenerWaits
  \/ Receive \/ ReceiveLater \/ ReceiveNothing \/ Send \/ SendLater

HttpSpec == HttpInit /\ [][HttpNext]_httpVars

\* One thread, which goes on.
HttpFairSpec == HttpSpec /\ WF_httpVars(HttpNext)

----------------------------------------------------------------------------
InMain == pc \in {"front", "scan"}

\* What is still to be run: the rear queue and the rest of the front queue.
ToRun == rear \o (IF loop = "front" THEN SubSeq(front, i + 1, Len(front)) ELSE <<>>)

\* Handlers that have yielded: they neither run nor are in what is left of the
\* queues.
Waiting == Connections \ (ToSet(rear) \union {cur, conn}
             \union (IF loop = "front" THEN ToSet(SubSeq(front, i + 1, Len(front))) ELSE {}))

\* A queue never exceeds its array.
HttpTyped ==
  /\ pc \in {"front", "scan", "cleanup", "listener", "accept", "accepted", "rest",
             "recv", "send", "ended"}
  /\ loop \in {"front", "scan"} /\ i \in 0 .. Capacity
  /\ cur \in Vfds \union {NoFd} /\ conn \in Vfds \union {NoFd}
  /\ front \in Seq(Vfds) /\ Len(front) <= Capacity
  /\ rear \in Seq(Vfds) /\ Len(rear) <= Capacity
  /\ clients \in 0 .. MaxClients /\ max_accept \in 0 .. MaxClients
  /\ recorded \subseteq Vfds /\ quitting \in BOOLEAN
  /\ how \in {"not", "full_queue", "close", "poll", "no_fiber", "clients", "returned"}
  /\ how # "not" => Ended

HttpTypeOK == TypeOK /\ HttpTyped

\* Between fibers, clients counts the connections in the table, and no open
\* host descriptor is unknown to it: w_accept, the only caller that would lose
\* one when the table is full (wasio_wrap in wasio_accept), never finds it full.
ClientsAreCounted ==
  /\ HttpTypeOK
  /\ InMain => /\ clients = Cardinality(Connections)
               /\ length = clients + 1
               /\ open = {fds[v] : v \in Allocated}

\* A handler is in one place of one ready queue at most, with its connection
\* open.  The abort of fq_push (line 70) is reached only with copies of the
\* listener in the rear queue: main resumes a listener that waits in the queue
\* for space whenever its socket has an event, and it queues itself again.
OnlyListenerQueuedTwice ==
  /\ \A j, k \in 1 .. Len(ToRun) :
       ToRun[j] # ServFd => /\ ToRun[j] \in Connections
                             /\ ToRun[j] = ToRun[k] => j = k
  /\ how = "full_queue" => \E j, k \in 1 .. Len(rear) : j # k /\ rear[j] = ServFd /\ rear[k] = ServFd

\* "Initialise tracked fiber closures" (312): main finds in fibers whom an event
\* is for, and a handler that yielded in w_recv or w_send is "continued" (120,
\* 133) when the scan comes to an event of its descriptor (354-358).
WaitersAreContinued == [][\A v \in Waiting : pc = "scan" /\ TakesEvent(v) => cur' = v]_httpVars

\* As long as handlers come back to main, a fiber in the rear queue is run or
\* the program ends.
QueuedFibersRun ==
  []<>(pc = "front") => \A v \in Vfds : v \in ToSet(rear) ~> cur = v

\* From outside, the server is one of connections: it has as many places as
\* there is room for clients, and a handler that has yielded is open but not
\* watched any more.  It ends when GET /quit says so, not when it fails.
HttpEnding == pc = "cleanup" \/ how \in {"clients", "returned"}
HttpClients == INSTANCE ConnectionServer WITH
  Conns <- Vfds \ {ServFd}, Places <- MaxClients, MayForget <- TRUE,
  watched <- Connections \ Waiting, lost <- Waiting,
  ending <- HttpEnding, stopped <- how = "returned"
HttpImplementsServer == HttpClients!Spec
=============================================================================

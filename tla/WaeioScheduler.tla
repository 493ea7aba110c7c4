-------------------------- MODULE WaeioScheduler --------------------------
(***************************************************************************)
(* The scheduler src/src/waeio.c over the virtual descriptors of            *)
(* wasio_host.c: two queues of ready fibers, a fiber for each descriptor,   *)
(* and the calls by which fibers yield to it.  Its clients are not in the   *)
(* repository; here a listener accepts and starts a handler for each        *)
(* connection, and a handler receives, sends, closes and returns, or any of *)
(* them cancels everything.                                                 *)
(*                                                                         *)
(* Three values are undefined, and each is any value a build can produce:   *)
(* the heads of the new queues (157), the second word of an I/O command     *)
(* (115, 120 read arg where 198, 229, 247 wrote vfd), and status after a    *)
(* poll (150 passes it where the argument belongs, so it keeps the value of *)
(* the front queue's last fiber, or none).  lucky says that all of them     *)
(* have been what the code means so far.                                    *)
(***************************************************************************)
EXTENDS WasioProgram, SequencesExt

CONSTANTS Fibers,     \* what fiber_alloc may return before memory runs out
          CountRange, \* how many values nconns has, 2^32 in the code
          MaxQueue    \* bound: the nodes of a queue

ASSUME FibersAssumption == Fibers \subseteq Nat /\ 0 \in Fibers
ASSUME BoundsAssumption == CountRange \in Nat \ {0, 1} /\ MaxQueue \in Nat

VARIABLES from,    \* the loop of run_next that resumed the fiber: 138 or 149
          frontq, rearq, nconns, fibers,   \* of ctl
          status,  \* run_next's status, or "unset"
          cmd,     \* the tag of the command, or "DONE" when the fiber returned
          going,   \* keep_going
          at,      \* where each fiber is suspended
          own,     \* the descriptor it works on
          lucky    \* history: no undefined value was a wrong one

\* cur is the fiber that runs or has just yielded.
ctlQueues == <<frontq, rearq>>
calls == <<at, own, conn>>
waeioVars == <<wasio, pc, from, i, cur, ctlQueues, nconns, fibers, status, cmd, going, calls,
               lucky, how>>

Null == -1                \* no fiber
Junk == -2                \* what a head that is not NULL leads to
Main == 0                 \* mainfiber

\* Lines 157-173: the socket and its fiber, which is in the front queue.
WaeioInit ==
  /\ Listens({}, {})
  /\ pc = "front" /\ from = "front" /\ i = 0 /\ cur = Main
  /\ frontq \in {<<Main>>, <<Main, Junk>>} /\ rearq \in {<<>>, <<Junk>>}
  /\ nconns = 1
  /\ fibers = [v \in Vfds |-> IF v = ServFd THEN Main ELSE Null]
  /\ status = "unset" /\ cmd = "SUSPEND" /\ going = TRUE
  /\ at = [f \in Fibers |-> IF f = Main THEN "fresh" ELSE "none"]
  /\ own = [f \in Fibers |-> ServFd] /\ conn = NoFd
  /\ lucky = (Junk \notin ToSet(frontq \o rearq)) /\ how = "not"

----------------------------------------------------------------------------
(* run_next *)

\* fiber_resume of a fiber that exists goes on where it yielded.
Alive(f) == f \in Fibers /\ at[f] \notin {"none", "finished"}
ResumeFiber(f) == /\ cur' = f
                  /\ pc' = IF at[f] \in {"accept", "recv", "send"} THEN at[f] ELSE "run"

\* Lines 138-140.
RunReady ==
  /\ pc = "front" /\ going /\ frontq # <<>>
  /\ frontq' = Tail(frontq) /\ from' = "front"
  /\ LET f == Head(frontq)
     IN  \/ Alive(f) /\ ResumeFiber(f) /\ UNCHANGED how
         \/ f = Junk /\ Ends("queue_head") /\ UNCHANGED cur
         \/ f # Junk /\ ~Alive(f) /\ Ends("dead_fiber") /\ UNCHANGED cur
  /\ UNCHANGED <<wasio, i, rearq, nconns, fibers, status, cmd, going, calls, lucky>>

\* Mutant of SwapAndPoll: the queues are not swapped.
PollUnswapped ==
  /\ pc = "front" /\ (frontq = <<>> \/ ~going)
  /\ Poll
  /\ \/ ret' = "WASIO_OK" /\ pc' = "scan" /\ i' = 0 /\ UNCHANGED going
     \/ ret' # "WASIO_OK" /\ pc' = "cleanup" /\ going' = FALSE /\ UNCHANGED i
  /\ UNCHANGED <<from, cur, ctlQueues, nconns, fibers, status, cmd, calls, lucky, how>>

\* Lines 144-148.
SwapAndPoll ==
  /\ pc = "front" /\ (frontq = <<>> \/ ~going)
  /\ frontq' = rearq /\ rearq' = frontq
  /\ Poll
  /\ \/ ret' = "WASIO_OK" /\ pc' = "scan" /\ i' = 0 /\ UNCHANGED going
     \/ ret' # "WASIO_OK" /\ pc' = "cleanup" /\ going' = FALSE /\ UNCHANGED i
  /\ UNCHANGED <<from, cur, nconns, fibers, status, cmd, calls, lucky, how>>

\* Lines 149-150.  The fiber gets &status as its argument, which a fiber that
\* has not started takes for its descriptor.
ResumeReady ==
  /\ pc = "scan"
  /\ \E v \in Vfds :
       /\ TakesEvent(v) /\ i' = v + 1 /\ from' = "scan"
       /\ LET f == fibers[v]
          IN  \/ Alive(f) /\ at[f] # "fresh" /\ ResumeFiber(f) /\ UNCHANGED how
              \/ Alive(f) /\ at[f] = "fresh" /\ Ends("early_event") /\ UNCHANGED cur
              \/ ~Alive(f) /\ Ends(IF f = Null THEN "null_fiber" ELSE "dead_fiber")
                           /\ UNCHANGED cur
  /\ UNCHANGED <<ctlQueues, nconns, fibers, status, cmd, going, calls, lucky>>

\* Lines 153 and 174-176; the next round has a status of its own.
EndRound ==
  /\ pc = "scan" /\ Ready = {}
  /\ pc' = IF going THEN "front" ELSE "cleanup"
  /\ status' = "unset" /\ i' = 0
  /\ UNCHANGED <<wasio, from, cur, ctlQueues, nconns, fibers, cmd, going, calls, lucky, how>>

\* Lines 178-183.
CloseSocket ==
  /\ pc = "cleanup"
  /\ \/ at[Main] = "none" /\ Ends("double_free") /\ UNCHANGED wasio
     \/ at[Main] # "none" /\ Close(ServFd) /\ pc' = "finalize" /\ UNCHANGED how
  /\ UNCHANGED <<from, i, cur, ctlQueues, nconns, fibers, status, cmd, going, calls, lucky>>

FinalizeCtl ==
  /\ pc = "finalize" /\ Finalize /\ Ends("returned")
  /\ UNCHANGED <<from, i, cur, ctlQueues, nconns, fibers, status, cmd, going, calls, lucky>>

----------------------------------------------------------------------------
(* handle_request *)

Returned == IF cmd = "DONE" THEN "FIBER_OK" ELSE "FIBER_YIELD"

IsListener == own[cur] = ServFd

\* The status it is called with: after a poll, whatever status holds.  The
\* listener gives its connection away with waeio_async, or leaves it behind.
Handles(s) ==
  /\ pc = "handle"
  /\ s \in IF from = "front" THEN {Returned}
           ELSE IF status # "unset" THEN {status}
           ELSE {"FIBER_OK", "FIBER_ERROR", "FIBER_YIELD", "other"}
  /\ status' = IF from = "front" THEN Returned ELSE status
  /\ conn' = IF cmd = "ASYNC" \/ (s = "FIBER_OK" /\ IsListener) THEN NoFd ELSE conn
  /\ cmd' = "none" /\ UNCHANGED <<from, i, cur>>
Lucky(s, right) == lucky' = (lucky /\ s = Returned /\ right)
Back == pc' = from /\ UNCHANGED <<how, going>>

\* Lines 92-95: the fiber is freed, whether it has returned or not.
HandleOk ==
  /\ Handles("FIBER_OK") /\ Lucky("FIBER_OK", TRUE)
  /\ nconns' = (nconns - 1) % CountRange
  /\ at' = [at EXCEPT ![cur] = "none"] /\ own' = [own EXCEPT ![cur] = ServFd]
  /\ Back
  /\ UNCHANGED <<wasio, ctlQueues, fibers>>

\* Lines 97-99, and a value that is none of the three.
HandleOther ==
  /\ \/ Handles("FIBER_ERROR") /\ Ends("abort") /\ Lucky("FIBER_ERROR", TRUE) /\ UNCHANGED going
     \/ Handles("other") /\ Lucky("other", TRUE) /\ Back
  /\ UNCHANGED <<wasio, ctlQueues, nconns, fibers, at, own>>

\* Line 102 with the result of a fiber that returned: it is no command.
HandleNoCommand ==
  /\ cmd = "DONE" /\ Handles("FIBER_YIELD") /\ Lucky("FIBER_YIELD", TRUE)
  /\ Ends("no_command")
  /\ UNCHANGED <<wasio, ctlQueues, nconns, fibers, going, at, own>>

HandlesYield(tag, right) ==
  cmd = tag /\ Handles("FIBER_YIELD") /\ Lucky("FIBER_YIELD", right)

\* Mutant of HandleAsync: the case ends before the parent is queued.
AsyncWithoutParent ==
  /\ HandlesYield("ASYNC", TRUE)
  /\ \E f \in Fibers :
       /\ at[f] = "none"
       /\ at' = [at EXCEPT ![f] = "fresh"] /\ own' = [own EXCEPT ![f] = conn]
       /\ fibers' = [fibers EXCEPT ![conn] = f]
       /\ rearq' = <<f>> \o rearq
  /\ Back
  /\ UNCHANGED <<wasio, frontq, nconns>>

\* Mutant of HandleAsync: the child is not entered in ctl.fibers.
AsyncUnregistered ==
  /\ HandlesYield("ASYNC", TRUE)
  /\ \E f \in Fibers :
       /\ at[f] = "none"
       /\ at' = [at EXCEPT ![f] = "fresh"] /\ own' = [own EXCEPT ![f] = conn]
       /\ rearq' = <<cur, f>> \o rearq
  /\ Back
  /\ UNCHANGED <<wasio, frontq, nconns, fibers>>

\* Lines 104-112: the child and, falling through, the parent on top of it.
HandleAsync ==
  /\ HandlesYield("ASYNC", TRUE)
  /\ \/ \E f \in Fibers :
          /\ at[f] = "none"
          /\ at' = [at EXCEPT ![f] = "fresh"] /\ own' = [own EXCEPT ![f] = conn]
          /\ fibers' = [fibers EXCEPT ![conn] = f]
          /\ rearq' = <<cur, f>> \o rearq
     \/ /\ \A f \in Fibers : at[f] # "none"     \* fiber_alloc fails
        /\ fibers' = [fibers EXCEPT ![conn] = Null]
        /\ rearq' = <<cur, Null>> \o rearq
        /\ UNCHANGED <<at, own>>
  /\ Back
  /\ UNCHANGED <<wasio, frontq, nconns>>

\* Mutant of HandleSuspend: the fiber goes to the queue that is being run.
SuspendToFront ==
  /\ HandlesYield("SUSPEND", TRUE)
  /\ frontq' = <<cur>> \o frontq /\ Back
  /\ UNCHANGED <<wasio, rearq, nconns, fibers, at, own>>

\* A listener that suspends is still armed: an event resumes it while it is in
\* a queue, and it is queued once more.  Queues of MaxQueue end the run.
HandleSuspend ==
  /\ HandlesYield("SUSPEND", TRUE)
  /\ rearq' = <<cur>> \o rearq
  /\ IF Len(rearq) < MaxQueue THEN Back ELSE Ends("bound") /\ UNCHANGED going
  /\ UNCHANGED <<wasio, frontq, nconns, fibers, at, own>>

\* Lines 113-124: arg is any descriptor, or none of the table.
HandleIO ==
  /\ \/ \E v \in Vfds :
          /\ \/ HandlesYield("ACCEPT", v = own[cur]) /\ NotifyRecv(v)
             \/ HandlesYield("RECV", v = own[cur]) /\ NotifyRecv(v)
             \/ HandlesYield("SEND", v = own[cur]) /\ NotifySend(v)
          /\ Back
     \/ /\ \E tag \in {"ACCEPT", "RECV", "SEND"} : HandlesYield(tag, FALSE)
        /\ Ends("wild_write") /\ UNCHANGED <<wasio, going>>
  /\ UNCHANGED <<ctlQueues, nconns, fibers, at, own>>

\* Lines 125-126: the front loop still swaps and polls, the other returns.
HandleQuit ==
  /\ HandlesYield("QUIT", TRUE)
  /\ going' = FALSE
  /\ pc' = IF from = "front" THEN "front" ELSE "cleanup"
  /\ UNCHANGED <<wasio, ctlQueues, nconns, fibers, at, own, how>>
----------------------------------------------------------------------------
(* The calls of the fibers *)

Yield(tag, place) ==
  /\ pc' = "handle" /\ cmd' = tag
  /\ at' = [at EXCEPT ![cur] = place]
  /\ UNCHANGED <<from, i, cur, ctlQueues, nconns, fibers, status, going, own, lucky, how>>

GoOn == pc' = "run" /\ UNCHANGED <<from, i, cur, ctlQueues, nconns, fibers, status, cmd, going,
                                   at, own, lucky, how>>

\* waeio_accept, lines 197-202; waeio_recv, 228-233; waeio_send, 246-251.
CallIO ==
  /\ pc = "run"
  /\ \/ IsListener /\ conn = NoFd /\ Yield("ACCEPT", "accept")
     \/ ~IsListener /\ (Yield("RECV", "recv") \/ Yield("SEND", "send"))
  /\ UNCHANGED <<wasio, conn>>

\* Lines 211-213.
AcceptSuspends ==
  /\ pc = "accept" /\ nconns = Capacity
  /\ Yield("SUSPEND", "accept") /\ UNCHANGED <<wasio, conn>>

\* Lines 220-225: EAGAIN yields again, another error is returned.
AcceptConn ==
  /\ pc = "accept" /\ nconns # Capacity
  /\ Accept(own[cur]) /\ LowestFd
  /\ \/ ret' = "WASIO_OK" /\ conn' = NextEntry(fl) /\ GoOn
     \/ ret' = "WASIO_EAGAIN" /\ Yield("ACCEPT", "accept") /\ UNCHANGED conn
     \/ ret' \notin {"WASIO_OK", "WASIO_EAGAIN"} /\ GoOn /\ UNCHANGED conn

\* Lines 238-243 and 256-261.
TransferData ==
  /\ pc \in {"recv", "send"}
  /\ Transfer(own[cur])
  /\ \/ ret' # "WASIO_EAGAIN" /\ GoOn
     \/ ret' = "WASIO_EAGAIN" /\ Yield(IF pc = "recv" THEN "RECV" ELSE "SEND", pc)
  /\ UNCHANGED conn

\* waeio_async of a handler for the new connection.
CallAsync == pc = "run" /\ IsListener /\ conn # NoFd /\ Yield("ASYNC", "async")
                        /\ UNCHANGED <<wasio, conn>>

CancelAll == pc = "run" /\ Yield("QUIT", "quit") /\ UNCHANGED <<wasio, conn>>

\* A handler closes its descriptor before it returns.
Return ==
  /\ pc = "run"
  /\ IF IsListener THEN UNCHANGED wasio ELSE Close(own[cur])
  /\ Yield("DONE", "finished") /\ UNCHANGED conn

----------------------------------------------------------------------------
WaeioNext ==
  \/ RunReady \/ SwapAndPoll \/ ResumeReady \/ EndRound \/ CloseSocket \/ FinalizeCtl
  \/ HandleOk \/ HandleOther \/ HandleNoCommand \/ HandleAsync \/ HandleSuspend
  \/ HandleIO \/ HandleQuit
  \/ CallIO \/ AcceptSuspends \/ AcceptConn \/ TransferData \/ CallAsync \/ CancelAll \/ Return

WaeioSpec == WaeioInit /\ [][WaeioNext]_waeioVars

\* One thread, which goes on.
WaeioFairSpec == WaeioSpec /\ WF_waeioVars(WaeioNext)

----------------------------------------------------------------------------
WaeioTyped ==
  /\ pc \in {"front", "scan", "handle", "run", "accept", "recv", "send", "cleanup", "finalize",
             "ended"}
  /\ cur \in Fibers /\ i \in 0 .. Capacity /\ nconns \in 0 .. CountRange - 1
  /\ {frontq, rearq} \subseteq Seq(Fibers \union {Null, Junk})
  /\ own \in [Fibers -> Vfds] /\ conn \in Vfds \union {NoFd}
  /\ fibers \in [Vfds -> Fibers \union {Null}]

WaeioTypeOK == TypeOK /\ WaeioTyped

Live(f) == at[f] \notin {"none", "finished"}
Queued(f) == f \in ToSet(frontq) \union ToSet(rearq)
Busy(f) == cur = f /\ pc \in {"handle", "run", "accept", "recv", "send"}
Armed(v) == vfds[v].fd \in open /\ vfds[v].events # {}
Awaits(f) == at[f] \in {"accept", "recv", "send"} /\ fibers[own[f]] = f /\ Armed(own[f])

\* The scan stops at a count of descriptors, so it looks at this one, or it
\* passes it over because one below is free.
Scanned(v) == v < length
BehindGap(v) == ~Scanned(v) /\ \E u \in Vfds \ Allocated : u < v

\* A fiber is in nobody's hands while it is suspended but its own call's: as
\* long as no undefined value was a wrong one, each is in a queue, or it
\* cancelled everything, or its descriptor is open, armed and recorded as its
\* own, so that an event leads back to it as soon as no lower descriptor is
\* free (the calls 197-272, handle_request 104-126).
NoFiberLost ==
  /\ WaeioTypeOK
  /\ lucky /\ pc \notin {"cleanup", "finalize", "ended"} =>
       \A f \in Fibers : Live(f) =>
         \/ Queued(f) \/ Busy(f) \/ at[f] = "quit"
         \/ Awaits(f) /\ (Scanned(own[f]) \/ BehindGap(own[f]))

\* ctl.fibers is never cleared, and yet an event leads to a fiber that has been
\* freed, or to none, only after the listener itself returned, whose descriptor
\* stays open until the clean-up, or when it cancelled everything with a
\* connection in hand that has no fiber yet (94, 107, 149-151).
StaleFibersNotResumed ==
  lucky /\ how \in {"dead_fiber", "null_fiber"} =>
    at[Main] = "none" \/ (at[Main] = "quit" /\ conn # NoFd)

\* No fiber keeps the others from their events: every call yields before it
\* tries, and what yields runs again after the next poll (138-148, 202-243).
PollsForEver == <>Ended \/ []<>(pc = "scan")

\* What is left of the loop of run_next that the thread is in, and of the call
\* of the fiber that it has resumed.
Loop == IF pc \in {"front", "scan"} THEN pc ELSE from
InCall == CASE pc \in {"accept", "recv", "send"} -> 3
            [] pc = "run" -> 2
            [] pc = "handle" -> 1
            [] OTHER -> 0
ToGo == 4 * (IF Loop = "front" THEN Len(frontq) ELSE Capacity - i) + InCall

\* Why polls come: within either loop each step brings its end closer, whatever
\* the fibers call and with every undefined value, since what is queued goes to
\* the queue that is not being run (108, 111, 144).
RoundsAreBounded ==
  [][pc \notin {"cleanup", "finalize"} /\ pc' \notin {"cleanup", "ended"} /\ Loop' = Loop
       => ToGo' < ToGo]_waeioVars

\* A fiber in a queue runs again, whatever the other fibers do and however the
\* two stacks are ordered, unless the program ends (138-144).
QueuedFibersRunAgain == \A f \in Fibers : Queued(f) ~> (Busy(f) \/ Ended)

\* "Keep suspending if there is insufficient space to accept new connections"
\* (209-210): wasio_accept is not called on a full table.
NoAcceptWhenFull == lucky /\ pc = "accept" /\ IsFull(fl) => nconns = Capacity
=============================================================================

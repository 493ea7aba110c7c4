---------------------------- MODULE EchoServer ----------------------------
(***************************************************************************)
(* The echo server src/examples/echoserver/echoserver.c over the virtual    *)
(* descriptors of wasio_host.c.  Each call into WASIO is a step.  A client   *)
(* is sent back what it sent, unless that is "quit"; what could not be sent  *)
(* at once waits in a buffer for the next event of the descriptor.           *)
(***************************************************************************)
EXTENDS WasioProgram

CONSTANT MaxCount   \* bound: no client connects once nclients is this

ASSUME MaxCountAssumption == MaxCount \in Nat

VARIABLES nclients,
          buffers     \* "null", "own", or "old": what an earlier client sent

\* conn is clientfd, until it is registered.
echoVars == <<wasio, pc, i, cur, conn, nclients, buffers, how>>

\* After lines 17-28: the listening socket is armed.
EchoInit ==
  /\ Listens({pollin}, {"recv"})
  /\ pc = "poll" /\ i = 0 /\ cur = NoFd /\ conn = NoFd
  /\ nclients = 0 /\ buffers = [v \in Vfds |-> "null"] /\ how = "not"

----------------------------------------------------------------------------
\* Lines 34-38.
PollEvents ==
  /\ pc = "poll" /\ Poll
  /\ nclients >= MaxCount => vfds'[ServFd].revents = {}
  /\ GoesTo(IF ret' = "WASIO_OK" THEN "scan" ELSE "cleanup")
  /\ i' = 0
  /\ UNCHANGED <<cur, conn, nclients, buffers>>

\* Lines 40-42, 51 and 77: what an event means is read off the buffer.
HandleEvent ==
  /\ pc = "scan"
  /\ \E v \in Vfds :
       /\ TakesEvent(v) /\ i' = v + 1 /\ cur' = v
       /\ GoesTo(IF v = ServFd THEN "accept" ELSE IF buffers[v] = "null" THEN "recv" ELSE "rest")
  /\ UNCHANGED <<conn, nclients, buffers>>

ScanDone ==
  /\ pc = "scan" /\ Ready = {}
  /\ GoesTo("poll") /\ i' = 0 /\ cur' = NoFd
  /\ UNCHANGED <<wasio, conn, nclients, buffers>>

----------------------------------------------------------------------------
\* Lines 44-48: an accept that would block is no better than one that fails.
AcceptClient ==
  /\ pc = "accept" /\ Accept(ServFd) /\ LowestFd
  /\ \/ /\ ret' = "WASIO_OK" /\ GoesTo("accepted")
        /\ conn' = NextEntry(fl) /\ nclients' = nclients + 1
     \/ ret' # "WASIO_OK" /\ Ends("abort") /\ UNCHANGED <<conn, nclients>>
  /\ UNCHANGED <<i, cur, buffers>>

\* Line 49; line 50 arms what is armed already.
RegisterClient ==
  /\ pc = "accepted" /\ NotifyRecv(conn)
  /\ GoesTo("scan") /\ conn' = NoFd
  /\ UNCHANGED <<i, cur, nclients, buffers>>

\* Lines 52-58.  A client that is gone sends nothing, and then what malloc
\* left in the buffer is compared with "quit".
ReceiveData ==
  /\ pc = "recv" /\ Transfer(cur)
  /\ buffers' = [buffers EXCEPT ![cur] = "own"]
  /\ \/ ret' = "WASIO_OK" /\ (GoesTo("send") \/ GoesTo("closing"))
     \/ ret' # "WASIO_OK" /\ Ends("abort")
  /\ UNCHANGED <<i, cur, conn, nclients>>

\* Lines 65-75.  Nothing returns WASIO_ERROR with EAGAIN, so the branch of
\* line 67 is not there; a send that would block closes like any failure.
Echo ==
  /\ pc = "send" /\ Transfer(cur)
  /\ \/ ret' = "WASIO_OK" /\ GoesTo("partial")
     \/ GoesTo("close")
  /\ UNCHANGED <<i, cur, conn, nclients, buffers>>

\* Mutant of SendPartial: the descriptor is not armed for the rest.
SendPartialUnarmed ==
  /\ pc = "partial" /\ GoesTo("scan")
  /\ UNCHANGED <<wasio, i, cur, conn, nclients, buffers>>

\* Lines 71-74.
SendPartial ==
  /\ pc = "partial" /\ NotifySend(cur)
  /\ GoesTo("scan")
  /\ UNCHANGED <<i, cur, conn, nclients, buffers>>

\* Mutant of CloseEchoed: the client is counted down, its buffer still kept.
CloseEchoedCounted ==
  /\ pc = "close" /\ Close(cur)
  /\ buffers' = [buffers EXCEPT ![cur] = "old"] /\ nclients' = nclients - 1
  /\ GoesTo("scan")
  /\ UNCHANGED <<i, cur, conn>>

\* Line 75: neither the buffer nor the count is touched.
CloseEchoed ==
  /\ pc = "close" /\ Close(cur)
  /\ buffers' = [buffers EXCEPT ![cur] = "old"]
  /\ GoesTo("scan")
  /\ UNCHANGED <<i, cur, conn, nclients>>

\* Lines 78-83.
SendRest ==
  /\ pc = "rest" /\ Transfer(cur)
  /\ \/ /\ ret' = "WASIO_OK" /\ GoesTo("sent")
        /\ buffers' = [buffers EXCEPT ![cur] = "null"]
     \/ ret' # "WASIO_OK" /\ Ends("abort") /\ UNCHANGED buffers
  /\ UNCHANGED <<i, cur, conn, nclients>>

\* Lines 84-85.
CloseSent ==
  /\ pc = "sent" /\ Close(cur)
  /\ nclients' = nclients - 1 /\ GoesTo("scan")
  /\ UNCHANGED <<i, cur, conn, buffers>>

----------------------------------------------------------------------------
\* Mutant of CloseNext: the count goes down for a close that succeeds.
CloseNextUntilRefused ==
  /\ pc = "closing" /\ nclients > 0 /\ nclients \in Vfds
  /\ Close(nclients) /\ nclients' = IF ret' = "WASIO_OK" THEN nclients - 1 ELSE nclients
  /\ UNCHANGED <<pc, i, cur, conn, buffers, how>>

\* Lines 60-62: the count is taken for the highest descriptor.  Past the table
\* there is no promise: the host may refuse what is read there for a descriptor.
CloseNext ==
  /\ pc = "closing" /\ nclients > 0
  /\ nclients' = nclients - 1
  /\ \/ nclients \in Vfds /\ Close(nclients) /\ UNCHANGED <<pc, how>>
     \/ nclients \notin Vfds /\ UNCHANGED <<wasio, pc, how>>
     \/ nclients \notin Vfds /\ Ends("wild_close") /\ UNCHANGED wasio
  /\ UNCHANGED <<i, cur, conn, buffers>>

\* Lines 59 and 63.
AllClosed ==
  /\ pc = "closing" /\ nclients = 0
  /\ GoesTo("cleanup")
  /\ UNCHANGED <<wasio, i, cur, conn, nclients, buffers>>

\* Lines 123-124.
CloseListener ==
  /\ pc = "cleanup" /\ Close(ServFd)
  /\ GoesTo("finalize")
  /\ UNCHANGED <<i, cur, conn, nclients, buffers>>

FinalizeTable ==
  /\ pc = "finalize" /\ Finalize
  /\ Ends("returned")
  /\ UNCHANGED <<i, cur, conn, nclients, buffers>>

EchoNext ==
  \/ PollEvents \/ HandleEvent \/ ScanDone
  \/ AcceptClient \/ RegisterClient \/ ReceiveData \/ Echo \/ SendPartial \/ CloseEchoed
  \/ SendRest \/ CloseSent
  \/ CloseNext \/ AllClosed \/ CloseListener \/ FinalizeTable

EchoSpec == EchoInit /\ [][EchoNext]_echoVars

\* One thread, which goes on.
EchoFairSpec == EchoSpec /\ WF_echoVars(EchoNext)

----------------------------------------------------------------------------
EchoTyped ==
  /\ pc \in {"poll", "scan", "accept", "accepted", "recv", "send", "partial", "close", "rest",
             "sent", "closing", "cleanup", "finalize", "ended"}
  /\ i \in 0 .. Capacity /\ {cur, conn} \subseteq Vfds \union {NoFd}
  /\ nclients \in Nat /\ buffers \in [Vfds -> {"null", "own", "old"}]

EchoTypeOK == TypeOK /\ EchoTyped

Between == pc \in {"poll", "scan"}
Stale == {v \in Vfds : buffers[v] = "old"}

\* Each client that was echoed at once stays in nclients for good, and each
\* buffer left behind is such a client's: the next client on the descriptor is
\* sent that buffer and is counted down for itself (75 against 77-85).
StaleBuffersCounted ==
  /\ EchoTypeOK
  /\ Between => Cardinality(Stale) <= nclients - Cardinality(Connections)

\* A connection whose own data waits was registered for sending, one without a
\* buffer for receiving, and a descriptor without a connection has no buffer
\* but a stale one (49, 71-74, 82-84).
InterestMatchesBuffer ==
  Between => \A v \in Vfds \ {ServFd} :
               /\ buffers[v] = "own" => v \in Connections /\ "send" \in wants[v]
               /\ v \in Connections => "recv" \in wants[v]

\* Once a client has said quit the program ends, whatever closes are refused.
QuitEnds == pc = "closing" ~> Ended

\* From outside, the server is one of connections, which has all of the table
\* for them.  It forgets none, but it may return with some still open.
EchoEnding == pc \in {"closing", "cleanup", "finalize", "ended"}
EchoClients == INSTANCE ConnectionServer WITH
  Conns <- Vfds \ {ServFd}, Places <- Capacity - 1, MayForget <- TRUE,
  watched <- Connections, lost <- {},
  ending <- EchoEnding, stopped <- how = "returned"
EchoImplementsServer == EchoClients!Spec
=============================================================================

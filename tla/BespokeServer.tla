---------------------------- MODULE BespokeServer ----------------------------
(***************************************************************************)
(* The HTTP server of src/examples/httpserver/httpserver_bespoke.c: one     *)
(* loop that polls, accepts and serves, without fibers.  Every system call  *)
(* is a step of its own, so the clients act between any two of them.        *)
(***************************************************************************)
EXTENDS PollArray

CONSTANT Capacity   \* MAX_CONNECTIONS, the length of the array

ASSUME CapacityAssumption == Capacity \in Nat \ {0}

VARIABLES
  arr,            \* the array: nfds is its length
  pc,             \* poll, scan, accept, recv, send, close, compress, cleanup, or stopped
  i,              \* the loop index
  current_size,   \* nfds when the scan began
  end_server, compress_array, close_conn

serverVars == <<arr, pc, i, current_size, end_server, compress_array, close_conn>>
vars == <<sockVars, serverVars>>

\* overrun: a write past the array; killed: a SIGPIPE in the driver.
Stopped == {"exited", "killed", "overrun"}
Running == pc \notin Stopped

Goto(l) == pc' = l /\ i' = i

Init == /\ SocketsInit
        /\ arr = WithSlot([length |-> 0, fds |-> <<>>], ListenFd)
        /\ pc = "poll" /\ i = 0 /\ current_size = 0
        /\ end_server = FALSE /\ compress_array = FALSE /\ close_conn = FALSE

----------------------------------------------------------------------------
Poll == /\ pc = "poll" /\ ReadySlots(arr) # {}
        /\ arr' = Polled(arr)
        /\ current_size' = arr.length
        /\ pc' = "scan" /\ i' = 0
        /\ UNCHANGED <<sockVars, end_server, compress_array, close_conn>>

\* The timeout ran out, or poll() failed.
PollGivesUp == /\ pc = "poll"
               /\ pc' = "cleanup" /\ i' = 0
               /\ UNCHANGED <<sockVars, arr, current_size, end_server, compress_array, close_conn>>

Current == arr.fds[i + 1]

\* Mutant of NextSlot: the scan stops one slot early.
NextSlotButLast == i' = i + 1 /\ pc' = IF i + 2 < current_size THEN "scan" ELSE "compress"

NextSlot == i' = i + 1 /\ pc' = IF i + 1 < current_size THEN "scan" ELSE "compress"

SkipSlot == /\ pc = "scan" /\ Current.revents = {}
            /\ NextSlot
            /\ UNCHANGED <<sockVars, arr, current_size, end_server, compress_array, close_conn>>

\* Events without POLLIN: the server gives up and leaves the scan.
BadEvent == /\ pc = "scan" /\ Current.revents # {} /\ "POLLIN" \notin Current.revents
            /\ end_server' = TRUE
            /\ Goto("compress")
            /\ UNCHANGED <<sockVars, arr, current_size, compress_array, close_conn>>

Readable == /\ pc = "scan" /\ "POLLIN" \in Current.revents
            /\ IF Current.fd = ListenFd
                 THEN Goto("accept") /\ UNCHANGED close_conn
                 ELSE Goto("recv") /\ close_conn' = FALSE
            /\ UNCHANGED <<sockVars, arr, current_size, end_server, compress_array>>

----------------------------------------------------------------------------
(* The listener: accept until nothing is waiting.  The array is not asked   *)
(* whether it has room.                                                     *)

Accept == /\ pc = "accept"
          /\ \E f \in ConnFds :
               /\ HostAccept(f)
               /\ IF arr.length < Capacity
                    THEN arr' = WithSlot(arr, f) /\ Goto("accept")
                    ELSE UNCHANGED arr /\ Goto("overrun")
          /\ UNCHANGED <<current_size, end_server, compress_array, close_conn>>

AcceptsDone == /\ pc = "accept" /\ NoneWaiting
               /\ NextSlot
               /\ UNCHANGED <<sockVars, arr, current_size, end_server, compress_array, close_conn>>

AcceptFails == /\ pc = "accept" /\ HostAcceptError
               /\ end_server' = TRUE
               /\ NextSlot
               /\ UNCHANGED <<arr, current_size, compress_array, close_conn>>

----------------------------------------------------------------------------
(* A connection: receive and answer until recv would block or fails.        *)

\* Nothing is there to read.
Drained == /\ pc = "recv" /\ RecvAnswer(Current.fd) = "EAGAIN"
           /\ Goto("close")
           /\ UNCHANGED <<sockVars, arr, current_size, end_server, compress_array, close_conn>>

LosesPeer == /\ pc = "recv" /\ RecvAnswer(Current.fd) \in {"eof", "ECONNRESET", "EBADF"}
             /\ close_conn' = TRUE
             /\ Goto("close")
             /\ UNCHANGED <<sockVars, arr, current_size, end_server, compress_array>>

\* Only GET /quit does more than make the server answer.
Receives == /\ pc = "recv" /\ RecvAnswer(Current.fd) = "data"
            /\ HostRecvData(Current.fd)
            /\ LET quit == Head(sock[Current.fd].rx) = "quit"
               IN  close_conn' = (close_conn \/ quit) /\ end_server' = (end_server \/ quit)
            /\ Goto("send")
            /\ UNCHANGED <<arr, current_size, compress_array>>

Sends == /\ pc = "send" /\ Goto("recv")
         /\ UNCHANGED <<sockVars, arr, current_size, end_server, compress_array, close_conn>>

\* The peer is gone, or does not read and its buffers are full.
SendFails == /\ pc = "send"
             /\ close_conn' = TRUE
             /\ Goto("close")
             /\ UNCHANGED <<sockVars, arr, current_size, end_server, compress_array>>

\* Sending to a connection that was reset may raise SIGPIPE in the driver.
SendKills == /\ pc = "send" /\ sock[Current.fd].peer = "rst"
             /\ Goto("killed")
             /\ UNCHANGED <<sockVars, arr, current_size, end_server, compress_array, close_conn>>

\* Mutants of CloseConn: no compaction is asked for; the descriptor is not closed.
CloseWith(close, mark) ==
  /\ pc = "close"
  /\ IF close_conn
       THEN /\ IF close THEN HostClose(Current.fd) ELSE UNCHANGED sockVars
            /\ arr' = [arr EXCEPT !.fds[i + 1].fd = NoFd]
            /\ compress_array' = mark
       ELSE UNCHANGED <<sockVars, arr, compress_array>>
  /\ NextSlot
  /\ UNCHANGED <<current_size, end_server, close_conn>>

CloseUnmarked   == CloseWith(TRUE, compress_array)
CloseNotClosing == CloseWith(FALSE, TRUE)

\* The clean-up after a connection was served.
CloseConn == /\ pc = "close"
             /\ IF close_conn
                  THEN /\ HostClose(Current.fd)
                       /\ arr' = [arr EXCEPT !.fds[i + 1].fd = NoFd]
                       /\ compress_array' = TRUE
                  ELSE UNCHANGED <<sockVars, arr, compress_array>>
             /\ NextSlot
             /\ UNCHANGED <<current_size, end_server, close_conn>>

----------------------------------------------------------------------------
\* Mutant of Compress: end_server is not looked at.
CompressForever ==
  /\ pc = "compress"
  /\ arr' = IF compress_array THEN Compacted(arr) ELSE Unpolled(arr)
  /\ compress_array' = FALSE
  /\ pc' = "poll" /\ i' = 0 /\ current_size' = 0
  /\ UNCHANGED <<sockVars, end_server, close_conn>>

Compress == /\ pc = "compress"
            /\ arr' = IF compress_array THEN Compacted(arr) ELSE Unpolled(arr)
            /\ compress_array' = FALSE
            /\ pc' = (IF end_server THEN "cleanup" ELSE "poll") /\ i' = 0 /\ current_size' = 0
            /\ UNCHANGED <<sockVars, end_server, close_conn>>

\* Mutant of Cleanup: the last slot is left out.
CleanupButLast == /\ pc = "cleanup" /\ i < arr.length
                  /\ IF i + 1 < arr.length /\ Current.fd >= 0 THEN HostClose(Current.fd)
                                                             ELSE UNCHANGED sockVars
                  /\ i' = i + 1
                  /\ UNCHANGED <<arr, pc, current_size, end_server, compress_array, close_conn>>

\* After the loop every descriptor in the array is closed.
Cleanup == /\ pc = "cleanup" /\ i < arr.length
           /\ IF Current.fd >= 0 THEN HostClose(Current.fd) ELSE UNCHANGED sockVars
           /\ i' = i + 1
           /\ UNCHANGED <<arr, pc, current_size, end_server, compress_array, close_conn>>

Exit == /\ pc = "cleanup" /\ i >= arr.length
        /\ Goto("exited")
        /\ UNCHANGED <<sockVars, arr, current_size, end_server, compress_array, close_conn>>

MainNext == \/ Poll \/ PollGivesUp \/ SkipSlot \/ BadEvent \/ Readable
            \/ Accept \/ AcceptsDone \/ AcceptFails
            \/ Drained \/ LosesPeer \/ Receives \/ Sends \/ SendFails \/ SendKills
            \/ CloseConn \/ Compress \/ Cleanup \/ Exit

EnvNext == Running /\ NetworkNext /\ UNCHANGED serverVars

Next == MainNext \/ EnvNext

Spec == Init /\ [][Next]_vars

\* The server's single thread is scheduled again and again.
FairSpec == Spec /\ WF_vars(MainNext)

----------------------------------------------------------------------------
\* The scan stays within the array.
TypeOK ==
  /\ SocketsTypeOK /\ ArrayTypeOK(arr)
  /\ pc \in {"poll", "scan", "accept", "recv", "send", "close", "compress",
             "cleanup"} \union Stopped
  /\ i \in Nat /\ current_size \in 0 .. Len(arr.fds)
  /\ pc \in {"scan", "accept", "recv", "send", "close"} => i < current_size
  /\ end_server \in BOOLEAN /\ compress_array \in BOOLEAN /\ close_conn \in BOOLEAN

InLoop == pc \in {"poll", "scan", "accept", "recv", "send", "close", "compress"}

\* No connection is forgotten and none is listed twice: through accepts,
\* closes and compactions the descriptors in the array are exactly the open
\* ones, each in one slot.  A server that keeps this closes what it accepts.
\* When main polls there is no gap, so the length is the number it watches.
ArrayIsOpenSet ==
  /\ TypeOK
  /\ pc = "poll" => /\ Len(arr.fds) = arr.length
                    /\ \A k \in DOMAIN arr.fds : arr.fds[k].fd # NoFd
  /\ InLoop =>
    /\ {arr.fds[k].fd : k \in DOMAIN arr.fds} \ {NoFd} = {f \in Fds : IsOpen(f)}
    /\ \A j, k \in DOMAIN arr.fds : arr.fds[j].fd = arr.fds[k].fd /\ j # k => arr.fds[j].fd = NoFd

\* With fewer descriptors to hand out than slots to fill, the accepts, which
\* do not look at the capacity, never write past the array.
NeverOverruns == Cardinality(ConnFds) < Capacity => pc # "overrun"

\* Seen from outside the server accepts into free places, closes one
\* connection at a time, forgets none, accepts nothing once it is to end and
\* exits when every connection is closed.
Watched == {arr.fds[k].fd : k \in DOMAIN arr.fds} \intersect OpenConns
Abstract == INSTANCE ConnectionServer
  WITH Conns <- ConnFds, Places <- Capacity - 1, MayForget <- FALSE,
       watched <- Watched, lost <- OpenConns \ Watched,
       ending <- end_server \/ ~InLoop, stopped <- pc = "exited"
ImplementsConnectionServer == Abstract!Spec

\* After GET /quit or a failed accept the server stops, unless a client keeps
\* it in the request loop of one connection for ever.
ShutdownCompletes ==
  []<>(pc \notin {"recv", "send"}) => (end_server ~> ~Running)

\* As long as main keeps coming back to poll, a request waiting on an open
\* connection is received, or the connection or the server ends.
Waiting(f) == InLoop /\ ~end_server /\ IsOpen(f) /\ sock[f].rx # <<>>
RequestsReceived ==
  []<>(pc = "poll") => \A f \in ConnFds : Waiting(f) ~> ~Waiting(f)
=============================================================================

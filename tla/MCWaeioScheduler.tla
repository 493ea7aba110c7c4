-------------------------- MODULE MCWaeioScheduler --------------------------
(* Bounds for WaeioScheduler: a listener and two handlers. *)
EXTENDS WaeioScheduler

MCHostFds == 5 .. 8
MCFibers == 0 .. 2

\* The scheduler asks only whether a descriptor has an event, so one kind of
\* event for each descriptor is enough.
OneKindOfEvent ==
  pc = "front" /\ pc' = "scan" =>
    \A v \in Vfds :
      vfds'[v].revents \in {{}, IF vfds[v].events = {} THEN {"POLLHUP"} ELSE {"POLLIN"}}

\* Two handlers as long as each undefined value is the intended one, and one
\* handler, with no entry but its own and the listener's in use, after that.
LuckyOrOneHandler ==
  lucky \/ (length <= 2 /\ at[2] = "none" /\ vfds[2].fd = NoFd /\ vfds[2].events = {})
=============================================================================

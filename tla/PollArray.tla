----------------------------- MODULE PollArray -----------------------------
(***************************************************************************)
(* The array of struct pollfd that each server of src/ keeps: a length and  *)
(* the slots, all polled for POLLIN.  A new descriptor goes to the slot at  *)
(* length; a slot whose descriptor is gone holds -1 until a compaction.     *)
(* Slot i of the C array is element i + 1 of the sequence; slots that were  *)
(* not written since the last compaction are not kept.                      *)
(***************************************************************************)
EXTENDS HostSockets

NoFd == -1

Slot(f) == [fd |-> f, revents |-> {}]

SlotType == [fd : Fds \union {NoFd},
             revents : SUBSET {"POLLIN", "POLLHUP", "POLLERR", "POLLNVAL"}]

\* Write slot n of an array of which the first Len(s) slots are kept.
PutAt(s, n, x) == IF n < Len(s) THEN [s EXCEPT ![n + 1] = x] ELSE Append(s, x)

\* w->fds[w->length++] = { fd, POLLIN, 0 }
WithSlot(w, f) == [length |-> w.length + 1, fds |-> PutAt(w.fds, w.length, Slot(f))]

\* host_poll: the slots below length get what the kernel reports.
Polled(w) == [w EXCEPT !.fds = [k \in DOMAIN w.fds |->
                IF k <= w.length THEN [w.fds[k] EXCEPT !.revents = Revents(w.fds[k].fd)]
                                 ELSE w.fds[k]]]

ReadySlots(w) == {k \in DOMAIN w.fds : k <= w.length /\ Revents(w.fds[k].fd) # {}}

\* The compaction loop shifts the slots behind a gap down and shortens
\* length, so of the first length slots the ones without a gap remain.  The
\* slots from the new length on are dead: the next access to one is the write
\* of an accept.  So are revents, which the next poll overwrites.
Kept(w) == {k \in 1 .. w.length : w.fds[k].fd # NoFd}

\* The slot that ends up at position n.
KeptAt(w, n) == CHOOSE k \in Kept(w) : Cardinality({j \in Kept(w) : j <= k}) = n

Compacted(w) ==
  LET length == Cardinality(Kept(w))
  IN  [length |-> length, fds |-> [n \in 1 .. length |-> Slot(w.fds[KeptAt(w, n)].fd)]]

\* A round without a compaction.
Unpolled(w) == [w EXCEPT !.fds = [k \in DOMAIN @ |-> Slot(@[k].fd)]]

ArrayTypeOK(w) == /\ w.length \in Nat
                  /\ w = [length |-> w.length, fds |-> w.fds]
                  /\ w.fds \in Seq(SlotType)
=============================================================================

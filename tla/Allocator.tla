----------------------------- MODULE Allocator -----------------------------
(***************************************************************************)
(* What a freelist promises its callers (src/inc/freelist.h and             *)
(* src/test/freelist_tests.c): a pool of the numbers below size, each with  *)
(* at most one holder.  next hands out the least number nobody holds and    *)
(* says FREELIST_FULL exactly when there is none.                           *)
(***************************************************************************)
EXTENDS Integers

VARIABLES size,   \* number of elements managed; 0 when there is no pool
          held,   \* the numbers handed out and not given back
          out     \* what the last call returned: its result code and entry

vars == <<size, held, out>>

NoEntry == -1

Free == {e \in 0 .. size - 1 : e \notin held}

Init == size = 0 /\ held = {} /\ out = <<"none", NoEntry>>

\* A new pool has no holders.
Create == /\ size = 0
          /\ size' \in Nat \ {0}
          /\ held' = {}
          /\ out' = <<"OK", NoEntry>>

\* A call that fails changes nothing but the result code.
Fail == /\ out'[1] \in {"SIZE_ERR", "MEM_ERR", "OB_ENTRY"}
        /\ UNCHANGED <<size, held>>

Allocate == /\ Free # {}
            /\ \E e \in Free : /\ \A f \in Free : e <= f
                               /\ held' = held \union {e}
                               /\ out' = <<"OK", e>>
            /\ UNCHANGED size

Full == /\ size > 0 /\ Free = {}
        /\ out' = <<"FULL", NoEntry>>
        /\ UNCHANGED <<size, held>>

Release == /\ \E e \in 0 .. size - 1 : held' = held \ {e}
           /\ out' = <<"OK", NoEntry>>
           /\ UNCHANGED size

\* The pool shrinks or grows; nobody loses or gains an entry by it.
Resize == /\ size > 0
          /\ size' \in Nat \ {0}
          /\ out' = <<"OK", NoEntry>>
          /\ UNCHANGED held

\* The pool is gone, and with it every entry.
Destroy == size > 0 /\ size' = 0 /\ held' = {} /\ out'[2] = NoEntry

Next == Create \/ Fail \/ Allocate \/ Full \/ Release \/ Resize \/ Destroy

Spec == Init /\ [][Next]_vars
=============================================================================

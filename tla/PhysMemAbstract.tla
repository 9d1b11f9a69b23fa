-------------------------- MODULE PhysMemAbstract --------------------------
(***************************************************************************)
(* What a physical-page allocator promises, independent of how it keeps   *)
(* its free space (a bitmap in src/os/physmemmanager.cc, a hole list in   *)
(* src/pagetables-base-2024/os/physmemmanager.cc).                        *)
(*                                                                         *)
(*  - free is the set of free page indices;                                *)
(*  - allocs is the set of outstanding allocations, as the caller holds    *)
(*    them (start page and page count), and a caller only ever releases    *)
(*    one of them, whole;                                                  *)
(*  - result is what the last allocatePages call returned.                 *)
(*                                                                         *)
(* An allocation of c pages succeeds, at some run of c free pages, exactly *)
(* when such a run exists: no allocator may report out-of-memory while a   *)
(* contiguous free run of the requested size is there.  Which run it picks *)
(* is left open.                                                           *)
(***************************************************************************)
EXTENDS Naturals

CONSTANTS
    NPages,   \* number of pages of "physical" memory (memorySize / pageSize)
    Counts    \* page counts a caller may request

ASSUME NPages \in Nat \ {0}
ASSUME Counts \subseteq Nat \ {0}

VARIABLES free, allocs, result

vars == <<free, allocs, result>>

Pages == 0 .. NPages - 1

Run(s, c) == s .. s + c - 1

Allocation == [start : Pages, count : Counts]

\* The value of result before the first call.
NoCall == [ok |-> FALSE, start |-> 0, count |-> 0]

Init ==
    /\ free = Pages
    /\ allocs = {}
    /\ result = NoCall

Allocate(c) ==
    LET Fits == {s \in Pages : Run(s, c) \subseteq free} IN
    \/ \E s \in Fits :
          /\ free' = free \ Run(s, c)
          /\ allocs' = allocs \cup {[start |-> s, count |-> c]}
          /\ result' = [ok |-> TRUE, start |-> s, count |-> c]
    \/ /\ Fits = {}
       /\ result' = [ok |-> FALSE, start |-> 0, count |-> c]
       /\ UNCHANGED <<free, allocs>>

Release(a) ==
    /\ a \in allocs
    /\ free' = free \cup Run(a.start, a.count)
    /\ allocs' = allocs \ {a}
    /\ UNCHANGED result

Next ==
    \/ \E c \in Counts : Allocate(c)
    \/ \E a \in allocs : Release(a)

Spec == Init /\ [][Next]_vars

=============================================================================

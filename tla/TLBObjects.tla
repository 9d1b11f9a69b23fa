----------------------------- MODULE TLBObjects -----------------------------
(***************************************************************************)
(* Several TLB objects of src/unnamed/part_004, one after another, as the  *)
(* unit tests construct them (TLB tlb(4, mmu); ... TLB tlb(2, mmu); ...).  *)
(*                                                                         *)
(* tlbEntries, lruOrder and tlbInitialized are file-scope statics: they    *)
(* outlive the object that filled them.  nEntries and the statistics are   *)
(* members: each new object starts with its own nEntries and zero counts.  *)
(* The vector is sized once, by the first object that uses it; a later     *)
(* object scans only its own nEntries slots, while lruOrder still lists    *)
(* the slots an earlier object used.                                       *)
(*                                                                         *)
(* The operations are those of TLB, instanced with the live object's       *)
(* nEntries.                                                               *)
(*                                                                         *)
(* An object with more entries than the vector already has indexes past   *)
(* its end (undefined behaviour) unless the scan stops first: a lookup    *)
(* that hits, or an add that finds an empty slot, inside the vector.  The  *)
(* methods are steps only when they stay in bounds; a caller models the   *)
(* rest.                                                                   *)
(***************************************************************************)
EXTENDS Naturals, FiniteSets

CONSTANTS
    Sizes,         \* the nEntries the tests pass to the constructor
    VPages, PPages, ASIDs, ASID0, VPage0, PPage0, NoPage,
    MaxStat        \* cap on each statistics counter of one object

VARIABLES
    tlbEntries, lruOrder, tlbInitialized, currentASID,
    nLookups, nHits, nEvictions, nFlush, nFlushEvictions, out,
    nEntries       \* member of the live object

tlbVars == <<tlbEntries, lruOrder, tlbInitialized, currentASID,
             nLookups, nHits, nEvictions, nFlush, nFlushEvictions, out>>

vars == <<tlbVars, nEntries>>

\* The unit tests call add directly, not only after a missed lookup.
Obj(n) == INSTANCE TLB WITH NEntries <- n, AddAfterMiss <- FALSE

Init == \E n \in Sizes : nEntries = n /\ Obj(n)!Init

\* The live object's slots are inside the vector (or it is not sized yet).
Fits == ~tlbInitialized \/ nEntries <= Cardinality(DOMAIN tlbEntries)

\* The slots the vector really has (the nEntries of the object that sized it).
VecSize == Cardinality(DOMAIN tlbEntries)

\* A method as on an object of the vector's size.
OnVec(A(_)) == \E m \in Sizes : m = VecSize /\ A(m)

\* A call of an object that does not fit stays inside the vector only when
\* its scan stops before the end: lookup at a matching slot, add at an
\* empty one.  flush always scans all nEntries slots.
LookupInBounds(v) == Fits \/ OnVec(LAMBDA m : Obj(m)!Matches(v) # {})
AddInBounds == Fits \/ \E i \in DOMAIN tlbEntries : ~tlbEntries[i].valid
FlushInBounds == Fits

\* TLB(nEntries, mmu): the previous object is gone; the new one has its
\* own nEntries, zero statistics and a member currentASID of 0.  The
\* statics keep what earlier objects left in them.
Construct(n) ==
    /\ nEntries' = n
    /\ nLookups' = 0 /\ nHits' = 0 /\ nEvictions' = 0
    /\ nFlush' = 0 /\ nFlushEvictions' = 0
    /\ out' = [hit |-> FALSE, pPage |-> NoPage]
    /\ UNCHANGED <<tlbEntries, lruOrder, tlbInitialized, currentASID>>

\* The methods act through the live object: Obj(n) with n its nEntries.
\* On an object that does not fit, a call that stays in bounds acts as on
\* an object of the vector's size: the scan stops at the same slot.
LookupH(v) ==
    /\ \/ Fits /\ \E n \in Sizes : n = nEntries /\ Obj(n)!Lookup(v)
       \/ ~Fits /\ LookupInBounds(v) /\ OnVec(LAMBDA m : Obj(m)!Lookup(v))
    /\ UNCHANGED nEntries

AddH(v, p) ==
    /\ \/ Fits /\ \E n \in Sizes : n = nEntries /\ Obj(n)!Add(v, p)
       \/ ~Fits /\ AddInBounds /\ OnVec(LAMBDA m : Obj(m)!Add(v, p))
    /\ UNCHANGED nEntries

FlushH ==
    /\ FlushInBounds
    /\ \E n \in Sizes : n = nEntries /\ Obj(n)!Flush
    /\ UNCHANGED nEntries

\* clear calls flush first.
ClearH ==
    /\ FlushInBounds
    /\ \E n \in Sizes : n = nEntries /\ Obj(n)!Clear
    /\ UNCHANGED nEntries

Next ==
    \/ \E n \in Sizes : Construct(n)
    \/ \E v \in VPages : LookupH(v)
    \/ \E v \in VPages, p \in PPages : AddH(v, p)
    \/ FlushH
    \/ ClearH

Spec == Init /\ [][Next]_vars

=============================================================================

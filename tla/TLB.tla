-------------------------------- MODULE TLB --------------------------------
(***************************************************************************)
(* The TLB of src/unnamed/part_004 (hw/mmu.cc of the 2024 framework,      *)
(* TLB::lookup, add, flush, clear, getStatistics) and MMU::setCurrentASID. *)
(*                                                                         *)
(* The entries and the LRU list are file-level statics shared by every TLB *)
(* object: tlbEntries (a vector of nEntries slots, sized on first use,     *)
(* tracked by tlbInitialized), lruOrder (slot indices, most recently used  *)
(* first) and lruMap (slot index -> position in lruOrder; it holds exactly *)
(* the slots in lruOrder and is not a separate variable here).  The        *)
(* statistics are members of the object.  This module has one TLB object,  *)
(* the one MMU owns.                                                       *)
(*                                                                         *)
(* ASIDs.  There are three variables named currentASID: the static         *)
(* ::currentASID and MMU::currentASID, both written by setCurrentASID, and *)
(* the member TLB::currentASID, initialised to 0 by the TLB constructor    *)
(* and never written again.  Inside TLB::lookup and TLB::add the name      *)
(* resolves to the member, so every entry is tagged with, and every lookup *)
(* compares against, ASID 0 (TLBASID below).  currentASID below is the     *)
(* static, which no TLB method reads.                                      *)
(*                                                                         *)
(* Caller.  When AddAfterMiss holds, add is called the way                 *)
(* MMU::getTranslation calls it: for a page whose lookup has just missed.  *)
(* Otherwise add may be called for any page, as the unit tests do.        *)
(*                                                                         *)
(* The int statistics counters are capped at MaxStat in the guards;        *)
(* clear() resets them.  out is what the last lookup returned.             *)
(***************************************************************************)
EXTENDS Naturals, FiniteSets, Sequences, SequencesExt

CONSTANTS
    NEntries,      \* nEntries of the TLB object
    VPages,        \* virtual page numbers
    PPages,        \* physical page numbers
    ASIDs,         \* address-space ids
    ASID0,         \* the ASID 0
    VPage0,        \* the virtual page number 0 (a default-constructed entry)
    PPage0,        \* the physical page number 0
    NoPage,        \* the value out carries on a miss
    AddAfterMiss,  \* add is only called after a missed lookup of that page
    MaxStat        \* cap on each statistics counter

ASSUME NEntries \in Nat \ {0}
ASSUME ASID0 \in ASIDs /\ VPage0 \in VPages /\ PPage0 \in PPages
ASSUME NoPage \notin PPages
ASSUME AddAfterMiss \in BOOLEAN
ASSUME MaxStat \in Nat

VARIABLES
    tlbEntries, lruOrder, tlbInitialized, currentASID,
    nLookups, nHits, nEvictions, nFlush, nFlushEvictions,
    out

vars == <<tlbEntries, lruOrder, tlbInitialized, currentASID,
          nLookups, nHits, nEvictions, nFlush, nFlushEvictions, out>>

Slots == 0 .. NEntries - 1

\* TLB::currentASID, the member the TLB methods read: 0 forever.
TLBASID == ASID0

\* TLBEntry(vp, pp, as) and the default-constructed TLBEntry().
MkEntry(v, p, a) == [vPage |-> v, pPage |-> p, asid |-> a, valid |-> TRUE]
EmptyEntry == [vPage |-> VPage0, pPage |-> PPage0, asid |-> ASID0, valid |-> FALSE]

\* tlbEntries.resize(nEntries) on an empty vector.
Resized == [i \in Slots |-> EmptyEntry]

Miss == [hit |-> FALSE, pPage |-> NoPage]

ValidSlots == {i \in Slots : tlbEntries[i].valid}

\* The scan of lookup: the lowest valid slot holding vPage under TLBASID.
Matches(v) ==
    {i \in Slots : /\ tlbEntries[i].valid
                   /\ tlbEntries[i].vPage = v
                   /\ tlbEntries[i].asid = TLBASID}

-----------------------------------------------------------------------------

Init ==
    /\ tlbEntries = Resized
    /\ lruOrder = << >>
    /\ tlbInitialized = FALSE
    /\ currentASID = ASID0
    /\ nLookups = 0 /\ nHits = 0 /\ nEvictions = 0
    /\ nFlush = 0 /\ nFlushEvictions = 0
    /\ out = Miss

\* Seeded fault for lookup: the hit entry is pushed to the front without
\* being erased from its old position in lruOrder.
LookupNoErase(v) ==
    /\ nLookups < MaxStat
    /\ nLookups' = nLookups + 1
    /\ \/ /\ ~tlbInitialized
          /\ tlbEntries' = Resized
          /\ tlbInitialized' = TRUE
          /\ out' = Miss
          /\ UNCHANGED <<lruOrder, nHits>>
       \/ /\ tlbInitialized
          /\ Matches(v) # {}
          /\ LET i == Min(Matches(v)) IN
             /\ nHits' = nHits + 1
             /\ lruOrder' = << i >> \o lruOrder
             /\ out' = [hit |-> TRUE, pPage |-> tlbEntries[i].pPage]
          /\ UNCHANGED <<tlbEntries, tlbInitialized>>
       \/ /\ tlbInitialized
          /\ Matches(v) = {}
          /\ out' = Miss
          /\ UNCHANGED <<tlbEntries, tlbInitialized, lruOrder, nHits>>
    /\ UNCHANGED <<currentASID, nEvictions, nFlush, nFlushEvictions>>

Lookup(v) ==
    /\ nLookups < MaxStat
    /\ nLookups' = nLookups + 1
    /\ \/ /\ ~tlbInitialized
          /\ tlbEntries' = Resized
          /\ tlbInitialized' = TRUE
          /\ out' = Miss
          /\ UNCHANGED <<lruOrder, nHits>>
       \/ /\ tlbInitialized
          /\ Matches(v) # {}
          /\ LET i == Min(Matches(v)) IN
             /\ nHits' = nHits + 1
             /\ lruOrder' = << i >> \o Remove(lruOrder, i)
             /\ out' = [hit |-> TRUE, pPage |-> tlbEntries[i].pPage]
          /\ UNCHANGED <<tlbEntries, tlbInitialized>>
       \/ /\ tlbInitialized
          /\ Matches(v) = {}
          /\ out' = Miss
          /\ UNCHANGED <<tlbEntries, tlbInitialized, lruOrder, nHits>>
    /\ UNCHANGED <<currentASID, nEvictions, nFlush, nFlushEvictions>>

\* Seeded fault for add: a full TLB replaces the slot at the front of
\* lruOrder (the most recently used) instead of the back.
AddEvictMRU(v, p) ==
    LET ents    == IF tlbInitialized THEN tlbEntries ELSE Resized
        empties == {i \in Slots : ~ents[i].valid}
    IN
    /\ AddAfterMiss => Matches(v) = {}
    /\ empties = {} => nEvictions < MaxStat
    /\ \/ /\ empties # {}
          /\ tlbEntries' = [ents EXCEPT ![Min(empties)] = MkEntry(v, p, TLBASID)]
          /\ lruOrder' = << Min(empties) >> \o lruOrder
          /\ UNCHANGED nEvictions
       \/ /\ empties = {}
          /\ LET r == IF lruOrder # << >> THEN Head(lruOrder) ELSE 0 IN
             /\ tlbEntries' = [ents EXCEPT ![r] = MkEntry(v, p, TLBASID)]
             /\ lruOrder' = << r >> \o Remove(lruOrder, r)
          /\ nEvictions' = nEvictions + 1
    /\ tlbInitialized' = TRUE
    /\ UNCHANGED <<currentASID, nLookups, nHits, nFlush, nFlushEvictions, out>>

\* add: take the lowest free slot; with none free, take the slot at the back
\* of lruOrder (slot 0 if lruOrder is empty) and count an eviction; put the
\* new entry, tagged with the member ASID, at the front of lruOrder.
Add(v, p) ==
    LET ents    == IF tlbInitialized THEN tlbEntries ELSE Resized
        empties == {i \in Slots : ~ents[i].valid}
    IN
    /\ AddAfterMiss => Matches(v) = {}
    /\ empties = {} => nEvictions < MaxStat
    /\ \/ /\ empties # {}
          /\ tlbEntries' = [ents EXCEPT ![Min(empties)] = MkEntry(v, p, TLBASID)]
          /\ lruOrder' = << Min(empties) >> \o lruOrder
          /\ UNCHANGED nEvictions
       \/ /\ empties = {}
          /\ LET r    == IF lruOrder # << >> THEN Last(lruOrder) ELSE 0
                 rest == IF lruOrder # << >> THEN Front(lruOrder) ELSE lruOrder
             IN  /\ tlbEntries' = [ents EXCEPT ![r] = MkEntry(v, p, TLBASID)]
                 /\ lruOrder' = << r >> \o rest
          /\ nEvictions' = nEvictions + 1
    /\ tlbInitialized' = TRUE
    /\ UNCHANGED <<currentASID, nLookups, nHits, nFlush, nFlushEvictions, out>>

\* The loop of flush: slots 0 .. nEntries - 1 get their valid flag cleared,
\* the rest of each entry left as it was; slots past nEntries (a vector
\* sized by another TLB object) are not touched.
Invalidated ==
    [i \in DOMAIN tlbEntries |->
        IF i \in Slots THEN [tlbEntries[i] EXCEPT !.valid = FALSE]
                       ELSE tlbEntries[i]]

\* flush: count it; on an initialised TLB count the valid entries as flush
\* evictions, invalidate every slot and empty the LRU list.
FlushEffect ==
    \/ /\ ~tlbInitialized
       /\ UNCHANGED <<tlbEntries, lruOrder, nFlushEvictions>>
    \/ /\ tlbInitialized
       /\ nFlushEvictions' = nFlushEvictions + Cardinality(ValidSlots)
       /\ tlbEntries' = Invalidated
       /\ lruOrder' = << >>

Flush ==
    /\ nFlush < MaxStat
    /\ nFlush' = nFlush + 1
    /\ FlushEffect
    /\ UNCHANGED <<tlbInitialized, currentASID, nLookups, nHits, nEvictions, out>>

\* Seeded fault for clear: nFlushEvictions is not reset.
ClearKeepFlushEvictions ==
    /\ \/ /\ ~tlbInitialized
          /\ UNCHANGED <<tlbEntries, lruOrder, nFlushEvictions>>
       \/ /\ tlbInitialized
          /\ tlbEntries' = Invalidated
          /\ lruOrder' = << >>
          /\ nFlushEvictions' = nFlushEvictions + Cardinality(ValidSlots)
    /\ nLookups' = 0 /\ nHits' = 0 /\ nEvictions' = 0 /\ nFlush' = 0
    /\ UNCHANGED <<tlbInitialized, currentASID, out>>

\* clear: flush(), then zero every counter.
Clear ==
    /\ \/ /\ ~tlbInitialized
          /\ UNCHANGED <<tlbEntries, lruOrder>>
       \/ /\ tlbInitialized
          /\ tlbEntries' = Invalidated
          /\ lruOrder' = << >>
    /\ nLookups' = 0 /\ nHits' = 0 /\ nEvictions' = 0
    /\ nFlush' = 0 /\ nFlushEvictions' = 0
    /\ UNCHANGED <<tlbInitialized, currentASID, out>>

\* MMU::setCurrentASID: writes MMU::currentASID and ::currentASID.
SetCurrentASID(a) ==
    /\ currentASID' = a
    /\ UNCHANGED <<tlbEntries, lruOrder, tlbInitialized, nLookups, nHits,
                   nEvictions, nFlush, nFlushEvictions, out>>

Next ==
    \/ \E v \in VPages : Lookup(v)
    \/ \E v \in VPages, p \in PPages : Add(v, p)
    \/ Flush
    \/ Clear
    \/ \E a \in ASIDs : SetCurrentASID(a)

Spec == Init /\ [][Next]_vars

-----------------------------------------------------------------------------
(* Properties.                                                             *)

Entry == [vPage : VPages, pPage : PPages, asid : ASIDs, valid : BOOLEAN]

TypeOK ==
    /\ tlbEntries \in [Slots -> Entry]
    /\ lruOrder \in Seq(Slots)
    /\ tlbInitialized \in BOOLEAN
    /\ currentASID \in ASIDs
    /\ \A c \in {nLookups, nHits, nEvictions, nFlush} : c \in 0 .. MaxStat
    /\ nFlushEvictions \in 0 .. MaxStat * NEntries
    /\ out \in [hit : BOOLEAN, pPage : PPages \cup {NoPage}]

\* The LRU list and the slots agree after any sequence of lookups, adds,
\* flushes and clears: lruOrder lists every valid slot exactly once and no
\* invalid slot, so an add to a full TLB always finds a victim at the back
\* of the list and never overwrites a slot that is still listed.
LRUConsistent ==
    /\ IsInjective(lruOrder)
    /\ ToSet(lruOrder) = ValidSlots

\* The cache the slots and lruOrder represent, most recently used first.
CachedSeq ==
    [k \in 1 .. Len(lruOrder) |->
        [vPage |-> tlbEntries[lruOrder[k]].vPage,
         pPage |-> tlbEntries[lruOrder[k]].pPage,
         asid  |-> tlbEntries[lruOrder[k]].asid]]

\* The TLB is an LRU cache keyed by virtual page under the ASID it actually
\* tags entries with: a lookup hits exactly when the page is cached and
\* returns the page added last for it, a hit makes the entry most recently
\* used, and an add to a full TLB evicts the least recently used entry.
AbsTagged == INSTANCE TLBAbstract WITH cache <- CachedSeq, asid <- TLBASID

AbsTaggedSpec == AbsTagged!Spec

\* The same promise under the ASID the MMU has set (spec 4.D: a hit needs a
\* matching asid; scenario S4): after setCurrentASID a lookup must not hit
\* an entry added under another address space.
AbsCurrent == INSTANCE TLBAbstract WITH cache <- CachedSeq, asid <- currentASID

AbsCurrentSpec == AbsCurrent!Spec

=============================================================================

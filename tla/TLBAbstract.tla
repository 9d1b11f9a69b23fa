---------------------------- MODULE TLBAbstract ----------------------------
(***************************************************************************)
(* What a TLB promises (spec 4.D, 8.6): an LRU cache of translations keyed *)
(* by (address-space id, virtual page), of capacity NEntries.              *)
(*                                                                         *)
(*  - cache is the sequence of cached entries, most recently used first;   *)
(*  - asid is the address-space id lookups and adds are made under;        *)
(*  - out is what the last lookup returned.                                *)
(*                                                                         *)
(* A lookup hits exactly when an entry for (asid, vPage) is cached, returns *)
(* its physical page and makes it most recently used; an add puts the new  *)
(* entry in front, evicting the least recently used one when the cache is  *)
(* full; a flush empties the cache, a flush_asid drops one address space.  *)
(***************************************************************************)
EXTENDS Naturals, Sequences, SequencesExt

CONSTANTS
    NEntries,   \* capacity
    VPages,     \* virtual page numbers
    PPages,     \* physical page numbers
    ASIDs,      \* address-space ids
    NoPage      \* the value out carries on a miss

VARIABLES cache, asid, out

vars == <<cache, asid, out>>

Entry == [vPage : VPages, pPage : PPages, asid : ASIDs]

Miss == [hit |-> FALSE, pPage |-> NoPage]

Init ==
    /\ cache = << >>
    /\ asid \in ASIDs
    /\ out = Miss

Lookup(v) ==
    LET m == SelectInSeq(cache, LAMBDA e : e.vPage = v /\ e.asid = asid) IN
    \/ /\ m # 0
       /\ cache' = << cache[m] >> \o RemoveAt(cache, m)
       /\ out' = [hit |-> TRUE, pPage |-> cache[m].pPage]
       /\ UNCHANGED asid
    \/ /\ m = 0
       /\ out' = Miss
       /\ UNCHANGED <<cache, asid>>

\* The entry for (asid, v), if any, is replaced.
Add(v, p) ==
    LET rest == SelectSeq(cache, LAMBDA e : ~(e.vPage = v /\ e.asid = asid))
        kept == IF Len(rest) = NEntries THEN Front(rest) ELSE rest
    IN  /\ cache' = << [vPage |-> v, pPage |-> p, asid |-> asid] >> \o kept
        /\ UNCHANGED <<asid, out>>

Flush ==
    /\ cache' = << >>
    /\ UNCHANGED <<asid, out>>

\* flush_asid(a): drop every entry of address space a.
FlushASID(a) ==
    /\ cache' = SelectSeq(cache, LAMBDA e : e.asid # a)
    /\ UNCHANGED <<asid, out>>

SetASID(a) ==
    /\ asid' = a
    /\ UNCHANGED <<cache, out>>

Next ==
    \/ \E v \in VPages : Lookup(v)
    \/ \E v \in VPages, p \in PPages : Add(v, p)
    \/ Flush
    \/ \E a \in ASIDs : FlushASID(a) \/ SetASID(a)

Spec == Init /\ [][Next]_vars

=============================================================================

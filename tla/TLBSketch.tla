----------------------------- MODULE TLBSketch -----------------------------
(***************************************************************************)
(* The TLB of src/tlb.h and src/unnamed/part_000: a std::list of entries,  *)
(* most recently used first, and an unordered_map from virtual address to  *)
(* the entry's list iterator.  The map is keyed by the virtual address     *)
(* only, so the list holds at most one entry per address, whatever its     *)
(* asid.                                                                   *)
(*                                                                         *)
(*  - entries is the list; cache maps each key to the entry its iterator   *)
(*    designates (an iterator whose entry has left the list dangles, and   *)
(*    it then designates nothing in entries);                              *)
(*  - asid is the address space the caller passes to addEntry and lookup;  *)
(*    the caller switches it between calls;                                *)
(*  - out is what the last lookup returned;                                *)
(*  - latest is a history variable, no code reads it: for each address     *)
(*    and asid, the physical address the last addEntry gave it.            *)
(*                                                                         *)
(* Addresses are model values: the TLB only compares and stores them.      *)
(***************************************************************************)
EXTENDS Naturals, Sequences, SequencesExt

CONSTANTS
    NumEntries,   \* numEntries of the constructor
    VAddrs,       \* virtual addresses
    PAddrs,       \* physical addresses
    ASIDs,        \* address-space ids
    NoAddr        \* the value out carries on a miss

ASSUME NumEntries \in Nat \ {0}
ASSUME NoAddr \notin PAddrs

VARIABLES entries, cache, asid, out, latest

vars == <<entries, cache, asid, out, latest>>

\* struct TLBEntry { virtualAddress; physicalAddress; asid; }
TLBEntry(va, pa, a) == [virtualAddress |-> va, physicalAddress |-> pa, asid |-> a]

Miss == [hit |-> FALSE, pa |-> NoAddr]

\* The map with the given keys erased.
EraseKeys(m, keys) == [k \in DOMAIN m \ keys |-> m[k]]

\* cache.erase(key).
Erase(m, key) == EraseKeys(m, {key})

EmptyMap == [k \in {} |-> Miss]

\* cache[key] = it.
Put(m, key, e) == [k \in DOMAIN m \cup {key} |-> IF k = key THEN e ELSE m[k]]

\* TLB(numEntries): both containers empty.
Init ==
    /\ entries = << >>
    /\ cache = EmptyMap
    /\ asid \in ASIDs
    /\ out = Miss
    /\ latest = [k \in VAddrs \X ASIDs |-> NoAddr]

\* Seeded fault for addEntry: the evicted entry's key stays in the map.
AddEntryKeepEvicted(va, pa) ==
    LET m1 == IF va \in DOMAIN cache THEN Erase(cache, va) ELSE cache
        l1 == IF va \in DOMAIN cache THEN Remove(entries, cache[va]) ELSE entries
        l2 == IF Len(l1) = NumEntries THEN Front(l1) ELSE l1
    IN  /\ entries' = << TLBEntry(va, pa, asid) >> \o l2
        /\ cache' = Put(m1, va, TLBEntry(va, pa, asid))
        /\ UNCHANGED <<asid, out>>

\* addEntry: drop the entry the map has for va (of any asid); if the list
\* is full, drop its back entry and that entry's key; push the new entry
\* to the front and point the map at it.
AddEntry(va, pa) ==
    LET m1 == IF va \in DOMAIN cache THEN Erase(cache, va) ELSE cache
        l1 == IF va \in DOMAIN cache THEN Remove(entries, cache[va]) ELSE entries
        full == Len(l1) = NumEntries
        m2 == IF full THEN Erase(m1, Last(l1).virtualAddress) ELSE m1
        l2 == IF full THEN Front(l1) ELSE l1
    IN  /\ entries' = << TLBEntry(va, pa, asid) >> \o l2
        /\ cache' = Put(m2, va, TLBEntry(va, pa, asid))
        /\ UNCHANGED <<asid, out>>

\* addEntry, recording what it added.
AddEntryH(va, pa) ==
    /\ AddEntry(va, pa)
    /\ latest' = [latest EXCEPT ![va, asid] = pa]

\* Seeded fault for lookup: the asid of the entry is not compared.
LookupAnyASID(va) ==
    \/ /\ va \in DOMAIN cache
       /\ out' = [hit |-> TRUE, pa |-> cache[va].physicalAddress]
       /\ entries' = << cache[va] >> \o Remove(entries, cache[va])
       /\ UNCHANGED <<cache, asid>>
    \/ /\ va \notin DOMAIN cache
       /\ out' = Miss
       /\ UNCHANGED <<entries, cache, asid>>

\* lookup: a hit needs the key in the map and the entry's asid to match; it
\* returns the physical address and splices the entry to the front.
Lookup(va) ==
    \/ /\ va \in DOMAIN cache
       /\ cache[va].asid = asid
       /\ out' = [hit |-> TRUE, pa |-> cache[va].physicalAddress]
       /\ entries' = << cache[va] >> \o Remove(entries, cache[va])
       /\ UNCHANGED <<cache, asid>>
    \/ /\ ~(va \in DOMAIN cache /\ cache[va].asid = asid)
       /\ out' = Miss
       /\ UNCHANGED <<entries, cache, asid>>

\* flush: clear both containers.
Flush ==
    /\ entries' = << >>
    /\ cache' = EmptyMap
    /\ UNCHANGED <<asid, out>>

\* flushASID: walk the list, erasing each entry of asid a and its key.
FlushASID(a) ==
    LET gone == {i \in 1 .. Len(entries) : entries[i].asid = a} IN
    /\ entries' = SelectSeq(entries, LAMBDA e : e.asid # a)
    /\ cache' = EraseKeys(cache, {entries[i].virtualAddress : i \in gone})
    /\ UNCHANGED <<asid, out>>

\* The caller moves to another address space.
SetASID(a) ==
    /\ asid' = a
    /\ UNCHANGED <<entries, cache, out>>

Next ==
    \/ \E va \in VAddrs, pa \in PAddrs : AddEntryH(va, pa)
    \/ /\ \/ \E va \in VAddrs : Lookup(va)
          \/ Flush
          \/ \E a \in ASIDs : FlushASID(a) \/ SetASID(a)
       /\ UNCHANGED latest

Spec == Init /\ [][Next]_vars

-----------------------------------------------------------------------------
(* Properties.                                                             *)

\* The map and the list agree after any sequence of adds, hits, flushes and
\* per-asid flushes: the list holds at most numEntries entries, one per
\* virtual address, and the map has exactly their addresses as keys, each
\* designating the entry in the list.  So no iterator in the map dangles,
\* and addEntry's erase through one never hits an entry that is gone.
CacheConsistent ==
    /\ Len(entries) <= NumEntries
    /\ IsInjective([i \in 1 .. Len(entries) |-> entries[i].virtualAddress])
    /\ DOMAIN cache = {entries[i].virtualAddress : i \in 1 .. Len(entries)}
    /\ \A k \in DOMAIN cache : cache[k] \in ToSet(entries) /\ cache[k].virtualAddress = k

\* The cache is keyed by virtual address alone (tlb.h), so entries of two
\* address spaces for one address displace each other in addEntry and the
\* asid is checked only in lookup.  A hit must still be right: after any
\* sequence of adds under several asids, evictions, splices and flushes, a
\* lookup under the caller's asid that hits returns the physical address
\* last added for that address under that same asid.
LookupReturnsLatest ==
    [][\A va \in VAddrs :
         Lookup(va) /\ out'.hit => out'.pa = latest[va, asid]]_vars

=============================================================================

------------------------------ MODULE UnitTests ------------------------------
(***************************************************************************)
(* The two Boost test binaries of the 2024 framework run against the      *)
(* models of the code they test:                                           *)
(*  - aarch64_test (tests/aarch64.cc, concatenated into                    *)
(*    src/pagetables-base-2024/arch/include/aarch64.h from line 165);      *)
(*  - physmemmanager_test (src/unnamed/part_004 lines 1-235).              *)
(* A run of the model is a run of one binary, chosen in TestInit.          *)
(*                                                                         *)
(* The TLB test cases construct TLB objects of 4, 2, 4 and 4 entries, one *)
(* after another in the same process, so they share the file-scope statics *)
(* of TLBObjects.  Each test case is a script: a sequence of calls, each   *)
(* with the BOOST_CHECK made on its result.  The runner starts a test case *)
(* not run yet, steps through its script, and ends it.  Boost runs the    *)
(* cases in declaration order by default; --random shuffles them and      *)
(* --run_test selects some of them, so any order, and any prefix of one,  *)
(* is a run of the test binary.                                            *)
(*                                                                         *)
(* A failed BOOST_CHECK does not stop its test case: it is recorded in    *)
(* failed and the script goes on.  A call that indexes tlbEntries past its *)
(* end (an object larger than the vector an earlier object sized) is      *)
(* undefined behaviour: ub records it, and nothing more is run.           *)
(*                                                                         *)
(* The physmem test cases each construct their own PhysMemManager (the   *)
(* hole list of PhysMemHoles); they share nothing.  An                     *)
(* address the manager returns is baseAddress + startPage * pageSize,      *)
(* one-to-one with the start page for a manager, so addr holds the start  *)
(* page of each of the test's uintptr_t variables.                        *)
(*                                                                         *)
(* addr < physMemBase + memorySize is start < nPages.  TLB addresses are   *)
(* the tests' numbers (\h1000 is 0x1000).                                  *)
(*                                                                         *)
(* Not here: the four walker test cases, which build a tree of 2048-entry  *)
(* tables by hand (the walker's model has scaled index widths);            *)
(* architecture_parameters, which reads three constants; the check that    *)
(* every address is a multiple of pageSize (physMemBase, 16 GiB, is); and  *)
(* stress_test_fragmentation, whose 1000 calls come from std::mt19937.     *)
(***************************************************************************)
EXTENDS TLBObjects, Sequences

VARIABLES
    suite,    \* the test binary that runs
    nPages, holes, nAllocatedPages, maxAllocatedPages, allocs, result,
    addr,     \* the test's address variables: name -> start page
    done,     \* test cases that have run to their end
    test,     \* the test case running, or NoTest
    pc,       \* index of its next call in the script
    failed,   \* test cases with a failed BOOST_CHECK
    ub        \* a call indexed past the end of tlbEntries

pmVars == <<nPages, holes, nAllocatedPages, maxAllocatedPages, allocs, result>>

testVars == <<vars, pmVars, addr, suite, done, test, pc, failed, ub>>

\* PhysMemManager manager(pageSize, n * pageSize);
PM(n) == INSTANCE PhysMemHoles WITH NPages <- n, Counts <- 1 .. n

\* The memory sizes, in pages, the test cases construct managers with.
ManagerPages == {3, 10, 16, 20, 30, 32, 64, 100}

\* The elements of std::vector<uintptr_t> addrs.
VecNames == <<"addrs0", "addrs1", "addrs2", "addrs3", "addrs4",
              "addrs5", "addrs6", "addrs7", "addrs8", "addrs9">>

AddrNames ==
    {"addr", "addr1", "addr2", "addr3", "addr4", "largeAddr",
     "newAddr", "newAddr2"} \cup {VecNames[i] : i \in DOMAIN VecNames}

NoTest == "none"

-----------------------------------------------------------------------------
(* Script entries.  check is what BOOST_CHECK compares lookup's result    *)
(* with ("none" when the test does not check it); pp is the page          *)
(* BOOST_CHECK_EQUAL expects in pPage, NoPage when it is not checked.      *)

New(n)          == [op |-> "new", n |-> n]
Look(v, check)  == [op |-> "lookup", v |-> v, check |-> check, pp |-> NoPage]
LookPage(v, p)  == [op |-> "lookup", v |-> v, check |-> "hit", pp |-> p]
Put(v, p)       == [op |-> "add", v |-> v, p |-> p]
DoFlush         == [op |-> "flush"]
Stats(expect)   == [op |-> "stats", expect |-> expect]
Manager(n)      == [op |-> "manager", n |-> n]
Alloc(c, a, ok) == [op |-> "alloc", count |-> c, name |-> a, ok |-> ok]
Release(a, c)   == [op |-> "release", name |-> a, count |-> c]
SameAddr(a, b, eq) == [op |-> "same", a |-> a, b |-> b, eq |-> eq]
AllReleasedIs   == [op |-> "allReleased"]
InRange(a)      == [op |-> "inRange", name |-> a]
Unique(as)      == [op |-> "unique", names |-> as]
Disjoint(a, ca, b, cb) == [op |-> "disjoint", a |-> a, ca |-> ca, b |-> b, cb |-> cb]
MaxIs(k)        == [op |-> "max", k |-> k]

\* for (i = 0; i < k; i++) allocatePages(c, addrs[i]) (and push_back).
AllocLoop(k, c) == [i \in 1 .. k |-> Alloc(c, VecNames[i], TRUE)]

\* for (auto addr : addrs) releasePages(addr, c);
ReleaseLoop(k, c) == [i \in 1 .. k |-> Release(VecNames[i], c)]

\* BOOST_AUTO_TEST_CASE( tlb_basic_functionality )
TlbBasicFunctionality ==
    << New(4), Look(\h1000, "miss"), Put(\h1000, \h2000),
       LookPage(\h1000, \h2000), Look(\h3000, "miss") >>

\* BOOST_AUTO_TEST_CASE( tlb_lru_replacement )
TlbLruReplacement ==
    << New(2), Put(\h1000, \h2000), Put(\h3000, \h4000),
       Look(\h1000, "hit"), Look(\h3000, "hit"), Look(\h1000, "hit"),
       Put(\h5000, \h6000),
       Look(\h1000, "hit"), Look(\h3000, "miss"), Look(\h5000, "hit") >>

\* BOOST_AUTO_TEST_CASE( tlb_flush )
TlbFlush ==
    << New(4), Put(\h1000, \h2000), Put(\h3000, \h4000),
       Look(\h1000, "hit"), Look(\h3000, "hit"), DoFlush,
       Look(\h1000, "miss"), Look(\h3000, "miss") >>

\* BOOST_AUTO_TEST_CASE( tlb_statistics )
TlbStatistics ==
    << New(4),
       Stats([lookups |-> 0, hits |-> 0, evictions |-> 0, flush |-> 0,
              flushEvictions |-> 0]),
       Put(\h1000, \h2000), Look(\h1000, "none"), Look(\h3000, "none"),
       Stats([lookups |-> 2, hits |-> 1]) >>

\* BOOST_AUTO_TEST_CASE( physmem_basic_allocation )
PhysmemBasicAllocation ==
    << Manager(10), Alloc(1, "addr1", TRUE), Alloc(2, "addr2", TRUE),
       SameAddr("addr1", "addr2", FALSE),
       Release("addr1", 1), Release("addr2", 2), AllReleasedIs >>

\* BOOST_AUTO_TEST_CASE( physmem_hole_merging )
PhysmemHoleMerging ==
    << Manager(10), Alloc(2, "addr1", TRUE), Alloc(2, "addr2", TRUE),
       Alloc(2, "addr3", TRUE),
       Release("addr2", 2), Release("addr1", 2), Release("addr3", 2),
       Alloc(6, "largeAddr", TRUE), Release("largeAddr", 6), AllReleasedIs >>

\* BOOST_AUTO_TEST_CASE( physmem_first_fit )
PhysmemFirstFit ==
    << Manager(10), Alloc(2, "addr1", TRUE), Alloc(3, "addr2", TRUE),
       Alloc(2, "addr3", TRUE),
       Release("addr1", 2), Release("addr3", 2),
       Alloc(2, "addr4", TRUE), SameAddr("addr4", "addr1", TRUE),
       Release("addr2", 3), Release("addr4", 2), AllReleasedIs >>

\* BOOST_AUTO_TEST_CASE( physmem_out_of_memory )
PhysmemOutOfMemory ==
    << Manager(3), Alloc(3, "addr1", TRUE), Alloc(1, "addr2", FALSE),
       Release("addr1", 3), Alloc(1, "addr2", TRUE),
       Release("addr2", 1), AllReleasedIs >>

\* physmemmanager_test: BOOST_AUTO_TEST_CASE( basic_allocation )
BasicAllocation ==
    << Manager(16), Alloc(1, "addr", TRUE), InRange("addr"),
       Release("addr", 1), AllReleasedIs >>

\* BOOST_AUTO_TEST_CASE( multiple_allocations )
MultipleAllocations ==
    << Manager(32) >> \o AllocLoop(10, 1)
    \o << Unique(VecNames) >> \o ReleaseLoop(10, 1) \o << AllReleasedIs >>

\* BOOST_AUTO_TEST_CASE( multi_page_allocation )
MultiPageAllocation ==
    << Manager(64), Alloc(5, "addr1", TRUE), Alloc(10, "addr2", TRUE),
       Alloc(3, "addr3", TRUE),
       Disjoint("addr2", 10, "addr1", 5), Disjoint("addr3", 3, "addr1", 5),
       Disjoint("addr3", 3, "addr2", 10),
       Release("addr1", 5), Release("addr2", 10), Release("addr3", 3),
       AllReleasedIs >>

\* BOOST_AUTO_TEST_CASE( out_of_memory )
OutOfMemory ==
    << Manager(10), Alloc(11, "addr", FALSE), Alloc(10, "addr", TRUE),
       Alloc(1, "addr2", FALSE), Release("addr", 10), Alloc(1, "addr2", TRUE) >>

\* BOOST_AUTO_TEST_CASE( hole_merging )
HoleMerging ==
    << Manager(20), Alloc(5, "addr1", TRUE), Alloc(5, "addr2", TRUE),
       Alloc(5, "addr3", TRUE), Release("addr1", 5), Release("addr3", 5),
       Alloc(9, "largeAddr", TRUE), Release("largeAddr", 9),
       Release("addr2", 5), Alloc(15, "largeAddr", TRUE) >>

\* BOOST_AUTO_TEST_CASE( first_fit_behavior )
FirstFitBehavior ==
    << Manager(30) >> \o AllocLoop(6, 5)
    \o << Release("addrs0", 5), Release("addrs2", 5), Release("addrs4", 5),
          Alloc(3, "newAddr", TRUE), SameAddr("newAddr", "addrs0", TRUE),
          Alloc(2, "newAddr2", TRUE), SameAddr("newAddr2", "addrs2", TRUE) >>

\* BOOST_AUTO_TEST_CASE( max_allocated_tracking )
MaxAllocatedTracking ==
    << Manager(100), MaxIs(0), Alloc(10, "addr1", TRUE), MaxIs(10),
       Alloc(20, "addr2", TRUE), MaxIs(30), Release("addr1", 10), MaxIs(30),
       Alloc(25, "addr3", TRUE), MaxIs(45) >>

Suites ==
    [aarch64_test |->
        [tlb_basic_functionality  |-> TlbBasicFunctionality,
         tlb_lru_replacement      |-> TlbLruReplacement,
         tlb_flush                |-> TlbFlush,
         tlb_statistics           |-> TlbStatistics,
         physmem_basic_allocation |-> PhysmemBasicAllocation,
         physmem_hole_merging     |-> PhysmemHoleMerging,
         physmem_first_fit        |-> PhysmemFirstFit,
         physmem_out_of_memory    |-> PhysmemOutOfMemory],
     physmemmanager_test |->
        [basic_allocation       |-> BasicAllocation,
         multiple_allocations   |-> MultipleAllocations,
         multi_page_allocation  |-> MultiPageAllocation,
         out_of_memory          |-> OutOfMemory,
         hole_merging           |-> HoleMerging,
         first_fit_behavior     |-> FirstFitBehavior,
         max_allocated_tracking |-> MaxAllocatedTracking]]

Suite == Suites[suite]

-----------------------------------------------------------------------------

Call == Suite[test][pc]

Running == test # NoTest /\ pc \in DOMAIN Suite[test] /\ ~ub

\* getStatistics, as the fields a check reads.
Counters ==
    [lookups |-> nLookups, hits |-> nHits, evictions |-> nEvictions,
     flush |-> nFlush, flushEvictions |-> nFlushEvictions]

\* The BOOST_CHECKs on a lookup's result r.
LookupPasses(c, r) ==
    \/ c.check = "none"
    \/ c.check = "miss" /\ ~r.hit
    \/ c.check = "hit" /\ r.hit /\ (c.pp = NoPage \/ r.pPage = c.pp)

\* Record the outcome of the current call's checks.
Checked(ok) == failed' = IF ok THEN failed ELSE failed \cup {test}

Advance == pc' = pc + 1 /\ UNCHANGED <<suite, done, test, ub>>

\* The manager the live test case uses: PM(n) for its n pages.
OnManager(A(_)) == \E n \in ManagerPages : n = nPages /\ A(n)

TestInit ==
    /\ suite \in DOMAIN Suites
    /\ Init
    /\ nPages = 10 /\ PM(10)!Init
    /\ addr = [a \in AddrNames |-> 0]
    /\ done = {}
    /\ test = NoTest
    /\ pc = 1
    /\ failed = {}
    /\ ub = FALSE

StartTest(t) ==
    /\ test = NoTest /\ ~ub
    /\ t \notin done
    /\ test' = t
    /\ pc' = 1
    /\ UNCHANGED <<vars, pmVars, addr, suite, done, failed, ub>>

\* The test case returns: its TLB object is destroyed; the statics stay.
EndTest ==
    /\ test # NoTest /\ ~ub
    /\ pc = Len(Suite[test]) + 1
    /\ done' = done \cup {test}
    /\ test' = NoTest
    /\ UNCHANGED <<vars, pmVars, addr, suite, pc, failed, ub>>

\* TLB tlb(n, mmu);
NewStep ==
    /\ Running /\ Call.op = "new"
    /\ Construct(Call.n)
    /\ Advance /\ UNCHANGED <<failed, pmVars, addr>>

LookupStep ==
    /\ Running /\ Call.op = "lookup"
    /\ LookupH(Call.v)
    /\ Checked(LookupPasses(Call, out'))
    /\ Advance /\ UNCHANGED <<pmVars, addr>>

AddStep ==
    /\ Running /\ Call.op = "add"
    /\ AddH(Call.v, Call.p)
    /\ Advance /\ UNCHANGED <<failed, pmVars, addr>>

FlushStep ==
    /\ Running /\ Call.op = "flush"
    /\ FlushH
    /\ Advance /\ UNCHANGED <<failed, pmVars, addr>>

\* getStatistics and the BOOST_CHECK_EQUALs on what it returned.
StatsStep ==
    /\ Running /\ Call.op = "stats"
    /\ Checked(\A f \in DOMAIN Call.expect : Counters[f] = Call.expect[f])
    /\ Advance
    /\ UNCHANGED <<vars, pmVars, addr>>

\* lookup, add or flush on an object larger than the vector whose scan
\* runs past the end: a lookup with no match inside the vector, an add
\* with no empty slot there, any flush.
OutOfBounds ==
    /\ Running
    /\ \/ Call.op = "lookup" /\ ~LookupInBounds(Call.v)
       \/ Call.op = "add" /\ ~AddInBounds
       \/ Call.op = "flush" /\ ~FlushInBounds
    /\ ub' = TRUE
    /\ UNCHANGED <<vars, pmVars, addr, suite, done, test, pc, failed>>

\* The manager's constructor: one hole of all n pages.
ManagerStep ==
    /\ Running /\ Call.op = "manager"
    /\ nPages' = Call.n
    /\ holes' = << PM(Call.n)!MkHole(0, Call.n) >>
    /\ nAllocatedPages' = 0 /\ maxAllocatedPages' = 0
    /\ allocs' = {} /\ result' = PM(Call.n)!NoCall
    /\ Advance /\ UNCHANGED <<vars, addr, failed>>

\* BOOST_CHECK( manager.allocatePages(count, addrX) == ok ); addrX is
\* written only on success.
AllocStep ==
    /\ Running /\ Call.op = "alloc"
    /\ OnManager(LAMBDA n : PM(n)!AllocatePages(Call.count))
    /\ addr' = IF result'.ok THEN [addr EXCEPT ![Call.name] = result'.start]
                             ELSE addr
    /\ Checked(result'.ok = Call.ok)
    /\ Advance /\ UNCHANGED <<vars, nPages>>

\* manager.releasePages(addrX, count);
ReleaseStep ==
    /\ Running /\ Call.op = "release"
    /\ OnManager(LAMBDA n :
         PM(n)!ReleasePages([start |-> addr[Call.name], count |-> Call.count]))
    /\ Advance /\ UNCHANGED <<vars, nPages, addr, failed>>

\* BOOST_CHECK( addrA != addrB ) or BOOST_CHECK_EQUAL( addrA, addrB ).
SameStep ==
    /\ Running /\ Call.op = "same"
    /\ Checked((addr[Call.a] = addr[Call.b]) = Call.eq)
    /\ Advance /\ UNCHANGED <<vars, pmVars, addr>>

\* BOOST_CHECK(addr >= physMemBase); BOOST_CHECK(addr < physMemBase + memorySize);
InRangeStep ==
    /\ Running /\ Call.op = "inRange"
    /\ Checked(addr[Call.name] < nPages)
    /\ Advance /\ UNCHANGED <<vars, pmVars, addr>>

\* std::set of the addresses; BOOST_CHECK_EQUAL of its size and theirs.
UniqueStep ==
    /\ Running /\ Call.op = "unique"
    /\ Checked(Cardinality({addr[Call.names[i]] : i \in DOMAIN Call.names})
               = Len(Call.names))
    /\ Advance /\ UNCHANGED <<vars, pmVars, addr>>

\* BOOST_CHECK(b >= a + ca * pageSize || b + cb * pageSize <= a);
DisjointStep ==
    /\ Running /\ Call.op = "disjoint"
    /\ Checked(\/ addr[Call.a] >= addr[Call.b] + Call.cb
               \/ addr[Call.a] + Call.ca <= addr[Call.b])
    /\ Advance /\ UNCHANGED <<vars, pmVars, addr>>

\* BOOST_CHECK_EQUAL(manager.getMaxAllocatedPages(), k);
MaxStep ==
    /\ Running /\ Call.op = "max"
    /\ Checked(maxAllocatedPages = Call.k)
    /\ Advance /\ UNCHANGED <<vars, pmVars, addr>>

\* BOOST_CHECK( manager.allReleased() == true );
AllReleasedStep ==
    /\ Running /\ Call.op = "allReleased"
    /\ Checked(OnManager(LAMBDA n : PM(n)!AllReleased))
    /\ Advance /\ UNCHANGED <<vars, pmVars, addr>>

TestNext ==
    \/ \E t \in DOMAIN Suite : StartTest(t)
    \/ EndTest
    \/ NewStep \/ LookupStep \/ AddStep \/ FlushStep \/ StatsStep
    \/ OutOfBounds
    \/ ManagerStep \/ AllocStep \/ ReleaseStep \/ SameStep \/ AllReleasedStep
    \/ InRangeStep \/ UniqueStep \/ DisjointStep \/ MaxStep

TestSpec == TestInit /\ [][TestNext]_testVars

-----------------------------------------------------------------------------
(* Properties.                                                             *)

\* Each test binary passes in whatever order the runner takes its test
\* cases: no
\* BOOST_CHECK fails and no call is undefined.  Each test case constructs
\* its own TLB and expects it to start empty (spec 5 and 9: TLB state is
\* per instance); the statics of hw/mmu.cc carry entries, the LRU list and
\* the vector's size from one object to the next.
SuitePasses == failed = {} /\ ~ub

=============================================================================

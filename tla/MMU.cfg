\* The 2024 MMU with a TLB of two lines, under a kernel that flushes the TLB
\* on a context switch and after evicting a page.
CONSTANTS
    p1 = p1
    p2 = p2
    noroot = noroot
    noaccess = noaccess
    nopage = nopage
    unmapped = unmapped
    nohandle = nohandle
    PIDs <- MCPIDs
    PPages <- MCPPages
    Addrs <- MCAddrs
    AccessTypes <- MCAccessTypes
    NoRoot <- noroot
    NoAccess <- noaccess
    NoPage <- nopage
    Unmapped <- unmapped
    NoHandle <- nohandle
    PageBits = 1
    AddressSpaceBits = 2
    NEntries = 2
    UseTLB = TRUE
    KernelFlushes = TRUE
    MaxTrace = 7
SPECIFICATION Spec
PROPERTIES TranslationMatchesTable AccessCompletes
\* The trace is finite and a null root is fatal: the simulator stops.
CHECK_DEADLOCK FALSE

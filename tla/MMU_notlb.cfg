\* The 2017 MMU of src/hw/mmu.cc: no TLB, every access walks the table.
CONSTANTS
    p1 = p1
    p2 = p2
    noroot = noroot
    noaccess = noaccess
    nopage = nopage
    unmapped = unmapped
    nohandle = nohandle
    PIDs <- MCPIDs
    PPages <- MCPPages
    Addrs <- MCAddrs
    AccessTypes <- MCAccessTypes
    NoRoot <- noroot
    NoAccess <- noaccess
    NoPage <- nopage
    Unmapped <- unmapped
    NoHandle <- nohandle
    PageBits = 1
    AddressSpaceBits = 2
    NEntries = 1
    UseTLB = FALSE
    KernelFlushes = TRUE
    MaxTrace = 8
SPECIFICATION Spec
PROPERTIES TranslationMatchesTable LeafStamped AccessCompletes
\* The trace is finite and a null root is fatal: the simulator stops.
CHECK_DEADLOCK FALSE

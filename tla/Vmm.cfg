\* 14 frames: boot takes eleven, the rest is for runs and the ring3 command.
SPECIFICATION Spec
CONSTANTS
    NPages = 56
    TableSize = 4
    KernelBase = 32
    KheapStart = 50
    KheapPages = 2
    UserCode = 9
    NFrames = 16
    KernelEnd = 2
    MinMap = 4
    Managed <- MCManaged
    FreeAtBoot <- MCFreeAtBoot
    ManagedBase = 2
    TotalPages = 14
    AllocChoice <- MCAllocChoice
    MaxAreas = 8
    Counts <- MCCounts
    ShellPages <- MCShellPages
    ShellFrames <- MCShellFrames
    Probe <- MCProbe
    None = None
CHECK_DEADLOCK FALSE
INVARIANTS DirectMapCoversPool FramesAccountedFor HeapUndisturbed
INVARIANTS RunsAreRegistered OnlyUserPagesInRing3 TlbCoherent
PROPERTIES ImplementsKernelPages

\* The converter with two cached imports of each kind and one failure.
SPECIFICATION Spec
CONSTANTS
    SourceBuffers <- MCSourceBuffers
    DestinationBuffers <- MCDestinationBuffers
    kSourceCacheCapacity = 2
    kDestinationCacheCapacity = 2
    SourceHandles = {s1, s2}
    DestinationHandles = {d1, d2, d3}
    NoHandle = NoHandle
    MaxConversions = 4
    MaxFaults = 1
SYMMETRY HandleSymmetry
INVARIANTS
    DispatchReadsSource
    AcquireNamesLayout
    NothingLeaks
    RecentSourcesCached
    FailsOnlyOnFault

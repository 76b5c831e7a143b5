\* One call, with any number of cancellations.
SPECIFICATION FairRunSpec
CONSTANT Unset = Unset
INVARIANTS
    NothingIsLeft
    CancellationIsKept
PROPERTY
    EveryCallEnds

SPECIFICATION FairTask
CONSTANT Kinds <- AllKinds
INVARIANT CleanLeavesNothing
PROPERTIES OnlyOrphansDeleted CleanEnds CleanSucceeds

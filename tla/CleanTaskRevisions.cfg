SPECIFICATION TaskSpec
CONSTANT Kinds <- AllKinds
INVARIANT RevisionsDeleted

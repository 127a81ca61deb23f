SPECIFICATION Spec
INVARIANT TypeOK
INVARIANT CleanLoadIsFresh
INVARIANT UnloadedMeansGone
INVARIANT FailureHasCause

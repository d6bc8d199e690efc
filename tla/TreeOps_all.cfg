\* Two marked entries, six nodes, up to two failures or pressed buttons.
SPECIFICATION FairSpec
CONSTANTS
  Node = {1, 2, 3, 4, 5, 6}
  Dir = {1, 2}
  Parent <- MCParent
  Below <- MCBelow
  Marked <- MCMarked
  Late = {5}
  Links = {3, 4}
  Ops = {"COPY", "MOVE", "DELETE"}
  MaxMishaps = 2
INVARIANTS MoveLosesNothing EraseListIsOurs CopiesHaveDirectories DeletedWithConsent UntaggedIsGone
PROPERTIES CopyStopsAtAbort OperationEnds

\* Both operations, two files of two blocks.
SPECIFICATION FairSpec
CONSTANTS
  N = 2
  Blocks = 2
  OldSizes = {1}
  BufBlocks = 2
  MaxMishaps = 2
  FollowLinks = 0
  Ops = {"COPY", "MOVE"}
  Sources = {"file", "link", "special"}
INVARIANTS AsTheUserWasTold NoLoss
PROPERTIES OnlyTheAskedTarget OperationEnds

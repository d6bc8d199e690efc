SPECIFICATION Spec
CONSTANTS
  File = {f}
  Sub = sub
  DotDot = dotdot
  MaxSize = 2
  MaxChanges = 1
  MaxFound = 2
INVARIANTS CountsAgree MarksAreWanted
PROPERTIES RereadShowsAll CursorStays

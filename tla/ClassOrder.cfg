SPECIFICATION SmallSpec
CONSTANTS
  Classes <- FourClasses
  Names = {1, 2, 3, 4, 5, 6}
  Ignored = {6}
  Positions <- FourClasses
INVARIANTS OrderedWhenDone NoClassLost
PROPERTIES Terminates ImplementsSorting
CHECK_DEADLOCK FALSE

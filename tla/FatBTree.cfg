CONSTANTS
  M = 3
  KeyMax = 6
  Keys = {1, 2, 3, 4, 5, 6}
  MaxNodes = 21
  RootLoadNum = 7
  RootLoadDepth = 2
  RegularLoadNum = 2
SPECIFICATION FairSpec
INVARIANTS TypeOK EveryKeyFound UniformDepth NodeFill PrintedFits IInv Routing
PROPERTIES LoadedAddressesStayGood LoadedCoverFixed ImplementsIndex LoadTerminates
CHECK_DEADLOCK FALSE

CONSTANTS
  B = 3
  D = 3
  RootKeys <- MCRootKeys
  Word = 6
  Groups = 2
  Group = 2
  Layers = 2
  Nodes <- MCNodes
  Trees <- MCTrees
  Stag = Stag
SPECIFICATION PathSpec
INVARIANTS EveryKeyReachesItsChild
CHECK_DEADLOCK FALSE

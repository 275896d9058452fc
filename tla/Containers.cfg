SPECIFICATION MCSpec
CONSTANTS
  Id <- Ids
  Data = {d1, d2}
  NULL = NULL
  MAXALPHA = 1
  MAXWIDTH = 3
  Widths = {1}
  TreeKey = {1, 2, 3, 4, 5, 6, 7, 8}
INVARIANT TableAgrees
INVARIANTS IsRedBlackTree AnswersAgree
PROPERTIES ClearFreesEach IsFiniteMap
PROPERTIES IsOrderedSet
SYMMETRY Symmetry

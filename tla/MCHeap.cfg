SPECIFICATION Spec
CONSTANTS
  TagSize = 1
  l_pageSize = 8
  l_pageCount = 2
  MINEXP = 1
  MAXEXP = 5
  MAXCOMPLETE = 1
  HeapPages = 4
  Sizes = {1, 6, 9}
INVARIANTS TagsTile ListsComplete NothingLeaks BlocksIntact
PROPERTIES CallsReturn Refinement

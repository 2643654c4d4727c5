SPECIFICATION Spec
CONSTANTS
  TagSize = 1
  l_pageSize = 10
  l_pageCount = 1
  MINEXP = 1
  MAXEXP = 5
  MAXCOMPLETE = 1
  HeapPages = 4
  Sizes = {9, 12}
INVARIANTS PagesBehindPointer

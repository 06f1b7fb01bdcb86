\* Eight addresses on pages of four, at most five entries; requests for no bytes too.
CONSTANTS
  First = 4
  End = 12
  PageSize = 4
  IndexSize = 5
  Sizes = {0, 1, 2, 3}
SPECIFICATION HeapSpec
INVARIANT EntriesTile
INVARIANT IndexIsNotExceeded
PROPERTY HeapAllocates

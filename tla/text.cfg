\* Every list of at most 3 names, 2 of which fit the array, and every text
\* that is at most 2 characters too long for the buffer.
SPECIFICATION Spec
CONSTANTS
  BufferSize = 10
  LineSize = 6
  MaxExtensions = 2
  Letters = {"a", "b"}
  NameLists <- MCNameLists
  Texts <- MCTexts
INVARIANTS TextInv LogPrints ExtensionsArrive StaysInBounds ListLogged

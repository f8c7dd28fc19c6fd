CONSTANTS
  WordBits = 2
  Widths = {1, 2, 3, 4, 5}
  Amounts = {0, 1, 2, 3, 4, 6}
  Texts <- MCTexts
  Gathers <- MCGathers
SPECIFICATION Spec
INVARIANT InterpreterIsExact
INVARIANT NativeMatchesInterpreter

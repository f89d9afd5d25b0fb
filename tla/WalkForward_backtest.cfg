SPECIFICATION Spec
CONSTANTS
  None = None
  Tolerance = 12
  Combos = 2
  Plays <- MCPlays
  Alphabet <- MCAlphabet
  Cases <- MCCases
INVARIANTS FillsCausal OrdersConserved BooksReconcile OutOfSample 
CHECK_DEADLOCK FALSE

SPECIFICATION Spec
CONSTANTS
  r1 = r1
  r2 = r2
  Runners = {r1, r2}
  NumFiles = 3
  NumTexts = 2
  MaxMishaps = 2
  Wrapped <- MCWrapped
  Definers <- MCDefiners
SYMMETRY MCSymmetry
INVARIANTS RowTellsTheText InOrder NewestDefinitionInForce NoBlindRetry

SPECIFICATION Spec
CONSTANTS
  Width = 6
  Digits = {0, 4, 6, 10}
  MaxDigits = 2
  Totals = {0, 5, 31}
INVARIANT OverflowResistant

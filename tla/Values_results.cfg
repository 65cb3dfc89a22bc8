SPECIFICATION Spec
CONSTANTS
  Char = {a, b}
  MaxText = 6
  MaxPattern = 4
  Radix = 4
  Widths = {1, 2, 3}
  Thousand = 3
  Sixty = 2
  Years <- MCYears
  Days = {1, 28, 29, 30, 31}
  MaxMonths = 12
INVARIANTS FindIsFirst OnlyDelimitersLost IntegersArrive CalendarAgrees
CHECK_DEADLOCK FALSE

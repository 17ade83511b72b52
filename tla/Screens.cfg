\* Forms of up to two lines; payments of a cent, and of what is due.
SPECIFICATION ScreenSpec
CONSTANTS
  Lines <- SomeLines
  MaxLines = 2
  Payments = {1, 30000, 37840}
  MaxPayments = 2
  Subtotals = {0, 275, 1000}
  Discounts = {0, 500}
  MaxSales = 1
INVARIANTS FormNearApi CreditedInParts ShownIsSo
PROPERTY OwnPageIsFinal
CHECK_DEADLOCK FALSE

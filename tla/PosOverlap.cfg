\* Two sales in flight, in two branches, with refunds and stock counts between.
SPECIFICATION Spec
CONSTANTS
  tea = tea
  cup = cup
  Products = {tea, cup}
  Branches = {b1, b2}
  Rows = {r1, r2, r3, r4}
  Slots = {s1, s2}
  Baskets <- Mixed
  Counts = {1, 3}
  MaxReceived = 3
SYMMETRY RowsAndSlots
INVARIANTS StockAccounted NextNumberFree ReturnedWithinSold StockNeverNegative
CHECK_DEADLOCK FALSE

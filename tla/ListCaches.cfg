\* One ticket, one product, two branches; a reader and two writers.
SPECIFICATION ListsFairSpec
CONSTANTS
  Tickets = {t1}
  Products = {p1}
  Branches = {b1, b2}
  Readers = {r1}
  Writers = {w1, w2}
  Wanted = {"tickets:status:OPEN", "products:all", b1}
  MaxWrites = 2
 
PROPERTIES ClosedUnlessLate ListsSettle
CHECK_DEADLOCK FALSE

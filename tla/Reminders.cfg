\* Two stages, two tickets, queues that remember one job of a kind, and two crashes.
SPECIFICATION Spec
CONSTANTS
  Tickets = {t1, t2}
  Stages = 2
  Hours <- TwoStages
  Retained = 1
  MaxCrashes = 2
  MaxErrors = 1
  LastTouch = 1
  LastHour = 2
SYMMETRY Alike
INVARIANTS StagesInOrder OncePerStage
CHECK_DEADLOCK FALSE

\* The same to the end, with one crash and no errors (what they lose is exempt).
SPECIFICATION FairSpec
CONSTANTS
  Tickets = {t1, t2}
  Stages = 2
  Hours <- TwoStages
  Retained = 1
  MaxCrashes = 1
  MaxErrors = 0
  LastTouch = 1
  LastHour = 3
PROPERTY LeftAloneIsReminded
CHECK_DEADLOCK FALSE

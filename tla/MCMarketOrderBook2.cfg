SPECIFICATION Spec
CONSTANTS
  Prices = {1, 2, 3}
  Qtys = {1, 2}
  UpdateTypes = {"DEFAULT", "CLEAR"}
  MaxLevels = 2
  MaxLength = 3
INVARIANTS
  SubscribersSeeTop
  LoopsAreClosedForms

SPECIFICATION Spec
CONSTANTS
  Shipped = {"dig"}
  Learned = {"hunt"}
  Given = {"hunt", "mine"}
  Policies = {"skip", "replace", "error"}
  MaxRows = 4
  MaxWrites = 4
  MaxImports = 1
PROPERTIES
  SeedingNeverReversesEdits
CHECK_DEADLOCK FALSE

SPECIFICATION Spec
CONSTANTS
  Levels = {"L105", "L0C7"}
  FirstLevel = "L105"
  MenuLevel = "L0C7"
  MaxChanges = 2
  MaxInputs = 5
  MaxFaults = 1
  MaxQueue = 2
  MaxErrors = 1
INVARIANTS
  TypeOK
  PauseIsObeyed
  
 

SPECIFICATION Spec
CONSTANTS
  MaxUnits = 3
  Wait = 1
  Idle = 2
  Life = 3
PROPERTIES KeepsPromise  

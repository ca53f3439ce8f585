CONSTANTS
  Words = 4
  Values = {zero, a, b}
  Cleared = zero
SPECIFICATION Spec
INVARIANTS
  TypeOK
  PortsShowQueue
  CountsSafe
PROPERTIES
  ImplementsQueue

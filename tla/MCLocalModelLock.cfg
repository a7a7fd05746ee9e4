SPECIFICATION Spec
CONSTANTS
  c1 = c1
  c2 = c2
  c3 = c3
  c4 = c4
  c5 = c5
  r1 = r1
  r2 = r2
  r3 = r3
  Callers <- MCCallers
  Owner <- MCOwner
  Capacity = 2
PROPERTIES
  ImplementsPool
  WaiterServed

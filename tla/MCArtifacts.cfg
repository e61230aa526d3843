SPECIFICATION Spec
CONSTANTS
  Statements = {s1, s2}
  MaxSetups = 1
  ShippedStatement = s1
  Missing = Missing
  Torn = Torn
  None = None
INVARIANTS TypeOK FreshSetVerifies RustAndCAgree

SPECIFICATION Spec
CONSTANTS
  Q = 5
  OFF = OFF
  Setups <- MCSetups
  Builtin <- MCBuiltin
  ProofPoints = {1, 3, 4, OFF}
  Scalars = {0, 4, 6}
  MaxInputs = 2
  NoArg = NoArg
INVARIANTS TypeOK AllocationBalanced
PROPERTIES ImplementsVerdict

SPECIFICATION Spec
CONSTANTS
  auto1 = auto1
  auto2 = auto2
  prepare1 = prepare1
  prepare2 = prepare2
  activate = activate
  direct = direct
  evaluate = evaluate
  Nobody = Nobody
  Requests = {auto1, prepare1}
  Kind <- TwoModes
  Sends <- Once
  MaxAttempts = 2
  Feedbacks = {"low"}
CHECK_DEADLOCK FALSE
INVARIANTS
  OneOutput

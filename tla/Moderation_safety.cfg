SPECIFICATION Spec
CONSTANTS
  Instances = {i1, i2}
  Links = {l1, l2}
  NoInst = NoInst
  Agents = {a1}
  Operators = {o1, o2}
  Reasons = {"abuse", "instance_frozen"}
  MaxOps = 4
  MaxFaults = 1
SYMMETRY Symmetry
CHECK_DEADLOCK FALSE
INVARIANTS TypeOK HeldWhileInForce
PROPERTY AbuseHoldKept

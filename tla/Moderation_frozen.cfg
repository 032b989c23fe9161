SPECIFICATION Spec
CONSTANTS
  Instances = {i1}
  Links = {l1, l2}
  NoInst = NoInst
  Agents = {a1}
  Operators = {o1}
  Reasons = {"abuse", "instance_frozen"}
  MaxOps = 3
  MaxFaults = 0
CHECK_DEADLOCK FALSE
INVARIANT FrozenInstanceServesNothing

SPECIFICATION Spec
CONSTANTS
  i1 = i1
  i2 = i2
  g1 = g1
  g2 = g2
  gm = gm
  Insts = {i1, i2}
  Gems = {g1, g2, gm}
  GemsOf <- MCGemsOf
  Mcast = {gm}
  Invalid = {i2}
  TConts = {t1}
  None = None
  MaxReq = 2
  MaxDown = 1
  MaxDisturb = 1
  Kinds = {"sendErr", "lost", "refused", "late", "flow"}
CHECK_DEADLOCK FALSE
INVARIANTS DoneIsConfigured NoDanglingGem ResettingEnds
PROPERTIES RequestEnds FsmSettles

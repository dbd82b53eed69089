SPECIFICATION Spec
CONSTANTS
  c1 = c1
  c2 = c2
  ra = ra
  rb = rb
  p = p
  q = q
  Flows <- MCFlows
  Rules = {ra, rb}
  Tps = {p, q}
  TpOf <- MCTpOf
  MatchOf <- MCMatchOf
  SetOf <- MCSetOf
  InnerOf <- MCInnerOf
  Metered = {rb}
  McastTps = {p}
  Incremental = TRUE
  MaxRules = 2
  None = None
  MaxFlow = 4
  MaxTp = 3
  MaxDisturb = 0
  Kinds = {}
CHECK_DEADLOCK FALSE
INVARIANT RemoveOkIsGone

SPECIFICATION Spec
CONSTANTS
  c1 = c1
  c2 = c2
  ra = ra
  rb = rb
  p = p
  q = q
  Flows <- MCFlows
  Rules = {ra, rb}
  Tps = {p, q}
  TpOf <- MCTpOf
  MatchOf <- MCMatchOf
  SetOf <- MCSetOf
  InnerOf <- MCInnerOf
  Metered = {rb}
  McastTps = {p}
  Incremental = TRUE
  MaxRules = 2
  None = None
  MaxFlow = 3
  MaxTp = 2
  MaxDisturb = 1
  Kinds = {"sendErr", "lost", "refused", "late", "tpFail", "down"}
CHECK_DEADLOCK FALSE
INVARIANTS TypeOK AddOkIsConfigured
PROPERTIES FsmSettles ImplementsFlowTable

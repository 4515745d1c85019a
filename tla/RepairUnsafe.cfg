SPECIFICATION Spec
CONSTANTS
  NoAnswer = NoAnswer
  NoWant = NoWant
  r1 = r1
  r2 = r2
  k1 = k1
  k2 = k2
  Requests = {r1}
  Keys = {k1}
  Near <- ExactOnly
  Wants <- JsonWants
  Configs <- RepairingOnly
  Replies <- EveryReply
  Legacy = {}
  Options = {}
  Faults = {}
  MaxTiers = 1
CHECK_DEADLOCK FALSE
INVARIANTS ServedIsSafe

CONSTANTS
  aggregator = aggregator
  vip = vip
  ilan = ilan
  port = port
  LastIndex = 2
  Registered = {1, 2}
  Type = {0, 1, 2}
  Client = {aggregator, vip, ilan, port}
  Call <- MCCall
  Written = {1}
  MaxReferences = 3
  MaxStack = 0
SPECIFICATION Spec
INVARIANTS
  AdminStatusEnumerated

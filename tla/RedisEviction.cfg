SPECIFICATION RedisSpec
CONSTANTS
  Clients = {n1, n2}
  Fallbacks = {n2}
  MaxRows = 1
  Ttls = {0, 1}
  MaxStores = 2
  LastTick = 2

PROPERTIES EvictsOnlyOverBudget

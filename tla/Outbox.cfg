SPECIFICATION FairSpec
CONSTANTS
  Targets = {run}
  Rearmable = {run}
  Slots = {1, 2}
  Publishers = {relay, sweeper}
  Consumers = {c1, c2}
  Nobody = Nobody
  MaxFaults = 1
PROPERTIES DeliveryPromise
CHECK_DEADLOCK FALSE

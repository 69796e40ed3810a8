CONSTANTS
  w1 = w1
  w2 = w2
  c1 = c1
  c2 = c2
  NoOne = NoOne
  NoEvent = NoEvent
  Events = {1, 2, 3}
  Poison = {3}
  Relays = {w1, w2}
  Consumers = {c1}
  Limit = 2
  Prefetch = 1
  MaxFaults = 1
SPECIFICATION FairSpec
PROPERTIES EventuallyHandled

CONSTANTS
  r1 = r1
  r2 = r2
  r3 = r3
  InFlight = {r1}
  Keys <- MCKeys
  KeysOf <- ConcurrentKeysOf
  Limit <- MCLimit
  Window = 2
SPECIFICATION RateSpec
INVARIANT
  CountersExpire

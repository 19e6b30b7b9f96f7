SPECIFICATION AdFairSpec
CONSTANTS
  Requests = {r1, r2, r3, r4}
  Caps = {1, 2}
  Unlimited = None
  Patience = {"zero", "positive"}
INVARIANT SlotsConserved
INVARIANT NoLostWakeup
PROPERTY NoOvertaking
PROPERTY QueueDrains

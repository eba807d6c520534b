SPECIFICATION FairSpec
CONSTANTS
  Works = {w1, w2, w3}
INVARIANTS AddonRefsExact ResourcesOnce UnloadSafe
PROPERTIES TeardownEnds
CHECK_DEADLOCK FALSE

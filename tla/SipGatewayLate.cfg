SPECIFICATION GSpec
CONSTANTS
  Rand = {"r1"}
  Numbers = {"n1"}
  Nonces = {"c1"}
  SeqWrap = 1
  SeqRand = 1
  ByeSeq = 0
  Late = TRUE
  MaxFaults = 1
  MaxDown = 3
PROPERTIES
  PickupIsReal

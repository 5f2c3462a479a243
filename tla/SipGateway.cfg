SPECIFICATION GSpec
CONSTANTS
  Rand = {"r1"}
  Numbers = {"n1"}
  Nonces = {"c1"}
  SeqWrap = 1
  SeqRand = 1
  ByeSeq = 0
  Late = FALSE
  MaxFaults = 2
  MaxDown = 3
INVARIANTS
  CallIsShared
PROPERTIES
  PickupIsReal
  RegistersInTheEnd
  LapseHeals
  RingingEnds

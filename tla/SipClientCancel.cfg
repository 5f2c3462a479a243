SPECIFICATION FairSpec
CONSTANTS
  r1 = r1
  r2 = r2
  Rand = {r1, r2}
  Numbers = {"n1"}
  Nonces = {"c1"}
  SeqWrap = 4
  SeqRand = 1
  ByeSeq = 2
PROPERTY
  CancelMatchesInvite

SPECIFICATION MSpec
CONSTANTS
  Rand = {"r1"}
  Numbers = {"n1", "n2"}
  Nonces = {"c1"}
  SeqWrap = 1
  SeqRand = 1
  ByeSeq = 0
  ChannelCount = 3
  NumChannels = 2
  PhoneNumber <- MCPhoneNumber
INVARIANTS
  MTypeOK
  CallIsTimed
PROPERTY
  ImplementsCall

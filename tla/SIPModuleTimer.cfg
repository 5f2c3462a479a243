SPECIFICATION MSpec
CONSTANTS
  Rand = {"r1"}
  Numbers = {"n1"}
  Nonces = {"c1"}
  SeqWrap = 1
  SeqRand = 1
  ByeSeq = 0
  ChannelCount = 1
  NumChannels = 1
  PhoneNumber <- MCPhoneNumber
PROPERTY
  TimerHasACall

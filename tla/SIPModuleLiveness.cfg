SPECIFICATION MFairSpec
CONSTANTS
  Rand = {"r1"}
  Numbers = {"n1"}
  Nonces = {}
  SeqWrap = 1
  SeqRand = 1
  ByeSeq = 0
  ChannelCount = 2
  NumChannels = 2
  PhoneNumber <- MCPhoneNumber
PROPERTIES
  AttemptEnds
  HangupIsSent
  ErrorRecovers
  KoShowsRegistration
  TriggersServed

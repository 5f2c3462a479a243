SPECIFICATION SSpec
CONSTANTS
  Size = 12
  SdpSize = 5
  RtpPort = "p2"
  SeqWrap = 24
  Char = {"h", ":", "=", "|", "b", "-", "0", "1", "2", "3", "4", "5", "6", "7", "8", "9"}
  Pieces <- MCPieces
  Servers = {"gateway", "caller"}
  Ports = {"p1", "p2"}
  HeadLength = {1, 4}
  BodyLength = {0, 2, 6}
INVARIANTS
  UTypeOK
  TextIsCut
  OpenAddress
  LengthIsBody
  NumberSurvives
  RtpIsReopened

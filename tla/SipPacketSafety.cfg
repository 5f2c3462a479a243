SPECIFICATION PFairSpec
CONSTANTS
  Nonces = {"n1"}
  Datagrams <- MCDatagrams
  Line <- MCLine
  Text <- MCText
  Mixed = Mixed
  MaxDatagrams = 3
INVARIANTS
  PTypeOK
  FirstMessageDecides
  BodyIsOfFirst
  SeenIsPacket
  CutHeaderIsRefused
PROPERTY
  ParseEnds

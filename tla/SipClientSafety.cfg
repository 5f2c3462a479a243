\* Two random values, so that a new tag, branch or Call-ID can differ from the
\* last one; four CSeq values, so that the counter wraps and 104 is one of them.
SPECIFICATION Spec
CONSTANTS
  r1 = r1
  r2 = r2
  Rand = {r1, r2}
  Numbers = {"n1"}
  Nonces = {"c1"}
  SeqWrap = 4
  SeqRand = 1
  ByeSeq = 2
SYMMETRY Perms
INVARIANTS
  TypeOK
  TransientStatesSeeNoPacket
  UnauthInviteIsBare
  InvitesGoWhereAsked
  InviteIsCancellable
  AnswerIsAcknowledged
PROPERTY
  AckMatchesInvite

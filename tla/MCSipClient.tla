---------------------------- MODULE MCSipClient ----------------------------
EXTENDS SipClient, TLC
CONSTANTS r1, r2
Perms == Permutations({r1, r2})
=============================================================================

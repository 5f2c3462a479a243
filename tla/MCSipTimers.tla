---------------------------- MODULE MCSipTimers ----------------------------
EXTENDS SipTimers
MCLimit == [n \in Name |-> CASE n = "window" -> 2 [] n = "backoff" -> 4
                             [] n = "call" -> 5]
=============================================================================

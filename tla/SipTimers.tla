----------------------------- MODULE SipTimers -----------------------------
(***************************************************************************)
(* The millis() timers that SipClient.tla and SIPModule.tla reduce to      *)
(* "zero", "running" and "elapsed": the receive window and the back-off of *)
(* sip_client.h and the call timer of SIPModule.cpp.  Each keeps its start *)
(* in a register and compares the unsigned difference to its limit.  0     *)
(* means "not armed" for the window and the call, which so have to step    *)
(* around millis() = 0, at boot and whenever the 32-bit clock wraps; the   *)
(* back-off is looked at in the state ERROR, whatever its register holds.  *)
(***************************************************************************)
EXTENDS Integers

CONSTANTS Wrap,    \* millis() is an unsigned long of 32 bits: 2^32
          Limit,   \* SOCKET_RX_TIMEOUT_MSEC, 1000 and _sipCallTimeoutMs
          LoopGap  \* milliseconds by which loop() may come late

Name == {"window", "backoff", "call"}

ASSUME LimitAssumption == /\ Wrap \in Nat /\ LoopGap \in Nat
                          /\ Limit \in [Name -> 1 .. Wrap]
                          /\ \A n \in Name : Limit[n] + LoopGap < Wrap - 1

VARIABLES
  clock,   \* millis()
  started, \* m_receivedStarted, m_errorStarted and _sipCallSince
  inError, \* m_state = SipState::ERROR
  age      \* history: the milliseconds since a timer was armed; -1 if it is not

tvars == <<clock, started, inError, age>>

TInit == /\ clock \in 0 .. Wrap - 1
         /\ started = [n \in Name |-> 0]
         /\ inError = FALSE
         /\ age = [n \in Name |-> -1]

\* A deviation used to test TimersFire: the start is stored as it is.
PlainStamp == clock

\* What is stored when a timer is armed: "if (now == 0) now = 1".
Stamp == IF clock = 0 THEN 1 ELSE clock

\* A deviation used to test WindowIsKept: only the start is moved off 0.
PlainSample(n) == clock

\* rx() moves the value it compares with off 0, too; the others do not.
Sample(n) == IF n = "window" THEN Stamp ELSE clock

\* What the comparison is made for.
LooksAt(n) == IF n = "backoff" THEN inError ELSE started[n] # 0

\* A deviation used to test EarlyOnlyAtZero: a deadline is compared,
\* instead of a difference.
DeadlinePassed(n) ==
  /\ LooksAt(n)
  /\ Sample(n) >= (started[n] + Limit[n]) % Wrap

Passed(n) ==
  LET elapsed == (Sample(n) - started[n]) % Wrap
  IN  /\ LooksAt(n)
      /\ IF n = "call" THEN elapsed > Limit[n] ELSE elapsed >= Limit[n]

\* The start is stamped anew, also over one that LeaveError has left behind.
Arm(n) ==
  /\ ~LooksAt(n)
  /\ started' = [started EXCEPT ![n] = Stamp]
  /\ age' = [age EXCEPT ![n] = 0]
  /\ inError' = (inError \/ n = "backoff")
  /\ UNCHANGED clock

Fire(n) ==
  /\ Passed(n)
  /\ started' = [started EXCEPT ![n] = 0]
  /\ age' = [age EXCEPT ![n] = -1]
  /\ inError' = (inError /\ n # "backoff")
  /\ UNCHANGED clock

\* A hang-up takes the client out of ERROR, and m_errorStarted stays as it is.
LeaveError ==
  /\ inError
  /\ inError' = FALSE
  /\ age' = [age EXCEPT !["backoff"] = -1]
  /\ UNCHANGED <<clock, started>>

\* The network is gone: the client is deleted, and the call timer cleared.
LoseClient ==
  /\ started' = [n \in Name |-> 0]
  /\ inError' = FALSE
  /\ age' = [n \in Name |-> -1]
  /\ UNCHANGED clock

\* loop() comes by before a timer is more than LoopGap too old.
Tick ==
  /\ \A n \in Name : age[n] < Limit[n] + LoopGap
  /\ clock' = (clock + 1) % Wrap
  /\ age' = [n \in Name |-> IF age[n] >= 0 THEN age[n] + 1 ELSE -1]
  /\ UNCHANGED <<started, inError>>

TNext == Tick \/ LeaveError \/ LoseClient \/ \E n \in Name : Arm(n) \/ Fire(n)

TSpec == TInit /\ [][TNext]_tvars

-----------------------------------------------------------------------------
\* The clock and the stored starts are values of millis().
TTypeOK == /\ clock \in 0 .. Wrap - 1
           /\ started \in [Name -> 0 .. Wrap - 1] /\ inError \in BOOLEAN
           /\ age \in [Name -> -1 .. Wrap - 1]

\* A timer that was armed and not dropped passes at most two milliseconds late,
\* wherever the clock wraps between its start and its end, and whatever start an
\* earlier back-off has left behind.
TimersFire == \A n \in Name : age[n] >= Limit[n] + 2 => Passed(n)

\* The receive window is open for its time, less the millisecond that is
\* skipped when the clock wraps: the start and the sample move off 0 together.
WindowIsKept == Passed("window") => age["window"] >= Limit["window"] - 1

\* The back-off and the time of a call are cut short in one case only: armed and
\* looked at within the millisecond in which the clock is 0, where the stored
\* start, 1, lies ahead of it.
EarlyOnlyAtZero ==
  \A n \in {"backoff", "call"} :
    Passed(n) /\ age[n] < Limit[n] => clock = 0 /\ age[n] = 0

=============================================================================

-------------------------- MODULE SipTimers_proofs --------------------------
(***************************************************************************)
(* Theorems about the timers, for every width of the clock and all limits  *)
(* that fit in it: 2^32, and milliseconds to minutes, among them.          *)
(***************************************************************************)
EXTENDS SipTimers, TLAPS

\* The remainder of what is less than one turn of the clock away from 0.
LEMMA OneTurn ==
  ASSUME NEW w \in Nat \ {0}, NEW x \in Int, -w < x, x < w
  PROVE  x % w = IF x >= 0 THEN x ELSE x + w
<1>1. CASE x >= 0
  BY <1>1
<1>2. CASE x < 0
  BY <1>2
<1> QED
  BY <1>1, <1>2

-----------------------------------------------------------------------------
(***************************************************************************)
(* The inductive invariant: the register of a timer that is armed holds    *)
(* what the clock was when the timer's age was 0, moved off 0; of those    *)
(* that are not, only the back-off may have a start left in its register.  *)
(***************************************************************************)
ClockAt(a) == IF clock >= a THEN clock - a ELSE clock - a + Wrap
OffZero(x) == IF x = 0 THEN 1 ELSE x

StartIsKept(n) ==
  /\ age[n] <= Limit[n] + LoopGap
  /\ IF age[n] = -1 THEN ~LooksAt(n)
                    ELSE LooksAt(n) /\ started[n] = OffZero(ClockAt(age[n]))
TInv == TTypeOK /\ \A n \in Name : StartIsKept(n)

\* The limits leave room for a delay, and so for at least three ticks.
LEMMA Limits ==
  /\ Wrap \in Nat /\ LoopGap \in Nat
  /\ \A n \in Name : Limit[n] \in Nat \ {0} /\ Limit[n] + LoopGap < Wrap - 1
  /\ Wrap > 2
<1>1. "call" \in Name
  BY DEF Name
<1> QED
  BY <1>1, LimitAssumption

LEMMA TInvInit == TInit => TInv
<1> SUFFICES ASSUME TInit PROVE TInv
  OBVIOUS
<1>1. TTypeOK
  <2>1. inError \in BOOLEAN
    BY DEF TInit
  <2> QED
    BY <2>1, Limits DEF TInit, TTypeOK
<1>2. ASSUME NEW n \in Name PROVE StartIsKept(n)
  BY Limits DEF TInit, StartIsKept, LooksAt
<1> QED
  BY <1>1, <1>2 DEF TInv

LEMMA TickMovesClock ==
  TInv /\ Tick => clock' = IF clock + 1 = Wrap THEN 0 ELSE clock + 1
<1> SUFFICES ASSUME TInv, Tick
             PROVE  clock' = IF clock + 1 = Wrap THEN 0 ELSE clock + 1
  OBVIOUS
<1>1. clock \in 0 .. Wrap - 1 /\ Wrap \in Nat \ {0} /\ clock' = (clock + 1) % Wrap
  BY Limits DEF TInv, TTypeOK, Tick
<1>2. CASE clock + 1 = Wrap
  BY <1>1, <1>2
<1>3. CASE clock + 1 # Wrap
  <2> DEFINE x == clock + 1
  <2>1. x \in 0 .. Wrap - 1
    BY <1>1, <1>3
  <2> HIDE DEF x
  <2>2. x % Wrap = x
    BY <1>1, <2>1, OneTurn
  <2> QED
    BY <1>1, <1>3, <2>2 DEF x
<1> QED
  BY <1>2, <1>3

\* A tick of the clock makes every armed timer one tick older and moves
\* no start.
LEMMA TickKeeps == TInv /\ Tick => TInv'
<1> SUFFICES ASSUME TInv, Tick PROVE TInv'
  OBVIOUS
<1>1. clock' = IF clock + 1 = Wrap THEN 0 ELSE clock + 1
  BY TickMovesClock
<1>2. ASSUME NEW n \in Name
      PROVE  /\ age[n] \in -1 .. Wrap - 1 /\ age[n] < Limit[n] + LoopGap
             /\ age'[n] = IF age[n] >= 0 THEN age[n] + 1 ELSE -1
             /\ started'[n] = started[n] /\ LooksAt(n)' = LooksAt(n)
  BY DEF TInv, TTypeOK, Tick, LooksAt
<1>3. TTypeOK'
  <2>1. clock' \in 0 .. Wrap - 1
    BY <1>1, Limits DEF TInv, TTypeOK
  <2>2. age' \in [Name -> -1 .. Wrap - 1]
    <3>1. \A n \in Name : age'[n] \in -1 .. Wrap - 1
      BY <1>2, Limits
    <3> QED
      BY <3>1 DEF Tick
  <2> QED
    BY <2>1, <2>2 DEF TInv, TTypeOK, Tick
<1>4. ASSUME NEW n \in Name PROVE StartIsKept(n)'
  <2>1. clock \in 0 .. Wrap - 1 /\ StartIsKept(n)
    BY DEF TInv, TTypeOK
  <2>2. CASE age[n] = -1
    BY <1>2, <2>1, <2>2, Limits DEF StartIsKept
  <2>3. CASE age[n] # -1
    <3>1. ClockAt(age[n]) = ClockAt(age[n])'
      BY <1>1, <1>2, <2>1, <2>3, Limits DEF ClockAt
    <3> QED
      BY <1>2, <2>1, <2>3, <3>1, Limits DEF StartIsKept
  <2> QED
    BY <2>2, <2>3
<1> QED
  BY <1>3, <1>4 DEF TInv

LEMMA ArmKeeps == ASSUME TInv, NEW n \in Name, Arm(n) PROVE TInv'
<1>1. TTypeOK'
  <2>1. inError' \in BOOLEAN
    BY DEF Arm
  <2> QED
    BY <2>1, Limits DEF TInv, TTypeOK, Arm, Stamp
<1>2. ASSUME NEW m \in Name PROVE StartIsKept(m)'
  <2>1. CASE m = n
    <3>1. started'[m] = OffZero(clock) /\ age'[m] = 0 /\ clock' = clock
      BY <2>1 DEF TInv, TTypeOK, Arm, Stamp, OffZero
    <3>2. ClockAt(age[m])' = clock /\ started'[m] # 0
      BY <3>1 DEF TInv, TTypeOK, ClockAt, OffZero
    <3>3. LooksAt(m)'
      BY <2>1, <3>2 DEF LooksAt, Arm
    <3> QED
      BY <3>1, <3>2, <3>3, Limits DEF StartIsKept, OffZero
  <2>2. CASE m # n
    <3>1. started'[m] = started[m] /\ age'[m] = age[m] /\ clock' = clock
      BY <2>2 DEF TInv, TTypeOK, Arm
    <3>2. LooksAt(m)' = LooksAt(m)
      BY <2>2, <3>1 DEF LooksAt, Arm, TInv, TTypeOK
    <3> QED
      BY <3>1, <3>2 DEF TInv, StartIsKept, ClockAt
  <2> QED
    BY <2>1, <2>2
<1> QED
  BY <1>1, <1>2 DEF TInv

\* A timer that is cleared or dropped is no longer looked at.
LEMMA DropKeeps ==
  ASSUME TInv, NEW n \in Name, Fire(n) \/ (n = "backoff" /\ LeaveError)
  PROVE  TInv'
<1>1. TTypeOK'
  <2>1. inError' \in BOOLEAN
    BY DEF Fire, LeaveError, TInv, TTypeOK
  <2>2. CASE Fire(n)
    BY <2>1, <2>2, Limits DEF TInv, TTypeOK, Fire
  <2>3. CASE LeaveError
    <3>1. -1 \in -1 .. Wrap - 1
      BY Limits
    <3>2. age' \in [Name -> -1 .. Wrap - 1]
      BY <2>3, <3>1 DEF TInv, TTypeOK, LeaveError
    <3> QED
      BY <2>1, <2>3, <3>2 DEF TInv, TTypeOK, LeaveError
  <2> QED
    BY <2>2, <2>3
<1>2. ASSUME NEW m \in Name PROVE StartIsKept(m)'
  <2>1. CASE m = n
    <3>1. age'[m] = -1 /\ ~LooksAt(m)'
      BY <2>1 DEF TInv, TTypeOK, Fire, LeaveError, LooksAt
    <3> QED
      BY <3>1, Limits DEF StartIsKept
  <2>2. CASE m # n
    <3>1. started'[m] = started[m] /\ age'[m] = age[m] /\ clock' = clock
      BY <2>2 DEF TInv, TTypeOK, Fire, LeaveError
    <3>2. LooksAt(m)' = LooksAt(m)
      BY <2>2, <3>1 DEF LooksAt, Fire, LeaveError, TInv, TTypeOK
    <3> QED
      BY <3>1, <3>2 DEF TInv, StartIsKept, ClockAt
  <2> QED
    BY <2>1, <2>2
<1> QED
  BY <1>1, <1>2 DEF TInv

LEMMA LossDrops ==
  ASSUME LoseClient, NEW n \in Name PROVE ~LooksAt(n)' /\ age'[n] = -1
<1>1. ~inError' /\ started'[n] = 0
  BY DEF LoseClient
<1> QED
  BY <1>1 DEF LooksAt, LoseClient

LEMMA LossKeeps == ASSUME TInv, LoseClient PROVE TInv'
<1>1. TTypeOK'
  <2>1. inError' \in BOOLEAN
    BY DEF LoseClient
  <2> QED
    BY <2>1, Limits DEF TInv, TTypeOK, LoseClient
<1>2. ASSUME NEW n \in Name PROVE StartIsKept(n)'
  BY LossDrops, Limits DEF StartIsKept
<1> QED
  BY <1>1, <1>2 DEF TInv

\* Every register holds the clock of the moment its timer was last armed, for as
\* long as the timer is looked at: no start is left over from an earlier time.
THEOREM StartsAreKept == TSpec => []TInv
<1>1. TInit => TInv
  BY TInvInit
<1>2. TInv /\ [TNext]_tvars => TInv'
  <2> SUFFICES ASSUME TInv, [TNext]_tvars PROVE TInv'
    OBVIOUS
  <2>1. CASE Tick
    BY <2>1, TickKeeps
  <2>2. ASSUME NEW n \in Name, Arm(n) PROVE TInv'
    BY <2>2, ArmKeeps
  <2>3. ASSUME NEW n \in Name, Fire(n) PROVE TInv'
    <3>1. Fire(n) \/ (n = "backoff" /\ LeaveError)
      BY <2>3
    <3> QED
      BY <3>1, DropKeeps
  <2>4. CASE LeaveError
    <3>1. "backoff" \in Name
      BY DEF Name
    <3> QED
      BY <2>4, <3>1, DropKeeps
  <2>5. CASE LoseClient
    BY <2>5, LossKeeps
  <2>6. CASE UNCHANGED tvars
    BY <2>6 DEF tvars, TInv, TTypeOK, StartIsKept, ClockAt, OffZero, LooksAt
  <2> QED
    BY <2>1, <2>2, <2>3, <2>4, <2>5, <2>6 DEF TNext
<1> QED
  BY <1>1, <1>2, PTL DEF TSpec

-----------------------------------------------------------------------------
(***************************************************************************)
(* What a comparison of such a register yields.                            *)
(***************************************************************************)
Elapsed(n) == (Sample(n) - started[n]) % Wrap

\* The difference that is compared is the age of the timer, but for the tick
\* that is skipped at 0: at the start, which makes it one less (or, while the
\* clock is still 0, almost a whole turn), and in the sample, which makes it one
\* more, or both.
LEMMA ElapsedIsAge ==
  ASSUME TInv, NEW n \in Name, age[n] # -1
  PROVE  /\ LooksAt(n)
         /\ age[n] \in Nat /\ age[n] <= Limit[n] + LoopGap
         /\ clock \in 0 .. Wrap - 1
         /\ Elapsed(n) =
              IF ClockAt(age[n]) # 0
              THEN IF n = "window" /\ clock = 0 THEN age[n] + 1 ELSE age[n]
              ELSE IF clock # 0 THEN age[n] - 1
              ELSE IF n = "window" THEN 0 ELSE Wrap - 1
<1>1. /\ clock \in 0 .. Wrap - 1 /\ age[n] \in Nat /\ age[n] <= Wrap - 2
      /\ age[n] <= Limit[n] + LoopGap
      /\ started[n] = OffZero(ClockAt(age[n])) /\ LooksAt(n)
  BY Limits DEF TInv, TTypeOK, StartIsKept
<1>2. started[n] \in 1 .. Wrap - 1
  BY <1>1, Limits DEF ClockAt, OffZero
<1>3. Sample(n) \in 0 .. Wrap - 1
  BY <1>1, Limits DEF Sample, Stamp
<1>4. Elapsed(n) = IF Sample(n) >= started[n] THEN Sample(n) - started[n]
                   ELSE Sample(n) - started[n] + Wrap
  <2> DEFINE x == Sample(n) - started[n]
  <2>1. x \in Int /\ -Wrap < x /\ x < Wrap /\ Wrap \in Nat \ {0}
    BY <1>2, <1>3, Limits
  <2> HIDE DEF x
  <2>2. x % Wrap = IF x >= 0 THEN x ELSE x + Wrap
    BY <2>1, OneTurn
  <2> QED
    BY <1>2, <1>3, <2>2, Limits DEF Elapsed, x
<1>5. CASE ClockAt(age[n]) # 0
  BY <1>1, <1>4, <1>5, Limits DEF ClockAt, OffZero, Sample, Stamp
<1>6. CASE ClockAt(age[n]) = 0
  <2>1. age[n] = clock /\ started[n] = 1
    BY <1>1, <1>6, Limits DEF ClockAt, OffZero
  <2> QED
    BY <1>1, <1>4, <1>6, <2>1, Limits DEF Sample, Stamp
<1> QED
  BY <1>1, <1>2, <1>5, <1>6

LEMMA UnarmedIsSilent ==
  ASSUME TInv, NEW n \in Name, age[n] = -1 PROVE ~Passed(n)
  BY DEF TInv, StartIsKept, Passed

\* A timer that was armed is never lost, and passes at most two ticks late
\* (run "timers", for every clock).
THEOREM ArmedTimersFire == TSpec => []TimersFire
<1>1. TInv => TimersFire
  <2> SUFFICES ASSUME TInv, NEW n \in Name, age[n] >= Limit[n] + 2
               PROVE  Passed(n)
    BY DEF TimersFire
  <2>1. age[n] # -1
    BY Limits
  <2>2. Elapsed(n) >= Limit[n] + 1
    <3>1. age[n] - 1 >= Limit[n] + 1 /\ Wrap - 1 > Limit[n] + 1
      BY <2>1, ElapsedIsAge, Limits
    <3>2. ClockAt(age[n]) = 0 => clock # 0
      BY <2>1, ElapsedIsAge, Limits DEF ClockAt
    <3> QED
      BY <2>1, <3>1, <3>2, ElapsedIsAge, Limits
  <2> QED
    BY <2>1, <2>2, ElapsedIsAge, Limits DEF Passed, Elapsed
<1> QED
  BY <1>1, StartsAreKept, PTL

\* The receive window is never cut short by more than the tick at 0.
THEOREM WindowsAreKept == TSpec => []WindowIsKept
<1>1. TInv => WindowIsKept
  <2> SUFFICES ASSUME TInv, Passed("window")
               PROVE  age["window"] >= Limit["window"] - 1
    BY DEF WindowIsKept
  <2>1. "window" \in Name
    BY DEF Name
  <2>2. age["window"] # -1
    BY <2>1, UnarmedIsSilent
  <2>3. Elapsed("window") >= Limit["window"]
    BY DEF Passed, Elapsed
  <2> QED
    BY <2>1, <2>2, <2>3, ElapsedIsAge, Limits
<1> QED
  BY <1>1, StartsAreKept, PTL

\* The back-off and the time of a call end early in one case only: armed and
\* looked at in the same tick, in which the clock is 0.
THEOREM EarlyAtZeroOnly == TSpec => []EarlyOnlyAtZero
<1>1. TInv => EarlyOnlyAtZero
  <2> SUFFICES ASSUME TInv, NEW n \in {"backoff", "call"},
                      Passed(n), age[n] < Limit[n]
               PROVE  clock = 0 /\ age[n] = 0
    BY DEF EarlyOnlyAtZero
  <2>1. n \in Name /\ n # "window"
    BY DEF Name
  <2>2. age[n] # -1
    BY <2>1, UnarmedIsSilent
  <2>3. Elapsed(n) >= Limit[n]
    <3>1. Elapsed(n) > Limit[n] \/ Elapsed(n) >= Limit[n]
      BY DEF Passed, Elapsed
    <3>2. Elapsed(n) \in Int
      BY <2>1, <2>2, ElapsedIsAge, Limits
    <3> QED
      BY <2>1, <3>1, <3>2, Limits
  <2>4. ClockAt(age[n]) = 0 /\ clock = 0
    BY <2>1, <2>2, <2>3, ElapsedIsAge, Limits
  <2> QED
    BY <2>1, <2>2, <2>4, ElapsedIsAge, Limits DEF ClockAt
<1> QED
  BY <1>1, StartsAreKept, PTL

-----------------------------------------------------------------------------
(***************************************************************************)
(* An elapsed timer stays elapsed: what allows SipClient.tla and           *)
(* SIPModule.tla to keep "zero", "running" and "elapsed" only.             *)
(***************************************************************************)
\* The exception of EarlyOnlyAtZero: the start lies one ahead of the clock.
Ahead(n) == n # "window" /\ clock = 0 /\ age[n] = 0

Difference(n) ==
  IF ClockAt(age[n]) # 0
  THEN IF n = "window" /\ clock = 0 THEN age[n] + 1 ELSE age[n]
  ELSE IF clock # 0 THEN age[n] - 1
  ELSE IF n = "window" THEN 0 ELSE Wrap - 1

Compares(n) ==
  age[n] # -1 => /\ age[n] \in Nat /\ age[n] <= Limit[n] + LoopGap
                 /\ clock \in 0 .. Wrap - 1
                 /\ Elapsed(n) = Difference(n)
                 /\ LooksAt(n)

AllCompare == \A n \in Name : Compares(n)

\* ElapsedIsAge for all timers, before and after a step.
LEMMA Comparisons == TInv => AllCompare
BY ElapsedIsAge DEF AllCompare, Compares, Difference

LEMMA NextComparisons == TInv' => AllCompare'
BY Comparisons, PTL

\* A tick never makes the difference that is compared smaller, but for a timer
\* armed in this very tick, at 0.
LEMMA TickKeepsPassed ==
  ASSUME TInv, Tick, NEW n \in Name, Passed(n), ~Ahead(n)
  PROVE  Passed(n)'
<1>1. age[n] # -1
  BY UnarmedIsSilent
<1>2. TInv'
  BY TickKeeps
<1>3. Compares(n)
  BY Comparisons DEF AllCompare
<1>4. Compares(n)'
  BY <1>2, NextComparisons DEF AllCompare
<1>5. age'[n] = age[n] + 1 /\ age'[n] # -1 /\ age[n] < Limit[n] + LoopGap
  BY <1>1, <1>3 DEF Tick, Compares
<1>6. clock' = IF clock + 1 = Wrap THEN 0 ELSE clock + 1
  BY TickMovesClock
<1>7. ClockAt(age[n])' = ClockAt(age[n])
  BY <1>1, <1>3, <1>5, <1>6, Limits DEF ClockAt, Compares
<1>8. Difference(n)' >= Difference(n)
  BY <1>1, <1>3, <1>5, <1>6, <1>7, Limits DEF Difference, ClockAt, Compares, Ahead
<1>9. /\ Elapsed(n) = Difference(n) /\ Elapsed(n)' = Difference(n)'
      /\ Difference(n) \in Int /\ Difference(n)' \in Int /\ LooksAt(n)'
  BY <1>1, <1>3, <1>4, <1>5, <1>6, Limits DEF Compares, Difference
<1> QED
  BY <1>8, <1>9, Limits DEF Passed, Elapsed

StaysElapsed ==
  \A n \in Name : Passed(n) /\ ~Ahead(n) => ~LooksAt(n)' \/ Passed(n)'

\* What SipClient.tla and SIPModule.tla make of a timer.
Shown(n) == IF ~LooksAt(n) THEN "zero"
            ELSE IF Passed(n) THEN "elapsed" ELSE "running"

NextShown == {<<"zero", "running">>, <<"running", "elapsed">>,
              <<"elapsed", "zero">>}

\* The two ways of the code to give a timer up before its time.
GivenUp(n) == LoseClient \/ (n = "backoff" /\ LeaveError)

OneTimerStep ==
  \A n \in Name : \/ Shown(n)' = Shown(n)
                  \/ <<Shown(n), Shown(n)'>> \in NextShown
                  \/ Shown(n)' = "zero" /\ GivenUp(n)
                  \/ Ahead(n) \/ Ahead(n)'

\* A timer that is armed starts with its whole time before it.
LEMMA ArmedRuns ==
  ASSUME TInv, NEW n \in Name, Arm(n) PROVE ~Passed(n)' \/ Ahead(n)'
<1>1. TInv'
  BY ArmKeeps
<1>2. age'[n] = 0 /\ clock' = clock
  BY DEF Arm, TInv, TTypeOK
<1>3. Compares(n)'
  BY <1>1, NextComparisons DEF AllCompare
<1>4. ~Ahead(n)' => Elapsed(n)' = 0
  BY <1>2, <1>3, Limits DEF Difference, Compares, Ahead, ClockAt
<1>5. Elapsed(n)' = 0 => ~Passed(n)'
  BY Limits DEF Passed, Elapsed
<1> QED
  BY <1>4, <1>5

LEMMA SameStaysElapsed ==
  ASSUME NEW n \in Name, Passed(n), started'[n] = started[n], clock' = clock
  PROVE  ~LooksAt(n)' \/ Passed(n)'
BY DEF Passed, Sample, Stamp

LEMMA ElapsedStays == TInv /\ TNext => StaysElapsed
<1> SUFFICES ASSUME TInv, TNext, NEW n \in Name, Passed(n), ~Ahead(n)
             PROVE  ~LooksAt(n)' \/ Passed(n)'
  BY DEF StaysElapsed
<1>1. CASE Tick
  BY <1>1, TickKeepsPassed
<1>2. ASSUME NEW m \in Name, Arm(m) PROVE ~LooksAt(n)' \/ Passed(n)'
  <2>1. m # n
    BY <1>2 DEF Arm, Passed
  <2>2. started'[n] = started[n] /\ clock' = clock
    BY <1>2, <2>1 DEF Arm, TInv, TTypeOK
  <2> QED
    BY <2>2, SameStaysElapsed
<1>3. ASSUME NEW m \in Name, Fire(m) PROVE ~LooksAt(n)' \/ Passed(n)'
  <2>1. CASE m = n
    BY <1>3, <2>1 DEF Fire, LooksAt, TInv, TTypeOK
  <2>2. CASE m # n
    <3>1. started'[n] = started[n] /\ clock' = clock
      BY <1>3, <2>2 DEF Fire, TInv, TTypeOK
    <3> QED
      BY <3>1, SameStaysElapsed
  <2> QED
    BY <2>1, <2>2
<1>4. CASE LeaveError
  BY <1>4, SameStaysElapsed DEF LeaveError
<1>5. CASE LoseClient
  BY <1>5, LossDrops
<1> QED
  BY <1>1, <1>2, <1>3, <1>4, <1>5 DEF TNext

\* Once one of the three comparisons of sip_client.h and SIPModule.cpp holds it
\* goes on to hold, over every wrap of millis(), until its timer is cleared or
\* given up: a loop() that comes by late finds no timer that passed and is
\* running again.
THEOREM ElapsedIsStable == TSpec => [][StaysElapsed]_tvars
BY ElapsedStays, StartsAreKept, PTL DEF TSpec

LEMMA SameIsShown ==
  ASSUME NEW n \in Name, started'[n] = started[n], clock' = clock,
         LooksAt(n)' = LooksAt(n)
  PROVE  Shown(n)' = Shown(n)
BY DEF Shown, Passed, Sample, Stamp

\* A timer of the code goes from "zero" to "running", from there to "elapsed" and
\* back to "zero", one after the other, or is given up on the way when a hang-up
\* ends ERROR or the network is lost; but for a back-off or a call started in the
\* millisecond at which millis() is 0.  This is all that SipClient.tla and
\* SIPModule.tla know of a timer.
THEOREM TimersAreThreeValued == TSpec => [][OneTimerStep]_tvars
<1>1. TInv /\ [TNext]_tvars => [OneTimerStep]_tvars
  <2> SUFFICES ASSUME TInv, TNext, NEW n \in Name, ~Ahead(n), ~Ahead(n)'
               PROVE  \/ Shown(n)' = Shown(n)
                      \/ <<Shown(n), Shown(n)'>> \in NextShown
                      \/ Shown(n)' = "zero" /\ GivenUp(n)
    BY DEF OneTimerStep
  <2>1. CASE Tick
    <3>1. Passed(n) => Passed(n)'
      BY <2>1, TickKeepsPassed
    <3>2. LooksAt(n)' = LooksAt(n)
      BY <2>1 DEF Tick, LooksAt
    <3> QED
      BY <3>1, <3>2 DEF Shown, NextShown
  <2>2. ASSUME NEW m \in Name, Arm(m)
        PROVE  Shown(n)' = Shown(n) \/ <<Shown(n), Shown(n)'>> \in NextShown
    <3>1. CASE m = n
      <4>1. ~LooksAt(n) /\ ~Passed(n)'
        BY <2>2, <3>1, ArmedRuns DEF Arm
      <4>2. LooksAt(n)'
        <5>1. age'[n] = 0
          BY <2>2, <3>1 DEF Arm, TInv, TTypeOK
        <5>2. StartIsKept(n)'
          BY <2>2, ArmKeeps DEF TInv
        <5> QED
          BY <5>1, <5>2 DEF StartIsKept
      <4> QED
        BY <4>1, <4>2 DEF Shown, NextShown
    <3>2. CASE m # n
      <4>1. started'[n] = started[n] /\ clock' = clock
        BY <2>2, <3>2 DEF Arm, TInv, TTypeOK
      <4>2. LooksAt(n)' = LooksAt(n)
        BY <2>2, <3>2, <4>1 DEF Arm, LooksAt, TInv, TTypeOK
      <4> QED
        BY <4>1, <4>2, SameIsShown
    <3> QED
      BY <3>1, <3>2
  <2>3. ASSUME NEW m \in Name, Fire(m)
        PROVE  Shown(n)' = Shown(n) \/ <<Shown(n), Shown(n)'>> \in NextShown
    <3>1. CASE m = n
      <4>1. Passed(n) /\ LooksAt(n) /\ ~LooksAt(n)'
        BY <2>3, <3>1 DEF Fire, Passed, LooksAt, TInv, TTypeOK
      <4> QED
        BY <4>1 DEF Shown, NextShown
    <3>2. CASE m # n
      <4>1. started'[n] = started[n] /\ clock' = clock
        BY <2>3, <3>2 DEF Fire, TInv, TTypeOK
      <4>2. LooksAt(n)' = LooksAt(n)
        BY <2>3, <3>2, <4>1 DEF Fire, LooksAt, TInv, TTypeOK
      <4> QED
        BY <4>1, <4>2, SameIsShown
    <3> QED
      BY <3>1, <3>2
  <2>4. CASE LeaveError
    <3>1. CASE n = "backoff"
      BY <2>4, <3>1 DEF LeaveError, GivenUp, Shown, LooksAt
    <3>2. CASE n # "backoff"
      <4>1. started'[n] = started[n] /\ clock' = clock /\ LooksAt(n)' = LooksAt(n)
        BY <2>4, <3>2 DEF LeaveError, LooksAt
      <4> QED
        BY <4>1, SameIsShown
    <3> QED
      BY <3>1, <3>2
  <2>5. CASE LoseClient
    BY <2>5, LossDrops DEF GivenUp, Shown
  <2> QED
    BY <2>1, <2>2, <2>3, <2>4, <2>5 DEF TNext
<1> QED
  BY <1>1, StartsAreKept, PTL DEF TSpec

=============================================================================

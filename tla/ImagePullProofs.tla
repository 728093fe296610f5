--------------------------- MODULE ImagePullProofs ---------------------------
(* Proofs about ImagePull, for any deadline and any interval of the ticker. *)
EXTENDS ImagePull, TLAPS

\* The type invariant in three parts, which need different provers.
Places ==
    /\ call \in {"request", "reading", "stop", "cancel", "returned"}
    /\ result \in Outcome \cup {"none"}
    /\ reporter \in {"none", "starting", "select", "looked", "gone"}
Flags == {stopped, cancelled, due, silent} \subseteq BOOLEAN
Times ==
    /\ {age, quiet, seen, elapsed} \subseteq Nat
    /\ elapsed < Interval

LEMMA TypeParts == TypeOK <=> Places /\ Flags /\ Times
  BY DEF TypeOK, Places, Flags, Times

\* What each goroutine has done when the other is where it is.
Ordered ==
    /\ call = "request" => ~cancelled /\ reporter = "none"
    /\ call = "reading" => ~stopped /\ reporter # "none"
    /\ stopped => call \in {"cancel", "returned"}
    /\ call \in {"cancel", "returned"} /\ reporter \notin {"none", "gone"} => stopped
    /\ reporter = "gone" => cancelled \/ stopped

\* The pull is only given up for silence.
GivenUpForSilence ==
    /\ quiet = age
    /\ age > Deadline => silent
    /\ reporter = "looked" /\ seen > Deadline => silent
    /\ call = "reading" /\ cancelled => silent
    /\ result = "cancelled" => silent

\* How old the timestamp can be when the reporter is where it is: at most as old as
\* what the reporter has last judged, and the time since.
Watched ==
    call = "reading" =>
        /\ age <= Deadline + Interval
        /\ reporter = "starting" => age = 0
        /\ reporter = "select" /\ ~due => age <= Deadline + elapsed
        /\ reporter = "looked" => age <= seen

IInv == TypeOK /\ Ordered /\ GivenUpForSilence /\ Watched

\* The invariant holds initially.
LEMMA InitIInv == Init => IInv
<1> SUFFICES ASSUME Init PROVE IInv
  OBVIOUS
<1> USE IntervalAssumption, DeadlineAssumption DEF Init
<1>1. TypeOK
  <2>1. Flags
    BY DEF Flags
  <2>2. Places /\ Times
    BY DEF Places, Times, Outcome
  <2> QED BY <2>1, <2>2, TypeParts
<1>2. Ordered
  BY DEF Ordered
<1>3. GivenUpForSilence
  BY DEF GivenUpForSilence
<1>4. Watched
  BY DEF Watched
<1> QED
  BY <1>1, <1>2, <1>3, <1>4 DEF IInv

\* Every step of PullImage, of the reporter and of time preserves it.
LEMMA NextIInv == IInv /\ [Next]_vars => IInv'
<1> SUFFICES ASSUME IInv, [Next]_vars PROVE IInv'
  OBVIOUS
<1> USE IntervalAssumption, DeadlineAssumption
    DEF IInv, TypeOK, Ordered, GivenUpForSilence, Watched, Outcome,
        streamVars, clockVars, tickerVars, silence, reporterVars
<1>1. CASE Request
  BY <1>1 DEF Request
<1>2. CASE RequestFails
  BY <1>2 DEF RequestFails
<1>3. CASE Message
  BY <1>3 DEF Message
<1>4. CASE Stop
  BY <1>4 DEF Stop
<1>5. CASE Return
  BY <1>5 DEF Return
<1>6. ASSUME NEW outcome \in Outcome, Reads(outcome) PROVE IInv'
  BY <1>6 DEF Reads
<1>7. CASE NewTicker
  BY <1>7 DEF NewTicker
<1>8. CASE Look
  <2> USE <1>8 DEF Look
  <2>1. Places' /\ Times'
    BY DEF Places, Times
  <2>2. Flags'
    BY DEF Flags
  <2>3. Ordered'
    OBVIOUS
  <2>4. GivenUpForSilence'
    OBVIOUS
  <2>5. Watched'
    OBVIOUS
  <2> QED BY <2>1, <2>2, <2>3, <2>4, <2>5, TypeParts
<1>9. CASE Judge
  <2> USE <1>9 DEF Judge, TooOld
  <2>1. Places' /\ Times'
    BY DEF Places, Times
  <2>2. Flags'
    BY DEF Flags
  <2>3. Ordered'
    OBVIOUS
  <2>4. GivenUpForSilence'
    OBVIOUS
  <2>5. Watched'
    OBVIOUS
  <2> QED BY <2>1, <2>2, <2>3, <2>4, <2>5, TypeParts
<1>10. CASE Quit
  BY <1>10 DEF Quit
<1>11. CASE Tick
  <2>1. reporter = "select" /\ ~due /\ call = "reading" /\ ~cancelled
    BY <1>11 DEF Tick, Waiting
  <2>2. Times' /\ (~due' => elapsed' = elapsed + 1)
    <3>1. age' = age + 1 /\ quiet' = quiet + 1 /\ seen' = seen
      BY <1>11 DEF Tick
    <3>2. IF elapsed + 1 = Interval THEN due' /\ elapsed' = 0
                                    ELSE ~due' /\ elapsed' = elapsed + 1
      BY <1>11 DEF Tick
    <3> QED BY <3>1, <3>2 DEF Times
  <2>3. Places'
    BY <1>11 DEF Places, Tick
  <2>4. Flags'
    BY <1>11 DEF Flags, Tick
  <2>5. Ordered'
    BY <2>1, <1>11 DEF Tick
  <2>6. GivenUpForSilence'
    BY <2>1, <1>11 DEF Tick
  <2>7. Watched'
    <3>1. age' = age + 1 /\ reporter' = "select" /\ age <= Deadline + elapsed
      BY <2>1, <1>11 DEF Tick
    <3>2. elapsed + 1 <= Interval
      OBVIOUS
    <3> QED BY <2>2, <3>1, <3>2 DEF Times
  <2>8. TypeOK'
    BY ONLY <2>2, <2>3, <2>4 DEF TypeOK, Places, Flags, Times, Outcome
  <2> QED
    <3> HIDE DEF TypeOK, Ordered, GivenUpForSilence, Watched
    <3> QED BY <2>5, <2>6, <2>7, <2>8
<1>12. CASE UNCHANGED vars
  BY <1>12 DEF vars
<1> QED
  BY <1>1, <1>2, <1>3, <1>4, <1>5, <1>6, <1>7, <1>8, <1>9, <1>10, <1>11, <1>12
  DEF Next, ReporterStep

LEMMA SpecIInv == Spec => []IInv
  BY InitIInv, NextIInv, PTL DEF Spec

\* The variables keep their types; in particular the ticker never runs past its
\* interval.
THEOREM TypeCorrect == Spec => []TypeOK
  BY SpecIInv, PTL DEF IInv

\* A pull whose messages are never more than the deadline apart is not given up
\* for lack of progress.
THEOREM SteadyPullsAreSpared == Spec => []SteadyPullIsSpared
<1>1. IInv => SteadyPullIsSpared
  BY DEF IInv, GivenUpForSilence, SteadyPullIsSpared
<1> QED
  BY <1>1, SpecIInv, PTL

\* A silent pull is given up after the deadline and one interval at most.
THEOREM SilenceEnds == Spec => []SilenceIsBounded
<1>1. IInv => SilenceIsBounded
  BY DEF IInv, GivenUpForSilence, Watched, SilenceIsBounded
<1> QED
  BY <1>1, SpecIInv, PTL
=============================================================================

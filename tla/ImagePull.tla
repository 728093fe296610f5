------------------------------ MODULE ImagePull ------------------------------
(***************************************************************************)
(* PullImage and its watchdog (pkg/docker/libdocker).  Docker answers a    *)
(* pull with a stream of progress messages; each resets a timestamp.  A    *)
(* goroutine of its own, the reporter, looks at the timestamp at every     *)
(* tick of a ticker and cancels the pull when the last message is too old; *)
(* it ends when PullImage closes its channel.                              *)
(*                                                                         *)
(* Time is discrete, and no time passes while a goroutine can run: the     *)
(* delays of the scheduler are small against seconds.  Only Docker lets    *)
(* time pass.                                                              *)
(***************************************************************************)
EXTENDS Naturals

CONSTANTS
    Interval,   \* defaultImagePullingProgressReportInterval, of the ticker
    Deadline    \* imagePullProgressDeadline

ASSUME IntervalAssumption == Interval \in Nat \ {0}
ASSUME DeadlineAssumption == Deadline \in Nat \ {0}

VARIABLES
    call,       \* where PullImage is
    result,     \* what it returns
    age,        \* of the timestamp in progress
    stopped,    \* stopCh is closed
    cancelled,  \* the context is cancelled
    reporter,   \* where the reporter is
    seen,       \* the age of the timestamp that the reporter has read
    elapsed,    \* since the ticker last ticked
    due,        \* a tick is in the ticker's channel, which holds one
    quiet,      \* history: since Docker has said something
    silent      \* history: it was quiet for longer than Deadline

streamVars == <<call, result>>
tickerVars == <<elapsed, due>>
silence == <<quiet, silent>>
clockVars == <<tickerVars, silence>>
reporterVars == <<reporter, seen>>
vars == <<call, result, age, stopped, cancelled, reporter, seen, elapsed, due, quiet,
          silent>>

Init ==
    /\ call = "request"
    /\ result = "none"
    /\ age = 0
    /\ stopped = FALSE
    /\ cancelled = FALSE
    /\ reporter = "none"
    /\ seen = 0
    /\ elapsed = 0
    /\ due = FALSE
    /\ quiet = 0
    /\ silent = FALSE

-----------------------------------------------------------------------------
(* PullImage.                                                              *)

\* The client refuses the request, before there is a reporter to stop.
RequestFails ==
    /\ call = "request"
    /\ call' = "returned"
    /\ result' = "error"
    /\ cancelled' = TRUE
    /\ UNCHANGED <<age, stopped, reporterVars, clockVars>>

\* newProgressReporter sets the timestamp, and start the goroutine.
Request ==
    /\ call = "request"
    /\ call' = "reading"
    /\ age' = 0
    /\ quiet' = 0
    /\ reporter' = "starting"
    /\ UNCHANGED <<result, stopped, cancelled, seen, tickerVars, silent>>

\* A variant with a mistake: the message is kept and the time is not.
MessageWithoutTime ==
    /\ call = "reading"
    /\ quiet' = 0
    /\ UNCHANGED <<streamVars, age, stopped, cancelled, reporterVars, tickerVars, silent>>

\* A message without an error is decoded.
Message ==
    /\ call = "reading"
    /\ age' = 0
    /\ quiet' = 0
    /\ UNCHANGED <<streamVars, stopped, cancelled, reporterVars, tickerVars, silent>>

\* The end of the stream, a message with an error, a broken stream, or a
\* cancelled one.
Reads(outcome) ==
    /\ call = "reading"
    /\ outcome = "cancelled" => cancelled
    /\ call' = "stop"
    /\ result' = outcome
    /\ UNCHANGED <<age, stopped, cancelled, reporterVars, clockVars>>

\* A variant with a mistake: the reporter is stopped after a complete stream only.
StopIfComplete ==
    /\ call = "stop"
    /\ call' = "cancel"
    /\ stopped' = (result = "ok")
    /\ UNCHANGED <<result, age, cancelled, reporterVars, clockVars>>

\* The deferred calls run in the reverse order: reporter.stop first.
Stop ==
    /\ call = "stop"
    /\ call' = "cancel"
    /\ stopped' = TRUE
    /\ UNCHANGED <<result, age, cancelled, reporterVars, clockVars>>

Return ==
    /\ call = "cancel"
    /\ call' = "returned"
    /\ cancelled' = TRUE
    /\ UNCHANGED <<result, age, stopped, reporterVars, clockVars>>

-----------------------------------------------------------------------------
(* The reporter.                                                           *)

NewTicker ==
    /\ reporter = "starting"
    /\ reporter' = "select"
    /\ elapsed' = 0
    /\ UNCHANGED <<streamVars, age, stopped, cancelled, seen, due, silence>>

\* If both channels are ready, select takes either.
Look ==
    /\ reporter = "select"
    /\ due
    /\ due' = FALSE
    /\ reporter' = "looked"
    /\ seen' = age
    /\ UNCHANGED <<streamVars, age, stopped, cancelled, elapsed, silence>>

TooOld(a) == a > Deadline

\* A variant with a mistake: the reporter ends once the pull was in time.
JudgeOnce ==
    /\ reporter = "looked"
    /\ cancelled' = (cancelled \/ TooOld(seen))
    /\ reporter' = "gone"
    /\ UNCHANGED <<streamVars, age, stopped, seen, clockVars>>

\* Messages may have come since the timestamp was read.
Judge ==
    /\ reporter = "looked"
    /\ IF TooOld(seen) THEN cancelled' = TRUE /\ reporter' = "gone"
                       ELSE reporter' = "select" /\ UNCHANGED cancelled
    /\ UNCHANGED <<streamVars, age, stopped, seen, clockVars>>

Quit ==
    /\ reporter = "select"
    /\ stopped
    /\ reporter' = "gone"
    /\ UNCHANGED <<streamVars, age, stopped, cancelled, seen, clockVars>>

ReporterStep == NewTicker \/ Look \/ Judge \/ Quit

-----------------------------------------------------------------------------
\* Only a stream that is still open, with the reporter in its select, waits.
Waiting ==
    /\ call = "reading" /\ ~cancelled
    /\ \/ reporter = "gone"
       \/ reporter = "select" /\ ~due /\ ~stopped

\* A unit of time passes.  The ticker drops a tick that finds its channel full,
\* which no unit of time reaches.
Tick ==
    /\ Waiting
    /\ age' = age + 1
    /\ quiet' = quiet + 1
    /\ silent' = (silent \/ quiet' > Deadline)
    /\ due' = (elapsed + 1 = Interval)
    /\ elapsed' = IF due' THEN 0 ELSE elapsed + 1
    /\ UNCHANGED <<streamVars, stopped, cancelled, reporterVars>>

Outcome == {"ok", "error", "cancelled"}

Next ==
    \/ Request \/ RequestFails \/ Message \/ Stop \/ Return
    \/ \E outcome \in Outcome : Reads(outcome)
    \/ ReporterStep
    \/ Tick

\* Goroutines that can run do, time passes, and a cancelled stream ends.
Fairness ==
    /\ WF_vars(ReporterStep)
    /\ WF_vars(Stop \/ Return)
    /\ WF_vars(cancelled /\ \E outcome \in Outcome : Reads(outcome))
    /\ WF_vars(Tick)

Spec == Init /\ [][Next]_vars
FairSpec == Spec /\ Fairness

-----------------------------------------------------------------------------
(* Properties.                                                             *)

\* Values of the right kind, and a tick of the ticker is due before the next.
TypeOK ==
    /\ call \in {"request", "reading", "stop", "cancel", "returned"}
    /\ result \in Outcome \cup {"none"}
    /\ age \in Nat /\ quiet \in Nat
    /\ stopped \in BOOLEAN /\ cancelled \in BOOLEAN
    /\ reporter \in {"none", "starting", "select", "looked", "gone"}
    /\ seen \in Nat
    /\ elapsed \in Nat /\ elapsed < Interval
    /\ due \in BOOLEAN /\ silent \in BOOLEAN

\* A pull whose messages never are more than the deadline apart is not cancelled
\* for lack of progress, whatever the phase of the ticker ("If no pulling progress
\* is made before imagePullProgressDeadline", skupper_docker_client.go).
SteadyPullIsSpared == result = "cancelled" => silent

\* Docker is silent for no longer than the deadline and one interval before the
\* pull ends: no tick, message or answer comes in an order that blinds the reporter.
SilenceIsBounded == call = "reading" => quiet <= Deadline + Interval

\* The reporter ends after PullImage has returned, however it has: no goroutine
\* and no ticker are left behind by a pull.
ReporterEnds == call = "returned" ~> reporter \in {"none", "gone"}
=============================================================================

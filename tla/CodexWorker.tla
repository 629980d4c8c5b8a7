------------------------------ MODULE CodexWorker ------------------------------
(***************************************************************************)
(* workers/codex-worker.mjs and codex-capacity.mjs: one `codex exec`, then,*)
(* when its turn failed, a probe of the app-server that asks whether the   *)
(* account is out of capacity and until when.  The probe's replies, its    *)
(* timer and the end of the server race.  The failed session is reported,  *)
(* and without the probe's evidence the adapter reads the reset from the   *)
(* one message it knows; but nothing catches the error of a write to a     *)
(* server that has gone, which takes the adapter with it.                  *)
(*                                                                         *)
(* Instants are units of a small calendar: days of DayLength units, months *)
(* and years of any length, leap years included.  Left out: prompts, usage,*)
(* the temporary directory, and a server that ignores SIGTERM and the end  *)
(* of its stdin.                                                           *)
(***************************************************************************)
EXTENDS Integers, FiniteSets, FiniteSetsExt, Functions, WorkerReplies

CONSTANTS
    ThreadEvents,   \* the lines a codex exec may write
    MaxEvents,      \* how many it writes (bound)
    Replies,        \* the last messages it may leave, empty for no file
    Resumable,      \* the thread an invocation resumes, or "none"
    Turns,          \* what thread/resume may report of a thread
    Snapshots,      \* what account/rateLimits/read may report
    DayLength,      \* the units of a day
    Calendar,       \* Calendar[y][m]: the first day, and how many, of a month,
                    \* one month beginning when the one before it ends
    LastInteger,    \* the greatest safe integer
    Anchors,        \* when an invocation may start
    MaxTicks        \* how long it lasts (bound)

VARIABLES
    resuming,   \* the thread this invocation resumes
    step,       \* where the adapter is
    clock,      \* the time
    ticks,      \* how much of it has passed
    lines,      \* what codex exec wrote
    exit,       \* how it exited
    reply,      \* its last message
    asked,      \* nowMilliseconds of the probe
    server,     \* the app-server; when gone, its last output may be unread
    greeted,    \* initialize was answered, the two requests are sent
    resume,     \* resumeResponse
    rates,      \* rateLimitsResponse
    evidence,   \* the reset the probe resolves to, 0 for null or a rejection
    codexSays   \* the execution printed

codexVars == <<resuming, step, clock, ticks, lines, exit, reply, asked, server,
               greeted, resume, rates, evidence, codexSays>>
session == <<lines, exit, reply>>
probe == <<asked, server, greeted, resume, rates, evidence>>

NoReply == [status |-> "none"]
NoMessage == [kind |-> "none"]

CodexInit ==
    /\ resuming = "none" /\ step = "starting"
    /\ clock = 0 /\ ticks = 0
    /\ lines = << >> /\ exit = "none" /\ reply = << >>
    /\ asked = 0 /\ server = "none" /\ greeted = FALSE
    /\ resume = NoReply /\ rates = NoReply
    /\ evidence = 0
    /\ codexSays = Execution("none", 0)

-------------------------------------------------------------------------------
(* Reading the stream *)

Of(stream, type) == {i \in DOMAIN stream : stream[i].type = type}
EventsOf(type) == Of(lines, type)
Event(type) == lines[CHOOSE i \in EventsOf(type) : \A j \in EventsOf(type) : j <= i]

\* What parseCodexStream does not guess around: it throws.
UnparseableThread(stream) ==
    \/ Of(stream, "malformed") # {}
    \/ Cardinality(Of(stream, "thread.started")) # 1
    \/ Cardinality(Of(stream, "turn.completed") \cup Of(stream, "turn.failed")) > 1

ThreadId == Event("thread.started").thread
TurnFailed == EventsOf("turn.failed") # {}

\* The message of the failed turn, or else of the last error.
reportedError ==
    IF TurnFailed /\ Event("turn.failed").message.kind # "none"
    THEN Event("turn.failed").message
    ELSE IF EventsOf("error") # {} THEN Event("error").message ELSE NoMessage

-------------------------------------------------------------------------------
(* When a reset is *)

Years == DOMAIN Calendar
HasDate(y, m, d) == y \in Years /\ d <= Calendar[y][m].days
At(y, m, d) == DayLength * (Calendar[y][m].first + d - 1)
YearOf(t) == CHOOSE y \in Years : At(y, 1, 1) <= t /\ (y + 1 \in Years => t < At(y + 1, 1, 1))

Months == DOMAIN Calendar[1]

\* Every year has the same months, each ends before the next begins, and the
\* calendar has begun when a session starts.
ASSUME CalendarAssumption ==
    /\ DayLength \in Nat \ {0} /\ MaxTicks \in Nat
    /\ Calendar \in Seq(Seq([first : Nat, days : Nat]))
    /\ 1 \in Years /\ 1 \in Months
    /\ \A y, z \in Years : /\ DOMAIN Calendar[y] = Months
                           /\ \A m, n \in Months : y < z \/ (y = z /\ m < n) =>
                                 Calendar[y][m].first + Calendar[y][m].days
                                    <= Calendar[z][n].first
    /\ Anchors \subseteq Nat /\ \A t \in Anchors : At(1, 1, 1) <= t

nearestFutureClock(anchor, unit) ==
    LET today == (anchor \div DayLength) * DayLength + unit IN
    IF today > anchor THEN today ELSE today + DayLength

\* 0 when this year, or next year if the date is past, does not have the date.
nearestFutureMonthDay(anchor, m, d) ==
    LET y == YearOf(anchor) IN
    IF ~HasDate(y, m, d) THEN 0
    ELSE IF At(y, m, d) > anchor THEN At(y, m, d)
    ELSE IF HasDate(y + 1, m, d) THEN At(y + 1, m, d) ELSE 0

\* The message is the usage limit's with a clock time or a month and day that
\* some year has, or another one.
capacityFromReportedText(message, anchor) ==
    IF message.kind \in {"none", "other"} THEN 0
    ELSE IF message.kind = "clock" THEN nearestFutureClock(anchor, message.unit)
    ELSE nearestFutureMonthDay(anchor, message.month, message.day)

\* The messages that a stream may carry, and what the app-server may answer.
ASSUME MessagesAssumption ==
    \A e \in ThreadEvents : e.type \in {"turn.failed", "error"} =>
        \/ e.message.kind \in {"none", "other"}
        \/ e.message.kind = "clock" /\ e.message.unit \in 0 .. DayLength - 1
        \/ e.message.kind = "monthday" /\ e.message.month \in Months
                                      /\ e.message.day \in Nat \ {0}
ASSUME AnswersAssumption ==
    /\ LastInteger \in Nat /\ LastDate \in Nat
    /\ \A r \in Turns \cup Snapshots : r.status \in {"ok", "error"}
    /\ \A r \in Snapshots : r.status = "ok" =>
          r.primary.resetsAt \in Int /\ r.secondary.resetsAt \in Int

\* A snapshot has an id, whether its reached type is a known one, and two windows:
\* whether each is exhausted and when it resets (-1 when that is no integer).
Exhausted(snapshot) ==
    {w \in {snapshot.primary, snapshot.secondary} : w.exhausted}

Future(w) == w.resetsAt > asked /\ w.resetsAt <= LastInteger

ReportsLimit(turn, snapshot) ==
    /\ turn.thread = ThreadId /\ turn.failed /\ turn.usageLimit
    /\ snapshot.limitId = "codex" /\ snapshot.reached

\* A slip: the first window to be filled again is waited for.
capacityFromAppServer_First(turn, snapshot) ==
    LET windows == Exhausted(snapshot) IN
    IF ReportsLimit(turn, snapshot) /\ windows # {} /\ \A w \in windows : Future(w)
    THEN Min({w.resetsAt : w \in windows}) ELSE 0

\* The latest reset of the exhausted windows, if every one of them is to come.
capacityFromAppServer(turn, snapshot) ==
    LET windows == Exhausted(snapshot) IN
    IF ReportsLimit(turn, snapshot) /\ windows # {} /\ \A w \in windows : Future(w)
    THEN Max({w.resetsAt : w \in windows}) ELSE 0

\* In this order: another thread than the one resumed, a deferral, an error, a bad
\* exit, no completed turn, no reply, a reply to judge.
codexExecution ==
    LET x == Execution(ThreadId, clock)
        reset == IF evidence # 0 THEN evidence
                 ELSE capacityFromReportedText(reportedError, clock) IN
    IF resuming \notin {"none", ThreadId} THEN Reporting(x, "failure")
    ELSE IF TurnFailed /\ reset # 0 THEN Deferring(x, reset)
    ELSE IF \/ reportedError.kind # "none" \/ exit # "zero"
            \/ EventsOf("turn.completed") = {}
         THEN Reporting(x, "failure")
    ELSE Reporting(x, resultOf(reply))

-------------------------------------------------------------------------------
(* The adapter *)

Tick ==
    /\ step \in {"session", "probing", "judging"}
    /\ ticks < MaxTicks
    /\ ticks' = ticks + 1 /\ clock' = clock + 1
    /\ UNCHANGED <<resuming, step, session, probe, codexSays>>

\* codex exec starts, or does not.
StartCodex ==
    /\ step = "starting"
    /\ \E id \in Resumable, t \in Anchors : resuming' = id /\ clock' = t
    /\ \E next \in {"session", "refused"} : step' = next
    /\ UNCHANGED <<ticks, session, probe, codexSays>>

\* child.stdin has no "error" listener: a write that finds nobody at the other end
\* of the pipe ends the adapter.
SendFails == step' = "refused" /\ UNCHANGED evidence

\* It exits, its last message is read and its stream parsed; a failed turn is
\* looked into, and the app-server starts, or does not, or has gone before
\* initialize is written.  What cannot be parsed goes with the process.
SessionEnds ==
    /\ step = "session"
    /\ \E n \in 0 .. MaxEvents : \E stream \in [1 .. n -> ThreadEvents] :
         \/ UnparseableThread(stream) /\ step' = "refused" /\ UNCHANGED <<session, probe>>
         \/ /\ ~UnparseableThread(stream)
            /\ lines' = stream
            /\ \E code \in {"zero", "nonzero"}, text \in Replies : exit' = code /\ reply' = text
            /\ \/ Of(stream, "turn.failed") = {} /\ step' = "judging" /\ UNCHANGED probe
               \/ /\ Of(stream, "turn.failed") # {}
                  /\ asked' = clock
                  /\ \/ step' = "probing" /\ server' = "alive" /\ UNCHANGED evidence
                     \/ step' = "judging" /\ UNCHANGED <<server, evidence>>
                     \/ SendFails /\ server' = "gone"
                  /\ UNCHANGED <<greeted, resume, rates>>
    /\ UNCHANGED <<resuming, clock, ticks, codexSays>>

\* The probe settles, and stops the server.
finish(value) ==
    /\ evidence' = value
    /\ server' = "stopped"
    /\ step' = "judging"

Listening == step = "probing" /\ server \in {"alive", "gone"}

\* The response to initialize: an error, or the two requests are sent.  They fail
\* when the server has gone; if its exit was noticed before the response, they are
\* dropped instead, and ServerFails is what follows.
Greet ==
    /\ Listening /\ ~greeted
    /\ \/ server = "alive" /\ greeted' = TRUE /\ UNCHANGED <<step, server, evidence>>
       \/ server = "gone" /\ SendFails /\ UNCHANGED <<greeted, server>>
       \/ finish(0) /\ UNCHANGED greeted
    /\ UNCHANGED <<resuming, clock, ticks, session, asked, resume, rates, codexSays>>

\* Both responses are there.  A reset that no Date can hold throws in the "data"
\* handler, where nothing catches it.
maybeFinish(turn, snapshot) ==
    IF "none" \in {turn.status, snapshot.status}
    THEN UNCHANGED <<step, server, evidence>>
    ELSE IF "error" \in {turn.status, snapshot.status} THEN finish(0)
    ELSE IF capacityFromAppServer(turn, snapshot) > LastDate
    THEN step' = "refused" /\ UNCHANGED <<server, evidence>>
    ELSE finish(capacityFromAppServer(turn, snapshot))

\* The responses to the two requests, in either order.
ResumeReplies ==
    /\ Listening /\ greeted
    /\ resume = NoReply
    /\ \E turn \in Turns : resume' = turn /\ maybeFinish(turn, rates)
    /\ UNCHANGED <<resuming, clock, ticks, session, asked, greeted, rates, codexSays>>

RatesReply ==
    /\ Listening /\ greeted
    /\ rates = NoReply
    /\ \E snapshot \in Snapshots : rates' = snapshot /\ maybeFinish(resume, snapshot)
    /\ UNCHANGED <<resuming, clock, ticks, session, asked, greeted, resume, codexSays>>

\* It exits, or is killed, at any time.
ServerExits ==
    /\ step = "probing" /\ server = "alive"
    /\ server' = "gone"
    /\ UNCHANGED <<resuming, step, clock, ticks, session, asked, greeted, resume, rates,
                   evidence, codexSays>>

\* Malformed JSON, more than 1 MiB, or its exit with nothing left to read.
ServerFails ==
    /\ Listening
    /\ finish(0)
    /\ UNCHANGED <<resuming, clock, ticks, session, asked, greeted, resume, rates, codexSays>>

\* A slip: the first response stops the timer.
ProbeTimerFires_UntilReply ==
    /\ step = "probing" /\ resume = NoReply /\ rates = NoReply
    /\ finish(0)
    /\ UNCHANGED <<resuming, clock, ticks, session, asked, greeted, resume, rates, codexSays>>

\* The probe's timer, whatever was answered so far.
ProbeTimerFires ==
    /\ step = "probing"
    /\ finish(0)
    /\ UNCHANGED <<resuming, clock, ticks, session, asked, greeted, resume, rates, codexSays>>

PrintExecution ==
    /\ step = "judging"
    /\ step' = "printed"
    /\ codexSays' = codexExecution
    /\ UNCHANGED <<resuming, clock, ticks, session, probe>>

CodexNext ==
    \/ StartCodex \/ SessionEnds \/ Greet \/ ResumeReplies \/ RatesReply
    \/ ServerExits \/ ServerFails \/ ProbeTimerFires \/ PrintExecution \/ Tick

CodexSpec == CodexInit /\ [][CodexNext]_codexVars

\* The adapter's event loop, and its timer.  The session and the server may be
\* silent for ever.
CodexFairness == WF_codexVars(ProbeTimerFires) /\ WF_codexVars(PrintExecution)
CodexFairSpec == CodexSpec /\ CodexFairness

-------------------------------------------------------------------------------
\* Every variable has its type.
CodexTypeOK ==
    /\ resuming \in Resumable \cup {"none"}
    /\ step \in {"starting", "session", "probing", "judging", "printed",
                 "refused"}
    /\ clock \in Nat /\ ticks \in 0 .. MaxTicks /\ asked \in 0 .. clock
    /\ lines \in UNION {[1 .. n -> ThreadEvents] : n \in 0 .. MaxEvents}
    /\ exit \in {"none", "zero", "nonzero"}
    /\ server \in {"none", "alive", "gone", "stopped"} /\ greeted \in BOOLEAN
    /\ resume \in Turns \cup {NoReply} /\ rates \in Snapshots \cup {NoReply}
    /\ evidence \in 0 .. LastDate

\* What the app-server said in this probe: the latest turn of this very thread
\* failed on the usage limit, and the account is exhausted until `reset`.
Corroborates(reset) ==
    /\ resume.status = "ok" /\ resume.thread = ThreadId
    /\ resume.failed /\ resume.usageLimit
    /\ rates.status = "ok" /\ rates.limitId = "codex" /\ rates.reached
    /\ \E w \in Exhausted(rates) : w.resetsAt = reset
    /\ \A w \in Exhausted(rates) : w.resetsAt \in asked + 1 .. reset

\* The instants a reset clause can mean.
Means(message, t) ==
    IF message.kind = "clock" THEN t % DayLength = message.unit
    ELSE \E y \in Years : /\ HasDate(y, message.month, message.day)
                          /\ t = At(y, message.month, message.day)

\* The first instant after the session was observed that its message can mean.
Announces(message, reset) ==
    /\ message.kind \notin {"none", "other"}
    /\ reset > codexSays.observedAt /\ Means(message, reset)
    /\ \A t \in codexSays.observedAt + 1 .. reset - 1 : ~Means(message, t)

\* README.md:972-998: a session is deferred only when its turn failed, it is the
\* one that was resumed, and either the app-server corroborates the exhaustion,
\* when the retry waits for the last of the exhausted windows, or, if the probe
\* gave no evidence, the reported text announces the nearest such instant; and
\* evidence that the probe settled with is never passed over.
DefersOnEvidence ==
    step = "printed" =>
        LET mine == TurnFailed /\ resuming \in {"none", ThreadId} IN
        /\ codexSays.session = ThreadId
        /\ codexSays.retryAt # 0 =>
              /\ mine /\ codexSays.result = "none"
              /\ IF evidence # 0 THEN codexSays.retryAt = evidence
                 ELSE Announces(reportedError, codexSays.retryAt)
        /\ evidence # 0 =>
              Corroborates(evidence) /\ (mine => codexSays.retryAt = evidence)
        /\ codexSays.result = "success" =>
              exit = "zero" /\ EventsOf("turn.completed") # {} /\ reportedError.kind = "none"

\* README.md:956-959: a session whose stream can be parsed is recorded, "its
\* thread and usage telemetry" with it: the probe may be answered late, in any
\* order, wrongly or not at all, its server may exit at any time, and the execution
\* is printed.  Two exceptions, which the README does not make, throw it away: a
\* reset that no Date can hold, and a server that is gone before it was sent all it
\* is asked.  Once the requests are with it, its end costs nothing.
FailureRecorded ==
    lines # << >> ~>
        \/ step = "printed"
        \/ step = "refused" /\ rates # NoReply /\ \E w \in Exhausted(rates) : w.resetsAt > LastDate
        \/ step = "refused" /\ server = "gone" /\ ~greeted
===============================================================================

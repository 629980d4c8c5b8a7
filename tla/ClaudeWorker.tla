----------------------------- MODULE ClaudeWorker -----------------------------
(***************************************************************************)
(* workers/claude-worker.mjs: one Claude Code session, and what its stream *)
(* of events becomes.  The "data" handler looks at every complete line; at *)
(* the first rejected rate limit it keeps the output up to that line and   *)
(* kills the session, so that it does not go on by itself.  When the       *)
(* session's output is closed the adapter parses what it kept, or all of   *)
(* it, and prints an execution or refuses.                                 *)
(*                                                                         *)
(* The session runs in a process group of its own, not in the adapter's,   *)
(* which is the one the engine kills.  It may start a tool, a process of   *)
(* its group that holds its output or does not.  Left out: prompts,        *)
(* usage, cost, the model, and the Windows branch.  (MCWorkers extends     *)
(* this module and two more, hence ClaudeSpec and claudeExecution.)        *)
(***************************************************************************)
EXTENDS Integers, FiniteSets, Functions, WorkerReplies

CONSTANTS
    Events,        \* the lines a session may write
    MaxLines,      \* how many it writes (bound)
    Continuations  \* the session an invocation resumes, or "none"

VARIABLES
    expected,      \* the session this invocation resumes
    adapter,       \* where the adapter is
    claude,        \* its session's process
    exitCode,
    tool,          \* a process of the session's group
    written,       \* the lines the session wrote
    tail,          \* what it wrote after them, without a newline
    arrived,       \* how many lines the data handler was given
    kept,          \* how many of them deferredStdout has, 0 for null
    claudeSays     \* the execution printed

claudeVars == <<expected, adapter, claude, exitCode, tool, written, tail,
                arrived, kept, claudeSays>>

NoLine == [type |-> "none"]
Statuses == {"allowed", "allowed_warning", "rejected"}

ClaudeInit ==
    /\ expected = "none"
    /\ adapter = "starting"
    /\ claude = "none"
    /\ exitCode = "none"
    /\ tool = "none"
    /\ written = << >>
    /\ tail = NoLine
    /\ arrived = 0
    /\ kept = 0
    /\ claudeSays = Execution("none", 0)

-------------------------------------------------------------------------------
(* Reading the stream *)

\* Events have a type and a session ("none" when they name none); a rate limit
\* has a status and a reset, a result a text and is_error.
parseRateLimitEvent(e) ==
    e.type = "rate_limit_event" /\ e.status \in Statuses /\ e.session # "none"

\* A reset of 0 stands for one that is no positive number.
can_defer(e) ==
    /\ parseRateLimitEvent(e) /\ e.status = "rejected"
    /\ e.resetsAt \in 1 .. LastDate

Having(lines, P(_)) == {i \in DOMAIN lines : P(lines[i])}
InitLines(lines) == Having(lines, LAMBDA e : e.type = "init")
ResultLines(lines) == Having(lines, LAMBDA e : e.type = "result")
LimitLines(lines) == Having(lines, LAMBDA e : parseRateLimitEvent(e))

\* What parseSessionStream does not guess around: it throws.
Unparseable(lines) ==
    \/ Having(lines, LAMBDA e : e.type = "malformed") # {}
    \/ \E i, j \in DOMAIN lines :
          /\ "none" \notin {lines[i].session, lines[j].session}
          /\ lines[i].session # lines[j].session
    \/ Cardinality(InitLines(lines)) > 1
    \/ Cardinality(ResultLines(lines)) > 1

\* Of the result, the init and the latest rate limit; they cannot differ.
reportedSessionId(lines) ==
    LET ids == {lines[i].session : i \in InitLines(lines) \cup ResultLines(lines)
                                            \cup LimitLines(lines)} \ {"none"} IN
    IF ids = {} THEN "none" ELSE CHOOSE id \in ids : TRUE

\* In this order: another session than the one resumed, a deferral, a bad exit,
\* no result or one that is an error, a reply to judge.
claudeExecution(lines, code) ==
    LET x == Execution(reportedSessionId(lines), 0)
        limits == LimitLines(lines)
        latest == CHOOSE i \in limits : \A j \in limits : j <= i
        results == ResultLines(lines)
        result == lines[CHOOSE i \in results : TRUE] IN
    IF expected \notin {"none", x.session} THEN Reporting(x, "failure")
    ELSE IF limits # {} /\ can_defer(lines[latest])
    THEN Deferring(x, lines[latest].resetsAt)
    ELSE IF code # "zero" \/ results = {} THEN Reporting(x, "failure")
    ELSE IF result.is_error THEN Reporting(x, "failure")
    ELSE Reporting(x, resultOf(result.text))

Stdout == IF tail = NoLine THEN written ELSE Append(written, tail)

-------------------------------------------------------------------------------
(* The adapter *)

\* The "error" event of a session that does not start makes the adapter fail.
StartClaude ==
    /\ adapter = "starting"
    /\ \E id \in Continuations : expected' = id
    /\ \/ adapter' = "running" /\ claude' = "alive"
       \/ adapter' = "refused" /\ UNCHANGED claude
    /\ UNCHANGED <<exitCode, tool, written, tail, arrived, kept, claudeSays>>

\* SIGKILL to the session's group.
terminateSession ==
    /\ claude' = "exited"
    /\ exitCode' = IF claude = "alive" THEN "null" ELSE exitCode
    /\ tool' = IF tool = "none" THEN "none" ELSE "gone"

\* A slip: all that has arrived is kept, not what ends with the rejection.
Data_Chunk ==
    /\ adapter = "running"
    /\ \E n \in arrived + 1 .. Len(written) :
         /\ arrived' = n
         /\ IF kept = 0 /\ \E i \in arrived + 1 .. n : can_defer(written[i])
            THEN kept' = n /\ terminateSession
            ELSE UNCHANGED <<kept, claude, exitCode, tool>>
    /\ UNCHANGED <<expected, adapter, written, tail, claudeSays>>

\* A slip: the rejection is noted, and the session is left to end by itself.
Data_Waits ==
    /\ adapter = "running"
    /\ \E n \in arrived + 1 .. Len(written) :
         LET rejections == {i \in arrived + 1 .. n : can_defer(written[i])} IN
         /\ arrived' = n
         /\ IF kept = 0 /\ rejections # {}
            THEN kept' = CHOOSE i \in rejections : \A j \in rejections : i <= j
            ELSE UNCHANGED kept
    /\ UNCHANGED <<claude, exitCode, tool, expected, adapter, written, tail, claudeSays>>

\* A chunk arrives: any number of lines.  (Half a line changes nothing yet.)
Data ==
    /\ adapter = "running"
    /\ \E n \in arrived + 1 .. Len(written) :
         LET rejections == {i \in arrived + 1 .. n : can_defer(written[i])} IN
         /\ arrived' = n
         /\ IF kept = 0 /\ rejections # {}
            THEN /\ kept' = CHOOSE i \in rejections : \A j \in rejections : i <= j
                 /\ terminateSession
            ELSE UNCHANGED <<kept, claude, exitCode, tool>>
    /\ UNCHANGED <<expected, adapter, written, tail, claudeSays>>

\* The "close" event: the session has exited, nobody holds its output, and all
\* of that was delivered.
Close ==
    /\ adapter = "running"
    /\ claude = "exited" /\ tool # "holding" /\ arrived = Len(written)
    /\ LET lines == IF kept > 0 THEN SubSeq(written, 1, kept) ELSE Stdout IN
       \/ /\ Unparseable(lines) \/ reportedSessionId(lines) = "none"
          /\ adapter' = "refused"
          /\ UNCHANGED claudeSays
       \/ /\ ~Unparseable(lines) /\ reportedSessionId(lines) # "none"
          /\ adapter' = "printed"
          /\ claudeSays' = claudeExecution(lines, exitCode)
    /\ UNCHANGED <<expected, claude, exitCode, tool, written, tail, arrived, kept>>

-------------------------------------------------------------------------------
(* The processes *)

WriteLine ==
    /\ claude = "alive" /\ adapter = "running"
    /\ Len(written) < MaxLines
    /\ \E e \in Events : written' = Append(written, e)
    /\ UNCHANGED <<expected, adapter, claude, exitCode, tool, tail, arrived, kept,
                   claudeSays>>

StartTool ==
    /\ claude = "alive" /\ tool = "none"
    /\ \E how \in {"working", "holding"} : tool' = how
    /\ UNCHANGED <<expected, adapter, claude, exitCode, written, tail, arrived, kept,
                   claudeSays>>

ToolEnds ==
    /\ tool \in {"working", "holding"}
    /\ tool' = "gone"
    /\ UNCHANGED <<expected, adapter, claude, exitCode, written, tail, arrived, kept,
                   claudeSays>>

\* A session may end in the middle of a line, or forget the last newline.
ClaudeExits ==
    /\ claude = "alive"
    /\ claude' = "exited"
    /\ \E code \in {"zero", "nonzero"} : exitCode' = code
    /\ \E e \in {NoLine} \cup Events :
          /\ e # NoLine => Len(written) < MaxLines /\ adapter = "running"
          /\ tail' = e
    /\ UNCHANGED <<expected, adapter, tool, written, arrived, kept, claudeSays>>

\* CommandWorker kills the adapter's group: the session is not in it, and goes on,
\* though nobody reads what it writes.
EngineKills ==
    /\ adapter = "running"
    /\ adapter' = "killed"
    /\ written' = << >> /\ tail' = NoLine /\ arrived' = 0 /\ kept' = 0
    /\ UNCHANGED <<expected, claude, exitCode, tool, claudeSays>>

ClaudeNext ==
    \/ StartClaude \/ Data \/ Close \/ EngineKills
    \/ WriteLine \/ StartTool \/ ToolEnds \/ ClaudeExits

ClaudeSpec == ClaudeInit /\ [][ClaudeNext]_claudeVars

\* The adapter's event loop runs the handlers that are due.  Nothing makes the
\* session or its tool end.
ClaudeFairness == WF_claudeVars(Data) /\ WF_claudeVars(Close)
ClaudeFairSpec == ClaudeSpec /\ ClaudeFairness

-------------------------------------------------------------------------------
\* Every variable has its type.
ClaudeTypeOK ==
    /\ expected \in Continuations \cup {"none"}
    /\ adapter \in {"starting", "running", "printed", "refused", "killed"}
    /\ claude \in {"none", "alive", "exited"}
    /\ exitCode \in {"none", "zero", "nonzero", "null"}
    /\ tool \in {"none", "working", "holding", "gone"}
    /\ written \in UNION {[1 .. n -> Events] : n \in 0 .. MaxLines}
    /\ tail \in {NoLine} \cup Events
    /\ arrived \in 0 .. Len(written) /\ kept \in 0 .. arrived

\* The lines up to the first rejection, if there is one.
UpToRejection(lines) ==
    LET rejections == Having(lines, LAMBDA e : can_defer(e)) IN
    IF rejections = {} THEN lines
    ELSE SubSeq(lines, 1, CHOOSE i \in rejections : \A j \in rejections : i <= j)

\* What the adapter prints, and whether it does, depends on what the session
\* wrote up to its first rejection and on nothing else: not on how the output
\* was cut into chunks, on what followed in the same chunk, or on how the
\* session ended after it.
FirstRejectionDecides ==
    LET lines == UpToRejection(Stdout)
        rejected == lines # << >> /\ can_defer(lines[Len(lines)]) IN
    /\ adapter = "printed" =>
          /\ ~Unparseable(lines)
          /\ claudeSays.session = reportedSessionId(lines)
          /\ claudeSays.retryAt # 0 <=>
                rejected /\ expected \in {"none", claudeSays.session}
          /\ claudeSays.retryAt # 0 => claudeSays.retryAt = lines[Len(lines)].resetsAt
          /\ claudeSays.result = "success" =>
                /\ exitCode = "zero"
                /\ \E e \in Range(lines) :
                      e.type = "result" /\ ~e.is_error /\ resultOf(e.text) = "success"
    /\ adapter = "refused" /\ claude # "none" =>
          Unparseable(lines) \/ reportedSessionId(lines) = "none"

\* A session that reports a rejection, and then goes on for ever, does not hold up
\* its Worker: the adapter ends, and unless it was killed itself neither the
\* session nor a tool of it is left then.  Nothing works on the repository while
\* the continuation waits for its refill.
RejectionEnds ==
    (adapter = "running" /\ \E e \in Range(written) : can_defer(e))
        ~> \/ adapter = "killed"
           \/ /\ adapter \in {"printed", "refused"}
              /\ claude = "exited" /\ tool \in {"none", "gone"}

\* README.md:114: "Cancellation stops the active Worker", which Claude Code is to
\* the operator: when the engine has killed the adapter the session ends.
CancellationStops == adapter = "killed" ~> claude # "alive"
===============================================================================

---------------------------- MODULE WorkerReplies ----------------------------
(***************************************************************************)
(* What the provider adapters share (workers/worker-shared.mjs): from the  *)
(* text a session replies with to the Result of the Role.  A text is the   *)
(* sequence of its spans from a "{" to the "}" that closes it, prose where *)
(* such a span is no JSON object; the words around them are left out.      *)
(***************************************************************************)
EXTENDS Integers, Sequences

CONSTANT LastDate    \* the last instant a JavaScript Date can hold

Spans == {"prose", "misshapen", "answer", "gave up"}

IsObject(span) == span # "prose"

\* The one object of the text.
extractPayload(text) ==
    LET objects == SelectSeq(text, IsObject) IN
    IF Len(objects) = 1 THEN objects[1] ELSE "none"

\* The Role's answer, or a failure_reason.
validatePayload(payload) == payload \in {"answer", "gave up"}

resultEnvelope(payload) == IF payload = "gave up" THEN "failure" ELSE "success"

\* The status of the Result that a reply makes.
resultOf(text) ==
    LET payload == extractPayload(text) IN
    IF validatePayload(payload) THEN resultEnvelope(payload) ELSE "failure"

-------------------------------------------------------------------------------
\* The execution an adapter prints carries either the status of a Result or the
\* instant to retry at (0 is none), and the session it is about.
Execution(session, observed) ==
    [result |-> "none", retryAt |-> 0, session |-> session, observedAt |-> observed]
Reporting(x, status) == [x EXCEPT !.result = status]
Deferring(x, instant) == [x EXCEPT !.retryAt = instant]
===============================================================================

----------------------------- MODULE PlanAdoption -----------------------------
(***************************************************************************)
(* From a plan to Tasks: `aios brief` creates the Task that asks for a     *)
(* plan, a Worker that runs it writes plans/<id>/, and `aios adopt` turns  *)
(* the plan's proposals into Tasks and rewrites PLAN.md with their ids.    *)
(* Each command is a process of its own that takes no lock: it lists the   *)
(* Task files, allocates ids after the greatest, creates the files one by  *)
(* one, and an adoption compares PLAN.md with what it read before and      *)
(* after.  An adoption that fails unlinks what it created.                 *)
(*                                                                         *)
(* A plan is what adoption tells apart: the version of PLAN.md, and the    *)
(* Task ids its Execution Order names, none before it is adopted.  Left    *)
(* out: the texts and what makes them valid (a plan here is valid exactly  *)
(* when it still names its proposals), mkdir, and temporary files.         *)
(***************************************************************************)
EXTENDS Integers, Sequences, FiniteSets, Functions

CONSTANTS
    Commands,   \* the invocations of brief and adopt, each runs once
    Jobs,       \* what each of them may be asked to do
    Plans,      \* the directories under plans/
    Drafted,    \* the plans that exist at first
    Proposals,  \* how many proposals a plan has
    MaxTaskId,  \* the greatest safe integer
    MaxEdits,   \* how often a PLAN.md is edited by hand (bound)
    MaxAdvanced, \* how many Tasks engines advance (bound)
    Faults      \* what else happens, a subset of FaultKinds

FaultKinds == {"crash", "io", "edit", "engine"}

ASSUME AdoptionAssumption ==
    /\ Drafted \subseteq Plans
    /\ Jobs \subseteq [kind : {"brief", "adopt"}, plan : Plans]
    /\ Proposals \in Nat \ {0} /\ MaxTaskId \in Nat /\ MaxEdits \in Nat
    /\ MaxAdvanced \in Nat
    /\ Faults \subseteq FaultKinds

VARIABLES
    tasks,    \* the Task files, by number
    plans,    \* the PLAN.md files
    engine,   \* the Task file an engine has compared and is about to replace
    pc,       \* where each command is
    outcome,  \* how it ended
    job,      \* what it was asked
    raw,      \* PLAN.md as it read it
    ids,      \* the Task numbers it allocated
    created,  \* how many of them it has created
    undo,     \* those it has still to unlink
    stuck     \* those it could not unlink

vars == <<tasks, plans, engine, pc, outcome, job, raw, ids, created, undo, stuck>>
repository == <<tasks, plans, engine>>
memory == <<raw, ids, created, undo>>
local == <<memory, job, stuck>>

Ids == 1 .. MaxTaskId
Parts == 1 .. Proposals
Absent == [version |-> 0, named |-> << >>]
Draft(v) == [version |-> v, named |-> << >>]
PlanTexts == [version : 0 .. MaxEdits + 1, named : Seq(Ids)]

NoFile == [by |-> "none"]
Idle == [id |-> 0, file |-> NoFile]

\* A Task made of a proposal, or (part 0) the planning Task of a brief.
TaskFiles ==
    [by : Commands, plan : Plans, part : 0 .. Proposals, advanced : BOOLEAN]

Exists(i) == tasks[i] # NoFile
Adopted(p) == plans[p].named # << >>
Running(c) == outcome[c] = "running"

Points == {"asked", "listing", "stat", "compare", "creating", "recompare",
           "replacing", "replaced", "created", "undoing", "ended"}
Outcomes == {"not run", "running", "unwritten", "adopted", "briefed",
             "failed", "crashed"}

Init ==
    /\ tasks = [i \in Ids |-> NoFile]
    /\ plans = [p \in Plans |-> IF p \in Drafted THEN Draft(1) ELSE Absent]
    /\ engine = Idle
    /\ pc = [c \in Commands |-> "asked"]
    /\ outcome = [c \in Commands |-> "not run"]
    /\ job \in [Commands -> Jobs]
    /\ raw = [c \in Commands |-> Absent]
    /\ ids = [c \in Commands |-> << >>]
    /\ created = [c \in Commands |-> 0]
    /\ undo = [c \in Commands |-> {}]
    /\ stuck = [c \in Commands |-> {}]

Brief(c) == job[c].kind = "brief"
Plan(c) == job[c].plan

Goto(c, point) == /\ pc' = [pc EXCEPT ![c] = point]
                  /\ UNCHANGED outcome

\* The process ends, and what it knew is gone.  (That it had come to the end of
\* its work or was taking it back, and the ids of the Tasks that stay, are kept
\* for the properties.)
Settle(c, how) ==
    /\ outcome' = [outcome EXCEPT ![c] = how]
    /\ pc' = [pc EXCEPT ![c] = IF @ \in {"replaced", "created", "undoing"}
                               THEN @ ELSE "ended"]
    /\ raw' = [raw EXCEPT ![c] = Absent]
    /\ ids' = [ids EXCEPT ![c] = IF pc[c] \in {"replaced", "created"} THEN @ ELSE << >>]
    /\ created' = [created EXCEPT ![c] = 0]
    /\ undo' = [undo EXCEPT ![c] = {}]

-------------------------------------------------------------------------------
\* The commands.

\* inspectPlan, or for a brief the look for a plan of that name.
Inspect(c) ==
    /\ outcome[c] = "not run"
    /\ LET text == plans[Plan(c)]
           valid == IF Brief(c) THEN text = Absent
                                ELSE text # Absent /\ ~Adopted(Plan(c)) IN
       \/ /\ ~valid \/ ~Brief(c)        \* or adopt --check
          /\ Settle(c, "unwritten")
       \/ /\ valid
          /\ raw' = [raw EXCEPT ![c] = text]
          /\ outcome' = [outcome EXCEPT ![c] = "running"]
          /\ pc' = [pc EXCEPT ![c] = "listing"]
          /\ UNCHANGED <<ids, created, undo>>
    /\ UNCHANGED <<repository, job, stuck>>

\* The greatest id in use, 0 if there is none.
Greatest(g) ==
    /\ g \in {0} \cup {i \in Ids : Exists(i)}
    /\ \A i \in Ids : Exists(i) => i <= g

Wanted(c) == IF Brief(c) THEN 1 ELSE Proposals

\* A slip: an adoption that fails leaves its Tasks where they are.
Fail_LeavesTasks(c) == Settle(c, "failed")

\* A slip: it takes back every file it meant to write.
Fail_AllWrites(c) ==
    IF ids[c] = << >> \/ Brief(c)
    THEN Settle(c, "failed")
    ELSE /\ Goto(c, "undoing")
         /\ undo' = [undo EXCEPT ![c] = Range(ids[c])]
         /\ UNCHANGED <<raw, ids, created>>

\* What becomes of a command that fails: an adoption takes back what it made.
Fail(c) ==
    IF created[c] = 0 \/ Brief(c)
    THEN Settle(c, "failed")
    ELSE /\ Goto(c, "undoing")
         /\ undo' = [undo EXCEPT ![c] = {ids[c][k] : k \in 1 .. created[c]}]
         /\ UNCHANGED <<raw, ids, created>>

\* readdir and allocateTaskIds.
List(c) ==
    /\ Running(c) /\ pc[c] = "listing"
    /\ \E g \in 0 .. MaxTaskId : Greatest(g) /\
       \/ /\ g + Wanted(c) <= MaxTaskId
          /\ ids' = [ids EXCEPT ![c] = [k \in 1 .. Wanted(c) |-> g + k]]
          /\ Goto(c, IF Brief(c) THEN "stat" ELSE "compare")
          /\ UNCHANGED <<raw, created, undo>>
       \/ /\ g + Wanted(c) > MaxTaskId
          /\ Fail(c)
    /\ UNCHANGED <<repository, job, stuck>>

\* A brief looks once more whether its Task file is there, and with --check
\* does no more.
Stat(c) ==
    /\ Running(c) /\ pc[c] = "stat"
    /\ \/ Exists(ids[c][1]) /\ Settle(c, "failed")
       \/ ~Exists(ids[c][1]) /\ Settle(c, "unwritten")
       \/ ~Exists(ids[c][1]) /\ Goto(c, "creating") /\ UNCHANGED memory
    /\ UNCHANGED <<repository, job, stuck>>

\* PLAN.md is compared before the first Task is created and after the last.
Compare(c) ==
    /\ Running(c) /\ pc[c] \in {"compare", "recompare"}
    /\ \/ /\ plans[Plan(c)] = raw[c]
          /\ Goto(c, IF pc[c] = "compare" THEN "creating" ELSE "replacing")
          /\ UNCHANGED memory
       \/ /\ plans[Plan(c)] # raw[c]
          /\ Fail(c)
    /\ UNCHANGED <<repository, job, stuck>>

TaskFile(c, k) ==
    [by |-> c, plan |-> Plan(c), part |-> IF Brief(c) THEN 0 ELSE k,
     advanced |-> FALSE]

\* A slip: the file is written as an ordinary file is, over one that exists.
Create_Overwrites(c) ==
    /\ Running(c) /\ pc[c] = "creating"
    /\ LET k == created[c] + 1 IN
       /\ tasks' = [tasks EXCEPT ![ids[c][k]] = TaskFile(c, k)]
       /\ created' = [created EXCEPT ![c] = k]
       /\ Goto(c, IF k < Wanted(c) THEN "creating"
                  ELSE IF Brief(c) THEN "created" ELSE "recompare")
    /\ UNCHANGED <<plans, engine, job, raw, ids, undo, stuck>>

\* createImmutable: the file is linked in, unless there is one.
Create(c) ==
    /\ Running(c) /\ pc[c] = "creating"
    /\ LET k == created[c] + 1
           i == ids[c][k] IN
       \/ /\ ~Exists(i)
          /\ tasks' = [tasks EXCEPT ![i] = TaskFile(c, k)]
          /\ created' = [created EXCEPT ![c] = k]
          /\ Goto(c, IF k < Wanted(c) THEN "creating"
                     ELSE IF Brief(c) THEN "created" ELSE "recompare")
          /\ UNCHANGED <<raw, ids, undo>>
       \/ /\ Exists(i)
          /\ Fail(c)
          /\ UNCHANGED tasks
    /\ UNCHANGED <<plans, engine, job, stuck>>

\* PLAN.md is renamed into place: the text that was read, with the new ids.
Replace(c) ==
    /\ Running(c) /\ pc[c] = "replacing"
    /\ plans' = [plans EXCEPT ![Plan(c)] =
                     [version |-> raw[c].version, named |-> ids[c]]]
    /\ Goto(c, "replaced")
    /\ UNCHANGED <<tasks, engine, local>>

Report(c) ==
    /\ Running(c) /\ pc[c] \in {"replaced", "created"}
    /\ Settle(c, IF Brief(c) THEN "briefed" ELSE "adopted")
    /\ UNCHANGED <<repository, job, stuck>>

\* Promise.all of the unlinks; what becomes of each is ignored.
Unlink(c) ==
    /\ Running(c) /\ pc[c] = "undoing"
    /\ \E i \in undo[c] :
         /\ IF undo[c] = {i}
            THEN Settle(c, "failed")
            ELSE /\ undo' = [undo EXCEPT ![c] = @ \ {i}]
                 /\ UNCHANGED <<pc, outcome, raw, ids, created>>
         /\ \/ /\ tasks' = [tasks EXCEPT ![i] = NoFile]
               /\ UNCHANGED stuck
            \/ /\ "io" \in Faults
               /\ stuck' = [stuck EXCEPT ![c] = @ \cup {i}]
               /\ UNCHANGED tasks
    /\ UNCHANGED <<plans, engine, job>>

\* Any call on the way may fail; a rename or a link that fails did nothing.
IoFails(c) ==
    /\ "io" \in Faults
    /\ Running(c)
    /\ pc[c] \in {"listing", "stat", "compare", "creating", "recompare", "replacing"}
    /\ Fail(c)
    /\ UNCHANGED <<repository, job, stuck>>

Crash(c) ==
    /\ "crash" \in Faults
    /\ Running(c)
    /\ Settle(c, "crashed")
    /\ UNCHANGED <<repository, job, stuck>>

-------------------------------------------------------------------------------
\* Who else writes these files.

\* The Worker of a planning Task writes the plan the brief asked for.
PlannerWrites(p) ==
    /\ plans[p] = Absent
    /\ \E i \in Ids : Exists(i) /\ tasks[i].plan = p /\ tasks[i].part = 0
    /\ plans' = [plans EXCEPT ![p] = Draft(1)]
    /\ UNCHANGED <<tasks, engine, pc, outcome, local>>

Edit(p) ==
    /\ "edit" \in Faults
    /\ plans[p] # Absent
    /\ \A q \in Plans : plans[q].version <= MaxEdits
    /\ plans' = [plans EXCEPT ![p].version = @ + 1]
    /\ UNCHANGED <<tasks, engine, pc, outcome, local>>

\* TaskStore.writeTask of an engine that has run a Role on Task i: it compares
\* the file with what it loaded, writes a temporary file, and renames it.
EngineCompares(i) ==
    /\ "engine" \in Faults
    /\ engine = Idle
    /\ Exists(i) /\ ~tasks[i].advanced
    /\ Cardinality({j \in Ids : Exists(j) /\ tasks[j].advanced}) < MaxAdvanced
    /\ engine' = [id |-> i, file |-> tasks[i]]
    /\ UNCHANGED <<tasks, plans, pc, outcome, local>>

EngineRenames ==
    /\ engine # Idle
    /\ tasks' = [tasks EXCEPT ![engine.id] = [engine.file EXCEPT !.advanced = TRUE]]
    /\ engine' = Idle
    /\ UNCHANGED <<plans, pc, outcome, local>>

EngineDies ==
    /\ engine # Idle
    /\ engine' = Idle
    /\ UNCHANGED <<tasks, plans, pc, outcome, local>>

Step(c) == \/ Inspect(c) \/ List(c) \/ Stat(c) \/ Compare(c) \/ Create(c)
           \/ Replace(c) \/ Report(c) \/ Unlink(c)

Next ==
    \/ \E c \in Commands : Step(c) \/ IoFails(c) \/ Crash(c)
    \/ \E p \in Plans : PlannerWrites(p) \/ Edit(p)
    \/ \E i \in Ids : EngineCompares(i)
    \/ EngineRenames \/ EngineDies

Spec == Init /\ [][Next]_vars

-------------------------------------------------------------------------------
\* The files, and every command's bookkeeping, are what the program can write.
TypeOK ==
    /\ tasks \in [Ids -> TaskFiles \cup {NoFile}]
    /\ \A p \in Plans : /\ plans[p].version \in 0 .. MaxEdits + 1
                        /\ Adopted(p) => plans[p].named \in [Parts -> Ids]
    /\ engine = Idle \/ engine \in [id : Ids, file : TaskFiles]
    /\ pc \in [Commands -> Points] /\ outcome \in [Commands -> Outcomes]
    /\ \A c \in Commands : /\ Range(ids[c]) \subseteq Ids
                           /\ created[c] \in 0 .. Len(ids[c])
                           /\ undo[c] \subseteq Range(ids[c]) /\ stuck[c] \subseteq Ids

Committed(c) == ~Brief(c) /\ pc[c] = "replaced"
TakenBack(c) == ~Brief(c) /\ pc[c] = "undoing"

\* The k-th Task of an adoption is in its file, or in its place a Task that was
\* taken back while an engine was between comparing and renaming it.
HasTask(c, k) ==
    LET file == tasks[ids[c][k]] IN
    /\ file # NoFile
    /\ \/ file.by = c /\ file.part = k
       \/ file.by # c /\ file.advanced /\ TakenBack(file.by)

\* PLAN.md names all of its Tasks or none: whatever interleaves, fails or dies,
\* an adopted plan names one Task for each of its proposals, no two the same,
\* and each of them is the file that the adoption made of that proposal.
NamesItsTasks ==
    \A p \in Plans : Adopted(p) =>
        \E c \in Commands :
            /\ Committed(c) /\ Plan(c) = p /\ plans[p].named = ids[c]
            /\ Cardinality(Range(ids[c])) = Proposals
            /\ \A k \in Parts : HasTask(c, k)

Makes(c) == {i \in Ids : Exists(i) /\ tasks[i].by = c}

\* What a command says is so: a reported adoption or brief left all its Tasks
\* behind, a refused or checked command none, and one that failed none but those
\* it could not unlink or an engine was just writing.
AdoptionsTrue ==
    \A c \in Commands :
        /\ outcome[c] = "adopted" => \A k \in Parts : HasTask(c, k)
        /\ outcome[c] = "briefed" => Exists(ids[c][1])
        /\ outcome[c] \in {"not run", "unwritten"} => Makes(c) = {}
        /\ outcome[c] = "failed" =>
              \A i \in Makes(c) : i \in stuck[c] \/ tasks[i].advanced

\* No Task file is lost or taken over: one that exists goes only when the very
\* adoption that made it takes it back, and is otherwise replaced only by an
\* engine, with the same Task unless that Task was taken back meanwhile.
OnlyItsMaker ==
    [][\A i \in Ids : Exists(i) /\ tasks'[i] # tasks[i] =>
          \/ /\ tasks'[i] = NoFile
             /\ \E c \in Commands : /\ i \in undo[c] \ undo'[c]
                                    /\ tasks[i].by = c \/ TakenBack(tasks[i].by)
          \/ tasks'[i] = [tasks[i] EXCEPT !.advanced = TRUE]
          \/ tasks'[i] # NoFile /\ tasks'[i].advanced /\ TakenBack(tasks'[i].by)]_vars
===============================================================================

-------------------------- MODULE PlanAdoptionProofs --------------------------
(***************************************************************************)
(* For any number of commands, plans, proposals and edits, with crashes,   *)
(* I/O errors and an engine: an adopted plan names its Tasks, what the     *)
(* commands report is so, and no Task file is lost to another command.     *)
(*                                                                         *)
(* The strengthening is about owners.  A command owns the Task files it    *)
(* has created and neither forgotten nor unlinked; a committed adoption    *)
(* owns them for ever.  Nobody else owns them, and what is in them is its  *)
(* own Task or, written by an engine that was late, one taken back.        *)
(***************************************************************************)
EXTENDS PlanAdoption, FiniteSetTheorems, TLAPS

Lists == {<< >>} \cup {[k \in 1 .. n |-> g + k] : n \in Nat, g \in Nat}
Texts == [version : 0 .. MaxEdits + 1, named : Lists]

FileTypes ==
    /\ tasks \in [Ids -> TaskFiles \cup {NoFile}]
    /\ plans \in [Plans -> Texts]
    /\ engine = Idle \/ engine \in [id : Ids, file : TaskFiles]
    /\ stuck \in [Commands -> SUBSET Ids]

LocalTypes ==
    /\ job \in [Commands -> Jobs]
    /\ pc \in [Commands -> Points] /\ outcome \in [Commands -> Outcomes]
    /\ raw \in [Commands -> Texts] /\ ids \in [Commands -> Lists]
    /\ created \in [Commands -> Nat] /\ undo \in [Commands -> SUBSET Ids]

Numbered(c) ==
    \E g \in Nat : /\ g + Wanted(c) <= MaxTaskId
                   /\ ids[c] = [k \in 1 .. Wanted(c) |-> g + k]

\* What a command has at each of its points.
Shape(c) ==
    /\ pc[c] \in {"stat", "compare", "creating", "recompare", "replacing",
                  "replaced", "created"} => Numbered(c)
    /\ pc[c] \in {"asked", "listing", "stat", "compare", "ended"} => created[c] = 0
    /\ pc[c] = "creating" => created[c] < Wanted(c)
    /\ pc[c] \in {"recompare", "replacing"} => created[c] = Wanted(c)
    /\ pc[c] \in {"compare", "recompare", "replacing", "replaced", "undoing"}
          => ~Brief(c)
    /\ pc[c] \in {"stat", "created"} => Brief(c)
    /\ outcome[c] = "not run" => pc[c] = "asked"
    /\ outcome[c] = "unwritten" => pc[c] = "ended"
    /\ outcome[c] = "adopted" => pc[c] = "replaced"
    /\ outcome[c] = "briefed" => pc[c] = "created"
    /\ outcome[c] = "failed" => pc[c] \in {"ended", "undoing"} /\ undo[c] = {}

\* How many of its ids stand for files of its own, and which files those are.
Held(c) == IF pc[c] \in {"replaced", "created"} THEN Wanted(c) ELSE created[c]
Own(c) == IF pc[c] = "undoing" THEN undo[c] ELSE {ids[c][k] : k \in 1 .. Held(c)}

OwnFile(c, i) ==
    /\ i \in Ids /\ Exists(i)
    /\ tasks[i].by = c \/ (tasks[i].advanced /\ TakenBack(tasks[i].by))

Owned ==
    /\ \A c \in Commands : \A i \in Own(c) : OwnFile(c, i)
    /\ \A c, d \in Commands : c # d => Own(c) \cap Own(d) = {}

PartOf(c, k) == IF Brief(c) THEN 0 ELSE k

InPlace ==
    \A c \in Commands : pc[c] # "undoing" =>
        \A k \in 1 .. Held(c) :
            tasks[ids[c][k]].by = c => tasks[ids[c][k]].part = PartOf(c, k)

\* What an engine is about to write is what it read, or was taken back since.
Late == engine # Idle =>
            tasks[engine.id] = engine.file \/ TakenBack(engine.file.by)

Untouched(c) == /\ \A i \in Ids : Exists(i) => tasks[i].by # c
                /\ engine # Idle => engine.file.by # c

Accounted ==
    \A c \in Commands :
        /\ pc[c] \in {"asked", "listing", "stat", "compare"}
              \/ outcome[c] \in {"not run", "unwritten"} => Untouched(c)
        /\ outcome[c] \in {"running", "failed"} =>
              \A i \in Makes(c) : \/ i \in Own(c) \/ i \in stuck[c]
                                  \/ tasks[i].advanced

Named ==
    \A p \in Plans : Adopted(p) =>
        \E c \in Commands :
            Committed(c) /\ Plan(c) = p /\ plans[p].named = ids[c]

IInv == /\ FileTypes /\ LocalTypes /\ (\A c \in Commands : Shape(c))
        /\ Owned /\ InPlace /\ Late /\ Accounted /\ Named

-------------------------------------------------------------------------------
\* The effects of a command's step on the files.

Quiet(c) ==
    /\ UNCHANGED <<tasks, stuck>>
    /\ \/ Own(c)' = {} /\ Held(c)' = 0 /\ outcome'[c] = "crashed"
       \/ Own(c) = {} /\ Own(c)' = {} /\ Held(c)' = 0
       \/ Own(c)' = Own(c) /\ pc'[c] = "undoing"
       \/ Own(c)' = Own(c) /\ Held(c)' = Held(c) /\ ids'[c] = ids[c] /\ pc[c] # "undoing"

Creates(c) ==
    LET k == Held(c) + 1
        i == ids[c][k] IN
    /\ i \in Ids /\ ~Exists(i) /\ pc[c] = "creating" /\ pc'[c] # "undoing"
    /\ tasks' = [tasks EXCEPT ![i] = TaskFile(c, k)]
    /\ Own(c)' = Own(c) \cup {i} /\ Held(c)' = k /\ ids'[c] = ids[c]
    /\ UNCHANGED stuck

Unlinks(c) ==
    \E i \in Own(c) :
        /\ pc[c] = "undoing" /\ pc'[c] = "undoing" /\ Own(c)' = Own(c) \ {i}
        /\ \/ tasks' = [tasks EXCEPT ![i] = NoFile] /\ UNCHANGED stuck
           \/ UNCHANGED tasks /\ stuck' = [stuck EXCEPT ![c] = @ \cup {i}]

Others(c) == \A d \in Commands \ {c} :
                 /\ pc'[d] = pc[d] /\ outcome'[d] = outcome[d] /\ raw'[d] = raw[d]
                 /\ ids'[d] = ids[d] /\ created'[d] = created[d]
                 /\ undo'[d] = undo[d]

Acts(c) == Step(c) \/ IoFails(c) \/ Crash(c)

LEMMA Sizes == /\ Proposals \in Nat /\ Proposals >= 1 /\ MaxTaskId \in Nat
               /\ MaxEdits \in Nat
               /\ \A c \in Commands : Wanted(c) \in Nat /\ Wanted(c) >= 1
BY AdoptionAssumption DEF Wanted

LEMMA NumberedList == ASSUME NEW c \in Commands, Numbered(c)
                      PROVE  /\ ids[c] \in Lists
                             /\ DOMAIN ids[c] = 1 .. Wanted(c)
                             /\ \A k \in 1 .. Wanted(c) : ids[c][k] \in Ids
BY Sizes DEF Numbered, Lists, Ids

LEMMA EmptyTexts == << >> \in Lists /\ Absent \in Texts
<1>1. << >> \in Lists
    BY DEF Lists
<1>2. 0 \in 0 .. MaxEdits + 1
    BY Sizes
<1> QED BY <1>1, <1>2 DEF Texts, Absent

\* A command that ends forgets its files, unless it had come to its end.
LEMMA SettleLocal ==
    ASSUME NEW c \in Commands, NEW how \in Outcomes, LocalTypes, Shape(c), Settle(c, how),
           UNCHANGED job
    PROVE  /\ LocalTypes' /\ Others(c) /\ outcome'[c] = how /\ undo'[c] = {}
           /\ pc[c] \in {"replaced", "created"} =>
                 /\ pc'[c] = pc[c] /\ ids'[c] = ids[c] /\ Numbered(c)'
                 /\ Own(c)' = Own(c) /\ Held(c)' = Held(c)
           /\ pc[c] \notin {"replaced", "created"} =>
                 /\ pc'[c] = IF pc[c] = "undoing" THEN "undoing" ELSE "ended"
                 /\ Own(c)' = {} /\ Held(c)' = 0 /\ created'[c] = 0
<1> USE DEF Settle
<1>1. LocalTypes'
    BY EmptyTexts DEF LocalTypes, Points
<1>2. Others(c)
    BY DEF LocalTypes, Others
<1>3. outcome'[c] = how /\ undo'[c] = {} /\ created'[c] = 0
    BY DEF LocalTypes
<1>4. ASSUME pc[c] \in {"replaced", "created"}
      PROVE  /\ pc'[c] = pc[c] /\ ids'[c] = ids[c] /\ Numbered(c)'
             /\ Own(c)' = Own(c) /\ Held(c)' = Held(c)
  <2>1. pc'[c] = pc[c] /\ ids'[c] = ids[c]
    BY <1>4 DEF LocalTypes
  <2>2. Wanted(c)' = Wanted(c)
    BY DEF Wanted, Brief
  <2>3. Held(c)' = Held(c)
    BY <1>4, <2>1, <2>2 DEF Held
  <2>4. Own(c)' = Own(c)
    BY <1>4, <2>1, <2>3 DEF Own
  <2>5. Numbered(c)'
    BY <1>4, <2>1, <2>2 DEF Numbered, Shape
  <2> QED BY <2>1, <2>3, <2>4, <2>5
<1>5. ASSUME pc[c] \notin {"replaced", "created"}
      PROVE  /\ pc'[c] = IF pc[c] = "undoing" THEN "undoing" ELSE "ended"
             /\ Own(c)' = {} /\ Held(c)' = 0
  <2>1. pc'[c] = IF pc[c] = "undoing" THEN "undoing" ELSE "ended"
    BY <1>5 DEF LocalTypes
  <2>2. Held(c)' = 0
    BY <1>3, <2>1 DEF Held
  <2>3. Own(c)' = {}
    BY <1>3, <2>1, <2>2 DEF Own
  <2> QED BY <2>1, <2>2, <2>3
<1> QED BY <1>1, <1>2, <1>3, <1>4, <1>5

\* A command that fails ends, or starts to take back what it owns.
LEMMA FailLocal ==
    ASSUME NEW c \in Commands, LocalTypes, Shape(c), Fail(c), outcome[c] = "running",
           pc[c] \in {"listing", "stat", "compare", "creating", "recompare", "replacing"},
           UNCHANGED <<tasks, job, stuck>>
    PROVE  LocalTypes' /\ Shape(c)' /\ Others(c) /\ Quiet(c)
<1>1. CASE created[c] = 0 \/ Brief(c)
  <2>1. created[c] = 0
    BY <1>1, Sizes DEF Shape, Wanted, LocalTypes
  <2>2. Settle(c, "failed")
    BY <1>1 DEF Fail
  <2>3. Own(c) = {}
    BY <2>1 DEF Own, Held
  <2>4. pc'[c] = "ended" /\ Own(c)' = {} /\ Held(c)' = 0 /\ created'[c] = 0
        /\ outcome'[c] = "failed" /\ undo'[c] = {} /\ LocalTypes' /\ Others(c)
    BY <2>2, SettleLocal DEF Outcomes
  <2>5. Shape(c)'
    BY <2>4 DEF Shape
  <2>6. Quiet(c)
    BY <2>3, <2>4 DEF Quiet
  <2> QED BY <2>4, <2>5, <2>6
<1>2. CASE created[c] # 0 /\ ~Brief(c)
  <2>1. /\ pc' = [pc EXCEPT ![c] = "undoing"]
        /\ undo' = [undo EXCEPT ![c] = {ids[c][k] : k \in 1 .. created[c]}]
        /\ UNCHANGED <<outcome, raw, ids, created>>
    BY <1>2 DEF Fail, Goto
  <2>2. Numbered(c) /\ created[c] \in 1 .. Wanted(c)
    BY <1>2, Sizes DEF Shape, LocalTypes
  <2>3. {ids[c][k] : k \in 1 .. created[c]} \subseteq Ids
    BY <2>2, NumberedList, Sizes
  <2>4. LocalTypes'
    BY <2>1, <2>3 DEF LocalTypes, Points
  <2>5. Own(c)' = Own(c) /\ pc'[c] = "undoing"
    BY <2>1 DEF LocalTypes, Own, Held
  <2>6. Shape(c)'
    BY <1>2, <2>1, <2>5 DEF LocalTypes, Shape, Brief
  <2> QED BY <2>1, <2>4, <2>5, <2>6 DEF LocalTypes, Others, Quiet
<1> QED BY <1>1, <1>2

\* What every step of a command comes to.
Local(c) == LocalTypes' /\ Shape(c)' /\ Others(c)
Effect(c) == Quiet(c) \/ Creates(c) \/ Unlinks(c)

LEMMA JobOf == ASSUME NEW c \in Commands, LocalTypes
               PROVE  Plan(c) \in Plans /\ job[c].kind \in {"brief", "adopt"}
BY AdoptionAssumption DEF LocalTypes, Plan

LEMMA NothingHeld ==
    ASSUME NEW c \in Commands, created[c] = 0,
           pc[c] \notin {"replaced", "created", "undoing"}
    PROVE  Own(c) = {} /\ Held(c) = 0
BY DEF Own, Held

LEMMA InspectLocal ==
    ASSUME NEW c \in Commands, FileTypes, LocalTypes, Shape(c), Inspect(c)
    PROVE  FileTypes' /\ Local(c) /\ Effect(c)
<1>1. FileTypes' /\ UNCHANGED <<tasks, job, stuck>>
    BY DEF Inspect, repository, FileTypes
<1>2. pc[c] = "asked" /\ created[c] = 0 /\ Own(c) = {}
    BY NothingHeld DEF Inspect, Shape
<1>3. CASE Settle(c, "unwritten")
  <2>1. /\ LocalTypes' /\ Others(c) /\ outcome'[c] = "unwritten" /\ pc'[c] = "ended"
        /\ Own(c)' = {} /\ Held(c)' = 0 /\ created'[c] = 0
    BY <1>1, <1>2, <1>3, SettleLocal DEF Outcomes
  <2> QED BY <1>1, <1>2, <2>1 DEF Local, Shape, Effect, Quiet
<1>4. CASE ~Settle(c, "unwritten")
  <2>1. /\ raw' = [raw EXCEPT ![c] = plans[Plan(c)]]
        /\ outcome' = [outcome EXCEPT ![c] = "running"]
        /\ pc' = [pc EXCEPT ![c] = "listing"]
        /\ UNCHANGED <<ids, created, undo>>
    BY <1>4 DEF Inspect
  <2>2. plans[Plan(c)] \in Texts
    BY JobOf DEF FileTypes
  <2>3. LocalTypes'
    BY <1>1, <2>1, <2>2 DEF LocalTypes, Outcomes, Points
  <2>4. Shape(c)' /\ Others(c)
    BY <1>2, <2>1 DEF LocalTypes, Shape, Others
  <2>5. Own(c)' = {} /\ Held(c)' = 0
    BY <1>2, <2>1 DEF LocalTypes, Own, Held
  <2> QED BY <1>1, <1>2, <2>3, <2>4, <2>5 DEF Local, Effect, Quiet
<1> QED BY <1>3, <1>4

LEMMA ListLocal ==
    ASSUME NEW c \in Commands, FileTypes, LocalTypes, Shape(c), List(c)
    PROVE  FileTypes' /\ Local(c) /\ Effect(c)
<1>1. FileTypes' /\ UNCHANGED <<tasks, job, stuck>>
    BY DEF List, repository, FileTypes
<1>2. pc[c] = "listing" /\ outcome[c] = "running" /\ created[c] = 0 /\ Own(c) = {}
    BY DEF List, Running, Shape, Own, Held
<1>3. CASE Fail(c)
    BY <1>1, <1>2, <1>3, FailLocal DEF Local, Effect
<1>4. CASE ~Fail(c)
  <2>1. PICK g \in 0 .. MaxTaskId :
           /\ g + Wanted(c) <= MaxTaskId
           /\ ids' = [ids EXCEPT ![c] = [k \in 1 .. Wanted(c) |-> g + k]]
           /\ pc' = [pc EXCEPT ![c] = IF Brief(c) THEN "stat" ELSE "compare"]
           /\ UNCHANGED <<outcome, raw, created, undo>>
    BY <1>4 DEF List, Goto
  <2>2. g \in Nat /\ Wanted(c) \in Nat
    BY Sizes
  <2>3. [k \in 1 .. Wanted(c) |-> g + k] \in Lists
    BY <2>2 DEF Lists
  <2>4. LocalTypes'
    BY <1>1, <2>1, <2>3 DEF LocalTypes, Points
  <2>5. Numbered(c)'
    BY <1>1, <2>1, <2>2 DEF LocalTypes, Numbered, Wanted, Brief
  <2>6. Shape(c)' /\ Others(c)
    BY <1>1, <1>2, <2>1, <2>5 DEF LocalTypes, Shape, Others, Brief
  <2>7. Own(c)' = {} /\ Held(c)' = 0
    BY <1>2, <2>1 DEF LocalTypes, Own, Held
  <2> QED BY <1>1, <1>2, <2>4, <2>6, <2>7 DEF Local, Effect, Quiet
<1> QED BY <1>3, <1>4

LEMMA StatLocal ==
    ASSUME NEW c \in Commands, FileTypes, LocalTypes, Shape(c), Stat(c)
    PROVE  FileTypes' /\ Local(c) /\ Effect(c)
<1>1. FileTypes' /\ UNCHANGED <<tasks, job, stuck>>
    BY DEF Stat, repository, FileTypes
<1>2. pc[c] = "stat" /\ created[c] = 0 /\ Own(c) = {} /\ Numbered(c)
          /\ outcome[c] = "running"
    BY NothingHeld DEF Stat, Running, Shape
<1>3. ASSUME NEW how \in {"failed", "unwritten"}, Settle(c, how)
      PROVE  Local(c) /\ Effect(c)
  <2>1. /\ LocalTypes' /\ Others(c) /\ outcome'[c] = how /\ pc'[c] = "ended"
        /\ Own(c)' = {} /\ Held(c)' = 0 /\ created'[c] = 0 /\ undo'[c] = {}
    BY <1>1, <1>2, <1>3, SettleLocal DEF Outcomes
  <2> QED BY <1>1, <1>2, <2>1 DEF Local, Shape, Effect, Quiet
<1>4. CASE Goto(c, "creating") /\ UNCHANGED memory
  <2>1. pc' = [pc EXCEPT ![c] = "creating"]
        /\ UNCHANGED <<outcome, raw, ids, created, undo>>
    BY <1>4 DEF Goto, memory
  <2>2. LocalTypes' /\ Others(c)
    BY <1>1, <2>1 DEF LocalTypes, Points, Others
  <2>3. Shape(c)'
    <3>1. Numbered(c)' /\ Brief(c)' = Brief(c) /\ Wanted(c)' = Wanted(c)
      BY <1>1, <1>2, <2>1 DEF Numbered, Wanted, Brief
    <3>2. pc'[c] = "creating" /\ created'[c] = 0 /\ outcome'[c] = "running"
      BY <1>2, <2>1 DEF LocalTypes
    <3>3. 0 < Wanted(c)'
      BY <3>1, Sizes
    <3> QED BY <3>1, <3>2, <3>3 DEF Shape
  <2>4. Own(c)' = {} /\ Held(c)' = 0
    BY <1>2, <2>1 DEF LocalTypes, Own, Held
  <2> QED BY <1>1, <1>2, <2>2, <2>3, <2>4 DEF Local, Effect, Quiet
<1> QED BY <1>1, <1>3, <1>4 DEF Stat

LEMMA CompareLocal ==
    ASSUME NEW c \in Commands, FileTypes, LocalTypes, Shape(c), Compare(c)
    PROVE  FileTypes' /\ Local(c) /\ Effect(c)
<1>1. FileTypes' /\ UNCHANGED <<tasks, job, stuck>>
    BY DEF Compare, repository, FileTypes
<1>2. /\ pc[c] \in {"compare", "recompare"} /\ outcome[c] = "running"
      /\ Numbered(c) /\ ~Brief(c)
    BY DEF Compare, Running, Shape
<1>3. CASE Fail(c)
    BY <1>1, <1>2, <1>3, FailLocal DEF Local, Effect
<1>4. CASE ~Fail(c)
  <2>1. pc' = [pc EXCEPT ![c] = IF pc[c] = "compare" THEN "creating" ELSE "replacing"]
        /\ UNCHANGED <<outcome, raw, ids, created, undo>>
    BY <1>4 DEF Compare, Goto, memory
  <2>2. LocalTypes' /\ Others(c)
    BY <1>1, <2>1 DEF LocalTypes, Points, Others
  <2>3. Shape(c)'
    <3>1. Numbered(c)' /\ Brief(c)' = Brief(c) /\ Wanted(c)' = Wanted(c)
      BY <1>1, <1>2, <2>1 DEF Numbered, Wanted, Brief
    <3>2. pc'[c] = IF pc[c] = "compare" THEN "creating" ELSE "replacing"
      BY <2>1 DEF LocalTypes
    <3>3. created'[c] = created[c] /\ outcome'[c] = "running"
      BY <1>2, <2>1
    <3>4. 0 < Wanted(c)
      BY Sizes
    <3> QED BY <1>2, <3>1, <3>2, <3>3, <3>4 DEF Shape
  <2>4. Own(c)' = Own(c) /\ Held(c)' = Held(c)
    BY <1>2, <2>1 DEF LocalTypes, Own, Held
  <2> QED BY <1>1, <1>2, <2>1, <2>2, <2>3, <2>4 DEF Local, Effect, Quiet
<1> QED BY <1>3, <1>4

LEMMA CreateLocal ==
    ASSUME NEW c \in Commands, FileTypes, LocalTypes, Shape(c), Create(c)
    PROVE  FileTypes' /\ Local(c) /\ Effect(c)
<1> DEFINE k == created[c] + 1
           i == ids[c][k]
<1>1. UNCHANGED <<plans, engine, job, stuck>> /\ pc[c] = "creating"
      /\ outcome[c] = "running"
    BY DEF Create, Running
<1>2. Numbered(c) /\ created[c] \in Nat /\ k \in 1 .. Wanted(c) /\ Held(c) = created[c]
      /\ Wanted(c) \in Nat
    BY <1>1, Sizes DEF Shape, LocalTypes, Held
<1>3. i \in Ids
    BY <1>2, NumberedList
<1>4. CASE Exists(i)
  <2>1. Fail(c) /\ UNCHANGED tasks
    BY <1>4 DEF Create
  <2> QED BY <1>1, <2>1, FailLocal DEF Local, Effect, FileTypes
<1>5. CASE ~Exists(i)
  <2>1. /\ tasks' = [tasks EXCEPT ![i] = TaskFile(c, k)]
        /\ created' = [created EXCEPT ![c] = k]
        /\ pc' = [pc EXCEPT ![c] = IF k < Wanted(c) THEN "creating"
                                   ELSE IF Brief(c) THEN "created" ELSE "recompare"]
        /\ UNCHANGED <<outcome, raw, ids, undo>>
    BY <1>5 DEF Create, Goto
  <2>2. TaskFile(c, k) \in TaskFiles
    BY <1>2, JobOf, Sizes DEF TaskFile, TaskFiles, Wanted, Brief
  <2>3. FileTypes'
    BY <1>1, <1>3, <2>1, <2>2 DEF FileTypes
  <2>4. LocalTypes' /\ Others(c)
    BY <1>1, <1>2, <2>1 DEF LocalTypes, Points, Others
  <2>5. /\ Numbered(c)' /\ Brief(c)' = Brief(c) /\ Wanted(c)' = Wanted(c)
        /\ created'[c] = k /\ outcome'[c] = "running" /\ ids'[c] = ids[c]
        /\ pc'[c] = IF k < Wanted(c) THEN "creating"
                    ELSE IF Brief(c) THEN "created" ELSE "recompare"
    BY <1>1, <1>2, <2>1 DEF LocalTypes, Numbered, Wanted, Brief
  <2>6. Shape(c)'
    <3>1. k < Wanted(c) \/ k = Wanted(c)
      BY <1>2
    <3>2. CASE k < Wanted(c)
      BY <2>5, <3>2 DEF Shape
    <3>3. CASE ~(k < Wanted(c)) /\ k = Wanted(c)
      BY <2>5, <3>3 DEF Shape
    <3> QED BY <3>1, <3>2, <3>3
  <2>7. Held(c)' = k
    BY <1>2, <2>5 DEF Held
  <2>8. Own(c)' = Own(c) \cup {i}
    <3>1. Own(c)' = {ids[c][j] : j \in 1 .. k}
      BY <2>5, <2>7 DEF Own
    <3>2. Own(c) = {ids[c][j] : j \in 1 .. created[c]}
      BY <1>1, <1>2 DEF Own
    <3>3. 1 .. k = (1 .. created[c]) \cup {k}
      BY <1>2
    <3> QED BY <3>1, <3>2, <3>3
  <2>9. Creates(c)
    BY <1>1, <1>2, <1>3, <1>5, <2>1, <2>5, <2>7, <2>8 DEF Creates
  <2> QED BY <2>3, <2>4, <2>6, <2>9 DEF Local, Effect
<1> QED BY <1>4, <1>5

LEMMA ReplaceLocal ==
    ASSUME NEW c \in Commands, FileTypes, LocalTypes, Shape(c), Replace(c)
    PROVE  FileTypes' /\ Local(c) /\ Effect(c)
<1>1. /\ plans' = [plans EXCEPT ![Plan(c)] =
                       [version |-> raw[c].version, named |-> ids[c]]]
      /\ pc' = [pc EXCEPT ![c] = "replaced"] /\ pc[c] = "replacing"
      /\ UNCHANGED <<tasks, engine, outcome, raw, ids, created, undo, job, stuck>>
      /\ outcome[c] = "running"
    BY DEF Replace, Goto, local, memory, Running
<1>2. /\ Numbered(c) /\ ~Brief(c) /\ created[c] = Wanted(c)
    BY <1>1 DEF Shape
<1>3. [version |-> raw[c].version, named |-> ids[c]] \in Texts
    BY <1>2, NumberedList DEF LocalTypes, Texts
<1>4. FileTypes'
    BY <1>1, <1>3 DEF FileTypes
<1>5. LocalTypes' /\ Others(c)
    BY <1>1 DEF LocalTypes, Points, Others
<1>6. /\ Numbered(c)' /\ Brief(c)' = Brief(c) /\ Wanted(c)' = Wanted(c)
      /\ pc'[c] = "replaced" /\ outcome'[c] = "running" /\ ids'[c] = ids[c]
    BY <1>1, <1>2 DEF LocalTypes, Numbered, Wanted, Brief
<1>7. Shape(c)'
    BY <1>2, <1>6 DEF Shape
<1>8. Held(c)' = Held(c)
    BY <1>1, <1>2, <1>6 DEF Held
<1>9. Own(c)' = Own(c)
    BY <1>1, <1>6, <1>8 DEF Own
<1> QED BY <1>1, <1>4, <1>5, <1>6, <1>7, <1>8, <1>9 DEF Local, Effect, Quiet

LEMMA ReportLocal ==
    ASSUME NEW c \in Commands, FileTypes, LocalTypes, Shape(c), Report(c)
    PROVE  FileTypes' /\ Local(c) /\ Effect(c)
<1> DEFINE how == IF Brief(c) THEN "briefed" ELSE "adopted"
<1>1. /\ UNCHANGED <<tasks, plans, engine, job, stuck>>
      /\ pc[c] \in {"replaced", "created"} /\ Settle(c, how) /\ how \in Outcomes
    BY DEF Report, repository, Outcomes
<1>2. /\ LocalTypes' /\ Others(c) /\ outcome'[c] = how /\ pc'[c] = pc[c]
      /\ ids'[c] = ids[c] /\ Numbered(c)' /\ Own(c)' = Own(c) /\ Held(c)' = Held(c)
    BY <1>1, SettleLocal
<1>3. Brief(c)' = Brief(c)
    BY <1>1 DEF Brief
<1>4. Shape(c)'
    BY <1>1, <1>2, <1>3 DEF Shape
<1>5. FileTypes'
    BY <1>1 DEF FileTypes
<1> QED BY <1>1, <1>2, <1>4, <1>5 DEF Local, Effect, Quiet

LEMMA UnlinkLocal ==
    ASSUME NEW c \in Commands, FileTypes, LocalTypes, Shape(c), Unlink(c)
    PROVE  FileTypes' /\ Local(c) /\ Effect(c)
<1>1. /\ UNCHANGED <<plans, engine, job>> /\ pc[c] = "undoing"
      /\ outcome[c] = "running" /\ Own(c) = undo[c] /\ ~Brief(c)
    BY DEF Unlink, Running, Own, Shape
<1>2. PICK i \in undo[c] :
         /\ IF undo[c] = {i}
            THEN Settle(c, "failed")
            ELSE /\ undo' = [undo EXCEPT ![c] = @ \ {i}]
                 /\ UNCHANGED <<pc, outcome, raw, ids, created>>
         /\ \/ tasks' = [tasks EXCEPT ![i] = NoFile] /\ UNCHANGED stuck
            \/ stuck' = [stuck EXCEPT ![c] = @ \cup {i}] /\ UNCHANGED tasks
    BY DEF Unlink
<1>3. i \in Ids
    BY DEF LocalTypes
<1>4. FileTypes'
    BY <1>1, <1>2, <1>3 DEF FileTypes
<1>5. Local(c) /\ Own(c)' = Own(c) \ {i} /\ pc'[c] = "undoing"
  <2>1. CASE undo[c] = {i}
    <3>1. /\ LocalTypes' /\ Others(c) /\ outcome'[c] = "failed" /\ undo'[c] = {}
          /\ pc'[c] = "undoing" /\ Own(c)' = {}
      BY <1>1, <1>2, <2>1, SettleLocal DEF Outcomes
    <3>2. Shape(c)'
      BY <1>1, <3>1 DEF Shape, Brief
    <3> QED BY <1>1, <2>1, <3>1, <3>2 DEF Local
  <2>2. CASE undo[c] # {i}
    <3>1. /\ undo' = [undo EXCEPT ![c] = @ \ {i}]
          /\ UNCHANGED <<pc, outcome, raw, ids, created>>
      BY <1>2, <2>2
    <3>2. LocalTypes' /\ Others(c)
      BY <1>1, <3>1 DEF LocalTypes, Others
    <3>3. Shape(c)'
      BY <1>1, <3>1 DEF Shape, Brief
    <3>4. Own(c)' = Own(c) \ {i}
      BY <1>1, <3>1 DEF LocalTypes, Own
    <3> QED BY <1>1, <3>1, <3>2, <3>3, <3>4 DEF Local
  <2> QED BY <2>1, <2>2
<1> QED BY <1>1, <1>2, <1>4, <1>5 DEF Effect, Unlinks

LEMMA CrashLocal ==
    ASSUME NEW c \in Commands, FileTypes, LocalTypes, Shape(c), Crash(c)
    PROVE  FileTypes' /\ Local(c) /\ Effect(c)
<1>1. /\ UNCHANGED <<tasks, plans, engine, job, stuck>> /\ Settle(c, "crashed")
      /\ outcome[c] = "running"
    BY DEF Crash, repository, Running
<1>2. FileTypes'
    BY <1>1 DEF FileTypes
<1>3. LocalTypes' /\ Others(c) /\ outcome'[c] = "crashed" /\ undo'[c] = {}
    BY <1>1, SettleLocal DEF Outcomes
<1>4. CASE pc[c] \in {"replaced", "created"}
  <2>1. /\ pc'[c] = pc[c] /\ ids'[c] = ids[c] /\ Numbered(c)'
        /\ Own(c)' = Own(c) /\ Held(c)' = Held(c)
    BY <1>1, <1>4, SettleLocal DEF Outcomes
  <2>2. Shape(c)'
    BY <1>1, <1>3, <1>4, <2>1 DEF Shape, Brief
  <2> QED BY <1>1, <1>2, <1>3, <1>4, <2>1, <2>2 DEF Local, Effect, Quiet
<1>5. CASE pc[c] \notin {"replaced", "created"}
  <2>1. /\ pc'[c] = IF pc[c] = "undoing" THEN "undoing" ELSE "ended"
        /\ Own(c)' = {} /\ Held(c)' = 0 /\ created'[c] = 0
    BY <1>1, <1>5, SettleLocal DEF Outcomes
  <2>2. Shape(c)'
    BY <1>1, <1>3, <1>5, <2>1 DEF Shape, Brief
  <2> QED BY <1>1, <1>2, <1>3, <2>1, <2>2 DEF Local, Effect, Quiet
<1> QED BY <1>4, <1>5

LEMMA ActsLocal ==
    ASSUME NEW c \in Commands, FileTypes, LocalTypes, Shape(c), Acts(c)
    PROVE  FileTypes' /\ Local(c) /\ Effect(c)
<1>1. CASE IoFails(c)
  <2>1. UNCHANGED <<tasks, plans, engine, job, stuck>>
    BY <1>1 DEF IoFails, repository
  <2> QED BY <1>1, <2>1, FailLocal DEF IoFails, Running, Local, Effect, FileTypes
<1> QED BY <1>1, InspectLocal, ListLocal, StatLocal, CompareLocal, CreateLocal,
           ReplaceLocal, ReportLocal, UnlinkLocal, CrashLocal DEF Acts, Step

-------------------------------------------------------------------------------
\* Owners.

LEMMA FileNotNone == ASSUME NEW file \in TaskFiles PROVE file # NoFile
<1>1. DOMAIN file = {"by", "plan", "part", "advanced"}
    BY DEF TaskFiles
<1>2. DOMAIN NoFile = {"by"}
    BY DEF NoFile
<1>3. "plan" \in DOMAIN file /\ "plan" \notin DOMAIN NoFile
    BY <1>1, <1>2
<1> QED BY <1>3

LEMMA FileOf == ASSUME FileTypes, NEW i \in Ids, Exists(i)
                PROVE  tasks[i] \in TaskFiles /\ tasks[i].by \in Commands
                       /\ tasks[i].advanced \in BOOLEAN
BY DEF FileTypes, Exists, TaskFiles

\* An adoption that takes back does so to its end, one that is committed stays so.
LEMMA ActsKeep ==
    ASSUME NEW c \in Commands, LocalTypes, Shape(c), Acts(c)
    PROVE  /\ UNCHANGED <<job, engine>>
           /\ pc[c] = "undoing" => pc'[c] = "undoing"
           /\ pc[c] = "replaced" => pc'[c] = "replaced" /\ ids'[c] = ids[c]
<1>1. UNCHANGED <<job, engine>>
    BY DEF Acts, Step, Inspect, List, Stat, Compare, Create, Replace, Report, Unlink,
           IoFails, Crash, repository, local
<1>2. ASSUME pc[c] = "undoing" PROVE pc'[c] = "undoing"
  <2>1. Unlink(c) \/ Crash(c)
    BY <1>2 DEF Acts, Step, Shape, Inspect, List, Stat, Compare, Create, Replace, Report, IoFails
  <2> QED BY <1>2, <2>1 DEF Unlink, Crash, Settle, LocalTypes
<1>3. ASSUME pc[c] = "replaced" PROVE pc'[c] = "replaced" /\ ids'[c] = ids[c]
  <2>1. Report(c) \/ Crash(c)
    BY <1>3 DEF Acts, Step, Shape, Inspect, List, Stat, Compare, Create, Replace, Unlink, IoFails
  <2> QED BY <1>3, <2>1 DEF Report, Crash, Settle, LocalTypes
<1> QED BY <1>1, <1>2, <1>3

\* What a command's step leaves of the others, and of what was taken back.
LEMMA Frame ==
    ASSUME NEW c \in Commands, FileTypes, LocalTypes, Shape(c), Acts(c)
    PROVE  /\ \A d \in Commands \ {c} :
                 /\ Own(d)' = Own(d) /\ Held(d)' = Held(d) /\ ids'[d] = ids[d]
                 /\ pc'[d] = pc[d] /\ outcome'[d] = outcome[d]
           /\ \A d \in Commands : TakenBack(d) => TakenBack(d)'
           /\ \A d \in Commands : Wanted(d)' = Wanted(d) /\ Brief(d)' = Brief(d)
                                  /\ Plan(d)' = Plan(d)
<1>1. Others(c)
    BY ActsLocal DEF Local
<1>2. UNCHANGED job /\ (pc[c] = "undoing" => pc'[c] = "undoing")
    BY ActsKeep
<1>3. ASSUME NEW d \in Commands
      PROVE  Wanted(d)' = Wanted(d) /\ Brief(d)' = Brief(d) /\ Plan(d)' = Plan(d)
    BY <1>2 DEF Wanted, Brief, Plan
<1>4. ASSUME NEW d \in Commands \ {c}
      PROVE  /\ Own(d)' = Own(d) /\ Held(d)' = Held(d) /\ ids'[d] = ids[d]
             /\ pc'[d] = pc[d] /\ outcome'[d] = outcome[d]
  <2>1. /\ ids'[d] = ids[d] /\ pc'[d] = pc[d] /\ outcome'[d] = outcome[d]
        /\ created'[d] = created[d] /\ undo'[d] = undo[d]
    BY <1>1 DEF Others
  <2>2. Held(d)' = Held(d)
    BY <1>3, <2>1 DEF Held
  <2>3. Own(d)' = Own(d)
    BY <2>1, <2>2 DEF Own
  <2> QED BY <2>1, <2>2, <2>3
<1>5. ASSUME NEW d \in Commands, TakenBack(d) PROVE TakenBack(d)'
    BY <1>2, <1>3, <1>4, <1>5 DEF TakenBack
<1> QED BY <1>3, <1>4, <1>5

\* A file that nobody writes stays its owner's.
LEMMA OwnFileStays ==
    ASSUME FileTypes, NEW d \in Commands, NEW i, OwnFile(d, i), tasks'[i] = tasks[i],
           \A e \in Commands : TakenBack(e) => TakenBack(e)'
    PROVE  OwnFile(d, i)'
BY FileOf DEF OwnFile, Exists

LEMMA OwnedStep ==
    ASSUME NEW c \in Commands, FileTypes, LocalTypes, Shape(c), Owned, Acts(c)
    PROVE  Owned'
<1>1. \A d \in Commands \ {c} : Own(d)' = Own(d)
    BY Frame
<1>2. \A d \in Commands : TakenBack(d) => TakenBack(d)'
    BY Frame
<1>3. CASE Quiet(c)
  <2>1. UNCHANGED tasks /\ Own(c)' \subseteq Own(c)
    BY <1>3 DEF Quiet
  <2>2. ASSUME NEW d \in Commands, NEW i \in Own(d)' PROVE OwnFile(d, i)'
    BY <1>1, <1>2, <2>1, <2>2, OwnFileStays DEF Owned
  <2> QED BY <1>1, <2>1, <2>2 DEF Owned
<1>4. CASE Creates(c)
  <2> DEFINE k == Held(c) + 1
             new == ids[c][k]
  <2>1. /\ new \in Ids /\ ~Exists(new) /\ Own(c)' = Own(c) \cup {new}
        /\ tasks' = [tasks EXCEPT ![new] = TaskFile(c, k)]
    BY <1>4 DEF Creates
  <2>2. \A d \in Commands : new \notin Own(d)
    BY <2>1 DEF Owned, OwnFile
  <2> HIDE DEF new
  <2>3. ASSUME NEW d \in Commands, NEW i \in Own(d)' PROVE OwnFile(d, i)'
    <3>1. CASE i = new
      <4>1. d = c
        BY <1>1, <2>2, <2>3, <3>1
      <4>2. tasks'[i] = TaskFile(c, k) /\ FileTypes'
        BY <2>1, <3>1, ActsLocal DEF FileTypes
      <4>3. tasks'[i].by = c /\ tasks'[i] # NoFile
        BY <4>2, FileNotNone DEF TaskFile, NoFile
      <4> QED BY <2>1, <3>1, <4>1, <4>3 DEF OwnFile, Exists
    <3>2. CASE i # new
      <4>1. i \in Own(d) /\ OwnFile(d, i)
        BY <1>1, <2>1, <2>3, <3>2 DEF Owned
      <4>2. tasks'[i] = tasks[i]
        BY <2>1, <3>2, <4>1 DEF OwnFile, FileTypes
      <4> QED BY <1>2, <4>1, <4>2, OwnFileStays
    <3> QED BY <3>1, <3>2
  <2> QED BY <1>1, <2>1, <2>2, <2>3 DEF Owned
<1>5. CASE Unlinks(c)
  <2>1. PICK gone \in Own(c) :
           /\ Own(c)' = Own(c) \ {gone}
           /\ tasks' = [tasks EXCEPT ![gone] = NoFile] \/ UNCHANGED tasks
    BY <1>5 DEF Unlinks
  <2>2. ASSUME NEW d \in Commands, NEW i \in Own(d)' PROVE OwnFile(d, i)'
    <3>1. i \in Own(d) /\ i # gone
      BY <1>1, <2>1, <2>2 DEF Owned
    <3>2. OwnFile(d, i)
      BY <3>1 DEF Owned
    <3>3. tasks'[i] = tasks[i]
      BY <2>1, <3>1, <3>2 DEF OwnFile, FileTypes
    <3> QED BY <1>2, <3>2, <3>3, OwnFileStays
  <2> QED BY <1>1, <2>1, <2>2 DEF Owned
<1> QED BY <1>3, <1>4, <1>5, ActsLocal DEF Effect

\* A Task file that is in use changes only when the command that owns it takes
\* it back.
LEMMA FilesStep ==
    ASSUME NEW c \in Commands, FileTypes, LocalTypes, Shape(c), Owned, Acts(c),
           NEW i \in Ids, tasks'[i] # tasks[i]
    PROVE  \/ /\ ~Exists(i) /\ tasks'[i] # NoFile /\ tasks'[i].by = c /\ Creates(c)
              /\ i = ids[c][Held(c) + 1] /\ tasks'[i] = TaskFile(c, Held(c) + 1)
           \/ /\ i \in Own(c) \ Own(c)' /\ tasks'[i] = NoFile /\ OwnFile(c, i)
              /\ pc[c] = "undoing" /\ pc'[c] = "undoing"
<1>1. CASE Quiet(c)
    BY <1>1 DEF Quiet
<1>2. CASE Creates(c)
  <2>1. i = ids[c][Held(c) + 1] /\ tasks'[i] = TaskFile(c, Held(c) + 1) /\ ~Exists(i)
    BY <1>2 DEF Creates, FileTypes
  <2>2. tasks'[i] # NoFile
    BY <2>1, FileNotNone, ActsLocal DEF FileTypes, Exists
  <2>3. tasks'[i].by = c
    BY <2>1 DEF TaskFile
  <2> QED BY <1>2, <2>1, <2>2, <2>3
<1>3. CASE Unlinks(c)
  <2>1. PICK gone \in Own(c) :
           /\ pc[c] = "undoing" /\ pc'[c] = "undoing" /\ Own(c)' = Own(c) \ {gone}
           /\ tasks' = [tasks EXCEPT ![gone] = NoFile] \/ UNCHANGED tasks
    BY <1>3 DEF Unlinks
  <2>2. i = gone /\ tasks'[i] = NoFile
    BY <2>1 DEF FileTypes
  <2>3. OwnFile(c, i)
    BY <2>1, <2>2 DEF Owned
  <2> QED BY <2>1, <2>2, <2>3
<1> QED BY <1>1, <1>2, <1>3, ActsLocal DEF Effect

LEMMA LateStep ==
    ASSUME NEW c \in Commands, FileTypes, LocalTypes, Shape(c), Owned, Late, Acts(c)
    PROVE  Late'
<1> SUFFICES ASSUME engine # Idle, ~TakenBack(engine.file.by)
             PROVE  tasks'[engine.id] = engine.file
    <2>1. engine' = engine /\ \A d \in Commands : TakenBack(d) => TakenBack(d)'
        BY ActsKeep, Frame
    <2>2. engine # Idle => engine.file.by \in Commands
        BY DEF FileTypes, TaskFiles
    <2> QED BY <2>1, <2>2 DEF Late
<1> DEFINE i == engine.id
<1>1. i \in Ids /\ engine.file \in TaskFiles /\ tasks[i] = engine.file
    BY DEF Late, FileTypes
<1>2. Exists(i)
    BY <1>1, FileNotNone DEF Exists
<1>3. ~(OwnFile(c, i) /\ pc[c] = "undoing")
    BY <1>1 DEF OwnFile, TakenBack, Shape
<1> QED BY <1>1, <1>2, <1>3, FilesStep

LEMMA InPlaceStep ==
    ASSUME NEW c \in Commands, FileTypes, LocalTypes, Shape(c), Owned, InPlace, Acts(c)
    PROVE  InPlace'
<1> SUFFICES ASSUME NEW d \in Commands, pc'[d] # "undoing", NEW k \in 1 .. Held(d)',
                    tasks'[ids'[d][k]].by = d
             PROVE  tasks'[ids'[d][k]].part = PartOf(d, k)'
    BY DEF InPlace
<1>1. PartOf(d, k)' = PartOf(d, k)
    BY Frame DEF PartOf
<1>2. ASSUME pc[d] # "undoing", k \in 1 .. Held(d), ids'[d] = ids[d],
             Own(d) \subseteq Own(d)'
      PROVE  tasks'[ids'[d][k]].part = PartOf(d, k)
  <2> DEFINE i == ids[d][k]
  <2>1. i \in Own(d) /\ OwnFile(d, i)
    BY <1>2 DEF Own, Owned
  <2>2. tasks'[i] = tasks[i]
    <3>1. i \in Ids /\ Exists(i)
      BY <2>1 DEF OwnFile
    <3>2. ~(i \in Own(c) \ Own(c)')
      BY <1>2, <2>1 DEF Owned
    <3> QED BY <3>1, <3>2, FilesStep
  <2> QED BY <1>2, <2>2 DEF InPlace
<1>3. CASE d # c
  <2>1. Own(d)' = Own(d) /\ Held(d)' = Held(d) /\ ids'[d] = ids[d] /\ pc'[d] = pc[d]
    BY <1>3, Frame
  <2> QED BY <1>1, <1>2, <2>1
<1>4. CASE d = c /\ Quiet(c)
  <2>1. Held(c)' # 0
    BY <1>4
  <2>2. pc[c] # "undoing" /\ Own(c)' = Own(c) /\ Held(c)' = Held(c) /\ ids'[c] = ids[c]
    BY <1>4, <2>1 DEF Quiet
  <2> QED BY <1>1, <1>2, <1>4, <2>2
<1>5. CASE d = c /\ Creates(c)
  <2>1. /\ pc[c] = "creating" /\ ids'[c] = ids[c] /\ Held(c)' = Held(c) + 1
        /\ Own(c) \subseteq Own(c)'
        /\ ids[c][Held(c) + 1] \in Ids
        /\ tasks' = [tasks EXCEPT ![ids[c][Held(c) + 1]] = TaskFile(c, Held(c) + 1)]
    BY <1>5 DEF Creates
  <2>2. Held(c) \in Nat
    BY <2>1 DEF Held, LocalTypes
  <2>3. CASE k \in 1 .. Held(c)
    BY <1>1, <1>2, <1>5, <2>1, <2>3
  <2>4. CASE k = Held(c) + 1
    <3>1. tasks'[ids'[c][k]] = TaskFile(c, k)
      BY <2>1, <2>4 DEF FileTypes
    <3> QED BY <1>1, <1>5, <3>1 DEF TaskFile, PartOf
  <2>5. k \in 1 .. Held(c) \/ k = Held(c) + 1
    BY <1>5, <2>1, <2>2
  <2> QED BY <2>3, <2>4, <2>5
<1>6. ~(d = c /\ Unlinks(c))
    BY DEF Unlinks
<1> QED BY <1>3, <1>4, <1>5, <1>6, ActsLocal DEF Effect

Early == {"asked", "listing", "stat", "compare"}

\* What leads to a place where a command has made nothing.
LEMMA EarlySteps ==
    ASSUME NEW c \in Commands, LocalTypes, Shape(c), Acts(c)
    PROVE  /\ outcome[c] \in {"not run", "running"}
           /\ outcome[c] = "not run" => pc[c] = "asked"
           /\ pc'[c] \in Early \/ outcome'[c] \in {"not run", "unwritten"}
                 => pc[c] \in {"asked", "listing", "stat"}
<1>1. outcome[c] \in {"not run", "running"}
    BY DEF Acts, Step, Inspect, List, Stat, Compare, Create, Replace, Report, Unlink,
           IoFails, Crash, Running
<1>2. ASSUME pc[c] \notin {"asked", "listing", "stat"}
      PROVE  pc'[c] \notin Early /\ outcome'[c] \notin {"not run", "unwritten"}
  <2>1. outcome[c] = "running"
    BY <1>1, <1>2 DEF Shape
  <2>2. CASE Compare(c) \/ Create(c) \/ Replace(c) \/ Unlink(c) \/ IoFails(c)
    <3>1. CASE \E how \in {"failed"} : Settle(c, how)
      BY <1>2, <3>1 DEF Settle, LocalTypes, Early
    <3>2. CASE Fail(c)
      BY <1>2, <2>1, <3>1, <3>2 DEF Fail, Goto, LocalTypes, Early
    <3>3. CASE ~Fail(c) /\ ~(\E how \in {"failed"} : Settle(c, how))
      <4>1. UNCHANGED outcome
        BY <2>2, <3>3 DEF Compare, Create, Replace, Unlink, IoFails, Goto
      <4>2. pc'[c] \notin Early
        BY <1>2, <2>2, <3>3 DEF Compare, Create, Replace, Unlink, IoFails, Goto,
                                LocalTypes, Early
      <4> QED BY <2>1, <4>1, <4>2
    <3> QED BY <3>1, <3>2, <3>3
  <2>3. CASE Report(c) \/ Crash(c)
    <3>1. PICK how \in {"briefed", "adopted", "crashed"} : Settle(c, how)
      BY <2>3 DEF Report, Crash
    <3> QED BY <1>2, <3>1 DEF Settle, LocalTypes, Early
  <2> QED BY <1>2, <2>1, <2>2, <2>3 DEF Acts, Step, Inspect, List, Stat
<1> QED BY <1>1, <1>2 DEF Shape

LEMMA AccountedStep ==
    ASSUME NEW c \in Commands, FileTypes, LocalTypes, Shape(c), Owned, Accounted, Acts(c)
    PROVE  Accounted'
<1>1. engine' = engine
    BY ActsKeep
<1>2. \A d \in Commands \ {c} :
          /\ Own(d)' = Own(d) /\ pc'[d] = pc[d] /\ outcome'[d] = outcome[d]
    BY Frame
<1>3. ASSUME NEW d \in Commands \ {c} PROVE stuck'[d] = stuck[d]
    BY ActsLocal DEF Effect, Quiet, Creates, Unlinks, FileTypes
<1>4. \A d \in Commands : stuck[d] \subseteq stuck'[d]
    BY ActsLocal DEF Effect, Quiet, Creates, Unlinks, FileTypes
<1>5. ASSUME NEW i \in Ids, Exists(i)', tasks'[i] # tasks[i]
      PROVE  tasks'[i].by = c /\ Creates(c) /\ i = ids[c][Held(c) + 1]
    BY <1>5, FilesStep DEF Exists
<1>6. ASSUME NEW d \in Commands \ {c}, Untouched(d) PROVE Untouched(d)'
    BY <1>1, <1>5, <1>6 DEF Untouched, Exists
<1>7. ASSUME NEW d \in Commands \ {c}, NEW i \in Makes(d)'
      PROVE  i \in Makes(d) /\ tasks'[i] = tasks[i]
    BY <1>5, <1>7 DEF Makes, Exists
<1>8. ASSUME pc'[c] \in Early \/ outcome'[c] \in {"not run", "unwritten"}
      PROVE  Untouched(c)'
  <2>1. pc[c] \in {"asked", "listing", "stat"} /\ Untouched(c)
    BY <1>8, EarlySteps DEF Accounted
  <2>2. ~Creates(c)
    BY <2>1 DEF Creates
  <2> QED BY <1>1, <1>5, <2>1, <2>2 DEF Untouched, Exists
<1>9. ASSUME outcome'[c] \in {"running", "failed"}, NEW i \in Makes(c)'
      PROVE  i \in Own(c)' \/ i \in stuck'[c] \/ tasks'[i].advanced
  <2>1. i \in Ids /\ Exists(i)' /\ tasks'[i].by = c
    BY <1>9 DEF Makes
  <2>2. CASE tasks'[i] # tasks[i]
    <3>1. Creates(c) /\ i = ids[c][Held(c) + 1]
      BY <1>5, <2>1, <2>2
    <3> QED BY <3>1 DEF Creates
  <2>3. CASE tasks'[i] = tasks[i]
    <3>1. i \in Makes(c)
      BY <2>1, <2>3 DEF Makes, Exists
    <3>2. outcome[c] = "running"
      BY <3>1, EarlySteps DEF Accounted, Untouched, Makes
    <3>3. i \in Own(c) \/ i \in stuck[c] \/ tasks[i].advanced
      BY <3>1, <3>2 DEF Accounted
    <3>4. CASE i \in Own(c)
      <4>1. CASE Quiet(c)
        BY <1>9, <3>4, <4>1 DEF Quiet
      <4>2. CASE Creates(c)
        BY <3>4, <4>2 DEF Creates
      <4>3. CASE Unlinks(c)
        <5>1. PICK gone \in Own(c) :
                 /\ Own(c)' = Own(c) \ {gone}
                 /\ \/ tasks' = [tasks EXCEPT ![gone] = NoFile]
                    \/ stuck' = [stuck EXCEPT ![c] = @ \cup {gone}]
          BY <4>3 DEF Unlinks
        <5>2. CASE i = gone
          BY <2>1, <5>1, <5>2 DEF Exists, FileTypes
        <5> QED BY <3>4, <5>1, <5>2
      <4> QED BY <4>1, <4>2, <4>3, ActsLocal DEF Effect
    <3> QED BY <1>4, <2>3, <3>3, <3>4
  <2> QED BY <2>2, <2>3
<1> SUFFICES ASSUME NEW d \in Commands
             PROVE  /\ pc'[d] \in Early \/ outcome'[d] \in {"not run", "unwritten"}
                          => Untouched(d)'
                    /\ outcome'[d] \in {"running", "failed"} =>
                          \A i \in Makes(d)' : \/ i \in Own(d)' \/ i \in stuck'[d]
                                               \/ tasks'[i].advanced
    BY DEF Accounted, Early
<1>10. CASE d = c
    BY <1>8, <1>9, <1>10
<1>11. CASE d # c
  <2>1. /\ pc[d] \in Early \/ outcome[d] \in {"not run", "unwritten"} => Untouched(d)
        /\ outcome[d] \in {"running", "failed"} =>
              \A i \in Makes(d) : i \in Own(d) \/ i \in stuck[d] \/ tasks[i].advanced
    BY DEF Accounted, Early
  <2> QED BY <1>2, <1>3, <1>6, <1>7, <1>11, <2>1
<1> QED BY <1>10, <1>11

LEMMA NamedStep ==
    ASSUME NEW c \in Commands, FileTypes, LocalTypes, Shape(c), Named, Acts(c)
    PROVE  Named'
<1>1. ASSUME NEW d \in Commands, Committed(d)
      PROVE  Committed(d)' /\ ids'[d] = ids[d] /\ Plan(d)' = Plan(d)
    BY <1>1, Frame, ActsKeep DEF Committed
<1>2. CASE Replace(c)
  <2>1. /\ plans' = [plans EXCEPT ![Plan(c)] =
                         [version |-> raw[c].version, named |-> ids[c]]]
        /\ pc'[c] = "replaced" /\ ids' = ids /\ ~Brief(c)
    BY <1>2 DEF Replace, Goto, local, memory, LocalTypes, Shape
  <2>2. Committed(c)' /\ Plan(c)' = Plan(c)
    BY <2>1, Frame DEF Committed
  <2>3. ASSUME NEW p \in Plans, Adopted(p)'
        PROVE  \E d \in Commands : Committed(d)' /\ Plan(d)' = p /\ plans'[p].named = ids'[d]
    <3>1. CASE p = Plan(c)
      BY <2>1, <2>2, <3>1 DEF FileTypes
    <3>2. CASE p # Plan(c)
      <4>1. plans'[p] = plans[p] /\ Adopted(p)
        BY <2>1, <2>3, <3>2 DEF FileTypes, Adopted
      <4> QED BY <1>1, <4>1 DEF Named
    <3> QED BY <3>1, <3>2
  <2> QED BY <2>3 DEF Named
<1>3. CASE ~Replace(c)
  <2>1. plans' = plans
    BY <1>3 DEF Acts, Step, Inspect, List, Stat, Compare, Create, Report, Unlink,
                IoFails, Crash, repository
  <2> QED BY <1>1, <2>1 DEF Named, Adopted
<1> QED BY <1>2, <1>3

-------------------------------------------------------------------------------
\* The Worker that writes a plan, whoever edits one, and the engine: nothing in
\* a command changes.

LEMMA StillOwned ==
    ASSUME UNCHANGED <<pc, outcome, local>>
    PROVE  /\ LocalTypes' = LocalTypes
           /\ \A c \in Commands :
                 /\ Shape(c)' = Shape(c) /\ Own(c)' = Own(c) /\ Held(c)' = Held(c)
                 /\ Brief(c)' = Brief(c) /\ TakenBack(c)' = TakenBack(c)
                 /\ Committed(c)' = Committed(c) /\ Plan(c)' = Plan(c)
                 /\ ids'[c] = ids[c] /\ stuck'[c] = stuck[c]
                 /\ pc'[c] = pc[c] /\ outcome'[c] = outcome[c]
<1> USE DEF local, memory
<1>1. LocalTypes' = LocalTypes
    BY DEF LocalTypes
<1>2. ASSUME NEW c \in Commands
      PROVE  /\ Brief(c)' = Brief(c) /\ Plan(c)' = Plan(c) /\ Wanted(c)' = Wanted(c)
             /\ Numbered(c)' = Numbered(c)
    BY DEF Brief, Plan, Wanted, Numbered
<1>3. ASSUME NEW c \in Commands
      PROVE  /\ Shape(c)' = Shape(c) /\ Own(c)' = Own(c) /\ Held(c)' = Held(c)
             /\ TakenBack(c)' = TakenBack(c) /\ Committed(c)' = Committed(c)
    BY <1>2 DEF Shape, Own, Held, TakenBack, Committed
<1> QED BY <1>1, <1>2, <1>3

LEMMA PlansStep ==
    ASSUME IInv, UNCHANGED <<tasks, pc, outcome, local>>,
           engine' = engine \/ engine' = Idle
           \/ \E i \in Ids : Exists(i) /\ engine' = [id |-> i, file |-> tasks[i]],
           plans' \in [Plans -> Texts],
           \A p \in Plans : Adopted(p)' => Adopted(p) /\ plans'[p].named = plans[p].named
    PROVE  IInv'
<1> USE DEF IInv
<1>1. FileTypes'
    BY FileOf DEF FileTypes, local
<1>2. Owned'
    BY StillOwned DEF Owned, OwnFile, Exists, FileTypes, TaskFiles, TakenBack, local, Brief
<1>3. InPlace'
    BY StillOwned DEF InPlace, PartOf, local
<1>4. Late'
    BY StillOwned DEF Late, TakenBack, Brief, local
<1>5. ASSUME NEW c \in Commands, Untouched(c) PROVE Untouched(c)'
    BY <1>5 DEF Untouched, Exists
<1>6. Accounted'
    BY <1>5, StillOwned DEF Accounted, Makes, Exists
<1>7. Named'
    BY StillOwned DEF Named
<1> QED BY <1>1, <1>2, <1>3, <1>4, <1>6, <1>7, StillOwned

LEMMA EngineStep == ASSUME IInv, EngineRenames PROVE IInv'
<1> USE DEF IInv
<1>1. PICK i \in Ids, file \in TaskFiles :
         /\ engine.file = file /\ engine # Idle /\ engine' = Idle
         /\ tasks' = [tasks EXCEPT ![i] = [file EXCEPT !.advanced = TRUE]]
         /\ UNCHANGED <<plans, pc, outcome, local>>
         /\ tasks[i] = file \/ TakenBack(file.by)
    BY DEF EngineRenames, FileTypes, Late
<1>2. [file EXCEPT !.advanced = TRUE] \in TaskFiles
    BY <1>1 DEF TaskFiles
<1>3. /\ tasks'[i] \in TaskFiles /\ tasks'[i] # NoFile /\ tasks'[i].advanced
      /\ tasks'[i].by = file.by /\ tasks'[i].part = file.part
      /\ \A j \in Ids \ {i} : tasks'[j] = tasks[j]
    BY <1>1, <1>2, FileNotNone DEF FileTypes, TaskFiles
<1>4. FileTypes'
    BY <1>1, <1>2 DEF FileTypes, local
<1>5. ASSUME NEW c \in Commands, NEW j, OwnFile(c, j) PROVE OwnFile(c, j)'
  <2>1. /\ j \in Ids /\ Exists(j)
        /\ tasks[j].by = c \/ (tasks[j].advanced /\ TakenBack(tasks[j].by))
    BY <1>5 DEF OwnFile
  <2>3. pc' = pc /\ job' = job
    BY <1>1 DEF local
  <2>4. CASE j = i
    <3>1. \/ TakenBack(file.by)
          \/ file.by = c \/ (file.advanced /\ TakenBack(file.by))
      BY <1>1, <2>1, <2>4
    <3> QED BY <1>3, <2>1, <2>3, <2>4, <3>1 DEF OwnFile, Exists, TakenBack, Brief
  <2>5. CASE j # i
    BY <1>3, <2>1, <2>3, <2>5 DEF OwnFile, Exists, TakenBack, Brief
  <2> QED BY <2>4, <2>5
<1>6. Owned'
    BY <1>1, <1>5, StillOwned DEF Owned
<1>7. InPlace'
  <2> SUFFICES ASSUME NEW c \in Commands, pc[c] # "undoing", NEW k \in 1 .. Held(c),
                      tasks'[ids[c][k]].by = c
               PROVE  tasks'[ids[c][k]].part = PartOf(c, k)
    BY <1>1, StillOwned DEF InPlace, PartOf
  <2>1. ids[c][k] \in Own(c)
    BY DEF Own
  <2>2. ids[c][k] \in Ids
    BY <2>1 DEF Owned, OwnFile
  <2>3. CASE ids[c][k] = i
    <3>1. tasks[i] = file
      BY <1>1, <1>3, <2>3 DEF TakenBack
    <3> QED BY <1>3, <2>3, <3>1 DEF InPlace
  <2>4. CASE ids[c][k] # i
    BY <1>3, <2>2, <2>4 DEF InPlace
  <2> QED BY <2>3, <2>4
<1>8. Late'
    BY <1>1 DEF Late
<1>9. ASSUME NEW c \in Commands, Untouched(c) PROVE Untouched(c)'
    BY <1>1, <1>3, <1>9 DEF Untouched, Exists
<1>10. ASSUME NEW c \in Commands, NEW j \in Makes(c)'
       PROVE  (j \in Makes(c) /\ tasks'[j] = tasks[j]) \/ tasks'[j].advanced
    BY <1>3, <1>10 DEF Makes, Exists
<1>11. Accounted'
  <2> SUFFICES ASSUME NEW c \in Commands
               PROVE  /\ pc[c] \in Early \/ outcome[c] \in {"not run", "unwritten"}
                            => Untouched(c)'
                      /\ outcome[c] \in {"running", "failed"} =>
                            \A j \in Makes(c)' : \/ j \in Own(c) \/ j \in stuck[c]
                                                 \/ tasks'[j].advanced
    BY <1>1, StillOwned DEF Accounted, Early
  <2>1. /\ pc[c] \in Early \/ outcome[c] \in {"not run", "unwritten"} => Untouched(c)
        /\ outcome[c] \in {"running", "failed"} =>
              \A j \in Makes(c) : j \in Own(c) \/ j \in stuck[c] \/ tasks[j].advanced
    BY DEF Accounted, Early
  <2> QED BY <1>9, <1>10, <2>1
<1>12. Named'
    BY <1>1, StillOwned DEF Named, Adopted
<1> QED BY <1>1, <1>4, <1>6, <1>7, <1>8, <1>11, <1>12, StillOwned

LEMMA FirstDraft == Draft(1) \in Texts
<1>1. 1 \in 0 .. MaxEdits + 1
    BY Sizes
<1> QED BY <1>1, EmptyTexts DEF Draft, Texts

LEMMA InitInv == Init => IInv
<1> SUFFICES ASSUME Init PROVE IInv
    OBVIOUS
<1>1. FileTypes
    BY FirstDraft, EmptyTexts DEF Init, FileTypes
<1>2. LocalTypes
    BY EmptyTexts DEF Init, LocalTypes, Points, Outcomes
<1>3. ASSUME NEW c \in Commands
      PROVE  Shape(c) /\ Own(c) = {} /\ Held(c) = 0
  <2>1. pc[c] = "asked" /\ outcome[c] = "not run" /\ created[c] = 0
    BY DEF Init
  <2> QED BY <2>1, NothingHeld DEF Shape
<1>5. Owned /\ InPlace
    BY <1>3 DEF Owned, InPlace
<1>6. \A i \in Ids : ~Exists(i)
    BY DEF Init, Exists
<1>7. Late /\ Accounted
    BY <1>6 DEF Init, Late, Accounted, Untouched, Makes
<1>8. Named
    BY DEF Init, Named, Adopted, Draft, Absent
<1> QED BY <1>1, <1>2, <1>3, <1>5, <1>7, <1>8 DEF IInv

LEMMA Inductive == IInv /\ [Next]_vars => IInv'
<1> SUFFICES ASSUME IInv, [Next]_vars PROVE IInv'
    OBVIOUS
<1> USE DEF IInv
<1>1. ASSUME NEW c \in Commands, Acts(c) PROVE IInv'
  <2>1. FileTypes' /\ LocalTypes' /\ Shape(c)' /\ Others(c)
    BY <1>1, ActsLocal DEF Local
  <2>2. ASSUME NEW d \in Commands \ {c} PROVE Shape(d)'
    <3>1. Wanted(d)' = Wanted(d) /\ Brief(d)' = Brief(d)
      BY <1>1, Frame
    <3>2. /\ pc'[d] = pc[d] /\ outcome'[d] = outcome[d] /\ ids'[d] = ids[d]
          /\ created'[d] = created[d] /\ undo'[d] = undo[d]
      BY <2>1 DEF Others
    <3>3. Numbered(d)' = Numbered(d)
      BY <3>1, <3>2 DEF Numbered
    <3>4. Shape(d)
      OBVIOUS
    <3> QED BY <3>1, <3>2, <3>3, <3>4 DEF Shape
  <2> QED BY <1>1, <2>1, <2>2, OwnedStep, InPlaceStep, LateStep, AccountedStep, NamedStep
<1>2. ASSUME NEW p \in Plans, PlannerWrites(p) PROVE IInv'
  <2>1. /\ plans' = [plans EXCEPT ![p] = Draft(1)] /\ ~Adopted(p)
        /\ UNCHANGED <<tasks, engine, pc, outcome, local>>
    BY <1>2 DEF PlannerWrites, Adopted, Absent
  <2>3. plans' \in [Plans -> Texts]
    BY <2>1, FirstDraft DEF FileTypes
  <2>4. \A q \in Plans : Adopted(q)' => Adopted(q) /\ plans'[q].named = plans[q].named
    BY <2>1 DEF FileTypes, Adopted, Draft
  <2> QED BY <2>1, <2>3, <2>4, PlansStep
<1>3. ASSUME NEW p \in Plans, Edit(p) PROVE IInv'
  <2>1. /\ plans' = [plans EXCEPT ![p].version = @ + 1] /\ plans[p].version <= MaxEdits
        /\ UNCHANGED <<tasks, engine, pc, outcome, local>>
    BY <1>3 DEF Edit
  <2>2. plans[p] \in Texts
    BY DEF FileTypes
  <2>3. plans[p].version + 1 \in 0 .. MaxEdits + 1
    BY <2>1, <2>2, Sizes DEF Texts
  <2>4. plans' \in [Plans -> Texts]
        /\ \A q \in Plans : plans'[q].named = plans[q].named
    BY <2>1, <2>2, <2>3 DEF FileTypes, Texts
  <2> QED BY <2>1, <2>4, PlansStep DEF Adopted
<1>4. ASSUME NEW i \in Ids, EngineCompares(i) PROVE IInv'
  <2>1. /\ UNCHANGED <<tasks, plans, pc, outcome, local>> /\ Exists(i)
        /\ engine' = [id |-> i, file |-> tasks[i]]
    BY <1>4 DEF EngineCompares
  <2>2. plans' \in [Plans -> Texts]
    BY <2>1 DEF FileTypes
  <2>3. \A p \in Plans : Adopted(p)' => Adopted(p) /\ plans'[p].named = plans[p].named
    BY <2>1 DEF Adopted
  <2> QED BY <2>1, <2>2, <2>3, PlansStep
<1>5. CASE EngineDies \/ UNCHANGED vars
  <2>1. /\ UNCHANGED <<tasks, plans, pc, outcome, local>>
        /\ engine' = engine \/ engine' = Idle
    BY <1>5 DEF EngineDies, vars, local, memory
  <2>2. plans' \in [Plans -> Texts]
    BY <2>1 DEF FileTypes
  <2>3. \A p \in Plans : Adopted(p)' => Adopted(p) /\ plans'[p].named = plans[p].named
    BY <2>1 DEF Adopted
  <2> QED BY <2>1, <2>2, <2>3, PlansStep
<1>6. CASE EngineRenames
    BY <1>6, EngineStep
<1> QED BY <1>1, <1>2, <1>3, <1>4, <1>5, <1>6 DEF Next, Acts

\* Every reachable state has its files owned as IInv says.
THEOREM Invariant == Spec => []IInv
<1>1. Init => IInv
    BY InitInv
<1>2. IInv /\ [Next]_vars => IInv'
    BY Inductive
<1> QED BY <1>1, <1>2, PTL DEF Spec

-------------------------------------------------------------------------------
LEMMA NumbersDiffer ==
    ASSUME NEW c \in Commands, Numbered(c), ~Brief(c)
    PROVE  Cardinality(Range(ids[c])) = Proposals
<1>1. PICK g \in Nat : ids[c] = [k \in 1 .. Proposals |-> g + k]
    BY DEF Numbered, Wanted
<1>2. Range(ids[c]) = g + 1 .. g + Proposals
  <2>1. ASSUME NEW j \in g + 1 .. g + Proposals PROVE j \in Range(ids[c])
    <3>1. j - g \in 1 .. Proposals /\ j = g + (j - g)
      BY Sizes
    <3> QED BY <1>1, <3>1 DEF Range
  <2>2. ASSUME NEW j \in Range(ids[c]) PROVE j \in g + 1 .. g + Proposals
    <3>1. PICK k \in 1 .. Proposals : j = g + k
      BY <1>1 DEF Range
    <3> QED BY <3>1, Sizes
  <2> QED BY <2>1, <2>2
<1>3. g + 1 \in Int /\ g + Proposals \in Int
    BY Sizes
<1>4. Cardinality(g + 1 .. g + Proposals)
          = IF g + 1 > g + Proposals THEN 0 ELSE (g + Proposals) - (g + 1) + 1
    BY <1>3, FS_Interval
<1> QED BY <1>2, <1>4, Sizes

LEMMA CommittedHasTasks ==
    ASSUME IInv, NEW c \in Commands, Committed(c), NEW k \in Parts
    PROVE  HasTask(c, k)
<1>1. Wanted(c) = Proposals /\ PartOf(c, k) = k /\ Held(c) = Proposals
    BY DEF Committed, Wanted, PartOf, Held
<1>2. ids[c][k] \in Own(c)
    BY <1>1 DEF Committed, Own, Parts
<1>3. OwnFile(c, ids[c][k])
    BY <1>2 DEF IInv, Owned
<1>4. tasks[ids[c][k]].by = c => tasks[ids[c][k]].part = k
    BY <1>1 DEF IInv, InPlace, Committed, Parts
<1> QED BY <1>3, <1>4 DEF OwnFile, Exists, HasTask, Committed, TakenBack

\* PLAN.md names all its Tasks or none, however many commands run, whatever
\* interleaves, fails or dies.
THEOREM PlansNameTheirTasks == Spec => []NamesItsTasks
<1>1. ASSUME IInv PROVE NamesItsTasks
  <2> SUFFICES ASSUME NEW p \in Plans, Adopted(p)
               PROVE  \E c \in Commands :
                         /\ Committed(c) /\ Plan(c) = p /\ plans[p].named = ids[c]
                         /\ Cardinality(Range(ids[c])) = Proposals
                         /\ \A k \in Parts : HasTask(c, k)
    BY DEF NamesItsTasks
  <2>1. PICK c \in Commands : Committed(c) /\ Plan(c) = p /\ plans[p].named = ids[c]
    BY <1>1 DEF IInv, Named
  <2>2. Cardinality(Range(ids[c])) = Proposals
    BY <1>1, <2>1, NumbersDiffer DEF IInv, Shape, Committed
  <2> QED BY <1>1, <2>1, <2>2, CommittedHasTasks
<1> QED BY <1>1, Invariant, PTL

\* What brief and adopt report of their Tasks is so.
THEOREM ReportsTrue == Spec => []AdoptionsTrue
<1>1. ASSUME IInv PROVE AdoptionsTrue
  <2> SUFFICES ASSUME NEW c \in Commands
               PROVE  /\ outcome[c] = "adopted" => \A k \in Parts : HasTask(c, k)
                      /\ outcome[c] = "briefed" => Exists(ids[c][1])
                      /\ outcome[c] \in {"not run", "unwritten"} => Makes(c) = {}
                      /\ outcome[c] = "failed" =>
                            \A i \in Makes(c) : i \in stuck[c] \/ tasks[i].advanced
    BY DEF AdoptionsTrue
  <2>1. Shape(c)
    BY <1>1 DEF IInv
  <2>2. outcome[c] = "adopted" => Committed(c)
    BY <2>1 DEF Shape, Committed
  <2>3. ASSUME outcome[c] = "briefed" PROVE Exists(ids[c][1])
    <3>1. Held(c) = 1
      BY <2>1, <2>3 DEF Shape, Held, Wanted
    <3>2. ids[c][1] \in Own(c)
      BY <2>1, <2>3, <3>1 DEF Shape, Own
    <3> QED BY <1>1, <3>2 DEF IInv, Owned, OwnFile
  <2>4. outcome[c] \in {"not run", "unwritten"} => Makes(c) = {}
    BY <1>1 DEF IInv, Accounted, Untouched, Makes
  <2>5. ASSUME outcome[c] = "failed" PROVE Own(c) = {}
    BY <2>1, <2>5, NothingHeld DEF Shape, Own
  <2> QED BY <1>1, <2>2, <2>3, <2>4, <2>5, CommittedHasTasks DEF IInv, Accounted
<1> QED BY <1>1, Invariant, PTL

\* No command and no engine takes over or removes the Task of another command.
THEOREM TasksKept == Spec => OnlyItsMaker
<1> DEFINE Kept == \A i \in Ids : Exists(i) /\ tasks'[i] # tasks[i] =>
          \/ /\ tasks'[i] = NoFile
             /\ \E c \in Commands : /\ i \in undo[c] \ undo'[c]
                                    /\ tasks[i].by = c \/ TakenBack(tasks[i].by)
          \/ tasks'[i] = [tasks[i] EXCEPT !.advanced = TRUE]
          \/ tasks'[i] # NoFile /\ tasks'[i].advanced /\ TakenBack(tasks'[i].by)
<1>1. ASSUME IInv, [Next]_vars PROVE [Kept]_vars
  <2> SUFFICES ASSUME NEW i \in Ids, Exists(i), tasks'[i] # tasks[i]
               PROVE  \/ /\ tasks'[i] = NoFile
                         /\ \E c \in Commands :
                                /\ i \in undo[c] \ undo'[c]
                                /\ tasks[i].by = c \/ TakenBack(tasks[i].by)
                      \/ tasks'[i] = [tasks[i] EXCEPT !.advanced = TRUE]
                      \/ tasks'[i] # NoFile /\ tasks'[i].advanced /\ TakenBack(tasks'[i].by)
    OBVIOUS
  <2>1. CASE EngineRenames
    <3>1. /\ engine.id \in Ids /\ engine.file \in TaskFiles
          /\ tasks' = [tasks EXCEPT ![engine.id] = [engine.file EXCEPT !.advanced = TRUE]]
          /\ tasks[engine.id] = engine.file \/ TakenBack(engine.file.by)
      BY <1>1, <2>1 DEF IInv, FileTypes, Late, EngineRenames
    <3>2. [engine.file EXCEPT !.advanced = TRUE] \in TaskFiles
      BY <3>1 DEF TaskFiles
    <3>3. i = engine.id /\ tasks'[i] = [engine.file EXCEPT !.advanced = TRUE]
      BY <1>1, <3>1 DEF IInv, FileTypes
    <3>4. tasks'[i] # NoFile /\ tasks'[i].advanced /\ tasks'[i].by = engine.file.by
      BY <3>1, <3>2, <3>3, FileNotNone DEF TaskFiles
    <3> QED BY <3>1, <3>3, <3>4
  <2>2. CASE \E c \in Commands : Acts(c)
    <3>1. PICK c \in Commands : Acts(c)
      BY <2>2
    <3>2. /\ i \in Own(c) \ Own(c)' /\ tasks'[i] = NoFile /\ OwnFile(c, i)
          /\ pc[c] = "undoing" /\ pc'[c] = "undoing"
      BY <1>1, <3>1, FilesStep DEF IInv
    <3>3. i \in undo[c] \ undo'[c]
      BY <3>2 DEF Own
    <3> QED BY <3>2, <3>3 DEF OwnFile
  <2>3. CASE \/ \E p \in Plans : PlannerWrites(p) \/ Edit(p)
             \/ \E j \in Ids : EngineCompares(j)
             \/ EngineDies \/ UNCHANGED vars
    BY <2>3 DEF PlannerWrites, Edit, EngineCompares, EngineDies, vars
  <2> QED BY <1>1, <2>1, <2>2, <2>3 DEF Next, Acts
<1> QED BY <1>1, Invariant, PTL DEF Spec, OnlyItsMaker
=============================================================================

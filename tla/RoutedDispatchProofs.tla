------------------------- MODULE RoutedDispatchProofs -------------------------
(***************************************************************************)
(* RoutedDispatch for every set of candidates and revisions and every bound.*)
(*                                                                         *)
(* Argument.  What a step does to the ledger depends on where the engine is *)
(* and on what its row says; Engaged ties the two together: from its launch *)
(* on, the engine works on the last row, whose status is the one its place  *)
(* implies unless a reset has superseded it.  Path is then inductive, and   *)
(* a completed row can only belong to an engine that is about to write the  *)
(* Task, or has ended.                                                      *)
(***************************************************************************)
EXTENDS RoutedDispatch, SequenceTheorems, TLAPS

RowType == [revision : Revisions, choice : Candidates, status : Statuses]

EngineType ==
    [at : Places, revision : Revisions, pin : BOOLEAN, step : Nat,
     choice : Candidates \cup {None}, reason : Reasons,
     next : Candidates \cup {None}, deferred : Candidates \cup {None},
     continuation : Candidates \cup {None}, pauses : 0 .. MaxPauses]

\* The status of the engine's row at each place, a reset aside.
Expected(place) ==
    CASE place = "launch" -> {"selected", "dispatched", "superseded"}
      [] place \in {"follow", "record"} -> {"failed", "superseded"}
      [] place = "write" -> {"completed"}
      [] OTHER -> {"dispatched", "superseded"}

\* Rows form one path of distinct candidates, all superseded or none.
Path ==
    /\ \A j, k \in DOMAIN route : route[j].choice = route[k].choice => j = k
    /\ \/ \A k \in DOMAIN route : route[k].status = "superseded"
       \/ /\ route # <<>>
          /\ route[Len(route)].status # "superseded"
          /\ \A k \in 1 .. Len(route) - 1 : route[k].status = "failed"

Engaged ==
    /\ engine.continuation \in {None, engine.choice}
    /\ engine.at \in {"idle", "resolve", "decide"} => engine.continuation = None
    /\ engine.at \notin {"idle", "resolve", "decide"} =>
          /\ route # <<>>
          /\ engine.step = Len(route)
          /\ route[engine.step].choice = engine.choice
          /\ route[engine.step].revision = engine.revision
          /\ route[engine.step].status \in Expected(engine.at)
    /\ engine.next # None => /\ engine.at \in {"fail", "follow", "record"}
                             /\ engine.next \in Unused
    /\ engine.at = "record" => engine.next # None

Answered ==
    ~asks => /\ At("idle")
             /\ route # <<>>
             /\ route[Len(route)].status = "completed"

IInv == TypeOK /\ Path /\ Engaged /\ Answered

-----------------------------------------------------------------------------
(* The ledger's sequence *)

LEMMA RouteType == TypeOK => /\ route \in Seq(RowType)
                             /\ DOMAIN route = 1 .. Len(route)
                             /\ Len(route) \in Nat
                             /\ \A k \in DOMAIN route : route[k] \in RowType
                             /\ engine \in EngineType
<1> SUFFICES ASSUME TypeOK PROVE /\ route \in Seq(RowType)
                                 /\ DOMAIN route = 1 .. Len(route)
                                 /\ Len(route) \in Nat
                                 /\ \A k \in DOMAIN route : route[k] \in RowType
                                 /\ engine \in EngineType
  OBVIOUS
<1>1. route \in Seq(RowType) /\ engine \in EngineType
  BY Zenon DEF TypeOK, RowType, EngineType
<1>2. DOMAIN route = 1 .. Len(route) /\ Len(route) \in Nat
  BY <1>1, LenProperties
<1>3. \A k \in 1 .. Len(route) : route[k] \in RowType
  BY <1>1, ElementOfSeq
<1>4. QED
  BY <1>1, <1>2, <1>3

\* An event changes the status of one row, and nothing else.
LEMMA EventEffect ==
    ASSUME TypeOK, NEW kind \in Kinds, Event(kind)
    PROVE  /\ route' \in Seq(RowType)
           /\ Len(route') = Len(route)
           /\ DOMAIN route' = DOMAIN route
           /\ engine.step \in DOMAIN route
           /\ \A k \in DOMAIN route :
                 /\ route'[k].choice = route[k].choice
                 /\ route'[k].revision = route[k].revision
                 /\ k # engine.step => route'[k] = route[k]
           /\ route'[engine.step].status = statusAfter(kind, route[engine.step].status)
           /\ eventFits(kind, route[engine.step].status)
<1> DEFINE i == engine.step
<1> DEFINE row == [route[i] EXCEPT !.status = statusAfter(kind, @)]
<1>1. i \in DOMAIN route /\ eventFits(kind, route[i].status)
  BY DEF Event, Fits
<1>2. route[i] \in RowType /\ i \in 1 .. Len(route)
  BY <1>1, RouteType
<1>3. statusAfter(kind, route[i].status) \in Statuses
  BY <1>2 DEF statusAfter, Statuses, RowType
<1>4. row \in RowType /\ row.status = statusAfter(kind, route[i].status)
      /\ row.choice = route[i].choice /\ row.revision = route[i].revision
  BY <1>2, <1>3 DEF RowType
<1>5. route' = [route EXCEPT ![i] = row]
  BY DEF Event
<1> HIDE DEF row
<1>6. /\ [route EXCEPT ![i] = row] \in Seq(RowType)
      /\ Len([route EXCEPT ![i] = row]) = Len(route)
      /\ \A k \in 1 .. Len(route) :
            [route EXCEPT ![i] = row][k] = IF k = i THEN row ELSE route[k]
  BY <1>2, <1>4, RouteType, ExceptSeq
<1>7. QED
  BY <1>1, <1>4, <1>5, <1>6, RouteType

\* record appends one selected row.
LEMMA AppendEffect ==
    ASSUME TypeOK, NEW row \in RowType, route' = Append(route, row)
    PROVE  /\ route' \in Seq(RowType)
           /\ route' # <<>>
           /\ Len(route') = Len(route) + 1
           /\ DOMAIN route' = 1 .. Len(route) + 1
           /\ \A k \in DOMAIN route : route'[k] = route[k]
           /\ route'[Len(route) + 1] = row
BY RouteType, AppendProperties

\* The row of an engine that holds one is the last.
LEMMA LastRow ==
    ASSUME TypeOK, Engaged, engine.at \notin {"idle", "resolve", "decide"}
    PROVE  /\ engine.step = Len(route)
           /\ engine.step \in DOMAIN route
           /\ route[engine.step].choice = engine.choice
           /\ route[engine.step].revision = engine.revision
           /\ route[engine.step].status \in Expected(engine.at)
           /\ engine.choice \in Candidates
<1>1. Len(route) \in DOMAIN route
  BY RouteType, EmptySeq DEF Engaged
<1>2. QED
  BY <1>1, RouteType DEF Engaged, RowType

-----------------------------------------------------------------------------
(* What a step needs to preserve the invariant *)

\* The parts of an action that neither routes nor edits touch keep their types.
LEMMA InsideStep ==
    ASSUME IInv, ~At("idle"), Inside, pinned' \in BOOLEAN,
           route' \in Seq(RowType), engine' \in EngineType, Path', Engaged'
    PROVE  IInv'
<1>1. TypeOK'
  BY Zenon DEF IInv, TypeOK, Inside, outside, RowType, EngineType
<1>2. Answered'
  BY Zenon DEF IInv, Answered, Inside
<1>3. QED
  BY <1>1, <1>2 DEF IInv

LEMMA IdleType == ASSUME TypeOK PROVE Idle \in EngineType /\ Idle.at = "idle"
                                      /\ Idle.next = None /\ Idle.continuation = None
<1>1. \E r \in Revisions : TRUE
  BY Zenon DEF TypeOK
<1>2. (CHOOSE r \in Revisions : TRUE) \in Revisions
  BY <1>1, Zenon
<1>3. 0 \in 0 .. MaxPauses
  BY DispatchAssumption
<1>4. QED
  BY <1>2, <1>3 DEF Idle, EngineType, Places, Reasons

LEMMA EndStep ==
    ASSUME IInv, ~At("idle"), NEW how \in Outcomes, End(how), pinned' \in BOOLEAN,
           route' \in Seq(RowType), Path'
    PROVE  IInv'
<1>1. engine' \in EngineType /\ Engaged'
  BY IdleType DEF End, Engaged, IInv
<1>2. TypeOK'
  BY <1>1, Zenon DEF IInv, TypeOK, End, outside, RowType, EngineType
<1>3. Answered'
  BY Zenon DEF IInv, Answered, End
<1>4. QED
  BY <1>1, <1>2, <1>3 DEF IInv

LEMMA StopStep ==
    ASSUME IInv, ~At("idle"), NEW how \in Outcomes, Stop(how), pinned' \in BOOLEAN,
           route' \in Seq(RowType), Path'
    PROVE  IInv'
<1>1. (IF stale THEN "conflict" ELSE how) \in Outcomes
  BY DEF Outcomes
<1>2. QED
  BY <1>1, EndStep DEF Stop

\* A control step: the ledger is as it was.
LEMMA Unchanged ==
    ASSUME IInv, UNCHANGED <<route, pinned>>
    PROVE  /\ route' \in Seq(RowType) /\ pinned' \in BOOLEAN /\ Path'
<1>1. route \in Seq(RowType) /\ pinned \in BOOLEAN /\ Path
  BY RouteType, Zenon DEF IInv, TypeOK
<1>2. QED
  BY <1>1, Zenon DEF Path

\* The engine moves, and its row's status is one the new place expects.
LEMMA MoveStep ==
    ASSUME IInv, engine.at \notin {"idle", "resolve", "decide"}, Inside,
           UNCHANGED <<route, pinned>>,
           engine' \in EngineType, engine'.at \notin {"idle", "resolve", "decide"},
           engine'.step = engine.step, engine'.choice = engine.choice,
           engine'.revision = engine.revision,
           Expected(engine.at) \subseteq Expected(engine'.at),
           engine'.continuation \in {None, engine.choice},
           engine'.next # None => /\ engine'.at \in {"fail", "follow", "record"}
                                  /\ engine'.next \in Unused,
           engine'.at = "record" => engine'.next # None
    PROVE  IInv'
<1>1. Engaged'
  <2>1. Unused' = Unused
    BY DEF Unused, Used
  <2>2. /\ route # <<>> /\ engine.step = Len(route)
        /\ route[engine.step].choice = engine.choice
        /\ route[engine.step].revision = engine.revision
        /\ route[engine.step].status \in Expected(engine.at)
    BY DEF IInv, Engaged
  <2>3. route' = route
    OBVIOUS
  <2>4. QED
    BY <2>1, <2>2, <2>3 DEF Engaged
<1>2. ~At("idle")
  BY DEF At
<1>3. QED
  BY <1>1, <1>2, Unchanged, InsideStep

\* An event of the engine keeps the path, and the row it works on.
LEMMA EventStep ==
    ASSUME IInv, NEW kind \in Kinds, Event(kind),
           engine.at \notin {"idle", "resolve", "decide"}
    PROVE  /\ route' \in Seq(RowType) /\ pinned' \in BOOLEAN /\ Path'
           /\ route' # <<>> /\ engine.step = Len(route')
           /\ route'[engine.step].choice = engine.choice
           /\ route'[engine.step].revision = engine.revision
           /\ route'[engine.step].status
                 = statusAfter(kind, route[engine.step].status)
           /\ eventFits(kind, route[engine.step].status)
           /\ Used' = Used
<1> USE DEF IInv
<1>1. /\ engine.step = Len(route)
      /\ engine.step \in DOMAIN route
      /\ route[engine.step].choice = engine.choice
      /\ route[engine.step].revision = engine.revision
  BY LastRow
<1>2. /\ route' \in Seq(RowType)
      /\ Len(route') = Len(route)
      /\ DOMAIN route' = DOMAIN route
      /\ \A k \in DOMAIN route :
            /\ route'[k].choice = route[k].choice
            /\ route'[k].revision = route[k].revision
            /\ k # engine.step => route'[k] = route[k]
      /\ route'[engine.step].status = statusAfter(kind, route[engine.step].status)
      /\ eventFits(kind, route[engine.step].status)
  BY EventEffect
<1>3. pinned' \in BOOLEAN
  BY Zenon DEF TypeOK, Event
<1>4. DOMAIN route = 1 .. Len(route) /\ Len(route) \in Nat
  BY RouteType
<1>5. route' # <<>>
  BY <1>1, <1>2, <1>4, EmptySeq
<1>6. Path'
  <2>1. \A j, k \in DOMAIN route' : route'[j].choice = route'[k].choice => j = k
    BY <1>2 DEF Path
  <2>2. CASE \A k \in DOMAIN route : route[k].status = "superseded"
    <3>1. route'[engine.step].status = "superseded"
      BY <1>1, <1>2, <2>2 DEF statusAfter, eventFits, Kinds
    <3>2. \A k \in DOMAIN route' : route'[k].status = "superseded"
      BY <1>2, <2>2, <3>1
    <3>3. QED
      BY <2>1, <3>2 DEF Path
  <2>3. CASE /\ route # <<>>
             /\ route[Len(route)].status # "superseded"
             /\ \A k \in 1 .. Len(route) - 1 : route[k].status = "failed"
    <3>1. route'[Len(route')].status # "superseded"
      BY <1>1, <1>2, <2>3 DEF statusAfter, Kinds
    <3>2. \A k \in 1 .. Len(route') - 1 : route'[k].status = "failed"
      BY <1>1, <1>2, <1>4, <2>3
    <3>3. QED
      BY <1>5, <2>1, <3>1, <3>2 DEF Path
  <2>4. QED
    BY <2>2, <2>3 DEF Path
<1>7. Used' = Used
  BY <1>2 DEF Used
<1>8. QED
  BY <1>1, <1>2, <1>3, <1>5, <1>6, <1>7

\* The engine moves with the event it records.
LEMMA EventMove ==
    ASSUME IInv, NEW kind \in Kinds, Event(kind),
           engine.at \notin {"idle", "resolve", "decide"}, Inside,
           NEW place \in Places \ {"idle", "resolve", "decide"}, Go(place),
           eventFits(kind, route[engine.step].status) =>
              statusAfter(kind, route[engine.step].status) \in Expected(place),
           engine.next # None => place \in {"fail", "follow", "record"},
           place = "record" => engine.next # None
    PROVE  IInv'
<1>1. engine \in EngineType
  BY RouteType DEF IInv
<1>2. /\ engine' \in EngineType /\ engine'.at = place
      /\ engine'.step = engine.step /\ engine'.choice = engine.choice
      /\ engine'.revision = engine.revision /\ engine'.next = engine.next
      /\ engine'.continuation = engine.continuation
  BY <1>1 DEF Go, EngineType
<1>3. /\ route' \in Seq(RowType) /\ pinned' \in BOOLEAN /\ Path'
      /\ route' # <<>> /\ engine.step = Len(route')
      /\ route'[engine.step].choice = engine.choice
      /\ route'[engine.step].revision = engine.revision
      /\ route'[engine.step].status \in Expected(place)
      /\ Used' = Used
  BY EventStep
<1>4. Engaged'
  <2>1. Unused' = Unused
    BY <1>3 DEF Unused
  <2>2. engine.continuation \in {None, engine.choice}
        /\ (engine.next # None => engine.next \in Unused)
    BY DEF IInv, Engaged
  <2>3. QED
    BY <1>2, <1>3, <2>1, <2>2 DEF Engaged
<1>5. ~At("idle")
  BY DEF At
<1>6. QED
  BY <1>2, <1>3, <1>4, <1>5, InsideStep

\* The engine ends with the event it records.
LEMMA EventEnd ==
    ASSUME IInv, NEW kind \in Kinds, Event(kind),
           engine.at \notin {"idle", "resolve", "decide"},
           NEW how \in Outcomes, End(how) \/ Stop(how)
    PROVE  IInv'
BY EventStep, EndStep, StopStep DEF At

-----------------------------------------------------------------------------
(* The steps of the engine *)

LEMMA ResolveSteps ==
    ASSUME IInv, LoadPolicy \/ ReuseRow \/ SelectFirst
    PROVE  IInv'
<1> USE DEF IInv
<1>1. engine \in EngineType /\ route \in Seq(RowType)
  BY RouteType
<1>2. CASE LoadPolicy
  <2>1. engine' \in EngineType /\ engine'.at = "decide"
        /\ engine'.continuation = engine.continuation
        /\ engine'.choice = engine.choice /\ engine'.next = engine.next
    BY <1>1, <1>2 DEF LoadPolicy, EngineType, Places, TypeOK
  <2>2. Engaged'
    BY <1>2, <2>1 DEF Engaged, LoadPolicy, At
  <2>3. ~At("idle")
    BY <1>2 DEF LoadPolicy, At
  <2>4. Inside /\ UNCHANGED <<route, pinned>>
    BY <1>2 DEF LoadPolicy
  <2>5. QED
    BY <2>1, <2>2, <2>3, <2>4, Unchanged, InsideStep
<1>3. CASE ReuseRow
  <2> DEFINE last == route[Len(route)]
  <2>1. /\ At("decide") /\ Open /\ Inside /\ UNCHANGED <<route, pinned>>
        /\ Resumable(engine.revision, engine.pin)
        /\ engine' = [engine EXCEPT !.at = "launch", !.step = Len(route),
                                    !.choice = last.choice]
    BY <1>3 DEF ReuseRow
  <2>2. /\ route # <<>> /\ Len(route) \in DOMAIN route /\ Len(route) \in Nat
        /\ last.revision = engine.revision
        /\ last.status = "selected" /\ last \in RowType
    BY <2>1, RouteType, EmptySeq DEF Open, Resumable
  <2>3. /\ engine' \in EngineType /\ engine'.at = "launch"
        /\ engine'.step = Len(route) /\ engine'.choice = last.choice
        /\ engine'.revision = engine.revision
        /\ engine'.continuation = engine.continuation
        /\ engine'.next = engine.next
    BY <1>1, <2>1, <2>2 DEF EngineType, RowType, Places
  <2>4. engine.continuation = None /\ engine.next = None
    BY <2>1 DEF Engaged, At
  <2>5. Engaged'
    BY <2>1, <2>2, <2>3, <2>4 DEF Engaged, Expected
  <2>6. QED
    BY <2>1, <2>3, <2>5, Unchanged, InsideStep DEF At
<1>4. CASE SelectFirst
  <2>1. /\ At("decide") /\ Inside /\ pinned' = engine.pin
    BY <1>4 DEF SelectFirst
  <2>2. PICK choice \in Candidates :
          /\ route' = <<Row(choice)>>
          /\ engine' = [engine EXCEPT !.at = "launch", !.step = 1, !.choice = choice]
    BY <1>4 DEF SelectFirst
  <2>3. Row(choice) \in RowType /\ Row(choice).choice = choice
        /\ Row(choice).revision = engine.revision /\ Row(choice).status = "selected"
    BY <1>1 DEF Row, RowType, EngineType, Statuses
  <2>4. /\ route' \in Seq(RowType) /\ route' # <<>> /\ Len(route') = 1
        /\ DOMAIN route' = 1 .. 1 /\ route'[1] = Row(choice)
    BY <2>2, <2>3
  <2>5. /\ engine' \in EngineType /\ engine'.at = "launch" /\ engine'.step = 1
        /\ engine'.choice = choice /\ engine'.revision = engine.revision
        /\ engine'.continuation = engine.continuation /\ engine'.next = engine.next
    BY <1>1, <2>2 DEF EngineType, Places
  <2>6. engine.continuation = None /\ engine.next = None
    BY <2>1 DEF Engaged, At
  <2>7. Engaged'
    BY <2>3, <2>4, <2>5, <2>6 DEF Engaged, Expected
  <2>8. Path'
    BY <2>3, <2>4 DEF Path
  <2>9. pinned' \in BOOLEAN
    BY <1>1, <2>1, Zenon DEF EngineType
  <2>10. QED
    BY <2>1, <2>4, <2>5, <2>7, <2>8, <2>9, InsideStep DEF At
<1>5. QED
  BY <1>2, <1>3, <1>4

LEMMA ControlSteps ==
    ASSUME IInv,
           \/ WorkerSettles \/ Advance \/ RecordCooldown \/ SelectNext
           \/ WaitForCapacity \/ Judge
    PROVE  IInv'
<1> USE DEF IInv
<1>1. engine \in EngineType
  BY RouteType
<1>2. /\ engine.continuation \in {None, engine.choice}
      /\ engine.next # None => engine.at \in {"fail", "follow", "record"}
  BY DEF Engaged
<1>3. engine.at \notin {"idle", "resolve", "decide"} => engine.choice \in Candidates
  BY LastRow
<1>4. CASE WorkerSettles
  <2>1. /\ engine.at = "running" /\ Inside /\ UNCHANGED <<route, pinned>>
        /\ engine.next = None
    BY <1>2, <1>4 DEF WorkerSettles, At
  <2>2. /\ engine' \in EngineType /\ engine'.at \in {"judge", "report", "advance"}
        /\ engine'.step = engine.step /\ engine'.choice = engine.choice
        /\ engine'.revision = engine.revision /\ engine'.next = engine.next
        /\ engine'.continuation = engine.continuation
    BY <1>1, <1>4 DEF WorkerSettles, Go, EngineType, Places, Reasons
  <2>3. Expected(engine.at) \subseteq Expected(engine'.at)
    BY <2>1, <2>2 DEF Expected
  <2>4. QED
    BY <1>2, <2>1, <2>2, <2>3, MoveStep
<1>5. CASE Advance
  <2>1. /\ engine.at = "advance" /\ Inside /\ UNCHANGED <<route, pinned>>
        /\ engine.next = None
    BY <1>2, <1>5 DEF Advance, At
  <2>2. PICK place \in {"pause", "fail", "policy"} : Go(place)
    BY <1>1, <1>5 DEF Advance
  <2>3. /\ engine' \in EngineType /\ engine'.at \in {"pause", "fail", "policy"}
        /\ engine'.step = engine.step /\ engine'.choice = engine.choice
        /\ engine'.revision = engine.revision /\ engine'.next = engine.next
        /\ engine'.continuation = engine.continuation
    BY <1>1, <2>2 DEF Go, EngineType, Places
  <2>4. Expected(engine.at) \subseteq Expected(engine'.at)
    BY <2>1, <2>3 DEF Expected
  <2>5. QED
    BY <1>2, <2>1, <2>3, <2>4, MoveStep
<1>6. CASE RecordCooldown
  <2>1. /\ engine.at = "cooldown" /\ Inside /\ UNCHANGED <<route, pinned>>
        /\ engine.next = None
    BY <1>2, <1>6 DEF RecordCooldown, At
  <2>2. PICK place \in {"deferred", "policy"} : Go(place)
    BY <1>6 DEF RecordCooldown
  <2>3. /\ engine' \in EngineType /\ engine'.at \in {"deferred", "policy"}
        /\ engine'.step = engine.step /\ engine'.choice = engine.choice
        /\ engine'.revision = engine.revision /\ engine'.next = engine.next
        /\ engine'.continuation = engine.continuation
    BY <1>1, <2>2 DEF Go, EngineType, Places
  <2>4. Expected(engine.at) \subseteq Expected(engine'.at)
    BY <2>1, <2>3 DEF Expected
  <2>5. QED
    BY <1>2, <2>1, <2>3, <2>4, MoveStep
<1>7. CASE SelectNext
  <2>1. engine.at = "policy" /\ Inside /\ UNCHANGED <<route, pinned>>
    BY <1>7 DEF SelectNext, At
  <2>2. PICK next \in Unused \cup {None} :
          engine' = [engine EXCEPT
                        !.next = next,
                        !.at = IF next = None /\ engine.reason = "capacity"
                               THEN "deferred" ELSE "fail"]
    BY <1>7 DEF SelectNext
  <2>3. next \in Candidates \cup {None}
    BY DEF Unused
  <2> DEFINE place == IF next = None /\ engine.reason = "capacity"
                      THEN "deferred" ELSE "fail"
  <2>8. place \in {"deferred", "fail"} /\ (next # None => place = "fail")
    OBVIOUS
  <2>9. engine' = [engine EXCEPT !.next = next, !.at = place]
    BY <2>2
  <2> HIDE DEF place
  <2>4. /\ engine' \in EngineType /\ engine'.at \in {"deferred", "fail"}
        /\ engine'.step = engine.step /\ engine'.choice = engine.choice
        /\ engine'.revision = engine.revision /\ engine'.next = next
        /\ engine'.continuation = engine.continuation
        /\ next # None => engine'.at = "fail"
    BY <1>1, <2>3, <2>8, <2>9 DEF EngineType, Places
  <2>5. Expected(engine.at) \subseteq Expected(engine'.at)
    BY <2>1, <2>4 DEF Expected
  <2>6. engine'.next # None => engine'.next \in Unused
    BY <2>4
  <2>7. QED
    BY <1>2, <2>1, <2>4, <2>5, <2>6, MoveStep
<1>8. CASE WaitForCapacity
  <2>1. /\ engine.at = "deferred" /\ Inside /\ UNCHANGED <<route, pinned>>
        /\ engine.next = None /\ engine.pauses < MaxPauses /\ engine' = Resumed
    BY <1>2, <1>8 DEF WaitForCapacity, At
  <2>2. engine.pauses + 1 \in 0 .. MaxPauses
    BY <1>1, <2>1, DispatchAssumption DEF EngineType
  <2>3. /\ engine' \in EngineType /\ engine'.at = "launch"
        /\ engine'.step = engine.step /\ engine'.choice = engine.choice
        /\ engine'.revision = engine.revision /\ engine'.next = engine.next
        /\ engine'.continuation = engine.choice
    BY <1>1, <1>3, <2>1, <2>2 DEF Resumed, EngineType, Places, Reasons
  <2>4. Expected(engine.at) \subseteq Expected(engine'.at)
    BY <2>1, <2>3 DEF Expected
  <2>5. QED
    BY <1>2, <2>1, <2>3, <2>4, MoveStep
<1>9. CASE Judge
  <2>1. /\ engine.at = "judge" /\ Inside /\ UNCHANGED <<route, pinned>>
        /\ engine.next = None
    BY <1>2, <1>9 DEF Judge, At
  <2>2. /\ engine' \in EngineType /\ engine'.at \in {"reject", "accept", "advance"}
        /\ engine'.step = engine.step /\ engine'.choice = engine.choice
        /\ engine'.revision = engine.revision /\ engine'.next = engine.next
        /\ engine'.continuation = engine.continuation
    BY <1>1, <1>9 DEF Judge, Go, EngineType, Places, Reasons
  <2>3. Expected(engine.at) \subseteq Expected(engine'.at)
    BY <2>1, <2>2 DEF Expected
  <2>4. QED
    BY <1>2, <2>1, <2>2, <2>3, MoveStep
<1>10. QED
  BY <1>4, <1>5, <1>6, <1>7, <1>8, <1>9

LEMMA EventSteps ==
    ASSUME IInv, Launch \/ Pause \/ FailRow \/ Accept
    PROVE  IInv'
<1>1. engine.next # None => engine.at \in {"fail", "follow", "record"}
  BY DEF IInv, Engaged
<1> USE DEF statusAfter, eventFits, Expected, Kinds, Places, At
<1>2. CASE Launch
  <2>1. engine.at = "launch" /\ Event("launch") /\ Go("running") /\ Inside
    BY <1>2 DEF Launch
  <2>2. QED
    BY <1>1, <2>1, EventMove
<1>3. CASE Pause
  <2>1. engine.at = "pause" /\ Event("capacity_pause") /\ Go("cooldown") /\ Inside
    BY <1>3 DEF Pause
  <2>2. QED
    BY <1>1, <2>1, EventMove
<1>4. CASE FailRow
  <2>1. engine.at = "fail" /\ Event("failure") /\ Go("follow") /\ Inside
    BY <1>4 DEF FailRow
  <2>2. QED
    BY <1>1, <2>1, EventMove
<1>5. CASE Accept
  <2>1. engine.at = "accept" /\ Event("completion") /\ Go("write") /\ Inside
    BY <1>5 DEF Accept
  <2>2. QED
    BY <1>1, <2>1, EventMove
<1>6. QED
  BY <1>2, <1>3, <1>4, <1>5

LEMMA FollowStep == ASSUME IInv, FollowRow PROVE IInv'
<1>1. engine.at = "follow"
  BY DEF FollowRow, At
<1>2. CASE engine.next = None
  <2>1. Event("exhausted") /\ Stop("halted")
    BY <1>2 DEF FollowRow
  <2>2. QED
    BY <1>1, <2>1, EventEnd DEF Kinds, Outcomes
<1>3. CASE engine.next # None
  <2>1. Go("record") /\ Inside
    BY <1>3 DEF FollowRow
  <2>2. PICK kind \in {"fallback", "escalation"} : Event(kind)
    BY <1>3 DEF FollowRow
  <2>3. eventFits(kind, route[engine.step].status) =>
           statusAfter(kind, route[engine.step].status) \in Expected("record")
    BY DEF statusAfter, eventFits, Expected
  <2>4. kind \in Kinds /\ "record" \in Places \ {"idle", "resolve", "decide"}
    BY DEF Kinds, Places
  <2>5. QED
    BY <1>1, <1>3, <2>1, <2>2, <2>3, <2>4, EventMove
<1>4. QED
  BY <1>2, <1>3

LEMMA EndSteps ==
    ASSUME IInv,
           \/ ResolveRefuses \/ WorkerErrs \/ FailureReported \/ AdvanceConflict
           \/ PolicyChanged \/ DeferredEnds \/ JudgeConflict \/ RejectResult
           \/ WriteFails \/ WriteRefused
    PROVE  IInv'
<1> USE DEF Outcomes, At
<1>1. CASE \/ ResolveRefuses \/ AdvanceConflict \/ JudgeConflict
  <2>1. /\ ~At("idle") /\ UNCHANGED <<route, pinned>>
        /\ End("refused") \/ End("conflict")
    BY <1>1 DEF ResolveRefuses, AdvanceConflict, JudgeConflict
  <2>2. QED
    BY <2>1, Unchanged, EndStep
<1>2. CASE \/ WorkerErrs \/ PolicyChanged \/ DeferredEnds \/ WriteFails
  <2>1. /\ ~At("idle") /\ UNCHANGED <<route, pinned>>
        /\ \E how \in {"halted", "cancelled", "waiting"} : Stop(how)
    BY <1>2 DEF WorkerErrs, PolicyChanged, DeferredEnds, WriteFails
  <2>2. QED
    BY <2>1, Unchanged, StopStep
<1>3. CASE FailureReported \/ RejectResult
  <2>1. /\ engine.at \in {"report", "reject"} /\ Event("failure")
        /\ End("halted") \/ Stop("halted")
    BY <1>3 DEF FailureReported, RejectResult
  <2>2. QED
    BY <2>1, EventEnd DEF Kinds
<1>4. CASE WriteRefused
  <2>1. /\ ~At("idle") /\ UNCHANGED <<route, pinned>>
        /\ End("halted") \/ Stop("halted")
    BY <1>4 DEF WriteRefused
  <2>2. QED
    BY <2>1, Unchanged, EndStep, StopStep
<1>5. QED
  BY <1>1, <1>2, <1>3, <1>4

\* The row of an unused candidate extends the path.
LEMMA RecordStep == ASSUME IInv, RecordNext PROVE IInv'
<1> USE DEF IInv
<1>1. /\ engine.at = "record" /\ Inside /\ Extends /\ engine' = Relaunch
      /\ route' = Append(route, Row(engine.next)) /\ pinned' = pinned
  BY DEF RecordNext, At
<1>2. engine \in EngineType /\ pinned \in BOOLEAN
  BY RouteType, Zenon DEF TypeOK
<1>3. engine.next \in Unused /\ engine.next \in Candidates
  BY <1>1 DEF Engaged, Unused
<1>4. /\ engine.step = Len(route) /\ engine.step \in DOMAIN route
      /\ route[engine.step].status \in {"failed", "superseded"}
  BY <1>1, LastRow DEF Expected
<1> DEFINE row == Row(engine.next)
<1>5. /\ row \in RowType /\ row.choice = engine.next
      /\ row.revision = engine.revision /\ row.status = "selected"
  BY <1>2, <1>3 DEF Row, RowType, EngineType, Statuses
<1> HIDE DEF row
<1>6. /\ DOMAIN route = 1 .. Len(route) /\ Len(route) \in Nat
  BY RouteType
<1>7. /\ route' \in Seq(RowType) /\ route' # <<>>
      /\ Len(route') = Len(route) + 1
      /\ DOMAIN route' = 1 .. Len(route) + 1
      /\ \A k \in DOMAIN route : route'[k] = route[k]
      /\ route'[Len(route) + 1] = row
  BY <1>1, <1>5, AppendEffect DEF row
<1>8. /\ engine' \in EngineType /\ engine'.at = "launch"
      /\ engine'.step = Len(route) + 1 /\ engine'.choice = engine.next
      /\ engine'.revision = engine.revision /\ engine'.next = None
      /\ engine'.continuation = None
  <2>1. /\ engine.step + 1 \in Nat /\ engine.step + 1 = Len(route) + 1
        /\ "launch" \in Places /\ "none" \in Reasons
    BY <1>4, <1>6 DEF Places, Reasons
  <2>2. engine' = [at |-> "launch", revision |-> engine.revision, pin |-> engine.pin,
                   step |-> engine.step + 1, choice |-> engine.next,
                   reason |-> "none", next |-> None, deferred |-> None,
                   continuation |-> None, pauses |-> engine.pauses]
    BY <1>1, <1>2 DEF Relaunch, EngineType
  <2>3. /\ engine.revision \in Revisions /\ engine.pin \in BOOLEAN
        /\ engine.pauses \in 0 .. MaxPauses
    BY <1>2 DEF EngineType
  <2>4. QED
    BY <1>3, <2>1, <2>2, <2>3 DEF EngineType
<1>9. Engaged'
  BY <1>5, <1>7, <1>8 DEF Engaged, Expected
<1>10. Path'
  <2>1. ASSUME NEW j \in DOMAIN route', NEW k \in DOMAIN route',
               route'[j].choice = route'[k].choice
        PROVE  j = k
    <3>1. \A i \in DOMAIN route : route[i].choice # engine.next
      BY <1>3 DEF Unused, Used
    <3>2. CASE j \in DOMAIN route /\ k \in DOMAIN route
      BY <1>7, <2>1, <3>2 DEF Path
    <3>3. CASE j = Len(route) + 1 /\ k = Len(route) + 1
      BY <3>3
    <3>4. CASE \/ j \in DOMAIN route /\ k = Len(route) + 1
               \/ k \in DOMAIN route /\ j = Len(route) + 1
      BY <1>5, <1>7, <2>1, <3>1, <3>4
    <3>5. QED
      BY <1>6, <1>7, <3>2, <3>3, <3>4
  <2>2. /\ route[Len(route)].status # "superseded"
        /\ \A k \in 1 .. Len(route) - 1 : route[k].status = "failed"
    BY <1>1 DEF Extends, Open, Path
  <2>3. \A k \in 1 .. Len(route') - 1 : route'[k].status = "failed"
    BY <1>4, <1>6, <1>7, <2>2
  <2>4. route'[Len(route')].status # "superseded"
    BY <1>5, <1>7
  <2>5. QED
    BY <1>7, <2>1, <2>3, <2>4 DEF Path
<1>11. QED
  BY <1>1, <1>2, <1>7, <1>8, <1>9, <1>10, InsideStep DEF At

\* The Task is written only while its completed row is on record.
LEMMA WriteStep == ASSUME IInv, WriteTask PROVE IInv'
<1> USE DEF IInv
<1>1. /\ engine.at = "write" /\ asks' = FALSE /\ engine' = Idle
      /\ outcome' = "done" /\ UNCHANGED <<route, pinned, stale>>
      /\ UNCHANGED outside
  BY DEF WriteTask, At
<1>2. /\ route # <<>> /\ engine.step = Len(route)
      /\ route[engine.step].status = "completed"
  BY <1>1 DEF Engaged, Expected
<1>3. engine' \in EngineType /\ engine'.at = "idle" /\ Engaged'
  BY <1>1, IdleType DEF Engaged
<1>4. TypeOK'
  <2>1. asks' \in BOOLEAN /\ outcome' \in Outcomes
    BY <1>1 DEF Outcomes
  <2>2. QED
    BY <1>1, <1>3, <2>1, Zenon DEF TypeOK, outside, EngineType
<1>5. Path' /\ Answered'
  BY <1>1, <1>2, <1>3 DEF Path, Answered, At
<1>6. QED
  BY <1>3, <1>4, <1>5

LEMMA EngineSteps == ASSUME IInv, Step PROVE IInv'
BY ResolveSteps, ControlSteps, EventSteps, FollowStep, EndSteps, RecordStep,
   WriteStep DEF Step

-----------------------------------------------------------------------------
(* The steps of everybody else *)

LEMMA OutsideSteps ==
    ASSUME IInv, Start \/ Crash \/ EditTask \/ EditConfig
    PROVE  IInv'
<1> USE DEF IInv
<1>1. /\ route' = route /\ pinned' = pinned /\ asks' = asks
  BY DEF Start, Crash, EditTask, EditConfig
<1>2. Path'
  BY <1>1 DEF Path
<1>3. CASE Start
  <2>1. /\ asks /\ stale' = FALSE /\ runs < MaxRuns /\ runs' = runs + 1
        /\ outcome' = "none"
        /\ UNCHANGED <<revision, changes, crashes>>
    BY <1>3 DEF Start
  <2>2. PICK pin \in BOOLEAN : engine' = [Idle EXCEPT !.at = "resolve", !.pin = pin]
    BY <1>3 DEF Start
  <2>3. engine' \in EngineType /\ engine'.at = "resolve" /\ engine'.next = None
        /\ engine'.continuation = None
    BY <2>2, IdleType DEF EngineType, Places
  <2>4. Engaged' /\ Answered'
    BY <1>1, <2>1, <2>3 DEF Engaged, Answered
  <2>5. runs' \in 0 .. MaxRuns
    BY <2>1, DispatchAssumption DEF TypeOK
  <2>6. TypeOK'
    BY <1>1, <2>1, <2>3, <2>5, Zenon DEF TypeOK, EngineType, Outcomes
  <2>7. QED
    BY <1>2, <2>4, <2>6
<1>4. CASE Crash
  <2>1. /\ ~At("idle") /\ engine' = Idle /\ outcome' = "crashed"
        /\ crashes < MaxCrashes /\ crashes' = crashes + 1
        /\ UNCHANGED <<stale, revision, runs, changes>>
    BY <1>4 DEF Crash
  <2>2. engine' \in EngineType /\ Engaged' /\ Answered'
    BY <1>1, <2>1, IdleType DEF Engaged, Answered
  <2>3. crashes' \in 0 .. MaxCrashes
    BY <2>1, DispatchAssumption DEF TypeOK
  <2>4. TypeOK'
    BY <1>1, <2>1, <2>2, <2>3, Zenon DEF TypeOK, EngineType, Outcomes
  <2>5. QED
    BY <1>2, <2>2, <2>4
<1>5. CASE EditTask
  <2>1. /\ stale' = TRUE /\ changes < MaxChanges /\ changes' = changes + 1
        /\ UNCHANGED <<revision, engine, outcome, runs, crashes>>
    BY <1>5 DEF EditTask
  <2>2. Engaged' /\ Answered'
    BY <1>1, <2>1 DEF Engaged, Answered, At, Unused, Used
  <2>3. changes' \in 0 .. MaxChanges
    BY <2>1, DispatchAssumption DEF TypeOK
  <2>4. TypeOK'
    BY <1>1, <2>1, <2>3, Zenon DEF TypeOK
  <2>5. QED
    BY <1>2, <2>2, <2>4
<1>6. CASE EditConfig
  <2>1. /\ revision' \in Revisions /\ changes < MaxChanges /\ changes' = changes + 1
        /\ UNCHANGED <<stale, engine, outcome, runs, crashes>>
    BY <1>6 DEF EditConfig
  <2>2. Engaged' /\ Answered'
    BY <1>1, <2>1 DEF Engaged, Answered, At, Unused, Used
  <2>3. changes' \in 0 .. MaxChanges
    BY <2>1, DispatchAssumption DEF TypeOK
  <2>4. TypeOK'
    BY <1>1, <2>1, <2>3, Zenon DEF TypeOK
  <2>5. QED
    BY <1>2, <2>2, <2>4
<1>7. QED
  BY <1>3, <1>4, <1>5, <1>6

\* A reset supersedes the row of a running engine, never a completed one.
LEMMA ResetStep == ASSUME IInv, ResetRoute PROVE IInv'
<1> USE DEF IInv
<1>1. /\ Resettable
      /\ route' = [k \in DOMAIN route |-> [route[k] EXCEPT !.status = "superseded"]]
      /\ UNCHANGED <<pinned, asks, stale, revision, engine, outcome, runs, changes,
                     crashes>>
  BY DEF ResetRoute
<1>2. /\ DOMAIN route = 1 .. Len(route) /\ Len(route) \in Nat
      /\ \A k \in DOMAIN route : route[k] \in RowType
  BY RouteType
<1>3. \A k \in DOMAIN route : /\ [route[k] EXCEPT !.status = "superseded"] \in RowType
                              /\ route'[k].choice = route[k].choice
                              /\ route'[k].revision = route[k].revision
                              /\ route'[k].status = "superseded"
  BY <1>1, <1>2 DEF RowType, Statuses
<1>4. DOMAIN route' = DOMAIN route /\ route' \in [1 .. Len(route) -> RowType]
  BY <1>1, <1>2, <1>3
<1>5. route' \in Seq(RowType)
  BY <1>2, <1>4, SeqDef
<1>6. Len(route') = Len(route) /\ (route # <<>> => route' # <<>>)
  BY <1>2, <1>4, <1>5, LenProperties, RouteType, EmptySeq
<1>7. TypeOK'
  BY <1>1, <1>5, Zenon DEF TypeOK, RowType
<1>8. Path'
  <2>1. ASSUME NEW j \in DOMAIN route', NEW k \in DOMAIN route',
               route'[j].choice = route'[k].choice
        PROVE  j = k
    <3>1. j \in DOMAIN route /\ k \in DOMAIN route
      BY <1>4
    <3>2. route[j].choice = route[k].choice
      BY <1>3, <2>1, <3>1
    <3>3. QED
      BY <3>1, <3>2 DEF Path
  <2>2. \A k \in DOMAIN route' : route'[k].status = "superseded"
    BY <1>3, <1>4
  <2>3. QED
    BY <2>1, <2>2 DEF Path
<1>9. Engaged'
  <2>1. Unused' = Unused
    BY <1>3, <1>4 DEF Unused, Used
  <2>2. engine.at \notin {"idle", "resolve", "decide"} =>
           /\ engine.step \in DOMAIN route
           /\ route[engine.step].status # "completed"
    BY <1>1, LastRow DEF Resettable
  <2>3. engine.at \notin {"idle", "resolve", "decide"} =>
           route'[engine.step].status \in Expected(engine.at)
    BY <1>3, <2>2 DEF Expected, Engaged
  <2>4. QED
    BY <1>1, <1>3, <1>6, <2>1, <2>2, <2>3 DEF Engaged
<1>10. Answered'
  <2>1. asks
    BY <1>1, <1>2, RouteType, EmptySeq DEF Resettable, Answered
  <2>2. QED
    BY <1>1, <2>1 DEF Answered
<1>11. QED
  BY <1>7, <1>8, <1>9, <1>10

-----------------------------------------------------------------------------
(* The theorems *)

LEMMA InitInv == Init => IInv
<1> SUFFICES ASSUME Init PROVE IInv
  OBVIOUS
<1>1. engine \in EngineType
  <2>1. (CHOOSE r \in Revisions : TRUE) \in Revisions
    BY Zenon DEF Init
  <2>2. 0 \in 0 .. MaxPauses
    BY DispatchAssumption
  <2>3. QED
    BY <2>1, <2>2 DEF Init, Idle, EngineType, Places, Reasons
<1>2. route = <<>> /\ route \in Seq(RowType) /\ DOMAIN route = {}
  BY DEF Init
<1>3. /\ runs \in 0 .. MaxRuns /\ changes \in 0 .. MaxChanges
      /\ crashes \in 0 .. MaxCrashes /\ outcome \in Outcomes
  BY DispatchAssumption DEF Init, Outcomes
<1>4. TypeOK
  BY <1>1, <1>2, <1>3, Zenon DEF TypeOK, Init, RowType, EngineType
<1>5. Path /\ Engaged /\ Answered
  BY <1>2 DEF Path, Engaged, Answered, Init, Idle
<1>6. QED
  BY <1>4, <1>5 DEF IInv

LEMMA NextInv == IInv /\ [Next]_vars => IInv'
<1> SUFFICES ASSUME IInv, [Next]_vars PROVE IInv'
  OBVIOUS
<1>1. CASE Next
  BY <1>1, EngineSteps, OutsideSteps, ResetStep DEF Next
<1>2. CASE UNCHANGED vars
  BY <1>2 DEF vars, IInv, TypeOK, Path, Engaged, Answered, Unused, Used, At
<1>3. QED
  BY <1>1, <1>2

LEMMA Invariance == Spec => []IInv
BY InitInv, NextInv, PTL DEF Spec

\* Every variable keeps its type.
THEOREM TypeCorrect == Spec => []TypeOK
<1>1. IInv => TypeOK
  BY DEF IInv
<1>2. QED
  BY <1>1, Invariance, PTL

\* Whenever a Worker runs, the last row of the ledger names its candidate and
\* was dispatched: a person can always find out who was sent (execute records
\* the launch before it calls the Worker).
THEOREM LaunchesRecorded == Spec => []RecordedBeforeLaunch
<1>1. IInv => RecordedBeforeLaunch
  BY DEF IInv, Engaged, Expected, RecordedBeforeLaunch, At
<1>2. QED
  BY <1>1, Invariance, PTL

\* A continuation never reaches another candidate than the one it belongs to.
THEOREM ContinuationsSafe == Spec => []ContinuationSafe
<1>1. IInv => ContinuationSafe
  BY DEF IInv, Engaged, ContinuationSafe
<1>2. QED
  BY <1>1, Invariance, PTL

\* The Task never shows an answer that the ledger does not: accept comes before
\* writeTask, and a reset spares completed rows.
THEOREM AnswersRecorded == Spec => []AnswerHasRecord
<1>1. IInv => AnswerHasRecord
  BY DEF IInv, Answered, AnswerHasRecord
<1>2. QED
  BY <1>1, Invariance, PTL

\* Crashes, edits, resets and refused writes leave a route one path through
\* distinct candidates, each after one that failed.
THEOREM RoutesArePaths == Spec => []OnePath
<1>1. IInv => OnePath
  BY DEF IInv, Path, OnePath, Open
<1>2. QED
  BY <1>1, Invariance, PTL

-----------------------------------------------------------------------------
(* What steps do to the ledger *)

Record(choice) == choice \in Candidates /\ route' = Append(route, Row(choice))

\* Whatever happens, the ledger changes by a first row, by the next row of an
\* open path, by an event of the last row, or by a reset.
LEMMA LedgerStep ==
    ASSUME IInv, Next
    PROVE  \/ route' = route
           \/ ~Open /\ \E choice \in Candidates : route' = <<Row(choice)>>
           \/ /\ Extends
              /\ route[Len(route)].status = "failed"
              /\ \E choice \in Candidates : Record(choice)
           \/ \E kind \in Kinds : Event(kind) /\ engine.step = Len(route)
           \/ Resettable /\ ResetRoute
<1> USE DEF IInv
<1>1. CASE ResetRoute
  BY <1>1 DEF ResetRoute
<1>2. CASE Start \/ Crash \/ EditTask \/ EditConfig
  BY <1>2 DEF Start, Crash, EditTask, EditConfig
<1>3. CASE LoadPolicy \/ ResolveRefuses \/ ReuseRow
  BY <1>3 DEF LoadPolicy, ResolveRefuses, ReuseRow
<1>4. CASE SelectFirst
  BY <1>4 DEF SelectFirst
<1>5. CASE \/ WorkerSettles \/ WorkerErrs \/ AdvanceConflict \/ Advance
           \/ RecordCooldown \/ PolicyChanged \/ SelectNext
  BY <1>5 DEF WorkerSettles, WorkerErrs, AdvanceConflict, Advance, RecordCooldown,
              PolicyChanged, SelectNext
<1>6. CASE \/ DeferredEnds \/ WaitForCapacity \/ JudgeConflict \/ Judge
           \/ WriteTask \/ WriteFails \/ WriteRefused
  BY <1>6 DEF DeferredEnds, WaitForCapacity, JudgeConflict, Judge, WriteTask,
              WriteFails, WriteRefused
<1>7. CASE \/ Launch \/ FailureReported \/ Pause \/ FailRow \/ FollowRow
           \/ RejectResult \/ Accept
  <2>1. /\ engine.at \notin {"idle", "resolve", "decide"}
        /\ \E kind \in Kinds : Event(kind)
    BY <1>7 DEF Launch, FailureReported, Pause, FailRow, FollowRow, RejectResult,
                Accept, Kinds, At
  <2>2. QED
    BY <2>1, LastRow
<1>8. CASE RecordNext
  <2>1. /\ engine.at = "record" /\ Extends
        /\ route' = Append(route, Row(engine.next))
    BY <1>8 DEF RecordNext, At
  <2>2. engine.next \in Candidates
    BY <2>1 DEF Engaged, Unused
  <2>3. route[Len(route)].status = "failed"
    <3>1. /\ engine.step = Len(route)
          /\ route[engine.step].status \in {"failed", "superseded"}
      BY <2>1, LastRow DEF Expected
    <3>2. route[Len(route)].status # "superseded"
      BY <2>1 DEF Extends, Open, Path
    <3>3. QED
      BY <3>1, <3>2
  <2>4. QED
    BY <2>1, <2>2, <2>3 DEF Record
<1>9. QED
  BY <1>1, <1>2, <1>3, <1>4, <1>5, <1>6, <1>7, <1>8 DEF Next, Step

\* A completed row is the last thing recorded for its action: whatever crashes,
\* reruns or resets follow, record, appendEvent and resetAction refuse.
THEOREM CompletedStays == Spec => FinishedStays
<1>1. IInv /\ [Next]_vars =>
         [route # <<>> /\ route[Len(route)].status = "completed"
             => route' = route]_vars
  <2> SUFFICES ASSUME IInv, Next, route # <<>>,
                      route[Len(route)].status = "completed"
               PROVE  route' = route
    OBVIOUS
  <2>1. Len(route) \in DOMAIN route
    BY RouteType, EmptySeq DEF IInv
  <2>2. Open
    BY <2>1 DEF Open
  <2>3. ~Resettable
    BY <2>1 DEF Resettable
  <2>4. ASSUME NEW kind \in Kinds, Event(kind), engine.step = Len(route)
        PROVE  FALSE
    BY <2>4 DEF Event, Fits, eventFits
  <2>5. QED
    BY <2>2, <2>3, <2>4, LedgerStep
<1>2. QED
  BY <1>1, Invariance, PTL DEF Spec, FinishedStays

-----------------------------------------------------------------------------
(* The ledger implements the abstract routes *)

Mapped == [a \in {"action"} |-> route]

\* One status of the ledger moves forward.
Moved ==
    \E k \in DOMAIN route, status \in {"dispatched", "failed", "completed"} :
        /\ <<route[k].status, status>> \in Routes!Moves
        /\ route' = [route EXCEPT ![k].status = status]

\* An event moves the status of one step forward, or changes nothing.
LEMMA EventAdvances ==
    ASSUME IInv, NEW kind \in Kinds, Event(kind)
    PROVE  route' = route \/ Moved
<1>1. /\ engine.step \in DOMAIN route /\ eventFits(kind, route[engine.step].status)
      /\ route' = [route EXCEPT ![engine.step].status = statusAfter(kind, @)]
  BY DEF Event, Fits
<1>2. PICK i \in DOMAIN route, after \in {statusAfter(kind, route[engine.step].status)} :
         i = engine.step
  BY <1>1
<1>3. route[i] \in RowType /\ route \in Seq(RowType)
  BY RouteType DEF IInv
<1>4. route' = [route EXCEPT ![i].status = after]
  BY <1>1, <1>2
<1>5. CASE after = route[i].status
  <2>1. [route[i] EXCEPT !.status = after] = route[i]
    BY <1>3, <1>5 DEF RowType
  <2>2. route' = [route EXCEPT ![i] = route[i]]
    BY <1>4, <2>1
  <2>3. QED
    BY <1>3, <2>2
<1>6. CASE after # route[i].status
  <2>1. <<route[i].status, after>> \in Routes!Moves
    BY <1>1, <1>2, <1>6 DEF Kinds, eventFits, statusAfter, Routes!Moves
  <2>2. after \in {"dispatched", "failed", "completed"}
    BY <1>2, <1>6 DEF statusAfter, Kinds
  <2>3. Moved
    BY <1>4, <2>1, <2>2, Zenon DEF Moved
  <2>4. QED
    BY <2>3
<1>7. QED
  BY <1>5, <1>6

\* A step of the command, of an operator or a crash is a step of the action's
\* route, or leaves it alone.
LEMMA StepImplements ==
    ASSUME IInv, Next
    PROVE  Routes!Next \/ UNCHANGED Mapped
<1>1. Mapped' = [a \in {"action"} |-> route']
  BY DEF Mapped
<1>2. Mapped["action"] = route
  BY DEF Mapped
<1>3. route \in Seq(RowType) /\ DOMAIN route = 1 .. Len(route) /\ Len(route) \in Nat
      /\ engine \in EngineType
  BY RouteType DEF IInv
<1>4. \A choice : Row(choice) = Routes!Fresh(engine.revision, choice)
  BY DEF Row, Routes!Fresh
<1>5. engine.revision \in Revisions
  BY <1>3 DEF EngineType
<1>6. ASSUME NEW steps, route' = steps
      PROVE  Mapped' = [Mapped EXCEPT !["action"] = steps]
  BY <1>1, <1>6 DEF Mapped
<1>7. CASE route' = route
  BY <1>1, <1>7 DEF Mapped
<1>8. CASE ~Open /\ \E choice \in Candidates : route' = <<Row(choice)>>
  <2>1. Routes!Ended(route)
    BY <1>3, <1>8 DEF Routes!Ended, Open
  <2>2. PICK choice \in Candidates : route' = <<Row(choice)>>
    BY <1>8
  <2>3. Mapped' = [Mapped EXCEPT !["action"]
                      = <<Routes!Fresh(engine.revision, choice)>>]
    BY <1>4, <1>6, <2>2
  <2>4. Routes!Begin("action")
    BY <1>2, <1>5, <2>1, <2>3 DEF Routes!Begin, Mapped
  <2>5. QED
    BY <2>4 DEF Routes!Next
<1>9. CASE Extends /\ \E choice \in Candidates : Record(choice)
  <2>1. ~Routes!Ended(route)
    BY <1>9 DEF Routes!Ended, Extends, Open
  <2>2. PICK choice \in Candidates : route' = Append(route, Row(choice))
    BY <1>9 DEF Record
  <2>3. route[1].revision = engine.revision
    BY <1>3, <1>9, EmptySeq DEF Extends, Open
  <2>4. Mapped' = [Mapped EXCEPT !["action"]
                      = Append(@, Routes!Fresh(@[1].revision, choice))]
    BY <1>2, <1>4, <1>6, <2>2, <2>3
  <2>5. Routes!Extend("action")
    BY <1>2, <2>1, <2>4 DEF Routes!Extend, Mapped
  <2>6. QED
    BY <2>5 DEF Routes!Next
<1>10. CASE route' # route /\ \E kind \in Kinds : Event(kind)
  <2>1. PICK k \in DOMAIN route, status \in {"dispatched", "failed", "completed"} :
           /\ <<route[k].status, status>> \in Routes!Moves
           /\ route' = [route EXCEPT ![k].status = status]
    BY <1>10, EventAdvances DEF Moved
  <2>2. Mapped' = [Mapped EXCEPT !["action"][k].status = status]
    BY <1>2, <1>6, <2>1
  <2>3. Routes!Advance("action")
    BY <1>2, <2>1, <2>2 DEF Routes!Advance, Mapped
  <2>4. QED
    BY <2>3 DEF Routes!Next
<1>11. CASE Resettable /\ ResetRoute
  <2>1. route' = [k \in DOMAIN route |-> [route[k] EXCEPT !.status = "superseded"]]
    BY <1>11 DEF ResetRoute
  <2>2. Mapped' = [Mapped EXCEPT !["action"] =
                      [k \in DOMAIN @ |-> [@[k] EXCEPT !.status = "superseded"]]]
    BY <1>2, <1>6, <2>1
  <2>3. Routes!Reset("action")
    BY <1>2, <1>11, <2>2 DEF Routes!Reset, Resettable, Mapped
  <2>4. QED
    BY <2>3 DEF Routes!Next
<1>12. QED
  BY <1>7, <1>8, <1>9, <1>10, <1>11, LedgerStep

\* What the dispatch does to the ledger is what routing promises of one route:
\* its statuses only move forward, it grows under one policy revision, and only
\* a reset that no finished row forbids lets another route begin.
THEOREM Implementation == Spec => ImplementsRoutes
<1>1. Init => Routes!Init
  BY DEF Init, Routes!Init
<1>2. IInv /\ [Next]_vars => [Routes!Next]_Mapped
  <2>1. ASSUME IInv, Next PROVE Routes!Next \/ UNCHANGED Mapped
    BY <2>1, StepImplements
  <2>2. ASSUME UNCHANGED vars PROVE UNCHANGED Mapped
    BY <2>2 DEF vars, Mapped
  <2>3. QED
    BY <2>1, <2>2
<1>3. QED
  BY <1>1, <1>2, Invariance, PTL DEF Spec, ImplementsRoutes, Routes!Spec, Mapped
=============================================================================

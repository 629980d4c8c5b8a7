------------------------- MODULE DecisionLedgerProofs -------------------------
(***************************************************************************)
(* The routing decision ledger for any actions, providers, window, number  *)
(* of rows and clock.                                                      *)
(*                                                                         *)
(* Argument.  The invariant is that the file is valid (Valid): every write *)
(* is validated as a whole, so it is kept by construction.  What is to be  *)
(* proved about a valid file is that a writer's own guards already imply   *)
(* that validation (RecordCommits, EventCommits, ResetCommits), and that   *)
(* what it writes is one step of the abstract routes (RecordExtends,       *)
(* EventAdvances, ResetEnds).  The first rests on SameReplay: what a row   *)
(* counts depends on the rows before it and on the generations that were   *)
(* closed for it to see, and no write changes those.  The second rests on  *)
(* Ladder and StepRows: the rows of the current generation hold the steps  *)
(* 0 to n - 1, each once, in the order of the file.                        *)
(***************************************************************************)
EXTENDS DecisionLedger, SequenceTheorems, FiniteSetTheorems, WellFoundedInduction,
        TLAPS

-------------------------------------------------------------------------------
(* Least and greatest numbers *)

LEMMA MinExists ==
    ASSUME NEW T, T \subseteq Nat, T # {}
    PROVE  \E i \in T : \A j \in T : i <= j
<1> DEFINE R == OpToRel(<, Nat)
<1>1. PICK x \in T : \A y \in T : ~ (<<y, x>> \in R)
  <2>1. IsWellFoundedOn(R, Nat)
    BY NatLessThanWellFounded, Zenon
  <2> HIDE DEF R
  <2> QED BY <2>1, WFMin
<1>2. \A j \in T : x <= j
  <2> TAKE j \in T
  <2>1. x \in Nat /\ j \in Nat
    OBVIOUS
  <2>2. ~(j < x)
    BY <1>1, <2>1 DEF R, OpToRel
  <2> QED BY <2>1, <2>2
<1> QED BY <1>2

LEMMA MaxExists ==
    ASSUME NEW n \in Nat, NEW T, T \subseteq 0 .. n, T # {}
    PROVE  \E i \in T : \A j \in T : j <= i
<1> DEFINE U == {n - i : i \in T}
<1>1. U \subseteq Nat /\ U # {}
  OBVIOUS
<1>2. PICK u \in U : \A v \in U : u <= v
  <2> HIDE DEF U
  <2> QED BY <1>1, MinExists
<1>3. PICK i \in T : u = n - i
  OBVIOUS
<1>4. \A j \in T : j <= i
  <2> TAKE j \in T
  <2>1. n - i <= n - j
    BY <1>2, <1>3
  <2>2. i \in Nat /\ j \in Nat
    OBVIOUS
  <2> QED BY <2>1, <2>2
<1> QED BY <1>4

-------------------------------------------------------------------------------
(* Generations *)

\* The rows of an action from a position on.
From(rs, s) == {i \in s .. Len(rs) : rs[i].action = rs[s].action}

\* The last row that starts a generation of the action.
LastStart(rs, a, s) ==
    /\ s \in 1 .. Len(rs) /\ rs[s].action = a /\ rs[s].step = 0
    /\ \A t \in 1 .. Len(rs) : rs[t].action = a /\ rs[t].step = 0 => t <= s

LEMMA RowsAre ==
    ASSUME NEW rs \in Seq(Row)
    PROVE  /\ Len(rs) \in Nat /\ DOMAIN rs = 1 .. Len(rs)
           /\ \A i \in 1 .. Len(rs) :
                 /\ rs[i] \in Row /\ rs[i].step \in Nat
                 /\ rs[i].recorded_at \in Int /\ rs[i].observed_at \in Int
<1>1. Len(rs) \in Nat /\ DOMAIN rs = 1 .. Len(rs)
  BY LenProperties
<1>2. \A i \in 1 .. Len(rs) : rs[i] \in Row
  BY ElementOfSeq
<1> QED BY <1>1, <1>2 DEF Row

\* The current generation is what the last start begins.
LEMMA CurrentFrom ==
    ASSUME NEW rs \in Seq(Row), NEW a, NEW s, LastStart(rs, a, s)
    PROVE  currentGenerationRows(rs, a) = {i \in s .. Len(rs) : rs[i].action = a}
<1>1. Len(rs) \in Nat /\ s \in 1 .. Len(rs)
  BY RowsAre DEF LastStart
<1>2. Starts(rs, Len(rs)) = {t \in 1 .. Len(rs) : rs[t].step = 0}
  BY DEF Starts
<1>3. {t \in Starts(rs, Len(rs)) :
         /\ rs[t].action = a
         /\ \A u \in Starts(rs, Len(rs)) : rs[u].action = a => u <= t} = {s}
  BY <1>1, <1>2 DEF LastStart
<1>4. Generation(rs, s, Len(rs)) = {i \in s .. Len(rs) : rs[i].action = a}
  BY <1>1, <1>2 DEF Generation, LastStart
<1>5. currentGenerationRows(rs, a) = UNION {Generation(rs, t, Len(rs)) : t \in {s}}
  BY <1>3 DEF currentGenerationRows
<1> QED BY <1>4, <1>5

\* In a valid file the first row of an action starts a generation.
LEMMA HasStart ==
    ASSUME NEW rs \in Seq(Row), \A i \in DOMAIN rs : Sequenced(rs, i),
           NEW a, NEW i \in 1 .. Len(rs), rs[i].action = a
    PROVE  \E s : LastStart(rs, a, s)
<1> DEFINE Mine == {j \in 1 .. Len(rs) : rs[j].action = a}
           Begun == {j \in 1 .. Len(rs) : rs[j].action = a /\ rs[j].step = 0}
<1>1. Len(rs) \in Nat /\ DOMAIN rs = 1 .. Len(rs)
  BY RowsAre
<1>2. PICK f \in Mine : \A j \in Mine : f <= j
  <2>1. Mine \subseteq Nat /\ Mine # {}
    BY <1>1
  <2> HIDE DEF Mine
  <2> QED BY <2>1, MinExists
<1>3. rs[f].step = 0
  <2> SUFFICES ASSUME rs[f].step # 0 PROVE FALSE
    OBVIOUS
  <2>1. PICK j \in {j \in 1 .. f - 1 : rs[j].action = rs[f].action} : TRUE
    BY <1>1, <1>2 DEF Sequenced
  <2>2. j \in Mine /\ j < f
    BY <1>1, <1>2, <2>1
  <2> QED BY <1>1, <1>2, <2>2
<1>4. f \in Begun
  BY <1>2, <1>3
<1>5. PICK s \in Begun : \A t \in Begun : t <= s
  <2>1. Begun \subseteq 0 .. Len(rs) /\ Begun # {}
    BY <1>1, <1>4
  <2> HIDE DEF Begun
  <2> QED BY <1>1, <2>1, MaxExists
<1> QED BY <1>5 DEF LastStart

LEMMA NoRows ==
    ASSUME NEW rs \in Seq(Row), NEW a, \A i \in 1 .. Len(rs) : rs[i].action # a
    PROVE  currentGenerationRows(rs, a) = {}
BY DEF currentGenerationRows, Starts

-------------------------------------------------------------------------------
(* Two files that agree on a prefix *)

Like(r1, r2, n) ==
    \A j \in 1 .. n : /\ r1[j].action = r2[j].action
                      /\ r1[j].step = r2[j].step
                      /\ r1[j].provider = r2[j].provider

\* The rows that row i does not count, as the replay sees the file at row i.
Hidden(rs, i) ==
    UNION {Generation(rs, s, i) :
             s \in {s \in Starts(rs, i) : Closed(rs, s, i) /\ closureIsVisible(rs, s, i, i)}}

LEMMA SameGenerations ==
    ASSUME NEW r1, NEW r2, NEW n \in Nat, Like(r1, r2, n)
    PROVE  /\ Starts(r1, n) = Starts(r2, n)
           /\ \A s \in 1 .. n : Generation(r1, s, n) = Generation(r2, s, n)
<1>1. Starts(r1, n) = Starts(r2, n)
  BY DEF Like, Starts
<1>2. ASSUME NEW s \in 1 .. n
      PROVE  Generation(r1, s, n) = Generation(r2, s, n)
  <2>1. \A t \in Starts(r1, n) : t \in 1 .. n
    BY DEF Starts
  <2>2. \A i \in s .. n : i \in 1 .. n
    OBVIOUS
  <2> QED BY <1>1, <2>1, <2>2 DEF Like, Generation
<1> QED BY <1>1, <1>2

LEMMA SameCounts ==
    ASSUME NEW r1, NEW r2, NEW history, \A i \in history : r1[i].provider = r2[i].provider
    PROVE  Counted(r1, history) = Counted(r2, history)
<1>1. windowRows(history) \subseteq history
  BY DEF windowRows
<1>2. \A p \in Providers : {i \in windowRows(history) : r1[i].provider = p}
                             = {i \in windowRows(history) : r2[i].provider = p}
  BY <1>1
<1> QED BY <1>2 DEF Counted

LEMMA HistoryIs ==
    ASSUME NEW rs \in Seq(Row), NEW i \in 1 .. Len(rs)
    PROVE  distributionHistoryDecisions(rs, i) = (1 .. i - 1) \ Hidden(rs, i)
<1>1. Len(rs) \in Nat /\ i <= Len(rs)
  BY RowsAre
<1> QED BY <1>1 DEF distributionHistoryDecisions, Hidden

\* What a row counts depends on the rows before it, and on the generations that
\* were closed for it to see.
LEMMA SameReplay ==
    ASSUME NEW r1 \in Seq(Row), NEW r2 \in Seq(Row),
           NEW i \in 1 .. Len(r1), i <= Len(r2), Like(r1, r2, i),
           r1[i].counts = r2[i].counts,
           \A s \in Starts(r1, i) :
              (Closed(r1, s, i) /\ closureIsVisible(r1, s, i, i))
                <=> (Closed(r2, s, i) /\ closureIsVisible(r2, s, i, i)),
           Replayed(r1, i)
    PROVE  Replayed(r2, i)
<1>1. i \in Nat /\ i \in 1 .. Len(r2)
  BY RowsAre
<1>2. Starts(r1, i) = Starts(r2, i)
      /\ \A s \in 1 .. i : Generation(r1, s, i) = Generation(r2, s, i)
  BY <1>1, SameGenerations
<1>3. \A s \in Starts(r1, i) : s \in 1 .. i
  BY DEF Starts
<1>4. Hidden(r1, i) = Hidden(r2, i)
  BY <1>2, <1>3 DEF Hidden
<1>5. distributionHistoryDecisions(r1, i) = distributionHistoryDecisions(r2, i)
  BY <1>1, <1>4, HistoryIs
<1>6. \A j \in distributionHistoryDecisions(r1, i) : r1[j].provider = r2[j].provider
  BY <1>1, HistoryIs DEF Like
<1>7. Counted(r1, distributionHistoryDecisions(r1, i))
        = Counted(r2, distributionHistoryDecisions(r2, i))
  BY <1>5, <1>6, SameCounts
<1> QED BY <1>7 DEF Replayed

-------------------------------------------------------------------------------
(* What each writer leaves is a valid file *)

\* What each row is after an event.
LEMMA EventChanges ==
    ASSUME NEW rs \in Seq(Row), NEW e \in 1 .. Len(rs), NEW kind, NEW t \in Int,
           EventAllowed(rs, e, kind, t)
    PROVE  LET r2 == EventAppended(rs, e, kind, t)
           IN  /\ r2 \in Seq(Row) /\ Len(r2) = Len(rs)
               /\ \A j \in 1 .. Len(rs) :
                     /\ r2[j].action = rs[j].action /\ r2[j].step = rs[j].step
                     /\ r2[j].provider = rs[j].provider
                     /\ r2[j].revision = rs[j].revision
                     /\ r2[j].counts = rs[j].counts
                     /\ r2[j].recorded_at = rs[j].recorded_at
                     /\ r2[j].observed_at >= rs[j].observed_at
                     /\ Superseded(r2, j) <=> Superseded(rs, j)
                     /\ j # e => r2[j] = rs[j]
               /\ r2[e].status = statusAfter(kind, rs[e].status)
<1> DEFINE r2 == EventAppended(rs, e, kind, t)
           changed == [rs[e] EXCEPT !.status = statusAfter(kind, @), !.observed_at = t]
<1>1. rs[e] \in Row
  BY RowsAre
<1>2. /\ statusAfter(kind, rs[e].status) \in Statuses
      /\ statusAfter(kind, rs[e].status) = "superseded" <=> rs[e].status = "superseded"
  BY <1>1 DEF EventAllowed, eventFits, statusAfter, Row, Statuses
<1>3. r2 = [rs EXCEPT ![e] = changed]
  BY <1>1 DEF EventAppended
<1>4. /\ changed \in Row
      /\ changed.action = rs[e].action /\ changed.step = rs[e].step
      /\ changed.provider = rs[e].provider /\ changed.revision = rs[e].revision
      /\ changed.counts = rs[e].counts /\ changed.recorded_at = rs[e].recorded_at
      /\ changed.observed_at = t /\ changed.status = statusAfter(kind, rs[e].status)
  BY <1>1, <1>2 DEF Row
<1>5. r2 \in Seq(Row) /\ Len(r2) = Len(rs)
      /\ \A j \in 1 .. Len(rs) : r2[j] = IF j = e THEN changed ELSE rs[j]
  <2> HIDE DEF changed
  <2> QED BY <1>3, <1>4, ExceptSeq
<1>6. t >= rs[e].observed_at
  BY DEF EventAllowed
<1>7. \A j \in 1 .. Len(rs) : rs[j].observed_at \in Int
  BY RowsAre
<1> HIDE DEF changed, r2
<1>8. ASSUME NEW j \in 1 .. Len(rs)
      PROVE  /\ r2[j].action = rs[j].action /\ r2[j].step = rs[j].step
             /\ r2[j].provider = rs[j].provider
             /\ r2[j].revision = rs[j].revision
             /\ r2[j].counts = rs[j].counts
             /\ r2[j].recorded_at = rs[j].recorded_at
             /\ r2[j].observed_at >= rs[j].observed_at
             /\ Superseded(r2, j) <=> Superseded(rs, j)
             /\ j # e => r2[j] = rs[j]
  BY <1>2, <1>4, <1>5, <1>6, <1>7 DEF Superseded
<1>9. r2[e].status = statusAfter(kind, rs[e].status)
  BY <1>4, <1>5
<1> QED BY <1>5, <1>8, <1>9 DEF r2

\* An event on a row that is not superseded touches no generation that is closed.
LEMMA EventCommits ==
    ASSUME NEW rs \in Seq(Row), validateLedger(rs), NEW e \in 1 .. Len(rs), NEW kind,
           NEW t \in Int, EventAllowed(rs, e, kind, t), ~Superseded(rs, e)
    PROVE  validateLedger(EventAppended(rs, e, kind, t))
<1> DEFINE r2 == EventAppended(rs, e, kind, t)
<1>1. r2 \in Seq(Row) /\ Len(r2) = Len(rs)
      /\ \A j \in 1 .. Len(rs) :
            /\ r2[j].action = rs[j].action /\ r2[j].step = rs[j].step
            /\ r2[j].provider = rs[j].provider
            /\ r2[j].revision = rs[j].revision
            /\ r2[j].counts = rs[j].counts
            /\ r2[j].recorded_at = rs[j].recorded_at
            /\ r2[j].observed_at >= rs[j].observed_at
            /\ Superseded(r2, j) <=> Superseded(rs, j)
            /\ j # e => r2[j] = rs[j]
  BY EventChanges
<1> HIDE DEF r2
<1>2. /\ Len(rs) \in Nat /\ DOMAIN rs = 1 .. Len(rs) /\ DOMAIN r2 = 1 .. Len(rs)
      /\ \A j \in 1 .. Len(rs) : rs[j].observed_at \in Int /\ rs[j].recorded_at \in Int
                                 /\ r2[j].observed_at \in Int
  BY <1>1, RowsAre
<1> SUFFICES ASSUME NEW i \in 1 .. Len(rs)
             PROVE  Chronological(r2, i) /\ Replayed(r2, i) /\ Sequenced(r2, i)
  BY <1>2 DEF validateLedger, r2
<1>3. Chronological(rs, i) /\ Replayed(rs, i) /\ Sequenced(rs, i)
  BY <1>2 DEF validateLedger
<1>4. Chronological(r2, i)
  BY <1>1, <1>2, <1>3 DEF Chronological
<1>5. Like(rs, r2, i) /\ i \in Nat /\ i <= Len(rs)
  BY <1>1, <1>2 DEF Like
<1>6. \A s \in Starts(rs, i) :
         (Closed(rs, s, i) /\ closureIsVisible(rs, s, i, i))
           <=> (Closed(r2, s, i) /\ closureIsVisible(r2, s, i, i))
  <2> TAKE s \in Starts(rs, i)
  <2>1. s \in 1 .. i
    BY DEF Starts
  <2>2. Starts(rs, i) = Starts(r2, i) /\ Generation(rs, s, i) = Generation(r2, s, i)
    BY <1>5, <2>1, SameGenerations
  <2>3. \A j \in Generation(rs, s, i) : j \in 1 .. Len(rs)
    BY <1>5, <2>1 DEF Generation
  <2>4. Closed(rs, s, i) <=> Closed(r2, s, i)
    BY <1>1, <2>2, <2>3 DEF Closed
  <2>5. ASSUME Closed(rs, s, i)
        PROVE  closureIsVisible(rs, s, i, i) <=> closureIsVisible(r2, s, i, i)
    <3>1. \A j \in Generation(rs, s, i) : r2[j] = rs[j]
      BY <1>1, <2>3, <2>5 DEF Closed
    <3>2. \A j \in Starts(rs, i) : r2[j].action = rs[j].action
      BY <1>5 DEF Like, Starts
    <3>3. r2[i].recorded_at = rs[i].recorded_at /\ r2[s].action = rs[s].action
      BY <1>1, <1>5, <2>1
    <3> QED BY <1>1, <2>2, <3>1, <3>2, <3>3 DEF closureIsVisible
  <2> QED BY <2>4, <2>5
<1>7. Replayed(r2, i)
  BY <1>1, <1>3, <1>5, <1>6, SameReplay
<1>8. Sequenced(r2, i)
  <2>1. \A j \in 1 .. i - 1 : j \in 1 .. Len(rs)
    BY <1>5
  <2>2. {j \in 1 .. i - 1 : rs[j].action = rs[i].action}
          = {j \in 1 .. i - 1 : r2[j].action = r2[i].action}
    BY <1>1, <2>1
  <2> QED BY <1>1, <1>3, <2>1, <2>2 DEF Sequenced
<1> QED BY <1>4, <1>7, <1>8

\* What each row is after a reset of an action whose current generation is open.
LEMMA ResetChanges ==
    ASSUME NEW rs \in Seq(Row), NEW a, NEW t \in Int, ResetAllowed(rs, a, t)
    PROVE  LET r2 == ActionReset(rs, a, t)
               current == currentGenerationRows(rs, a)
           IN  /\ r2 \in Seq(Row) /\ Len(r2) = Len(rs)
               /\ current \subseteq 1 .. Len(rs)
               /\ \A j \in 1 .. Len(rs) :
                     /\ r2[j].action = rs[j].action /\ r2[j].step = rs[j].step
                     /\ r2[j].provider = rs[j].provider
                     /\ r2[j].revision = rs[j].revision
                     /\ r2[j].counts = rs[j].counts
                     /\ r2[j].recorded_at = rs[j].recorded_at
                     /\ r2[j].observed_at >= rs[j].observed_at
                     /\ Superseded(rs, j) => Superseded(r2, j)
                     /\ j \notin current => r2[j] = rs[j]
                     /\ j \in current => /\ rs[j].action = a /\ ~Superseded(rs, j)
                                         /\ Superseded(r2, j) /\ r2[j].observed_at = t
<1> DEFINE r2 == ActionReset(rs, a, t)
           current == currentGenerationRows(rs, a)
           changed(j) == [rs[j] EXCEPT !.status = "superseded", !.observed_at = t]
<1>1. /\ Len(rs) \in Nat /\ DOMAIN rs = 1 .. Len(rs)
      /\ \A j \in 1 .. Len(rs) : rs[j] \in Row /\ rs[j].observed_at \in Int
  BY RowsAre
<1>2. \A j \in current : j \in 1 .. Len(rs) /\ rs[j].action = a
  BY <1>1 DEF currentGenerationRows, Generation, Starts
<1>3. \A j \in 1 .. Len(rs) :
         /\ changed(j) \in Row
         /\ changed(j).action = rs[j].action /\ changed(j).step = rs[j].step
         /\ changed(j).provider = rs[j].provider /\ changed(j).revision = rs[j].revision
         /\ changed(j).counts = rs[j].counts /\ changed(j).recorded_at = rs[j].recorded_at
         /\ changed(j).observed_at = t /\ changed(j).status = "superseded"
  BY <1>1 DEF Row, Statuses
<1>4. \A j \in current : rs[j].status # "superseded" /\ t >= rs[j].observed_at
  BY DEF ResetAllowed
<1>5. r2 = [j \in 1 .. Len(rs) |-> IF j \in current THEN changed(j) ELSE rs[j]]
  BY <1>1 DEF ActionReset
<1> HIDE DEF r2, current, changed
<1>6. r2 \in Seq(Row) /\ Len(r2) = Len(rs)
  <2>1. \A j \in 1 .. Len(rs) : r2[j] \in Row
    BY <1>1, <1>3, <1>5
  <2>2. r2 \in [1 .. Len(rs) -> Row]
    BY <1>5, <2>1
  <2>3. r2 \in Seq(Row)
    BY <1>1, <2>2, IsASeq
  <2> QED BY <1>1, <1>5, <2>3, LenProperties
<1>7. ASSUME NEW j \in 1 .. Len(rs)
      PROVE  /\ r2[j].action = rs[j].action /\ r2[j].step = rs[j].step
             /\ r2[j].provider = rs[j].provider
             /\ r2[j].revision = rs[j].revision
             /\ r2[j].counts = rs[j].counts
             /\ r2[j].recorded_at = rs[j].recorded_at
             /\ r2[j].observed_at >= rs[j].observed_at
             /\ Superseded(rs, j) => Superseded(r2, j)
             /\ j \notin current => r2[j] = rs[j]
             /\ j \in current => /\ rs[j].action = a /\ ~Superseded(rs, j)
                                 /\ Superseded(r2, j) /\ r2[j].observed_at = t
  BY <1>1, <1>2, <1>3, <1>4, <1>5 DEF Superseded
<1> QED BY <1>2, <1>6, <1>7 DEF r2, current

\* The generation that a reset closes is closed later than every recorded row, so
\* none of them sees it: what they counted stays counted.
LEMMA ResetCommits ==
    ASSUME NEW rs \in Seq(Row), validateLedger(rs), NEW a, NEW t \in Int,
           ResetAllowed(rs, a, t), \A i \in DOMAIN rs : t > rs[i].recorded_at
    PROVE  validateLedger(ActionReset(rs, a, t))
<1> DEFINE r2 == ActionReset(rs, a, t)
           current == currentGenerationRows(rs, a)
<1>1. /\ r2 \in Seq(Row) /\ Len(r2) = Len(rs)
      /\ current \subseteq 1 .. Len(rs)
      /\ \A j \in 1 .. Len(rs) :
            /\ r2[j].action = rs[j].action /\ r2[j].step = rs[j].step
            /\ r2[j].provider = rs[j].provider
            /\ r2[j].revision = rs[j].revision
            /\ r2[j].counts = rs[j].counts
            /\ r2[j].recorded_at = rs[j].recorded_at
            /\ r2[j].observed_at >= rs[j].observed_at
            /\ Superseded(rs, j) => Superseded(r2, j)
            /\ j \notin current => r2[j] = rs[j]
            /\ j \in current => /\ rs[j].action = a /\ ~Superseded(rs, j)
                                /\ Superseded(r2, j) /\ r2[j].observed_at = t
  BY ResetChanges
<1>2. /\ Len(rs) \in Nat /\ DOMAIN rs = 1 .. Len(rs) /\ DOMAIN r2 = 1 .. Len(rs)
      /\ \A j \in 1 .. Len(rs) : rs[j].observed_at \in Int /\ rs[j].recorded_at \in Int
                                 /\ r2[j].observed_at \in Int
  BY <1>1, RowsAre
<1>3. \A i \in DOMAIN rs : Sequenced(rs, i)
  BY DEF validateLedger
<1>4. current # {}
  BY DEF ResetAllowed
<1>5. PICK l : LastStart(rs, a, l)
  BY <1>1, <1>3, <1>4, HasStart
<1>6. current = {i \in l .. Len(rs) : rs[i].action = a}
  BY <1>5, CurrentFrom
<1> HIDE DEF r2, current
<1> SUFFICES ASSUME NEW i \in 1 .. Len(rs)
             PROVE  Chronological(r2, i) /\ Replayed(r2, i) /\ Sequenced(r2, i)
  BY <1>2 DEF validateLedger, r2
<1>7. Chronological(rs, i) /\ Replayed(rs, i) /\ Sequenced(rs, i)
  BY <1>2 DEF validateLedger
<1>8. Chronological(r2, i)
  BY <1>1, <1>2, <1>7 DEF Chronological
<1>9. Like(rs, r2, i) /\ i \in Nat /\ i <= Len(rs)
  BY <1>1, <1>2 DEF Like
<1>10. \A s \in Starts(rs, i) :
         (Closed(rs, s, i) /\ closureIsVisible(rs, s, i, i))
           <=> (Closed(r2, s, i) /\ closureIsVisible(r2, s, i, i))
  <2> TAKE s \in Starts(rs, i)
  <2>1. s \in 1 .. i /\ rs[s].step = 0
    BY DEF Starts
  <2>2. Starts(rs, i) = Starts(r2, i) /\ Generation(rs, s, i) = Generation(r2, s, i)
    BY <1>9, <2>1, SameGenerations
  <2>3. \A j \in Generation(rs, s, i) : j \in 1 .. Len(rs)
    BY <1>9, <2>1 DEF Generation
  <2>4. CASE Generation(rs, s, i) \cap current = {}
    <3>1. \A j \in Generation(rs, s, i) : r2[j] = rs[j]
      BY <1>1, <2>3, <2>4
    <3>2. Closed(rs, s, i) <=> Closed(r2, s, i)
      BY <2>2, <3>1 DEF Closed, Superseded
    <3>3. \A j \in Starts(rs, i) : r2[j].action = rs[j].action
      BY <1>9 DEF Like, Starts
    <3>4. r2[i].recorded_at = rs[i].recorded_at /\ r2[s].action = rs[s].action
      BY <1>1, <1>9, <2>1
    <3>5. closureIsVisible(rs, s, i, i) <=> closureIsVisible(r2, s, i, i)
      BY <1>1, <2>2, <3>1, <3>3, <3>4 DEF closureIsVisible
    <3> QED BY <3>2, <3>5
  <2>5. CASE Generation(rs, s, i) \cap current # {}
    <3>1. PICK j \in Generation(rs, s, i) : j \in current
      BY <2>5
    <3>2. rs[j].action = a /\ rs[s].action = a /\ l <= j /\ j <= i /\ l \in 1 .. Len(rs)
          /\ rs[l].action = a /\ rs[l].step = 0 /\ j \in Int
      BY <1>5, <1>6, <1>9, <2>1, <3>1 DEF Generation, LastStart
    <3>3. l \in Starts(rs, i)
      BY <1>9, <3>2 DEF Starts
    <3>4. s = l
      <4>1. s <= l
        BY <1>5, <1>9, <2>1, <3>2 DEF LastStart
      <4>2. l <= s \/ j < l
        BY <3>1, <3>2, <3>3 DEF Generation
      <4> QED BY <2>1, <3>2, <4>1, <4>2
    <3>5. l \in Generation(rs, s, i) /\ l \in current
      BY <1>2, <1>6, <1>9, <3>2, <3>3, <3>4 DEF Generation, Starts
    <3>6. ~Closed(rs, s, i)
      BY <1>1, <2>3, <3>5 DEF Closed
    <3>7. ~closureIsVisible(r2, s, i, i)
      <4>1. i # Len(r2) + 1
        BY <1>1, <1>2, <1>9
      <4>2. ~ \E u \in Starts(r2, i) : u > s /\ r2[u].action = r2[s].action
        <5> SUFFICES ASSUME NEW u \in Starts(rs, i), u > s, rs[u].action = a PROVE FALSE
          <6>1. \A u \in Starts(rs, i) : u \in 1 .. Len(rs)
            BY <1>9 DEF Starts
          <6> QED BY <1>1, <1>9, <2>1, <2>2, <3>2, <6>1
        <5>1. u \in 1 .. Len(rs) /\ rs[u].step = 0
          BY <1>9 DEF Starts
        <5> QED BY <1>5, <2>1, <3>4, <5>1 DEF LastStart
      <4>3. r2[l].observed_at = t /\ r2[i].recorded_at = rs[i].recorded_at
            /\ t > rs[i].recorded_at
        BY <1>1, <1>2, <3>2, <3>5
      <4>4. ~(r2[i].recorded_at >= r2[l].observed_at)
        BY <1>2, <4>3
      <4> QED BY <2>2, <3>5, <4>1, <4>2, <4>4 DEF closureIsVisible
    <3> QED BY <3>6, <3>7
  <2> QED BY <2>4, <2>5
<1>11. Replayed(r2, i)
  BY <1>1, <1>7, <1>9, <1>10, SameReplay
<1>12. Sequenced(r2, i)
  <2>1. \A j \in 1 .. i - 1 : j \in 1 .. Len(rs)
    BY <1>9
  <2>2. {j \in 1 .. i - 1 : rs[j].action = rs[i].action}
          = {j \in 1 .. i - 1 : r2[j].action = r2[i].action}
    BY <1>1, <2>1
  <2> QED BY <1>1, <1>7, <2>1, <2>2 DEF Sequenced
<1> QED BY <1>8, <1>11, <1>12

\* The rows of the generation of row s up to row i.
Upto(rs, s, i) == {j \in s .. i : rs[j].action = rs[s].action}

LEMMA UptoFinite ==
    ASSUME NEW rs, NEW s \in Nat, NEW i \in Nat
    PROVE  IsFiniteSet(Upto(rs, s, i)) /\ Cardinality(Upto(rs, s, i)) \in Nat
<1>1. IsFiniteSet(s .. i)
  BY FS_Interval
<1>2. Upto(rs, s, i) \in SUBSET (s .. i)
  BY DEF Upto
<1> QED BY <1>1, <1>2, FS_Subset, FS_CardinalityType

\* The rows of the current generation hold the steps 0, 1, 2 and so on, in the
\* order of the file, under one policy revision.
LEMMA Ladder ==
    ASSUME NEW rs \in Seq(Row), \A i \in DOMAIN rs : Sequenced(rs, i),
           NEW a, NEW s, LastStart(rs, a, s)
    PROVE  \A i \in s .. Len(rs) : rs[i].action = a =>
              /\ Cardinality(Upto(rs, s, i)) = rs[i].step + 1
              /\ rs[i].revision = rs[s].revision
<1> DEFINE Good(i) == /\ Cardinality(Upto(rs, s, i)) = rs[i].step + 1
                      /\ rs[i].revision = rs[s].revision
           Bad == {i \in s .. Len(rs) : rs[i].action = a /\ ~Good(i)}
<1>1. /\ Len(rs) \in Nat /\ DOMAIN rs = 1 .. Len(rs) /\ s \in 1 .. Len(rs)
      /\ rs[s].action = a /\ rs[s].step = 0
      /\ \A i \in 1 .. Len(rs) : rs[i].step \in Nat
  BY RowsAre DEF LastStart
<1>2. SUFFICES ASSUME Bad # {} PROVE FALSE
  OBVIOUS
<1>3. PICK i \in Bad : \A j \in Bad : i <= j
  <2>1. Bad \subseteq Nat
    BY <1>1
  <2> HIDE DEF Bad
  <2> QED BY <1>2, <2>1, MinExists
<1>4. i \in s .. Len(rs) /\ rs[i].action = a /\ ~Good(i) /\ i \in 1 .. Len(rs)
  BY <1>1, <1>3
<1>5. CASE i = s
  <2>1. Upto(rs, s, i) = {s}
    BY <1>1, <1>5 DEF Upto
  <2>2. Good(i)
    <3>1. Cardinality(Upto(rs, s, i)) = 1
      BY <2>1, FS_Singleton, Zenon
    <3>2. rs[i].step + 1 = 1 /\ rs[i].revision = rs[s].revision
      BY <1>1, <1>5
    <3> QED BY <3>1, <3>2
  <2> QED BY <1>4, <2>2
<1>6. CASE i # s
  <2> HIDE DEF Good
  <2>1. s < i
    BY <1>1, <1>4, <1>6
  <2>2. rs[i].step # 0
    BY <1>1, <1>4, <2>1 DEF LastStart
  <2>3. PICK j \in {p \in 1 .. i - 1 : rs[p].action = rs[i].action} :
           /\ \A k \in {p \in 1 .. i - 1 : rs[p].action = rs[i].action} : k <= j
           /\ rs[i].step = rs[j].step + 1
           /\ rs[i].revision = rs[j].revision
    BY <1>1, <1>4, <2>2 DEF Sequenced
  <2>4. j \in s .. Len(rs) /\ rs[j].action = a /\ j < i /\ j \in 1 .. Len(rs)
    BY <1>1, <1>4, <2>1, <2>3
  <2>5. Good(j)
    <3>1. j \notin Bad
      BY <1>3, <1>4, <2>4
    <3> QED BY <2>4, <3>1
  <2>6. Upto(rs, s, i) = Upto(rs, s, j) \cup {i}
    <3>1. \A k \in s .. i : rs[k].action = a => k <= j \/ k = i
      BY <1>1, <1>4, <2>3
    <3> QED BY <1>1, <1>4, <2>4, <3>1 DEF Upto
  <2>7. i \notin Upto(rs, s, j)
    BY <1>1, <1>4, <2>4 DEF Upto
  <2>8. IsFiniteSet(Upto(rs, s, j)) /\ Cardinality(Upto(rs, s, j)) \in Nat
    BY <1>1, <2>4, UptoFinite
  <2>9. Cardinality(Upto(rs, s, i)) = Cardinality(Upto(rs, s, j)) + 1
    BY <2>6, <2>7, <2>8, FS_AddElement
  <2>10. Good(i)
    <3>1. Cardinality(Upto(rs, s, j)) = rs[j].step + 1 /\ rs[j].revision = rs[s].revision
      BY <2>5 DEF Good
    <3>2. rs[j].step \in Nat /\ rs[i].step \in Nat
      BY <1>1, <1>4, <2>4
    <3>3. rs[i].step = rs[j].step + 1 /\ rs[i].revision = rs[j].revision
      BY <2>3
    <3>4. Cardinality(Upto(rs, s, i)) = rs[i].step + 1
      BY <2>9, <3>1, <3>2, <3>3
    <3>5. rs[i].revision = rs[s].revision
      BY <3>1, <3>3
    <3> QED BY <3>4, <3>5 DEF Good
  <2> QED BY <1>4, <2>10
<1> QED BY <1>5, <1>6

LEMMA CurrentIs ==
    ASSUME NEW rs \in Seq(Row), \A i \in DOMAIN rs : Sequenced(rs, i), NEW a,
           currentGenerationRows(rs, a) # {}
    PROVE  \E s : /\ LastStart(rs, a, s)
                  /\ currentGenerationRows(rs, a) = Upto(rs, s, Len(rs))
                  /\ s \in currentGenerationRows(rs, a)
<1>1. \A i \in currentGenerationRows(rs, a) : i \in 1 .. Len(rs) /\ rs[i].action = a
  BY RowsAre DEF currentGenerationRows, Generation, Starts
<1>2. PICK s : LastStart(rs, a, s)
  BY <1>1, HasStart
<1>3. currentGenerationRows(rs, a) = {i \in s .. Len(rs) : rs[i].action = a}
  BY <1>2, CurrentFrom
<1>4. rs[s].action = a /\ s \in 1 .. Len(rs) /\ Len(rs) \in Nat
  BY <1>2, RowsAre DEF LastStart
<1> QED BY <1>2, <1>3, <1>4 DEF Upto

LEMMA CountsAre ==
    ASSUME NEW rs \in Seq(Row), NEW n \in Nat, NEW history \in SUBSET (1 .. n)
    PROVE  Counted(rs, history) \in [Providers -> Nat]
<1>1. IsFiniteSet(1 .. n)
  BY FS_Interval
<1>2. ASSUME NEW p \in Providers
      PROVE  Cardinality({i \in windowRows(history) : rs[i].provider = p}) \in Nat
  <2>1. {i \in windowRows(history) : rs[i].provider = p} \in SUBSET (1 .. n)
    BY DEF windowRows
  <2> QED BY <1>1, <2>1, FS_Subset, FS_CardinalityType
<1> QED BY <1>2 DEF Counted

LEMMA SelectedIsRow ==
    ASSUME NEW rs \in Seq(Row), NEW a \in Actions, NEW revision \in Revisions,
           NEW step \in Nat, NEW provider \in Providers, NEW t \in Int
    PROVE  Selected(rs, a, revision, step, provider, t) \in Row
<1>1. Len(rs) \in Nat
  BY RowsAre
<1>2. distributionHistoryDecisions(rs, Len(rs) + 1) \in SUBSET (1 .. Len(rs))
  BY <1>1 DEF distributionHistoryDecisions
<1>3. Counted(rs, distributionHistoryDecisions(rs, Len(rs) + 1)) \in [Providers -> Nat]
  BY <1>1, <1>2, CountsAre
<1> QED BY <1>3 DEF Selected, Row, Statuses

\* A recorded row is later than every change, so it sees every closed generation, as
\* its selection did; and it takes its place in its action's sequence.
LEMMA RecordCommits ==
    ASSUME NEW rs \in Seq(Row), validateLedger(rs),
           NEW a \in Actions, NEW revision \in Revisions, NEW step \in Nat,
           NEW provider \in Providers, NEW t \in Int,
           RecordAllowed(rs, Selected(rs, a, revision, step, provider, t))
    PROVE  validateLedger(Recorded(rs, Selected(rs, a, revision, step, provider, t)))
<1> DEFINE row == Selected(rs, a, revision, step, provider, t)
           r2 == Recorded(rs, row)
           n == Len(rs)
<1>1. /\ n \in Nat /\ DOMAIN rs = 1 .. n
      /\ \A i \in 1 .. n : /\ rs[i].observed_at \in Int /\ rs[i].recorded_at \in Int
                           /\ rs[i].step \in Nat
  BY RowsAre
<1>2. row \in Row
  BY SelectedIsRow
<1>3. /\ row.action = a /\ row.step = step /\ row.revision = revision
      /\ row.provider = provider /\ row.status = "selected"
      /\ row.recorded_at = t /\ row.observed_at = t
      /\ row.counts = Counted(rs, distributionHistoryDecisions(rs, n + 1))
  BY DEF Selected
<1> HIDE DEF row
<1>4. /\ r2 \in Seq(Row) /\ Len(r2) = n + 1 /\ DOMAIN r2 = 1 .. n + 1
      /\ \A i \in 1 .. n : r2[i] = rs[i]
      /\ r2[n + 1] = row
  BY <1>2, AppendProperties, LenProperties DEF Recorded
<1>5. \A i \in 1 .. n : t >= rs[i].observed_at
  BY <1>1, <1>3 DEF RecordAllowed, row
<1>6. \A i \in 1 .. n : Chronological(rs, i) /\ Replayed(rs, i) /\ Sequenced(rs, i)
  BY <1>1 DEF validateLedger
<1>7. Like(rs, r2, n)
  BY <1>4 DEF Like
<1> HIDE DEF r2
<1>8. \A i \in 1 .. n + 1 : Chronological(r2, i)
  <2>1. CASE n = 0
    BY <1>1, <1>3, <1>4, <2>1 DEF Chronological
  <2>2. CASE n # 0
    <3>1. n \in 1 .. n /\ rs[n].observed_at >= rs[n].recorded_at
      BY <1>1, <1>6, <2>2 DEF Chronological
    <3>2. t >= rs[n].recorded_at
      BY <1>1, <1>5, <3>1
    <3>3. Chronological(r2, n + 1)
      BY <1>1, <1>3, <1>4, <3>1, <3>2 DEF Chronological
    <3>4. \A i \in 1 .. n : Chronological(r2, i)
      BY <1>1, <1>4, <1>6 DEF Chronological
    <3> QED BY <1>1, <3>3, <3>4
  <2> QED BY <2>1, <2>2
<1>9. ASSUME NEW i \in 1 .. n PROVE Replayed(r2, i)
  <2>1. i \in Nat /\ i <= n /\ Like(rs, r2, i) /\ i <= Len(r2) /\ r2[i] = rs[i]
    BY <1>1, <1>4, <1>7 DEF Like
  <2>2. ASSUME NEW s \in Starts(rs, i)
        PROVE  (Closed(rs, s, i) /\ closureIsVisible(rs, s, i, i))
                 <=> (Closed(r2, s, i) /\ closureIsVisible(r2, s, i, i))
    <3>1. s \in 1 .. i
      BY DEF Starts
    <3>2. Starts(rs, i) = Starts(r2, i) /\ Generation(rs, s, i) = Generation(r2, s, i)
      BY <2>1, <3>1, SameGenerations
    <3>3. \A j \in Generation(rs, s, i) : r2[j] = rs[j]
      BY <1>4, <2>1, <3>1 DEF Generation
    <3>4. \A j \in Starts(rs, i) : r2[j] = rs[j]
      BY <1>4, <2>1 DEF Starts
    <3>5. i # n + 1 /\ i # n + 1 + 1
      BY <1>1
    <3> QED BY <1>4, <2>1, <3>2, <3>3, <3>4, <3>5
            DEF Closed, closureIsVisible, Superseded
  <2> QED BY <1>4, <1>6, <2>1, <2>2, SameReplay
<1>10. \A i \in 1 .. n : Sequenced(r2, i)
  <2> TAKE i \in 1 .. n
  <2>1. \A j \in 1 .. i : r2[j] = rs[j]
    BY <1>1, <1>4
  <2>2. i \in 1 .. i /\ \A j \in 1 .. i - 1 : j \in 1 .. i
    BY <1>1
  <2>3. {j \in 1 .. i - 1 : rs[j].action = rs[i].action}
          = {j \in 1 .. i - 1 : r2[j].action = r2[i].action}
    BY <2>1, <2>2
  <2> QED BY <1>6, <2>1, <2>2, <2>3 DEF Sequenced, Superseded
<1>11. \A i \in DOMAIN rs : Sequenced(rs, i)
  BY <1>1, <1>6
<1>12. (IF openSequence(rs, a)
        THEN /\ \A i \in currentGenerationRows(rs, a) : rs[i].revision = revision
             /\ step = Cardinality(currentGenerationRows(rs, a))
        ELSE step = 0)
  BY <1>3 DEF RecordAllowed, row
<1>13. ASSUME NEW s \in Starts(rs, n)
       PROVE  /\ Closed(r2, s, n + 1) <=> Closed(rs, s, n)
              /\ Closed(rs, s, n) => Generation(r2, s, n + 1) = Generation(rs, s, n)
  <2>1. s \in 1 .. n /\ rs[s].step = 0 /\ r2[s] = rs[s]
    BY <1>4 DEF Starts
  <2>2. Starts(rs, n) \subseteq Starts(r2, n + 1)
    BY <1>1, <1>4 DEF Starts
  <2>3. \A u \in Starts(r2, n + 1) : u = n + 1 \/ u \in Starts(rs, n)
    <3> TAKE u \in Starts(r2, n + 1)
    <3>1. u \in 1 .. n + 1 /\ r2[u].step = 0
      BY DEF Starts
    <3>2. u = n + 1 \/ u \in 1 .. n
      BY <1>1, <3>1
    <3> QED BY <1>4, <3>1, <3>2 DEF Starts
  <2>4. ASSUME NEW j \in 1 .. n
        PROVE  j \in Generation(r2, s, n + 1) <=> j \in Generation(rs, s, n)
    <3>1. j \in s .. n + 1 <=> j \in s .. n
      BY <1>1, <2>1
    <3>2. r2[j] = rs[j] /\ j < n + 1
      BY <1>1, <1>4
    <3>3. \A u \in Starts(rs, n) : r2[u] = rs[u]
      BY <1>4 DEF Starts
    <3>4. (\A u \in Starts(r2, n + 1) : r2[u].action = r2[s].action => u <= s \/ j < u)
            <=> (\A u \in Starts(rs, n) : rs[u].action = rs[s].action => u <= s \/ j < u)
      BY <2>1, <2>2, <2>3, <3>2, <3>3
    <3> QED BY <2>1, <3>1, <3>2, <3>4 DEF Generation
  <2>5. ASSUME n + 1 \in Generation(r2, s, n + 1) PROVE ~Closed(rs, s, n)
    <3>1. rs[s].action = a
      BY <1>3, <1>4, <2>1, <2>5 DEF Generation
    <3>2. \A u \in Starts(r2, n + 1) : r2[u].action = a => u <= s
      <4> TAKE u \in Starts(r2, n + 1)
      <4> HAVE r2[u].action = a
      <4>1. u <= s \/ n + 1 < u
        BY <2>1, <2>5, <3>1 DEF Generation
      <4>2. u \in 1 .. n + 1
        BY DEF Starts
      <4> QED BY <1>1, <4>1, <4>2
    <3>3. n + 1 \notin Starts(r2, n + 1)
      BY <1>1, <1>3, <1>4, <2>1, <3>2
    <3>4. openSequence(rs, a)
      BY <1>1, <1>3, <1>4, <1>12, <3>3 DEF Starts
    <3>5. LastStart(rs, a, s)
      <4>1. \A u \in 1 .. n : rs[u].action = a /\ rs[u].step = 0 => u <= s
        BY <1>1, <1>4, <2>2, <3>2 DEF Starts
      <4> QED BY <2>1, <3>1, <4>1 DEF LastStart
    <3>6. PICK i \in currentGenerationRows(rs, a) : ~Superseded(rs, i)
      BY <3>4 DEF openSequence
    <3>7. i \in s .. n /\ rs[i].action = a
      BY <3>5, <3>6, CurrentFrom
    <3>8. i \in Generation(rs, s, n)
      BY <3>1, <3>5, <3>7 DEF Generation, LastStart, Starts
    <3> QED BY <3>6, <3>8 DEF Closed
  <2>6. \A j \in Generation(r2, s, n + 1) : j \in 1 .. n \/ j = n + 1
    <3> TAKE j \in Generation(r2, s, n + 1)
    <3>1. j \in s .. n + 1
      BY DEF Generation
    <3>2. n \in Nat /\ s \in 1 .. n
      BY <1>1, <2>1
    <3> HIDE DEF n
    <3>3. j \in Int /\ 1 <= j /\ j <= n + 1
      BY <3>1, <3>2
    <3> QED BY <3>2, <3>3
  <2>7. \A j \in Generation(rs, s, n) : j \in 1 .. n /\ j \in Generation(r2, s, n + 1)
    <3>1. \A j \in Generation(rs, s, n) : j \in 1 .. n
      BY <1>1, <2>1 DEF Generation
    <3> QED BY <2>4, <3>1
  <2>8. \A j \in 1 .. n : Superseded(r2, j) <=> Superseded(rs, j)
    BY <1>4 DEF Superseded
  <2>9. ~Superseded(r2, n + 1)
    BY <1>3, <1>4 DEF Superseded
  <2>10. CASE n + 1 \in Generation(r2, s, n + 1)
    BY <2>5, <2>9, <2>10 DEF Closed
  <2>11. CASE n + 1 \notin Generation(r2, s, n + 1)
    <3>1. Generation(r2, s, n + 1) = Generation(rs, s, n)
      BY <2>4, <2>6, <2>7, <2>11
    <3> QED BY <2>7, <2>8, <3>1 DEF Closed
  <2> QED BY <2>10, <2>11
<1>14. Replayed(r2, n + 1)
  <2> DEFINE Before == {s \in Starts(rs, n) : Closed(rs, s, n)}
             After == {s \in Starts(r2, n + 1) :
                         Closed(r2, s, n + 1) /\ closureIsVisible(r2, s, n + 1, n + 1)}
  <2>1. Before = After
    <3>1. ASSUME NEW s \in Before PROVE s \in After
      <4>1. s \in Starts(r2, n + 1) /\ s \in 1 .. n
        BY <1>1, <1>4 DEF Starts
      <4>2. Closed(r2, s, n + 1) /\ Generation(r2, s, n + 1) = Generation(rs, s, n)
        BY <1>13
      <4>3. \A j \in Generation(rs, s, n) : j \in 1 .. n
        BY <1>1, <4>1 DEF Generation
      <4>4. closureIsVisible(r2, s, n + 1, n + 1)
        BY <1>3, <1>4, <1>5, <4>2, <4>3 DEF closureIsVisible
      <4> QED BY <4>1, <4>2, <4>4
    <3>2. ASSUME NEW s \in After PROVE s \in Before
      <4>1. s \in Starts(rs, n) \/ s = n + 1
        BY <1>1, <1>4 DEF Starts
      <4>2. CASE s = n + 1
        <5>1. n + 1 \in Generation(r2, n + 1, n + 1)
          BY <1>1, <4>2 DEF Generation, Starts
        <5>2. ~Superseded(r2, n + 1)
          BY <1>3, <1>4 DEF Superseded
        <5> QED BY <4>2, <5>1, <5>2 DEF Closed
      <4>3. CASE s \in Starts(rs, n)
        BY <1>13, <4>3
      <4> QED BY <4>1, <4>2, <4>3
    <3> QED BY <3>1, <3>2
  <2>2. \A s \in Before : Generation(r2, s, n + 1) = Generation(rs, s, n)
    BY <1>13
  <2>3. UNION {Generation(rs, s, n) : s \in Before}
          = UNION {Generation(r2, s, n + 1) : s \in After}
    <3> HIDE DEF Before, After
    <3> QED BY <2>1, <2>2
  <2>4. distributionHistoryDecisions(rs, n + 1)
          = (1 .. n) \ UNION {Generation(rs, s, n) : s \in Before}
    <3>1. ~(n + 1 <= n) /\ n + 1 - 1 = n
      BY <1>1
    <3> QED BY <3>1 DEF distributionHistoryDecisions, closureIsVisible
  <2>5. distributionHistoryDecisions(r2, n + 1)
          = (1 .. n) \ UNION {Generation(r2, s, n + 1) : s \in After}
    <3>1. n + 1 <= n + 1 /\ n + 1 - 1 = n
      BY <1>1
    <3> QED BY <1>4, <3>1 DEF distributionHistoryDecisions
  <2> HIDE DEF Before, After
  <2>6. distributionHistoryDecisions(r2, n + 1) = distributionHistoryDecisions(rs, n + 1)
    BY <2>3, <2>4, <2>5
  <2>7. \A j \in distributionHistoryDecisions(rs, n + 1) : rs[j].provider = r2[j].provider
    BY <1>4, <2>4
  <2>8. Counted(rs, distributionHistoryDecisions(rs, n + 1))
          = Counted(r2, distributionHistoryDecisions(r2, n + 1))
    BY <2>6, <2>7, SameCounts
  <2> QED BY <1>3, <1>4, <2>8 DEF Replayed
<1>15. Sequenced(r2, n + 1)
  <2> DEFINE earlier == {j \in 1 .. n : rs[j].action = a}
  <2>1. {j \in 1 .. n + 1 - 1 : r2[j].action = r2[n + 1].action} = earlier
    BY <1>1, <1>3, <1>4
  <2>2. CASE ~openSequence(rs, a)
    <3>1. ASSUME NEW j \in earlier PROVE Superseded(rs, j)
      <4>1. PICK s : LastStart(rs, a, s)
        BY <1>11, HasStart
      <4>2. s \in 1 .. n /\ rs[s].action = a /\ rs[s].step = 0
        BY <4>1 DEF LastStart
      <4>3. CASE j < s
        BY <1>1, <1>6, <4>2, <4>3 DEF Sequenced
      <4>4. CASE ~(j < s)
        <5>1. j \in currentGenerationRows(rs, a)
          BY <1>1, <4>1, <4>2, <4>4, CurrentFrom
        <5> QED BY <2>2, <5>1 DEF openSequence
      <4> QED BY <4>3, <4>4
    <3>2. r2[n + 1].step = 0
      BY <1>3, <1>4, <1>12, <2>2
    <3>3. \A j \in earlier : Superseded(r2, j)
      BY <1>4, <3>1 DEF Superseded
    <3> QED BY <2>1, <3>2, <3>3 DEF Sequenced
  <2>3. CASE openSequence(rs, a)
    <3>1. currentGenerationRows(rs, a) # {}
      BY <2>3 DEF openSequence
    <3>2. PICK s : /\ LastStart(rs, a, s)
                   /\ currentGenerationRows(rs, a) = Upto(rs, s, n)
                   /\ s \in currentGenerationRows(rs, a)
      BY <1>11, <3>1, CurrentIs
    <3>3. s \in 1 .. n /\ rs[s].action = a
      BY <3>2 DEF LastStart
    <3>4. PICK m \in Upto(rs, s, n) : \A j \in Upto(rs, s, n) : j <= m
      <4>1. Upto(rs, s, n) \subseteq 0 .. n
        BY <1>1, <3>3 DEF Upto
      <4> QED BY <1>1, <3>1, <3>2, <4>1, MaxExists
    <3>5. m \in s .. n /\ m \in 1 .. n /\ rs[m].action = a
      BY <1>1, <3>3 DEF Upto
    <3>6. Upto(rs, s, m) = Upto(rs, s, n)
      BY <1>1, <3>3, <3>4, <3>5 DEF Upto
    <3>7. Cardinality(Upto(rs, s, m)) = rs[m].step + 1
      BY <1>11, <3>2, <3>5, Ladder
    <3>8. step = rs[m].step + 1 /\ revision = rs[m].revision
      BY <1>12, <2>3, <3>2, <3>6, <3>7
    <3>9. m \in earlier /\ \A j \in earlier : j <= m
      BY <1>1, <3>3, <3>4, <3>5 DEF Upto
    <3>10. r2[n + 1].step = step /\ r2[n + 1].revision = revision /\ r2[m] = rs[m] /\ step # 0
      BY <1>1, <1>3, <1>4, <3>5, <3>8
    <3> QED BY <2>1, <3>8, <3>9, <3>10 DEF Sequenced
  <2> QED BY <2>2, <2>3
<1>16. \A i \in DOMAIN r2 : i \in 1 .. n \/ i = n + 1
  BY <1>1, <1>4
<1> QED
  BY <1>4, <1>8, <1>9, <1>10, <1>14, <1>15, <1>16 DEF validateLedger, r2, row

-------------------------------------------------------------------------------
(* The ledger's invariant *)

Valid == rows \in Seq(Row) /\ now \in Times /\ validateLedger(rows)

LEMMA TimesAre == Times \subseteq Int
BY LedgerAssumption DEF Times

LEMMA Init_Valid == Init => Valid
<1> SUFFICES ASSUME Init PROVE Valid
  OBVIOUS
<1>1. rows = << >> /\ now = 0
  BY DEF Init
<1>2. rows \in Seq(Row) /\ DOMAIN rows = {}
  BY <1>1
<1> QED BY <1>1, <1>2, LedgerAssumption DEF Valid, validateLedger, Times

LEMMA CommitIs ==
    ASSUME NEW written, Commit(written)
    PROVE  rows' = written /\ validateLedger(written) /\ now' \in Times
BY DEF Commit

LEMMA Next_Valid == Valid /\ [Next]_vars => Valid'
<1> SUFFICES ASSUME Valid, [Next]_vars PROVE Valid'
  OBVIOUS
<1>1. now \in Int /\ now \in Times /\ rows \in Seq(Row) /\ validateLedger(rows)
  BY TimesAre DEF Valid
<1>2. ASSUME NEW a \in Actions, Record(a) PROVE Valid'
  <2>1. PICK revision \in Revisions, provider \in Providers, step \in 0 .. MaxRows :
           Commit(Recorded(rows, Selected(rows, a, revision, step, provider, now)))
    BY <1>2 DEF Record
  <2>2. step \in Nat
    BY LedgerAssumption
  <2>3. Selected(rows, a, revision, step, provider, now) \in Row
    BY <1>1, <2>2, SelectedIsRow
  <2>4. Recorded(rows, Selected(rows, a, revision, step, provider, now)) \in Seq(Row)
    BY <1>1, <2>3, AppendProperties DEF Recorded
  <2> QED BY <2>1, <2>4, CommitIs DEF Valid, Times
<1>3. ASSUME NEW a \in Actions, AppendEvent(a) PROVE Valid'
  <2>1. PICK i \in currentGenerationRows(rows, a), kind \in Kinds :
           /\ EventAllowed(rows, i, kind, now)
           /\ Commit(EventAppended(rows, i, kind, now))
    BY <1>3 DEF AppendEvent
  <2>2. i \in 1 .. Len(rows)
    BY <1>1, RowsAre DEF currentGenerationRows, Generation, Starts
  <2>3. EventAppended(rows, i, kind, now) \in Seq(Row)
    BY <1>1, <2>1, <2>2, EventChanges
  <2> QED BY <2>1, <2>3, CommitIs DEF Valid, Times
<1>4. ASSUME NEW a \in Actions, ResetAction(a) PROVE Valid'
  <2>1. ActionReset(rows, a, now) \in Seq(Row)
    BY <1>1, <1>4, ResetChanges DEF ResetAction
  <2> QED BY <1>4, <2>1, CommitIs DEF ResetAction, Valid, Times
<1>5. CASE UNCHANGED vars
  BY <1>5 DEF Valid, vars, validateLedger, Chronological, Replayed, Sequenced, Times
<1> QED BY <1>2, <1>3, <1>4, <1>5 DEF Next

LEMMA Invariant == Spec => []Valid
BY Init_Valid, Next_Valid, PTL DEF Spec

LEMMA ValidWritesCommit == Valid => WritesCommit
<1> SUFFICES ASSUME Valid PROVE WritesCommit
  OBVIOUS
<1>1. now \in Int /\ rows \in Seq(Row) /\ validateLedger(rows) /\ DOMAIN rows = 1 .. Len(rows)
  BY TimesAre, RowsAre DEF Valid
<1>2. ASSUME NEW a \in Actions, NEW revision \in Revisions, NEW provider \in Providers,
             NEW step \in 0 .. MaxRows
      PROVE  LET row == Selected(rows, a, revision, step, provider, now)
             IN  RecordAllowed(rows, row) => validateLedger(Recorded(rows, row))
  <2>1. step \in Nat
    BY LedgerAssumption
  <2> QED BY <1>1, <2>1, RecordCommits
<1>3. ASSUME NEW i \in DOMAIN rows, NEW kind \in Kinds,
             EventAllowed(rows, i, kind, now), ~Superseded(rows, i)
      PROVE  validateLedger(EventAppended(rows, i, kind, now))
  BY <1>1, <1>3, EventCommits
<1>4. ASSUME NEW a \in Actions, ResetAllowed(rows, a, now),
             \A i \in DOMAIN rows : now > rows[i].recorded_at
      PROVE  validateLedger(ActionReset(rows, a, now))
  BY <1>1, <1>4, ResetCommits
<1> QED BY <1>2, <1>3, <1>4 DEF WritesCommit

\* What record, appendEvent and resetAction accept, the validation of the whole
\* file accepts, whatever the file holds, however far apart the rows are that a
\* write and the rows it was counted by, and whatever the clocks read: a decision
\* always; an event on a row that is not superseded; a reset later than every
\* recorded row.
THEOREM GuardsSuffice == Spec => []WritesCommit
BY Invariant, ValidWritesCommit, PTL

-------------------------------------------------------------------------------
(* The steps of an action's current generation *)

StepOf(row) ==
    [revision |-> row.revision, choice |-> row.provider, status |-> row.status]

At(rs, a, k) == CHOOSE i \in currentGenerationRows(rs, a) : rs[i].step = k - 1

StepsOf(rs, a) ==
    [k \in 1 .. Cardinality(currentGenerationRows(rs, a)) |-> StepOf(rs[At(rs, a, k)])]

RouteOf(rs) == [a \in Actions |-> StepsOf(rs, a)]

\* In a valid file, the rows of an action that no later start follows.
LEMMA CurrentFlat ==
    ASSUME NEW rs \in Seq(Row), \A i \in DOMAIN rs : Sequenced(rs, i), NEW a
    PROVE  currentGenerationRows(rs, a)
             = {i \in 1 .. Len(rs) :
                  /\ rs[i].action = a
                  /\ \A t \in 1 .. Len(rs) : rs[t].action = a /\ rs[t].step = 0 => t <= i}
<1>1. CASE \A i \in 1 .. Len(rs) : rs[i].action # a
  BY <1>1, NoRows
<1>2. CASE \E i \in 1 .. Len(rs) : rs[i].action = a
  <2>1. PICK s : LastStart(rs, a, s)
    BY <1>2, HasStart
  <2>2. /\ s \in 1 .. Len(rs) /\ rs[s].action = a /\ rs[s].step = 0 /\ Len(rs) \in Nat
        /\ \A t \in 1 .. Len(rs) : rs[t].action = a /\ rs[t].step = 0 => t <= s
    BY <2>1, RowsAre DEF LastStart
  <2>3. currentGenerationRows(rs, a) = {i \in s .. Len(rs) : rs[i].action = a}
    BY <2>1, CurrentFrom
  <2>4. \A i \in s .. Len(rs) : i \in 1 .. Len(rs) /\ s <= i
    BY <2>2
  <2>5. \A i \in 1 .. Len(rs) : s <= i => i \in s .. Len(rs)
    BY <2>2
  <2>6. \A i \in 1 .. Len(rs) : s <= i =>
           \A t \in 1 .. Len(rs) : rs[t].action = a /\ rs[t].step = 0 => t <= i
    BY <2>2
  <2> QED BY <2>2, <2>3, <2>4, <2>5, <2>6
<1> QED BY <1>1, <1>2

\* The steps of the current generation are numbered without gaps.
LEMMA StepRows ==
    ASSUME NEW rs \in Seq(Row), \A i \in DOMAIN rs : Sequenced(rs, i), NEW a
    PROVE  LET current == currentGenerationRows(rs, a)
               n == Cardinality(current)
           IN  /\ IsFiniteSet(current) /\ n \in Nat /\ current \subseteq 1 .. Len(rs)
               /\ \A i \in current : rs[i].step \in 0 .. n - 1
               /\ \A i, j \in current : rs[i].step = rs[j].step => i = j
               /\ \A k \in 1 .. n : At(rs, a, k) \in current
                                    /\ rs[At(rs, a, k)].step = k - 1
<1> DEFINE current == currentGenerationRows(rs, a)
           n == Cardinality(current)
<1>1. CASE current = {}
  <2>1. IsFiniteSet(current) /\ n = 0
    BY <1>1, FS_EmptySet
  <2>2. n \in Nat /\ 1 .. n = {}
    BY <2>1
  <2> HIDE DEF current, n
  <2> QED BY <1>1, <2>1, <2>2 DEF current, n
<1>2. CASE current # {}
  <2>1. PICK s : LastStart(rs, a, s) /\ current = Upto(rs, s, Len(rs)) /\ s \in current
    BY <1>2, CurrentIs
  <2>2. /\ s \in 1 .. Len(rs) /\ rs[s].action = a /\ Len(rs) \in Nat
        /\ \A i \in 1 .. Len(rs) : rs[i].step \in Nat
    BY <2>1, RowsAre DEF LastStart
  <2>3. IsFiniteSet(current) /\ n \in Nat
    BY <2>1, <2>2, UptoFinite
  <2> HIDE DEF current, n
  <2>4. \A i \in current : /\ i \in s .. Len(rs) /\ i \in 1 .. Len(rs) /\ i \in Nat
                           /\ rs[i].action = a
    BY <2>1, <2>2 DEF Upto
  <2>5. \A i \in current : Cardinality(Upto(rs, s, i)) = rs[i].step + 1
    BY <2>1, <2>4, Ladder
  <2>6. \A i \in current : Upto(rs, s, i) \in SUBSET current /\ i \in Upto(rs, s, i)
    BY <2>1, <2>2, <2>4 DEF Upto
  <2>7. \A i \in current : rs[i].step \in 0 .. n - 1
    <3> TAKE i \in current
    <3>1. Cardinality(Upto(rs, s, i)) <= n
      BY <2>3, <2>6, FS_Subset DEF n
    <3>2. rs[i].step \in Nat /\ Cardinality(Upto(rs, s, i)) = rs[i].step + 1
      BY <2>2, <2>4, <2>5
    <3> QED BY <2>3, <3>1, <3>2
  <2>8. ASSUME NEW i \in current, NEW j \in current, i < j PROVE rs[i].step # rs[j].step
    <3>1. Upto(rs, s, i) \in SUBSET Upto(rs, s, j) /\ j \notin Upto(rs, s, i)
          /\ j \in Upto(rs, s, j)
      BY <2>2, <2>4, <2>6, <2>8 DEF Upto
    <3>2. IsFiniteSet(Upto(rs, s, j))
      BY <2>2, <2>4, UptoFinite
    <3>3. Cardinality(Upto(rs, s, i)) # Cardinality(Upto(rs, s, j))
      BY <3>1, <3>2, FS_Subset
    <3> QED BY <2>5, <3>3
  <2>9. \A i, j \in current : rs[i].step = rs[j].step => i = j
    <3> SUFFICES ASSUME NEW i \in current, NEW j \in current, rs[i].step = rs[j].step
                 PROVE  i = j
      OBVIOUS
    <3>1. ~(i < j) /\ ~(j < i)
      BY <2>8
    <3>2. i \in Nat /\ j \in Nat
      BY <2>4
    <3> QED BY <3>1, <3>2
  <2>10. ASSUME NEW k \in 1 .. n PROVE \E i \in current : rs[i].step = k - 1
    <3> DEFINE Above == {rs[i].step : i \in {i \in current : rs[i].step >= k - 1}}
    <3>1. PICK m \in current : \A j \in current : j <= m
      <4>1. current \subseteq 0 .. Len(rs)
        BY <2>2, <2>4
      <4> QED BY <1>2, <2>2, <4>1, MaxExists
    <3>2. Upto(rs, s, m) = current
      BY <2>1, <2>2, <2>4, <3>1 DEF Upto
    <3>3. n = rs[m].step + 1
      BY <2>5, <3>2 DEF n
    <3>4. rs[m].step \in Nat /\ rs[m].step >= k - 1
      BY <2>2, <2>3, <2>4, <3>3
    <3>5. Above \subseteq Nat /\ Above # {}
      BY <2>2, <2>4, <3>4
    <3>6. PICK q \in Above : \A r \in Above : q <= r
      <4> HIDE DEF Above
      <4> QED BY <3>5, MinExists
    <3>7. PICK i \in current : rs[i].step = q /\ rs[i].step >= k - 1
      BY <3>6
    <3>8. CASE q = k - 1
      BY <3>7, <3>8
    <3>9. CASE q # k - 1
      <4>1. q > k - 1 /\ q # 0 /\ q \in Nat
        <5>1. k \in Nat /\ k >= 1 /\ rs[i].step \in Nat
          BY <2>2, <2>3, <2>4
        <5>2. q \in Nat /\ q >= k - 1
          BY <3>7, <5>1
        <5> QED BY <3>9, <5>1, <5>2
      <4>2. DOMAIN rs = 1 .. Len(rs) /\ i \in 1 .. Len(rs) /\ rs[i].action = a
        BY <2>4, RowsAre
      <4>3. PICK j \in {p \in 1 .. i - 1 : rs[p].action = rs[i].action} :
               /\ \A u \in {p \in 1 .. i - 1 : rs[p].action = rs[i].action} : u <= j
               /\ rs[i].step = rs[j].step + 1
        BY <3>7, <4>1, <4>2 DEF Sequenced
      <4>4. s < i
        <5>1. rs[s].step = 0
          BY <2>1 DEF LastStart
        <5>2. s # i
          BY <3>7, <4>1, <5>1
        <5> QED BY <2>2, <2>4, <5>2
      <4>5. s \in {p \in 1 .. i - 1 : rs[p].action = rs[i].action}
        BY <2>2, <4>2, <4>4
      <4>6. s <= j /\ j \in 1 .. i - 1 /\ rs[j].action = a
        BY <4>2, <4>3, <4>5
      <4>7. j \in current
        BY <2>1, <2>2, <4>2, <4>6 DEF Upto
      <4>8. rs[j].step \in Nat
        BY <2>2, <2>4, <4>7
      <4>9. rs[j].step >= k - 1 /\ rs[j].step < q
        BY <3>7, <4>1, <4>3, <4>8
      <4>10. rs[j].step \in Above
        BY <4>7, <4>9
      <4>11. q <= rs[j].step
        BY <3>6, <4>10
      <4> QED BY <4>1, <4>8, <4>9, <4>11
    <3> QED BY <3>8, <3>9
  <2>11. \A k \in 1 .. n : At(rs, a, k) \in current /\ rs[At(rs, a, k)].step = k - 1
    BY <2>10 DEF At, current
  <2> QED BY <2>3, <2>4, <2>7, <2>9, <2>11 DEF current, n
<1> QED BY <1>1, <1>2

-------------------------------------------------------------------------------
(* Writes and routes *)

\* A row that keeps its place keeps its step of the route.
LEMMA StepsKept ==
    ASSUME NEW rs, NEW r2, NEW a,
           currentGenerationRows(r2, a) = currentGenerationRows(rs, a),
           \A i \in currentGenerationRows(rs, a) : r2[i].step = rs[i].step
    PROVE  \A k : At(r2, a, k) = At(rs, a, k)
BY DEF At

LEMMA SameSteps ==
    ASSUME NEW rs \in Seq(Row), \A i \in DOMAIN rs : Sequenced(rs, i), NEW r2, NEW a,
           currentGenerationRows(r2, a) = currentGenerationRows(rs, a),
           \A i \in currentGenerationRows(rs, a) :
              r2[i].step = rs[i].step /\ StepOf(r2[i]) = StepOf(rs[i])
    PROVE  StepsOf(r2, a) = StepsOf(rs, a)
<1>1. \A k : At(r2, a, k) = At(rs, a, k)
  BY StepsKept
<1>2. \A k \in 1 .. Cardinality(currentGenerationRows(rs, a)) :
         At(rs, a, k) \in currentGenerationRows(rs, a)
  BY StepRows
<1> QED BY <1>1, <1>2 DEF StepsOf

\* Rows that keep their action and step keep their place in their generation.
LEMMA SameCurrent ==
    ASSUME NEW rs \in Seq(Row), \A i \in DOMAIN rs : Sequenced(rs, i),
           NEW r2 \in Seq(Row), \A i \in DOMAIN r2 : Sequenced(r2, i),
           Len(r2) = Len(rs),
           \A j \in 1 .. Len(rs) : r2[j].action = rs[j].action /\ r2[j].step = rs[j].step,
           NEW a
    PROVE  currentGenerationRows(r2, a) = currentGenerationRows(rs, a)
<1>1. currentGenerationRows(rs, a)
        = {i \in 1 .. Len(rs) :
             /\ rs[i].action = a
             /\ \A t \in 1 .. Len(rs) : rs[t].action = a /\ rs[t].step = 0 => t <= i}
  BY CurrentFlat
<1>2. currentGenerationRows(r2, a)
        = {i \in 1 .. Len(r2) :
             /\ r2[i].action = a
             /\ \A t \in 1 .. Len(r2) : r2[t].action = a /\ r2[t].step = 0 => t <= i}
  BY CurrentFlat
<1> QED BY <1>1, <1>2

Advanced(old, new, a) ==
    \E k \in DOMAIN old[a], status \in {"dispatched", "failed", "completed"} :
        /\ <<old[a][k].status, status>> \in Routes!Moves
        /\ new = [old EXCEPT ![a][k].status = status]

\* An event changes the status of one step, or nothing of the route.
LEMMA EventAdvances ==
    ASSUME NEW rs \in Seq(Row), validateLedger(rs), NEW a \in Actions,
           NEW i \in currentGenerationRows(rs, a), NEW kind \in Kinds, NEW t \in Int,
           EventAllowed(rs, i, kind, t),
           validateLedger(EventAppended(rs, i, kind, t))
    PROVE  LET old == RouteOf(rs)
               new == RouteOf(EventAppended(rs, i, kind, t))
           IN  new = old \/ Advanced(old, new, a)
<1> DEFINE r2 == EventAppended(rs, i, kind, t)
           current == currentGenerationRows(rs, a)
<1>1. \A j \in DOMAIN rs : Sequenced(rs, j)
  BY DEF validateLedger
<1>2. /\ IsFiniteSet(current) /\ Cardinality(current) \in Nat /\ current \subseteq 1 .. Len(rs)
      /\ \A j \in current : rs[j].step \in 0 .. Cardinality(current) - 1
      /\ \A j, u \in current : rs[j].step = rs[u].step => j = u
      /\ \A k \in 1 .. Cardinality(current) : At(rs, a, k) \in current
                                              /\ rs[At(rs, a, k)].step = k - 1
  BY <1>1, StepRows
<1>3. i \in 1 .. Len(rs)
  BY <1>2
<1>4. /\ r2 \in Seq(Row) /\ Len(r2) = Len(rs)
      /\ \A j \in 1 .. Len(rs) :
            /\ r2[j].action = rs[j].action /\ r2[j].step = rs[j].step
            /\ r2[j].provider = rs[j].provider
            /\ r2[j].revision = rs[j].revision
            /\ j # i => r2[j] = rs[j]
      /\ r2[i].status = statusAfter(kind, rs[i].status)
  BY <1>3, EventChanges
<1>5. \A j \in DOMAIN r2 : Sequenced(r2, j)
  BY DEF validateLedger
<1> HIDE DEF r2
<1>6. \A b : currentGenerationRows(r2, b) = currentGenerationRows(rs, b)
  BY <1>1, <1>4, <1>5, SameCurrent
<1>7. \A b : currentGenerationRows(rs, b) \subseteq 1 .. Len(rs)
  BY <1>1, StepRows
<1>8. ASSUME NEW b \in Actions, b # a PROVE StepsOf(r2, b) = StepsOf(rs, b)
  <2>1. \A j \in currentGenerationRows(rs, b) : rs[j].action = b
    BY <1>1, CurrentFlat
  <2>2. rs[i].action = a
    BY <1>1, CurrentFlat
  <2>3. \A j \in currentGenerationRows(rs, b) : r2[j] = rs[j]
    BY <1>4, <1>7, <1>8, <2>1, <2>2
  <2> QED BY <1>1, <1>6, <2>3, SameSteps
<1>9. CASE statusAfter(kind, rs[i].status) = rs[i].status
  <2>1. \A j \in current : r2[j].step = rs[j].step /\ StepOf(r2[j]) = StepOf(rs[j])
    BY <1>2, <1>4, <1>9 DEF StepOf
  <2>2. StepsOf(r2, a) = StepsOf(rs, a)
    BY <1>1, <1>6, <2>1, SameSteps
  <2>3. RouteOf(r2) = RouteOf(rs)
    BY <1>8, <2>2 DEF RouteOf
  <2> QED BY <2>3 DEF r2
<1>10. CASE statusAfter(kind, rs[i].status) # rs[i].status
  <2> DEFINE k == rs[i].step + 1
             status == statusAfter(kind, rs[i].status)
             old == StepsOf(rs, a)
  <2>1. <<rs[i].status, status>> \in Routes!Moves
        /\ status \in {"dispatched", "failed", "completed"}
    BY <1>10 DEF EventAllowed, eventFits, statusAfter, Routes!Moves
  <2>2. k \in 1 .. Cardinality(current) /\ k - 1 = rs[i].step
    BY <1>2
  <2> HIDE DEF status, k
  <2>3. At(rs, a, k) = i
    BY <1>2, <2>2
  <2>4. DOMAIN old = 1 .. Cardinality(current) /\ old[k] = StepOf(rs[i])
        /\ \A u \in 1 .. Cardinality(current) : old[u] = StepOf(rs[At(rs, a, u)])
    BY <2>2, <2>3 DEF StepsOf
  <2>5. StepsOf(r2, a) = [old EXCEPT ![k].status = status]
    <3>1. \A u : At(r2, a, u) = At(rs, a, u)
      BY <1>2, <1>4, <1>6, StepsKept
    <3>2. StepsOf(r2, a) = [u \in 1 .. Cardinality(current) |-> StepOf(r2[At(rs, a, u)])]
      BY <1>6, <3>1 DEF StepsOf
    <3>3. StepOf(r2[i]) = [StepOf(rs[i]) EXCEPT !.status = status]
      BY <1>3, <1>4 DEF StepOf, status
    <3>4. \A u \in 1 .. Cardinality(current) :
             StepOf(r2[At(rs, a, u)]) = IF u = k THEN [old[k] EXCEPT !.status = status]
                                        ELSE old[u]
      <4> TAKE u \in 1 .. Cardinality(current)
      <4>1. CASE u = k
        BY <2>3, <2>4, <3>3, <4>1
      <4>2. CASE u # k
        <5>1. At(rs, a, u) # i
          BY <1>2, <2>2, <4>2
        <5>2. r2[At(rs, a, u)] = rs[At(rs, a, u)]
          BY <1>2, <1>4, <5>1
        <5> QED BY <2>4, <4>2, <5>2
      <4> QED BY <4>1, <4>2
    <3> HIDE DEF old
    <3> QED BY <2>4, <3>2, <3>4
  <2>6. RouteOf(r2) = [RouteOf(rs) EXCEPT ![a][k].status = status]
    <3> HIDE DEF old
    <3>1. RouteOf(rs)[a] = old
      BY DEF RouteOf, old
    <3>2. RouteOf(r2) = [RouteOf(rs) EXCEPT ![a] = [old EXCEPT ![k].status = status]]
      BY <1>8, <2>5 DEF RouteOf
    <3> QED BY <3>1, <3>2
  <2>7. k \in DOMAIN RouteOf(rs)[a] /\ RouteOf(rs)[a][k].status = rs[i].status
    BY <2>2, <2>4 DEF RouteOf, StepOf
  <2>8. Advanced(RouteOf(rs), RouteOf(r2), a)
    BY <2>1, <2>6, <2>7 DEF Advanced
  <2> QED BY <2>8 DEF r2
<1> QED BY <1>9, <1>10

\* A reset ends all steps of one route.
LEMMA ResetEnds ==
    ASSUME NEW rs \in Seq(Row), validateLedger(rs), NEW a \in Actions, NEW t \in Int,
           ResetAllowed(rs, a, t), validateLedger(ActionReset(rs, a, t))
    PROVE  LET old == RouteOf(rs)
           IN  /\ old[a] # << >>
               /\ \A k \in DOMAIN old[a] :
                     old[a][k].status \in {"selected", "dispatched", "failed"}
               /\ RouteOf(ActionReset(rs, a, t))
                    = [old EXCEPT ![a] = [k \in DOMAIN @ |->
                                            [@[k] EXCEPT !.status = "superseded"]]]
<1> DEFINE r2 == ActionReset(rs, a, t)
           current == currentGenerationRows(rs, a)
           N == Cardinality(current)
           old == StepsOf(rs, a)
<1>1. \A j \in DOMAIN rs : Sequenced(rs, j)
  BY DEF validateLedger
<1>2. /\ IsFiniteSet(current) /\ N \in Nat /\ current \subseteq 1 .. Len(rs)
      /\ \A k \in 1 .. N : At(rs, a, k) \in current /\ rs[At(rs, a, k)].step = k - 1
  BY <1>1, StepRows
<1>3. /\ r2 \in Seq(Row) /\ Len(r2) = Len(rs)
      /\ \A j \in 1 .. Len(rs) :
            /\ r2[j].action = rs[j].action /\ r2[j].step = rs[j].step
            /\ r2[j].provider = rs[j].provider
            /\ r2[j].revision = rs[j].revision
            /\ j \notin current => r2[j] = rs[j]
            /\ j \in current => rs[j].action = a /\ r2[j].status = "superseded"
  BY ResetChanges DEF Superseded
<1>4. \A j \in DOMAIN r2 : Sequenced(r2, j)
  BY DEF validateLedger
<1>5. current # {} /\ \A i \in current : rs[i].status \in {"selected", "dispatched", "failed"}
  BY DEF ResetAllowed
<1> HIDE DEF r2
<1>6. \A b : currentGenerationRows(r2, b) = currentGenerationRows(rs, b)
  BY <1>1, <1>3, <1>4, SameCurrent
<1>7. \A b : currentGenerationRows(rs, b) \subseteq 1 .. Len(rs)
  BY <1>1, StepRows
<1>8. ASSUME NEW b \in Actions, b # a PROVE StepsOf(r2, b) = StepsOf(rs, b)
  <2>1. \A j \in currentGenerationRows(rs, b) : rs[j].action = b
    BY <1>1, CurrentFlat
  <2>2. \A j \in currentGenerationRows(rs, b) : r2[j] = rs[j]
    BY <1>3, <1>7, <1>8, <2>1
  <2> QED BY <1>1, <1>6, <2>2, SameSteps
<1>9. DOMAIN old = 1 .. N /\ \A k \in 1 .. N : old[k] = StepOf(rs[At(rs, a, k)])
  BY DEF StepsOf
<1>10. N # 0
  BY <1>2, <1>5, FS_EmptySet
<1>11. StepsOf(r2, a) = [k \in 1 .. N |-> [old[k] EXCEPT !.status = "superseded"]]
  <2>1. \A k : At(r2, a, k) = At(rs, a, k)
    BY <1>2, <1>3, <1>6, StepsKept
  <2>2. StepsOf(r2, a) = [k \in 1 .. N |-> StepOf(r2[At(rs, a, k)])]
    BY <1>6, <2>1 DEF StepsOf
  <2>3. \A k \in 1 .. N :
           StepOf(r2[At(rs, a, k)]) = [old[k] EXCEPT !.status = "superseded"]
    BY <1>2, <1>3, <1>9 DEF StepOf
  <2> HIDE DEF old
  <2> QED BY <2>2, <2>3
<1> HIDE DEF old, N, current
<1>12. RouteOf(rs)[a] = old
  BY DEF RouteOf, old
<1>13. old # << >>
  <2>1. 1 \in DOMAIN old
    BY <1>2, <1>9, <1>10
  <2> QED BY <2>1
<1>14. \A k \in DOMAIN old : old[k].status \in {"selected", "dispatched", "failed"}
  <2> TAKE k \in DOMAIN old
  <2>1. k \in 1 .. N
    BY <1>9
  <2>2. At(rs, a, k) \in current /\ old[k] = StepOf(rs[At(rs, a, k)])
    BY <1>2, <1>9, <2>1
  <2> QED BY <1>5, <2>2 DEF StepOf
<1>15. RouteOf(r2) = [RouteOf(rs) EXCEPT ![a] = StepsOf(r2, a)]
  BY <1>8 DEF RouteOf
<1>16. StepsOf(r2, a) = [k \in DOMAIN RouteOf(rs)[a] |->
                            [RouteOf(rs)[a][k] EXCEPT !.status = "superseded"]]
  BY <1>9, <1>11, <1>12
<1> QED BY <1>12, <1>13, <1>14, <1>15, <1>16 DEF r2

\* A recorded row is no step of another action's route.
LEMMA RecordKeepsOthers ==
    ASSUME NEW rs \in Seq(Row), \A i \in DOMAIN rs : Sequenced(rs, i), NEW row \in Row,
           \A i \in DOMAIN Append(rs, row) : Sequenced(Append(rs, row), i),
           NEW b, b # row.action
    PROVE  StepsOf(Append(rs, row), b) = StepsOf(rs, b)
<1> DEFINE r2 == Append(rs, row)
           n == Len(rs)
<1>1. /\ r2 \in Seq(Row) /\ Len(r2) = n + 1 /\ n \in Nat
      /\ \A i \in 1 .. n : r2[i] = rs[i]
      /\ r2[n + 1] = row
  BY AppendProperties, RowsAre
<1> HIDE DEF r2
<1>2. currentGenerationRows(rs, b)
        = {i \in 1 .. n :
             /\ rs[i].action = b
             /\ \A t \in 1 .. n : rs[t].action = b /\ rs[t].step = 0 => t <= i}
  BY CurrentFlat
<1>3. currentGenerationRows(r2, b)
        = {i \in 1 .. n + 1 :
             /\ r2[i].action = b
             /\ \A t \in 1 .. n + 1 : r2[t].action = b /\ r2[t].step = 0 => t <= i}
  <2>1. \A i \in DOMAIN r2 : Sequenced(r2, i)
    BY DEF r2
  <2>2. currentGenerationRows(r2, b)
          = {i \in 1 .. Len(r2) :
               /\ r2[i].action = b
               /\ \A t \in 1 .. Len(r2) : r2[t].action = b /\ r2[t].step = 0 => t <= i}
    BY <1>1, <2>1, CurrentFlat
  <2> QED BY <1>1, <2>2
<1>4. \A i \in 1 .. n + 1 : r2[i].action = b => i \in 1 .. n
  <2> TAKE i \in 1 .. n + 1
  <2>1. i = n + 1 \/ i \in 1 .. n
    BY <1>1
  <2> QED BY <1>1, <2>1
<1>5. \A i \in 1 .. n : i \in 1 .. n + 1 /\ r2[i] = rs[i]
  BY <1>1
<1>6. currentGenerationRows(r2, b) = currentGenerationRows(rs, b)
  BY <1>2, <1>3, <1>4, <1>5
<1>7. \A i \in currentGenerationRows(rs, b) : r2[i] = rs[i]
  BY <1>1, <1>2
<1>8. StepsOf(r2, b) = StepsOf(rs, b)
  BY <1>6, <1>7, SameSteps
<1> QED BY <1>8 DEF r2

\* A recorded row begins a route where none is open, and extends an open one.
LEMMA RecordExtends ==
    ASSUME NEW rs \in Seq(Row), validateLedger(rs),
           NEW a \in Actions, NEW revision \in Revisions, NEW step \in Nat,
           NEW provider \in Providers, NEW t \in Int,
           RecordAllowed(rs, Selected(rs, a, revision, step, provider, t)),
           validateLedger(Recorded(rs, Selected(rs, a, revision, step, provider, t)))
    PROVE  LET old == RouteOf(rs)
               new == RouteOf(Recorded(rs, Selected(rs, a, revision, step, provider, t)))
           IN  \/ /\ Routes!Ended(old[a])
                  /\ new = [old EXCEPT ![a] = <<Routes!Fresh(revision, provider)>>]
               \/ /\ ~Routes!Ended(old[a])
                  /\ new = [old EXCEPT ![a] = Append(@, Routes!Fresh(@[1].revision, provider))]
<1> DEFINE row == Selected(rs, a, revision, step, provider, t)
           r2 == Recorded(rs, row)
           n == Len(rs)
           current == currentGenerationRows(rs, a)
           N == Cardinality(current)
           old == StepsOf(rs, a)
           new == StepsOf(r2, a)
           Stepped == [revision : Revisions, choice : Providers, status : Statuses]
<1>1. row \in Row
  BY SelectedIsRow
<1>2. row.action = a /\ row.step = step /\ row.revision = revision
      /\ StepOf(row) = Routes!Fresh(revision, provider)
  BY DEF Selected, StepOf, Routes!Fresh
<1>3. (IF openSequence(rs, a)
       THEN (\A i \in current : rs[i].revision = revision) /\ step = N
       ELSE step = 0)
  BY <1>2 DEF RecordAllowed
<1>4. \A i \in DOMAIN rs : Sequenced(rs, i)
  BY DEF validateLedger
<1>5. \A i \in DOMAIN r2 : Sequenced(r2, i)
  BY DEF validateLedger
<1> HIDE DEF row
<1>6. /\ r2 \in Seq(Row) /\ Len(r2) = n + 1 /\ n \in Nat
      /\ \A i \in 1 .. n : r2[i] = rs[i]
      /\ r2[n + 1] = row
  BY <1>1, AppendProperties, RowsAre DEF Recorded
<1>7. \A b \in Actions : b # a => StepsOf(r2, b) = StepsOf(rs, b)
  BY <1>1, <1>2, <1>4, <1>5, RecordKeepsOthers DEF Recorded
<1> HIDE DEF r2
<1>8. RouteOf(r2) = [RouteOf(rs) EXCEPT ![a] = new] /\ RouteOf(rs)[a] = old
  BY <1>7 DEF RouteOf
<1>9. current
        = {i \in 1 .. n :
             /\ rs[i].action = a
             /\ \A u \in 1 .. n : rs[u].action = a /\ rs[u].step = 0 => u <= i}
  BY <1>4, CurrentFlat
<1>10. currentGenerationRows(r2, a)
        = {i \in 1 .. n + 1 :
             /\ r2[i].action = a
             /\ \A u \in 1 .. n + 1 : r2[u].action = a /\ r2[u].step = 0 => u <= i}
  <2>1. currentGenerationRows(r2, a)
          = {i \in 1 .. Len(r2) :
               /\ r2[i].action = a
               /\ \A u \in 1 .. Len(r2) : r2[u].action = a /\ r2[u].step = 0 => u <= i}
    BY <1>5, <1>6, CurrentFlat
  <2> QED BY <1>6, <2>1
<1>11. /\ IsFiniteSet(current) /\ N \in Nat /\ current \subseteq 1 .. n
       /\ \A i \in current : rs[i].step \in 0 .. N - 1
       /\ \A i, j \in current : rs[i].step = rs[j].step => i = j
       /\ \A k \in 1 .. N : At(rs, a, k) \in current /\ rs[At(rs, a, k)].step = k - 1
  BY <1>4, StepRows
<1>12. DOMAIN old = 1 .. N /\ \A k \in 1 .. N : old[k] = StepOf(rs[At(rs, a, k)])
  BY DEF StepsOf
<1>13. /\ DOMAIN new = 1 .. Cardinality(currentGenerationRows(r2, a))
       /\ \A k \in 1 .. Cardinality(currentGenerationRows(r2, a)) :
             /\ new[k] = StepOf(r2[At(r2, a, k)])
             /\ At(r2, a, k) \in currentGenerationRows(r2, a)
             /\ r2[At(r2, a, k)].step = k - 1
  <2>1. DOMAIN new = 1 .. Cardinality(currentGenerationRows(r2, a))
        /\ \A k \in 1 .. Cardinality(currentGenerationRows(r2, a)) :
              new[k] = StepOf(r2[At(r2, a, k)])
    BY DEF StepsOf
  <2>2. \A k \in 1 .. Cardinality(currentGenerationRows(r2, a)) :
           /\ At(r2, a, k) \in currentGenerationRows(r2, a)
           /\ r2[At(r2, a, k)].step = k - 1
    BY <1>5, <1>6, StepRows
  <2> QED BY <2>1, <2>2
<1>14. \A i \in 1 .. n : i \in 1 .. n + 1 /\ i < n + 1 /\ r2[i] = rs[i]
  BY <1>6
<1>15. \A i \in 1 .. n + 1 : i \in 1 .. n \/ i = n + 1
  BY <1>6
<1>16. n + 1 \in 1 .. n + 1 /\ n + 1 \notin 1 .. n
  BY <1>6
<1>17. \A i \in current : \E k \in 1 .. N : i = At(rs, a, k)
  <2> TAKE i \in current
  <2> DEFINE k == rs[i].step + 1
  <2>1. k \in 1 .. N /\ k - 1 = rs[i].step
    BY <1>11
  <2> HIDE DEF k
  <2>2. i = At(rs, a, k)
    BY <1>11, <2>1
  <2> QED BY <2>1, <2>2
<1>18. Routes!Ended(old) <=> \A i \in current : Superseded(rs, i)
  <2>1. Routes!Ended(old) <=> \A k \in 1 .. N : rs[At(rs, a, k)].status = "superseded"
    BY <1>12 DEF Routes!Ended, StepOf
  <2> QED BY <1>11, <1>17, <2>1 DEF Superseded
<1>19. CASE ~openSequence(rs, a)
  <2>1. Routes!Ended(old) /\ step = 0
    BY <1>3, <1>18, <1>19 DEF openSequence
  <2>2. currentGenerationRows(r2, a) = {n + 1}
    <3>1. n + 1 \in currentGenerationRows(r2, a)
      BY <1>2, <1>6, <1>10, <1>14, <1>15, <1>16
    <3>2. \A i \in 1 .. n : i \notin currentGenerationRows(r2, a)
      <4> SUFFICES ASSUME NEW i \in 1 .. n, i \in currentGenerationRows(r2, a) PROVE FALSE
        OBVIOUS
      <4>1. n + 1 <= i
        BY <1>2, <1>6, <1>10, <1>16, <2>1
      <4> QED BY <1>6, <4>1
    <3> QED BY <1>10, <1>15, <3>1, <3>2
  <2>3. Cardinality(currentGenerationRows(r2, a)) = 1
    BY <2>2, FS_Singleton, Zenon
  <2>4. At(r2, a, 1) = n + 1
    BY <1>13, <2>2, <2>3
  <2>5. DOMAIN new = 1 .. 1 /\ new[1] = StepOf(row)
    BY <1>6, <1>13, <2>3, <2>4
  <2>6. new = [k \in 1 .. 1 |-> StepOf(row)]
    <3>1. new = [k \in 1 .. 1 |-> new[k]]
      BY <2>3 DEF StepsOf
    <3> HIDE DEF new
    <3> QED BY <2>5, <3>1
  <2> HIDE DEF old, new
  <2>7. new = <<Routes!Fresh(revision, provider)>>
    BY <1>2, <2>6
  <2> QED BY <1>8, <2>1, <2>7 DEF r2, row
<1>20. CASE openSequence(rs, a)
  <2>1. ~Routes!Ended(old) /\ step = N /\ \A i \in current : rs[i].revision = revision
    BY <1>3, <1>18, <1>20 DEF openSequence
  <2>2. N # 0
    <3>1. current # {}
      BY <1>20 DEF openSequence
    <3> QED BY <1>11, <3>1, FS_EmptySet
  <2>3. currentGenerationRows(r2, a) = current \cup {n + 1}
    <3>1. n + 1 \in currentGenerationRows(r2, a)
      BY <1>2, <1>6, <1>10, <1>14, <1>15, <1>16
    <3>2. \A i \in 1 .. n : i \in currentGenerationRows(r2, a) <=> i \in current
      BY <1>2, <1>6, <1>9, <1>10, <1>14, <1>15, <2>1, <2>2
    <3> QED BY <1>10, <1>11, <1>15, <3>1, <3>2
  <2>4. Cardinality(currentGenerationRows(r2, a)) = N + 1
    <3>1. n + 1 \notin current
      BY <1>11, <1>16
    <3>2. Cardinality(current \cup {n + 1}) = Cardinality(current) + 1
      BY <1>11, <3>1, FS_AddElement
    <3> QED BY <2>3, <3>2
  <2>5. ASSUME NEW k \in 1 .. N PROVE new[k] = old[k]
    <3>1. k \in 1 .. N + 1 /\ k - 1 # N /\ k \in Nat
      BY <1>11
    <3>2. At(r2, a, k) \in current /\ r2[At(r2, a, k)].step = k - 1
          /\ new[k] = StepOf(r2[At(r2, a, k)])
      <4>1. At(r2, a, k) \in current \cup {n + 1} /\ r2[At(r2, a, k)].step = k - 1
            /\ new[k] = StepOf(r2[At(r2, a, k)])
        BY <1>13, <2>3, <2>4, <3>1
      <4>2. r2[n + 1].step = N
        BY <1>2, <1>6, <2>1
      <4> QED BY <3>1, <4>1, <4>2
    <3>3. r2[At(r2, a, k)] = rs[At(r2, a, k)]
      BY <1>6, <1>11, <3>2
    <3>4. At(r2, a, k) = At(rs, a, k)
      BY <1>11, <3>2, <3>3
    <3> QED BY <1>12, <3>2, <3>3, <3>4
  <2>6. new[N + 1] = StepOf(row)
    <3>2. At(r2, a, N + 1) \in current \cup {n + 1} /\ r2[At(r2, a, N + 1)].step = N
          /\ new[N + 1] = StepOf(r2[At(r2, a, N + 1)])
      <4> DEFINE k == N + 1
      <4>1. k \in 1 .. Cardinality(currentGenerationRows(r2, a)) /\ k - 1 = N
        <5>1. k \in 1 .. N + 1 /\ k - 1 = N
          BY <1>11
        <5> QED BY <2>4, <5>1
      <4> HIDE DEF k
      <4>2. At(r2, a, k) \in currentGenerationRows(r2, a) /\ r2[At(r2, a, k)].step = N
            /\ new[k] = StepOf(r2[At(r2, a, k)])
        BY <1>13, <4>1
      <4> HIDE DEF new, current, N
      <4> QED BY <2>3, <4>2 DEF k
    <3>3. \A i \in current : r2[i].step # N
      BY <1>6, <1>11
    <3>4. At(r2, a, N + 1) = n + 1
      BY <3>2, <3>3
    <3> QED BY <1>6, <3>2, <3>4
  <2>7. old[1].revision = revision
    <3>1. 1 \in 1 .. N
      BY <1>11, <2>2
    <3> QED BY <1>11, <1>12, <2>1, <3>1 DEF StepOf
  <2>8. old \in Seq(Stepped) /\ Len(old) = N
    <3>1. \A k \in 1 .. N : rs[At(rs, a, k)] \in Row
      BY <1>11, RowsAre
    <3>2. \A k \in 1 .. N : old[k] \in Stepped
      BY <1>12, <3>1 DEF StepOf, Row
    <3>3. old = [k \in 1 .. N |-> old[k]]
      BY DEF StepsOf
    <3> HIDE DEF old, N, Stepped
    <3>4. old \in [1 .. N -> Stepped]
      BY <3>2, <3>3
    <3> QED BY <1>11, <1>12, <3>4, IsASeq, LenProperties
  <2>9. Routes!Fresh(revision, provider) \in Stepped
    BY DEF Routes!Fresh, Statuses
  <2>10. new = Append(old, Routes!Fresh(revision, provider))
    <3>1. Append(old, Routes!Fresh(revision, provider)) = [k \in 1 .. N + 1 |->
              IF k = N + 1 THEN Routes!Fresh(revision, provider) ELSE old[k]]
      <4> DEFINE app == Append(old, Routes!Fresh(revision, provider))
      <4> HIDE DEF old, N, Stepped
      <4>1. /\ app \in Seq(Stepped) /\ Len(app) = N + 1
            /\ \A k \in 1 .. N : app[k] = old[k]
            /\ app[N + 1] = Routes!Fresh(revision, provider)
        BY <2>8, <2>9, AppendProperties
      <4> HIDE DEF app
      <4>2. app \in [1 .. N + 1 -> Stepped]
        BY <4>1, LenProperties
      <4>3. \A k \in 1 .. N + 1 : k \in 1 .. N \/ k = N + 1
        BY <1>11
      <4>4. \A k \in 1 .. N : k # N + 1
        BY <1>11
      <4>5. app = [k \in 1 .. N + 1 |->
                     IF k = N + 1 THEN Routes!Fresh(revision, provider) ELSE old[k]]
        BY <4>1, <4>2, <4>3, <4>4
      <4> QED BY <4>5 DEF app
    <3>2. new = [k \in 1 .. N + 1 |-> new[k]]
      BY <2>4 DEF StepsOf
    <3>3. \A k \in 1 .. N + 1 : k \in 1 .. N \/ k = N + 1
      BY <1>11
    <3>4. \A k \in 1 .. N : k # N + 1
      BY <1>11
    <3> HIDE DEF old, new, N
    <3> QED BY <1>2, <2>5, <2>6, <3>1, <3>2, <3>3, <3>4
  <2> HIDE DEF old, new
  <2> QED BY <1>8, <2>1, <2>7, <2>10 DEF r2, row
<1> QED BY <1>19, <1>20

LEMMA InitRoutes == Init => Routes!Init
<1> SUFFICES ASSUME Init PROVE Routes!Init
  OBVIOUS
<1>1. rows = << >>
  BY DEF Init
<1>2. ASSUME NEW a \in Actions PROVE Steps(a) = << >>
  <2>1. currentGenerationRows(rows, a) = {}
    <3>1. rows \in Seq(Row) /\ 1 .. Len(rows) = {}
      BY <1>1
    <3> QED BY <3>1, NoRows
  <2>2. Cardinality(currentGenerationRows(rows, a)) = 0
    BY <2>1, FS_EmptySet
  <2>3. 1 .. Cardinality(currentGenerationRows(rows, a)) = {}
    BY <2>2
  <2> QED BY <2>3 DEF Steps
<1> QED BY <1>2 DEF Routes!Init

\* Every write is a step of the abstract routes, or leaves them alone.
LEMMA NextRoutes ==
    ASSUME Valid, Valid', [Next]_vars
    PROVE  [Routes!Next]_([a \in Actions |-> Steps(a)])
<1> DEFINE route == [a \in Actions |-> Steps(a)]
<1>1. route = RouteOf(rows) /\ route' = RouteOf(rows')
  BY DEF RouteOf, StepsOf, StepOf, At, Steps
<1>2. now \in Int /\ rows \in Seq(Row) /\ validateLedger(rows)
  BY TimesAre DEF Valid
<1>3. ASSUME NEW a \in Actions, Record(a)
      PROVE  Routes!Begin(a) \/ Routes!Extend(a)
  <2>1. PICK revision \in Revisions, provider \in Providers, step \in 0 .. MaxRows :
           /\ RecordAllowed(rows, Selected(rows, a, revision, step, provider, now))
           /\ Commit(Recorded(rows, Selected(rows, a, revision, step, provider, now)))
    BY <1>3 DEF Record
  <2>2. step \in Nat
    BY LedgerAssumption
  <2>3. rows' = Recorded(rows, Selected(rows, a, revision, step, provider, now))
        /\ validateLedger(Recorded(rows, Selected(rows, a, revision, step, provider, now)))
    BY <2>1, CommitIs
  <2>4. \/ /\ Routes!Ended(RouteOf(rows)[a])
           /\ RouteOf(rows') = [RouteOf(rows) EXCEPT ![a] =
                                   <<Routes!Fresh(revision, provider)>>]
        \/ /\ ~Routes!Ended(RouteOf(rows)[a])
           /\ RouteOf(rows') = [RouteOf(rows) EXCEPT ![a] =
                                   Append(@, Routes!Fresh(@[1].revision, provider))]
    BY <1>2, <2>1, <2>2, <2>3, RecordExtends
  <2> HIDE DEF route
  <2> QED BY <1>1, <2>4 DEF Routes!Begin, Routes!Extend, route
<1>4. ASSUME NEW a \in Actions, AppendEvent(a)
      PROVE  Routes!Advance(a) \/ route' = route
  <2>1. PICK i \in currentGenerationRows(rows, a), kind \in Kinds :
           /\ EventAllowed(rows, i, kind, now)
           /\ Commit(EventAppended(rows, i, kind, now))
    BY <1>4 DEF AppendEvent
  <2>2. rows' = EventAppended(rows, i, kind, now)
        /\ validateLedger(EventAppended(rows, i, kind, now))
    BY <2>1, CommitIs
  <2>3. \/ RouteOf(EventAppended(rows, i, kind, now)) = RouteOf(rows)
        \/ Advanced(RouteOf(rows), RouteOf(EventAppended(rows, i, kind, now)), a)
    BY <1>2, <2>1, <2>2, EventAdvances
  <2>4. route' = route \/ Advanced(route, route', a)
    <3> HIDE DEF route
    <3> QED BY <1>1, <2>2, <2>3
  <2> QED BY <2>4 DEF Routes!Advance, Advanced
<1>5. ASSUME NEW a \in Actions, ResetAction(a)
      PROVE  Routes!Reset(a)
  <2>1. rows' = ActionReset(rows, a, now) /\ validateLedger(ActionReset(rows, a, now))
        /\ ResetAllowed(rows, a, now)
    BY <1>5, CommitIs DEF ResetAction
  <2>2. /\ RouteOf(rows)[a] # << >>
        /\ \A k \in DOMAIN RouteOf(rows)[a] :
              RouteOf(rows)[a][k].status \in {"selected", "dispatched", "failed"}
        /\ RouteOf(rows') = [RouteOf(rows) EXCEPT ![a] =
              [k \in DOMAIN @ |-> [@[k] EXCEPT !.status = "superseded"]]]
    BY <1>2, <2>1, ResetEnds
  <2> QED BY <1>1, <2>2 DEF Routes!Reset
<1>6. CASE UNCHANGED vars
  <2>1. rows' = rows
    BY <1>6 DEF vars
  <2>2. route' = route
    BY <1>1, <2>1
  <2> QED BY <2>2
<1>7. CASE \E a \in Actions : Record(a) \/ AppendEvent(a) \/ ResetAction(a)
  BY <1>3, <1>4, <1>5, <1>7 DEF Routes!Next
<1> QED BY <1>6, <1>7 DEF Next

\* The ledger implements the abstract routes, for any number of actions, rows and
\* writers: record begins a route only where none is open and extends an open one
\* step by step under its revision, an event moves one step's status forward, and a
\* reset ends every step of one route at once.
THEOREM RoutesImplemented == Spec => ImplementsRoutes
<1>1. Valid /\ Valid' /\ [Next]_vars => [Routes!Next]_([a \in Actions |-> Steps(a)])
  BY NextRoutes
<1> QED
  BY <1>1, InitRoutes, Invariant, PTL DEF Spec, ImplementsRoutes, Routes!Spec

===============================================================================

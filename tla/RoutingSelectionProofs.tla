------------------------ MODULE RoutingSelectionProofs ------------------------
(***************************************************************************)
(* What selection keeps to, whatever Tasks are routed, retried, reviewed   *)
(* and reset, whatever configurations the operator puts in place of each   *)
(* other and whatever cools down meanwhile: floors of tiers, the order of  *)
(* recovery, the shares of the providers, and the agreement of the checks. *)
(*                                                                         *)
(* The first part is about selectCandidate alone: the floors, gates, best  *)
(* candidates and winner of any input it accepts (SoundInput), with the    *)
(* sums and orders those are computed with.  The second is about the       *)
(* projected history, whose places are those of the kept rows in their     *)
(* order (HistoryIs).  The third is the inductive invariant about the      *)
(* ledger (IInv), and one description of what any step does to it (Stand,  *)
(* Records), from which each property of the new row follows.  The last is *)
(* about what selection and ledger recheck: every workload derived, every  *)
(* route recorded and every selection made passes those checks.            *)
(***************************************************************************)
EXTENDS RoutingSelection, SequenceTheorems, FiniteSetTheorems, WellFoundedInduction,
        TLAPS

-------------------------------------------------------------------------------
(* Numbers and finite sets *)

\* Induction: a set of numbers with 0 and with the next of each of its numbers has
\* them all, since the least number it lacks would have to be one of those.
LEMMA Induction ==
    ASSUME NEW T, 0 \in T, \A n \in Nat : n \in T => n + 1 \in T
    PROVE  Nat \subseteq T
<1> SUFFICES ASSUME Nat \ T # {} PROVE FALSE
  OBVIOUS
<1> DEFINE Lacking == Nat \ T
           R == OpToRel(<, Nat)
<1>1. PICK x \in Lacking : \A y \in Lacking : ~ (<<y, x>> \in R)
  <2>1. IsWellFoundedOn(R, Nat)
    BY NatLessThanWellFounded, Zenon
  <2> HIDE DEF R
  <2> QED BY <2>1, WFMin
<1>2. x \in Nat /\ x # 0 /\ x - 1 \in Nat /\ (x - 1) + 1 = x
  OBVIOUS
<1>3. x - 1 \in Lacking
  BY <1>2
<1>4. <<x - 1, x>> \in R
  BY <1>2 DEF R, OpToRel
<1> QED BY <1>1, <1>3, <1>4

\* Of a finite set, one is above all in an order.
LEMMA MaximalExists ==
    ASSUME NEW S, IsFiniteSet(S), S # {}, NEW R,
           \A x \in S : <<x, x>> \notin R,
           \A x, y, z \in S : <<x, y>> \in R /\ <<y, z>> \in R => <<x, z>> \in R
    PROVE  \E x \in S : \A y \in S : <<y, x>> \notin R
<1> DEFINE Tops(U) == {x \in U : \A y \in U : <<y, x>> \notin R}
           T == {n \in Nat : \A U \in SUBSET S :
                    U # {} /\ Cardinality(U) = n => Tops(U) # {}}
<1>1. 0 \in T
  <2> SUFFICES ASSUME NEW U \in SUBSET S, U # {}, Cardinality(U) = 0 PROVE FALSE
    OBVIOUS
  <2>1. IsFiniteSet(U)
    BY FS_Subset
  <2> QED BY <2>1, FS_EmptySet
<1>2. ASSUME NEW n \in Nat, n \in T
      PROVE  n + 1 \in T
  <2> SUFFICES ASSUME NEW U \in SUBSET S, U # {}, Cardinality(U) = n + 1
               PROVE  Tops(U) # {}
    OBVIOUS
  <2>1. IsFiniteSet(U)
    BY FS_Subset
  <2>2. PICK x \in U : TRUE
    OBVIOUS
  <2> DEFINE V == U \ {x}
  <2>3. Cardinality(V) = n
    BY <2>1, <2>2, FS_RemoveElement
  <2>4. CASE V = {}
    <3>1. x \in Tops(U)
      BY <2>4
    <3> QED BY <3>1
  <2>5. CASE V # {}
    <3>1. PICK v \in Tops(V) : TRUE
      <4>1. V \in SUBSET S
        OBVIOUS
      <4> HIDE DEF V, Tops
      <4> QED BY <1>2, <2>3, <2>5, <4>1
    <3>2. CASE <<x, v>> \in R
      <4>1. x \in Tops(U)
        <5> SUFFICES ASSUME NEW y \in U, <<y, x>> \in R PROVE FALSE
          OBVIOUS
        <5>1. y # x
          OBVIOUS
        <5>2. <<y, v>> \in R
          BY <3>1, <3>2
        <5> QED BY <3>1, <5>1, <5>2
      <4> QED BY <4>1
    <3>3. CASE <<x, v>> \notin R
      <4>1. v \in Tops(U)
        BY <3>1, <3>3
      <4> QED BY <4>1
    <3> QED BY <3>2, <3>3
  <2> QED BY <2>4, <2>5
<1>3. Cardinality(S) \in T
  <2>1. Cardinality(S) \in Nat
    BY FS_CardinalityType
  <2> HIDE DEF T
  <2> QED BY <1>1, <1>2, <2>1, Induction
<1> QED BY <1>3

LEMMA MaxIs ==
    ASSUME NEW S \in SUBSET Int, IsFiniteSet(S), S # {}
    PROVE  Max(S) \in S /\ \A x \in S : x <= Max(S)
<1> DEFINE R == {p \in Int \X Int : p[1] > p[2]}
<1>1. \A x, y \in S : <<x, y>> \in R <=> x > y
  OBVIOUS
<1> HIDE DEF R
<1>2. \E x \in S : \A y \in S : <<y, x>> \notin R
  <2>1. /\ \A x \in S : <<x, x>> \notin R
        /\ \A x, y, z \in S : <<x, y>> \in R /\ <<y, z>> \in R => <<x, z>> \in R
    BY <1>1
  <2> QED BY <2>1, MaximalExists
<1>3. \E x \in S : \A y \in S : x >= y
  <2>1. PICK x \in S : \A y \in S : <<y, x>> \notin R
    BY <1>2
  <2>2. \A y \in S : y \in Int /\ x \in Int /\ ~(y > x)
    BY <1>1, <2>1
  <2>3. \A y \in S : x >= y
    BY <2>2
  <2> QED BY <2>3
<1> QED BY <1>3 DEF Max

LEMMA MinIs ==
    ASSUME NEW S \in SUBSET Int, IsFiniteSet(S), S # {}
    PROVE  Min(S) \in S /\ \A x \in S : Min(S) <= x
<1> DEFINE R == {p \in Int \X Int : p[1] < p[2]}
<1>1. \A x, y \in S : <<x, y>> \in R <=> x < y
  OBVIOUS
<1> HIDE DEF R
<1>2. \E x \in S : \A y \in S : <<y, x>> \notin R
  <2>1. /\ \A x \in S : <<x, x>> \notin R
        /\ \A x, y, z \in S : <<x, y>> \in R /\ <<y, z>> \in R => <<x, z>> \in R
    BY <1>1
  <2> QED BY <2>1, MaximalExists
<1>3. \E x \in S : \A y \in S : x <= y
  <2>1. PICK x \in S : \A y \in S : <<y, x>> \notin R
    BY <1>2
  <2>2. \A y \in S : y \in Int /\ x \in Int /\ ~(y < x)
    BY <1>1, <2>1
  <2>3. \A y \in S : x <= y
    BY <2>2
  <2> QED BY <2>3
<1> QED BY <1>3 DEF Min

LEMMA MaxOfPair ==
    ASSUME NEW a \in Int, NEW b \in Int
    PROVE  Max({a, b}) \in {a, b} /\ Max({a, b}) >= a /\ Max({a, b}) >= b
<1>1. IsFiniteSet({a, b})
  <2>1. IsFiniteSet({a}) /\ IsFiniteSet({b}) /\ {a, b} = {a} \cup {b}
    BY FS_Singleton
  <2> QED BY <2>1, FS_Union
<1> QED BY <1>1, MaxIs

\* The fitness vectors compare as an order.
Vectors == [1 .. 5 -> Int]

LEMMA BetterOrders ==
    /\ \A u \in Vectors : ~Better(u, u)
    /\ \A u, v, w \in Vectors : Better(u, v) /\ Better(v, w) => Better(u, w)
<1>1. \A u \in Vectors : ~Better(u, u)
  BY DEF Better, Vectors
<1>2. ASSUME NEW u \in Vectors, NEW v \in Vectors, NEW w \in Vectors, Better(u, v), Better(v, w)
      PROVE  Better(u, w)
  <2>1. PICK i \in 1 .. 5 : u[i] > v[i] /\ \A j \in 1 .. i - 1 : u[j] = v[j]
    BY <1>2 DEF Better, Vectors
  <2>2. PICK k \in 1 .. 5 : v[k] > w[k] /\ \A j \in 1 .. k - 1 : v[j] = w[j]
    BY <1>2 DEF Better, Vectors
  <2>3. \A n \in 1 .. 5 : u[n] \in Int /\ v[n] \in Int /\ w[n] \in Int
    BY DEF Vectors
  <2>4. PICK m \in {i, k} : m <= i /\ m <= k
    OBVIOUS
  <2>5. u[m] > w[m]
    BY <2>1, <2>2, <2>3, <2>4
  <2>6. \A j \in 1 .. m - 1 : u[j] = w[j]
    BY <2>1, <2>2, <2>4
  <2>7. m \in DOMAIN u
    BY <2>4 DEF Vectors
  <2> QED BY <2>5, <2>6, <2>7 DEF Better
<1> QED BY <1>1, <1>2

LEMMA ImageFinite ==
    ASSUME NEW f, IsFiniteSet(DOMAIN f)
    PROVE  IsFiniteSet({f[x] : x \in DOMAIN f})
<1> DEFINE S == DOMAIN f
           T == {f[x] : x \in S}
           g == [x \in S |-> f[x]]
<1>1. g \in Surjection(S, T)
  BY DEF Surjection
<1> HIDE DEF g, T, S
<1>2. IsFiniteSet(S)
  BY DEF S
<1>3. IsFiniteSet(T)
  BY <1>1, <1>2, FS_Surjection
<1> QED BY <1>3 DEF T, S

-------------------------------------------------------------------------------
(* Sums, as cardinalities *)

Tickets(f) == UNION {{p} \X (1 .. f[p]) : p \in DOMAIN f}

LEMMA TicketsFinite ==
    ASSUME NEW f, IsFiniteSet(DOMAIN f), \A p \in DOMAIN f : f[p] \in Nat
    PROVE  /\ IsFiniteSet(Tickets(f)) /\ Total(f) = Cardinality(Tickets(f))
           /\ Total(f) \in Nat
           /\ \A p, k : <<p, k>> \in Tickets(f) <=> p \in DOMAIN f /\ k \in 1 .. f[p]
<1> DEFINE g == [p \in DOMAIN f |-> {p} \X (1 .. f[p])]
           C == {g[p] : p \in DOMAIN g}
<1>1. DOMAIN g = DOMAIN f /\ Tickets(f) = UNION C
  BY DEF Tickets
<1>2. IsFiniteSet(C)
  <2>1. IsFiniteSet(DOMAIN g)
    BY <1>1
  <2> HIDE DEF g
  <2> QED BY <2>1, ImageFinite
<1>3. ASSUME NEW x \in C PROVE IsFiniteSet(x)
  <2>1. PICK p \in DOMAIN f : x = {p} \X (1 .. f[p])
    BY <1>1
  <2>2. IsFiniteSet({p})
    BY FS_Singleton
  <2>3. IsFiniteSet(1 .. f[p])
    <3>1. f[p] \in Int /\ 1 \in Int
      OBVIOUS
    <3> HIDE DEF g
    <3> QED BY <3>1, FS_Interval
  <2> QED BY <2>1, <2>2, <2>3, FS_Product
<1>4. IsFiniteSet(UNION C)
  <2> HIDE DEF C
  <2> QED BY <1>2, <1>3, FS_UNION
<1>5. \A p, k : <<p, k>> \in Tickets(f) <=> p \in DOMAIN f /\ k \in 1 .. f[p]
  BY DEF Tickets
<1>6. Total(f) = Cardinality(Tickets(f))
  BY DEF Total, Tickets
<1> QED BY <1>1, <1>4, <1>5, <1>6, FS_CardinalityType

-------------------------------------------------------------------------------
(* A configuration *)

LEMMA ConfigIs ==
    ASSUME NEW c \in Configs
    PROVE  /\ c.tiers # {} /\ IsFiniteSet(c.tiers) /\ c.tiers \subseteq Nat \ {0}
           /\ c.high \in c.tiers
           /\ DOMAIN c.candidates # {} /\ IsFiniteSet(DOMAIN c.candidates)
           /\ DOMAIN c.candidates \subseteq Nat
           /\ \A id \in DOMAIN c.candidates :
                 LET x == c.candidates[id] IN
                 /\ x.tier \in c.tiers /\ x.provider \in Nat /\ x.context \in Nat
                 /\ x.cost \in Nat /\ x.latency \in Nat /\ IsFiniteSet(x.capabilities)
                 /\ x.provider \in DOMAIN c.weights
           /\ DOMAIN c.weights \subseteq Nat /\ IsFiniteSet(DOMAIN c.weights)
           /\ DOMAIN c.weights # {}
           /\ \A p \in DOMAIN c.weights : c.weights[p] \in Nat \ {0}
           /\ c.window \in Nat \ {0} /\ c.fallbacks \in Nat \ {0}
           /\ c.escalations \in Nat \ {0}
<1>1. validateTiers(c) /\ validateCandidates(c) /\ validatePolicy(c)
  BY ConfigsAssumption DEF validateRoutingConfig
<1>2. /\ DOMAIN c.candidates # {} /\ IsFiniteSet(DOMAIN c.candidates)
      /\ \A id \in DOMAIN c.candidates :
            LET x == c.candidates[id] IN
            /\ x.tier \in c.tiers /\ x.provider \in Nat /\ x.context \in Nat
            /\ x.cost \in Nat /\ x.latency \in Nat /\ IsFiniteSet(x.capabilities)
            /\ id \in Nat
  BY <1>1 DEF validateCandidates
<1>3. /\ DOMAIN c.weights = {c.candidates[id].provider : id \in DOMAIN c.candidates}
      /\ \A p \in DOMAIN c.weights : c.weights[p] \in Nat \ {0}
      /\ c.window \in Nat \ {0} /\ c.fallbacks \in Nat \ {0}
      /\ c.escalations \in Nat \ {0} /\ c.high \in c.tiers
  BY <1>1 DEF validatePolicy
<1>4. IsFiniteSet(DOMAIN c.weights)
  <2> DEFINE g == [id \in DOMAIN c.candidates |-> c.candidates[id].provider]
  <2>1. DOMAIN g = DOMAIN c.candidates /\ DOMAIN c.weights = {g[x] : x \in DOMAIN g}
    BY <1>3
  <2> HIDE DEF g
  <2> QED BY <1>2, <2>1, ImageFinite
<1> QED BY <1>1, <1>2, <1>3, <1>4 DEF validateTiers

LEMMA WeightIs ==
    ASSUME NEW c \in Configs
    PROVE  totalWeight(c) \in Nat
BY ConfigIs, TicketsFinite DEF totalWeight

-------------------------------------------------------------------------------
(* The floors *)

\* What selectCandidate is given: a configuration of the operator, the projected
\* history, a workload whose capabilities can be listed.
SoundInput(in) ==
    /\ in.config \in Configs
    /\ IsFiniteSet(in.workload.capabilities)
    /\ \E S : in.history \in Seq(S)
    /\ Accepted(in)

LEMMA MinimumIs ==
    ASSUME NEW in, SoundInput(in)
    PROVE  /\ in.workload.minimum \in in.config.tiers
           /\ in.workload.rejections # {} => in.workload.minimum = in.config.high
<1> DEFINE T == in.config.tiers
<1>1. /\ T # {} /\ IsFiniteSet(T) /\ T \in SUBSET Int /\ in.config.high \in T
  BY ConfigIs DEF SoundInput
<1>2. in.workload.minimum = IF in.workload.rejections = {}
                            THEN CHOOSE t \in T : \A u \in T : t <= u
                            ELSE in.config.high
  BY DEF SoundInput, Accepted, validateWorkload
<1>3. \E t \in T : \A u \in T : t <= u
  BY <1>1, MinIs
<1> QED BY <1>1, <1>2, <1>3

LEMMA FloorsAre ==
    ASSUME NEW in, SoundInput(in)
    PROVE  /\ baseMinRank(in) \in in.config.tiers
           /\ reviewerFloorRank(in) \in in.config.tiers \cup {0}
           /\ recoveryFloorRank(in) \in Nat
           /\ Recovering(in, EscalationReasons) =>
                 \/ recoveryFloorRank(in) > Tier(in, in.recovery.previous)
                 \/ \A t \in in.config.tiers : t < recoveryFloorRank(in)
           /\ recoveryFloorRank(in) \in in.config.tiers \cup {0}
                 \/ \A t \in in.config.tiers : t < recoveryFloorRank(in)
<1> DEFINE T == in.config.tiers
<1>1. /\ in.config \in Configs /\ T # {} /\ IsFiniteSet(T) /\ T \subseteq Nat /\ T \in SUBSET Int
      /\ in.config.high \in T /\ in.workload.minimum \in T
  <2>1. in.config \in Configs
    BY DEF SoundInput
  <2> QED BY <2>1, ConfigIs, MinimumIs
<1>2. baseMinRank(in) \in T
  <2>1. Max({in.workload.minimum, in.config.high})
           \in {in.workload.minimum, in.config.high}
    <3>1. in.workload.minimum \in Int /\ in.config.high \in Int
      BY <1>1
    <3> QED BY <3>1, MaxOfPair
  <2> QED BY <1>1, <2>1 DEF baseMinRank
<1>3. reviewerFloorRank(in) \in T \cup {0}
  <2>1. in.implementer # None =>
           /\ in.implementer.candidate \in DOMAIN in.config.candidates
           /\ in.config.candidates[in.implementer.candidate].tier = in.implementer.tier
    BY DEF SoundInput, Accepted, validateImplementerDecision
  <2>2. in.implementer # None => in.implementer.tier \in T
    BY <1>1, <2>1, ConfigIs
  <2> QED BY <1>1, <2>2 DEF reviewerFloorRank
<1> DEFINE above == {t \in T : t > Tier(in, in.recovery.previous)}
           floor == recoveryFloorRank(in)
<1>4. floor = IF ~Recovering(in, EscalationReasons) THEN 0
              ELSE IF above = {} THEN Max(T) + 1 ELSE Min(above)
  BY DEF recoveryFloorRank
<1>5. Max(T) \in T /\ \A t \in T : t <= Max(T)
  BY <1>1, MaxIs
<1>6. above # {} => Min(above) \in above
  <2>1. above \in SUBSET Int /\ IsFiniteSet(above)
    BY <1>1, FS_Subset
  <2> HIDE DEF above
  <2> QED BY <2>1, MinIs
<1>7. Min(above) \in above => Min(above) \in T /\ Min(above) > Tier(in, in.recovery.previous)
  OBVIOUS
<1>8. \A t \in T : t < Max(T) + 1
  BY <1>1, <1>5
<1> HIDE DEF above, floor
<1>9. floor \in Nat
  BY <1>1, <1>4, <1>5, <1>6, <1>7
<1>10. Recovering(in, EscalationReasons) =>
          floor > Tier(in, in.recovery.previous) \/ \A t \in T : t < floor
  BY <1>4, <1>6, <1>7, <1>8
<1>11. floor \in T \cup {0} \/ \A t \in T : t < floor
  BY <1>4, <1>6, <1>7, <1>8
<1> QED BY <1>2, <1>3, <1>9, <1>10, <1>11 DEF floor

LEMMA PairFinite == \A a, b : IsFiniteSet({a, b})
<1> SUFFICES ASSUME NEW a, NEW b PROVE IsFiniteSet({a, b})
  OBVIOUS
<1>1. IsFiniteSet({a}) /\ IsFiniteSet({b}) /\ {a, b} = {a} \cup {b}
  BY FS_Singleton
<1> QED BY <1>1, FS_Union

\* The floor of a selection is one of its floors, or the lowest tier left.
LEMMA RequiredFloor ==
    ASSUME NEW in, SoundInput(in), NEW E \in SUBSET DOMAIN in.config.candidates, E # {}
    PROVE  LET floor == requiredFloorRank(in, E)
           IN  /\ floor \in Int
               /\ floor >= baseMinRank(in)
               /\ \/ floor \in {baseMinRank(in), reviewerFloorRank(in), recoveryFloorRank(in)}
                  \/ /\ floor \in {Tier(in, c) : c \in E}
                     /\ \A c \in E : floor <= Tier(in, c)
<1> DEFINE Three == {baseMinRank(in), reviewerFloorRank(in), recoveryFloorRank(in)}
           Tiers == {Tier(in, c) : c \in E}
           More == IF Recovering(in, FallbackReasons) THEN {Min(Tiers)} ELSE {}
           floor == requiredFloorRank(in, E)
<1>1. in.config \in Configs
  BY DEF SoundInput
<1>2. Three \subseteq Int /\ IsFiniteSet(Three)
  <2>1. Three \subseteq Int
    BY <1>1, FloorsAre, ConfigIs
  <2>2. Three = {baseMinRank(in)} \cup {reviewerFloorRank(in), recoveryFloorRank(in)}
    OBVIOUS
  <2>3. IsFiniteSet({baseMinRank(in)})
           /\ IsFiniteSet({reviewerFloorRank(in), recoveryFloorRank(in)})
    BY PairFinite, FS_Singleton
  <2> HIDE DEF Three
  <2> QED BY <2>1, <2>2, <2>3, FS_Union
<1>3. Tiers \in SUBSET Int /\ IsFiniteSet(Tiers) /\ Tiers # {}
  <2> DEFINE g == [c \in E |-> Tier(in, c)]
  <2>1. DOMAIN g = E /\ Tiers = {g[x] : x \in DOMAIN g}
    OBVIOUS
  <2>2. IsFiniteSet(E)
    BY <1>1, ConfigIs, FS_Subset
  <2>3. IsFiniteSet(Tiers)
    <3> HIDE DEF g, Tiers
    <3> QED BY <2>1, <2>2, ImageFinite
  <2> QED BY <1>1, <2>3, ConfigIs DEF Tier
<1>4. Min(Tiers) \in Tiers /\ \A x \in Tiers : Min(Tiers) <= x
  <2> HIDE DEF Tiers
  <2> QED BY <1>3, MinIs
<1>5. floor = Max(Three \cup More)
  BY DEF requiredFloorRank
<1>6. More \subseteq Int /\ IsFiniteSet(More)
  <2>1. IsFiniteSet({}) /\ IsFiniteSet({Min(Tiers)})
    BY FS_EmptySet, FS_Singleton
  <2> HIDE DEF Tiers
  <2> QED BY <1>3, <1>4, <2>1
<1>7. floor \in Three \cup More /\ \A x \in Three : x <= floor
  <2>1. Three # {}
    OBVIOUS
  <2> HIDE DEF Three, More, floor
  <2>2. Three \cup More \in SUBSET Int /\ IsFiniteSet(Three \cup More)
           /\ Three \cup More # {}
    BY <1>2, <1>6, <2>1, FS_Union
  <2> QED BY <1>5, <2>2, MaxIs
<1>8. floor \in Int /\ baseMinRank(in) \in Int
  <2> HIDE DEF More, floor
  <2> QED BY <1>2, <1>6, <1>7
<1>9. floor \in Three \/ (floor \in Tiers /\ \A x \in Tiers : floor <= x)
  <2> HIDE DEF Three, Tiers, floor
  <2> QED BY <1>4, <1>7
<1>10. floor >= baseMinRank(in)
  <2> HIDE DEF floor
  <2> QED BY <1>7, <1>8
<1> QED BY <1>8, <1>9, <1>10

\* Some eligible candidate is best.
LEMMA BestExists ==
    ASSUME NEW in, SoundInput(in), NEW E \in SUBSET DOMAIN in.config.candidates, E # {}
    PROVE  equivalent(in, E) # {} /\ equivalent(in, E) \subseteq E
<1> DEFINE floor == requiredFloorRank(in, E)
           vector == [c \in E |-> fitnessVector(in, c, floor)]
           R == {p \in E \X E : Better(vector[p[1]], vector[p[2]])}
<1>1. in.config \in Configs /\ IsFiniteSet(in.workload.capabilities)
  BY DEF SoundInput
<1>2. floor \in Int
  BY RequiredFloor
<1>3. ASSUME NEW c \in E PROVE vector[c] \in Vectors
  <2> DEFINE x == in.config.candidates[c]
             a == IF in.implementer # None /\ x.provider # in.implementer.provider
                  THEN 1 ELSE 0
             b == Cardinality(in.workload.capabilities) - Cardinality(x.capabilities)
  <2>1. x.tier \in Int /\ x.latency \in Int /\ x.cost \in Int /\ IsFiniteSet(x.capabilities)
    BY <1>1, ConfigIs
  <2>2. b \in Int
    <3>1. Cardinality(in.workload.capabilities) \in Nat /\ Cardinality(x.capabilities) \in Nat
      BY <1>1, <2>1, FS_CardinalityType
    <3> QED BY <3>1
  <2>3. vector[c] = <<a, floor - x.tier, b, 0 - x.latency, 0 - x.cost>>
    BY DEF fitnessVector
  <2>4. a \in Int
    OBVIOUS
  <2> HIDE DEF x, a, b, floor, vector
  <2>5. floor - x.tier \in Int /\ 0 - x.latency \in Int /\ 0 - x.cost \in Int
    BY <1>2, <2>1
  <2> QED BY <2>2, <2>3, <2>4, <2>5 DEF Vectors
<1> HIDE DEF vector, floor
<1>4. \A c, d \in E : <<c, d>> \in R <=> Better(vector[c], vector[d])
  OBVIOUS
<1>5. /\ \A x \in E : <<x, x>> \notin R
      /\ \A x, y, z \in E : <<x, y>> \in R /\ <<y, z>> \in R => <<x, z>> \in R
  <2> HIDE DEF R
  <2> QED BY <1>3, <1>4, BetterOrders
<1>6. \E x \in E : \A y \in E : <<y, x>> \notin R
  <2>1. IsFiniteSet(E)
    BY <1>1, ConfigIs, FS_Subset
  <2> HIDE DEF R
  <2> QED BY <1>5, <2>1, MaximalExists
<1>7. equivalent(in, E) = {c \in E : \A d \in E : ~Better(vector[d], vector[c])}
  BY DEF equivalent, vector, floor
<1> QED BY <1>4, <1>6, <1>7

\* What the shares are computed from.
LEMMA CountsAre ==
    ASSUME NEW in, SoundInput(in)
    PROVE  /\ windowRows(in) \subseteq DOMAIN in.history /\ IsFiniteSet(windowRows(in))
           /\ Cardinality(windowRows(in)) \in Nat
           /\ DOMAIN countByProvider(in) = DOMAIN in.config.weights
           /\ \A p \in DOMAIN in.config.weights :
                 countByProvider(in)[p] \in Nat /\ deficit(in, p) \in Int
<1>1. windowRows(in) \subseteq DOMAIN in.history
  BY DEF windowRows
<1>2. IsFiniteSet(DOMAIN in.history)
  <2>1. PICK S : in.history \in Seq(S)
    BY DEF SoundInput
  <2>2. DOMAIN in.history = 1 .. Len(in.history) /\ Len(in.history) \in Int /\ 1 \in Int
    BY <2>1
  <2> QED BY <2>2, FS_Interval
<1>3. IsFiniteSet(windowRows(in)) /\ Cardinality(windowRows(in)) \in Nat
  BY <1>1, <1>2, FS_Subset, FS_CardinalityType
<1>4. DOMAIN countByProvider(in) = DOMAIN in.config.weights
  BY DEF countByProvider
<1>5. ASSUME NEW p \in DOMAIN in.config.weights
      PROVE  countByProvider(in)[p] \in Nat /\ deficit(in, p) \in Int
  <2> DEFINE C == {i \in windowRows(in) : in.history[i].provider = p}
  <2>1. countByProvider(in)[p] = Cardinality(C)
    BY DEF countByProvider
  <2>2. Cardinality(C) \in Nat
    BY <1>3, FS_Subset, FS_CardinalityType
  <2>3. in.config \in Configs /\ in.config.weights[p] \in Nat /\ totalWeight(in.config) \in Nat
    BY ConfigIs, WeightIs DEF SoundInput
  <2>4. deficit(in, p) = Cardinality(windowRows(in)) * in.config.weights[p]
                            - countByProvider(in)[p] * totalWeight(in.config)
    BY DEF deficit
  <2> HIDE DEF C
  <2>5. Cardinality(windowRows(in)) * in.config.weights[p] \in Int
           /\ countByProvider(in)[p] * totalWeight(in.config) \in Int
    BY <1>3, <2>1, <2>2, <2>3
  <2> QED BY <2>1, <2>2, <2>4, <2>5
<1> QED BY <1>1, <1>3, <1>4, <1>5

\* The winner is among the best, and no provider of those is owed more.
LEMMA ChosenIn ==
    ASSUME NEW in, SoundInput(in), NEW B \in SUBSET DOMAIN in.config.candidates, B # {}
    PROVE  /\ chosenEntry(in, B) \in B
           /\ \A c \in B : deficit(in, Provider(in, c))
                              <= deficit(in, Provider(in, chosenEntry(in, B)))
<1> DEFINE P == {Provider(in, c) : c \in B}
           R == {x \in P \X P : deficit(in, x[1]) > deficit(in, x[2])}
           Most == {p \in P : \A q \in P : deficit(in, q) <= deficit(in, p)}
<1>1. in.config \in Configs
  BY DEF SoundInput
<1>2. P \subseteq DOMAIN in.config.weights /\ P \subseteq Int /\ IsFiniteSet(P) /\ P # {}
  <2> DEFINE g == [c \in B |-> Provider(in, c)]
  <2>1. DOMAIN g = B /\ P = {g[x] : x \in DOMAIN g}
    OBVIOUS
  <2>2. IsFiniteSet(B)
    BY <1>1, ConfigIs, FS_Subset
  <2>3. IsFiniteSet(P)
    <3> HIDE DEF g, P
    <3> QED BY <2>1, <2>2, ImageFinite
  <2> QED BY <1>1, <2>3, ConfigIs DEF Provider
<1>3. \A p \in P : deficit(in, p) \in Int
  <2> HIDE DEF P
  <2> QED BY <1>2, CountsAre
<1>4. Most # {}
  <2> HIDE DEF P
  <2>1. \A x, y \in P : <<x, y>> \in R <=> deficit(in, x) > deficit(in, y)
    OBVIOUS
  <2> HIDE DEF R
  <2>2. /\ \A x \in P : <<x, x>> \notin R
        /\ \A x, y, z \in P : <<x, y>> \in R /\ <<y, z>> \in R => <<x, z>> \in R
    BY <1>3, <2>1
  <2>3. PICK p \in P : \A q \in P : <<q, p>> \notin R
    BY <1>2, <2>2, MaximalExists
  <2>4. \A q \in P : deficit(in, q) <= deficit(in, p)
    <3> TAKE q \in P
    <3>1. ~(deficit(in, q) > deficit(in, p))
      BY <2>1, <2>3
    <3>2. deficit(in, q) \in Int /\ deficit(in, p) \in Int
      BY <1>3
    <3> HIDE DEF R
    <3> QED BY <3>1, <3>2
  <2> QED BY <2>3, <2>4
<1>5. Min(Most) \in Most
  <2>1. Most \in SUBSET Int /\ IsFiniteSet(Most)
    <3> HIDE DEF P
    <3> QED BY <1>2, FS_Subset
  <2> HIDE DEF Most
  <2> QED BY <1>4, <2>1, MinIs
<1> DEFINE C == {c \in B : Provider(in, c) = Min(Most)}
<1>6. C # {}
  <2>1. Min(Most) \in P
    BY <1>5
  <2> HIDE DEF Most
  <2> QED BY <2>1
<1>7. C \in SUBSET Int /\ IsFiniteSet(C)
  <2> HIDE DEF Most
  <2> QED BY <1>1, ConfigIs, FS_Subset
<1>8. Min(C) \in C
  <2> HIDE DEF C
  <2> QED BY <1>6, <1>7, MinIs
<1>9. chosenEntry(in, B) = Min(C)
  BY DEF chosenEntry
<1>10. Provider(in, Min(C)) \in Most /\ Min(C) \in B
  <2> HIDE DEF Most
  <2> QED BY <1>5, <1>8
<1> QED BY <1>9, <1>10

\* The gates of whoever may take the step, and of a candidate the operator pinned.
LEMMA GatesPassed ==
    ASSUME NEW in, SoundInput(in), NEW c \in DOMAIN in.config.candidates,
           routedConsidered(in)[c] \subseteq Displaceable
    PROVE  /\ routedConsidered(in)[c] = considered(in)[c]
           /\ Tier(in, c) >= baseMinRank(in)
           /\ Tier(in, c) >= reviewerFloorRank(in)
           /\ Tier(in, c) >= recoveryFloorRank(in)
           /\ in.key.role \in in.config.candidates[c].roles
           /\ c \notin priorCandidates(in)
           /\ in.workload.capabilities \subseteq in.config.candidates[c].capabilities
<1>1. DOMAIN considered(in) = DOMAIN in.config.candidates
  BY DEF considered
<1>2. routedConsidered(in)[c] \in {{"recovery_order"}, considered(in)[c]}
  <2>1. CASE ~Recovering(in, FallbackReasons)
    BY <2>1 DEF routedConsidered
  <2>2. CASE Recovering(in, FallbackReasons)
    BY <1>1, <2>2 DEF routedConsidered
  <2> QED BY <2>1, <2>2
<1>3. routedConsidered(in)[c] = considered(in)[c]
  BY <1>2 DEF Displaceable
<1>4. considered(in)[c] = {g \in Gates : GateFails(in, Floors(in), c, g)}
  BY DEF considered
<1>5. \A g \in Gates \ Displaceable : ~GateFails(in, Floors(in), c, g)
  BY <1>3, <1>4
<1>6. /\ "tier_below_minimum" \in Gates \ Displaceable
      /\ "tier_below_reviewer_floor" \in Gates \ Displaceable
      /\ "tier_below_recovery_floor" \in Gates \ Displaceable
  BY DEF Gates, Displaceable
<1>7. \A g \in {"tier_below_minimum", "tier_below_reviewer_floor",
                "tier_below_recovery_floor"} :
         GateFails(in, Floors(in), c, g) <=> in.config.candidates[c].tier < Floors(in)[g]
  BY DEF GateFails
<1>8. /\ Floors(in).tier_below_minimum = baseMinRank(in)
      /\ Floors(in).tier_below_reviewer_floor = reviewerFloorRank(in)
      /\ Floors(in).tier_below_recovery_floor = recoveryFloorRank(in)
  BY DEF Floors
<1>9. /\ Tier(in, c) \in Int /\ baseMinRank(in) \in Int /\ reviewerFloorRank(in) \in Int
      /\ recoveryFloorRank(in) \in Int
  <2>1. in.config \in Configs
    BY DEF SoundInput
  <2> QED BY <2>1, ConfigIs, FloorsAre DEF Tier
<1>10. /\ ~(Tier(in, c) < baseMinRank(in)) /\ ~(Tier(in, c) < reviewerFloorRank(in))
       /\ ~(Tier(in, c) < recoveryFloorRank(in))
  BY <1>5, <1>6, <1>7, <1>8 DEF Tier
<1>11. /\ "role_ineligible" \in Gates \ Displaceable
       /\ "prior_step_candidate" \in Gates \ Displaceable
       /\ "capability_missing" \in Gates \ Displaceable
  BY DEF Gates, Displaceable
<1>12. /\ GateFails(in, Floors(in), c, "role_ineligible")
             <=> in.key.role \notin in.config.candidates[c].roles
       /\ GateFails(in, Floors(in), c, "prior_step_candidate") <=> c \in priorCandidates(in)
       /\ GateFails(in, Floors(in), c, "capability_missing")
             <=> ~(in.workload.capabilities \subseteq in.config.candidates[c].capabilities)
  BY DEF GateFails
<1>13. /\ in.key.role \in in.config.candidates[c].roles
       /\ c \notin priorCandidates(in)
       /\ in.workload.capabilities \subseteq in.config.candidates[c].capabilities
  BY <1>5, <1>11, <1>12
<1> QED BY <1>3, <1>9, <1>10, <1>13

\* The selection of an input that is not refused.
LEMMA Selected ==
    ASSUME NEW in, SoundInput(in), ~Refused(in)
    PROVE  LET s == selectCandidate(in)
               gates == routedConsidered(in)
           IN  /\ DOMAIN gates = DOMAIN in.config.candidates
               /\ Eligible(gates) # {} /\ Eligible(gates) \subseteq DOMAIN in.config.candidates
               /\ s.equivalent = equivalent(in, Eligible(gates))
               /\ s.equivalent # {} /\ s.equivalent \subseteq Eligible(gates)
               /\ s.policyWinner = chosenEntry(in, s.equivalent)
               /\ s.policyWinner \in s.equivalent
               /\ in.override = None => s.candidate = s.policyWinner
               /\ s.candidate \in DOMAIN in.config.candidates
               /\ gates[s.candidate] \subseteq Displaceable
               /\ s.tier = Tier(in, s.candidate) /\ s.provider = Provider(in, s.candidate)
               /\ s.tier >= baseMinRank(in) /\ s.tier >= reviewerFloorRank(in)
               /\ s.tier >= recoveryFloorRank(in)
               /\ in.key.role \in in.config.candidates[s.candidate].roles
               /\ s.candidate \notin priorCandidates(in)
<1> DEFINE s == selectCandidate(in)
           gates == routedConsidered(in)
           E == Eligible(gates)
           B == equivalent(in, E)
<1>1. DOMAIN gates = DOMAIN in.config.candidates
  BY DEF routedConsidered, considered
<1>2. E # {} /\ E \subseteq DOMAIN in.config.candidates
         /\ \A c \in E : gates[c] = {}
  BY <1>1 DEF Refused, Eligible
<1>3. B # {} /\ B \subseteq E
  <2> HIDE DEF E
  <2> QED BY <1>2, BestExists
<1>4. /\ s.equivalent = B /\ s.policyWinner = chosenEntry(in, B)
      /\ s.candidate = IF in.override = None THEN chosenEntry(in, B)
                       ELSE in.override.candidate
      /\ s.tier = Tier(in, s.candidate) /\ s.provider = Provider(in, s.candidate)
  BY DEF selectCandidate
<1>5. chosenEntry(in, B) \in B
  <2> HIDE DEF B
  <2> QED BY <1>2, <1>3, ChosenIn
<1>6. s.candidate \in DOMAIN in.config.candidates /\ gates[s.candidate] \subseteq Displaceable
  <2> HIDE DEF s, gates, E, B
  <2>1. CASE in.override = None
    BY <1>2, <1>3, <1>4, <1>5, <2>1
  <2>2. CASE in.override # None
    <3>1. in.override.candidate \in DOMAIN in.config.candidates
      BY <2>2 DEF SoundInput, Accepted, validateOverrideInput
    <3>2. gates[in.override.candidate] \subseteq Displaceable
      BY <2>2 DEF Refused, gates
    <3> QED BY <1>4, <2>2, <3>1, <3>2
  <2> QED BY <2>1, <2>2
<1>7. /\ Tier(in, s.candidate) >= baseMinRank(in)
      /\ Tier(in, s.candidate) >= reviewerFloorRank(in)
      /\ Tier(in, s.candidate) >= recoveryFloorRank(in)
      /\ in.key.role \in in.config.candidates[s.candidate].roles
      /\ s.candidate \notin priorCandidates(in)
  <2> HIDE DEF s
  <2> QED BY <1>6, GatesPassed
<1> HIDE DEF s, gates, E, B
<1>8. /\ s.tier >= baseMinRank(in) /\ s.tier >= reviewerFloorRank(in)
      /\ s.tier >= recoveryFloorRank(in)
  BY <1>4, <1>7
<1>9. /\ s.equivalent # {} /\ s.equivalent \subseteq E
      /\ s.policyWinner = chosenEntry(in, s.equivalent) /\ s.policyWinner \in s.equivalent
      /\ in.override = None => s.candidate = s.policyWinner
  BY <1>3, <1>4, <1>5
<1> QED BY <1>1, <1>2, <1>4, <1>6, <1>7, <1>8, <1>9 DEF s, gates, E, B

-------------------------------------------------------------------------------
(* The projected history *)

\* The value of the projection at n, by what it is below.
Next1(g, n) == IF n = 0 THEN << >>
               ELSE IF rows[n].status = "superseded" THEN g[n - 1]
               ELSE Append(g[n - 1], rows[n])

LEMMA ProjectedExists ==
    ASSUME NEW S, rows \in Seq(S)
    PROVE  Projected = [n \in 0 .. Len(rows) |-> Next1(Projected, n)]
<1> DEFINE Goes(g, m) == g = [n \in 0 .. m |-> Next1(g, n)]
           T == {m \in Nat : \E g : Goes(g, m)}
<1>1. 0 \in T
  <2> DEFINE g == [n \in 0 .. 0 |-> << >>]
  <2>1. Goes(g, 0)
    BY DEF Next1
  <2> QED BY <2>1
<1>2. ASSUME NEW m \in Nat, m \in T
      PROVE  m + 1 \in T
  <2>1. PICK g : Goes(g, m)
    BY <1>2
  <2> DEFINE h == [n \in 0 .. m + 1 |-> IF n = m + 1 THEN Next1(g, n) ELSE g[n]]
  <2>2. \A n \in 0 .. m : h[n] = Next1(g, n)
    <3>1. \A n \in 0 .. m : g[n] = Next1(g, n)
      BY <2>1
    <3>2. \A n \in 0 .. m : n \in 0 .. m + 1 /\ n # m + 1
      OBVIOUS
    <3>3. \A n \in 0 .. m : h[n] = g[n]
      BY <3>2
    <3> QED BY <3>1, <3>3
  <2>3. \A n \in 0 .. m + 1 : h[n] = Next1(g, n)
    <3> TAKE n \in 0 .. m + 1
    <3>1. CASE n = m + 1
      BY <3>1
    <3>2. CASE n # m + 1
      <4>1. n \in 0 .. m
        BY <3>2
      <4> QED BY <2>2, <4>1
    <3> QED BY <3>1, <3>2
  <2>4. \A n \in 0 .. m + 1 : Next1(g, n) = Next1(h, n)
    <3> TAKE n \in 0 .. m + 1
    <3>1. CASE n = 0
      BY <3>1 DEF Next1
    <3>2. CASE n # 0
      <4>1. n - 1 \in 0 .. m
        BY <3>2
      <4>2. h[n - 1] = g[n - 1]
        BY <4>1
      <4> QED BY <3>2, <4>2 DEF Next1
    <3> QED BY <3>1, <3>2
  <2>5. Goes(h, m + 1)
    <3>1. \A n \in 0 .. m + 1 : h[n] = Next1(h, n)
      BY <2>3, <2>4
    <3>2. h = [n \in 0 .. m + 1 |-> h[n]]
      OBVIOUS
    <3> HIDE DEF h
    <3> QED BY <3>1, <3>2
  <2> HIDE DEF h, Goes
  <2> QED BY <2>5
<1>3. Len(rows) \in T
  <2> HIDE DEF T
  <2> QED BY <1>1, <1>2, Induction
<1>4. Projected = CHOOSE g : Goes(g, Len(rows))
  BY DEF Projected, Next1
<1>5. Goes(Projected, Len(rows))
  <2>1. \E g : Goes(g, Len(rows))
    BY <1>3
  <2> HIDE DEF Goes
  <2> QED BY <1>4, <2>1
<1> QED BY <1>5

\* The rows no reset superseded.
Kept == {i \in DOMAIN rows : rows[i].status # "superseded"}

\* g takes the places of h to the first n kept rows, in their order.
Enumerates(g, h, n) ==
    /\ DOMAIN g = DOMAIN h
    /\ \A k \in DOMAIN g : g[k] \in Kept /\ g[k] <= n /\ h[k] = rows[g[k]]
    /\ \A k, l \in DOMAIN g : k < l => g[k] < g[l]
    /\ \A i \in Kept : i <= n => \E k \in DOMAIN g : g[k] = i

LEMMA HistoryIs ==
    ASSUME NEW S, rows \in Seq(S)
    PROVE  /\ historyProjection \in Seq(S)
           /\ \E g : Enumerates(g, historyProjection, Len(rows))
<1> DEFINE Good(n) == /\ Projected[n] \in Seq(S)
                      /\ \E g : Enumerates(g, Projected[n], n)
           T == {n \in Nat : n <= Len(rows) => Good(n)}
<1>1. Len(rows) \in Nat /\ DOMAIN rows = 1 .. Len(rows)
  OBVIOUS
<1>2. \A n \in 0 .. Len(rows) : Projected[n] = Next1(Projected, n)
  BY ProjectedExists, <1>1
<1>3. 0 \in T
  <2>1. Projected[0] = << >>
    BY <1>1, <1>2 DEF Next1
  <2>2. Enumerates(<< >>, << >>, 0)
    BY <1>1 DEF Enumerates, Kept
  <2>3. << >> \in Seq(S)
    OBVIOUS
  <2>4. \E g : Enumerates(g, << >>, 0)
    BY <2>2
  <2>5. Good(0)
    BY <2>1, <2>3, <2>4
  <2> HIDE DEF Good
  <2> QED BY <2>5
<1>4. ASSUME NEW n \in Nat, n \in T
      PROVE  n + 1 \in T
  <2> SUFFICES ASSUME n + 1 <= Len(rows) PROVE Good(n + 1)
    OBVIOUS
  <2>1. /\ Projected[n] \in Seq(S)
        /\ \E g : Enumerates(g, Projected[n], n)
    BY <1>1, <1>4
  <2>2. PICK g : Enumerates(g, Projected[n], n)
    BY <2>1
  <2>3. n + 1 \in DOMAIN rows /\ n + 1 \in 0 .. Len(rows) /\ n + 1 # 0 /\ (n + 1) - 1 = n
    BY <1>1
  <2>4. \A i \in Kept : i \in Nat /\ (i <= n + 1 <=> i <= n \/ i = n + 1)
    BY <1>1 DEF Kept
  <2>5. CASE rows[n + 1].status = "superseded"
    <3>1. Projected[n + 1] = Projected[n]
      BY <1>2, <2>3, <2>5 DEF Next1
    <3>2. n + 1 \notin Kept
      BY <2>5 DEF Kept
    <3>3. Enumerates(g, Projected[n], n + 1)
      BY <2>2, <2>4, <3>2 DEF Enumerates
    <3> QED BY <2>1, <3>1, <3>3
  <2>6. CASE rows[n + 1].status # "superseded"
    <3> DEFINE h == Projected[n]
               m == Len(h)
               f == [k \in 1 .. m + 1 |-> IF k = m + 1 THEN n + 1 ELSE g[k]]
    <3>1. Projected[n + 1] = Append(h, rows[n + 1])
      BY <1>2, <2>3, <2>6 DEF Next1
    <3>2. n + 1 \in Kept
      BY <2>3, <2>6 DEF Kept
    <3>3. h \in Seq(S) /\ m \in Nat /\ DOMAIN h = 1 .. m /\ rows[n + 1] \in S
      BY <2>1, <2>3
    <3> HIDE DEF h, m
    <3>4. /\ Append(h, rows[n + 1]) \in Seq(S)
          /\ DOMAIN Append(h, rows[n + 1]) = 1 .. m + 1
          /\ \A k \in 1 .. m : Append(h, rows[n + 1])[k] = h[k]
          /\ Append(h, rows[n + 1])[m + 1] = rows[n + 1]
      BY <3>3 DEF m
    <3>5. /\ DOMAIN g = 1 .. m
          /\ \A k \in 1 .. m : g[k] \in Kept /\ g[k] <= n /\ h[k] = rows[g[k]]
          /\ \A k, l \in 1 .. m : k < l => g[k] < g[l]
          /\ \A i \in Kept : i <= n => \E k \in 1 .. m : g[k] = i
      BY <2>2, <3>3 DEF Enumerates, h
    <3>6. f[m + 1] = n + 1 /\ \A k \in 1 .. m : f[k] = g[k]
      BY <3>3
    <3>7. \A k \in 1 .. m + 1 : k \in 1 .. m \/ k = m + 1
      BY <3>3
    <3>8. DOMAIN f = 1 .. m + 1
      OBVIOUS
    <3> HIDE DEF f
    <3>9. \A k \in 1 .. m + 1 :
             f[k] \in Kept /\ f[k] <= n + 1 /\ Append(h, rows[n + 1])[k] = rows[f[k]]
      BY <2>4, <3>2, <3>4, <3>5, <3>6, <3>7
    <3>10. \A k, l \in 1 .. m + 1 : k < l => f[k] < f[l]
      <4> SUFFICES ASSUME NEW k \in 1 .. m + 1, NEW l \in 1 .. m + 1, k < l
                   PROVE  f[k] < f[l]
        OBVIOUS
      <4>1. k \in 1 .. m
        BY <3>3
      <4>2. f[k] = g[k] /\ g[k] \in Nat /\ g[k] <= n
        BY <2>4, <3>5, <3>6, <4>1
      <4>3. CASE l = m + 1
        BY <3>6, <4>2, <4>3
      <4>4. CASE l \in 1 .. m
        BY <3>5, <3>6, <4>1, <4>2, <4>4
      <4> QED BY <3>7, <4>3, <4>4
    <3>11. \A i \in Kept : i <= n + 1 => \E k \in 1 .. m + 1 : f[k] = i
      <4> SUFFICES ASSUME NEW i \in Kept, i <= n + 1
                   PROVE  \E k \in 1 .. m + 1 : f[k] = i
        OBVIOUS
      <4>1. CASE i <= n
        <5>1. PICK k \in 1 .. m : g[k] = i
          BY <3>5, <4>1
        <5>2. k \in 1 .. m + 1 /\ f[k] = i
          BY <3>3, <3>6, <5>1
        <5> QED BY <5>2
      <4>2. CASE i = n + 1
        <5>1. m + 1 \in 1 .. m + 1
          BY <3>3
        <5> QED BY <3>6, <4>2, <5>1
      <4> QED BY <2>4, <4>1, <4>2
    <3>12. Enumerates(f, Append(h, rows[n + 1]), n + 1)
      BY <3>4, <3>8, <3>9, <3>10, <3>11 DEF Enumerates
    <3> QED BY <3>1, <3>4, <3>12
  <2> QED BY <2>5, <2>6
<1>5. Good(Len(rows))
  <2>1. Len(rows) \in T
    <3> HIDE DEF T
    <3> QED BY <1>1, <1>3, <1>4, Induction
  <2> QED BY <1>1, <2>1
<1> QED BY <1>5 DEF historyProjection

-------------------------------------------------------------------------------
(* The inductive invariant *)

\* Every workload recorded was derived from what some Task says.
Derived == {buildWorkloadContext(f, role, c) : f \in Facts, role \in Roles, c \in Configs}

Decision ==
    [key : [task : Tasks, role : Roles, attempt : Nat \ {0},
            revision : {c.revision : c \in Configs}],
     step : Nat, candidate : Nat, provider : Nat, tier : Nat,
     reason : Reasons \cup {"none"}, override : Overrides \cup {None},
     workload : Derived, equivalent : SUBSET Nat,
     reasons : UNION {[S -> SUBSET (Gates \cup {"recovery_order"})] : S \in SUBSET Nat},
     status : {"selected", "failed", "completed", "superseded"}]

TaskState == [attempt : Nat \ {0}, role : Roles \cup {"done"}, facts : Facts,
              failed : BOOLEAN]

Typed == /\ config \in Configs
         /\ task \in [Tasks -> TaskState]
         /\ rows \in Seq(Decision)

\* A row names a candidate of the configuration it was selected under.
Agrees(row, c) == /\ c.revision = row.key.revision
                  /\ row.candidate \in DOMAIN c.candidates
                  /\ row.provider = c.candidates[row.candidate].provider
                  /\ row.tier = c.candidates[row.candidate].tier
                  /\ row.key.role \in c.candidates[row.candidate].roles

Agreed == \A i \in DOMAIN rows : \E c \in Configs : Agrees(rows[i], c)

\* No row of a later attempt has a workload that may go below the high tier.
Graded == \A i \in DOMAIN rows : rows[i].key.attempt > 1 => rows[i].workload.rejections # {}

\* A Task in state x is past the action.
Past(x, k) == \/ x.attempt > k.attempt
              \/ /\ x.attempt = k.attempt
                 /\ x.role = "done" \/ (k.role = "implementer" /\ x.role = "reviewer")

\* A completed row is its action's last, and the Task is past that action.
Ended == \A i \in DOMAIN rows : rows[i].status = "completed" =>
            /\ Past(task[rows[i].key.task], rows[i].key)
            /\ \A k \in DOMAIN rows : k > i => ~SameAction(rows[i].key, rows[k].key)

\* A reset leaves no row of the action before it standing.
Closed == \A j, k \in DOMAIN rows :
             (j < k /\ SameAction(rows[j].key, rows[k].key) /\ rows[k].status = "superseded")
             => rows[j].status = "superseded"

IInv == Typed /\ Agreed /\ Graded /\ Ended /\ Closed

LEMMA ActiveIs ==
    ASSUME Typed, NEW t \in Tasks
    PROVE  /\ Live(t) \subseteq DOMAIN rows /\ DOMAIN rows \subseteq Nat \ {0}
           /\ Active(t) # 0 => /\ Active(t) \in Live(t) /\ rows[Active(t)].status = "selected"
                               /\ \A k \in Live(t) : k <= Active(t)
<1>1. Live(t) \subseteq DOMAIN rows
  BY DEF Live
<1>2. DOMAIN rows = 1 .. Len(rows) /\ Len(rows) \in Int /\ 1 \in Int
  BY DEF Typed
<1>3. Live(t) \in SUBSET Int /\ IsFiniteSet(Live(t))
  BY <1>1, <1>2, FS_Interval, FS_Subset
<1>4. Live(t) # {} => Max(Live(t)) \in Live(t) /\ \A k \in Live(t) : k <= Max(Live(t))
  BY <1>3, MaxIs
<1>5. Active(t) # 0 =>
         /\ Live(t) # {} /\ Active(t) = Max(Live(t))
         /\ rows[Max(Live(t))].status = "selected"
  BY DEF Active
<1>6. DOMAIN rows \subseteq Nat \ {0}
  BY <1>2
<1> QED BY <1>1, <1>4, <1>5, <1>6

\* An input with its fields written out.
Asked(t, w, recovery, override, C) ==
    [config |-> config, workload |-> w, facts |-> FactsNow(t), key |-> Key(t),
     history |-> historyProjection, implementer |-> implementerDecisionFor(Key(t)),
     recovery |-> recovery, override |-> override, cooled |-> C]

LEMMA InputIs ==
    ASSUME NEW t, NEW w, NEW recovery, NEW override, NEW C
    PROVE  /\ Input(t, w, recovery, override) = Asked(t, w, recovery, override, cooled)
           /\ [Input(t, w, recovery, override) EXCEPT !.cooled = @ \cup C]
                 = Asked(t, w, recovery, override, cooled \cup C)
BY DEF Input, Asked

LEMMA FactsAre ==
    ASSUME Typed, NEW t \in Tasks
    PROVE  /\ FactsNow(t) \in Facts /\ FactsNow(t).retries = task[t].attempt - 1
           /\ task[t].attempt \in Nat \ {0}
           /\ task[t].role \in Roles => Workload(t) \in Derived
<1>1. task[t] \in TaskState
  BY DEF Typed
<1>2. task[t].facts \in Facts /\ task[t].attempt - 1 \in Nat /\ task[t].attempt \in Nat \ {0}
  BY <1>1 DEF TaskState
<1> DEFINE f == task[t].facts
           a == task[t].attempt - 1
           b == IF task[t].failed THEN 1 ELSE 0
<1>3. FactsNow(t) = [f EXCEPT !.retries = a, !.changesRequested = a, !.sessionsFailed = b]
  BY DEF FactsNow
<1>4. b \in Nat
  OBVIOUS
<1> HIDE DEF f, b
<1>5. [f EXCEPT !.retries = a, !.changesRequested = a, !.sessionsFailed = b] \in Facts
  BY <1>2, <1>4 DEF Facts, f
<1>6. [f EXCEPT !.retries = a, !.changesRequested = a, !.sessionsFailed = b].retries = a
  BY <1>2 DEF Facts, f
<1>7. task[t].role \in Roles => Workload(t) \in Derived
  BY <1>3, <1>5 DEF Workload, Derived, Typed
<1> QED BY <1>2, <1>3, <1>5, <1>6, <1>7

LEMMA DerivedIs ==
    ASSUME NEW w \in Derived
    PROVE  IsFiniteSet(w.capabilities)
<1>1. PICK f \in Facts, role \in Roles, c \in Configs : w = buildWorkloadContext(f, role, c)
  BY DEF Derived
<1>2. w.capabilities = IF Hinted(f) THEN chooseHint(f).capabilities ELSE {}
  BY <1>1 DEF buildWorkloadContext
<1>3. Hinted(f) => chooseHint(f) \in Hints
  <2>1. f.taskHint \in Hints \cup {None} /\ f.planHint \in Hints \cup {None}
    BY DEF Facts
  <2>2. chooseHint(f) \in {f.taskHint, f.planHint, None}
    BY DEF chooseHint
  <2> QED BY <2>1, <2>2 DEF Hinted
<1> QED BY <1>2, <1>3, HintsAssumption, FS_EmptySet

\* The workload of a later attempt has a failure on record.
LEMMA LaterIsGraded ==
    ASSUME Typed, NEW t \in Tasks, task[t].attempt > 1
    PROVE  Workload(t).rejections # {}
<1> DEFINE f == FactsNow(t)
           r == "unresolved_failure_history"
<1>1. f.retries > 0
  BY FactsAre
<1>2. unresolvedFailure(f)
  BY <1>1 DEF unresolvedFailure
<1>3. r \in rejectionReasons(f, task[t].role)
  BY <1>2 DEF rejectionReasons
<1>4. Workload(t).rejections = rejectionReasons(f, task[t].role)
  BY DEF Workload, buildWorkloadContext
<1> QED BY <1>3, <1>4

LEMMA AskedIsSound ==
    ASSUME Typed, NEW t, NEW w \in Derived, NEW recovery, NEW override, NEW C,
           ~Refused(Asked(t, w, recovery, override, C))
    PROVE  SoundInput(Asked(t, w, recovery, override, C))
<1> DEFINE in == Asked(t, w, recovery, override, C)
<1>1. in.config = config /\ in.workload = w /\ in.history = historyProjection
  BY DEF Asked
<1>2. historyProjection \in Seq(Decision)
  BY HistoryIs DEF Typed
<1>3. Accepted(in)
  BY DEF Refused
<1>4. IsFiniteSet(in.workload.capabilities) /\ in.config \in Configs
  BY <1>1, DerivedIs DEF Typed
<1> HIDE DEF in
<1>5. SoundInput(in)
  BY <1>1, <1>2, <1>3, <1>4 DEF SoundInput
<1> QED BY <1>5 DEF in

\* The row a selection records.
LEMMA NewRow ==
    ASSUME Typed, NEW t \in Tasks, task[t].role \in Roles, NEW w \in Derived,
           NEW recovery, NEW override \in Overrides \cup {None}, NEW C,
           NEW reason \in Reasons \cup {"none"},
           ~Refused(Asked(t, w, recovery, override, C))
    PROVE  LET in == Asked(t, w, recovery, override, C)
               s == selectCandidate(in)
               row == Row(s, reason)
           IN  /\ row \in Decision
               /\ row.key = Key(t) /\ row.status = "selected" /\ row.workload = w
               /\ row.reason = reason /\ row.override = override
               /\ row.step = Step(in) /\ row.candidate = s.candidate
               /\ row.tier = s.tier /\ row.provider = s.provider
               /\ row.reasons = routedConsidered(in) /\ row.equivalent = s.equivalent
               /\ Agrees(row, config)
<1> DEFINE in == Asked(t, w, recovery, override, C)
           s == selectCandidate(in)
           row == Row(s, reason)
           gates == routedConsidered(in)
           seen == [c \in DOMAIN gates |-> [provider |-> Provider(in, c), tier |-> Tier(in, c),
                                            reasons |-> gates[c]]]
<1>1. SoundInput(in) /\ in.config = config /\ config \in Configs /\ in.workload = w
         /\ in.key = Key(t) /\ in.override = override /\ in.history = historyProjection
  BY AskedIsSound DEF Asked, Typed
<1>2. /\ row.key = s.key /\ row.status = "selected" /\ row.workload = s.workload
      /\ row.reason = reason /\ row.override = s.override /\ row.step = s.step
      /\ row.candidate = s.candidate /\ row.tier = s.tier /\ row.provider = s.provider
      /\ row.equivalent = s.equivalent
      /\ row.reasons = [c \in DOMAIN s.considered |-> s.considered[c].reasons]
  BY DEF Row
<1>3. /\ s.key = in.key /\ s.workload = in.workload /\ s.override = in.override
      /\ s.step = Step(in) /\ s.considered = seen
  BY DEF selectCandidate
<1>4. [c \in DOMAIN s.considered |-> s.considered[c].reasons] = gates
  <2>1. gates = [c \in DOMAIN gates |-> gates[c]]
    BY DEF routedConsidered, considered
  <2>2. DOMAIN seen = DOMAIN gates /\ \A c \in DOMAIN gates : seen[c].reasons = gates[c]
    OBVIOUS
  <2> HIDE DEF seen, gates, s
  <2> QED BY <1>3, <2>1, <2>2
<1>5. /\ s.candidate \in DOMAIN config.candidates
      /\ s.tier = config.candidates[s.candidate].tier
      /\ s.provider = config.candidates[s.candidate].provider
      /\ s.equivalent \subseteq DOMAIN config.candidates
      /\ DOMAIN gates = DOMAIN config.candidates
      /\ Key(t).role \in config.candidates[s.candidate].roles
  <2> HIDE DEF s, in
  <2> QED BY <1>1, Selected DEF s, gates, Tier, Provider, in
<1>6. Step(in) \in Nat
  <2>1. historyProjection \in Seq(Decision)
    BY HistoryIs DEF Typed
  <2>2. PriorSteps(in) \subseteq DOMAIN historyProjection
    BY <1>1 DEF PriorSteps
  <2>3. DOMAIN historyProjection = 1 .. Len(historyProjection)
           /\ Len(historyProjection) \in Int /\ 1 \in Int
    BY <2>1
  <2>4. IsFiniteSet(PriorSteps(in))
    BY <2>2, <2>3, FS_Interval, FS_Subset
  <2> QED BY <2>4, FS_CardinalityType DEF Step
<1>7. gates \in [DOMAIN config.candidates -> SUBSET (Gates \cup {"recovery_order"})]
  <2>1. DOMAIN considered(in) = DOMAIN config.candidates
           /\ \A c \in DOMAIN config.candidates : considered(in)[c] \subseteq Gates
    BY <1>1 DEF considered
  <2>2. \A c \in DOMAIN config.candidates :
           gates[c] \in {{"recovery_order"}, considered(in)[c]}
    BY <2>1 DEF routedConsidered
  <2>3. gates = [c \in DOMAIN config.candidates |-> gates[c]]
    BY <1>1 DEF routedConsidered, considered
  <2> HIDE DEF gates, in
  <2>4. \A c \in DOMAIN config.candidates : gates[c] \in SUBSET (Gates \cup {"recovery_order"})
    BY <2>1, <2>2
  <2> QED BY <2>3, <2>4
<1>8. Key(t) \in [task : Tasks, role : Roles, attempt : Nat \ {0},
                  revision : {c.revision : c \in Configs}]
  <2>1. task[t].attempt \in Nat \ {0}
    BY FactsAre
  <2> QED BY <1>1, <2>1 DEF Key
<1>9. row \in Decision
  <2>1. /\ DOMAIN config.candidates \subseteq Nat
        /\ config.candidates[s.candidate].provider \in Nat
        /\ config.candidates[s.candidate].tier \in Nat
    <3> HIDE DEF s
    <3> QED BY <1>1, <1>5, ConfigIs
  <2>2. row = [key |-> Key(t), step |-> Step(in), candidate |-> s.candidate,
               provider |-> s.provider, tier |-> s.tier, reason |-> reason,
               override |-> override, workload |-> w, equivalent |-> s.equivalent,
               reasons |-> gates, status |-> "selected"]
    <3> HIDE DEF s, in, gates, seen
    <3> QED BY <1>1, <1>3, <1>4 DEF Row, row
  <2>3. gates \in UNION {[S -> SUBSET (Gates \cup {"recovery_order"})] : S \in SUBSET Nat}
    <3> HIDE DEF gates
    <3> QED BY <1>7, <2>1
  <2> HIDE DEF s, in, gates, seen, row
  <2>4. s.candidate \in Nat /\ s.provider \in Nat /\ s.tier \in Nat /\ s.equivalent \subseteq Nat
    BY <1>5, <2>1
  <2> QED BY <1>6, <1>8, <2>2, <2>3, <2>4 DEF Decision
<1>10. Agrees(row, config)
  <2>1. row.key = Key(t) /\ row.key.revision = config.revision
    BY <1>1, <1>2, <1>3 DEF Key
  <2> HIDE DEF row, s
  <2> QED BY <1>2, <1>5, <2>1 DEF Agrees
<1> HIDE DEF in, s, row, gates, seen
<1> QED BY <1>1, <1>2, <1>3, <1>4, <1>9, <1>10 DEF in, s, row, gates

\* What a change of status leaves of a row.
Same(r, q) == /\ r.key = q.key /\ r.step = q.step /\ r.candidate = q.candidate
              /\ r.provider = q.provider /\ r.tier = q.tier /\ r.workload = q.workload
              /\ r.reason = q.reason /\ r.override = q.override
              /\ r.equivalent = q.equivalent

LEMMA Relabelled ==
    ASSUME Typed, NEW i \in DOMAIN rows,
           NEW status \in {"selected", "failed", "completed", "superseded"}
    PROVE  LET next == [rows EXCEPT ![i].status = status]
           IN  /\ next \in Seq(Decision) /\ Len(next) = Len(rows)
               /\ DOMAIN next = DOMAIN rows
               /\ next[i].status = status
               /\ \A j \in DOMAIN rows : /\ Same(next[j], rows[j])
                                         /\ j # i => next[j] = rows[j]
<1> DEFINE next == [rows EXCEPT ![i].status = status]
<1>1. rows \in Seq(Decision) /\ rows[i] \in Decision
  BY DEF Typed
<1>2. /\ [rows[i] EXCEPT !.status = status] \in Decision
      /\ Same([rows[i] EXCEPT !.status = status], rows[i])
      /\ [rows[i] EXCEPT !.status = status].status = status
  BY <1>1 DEF Decision, Same
<1>3. \A r : Same(r, r)
  BY DEF Same
<1>4. next = [rows EXCEPT ![i] = [rows[i] EXCEPT !.status = status]]
  OBVIOUS
<1>5. next \in Seq(Decision) /\ Len(next) = Len(rows) /\ DOMAIN next = DOMAIN rows
  BY <1>1, <1>2, <1>4
<1>6. next[i] = [rows[i] EXCEPT !.status = status]
         /\ \A j \in DOMAIN rows : j # i => next[j] = rows[j]
  BY <1>1
<1> HIDE DEF next
<1>7. \A j \in DOMAIN rows : Same(next[j], rows[j])
  BY <1>2, <1>3, <1>6
<1> QED BY <1>2, <1>5, <1>6, <1>7 DEF next

\* A step keeps every row but its status; only a reset supersedes rows, an action's.
Stand == /\ DOMAIN rows \subseteq DOMAIN rows'
         /\ \A i \in DOMAIN rows : Same(rows'[i], rows[i])
         /\ \/ \A i \in DOMAIN rows :
                  rows'[i].status = "superseded" <=> rows[i].status = "superseded"
            \/ /\ Len(rows') = Len(rows)
               /\ \E t \in Tasks : \A i \in DOMAIN rows :
                     rows'[i].status = "superseded"
                        <=> rows[i].status = "superseded" \/ i \in Live(t)

\* Rows change status but for completion and resets, and a new one may follow.
LEMMA Grows ==
    ASSUME IInv, NEW t \in Tasks, task[t].role \in Roles, Typed', config' = config,
           \A u \in Tasks : task'[u].attempt = task[u].attempt /\ task'[u].role = task[u].role,
           DOMAIN rows \subseteq DOMAIN rows',
           \A i \in DOMAIN rows :
              /\ Same(rows'[i], rows[i])
              /\ rows'[i].status = "completed" => rows[i].status = "completed"
              /\ rows'[i].status = "superseded" <=> rows[i].status = "superseded",
           \A i \in DOMAIN rows' : i \notin DOMAIN rows =>
              /\ \A j \in DOMAIN rows : j < i
              /\ rows'[i].key = Key(t) /\ rows'[i].status = "selected"
              /\ Agrees(rows'[i], config)
              /\ task[t].attempt > 1 => rows'[i].workload.rejections # {}
    PROVE  IInv'
<1>0. Key(t).attempt = task[t].attempt /\ Key(t).role = task[t].role /\ Key(t).task = t
  BY DEF Key
<1>1. Agreed'
  <2> SUFFICES ASSUME NEW i \in DOMAIN rows' PROVE \E c \in Configs : Agrees(rows'[i], c)
    BY DEF Agreed
  <2>1. CASE i \in DOMAIN rows
    BY <2>1 DEF IInv, Agreed, Agrees, Same
  <2>2. CASE i \notin DOMAIN rows
    BY <2>2 DEF IInv, Typed
  <2> QED BY <2>1, <2>2
<1>2. Graded'
  <2> SUFFICES ASSUME NEW i \in DOMAIN rows', rows'[i].key.attempt > 1
               PROVE  rows'[i].workload.rejections # {}
    BY DEF Graded
  <2>1. CASE i \in DOMAIN rows
    BY <2>1 DEF IInv, Graded, Same
  <2>2. CASE i \notin DOMAIN rows
    BY <1>0, <2>2
  <2> QED BY <2>1, <2>2
<1>3. Ended'
  <2> SUFFICES ASSUME NEW i \in DOMAIN rows', rows'[i].status = "completed"
               PROVE  /\ Past(task'[rows'[i].key.task], rows'[i].key)
                      /\ \A k \in DOMAIN rows' : k > i => ~SameAction(rows'[i].key, rows'[k].key)
    BY DEF Ended
  <2>1. i \in DOMAIN rows
    OBVIOUS
  <2>2. /\ rows[i].status = "completed" /\ rows'[i].key = rows[i].key
        /\ Past(task[rows[i].key.task], rows[i].key)
        /\ \A k \in DOMAIN rows : k > i => ~SameAction(rows[i].key, rows[k].key)
    BY <2>1 DEF IInv, Ended, Same
  <2>3. rows[i].key.task \in Tasks
    <3>1. rows[i] \in Decision
      BY <2>1 DEF IInv, Typed
    <3> QED BY <3>1 DEF Decision
  <2>4. Past(task'[rows'[i].key.task], rows'[i].key)
    BY <2>2, <2>3 DEF Past
  <2>5. ASSUME NEW k \in DOMAIN rows', k > i
        PROVE  ~SameAction(rows'[i].key, rows'[k].key)
    <3>1. CASE k \in DOMAIN rows
      BY <2>2, <2>5, <3>1 DEF Same
    <3>2. CASE k \notin DOMAIN rows
      <4>1. rows'[k].key = Key(t)
        BY <3>2
      <4>2. SUFFICES ASSUME SameAction(rows[i].key, Key(t)) PROVE FALSE
        BY <2>2, <4>1
      <4>3. /\ rows[i].key.task = t /\ rows[i].key.role = task[t].role
            /\ rows[i].key.attempt = task[t].attempt
        BY <1>0, <4>2 DEF SameAction
      <4>4. task[t].attempt \in Nat
        BY FactsAre DEF IInv
      <4> QED BY <2>2, <4>3, <4>4 DEF Past, Roles
    <3> QED BY <3>1, <3>2
  <2> QED BY <2>4, <2>5
<1>4. Closed'
  <2> SUFFICES ASSUME NEW j \in DOMAIN rows', NEW k \in DOMAIN rows', j < k,
                      SameAction(rows'[j].key, rows'[k].key),
                      rows'[k].status = "superseded"
               PROVE  rows'[j].status = "superseded"
    BY DEF Closed
  <2>1. k \in DOMAIN rows
    OBVIOUS
  <2>2. DOMAIN rows' \subseteq Int
    BY DEF Typed
  <2>3. j \in DOMAIN rows
    BY <2>1, <2>2
  <2> QED BY <2>1, <2>3 DEF IInv, Closed, Same
<1> QED BY <1>1, <1>2, <1>3, <1>4 DEF IInv

LEMMA InitInv == Init => IInv
<1> SUFFICES ASSUME Init PROVE IInv
  OBVIOUS
<1>1. PICK facts \in [Tasks -> UNION {TaskFacts[t] : t \in Tasks}] :
         /\ \A t \in Tasks : facts[t] \in TaskFacts[t]
         /\ task = [t \in Tasks |-> [attempt |-> 1, role |-> "implementer",
                                     facts |-> facts[t], failed |-> FALSE]]
  BY DEF Init
<1>2. task \in [Tasks -> TaskState]
  BY <1>1, FactsAssumption DEF TaskState, Roles
<1>3. rows = << >> /\ DOMAIN rows = {}
  BY DEF Init
<1>4. Typed
  BY <1>2, <1>3 DEF Init, Typed
<1> QED BY <1>3, <1>4 DEF IInv, Agreed, Graded, Ended, Closed

\* What a resolution and a failure record, with the input of the selection.
Recorded(t, base, w, recovery, override, C, reason) ==
    LET in == Asked(t, w, recovery, override, C)
    IN  /\ ~Refused(in) /\ validateDecisionRecord(selectCandidate(in))
        /\ rows' = Append(base, Row(selectCandidate(in), reason))

LEMMA ResolveIs ==
    ASSUME Typed, NEW t \in Tasks, Resolve(t)
    PROVE  /\ task[t].role \in Roles /\ Live(t) = {} /\ UNCHANGED <<config, cooled, task>>
           /\ Workload(t) \in Derived
           /\ \E o \in Overrides \cup {None} :
                 Recorded(t, rows, Workload(t), None, o, cooled, "none")
<1>1. PICK o \in {None} \cup {o \in Overrides : o.role = task[t].role} :
         LET in == Input(t, Workload(t), None, o)
         IN  /\ ~Refused(in)
             /\ LET s == selectCandidate(in)
                IN  /\ validateDecisionRecord(s)
                    /\ rows' = Append(rows, Row(s, "none"))
  BY DEF Resolve
<1>2. Input(t, Workload(t), None, o) = Asked(t, Workload(t), None, o, cooled)
  BY InputIs
<1>3. Recorded(t, rows, Workload(t), None, o, cooled, "none")
  BY <1>1, <1>2 DEF Recorded
<1>4. o \in Overrides \cup {None}
  OBVIOUS
<1>5. /\ task[t].role \in Roles /\ Live(t) = {} /\ UNCHANGED <<config, cooled, task>>
      /\ Workload(t) \in Derived
  BY FactsAre DEF Resolve
<1> QED BY <1>3, <1>4, <1>5

LEMMA AdvanceIs ==
    ASSUME Typed, NEW t \in Tasks, Advance(t)
    PROVE  /\ task[t].role \in Roles /\ Active(t) \in Live(t)
           /\ rows[Active(t)].key.revision = config.revision
           /\ config' = config /\ task' \in [Tasks -> TaskState]
           /\ \A u \in Tasks :
                 task'[u].attempt = task[u].attempt /\ task'[u].role = task[u].role
           /\ \/ rows' \in {rows, FailedRow(Active(t))}
              \/ \E reason \in Reasons, w \in Workloads(t) : \E C :
                    Recorded(t, FailedRow(Active(t)), w,
                             [reason |-> reason, previous |-> rows[Active(t)].candidate],
                             None, C, reason)
<1> DEFINE i == Active(t)
           In(reason, w, cooling) ==
               [Input(t, w, [reason |-> reason, previous |-> rows[i].candidate], None)
                   EXCEPT !.cooled = @ \cup cooling]
           Ends(reason, w, cooling) ==
               (rows[i].override # None /\ ~rows[i].override.fallback)
                  \/ Refused(In(reason, w, cooling))
<1> DEFINE Fails(reason, w, cooling) ==
         LET k == Active(t)
             recovery == [reason |-> reason, previous |-> rows[k].candidate]
             in == [Input(t, w, recovery, None) EXCEPT
                       !.cooled = @ \cup cooling]
             denied == rows[k].override # None /\ ~rows[k].override.fallback
             ends == denied \/ Refused(in)
         IN  /\ cooling # {} =>
                   reason = "capacity" /\ Cardinality(cooled) < MaxCooled
             /\ cooled' = recordCooldown(cooling)
             /\ NoteFailure(t, reason)
             /\ \/ ends /\ reason = "capacity" /\ UNCHANGED rows
                \/ ends /\ reason # "capacity" /\ rows' = FailedRow(k)
                \/ /\ ~ends
                   /\ Len(rows) < MaxRows
                   /\ LET s == selectCandidate(in)
                      IN  rows' = IF validateDecisionRecord(s)
                                  THEN Append(FailedRow(k), Row(s, reason))
                                  ELSE FailedRow(k)
<1>0. \E reason \in Reasons, w \in Workloads(t), cooling \in {{}, {rows[Active(t)].candidate}} :
         Fails(reason, w, cooling)
  BY DEF Advance
<1> HIDE DEF Fails
<1>0a. PICK reason \in Reasons, w \in Workloads(t), cooling \in {{}, {rows[i].candidate}} :
         Fails(reason, w, cooling)
  BY <1>0
<1>1. /\ NoteFailure(t, reason)
      /\ \/ rows' = rows
         \/ rows' = FailedRow(i)
         \/ /\ ~Ends(reason, w, cooling)
            /\ LET s == selectCandidate(In(reason, w, cooling))
               IN  rows' = IF validateDecisionRecord(s)
                           THEN Append(FailedRow(i), Row(s, reason))
                           ELSE FailedRow(i)
  BY <1>0a DEF Fails
<1>2. i # 0 /\ task[t].role \in Roles /\ config' = config
         /\ rows[i].key.revision = config.revision
  BY DEF Advance
<1>3. /\ task' \in [Tasks -> TaskState]
      /\ \A u \in Tasks :
            task'[u].attempt = task[u].attempt /\ task'[u].role = task[u].role
  <2>1. PICK failed \in {task[t].failed, TRUE} : task' = [task EXCEPT ![t].failed = failed]
    BY <1>1 DEF NoteFailure
  <2>2. task \in [Tasks -> TaskState] /\ task[t] \in TaskState
    BY DEF Typed
  <2>3. failed \in BOOLEAN
    BY <2>2 DEF TaskState
  <2>4. /\ [task[t] EXCEPT !.failed = failed] \in TaskState
        /\ [task[t] EXCEPT !.failed = failed].attempt = task[t].attempt
        /\ [task[t] EXCEPT !.failed = failed].role = task[t].role
    BY <2>2, <2>3 DEF TaskState
  <2>5. task' = [task EXCEPT ![t] = [task[t] EXCEPT !.failed = failed]]
    BY <2>1
  <2> QED BY <2>2, <2>4, <2>5
<1> DEFINE C == cooled \cup cooling
           recovery == [reason |-> reason, previous |-> rows[i].candidate]
<1>4. In(reason, w, cooling) = Asked(t, w, recovery, None, C)
  BY InputIs
<1>5. rows' \in {rows, FailedRow(i)}
         \/ Recorded(t, FailedRow(i), w, recovery, None, C, reason)
  <2>1. CASE rows' \in {rows, FailedRow(i)}
    BY <2>1
  <2>2. CASE /\ ~Ends(reason, w, cooling)
             /\ LET s == selectCandidate(In(reason, w, cooling))
                IN  rows' = IF validateDecisionRecord(s)
                            THEN Append(FailedRow(i), Row(s, reason))
                            ELSE FailedRow(i)
    <3>1. ~Refused(Asked(t, w, recovery, None, C))
      BY <1>4, <2>2
    <3>2. LET s == selectCandidate(Asked(t, w, recovery, None, C))
          IN  rows' = IF validateDecisionRecord(s)
                      THEN Append(FailedRow(i), Row(s, reason)) ELSE FailedRow(i)
      BY <1>4, <2>2
    <3> HIDE DEF C, recovery, i
    <3> QED BY <3>1, <3>2 DEF Recorded
  <2> QED BY <1>1, <2>1, <2>2
<1>6. i \in Live(t)
  BY <1>2, ActiveIs
<1> HIDE DEF C
<1> QED BY <1>2, <1>3, <1>5, <1>6

\* The rows after one was recorded on top of base.
LEMMA RecordedIs ==
    ASSUME Typed, NEW t \in Tasks, task[t].role \in Roles, NEW base, base \in Seq(Decision),
           Len(base) = Len(rows), NEW w \in Derived, NEW recovery,
           NEW override \in Overrides \cup {None}, NEW C, NEW reason \in Reasons \cup {"none"},
           Recorded(t, base, w, recovery, override, C, reason)
    PROVE  LET n == Len(rows) + 1
               in == Asked(t, w, recovery, override, C)
               s == selectCandidate(in)
           IN  /\ rows' \in Seq(Decision) /\ Len(rows') = n /\ DOMAIN rows' = 1 .. n
               /\ \A i \in DOMAIN rows : i \in DOMAIN rows' /\ i < n /\ rows'[i] = base[i]
               /\ rows'[n] \in Decision
               /\ rows'[n].key = Key(t) /\ rows'[n].status = "selected"
               /\ rows'[n].workload = w /\ rows'[n].reason = reason
               /\ rows'[n].step = Step(in) /\ rows'[n].candidate = s.candidate
               /\ rows'[n].tier = s.tier /\ rows'[n].provider = s.provider
               /\ rows'[n].reasons = routedConsidered(in)
               /\ rows'[n].equivalent = s.equivalent /\ rows'[n].override = override
               /\ Agrees(rows'[n], config)
               /\ SoundInput(in) /\ ~Refused(in)
<1> DEFINE n == Len(rows) + 1
           in == Asked(t, w, recovery, override, C)
           row == Row(selectCandidate(in), reason)
<1>1. ~Refused(in) /\ rows' = Append(base, row)
  BY DEF Recorded
<1>2. SoundInput(in)
  BY <1>1, AskedIsSound
<1> DEFINE Is(r) == /\ r \in Decision /\ r.key = Key(t) /\ r.status = "selected"
                    /\ r.workload = w /\ r.reason = reason /\ r.override = override
                    /\ r.step = Step(in) /\ r.candidate = selectCandidate(in).candidate
                    /\ r.tier = selectCandidate(in).tier
                    /\ r.provider = selectCandidate(in).provider
                    /\ r.reasons = routedConsidered(in)
                    /\ r.equivalent = selectCandidate(in).equivalent
                    /\ Agrees(r, config)
<1>3. Is(row)
  BY <1>1, NewRow
<1>4. row \in Decision
  BY <1>3
<1>5. rows \in Seq(Decision) /\ Len(rows) \in Nat /\ DOMAIN rows = 1 .. Len(rows)
  BY DEF Typed
<1> HIDE DEF in, row
<1>6. rows' \in Seq(Decision) /\ Len(rows') = n /\ DOMAIN rows' = 1 .. n /\ rows'[n] = row
  BY <1>1, <1>4, <1>5
<1>7. \A i \in DOMAIN rows : i \in DOMAIN rows' /\ i < n /\ rows'[i] = base[i]
  BY <1>1, <1>4, <1>5
<1> QED BY <1>1, <1>2, <1>3, <1>6, <1>7 DEF in

LEMMA WorkloadsAre ==
    ASSUME IInv, NEW t \in Tasks, task[t].role \in Roles, Active(t) \in Live(t),
           NEW w \in Workloads(t)
    PROVE  w \in Derived /\ (task[t].attempt > 1 => w.rejections # {})
<1>1. Active(t) \in DOMAIN rows
  BY ActiveIs DEF IInv
<1>2. rows[Active(t)] \in Decision
  BY <1>1 DEF IInv, Typed
<1>3. rows[Active(t)].workload \in Derived
  BY <1>2 DEF Decision
<1>4. rows[Active(t)].key.attempt = task[t].attempt
  BY DEF Live, SameAction, Key
<1>5. task[t].attempt > 1 => rows[Active(t)].workload.rejections # {}
  BY <1>1, <1>4 DEF IInv, Graded
<1>6. Workload(t) \in Derived /\ (task[t].attempt > 1 => Workload(t).rejections # {})
  BY FactsAre, LaterIsGraded DEF IInv
<1> QED BY <1>3, <1>5, <1>6 DEF Workloads

\* The rows with the row a Worker failed on marked.
LEMMA FailedRowIs ==
    ASSUME IInv, NEW t \in Tasks, Active(t) \in Live(t), Active(t) # 0
    PROVE  LET next == FailedRow(Active(t))
           IN  /\ next \in Seq(Decision) /\ Len(next) = Len(rows) /\ DOMAIN next = DOMAIN rows
               /\ \A i \in DOMAIN rows :
                     /\ Same(next[i], rows[i])
                     /\ next[i].status = "completed" <=> rows[i].status = "completed"
                     /\ next[i].status = "superseded" <=> rows[i].status = "superseded"
<1> DEFINE a == Active(t)
           next == FailedRow(a)
<1>1. a \in DOMAIN rows /\ rows[a].status = "selected"
  BY ActiveIs DEF IInv
<1>2. next = [rows EXCEPT ![a].status = "failed"]
  BY DEF FailedRow
<1> HIDE DEF a
<1>3. /\ next \in Seq(Decision) /\ Len(next) = Len(rows)
      /\ DOMAIN next = DOMAIN rows
      /\ next[a].status = "failed"
      /\ \A j \in DOMAIN rows : Same(next[j], rows[j]) /\ (j # a => next[j] = rows[j])
  <2>1. Typed /\ "failed" \in {"selected", "failed", "completed", "superseded"}
    BY DEF IInv
  <2> DEFINE marked == [rows EXCEPT ![a].status = "failed"]
  <2>2. /\ marked \in Seq(Decision) /\ Len(marked) = Len(rows)
        /\ DOMAIN marked = DOMAIN rows
        /\ marked[a].status = "failed"
        /\ \A j \in DOMAIN rows : Same(marked[j], rows[j]) /\ (j # a => marked[j] = rows[j])
    BY <1>1, <2>1, Relabelled
  <2> HIDE DEF marked, next
  <2> QED BY <1>2, <2>2 DEF marked
<1> HIDE DEF next
<1>4. ASSUME NEW i \in DOMAIN rows
      PROVE  /\ next[i].status = "completed" <=> rows[i].status = "completed"
             /\ next[i].status = "superseded" <=> rows[i].status = "superseded"
  <2>1. CASE i = a
    BY <1>1, <1>3, <2>1
  <2>2. CASE i # a
    BY <1>3, <2>2
  <2> QED BY <2>1, <2>2
<1> QED BY <1>3, <1>4 DEF next, a

LEMMA GrowsByOne ==
    ASSUME IInv, NEW t \in Tasks, task[t].role \in Roles, config' = config,
           task' \in [Tasks -> TaskState],
           \A u \in Tasks : task'[u].attempt = task[u].attempt /\ task'[u].role = task[u].role,
           NEW base, base \in Seq(Decision), Len(base) = Len(rows), DOMAIN base = DOMAIN rows,
           \A i \in DOMAIN rows :
              /\ Same(base[i], rows[i])
              /\ base[i].status = "completed" <=> rows[i].status = "completed"
              /\ base[i].status = "superseded" <=> rows[i].status = "superseded",
           NEW w \in Derived, task[t].attempt > 1 => w.rejections # {},
           NEW recovery, NEW override \in Overrides \cup {None}, NEW C,
           NEW reason \in Reasons \cup {"none"},
           rows' = base \/ Recorded(t, base, w, recovery, override, C, reason)
    PROVE  IInv' /\ Stand
<1>1. CASE rows' = base
  <2>1. Typed'
    BY <1>1 DEF IInv, Typed
  <2>2. DOMAIN rows' = DOMAIN rows
    BY <1>1
  <2>3. Stand
    BY <1>1, <2>2 DEF Stand
  <2> QED BY <1>1, <2>1, <2>2, <2>3, Grows
<1>2. CASE Recorded(t, base, w, recovery, override, C, reason)
  <2> DEFINE n == Len(rows) + 1
  <2>1. /\ rows' \in Seq(Decision) /\ DOMAIN rows' = 1 .. n
        /\ \A i \in DOMAIN rows : i \in DOMAIN rows' /\ i < n /\ rows'[i] = base[i]
        /\ rows'[n].key = Key(t) /\ rows'[n].status = "selected"
        /\ rows'[n].workload = w /\ Agrees(rows'[n], config)
    BY <1>2, RecordedIs DEF IInv
  <2>2. Typed'
    BY <2>1 DEF IInv, Typed
  <2>3. \A i \in DOMAIN rows' : i \notin DOMAIN rows => i = n
    BY <2>1 DEF IInv, Typed
  <2> HIDE DEF n
  <2>4. DOMAIN rows \subseteq DOMAIN rows'
    BY <2>1
  <2>5. \A i \in DOMAIN rows' : i \notin DOMAIN rows =>
              /\ \A j \in DOMAIN rows : j < i
              /\ rows'[i].key = Key(t) /\ rows'[i].status = "selected"
              /\ Agrees(rows'[i], config)
              /\ task[t].attempt > 1 => rows'[i].workload.rejections # {}
    BY <2>1, <2>3
  <2>6. \A i \in DOMAIN rows :
              /\ Same(rows'[i], rows[i])
              /\ rows'[i].status = "completed" => rows[i].status = "completed"
              /\ rows'[i].status = "superseded" <=> rows[i].status = "superseded"
    BY <2>1
  <2>7. Stand
    <3>1. \A i \in DOMAIN rows :
             rows'[i].status = "superseded" <=> rows[i].status = "superseded"
      BY <2>6
    <3> QED BY <2>4, <2>6, <3>1 DEF Stand
  <2> QED BY <2>2, <2>4, <2>5, <2>6, <2>7, Grows
<1> QED BY <1>1, <1>2

\* Every choice of a workload, of a base and of an override that records a row.
Records(t, base, w, recovery, override, C, reason) ==
    /\ task[t].role \in Roles /\ config' = config
    /\ Recorded(t, base, w, recovery, override, C, reason)
    /\ base \in Seq(Decision) /\ Len(base) = Len(rows) /\ DOMAIN base = DOMAIN rows
    /\ \A i \in DOMAIN rows :
          /\ Same(base[i], rows[i])
          /\ base[i].status = "completed" <=> rows[i].status = "completed"
          /\ base[i].status = "superseded" <=> rows[i].status = "superseded"
    /\ w \in Derived /\ override \in Overrides \cup {None}
    /\ reason \in Reasons \cup {"none"}
    /\ task[t].attempt > 1 => w.rejections # {}
    /\ \/ Live(t) = {} /\ recovery = None /\ reason = "none" /\ base = rows
       \/ /\ Active(t) \in Live(t)
          /\ rows[Active(t)].key.revision = config.revision
          /\ reason \in Reasons /\ override = None
          /\ recovery = [reason |-> reason, previous |-> rows[Active(t)].candidate]

LEMMA ResolveInv ==
    ASSUME IInv, NEW t \in Tasks, Resolve(t)
    PROVE  /\ IInv' /\ Stand
           /\ \E w, recovery, override, C, reason :
                 Records(t, rows, w, recovery, override, C, reason)
<1>1. /\ task[t].role \in Roles /\ Live(t) = {} /\ UNCHANGED <<config, cooled, task>>
      /\ Workload(t) \in Derived
      /\ \E o \in Overrides \cup {None} :
            Recorded(t, rows, Workload(t), None, o, cooled, "none")
  BY ResolveIs DEF IInv
<1>2. PICK o \in Overrides \cup {None} :
         Recorded(t, rows, Workload(t), None, o, cooled, "none")
  BY <1>1
<1>3. task[t].attempt > 1 => Workload(t).rejections # {}
  BY LaterIsGraded DEF IInv
<1>4. /\ rows \in Seq(Decision)
      /\ \A i \in DOMAIN rows :
            /\ Same(rows[i], rows[i])
            /\ rows[i].status = "completed" <=> rows[i].status = "completed"
            /\ rows[i].status = "superseded" <=> rows[i].status = "superseded"
  BY DEF IInv, Typed, Same
<1>5. /\ task' \in [Tasks -> TaskState] /\ config' = config
      /\ \A u \in Tasks : task'[u].attempt = task[u].attempt /\ task'[u].role = task[u].role
  BY <1>1 DEF IInv, Typed
<1>6. IInv' /\ Stand
  BY <1>1, <1>2, <1>3, <1>4, <1>5, GrowsByOne
<1>7. Records(t, rows, Workload(t), None, o, cooled, "none")
  BY <1>1, <1>2, <1>3, <1>4, <1>5 DEF Records
<1> QED BY <1>6, <1>7

LEMMA AdvanceInv ==
    ASSUME IInv, NEW t \in Tasks, Advance(t)
    PROVE  /\ IInv' /\ Stand
           /\ \/ Len(rows') = Len(rows)
              \/ \E base, w, recovery, override, C, reason :
                    Records(t, base, w, recovery, override, C, reason)
<1> DEFINE a == Active(t)
           base == FailedRow(a)
<1>1. /\ task[t].role \in Roles /\ a \in Live(t)
      /\ rows[a].key.revision = config.revision
      /\ config' = config /\ task' \in [Tasks -> TaskState]
      /\ \A u \in Tasks :
            task'[u].attempt = task[u].attempt /\ task'[u].role = task[u].role
      /\ \/ rows' \in {rows, base}
         \/ \E reason \in Reasons, w \in Workloads(t) : \E C :
               Recorded(t, base, w, [reason |-> reason, previous |-> rows[a].candidate],
                        None, C, reason)
  BY AdvanceIs DEF IInv
<1>2. a # 0
  BY <1>1, ActiveIs DEF IInv
<1>3. /\ base \in Seq(Decision) /\ Len(base) = Len(rows) /\ DOMAIN base = DOMAIN rows
      /\ \A i \in DOMAIN rows :
            /\ Same(base[i], rows[i])
            /\ base[i].status = "completed" <=> rows[i].status = "completed"
            /\ base[i].status = "superseded" <=> rows[i].status = "superseded"
  BY <1>1, <1>2, FailedRowIs
<1> HIDE DEF base
<1>4. Workload(t) \in Workloads(t) /\ \A w \in Workloads(t) :
         w \in Derived /\ (task[t].attempt > 1 => w.rejections # {})
  BY <1>1, WorkloadsAre DEF Workloads
<1>5. CASE rows' = base
  <2>1. IInv' /\ Stand
    BY <1>1, <1>3, <1>4, <1>5, GrowsByOne
  <2> QED BY <1>3, <1>5, <2>1
<1>6. CASE rows' = rows
  <2>1. /\ rows \in Seq(Decision)
        /\ \A i \in DOMAIN rows :
              /\ Same(rows[i], rows[i])
              /\ rows[i].status = "completed" <=> rows[i].status = "completed"
              /\ rows[i].status = "superseded" <=> rows[i].status = "superseded"
    BY DEF IInv, Typed, Same
  <2>2. IInv' /\ Stand
    BY <1>1, <1>4, <1>6, <2>1, GrowsByOne
  <2> QED BY <1>6, <2>2
<1>7. CASE \E reason \in Reasons, w \in Workloads(t) : \E C :
              Recorded(t, base, w, [reason |-> reason, previous |-> rows[a].candidate],
                       None, C, reason)
  <2>0. PICK reason \in Reasons, w \in Workloads(t) : \E C :
           Recorded(t, base, w, [reason |-> reason, previous |-> rows[a].candidate],
                    None, C, reason)
    BY <1>7
  <2>1. PICK C : Recorded(t, base, w, [reason |-> reason, previous |-> rows[a].candidate],
                          None, C, reason)
    BY <2>0
  <2>2. w \in Derived /\ (task[t].attempt > 1 => w.rejections # {})
    BY <1>4
  <2>3. IInv' /\ Stand
    BY <1>1, <1>3, <2>1, <2>2, GrowsByOne
  <2>4. Records(t, base, w, [reason |-> reason, previous |-> rows[a].candidate],
                None, C, reason)
    BY <1>1, <1>3, <2>1, <2>2 DEF Records
  <2> QED BY <2>3, <2>4
<1> QED BY <1>1, <1>5, <1>6, <1>7

LEMMA CompleteInv ==
    ASSUME IInv, NEW t \in Tasks, Complete(t)
    PROVE  IInv' /\ Stand /\ Len(rows') = Len(rows)
<1> DEFINE a == Active(t)
<1>1. /\ task[t].role \in Roles /\ a # 0 /\ config' = config
      /\ rows' = [rows EXCEPT ![a].status = "completed"]
      /\ \/ /\ task[t].role = "implementer"
            /\ task' = [task EXCEPT ![t].role = "reviewer"]
         \/ /\ task[t].role = "reviewer"
            /\ task' = [task EXCEPT ![t].role = "done"]
         \/ /\ task[t].role = "reviewer" /\ task[t].attempt < MaxAttempts
            /\ task' = [task EXCEPT ![t].role = "implementer", ![t].attempt = @ + 1]
  BY DEF Complete
<1>2. a \in Live(t) /\ a \in DOMAIN rows /\ DOMAIN rows \subseteq Nat \ {0}
         /\ rows[a].status = "selected" /\ \A k \in Live(t) : k <= a
  BY <1>1, ActiveIs DEF IInv
<1>3. /\ rows' \in Seq(Decision) /\ Len(rows') = Len(rows) /\ DOMAIN rows' = DOMAIN rows
      /\ rows'[a].status = "completed"
      /\ \A j \in DOMAIN rows : Same(rows'[j], rows[j]) /\ (j # a => rows'[j] = rows[j])
  <2>1. Typed /\ "completed" \in {"selected", "failed", "completed", "superseded"}
    BY DEF IInv
  <2> DEFINE marked == [rows EXCEPT ![a].status = "completed"]
  <2>2. /\ marked \in Seq(Decision) /\ Len(marked) = Len(rows)
        /\ DOMAIN marked = DOMAIN rows
        /\ marked[a].status = "completed"
        /\ \A j \in DOMAIN rows : Same(marked[j], rows[j]) /\ (j # a => marked[j] = rows[j])
    <3> HIDE DEF a
    <3> QED BY <1>2, <2>1, Relabelled
  <2> HIDE DEF marked, a
  <2>3. rows' = marked
    BY <1>1 DEF marked
  <2> QED BY <2>2, <2>3
<1> HIDE DEF a
<1>4. task[t] \in TaskState /\ task \in [Tasks -> TaskState] /\ task[t].attempt \in Nat \ {0}
  BY DEF IInv, Typed, TaskState
<1>5. /\ task' \in [Tasks -> TaskState]
      /\ \A u \in Tasks : u # t => task'[u] = task[u]
      /\ \/ /\ task[t].role = "implementer"
            /\ task'[t].role = "reviewer" /\ task'[t].attempt = task[t].attempt
         \/ /\ task[t].role = "reviewer"
            /\ task'[t].role = "done" /\ task'[t].attempt = task[t].attempt
         \/ /\ task[t].role = "reviewer"
            /\ task'[t].role = "implementer" /\ task'[t].attempt = task[t].attempt + 1
  <2>1. CASE /\ task[t].role = "implementer"
             /\ task' = [task EXCEPT ![t].role = "reviewer"]
    <3>1. [task[t] EXCEPT !.role = "reviewer"] \in TaskState
      BY <1>4 DEF TaskState, Roles
    <3> QED BY <1>4, <2>1, <3>1 DEF TaskState
  <2>2. CASE /\ task[t].role = "reviewer"
             /\ task' = [task EXCEPT ![t].role = "done"]
    <3>1. [task[t] EXCEPT !.role = "done"] \in TaskState
      BY <1>4 DEF TaskState, Roles
    <3> QED BY <1>4, <2>2, <3>1 DEF TaskState
  <2>3. CASE /\ task[t].role = "reviewer" /\ task[t].attempt < MaxAttempts
             /\ task' = [task EXCEPT ![t].role = "implementer", ![t].attempt = @ + 1]
    <3> DEFINE n == task[t].attempt + 1
    <3>1. n \in Nat \ {0}
      BY <1>4
    <3>2. [task[t] EXCEPT !.role = "implementer", !.attempt = @ + 1]
             = [task[t] EXCEPT !.role = "implementer", !.attempt = n]
      OBVIOUS
    <3> HIDE DEF n
    <3>3. [task[t] EXCEPT !.role = "implementer", !.attempt = n] \in TaskState
      BY <1>4, <3>1 DEF TaskState, Roles
    <3> QED BY <1>4, <2>3, <3>2, <3>3 DEF TaskState, n
  <2> QED BY <1>1, <2>1, <2>2, <2>3
<1>6. Typed'
  BY <1>1, <1>3, <1>5 DEF IInv, Typed
<1>7. Agreed'
  BY <1>3 DEF IInv, Agreed, Agrees, Same
<1>8. Graded'
  BY <1>3 DEF IInv, Graded, Same
<1>9. SameAction(rows[a].key, Key(t))
  BY <1>2 DEF Live
<1>10. rows[a].key.task = t /\ rows[a].key.role = task[t].role
          /\ rows[a].key.attempt = task[t].attempt
  BY <1>9 DEF SameAction, Key
<1>11. Ended'
  <2> SUFFICES ASSUME NEW i \in DOMAIN rows', rows'[i].status = "completed"
               PROVE  /\ Past(task'[rows'[i].key.task], rows'[i].key)
                      /\ \A k \in DOMAIN rows' : k > i => ~SameAction(rows'[i].key, rows'[k].key)
    BY DEF Ended
  <2>1. i \in DOMAIN rows /\ rows'[i].key = rows[i].key
           /\ \A k \in DOMAIN rows' : k \in DOMAIN rows /\ rows'[k].key = rows[k].key
    BY <1>3 DEF Same
  <2>2. CASE i = a
    <3>1. Past(task'[t], rows[a].key)
      BY <1>4, <1>5, <1>10 DEF Past
    <3>2. ASSUME NEW k \in DOMAIN rows, k > a, SameAction(rows[a].key, rows[k].key)
          PROVE  FALSE
      <4>1. SameAction(rows[k].key, Key(t))
        BY <1>9, <3>2 DEF SameAction
      <4>2. k \notin Live(t)
        BY <1>2, <3>2
      <4>3. rows[k].status = "superseded"
        BY <4>1, <4>2 DEF Live
      <4>4. a < k
        BY <1>2, <3>2
      <4> QED BY <1>2, <3>2, <4>3, <4>4 DEF IInv, Closed
    <3> QED BY <1>10, <2>1, <2>2, <3>1, <3>2
  <2>3. CASE i # a
    <3>1. /\ rows[i].status = "completed"
          /\ Past(task[rows[i].key.task], rows[i].key)
          /\ \A k \in DOMAIN rows : k > i => ~SameAction(rows[i].key, rows[k].key)
      BY <1>3, <2>1, <2>3 DEF IInv, Ended
    <3>2. rows[i].key \in [task : Tasks, role : Roles, attempt : Nat \ {0},
                           revision : {c.revision : c \in Configs}]
      <4>1. rows[i] \in Decision
        BY <2>1 DEF IInv, Typed
      <4> QED BY <4>1 DEF Decision
    <3>3. rows[i].key.attempt \in Nat
      BY <3>2
    <3>4. Past(task'[rows[i].key.task], rows[i].key)
      <4>1. CASE rows[i].key.task = t
        BY <1>4, <1>5, <3>1, <3>3, <4>1 DEF Past
      <4>2. CASE rows[i].key.task # t
        BY <1>5, <3>1, <3>2, <4>2
      <4> QED BY <4>1, <4>2
    <3> QED BY <2>1, <3>1, <3>4
  <2> QED BY <2>2, <2>3
<1>12. Closed'
  <2>1. \A i \in DOMAIN rows : rows'[i].status = "superseded" => rows[i].status = "superseded"
    BY <1>2, <1>3
  <2>2. \A i \in DOMAIN rows : rows[i].status = "superseded" => rows'[i].status = "superseded"
    BY <1>2, <1>3
  <2> QED BY <1>3, <2>1, <2>2 DEF IInv, Closed, Same
<1>13. Stand
  <2>1. \A i \in DOMAIN rows : rows'[i].status = "superseded" <=> rows[i].status = "superseded"
    BY <1>2, <1>3
  <2> QED BY <1>3, <2>1 DEF Stand
<1> QED BY <1>3, <1>6, <1>7, <1>8, <1>11, <1>12, <1>13 DEF IInv

LEMMA ResetInv ==
    ASSUME IInv, NEW t \in Tasks, ResetAction(t)
    PROVE  IInv' /\ Stand /\ Len(rows') = Len(rows)
<1>1. /\ \A i \in Live(t) : rows[i].status \in {"selected", "failed"}
      /\ rows' = [i \in DOMAIN rows |->
                     IF i \in Live(t) THEN [rows[i] EXCEPT !.status = "superseded"]
                     ELSE rows[i]]
      /\ UNCHANGED <<config, cooled, task>>
  BY DEF ResetAction
<1>2. rows \in Seq(Decision) /\ Len(rows) \in Nat /\ DOMAIN rows = 1 .. Len(rows)
         /\ \A i \in DOMAIN rows : rows[i] \in Decision
  BY DEF IInv, Typed
<1>3. \A i \in DOMAIN rows :
         /\ [rows[i] EXCEPT !.status = "superseded"] \in Decision
         /\ Same([rows[i] EXCEPT !.status = "superseded"], rows[i])
         /\ [rows[i] EXCEPT !.status = "superseded"].status = "superseded"
         /\ Same(rows[i], rows[i])
  BY <1>2 DEF Decision, Same
<1>4. /\ DOMAIN rows' = DOMAIN rows
      /\ \A i \in DOMAIN rows :
            /\ rows'[i] \in Decision /\ Same(rows'[i], rows[i])
            /\ i \in Live(t) => rows'[i].status = "superseded"
            /\ i \notin Live(t) => rows'[i] = rows[i]
  BY <1>1, <1>2, <1>3
<1>5. rows' \in Seq(Decision) /\ Len(rows') = Len(rows)
  BY <1>1, <1>2, <1>4
<1>6. Typed'
  BY <1>1, <1>5 DEF IInv, Typed
<1>7. Agreed'
  BY <1>4 DEF IInv, Agreed, Agrees, Same
<1>8. Graded'
  BY <1>4 DEF IInv, Graded, Same
<1>9. Ended'
  <2>1. \A i \in DOMAIN rows : rows'[i].status = "completed" => rows[i].status = "completed"
    BY <1>4
  <2> QED BY <1>1, <1>4, <2>1 DEF IInv, Ended, Same
<1>10. Closed'
  <2> SUFFICES ASSUME NEW j \in DOMAIN rows, NEW k \in DOMAIN rows, j < k,
                      SameAction(rows[j].key, rows[k].key), rows'[k].status = "superseded"
               PROVE  rows'[j].status = "superseded"
    BY <1>4 DEF Closed, Same
  <2>1. CASE rows[j].status = "superseded"
    BY <1>4, <2>1
  <2>2. CASE rows[j].status # "superseded"
    <3>1. rows[k].status # "superseded"
      BY <2>2 DEF IInv, Closed
    <3>2. k \in Live(t)
      BY <1>4, <3>1
    <3>3. j \in Live(t)
      BY <2>2, <3>2 DEF Live, SameAction
    <3> QED BY <1>4, <3>3
  <2> QED BY <2>1, <2>2
<1>11. Stand
  <2>1. \A i \in DOMAIN rows :
           rows'[i].status = "superseded" <=> rows[i].status = "superseded" \/ i \in Live(t)
    BY <1>4
  <2> QED BY <1>4, <1>5, <2>1 DEF Stand
<1> QED BY <1>5, <1>6, <1>7, <1>8, <1>9, <1>10, <1>11 DEF IInv

\* Every step keeps the invariant, and one that adds a row records a selection.
LEMMA StepInv ==
    ASSUME IInv, [Next]_vars
    PROVE  /\ IInv' /\ Stand
           /\ \/ Len(rows') = Len(rows)
              \/ \E t \in Tasks : \E base, w, recovery, override, C, reason :
                    Records(t, base, w, recovery, override, C, reason)
<1>1. CASE \E t \in Tasks : Resolve(t)
  BY <1>1, ResolveInv
<1>2. CASE \E t \in Tasks : Advance(t)
  BY <1>2, AdvanceInv
<1>3. CASE \E t \in Tasks : Complete(t)
  BY <1>3, CompleteInv
<1>4. CASE \E t \in Tasks : ResetAction(t)
  BY <1>4, ResetInv
<1>5. CASE EditConfig
  BY <1>5 DEF EditConfig, IInv, Typed, Agreed, Graded, Ended, Closed, Stand, Same
<1>6. CASE CooldownEnds \/ UNCHANGED vars
  <2>1. UNCHANGED <<config, task, rows>>
    BY <1>6 DEF CooldownEnds, vars
  <2> QED BY <2>1 DEF IInv, Typed, Agreed, Graded, Ended, Closed, Stand, Same
<1> QED BY <1>1, <1>2, <1>3, <1>4, <1>5, <1>6 DEF Next

\* The ledger as every selection, advance, completion, reset and edit leaves it
\* (resolve, #advance, accept, resetAction): each row names a candidate its
\* configuration had, and a completed row ends its action.
THEOREM InvHolds == Spec => []IInv
<1>1. IInv /\ [Next]_vars => IInv'
  BY StepInv
<1> QED BY <1>1, InitInv, PTL DEF Spec

-------------------------------------------------------------------------------
(* What a new row keeps *)

LEMMA AppendedIs ==
    ASSUME IInv, NEW t \in Tasks, NEW base, NEW w, NEW recovery, NEW override, NEW C, NEW reason,
           Records(t, base, w, recovery, override, C, reason)
    PROVE  LET n == Len(rows) + 1
               in == Asked(t, w, recovery, override, C)
               s == selectCandidate(in)
           IN  /\ Appended = {n} /\ Len(rows') = n
               /\ \A i \in DOMAIN rows : i \in DOMAIN rows' /\ i \in 1 .. n - 1
                                         /\ rows'[i] = base[i]
               /\ \A i \in 1 .. n - 1 : i \in DOMAIN rows
               /\ rows'[n] \in Decision
               /\ rows'[n].key = Key(t) /\ rows'[n].workload = w /\ rows'[n].reason = reason
               /\ rows'[n].step = Step(in) /\ rows'[n].candidate = s.candidate
               /\ rows'[n].tier = s.tier /\ rows'[n].provider = s.provider
               /\ rows'[n].reasons = routedConsidered(in)
               /\ rows'[n].equivalent = s.equivalent /\ rows'[n].override = override
               /\ Agrees(rows'[n], config)
               /\ SoundInput(in) /\ ~Refused(in)
<1> DEFINE n == Len(rows) + 1
           in == Asked(t, w, recovery, override, C)
           s == selectCandidate(in)
<1>1. Len(rows) \in Nat /\ DOMAIN rows = 1 .. Len(rows) /\ n - 1 = Len(rows) /\ n > Len(rows)
  BY DEF IInv, Typed
<1>2. /\ rows' \in Seq(Decision) /\ Len(rows') = n /\ DOMAIN rows' = 1 .. n
      /\ \A i \in DOMAIN rows : i \in DOMAIN rows' /\ i < n /\ rows'[i] = base[i]
      /\ rows'[n] \in Decision
      /\ rows'[n].key = Key(t) /\ rows'[n].status = "selected"
      /\ rows'[n].workload = w /\ rows'[n].reason = reason
      /\ rows'[n].step = Step(in) /\ rows'[n].candidate = s.candidate
      /\ rows'[n].tier = s.tier /\ rows'[n].provider = s.provider
      /\ rows'[n].reasons = routedConsidered(in)
      /\ rows'[n].equivalent = s.equivalent /\ rows'[n].override = override
      /\ Agrees(rows'[n], config)
      /\ SoundInput(in) /\ ~Refused(in)
  BY RecordedIs DEF Records, IInv
<1> HIDE DEF n, in, s
<1>3. Appended = {n}
  BY <1>1, <1>2 DEF Appended
<1> QED BY <1>1, <1>2, <1>3 DEF n, in, s

FloorsKept ==
    \A i \in Appended :
          LET row == rows'[i]
          IN  /\ \/ row.key.role = "reviewer" \/ row.key.attempt > 1
                 \/ row.workload.kind # "implementation"
                    => row.tier >= config.high
              /\ row.key.role = "reviewer" =>
                    \A j \in DOMAIN rows :
                       /\ rows[j].key.task = row.key.task
                       /\ rows[j].key.attempt = row.key.attempt
                       /\ rows[j].key.role = "implementer"
                       /\ rows[j].status = "completed"
                       => row.tier >= rows[j].tier

LEMMA StepFloors ==
    ASSUME IInv, NEW t \in Tasks, NEW base, NEW w, NEW recovery, NEW override, NEW C, NEW reason,
           Records(t, base, w, recovery, override, C, reason)
    PROVE  FloorsKept
<1> DEFINE n == Len(rows) + 1
           in == Asked(t, w, recovery, override, C)
           s == selectCandidate(in)
           row == rows'[n]
<1>1. /\ Appended = {n} /\ row \in Decision /\ row.key = Key(t) /\ row.workload = w
      /\ row.tier = s.tier /\ SoundInput(in) /\ ~Refused(in)
  BY AppendedIs
<1>2. /\ in.config = config /\ in.workload = w /\ in.key = Key(t)
      /\ in.implementer = implementerDecisionFor(Key(t))
      /\ Key(t).role = task[t].role /\ Key(t).attempt = task[t].attempt /\ Key(t).task = t
  BY DEF Asked, Key
<1>3. s.tier >= baseMinRank(in) /\ s.tier >= reviewerFloorRank(in)
  <2> HIDE DEF in
  <2> QED BY <1>1, Selected DEF s
<1> HIDE DEF in, s, row, n
<1>4. s.tier \in Nat
  BY <1>1 DEF Decision
<1>5. /\ config \in Configs /\ config.tiers \subseteq Nat /\ config.high \in Nat
      /\ baseMinRank(in) \in Nat /\ in.workload.minimum \in Nat
      /\ reviewerFloorRank(in) \in Nat
  <2>1. config \in Configs
    BY DEF IInv, Typed
  <2> QED BY <1>1, <1>2, <2>1, ConfigIs, FloorsAre, MinimumIs
<1>6. ASSUME \/ row.key.role = "reviewer" \/ row.key.attempt > 1
             \/ row.workload.kind # "implementation"
      PROVE  row.tier >= config.high
  <2>1. ~ (/\ in.key.role = "implementer" /\ in.workload.kind = "implementation"
           /\ in.workload.rejections = {})
    BY <1>1, <1>2, <1>6 DEF Records
  <2>2. baseMinRank(in) = Max({in.workload.minimum, in.config.high})
    BY <2>1 DEF baseMinRank
  <2>3. baseMinRank(in) >= config.high
    <3> DEFINE a == in.workload.minimum
               b == in.config.high
    <3>1. a \in Int /\ b \in Int /\ b = config.high
      BY <1>2, <1>5
    <3> HIDE DEF a, b
    <3>2. Max({a, b}) >= b
      BY <3>1, MaxOfPair
    <3> QED BY <2>2, <3>1, <3>2 DEF a, b
  <2> QED BY <1>1, <1>3, <1>4, <1>5, <2>3
<1>7. ASSUME row.key.role = "reviewer", NEW j \in DOMAIN rows,
             rows[j].key.task = row.key.task, rows[j].key.attempt = row.key.attempt,
             rows[j].key.role = "implementer", rows[j].status = "completed"
      PROVE  row.tier >= rows[j].tier
  <2> DEFINE found == {i \in DOMAIN rows : /\ rows[i].key.task = Key(t).task
                                           /\ rows[i].key.role = "implementer"
                                           /\ rows[i].key.attempt = Key(t).attempt}
             m == Max(found)
  <2>1. j \in found
    BY <1>1, <1>7
  <2>2. DOMAIN rows = 1 .. Len(rows) /\ Len(rows) \in Int /\ 1 \in Int
    BY DEF IInv, Typed
  <2>3. found \in SUBSET Int /\ IsFiniteSet(found)
    BY <2>2, FS_Interval, FS_Subset
  <2>4. m \in found /\ j <= m
    <3> HIDE DEF found
    <3> QED BY <2>1, <2>3, MaxIs
  <2>5. m = j
    <3>1. SameAction(rows[j].key, rows[m].key)
      BY <1>1, <1>7, <2>4 DEF SameAction
    <3>2. ~ (m > j)
      BY <1>7, <2>4, <3>1 DEF IInv, Ended
    <3>3. m \in Int /\ j \in Int
      BY <2>3, <2>1, <2>4
    <3> HIDE DEF m, found
    <3> QED BY <2>4, <3>2, <3>3
  <2>6. in.implementer = [candidate |-> rows[m].candidate,
                          provider |-> rows[m].provider, tier |-> rows[m].tier]
    BY <1>1, <1>2, <1>7, <2>1 DEF implementerDecisionFor
  <2>7. in.implementer # None /\ in.implementer.tier = rows[j].tier
    <3>1. rows[j] \in Decision
      BY DEF IInv, Typed
    <3>2. rows[j].candidate \in Nat /\ rows[j].provider \in Nat /\ rows[j].tier \in Nat
      BY <3>1 DEF Decision
    <3> HIDE DEF m, found
    <3> QED BY <2>5, <2>6, <3>2, NoneAssumption
  <2>8. reviewerFloorRank(in) = rows[j].tier
    <3> HIDE DEF m, found
    <3> QED BY <1>1, <1>2, <1>7, <2>7 DEF reviewerFloorRank
  <2> QED BY <1>1, <1>3, <2>8
<1> QED BY <1>1, <1>6, <1>7 DEF FloorsKept, row

LEMMA NoneAppended == ASSUME Len(rows') = Len(rows), IInv PROVE Appended = {}
<1>1. Len(rows) \in Nat
  BY DEF IInv, Typed
<1> QED BY <1>1 DEF Appended

\* A Reviewer is never weaker than the Implementer whose work it reviews, and
\* neither a Reviewer nor an Implementer after a rejected Review or of work not known
\* to be safe is below the high tier (baseMinRank, reviewerFloorRank): a completed row
\* is its action's last, so the floor is that of the work under review.
THEOREM FloorsHold == Spec => TierFloors
<1>1. IInv /\ [Next]_vars => [FloorsKept]_vars
  <2> SUFFICES ASSUME IInv, [Next]_vars PROVE FloorsKept
    OBVIOUS
  <2>1. CASE Len(rows') = Len(rows)
    BY <2>1, NoneAppended DEF FloorsKept
  <2>2. CASE \E t \in Tasks : \E base, w, recovery, override, C, reason :
                Records(t, base, w, recovery, override, C, reason)
    BY <2>2, StepFloors
  <2> QED BY <2>1, <2>2, StepInv
<1>2. Spec => [][FloorsKept]_vars
  BY <1>1, InvHolds, PTL DEF Spec
<1> QED BY <1>2 DEF FloorsKept, TierFloors

\* Two steps of the action in the history have different numbers.
LEMMA StepsDiffer ==
    ASSUME NEW in, SoundInput(in), NEW k \in PriorSteps(in), NEW l \in PriorSteps(in),
           in.history[k].step = in.history[l].step
    PROVE  k = l
<1> DEFINE Earlier(i) == {j \in 1 .. i - 1 : SameAction(in.history[j].key, in.history[i].key)}
<1>1. k \in Nat /\ l \in Nat
  <2>1. PICK S : in.history \in Seq(S)
    BY DEF SoundInput
  <2>2. DOMAIN in.history = 1 .. Len(in.history)
    BY <2>1
  <2> QED BY <2>2 DEF PriorSteps
<1>2. \A i \in PriorSteps(in) :
         i \in DOMAIN in.history /\ in.history[i].step = Cardinality(Earlier(i))
  BY DEF SoundInput, Accepted, validateHistory, PriorSteps
<1>3. ASSUME NEW i \in PriorSteps(in), NEW j \in PriorSteps(in), i < j, i \in Nat, j \in Nat
      PROVE  in.history[i].step # in.history[j].step
  <2>1. Earlier(i) \subseteq Earlier(j)
    <3>1. in.history[i].key = in.history[j].key
      BY DEF PriorSteps
    <3>2. 1 .. i - 1 \subseteq 1 .. j - 1
      BY <1>3
    <3> QED BY <3>1, <3>2
  <2>2. i \in Earlier(j) /\ i \notin Earlier(i)
    <3>1. SameAction(in.history[i].key, in.history[j].key)
      BY DEF PriorSteps, SameAction
    <3>2. i \in 1 .. j - 1 /\ i \notin 1 .. i - 1
      <4>1. i \in DOMAIN in.history
        BY DEF PriorSteps
      <4>2. PICK S : in.history \in Seq(S)
        BY DEF SoundInput
      <4>3. i >= 1
        BY <4>1, <4>2
      <4> QED BY <1>3, <4>3
    <3> QED BY <3>1, <3>2
  <2>3. IsFiniteSet(Earlier(j))
    <3>1. j - 1 \in Int /\ 1 \in Int
      BY <1>3
    <3>2. IsFiniteSet(1 .. j - 1)
      BY <3>1, FS_Interval
    <3> QED BY <3>2, FS_Subset
  <2>4. Cardinality(Earlier(i)) # Cardinality(Earlier(j))
    <3> HIDE DEF Earlier
    <3> QED BY <2>1, <2>2, <2>3, FS_Subset
  <2> HIDE DEF Earlier
  <2> QED BY <1>2, <2>4
<1> QED BY <1>1, <1>3

OrderKept ==
    \A i \in Appended : rows'[i].step > 0 =>
          LET row == rows'[i]
              previous == rows'[Followed(i)]
              left == {c \in DOMAIN config.candidates :
                          /\ config.candidates[c].tier = previous.tier
                          /\ config.candidates[c].provider # previous.provider
                          /\ row.reasons[c] \subseteq {"recovery_order"}}
          IN  \/ /\ row.tier > previous.tier
                 /\ row.reason \in FallbackReasons => left = {}
              \/ /\ row.tier = previous.tier
                 /\ row.provider # previous.provider
                 /\ row.reason \in FallbackReasons

\* Where a recovery may go.
LEMMA RecoveryGoesUp ==
    ASSUME NEW in, SoundInput(in), ~Refused(in), in.override = None, in.recovery # None,
           in.recovery.reason \in FallbackReasons \cup EscalationReasons,
           in.recovery.previous \in DOMAIN in.config.candidates
    PROVE  LET s == selectCandidate(in)
               from == in.recovery.previous
               left == {c \in DOMAIN in.config.candidates :
                          /\ Tier(in, c) = Tier(in, from)
                          /\ Provider(in, c) # Provider(in, from)
                          /\ routedConsidered(in)[c] \subseteq {"recovery_order"}}
           IN  \/ /\ s.tier > Tier(in, from)
                  /\ in.recovery.reason \in FallbackReasons => left = {}
               \/ /\ s.tier = Tier(in, from)
                  /\ s.provider # Provider(in, from)
                  /\ in.recovery.reason \in FallbackReasons
<1> DEFINE s == selectCandidate(in)
           from == in.recovery.previous
           gates == considered(in)
           routed == routedConsidered(in)
           passed == {c \in DOMAIN gates : gates[c] = {}}
           across == {c \in passed : /\ Tier(in, c) = Tier(in, from)
                                     /\ Provider(in, c) # Provider(in, from)}
           left == {c \in DOMAIN in.config.candidates :
                          /\ Tier(in, c) = Tier(in, from)
                          /\ Provider(in, c) # Provider(in, from)
                          /\ routed[c] \subseteq {"recovery_order"}}
<1>1. /\ s.candidate \in Eligible(routed) /\ s.candidate \in DOMAIN in.config.candidates
      /\ s.tier = Tier(in, s.candidate) /\ s.provider = Provider(in, s.candidate)
      /\ s.tier >= recoveryFloorRank(in)
  BY Selected DEF s, routed
<1> HIDE DEF s
<1>2. routed[s.candidate] = {}
  BY <1>1 DEF Eligible
<1>3. DOMAIN gates = DOMAIN in.config.candidates
  BY DEF considered
<1>4. in.config \in Configs
  BY DEF SoundInput
<1>5. /\ Tier(in, s.candidate) \in in.config.tiers /\ in.config.tiers \subseteq Int
      /\ Tier(in, from) \in Int
  BY <1>1, <1>4, ConfigIs DEF Tier
<1>6. CASE in.recovery.reason \in EscalationReasons
  <2>1. Recovering(in, EscalationReasons)
    BY <1>6 DEF Recovering
  <2>2. recoveryFloorRank(in) \in Nat /\
           \/ recoveryFloorRank(in) > Tier(in, from)
           \/ \A t \in in.config.tiers : t < recoveryFloorRank(in)
    BY <2>1, FloorsAre
  <2>3. s.tier > Tier(in, from)
    BY <1>1, <1>5, <2>2
  <2>4. in.recovery.reason \notin FallbackReasons
    BY <1>6 DEF FallbackReasons, EscalationReasons
  <2> QED BY <2>3, <2>4 DEF s
<1>7. CASE in.recovery.reason \in FallbackReasons
  <2>1. Recovering(in, FallbackReasons)
    BY <1>7 DEF Recovering
  <2>2. routed = [c \in DOMAIN gates |->
                    IF c \in passed \ FallbackTargets(in, passed)
                    THEN {"recovery_order"} ELSE gates[c]]
    BY <2>1 DEF routedConsidered
  <2>3. FallbackTargets(in, passed) =
           IF across # {} THEN across
           ELSE {c \in passed : Tier(in, c) > Tier(in, from)}
    BY DEF FallbackTargets
  <2>4. s.candidate \in passed /\ s.candidate \in FallbackTargets(in, passed)
    <3> DEFINE targets == FallbackTargets(in, passed)
    <3> HIDE DEF targets
    <3>1. ASSUME s.candidate \in passed \ targets PROVE FALSE
      <4>1. routed[s.candidate] = {"recovery_order"}
        BY <1>1, <1>3, <2>2, <3>1 DEF targets
      <4> QED BY <1>2, <4>1
    <3>2. routed[s.candidate] = gates[s.candidate]
      BY <1>1, <1>3, <2>2, <3>1 DEF targets
    <3>3. s.candidate \in passed
      BY <1>1, <1>2, <1>3, <3>2
    <3> QED BY <3>1, <3>3 DEF targets
  <2>5. CASE across # {}
    <3>1. s.candidate \in across
      BY <2>3, <2>4, <2>5
    <3>2. Tier(in, s.candidate) = Tier(in, from)
             /\ Provider(in, s.candidate) # Provider(in, from)
      BY <3>1
    <3> HIDE DEF across
    <3> QED BY <1>1, <1>7, <3>2 DEF s
  <2>6. CASE across = {}
    <3>1. Tier(in, s.candidate) > Tier(in, from)
      <4>1. s.candidate \in {c \in passed : Tier(in, c) > Tier(in, from)}
        BY <2>3, <2>4, <2>6
      <4> QED BY <4>1
    <3>2. ASSUME NEW c \in left PROVE FALSE
      <4>1. c \in DOMAIN gates /\ c \notin across /\ routed[c] \subseteq {"recovery_order"}
               /\ Tier(in, c) = Tier(in, from) /\ Provider(in, c) # Provider(in, from)
        BY <1>3, <2>6, <3>2
      <4>2. c \notin passed
        BY <4>1
      <4>3. routed[c] = gates[c]
        BY <2>2, <4>1, <4>2
      <4>4. gates[c] \subseteq Gates
        BY <1>3, <4>1 DEF considered
      <4>5. gates[c] = {}
        <5>1. "recovery_order" \notin Gates
          BY DEF Gates
        <5> HIDE DEF gates, routed
        <5> QED BY <4>1, <4>3, <4>4, <5>1
      <4> QED BY <4>1, <4>2, <4>5
    <3>3. left = {}
      BY <3>2
    <3> HIDE DEF left
    <3>4. s.tier > Tier(in, from) /\ left = {}
      BY <1>1, <3>1, <3>3
    <3> QED BY <3>4 DEF left, s, routed, from
  <2> QED BY <2>5, <2>6
<1> QED BY <1>6, <1>7

\* The recorded steps of the action, in the history and in the ledger.
LEMMA PriorRows ==
    ASSUME Typed, NEW t \in Tasks, NEW in, in.history = historyProjection, in.key = Key(t)
    PROVE  /\ \A k \in PriorSteps(in) : \E i \in Live(t) :
                 rows[i].key = Key(t) /\ in.history[k] = rows[i]
           /\ \A i \in Live(t) : rows[i].key = Key(t) =>
                 \E k \in PriorSteps(in) : in.history[k] = rows[i]
<1>1. PICK g : Enumerates(g, historyProjection, Len(rows))
  BY HistoryIs DEF Typed
<1>2. Len(rows) \in Nat /\ DOMAIN rows = 1 .. Len(rows)
  BY DEF Typed
<1>3. ASSUME NEW k \in PriorSteps(in)
      PROVE  \E i \in Live(t) : rows[i].key = Key(t) /\ in.history[k] = rows[i]
  <2>1. k \in DOMAIN g /\ in.history[k].key = Key(t)
    BY <1>1 DEF PriorSteps, Enumerates
  <2>2. g[k] \in Kept /\ in.history[k] = rows[g[k]]
    BY <1>1, <2>1 DEF Enumerates
  <2>3. g[k] \in Live(t)
    BY <2>1, <2>2 DEF Live, Kept, SameAction
  <2> QED BY <2>1, <2>2, <2>3
<1>4. ASSUME NEW i \in Live(t), rows[i].key = Key(t)
      PROVE  \E k \in PriorSteps(in) : in.history[k] = rows[i]
  <2>1. i \in Kept /\ i <= Len(rows)
    BY <1>2 DEF Live, Kept
  <2>2. PICK k \in DOMAIN g : g[k] = i
    BY <1>1, <2>1 DEF Enumerates
  <2>3. k \in DOMAIN in.history /\ in.history[k] = rows[i]
    BY <1>1, <2>2 DEF Enumerates
  <2> QED BY <1>4, <2>3 DEF PriorSteps
<1> QED BY <1>3, <1>4

LEMMA StepOrder ==
    ASSUME IInv, NEW t \in Tasks, NEW base, NEW w, NEW recovery, NEW override, NEW C, NEW reason,
           Records(t, base, w, recovery, override, C, reason)
    PROVE  OrderKept
<1> DEFINE n == Len(rows) + 1
           in == Asked(t, w, recovery, override, C)
           s == selectCandidate(in)
           row == rows'[n]
<1>1. /\ Appended = {n} /\ row \in Decision /\ row.key = Key(t) /\ row.reason = reason
      /\ row.step = Step(in) /\ row.tier = s.tier /\ row.provider = s.provider
      /\ row.reasons = routedConsidered(in) /\ SoundInput(in) /\ ~Refused(in)
      /\ \A i \in DOMAIN rows : i \in 1 .. n - 1 /\ rows'[i] = base[i]
      /\ \A i \in 1 .. n - 1 : i \in DOMAIN rows
  BY AppendedIs
<1>2. /\ in.config = config /\ in.key = Key(t) /\ in.history = historyProjection
      /\ in.recovery = recovery /\ in.override = override
  BY DEF Asked
<1> HIDE DEF in, s, row, n
<1> SUFFICES ASSUME row.step > 0
             PROVE  LET previous == rows'[Followed(n)]
                        left == {c \in DOMAIN config.candidates :
                          /\ config.candidates[c].tier = previous.tier
                          /\ config.candidates[c].provider # previous.provider
                          /\ row.reasons[c] \subseteq {"recovery_order"}}
                    IN  \/ /\ row.tier > previous.tier
                           /\ row.reason \in FallbackReasons => left = {}
                        \/ /\ row.tier = previous.tier
                           /\ row.provider # previous.provider
                           /\ row.reason \in FallbackReasons
  BY <1>1 DEF OrderKept, row
<1>3. Typed /\ config \in Configs
  BY DEF IInv, Typed
<1>4. PriorSteps(in) # {}
  <2>1. Cardinality(PriorSteps(in)) # 0
    BY <1>1 DEF Step
  <2> QED BY <2>1, FS_EmptySet
<1>5. Live(t) # {}
  BY <1>2, <1>3, <1>4, PriorRows
<1>6. /\ Active(t) \in Live(t) /\ reason \in Reasons /\ override = None
      /\ recovery = [reason |-> reason, previous |-> rows[Active(t)].candidate]
  BY <1>5 DEF Records
<1>7. recovery # None /\ recovery.reason = reason
         /\ reason \in FallbackReasons \cup EscalationReasons
  <2>1. rows[Active(t)] \in Decision
    BY <1>3, <1>6, ActiveIs DEF Typed
  <2>2. rows[Active(t)].candidate \in Nat
    BY <2>1 DEF Decision
  <2>3. recovery \in [reason : Reasons, previous : Nat]
    BY <1>6, <2>2
  <2> QED BY <1>6, <2>3, NoneAssumption, ReasonsAssumption
<1>8. PICK k \in PriorSteps(in) : /\ in.history[k].step = Step(in) - 1
                                  /\ in.history[k].candidate = recovery.previous
  BY <1>1, <1>2, <1>7 DEF SoundInput, Accepted
<1>9. PICK i \in Live(t) : rows[i].key = Key(t) /\ in.history[k] = rows[i]
  BY <1>2, <1>3, PriorRows
<1> DEFINE Before(j) == /\ rows'[j].key = rows'[n].key /\ rows'[j].step = rows'[n].step - 1
                        /\ rows'[j].status # "superseded"
           f == Followed(n)
<1>10. \A j \in DOMAIN rows : /\ rows'[j].key = rows[j].key /\ rows'[j].step = rows[j].step
                              /\ rows'[j].status = "superseded" <=> rows[j].status = "superseded"
                              /\ rows'[j].tier = rows[j].tier
                              /\ rows'[j].provider = rows[j].provider
  BY <1>1 DEF Records, Same
<1>11. i \in 1 .. n - 1 /\ Before(i)
  <2>1. i \in DOMAIN rows /\ rows[i].status # "superseded"
    BY DEF Live
  <2> QED BY <1>1, <1>8, <1>9, <1>10, <2>1 DEF row
<1>12. f \in 1 .. n - 1 /\ Before(f)
  <2>1. f = CHOOSE j \in 1 .. n - 1 : Before(j)
    BY DEF Followed
  <2> HIDE DEF f, Before
  <2> QED BY <1>11, <2>1
<1>13. f \in DOMAIN rows
  BY <1>1, <1>12
<1> HIDE DEF f
<1>14. /\ rows[f].key = Key(t) /\ rows[f].step = Step(in) - 1 /\ rows[f].status # "superseded"
       /\ f \in Live(t)
  <2>1. /\ rows[f].key = Key(t) /\ rows[f].step = Step(in) - 1
        /\ rows[f].status # "superseded"
    BY <1>1, <1>10, <1>12, <1>13 DEF row
  <2> QED BY <1>13, <2>1 DEF Live, SameAction
<1>15. PICK l \in PriorSteps(in) : in.history[l] = rows[f]
  BY <1>2, <1>3, <1>14, PriorRows
<1>16. rows[f].candidate = recovery.previous
  <2>1. in.history[k].step = in.history[l].step
    BY <1>8, <1>14, <1>15
  <2>2. k = l
    BY <1>1, <2>1, StepsDiffer
  <2> QED BY <1>8, <1>15, <2>2
<1>17. Agrees(rows[f], config)
  <2>1. PICK c \in Configs : Agrees(rows[f], c)
    BY <1>13 DEF IInv, Agreed
  <2>2. c.revision = config.revision
    BY <1>14, <2>1 DEF Agrees, Key
  <2> QED BY <1>3, <2>1, <2>2, RevisionsAssumption
<1>18. /\ recovery.previous \in DOMAIN config.candidates
       /\ rows'[f].tier = Tier(in, recovery.previous)
       /\ rows'[f].provider = Provider(in, recovery.previous)
  BY <1>2, <1>10, <1>13, <1>16, <1>17 DEF Agrees, Tier, Provider
<1> DEFINE left == {c \in DOMAIN in.config.candidates :
                          /\ Tier(in, c) = Tier(in, recovery.previous)
                          /\ Provider(in, c) # Provider(in, recovery.previous)
                          /\ routedConsidered(in)[c] \subseteq {"recovery_order"}}
<1>19. \/ /\ s.tier > Tier(in, recovery.previous)
          /\ reason \in FallbackReasons => left = {}
       \/ /\ s.tier = Tier(in, recovery.previous)
          /\ s.provider # Provider(in, recovery.previous)
          /\ reason \in FallbackReasons
  BY <1>1, <1>2, <1>6, <1>7, <1>18, RecoveryGoesUp DEF s
<1>20. left = {c \in DOMAIN config.candidates :
                          /\ config.candidates[c].tier = rows'[f].tier
                          /\ config.candidates[c].provider # rows'[f].provider
                          /\ row.reasons[c] \subseteq {"recovery_order"}}
  BY <1>1, <1>2, <1>18 DEF Tier, Provider
<1> HIDE DEF left
<1> QED BY <1>1, <1>18, <1>19, <1>20 DEF f

\* Recovery goes up, never down: an escalation to a stronger candidate, a fallback to
\* the same tier at another provider, and to a stronger one only when no candidate that
\* passes the gates was left at the tier (recoveryFloorRank, FallbackTargets): the step
\* a row followed is the one the failure was reported for, since no two standing rows
\* of an action have the same step.
THEOREM OrderHolds == Spec => RecoveryOrder
<1>1. IInv /\ [Next]_vars => [OrderKept]_vars
  <2> SUFFICES ASSUME IInv, [Next]_vars PROVE OrderKept
    OBVIOUS
  <2>1. CASE Len(rows') = Len(rows)
    BY <2>1, NoneAppended DEF OrderKept
  <2>2. CASE \E t \in Tasks : \E base, w, recovery, override, C, reason :
                Records(t, base, w, recovery, override, C, reason)
    BY <2>2, StepOrder
  <2> QED BY <2>1, <2>2, StepInv
<1>2. Spec => [][OrderKept]_vars
  BY <1>1, InvHolds, PTL DEF Spec
<1> QED BY <1>2, PTL DEF OrderKept, RecoveryOrder

-------------------------------------------------------------------------------
(* Totals *)

LEMMA TotalBump ==
    ASSUME NEW P, IsFiniteSet(P), NEW f \in [P -> Nat], NEW p \in P
    PROVE  Total([f EXCEPT ![p] = f[p] + 1]) = Total(f) + 1
<1> DEFINE h == [f EXCEPT ![p] = f[p] + 1]
           x == <<p, f[p] + 1>>
<1>1. h \in [P -> Nat] /\ DOMAIN h = P /\ DOMAIN f = P
  OBVIOUS
<1>2. h[p] = f[p] + 1 /\ \A q \in P : q # p => h[q] = f[q]
  OBVIOUS
<1> HIDE DEF h
<1>3. /\ IsFiniteSet(Tickets(f)) /\ Total(f) = Cardinality(Tickets(f))
      /\ \A q, k : <<q, k>> \in Tickets(f) <=> q \in DOMAIN f /\ k \in 1 .. f[q]
  BY <1>1, TicketsFinite
<1>4. /\ Total(h) = Cardinality(Tickets(h))
      /\ \A q, k : <<q, k>> \in Tickets(h) <=> q \in DOMAIN h /\ k \in 1 .. h[q]
  BY <1>1, TicketsFinite
<1>5. x \notin Tickets(f)
  BY <1>1, <1>3
<1>6. Tickets(h) = Tickets(f) \cup {x}
  <2>1. \A y \in Tickets(f) : \E q, k : y = <<q, k>>
    BY DEF Tickets
  <2>2. \A y \in Tickets(h) : \E q, k : y = <<q, k>>
    BY DEF Tickets
  <2>3. \A q \in P : \A k :
           k \in 1 .. h[q] <=> k \in 1 .. f[q] \/ (q = p /\ k = f[p] + 1)
    <3> SUFFICES ASSUME NEW q \in P, NEW k
                 PROVE  k \in 1 .. h[q] <=> k \in 1 .. f[q] \/ (q = p /\ k = f[p] + 1)
      OBVIOUS
    <3>1. CASE q = p
      <4>1. f[p] \in Nat
        OBVIOUS
      <4> QED BY <1>2, <3>1, <4>1
    <3>2. CASE q # p
      BY <1>2, <3>2
    <3> QED BY <3>1, <3>2
  <2>4. \A q, k : <<q, k>> \in Tickets(h) <=> <<q, k>> \in Tickets(f) \/ <<q, k>> = x
    BY <1>1, <1>3, <1>4, <2>3
  <2> HIDE DEF x
  <2>5. \A y : y \in Tickets(h) <=> y \in Tickets(f) \/ y = x
    BY <2>1, <2>2, <2>4 DEF x
  <2> QED BY <2>5
<1>7. Cardinality(Tickets(f) \cup {x}) = Cardinality(Tickets(f)) + 1
  <2> HIDE DEF x
  <2> QED BY <1>3, <1>5, FS_AddElement
<1> QED BY <1>3, <1>4, <1>6, <1>7 DEF h

LEMMA TotalOfZeros ==
    ASSUME NEW P, IsFiniteSet(P)
    PROVE  Total([p \in P |-> 0]) = 0
<1> DEFINE f == [p \in P |-> 0]
<1>1. DOMAIN f = P /\ \A p \in P : f[p] = 0 /\ f[p] \in Nat
  OBVIOUS
<1> HIDE DEF f
<1>2. /\ Total(f) = Cardinality(Tickets(f))
      /\ \A q, k : <<q, k>> \in Tickets(f) <=> q \in DOMAIN f /\ k \in 1 .. f[q]
  BY <1>1, TicketsFinite
<1>3. Tickets(f) = {}
  <2>1. \A y \in Tickets(f) : \E q, k : y = <<q, k>>
    BY DEF Tickets
  <2>2. \A k : k \notin 1 .. 0
    OBVIOUS
  <2> QED BY <1>1, <1>2, <2>1, <2>2
<1> QED BY <1>2, <1>3, FS_EmptySet DEF f

\* What is counted class by class adds up to what there is.
LEMMA TotalOfCounts ==
    ASSUME NEW W, IsFiniteSet(W), NEW P, IsFiniteSet(P), NEW q \in [W -> P]
    PROVE  Total([p \in P |-> Cardinality({i \in W : q[i] = p})]) = Cardinality(W)
<1> DEFINE Class(U, p) == {i \in U : q[i] = p}
           Count(U) == [p \in P |-> Cardinality(Class(U, p))]
           T == {n \in Nat : \A U \in SUBSET W : Cardinality(U) = n => Total(Count(U)) = n}
<1>1. \A U \in SUBSET W : /\ IsFiniteSet(U) /\ Cardinality(U) \in Nat
                          /\ \A p \in P : IsFiniteSet(Class(U, p))
  BY FS_Subset, FS_CardinalityType
<1>2. \A U \in SUBSET W : Count(U) \in [P -> Nat]
  <2> SUFFICES ASSUME NEW U \in SUBSET W, NEW p \in P PROVE Cardinality(Class(U, p)) \in Nat
    OBVIOUS
  <2> HIDE DEF Class
  <2> QED BY <1>1, FS_CardinalityType
<1>3. 0 \in T
  <2> SUFFICES ASSUME NEW U \in SUBSET W, Cardinality(U) = 0 PROVE Total(Count(U)) = 0
    OBVIOUS
  <2>1. U = {}
    BY <1>1, FS_EmptySet
  <2>2. \A p \in P : Cardinality(Class(U, p)) = 0
    BY <2>1, FS_EmptySet
  <2>3. Count(U) = [p \in P |-> 0]
    <3> HIDE DEF Class
    <3> QED BY <2>2
  <2> QED BY <2>3, TotalOfZeros
<1>4. ASSUME NEW n \in Nat, n \in T
      PROVE  n + 1 \in T
  <2> SUFFICES ASSUME NEW U \in SUBSET W, Cardinality(U) = n + 1
               PROVE  Total(Count(U)) = n + 1
    OBVIOUS
  <2>1. PICK x \in U : TRUE
    BY FS_EmptySet
  <2> DEFINE V == U \ {x}
             p == q[x]
  <2>2. V \in SUBSET W /\ p \in P
    OBVIOUS
  <2>3. Cardinality(V) = n
    <3>1. IsFiniteSet(U)
      BY <1>1
    <3>2. Cardinality(U \ {x}) = Cardinality(U) - 1
      BY <2>1, <3>1, FS_RemoveElement
    <3> QED BY <3>2
  <2>4. Total(Count(V)) = n
    <3> HIDE DEF V, Count
    <3> QED BY <1>4, <2>2, <2>3
  <2>5. Class(U, p) = Class(V, p) \cup {x} /\ x \notin Class(V, p)
    BY <2>1
  <2>6. \A r \in P : r # p => Class(U, r) = Class(V, r)
    BY <2>1
  <2>7. Cardinality(Class(U, p)) = Cardinality(Class(V, p)) + 1
    <3> HIDE DEF Class, V, p
    <3> QED BY <1>1, <2>2, <2>5, FS_AddElement
  <2> HIDE DEF Class, V, p
  <2>8. Count(U) = [Count(V) EXCEPT ![p] = Count(V)[p] + 1]
    <3>1. \A r \in P : Count(U)[r] = IF r = p THEN Count(V)[r] + 1 ELSE Count(V)[r]
      BY <2>6, <2>7
    <3> QED BY <2>2, <3>1
  <2>9. Total([Count(V) EXCEPT ![p] = Count(V)[p] + 1]) = Total(Count(V)) + 1
    <3> HIDE DEF Count
    <3> QED BY <1>2, <2>2, TotalBump
  <2> QED BY <2>4, <2>8, <2>9
<1>5. Cardinality(W) \in T
  <2>1. Cardinality(W) \in Nat
    BY FS_CardinalityType
  <2> HIDE DEF T
  <2> QED BY <1>3, <1>4, <2>1, Induction
<1>6. Total(Count(W)) = Cardinality(W)
  <2> HIDE DEF Count
  <2> QED BY <1>5
<1> QED BY <1>6

LEMMA TotalAdds ==
    ASSUME NEW P, IsFiniteSet(P), NEW f \in [P -> Nat], NEW g \in [P -> Nat]
    PROVE  Total([p \in P |-> f[p] + g[p]]) = Total(f) + Total(g)
<1> DEFINE h == [p \in P |-> f[p] + g[p]]
           move == [y \in Tickets(g) |-> <<y[1], f[y[1]] + y[2]>>]
           Moved == {move[y] : y \in Tickets(g)}
<1>1. h \in [P -> Nat] /\ DOMAIN h = P /\ DOMAIN f = P /\ DOMAIN g = P
         /\ \A p \in P : h[p] = f[p] + g[p] /\ h[p] \in Nat /\ f[p] \in Nat /\ g[p] \in Nat
  OBVIOUS
<1> HIDE DEF h
<1>2. /\ IsFiniteSet(Tickets(f)) /\ Total(f) = Cardinality(Tickets(f)) /\ Total(f) \in Nat
      /\ \A q, k : <<q, k>> \in Tickets(f) <=> q \in DOMAIN f /\ k \in 1 .. f[q]
  BY <1>1, TicketsFinite
<1>3. /\ IsFiniteSet(Tickets(g)) /\ Total(g) = Cardinality(Tickets(g)) /\ Total(g) \in Nat
      /\ \A q, k : <<q, k>> \in Tickets(g) <=> q \in DOMAIN g /\ k \in 1 .. g[q]
  BY <1>1, TicketsFinite
<1>4. /\ Total(h) = Cardinality(Tickets(h))
      /\ \A q, k : <<q, k>> \in Tickets(h) <=> q \in DOMAIN h /\ k \in 1 .. h[q]
  BY <1>1, TicketsFinite
<1>5. \A F : \A y \in Tickets(F) : y = <<y[1], y[2]>>
  BY DEF Tickets
<1>6. \A y \in Tickets(g) : /\ y[1] \in P /\ y[2] \in 1 .. g[y[1]]
                            /\ move[y] = <<y[1], f[y[1]] + y[2]>>
  BY <1>1, <1>3, <1>5
<1>7. /\ DOMAIN move = Tickets(g)
      /\ \A y, z \in Tickets(g) : move[y] = move[z] => y = z
  <2>1. ASSUME NEW y \in Tickets(g), NEW z \in Tickets(g), move[y] = move[z] PROVE y = z
    <3>1. y[1] = z[1] /\ f[y[1]] + y[2] = f[z[1]] + z[2]
      BY <1>6, <2>1
    <3>2. f[y[1]] \in Int /\ y[2] \in Int /\ z[2] \in Int
      <4>1. y[1] \in P /\ y[2] \in 1 .. g[y[1]] /\ z[2] \in 1 .. g[z[1]]
        BY <1>6
      <4>2. f[y[1]] \in Nat
        BY <1>1, <4>1
      <4> QED BY <4>1, <4>2
    <3>3. y[2] = z[2]
      BY <3>1, <3>2
    <3> QED BY <1>5, <3>1, <3>3
  <2> QED BY <2>1
<1>8. IsFiniteSet(Moved) /\ Cardinality(Moved) = Cardinality(Tickets(g))
  <2> HIDE DEF move
  <2>1. move \in [Tickets(g) -> Moved]
    <3>1. move = [y \in Tickets(g) |-> move[y]]
      BY DEF move
    <3> QED BY <3>1
  <2>2. move \in Surjection(Tickets(g), Moved) /\ move \in Injection(Tickets(g), Moved)
    BY <1>7, <2>1 DEF Surjection, Injection, IsInjective
  <2> HIDE DEF Moved
  <2> QED BY <1>3, <2>2, FS_Surjection
<1>9. Tickets(f) \cap Moved = {}
  <2> SUFFICES ASSUME NEW y \in Tickets(g), move[y] \in Tickets(f) PROVE FALSE
    OBVIOUS
  <2>1. f[y[1]] + y[2] \in 1 .. f[y[1]]
    BY <1>2, <1>6
  <2>2. f[y[1]] \in Int /\ y[2] \in Int /\ y[2] >= 1
    BY <1>1, <1>6
  <2> QED BY <2>1, <2>2
<1>10. Tickets(h) = Tickets(f) \cup Moved
  <2>1. ASSUME NEW y \in Tickets(h) PROVE y \in Tickets(f) \cup Moved
    <3>1. y = <<y[1], y[2]>> /\ y[1] \in P /\ y[2] \in 1 .. h[y[1]]
      BY <1>1, <1>4, <1>5
    <3>2. CASE y[2] <= f[y[1]]
      <4>1. y[2] \in 1 .. f[y[1]]
        BY <1>1, <3>1, <3>2
      <4> QED BY <1>1, <1>2, <3>1, <4>1
    <3>3. CASE ~(y[2] <= f[y[1]])
      <4> DEFINE k == y[2] - f[y[1]]
                 z == <<y[1], k>>
      <4>1. k \in 1 .. g[y[1]] /\ f[y[1]] + k = y[2]
        BY <1>1, <3>1, <3>3
      <4>2. z \in Tickets(g)
        <5> HIDE DEF k
        <5> QED BY <1>1, <1>3, <3>1, <4>1
      <4>3. move[z] = y
        <5> HIDE DEF k
        <5> QED BY <1>6, <3>1, <4>1, <4>2
      <4> QED BY <4>2, <4>3
    <3> QED BY <3>2, <3>3
  <2>2. ASSUME NEW y \in Tickets(f) PROVE y \in Tickets(h)
    <3>1. y = <<y[1], y[2]>> /\ y[1] \in P /\ y[2] \in 1 .. f[y[1]]
      BY <1>1, <1>2, <1>5
    <3>2. y[2] \in 1 .. h[y[1]]
      BY <1>1, <3>1
    <3> QED BY <1>1, <1>4, <3>1, <3>2
  <2>3. ASSUME NEW y \in Tickets(g) PROVE move[y] \in Tickets(h)
    <3>1. f[y[1]] + y[2] \in 1 .. h[y[1]]
      <4>1. y[1] \in P /\ y[2] \in 1 .. g[y[1]]
        BY <1>6
      <4>2. f[y[1]] \in Nat /\ g[y[1]] \in Nat /\ h[y[1]] = f[y[1]] + g[y[1]]
        BY <1>1, <4>1
      <4>3. \A a, c \in Nat : \A d \in 1 .. c : a + d \in 1 .. a + c
        OBVIOUS
      <4> QED BY <4>1, <4>2, <4>3
    <3> QED BY <1>1, <1>4, <1>6, <3>1
  <2> HIDE DEF move
  <2> QED BY <2>1, <2>2, <2>3
<1>11. Cardinality(Tickets(f) \cup Moved) = Cardinality(Tickets(f)) + Cardinality(Moved)
  <2>1. Cardinality(Tickets(f) \cap Moved) = 0
    BY <1>9, FS_EmptySet
  <2>2. Cardinality(Tickets(f)) \in Nat /\ Cardinality(Moved) \in Nat
    BY <1>2, <1>3, <1>8
  <2> HIDE DEF Moved
  <2> QED BY <1>2, <1>8, <2>1, <2>2, FS_Union
<1> QED BY <1>2, <1>3, <1>4, <1>8, <1>10, <1>11 DEF h

LEMMA TotalScales ==
    ASSUME NEW P, IsFiniteSet(P), NEW f \in [P -> Nat], NEW m \in Nat
    PROVE  Total([p \in P |-> m * f[p]]) = m * Total(f)
<1> DEFINE Times(n) == [p \in P |-> n * f[p]]
           T == {n \in Nat : Total(Times(n)) = n * Total(f)}
<1>1. Total(f) \in Nat
  BY TicketsFinite
<1>2. 0 \in T
  <2>1. Times(0) = [p \in P |-> 0]
    OBVIOUS
  <2>2. Total(Times(0)) = 0
    BY <2>1, TotalOfZeros
  <2> HIDE DEF Times
  <2> QED BY <1>1, <2>2
<1>3. ASSUME NEW n \in Nat, n \in T
      PROVE  n + 1 \in T
  <2>1. Times(n) \in [P -> Nat]
    OBVIOUS
  <2>2. Times(n + 1) = [p \in P |-> Times(n)[p] + f[p]]
    <3>1. \A p \in P : (n + 1) * f[p] = n * f[p] + f[p]
      OBVIOUS
    <3>2. \A p \in P : Times(n)[p] = n * f[p]
      OBVIOUS
    <3> QED BY <3>1, <3>2
  <2>3. Total([p \in P |-> Times(n)[p] + f[p]]) = Total(Times(n)) + Total(f)
    <3> HIDE DEF Times
    <3> QED BY <2>1, TotalAdds
  <2>4. Total(Times(n)) = n * Total(f)
    BY <1>3
  <2> HIDE DEF Times
  <2>5. Total(Times(n + 1)) = (n + 1) * Total(f)
    BY <1>1, <2>2, <2>3, <2>4
  <2> QED BY <2>5
<1>4. m \in T
  <2> HIDE DEF T
  <2> QED BY <1>2, <1>3, Induction
<1> QED BY <1>4

LEMMA TotalGrows ==
    ASSUME NEW P, IsFiniteSet(P), P # {}, NEW f \in [P -> Nat], NEW g \in [P -> Nat],
           \A p \in P : f[p] < g[p]
    PROVE  Total(f) < Total(g)
<1>1. /\ IsFiniteSet(Tickets(f)) /\ Total(f) = Cardinality(Tickets(f)) /\ Total(f) \in Nat
      /\ \A q, k : <<q, k>> \in Tickets(f) <=> q \in P /\ k \in 1 .. f[q]
  BY TicketsFinite
<1>2. /\ IsFiniteSet(Tickets(g)) /\ Total(g) = Cardinality(Tickets(g)) /\ Total(g) \in Nat
      /\ \A q, k : <<q, k>> \in Tickets(g) <=> q \in P /\ k \in 1 .. g[q]
  BY TicketsFinite
<1>3. Tickets(f) \subseteq Tickets(g)
  <2> SUFFICES ASSUME NEW y \in Tickets(f) PROVE y \in Tickets(g)
    OBVIOUS
  <2>1. y = <<y[1], y[2]>>
    BY DEF Tickets
  <2>2. y[1] \in P /\ y[2] \in 1 .. f[y[1]]
    BY <1>1, <2>1
  <2>3. y[2] \in 1 .. g[y[1]]
    BY <2>2
  <2> QED BY <1>2, <2>1, <2>2, <2>3
<1>4. PICK p \in P : TRUE
  OBVIOUS
<1>5. <<p, g[p]>> \in Tickets(g) /\ <<p, g[p]>> \notin Tickets(f)
  <2>1. f[p] \in Nat /\ g[p] \in Nat /\ f[p] < g[p]
    OBVIOUS
  <2>2. g[p] \in 1 .. g[p] /\ g[p] \notin 1 .. f[p]
    BY <2>1
  <2> QED BY <1>1, <1>2, <2>2
<1>6. Cardinality(Tickets(f)) <= Cardinality(Tickets(g))
         /\ Cardinality(Tickets(f)) # Cardinality(Tickets(g))
  BY <1>2, <1>3, <1>5, FS_Subset
<1> QED BY <1>1, <1>2, <1>6

-------------------------------------------------------------------------------
(* Shares *)

LEMMA CountsTotal ==
    ASSUME NEW in, SoundInput(in)
    PROVE  Total(countByProvider(in)) = Cardinality(windowRows(in))
<1> DEFINE W == windowRows(in)
           P == DOMAIN in.config.weights
           q == [i \in W |-> in.history[i].provider]
<1>1. in.config \in Configs /\ IsFiniteSet(P)
  BY ConfigIs DEF SoundInput
<1>2. W \subseteq DOMAIN in.history /\ IsFiniteSet(W)
  BY CountsAre
<1>3. \A i \in DOMAIN in.history : in.history[i].provider \in P
  <2> SUFFICES ASSUME NEW i \in DOMAIN in.history PROVE in.history[i].provider \in P
    OBVIOUS
  <2>1. /\ in.history[i].candidate \in DOMAIN in.config.candidates
        /\ in.config.candidates[in.history[i].candidate].provider = in.history[i].provider
    BY DEF SoundInput, Accepted, validateHistory
  <2> QED BY <1>1, <2>1, ConfigIs
<1>4. q \in [W -> P]
  BY <1>2, <1>3
<1>5. countByProvider(in) = [p \in P |-> Cardinality({i \in W : q[i] = p})]
  <2>1. \A p \in P : {i \in W : q[i] = p} = {i \in W : in.history[i].provider = p}
    OBVIOUS
  <2>2. countByProvider(in)
           = [p \in P |-> Cardinality({i \in W : in.history[i].provider = p})]
    BY DEF countByProvider
  <2> HIDE DEF W, q, P
  <2> QED BY <2>1, <2>2
<1> HIDE DEF W, P, q
<1> QED BY <1>1, <1>2, <1>4, <1>5, TotalOfCounts DEF W

\* The deficits add up to nothing, so some provider has its share.
LEMMA SomeShareIsKept ==
    ASSUME NEW in, SoundInput(in)
    PROVE  \E p \in DOMAIN in.config.weights : deficit(in, p) >= 0
<1> DEFINE P == DOMAIN in.config.weights
           w == [p \in P |-> in.config.weights[p]]
           c == countByProvider(in)
           n == Cardinality(windowRows(in))
           m == totalWeight(in.config)
           f == [p \in P |-> n * w[p]]
           g == [p \in P |-> m * c[p]]
<1>1. /\ in.config \in Configs /\ IsFiniteSet(P) /\ P # {}
      /\ w \in [P -> Nat] /\ m \in Nat
  <2>1. in.config \in Configs
    BY DEF SoundInput
  <2>2. \A p \in P : in.config.weights[p] \in Nat
    BY <2>1, ConfigIs
  <2> QED BY <2>1, <2>2, ConfigIs, WeightIs
<1>2. n \in Nat /\ DOMAIN c = P /\ \A p \in P : c[p] \in Nat /\ deficit(in, p) \in Int
  BY CountsAre
<1>3. c \in [P -> Nat]
  <2>1. c = [p \in P |-> c[p]]
    BY DEF countByProvider
  <2> HIDE DEF c
  <2> QED BY <1>2, <2>1
<1>4. Total(w) = m /\ Total(c) = n
  <2>1. Total(w) = Total(in.config.weights)
    <3>1. DOMAIN w = P /\ \A p \in P : w[p] = in.config.weights[p]
      OBVIOUS
    <3>2. {{p} \X (1 .. w[p]) : p \in DOMAIN w}
             = {{p} \X (1 .. in.config.weights[p]) : p \in DOMAIN in.config.weights}
      <4> HIDE DEF w
      <4> QED BY <3>1
    <3> HIDE DEF w
    <3> QED BY <3>2 DEF Total
  <2> QED BY <2>1, CountsTotal DEF totalWeight
<1>11. \A p \in P : w[p] = in.config.weights[p]
  OBVIOUS
<1> HIDE DEF P, w, c, n, m
<1>5. Total(f) = n * m /\ Total(g) = m * n
  <2>1. Total(f) = n * Total(w)
    BY <1>1, <1>2, TotalScales
  <2>2. Total(g) = m * Total(c)
    BY <1>1, <1>3, TotalScales
  <2> HIDE DEF f, g
  <2> QED BY <1>4, <2>1, <2>2
<1>6. f \in [P -> Nat] /\ g \in [P -> Nat]
  <2>1. \A p \in P : n * w[p] \in Nat /\ m * c[p] \in Nat
    BY <1>1, <1>2, <1>3
  <2> QED BY <2>1
<1>7. \A p \in P : deficit(in, p) = n * w[p] - c[p] * m
  BY <1>11 DEF deficit, P, c, n, m
<1> SUFFICES ASSUME \A p \in P : ~(deficit(in, p) >= 0) PROVE FALSE
  BY DEF P
<1>8. \A p \in P : f[p] < g[p]
  <2> SUFFICES ASSUME NEW p \in P PROVE n * w[p] < m * c[p]
    OBVIOUS
  <2> DEFINE x == n * w[p]
             y == m * c[p]
  <2>1. x \in Int /\ y \in Int /\ c[p] * m = y
    BY <1>1, <1>2, <1>3
  <2>2. deficit(in, p) = x - y /\ deficit(in, p) \in Int /\ ~(deficit(in, p) >= 0)
    BY <1>2, <1>7, <2>1
  <2> HIDE DEF x, y
  <2>3. x < y
    BY <2>1, <2>2
  <2> QED BY <2>3 DEF x, y
<1>9. Total(f) < Total(g)
  <2> HIDE DEF f, g
  <2> QED BY <1>1, <1>6, <1>8, TotalGrows
<1>10. n * m \in Int /\ m * n = n * m
  BY <1>1, <1>2
<1> QED BY <1>5, <1>9, <1>10

\* An order-preserving enumeration keeps counts.
LEMMA ImageCount ==
    ASSUME NEW g, NEW P \in SUBSET DOMAIN g, IsFiniteSet(P), DOMAIN g \subseteq Int,
           \A k, l \in DOMAIN g : k < l => g[k] < g[l],
           \A k \in DOMAIN g : g[k] \in Int
    PROVE  Cardinality({g[k] : k \in P}) = Cardinality(P)
<1> DEFINE f == [k \in P |-> g[k]]
           Q == {g[k] : k \in P}
<1>1. f \in Surjection(P, Q)
  BY DEF Surjection
<1>2. \A k, l \in P : f[k] = f[l] => k = l
  <2> SUFFICES ASSUME NEW k \in P, NEW l \in P, g[k] = g[l] PROVE k = l
    OBVIOUS
  <2>1. k \in Int /\ l \in Int /\ g[k] \in Int /\ ~(g[k] < g[l]) /\ ~(g[l] < g[k])
    OBVIOUS
  <2>2. ~(k < l) /\ ~(l < k)
    BY <2>1
  <2> QED BY <2>1, <2>2
<1>3. f \in Injection(P, Q)
  <2>1. f \in [P -> Q]
    OBVIOUS
  <2> HIDE DEF f, Q
  <2> QED BY <1>2, <2>1 DEF Injection, IsInjective
<1> HIDE DEF f, Q
<1>4. Cardinality(Q) = Cardinality(P)
  BY <1>1, <1>3, FS_Surjection
<1> QED BY <1>4 DEF Q

LEMMA HistoryCount ==
    ASSUME Typed, NEW g, Enumerates(g, historyProjection, Len(rows)),
           NEW P \in SUBSET DOMAIN historyProjection
    PROVE  /\ IsFiniteSet(P) /\ Cardinality({g[k] : k \in P}) = Cardinality(P)
           /\ Len(historyProjection) \in Nat
           /\ DOMAIN historyProjection = 1 .. Len(historyProjection)
<1>1. historyProjection \in Seq(Decision)
  BY HistoryIs DEF Typed
<1>2. /\ DOMAIN historyProjection = 1 .. Len(historyProjection)
      /\ Len(historyProjection) \in Nat /\ Len(historyProjection) \in Int /\ 1 \in Int
  BY <1>1
<1>3. IsFiniteSet(P)
  BY <1>2, FS_Interval, FS_Subset
<1>4. /\ DOMAIN g = DOMAIN historyProjection /\ DOMAIN g \subseteq Int
      /\ \A k, l \in DOMAIN g : k < l => g[k] < g[l]
  BY <1>2 DEF Enumerates
<1>5. \A k \in DOMAIN g : g[k] \in Int
  <2>1. \A k \in DOMAIN g : g[k] \in DOMAIN rows
    BY DEF Enumerates, Kept
  <2>2. DOMAIN rows \subseteq Int
    BY DEF Typed
  <2> QED BY <2>1, <2>2
<1> QED BY <1>2, <1>3, <1>4, <1>5, ImageCount

\* Under c, the first k choices of r were free between all providers.
Free(r, k, c) ==
    /\ k <= c.window
    /\ \A i \in 1 .. k :
          /\ r[i].key.revision = c.revision
          /\ r[i].status # "superseded" /\ r[i].override = None
          /\ {c.candidates[x].provider : x \in r[i].equivalent} = DOMAIN c.weights

\* The rows of p among the first k.
Of(r, k, p) == {i \in 1 .. k : r[i].provider = p}

\* A free choice goes to a provider that was not ahead of its share.
Served(r, k, c) == Cardinality(Of(r, k - 1, r[k].provider)) * totalWeight(c)
                      <= (k - 1) * c.weights[r[k].provider]

Fair == \A k \in DOMAIN rows, c \in Configs : Free(rows, k, c) => Served(rows, k, c)

LEMMA NewRowIsFair ==
    ASSUME IInv, NEW t \in Tasks, NEW base, NEW w, NEW recovery, NEW override, NEW C, NEW reason,
           Records(t, base, w, recovery, override, C, reason), Stand,
           NEW c \in Configs, Free(rows', Len(rows) + 1, c)
    PROVE  Served(rows', Len(rows) + 1, c)
<1> DEFINE n == Len(rows) + 1
           in == Asked(t, w, recovery, override, C)
           s == selectCandidate(in)
           h == historyProjection
<1>1. /\ rows'[n].key = Key(t) /\ rows'[n].override = override
      /\ rows'[n].provider = s.provider /\ rows'[n].equivalent = s.equivalent
      /\ SoundInput(in) /\ ~Refused(in)
      /\ \A i \in DOMAIN rows : rows'[i] = base[i]
  BY AppendedIs
<1>2. in.config = config /\ in.history = h /\ in.override = override
  BY DEF Asked
<1>3. Len(rows) \in Nat /\ DOMAIN rows = 1 .. Len(rows) /\ n \in 1 .. n /\ n - 1 = Len(rows)
         /\ \A i \in DOMAIN rows : i \in 1 .. n
  BY DEF IInv, Typed
<1>4. Typed
  BY DEF IInv
<1> HIDE DEF n, in, s, h
<1>5. c = config
  <2>1. c.revision = config.revision
    BY <1>1, <1>3 DEF Free, Key, n
  <2> QED BY <1>4, <2>1, RevisionsAssumption DEF Typed
<1>6. Kept = DOMAIN rows
  <2>1. \A i \in DOMAIN rows : rows'[i].status # "superseded"
    BY <1>3 DEF Free, n
  <2>2. \A i \in DOMAIN rows : rows[i].status # "superseded"
    BY <1>1, <2>1 DEF Records
  <2> QED BY <2>2 DEF Kept
<1>7. PICK g : Enumerates(g, h, Len(rows))
  BY <1>4, HistoryIs DEF Typed, h
<1>8. /\ Len(h) \in Nat /\ DOMAIN h = 1 .. Len(h)
      /\ \A P \in SUBSET DOMAIN h :
            IsFiniteSet(P) /\ Cardinality({g[k] : k \in P}) = Cardinality(P)
  BY <1>4, <1>7, HistoryCount DEF h
<1>9. {g[k] : k \in DOMAIN h} = DOMAIN rows
  <2>1. \A k \in DOMAIN h : g[k] \in DOMAIN rows
    BY <1>7 DEF Enumerates, Kept
  <2>2. \A i \in DOMAIN rows : i <= Len(rows)
    BY <1>3
  <2>3. \A i \in DOMAIN rows : \E k \in DOMAIN h : g[k] = i
    BY <1>6, <1>7, <2>2 DEF Enumerates
  <2> QED BY <2>1, <2>3
<1>10. Len(h) = Len(rows)
  <2>1. Cardinality(DOMAIN h) = Cardinality(DOMAIN rows)
    <3>1. DOMAIN h \in SUBSET DOMAIN h
      OBVIOUS
    <3> QED BY <1>8, <1>9, <3>1
  <2>2. Cardinality(1 .. Len(h)) = Len(h) /\ Cardinality(1 .. Len(rows)) = Len(rows)
    <3>1. 1 \in Int /\ Len(h) \in Int /\ Len(rows) \in Int
             /\ (1 > Len(h) => Len(h) = 0) /\ (1 > Len(rows) => Len(rows) = 0)
             /\ Len(h) - 1 + 1 = Len(h) /\ Len(rows) - 1 + 1 = Len(rows)
      BY <1>3, <1>8
    <3> QED BY <3>1, FS_Interval
  <2> QED BY <1>3, <1>8, <2>1, <2>2
<1>11. windowRows(in) = DOMAIN h
  <2>1. config.window \in Nat /\ n <= config.window
    BY <1>4, <1>5, ConfigIs DEF Free, Typed, n
  <2>2. \A i \in DOMAIN h : i > Len(h) - config.window
    BY <1>3, <1>8, <1>10, <2>1
  <2> QED BY <1>2, <2>2 DEF windowRows
<1>12. Cardinality(windowRows(in)) = n - 1
  <2>1. 1 \in Int /\ Len(h) \in Int /\ (1 > Len(h) => Len(h) = 0) /\ Len(h) - 1 + 1 = Len(h)
    BY <1>8
  <2>2. Cardinality(1 .. Len(h)) = Len(h)
    BY <2>1, FS_Interval
  <2> QED BY <1>3, <1>8, <1>10, <1>11, <2>2
<1>13. ASSUME NEW p \in DOMAIN config.weights
       PROVE  countByProvider(in)[p] = Cardinality(Of(rows', n - 1, p))
  <2> DEFINE P == {k \in DOMAIN h : h[k].provider = p}
  <2>1. countByProvider(in)[p] = Cardinality(P)
    BY <1>2, <1>11 DEF countByProvider
  <2>2. Cardinality({g[k] : k \in P}) = Cardinality(P)
    BY <1>8
  <2>3. \A k \in DOMAIN h : h[k] = rows[g[k]]
    BY <1>7 DEF Enumerates
  <2>4. {g[k] : k \in P} = {i \in DOMAIN rows : rows[i].provider = p}
    BY <1>9, <2>3
  <2>5. {i \in DOMAIN rows : rows[i].provider = p} = Of(rows', n - 1, p)
    BY <1>3 DEF Stand, Same, Of
  <2> QED BY <2>1, <2>2, <2>4, <2>5
<1> DEFINE p == s.provider
<1>14. /\ s.equivalent # {} /\ s.equivalent \subseteq DOMAIN config.candidates
       /\ p = Provider(in, chosenEntry(in, s.equivalent))
  <2>1. in.override = None
    BY <1>1, <1>2, <1>3 DEF Free, n
  <2> QED BY <1>1, <1>2, <2>1, Selected DEF s
<1>15. {Provider(in, x) : x \in s.equivalent} = DOMAIN config.weights
  BY <1>1, <1>2, <1>3, <1>5 DEF Free, Provider, n
<1>16. p \in DOMAIN config.weights /\ \A q \in DOMAIN config.weights :
          deficit(in, q) <= deficit(in, p)
  <2>1. /\ chosenEntry(in, s.equivalent) \in s.equivalent
        /\ \A x \in s.equivalent : deficit(in, Provider(in, x)) <= deficit(in, p)
    BY <1>1, <1>2, <1>14, ChosenIn
  <2> HIDE DEF p
  <2> QED BY <1>14, <1>15, <2>1
<1> HIDE DEF p
<1>17. deficit(in, p) >= 0
  <2>1. PICK q \in DOMAIN config.weights : deficit(in, q) >= 0
    BY <1>1, <1>2, SomeShareIsKept
  <2>2. deficit(in, q) \in Int /\ deficit(in, p) \in Int
    BY <1>1, <1>2, <1>16, CountsAre
  <2> QED BY <1>16, <2>1, <2>2
<1>18. deficit(in, p) = (n - 1) * config.weights[p]
                           - Cardinality(Of(rows', n - 1, p)) * totalWeight(config)
  BY <1>2, <1>12, <1>13, <1>16 DEF deficit
<1>19. /\ (n - 1) * config.weights[p] \in Int
       /\ Cardinality(Of(rows', n - 1, p)) * totalWeight(config) \in Int
  <2>1. config \in Configs /\ config.weights[p] \in Nat /\ totalWeight(config) \in Nat
    BY <1>4, <1>16, ConfigIs, WeightIs DEF Typed
  <2>2. countByProvider(in)[p] \in Nat /\ n - 1 \in Nat
    BY <1>1, <1>2, <1>3, <1>16, CountsAre
  <2> QED BY <1>13, <1>16, <2>1, <2>2
<1> DEFINE x == (n - 1) * config.weights[p]
           y == Cardinality(Of(rows', n - 1, p)) * totalWeight(config)
<1>20. y <= x
  <2>1. x \in Int /\ y \in Int /\ x - y >= 0
    BY <1>17, <1>18, <1>19
  <2> HIDE DEF x, y
  <2> QED BY <2>1
<1> QED BY <1>1, <1>5, <1>20 DEF Served, p, n

LEMMA FairInv ==
    ASSUME IInv, Fair, [Next]_vars
    PROVE  Fair'
<1>1. /\ IInv' /\ Stand
      /\ \/ Len(rows') = Len(rows)
         \/ \E t \in Tasks : \E base, w, recovery, override, C, reason :
               Records(t, base, w, recovery, override, C, reason)
  BY StepInv
<1>2. /\ Len(rows) \in Nat /\ DOMAIN rows = 1 .. Len(rows)
      /\ Len(rows') \in Nat /\ DOMAIN rows' = 1 .. Len(rows')
  BY <1>1 DEF IInv, Typed
<1>3. ASSUME NEW k \in DOMAIN rows, NEW c \in Configs, Free(rows', k, c)
      PROVE  Served(rows', k, c)
  <2>1. \A i \in 1 .. k : i \in DOMAIN rows
    BY <1>2
  <2>2. \A i \in DOMAIN rows :
           /\ Same(rows'[i], rows[i])
           /\ rows[i].status = "superseded" => rows'[i].status = "superseded"
    BY <1>1 DEF Stand
  <2>3. Free(rows, k, c)
    BY <1>3, <2>1, <2>2 DEF Free, Same
  <2>4. Served(rows, k, c)
    BY <2>3 DEF Fair
  <2>5. rows'[k].provider = rows[k].provider
           /\ \A p : Of(rows', k - 1, p) = Of(rows, k - 1, p)
    <3>1. \A i \in 1 .. k - 1 : i \in DOMAIN rows
      BY <1>2
    <3> QED BY <2>2, <3>1 DEF Of, Same
  <2> QED BY <2>4, <2>5 DEF Served
<1>4. CASE Len(rows') = Len(rows)
  <2>1. DOMAIN rows' = DOMAIN rows
    BY <1>2, <1>4
  <2> QED BY <1>3, <2>1 DEF Fair
<1>5. CASE \E t \in Tasks : \E base, w, recovery, override, C, reason :
              Records(t, base, w, recovery, override, C, reason)
  <2>1. PICK t \in Tasks : \E base, w, recovery, override, C, reason :
                Records(t, base, w, recovery, override, C, reason)
    BY <1>5
  <2>2. PICK base, w, recovery, override, C, reason :
                Records(t, base, w, recovery, override, C, reason)
    BY <2>1
  <2>3. Len(rows') = Len(rows) + 1
    BY <2>2, AppendedIs
  <2>4. \A k \in DOMAIN rows' : k \in DOMAIN rows \/ k = Len(rows) + 1
    BY <1>2, <2>3
  <2>5. \A c \in Configs : Free(rows', Len(rows) + 1, c) => Served(rows', Len(rows) + 1, c)
    BY <1>1, <2>2, NewRowIsFair
  <2> QED BY <1>3, <2>4, <2>5 DEF Fair
<1> QED BY <1>1, <1>4, <1>5

\* The last row of a provider was served when the provider was not ahead.
LEMMA FairIs == ASSUME IInv, Fair PROVE SharesKept
<1> DEFINE n == Len(rows)
           Count(p) == Cardinality({i \in 1 .. n : rows[i].provider = p})
<1>1. n \in Nat /\ DOMAIN rows = 1 .. n /\ config \in Configs
  BY DEF IInv, Typed
<1> SUFFICES ASSUME n <= config.window,
                    \A i \in 1 .. n :
                       /\ rows[i].key.revision = config.revision
                       /\ rows[i].status # "superseded" /\ rows[i].override = None
                       /\ {config.candidates[c].provider : c \in rows[i].equivalent}
                             = DOMAIN config.weights,
                    NEW p \in DOMAIN config.weights
             PROVE  (Count(p) - 1) * totalWeight(config) <= n * config.weights[p]
  BY DEF SharesKept
<1>2. config.weights[p] \in Nat /\ totalWeight(config) \in Nat /\ config.window \in Nat
  BY <1>1, ConfigIs, WeightIs
<1> DEFINE S == Of(rows, n, p)
<1>3. S \subseteq 1 .. n /\ S \in SUBSET Int /\ IsFiniteSet(S) /\ Count(p) = Cardinality(S)
  <2>1. 1 \in Int /\ n \in Int
    BY <1>1
  <2>2. IsFiniteSet(1 .. n)
    BY <2>1, FS_Interval
  <2>3. S \subseteq 1 .. n
    BY DEF Of
  <2>4. IsFiniteSet(S)
    BY <2>2, <2>3, FS_Subset
  <2>5. Count(p) = Cardinality(S)
    BY DEF Of
  <2> QED BY <2>3, <2>4, <2>5
<1>4. CASE S = {}
  <2>1. Count(p) = 0
    BY <1>3, <1>4, FS_EmptySet
  <2>2. n * config.weights[p] \in Nat /\ (0 - 1) * totalWeight(config) <= 0
    BY <1>1, <1>2
  <2> DEFINE x == (0 - 1) * totalWeight(config)
             z == n * config.weights[p]
  <2>3. x <= z
    <3>1. x \in Int /\ z \in Nat /\ x <= 0
      BY <1>2, <2>2
    <3> HIDE DEF x, z
    <3> QED BY <3>1
  <2>4. (Count(p) - 1) * totalWeight(config) = x
    BY <2>1
  <2> HIDE DEF x, Count
  <2> QED BY <2>3, <2>4
<1>5. CASE S # {}
  <2> DEFINE k == Max(S)
  <2>1. k \in S /\ \A i \in S : i <= k
    <3> HIDE DEF S
    <3> QED BY <1>3, <1>5, MaxIs
  <2> HIDE DEF k
  <2>2. k \in 1 .. n /\ rows[k].provider = p
    BY <2>1 DEF Of
  <2>3. S = Of(rows, k - 1, p) \cup {k} /\ k \notin Of(rows, k - 1, p)
    <3>1. \A i \in S : i = k \/ i \in Of(rows, k - 1, p)
      BY <2>1, <2>2 DEF Of
    <3>2. \A i \in Of(rows, k - 1, p) : i \in S
      BY <1>1, <2>2 DEF Of
    <3>3. k \notin Of(rows, k - 1, p)
      BY <2>2 DEF Of
    <3> HIDE DEF S
    <3> QED BY <2>1, <3>1, <3>2, <3>3
  <2>4. IsFiniteSet(Of(rows, k - 1, p))
    <3>1. Of(rows, k - 1, p) \subseteq S
      BY <2>3
    <3> HIDE DEF S
    <3> QED BY <1>3, <3>1, FS_Subset
  <2> DEFINE m == Cardinality(Of(rows, k - 1, p))
  <2>5. m \in Nat /\ Count(p) = m + 1
    <3>1. Cardinality(Of(rows, k - 1, p) \cup {k}) = m + 1
      BY <2>3, <2>4, FS_AddElement
    <3> QED BY <1>3, <2>3, <2>4, <3>1, FS_CardinalityType
  <2>6. Free(rows, k, config)
    BY <1>1, <1>2, <2>2 DEF Free
  <2>7. m * totalWeight(config) <= (k - 1) * config.weights[p]
    BY <1>1, <2>2, <2>6 DEF Fair, Served
  <2>8. (k - 1) * config.weights[p] <= n * config.weights[p]
    <3>1. k - 1 \in Nat /\ n - (k - 1) \in Nat
      BY <1>1, <2>2
    <3>2. \A a, b, c \in Nat : b - a \in Nat => a * c <= b * c
      <4> SUFFICES ASSUME NEW a \in Nat, NEW b \in Nat, NEW c \in Nat, b - a \in Nat
                   PROVE  a * c <= b * c
        OBVIOUS
      <4>1. PICK d \in Nat : b = a + d
        OBVIOUS
      <4>2. b * c = a * c + d * c /\ d * c \in Nat /\ a * c \in Nat
        BY <4>1
      <4> QED BY <4>2
    <3> QED BY <1>1, <1>2, <3>1, <3>2
  <2> HIDE DEF m, Count
  <2>9. Count(p) - 1 = m
    BY <2>5
  <2>10. m * totalWeight(config) \in Int /\ (k - 1) * config.weights[p] \in Int
            /\ n * config.weights[p] \in Int
    BY <1>1, <1>2, <2>2, <2>5
  <2> DEFINE x == m * totalWeight(config)
             y == (k - 1) * config.weights[p]
             z == n * config.weights[p]
  <2>11. x <= z
    <3>1. x <= y /\ y <= z /\ x \in Int /\ y \in Int /\ z \in Int
      BY <2>7, <2>8, <2>10
    <3> HIDE DEF x, y, z
    <3> QED BY <3>1
  <2>12. (Count(p) - 1) * totalWeight(config) = x
    BY <2>9
  <2> HIDE DEF x
  <2> QED BY <2>11, <2>12
<1> QED BY <1>4, <1>5

\* While every choice so far was free between all providers, no provider is more than
\* one decision ahead of its share (chosenEntry, deficit): the deficits of the
\* providers add up to nothing, so the one served was not ahead.
THEOREM SharesHold == Spec => []SharesKept
<1>1. Init => Fair
  BY DEF Init, Fair
<1>2. IInv /\ Fair /\ [Next]_vars => Fair'
  BY FairInv
<1>3. IInv /\ Fair => SharesKept
  BY FairIs
<1> QED BY <1>1, <1>2, <1>3, InvHolds, PTL DEF Spec


-------------------------------------------------------------------------------
(* The workload and its rechecks *)

\* The hint a workload names as its source is the one it was taken from.
LEMMA HintIs ==
    ASSUME NEW f
    PROVE  /\ Hinted(f) <=> hintSource(f) \in HintSources
           /\ hintSource(f) = "task_hint" =>
                 chooseHint(f) = f.taskHint /\ f.taskHint # None
           /\ hintSource(f) = "plan_hint" =>
                 chooseHint(f) = f.planHint /\ f.planHint # None /\ f.matches = 1
           /\ hintSource(f) \in HintSources \cup {"default"}
<1>1. CASE f.taskHint # None
  BY <1>1 DEF Hinted, hintSource, HintSources, chooseHint
<1>2. CASE f.taskHint = None /\ f.matches = 1 /\ f.planHint # None
  BY <1>2 DEF Hinted, hintSource, HintSources, chooseHint
<1>3. CASE f.taskHint = None /\ ~(f.matches = 1 /\ f.planHint # None)
  <2>1. hintSource(f) = "default"
    BY <1>3 DEF hintSource
  <2> QED BY <2>1 DEF Hinted, HintSources, chooseHint
<1> QED BY <1>1, <1>2, <1>3

LEMMA FailureIs ==
    ASSUME NEW f \in Facts
    PROVE  LET n == f.retries + f.changesRequested + f.sessionsFailed
           IN  /\ n \in Nat
               /\ unresolvedFailure(f) <=> n > 0 \/ f.historyErrors
<1>1. f.retries \in Nat /\ f.changesRequested \in Nat /\ f.sessionsFailed \in Nat
  BY DEF Facts
<1>2. f.retries + f.changesRequested + f.sessionsFailed > 0
         <=> f.retries > 0 \/ f.changesRequested > 0 \/ f.sessionsFailed > 0
  BY <1>1
<1>3. f.retries + f.changesRequested + f.sessionsFailed \in Nat
  BY <1>1
<1> QED BY <1>2, <1>3 DEF unresolvedFailure

\* The fields of a derived workload.
Fields(w, f, role, c) ==
    /\ w.role = role /\ w.kind = workKind(f)
    /\ w.complexity = complexityOf(f) /\ w.risk = riskOf(f) /\ w.size = f.size
    /\ w.capabilities = (IF Hinted(f) THEN chooseHint(f).capabilities ELSE {})
    /\ w.verification = verificationOf(f)
    /\ w.cost = (IF Hinted(f) THEN chooseHint(f).cost ELSE c.cost)
    /\ w.latency = (IF Hinted(f) THEN chooseHint(f).latency ELSE c.latency)
    /\ w.approval = f.approval
    /\ w.failures = f.retries + f.changesRequested + f.sessionsFailed
    /\ w.uncertain = uncertainties(f)
    /\ w.rejections = rejectionReasons(f, role)
    /\ w.minimum = (IF w.rejections = {}
                    THEN CHOOSE t \in c.tiers : \A u \in c.tiers : t <= u
                    ELSE c.high)
    /\ w.kindSource = (CASE Conflict(f) -> "conflict"
                         [] ~Conflict(f) /\ Hinted(f) -> hintSource(f)
                         [] OTHER -> IF f.strict THEN "contract" ELSE "default")
    /\ w.riskSource = riskSource(f) /\ w.hintSource = hintSource(f)
    /\ w.parentKnown = (f.matches = 1) /\ w.strict = f.strict
    /\ w.planErrors = f.planErrors /\ w.historyErrors = f.historyErrors

LEMMA WorkloadIs ==
    ASSUME NEW f, NEW role, NEW c
    PROVE  Fields(buildWorkloadContext(f, role, c), f, role, c)
BY DEF buildWorkloadContext, Fields

\* The gates that fail, one by one.
LEMMA RejectionsAgree ==
    ASSUME NEW f \in Facts, NEW role, NEW c, NEW w, w = buildWorkloadContext(f, role, c)
    PROVE  w.rejections = expectedRejections(w)
<1> DEFINE R == rejectionReasons(f, role)
<1>0. Fields(w, f, role, c)
  BY WorkloadIs
<1>1. /\ w.role = role /\ w.kind = workKind(f) /\ w.complexity = complexityOf(f)
      /\ w.risk = riskOf(f) /\ w.size = f.size /\ w.verification = verificationOf(f)
      /\ w.failures = f.retries + f.changesRequested + f.sessionsFailed
      /\ w.uncertain = uncertainties(f) /\ w.rejections = R
      /\ w.hintSource = hintSource(f) /\ w.historyErrors = f.historyErrors
  BY <1>0 DEF Fields
<1>2. /\ unresolvedFailure(f) <=> w.failures > 0 \/ w.historyErrors
      /\ Hinted(f) <=> w.hintSource \in HintSources
      /\ uncertainties(f) \ {"parent_plan_missing"} = {}
            <=> w.uncertain \subseteq {"parent_plan_missing"}
  BY <1>1, FailureIs, HintIs
<1> DEFINE All == {"role_not_implementer", "work_not_bounded_implementation",
                 "complexity_not_low", "risk_not_low", "context_not_bounded",
                 "capabilities_not_explicit", "verification_not_objective",
                 "unresolved_failure_history", "safety_evidence_uncertain"}
<1>3. R \subseteq All /\ expectedRejections(w) \subseteq All
  BY DEF rejectionReasons, expectedRejections
<1>4. /\ "role_not_implementer" \in R <=> role # "implementer"
      /\ "work_not_bounded_implementation" \in R <=> workKind(f) # "implementation"
      /\ "complexity_not_low" \in R <=> complexityOf(f) # "low"
      /\ "risk_not_low" \in R <=> riskOf(f) # "low"
      /\ "context_not_bounded" \in R <=> f.size >= 3
      /\ "capabilities_not_explicit" \in R <=> ~Hinted(f)
      /\ "verification_not_objective" \in R <=> verificationOf(f) # "objective"
      /\ "unresolved_failure_history" \in R <=> unresolvedFailure(f)
      /\ "safety_evidence_uncertain" \in R
            <=> uncertainties(f) \ {"parent_plan_missing"} # {}
  BY DEF rejectionReasons
<1> HIDE DEF R
<1>5. /\ "role_not_implementer" \in expectedRejections(w) <=> w.role # "implementer"
      /\ "work_not_bounded_implementation" \in expectedRejections(w)
            <=> w.kind # "implementation"
      /\ "complexity_not_low" \in expectedRejections(w) <=> w.complexity # "low"
      /\ "risk_not_low" \in expectedRejections(w) <=> w.risk # "low"
      /\ "context_not_bounded" \in expectedRejections(w) <=> w.size >= 3
      /\ "capabilities_not_explicit" \in expectedRejections(w)
            <=> w.hintSource \notin HintSources
      /\ "verification_not_objective" \in expectedRejections(w)
            <=> w.verification # "objective"
      /\ "unresolved_failure_history" \in expectedRejections(w)
            <=> w.failures > 0 \/ w.historyErrors
      /\ "safety_evidence_uncertain" \in expectedRejections(w)
            <=> ~(w.uncertain \subseteq {"parent_plan_missing"})
  BY DEF expectedRejections
<1>6. \A r \in All : r \in R <=> r \in expectedRejections(w)
  BY <1>1, <1>2, <1>4, <1>5
<1>7. R = expectedRejections(w)
  <2> HIDE DEF All
  <2> QED BY <1>3, <1>6
<1> QED BY <1>1, <1>7

\* Lower-tier work says the same in the selection's own words.
LEMMA LowerTierAgrees ==
    ASSUME NEW f \in Facts, NEW role, NEW c, NEW w, w = buildWorkloadContext(f, role, c)
    PROVE  w.rejections = {} <=> lowerTierConsistent(w)
<1>0. Fields(w, f, role, c)
  BY WorkloadIs
<1>1. /\ w.role = role /\ w.kind = workKind(f) /\ w.complexity = complexityOf(f)
      /\ w.risk = riskOf(f) /\ w.size = f.size /\ w.verification = verificationOf(f)
      /\ w.failures = f.retries + f.changesRequested + f.sessionsFailed
      /\ w.uncertain = uncertainties(f) /\ w.approval = f.approval
      /\ w.hintSource = hintSource(f) /\ w.historyErrors = f.historyErrors
      /\ w.strict = f.strict /\ w.planErrors = f.planErrors
      /\ w.kindSource = (CASE Conflict(f) -> "conflict"
                           [] ~Conflict(f) /\ Hinted(f) -> hintSource(f)
                           [] OTHER -> IF f.strict THEN "contract" ELSE "default")
      /\ w.rejections = expectedRejections(w)
  BY <1>0, RejectionsAgree DEF Fields
<1>2. w.rejections = {} <=>
         /\ w.role = "implementer" /\ w.kind = "implementation" /\ w.complexity = "low"
         /\ w.risk = "low" /\ ~(w.size >= 3) /\ w.hintSource \in HintSources
         /\ w.verification = "objective" /\ ~(w.failures > 0) /\ ~w.historyErrors
         /\ w.uncertain \subseteq {"parent_plan_missing"}
  BY <1>1 DEF expectedRejections
<1>3. w.size \in Int /\ w.failures \in Nat /\ w.approval \in {"required", "not_required"}
         /\ w.strict \in BOOLEAN /\ w.planErrors \in BOOLEAN
  BY <1>1, FailureIs DEF Facts
<1>4. ASSUME w.rejections = {} PROVE lowerTierConsistent(w)
  <2>1. Hinted(f) /\ workKind(f) = "implementation" /\ riskOf(f) = "low"
    BY <1>1, <1>2, <1>4, HintIs
  <2>2. ~Conflict(f)
    BY <2>1 DEF workKind
  <2>3. chooseHint(f).kind = "implementation"
    BY <2>1, <2>2 DEF workKind
  <2>4. ~w.strict
    BY <1>1, <2>1, <2>2, <2>3 DEF Conflict
  <2>5. w.kindSource = hintSource(f)
    BY <1>1, <2>1, <2>2
  <2>6. w.approval # "required"
    BY <1>1, <2>1 DEF riskOf
  <2>7. ~w.planErrors
    <3>1. "parent_plan_invalid" \notin uncertainties(f)
      BY <1>1, <1>2, <1>4
    <3> QED BY <1>1, <3>1 DEF uncertainties
  <2>8. w.size < 3 /\ w.failures = 0
    BY <1>2, <1>3, <1>4
  <2> QED BY <1>1, <1>2, <1>3, <1>4, <2>4, <2>5, <2>6, <2>7, <2>8 DEF lowerTierConsistent
<1>5. ASSUME lowerTierConsistent(w) PROVE w.rejections = {}
  <2>1. ~(w.size >= 3) /\ ~(w.failures > 0)
    BY <1>3, <1>5 DEF lowerTierConsistent
  <2> QED BY <1>2, <1>5, <2>1 DEF lowerTierConsistent
<1> QED BY <1>4, <1>5

\* What is derived for an action passes the rechecks of selection and ledger.
LEMMA WorkloadAccepted ==
    ASSUME NEW f \in Facts, NEW role, NEW c, NEW w, w = buildWorkloadContext(f, role, c)
    PROVE  validateWorkload(w, role, f, c) /\ validateWorkloadSummary(w)
<1>0. Fields(w, f, role, c)
  BY WorkloadIs
<1>1. w.role = role /\ w.rejections = expectedRejections(w)
         /\ (w.rejections = {} <=> lowerTierConsistent(w))
  BY <1>0, RejectionsAgree, LowerTierAgrees DEF Fields
<1>2. w.minimum = IF w.rejections = {}
                  THEN CHOOSE t \in c.tiers : \A u \in c.tiers : t <= u
                  ELSE c.high
  BY <1>0 DEF Fields
<1>3. w.hintSource = hintSource(f) /\ w.parentKnown = (f.matches = 1)
  BY <1>0 DEF Fields
<1>4. matchingHint(w, f)
  <2> DEFINE named == IF w.hintSource = "task_hint" THEN f.taskHint ELSE f.planHint
  <2> SUFFICES ASSUME hintSource(f) \in HintSources
               PROVE  /\ w.hintSource = "plan_hint" => w.parentKnown
                      /\ named # None
                      /\ w.complexity = named.complexity
                      /\ w.capabilities = named.capabilities
                      /\ w.verification = named.verification
                      /\ w.cost = named.cost /\ w.latency = named.latency
                      /\ w.kindSource \in HintSources => w.kind = named.kind
                      /\ w.riskSource \in HintSources => w.risk = named.risk
    BY <1>3 DEF matchingHint
  <2>1. Hinted(f) /\ named = chooseHint(f) /\ named # None
           /\ (w.hintSource = "plan_hint" => w.parentKnown)
    <3>1. hintSource(f) \in {"task_hint", "plan_hint"}
      BY DEF HintSources
    <3>2. Hinted(f)
      BY HintIs
    <3>3. CASE hintSource(f) = "task_hint"
      BY <1>3, <3>2, <3>3, HintIs
    <3>4. CASE hintSource(f) = "plan_hint"
      BY <1>3, <3>2, <3>4, HintIs
    <3> QED BY <3>1, <3>3, <3>4
  <2>2. /\ w.complexity = complexityOf(f) /\ w.verification = verificationOf(f)
        /\ w.capabilities = (IF Hinted(f) THEN chooseHint(f).capabilities ELSE {})
        /\ w.cost = (IF Hinted(f) THEN chooseHint(f).cost ELSE c.cost)
        /\ w.latency = (IF Hinted(f) THEN chooseHint(f).latency ELSE c.latency)
        /\ w.kind = workKind(f) /\ w.risk = riskOf(f) /\ w.riskSource = riskSource(f)
        /\ w.kindSource = (CASE Conflict(f) -> "conflict"
                             [] ~Conflict(f) /\ Hinted(f) -> hintSource(f)
                             [] OTHER -> IF f.strict THEN "contract" ELSE "default")
    BY <1>0 DEF Fields
  <2> HIDE DEF named
  <2>3. w.complexity = named.complexity /\ w.verification = named.verification
           /\ w.capabilities = named.capabilities /\ w.cost = named.cost
           /\ w.latency = named.latency
    BY <2>1, <2>2 DEF complexityOf, verificationOf
  <2>4. w.kindSource \in HintSources => w.kind = named.kind
    <3>1. "conflict" \notin HintSources
      BY DEF HintSources
    <3>2. w.kindSource \in HintSources => ~Conflict(f)
      BY <2>2, <3>1
    <3> QED BY <2>1, <2>2, <3>2 DEF workKind
  <2>5. w.riskSource \in HintSources => w.risk = named.risk
    <3>1. "evidence" \notin HintSources
      BY DEF HintSources
    <3> QED BY <2>1, <2>2, <3>1 DEF riskSource, riskOf
  <2> QED BY <2>1, <2>3, <2>4, <2>5
<1>5. w.hintSource = "plan_hint" => w.parentKnown
  <2> QED BY <1>3, HintIs
<1>6. validateWorkload(w, role, f, c) /\ validateWorkloadSummary(w)
  <2>1. (w.rejections = {}) = lowerTierConsistent(w)
    <3>1. lowerTierConsistent(w) \in BOOLEAN
      BY DEF lowerTierConsistent
    <3> QED BY <1>1, <3>1
  <2> QED BY <1>1, <1>2, <1>4, <1>5, <2>1 DEF validateWorkload, validateWorkloadSummary
<1> QED BY <1>6

LEMMA VariationsAre ==
    ASSUME NEW f \in Facts
    PROVE  Variations(f) \subseteq Facts
<1>1. f.strict \in BOOLEAN /\ f.planErrors \in BOOLEAN /\ 2 - f.matches \in 0 .. 2
  BY DEF Facts
<1>2. [f EXCEPT !.strict = ~@] \in Facts /\ [f EXCEPT !.planErrors = ~@] \in Facts
  BY <1>1 DEF Facts
<1>3. [f EXCEPT !.matches = 2 - @] \in Facts /\ [f EXCEPT !.taskHint = None] \in Facts
  BY <1>1 DEF Facts
<1>4. [f EXCEPT !.approval = "required"] \in Facts /\ [f EXCEPT !.historyErrors = TRUE] \in Facts
  BY DEF Facts
<1>5. [f EXCEPT !.size = 3] \in Facts
  BY DEF Facts
<1> QED BY <1>5, <1>2, <1>3, <1>4 DEF Variations

-------------------------------------------------------------------------------
(* What the ledger recomputes from a selection *)

\* The floor of a selection is a tier, and none of its eligible candidates is below.
LEMMA FloorIsTier ==
    ASSUME NEW in, SoundInput(in), ~Refused(in)
    PROVE  LET s == selectCandidate(in)
           IN  /\ s.floor \in in.config.tiers
               /\ s.floor <= Tier(in, s.policyWinner)
<1> DEFINE s == selectCandidate(in)
           gates == routedConsidered(in)
           E == Eligible(gates)
           x == s.policyWinner
           T == in.config.tiers
<1>1. in.config \in Configs /\ T \subseteq Nat \ {0}
  BY ConfigIs DEF SoundInput
<1>2. /\ E # {} /\ E \subseteq DOMAIN in.config.candidates
      /\ x \in E
  <2>1. /\ E # {} /\ E \subseteq DOMAIN in.config.candidates
        /\ s.equivalent \subseteq E /\ s.policyWinner \in s.equivalent
    BY Selected
  <2> QED BY <2>1
<1>3. gates[x] \subseteq Displaceable
  <2>1. gates[x] = {}
    BY <1>2 DEF Eligible
  <2> QED BY <2>1
<1>4. s.floor = requiredFloorRank(in, E)
  BY DEF selectCandidate
<1> HIDE DEF s, gates, E, T
<1>5. /\ Tier(in, x) >= baseMinRank(in) /\ Tier(in, x) >= reviewerFloorRank(in)
      /\ Tier(in, x) >= recoveryFloorRank(in)
  BY <1>2, <1>3, GatesPassed DEF gates
<1>6. /\ s.floor \in Int /\ s.floor >= baseMinRank(in)
      /\ \/ s.floor \in {baseMinRank(in), reviewerFloorRank(in), recoveryFloorRank(in)}
         \/ /\ s.floor \in {Tier(in, c) : c \in E}
            /\ \A c \in E : s.floor <= Tier(in, c)
  BY <1>2, <1>4, RequiredFloor
<1>7. /\ baseMinRank(in) \in T /\ reviewerFloorRank(in) \in T \cup {0}
      /\ recoveryFloorRank(in) \in Nat
      /\ recoveryFloorRank(in) \in T \cup {0} \/ \A t \in T : t < recoveryFloorRank(in)
  BY FloorsAre DEF T
<1>8. \A c \in E : Tier(in, c) \in T
  BY <1>1, <1>2, ConfigIs DEF Tier, T
<1>9. Tier(in, x) \in T
  BY <1>2, <1>8
<1>10. s.floor <= Tier(in, x)
  <2>1. \A m \in {baseMinRank(in), reviewerFloorRank(in), recoveryFloorRank(in)} :
           m <= Tier(in, x)
    BY <1>1, <1>5, <1>7, <1>9
  <2> QED BY <1>2, <1>6, <2>1
<1>11. s.floor \in T
  <2>1. s.floor # 0
    <3>1. baseMinRank(in) \in Nat \ {0}
      BY <1>1, <1>7
    <3> QED BY <1>6, <3>1
  <2>2. ~(\A t \in T : t < recoveryFloorRank(in))
    <3>1. Tier(in, x) \in Nat /\ recoveryFloorRank(in) \in Nat
      BY <1>1, <1>7, <1>9
    <3>2. ~(Tier(in, x) < recoveryFloorRank(in))
      BY <1>5, <3>1
    <3> QED BY <1>9, <3>2
  <2> QED BY <1>6, <1>7, <1>8, <2>1, <2>2
<1> QED BY <1>10, <1>11 DEF s, T, x

\* No preference is met better than it can be.
LEMMA FitnessBounded ==
    ASSUME NEW in, SoundInput(in), ~Refused(in)
    PROVE  LET s == selectCandidate(in) IN \A i \in 2 .. 5 : s.fitness[i] <= 0
<1> DEFINE s == selectCandidate(in)
           c == s.policyWinner
           y == in.config.candidates[c]
           gates == routedConsidered(in)
<1>1. in.config \in Configs
  BY DEF SoundInput
<1>2. c \in DOMAIN in.config.candidates /\ gates[c] = {}
  <2>1. /\ Eligible(gates) \subseteq DOMAIN in.config.candidates
        /\ s.equivalent \subseteq Eligible(gates) /\ c \in s.equivalent
    BY Selected
  <2> QED BY <2>1 DEF Eligible
<1>3. s.fitness = fitnessVector(in, c, s.floor)
  BY DEF selectCandidate
<1>4. s.floor \in in.config.tiers /\ s.floor <= Tier(in, c)
  BY FloorIsTier
<1>5. in.workload.capabilities \subseteq y.capabilities
  <2> HIDE DEF c
  <2>1. routedConsidered(in)[c] \subseteq Displaceable
    BY <1>2
  <2> QED BY <1>2, <2>1, GatesPassed
<1>6. /\ y.tier \in Nat /\ y.latency \in Nat /\ y.cost \in Nat
      /\ IsFiniteSet(y.capabilities) /\ s.floor \in Nat
  <2> HIDE DEF s, c
  <2> QED BY <1>1, <1>2, <1>4, ConfigIs
<1> HIDE DEF s, c, y
<1> DEFINE m == Cardinality(in.workload.capabilities)
           n == Cardinality(y.capabilities)
           e == IF in.implementer # None /\ y.provider # in.implementer.provider
                THEN 1 ELSE 0
<1>7. m \in Nat /\ n \in Nat /\ m <= n
  BY <1>5, <1>6, FS_Subset, FS_CardinalityType
<1>8. s.fitness = <<e, s.floor - y.tier, m - n, 0 - y.latency, 0 - y.cost>>
  BY <1>3 DEF fitnessVector, y
<1>9. s.floor <= y.tier
  BY <1>4 DEF Tier, y
<1> HIDE DEF m, n, e
<1>10. s.floor - y.tier <= 0 /\ m - n <= 0 /\ 0 - y.latency <= 0 /\ 0 - y.cost <= 0
  BY <1>6, <1>7, <1>9
<1>11. /\ s.fitness[2] = s.floor - y.tier /\ s.fitness[3] = m - n
       /\ s.fitness[4] = 0 - y.latency /\ s.fitness[5] = 0 - y.cost
  BY <1>8
<1>12. \A i \in 2 .. 5 : i \in {2, 3, 4, 5}
  OBVIOUS
<1>13. \A i \in 2 .. 5 : s.fitness[i] <= 0
  BY <1>10, <1>11, <1>12
<1> QED BY <1>13 DEF s

\* The ledger finds the winner that the selection chose.
LEMMA WinnerAgrees ==
    ASSUME NEW in, SoundInput(in), ~Refused(in)
    PROVE  LET s == selectCandidate(in)
           IN  /\ validateDistribution(s) /\ s.policyWinner = expectedWinner(s)
<1> DEFINE s == selectCandidate(in)
           gates == routedConsidered(in)
           B == s.equivalent
<1>1. in.config \in Configs
  BY DEF SoundInput
<1>2. /\ DOMAIN gates = DOMAIN in.config.candidates
      /\ B \subseteq DOMAIN gates /\ s.policyWinner = chosenEntry(in, B)
  <2>1. /\ DOMAIN gates = DOMAIN in.config.candidates
        /\ Eligible(gates) \subseteq DOMAIN in.config.candidates
        /\ s.equivalent \subseteq Eligible(gates)
        /\ s.policyWinner = chosenEntry(in, s.equivalent)
    BY Selected
  <2> QED BY <2>1
<1>3. /\ s.weights = in.config.weights /\ s.counts = countByProvider(in)
      /\ s.observed = Cardinality(windowRows(in))
      /\ s.considered = [c \in DOMAIN gates |->
                           [provider |-> Provider(in, c), tier |-> Tier(in, c),
                            reasons |-> gates[c]]]
  BY DEF selectCandidate
<1> HIDE DEF s, gates
<1>4. DOMAIN s.considered = DOMAIN gates
         /\ \A c \in DOMAIN gates : s.considered[c].provider = Provider(in, c)
  BY <1>3
<1>5. \A S \in SUBSET DOMAIN gates : ProvidersOf(s, S) = {Provider(in, c) : c \in S}
  BY <1>4 DEF ProvidersOf
<1>6. DOMAIN s.counts = ProvidersOf(s, DOMAIN s.considered)
  <2>1. DOMAIN in.config.weights
           = {in.config.candidates[id].provider : id \in DOMAIN in.config.candidates}
    BY <1>1, ConfigsAssumption DEF validateRoutingConfig, validatePolicy
  <2>2. DOMAIN s.counts = DOMAIN in.config.weights
    BY <1>3 DEF countByProvider
  <2>3. ProvidersOf(s, DOMAIN gates) = {Provider(in, c) : c \in DOMAIN gates}
    BY <1>5
  <2> QED BY <1>2, <1>4, <2>1, <2>2, <2>3 DEF Provider
<1>7. validateDistribution(s)
  BY <1>3, <1>6, CountsTotal DEF validateDistribution
<1>8. \A p : Owed(s, p) = deficit(in, p)
  BY <1>3 DEF Owed, deficit, totalWeight
<1> DEFINE P == {Provider(in, c) : c \in B}
           Most == {p \in P : \A q \in P : deficit(in, q) <= deficit(in, p)}
<1>9. ProvidersOf(s, B) = P
  BY <1>2, <1>5
<1>10. {p \in P : \A q \in P : Owed(s, q) <= Owed(s, p)} = Most
  BY <1>8
<1>11. expectedWinner(s) = Min({c \in B : s.considered[c].provider = Min(Most)})
  <2> HIDE DEF P, Most, B
  <2> QED BY <1>9, <1>10 DEF expectedWinner, B
<1>12. chosenEntry(in, B) = Min({c \in B : Provider(in, c) = Min(Most)})
  BY DEF chosenEntry
<1>13. {c \in B : s.considered[c].provider = Min(Most)}
          = {c \in B : Provider(in, c) = Min(Most)}
  <2> HIDE DEF Most
  <2> QED BY <1>2, <1>4
<1>14. s.policyWinner = expectedWinner(s)
  BY <1>2, <1>11, <1>12, <1>13
<1> QED BY <1>7, <1>14 DEF s

LEMMA SelectionRecorded ==
    ASSUME NEW in, SoundInput(in), ~Refused(in), validateWorkloadSummary(in.workload)
    PROVE  LET s == selectCandidate(in)
           IN  validateDecisionRecord(s) /\ s.floor \in in.config.tiers
<1> DEFINE s == selectCandidate(in)
           gates == routedConsidered(in)
<1>1. /\ DOMAIN gates = DOMAIN in.config.candidates
      /\ s.equivalent \subseteq Eligible(gates) /\ s.policyWinner \in s.equivalent
      /\ in.override = None => s.candidate = s.policyWinner
      /\ s.candidate \in DOMAIN in.config.candidates
      /\ gates[s.candidate] \subseteq Displaceable
  BY Selected
<1>2. /\ s.workload = in.workload /\ s.override = in.override
      /\ s.considered = [c \in DOMAIN gates |->
                           [provider |-> Provider(in, c), tier |-> Tier(in, c),
                            reasons |-> gates[c]]]
  BY DEF selectCandidate
<1> HIDE DEF s, gates
<1>3. \A c \in DOMAIN gates : s.considered[c].reasons = gates[c]
  BY <1>2
<1>4. \A c \in s.equivalent : c \in DOMAIN gates /\ gates[c] = {}
  BY <1>1 DEF Eligible
<1>5. \A c \in s.equivalent : s.considered[c].reasons = {}
  BY <1>3, <1>4
<1>6. IF s.override = None THEN s.considered[s.candidate].reasons = {}
      ELSE s.considered[s.candidate].reasons \subseteq Displaceable
  BY <1>1, <1>2, <1>3, <1>5
<1>7. /\ \A i \in 2 .. 5 : s.fitness[i] <= 0
      /\ validateDistribution(s) /\ s.policyWinner = expectedWinner(s)
      /\ s.floor \in in.config.tiers
  BY FitnessBounded, WinnerAgrees, FloorIsTier DEF s
<1>8. validateDecisionRecord(s)
  BY <1>2, <1>5, <1>6, <1>7 DEF validateDecisionRecord
<1> QED BY <1>7, <1>8 DEF s

-------------------------------------------------------------------------------
(* The rules of a recorded route *)

\* An edit keeps every candidate with its provider, tier and Roles, and the limit of
\* escalations; it may switch candidates on and off and change everything else.
CatalogKept ==
    \A c, d \in Configs :
       /\ c.escalations = d.escalations
       /\ DOMAIN c.candidates = DOMAIN d.candidates
       /\ \A id \in DOMAIN c.candidates :
             /\ c.candidates[id].provider = d.candidates[id].provider
             /\ c.candidates[id].tier = d.candidates[id].tier
             /\ c.candidates[id].roles = d.candidates[id].roles

\* The kept rows of row i's action that came before it.
Before(i) == {j \in Kept : j < i /\ SameAction(rows[j].key, rows[i].key)}

\* The kept rows of an action are numbered, under one revision, and name different
\* candidates; only the first was recorded without a reason.
Routed ==
    \A i \in Kept :
       /\ rows[i].step = 0 <=> rows[i].reason = "none"
       /\ rows[i].step = Cardinality(Before(i))
       /\ \A j \in Before(i) : /\ rows[j].key.revision = rows[i].key.revision
                               /\ rows[j].candidate # rows[i].candidate

Escalations(t) == {i \in Kept : /\ rows[i].key.task = t
                                /\ rows[i].reason \in EscalationReasons}

Escalated == \A t \in Tasks, c \in Configs : Cardinality(Escalations(t)) <= c.escalations

LEMMA SameActionIs ==
    /\ \A k : SameAction(k, k)
    /\ \A k, l : SameAction(k, l) => SameAction(l, k)
    /\ \A k, l, m : SameAction(k, l) /\ SameAction(l, m) => SameAction(k, m)
BY DEF SameAction

LEMMA RowsFinite ==
    ASSUME Typed, NEW S \in SUBSET DOMAIN rows
    PROVE  IsFiniteSet(S) /\ Cardinality(S) \in Nat
<1>1. DOMAIN rows = 1 .. Len(rows) /\ Len(rows) \in Int /\ 1 \in Int
  BY DEF Typed
<1>2. IsFiniteSet(S)
  BY <1>1, FS_Interval, FS_Subset
<1> QED BY <1>2, FS_CardinalityType

\* A row the ledger keeps has the rows before it that it had.
LEMMA BeforeStands ==
    ASSUME IInv, Typed', Stand, NEW i \in Kept', i \in DOMAIN rows
    PROVE  i \in Kept /\ Before(i)' = Before(i) /\ Same(rows'[i], rows[i])
<1>1. /\ DOMAIN rows \subseteq DOMAIN rows'
      /\ \A j \in DOMAIN rows : Same(rows'[j], rows[j]) /\ rows'[j].key = rows[j].key
  BY DEF Stand, Same
<1>2. /\ DOMAIN rows = 1 .. Len(rows) /\ Len(rows) \in Nat
      /\ DOMAIN rows' = 1 .. Len(rows') /\ Len(rows') \in Nat
  BY DEF IInv, Typed
<1>3. \A j \in DOMAIN rows' : j < i => j \in DOMAIN rows
  BY <1>2
<1>4. Kept \subseteq DOMAIN rows /\ Kept' \subseteq DOMAIN rows'
  BY DEF Kept
<1>5. CASE \A j \in DOMAIN rows :
              rows'[j].status = "superseded" <=> rows[j].status = "superseded"
  <2>1. \A j \in DOMAIN rows : j \in Kept' <=> j \in Kept
    BY <1>1, <1>5 DEF Kept
  <2>2. \A j : j \in Before(i)' <=> j \in Before(i)
    BY <1>1, <1>3, <1>4, <2>1 DEF Before
  <2> QED BY <1>1, <2>1, <2>2
<1>6. CASE \E t \in Tasks : \A j \in DOMAIN rows :
              rows'[j].status = "superseded"
                 <=> rows[j].status = "superseded" \/ j \in Live(t)
  <2>1. PICK t \in Tasks : \A j \in DOMAIN rows :
              rows'[j].status = "superseded"
                 <=> rows[j].status = "superseded" \/ j \in Live(t)
    BY <1>6
  <2>2. \A j \in DOMAIN rows : j \in Kept' <=> j \in Kept /\ j \notin Live(t)
    BY <1>1, <2>1 DEF Kept
  <2>3. i \in Kept /\ i \notin Live(t)
    BY <2>2
  <2>4. ~SameAction(rows[i].key, Key(t))
    BY <2>3 DEF Live, Kept
  <2>5. \A j \in Before(i) : j \notin Live(t)
    <3> SUFFICES ASSUME NEW j \in Before(i), j \in Live(t) PROVE FALSE
      OBVIOUS
    <3>1. SameAction(rows[j].key, rows[i].key) /\ SameAction(rows[j].key, Key(t))
      BY DEF Before, Live
    <3>2. SameAction(rows[i].key, Key(t))
      BY <3>1, SameActionIs
    <3> QED BY <2>4, <3>2
  <2>6. \A j : j \in Before(i)' => j \in Before(i)
    BY <1>1, <1>3, <1>4, <2>2 DEF Before
  <2>7. \A j : j \in Before(i) => j \in Before(i)'
    BY <1>1, <1>4, <2>2, <2>5 DEF Before
  <2> QED BY <1>1, <2>3, <2>6, <2>7
<1> QED BY <1>5, <1>6 DEF Stand

\* The steps of the action that a selection counts are its live rows.
LEMMA LiveIsPrior ==
    ASSUME IInv, NEW t \in Tasks, NEW in, in.history = historyProjection, in.key = Key(t),
           \A i \in Live(t) : rows[i].key.revision = config.revision
    PROVE  /\ Step(in) = Cardinality(Live(t))
           /\ priorCandidates(in) = {rows[i].candidate : i \in Live(t)}
<1>0. Typed
  BY DEF IInv
<1>1. PICK g : Enumerates(g, historyProjection, Len(rows))
  BY <1>0, HistoryIs DEF Typed
<1>2. DOMAIN g = DOMAIN historyProjection
         /\ \A k \in DOMAIN g : g[k] \in Kept /\ historyProjection[k] = rows[g[k]]
  BY <1>1 DEF Enumerates
<1>3. \A i \in Kept : \E k \in DOMAIN g : g[k] = i
  <2>1. \A i \in Kept : i <= Len(rows)
    BY <1>0 DEF Kept, Typed
  <2> QED BY <1>1, <2>1 DEF Enumerates
<1>4. \A i \in Live(t) : i \in Kept /\ rows[i].key = Key(t)
  <2> SUFFICES ASSUME NEW i \in Live(t) PROVE i \in Kept /\ rows[i].key = Key(t)
    OBVIOUS
  <2>1. i \in DOMAIN rows /\ SameAction(rows[i].key, Key(t)) /\ i \in Kept
    BY DEF Live, Kept
  <2>2. rows[i] \in Decision
    BY <1>0, <2>1 DEF Typed
  <2>3. rows[i].key \in [task : Tasks, role : Roles, attempt : Nat \ {0},
                         revision : {c.revision : c \in Configs}]
    BY <2>2 DEF Decision
  <2>4. /\ rows[i].key.task = t /\ rows[i].key.role = task[t].role
        /\ rows[i].key.attempt = task[t].attempt /\ rows[i].key.revision = config.revision
    BY <2>1 DEF SameAction, Key
  <2> QED BY <2>1, <2>3, <2>4 DEF Key
<1>5. \A i \in Kept : rows[i].key = Key(t) => i \in Live(t)
  BY SameActionIs DEF Live, Kept
<1>6. PriorSteps(in) \subseteq DOMAIN historyProjection
         /\ \A k \in DOMAIN historyProjection :
               k \in PriorSteps(in) <=> rows[g[k]].key = Key(t)
  BY <1>2 DEF PriorSteps
<1>7. {g[k] : k \in PriorSteps(in)} = Live(t)
  <2>1. \A k \in PriorSteps(in) : g[k] \in Live(t)
    BY <1>2, <1>5, <1>6
  <2>2. \A i \in Live(t) : \E k \in PriorSteps(in) : g[k] = i
    BY <1>2, <1>3, <1>4, <1>6
  <2> QED BY <2>1, <2>2
<1>8. Cardinality({g[k] : k \in PriorSteps(in)}) = Cardinality(PriorSteps(in))
  BY <1>0, <1>1, <1>6, HistoryCount
<1>9. priorCandidates(in) = {rows[g[k]].candidate : k \in PriorSteps(in)}
  BY <1>2, <1>6 DEF priorCandidates
<1>10. {rows[g[k]].candidate : k \in PriorSteps(in)} = {rows[i].candidate : i \in Live(t)}
  BY <1>7
<1> QED BY <1>7, <1>8, <1>9, <1>10 DEF Step

\* An action whose selection was accepted has no row of another revision.
LEMMA LiveRevision ==
    ASSUME IInv, NEW t \in Tasks, NEW in, in.history = historyProjection, in.key = Key(t),
           SoundInput(in), NEW i \in Live(t)
    PROVE  rows[i].key.revision = config.revision
<1>0. Typed
  BY DEF IInv
<1>1. PICK g : Enumerates(g, historyProjection, Len(rows))
  BY <1>0, HistoryIs DEF Typed
<1>2. i \in Kept /\ i <= Len(rows) /\ SameAction(rows[i].key, Key(t))
  BY <1>0 DEF Live, Kept, Typed
<1>3. PICK k \in DOMAIN historyProjection : historyProjection[k] = rows[i]
  BY <1>1, <1>2 DEF Enumerates
<1>4. validateHistory(historyProjection, in.config, Key(t))
  BY DEF SoundInput, Accepted
<1>5. rows[i].key.revision = Key(t).revision
  <2>1. \A j \in DOMAIN historyProjection :
           SameAction(historyProjection[j].key, Key(t))
              => historyProjection[j].key.revision = Key(t).revision
    BY <1>4 DEF validateHistory
  <2> QED BY <1>2, <1>3, <2>1
<1> QED BY <1>5 DEF Key

LEMMA RoutedInv ==
    ASSUME IInv, Routed, [Next]_vars
    PROVE  Routed'
<1>1. /\ IInv' /\ Stand
      /\ \/ Len(rows') = Len(rows)
         \/ \E t \in Tasks : \E base, w, recovery, override, C, reason :
               Records(t, base, w, recovery, override, C, reason)
  BY StepInv
<1>2. /\ Len(rows) \in Nat /\ DOMAIN rows = 1 .. Len(rows) /\ Typed /\ Typed'
      /\ Len(rows') \in Nat /\ DOMAIN rows' = 1 .. Len(rows')
  BY <1>1 DEF IInv, Typed
<1> DEFINE Good(i) == /\ rows[i].step = 0 <=> rows[i].reason = "none"
                      /\ rows[i].step = Cardinality(Before(i))
                      /\ \A j \in Before(i) :
                            /\ rows[j].key.revision = rows[i].key.revision
                            /\ rows[j].candidate # rows[i].candidate
<1>3. ASSUME NEW i \in Kept', i \in DOMAIN rows
      PROVE  Good(i)'
  <2>1. i \in Kept /\ Before(i)' = Before(i) /\ Same(rows'[i], rows[i])
    BY <1>1, <1>2, <1>3, BeforeStands
  <2>2. Good(i)
    BY <2>1 DEF Routed
  <2>3. \A j \in Before(i) : Same(rows'[j], rows[j])
    BY <1>1 DEF Stand, Before, Kept
  <2> QED BY <2>1, <2>2, <2>3 DEF Same
<1>4. CASE Len(rows') = Len(rows)
  <2>1. \A i \in Kept' : i \in DOMAIN rows
    BY <1>2, <1>4 DEF Kept
  <2> QED BY <1>3, <2>1 DEF Routed
<1>5. CASE \E t \in Tasks : \E base, w, recovery, override, C, reason :
              Records(t, base, w, recovery, override, C, reason)
  <2>1. PICK t \in Tasks : \E base, w, recovery, override, C, reason :
                Records(t, base, w, recovery, override, C, reason)
    BY <1>5
  <2>2. PICK base, w, recovery, override, C, reason :
                Records(t, base, w, recovery, override, C, reason)
    BY <2>1
  <2>0. PICK n \in Nat : n = Len(rows) + 1
    BY <1>2
  <2> DEFINE in == Asked(t, w, recovery, override, C)
             s == selectCandidate(in)
  <2>3. /\ Len(rows') = n
        /\ \A i \in DOMAIN rows : rows'[i] = base[i]
        /\ rows'[n].key = Key(t) /\ rows'[n].reason = reason
        /\ rows'[n].step = Step(in) /\ rows'[n].candidate = s.candidate
        /\ SoundInput(in) /\ ~Refused(in)
    BY <2>0, <2>2, AppendedIs
  <2>4. in.history = historyProjection /\ in.key = Key(t)
    BY DEF Asked
  <2>5. s.candidate \notin priorCandidates(in)
    BY <2>3, Selected
  <2> HIDE DEF in, s
  <2>6. \A i \in Live(t) : rows[i].key.revision = config.revision
    BY <2>3, <2>4, LiveRevision
  <2>7. /\ Step(in) = Cardinality(Live(t))
        /\ priorCandidates(in) = {rows[i].candidate : i \in Live(t)}
    BY <2>4, <2>6, LiveIsPrior
  <2>8. /\ \A i \in DOMAIN rows :
              /\ Same(rows'[i], rows[i]) /\ rows'[i].key = rows[i].key
              /\ rows'[i].status = "superseded" <=> rows[i].status = "superseded"
        /\ \/ Live(t) = {} /\ reason = "none"
           \/ Live(t) # {} /\ reason \in Reasons
    BY <2>2, <2>3 DEF Records, Same
  <2>9. Before(n)' = Live(t)
    <3>1. \A j \in DOMAIN rows : j \in Kept' <=> rows[j].status # "superseded"
      BY <1>2, <2>0, <2>3, <2>8 DEF Kept
    <3>2. \A j \in DOMAIN rows' : j < n <=> j \in DOMAIN rows
      BY <1>2, <2>0, <2>3
    <3>3. \A j \in DOMAIN rows : j \in DOMAIN rows'
      BY <1>2, <2>0, <2>3
    <3>4. Kept' \subseteq DOMAIN rows'
      BY DEF Kept
    <3>5. Before(n)' = {j \in Kept' : j < n /\ SameAction(rows'[j].key, rows'[n].key)}
      BY DEF Before
    <3>6. \A j : j \in Before(n)' <=> j \in Live(t)
      BY <2>3, <2>8, <3>1, <3>2, <3>3, <3>4, <3>5 DEF Live
    <3> QED BY <3>6
  <2>10. Live(t) \in SUBSET DOMAIN rows
    BY DEF Live
  <2>11. Step(in) \in Nat /\ (Step(in) = 0 <=> Live(t) = {})
    <3>1. IsFiniteSet(Live(t)) /\ Cardinality(Live(t)) \in Nat
      BY <1>2, <2>10, RowsFinite
    <3>2. Cardinality(Live(t)) = 0 <=> Live(t) = {}
      BY <3>1, FS_EmptySet
    <3> QED BY <2>7, <3>1, <3>2
  <2>12. rows'[n].step = 0 <=> rows'[n].reason = "none"
    <3>1. "none" \notin Reasons
      BY ReasonsAssumption DEF FallbackReasons, EscalationReasons
    <3> QED BY <2>3, <2>8, <2>11, <3>1
  <2>13. \A j \in Live(t) : /\ rows'[j].key.revision = rows'[n].key.revision
                            /\ rows'[j].candidate # rows'[n].candidate
    <3> SUFFICES ASSUME NEW j \in Live(t)
                 PROVE  /\ rows'[j].key.revision = rows'[n].key.revision
                        /\ rows'[j].candidate # rows'[n].candidate
      OBVIOUS
    <3>1. Same(rows'[j], rows[j])
      BY <2>8, <2>10
    <3>2. rows[j].candidate # s.candidate
      BY <2>5, <2>7
    <3>3. rows[j].key.revision = Key(t).revision
      BY <2>6 DEF Key
    <3> QED BY <2>3, <3>1, <3>2, <3>3 DEF Same
  <2>14. rows'[n].step = Cardinality(Before(n)')
    BY <2>3, <2>7, <2>9
  <2>15. \A i \in Kept' : i \in DOMAIN rows \/ i = n
    BY <1>2, <2>0, <2>3 DEF Kept
  <2> SUFFICES ASSUME NEW i \in Kept' PROVE Good(i)'
    BY DEF Routed
  <2>16. CASE i \in DOMAIN rows
    BY <1>3, <2>16
  <2>17. CASE i = n
    <3>1. /\ rows'[i].step = 0 <=> rows'[i].reason = "none"
          /\ rows'[i].step = Cardinality(Before(n)')
          /\ \A j \in Before(n)' : /\ rows'[j].key.revision = rows'[i].key.revision
                                   /\ rows'[j].candidate # rows'[i].candidate
      BY <2>9, <2>12, <2>13, <2>14, <2>17
    <3>2. Before(i)' = Before(n)'
      BY <2>17
    <3> QED BY <3>1, <3>2
  <2> QED BY <2>15, <2>16, <2>17
<1> QED BY <1>1, <1>4, <1>5

\* The escalations a selection counts are those of the kept rows of its Task.
LEMMA EscalationsCounted ==
    ASSUME Typed, NEW in, in.history = historyProjection
    PROVE  escalationsUsed(in) = Cardinality(Escalations(in.key.task))
<1>1. PICK g : Enumerates(g, historyProjection, Len(rows))
  BY HistoryIs DEF Typed
<1> DEFINE h == historyProjection
           P == {k \in DOMAIN h : /\ h[k].key.task = in.key.task
                                  /\ h[k].reason \in EscalationReasons}
<1>2. \A k \in DOMAIN h : k \in DOMAIN g /\ g[k] \in Kept /\ h[k] = rows[g[k]]
  BY <1>1 DEF Enumerates
<1>3. \A i \in Kept : \E k \in DOMAIN h : g[k] = i
  <2>1. \A i \in Kept : i <= Len(rows)
    BY DEF Kept, Typed
  <2> QED BY <1>1, <2>1 DEF Enumerates
<1>4. Cardinality({g[k] : k \in P}) = Cardinality(P)
  <2>1. P \in SUBSET DOMAIN historyProjection
    OBVIOUS
  <2> HIDE DEF P
  <2> QED BY <1>1, <2>1, HistoryCount
<1>5. {g[k] : k \in P} = Escalations(in.key.task)
  <2>1. \A k \in P : g[k] \in Escalations(in.key.task)
    BY <1>2 DEF Escalations
  <2>2. \A i \in Escalations(in.key.task) : \E k \in P : g[k] = i
    BY <1>2, <1>3 DEF Escalations
  <2> HIDE DEF P
  <2> QED BY <2>1, <2>2
<1>6. escalationsUsed(in) = Cardinality(P)
  BY DEF escalationsUsed
<1> QED BY <1>4, <1>5, <1>6

LEMMA EscalatedInv ==
    ASSUME CatalogKept, IInv, Escalated, [Next]_vars
    PROVE  Escalated'
<1>1. /\ IInv' /\ Stand
      /\ \/ Len(rows') = Len(rows)
         \/ \E t \in Tasks : \E base, w, recovery, override, C, reason :
               Records(t, base, w, recovery, override, C, reason)
  BY StepInv
<1>2. /\ Len(rows) \in Nat /\ DOMAIN rows = 1 .. Len(rows) /\ Typed /\ Typed'
      /\ Len(rows') \in Nat /\ DOMAIN rows' = 1 .. Len(rows')
  BY <1>1 DEF IInv, Typed
<1>3. ASSUME NEW u \in Tasks, NEW i \in Escalations(u)', i \in DOMAIN rows
      PROVE  i \in Escalations(u)
  <2>1. i \in Kept' /\ rows'[i].key.task = u /\ rows'[i].reason \in EscalationReasons
    BY DEF Escalations
  <2>2. i \in Kept /\ Same(rows'[i], rows[i])
    BY <1>1, <1>2, <1>3, <2>1, BeforeStands
  <2> QED BY <2>1, <2>2 DEF Escalations, Same
<1>4. ASSUME NEW u \in Tasks
      PROVE  /\ IsFiniteSet(Escalations(u)) /\ Cardinality(Escalations(u)) \in Nat
             /\ IsFiniteSet(Escalations(u)') /\ Cardinality(Escalations(u)') \in Nat
  <2>1. Escalations(u) \in SUBSET DOMAIN rows
    BY DEF Escalations, Kept
  <2>2. Escalations(u)' \subseteq DOMAIN rows'
    BY DEF Escalations, Kept
  <2>3. IsFiniteSet(DOMAIN rows')
    <3>1. 1 \in Int /\ Len(rows') \in Int
      BY <1>2
    <3> QED BY <1>2, <3>1, FS_Interval
  <2>4. IsFiniteSet(Escalations(u)')
    BY <2>2, <2>3, FS_Subset
  <2> QED BY <1>2, <2>1, <2>4, RowsFinite, FS_CardinalityType
<1>5. ASSUME NEW u \in Tasks, NEW c \in Configs, Escalations(u)' \subseteq Escalations(u)
      PROVE  Cardinality(Escalations(u)') <= c.escalations
  <2>1. Cardinality(Escalations(u)') <= Cardinality(Escalations(u))
    BY <1>4, <1>5, FS_Subset
  <2>2. Cardinality(Escalations(u)) <= c.escalations /\ c.escalations \in Nat
    BY ConfigIs DEF Escalated
  <2> QED BY <1>4, <2>1, <2>2
<1>6. CASE Len(rows') = Len(rows)
  <2>1. \A u \in Tasks : Escalations(u)' \subseteq DOMAIN rows
    BY <1>2, <1>6 DEF Escalations, Kept
  <2>2. \A u \in Tasks : Escalations(u)' \subseteq Escalations(u)
    BY <1>3, <2>1
  <2> QED BY <1>5, <2>2 DEF Escalated
<1>7. CASE \E t \in Tasks : \E base, w, recovery, override, C, reason :
              Records(t, base, w, recovery, override, C, reason)
  <2>1. PICK t \in Tasks : \E base, w, recovery, override, C, reason :
                Records(t, base, w, recovery, override, C, reason)
    BY <1>7
  <2>2. PICK base, w, recovery, override, C, reason :
                Records(t, base, w, recovery, override, C, reason)
    BY <2>1
  <2> DEFINE n == Len(rows) + 1
             in == Asked(t, w, recovery, override, C)
  <2>3. /\ Len(rows') = n
        /\ rows'[n].key = Key(t) /\ rows'[n].reason = reason
        /\ SoundInput(in) /\ ~Refused(in)
    BY <2>2, AppendedIs
  <2>4. in.history = historyProjection /\ in.key = Key(t) /\ in.key.task = t
           /\ in.recovery = recovery /\ in.config = config
    BY DEF Asked, Key
  <2> HIDE DEF n, in
  <2>5. \A u \in Tasks : \A i \in Escalations(u)' :
           i \in Escalations(u) \/ i = n
    <3>1. \A u \in Tasks : Escalations(u)' \subseteq DOMAIN rows'
      BY DEF Escalations, Kept
    <3>2. \A i \in DOMAIN rows' : i \in DOMAIN rows \/ i = n
      BY <1>2, <2>3 DEF n
    <3> QED BY <1>3, <3>1, <3>2
  <2>6. \A u \in Tasks : n \in Escalations(u)'
           => u = t /\ reason \in EscalationReasons
    <3>1. \A u \in Tasks : n \in Escalations(u)'
             => rows'[n].key.task = u /\ rows'[n].reason \in EscalationReasons
      BY <1>2 DEF Escalations, n
    <3> QED BY <2>3, <3>1 DEF Key
  <2> SUFFICES ASSUME NEW u \in Tasks, NEW c \in Configs
               PROVE  Cardinality(Escalations(u)') <= c.escalations
    BY DEF Escalated
  <2>7. CASE n \notin Escalations(u)'
    <3>1. Escalations(u)' \subseteq Escalations(u)
      BY <2>5, <2>7
    <3> QED BY <1>5, <3>1
  <2>8. CASE n \in Escalations(u)'
    <3>1. u = t /\ reason \in EscalationReasons
      BY <2>6, <2>8
    <3>2. Recovering(in, EscalationReasons)
      <4>1. reason # "none"
        BY <3>1 DEF EscalationReasons
      <4>2. /\ Active(t) \in Live(t) /\ reason \in Reasons
            /\ recovery = [reason |-> reason, previous |-> rows[Active(t)].candidate]
        BY <2>2, <4>1 DEF Records
      <4>3. rows[Active(t)] \in Decision
        BY <1>2, <4>2, ActiveIs DEF Typed
      <4>4. recovery \in [reason : Reasons, previous : Nat]
        BY <4>2, <4>3 DEF Decision
      <4>5. recovery # None /\ recovery.reason = reason
        BY <4>2, <4>4, NoneAssumption
      <4> QED BY <2>4, <3>1, <4>5 DEF Recovering
    <3>3. escalationsUsed(in) < config.escalations
      BY <2>3, <2>4, <3>2 DEF SoundInput, Accepted, WithinLimits
    <3>4. Cardinality(Escalations(t)) < c.escalations
      <4>1. escalationsUsed(in) = Cardinality(Escalations(t))
        BY <1>2, <2>4, EscalationsCounted
      <4>2. c.escalations = config.escalations
        BY <1>2 DEF CatalogKept, Typed
      <4> QED BY <3>3, <4>1, <4>2
    <3>5. Escalations(u)' \subseteq Escalations(t) \cup {n}
      BY <2>5, <3>1
    <3>6. IsFiniteSet(Escalations(t) \cup {n})
             /\ Cardinality(Escalations(t) \cup {n}) <= Cardinality(Escalations(t)) + 1
             /\ Cardinality(Escalations(t) \cup {n}) \in Nat
      <4>1. IsFiniteSet(Escalations(t)) /\ Cardinality(Escalations(t)) \in Nat
        BY <1>4
      <4>2. IsFiniteSet(Escalations(t) \cup {n})
               /\ Cardinality(Escalations(t) \cup {n})
                     = IF n \in Escalations(t) THEN Cardinality(Escalations(t))
                       ELSE Cardinality(Escalations(t)) + 1
        BY <4>1, FS_AddElement
      <4> QED BY <4>1, <4>2, FS_CardinalityType
    <3>7. Cardinality(Escalations(u)') <= Cardinality(Escalations(t) \cup {n})
      BY <3>5, <3>6, FS_Subset
    <3>8. c.escalations \in Nat
      BY ConfigIs
    <3> QED BY <1>4, <3>4, <3>6, <3>7, <3>8
  <2> QED BY <2>7, <2>8
<1> QED BY <1>1, <1>6, <1>7

-------------------------------------------------------------------------------
(* What is recorded is accepted *)

\* A route of the ledger is one the history shows to the next selection.
LEMMA HistoryAccepted ==
    ASSUME CatalogKept, IInv, Routed, NEW t \in Tasks,
           \A i \in Live(t) : rows[i].key.revision = config.revision
    PROVE  validateHistory(historyProjection, config, Key(t))
<1> DEFINE h == historyProjection
           Earlier(k) == {j \in 1 .. k - 1 : SameAction(h[j].key, h[k].key)}
<1>0. Typed /\ config \in Configs
  BY DEF IInv, Typed
<1>1. PICK g : Enumerates(g, historyProjection, Len(rows))
  BY <1>0, HistoryIs DEF Typed
<1>2. /\ \A k \in DOMAIN h : k \in DOMAIN g /\ g[k] \in Kept /\ h[k] = rows[g[k]]
      /\ \A k, l \in DOMAIN h : k < l => g[k] < g[l]
  BY <1>1 DEF Enumerates
<1>3. \A i \in Kept : \E k \in DOMAIN h : g[k] = i
  <2>1. \A i \in Kept : i <= Len(rows)
    BY <1>0 DEF Kept, Typed
  <2> QED BY <1>1, <2>1 DEF Enumerates
<1>4. DOMAIN h = 1 .. Len(h) /\ Len(h) \in Nat
         /\ \A P \in SUBSET DOMAIN h : Cardinality({g[k] : k \in P}) = Cardinality(P)
  <2>1. DOMAIN h \in SUBSET DOMAIN h
    OBVIOUS
  <2> QED BY <1>0, <1>1, <2>1, HistoryCount
<1>5. \A i \in Kept : i \in Int /\ i \in DOMAIN rows
  BY <1>0 DEF Kept, Typed
<1> HIDE DEF h
<1> SUFFICES ASSUME NEW k \in DOMAIN h
             PROVE  /\ h[k].candidate \in DOMAIN config.candidates
                    /\ config.candidates[h[k].candidate].provider = h[k].provider
                    /\ h[k].key.role \in config.candidates[h[k].candidate].roles
                    /\ (h[k].step = 0) = (h[k].reason = "none")
                    /\ h[k].step = Cardinality(Earlier(k))
                    /\ \A j \in Earlier(k) :
                          /\ h[j].key.revision = h[k].key.revision
                          /\ h[j].candidate # h[k].candidate
                    /\ SameAction(h[k].key, Key(t)) => h[k].key.revision = Key(t).revision
  BY DEF validateHistory, h
<1>6. PICK i \in Kept : i = g[k] /\ h[k] = rows[i] /\ i \in DOMAIN rows
  BY <1>2, <1>5
<1>7. /\ h[k].candidate \in DOMAIN config.candidates
      /\ config.candidates[h[k].candidate].provider = h[k].provider
      /\ h[k].key.role \in config.candidates[h[k].candidate].roles
  <2>1. PICK c \in Configs : Agrees(rows[i], c)
    BY <1>6 DEF IInv, Agreed
  <2>2. /\ DOMAIN c.candidates = DOMAIN config.candidates
        /\ \A id \in DOMAIN c.candidates :
              /\ c.candidates[id].provider = config.candidates[id].provider
              /\ c.candidates[id].roles = config.candidates[id].roles
    BY <1>0 DEF CatalogKept
  <2> QED BY <1>6, <2>1, <2>2 DEF Agrees
<1>8. \A j \in Earlier(k) : j \in DOMAIN h /\ j < k
  BY <1>4
<1>9. {g[j] : j \in Earlier(k)} = Before(i)
  <2>1. \A j \in Earlier(k) : g[j] \in Before(i)
    BY <1>2, <1>6, <1>8 DEF Before
  <2>2. ASSUME NEW m \in Before(i)
        PROVE  \E j \in Earlier(k) : g[j] = m
    <3>1. m \in Kept /\ m < i /\ SameAction(rows[m].key, rows[i].key)
      BY DEF Before
    <3>2. PICK j \in DOMAIN h : g[j] = m
      BY <1>3, <3>1
    <3>3. h[j] = rows[m] /\ g[j] < g[k]
      BY <1>2, <1>6, <3>1, <3>2
    <3>4. g[j] \in Int /\ g[k] \in Int /\ j \in Int /\ k \in Int
      BY <1>2, <1>4, <1>5
    <3>5. ~(k < j) /\ j # k
      BY <1>2, <3>3, <3>4
    <3>6. j \in 1 .. k - 1
      BY <1>4, <3>4, <3>5
    <3> QED BY <1>6, <3>1, <3>2, <3>3, <3>6
  <2> HIDE DEF Earlier
  <2> QED BY <2>1, <2>2
<1>10. Cardinality(Earlier(k)) = Cardinality(Before(i))
  <2>1. Earlier(k) \in SUBSET DOMAIN h
    BY <1>8
  <2> HIDE DEF Earlier
  <2> QED BY <1>4, <1>9, <2>1
<1>11. /\ rows[i].step = 0 <=> rows[i].reason = "none"
       /\ rows[i].step = Cardinality(Before(i))
       /\ \A j \in Before(i) : /\ rows[j].key.revision = rows[i].key.revision
                               /\ rows[j].candidate # rows[i].candidate
  BY DEF Routed
<1>12. ASSUME NEW j \in Earlier(k)
       PROVE  h[j].key.revision = h[k].key.revision /\ h[j].candidate # h[k].candidate
  <2>1. g[j] \in Before(i) /\ h[j] = rows[g[j]]
    <3> HIDE DEF Earlier
    <3> QED BY <1>2, <1>8, <1>9
  <2> QED BY <1>6, <1>11, <2>1
<1>13. SameAction(h[k].key, Key(t)) => h[k].key.revision = Key(t).revision
  <2>1. SameAction(rows[i].key, Key(t)) => i \in Live(t)
    BY <1>6 DEF Live, Kept
  <2> QED BY <1>6, <2>1 DEF Key
<1> HIDE DEF Earlier
<1>14. (h[k].step = 0) = (h[k].reason = "none")
  BY <1>6, <1>11
<1>15. h[k].step = Cardinality(Earlier(k))
  BY <1>6, <1>10, <1>11
<1> QED BY <1>7, <1>12, <1>13, <1>14, <1>15

\* The Implementer whose work a Review is about.
LEMMA ImplementerAccepted ==
    ASSUME CatalogKept, IInv, NEW t \in Tasks
    PROVE  validateImplementerDecision(implementerDecisionFor(Key(t)), config)
<1> DEFINE found == {i \in DOMAIN rows : /\ rows[i].key.task = Key(t).task
                                         /\ rows[i].key.role = "implementer"
                                         /\ rows[i].key.attempt = Key(t).attempt}
           d == implementerDecisionFor(Key(t))
<1>0. Typed /\ config \in Configs
  BY DEF IInv, Typed
<1>1. d = IF Key(t).role = "reviewer" /\ found # {}
          THEN [candidate |-> rows[Max(found)].candidate,
                provider |-> rows[Max(found)].provider, tier |-> rows[Max(found)].tier]
          ELSE None
  BY DEF implementerDecisionFor
<1>2. found # {} => Max(found) \in found
  <2>1. found \in SUBSET DOMAIN rows /\ DOMAIN rows \subseteq Int
    BY <1>0 DEF Typed
  <2>2. found \in SUBSET Int /\ IsFiniteSet(found)
    <3> HIDE DEF found
    <3> QED BY <1>0, <2>1, RowsFinite
  <2> HIDE DEF found
  <2> QED BY <2>2, MaxIs
<1>3. \A i \in found : i \in DOMAIN rows /\ rows[i].key.role = "implementer"
  OBVIOUS
<1> HIDE DEF found, d
<1> SUFFICES ASSUME d # None
             PROVE  /\ d.candidate \in DOMAIN config.candidates
                    /\ config.candidates[d.candidate].provider = d.provider
                    /\ config.candidates[d.candidate].tier = d.tier
                    /\ "implementer" \in config.candidates[d.candidate].roles
  BY DEF validateImplementerDecision, d
<1>4. PICK i \in found : /\ d.candidate = rows[i].candidate /\ d.provider = rows[i].provider
                         /\ d.tier = rows[i].tier
  BY <1>1, <1>2
<1>5. PICK c \in Configs : Agrees(rows[i], c)
  BY <1>3, <1>4 DEF IInv, Agreed
<1>6. /\ DOMAIN c.candidates = DOMAIN config.candidates
      /\ \A id \in DOMAIN c.candidates :
            /\ c.candidates[id].provider = config.candidates[id].provider
            /\ c.candidates[id].tier = config.candidates[id].tier
            /\ c.candidates[id].roles = config.candidates[id].roles
  BY <1>0 DEF CatalogKept
<1> QED BY <1>3, <1>4, <1>5, <1>6 DEF Agrees

\* While an action asks, its live rows are of the present revision.
LEMMA AskingRevision ==
    ASSUME IInv, Routed, NEW t \in Tasks, Asking(t), NEW i \in Live(t)
    PROVE  /\ rows[i].key.revision = config.revision
           /\ Active(t) # 0 /\ Active(t) \in Live(t)
<1> DEFINE a == Active(t)
<1>1. a # 0 /\ rows[a].key.revision = config.revision
  BY DEF Asking
<1>2. /\ a \in Live(t) /\ \A k \in Live(t) : k <= a
      /\ Live(t) \subseteq DOMAIN rows /\ DOMAIN rows \subseteq Nat \ {0}
  BY <1>1, ActiveIs DEF IInv
<1> HIDE DEF a
<1>3. i \in Kept /\ a \in Kept /\ SameAction(rows[i].key, rows[a].key)
  <2>1. SameAction(rows[i].key, Key(t)) /\ SameAction(rows[a].key, Key(t))
    BY <1>2 DEF Live
  <2> QED BY <1>2, <2>1, SameActionIs DEF Live, Kept
<1>4. i = a \/ i \in Before(a)
  <2>1. i \in Nat /\ a \in Nat /\ i <= a
    BY <1>2
  <2>2. i = a \/ i < a
    BY <2>1
  <2> QED BY <1>3, <2>2 DEF Before
<1>5. rows[i].key.revision = rows[a].key.revision
  BY <1>3, <1>4 DEF Routed
<1> QED BY <1>1, <1>2, <1>5 DEF a

LEMMA AskedRecorded ==
    ASSUME IInv, Routed, NEW t \in Tasks, Asking(t), NEW in \in Asks(t), ~Refused(in)
    PROVE  LET s == selectCandidate(in)
           IN  validateDecisionRecord(s) /\ s.floor \in config.tiers
<1>0. Typed /\ task[t].role \in Roles
  BY DEF IInv, Asking
<1>1. \E w \in Derived : \E recovery, override : in = Input(t, w, recovery, override)
  <2>1. CASE Live(t) = {}
    <3>1. PICK o \in {None} \cup {o \in Overrides : o.role = task[t].role} :
             in = Input(t, Workload(t), None, o)
      BY <2>1 DEF Asks
    <3>2. Workload(t) \in Derived
      BY <1>0, FactsAre
    <3> QED BY <3>1, <3>2
  <2>2. CASE Live(t) # {}
    <3>1. PICK w \in Workloads(t), reason \in Reasons :
             in = Input(t, w, [reason |-> reason, previous |-> rows[Active(t)].candidate],
                        None)
      BY <2>2 DEF Asks
    <3>2. Active(t) \in Live(t)
      BY <2>2, AskingRevision
    <3>3. w \in Derived
      BY <1>0, <3>2, WorkloadsAre
    <3> QED BY <3>1, <3>3
  <2> QED BY <2>1, <2>2
<1>2. PICK w \in Derived : \E recovery, override : in = Input(t, w, recovery, override)
  BY <1>1
<1>3. PICK recovery, override : in = Input(t, w, recovery, override)
  BY <1>2
<1>4. in = Asked(t, w, recovery, override, cooled)
  BY <1>3, InputIs
<1>5. SoundInput(in)
  BY <1>0, <1>4, AskedIsSound
<1>6. in.workload = w /\ in.config = config
  BY <1>4 DEF Asked
<1>7. validateWorkloadSummary(w)
  <2>1. PICK f \in Facts, role \in Roles, c \in Configs : w = buildWorkloadContext(f, role, c)
    BY DEF Derived
  <2> QED BY <2>1, WorkloadAccepted
<1> QED BY <1>5, <1>6, <1>7, SelectionRecorded

LEMMA AllAccepted ==
    ASSUME CatalogKept, IInv, Routed, Escalated
    PROVE  SelectionsAccepted
<1>0. Typed /\ config \in Configs
  BY DEF IInv, Typed
<1>1. ASSUME NEW t \in Tasks, NEW f \in Variations(FactsNow(t)), NEW w,
             w = buildWorkloadContext(f, task[t].role, config)
      PROVE  validateWorkload(w, task[t].role, f, config) /\ validateWorkloadSummary(w)
  <2>1. f \in Facts
    BY <1>0, FactsAre, VariationsAre
  <2> QED BY <1>1, <2>1, WorkloadAccepted
<1>2. ASSUME NEW t \in Tasks, Asking(t), NEW in, in = Input(t, Workload(t), None, None)
      PROVE  /\ validateHistory(in.history, config, in.key)
             /\ validateImplementerDecision(in.implementer, config)
             /\ escalationsUsed(in) <= config.escalations
  <2>1. /\ in.history = historyProjection /\ in.key = Key(t) /\ in.key.task = t
        /\ in.implementer = implementerDecisionFor(Key(t))
    BY <1>2 DEF Input, Key
  <2>2. \A i \in Live(t) : rows[i].key.revision = config.revision
    BY <1>2, AskingRevision
  <2>3. validateHistory(historyProjection, config, Key(t))
    BY <2>2, HistoryAccepted
  <2>4. escalationsUsed(in) <= config.escalations
    <3>1. escalationsUsed(in) = Cardinality(Escalations(t))
      BY <1>0, <2>1, EscalationsCounted
    <3> QED BY <1>0, <3>1 DEF Escalated
  <2> QED BY <2>1, <2>3, <2>4, ImplementerAccepted
<1>3. ASSUME NEW t \in Tasks, Asking(t), NEW in \in Asks(t), ~Refused(in)
      PROVE  LET s == selectCandidate(in)
             IN  validateDecisionRecord(s) /\ s.floor \in config.tiers
  BY <1>3, AskedRecorded
<1> QED BY <1>1, <1>2, <1>3 DEF SelectionsAccepted

\* The three modules that compute the same things agree (buildWorkloadContext with
\* validateWorkload and validateWorkloadSummary, the recorded routes with
\* validateHistory, selectCandidate with validateDecisionRecord), provided edits of
\* the configuration keep the candidates and the limit of escalations: kept routes are
\* numbered and of one revision, and escalations were counted as they were made.
THEOREM SelectionsHold == CatalogKept /\ Spec => []SelectionsAccepted
<1> DEFINE J == CatalogKept /\ IInv /\ Routed /\ Escalated
<1>1. CatalogKept /\ Init => J
  <2> SUFFICES ASSUME CatalogKept, Init PROVE Routed /\ Escalated /\ IInv
    OBVIOUS
  <2>1. IInv
    BY InitInv
  <2>2. Kept = {}
    BY DEF Init, Kept
  <2>3. \A t \in Tasks, c \in Configs : Cardinality(Escalations(t)) <= c.escalations
    <3> SUFFICES ASSUME NEW t \in Tasks, NEW c \in Configs
                 PROVE  Cardinality(Escalations(t)) <= c.escalations
      OBVIOUS
    <3>1. Escalations(t) = {}
      BY <2>2 DEF Escalations
    <3>2. Cardinality(Escalations(t)) = 0 /\ c.escalations \in Nat
      BY <3>1, ConfigIs, FS_EmptySet
    <3> QED BY <3>2
  <2> QED BY <2>1, <2>2, <2>3 DEF Routed, Escalated
<1>2. J /\ [Next]_vars => J'
  <2> SUFFICES ASSUME J, [Next]_vars PROVE J'
    OBVIOUS
  <2>1. CatalogKept'
    BY DEF CatalogKept
  <2> QED BY <2>1, StepInv, RoutedInv, EscalatedInv
<1>3. J => SelectionsAccepted
  BY AllAccepted
<1> HIDE DEF J
<1> QED BY <1>1, <1>2, <1>3, PTL DEF Spec
===============================================================================

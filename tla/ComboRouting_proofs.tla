------------------------- MODULE ComboRouting_proofs -------------------------
(***************************************************************************)
(* Proofs about ComboRouting for every set of requests, every combo of two  *)
(* or more different models, every sticky limit, quorum and timeout.        *)
(***************************************************************************)
EXTENDS ComboRouting, FiniteSetTheorems, SequenceTheorems, TLAPS

\* The sequences that hold every model of the combo, at as many places.
Arrangements ==
  {o \in [Positions -> Names] : \A i \in Positions : \E k \in Positions : o[k] = Models[i]}

\* The panel calls that count towards the quorum.
Successes(held) == {i \in Positions : held[i] \in {"text", "empty"}}

-----------------------------------------------------------------------------
(* The invariants the properties rest on.                                   *)

\* The shared rotation stands where the number of round-robin requests puts it.
RotationInv ==
  /\ rotation.index = (led \div StickyLimit) % Len(Models)
  /\ rotation.uses = led % StickyLimit

\* Model m comes first in the order from among those that rank best.
BestOf(from, rank, m) ==
  \E k \in Positions :
    /\ m = from[k]
    /\ \A j \in Positions : rank[from[k]] <= rank[from[j]]
    /\ \A j \in Positions : j < k => rank[from[k]] < rank[from[j]]

\* Whose turn the n-th round-robin request is.
Due(n) == ((n - 1) \div StickyLimit) % Len(Models)

\* A round-robin request that has started has in front of its order what its turn and
\* its media ask for.
LeadInv ==
  \A r \in Requests :
    turn[r] > 0 => /\ phase[r] # "new" /\ strategy[r] = "round-robin"
                   /\ BestOf(Rotated(Models, Due(turn[r])), ranks[r], order[r][1])

\* A request that calls one model after the other has called those before its
\* position, and gives up on the combo only behind the last.
LoopInv(r) ==
  /\ order[r] \in Arrangements
  /\ strategy[r] # "fusion" =>
       /\ phase[r] \in {"new", "trying", "waiting", "done"}
       /\ phase[r] = "new" => position[r] = 1
       /\ phase[r] = "done" => result[r] \in {"ok", "final"} \/ position[r] = Len(Models) + 1
       /\ Len(tried[r]) = position[r] - 1
       /\ \A k \in 1 .. position[r] - 1 : tried[r][k] = order[r][k]

\* The count of a collection is that of its successes, and only a quorum of them
\* arms the grace period, which ends with the collection.
CollectionInv(r) ==
  /\ strategy[r] = "fusion" => phase[r] \in {"new", "collecting", "reading", "done"}
  /\ phase[r] \in {"new", "collecting"} => counted[r] = Cardinality(Successes(panel[r]))
  /\ phase[r] # "collecting" => hard[r] = 0 /\ grace[r] = 0
  /\ grace[r] # 0 => counted[r] >= MinPanel
  /\ closedWith[r].by = "grace" => Cardinality(Successes(atClose[r])) >= MinPanel

\* While the array is read, what had settled when the collection closed has not
\* changed in it, and the answers are those of the places that have been read.
ReadingInv(r) ==
  strategy[r] = "fusion" =>
    /\ phase[r] \in {"new", "collecting"} => position[r] = 1 /\ answers[r] = <<>>
    /\ phase[r] = "reading" =>
         \A i \in Positions : atClose[r][i] # "running" => panel[r][i] = atClose[r][i]
    /\ phase[r] = "done" => position[r] = Len(Models) + 1
    /\ phase[r] \in {"reading", "done"} =>
         /\ \A i \in Positions : i < position[r] /\ atClose[r][i] = "text" =>
              \E k \in DOMAIN answers[r] : answers[r][k] = i
         /\ \A k \in DOMAIN answers[r] : answers[r][k] < position[r]
         /\ \A j, k \in DOMAIN answers[r] : j < k => answers[r][j] < answers[r][k]

RequestInv == \A r \in Requests : LoopInv(r) /\ CollectionInv(r) /\ ReadingInv(r)

IInv == TypeOK /\ RotationInv /\ LeadInv /\ RequestInv

-----------------------------------------------------------------------------
(* Arithmetic.                                                              *)

\* What a quotient and a remainder are.
LEMMA ModType ==
  ASSUME NEW n \in Nat, NEW k \in Nat \ {0}
  PROVE  n % k \in 0 .. k - 1
OBVIOUS

\* A quotient is a number,
LEMMA DivType ==
  ASSUME NEW n \in Nat, NEW k \in Nat \ {0}
  PROVE  n \div k \in Nat
OBVIOUS

\* and with the remainder it makes up the dividend.
LEMMA DivMod ==
  ASSUME NEW n \in Nat, NEW k \in Nat \ {0}
  PROVE  n = k * (n \div k) + (n % k)
OBVIOUS

\* There is one way to write a number so.
LEMMA ModUnique ==
  ASSUME NEW n \in Nat, NEW k \in Nat \ {0}, NEW q \in Nat, NEW r \in 0 .. k - 1,
         n = k * q + r
  PROVE  n % k = r
OBVIOUS

\* The remainder and the quotient of the next number.
LEMMA NextMod ==
  ASSUME NEW n \in Nat, NEW k \in Nat \ {0}
  PROVE  (n + 1) % k = IF (n % k) = k - 1 THEN 0 ELSE (n % k) + 1
<1>1. n = k * (n \div k) + (n % k) /\ n % k \in 0 .. k - 1 /\ n \div k \in Nat
  BY DivMod, ModType, DivType
<1>2. CASE (n % k) = k - 1
  <2>1. k * ((n \div k) + 1) = k * (n \div k) + k
    BY <1>1
  <2>2. n + 1 = k * ((n \div k) + 1) + 0
    BY <1>1, <1>2, <2>1
  <2> QED
    <3>1. (n \div k) + 1 \in Nat /\ 0 \in 0 .. k - 1 /\ n + 1 \in Nat
      BY <1>1
    <3>2. (n + 1) % k = 0
      BY <3>1, <2>2, ModUnique
    <3> QED
      BY <1>2, <3>2
<1>3. CASE (n % k) # k - 1
  <2>1. n + 1 = k * (n \div k) + ((n % k) + 1) /\ (n % k) + 1 \in 0 .. k - 1
    BY <1>1, <1>3
  <2> QED
    <3>0. n + 1 \in Nat
      OBVIOUS
    <3>1. (n + 1) % k = (n % k) + 1
      BY <3>0, <1>1, <2>1, ModUnique
    <3> QED
      BY <1>3, <3>1
<1> QED
  BY <1>2, <1>3

\* The quotient grows where the remainder wraps.
LEMMA NextDiv ==
  ASSUME NEW n \in Nat, NEW k \in Nat \ {0}
  PROVE  (n + 1) \div k = IF (n % k) = k - 1 THEN (n \div k) + 1 ELSE n \div k
<1>0. n + 1 \in Nat
  OBVIOUS
<1>1. n = k * (n \div k) + (n % k) /\ n + 1 = k * ((n + 1) \div k) + ((n + 1) % k)
  BY <1>0, DivMod
<1>2. n % k \in 0 .. k - 1 /\ n \div k \in Nat /\ (n + 1) \div k \in Nat
  BY <1>0, ModType, DivType
<1>3. CASE (n % k) = k - 1
  <2>1. k * ((n \div k) + 1) = k * (n \div k) + k
    BY <1>2
  <2>2. n + 1 = k * ((n \div k) + 1) + 0
    BY <1>1, <1>2, <1>3, <2>1
  <2> QED
    BY <1>2, <1>3, <2>2
<1>4. CASE n % k # k - 1
  <2>1. n + 1 = k * (n \div k) + ((n % k) + 1) /\ (n % k) + 1 \in 0 .. k - 1
    BY <1>1, <1>2, <1>4
  <2> QED
    BY <1>2, <1>4, <2>1
<1> QED
  BY <1>3, <1>4

\* A remainder moved on and reduced again is that of the next number.
LEMMA ModNext ==
  ASSUME NEW n \in Nat, NEW k \in Nat \ {0}
  PROVE  ((n % k) + 1) % k = (n + 1) % k
<1>1. n % k \in 0 .. k - 1
  BY ModType
<1>2. CASE (n % k) = k - 1
  <2>1. k % k = 0
    OBVIOUS
  <2>2. (n % k) + 1 = k
    BY <1>2
  <2> QED
    BY <1>2, <2>1, <2>2, NextMod
<1>3. CASE n % k # k - 1
  <2>1. ((n % k) + 1) \in Nat /\ (n % k) + 1 < k
    BY <1>1, <1>3
  <2>2. ((n % k) + 1) % k = (n % k) + 1
    BY <2>1
  <2> QED
    BY <2>2, <1>3, NextMod
<1> QED
  BY <1>2, <1>3

-----------------------------------------------------------------------------
(* The combo's models, and the orders in which they are tried.              *)

\* The combo is a sequence of its models, with as many places.
LEMMA ModelsType ==
  /\ Len(Models) \in Nat /\ Len(Models) > 1
  /\ Positions = 1 .. Len(Models)
  /\ Models \in [Positions -> Names] /\ Models \in Seq(Names)
  /\ IsFiniteSet(Positions) /\ Cardinality(Positions) = Len(Models)
<1>1. /\ Len(Models) \in Nat /\ Len(Models) > 1
      /\ Positions = 1 .. Len(Models)
  BY RoutingAssumption DEF Positions
<1>2. Models \in [Positions -> Names]
  BY <1>1, RoutingAssumption DEF Names, Positions
<1>3. Models \in Seq(Names)
  BY <1>1, <1>2
<1>4. IsFiniteSet(Positions) /\ Cardinality(Positions) = Len(Models)
  BY <1>1, FS_Interval
<1> QED
  BY <1>1, <1>2, <1>3, <1>4

\* An arrangement is a sequence of the same length.
LEMMA ArrangementType ==
  ASSUME NEW o \in Arrangements
  PROVE  /\ o \in Seq(Names) /\ Len(o) = Len(Models) /\ DOMAIN o = Positions
         /\ o \in [Positions -> Names]
         /\ \A i \in Positions : \E k \in Positions : o[k] = Models[i]
<1>1. o \in [1 .. Len(Models) -> Names] /\ Len(Models) \in Nat
  BY ModelsType DEF Arrangements
<1>2. o \in Seq(Names) /\ Len(o) = Len(Models)
  BY <1>1
<1> QED
  BY <1>1, <1>2, ModelsType DEF Arrangements

\* The combo as configured is one.
LEMMA ModelsArranged == Models \in Arrangements
BY ModelsType DEF Arrangements

\* The rotation puts every model somewhere.
LEMMA RotatedArranged ==
  ASSUME NEW index \in 0 .. Len(Models) - 1
  PROVE  Rotated(Models, index) \in Arrangements /\ Rotated(Models, index)[1] = Models[index + 1]
<1> DEFINE n == Len(Models)
           o == Rotated(Models, index)
<1>1. o = [i \in Positions |-> Models[((i - 1 + index) % n) + 1]]
  BY DEF Rotated, Positions
<1>2. n \in Nat \ {0} /\ Positions = 1 .. n
  BY ModelsType
<1> HIDE DEF n, o
<1>0. index \in 0 .. n - 1
  BY DEF n
<1>3. \A i \in Positions : ((i - 1 + index) % n) + 1 \in Positions
  <2> TAKE i \in Positions
  <2>1. i - 1 + index \in Nat
    BY <1>0, <1>2
  <2>2. (i - 1 + index) % n \in 0 .. n - 1
    BY <2>1, <1>2, ModType
  <2> QED
    BY <2>2, <1>2
<1>4. o \in [Positions -> Names]
  BY <1>1, <1>3, ModelsType
<1>5. \A i \in Positions : \E k \in Positions : o[k] = Models[i]
  <2> TAKE i \in Positions
  <2>1. CASE i > index
    <3>1. i - index \in Positions /\ (i - index) - 1 + index = i - 1
      BY <2>1, <1>0, <1>2
    <3>2. i - 1 \in Nat /\ i - 1 < n
      BY <1>2
    <3>3. (i - 1) % n = i - 1
      BY <3>2, <1>2
    <3>4. o[i - index] = Models[((i - 1) % n) + 1]
      BY <3>1, <1>1
    <3> QED
      BY <3>1, <3>3, <3>4, <1>2
  <2>2. CASE i <= index
    <3>1. i - index + n \in Positions /\ (i - index + n) - 1 + index = (i - 1) + n
      BY <2>2, <1>0, <1>2
    <3>2. i - 1 \in Nat /\ i - 1 < n
      BY <1>2
    <3>3. ((i - 1) + n) % n = i - 1
      BY <3>2, <1>2
    <3>4. o[i - index + n] = Models[(((i - 1) + n) % n) + 1]
      BY <3>1, <1>1
    <3> QED
      BY <3>1, <3>3, <3>4, <1>2
  <2> QED
    BY <2>1, <2>2, <1>0, <1>2
<1>6. o[1] = Models[index + 1]
  <2>1. 1 \in Positions /\ 1 - 1 + index = index /\ index % n = index
    BY <1>0, <1>2
  <2> QED
    BY <2>1, <1>1
<1> QED
  BY <1>4, <1>5, <1>6 DEF Arrangements, o

\* Sorting by tier loses no model: the sorted places are all different, and there are
\* as many of them as places.  The first of them is before all others.
LEMMA SortedArranged ==
  ASSUME NEW models \in Arrangements, NEW tier \in Tiers, NEW o \in Preferring(models, tier)
  PROVE  o \in Arrangements /\ BestOf(models, tier, o[1])
<1> DEFINE Before(i, j) == \/ tier[models[i]] < tier[models[j]]
                           \/ tier[models[i]] = tier[models[j]] /\ i < j
<1>1. DOMAIN models = Positions /\ models \in [Positions -> Names]
  BY ArrangementType
<1>2. PICK p \in [Positions -> Positions] :
        /\ \A j, k \in Positions : j < k => Before(p[j], p[k])
        /\ o = [k \in Positions |-> models[p[k]]]
  BY <1>1 DEF Preferring
<1>3. tier \in [Names -> 0 .. 2]
  BY RoutingAssumption DEF Names
<1>4. \A i \in Positions : ~ Before(i, i)
  BY <1>1, <1>3, ModelsType
<1> HIDE DEF Before
<1>5. \A j, k \in Positions : p[j] = p[k] => j = k
  <2> TAKE j, k \in Positions
  <2>1. j \in Int /\ k \in Int
    BY ModelsType
  <2>2. CASE j < k
    BY <2>2, <1>2, <1>4
  <2>3. CASE k < j
    BY <2>3, <1>2, <1>4
  <2> QED
    BY <2>1, <2>2, <2>3
<1>6. p \in Injection(Positions, Positions)
  BY <1>5 DEF Injection, IsInjective
<1>7. p \in Surjection(Positions, Positions)
  BY <1>6, ModelsType, FS_Injection
<1>8. \A i \in Positions : \E k \in Positions : p[k] = i
  BY <1>7 DEF Surjection
<1>9. o \in [Positions -> Names]
  BY <1>1, <1>2
<1>10. \A i \in Positions : \E k \in Positions : o[k] = Models[i]
  <2> TAKE i \in Positions
  <2>1. PICK j \in Positions : models[j] = Models[i]
    BY ArrangementType
  <2>2. PICK k \in Positions : p[k] = j
    BY <1>8
  <2> QED
    BY <2>1, <2>2, <1>2
<1>11. BestOf(models, tier, o[1])
  <2>1. 1 \in Positions /\ p[1] \in Positions /\ o[1] = models[p[1]]
    BY <1>2, ModelsType
  <2>2. ASSUME NEW j \in Positions, j # p[1]
        PROVE  \/ tier[models[p[1]]] < tier[models[j]]
               \/ tier[models[p[1]]] = tier[models[j]] /\ p[1] < j
    <3>1. PICK i \in Positions : p[i] = j
      BY <1>8
    <3>2. 1 < i
      BY <2>2, <3>1, ModelsType
    <3>3. Before(p[1], p[i])
      BY <1>2, <2>1, <3>2
    <3> QED
      BY <3>1, <3>3 DEF Before
  <2>3. \A j \in Positions : tier[models[j]] \in 0 .. 2 /\ j \in Int
    BY <1>1, <1>3, ModelsType
  <2>4. \A j \in Positions : tier[models[p[1]]] <= tier[models[j]]
    BY <2>1, <2>2, <2>3
  <2>5. \A j \in Positions : j < p[1] => tier[models[p[1]]] < tier[models[j]]
    BY <2>1, <2>2, <2>3
  <2> QED
    BY <2>1, <2>4, <2>5 DEF BestOf
<1> QED
  BY <1>9, <1>10, <1>11 DEF Arrangements

-----------------------------------------------------------------------------
(* The count of a panel.                                                    *)

\* A panel has no more successes than members.
LEMMA SuccessesFinite ==
  ASSUME NEW held
  PROVE  /\ IsFiniteSet(Successes(held)) /\ Cardinality(Successes(held)) \in 0 .. Len(Models)
<1>1. Successes(held) \in SUBSET Positions
  BY DEF Successes
<1>2. /\ IsFiniteSet(Successes(held)) /\ Cardinality(Successes(held)) \in Nat
      /\ Cardinality(Successes(held)) <= Cardinality(Positions)
  BY <1>1, ModelsType, FS_Subset, FS_CardinalityType
<1> QED
  BY <1>2, ModelsType

\* A call that settles adds one to the successes if its answer counts.
LEMMA SettledCount ==
  ASSUME NEW held \in [Positions -> Settled \cup {"running"}], NEW i \in Positions,
         held[i] = "running", NEW status \in Settled
  PROVE  Cardinality(Successes([held EXCEPT ![i] = status])) =
           Cardinality(Successes(held)) + (IF Counts(status) THEN 1 ELSE 0)
<1> DEFINE now == [held EXCEPT ![i] = status]
<1>1. i \notin Successes(held)
  BY DEF Successes
<1>2. CASE Counts(status)
  <2>1. Successes(now) = Successes(held) \cup {i}
    BY <1>2 DEF Successes, Counts
  <2> QED
    BY <1>1, <1>2, <2>1, SuccessesFinite, FS_AddElement
<1>3. CASE ~ Counts(status)
  <2>1. Successes(now) = Successes(held)
    BY <1>3 DEF Successes, Counts
  <2> QED
    BY <1>3, <2>1, SuccessesFinite
<1> QED
  BY <1>2, <1>3

-----------------------------------------------------------------------------
(* Type correctness.                                                        *)

\* What the intervals of the types contain.
LEMMA Bounds ==
  /\ 0 \in 0 .. HardTimeout /\ HardTimeout \in 0 .. HardTimeout
  /\ 0 \in 0 .. Grace /\ Grace \in 0 .. Grace
  /\ 0 \in 0 .. Len(Models) /\ 1 \in 1 .. Len(Models) + 1
  /\ 0 \in 0 .. Len(Models) - 1 /\ 0 \in 0 .. StickyLimit - 1
  /\ 0 \in 0 .. MaxResets
  /\ MinPanel \in Nat \ {0} /\ Grace # 0 /\ HardTimeout # 0
BY RoutingAssumption, ModelsType

\* A timer that runs on stays in its interval, and does not fire by itself.
LEMMA LessType ==
  ASSUME NEW n \in Nat, NEW t \in 0 .. n
  PROVE  Less(t) \in 0 .. n /\ (t = 0 <=> Less(t) = 0)
BY DEF Less

\* The rotation stays among the models, its uses below the limit.
LEMMA AdvanceType ==
  ASSUME NEW state \in [index : 0 .. Len(Models) - 1, uses : 0 .. StickyLimit - 1]
  PROVE  Advance(state) \in [index : 0 .. Len(Models) - 1, uses : 0 .. StickyLimit - 1]
<1>1. /\ state.index \in Nat /\ state.uses \in 0 .. StickyLimit - 1
      /\ Len(Models) \in Nat \ {0} /\ StickyLimit \in Nat \ {0}
  BY RoutingAssumption, ModelsType
<1>2. (state.index + 1) % Len(Models) \in 0 .. Len(Models) - 1
  <2>1. state.index + 1 \in Nat
    BY <1>1
  <2> QED
    BY <2>1, <1>1, ModType
<1>3. state.uses + 1 < StickyLimit => state.uses + 1 \in 0 .. StickyLimit - 1
  BY <1>1
<1> QED
  BY <1>1, <1>2, <1>3, Bounds DEF Advance

\* What starting a round-robin or a fallback request does.
LEMMA StartEffect ==
  ASSUME TypeOK, RequestInv, NEW r \in Requests, StartCombo(r)
  PROVE  \E o \in Arrangements : \E tier \in Tiers :
           /\ order' = [order EXCEPT ![r] = o] /\ ranks' = [ranks EXCEPT ![r] = tier]
           /\ \/ /\ rotation' = Advance(rotation) /\ led' = led + 1
                 /\ turn' = [turn EXCEPT ![r] = led + 1]
                 /\ BestOf(Rotated(Models, rotation.index), tier, o[1])
              \/ strategy[r] # "round-robin" /\ UNCHANGED <<rotation, led, turn>>
<1> DEFINE inTurn == strategy[r] = "round-robin"
           rotated == IF inTurn THEN Rotated(Models, rotation.index) ELSE Models
<1>1. rotation.index \in 0 .. Len(Models) - 1
  BY DEF TypeOK
<1>2. rotated \in Arrangements /\ (inTurn => rotated = Rotated(Models, rotation.index))
  BY <1>1, ModelsArranged, RotatedArranged
<1>3. /\ \E tier \in Tiers : \E o \in Preferring(rotated, tier) :
           order' = [order EXCEPT ![r] = o] /\ ranks' = [ranks EXCEPT ![r] = tier]
      /\ IF inTurn
         THEN /\ led < MaxLed /\ led' = led + 1
              /\ turn' = [turn EXCEPT ![r] = led + 1]
              /\ rotation' = Advance(rotation)
         ELSE UNCHANGED <<rotation, led, turn>>
  BY DEF StartCombo
<1> HIDE DEF rotated
<1>4. PICK tier \in Tiers : \E o \in Preferring(rotated, tier) :
        order' = [order EXCEPT ![r] = o] /\ ranks' = [ranks EXCEPT ![r] = tier]
  BY <1>3
<1>5. PICK o \in Preferring(rotated, tier) :
        order' = [order EXCEPT ![r] = o] /\ ranks' = [ranks EXCEPT ![r] = tier]
  BY <1>4
<1>6. o \in Arrangements /\ BestOf(rotated, tier, o[1])
  BY <1>2, SortedArranged
<1>7. \/ /\ rotation' = Advance(rotation) /\ led' = led + 1
         /\ turn' = [turn EXCEPT ![r] = led + 1]
         /\ BestOf(Rotated(Models, rotation.index), tier, o[1])
      \/ strategy[r] # "round-robin" /\ UNCHANGED <<rotation, led, turn>>
  BY <1>2, <1>3, <1>6
<1> QED
  BY <1>5, <1>6, <1>7

\* A request that calls its models one by one is no fusion, one that collects or reads is.
LEMMA WhoseStep ==
  ASSUME RequestInv, NEW r \in Requests
  PROVE  /\ phase[r] \in {"trying", "waiting"} => strategy[r] # "fusion"
         /\ phase[r] \in {"collecting", "reading"} => strategy[r] = "fusion"
         /\ order[r] \in Arrangements
BY DEF RequestInv, LoopInv, CollectionInv

\* What closing a collection writes keeps the types.
LEMMA CloseType ==
  ASSUME TypeOK, NEW r \in Requests, NEW by \in {"all", "grace", "timeout"},
         NEW held \in [Positions -> Settled \cup {"running"}], NEW ok \in 0 .. Len(Models),
         CloseCollection(r, by, held, ok)
  PROVE  /\ phase' \in [Requests -> {"new", "trying", "waiting", "collecting", "reading", "done"}]
         /\ hard' \in [Requests -> 0 .. HardTimeout] /\ grace' \in [Requests -> 0 .. Grace]
         /\ closedWith' \in [Requests -> [by : {"none", "all", "grace", "timeout"},
                                          ok : 0 .. Len(Models)]]
         /\ atClose' \in [Requests -> [Positions -> Settled \cup {"running"}]]
BY Bounds DEF TypeOK, CloseCollection

\* A settled call is a settled call, and its success is counted.
LEMMA SettledType ==
  ASSUME TypeOK, RequestInv, NEW r \in Requests, NEW i \in Positions, NEW status \in Settled,
         phase[r] = "collecting", panel[r][i] = "running"
  PROVE  LET held == [panel[r] EXCEPT ![i] = status]
             ok   == counted[r] + (IF Counts(status) THEN 1 ELSE 0)
         IN  /\ held \in [Positions -> Settled \cup {"running"}]
             /\ ok = Cardinality(Successes(held)) /\ ok \in 0 .. Len(Models)
<1> DEFINE held == [panel[r] EXCEPT ![i] = status]
           ok   == counted[r] + (IF Counts(status) THEN 1 ELSE 0)
<1>1. panel[r] \in [Positions -> Settled \cup {"running"}]
  BY DEF TypeOK
<1>2. held \in [Positions -> Settled \cup {"running"}]
  BY <1>1
<1>3. counted[r] = Cardinality(Successes(panel[r]))
  BY DEF RequestInv, CollectionInv
<1>4. ok = Cardinality(Successes(held))
  BY <1>1, <1>3, SettledCount
<1>5. Cardinality(Successes(held)) \in 0 .. Len(Models)
  BY SuccessesFinite
<1> HIDE DEF held, ok
<1>6. ok \in 0 .. Len(Models)
  BY <1>4, <1>5
<1> QED
  BY <1>2, <1>4, <1>6 DEF held, ok

\* What a panel call that settles during the collection does.
LEMMA SettleEffect ==
  ASSUME TypeOK, RequestInv, NEW r \in Requests, NEW i \in Positions, PanelSettles(r, i)
  PROVE  \E held \in [Positions -> Settled \cup {"running"}], ok \in 0 .. Len(Models) :
           /\ phase[r] = "collecting" /\ ok = Cardinality(Successes(held)) /\ ok >= counted[r]
           /\ panel' = [panel EXCEPT ![r] = held]
           /\ counted' = [counted EXCEPT ![r] = ok]
           /\ \/ CloseCollection(r, "all", held, ok)
              \/ /\ grace' = [grace EXCEPT ![r] = IF ok >= MinPanel /\ @ = 0 THEN Grace ELSE @]
                 /\ UNCHANGED <<phase, hard, closedWith, atClose>>
           /\ UNCHANGED <<shared, strategy, tried, result, order, position, answers>>
<1>1. PICK status \in Settled \ {"timeout"} :
        LET held == [panel[r] EXCEPT ![i] = status]
            ok   == counted[r] + (IF Counts(status) THEN 1 ELSE 0)
        IN  /\ panel' = [panel EXCEPT ![r] = held]
            /\ counted' = [counted EXCEPT ![r] = ok]
            /\ IF \A j \in Positions : held[j] # "running"
               THEN CloseCollection(r, "all", held, ok)
               ELSE /\ grace' = [grace EXCEPT ![r] = IF ok >= MinPanel /\ @ = 0 THEN Grace ELSE @]
                    /\ UNCHANGED <<phase, hard, closedWith, atClose>>
  BY DEF PanelSettles
<1> DEFINE held == [panel[r] EXCEPT ![i] = status]
           ok   == counted[r] + (IF Counts(status) THEN 1 ELSE 0)
<1>2. phase[r] = "collecting" /\ panel[r][i] = "running"
  BY DEF PanelSettles
<1>3. /\ held \in [Positions -> Settled \cup {"running"}]
      /\ ok = Cardinality(Successes(held)) /\ ok \in 0 .. Len(Models)
  BY <1>2, SettledType
<1>4. /\ panel' = [panel EXCEPT ![r] = held]
      /\ counted' = [counted EXCEPT ![r] = ok]
      /\ \/ CloseCollection(r, "all", held, ok)
         \/ /\ grace' = [grace EXCEPT ![r] = IF ok >= MinPanel /\ @ = 0 THEN Grace ELSE @]
            /\ UNCHANGED <<phase, hard, closedWith, atClose>>
  BY <1>1
<1>5. UNCHANGED <<shared, strategy, tried, result, order, position, answers>>
  BY DEF PanelSettles, fallbackVars
<1>6. counted[r] \in 0 .. Len(Models)
  BY DEF TypeOK
<1>7. ok >= counted[r]
  BY <1>6, ModelsType
<1> HIDE DEF held, ok
<1> QED
  BY <1>2, <1>3, <1>4, <1>5, <1>7

\* What the hard timeout does.
LEMMA StrikeEffect ==
  ASSUME TypeOK, NEW r \in Requests, HardTimeoutStrikes(r)
  PROVE  \E held \in [Positions -> Settled \cup {"running"}] :
           /\ hard[r] = 1
           /\ panel' = [panel EXCEPT ![r] = held]
           /\ CloseCollection(r, "timeout", held, counted[r])
           /\ UNCHANGED <<shared, strategy, tried, result, order, position, counted,
                          answers>>
<1> DEFINE held == [i \in Positions |-> IF panel[r][i] = "running" THEN "timeout" ELSE panel[r][i]]
<1>1. held \in [Positions -> Settled \cup {"running"}]
  BY DEF TypeOK, Settled
<1>2. /\ hard[r] = 1
      /\ panel' = [panel EXCEPT ![r] = held]
      /\ CloseCollection(r, "timeout", held, counted[r])
      /\ UNCHANGED <<shared, strategy, tried, result, order, position, counted,
                     answers>>
  BY DEF HardTimeoutStrikes, fallbackVars
<1> HIDE DEF held
<1> QED
  BY <1>1, <1>2

\* Every step keeps the types.
LEMMA TypeStep ==
  ASSUME TypeOK, RequestInv, [Next]_vars
  PROVE  TypeOK'
<1>1. CASE UNCHANGED vars
  BY <1>1 DEF TypeOK, vars, fallbackVars, fusionVars, shared
<1>2. CASE Tick
  <2>1. hard' \in [Requests -> 0 .. HardTimeout]
    <3>1. \A r \in Requests : Less(hard[r]) \in 0 .. HardTimeout
      BY LessType, RoutingAssumption DEF TypeOK
    <3> QED
      BY <1>2, <3>1 DEF Tick
  <2>2. grace' \in [Requests -> 0 .. Grace]
    <3>1. \A r \in Requests : Less(grace[r]) \in 0 .. Grace
      BY LessType, RoutingAssumption DEF TypeOK
    <3> QED
      BY <1>2, <3>1 DEF Tick
  <2> QED
    BY <1>2, <2>1, <2>2 DEF TypeOK, Tick, fallbackVars, shared
<1>3. CASE ResetRotation
  <2>1. resets' \in 0 .. MaxResets
    BY <1>3, RoutingAssumption DEF TypeOK, ResetRotation
  <2>2. led' \in Nat /\ turn' \in [Requests -> Nat]
    BY <1>3 DEF ResetRotation
  <2>3. rotation' \in [index : 0 .. Len(Models) - 1, uses : 0 .. StickyLimit - 1]
    BY <1>3, Bounds DEF ResetRotation
  <2> QED
    BY <1>3, <2>1, <2>2, <2>3 DEF TypeOK, ResetRotation, fallbackVars, fusionVars
<1>4. ASSUME NEW r \in Requests, StartCombo(r)
      PROVE  TypeOK'
  <2>1. PICK o \in Arrangements, tier \in Tiers :
          /\ order' = [order EXCEPT ![r] = o] /\ ranks' = [ranks EXCEPT ![r] = tier]
          /\ \/ rotation' = Advance(rotation) /\ led' = led + 1
                /\ turn' = [turn EXCEPT ![r] = led + 1]
             \/ UNCHANGED <<rotation, led, turn>>
    BY <1>4, StartEffect
  <2>2. order' \in [Requests -> Seq(Names)]
    BY <2>1, ArrangementType DEF TypeOK
  <2>3. tier \in [Names -> 0 .. 2]
    BY RoutingAssumption
  <2>4. ranks' \in [Requests -> [Names -> 0 .. 2]]
    BY <2>1, <2>3 DEF TypeOK
  <2>5. rotation \in [index : 0 .. Len(Models) - 1, uses : 0 .. StickyLimit - 1]
    BY DEF TypeOK
  <2>6. led' \in Nat /\ turn' \in [Requests -> Nat]
    <3>1. led \in Nat /\ led + 1 \in Nat /\ turn \in [Requests -> Nat]
      BY DEF TypeOK
    <3> QED
      BY <2>1, <3>1
  <2>7. rotation' \in [index : 0 .. Len(Models) - 1, uses : 0 .. StickyLimit - 1]
    BY <2>1, <2>5, AdvanceType
  <2>8. /\ phase' = [phase EXCEPT ![r] = "trying"]
        /\ position' = [position EXCEPT ![r] = 1]
        /\ tried' = [tried EXCEPT ![r] = <<>>]
        /\ result' = [result EXCEPT ![r] = "none"]
    BY <1>4 DEF StartCombo
  <2>9. UNCHANGED <<resets, strategy, fusionVars>>
    BY <1>4 DEF StartCombo
  <2>10. /\ phase' \in [Requests -> {"new", "trying", "waiting", "collecting", "reading", "done"}]
         /\ position' \in [Requests -> 1 .. Len(Models) + 1]
         /\ tried' \in [Requests -> Seq(Names)]
         /\ result' \in [Requests -> {"none", "ok", "invalid", "final", "exhausted"}]
    BY <2>8, Bounds DEF TypeOK
  <2> QED
    BY <2>2, <2>4, <2>6, <2>7, <2>9, <2>10 DEF TypeOK, fusionVars
<1>5. ASSUME NEW r \in Requests, CallModel(r)
      PROVE  TypeOK'
  <2>1. /\ order[r] \in Seq(Names) /\ Len(order[r]) = Len(Models)
        /\ order[r] \in [Positions -> Names]
    BY WhoseStep, ArrangementType
  <2>2. position[r] \in 1 .. Len(Models) /\ position[r] + 1 \in 1 .. Len(Models) + 1
    BY <1>5, <2>1, ModelsType DEF TypeOK, CallModel
  <2>3. order[r][position[r]] \in Names
    BY <2>1, <2>2, ModelsType
  <2>4. tried' \in [Requests -> Seq(Names)]
    <3>1. tried \in [Requests -> Seq(Names)] /\ tried[r] \in Seq(Names)
      BY DEF TypeOK, Names
    <3>2. Append(tried[r], order[r][position[r]]) \in Seq(Names)
      BY <3>1, <2>3
    <3> QED
      BY <1>5, <3>1, <3>2 DEF CallModel
  <2>5. position' \in [Requests -> 1 .. Len(Models) + 1]
    BY <1>5, <2>2 DEF TypeOK, CallModel
  <2>6. /\ phase' \in [Requests -> {"new", "trying", "waiting", "collecting", "reading", "done"}]
        /\ result' \in [Requests -> {"none", "ok", "invalid", "final", "exhausted"}]
    BY <1>5 DEF TypeOK, CallModel, AfterCall, Outcomes
  <2>7. UNCHANGED <<shared, strategy, order, fusionVars>>
    BY <1>5 DEF CallModel
  <2> QED
    BY <2>4, <2>5, <2>6, <2>7 DEF TypeOK, Names, fusionVars, shared
<1>6. ASSUME NEW r \in Requests, WaitOver(r) \/ Exhausted(r)
      PROVE  TypeOK'
  BY <1>6 DEF TypeOK, WaitOver, Exhausted, fallbackVars, fusionVars, shared
<1>7. ASSUME NEW r \in Requests, FanOut(r)
      PROVE  TypeOK'
  BY <1>7, Bounds DEF TypeOK, FanOut, fallbackVars, shared
<1>8. ASSUME NEW r \in Requests, NEW i \in Positions, PanelSettles(r, i)
      PROVE  TypeOK'
  <2>1. PICK held \in [Positions -> Settled \cup {"running"}], ok \in 0 .. Len(Models) :
          /\ panel' = [panel EXCEPT ![r] = held]
          /\ counted' = [counted EXCEPT ![r] = ok]
          /\ \/ CloseCollection(r, "all", held, ok)
             \/ /\ grace' = [grace EXCEPT ![r] = IF ok >= MinPanel /\ @ = 0 THEN Grace ELSE @]
                /\ UNCHANGED <<phase, hard, closedWith, atClose>>
          /\ UNCHANGED <<shared, strategy, tried, result, order, position, answers>>
    BY <1>8, SettleEffect
  <2>2. /\ panel' \in [Requests -> [Positions -> Settled \cup {"running"}]]
        /\ counted' \in [Requests -> 0 .. Len(Models)]
    BY <2>1 DEF TypeOK
  <2>3. CASE CloseCollection(r, "all", held, ok)
    BY <2>1, <2>2, <2>3, CloseType DEF TypeOK, shared
  <2>4. CASE /\ grace' = [grace EXCEPT ![r] = IF ok >= MinPanel /\ @ = 0 THEN Grace ELSE @]
             /\ UNCHANGED <<phase, hard, closedWith, atClose>>
    <3>1. grace' \in [Requests -> 0 .. Grace]
      BY <2>4, Bounds DEF TypeOK
    <3> QED
      BY <2>1, <2>2, <2>4, <3>1 DEF TypeOK, shared
  <2> QED
    BY <2>1, <2>3, <2>4
<1>9. ASSUME NEW r \in Requests, NEW i \in Positions, StragglerSettles(r, i)
      PROVE  TypeOK'
  <2>1. panel' \in [Requests -> [Positions -> Settled \cup {"running"}]]
    BY <1>9 DEF TypeOK, StragglerSettles
  <2> QED
    BY <1>9, <2>1 DEF TypeOK, StragglerSettles, fallbackVars, shared
<1>10. ASSUME NEW r \in Requests, GraceOver(r)
       PROVE  TypeOK'
  <2>1. /\ CloseCollection(r, "grace", panel[r], counted[r])
        /\ UNCHANGED <<shared, strategy, tried, result, order, position, panel, counted,
                       answers>>
    BY <1>10 DEF GraceOver, fallbackVars
  <2>2. panel[r] \in [Positions -> Settled \cup {"running"}] /\ counted[r] \in 0 .. Len(Models)
    BY DEF TypeOK
  <2> QED
    BY <2>1, <2>2, CloseType DEF TypeOK, shared
<1>11. ASSUME NEW r \in Requests, HardTimeoutStrikes(r)
       PROVE  TypeOK'
  <2>1. PICK held \in [Positions -> Settled \cup {"running"}] :
          /\ panel' = [panel EXCEPT ![r] = held]
          /\ CloseCollection(r, "timeout", held, counted[r])
          /\ UNCHANGED <<shared, strategy, tried, result, order, position, counted,
                         answers>>
    BY <1>11, StrikeEffect
  <2>2. counted[r] \in 0 .. Len(Models)
    BY DEF TypeOK
  <2> QED
    BY <2>1, <2>2, CloseType DEF TypeOK, shared
<1>12. ASSUME NEW r \in Requests, ReadAnswer(r)
       PROVE  TypeOK'
  <2>1. position[r] \in Positions /\ position[r] + 1 \in 1 .. Len(Models) + 1
    BY <1>12, ModelsType DEF ReadAnswer
  <2>2. answers' \in [Requests -> Seq(Positions)]
    <3>1. answers \in [Requests -> Seq(Positions)] /\ answers[r] \in Seq(Positions)
      BY DEF TypeOK
    <3>2. Append(answers[r], position[r]) \in Seq(Positions)
      BY <2>1, <3>1
    <3> QED
      BY <1>12, <3>1, <3>2 DEF ReadAnswer
  <2>3. position' \in [Requests -> 1 .. Len(Models) + 1]
    BY <1>12, <2>1 DEF TypeOK, ReadAnswer
  <2> QED
    BY <1>12, <2>2, <2>3 DEF TypeOK, ReadAnswer, shared
<1>13. ASSUME NEW r \in Requests, Judge(r)
       PROVE  TypeOK'
  <2>1. answers[r] \in Seq(Positions) /\ tried[r] \in Seq(Names) /\ tried \in [Requests -> Seq(Names)]
    BY DEF TypeOK, Names
  <2>2. answers[r] # <<>> /\ Len(answers[r]) = 1 => answers[r][1] \in Positions
    BY <2>1
  <2>3. 1 \in Positions
    BY ModelsType
  <2>4. answers[r] # <<>> =>
          (IF Len(answers[r]) = 1 THEN Models[answers[r][1]] ELSE Models[1]) \in Names
    BY <2>2, <2>3, ModelsType
  <2>5. tried' \in [Requests -> Seq(Names)]
    <3>1. CASE answers[r] = <<>>
      BY <1>13, <2>1, <3>1 DEF Judge
    <3>2. CASE answers[r] # <<>>
      <4> DEFINE m == IF Len(answers[r]) = 1 THEN Models[answers[r][1]] ELSE Models[1]
      <4>1. m \in Names
        BY <2>4, <3>2
      <4>2. tried' = [tried EXCEPT ![r] = Append(@, m)]
        BY <1>13, <3>2 DEF Judge
      <4> HIDE DEF m
      <4>3. Append(tried[r], m) \in Seq(Names)
        BY <2>1, <4>1
      <4> QED
        BY <2>1, <4>2, <4>3
    <3> QED
      BY <3>1, <3>2
  <2>6. /\ phase' \in [Requests -> {"new", "trying", "waiting", "collecting", "reading", "done"}]
        /\ result' \in [Requests -> {"none", "ok", "invalid", "final", "exhausted"}]
    BY <1>13 DEF TypeOK, Judge
  <2>7. UNCHANGED <<shared, strategy, fallbackVars, fusionVars>>
    BY <1>13 DEF Judge
  <2> QED
    BY <2>5, <2>6, <2>7 DEF TypeOK, Names, fallbackVars, fusionVars, shared
<1> QED
  BY <1>1, <1>2, <1>3, <1>4, <1>5, <1>6, <1>7, <1>8, <1>9, <1>10, <1>11, <1>12, <1>13
  DEF Next, Timers, Proceed

-----------------------------------------------------------------------------
(* The shared rotation.                                                     *)

\* The rotation moves on with the number of round-robin requests.
LEMMA AdvanceCounts ==
  ASSUME TypeOK, RotationInv
  PROVE  /\ Advance(rotation).index = ((led + 1) \div StickyLimit) % Len(Models)
         /\ Advance(rotation).uses = (led + 1) % StickyLimit
<1> DEFINE n == led
           q == n \div StickyLimit
<1>1. /\ n \in Nat /\ StickyLimit \in Nat \ {0} /\ Len(Models) \in Nat \ {0}
      /\ rotation.uses \in 0 .. StickyLimit - 1
      /\ rotation.index = q % Len(Models) /\ rotation.uses = n % StickyLimit
      /\ rotation = [index |-> rotation.index, uses |-> rotation.uses]
  BY RoutingAssumption, ModelsType DEF TypeOK, RotationInv
<1> HIDE DEF n
<1>2. q \in Nat
  BY <1>1, DivType
<1> HIDE DEF q
<1>3. CASE rotation.uses = StickyLimit - 1
  <2>1. Advance(rotation) = [index |-> (rotation.index + 1) % Len(Models), uses |-> 0]
    BY <1>1, <1>3 DEF Advance
  <2>2. (n + 1) \div StickyLimit = q + 1 /\ (n + 1) % StickyLimit = 0
    BY <1>1, <1>3, NextMod, NextDiv DEF q
  <2>3. (rotation.index + 1) % Len(Models) = (q + 1) % Len(Models)
    BY <1>1, <1>2, ModNext
  <2> QED
    BY <2>1, <2>2, <2>3 DEF n
<1>4. CASE rotation.uses # StickyLimit - 1
  <2>1. Advance(rotation) = [rotation EXCEPT !.uses = @ + 1]
    BY <1>1, <1>4 DEF Advance
  <2>2. (n + 1) \div StickyLimit = q /\ (n + 1) % StickyLimit = (n % StickyLimit) + 1
    BY <1>1, <1>4, NextMod, NextDiv DEF q
  <2> QED
    BY <1>1, <2>1, <2>2 DEF n
<1> QED
  BY <1>3, <1>4

\* A request whose turn, ranks and order a step leaves alone keeps its place in front.
LEMMA LeadKept ==
  ASSUME LeadInv, NEW r \in Requests, turn'[r] = turn[r], ranks'[r] = ranks[r],
         strategy'[r] = strategy[r], order'[r] = order[r], phase[r] # "new" => phase'[r] # "new"
  PROVE  turn'[r] > 0 => /\ phase'[r] # "new" /\ strategy'[r] = "round-robin"
                         /\ BestOf(Rotated(Models, Due(turn'[r])), ranks'[r], order'[r][1])
BY DEF LeadInv

\* Every step leaves the rotation and the turns alone, resets both, or moves both on
\* by a round-robin request, in front of whose order is the model that is due.
LEMMA RotationStep ==
  ASSUME TypeOK, RotationInv, LeadInv, RequestInv, [Next]_vars
  PROVE  RotationInv' /\ LeadInv'
<1>1. CASE ResetRotation
  <2>1. /\ led' = 0 /\ rotation' = [index |-> 0, uses |-> 0]
        /\ \A r \in Requests : turn'[r] = 0
    BY <1>1 DEF ResetRotation
  <2>2. 0 \div StickyLimit = 0 /\ 0 % StickyLimit = 0 /\ 0 % Len(Models) = 0
    BY RoutingAssumption, ModelsType
  <2>3. RotationInv'
    BY <2>1, <2>2 DEF RotationInv
  <2>4. LeadInv'
    BY <2>1 DEF LeadInv
  <2> QED
    BY <2>3, <2>4
<1>2. ASSUME NEW r \in Requests, StartCombo(r)
      PROVE  RotationInv' /\ LeadInv'
  <2>1. PICK o \in Arrangements, tier \in Tiers :
          /\ order' = [order EXCEPT ![r] = o] /\ ranks' = [ranks EXCEPT ![r] = tier]
          /\ \/ /\ rotation' = Advance(rotation) /\ led' = led + 1
                /\ turn' = [turn EXCEPT ![r] = led + 1]
                /\ BestOf(Rotated(Models, rotation.index), tier, o[1])
             \/ strategy[r] # "round-robin" /\ UNCHANGED <<rotation, led, turn>>
    BY <1>2, StartEffect
  <2>2. strategy' = strategy /\ phase' = [phase EXCEPT ![r] = "trying"]
    BY <1>2 DEF StartCombo
  <2>3. phase'[r] = "trying" /\ order'[r] = o /\ ranks'[r] = tier
    BY <2>1, <2>2 DEF TypeOK
  <2>4. ASSUME NEW q \in Requests, q # r
        PROVE  turn'[q] > 0 =>
                 /\ phase'[q] # "new" /\ strategy'[q] = "round-robin"
                 /\ BestOf(Rotated(Models, Due(turn'[q])), ranks'[q], order'[q][1])
    <3>1. /\ turn'[q] = turn[q] /\ ranks'[q] = ranks[q] /\ order'[q] = order[q]
          /\ strategy'[q] = strategy[q] /\ phase'[q] = phase[q]
      BY <2>1, <2>2, <2>4 DEF TypeOK
    <3> QED
      BY <3>1, LeadKept
  <2>5. CASE /\ rotation' = Advance(rotation) /\ led' = led + 1
             /\ turn' = [turn EXCEPT ![r] = led + 1]
             /\ BestOf(Rotated(Models, rotation.index), tier, o[1])
    <3>1. RotationInv'
      BY <2>5, AdvanceCounts DEF RotationInv
    <3>2. turn'[r] = led + 1 /\ led \in Nat
      BY <2>5 DEF TypeOK
    <3>3. (led + 1) - 1 = led
      BY <3>2
    <3>4. Due(turn'[r]) = rotation.index
      BY <3>2, <3>3 DEF Due, RotationInv
    <3>5. BestOf(Rotated(Models, Due(turn'[r])), ranks'[r], order'[r][1])
      BY <2>3, <2>5, <3>4
    <3>6. strategy'[r] = "round-robin"
      BY <1>2, <2>2, <2>5, <3>2 DEF StartCombo, TypeOK
    <3> QED
      BY <2>3, <2>4, <3>1, <3>5, <3>6 DEF LeadInv
  <2>6. CASE strategy[r] # "round-robin" /\ UNCHANGED <<rotation, led, turn>>
    <3>1. RotationInv'
      BY <2>6 DEF RotationInv
    <3>2. ~ (turn'[r] > 0)
      BY <2>6 DEF LeadInv
    <3> QED
      BY <2>4, <3>1, <3>2 DEF LeadInv
  <2> QED
    BY <2>1, <2>5, <2>6
<1>3. ASSUME UNCHANGED <<rotation, led, turn, ranks, strategy, order>>,
             \A q \in Requests : phase[q] # "new" => phase'[q] # "new"
      PROVE  RotationInv' /\ LeadInv'
  <2>1. RotationInv'
    BY <1>3 DEF RotationInv
  <2>2. ASSUME NEW q \in Requests
        PROVE  turn'[q] > 0 =>
                 /\ phase'[q] # "new" /\ strategy'[q] = "round-robin"
                 /\ BestOf(Rotated(Models, Due(turn'[q])), ranks'[q], order'[q][1])
    BY <1>3, LeadKept
  <2> QED
    BY <2>1, <2>2 DEF LeadInv
<1>4. ASSUME NEW r \in Requests,
             \/ CallModel(r) \/ WaitOver(r) \/ Exhausted(r) \/ FanOut(r) \/ ReadAnswer(r) \/ Judge(r)
             \/ GraceOver(r) \/ HardTimeoutStrikes(r)
             \/ \E i \in Positions : PanelSettles(r, i) \/ StragglerSettles(r, i)
      PROVE  RotationInv' /\ LeadInv'
  <2>1. UNCHANGED <<rotation, led, turn, ranks, strategy, order>>
    BY <1>4 DEF CallModel, WaitOver, Exhausted, FanOut, ReadAnswer, Judge, GraceOver,
                HardTimeoutStrikes, PanelSettles, StragglerSettles, shared, fallbackVars
  <2>2. /\ phase' \in {phase, [phase EXCEPT ![r] = phase'[r]]}
        /\ phase[r] # "new" => phase'[r] # "new"
    BY <1>4 DEF CallModel, AfterCall, WaitOver, Exhausted, FanOut, ReadAnswer, Judge, GraceOver,
                HardTimeoutStrikes, PanelSettles, StragglerSettles, CloseCollection, TypeOK
  <2>3. \A q \in Requests : phase[q] # "new" => phase'[q] # "new"
    BY <2>2 DEF TypeOK
  <2> QED
    BY <1>3, <2>1, <2>3
<1>5. CASE Tick \/ UNCHANGED vars
  BY <1>3, <1>5 DEF Tick, vars, shared, fallbackVars
<1> QED
  BY <1>1, <1>2, <1>4, <1>5 DEF Next, Timers, Proceed
-----------------------------------------------------------------------------
(* The requests.                                                            *)

\* A step of one request leaves the others as they are.
Same(r) ==
  /\ strategy'[r] = strategy[r] /\ phase'[r] = phase[r] /\ order'[r] = order[r]
  /\ position'[r] = position[r] /\ tried'[r] = tried[r] /\ result'[r] = result[r]
  /\ panel'[r] = panel[r] /\ counted'[r] = counted[r] /\ closedWith'[r] = closedWith[r]
  /\ answers'[r] = answers[r] /\ atClose'[r] = atClose[r]
  /\ hard'[r] = hard[r] /\ grace'[r] = grace[r]

\* What a step leaves alone of a request keeps its invariants.
LEMMA SameKeeps ==
  ASSUME RequestInv, NEW r \in Requests, Same(r)
  PROVE  (LoopInv(r) /\ CollectionInv(r) /\ ReadingInv(r))'
<1>1. LoopInv(r)'
  BY DEF RequestInv, LoopInv, Same
<1>2. CollectionInv(r)'
  BY DEF RequestInv, CollectionInv, Same
<1>3. ReadingInv(r)'
  <2>1. ReadingInv(r)
    BY DEF RequestInv
  <2>2. /\ strategy'[r] = strategy[r] /\ phase'[r] = phase[r] /\ position'[r] = position[r]
        /\ panel'[r] = panel[r] /\ answers'[r] = answers[r] /\ atClose'[r] = atClose[r]
    BY DEF Same
  <2> QED
    BY ONLY <2>1, <2>2 DEF ReadingInv
<1> QED
  BY <1>1, <1>2, <1>3

\* Closing a collection that has a quorum, or that ends for another reason.
LEMMA CloseStep ==
  ASSUME TypeOK, RequestInv, NEW r \in Requests, phase[r] = "collecting",
         NEW by \in {"all", "grace", "timeout"},
         NEW held \in [Positions -> Settled \cup {"running"}], NEW ok \in 0 .. Len(Models),
         CloseCollection(r, by, held, ok), panel'[r] = held,
         by = "grace" => Cardinality(Successes(held)) >= MinPanel,
         UNCHANGED <<strategy, tried, result, order, position, answers>>
  PROVE  LoopInv(r)' /\ CollectionInv(r)' /\ ReadingInv(r)'
<1>1. strategy[r] = "fusion"
  BY WhoseStep
<1>2. /\ phase'[r] = "reading" /\ hard'[r] = 0 /\ grace'[r] = 0
      /\ closedWith'[r].by = by /\ atClose'[r] = held
  BY DEF CloseCollection, TypeOK
<1>3. LoopInv(r)'
  BY <1>1 DEF RequestInv, LoopInv
<1>4. CollectionInv(r)'
  BY <1>2 DEF CollectionInv
<1>5. position[r] = 1 /\ answers[r] = <<>>
  BY <1>1 DEF RequestInv, ReadingInv
<1>6. \A i \in Positions : ~ (i < 1)
  BY ModelsType
<1>7. ReadingInv(r)'
  BY <1>2, <1>5, <1>6 DEF ReadingInv
<1> QED
  BY <1>3, <1>4, <1>7

\* Every step keeps what is said of each request.
LEMMA RequestStep ==
  ASSUME TypeOK, RequestInv, [Next]_vars
  PROVE  RequestInv'
<1> DEFINE Kept(r) == LoopInv(r)' /\ CollectionInv(r)' /\ ReadingInv(r)'
<1>0. ASSUME NEW r \in Requests, \A q \in Requests \ {r} : Same(q), Kept(r)
      PROVE  RequestInv'
  <2>1. \A q \in Requests : Kept(q)
    BY <1>0, SameKeeps
  <2> QED
    BY <2>1 DEF RequestInv
<1> HIDE DEF Kept
<1>1. CASE UNCHANGED vars \/ ResetRotation
  <2>1. \A q \in Requests : Same(q)
    BY <1>1 DEF Same, vars, ResetRotation, fallbackVars, fusionVars
  <2> QED
    BY <2>1, SameKeeps DEF RequestInv
<1>2. CASE Tick
  <2>1. /\ UNCHANGED <<strategy, phase, tried, result, order, position, panel, counted, closedWith,
                       answers, atClose>>
    BY <1>2 DEF Tick, fallbackVars
  <2>2. \A q \in Requests : /\ hard'[q] = 0 <=> hard[q] = 0
                            /\ grace'[q] = 0 <=> grace[q] = 0
    <3> TAKE q \in Requests
    <3>1. /\ hard[q] = 0 <=> Less(hard[q]) = 0
          /\ grace[q] = 0 <=> Less(grace[q]) = 0
      BY LessType, RoutingAssumption DEF TypeOK
    <3> QED
      BY <1>2, <3>1 DEF Tick
  <2>3. ASSUME NEW q \in Requests
        PROVE  LoopInv(q)' /\ CollectionInv(q)' /\ ReadingInv(q)'
    <3>1. LoopInv(q) /\ CollectionInv(q) /\ ReadingInv(q)
      BY DEF RequestInv
    <3>2. LoopInv(q)'
      BY ONLY <2>1, <3>1 DEF LoopInv
    <3>3. CollectionInv(q)'
      BY <2>1, <2>2, <3>1 DEF CollectionInv
    <3>4. ReadingInv(q)'
      BY ONLY <2>1, <3>1 DEF ReadingInv
    <3> QED
      BY <3>2, <3>3, <3>4
  <2> QED
    BY <2>3 DEF RequestInv
<1>3. ASSUME NEW r \in Requests, StartCombo(r)
      PROVE  RequestInv'
  <2>1. PICK o \in Arrangements : order' = [order EXCEPT ![r] = o]
    BY <1>3, StartEffect
  <2>2. /\ phase[r] \in {"new", "done"} /\ strategy[r] # "fusion"
        /\ phase' = [phase EXCEPT ![r] = "trying"]
        /\ position' = [position EXCEPT ![r] = 1]
        /\ tried' = [tried EXCEPT ![r] = <<>>]
        /\ result' = [result EXCEPT ![r] = "none"]
        /\ UNCHANGED <<strategy, fusionVars>>
    BY <1>3 DEF StartCombo
  <2>3. \A q \in Requests \ {r} : Same(q)
    BY <2>1, <2>2 DEF Same, TypeOK, fusionVars
  <2>4. /\ phase'[r] = "trying" /\ order'[r] = o
        /\ position'[r] = 1 /\ tried'[r] = <<>>
    BY <2>1, <2>2 DEF TypeOK
  <2>5. Len(tried'[r]) = position'[r] - 1 /\ \A k \in 1 .. position'[r] - 1 : FALSE
    BY <2>4
  <2>6. LoopInv(r)'
    BY <2>2, <2>4, <2>5 DEF LoopInv
  <2>7. CollectionInv(r)'
    BY <2>2, <2>4 DEF RequestInv, CollectionInv, fusionVars
  <2>8. ReadingInv(r)'
    BY <2>2 DEF ReadingInv
  <2> QED
    BY <1>0, <2>3, <2>6, <2>7, <2>8 DEF Kept
<1>4. ASSUME NEW r \in Requests, CallModel(r)
      PROVE  RequestInv'
  <2>1. /\ phase[r] = "trying" /\ strategy[r] # "fusion"
        /\ order[r] \in Arrangements
        /\ UNCHANGED <<shared, strategy, order, fusionVars>>
    BY <1>4, WhoseStep DEF CallModel
  <2>2. PICK o \in Outcomes :
          /\ phase' = [phase EXCEPT ![r] = AfterCall(o)]
          /\ result' = [result EXCEPT ![r] = IF AfterCall(o) = "done" THEN o ELSE @]
    BY <1>4 DEF CallModel
  <2>3. /\ tried' = [tried EXCEPT ![r] = Append(@, order[r][position[r]])]
        /\ position' = [position EXCEPT ![r] = @ + 1]
    BY <1>4 DEF CallModel
  <2>4. \A q \in Requests \ {r} : Same(q)
    BY <2>1, <2>2, <2>3 DEF Same, TypeOK, fusionVars
  <2>5. /\ phase'[r] \in {"trying", "waiting", "done"}
        /\ phase'[r] = "done" => result'[r] \in {"ok", "final"}
    BY <2>2 DEF TypeOK, AfterCall, Outcomes
  <2>6. /\ tried[r] \in Seq(Names) /\ position[r] \in Nat \ {0} /\ position'[r] = position[r] + 1
        /\ tried'[r] = Append(tried[r], order[r][position[r]])
    <3>1. tried \in [Requests -> Seq(Names)] /\ position \in [Requests -> 1 .. Len(Models) + 1]
      BY DEF TypeOK, Names
    <3>2. position[r] \in Nat \ {0}
      BY <3>1, ModelsType
    <3> QED
      BY <2>3, <3>1, <3>2
  <2>7. /\ Len(tried[r]) = position[r] - 1
        /\ \A k \in 1 .. position[r] - 1 : tried[r][k] = order[r][k]
    BY <2>1 DEF RequestInv, LoopInv
  <2>8. Len(tried'[r]) = position'[r] - 1
    BY <2>6, <2>7
  <2>9. \A k \in 1 .. position'[r] - 1 : tried'[r][k] = order[r][k]
    <3> TAKE k \in 1 .. position'[r] - 1
    <3>1. CASE k = position[r]
      BY <3>1, <2>6, <2>7
    <3>2. CASE k # position[r]
      <4>1. k \in 1 .. position[r] - 1 /\ k \in 1 .. Len(tried[r])
        BY <3>2, <2>6, <2>7
      <4>2. tried'[r][k] = tried[r][k]
        BY <4>1, <2>6
      <4> QED
        BY <4>1, <4>2, <2>7
    <3> QED
      BY <3>1, <3>2
  <2>10. LoopInv(r)'
    BY <2>1, <2>5, <2>8, <2>9 DEF LoopInv
  <2>11. CollectionInv(r)'
    BY <2>1, <2>5 DEF RequestInv, CollectionInv, fusionVars
  <2>12. ReadingInv(r)'
    BY <2>1 DEF ReadingInv
  <2> QED
    BY <1>0, <2>4, <2>10, <2>11, <2>12 DEF Kept
<1>5. ASSUME NEW r \in Requests, WaitOver(r) \/ Exhausted(r)
      PROVE  RequestInv'
  <2>1. /\ phase[r] \in {"trying", "waiting"} /\ strategy[r] # "fusion"
        /\ order[r] \in Arrangements
        /\ UNCHANGED <<strategy, tried, fallbackVars, fusionVars>>
    BY <1>5, WhoseStep DEF WaitOver, Exhausted
  <2>2. \A q \in Requests \ {r} : Same(q)
    BY <1>5, <2>1 DEF Same, TypeOK, WaitOver, Exhausted, fallbackVars, fusionVars
  <2>3. /\ phase'[r] \in {"trying", "done"}
        /\ phase'[r] = "done" => position[r] > Len(order[r])
    BY <1>5 DEF TypeOK, WaitOver, Exhausted
  <2>4. position[r] > Len(order[r]) => position[r] = Len(Models) + 1
    <3>1. Len(order[r]) = Len(Models) /\ position[r] \in 1 .. Len(Models) + 1
      BY <2>1, ArrangementType DEF TypeOK
    <3> QED
      BY <3>1, ModelsType
  <2>5. LoopInv(r)'
    BY <2>1, <2>3, <2>4 DEF RequestInv, LoopInv, fallbackVars
  <2>6. CollectionInv(r)'
    BY <2>1, <2>3 DEF RequestInv, CollectionInv, fusionVars
  <2>7. ReadingInv(r)'
    BY <2>1 DEF ReadingInv
  <2> QED
    BY <1>0, <2>2, <2>5, <2>6, <2>7 DEF Kept
<1>6. ASSUME NEW r \in Requests, FanOut(r)
      PROVE  RequestInv'
  <2>1. /\ phase[r] = "new" /\ strategy[r] = "fusion"
        /\ phase' = [phase EXCEPT ![r] = "collecting"]
        /\ hard' = [hard EXCEPT ![r] = HardTimeout]
        /\ UNCHANGED <<strategy, tried, result, fallbackVars, panel, counted, grace, closedWith, answers,
                       atClose>>
    BY <1>6 DEF FanOut
  <2>2. \A q \in Requests \ {r} : Same(q)
    BY <2>1 DEF Same, TypeOK, fallbackVars
  <2>3. phase'[r] = "collecting"
    BY <2>1 DEF TypeOK
  <2>4. LoopInv(r)'
    BY <2>1 DEF RequestInv, LoopInv, fallbackVars
  <2>5. CollectionInv(r)'
    BY <2>1, <2>3 DEF RequestInv, CollectionInv
  <2>6. ReadingInv(r)'
    BY <2>1, <2>3 DEF RequestInv, ReadingInv, fallbackVars
  <2> QED
    BY <1>0, <2>2, <2>4, <2>5, <2>6 DEF Kept
<1>7. ASSUME NEW r \in Requests, NEW i \in Positions, PanelSettles(r, i)
      PROVE  RequestInv'
  <2>1. PICK held \in [Positions -> Settled \cup {"running"}], ok \in 0 .. Len(Models) :
          /\ phase[r] = "collecting" /\ ok = Cardinality(Successes(held)) /\ ok >= counted[r]
          /\ panel' = [panel EXCEPT ![r] = held]
          /\ counted' = [counted EXCEPT ![r] = ok]
          /\ \/ CloseCollection(r, "all", held, ok)
             \/ /\ grace' = [grace EXCEPT ![r] = IF ok >= MinPanel /\ @ = 0 THEN Grace ELSE @]
                /\ UNCHANGED <<phase, hard, closedWith, atClose>>
          /\ UNCHANGED <<shared, strategy, tried, result, order, position, answers>>
    BY <1>7, SettleEffect
  <2>2. \A q \in Requests \ {r} : Same(q)
    BY <2>1 DEF Same, TypeOK, CloseCollection
  <2>3. panel'[r] = held /\ counted'[r] = ok /\ counted[r] \in Nat /\ strategy[r] = "fusion"
    BY <2>1, WhoseStep DEF TypeOK
  <2>4. CASE CloseCollection(r, "all", held, ok)
    <3>1. LoopInv(r)' /\ CollectionInv(r)' /\ ReadingInv(r)'
      BY <2>1, <2>3, <2>4, CloseStep
    <3> QED
      BY <1>0, <2>2, <3>1 DEF Kept
  <2>5. CASE /\ grace' = [grace EXCEPT ![r] = IF ok >= MinPanel /\ @ = 0 THEN Grace ELSE @]
             /\ UNCHANGED <<phase, hard, closedWith, atClose>>
    <3>1. grace'[r] # 0 => ok >= MinPanel
      <4>1. grace[r] # 0 => counted[r] >= MinPanel
        BY DEF RequestInv, CollectionInv
      <4>2. grace'[r] # 0 => grace[r] # 0 \/ ok >= MinPanel
        BY <2>5 DEF TypeOK
      <4> QED
        BY <4>1, <4>2, <2>1, <2>3, Bounds, ModelsType
    <3>2. LoopInv(r)'
      BY <2>1, <2>3, <2>5 DEF RequestInv, LoopInv
    <3>3. CollectionInv(r)'
      BY <2>1, <2>3, <2>5, <3>1 DEF RequestInv, CollectionInv
    <3>4. ReadingInv(r)'
      BY <2>1, <2>3, <2>5 DEF RequestInv, ReadingInv
    <3> QED
      BY <1>0, <2>2, <3>2, <3>3, <3>4 DEF Kept
  <2> QED
    BY <2>1, <2>4, <2>5
<1>8. ASSUME NEW r \in Requests, NEW i \in Positions, StragglerSettles(r, i)
      PROVE  RequestInv'
  <2>1. PICK status \in Settled : panel' = [panel EXCEPT ![r][i] = status]
    BY <1>8 DEF StragglerSettles
  <2>2. /\ phase[r] = "reading" /\ panel[r][i] = "running"
        /\ UNCHANGED <<strategy, phase, tried, result, order, position, counted, hard, grace,
                       closedWith, answers, atClose>>
    BY <1>8 DEF StragglerSettles, fallbackVars
  <2>3. \A q \in Requests \ {r} : Same(q)
    BY <2>1, <2>2 DEF Same, TypeOK
  <2>4. \A j \in Positions : j # i => panel'[r][j] = panel[r][j]
    BY <2>1 DEF TypeOK
  <2>5. LoopInv(r) /\ CollectionInv(r) /\ ReadingInv(r) /\ strategy[r] = "fusion"
    BY <2>2, WhoseStep DEF RequestInv
  <2>6. LoopInv(r)'
    BY ONLY <2>2, <2>5 DEF LoopInv
  <2>7. CollectionInv(r)'
    BY <2>2, <2>5 DEF CollectionInv
  <2>8. \A j \in Positions : atClose[r][j] # "running" => panel'[r][j] = atClose[r][j]
    BY <2>2, <2>4, <2>5 DEF ReadingInv
  <2>9. ReadingInv(r)'
    BY ONLY <2>2, <2>5, <2>8 DEF ReadingInv
  <2> QED
    BY <1>0, <2>3, <2>6, <2>7, <2>9 DEF Kept
<1>9. ASSUME NEW r \in Requests, GraceOver(r)
      PROVE  RequestInv'
  <2>1. /\ grace[r] = 1 /\ CloseCollection(r, "grace", panel[r], counted[r])
        /\ UNCHANGED <<strategy, tried, result, order, position, panel, counted, answers>>
    BY <1>9 DEF GraceOver, fallbackVars
  <2>2. /\ phase[r] = "collecting" /\ counted[r] >= MinPanel
        /\ counted[r] = Cardinality(Successes(panel[r]))
    <3>1. grace[r] # 0
      BY <2>1
    <3> QED
      BY <3>1 DEF RequestInv, CollectionInv
  <2>3. panel[r] \in [Positions -> Settled \cup {"running"}] /\ counted[r] \in 0 .. Len(Models)
    BY DEF TypeOK
  <2>4. LoopInv(r)' /\ CollectionInv(r)' /\ ReadingInv(r)'
    BY <2>1, <2>2, <2>3, CloseStep
  <2>5. \A q \in Requests \ {r} : Same(q)
    BY <2>1 DEF Same, TypeOK, CloseCollection
  <2> QED
    BY <1>0, <2>4, <2>5 DEF Kept
<1>10. ASSUME NEW r \in Requests, HardTimeoutStrikes(r)
       PROVE  RequestInv'
  <2>1. PICK held \in [Positions -> Settled \cup {"running"}] :
          /\ hard[r] = 1
          /\ panel' = [panel EXCEPT ![r] = held]
          /\ CloseCollection(r, "timeout", held, counted[r])
          /\ UNCHANGED <<shared, strategy, tried, result, order, position, counted,
                         answers>>
    BY <1>10, StrikeEffect
  <2>2. phase[r] = "collecting"
    <3>1. hard[r] # 0
      BY <2>1
    <3> QED
      BY <3>1 DEF RequestInv, CollectionInv
  <2>3. panel'[r] = held /\ counted[r] \in 0 .. Len(Models)
    BY <2>1 DEF TypeOK
  <2>4. LoopInv(r)' /\ CollectionInv(r)' /\ ReadingInv(r)'
    BY <2>1, <2>2, <2>3, CloseStep
  <2>5. \A q \in Requests \ {r} : Same(q)
    BY <2>1 DEF Same, TypeOK, CloseCollection
  <2> QED
    BY <1>0, <2>4, <2>5 DEF Kept
<1>11. ASSUME NEW r \in Requests, ReadAnswer(r)
       PROVE  RequestInv'
  <2>1. /\ phase[r] = "reading" /\ position[r] \in Positions /\ strategy[r] = "fusion"
        /\ IF panel[r][position[r]] = "text"
           THEN answers' = [answers EXCEPT ![r] = Append(@, position[r])]
           ELSE UNCHANGED answers
        /\ position' = [position EXCEPT ![r] = @ + 1]
        /\ UNCHANGED <<strategy, phase, tried, result, order, panel, counted, hard, grace,
                       closedWith, atClose>>
    BY <1>11, WhoseStep DEF ReadAnswer
  <2>2. \A q \in Requests \ {r} : Same(q)
    BY <2>1 DEF Same, TypeOK
  <2>3. LoopInv(r) /\ CollectionInv(r) /\ ReadingInv(r)
    BY DEF RequestInv
  <2>4. LoopInv(r)'
    BY <2>1, <2>3 DEF LoopInv
  <2>5. CollectionInv(r)'
    BY <2>1, <2>3 DEF CollectionInv
  <2> DEFINE a == answers[r]
             b == answers'[r]
             n == position[r]
  <2>6. /\ a \in Seq(Positions) /\ n \in Positions /\ n \in Nat /\ position'[r] = n + 1
        /\ \/ b = Append(a, n) /\ panel[r][n] = "text"
           \/ b = a /\ panel[r][n] # "text"
    BY <2>1, ModelsType DEF TypeOK
  <2>7. /\ \A i \in Positions : i < n /\ atClose[r][i] = "text" => \E k \in DOMAIN a : a[k] = i
        /\ \A k \in DOMAIN a : a[k] < n
        /\ \A j, k \in DOMAIN a : j < k => a[j] < a[k]
        /\ atClose[r][n] = "text" => panel[r][n] = "text"
    BY <2>1, <2>3 DEF ReadingInv
  <2> HIDE DEF a, b, n
  <2>8. /\ Len(a) \in Nat /\ DOMAIN a = 1 .. Len(a) /\ \A k \in DOMAIN a : a[k] \in Positions
        /\ Positions \subseteq Nat
    BY <2>6, ModelsType
  <2>9. \/ b = a /\ atClose[r][n] # "text"
        \/ /\ DOMAIN b = 1 .. Len(a) + 1
           /\ \A k \in 1 .. Len(a) : b[k] = a[k]
           /\ b[Len(a) + 1] = n
    BY <2>6, <2>7, <2>8
  <2>10. \A i \in Positions : i < n + 1 /\ atClose[r][i] = "text" => \E k \in DOMAIN b : b[k] = i
    <3> SUFFICES ASSUME NEW i \in Positions, i < n + 1, atClose[r][i] = "text"
                 PROVE  \E k \in DOMAIN b : b[k] = i
      OBVIOUS
    <3>1. CASE i = n
      <4>1. b[Len(a) + 1] = i /\ Len(a) + 1 \in DOMAIN b
        BY <3>1, <2>8, <2>9
      <4> QED
        BY <4>1
    <3>2. CASE i # n
      <4>1. i < n
        BY <3>2, <2>6, <2>8
      <4>2. PICK k \in DOMAIN a : a[k] = i
        BY <4>1, <2>7
      <4>3. k \in DOMAIN b /\ b[k] = i
        BY <4>2, <2>8, <2>9
      <4> QED
        BY <4>3
    <3> QED
      BY <3>1, <3>2
  <2>11. \A k \in DOMAIN b : b[k] < n + 1
    <3> TAKE k \in DOMAIN b
    <3>1. CASE k \in DOMAIN a
      <4>1. b[k] = a[k] /\ a[k] < n /\ a[k] \in Nat
        BY <3>1, <2>7, <2>8, <2>9
      <4> QED
        BY <4>1, <2>6
    <3>2. CASE k \notin DOMAIN a
      <4>1. b[k] = n
        BY <3>2, <2>8, <2>9
      <4> QED
        BY <4>1, <2>6
    <3> QED
      BY <3>1, <3>2
  <2>12. \A j, k \in DOMAIN b : j < k => b[j] < b[k]
    <3> SUFFICES ASSUME NEW j \in DOMAIN b, NEW k \in DOMAIN b, j < k
                 PROVE  b[j] < b[k]
      OBVIOUS
    <3>1. j \in DOMAIN a
      BY <2>8, <2>9
    <3>2. b[j] = a[j] /\ a[j] < n
      BY <3>1, <2>7, <2>8, <2>9
    <3>3. CASE k \in DOMAIN a
      <4>1. b[k] = a[k]
        BY <3>3, <2>8, <2>9
      <4> QED
        BY <3>1, <3>2, <3>3, <4>1, <2>7
    <3>4. CASE k \notin DOMAIN a
      <4>1. b[k] = n
        BY <3>4, <2>8, <2>9
      <4> QED
        BY <4>1, <3>2
    <3> QED
      BY <3>3, <3>4
  <2>13. ReadingInv(r)'
    BY <2>1, <2>3, <2>6, <2>10, <2>11, <2>12 DEF ReadingInv, b, n
  <2> QED
    BY <1>0, <2>2, <2>4, <2>5, <2>13 DEF Kept
<1>12. ASSUME NEW r \in Requests, Judge(r)
       PROVE  RequestInv'
  <2>1. /\ phase[r] = "reading" /\ position[r] > Len(Models) /\ strategy[r] = "fusion"
        /\ phase' = [phase EXCEPT ![r] = "done"]
        /\ UNCHANGED <<strategy, order, position, fusionVars>>
    BY <1>12, WhoseStep DEF Judge, fallbackVars
  <2>2. /\ \A q \in Requests \ {r} : tried'[q] = tried[q] /\ result'[q] = result[q]
    BY <1>12 DEF Judge, TypeOK
  <2>3. \A q \in Requests \ {r} : Same(q)
    BY <2>1, <2>2 DEF Same, TypeOK, fusionVars
  <2>4. phase'[r] = "done" /\ position[r] = Len(Models) + 1
    BY <2>1, ModelsType DEF TypeOK
  <2>5. LoopInv(r) /\ CollectionInv(r) /\ ReadingInv(r)
    BY DEF RequestInv
  <2>6. LoopInv(r)'
    BY <2>1, <2>5 DEF LoopInv
  <2>7. CollectionInv(r)'
    BY <2>1, <2>4, <2>5 DEF CollectionInv, fusionVars
  <2>8. UNCHANGED <<strategy, position, panel, answers, atClose>>
    BY <2>1 DEF fusionVars
  <2>9. ReadingInv(r)'
    BY ONLY <2>1, <2>4, <2>5, <2>8 DEF ReadingInv
  <2> QED
    BY <1>0, <2>3, <2>6, <2>7, <2>9 DEF Kept
<1> QED
  BY <1>1, <1>2, <1>3, <1>4, <1>5, <1>6, <1>7, <1>8, <1>9, <1>10, <1>11, <1>12
  DEF Next, Timers, Proceed

-----------------------------------------------------------------------------
(* The theorems.                                                            *)

\* The initial states satisfy the invariant.
LEMMA InitInv == Init => IInv
<1> SUFFICES ASSUME Init
             PROVE  IInv
  OBVIOUS
<1>1. TypeOK
  <2>1. /\ rotation \in [index : 0 .. Len(Models) - 1, uses : 0 .. StickyLimit - 1]
        /\ led \in Nat /\ turn \in [Requests -> Nat] /\ resets \in 0 .. MaxResets
        /\ ranks \in [Requests -> [Names -> 0 .. 2]]
    BY Bounds DEF Init
  <2>2. strategy \in [Requests -> Strategies]
    BY RoutingAssumption DEF Init
  <2>3. /\ order \in [Requests -> Seq(Names)] /\ tried \in [Requests -> Seq(Names)]
        /\ answers \in [Requests -> Seq(Positions)]
    BY ModelsType DEF Init
  <2>4. /\ panel \in [Requests -> [Positions -> Settled \cup {"running"}]]
        /\ atClose \in [Requests -> [Positions -> Settled \cup {"running"}]]
        /\ closedWith \in [Requests -> [by : {"none", "all", "grace", "timeout"}, ok : 0 .. Len(Models)]]
    BY Bounds DEF Init
  <2>5. /\ phase \in [Requests -> {"new", "trying", "waiting", "collecting", "reading", "done"}]
        /\ position \in [Requests -> 1 .. Len(Models) + 1]
        /\ result \in [Requests -> {"none", "ok", "invalid", "final", "exhausted"}]
        /\ counted \in [Requests -> 0 .. Len(Models)]
        /\ hard \in [Requests -> 0 .. HardTimeout] /\ grace \in [Requests -> 0 .. Grace]
    BY Bounds DEF Init
  <2> QED
    BY <2>1, <2>2, <2>3, <2>4, <2>5 DEF TypeOK, Names
<1>2. RotationInv /\ LeadInv
  <2>1. 0 \div StickyLimit = 0 /\ 0 % StickyLimit = 0 /\ 0 % Len(Models) = 0
    BY RoutingAssumption, ModelsType
  <2> QED
    BY <2>1 DEF Init, RotationInv, LeadInv
<1>3. ASSUME NEW r \in Requests
      PROVE  LoopInv(r) /\ CollectionInv(r) /\ ReadingInv(r)
  <2>1. LoopInv(r)
    BY ModelsArranged DEF Init, LoopInv
  <2>2. Cardinality(Successes(panel[r])) = 0
    <3>1. Successes(panel[r]) = {}
      BY DEF Init, Successes
    <3> QED
      BY <3>1, FS_EmptySet
  <2>3. CollectionInv(r)
    BY <2>2 DEF Init, CollectionInv
  <2>4. ReadingInv(r)
    BY DEF Init, ReadingInv
  <2> QED
    BY <2>1, <2>3, <2>4
<1> QED
  BY <1>1, <1>2, <1>3 DEF IInv, RequestInv

\* Every step keeps the invariant.
LEMMA NextInv == IInv /\ [Next]_vars => IInv'
<1> SUFFICES ASSUME IInv, [Next]_vars
             PROVE  IInv'
  OBVIOUS
<1>1. TypeOK /\ RotationInv /\ LeadInv /\ RequestInv
  BY DEF IInv
<1> QED
  BY <1>1, TypeStep, RotationStep, RequestStep DEF IInv

\* Every variable stays in its type: the position never leaves the combo and the count
\* of a collection never exceeds the panel.
THEOREM TypeCorrect == Spec => []TypeOK
<1>1. IInv => TypeOK
  BY DEF IInv
<1> QED
  BY InitInv, NextInv, <1>1, PTL DEF Spec

\* What a round-robin request calls first is the next in turn of the models that fit its
\* media best, however many requests, models and requests a turn there are.
THEOREM RotationInTurn == Spec => []LeadsInTurn
<1>1. IInv => LeadsInTurn
  <2> SUFFICES ASSUME IInv, NEW r \in Requests, turn[r] > 0, tried[r] # <<>>
               PROVE  BestOf(Rotated(Models, Due(turn[r])), ranks[r], tried[r][1])
    BY DEF LeadsInTurn, BestOf, Due
  <2>1. /\ strategy[r] # "fusion"
        /\ BestOf(Rotated(Models, Due(turn[r])), ranks[r], order[r][1])
    BY DEF IInv, LeadInv
  <2>2. /\ Len(tried[r]) = position[r] - 1 /\ position[r] \in Nat
        /\ \A k \in 1 .. position[r] - 1 : tried[r][k] = order[r][k]
    BY <2>1, ModelsType DEF IInv, RequestInv, LoopInv, TypeOK
  <2>3. Len(tried[r]) # 0
    BY DEF IInv, TypeOK
  <2>4. 1 \in 1 .. position[r] - 1
    BY <2>2, <2>3
  <2> QED
    BY <2>1, <2>2, <2>4
<1> QED
  BY InitInv, NextInv, <1>1, PTL DEF Spec

\* A combo gives up only after every model had its turn, whatever their number, the
\* rotation and the order that the request's media made of them.
THEOREM GivesUpLast == Spec => []FailsOnlyWhenExhausted
<1>1. IInv => FailsOnlyWhenExhausted
  <2> SUFFICES ASSUME IInv, NEW r \in Requests, phase[r] = "done",
                      strategy[r] \in {"fallback", "round-robin"},
                      result[r] \notin {"ok", "final"}
               PROVE  /\ Len(tried[r]) = Len(Models)
                      /\ \A i \in Positions : \E k \in DOMAIN tried[r] : tried[r][k] = Models[i]
    BY DEF FailsOnlyWhenExhausted
  <2>1. LoopInv(r) /\ tried[r] \in Seq(Names)
    BY DEF IInv, RequestInv, TypeOK, Names
  <2>2. position[r] = Len(Models) + 1 /\ Len(Models) \in Nat
    BY <2>1, ModelsType DEF LoopInv
  <2>3. Len(tried[r]) = Len(Models) /\ \A k \in 1 .. Len(Models) : tried[r][k] = order[r][k]
    BY <2>1, <2>2 DEF LoopInv
  <2>4. DOMAIN tried[r] = 1 .. Len(Models)
    BY <2>1, <2>3
  <2>5. \A i \in Positions : \E k \in Positions : order[r][k] = Models[i]
    BY <2>1, ArrangementType DEF LoopInv
  <2> QED
    BY <2>3, <2>4, <2>5, ModelsType
<1> QED
  BY InitInv, NextInv, <1>1, PTL DEF Spec

\* The grace period cuts a panel short only behind a quorum of successes.
THEOREM GraceIsEarned == Spec => []StragglersGetGrace
<1>1. IInv => StragglersGetGrace
  BY DEF IInv, RequestInv, CollectionInv, Successes, StragglersGetGrace
<1> QED
  BY InitInv, NextInv, <1>1, PTL DEF Spec

\* The judge gets every answer of the closed panel once and in order, for panels of
\* any size and whatever lands in the array while it is read.
THEOREM AnswersReachTheJudge == Spec => []JudgeGetsEveryAnswer
<1>1. IInv => JudgeGetsEveryAnswer
  <2> SUFFICES ASSUME IInv, NEW r \in Requests, strategy[r] = "fusion", phase[r] = "done"
               PROVE  /\ \A i \in Positions : atClose[r][i] = "text" =>
                           \E k \in DOMAIN answers[r] : answers[r][k] = i
                      /\ \A j, k \in DOMAIN answers[r] : j < k => answers[r][j] < answers[r][k]
    BY DEF JudgeGetsEveryAnswer
  <2>1. ReadingInv(r) /\ \A i \in Positions : i < Len(Models) + 1
    BY ModelsType DEF IInv, RequestInv
  <2> QED
    BY <2>1 DEF ReadingInv
<1> QED
  BY InitInv, NextInv, <1>1, PTL DEF Spec

=============================================================================

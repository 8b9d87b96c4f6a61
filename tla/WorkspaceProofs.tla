---------------------------- MODULE WorkspaceProofs ----------------------------
(***************************************************************************)
(* What holds of a workspace, for any number of users, requests, tabs and  *)
(* documents, and of the runs of every definition that is accepted.        *)
(***************************************************************************)
EXTENDS Workspace, FiniteSetTheorems, WellFoundedInduction, TLAPS

LEMMA Induces ==
  ASSUME NEW S \in SUBSET Nat, 0 \in S, \A n \in S : n + 1 \in S
  PROVE  \A n \in Nat : n \in S
<1> SUFFICES ASSUME Nat \ S # {} PROVE FALSE
  OBVIOUS
<1> DEFINE Before == {ss \in Nat \X Nat : ss[1] < ss[2]}
<1>1. IsWellFoundedOn(Before, Nat)
  BY NatLessThanWellFounded DEF OpToRel
<1>2. PICK x \in Nat \ S : \A y \in Nat \ S : ~(<<y, x>> \in Before)
  <2> HIDE DEF Before
  <2> QED BY <1>1, WFMin
<1>3. x # 0 /\ x - 1 \in Nat /\ (x - 1) + 1 = x
  BY <1>2
<1>4. x - 1 \in Nat \ S
  BY <1>2, <1>3
<1>5. <<x - 1, x>> \in Before
  BY <1>3
<1> QED BY <1>2, <1>4, <1>5, Zenon

-------------------------------------------------------------------------------
(* What is asked of a graph below: no edge leads out of it.                  *)
EdgesStay(d) == \A id \in Ids(d) : Targets(Step(d, id)) \subseteq Ids(d)

(* One round of Reached.                                                     *)
Spread(d, ids, left) == ids \cup UNION {Targets(Step(d, id)) : id \in ids \cap left}

IsPath(d, p, n, from, left) ==
  /\ p[0] \in from
  /\ \A i \in 0..n - 1 :
       p[i + 1] = p[i] \/ (p[i] \in left /\ p[i + 1] \in Targets(Step(d, p[i])))

Round(d, n, from, left) ==
  {x \in Ids(d) : \E p \in [0..n -> Ids(d)] : p[n] = x /\ IsPath(d, p, n, from, left)}

Rounds(d, from, left) == [n \in Nat |-> Round(d, n, from, left)]

LEMMA RoundsSpread ==
  ASSUME NEW d, NEW from, NEW left, from \subseteq Ids(d), EdgesStay(d)
  PROVE  /\ Rounds(d, from, left)[0] = from
         /\ \A n \in Nat : Rounds(d, from, left)[n + 1] = Spread(d, Rounds(d, from, left)[n], left)
<1> DEFINE R == Rounds(d, from, left)
           Path(n, x) == \E p \in [0..n -> Ids(d)] : p[n] = x /\ IsPath(d, p, n, from, left)
<1>1. \A n \in Nat : \A x : x \in R[n] <=> x \in Ids(d) /\ Path(n, x)
  BY DEF Rounds, Round
<1> HIDE DEF R
<1>2. ASSUME NEW x PROVE x \in R[0] <=> x \in from
  <2>1. ASSUME x \in from PROVE Path(0, x)
    <3> DEFINE p == [i \in 0..0 |-> x]
    <3>1. p \in [0..0 -> Ids(d)] /\ p[0] = x
      BY <2>1
    <3>2. IsPath(d, p, 0, from, left)
      BY <2>1, <3>1 DEF IsPath
    <3> HIDE DEF p
    <3> QED BY <3>1, <3>2
  <2>2. ASSUME Path(0, x) PROVE x \in from
    BY <2>2 DEF IsPath
  <2> QED BY <1>1, <2>1, <2>2
<1>3. ASSUME NEW n \in Nat, NEW x
      PROVE  x \in R[n + 1] <=>
               x \in R[n] \/ \E id \in R[n] \cap left : x \in Targets(Step(d, id))
  <2>1. ASSUME x \in R[n + 1]
        PROVE  x \in R[n] \/ \E id \in R[n] \cap left : x \in Targets(Step(d, id))
    <3>1. PICK p \in [0..n + 1 -> Ids(d)] : p[n + 1] = x /\ IsPath(d, p, n + 1, from, left)
      BY <1>1, <2>1
    <3> DEFINE q == [i \in 0..n |-> p[i]]
    <3>2. q \in [0..n -> Ids(d)] /\ q[n] = p[n] /\ \A i \in 0..n : q[i] = p[i]
      OBVIOUS
    <3>3. IsPath(d, q, n, from, left)
      BY <3>1, <3>2 DEF IsPath
    <3> HIDE DEF q
    <3>4. p[n] \in R[n]
      BY <1>1, <3>2, <3>3
    <3>5. p[n + 1] = p[n] \/ (p[n] \in left /\ p[n + 1] \in Targets(Step(d, p[n])))
      BY <3>1 DEF IsPath
    <3> QED BY <3>1, <3>4, <3>5
  <2>2. ASSUME NEW y \in R[n], x = y \/ (y \in left /\ x \in Targets(Step(d, y)))
        PROVE  x \in R[n + 1]
    <3>1. PICK p \in [0..n -> Ids(d)] : p[n] = y /\ IsPath(d, p, n, from, left)
      BY <1>1
    <3>2. x \in Ids(d)
      BY <1>1, <2>2 DEF EdgesStay
    <3> DEFINE q == [i \in 0..n + 1 |-> IF i = n + 1 THEN x ELSE p[i]]
    <3>3. q \in [0..n + 1 -> Ids(d)] /\ q[n + 1] = x /\ \A i \in 0..n : q[i] = p[i]
      BY <3>2
    <3> HIDE DEF q
    <3>4. ASSUME NEW i \in 0..n
          PROVE  q[i + 1] = q[i] \/ (q[i] \in left /\ q[i + 1] \in Targets(Step(d, q[i])))
      BY <2>2, <3>1, <3>3 DEF IsPath
    <3>5. IsPath(d, q, n + 1, from, left)
      BY <3>1, <3>3, <3>4 DEF IsPath
    <3> QED BY <1>1, <3>2, <3>3, <3>5
  <2> QED BY <2>1, <2>2
<1>4. R[0] = from
  BY <1>2
<1>5. ASSUME NEW n \in Nat PROVE R[n + 1] = Spread(d, R[n], left)
  BY <1>3 DEF Spread
<1> QED BY <1>4, <1>5 DEF R

AreRounds(d, r, from, left) ==
  /\ r \in [Nat -> SUBSET Ids(d)]
  /\ r[0] = from /\ \A n \in Nat : r[n + 1] = Spread(d, r[n], left)

LEMMA ReachedIsTheLastRound ==
  ASSUME NEW d, NEW from, NEW left, from \subseteq Ids(d), EdgesStay(d),
         NEW len \in Nat, Len(d.steps) = len
  PROVE  \E r : AreRounds(d, r, from, left) /\ Reached(d, from, left) = r[len]
<1> DEFINE W == CHOOSE f : f =
             [n \in Nat |-> IF n = 0 THEN from
                            ELSE LET ids == f[n - 1]
                                 IN ids \cup UNION {Targets(Step(d, id)) : id \in ids \cap left}]
<1>1. Reached(d, from, left) = W[len]
  BY DEF Reached
<1>2. \E f : f = [n \in Nat |-> IF n = 0 THEN from
                                ELSE LET ids == f[n - 1]
                                     IN ids \cup UNION {Targets(Step(d, id)) : id \in ids \cap left}]
  <2> DEFINE R == Rounds(d, from, left)
  <2>1. R = [n \in Nat |-> R[n]]
    BY DEF Rounds
  <2>2. R[0] = from /\ \A n \in Nat : R[n + 1] = Spread(d, R[n], left)
    BY RoundsSpread
  <2> HIDE DEF R
  <2>3. ASSUME NEW n \in Nat
        PROVE  R[n] = IF n = 0 THEN from
                      ELSE LET ids == R[n - 1]
                           IN ids \cup UNION {Targets(Step(d, id)) : id \in ids \cap left}
    <3>1. CASE n = 0
      BY <2>2, <3>1
    <3>2. CASE n # 0
      <4>1. n - 1 \in Nat /\ (n - 1) + 1 = n
        BY <3>2
      <4>2. R[n] = Spread(d, R[n - 1], left)
        BY <2>2, <4>1
      <4> QED BY <3>2, <4>2 DEF Spread
    <3> QED BY <3>1, <3>2
  <2> WITNESS R
  <2> QED BY <2>1, <2>3, Zenon
<1>3. W = [n \in Nat |-> IF n = 0 THEN from
                         ELSE LET ids == W[n - 1]
                              IN ids \cup UNION {Targets(Step(d, id)) : id \in ids \cap left}]
  BY <1>2, Zenon
<1> HIDE DEF W
<1>4. W[0] = from
  BY <1>3
<1>5. ASSUME NEW n \in Nat PROVE W[n + 1] = Spread(d, W[n], left)
  <2>1. n + 1 \in Nat /\ n + 1 # 0 /\ (n + 1) - 1 = n
    OBVIOUS
  <2> QED BY <1>3, <2>1 DEF Spread
<1>6. \A n \in Nat : W[n] \subseteq Ids(d)
  <2> DEFINE S == {n \in Nat : W[n] \subseteq Ids(d)}
  <2>1. S \in SUBSET Nat /\ 0 \in S
    BY <1>4
  <2>2. ASSUME NEW n \in S PROVE n + 1 \in S
    BY <1>5 DEF Spread, EdgesStay
  <2>3. \A n \in Nat : n \in S
    <3> HIDE DEF S
    <3> QED BY <2>1, <2>2, Induces, Zenon
  <2> QED BY <2>3
<1>7. W \in [Nat -> SUBSET Ids(d)]
  <2>1. W = [n \in Nat |-> W[n]]
    BY <1>3
  <2> QED BY <1>6, <2>1
<1> QED BY <1>1, <1>4, <1>5, <1>7 DEF AreRounds

-------------------------------------------------------------------------------
(* There are no more ids than steps.                                         *)
LEMMA FewIds ==
  ASSUME NEW d, NEW len \in Nat, DOMAIN d.steps = 1..len
  PROVE  IsFiniteSet(Ids(d)) /\ Cardinality(Ids(d)) \in Nat /\ Cardinality(Ids(d)) <= len
<1> DEFINE f == [i \in 1..len |-> d.steps[i].id]
<1>1. f \in Surjection(1..len, Ids(d))
  <2>1. f \in [1..len -> Ids(d)]
    BY DEF Ids, Positions
  <2>2. ASSUME NEW x \in Ids(d) PROVE \E i \in 1..len : f[i] = x
    BY DEF Ids, Positions
  <2> QED BY <2>1, <2>2 DEF Surjection
<1>2. IsFiniteSet(1..len) /\ Cardinality(1..len) <= len
  BY FS_Interval
<1>3. IsFiniteSet(Ids(d)) /\ Cardinality(Ids(d)) <= Cardinality(1..len)
  <2> HIDE DEF f
  <2> QED BY <1>1, <1>2, FS_Surjection
<1> QED BY <1>2, <1>3, FS_CardinalityType

(* Reached is the least set of ids that includes from and goes on along the  *)
(* edges of the steps that are left: the number of rounds is enough.         *)
LEMMA ReachedIsLeast ==
  ASSUME NEW d, NEW from, NEW left, from \subseteq Ids(d), EdgesStay(d),
         NEW len \in Nat, Len(d.steps) = len, DOMAIN d.steps = 1..len
  PROVE  /\ from \subseteq Reached(d, from, left) /\ Reached(d, from, left) \subseteq Ids(d)
         /\ \A id \in Reached(d, from, left) \cap left :
              Targets(Step(d, id)) \subseteq Reached(d, from, left)
         /\ \A C : from \subseteq C /\ (\A id \in C \cap left : Targets(Step(d, id)) \subseteq C)
                     => Reached(d, from, left) \subseteq C
<1>0. PICK r : AreRounds(d, r, from, left) /\ Reached(d, from, left) = r[len]
  BY ReachedIsTheLastRound
<1>1. /\ r \in [Nat -> SUBSET Ids(d)]
      /\ r[0] = from /\ \A n \in Nat : r[n + 1] = Spread(d, r[n], left)
      /\ Reached(d, from, left) = r[len]
  BY <1>0 DEF AreRounds
<1>2. \A n \in Nat : from \subseteq r[n]
  <2> DEFINE S == {n \in Nat : from \subseteq r[n]}
  <2>1. S \in SUBSET Nat /\ 0 \in S /\ \A n \in S : n + 1 \in S
    BY <1>1 DEF Spread
  <2>2. \A n \in Nat : n \in S
    <3> HIDE DEF S
    <3> QED BY <2>1, Induces, Zenon
  <2> QED BY <2>2
<1>3. ASSUME NEW C, from \subseteq C, \A id \in C \cap left : Targets(Step(d, id)) \subseteq C
      PROVE  \A n \in Nat : r[n] \subseteq C
  <2> DEFINE S == {n \in Nat : r[n] \subseteq C}
  <2>1. S \in SUBSET Nat /\ 0 \in S /\ \A n \in S : n + 1 \in S
    BY <1>1, <1>3 DEF Spread
  <2>2. \A n \in Nat : n \in S
    <3> HIDE DEF S
    <3> QED BY <2>1, Induces, Zenon
  <2> QED BY <2>2
<1>4. \A n \in Nat : r[n + 1] = r[n] \/ Cardinality(r[n + 1]) > n
  <2> DEFINE S == {n \in Nat : r[n + 1] = r[n] \/ Cardinality(r[n + 1]) > n}
  <2>1. ASSUME NEW n \in Nat, r[n + 1] # r[n]
        PROVE  /\ n + 1 \in Nat /\ Cardinality(r[n]) \in Nat /\ Cardinality(r[n + 1]) \in Nat
               /\ Cardinality(r[n + 1]) > Cardinality(r[n])
    <3>1. IsFiniteSet(r[n + 1]) /\ r[n] \in SUBSET r[n + 1]
      BY <1>1, FewIds, FS_Subset DEF Spread
    <3> QED BY <2>1, <3>1, FS_Subset, FS_CardinalityType
  <2>2. S \in SUBSET Nat /\ 0 \in S
    BY <2>1
  <2>3. ASSUME NEW n \in S PROVE n + 1 \in S
    <3>1. CASE r[n + 1] = r[n]
      BY <1>1, <3>1
    <3>2. CASE r[n + 1] # r[n] /\ r[(n + 1) + 1] # r[n + 1]
      <4>1. Cardinality(r[n + 1]) \in Nat /\ Cardinality(r[n + 1]) > n
        BY <2>1, <3>2
      <4>2. Cardinality(r[(n + 1) + 1]) \in Nat
            /\ Cardinality(r[(n + 1) + 1]) > Cardinality(r[n + 1])
        BY <2>1, <3>2
      <4> QED BY <4>1, <4>2
    <3>3. CASE r[(n + 1) + 1] = r[n + 1]
      BY <3>3
    <3> QED BY <3>1, <3>2, <3>3
  <2>4. \A n \in Nat : n \in S
    <3> HIDE DEF S
    <3> QED BY <2>2, <2>3, Induces, Zenon
  <2> QED BY <2>4
<1>5. r[len + 1] = r[len]
  <2>1. r[len + 1] \in SUBSET Ids(d)
    BY <1>1
  <2>2. Cardinality(r[len + 1]) <= len /\ Cardinality(r[len + 1]) \in Nat
    BY <2>1, FewIds, FS_Subset, FS_CardinalityType
  <2> QED BY <1>4, <2>2
<1>6. \A id \in r[len] \cap left : Targets(Step(d, id)) \subseteq r[len]
  BY <1>1, <1>5 DEF Spread
<1> QED BY <1>1, <1>2, <1>3, <1>6

-------------------------------------------------------------------------------
(* The graphs that the lemmas below are about.                               *)
IsGraph(d) ==
  /\ Len(d.steps) \in Nat /\ DOMAIN d.steps = 1..Len(d.steps)
  /\ d.entry \in Ids(d) /\ EdgesStay(d)

LEMMA StepHasItsId ==
  ASSUME NEW d, NEW id \in Ids(d)
  PROVE  \E i \in Positions(d) : Step(d, id) = d.steps[i] /\ d.steps[i].id = id
BY DEF Ids, Step

(* Precedes is the least relation that holds along an edge and goes on along *)
(* every edge.                                                               *)
LEMMA PrecedesIsLeast ==
  ASSUME NEW d, IsGraph(d), NEW a \in Ids(d)
  PROVE  /\ \A b \in Targets(Step(d, a)) : Precedes(d, a, b)
         /\ \A b : Precedes(d, a, b) =>
              b \in Ids(d) /\ \A c \in Targets(Step(d, b)) : Precedes(d, a, c)
         /\ \A C : /\ Targets(Step(d, a)) \subseteq C
                   /\ \A id \in C \cap Ids(d) : Targets(Step(d, id)) \subseteq C
                   => \A b : Precedes(d, a, b) => b \in C
<1>1. Targets(Step(d, a)) \subseteq Ids(d)
  BY DEF IsGraph, EdgesStay
<1> DEFINE R == Reached(d, Targets(Step(d, a)), Ids(d))
<1>2. /\ Targets(Step(d, a)) \subseteq R /\ R \subseteq Ids(d)
      /\ \A id \in R \cap Ids(d) : Targets(Step(d, id)) \subseteq R
      /\ \A C : /\ Targets(Step(d, a)) \subseteq C
                /\ \A id \in C \cap Ids(d) : Targets(Step(d, id)) \subseteq C
                => R \subseteq C
  BY <1>1, ReachedIsLeast DEF IsGraph
<1>3. \A b : Precedes(d, a, b) <=> b \in R
  BY DEF Precedes
<1> HIDE DEF R
<1> QED BY <1>2, <1>3

LEMMA PrecedesIsTransitive ==
  ASSUME NEW d, IsGraph(d), NEW a \in Ids(d), NEW b, Precedes(d, a, b), NEW c, Precedes(d, b, c)
  PROVE  Precedes(d, a, c)
<1> DEFINE C == {x \in Ids(d) : Precedes(d, a, x)}
<1>1. b \in Ids(d) /\ \A x : Precedes(d, a, x) => x \in Ids(d) /\ \A y \in Targets(Step(d, x)) : Precedes(d, a, y)
  BY PrecedesIsLeast
<1>2. /\ Targets(Step(d, b)) \subseteq C
      /\ \A id \in C \cap Ids(d) : Targets(Step(d, id)) \subseteq C
  BY <1>1
<1>3. \A x : Precedes(d, b, x) => x \in C
  <2> HIDE DEF C
  <2> QED BY <1>1, <1>2, PrecedesIsLeast
<1> QED BY <1>3

(* Who comes after a step comes along one of its edges.                      *)
LEMMA PrecedesAlongAnEdge ==
  ASSUME NEW d, IsGraph(d), NEW a \in Ids(d), NEW c, Precedes(d, a, c)
  PROVE  \E b \in Targets(Step(d, a)) : c = b \/ Precedes(d, b, c)
<1> DEFINE C == {x \in Ids(d) : \E b \in Targets(Step(d, a)) : x = b \/ Precedes(d, b, x)}
<1>1. Targets(Step(d, a)) \subseteq Ids(d)
  BY DEF IsGraph, EdgesStay
<1>2. ASSUME NEW b \in Targets(Step(d, a)), NEW x \in Ids(d), x = b \/ Precedes(d, b, x)
      PROVE  \A y \in Targets(Step(d, x)) : y \in Ids(d) /\ Precedes(d, b, y)
  BY <1>1, <1>2, PrecedesIsLeast DEF IsGraph, EdgesStay
<1>3. /\ Targets(Step(d, a)) \subseteq C
      /\ \A id \in C \cap Ids(d) : Targets(Step(d, id)) \subseteq C
  BY <1>1, <1>2
<1>4. \A x : Precedes(d, a, x) => x \in C
  <2> HIDE DEF C
  <2> QED BY <1>3, PrecedesIsLeast
<1> QED BY <1>4

LEMMA EntryPrecedesAll ==
  ASSUME NEW d, IsGraph(d), Ids(d) \subseteq Reached(d, {d.entry}, Ids(d)), NEW id \in Ids(d)
  PROVE  id = d.entry \/ Precedes(d, d.entry, id)
<1> DEFINE C == {x \in Ids(d) : x = d.entry \/ Precedes(d, d.entry, x)}
<1>1. {d.entry} \subseteq C /\ \A x \in C \cap Ids(d) : Targets(Step(d, x)) \subseteq C
  BY PrecedesIsLeast DEF IsGraph
<1>2. Reached(d, {d.entry}, Ids(d)) \subseteq C
  <2> HIDE DEF C
  <2> QED BY <1>1, ReachedIsLeast DEF IsGraph
<1> QED BY <1>2

(* What is known of a definition that was accepted.                          *)
LEMMA AcceptedIs ==
  ASSUME NEW d \in Accepted
  PROVE  /\ IsGraph(d) /\ Ids(d) \subseteq Reached(d, {d.entry}, Ids(d)) /\ ApprovalsCover(d)
         /\ \A id \in Ids(d) :
              /\ ~Precedes(d, id, id)
              /\ Step(d, id).refs \subseteq Ancestors(d, id)
              /\ Step(d, id).type # "CONDITION" => \A x, y \in Targets(Step(d, id)) : x = y
<1>1. IsValid(d) /\ d \in Definitions
  BY DEF Accepted
<1>2. IsGraph(d)
  <2>1. EdgesStay(d)
    BY <1>1, StepHasItsId DEF IsValid, ValidGraph, EdgesStay
  <2> QED BY <1>1, <2>1, GraphAssumption DEF IsValid, ValidGraph, IsGraph
<1>3. ASSUME NEW id \in Ids(d)
      PROVE  /\ Step(d, id).refs \subseteq Ancestors(d, id)
             /\ Step(d, id).type # "CONDITION" => \A x, y \in Targets(Step(d, id)) : x = y
  <2>1. PICK i \in Positions(d) : Step(d, id) = d.steps[i] /\ d.steps[i].id = id
    BY StepHasItsId
  <2>2. Step(d, id).refs \subseteq Ancestors(d, id)
    BY <1>1, <2>1 DEF IsValid, ValidGraph
  <2>3. ASSUME Step(d, id).type # "CONDITION", NEW x \in Targets(Step(d, id)), NEW y \in Targets(Step(d, id))
        PROVE  x = y
    <3> DEFINE next == d.steps[i].next
    <3>1. Len(next) \in Nat /\ DOMAIN next = 1..Len(next)
      BY <1>1, <2>1, GraphAssumption DEF Positions
    <3>2. Len(next) <= 1
      BY <1>1, <2>1, <2>3 DEF IsValid, HasShape, Conditional
    <3>3. PICK j, k \in DOMAIN next : x = next[j] /\ y = next[k]
      BY <2>1, <2>3 DEF Targets
    <3>4. j = k
      <4> HIDE DEF next
      <4> QED BY <3>1, <3>2, <3>3
    <3> QED BY <3>3, <3>4
  <2> QED BY <2>2, <2>3
<1> QED BY <1>1, <1>2, <1>3 DEF IsValid, ValidGraph

-------------------------------------------------------------------------------
IsUnderWay == walk.state \in {"running", "failed"}

(* A run is a run of an accepted definition, and is at one of its steps.     *)
WalkTypeOK ==
  walk = NoWalk \/ walk \in [state : {"running", "completed", "failed"},
                             definition : Accepted, at : Ids(walk.definition),
                             done : SUBSET Ids(walk.definition)]

(* The steps that are done lie before the one the run is at, until the run   *)
(* starts again after an approval that nothing follows.                      *)
StartsAgain == \E id \in walk.done : EndsInApproval(walk.definition, id)
GoesForward ==
  IsUnderWay => StartsAgain \/ \A x \in walk.done : Precedes(walk.definition, x, walk.at)

(* A run is on a path without a decision until it has met one.               *)
DecidesOrIsUnapproved ==
  walk.state = "running" =>
    \/ walk.at \in Unapproved(walk.definition)
    \/ \E id \in walk.done : Step(walk.definition, id).type = "APPROVAL"

(* A step that a run has not met is still to come, or a condition has sent   *)
(* the run past it.                                                          *)
OnlyConditionsSkip ==
  IsUnderWay =>
    \A id \in Ids(walk.definition) \ (walk.done \cup {walk.at}) :
      \/ Precedes(walk.definition, walk.at, id)
      \/ \E c \in walk.done :
           Step(walk.definition, c).type = "CONDITION" /\ Precedes(walk.definition, c, id)

WalkInv == WalkTypeOK /\ GoesForward /\ DecidesOrIsUnapproved /\ OnlyConditionsSkip

LEMMA WalkStarts == GraphInit => WalkInv
<1>1. ASSUME walk = NoWalk PROVE WalkInv
  BY <1>1 DEF WalkInv, WalkTypeOK, GoesForward, DecidesOrIsUnapproved, OnlyConditionsSkip, NoWalk,
              IsUnderWay
<1>2. ASSUME NEW d \in Accepted, walk = Accept(d) PROVE WalkInv
  <2>1. /\ walk.state = "running" /\ walk.definition = d /\ walk.at = d.entry /\ walk.done = {}
        /\ walk \in [state : {"running", "completed", "failed"}, definition : Accepted,
                     at : {d.entry}, done : {{}}]
    BY <1>2 DEF Accept
  <2>2. IsGraph(d) /\ Ids(d) \subseteq Reached(d, {d.entry}, Ids(d))
    BY AcceptedIs
  <2>3. d.entry \in Ids(d) /\ d.entry \in Unapproved(d)
    BY <2>2, ReachedIsLeast DEF IsGraph, Unapproved
  <2>4. WalkTypeOK
    BY <2>1, <2>3 DEF WalkTypeOK
  <2>5. OnlyConditionsSkip
    BY <2>1, <2>2, EntryPrecedesAll DEF OnlyConditionsSkip
  <2> QED BY <2>1, <2>3, <2>4, <2>5 DEF WalkInv, GoesForward, DecidesOrIsUnapproved
<1> QED BY <1>1, <1>2 DEF GraphInit

LEMMA WalkStep ==
  ASSUME WalkInv, Take
  PROVE  WalkInv'
<1> DEFINE d == walk.definition
           at == walk.at
           step == Step(d, at)
<1>1. /\ walk.state = "running" /\ d \in Accepted /\ at \in Ids(d) /\ walk.done \subseteq Ids(d)
      /\ walk \in [state : {"running", "completed", "failed"}, definition : Accepted,
                   at : Ids(d), done : SUBSET Ids(d)]
  <2>1. walk.state = "running"
    BY Zenon DEF Take
  <2>2. walk # NoWalk
    BY <2>1 DEF NoWalk
  <2> QED BY <2>1, <2>2 DEF WalkInv, WalkTypeOK
<1>2. IsGraph(d)
  BY <1>1, AcceptedIs
<1>3. ASSUME walk' = [walk EXCEPT !.state = "failed"] PROVE WalkInv'
  BY <1>1, <1>3 DEF WalkInv, WalkTypeOK, GoesForward, StartsAgain, DecidesOrIsUnapproved,
                    OnlyConditionsSkip, IsUnderWay
<1>4. ASSUME walk' = [walk EXCEPT !.done = walk.done \cup {at}, !.state = "completed"] PROVE WalkInv'
  BY <1>1, <1>4 DEF WalkInv, WalkTypeOK, GoesForward, DecidesOrIsUnapproved, OnlyConditionsSkip,
                    IsUnderWay
<1>5. ASSUME NEW next \in Following(d, at), walk' = [walk EXCEPT !.done = walk.done \cup {at}, !.at = next]
      PROVE  WalkInv'
  <2>1. /\ walk'.state = "running" /\ walk'.definition = d /\ walk'.at = next
        /\ walk'.done = walk.done \cup {at}
    BY <1>1, <1>5
  <2>2. \/ ~EndsInApproval(d, at) /\ next \in Targets(step)
        \/ EndsInApproval(d, at) /\ next = d.entry
    BY <1>5 DEF Following
  <2>3. next \in Ids(d)
    BY <1>1, <1>2, <2>2 DEF IsGraph, EdgesStay
  <2>4. WalkTypeOK'
    BY <1>1, <1>5, <2>3 DEF WalkTypeOK
  <2>5. CASE EndsInApproval(d, at) /\ next = d.entry
    <3>1. at \in walk'.done /\ step.type = "APPROVAL"
      BY <2>1, <2>5 DEF EndsInApproval
    <3>2. GoesForward' /\ DecidesOrIsUnapproved'
      BY <2>1, <2>5, <3>1 DEF GoesForward, StartsAgain, DecidesOrIsUnapproved
    <3>3. \A id \in Ids(d) : id = next \/ Precedes(d, next, id)
      BY <1>1, <2>5, AcceptedIs, EntryPrecedesAll
    <3>4. OnlyConditionsSkip'
      BY <2>1, <3>3 DEF OnlyConditionsSkip
    <3> QED BY <2>4, <3>2, <3>4 DEF WalkInv
  <2>6. CASE ~EndsInApproval(d, at) /\ next \in Targets(step)
    <3>1. GoesForward'
      <4>1. CASE StartsAgain
        BY <2>1, <4>1 DEF GoesForward, StartsAgain
      <4>2. CASE ~StartsAgain
        <5>1. ASSUME NEW x \in walk.done PROVE Precedes(d, x, next)
          BY <1>1, <1>2, <2>6, <4>2, <5>1, PrecedesIsLeast DEF WalkInv, GoesForward, IsUnderWay
        <5>2. Precedes(d, at, next)
          BY <1>1, <1>2, <2>6, PrecedesIsLeast
        <5> QED BY <2>1, <5>1, <5>2 DEF GoesForward
      <4> QED BY <4>1, <4>2
    <3>2. DecidesOrIsUnapproved'
      <4>1. CASE step.type = "APPROVAL" \/ \E id \in walk.done : Step(d, id).type = "APPROVAL"
        BY <2>1, <4>1 DEF DecidesOrIsUnapproved
      <4>2. CASE step.type # "APPROVAL" /\ at \in Unapproved(d)
        <5>1. next \in Unapproved(d)
          <6> DEFINE left == {id \in Ids(d) : Step(d, id).type # "APPROVAL"}
          <6>1. {d.entry} \subseteq Ids(d) /\ at \in left
            BY <1>1, <1>2, <4>2 DEF IsGraph
          <6>2. \A id \in Reached(d, {d.entry}, left) \cap left :
                  Targets(Step(d, id)) \subseteq Reached(d, {d.entry}, left)
            <7> HIDE DEF left
            <7> QED BY <1>2, <6>1, ReachedIsLeast DEF IsGraph
          <6> QED BY <2>6, <4>2, <6>1, <6>2 DEF Unapproved
        <5> QED BY <2>1, <5>1 DEF DecidesOrIsUnapproved
      <4> QED BY <1>1, <4>1, <4>2 DEF WalkInv, DecidesOrIsUnapproved
    <3>3. OnlyConditionsSkip'
      <4>1. ASSUME NEW id \in Ids(d) \ (walk.done \cup {at, next})
            PROVE  \/ Precedes(d, next, id)
                   \/ \E c \in walk.done \cup {at} : Step(d, c).type = "CONDITION" /\ Precedes(d, c, id)
        <5>1. CASE \E c \in walk.done : Step(d, c).type = "CONDITION" /\ Precedes(d, c, id)
          BY <5>1
        <5>2. CASE Precedes(d, at, id) /\ step.type = "CONDITION"
          BY <5>2
        <5>3. CASE Precedes(d, at, id) /\ step.type # "CONDITION"
          <6>1. PICK b \in Targets(step) : id = b \/ Precedes(d, b, id)
            BY <1>1, <1>2, <5>3, PrecedesAlongAnEdge
          <6>2. b = next
            BY <1>1, <2>6, <5>3, AcceptedIs
          <6> QED BY <4>1, <6>1, <6>2
        <5> QED BY <1>1, <4>1, <5>1, <5>2, <5>3 DEF WalkInv, OnlyConditionsSkip, IsUnderWay
      <4> QED BY <2>1, <4>1 DEF OnlyConditionsSkip
    <3> QED BY <2>4, <3>1, <3>2, <3>3 DEF WalkInv
  <2> QED BY <2>2, <2>5, <2>6
<1> QED BY <1>3, <1>4, <1>5 DEF Take

-------------------------------------------------------------------------------
(* An accepted definition is ordered by its edges, as the bounds on the      *)
(* attempts of its runs need it (IsAcyclic of RunExecution).                 *)
THEOREM AcceptedIsAcyclic ==
  ASSUME NEW d \in Accepted
  PROVE  \E before \in SUBSET (Ids(d) \X Ids(d)) :
           /\ \A s \in Ids(d) : <<s, s>> \notin before
           /\ \A s, t, u \in Ids(d) :
                <<s, t>> \in before /\ <<t, u>> \in before => <<s, u>> \in before
           /\ \A s \in Ids(d) : \A t \in Targets(Step(d, s)) : <<s, t>> \in before
<1>1. PICK before : before = {e \in Ids(d) \X Ids(d) : Precedes(d, e[1], e[2])}
  OBVIOUS
<1>2. \A s, t \in Ids(d) : <<s, t>> \in before <=> Precedes(d, s, t)
  BY <1>1
<1>3. IsGraph(d) /\ \A s \in Ids(d) : ~Precedes(d, s, s)
  BY AcceptedIs
<1>4. \A s, t, u \in Ids(d) : Precedes(d, s, t) /\ Precedes(d, t, u) => Precedes(d, s, u)
  BY <1>3, PrecedesIsTransitive
<1>5. \A s \in Ids(d) : \A t \in Targets(Step(d, s)) : t \in Ids(d) /\ Precedes(d, s, t)
  BY <1>3, PrecedesIsLeast
<1> QED BY <1>1, <1>2, <1>3, <1>4, <1>5

(* The invariant of a run's walk through an accepted definition: it only     *)
(* goes forward until an approval that nothing follows sends it back to the  *)
(* entry step, it is on an undecided path or an approval is behind it, and   *)
(* what it left out lies ahead or behind a condition it has passed.          *)
THEOREM WalkCorrect == Spec => []WalkInv
<1>1. Init => WalkInv
  BY WalkStarts DEF Init
<1>2. WalkInv /\ [Next]_vars => WalkInv'
  <2> SUFFICES ASSUME WalkInv, [Next]_vars PROVE WalkInv'
    OBVIOUS
  <2>1. Take \/ UNCHANGED walk
    BY DEF Next, vars
  <2>2. ASSUME UNCHANGED walk PROVE WalkInv'
    BY <2>2 DEF WalkInv, WalkTypeOK, GoesForward, StartsAgain, DecidesOrIsUnapproved,
                OnlyConditionsSkip, IsUnderWay
  <2> QED BY <2>1, <2>2, WalkStep
<1> QED BY <1>1, <1>2, PTL DEF Spec

(* validateIntegrationApprovalPolicy follows the paths without a decision    *)
(* once, when the definition is stored: that is enough for every run.        *)
THEOREM ApprovalCorrect == Spec => []ActsWhenApproved
<1>1. WalkInv => ActsWhenApproved
  <2> SUFFICES ASSUME WalkInv, walk.state = "running", walk.at \in Unapproved(walk.definition)
               PROVE  Step(walk.definition, walk.at).type # "INTEGRATION_ACTION"
    BY DEF WalkInv, DecidesOrIsUnapproved, ActsWhenApproved
  <2>1. walk.definition \in Accepted
    BY DEF WalkInv, WalkTypeOK, NoWalk
  <2> QED BY <2>1, AcceptedIs DEF ApprovalsCover
<1> QED BY <1>1, WalkCorrect, PTL

(* A reference to an ancestor, which is what ancestorsFor lets pass, fails a *)
(* run only where a condition has sent it past the ancestor; and a step is   *)
(* met twice only after an approval with nothing behind it was given.        *)
THEOREM ReferencesCorrect == Spec => []ReferencesResolve
<1>1. WalkInv => ReferencesResolve
  <2> SUFFICES ASSUME WalkInv, walk.state # "none"
               PROVE  /\ walk.state = "running" /\ walk.at \in walk.done =>
                           \E id \in walk.done : EndsInApproval(walk.definition, id)
                      /\ walk.state = "failed" =>
                           \A id \in Step(walk.definition, walk.at).refs \ walk.done :
                             \E c \in walk.done : /\ Step(walk.definition, c).type = "CONDITION"
                                                  /\ Precedes(walk.definition, c, id)
    BY DEF ReferencesResolve
  <2> DEFINE d == walk.definition
             at == walk.at
  <2>1. d \in Accepted /\ at \in Ids(d)
    BY DEF WalkInv, WalkTypeOK, NoWalk
  <2>2. ~Precedes(d, at, at) /\ Step(d, at).refs \subseteq Ancestors(d, at) /\ IsGraph(d)
    BY <2>1, AcceptedIs
  <2>3. ASSUME walk.state = "running", at \in walk.done
        PROVE  \E id \in walk.done : EndsInApproval(d, id)
    BY <2>2, <2>3 DEF WalkInv, GoesForward, StartsAgain, IsUnderWay
  <2>4. ASSUME walk.state = "failed", NEW id \in Step(d, at).refs, id \notin walk.done
        PROVE  \E c \in walk.done : Step(d, c).type = "CONDITION" /\ Precedes(d, c, id)
    <3>1. id \in Ids(d) /\ Precedes(d, id, at) /\ id # at
      BY <2>2, <2>4 DEF Ancestors
    <3>2. ~Precedes(d, at, id)
      BY <2>1, <2>2, <3>1, PrecedesIsTransitive
    <3> QED BY <2>4, <3>1, <3>2 DEF WalkInv, OnlyConditionsSkip, IsUnderWay
  <2> QED BY <2>3, <2>4
<1> QED BY <1>1, WalkCorrect, PTL

-------------------------------------------------------------------------------
Patch ==
  [pc : {"sent", "checked", "answered"}, definition : SUBSET StepIds, nodes : SUBSET StepIds,
   expected : Nat, enabled : {"as it is", "on", "off"},
   answer : {"none", "saved", "conflict", "error"}, version : Nat]

Tab == [open : BOOLEAN, version : Nat, nodes : SUBSET StepIds, dirty : BOOLEAN]

DefinitionsTypeOK ==
  /\ workflow \in [status : {"none", "live", "deleted"}, enabled : BOOLEAN]
  /\ versions \in Seq((SUBSET StepIds) \ {{}}) /\ (versions = <<>> <=> workflow.status = "none")
  /\ layout \in [version : Nat, nodes : SUBSET StepIds]
  /\ tab \in [Tabs -> Tab] /\ patch \in [Senders -> {NoPatch} \cup Patch]

(* An open tab has all the steps of the version that it goes on from.        *)
TabsAreBased ==
  \A t \in Tabs : tab[t].open =>
    tab[t].version \in 1..Current /\ versions[tab[t].version] \subseteq tab[t].nodes

(* A patch has all the steps of the version it expects, or places them.      *)
PatchesAreBased ==
  \A r \in Senders : patch[r] # NoPatch /\ patch[r].nodes \cup patch[r].definition # {} =>
    /\ patch[r].expected \in 1..Current
    /\ \/ patch[r].definition = {} /\ patch[r].nodes = versions[patch[r].expected]
       \/ /\ patch[r].nodes = patch[r].definition
          /\ versions[patch[r].expected] \subseteq patch[r].definition

(* The tab whose save is in flight is open, and has at least what it sent.   *)
SavesAreOfTheirTabs ==
  \A t \in Tabs : patch[t] # NoPatch =>
    /\ tab[t].open /\ patch[t].definition # {} /\ patch[t].definition \subseteq tab[t].nodes
    /\ patch[t].answer = "saved" =>
         patch[t].version \in 1..Current /\ versions[patch[t].version] = patch[t].definition

LayoutIsOfAVersion == layout = NoLayout \/ layout.version \in 1..Current

DefinitionsInv ==
  /\ DefinitionsTypeOK /\ TabsAreBased /\ PatchesAreBased /\ SavesAreOfTheirTabs
  /\ LayoutIsOfAVersion /\ SavesAreBased /\ LayoutFits

LEMMA DefinitionActions ==
  ASSUME [Next]_vars
  PROVE  \/ UNCHANGED definitionVars
         \/ WorkflowGone \/ CreateWorkflow \/ DeleteWorkflow
         \/ \E t \in Tabs : Load(t) \/ Leave(t) \/ Save(t) \/ \E s \in StepIds : AddStep(t, s)
         \/ \E r \in Clients :
              \/ \E n \in Nat : SendLayout(r, n)
              \/ \E enabled \in {"on", "off"} : SendEnabled(r, enabled)
         \/ \E r \in Senders : CheckPatch(r) \/ ApplyPatch(r) \/ Receive(r)
<1>1. 1..MaxVersions \subseteq Nat
  BY DefinitionsAssumption
<1>2. ASSUME NEW c \in Calls, DeleteWorkspace(c) PROVE WorkflowGone
  BY <1>2, Zenon DEF DeleteWorkspace
<1>3. ASSUME Next PROVE UNCHANGED definitionVars \/ WorkflowGone \/ DefinitionStep
  BY <1>2, <1>3, Zenon DEF Next
<1>4. ASSUME UNCHANGED vars PROVE UNCHANGED definitionVars
  BY <1>4 DEF vars
<1> QED BY <1>1, <1>3, <1>4 DEF DefinitionStep

(* What a step does to the rows and to the versions.                         *)
LEMMA VersionsStep ==
  ASSUME DefinitionsTypeOK, [Next]_vars
  PROVE  /\ workflow' \in [status : {"none", "live", "deleted"}, enabled : BOOLEAN]
         /\ versions' = <<>> <=> workflow'.status = "none"
         /\ \/ versions' = versions
            \/ versions = <<>> /\ versions' = <<FirstSteps>>
            \/ \E r \in Senders :
                 /\ patch[r] # NoPatch /\ patch[r].definition # {} /\ patch[r].expected = Current
                 /\ versions' = Append(versions, patch[r].definition)
<1>1. ASSUME NEW r \in Senders, ApplyPatch(r)
      PROVE  /\ workflow' \in [status : {"none", "live", "deleted"}, enabled : BOOLEAN]
             /\ workflow'.status = workflow.status
             /\ \/ versions' = versions
                \/ /\ workflow.status = "live" /\ patch[r] # NoPatch
                   /\ patch[r].definition # {} /\ patch[r].expected = Current
                   /\ versions' = Append(versions, patch[r].definition)
  <2>1. patch[r] # NoPatch
    <3>1. patch[r].pc = "checked"
      BY <1>1, Zenon DEF ApplyPatch
    <3> QED BY <3>1 DEF NoPatch
  <2>2. workflow' = workflow \/ \E e \in BOOLEAN : workflow' = [workflow EXCEPT !.enabled = e]
    BY <1>1 DEF ApplyPatch
  <2>3. \/ versions' = versions
        \/ /\ workflow.status = "live" /\ patch[r].definition # {} /\ patch[r].expected = Current
           /\ versions' = Append(versions, patch[r].definition)
    BY <1>1 DEF ApplyPatch, IsBased
  <2> QED BY <2>1, <2>2, <2>3 DEF DefinitionsTypeOK
<1>2. ASSUME CreateWorkflow
      PROVE  /\ versions = <<>> /\ versions' = <<FirstSteps>>
             /\ workflow' \in [status : {"live"}, enabled : BOOLEAN]
  BY <1>2 DEF CreateWorkflow, DefinitionsTypeOK
<1>3. ASSUME WorkflowGone \/ DeleteWorkflow
      PROVE  /\ versions' = versions
             /\ workflow' \in [status : {"none", "live", "deleted"}, enabled : BOOLEAN]
             /\ workflow'.status = "none" <=> workflow.status = "none"
  <2>1. CASE WorkflowGone
    BY <2>1 DEF WorkflowGone, DefinitionsTypeOK
  <2>2. CASE DeleteWorkflow
    BY <2>2 DEF DeleteWorkflow, DefinitionsTypeOK
  <2> QED BY <1>3, <2>1, <2>2
<1>4. \/ UNCHANGED <<workflow, versions>> \/ WorkflowGone \/ CreateWorkflow \/ DeleteWorkflow
      \/ \E r \in Senders : ApplyPatch(r)
  BY DefinitionActions
     DEF definitionVars, Load, Leave, Save, AddStep, SendLayout, SendEnabled, Send, CheckPatch, Receive
<1>5. ASSUME NEW x PROVE <<x>> # <<>> /\ Append(versions, x) # <<>>
  BY DEF DefinitionsTypeOK
<1> QED BY <1>1, <1>2, <1>3, <1>4, <1>5 DEF DefinitionsTypeOK

LEMMA VersionsStay ==
  ASSUME DefinitionsTypeOK, [Next]_vars
  PROVE  /\ versions' \in Seq((SUBSET StepIds) \ {{}})
         /\ Current \in Nat /\ Current' \in Nat /\ Current <= Current'
         /\ \A n \in 1..Current : n \in 1..Current' /\ versions'[n] = versions[n]
<1> DEFINE Definitions1 == (SUBSET StepIds) \ {{}}
<1>1. versions \in Seq(Definitions1) /\ FirstSteps \in Definitions1
  BY DefinitionsAssumption DEF DefinitionsTypeOK
<1>2. ASSUME NEW r \in Senders, patch[r] # NoPatch, patch[r].definition # {}
      PROVE  patch[r].definition \in Definitions1
  BY <1>2 DEF DefinitionsTypeOK, Patch
<1> HIDE DEF Definitions1
<1> DEFINE Stay == /\ versions' \in Seq(Definitions1)
                   /\ Current \in Nat /\ Current' \in Nat /\ Current <= Current'
                   /\ \A n \in 1..Current : n \in 1..Current' /\ versions'[n] = versions[n]
<1>3. ASSUME versions' = versions PROVE Stay
  BY <1>1, <1>3 DEF Current
<1>4. ASSUME versions = <<>>, versions' = <<FirstSteps>> PROVE Stay
  BY <1>1, <1>4 DEF Current
<1>5. ASSUME NEW x \in Definitions1, versions' = Append(versions, x)
      PROVE  Stay
  BY <1>1, <1>5 DEF Current
<1> QED BY <1>2, <1>3, <1>4, <1>5, VersionsStep DEF Definitions1

LEMMA LayoutStep ==
  ASSUME DefinitionsInv, [Next]_vars
  PROVE  layout' \in [version : Nat, nodes : SUBSET StepIds] /\ LayoutIsOfAVersion' /\ LayoutFits'
<1>1. /\ DefinitionsTypeOK /\ layout \in [version : Nat, nodes : SUBSET StepIds]
      /\ LayoutIsOfAVersion /\ LayoutFits
  BY DEF DefinitionsInv, DefinitionsTypeOK
<1>2. ASSUME NEW r \in Senders, ApplyPatch(r), layout' # layout
      PROVE  /\ patch[r] \in Patch /\ patch[r].nodes # {}
             /\ layout' = [version |-> Len(versions'), nodes |-> patch[r].nodes]
             /\ patch[r].expected = Current
             /\ versions' = IF patch[r].definition = {} THEN versions
                            ELSE Append(versions, patch[r].definition)
  <2>1. patch[r].pc = "checked"
    BY <1>2, Zenon DEF ApplyPatch
  <2>2. patch[r] \in Patch
    BY <1>1, <2>1 DEF DefinitionsTypeOK, NoPatch
  <2> QED BY <1>2, <2>2 DEF ApplyPatch, IsBased
<1>3. CASE layout' = layout
  <2>1. LayoutIsOfAVersion'
    BY <1>1, <1>3, VersionsStay DEF LayoutIsOfAVersion, NoLayout
  <2>2. ASSUME layout # NoLayout, layout.version = Current' PROVE layout.nodes = versions'[Current']
    <3>1. Current' = Current /\ layout.version = Current /\ Current \in 1..Current
      BY <1>1, <2>2, VersionsStay DEF LayoutIsOfAVersion
    <3>2. layout.nodes = versions[Current]
      BY <1>1, <2>2, <3>1 DEF LayoutFits, Definition
    <3> QED BY <1>1, <3>1, <3>2, VersionsStay
  <2> QED BY <1>1, <1>3, <2>1, <2>2 DEF LayoutFits, Definition
<1>4. CASE layout' # layout
  <2>1. PICK r \in Senders : ApplyPatch(r)
    BY <1>4, DefinitionActions
       DEF definitionVars, WorkflowGone, CreateWorkflow, DeleteWorkflow, Load, Leave, Save, AddStep,
           SendLayout, SendEnabled, Send, CheckPatch, Receive
  <2>2. /\ patch[r] \in Patch /\ patch[r].nodes # {}
        /\ layout' = [version |-> Current', nodes |-> patch[r].nodes]
        /\ patch[r].expected = Current
        /\ versions' = IF patch[r].definition = {} THEN versions
                       ELSE Append(versions, patch[r].definition)
    BY <1>2, <1>4, <2>1 DEF Current
  <2>3. /\ Current \in 1..Current
        /\ \/ patch[r].definition = {} /\ patch[r].nodes = versions[Current]
           \/ patch[r].nodes = patch[r].definition
    <3>1. patch[r].pc # "none"
      BY <2>2 DEF Patch
    <3>2. patch[r] # NoPatch
      BY <3>1 DEF NoPatch
    <3> QED BY <2>2, <3>2 DEF DefinitionsInv, PatchesAreBased
  <2>4. Current' \in 1..Current' /\ Current' \in Nat /\ versions'[Current'] = patch[r].nodes
    <3>1. CASE patch[r].definition = {}
      BY <1>1, <2>2, <2>3, <3>1, VersionsStay DEF Current
    <3>2. CASE patch[r].definition # {}
      BY <1>1, <2>2, <2>3, <3>2 DEF Current, DefinitionsTypeOK
    <3> QED BY <3>1, <3>2
  <2> QED BY <2>2, <2>4 DEF LayoutIsOfAVersion, LayoutFits, Definition, Patch
<1> QED BY <1>1, <1>3, <1>4

LEMMA BasedStep ==
  ASSUME DefinitionsInv, [Next]_vars
  PROVE  SavesAreBased'
<1>1. /\ DefinitionsTypeOK /\ \A n \in 1..Current - 1 : versions[n] \subseteq versions[n + 1]
  BY DEF DefinitionsInv, SavesAreBased
<1>2. CASE versions' = versions
  BY <1>1, <1>2 DEF SavesAreBased, Current
<1>3. CASE versions' = <<FirstSteps>>
  BY <1>3 DEF SavesAreBased, Current
<1>4. ASSUME NEW r \in Senders, patch[r] # NoPatch, patch[r].definition # {},
             patch[r].expected = Current, versions' = Append(versions, patch[r].definition)
      PROVE  SavesAreBased'
  <2>1. Current \in 1..Current /\ versions[Current] \subseteq patch[r].definition
    BY <1>4 DEF DefinitionsInv, PatchesAreBased
  <2>2. /\ Current' = Current + 1 /\ versions'[Current + 1] = patch[r].definition
        /\ Current \in Nat /\ \A n \in 1..Current : versions'[n] = versions[n]
    BY <1>1, <1>4 DEF DefinitionsTypeOK, Current
  <2>3. ASSUME NEW n \in 1..Current' - 1 PROVE versions'[n] \subseteq versions'[n + 1]
    BY <1>1, <2>1, <2>2
  <2> QED BY <2>3 DEF SavesAreBased
<1> QED BY <1>1, <1>2, <1>3, <1>4, VersionsStep

Sent(definition, nodes, expected, enabled) ==
  [pc |-> "sent", definition |-> definition, nodes |-> nodes, expected |-> expected,
   enabled |-> enabled, answer |-> "none", version |-> 0]

Checked(p) == [p EXCEPT !.pc = "checked"]
Answered(p, a, v) == [p EXCEPT !.pc = "answered", !.answer = a, !.version = v]

(* What a step makes of a patch: it is dropped, sent, or carries on as it    *)
(* is, and is answered as saved when its definition is the last version.     *)
LEMMA PatchIsMovedBy ==
  ASSUME DefinitionsTypeOK, [Next]_vars, NEW r \in Senders
  PROVE  \/ patch'[r] = patch[r] \/ patch'[r] = NoPatch
         \/ /\ r \in Tabs /\ Save(r)
            /\ patch'[r] = Sent(tab[r].nodes, tab[r].nodes, tab[r].version, "as it is")
         \/ /\ r \in Clients
            /\ \E n \in 1..Current :
                 patch'[r] = Sent({}, versions[n], n, "as it is")
         \/ /\ r \in Clients
            /\ \E e \in {"on", "off"} :
                 patch'[r] = Sent({}, {}, 0, e)
         \/ /\ patch[r] \in Patch
            /\ \/ patch'[r] = Checked(patch[r])
               \/ \E a \in {"error", "conflict"} :
                    patch'[r] = Answered(patch[r], a, 0)
               \/ /\ patch'[r] = Answered(patch[r], "saved", Current')
                  /\ versions' = IF patch[r].definition = {} THEN versions
                                 ELSE Append(versions, patch[r].definition)
<1>1. patch \in [Senders -> {NoPatch} \cup Patch]
  BY DEF DefinitionsTypeOK
<1>2. ASSUME NEW q \in Senders, patch[q].pc \in {"sent", "checked"}
      PROVE  patch[q] \in Patch
  BY <1>1, <1>2 DEF NoPatch
<1>3. ASSUME NEW t \in Tabs, Save(t), patch'[r] # patch[r]
      PROVE  /\ r = t
             /\ patch'[r] = Sent(tab[r].nodes, tab[r].nodes, tab[r].version, "as it is")
  BY <1>1, <1>3 DEF Save, Send, Sent
<1>4. ASSUME NEW q \in Clients, NEW n \in Nat, SendLayout(q, n), patch'[r] # patch[r]
      PROVE  /\ r = q /\ n \in 1..Current
             /\ patch'[r] = Sent({}, versions[n], n, "as it is")
  BY <1>1, <1>4 DEF SendLayout, Send, Sent
<1>5. ASSUME NEW q \in Clients, NEW e \in {"on", "off"}, SendEnabled(q, e), patch'[r] # patch[r]
      PROVE  /\ r = q
             /\ patch'[r] = Sent({}, {}, 0, e)
  BY <1>1, <1>5 DEF SendEnabled, Send, Sent
<1>6. ASSUME NEW q \in Senders, CheckPatch(q), patch'[r] # patch[r]
      PROVE  /\ patch[r] \in Patch
             /\ \/ patch'[r] = Checked(patch[r])
                \/ \E a \in {"error", "conflict"} :
                     patch'[r] = Answered(patch[r], a, 0)
  <2>1. patch[q].pc = "sent"
    BY <1>6, Zenon DEF CheckPatch
  <2>2. \/ patch' = [patch EXCEPT ![q].pc = "checked"]
        \/ patch' = [patch EXCEPT ![q].pc = "answered", ![q].answer = "error", ![q].version = 0]
    BY <1>6, Zenon DEF CheckPatch, Answer
  <2>3. patch[q] \in Patch
    BY <1>2, <2>1
  <2> QED BY <1>1, <1>6, <2>2, <2>3 DEF Checked, Answered
<1>7. ASSUME NEW q \in Senders, ApplyPatch(q), patch'[r] # patch[r]
      PROVE  /\ patch[r] \in Patch
             /\ \/ \E a \in {"error", "conflict"} :
                     patch'[r] = Answered(patch[r], a, 0)
                \/ /\ patch'[r] = Answered(patch[r], "saved", Current')
                   /\ versions' = IF patch[r].definition = {} THEN versions
                                  ELSE Append(versions, patch[r].definition)
  <2>1. patch[q].pc = "checked"
    BY <1>7, Zenon DEF ApplyPatch
  <2>2. patch[q] \in Patch
    BY <1>2, <2>1
  <2>3. \/ \E a \in {"error", "conflict"} :
             patch' = [patch EXCEPT ![q].pc = "answered", ![q].answer = a, ![q].version = 0]
        \/ /\ patch' = [patch EXCEPT ![q].pc = "answered", ![q].answer = "saved",
                                     ![q].version = Len(versions')]
           /\ versions' = IF patch[q].definition = {} THEN versions
                          ELSE Append(versions, patch[q].definition)
    BY <1>7 DEF ApplyPatch, Answer
  <2> QED BY <1>1, <1>7, <2>2, <2>3 DEF Current, Answered
<1>8. ASSUME NEW q \in Senders, Receive(q), patch'[r] # patch[r]
      PROVE  patch'[r] = NoPatch
  BY <1>1, <1>8 DEF Receive
<1>9. \/ patch' = patch
      \/ \E t \in Tabs : Save(t)
      \/ \E q \in Clients :
           \/ \E n \in Nat : SendLayout(q, n)
           \/ \E e \in {"on", "off"} : SendEnabled(q, e)
      \/ \E q \in Senders : CheckPatch(q) \/ ApplyPatch(q) \/ Receive(q)
  BY DefinitionActions
     DEF definitionVars, WorkflowGone, CreateWorkflow, DeleteWorkflow, Load, Leave, AddStep
<1> QED BY <1>3, <1>4, <1>5, <1>6, <1>7, <1>8, <1>9

IsSent(x, definition, nodes, expected) ==
  /\ x \in Patch /\ x.definition = definition /\ x.nodes = nodes /\ x.expected = expected
  /\ x.answer = "none"

LEMMA SentIsAPatch ==
  ASSUME NEW definition \in SUBSET StepIds, NEW nodes \in SUBSET StepIds, NEW expected \in Nat,
         NEW enabled \in {"as it is", "on", "off"}
  PROVE  IsSent(Sent(definition, nodes, expected, enabled), definition, nodes, expected)
BY DEF IsSent, Sent, Patch

IsCarriedOn(x, p, a, v) ==
  /\ x \in Patch /\ x.definition = p.definition /\ x.nodes = p.nodes /\ x.expected = p.expected
  /\ x.answer = a /\ x.version = v

LEMMA CheckedIsAPatch ==
  ASSUME NEW p \in Patch
  PROVE  IsCarriedOn(Checked(p), p, p.answer, p.version)
BY DEF Checked, Patch, IsCarriedOn

LEMMA AnsweredIsAPatch ==
  ASSUME NEW p \in Patch, NEW a \in {"saved", "error", "conflict"}, NEW v \in Nat
  PROVE  IsCarriedOn(Answered(p, a, v), p, a, v)
BY DEF Answered, Patch, IsCarriedOn

LEMMA NoPatchIsNone ==
  NoPatch \notin Patch
BY DEF Patch, NoPatch

LEMMA PatchStep ==
  ASSUME DefinitionsInv, [Next]_vars
  PROVE  patch' \in [Senders -> {NoPatch} \cup Patch] /\ PatchesAreBased'
<1>1. /\ DefinitionsTypeOK /\ patch \in [Senders -> {NoPatch} \cup Patch] /\ tab \in [Tabs -> Tab]
      /\ versions \in Seq((SUBSET StepIds) \ {{}}) /\ TabsAreBased /\ PatchesAreBased
  BY DEF DefinitionsInv, DefinitionsTypeOK
<1>2. ASSUME NEW r \in Senders
      PROVE  /\ patch'[r] \in {NoPatch} \cup Patch
             /\ patch'[r] # NoPatch /\ patch'[r].nodes \cup patch'[r].definition # {} =>
                  /\ patch'[r].expected \in 1..Current
                  /\ \/ patch'[r].definition = {} /\ patch'[r].nodes = versions[patch'[r].expected]
                     \/ /\ patch'[r].nodes = patch'[r].definition
                        /\ versions[patch'[r].expected] \subseteq patch'[r].definition
  <2>1. CASE patch'[r] = patch[r] \/ patch'[r] = NoPatch
    BY <1>1, <2>1 DEF PatchesAreBased
  <2>2. ASSUME /\ r \in Tabs /\ Save(r)
               /\ patch'[r] = Sent(tab[r].nodes, tab[r].nodes, tab[r].version, "as it is")
        PROVE  /\ patch'[r] \in Patch /\ patch'[r].expected \in 1..Current
               /\ patch'[r].nodes = patch'[r].definition
               /\ versions[patch'[r].expected] \subseteq patch'[r].definition
    <3>1. tab[r].nodes \in SUBSET StepIds /\ tab[r].version \in Nat /\ tab[r].open
      BY <1>1, <2>2 DEF Save, Tab
    <3>2. tab[r].version \in 1..Current /\ versions[tab[r].version] \subseteq tab[r].nodes
      BY <1>1, <2>2, <3>1 DEF TabsAreBased
    <3>3. IsSent(patch'[r], tab[r].nodes, tab[r].nodes, tab[r].version)
      BY <2>2, <3>1, SentIsAPatch, Zenon
    <3> QED BY <3>2, <3>3 DEF IsSent
  <2>3. ASSUME NEW n \in 1..Current,
               patch'[r] = Sent({}, versions[n], n, "as it is")
        PROVE  patch'[r] \in Patch /\ patch'[r].expected \in 1..Current
               /\ patch'[r].definition = {} /\ patch'[r].nodes = versions[patch'[r].expected]
    <3>1. versions[n] \in SUBSET StepIds /\ n \in Nat /\ {} \in SUBSET StepIds
      BY <1>1 DEF Current
    <3>2. IsSent(patch'[r], {}, versions[n], n)
      BY <2>3, <3>1, SentIsAPatch, Zenon
    <3> QED BY <3>2 DEF IsSent
  <2>4. ASSUME NEW e \in {"on", "off"},
               patch'[r] = Sent({}, {}, 0, e)
        PROVE  patch'[r] \in Patch /\ patch'[r].nodes = {} /\ patch'[r].definition = {}
    <3>1. {} \in SUBSET StepIds /\ 0 \in Nat /\ e \in {"as it is", "on", "off"}
      OBVIOUS
    <3>2. IsSent(patch'[r], {}, {}, 0)
      BY <2>4, <3>1, SentIsAPatch, Zenon
    <3> QED BY <3>2 DEF IsSent
  <2>5. ASSUME /\ patch[r] \in Patch
               /\ \/ patch'[r] = Checked(patch[r])
                  \/ \E a \in {"error", "conflict"} :
                       patch'[r] = Answered(patch[r], a, 0)
                  \/ patch'[r] = Answered(patch[r], "saved", Current')
        PROVE  /\ patch'[r] \in Patch /\ patch'[r].nodes = patch[r].nodes
               /\ patch'[r].definition = patch[r].definition /\ patch'[r].expected = patch[r].expected
               /\ patch[r] # NoPatch
    <3>1. Current' \in Nat /\ 0 \in Nat
      BY <1>1, VersionsStay
    <3>2. \E a, v : IsCarriedOn(patch'[r], patch[r], a, v)
      BY <2>5, <3>1, CheckedIsAPatch, AnsweredIsAPatch, Zenon
    <3> QED BY <2>5, <3>2, NoPatchIsNone DEF IsCarriedOn
  <2>6. CASE /\ patch'[r] \in Patch /\ patch'[r].nodes = patch[r].nodes
             /\ patch'[r].definition = patch[r].definition /\ patch'[r].expected = patch[r].expected
             /\ patch[r] # NoPatch
    BY <1>1, <2>6 DEF PatchesAreBased
  <2> QED BY <1>1, <2>1, <2>2, <2>3, <2>4, <2>5, <2>6, PatchIsMovedBy
<1>3. patch' = [r \in Senders |-> patch'[r]]
  BY DefinitionActions, <1>1
     DEF definitionVars, WorkflowGone, CreateWorkflow, DeleteWorkflow, Load, Leave, AddStep, Save,
         SendLayout, SendEnabled, Send, CheckPatch, ApplyPatch, Receive, Answer
<1>4. \A n \in 1..Current : n \in 1..Current' /\ versions'[n] = versions[n]
  BY <1>1, VersionsStay
<1> QED BY <1>2, <1>3, <1>4 DEF PatchesAreBased

LEMMA TabStep ==
  ASSUME DefinitionsInv, [Next]_vars
  PROVE  tab' \in [Tabs -> Tab] /\ TabsAreBased'
<1>1. /\ DefinitionsTypeOK /\ patch \in [Senders -> {NoPatch} \cup Patch] /\ tab \in [Tabs -> Tab]
      /\ versions \in Seq((SUBSET StepIds) \ {{}}) /\ TabsAreBased /\ SavesAreOfTheirTabs
  BY DEF DefinitionsInv, DefinitionsTypeOK
<1>2. \A n \in 1..Current : n \in 1..Current' /\ versions'[n] = versions[n]
  BY <1>1, VersionsStay
<1> DEFINE Based(x) == x.open => x.version \in 1..Current /\ versions[x.version] \subseteq x.nodes
<1>3. ASSUME NEW t \in Tabs, NEW x \in Tab, Based(x), tab' = [tab EXCEPT ![t] = x]
      PROVE  tab' \in [Tabs -> Tab] /\ TabsAreBased'
  BY <1>1, <1>2, <1>3 DEF TabsAreBased
<1>4. ASSUME NEW t \in Tabs, Load(t) PROVE tab' \in [Tabs -> Tab] /\ TabsAreBased'
  <2> DEFINE x == [open |-> TRUE, version |-> Current, nodes |-> Definition, dirty |-> FALSE]
  <2>1. Current \in 1..Current /\ Current \in Nat /\ Definition \subseteq StepIds
    BY <1>1, <1>4 DEF Load, Current, Definition, DefinitionsTypeOK
  <2>2. x \in Tab /\ Based(x)
    BY <2>1 DEF Tab, Definition
  <2>3. tab' = [tab EXCEPT ![t] = x]
    BY <1>4 DEF Load
  <2> QED BY <1>3, <2>2, <2>3
<1>5. ASSUME NEW t \in Tabs, Leave(t) PROVE tab' \in [Tabs -> Tab] /\ TabsAreBased'
  BY <1>3, <1>5 DEF Leave, Closed, Tab
<1>6. ASSUME NEW t \in Tabs, NEW s \in StepIds, AddStep(t, s)
      PROVE  tab' \in [Tabs -> Tab] /\ TabsAreBased'
  <2> DEFINE x == [tab[t] EXCEPT !.nodes = tab[t].nodes \cup {s}, !.dirty = TRUE]
  <2>1. x \in Tab /\ Based(x)
    BY <1>1 DEF Tab, TabsAreBased
  <2>2. tab' = [tab EXCEPT ![t] = x]
    BY <1>1, <1>6 DEF AddStep
  <2> QED BY <1>3, <2>1, <2>2
<1>7. ASSUME NEW t \in Tabs, Receive(t) PROVE tab' \in [Tabs -> Tab] /\ TabsAreBased'
  <2>1. patch[t].pc = "answered" /\ patch[t] \in Patch /\ patch[t] # NoPatch
    <3>1. patch[t].pc = "answered"
      BY <1>7, Zenon DEF Receive
    <3> QED BY <1>1, <3>1 DEF NoPatch, Senders
  <2>2. \/ /\ patch[t].answer = "saved"
           /\ tab' = [tab EXCEPT ![t].version = patch[t].version, ![t].dirty = FALSE]
        \/ tab' = [tab EXCEPT ![t].dirty = TRUE]
    BY <1>7, DefinitionsAssumption DEF Receive
  <2>3. CASE patch[t].answer = "saved"
             /\ tab' = [tab EXCEPT ![t].version = patch[t].version, ![t].dirty = FALSE]
    <3> DEFINE x == [tab[t] EXCEPT !.version = patch[t].version, !.dirty = FALSE]
    <3>1. /\ patch[t].version \in 1..Current
          /\ versions[patch[t].version] \subseteq tab[t].nodes /\ patch[t].version \in Nat
      BY <1>1, <2>1, <2>3 DEF SavesAreOfTheirTabs, Patch
    <3>2. x \in Tab /\ Based(x)
      BY <1>1, <3>1 DEF Tab
    <3>3. tab' = [tab EXCEPT ![t] = x]
      BY <1>1, <2>3
    <3> QED BY <1>3, <3>2, <3>3
  <2>4. CASE tab' = [tab EXCEPT ![t].dirty = TRUE]
    <3> DEFINE x == [tab[t] EXCEPT !.dirty = TRUE]
    <3>1. x \in Tab /\ Based(x)
      BY <1>1 DEF Tab, TabsAreBased
    <3>2. tab' = [tab EXCEPT ![t] = x]
      BY <1>1, <2>4
    <3> QED BY <1>3, <3>1, <3>2
  <2> QED BY <2>2, <2>3, <2>4
<1>8. ASSUME NEW r \in Clients, Receive(r) PROVE tab' = tab
  BY <1>8, DefinitionsAssumption DEF Receive
<1>9. CASE tab' = tab
  BY <1>1, <1>2, <1>9 DEF TabsAreBased
<1>10. \/ tab' = tab
       \/ \E t \in Tabs : Load(t) \/ Leave(t) \/ \E s \in StepIds : AddStep(t, s)
       \/ \E r \in Senders : Receive(r)
  BY DefinitionActions
     DEF definitionVars, WorkflowGone, CreateWorkflow, DeleteWorkflow, Save, SendLayout, SendEnabled,
         Send, CheckPatch, ApplyPatch
<1> QED BY <1>4, <1>5, <1>6, <1>7, <1>8, <1>9, <1>10 DEF Senders

(* A tab whose save is in flight is not closed, and loses no step.           *)
LEMMA TabKeepsItsSteps ==
  ASSUME DefinitionsInv, [Next]_vars, NEW t \in Tabs, patch[t] # NoPatch, patch'[t] # NoPatch
  PROVE  tab'[t].open /\ tab[t].nodes \subseteq tab'[t].nodes
<1>1. tab \in [Tabs -> Tab] /\ patch \in [Senders -> {NoPatch} \cup Patch] /\ tab[t].open
  BY DEF DefinitionsInv, DefinitionsTypeOK, SavesAreOfTheirTabs
<1>2. ASSUME NEW u \in Tabs, Load(u) \/ Leave(u) PROVE tab'[t] = tab[t]
  BY <1>1, <1>2 DEF Load, Leave
<1>3. ASSUME NEW u \in Tabs, NEW s \in StepIds, AddStep(u, s)
      PROVE  tab'[t].open /\ tab[t].nodes \subseteq tab'[t].nodes
  <2>1. tab' = [tab EXCEPT ![u] = [tab[u] EXCEPT !.nodes = tab[u].nodes \cup {s}, !.dirty = TRUE]]
    BY <1>1, <1>3 DEF AddStep
  <2>2. CASE u = t
    BY <1>1, <2>1, <2>2 DEF Tab
  <2>3. CASE u # t
    BY <1>1, <2>1, <2>3
  <2> QED BY <2>2, <2>3
<1>4. ASSUME NEW r \in Senders, Receive(r) PROVE tab'[t] = tab[t]
  <2>1. t # r
    BY <1>1, <1>4 DEF Receive, Senders
  <2>2. \/ tab' = tab \/ tab' = [tab EXCEPT ![r].dirty = TRUE]
        \/ tab' = [tab EXCEPT ![r].version = patch[r].version, ![r].dirty = FALSE]
    BY <1>4 DEF Receive
  <2> QED BY <1>1, <2>1, <2>2
<1>5. \/ tab' = tab
      \/ \E u \in Tabs : Load(u) \/ Leave(u) \/ \E s \in StepIds : AddStep(u, s)
      \/ \E r \in Senders : Receive(r)
  BY DefinitionActions
     DEF definitionVars, WorkflowGone, CreateWorkflow, DeleteWorkflow, Save, SendLayout, SendEnabled,
         Send, CheckPatch, ApplyPatch
<1> QED BY <1>1, <1>2, <1>3, <1>4, <1>5

LEMMA SavesStep ==
  ASSUME DefinitionsInv, [Next]_vars
  PROVE  SavesAreOfTheirTabs'
<1>1. /\ DefinitionsTypeOK /\ patch \in [Senders -> {NoPatch} \cup Patch] /\ tab \in [Tabs -> Tab]
      /\ versions \in Seq((SUBSET StepIds) \ {{}}) /\ TabsAreBased /\ SavesAreOfTheirTabs
  BY DEF DefinitionsInv, DefinitionsTypeOK
<1>2. SUFFICES ASSUME NEW t \in Tabs, patch'[t] # NoPatch
               PROVE  /\ tab'[t].open /\ patch'[t].definition # {}
                      /\ patch'[t].definition \subseteq tab'[t].nodes
                      /\ patch'[t].answer = "saved" =>
                           /\ patch'[t].version \in 1..Current'
                           /\ versions'[patch'[t].version] = patch'[t].definition
  BY DEF SavesAreOfTheirTabs
<1>3. t \in Senders /\ t \notin Clients
  BY DefinitionsAssumption DEF Senders
<1>4. \A n \in 1..Current : n \in 1..Current' /\ versions'[n] = versions[n]
  BY <1>1, VersionsStay
<1>5. CASE /\ Save(t)
           /\ patch'[t] = Sent(tab[t].nodes, tab[t].nodes, tab[t].version, "as it is")
  <2>1. tab' = tab /\ tab[t].open
    BY <1>5 DEF Save, Send
  <2>2. tab[t].nodes \in SUBSET StepIds /\ tab[t].version \in Nat
    BY <1>1 DEF Tab
  <2>3. tab[t].nodes # {}
    BY <1>1, <2>1 DEF TabsAreBased, Current
  <2>4. IsSent(patch'[t], tab[t].nodes, tab[t].nodes, tab[t].version)
    BY <1>5, <2>2, SentIsAPatch, Zenon
  <2> QED BY <2>1, <2>3, <2>4 DEF IsSent
<1>6. ASSUME patch[t] # NoPatch
      PROVE  /\ tab'[t].open /\ patch[t].definition # {} /\ patch[t].definition \subseteq tab'[t].nodes
             /\ patch[t].answer = "saved" =>
                  /\ patch[t].version \in 1..Current'
                  /\ versions'[patch[t].version] = patch[t].definition
  BY <1>1, <1>2, <1>4, <1>6, TabKeepsItsSteps DEF SavesAreOfTheirTabs
<1>7. CASE patch[t] \in Patch /\ patch'[t] = Checked(patch[t])
  BY <1>6, <1>7, CheckedIsAPatch, NoPatchIsNone DEF IsCarriedOn
<1>8. ASSUME patch[t] \in Patch, NEW a \in {"error", "conflict"}, patch'[t] = Answered(patch[t], a, 0)
      PROVE  patch'[t].definition = patch[t].definition /\ patch'[t].answer # "saved"
  <2>1. a \in {"saved", "error", "conflict"} /\ a # "saved" /\ 0 \in Nat
    BY <1>8
  <2>2. IsCarriedOn(patch'[t], patch[t], a, 0)
    BY <1>8, <2>1, AnsweredIsAPatch, Zenon
  <2> QED BY <2>1, <2>2 DEF IsCarriedOn
<1>9. CASE /\ patch[t] \in Patch /\ patch'[t] = Answered(patch[t], "saved", Current')
           /\ versions' = IF patch[t].definition = {} THEN versions
                          ELSE Append(versions, patch[t].definition)
  <2>1. patch[t] # NoPatch /\ Current' \in Nat /\ "saved" \in {"saved", "error", "conflict"}
    BY <1>1, <1>9, NoPatchIsNone, VersionsStay
  <2>2. IsCarriedOn(patch'[t], patch[t], "saved", Current')
    BY <1>9, <2>1, AnsweredIsAPatch, Zenon
  <2>3. Current' \in 1..Current' /\ versions'[Current'] = patch[t].definition
    BY <1>1, <1>6, <1>9, <2>1 DEF Current
  <2> QED BY <1>6, <2>1, <2>2, <2>3 DEF IsCarriedOn
<1>10. CASE patch'[t] = patch[t]
  BY <1>2, <1>6, <1>10
<1>11. CASE patch[t] \in Patch /\ \E a \in {"error", "conflict"} : patch'[t] = Answered(patch[t], a, 0)
  BY <1>6, <1>8, <1>11, NoPatchIsNone
<1>12. \/ patch'[t] = patch[t]
       \/ Save(t) /\ patch'[t] = Sent(tab[t].nodes, tab[t].nodes, tab[t].version, "as it is")
       \/ /\ patch[t] \in Patch
          /\ \/ patch'[t] = Checked(patch[t])
             \/ \E a \in {"error", "conflict"} : patch'[t] = Answered(patch[t], a, 0)
             \/ /\ patch'[t] = Answered(patch[t], "saved", Current')
                /\ versions' = IF patch[t].definition = {} THEN versions
                               ELSE Append(versions, patch[t].definition)
  BY <1>1, <1>2, <1>3, PatchIsMovedBy
<1> QED BY <1>5, <1>7, <1>9, <1>10, <1>11, <1>12

-------------------------------------------------------------------------------
(* The invariant of a workflow: its versions, its layout, and what tabs and  *)
(* patches hold of them.                                                     *)
THEOREM DefinitionsCorrect == Spec => []DefinitionsInv
<1>1. Init => DefinitionsInv
  <2> SUFFICES ASSUME DefinitionsInit PROVE DefinitionsInv
    BY DEF Init
  <2>1. /\ versions = <<>> /\ layout = NoLayout /\ Current = 0
        /\ \A t \in Tabs : tab[t] = Closed /\ ~tab[t].open
        /\ \A r \in Senders : patch[r] = NoPatch
    BY DEF DefinitionsInit, Current, Closed
  <2>2. DefinitionsTypeOK
    BY DEF DefinitionsInit, DefinitionsTypeOK, NoLayout, Closed, Tab
  <2>3. TabsAreBased /\ PatchesAreBased /\ SavesAreOfTheirTabs
    BY <2>1 DEF TabsAreBased, PatchesAreBased, SavesAreOfTheirTabs, Senders
  <2> QED BY <2>1, <2>2, <2>3 DEF DefinitionsInv, LayoutIsOfAVersion, SavesAreBased, LayoutFits
<1>2. DefinitionsInv /\ [Next]_vars => DefinitionsInv'
  <2> SUFFICES ASSUME DefinitionsInv, [Next]_vars PROVE DefinitionsInv'
    OBVIOUS
  <2>1. DefinitionsTypeOK
    BY DEF DefinitionsInv
  <2>2. DefinitionsTypeOK'
    BY <2>1, VersionsStep, VersionsStay, LayoutStep, TabStep, PatchStep DEF DefinitionsTypeOK
  <2> QED BY <2>2, LayoutStep, BasedStep, TabStep, PatchStep, SavesStep DEF DefinitionsInv
<1> QED BY <1>1, <1>2, PTL DEF Spec

(* The version that a save expects is compared in the transaction that locks *)
(* the row: it is enough that the tab had all the steps of that version.     *)
THEOREM SavesCorrect == Spec => []SavesAreBased
BY DefinitionsCorrect, PTL DEF DefinitionsInv

(* A layout that was compared before the row was locked still fits, since    *)
(* its version is compared again, for a patch without a definition too.      *)
THEOREM LayoutCorrect == Spec => []LayoutFits
BY DefinitionsCorrect, PTL DEF DefinitionsInv

-------------------------------------------------------------------------------
Row == [role : Roles \cup {"none"}, id : Nat]

Call ==
  [pc : {"reading", "counting", "writing"}, op : {"add", "change", "remove", "leave", "delete"},
   as : Roles \cup {"none"}, target : Users, to : Roles \cup {"none"}, seen : Row, owners : Nat]

MembershipTypeOK ==
  /\ workspace \in {"none", "open", "deleted"} /\ member \in [Users -> Row]
  /\ call \in [Calls -> {NoCall} \cup Call]

(* Who is about to write on the row of an owner, so that it has another role *)
(* or is gone, has counted another owner.                                    *)
IsCounted(x) ==
  /\ x.pc = "reading" => x.op \in {"add", "change", "remove"}
  /\ x.pc = "counting" => x.op \in {"change", "leave"}
  /\ x.pc = "writing" /\ x.seen.role = "OWNER" =>
       \/ x.op = "change" /\ x.to = "OWNER"
       \/ x.op \in {"change", "leave"} /\ x.owners > 1
       \/ x.op \in {"add", "delete"}

OwnersAreCounted == \A c \in Calls : IsCounted(call[c])

MembershipInv == MembershipTypeOK /\ OwnersAreCounted

LEMMA MembershipActions ==
  ASSUME [Next]_vars
  PROVE  \/ UNCHANGED <<tenantVars, call>>
         \/ \E u \in Users : CreateWorkspace(u)
         \/ \E c \in Calls, as \in {Role(a) : a \in Users}, t \in Users :
              \/ \E r \in Roles : BeginAdd(c, as, t, r) \/ BeginChange(c, as, t, r)
              \/ BeginRemove(c, as, t)
         \/ \E c \in Calls, a \in Users : BeginLeave(c, a) \/ BeginDelete(c, a)
         \/ \E c \in Calls :
              \/ ReadTarget(c) \/ CountOwners(c)
              \/ WriteAdd(c) \/ WriteChange(c) \/ WriteRemoval(c) \/ WriteDelete(c)
<1>1. ASSUME NEW c \in Calls, DeleteWorkspace(c) PROVE WriteDelete(c)
  BY <1>1, Zenon DEF DeleteWorkspace
<1>2. ASSUME Next
      PROVE  \/ UNCHANGED <<tenantVars, call>> \/ MembershipStep
             \/ \E c \in Calls, a \in Users : BeginDelete(c, a)
             \/ \E c \in Calls : WriteDelete(c)
  BY <1>1, <1>2, Zenon DEF Next
<1>3. ASSUME UNCHANGED vars PROVE UNCHANGED <<tenantVars, call>>
  BY <1>3 DEF vars
<1> QED BY <1>2, <1>3, Zenon DEF MembershipStep

LEMMA RowsStep ==
  ASSUME MembershipTypeOK, [Next]_vars
  PROVE  workspace' \in {"none", "open", "deleted"} /\ member' \in [Users -> Row]
<1>1. /\ member \in [Users -> Row] /\ workspace \in {"none", "open", "deleted"}
      /\ call \in [Calls -> {NoCall} \cup Call]
  BY DEF MembershipTypeOK
<1>2. ASSUME NEW u \in Users, CreateWorkspace(u)
      PROVE  workspace' \in {"none", "open", "deleted"} /\ member' \in [Users -> Row]
  <2>1. [role |-> "OWNER", id |-> 1] \in Row
    BY DEF Row, Roles
  <2> QED BY <1>1, <1>2, <2>1 DEF CreateWorkspace
<1>3. ASSUME NEW c \in Calls, call[c].pc = "writing" PROVE call[c] \in Call
  BY <1>1, <1>3 DEF NoCall
<1>4. ASSUME NEW c \in Calls, WriteAdd(c)
      PROVE  workspace' = workspace /\ member' \in [Users -> Row]
  <2> DEFINE t == call[c].target
             row == [role |-> call[c].to, id |-> member[t].id + 1]
  <2>1. call[c] \in Call
    BY <1>3, <1>4, Zenon DEF WriteAdd, IsWriting
  <2>2. t \in Users /\ row \in Row
    BY <1>1, <2>1 DEF Call, Row
  <2>3. workspace' = workspace /\ (member' = member \/ member' = [member EXCEPT ![t] = row])
    BY <1>1, <1>4, <2>2 DEF WriteAdd
  <2> HIDE DEF t, row
  <2> QED BY <1>1, <2>2, <2>3
<1>5. ASSUME NEW c \in Calls, WriteChange(c) \/ WriteRemoval(c)
      PROVE  workspace' = workspace /\ member' \in [Users -> Row]
  <2>1. call[c] \in Call
    BY <1>3, <1>5, Zenon DEF WriteChange, WriteRemoval, IsWriting
  <2>2. /\ workspace' = workspace
        /\ \/ member' = member
           \/ \E r \in {call[c].to, "none"} : member' = [member EXCEPT ![call[c].target].role = r]
    BY <1>5 DEF WriteChange, WriteRemoval
  <2> QED BY <1>1, <2>1, <2>2 DEF Call, Row
<1>6. ASSUME NEW c \in Calls, WriteDelete(c)
      PROVE  workspace' \in {"none", "open", "deleted"} /\ member' \in [Users -> Row]
  BY <1>1, <1>6 DEF WriteDelete, NotMember, Row
<1> QED BY <1>1, <1>2, <1>4, <1>5, <1>6, MembershipActions
        DEF tenantVars, BeginAdd, BeginChange, BeginRemove, BeginLeave, BeginDelete, Request,
            ReadTarget, CountOwners

LEMMA OwnersAreFinite ==
  IsFiniteSet(Owners) /\ Cardinality(Owners) \in Nat
<1>1. Owners \in SUBSET Users
  BY DEF Owners
<1> QED BY <1>1, MembershipsAssumption, FS_Subset, FS_CardinalityType

LEMMA NewRequest ==
  ASSUME MembershipTypeOK, NEW c \in Calls, NEW pc \in {"reading", "counting", "writing"},
         NEW op \in {"add", "change", "remove", "leave", "delete"},
         NEW as \in Roles \cup {"none"}, NEW t \in Users, NEW r \in Roles \cup {"none"},
         NEW seen \in Row, Request(c, pc, op, as, t, r, seen),
         pc = "reading" => op \in {"add", "change", "remove"},
         pc = "counting" => op = "leave",
         pc = "writing" => op = "delete" \/ seen.role # "OWNER"
  PROVE  \E x \in Call : call' = [call EXCEPT ![c] = x] /\ IsCounted(x)
<1> DEFINE x == [pc |-> pc, op |-> op, as |-> as, target |-> t, to |-> r, seen |-> seen, owners |-> 0]
<1>1. x \in Call
  BY DEF Call
<1>2. x.pc = pc /\ x.op = op /\ x.seen = seen
  OBVIOUS
<1>3. call' = [call EXCEPT ![c] = x]
  BY DEF Request
<1> HIDE DEF x
<1> QED BY <1>1, <1>2, <1>3 DEF IsCounted

LEMMA CallStep ==
  ASSUME MembershipInv, [Next]_vars
  PROVE  \/ call' = call
         \/ \E c \in Calls : call' = [call EXCEPT ![c] = NoCall]
         \/ \E c \in Calls, x \in Call : call' = [call EXCEPT ![c] = x] /\ IsCounted(x)
<1>1. /\ MembershipTypeOK /\ member \in [Users -> Row] /\ call \in [Calls -> {NoCall} \cup Call]
      /\ OwnersAreCounted
  BY DEF MembershipInv, MembershipTypeOK
<1>2. NotMember(0) \in Row /\ \A u \in Users : Role(u) \in Roles \cup {"none"} /\ member[u].role = Role(u)
  BY <1>1 DEF NotMember, Row, Role
<1>3. ASSUME NEW c \in Calls, NEW as \in {Role(a) : a \in Users}, NEW t \in Users, NEW r \in Roles,
             BeginAdd(c, as, t, r) \/ BeginChange(c, as, t, r) \/ BeginRemove(c, as, t)
      PROVE  \E x \in Call : call' = [call EXCEPT ![c] = x] /\ IsCounted(x)
  <2>1. PICK op \in {"add", "change", "remove"}, to \in Roles \cup {"none"} :
          Request(c, "reading", op, as, t, to, NotMember(0))
    BY <1>3 DEF BeginAdd, BeginChange, BeginRemove
  <2>2. /\ as \in Roles \cup {"none"} /\ "reading" \in {"reading", "counting", "writing"}
        /\ op \in {"add", "change", "remove", "leave", "delete"}
        /\ "reading" # "counting" /\ "reading" # "writing"
    BY <1>2
  <2> QED BY <1>1, <1>2, <2>1, <2>2, NewRequest, Zenon
<1>4. ASSUME NEW c \in Calls, NEW a \in Users, BeginLeave(c, a)
      PROVE  \E x \in Call : call' = [call EXCEPT ![c] = x] /\ IsCounted(x)
  <2>1. Request(c, IF Role(a) = "OWNER" THEN "counting" ELSE "writing", "leave", Role(a), a, "none",
                member[a])
    BY <1>4 DEF BeginLeave
  <2>2. member[a] \in Row /\ Role(a) \in Roles \cup {"none"} /\ "none" \in Roles \cup {"none"}
    BY <1>1, <1>2
  <2> QED BY <1>1, <1>2, <2>1, <2>2, NewRequest
<1>5. ASSUME NEW c \in Calls, NEW a \in Users, BeginDelete(c, a)
      PROVE  \E x \in Call : call' = [call EXCEPT ![c] = x] /\ IsCounted(x)
  <2>1. Request(c, "writing", "delete", Role(a), a, "none", member[a])
    BY <1>5 DEF BeginDelete
  <2>2. member[a] \in Row /\ Role(a) \in Roles \cup {"none"} /\ "none" \in Roles \cup {"none"}
    BY <1>1, <1>2
  <2> QED BY <1>1, <2>1, <2>2, NewRequest
<1>6. ASSUME NEW c \in Calls, ReadTarget(c), call' # [call EXCEPT ![c] = NoCall]
      PROVE  \E x \in Call : call' = [call EXCEPT ![c] = x] /\ IsCounted(x)
  <2> DEFINE seen == member[call[c].target]
             pc == IF TakesAnOwner(c, seen) THEN "counting" ELSE "writing"
             x == [call[c] EXCEPT !.seen = seen, !.pc = pc]
  <2>1. call[c].pc = "reading"
    BY <1>6, Zenon DEF ReadTarget
  <2>2. call[c] \in Call /\ seen \in Row /\ call[c].op \in {"add", "change", "remove"}
    BY <1>1, <2>1 DEF NoCall, Call, OwnersAreCounted, IsCounted
  <2>3. call' = [call EXCEPT ![c] = x] /\ ~Refused(c, seen)
    BY <1>1, <1>6 DEF ReadTarget, End
  <2>4. x \in Call /\ x.pc = pc /\ x.op = call[c].op /\ x.seen = seen /\ x.to = call[c].to
    <3> HIDE DEF seen
    <3> QED BY <2>2 DEF Call
  <2>5. IsCounted(x)
    <3>1. CASE pc = "counting"
      BY <2>4, <3>1 DEF IsCounted, TakesAnOwner
    <3>2. CASE pc = "writing" /\ call[c].op = "change"
      BY <2>4, <3>2 DEF IsCounted, TakesAnOwner
    <3>3. CASE pc = "writing" /\ call[c].op \in {"add", "remove"}
      BY <2>3, <2>4, <3>3 DEF IsCounted, Refused
    <3> QED BY <2>2, <3>1, <3>2, <3>3
  <2> HIDE DEF x
  <2> QED BY <2>3, <2>4, <2>5
<1>7. ASSUME NEW c \in Calls, CountOwners(c), call' # [call EXCEPT ![c] = NoCall]
      PROVE  \E x \in Call : call' = [call EXCEPT ![c] = x] /\ IsCounted(x)
  <2> DEFINE x == [call[c] EXCEPT !.owners = Cardinality(Owners), !.pc = "writing"]
  <2>1. call[c].pc = "counting"
    BY <1>7, Zenon DEF CountOwners
  <2>2. call[c] \in Call /\ call[c].op \in {"change", "leave"}
    BY <1>1, <2>1 DEF NoCall, Call, OwnersAreCounted, IsCounted
  <2>3. call' = [call EXCEPT ![c] = x] /\ Cardinality(Owners) > 1 /\ Cardinality(Owners) \in Nat
    <3>1. /\ ~(Cardinality(Owners) <= 1)
          /\ call' = [call EXCEPT ![c].owners = Cardinality(Owners), ![c].pc = "writing"]
      BY <1>7, Zenon DEF CountOwners, End
    <3>2. Cardinality(Owners) \in Nat /\ Cardinality(Owners) > 1
      BY <3>1, OwnersAreFinite
    <3> QED BY <1>1, <3>1, <3>2
  <2>4. x \in Call /\ x.pc = "writing" /\ x.op = call[c].op /\ x.owners = Cardinality(Owners)
    BY <2>2, <2>3 DEF Call
  <2> HIDE DEF x
  <2> QED BY <2>2, <2>3, <2>4 DEF IsCounted
<1>8. ASSUME NEW c \in Calls, WriteAdd(c) \/ WriteChange(c) \/ WriteRemoval(c) \/ WriteDelete(c)
      PROVE  call' = [call EXCEPT ![c] = NoCall]
  BY <1>8 DEF WriteAdd, WriteChange, WriteRemoval, WriteDelete, End
<1>9. ASSUME NEW u \in Users, CreateWorkspace(u) PROVE call' = call
  BY <1>9 DEF CreateWorkspace
<1> DEFINE Goes(c) == \E x \in Call : call' = [call EXCEPT ![c] = x] /\ IsCounted(x)
           Ends(c) == call' = [call EXCEPT ![c] = NoCall]
<1>10. /\ \A c \in Calls, a \in Users :
             BeginLeave(c, a) \/ BeginDelete(c, a) => Goes(c)
       /\ \A c \in Calls, as \in {Role(a) : a \in Users}, t \in Users, r \in Roles :
             BeginAdd(c, as, t, r) \/ BeginChange(c, as, t, r) \/ BeginRemove(c, as, t) => Goes(c)
       /\ \A c \in Calls : ReadTarget(c) \/ CountOwners(c) => Goes(c) \/ Ends(c)
       /\ \A c \in Calls :
             WriteAdd(c) \/ WriteChange(c) \/ WriteRemoval(c) \/ WriteDelete(c) => Ends(c)
  BY <1>3, <1>4, <1>5, <1>6, <1>7, <1>8, Zenon
<1>11. \E r : r \in Roles
  BY DEF Roles
<1>12. call' = call \/ \E c \in Calls : Goes(c) \/ Ends(c)
  <2> HIDE DEF Goes, Ends
  <2> QED BY <1>9, <1>10, <1>11, MembershipActions
<1> QED BY <1>12, Zenon

(* The invariant of memberships: whoever is about to take the role of owner  *)
(* from a row, or the row, has counted another owner first                   *)
(* (requireAnotherOwner), or deletes the workspace.                          *)
THEOREM MembershipsCorrect == Spec => []MembershipInv
<1>1. Init => MembershipInv
  <2> SUFFICES ASSUME MembershipInit PROVE MembershipInv
    BY DEF Init
  <2>1. MembershipTypeOK
    BY DEF MembershipInit, MembershipTypeOK, NotMember, Row
  <2>2. \A c \in Calls : call[c].pc = "idle"
    BY DEF MembershipInit, NoCall
  <2> QED BY <2>1, <2>2 DEF MembershipInv, OwnersAreCounted, IsCounted
<1>2. MembershipInv /\ [Next]_vars => MembershipInv'
  <2> SUFFICES ASSUME MembershipInv, [Next]_vars PROVE MembershipInv'
    OBVIOUS
  <2>1. MembershipTypeOK /\ call \in [Calls -> {NoCall} \cup Call] /\ OwnersAreCounted
    BY DEF MembershipInv, MembershipTypeOK
  <2>2. IsCounted(NoCall)
    BY DEF IsCounted, NoCall
  <2>3. call' \in [Calls -> {NoCall} \cup Call] /\ \A c \in Calls : IsCounted(call'[c])
    BY <2>1, <2>2, CallStep DEF OwnersAreCounted
  <2> QED BY <2>1, <2>3, RowsStep DEF MembershipInv, MembershipTypeOK, OwnersAreCounted
<1> QED BY <1>1, <1>2, PTL DEF Spec

(* "The workspace must retain an owner.": the one way to lose the last is a  *)
(* request that writes on a row or a count that another request has changed  *)
(* since it was read, whatever requests there are and however they overlap.  *)
THEOREM OwnersCorrect == Spec => LastOwnerGoesUnseen
<1> DEFINE Unseen ==
      Owners # {} /\ Owners' = {} /\ workspace' = "open" =>
        \E c \in Calls :
          /\ call[c].pc = "writing" /\ call'[c] = NoCall
          /\ \/ call[c].seen # member[call[c].target]
             \/ call[c].owners > Cardinality(Owners)
<1>1. MembershipInv /\ [Next]_vars => Unseen
  <2> SUFFICES ASSUME MembershipInv, [Next]_vars, Owners # {}, Owners' = {}, workspace' = "open"
               PROVE  \E c \in Calls :
                        /\ call[c].pc = "writing" /\ call'[c] = NoCall
                        /\ \/ call[c].seen # member[call[c].target]
                           \/ call[c].owners > Cardinality(Owners)
    OBVIOUS
  <2>1. /\ member \in [Users -> Row] /\ call \in [Calls -> {NoCall} \cup Call] /\ OwnersAreCounted
        /\ workspace \in {"none", "open", "deleted"}
    BY DEF MembershipInv, MembershipTypeOK
  <2>2. PICK o \in Users : member[o].role = "OWNER"
    BY DEF Owners, Role
  <2>3. \A u \in Users : member'[u].role # "OWNER"
    BY DEF Owners, Role
  <2>4. member' # member
    BY <2>2, <2>3
  <2>5. ASSUME NEW u \in Users, CreateWorkspace(u) PROVE FALSE
    BY <2>1, <2>3, <2>5 DEF CreateWorkspace
  <2>6. ASSUME NEW c \in Calls, WriteDelete(c) PROVE FALSE
    BY <2>1, <2>6 DEF WriteDelete
  <2>7. ASSUME NEW c \in Calls, WriteAdd(c) PROVE FALSE
    <3>1. /\ member[call[c].target].role = "none"
          /\ \E row : member' = [member EXCEPT ![call[c].target] = row]
      BY <2>4, <2>7 DEF WriteAdd, Role
    <3>2. o # call[c].target
      BY <2>2, <3>1
    <3> QED BY <2>1, <2>2, <2>3, <3>1, <3>2
  <2>8. ASSUME NEW c \in Calls, WriteChange(c) \/ WriteRemoval(c)
        PROVE  /\ call[c].pc = "writing" /\ call'[c] = NoCall
               /\ \/ call[c].seen # member[call[c].target]
                  \/ call[c].owners > Cardinality(Owners)
    <3> DEFINE t == call[c].target
    <3>1. call[c].pc = "writing" /\ call' = [call EXCEPT ![c] = NoCall]
      BY <2>8, Zenon DEF WriteChange, WriteRemoval, IsWriting, End
    <3>2. \/ call[c].op = "change" /\ member' = [member EXCEPT ![t].role = call[c].to]
          \/ call[c].op \in {"remove", "leave"} /\ member' = [member EXCEPT ![t].role = "none"]
      BY <2>4, <2>8 DEF WriteChange, WriteRemoval, IsWriting
    <3>3. call[c] \in Call /\ t \in Users
      BY <2>1, <3>1 DEF NoCall, Call
    <3>4. o = t /\ Owners = {t} /\ (call[c].op = "change" => call[c].to # "OWNER")
      BY <2>1, <2>2, <2>3, <3>2, <3>3 DEF Owners, Role, Row
    <3>5. ASSUME call[c].seen = member[t] PROVE call[c].owners > Cardinality(Owners)
      <4>1. call[c].seen.role = "OWNER"
        BY <2>2, <3>4, <3>5
      <4>2. call[c].owners > 1
        BY <2>1, <3>1, <3>2, <3>4, <4>1 DEF OwnersAreCounted, IsCounted
      <4>3. Cardinality(Owners) = 1
        BY <3>4, FS_Singleton
      <4> QED BY <4>2, <4>3
    <3> QED BY <2>1, <3>1, <3>5
  <2> QED BY <2>4, <2>5, <2>6, <2>7, <2>8, MembershipActions
          DEF tenantVars, BeginAdd, BeginChange, BeginRemove, BeginLeave, BeginDelete, Request,
              ReadTarget, CountOwners
<1> HIDE DEF Unseen
<1>2. MembershipInv /\ [Next]_vars => [Unseen]_<<tenantVars, call>>
  BY <1>1
<1>3. Spec => [][Unseen]_<<tenantVars, call>>
  BY <1>2, MembershipsCorrect, PTL DEF Spec
<1> QED BY <1>3 DEF Unseen, LastOwnerGoesUnseen

-------------------------------------------------------------------------------
DocumentRow ==
  [status : {"none", "deleted", "PENDING", "PROCESSING", "READY", "FAILED"},
   content : Contents \cup {Absent}, metadata : Metadata \cup {Absent}, hash : Contents \cup {Absent}]

Edit ==
  [pc : {"creating", "updating", "indexing", "embedding"}, document : Documents,
   content : Contents \cup {Absent}, metadata : Metadata \cup {Absent}, seen : DocumentRow]

KnowledgeInv ==
  /\ document \in [Documents -> DocumentRow] /\ edit \in [Editors -> {NoEdit} \cup Edit]
  /\ chunks \in [Documents -> [content : Contents \cup {Absent}, metadata : Metadata \cup {Absent}]]

LEMMA KnowledgeActions ==
  ASSUME [Next]_vars
  PROVE  \/ UNCHANGED knowledgeVars
         \/ CreateBrand \/ \E status : Cascade(status) /\ UNCHANGED edit
         \/ \E d \in Documents : DeleteDocument(d)
         \/ \E e \in Editors, d \in Documents :
              \/ \E x \in Contents, m \in Metadata : BeginCreate(e, d, x, m)
              \/ \E x \in Contents \cup {Absent}, m \in Metadata \cup {Absent} : BeginUpdate(e, d, x, m)
              \/ BeginIndex(e, d)
         \/ \E e \in Editors :
              Create(e) \/ Update(e) \/ StartIndexing(e) \/ StoreChunks(e) \/ FailIndexing(e) \/ Drop(e)
<1>1. ASSUME NEW c \in Calls, DeleteWorkspace(c) PROVE \E status : Cascade(status) /\ UNCHANGED edit
  BY <1>1, Zenon DEF DeleteWorkspace
<1>2. ASSUME Next
      PROVE  UNCHANGED knowledgeVars \/ KnowledgeStep \/ \E status : Cascade(status) /\ UNCHANGED edit
  BY <1>1, <1>2, Zenon DEF Next
<1>3. ASSUME UNCHANGED vars PROVE UNCHANGED knowledgeVars
  BY <1>3 DEF vars
<1>4. ASSUME DeleteBrand PROVE \E status : Cascade(status) /\ UNCHANGED edit
  BY <1>4, Zenon DEF DeleteBrand
<1>5. ASSUME KnowledgeStep
      PROVE  \/ CreateBrand \/ DeleteBrand
             \/ \E d \in Documents : DeleteDocument(d)
             \/ \E e \in Editors, d \in Documents :
                  \/ \E x \in Contents, m \in Metadata : BeginCreate(e, d, x, m)
                  \/ \E x \in Contents \cup {Absent}, m \in Metadata \cup {Absent} : BeginUpdate(e, d, x, m)
                  \/ BeginIndex(e, d)
             \/ \E e \in Editors :
                  Create(e) \/ Update(e) \/ StartIndexing(e) \/ StoreChunks(e) \/ FailIndexing(e) \/ Drop(e)
  BY <1>5, Zenon DEF KnowledgeStep
<1> QED BY <1>2, <1>3, <1>4, <1>5, Zenon

LEMMA RowsAreRows ==
  /\ \A status \in {"none", "deleted", "PENDING", "PROCESSING", "READY", "FAILED"},
        x \in Contents \cup {Absent}, m \in Metadata \cup {Absent}, h \in Contents \cup {Absent} :
       Document(status, x, m, h) \in DocumentRow
  /\ NoDocument \in DocumentRow /\ Gone \in DocumentRow /\ Gone.status = "deleted"
BY DEF Document, NoDocument, Gone, DocumentRow

LEMMA WritingIsAnEdit ==
  ASSUME KnowledgeInv, NEW e \in Editors, edit[e].pc # "idle"
  PROVE  /\ edit[e] \in Edit /\ edit[e].document \in Documents /\ document[edit[e].document] \in DocumentRow
         /\ edit[e].seen \in DocumentRow
         /\ edit[e].content \in Contents \cup {Absent} /\ edit[e].metadata \in Metadata \cup {Absent}
BY DEF KnowledgeInv, NoEdit, Edit

(* What a request that writes makes of the row of its document.              *)
LEMMA CreateWrites ==
  ASSUME KnowledgeInv, NEW e \in Editors, Create(e)
  PROVE  /\ chunks' = chunks /\ edit' = [edit EXCEPT ![e] = NoEdit]
         /\ \/ document' = document
            \/ \E row \in DocumentRow :
                 row.status = "PENDING" /\ document' = [document EXCEPT ![edit[e].document] = row]
<1>1. edit[e].pc = "creating"
  BY Zenon DEF Create
<1> DEFINE row == Document("PENDING", edit[e].content, edit[e].metadata, Absent)
<1>2. row \in DocumentRow /\ row.status = "PENDING"
  BY <1>1, WritingIsAnEdit DEF Document, DocumentRow
<1>3. document' = document \/ document' = [document EXCEPT ![edit[e].document] = row]
  BY Zenon DEF Create, Set
<1>4. chunks' = chunks /\ edit' = [edit EXCEPT ![e] = NoEdit]
  BY Zenon DEF Create, Forget
<1> QED BY <1>2, <1>3, <1>4, Zenon

Written(row, x, m) ==
  [row EXCEPT !.content = IF x = Absent THEN @ ELSE x, !.metadata = IF m = Absent THEN @ ELSE m]

Pending(row) == [row EXCEPT !.hash = Absent, !.status = "PENDING"]

LEMMA WrittenRow ==
  ASSUME NEW row \in DocumentRow, NEW x \in Contents \cup {Absent}, NEW m \in Metadata \cup {Absent}
  PROVE  /\ Written(row, x, m) \in DocumentRow /\ Written(row, x, m).status = row.status
         /\ Written(row, x, m).hash = row.hash
         /\ Written(row, x, m).content = (IF x = Absent THEN row.content ELSE x)
         /\ m = Absent => Written(row, x, m).metadata = row.metadata
BY DEF DocumentRow, Written

LEMMA PendingRow ==
  ASSUME NEW row \in DocumentRow
  PROVE  Pending(row) \in DocumentRow /\ Pending(row).status = "PENDING"
BY DEF DocumentRow, Pending

LEMMA UpdateWrites ==
  ASSUME KnowledgeInv, NEW e \in Editors, Update(e)
  PROVE  /\ chunks' = chunks /\ edit' = [edit EXCEPT ![e] = NoEdit] /\ edit[e].pc = "updating"
         /\ \/ document' = document
            \/ \E row \in DocumentRow :
                 /\ document' = [document EXCEPT ![edit[e].document] = row]
                 /\ \/ row.status = "PENDING"
                    \/ /\ row.status = document[edit[e].document].status
                       /\ row.hash = document[edit[e].document].hash
                       /\ row.metadata = document[edit[e].document].metadata
                       /\ row.content \in {document[edit[e].document].content, edit[e].seen.content}
<1>1. edit[e].pc = "updating"
  BY Zenon DEF Update
<1> DEFINE old == document[edit[e].document]
           written == Written(old, edit[e].content, edit[e].metadata)
<1>2. /\ written \in DocumentRow /\ written.status = old.status /\ written.hash = old.hash
      /\ written.content = (IF edit[e].content = Absent THEN old.content ELSE edit[e].content)
      /\ edit[e].metadata = Absent => written.metadata = old.metadata
  <2>1. old \in DocumentRow /\ edit[e].content \in Contents \cup {Absent}
        /\ edit[e].metadata \in Metadata \cup {Absent}
    BY <1>1, WritingIsAnEdit
  <2> QED BY <2>1, WrittenRow, Zenon
<1>3. \/ document' = document
      \/ document' = [document EXCEPT ![edit[e].document] = Pending(written)]
      \/ ~ChangesIndex(e) /\ document' = [document EXCEPT ![edit[e].document] = written]
  BY Zenon DEF Update, Set, Written, Pending
<1>4. Pending(written) \in DocumentRow /\ Pending(written).status = "PENDING"
  BY <1>2, PendingRow
<1>5. ~ChangesIndex(e) =>
        /\ written.metadata = old.metadata
        /\ written.content \in {old.content, edit[e].seen.content}
  BY <1>2 DEF ChangesIndex
<1>6. chunks' = chunks /\ edit' = [edit EXCEPT ![e] = NoEdit]
  BY Zenon DEF Update, Forget
<1> HIDE DEF written
<1> QED BY <1>1, <1>2, <1>3, <1>4, <1>5, <1>6

LEMMA StartWrites ==
  ASSUME KnowledgeInv, NEW e \in Editors, StartIndexing(e) \/ FailIndexing(e)
  PROVE  /\ chunks' = chunks /\ edit[e].pc # "idle"
         /\ edit' \in {[edit EXCEPT ![e] = NoEdit], [edit EXCEPT ![e].pc = "embedding"]}
         /\ \/ document' = document
            \/ \E row \in DocumentRow :
                 row.status # "READY" /\ document' = [document EXCEPT ![edit[e].document] = row]
<1> DEFINE old == document[edit[e].document]
<1>1. edit[e].pc \in {"indexing", "embedding"}
  BY Zenon DEF StartIndexing, FailIndexing
<1>2. old \in DocumentRow
  BY <1>1, WritingIsAnEdit
<1>3. \/ document' = document
      \/ \E status \in {"PROCESSING", "FAILED"} :
           document' = [document EXCEPT ![edit[e].document] = [old EXCEPT !.status = status]]
  BY Zenon DEF StartIndexing, FailIndexing, Set
<1>4. ASSUME NEW status \in {"PROCESSING", "FAILED"}
      PROVE  [old EXCEPT !.status = status] \in DocumentRow
             /\ [old EXCEPT !.status = status].status # "READY"
  <2> HIDE DEF old
  <2> QED BY <1>2 DEF DocumentRow
<1>5. /\ chunks' = chunks
      /\ edit' \in {[edit EXCEPT ![e] = NoEdit], [edit EXCEPT ![e].pc = "embedding"]}
  BY Zenon DEF StartIndexing, FailIndexing, Forget
<1> HIDE DEF old
<1> QED BY <1>1, <1>3, <1>4, <1>5

(* Chunks are stored of what the row says, if its version is the one read.   *)
LEMMA StoreWrites ==
  ASSUME KnowledgeInv, NEW e \in Editors, StoreChunks(e)
  PROVE  /\ edit' = [edit EXCEPT ![e] = NoEdit] /\ edit[e].pc # "idle"
         /\ \E row \in DocumentRow :
              /\ document' = [document EXCEPT ![edit[e].document] = row]
              /\ row.hash = row.content
              /\ chunks' = [chunks EXCEPT ![edit[e].document] =
                              [content |-> row.content, metadata |-> row.metadata]]
<1> DEFINE old == document[edit[e].document]
           row == [old EXCEPT !.status = "READY", !.hash = edit[e].seen.content]
<1>1. edit[e].pc = "embedding"
  BY Zenon DEF StoreChunks
<1>2. /\ old.content = edit[e].seen.content /\ old.metadata = edit[e].seen.metadata
      /\ document' = [document EXCEPT ![edit[e].document] = row]
      /\ chunks' = [chunks EXCEPT ![edit[e].document] =
                      [content |-> edit[e].seen.content, metadata |-> edit[e].seen.metadata]]
  BY Zenon DEF StoreChunks, IsVersion, Set
<1>3. old \in DocumentRow /\ edit[e].seen \in DocumentRow
  BY <1>1, WritingIsAnEdit
<1>4. edit[e].seen.content \in Contents \cup {Absent}
  BY <1>3 DEF DocumentRow
<1>5. /\ row \in DocumentRow /\ row.hash = edit[e].seen.content
      /\ row.content = old.content /\ row.metadata = old.metadata
  <2> HIDE DEF old
  <2> QED BY <1>3, <1>4 DEF DocumentRow
<1>6. edit' = [edit EXCEPT ![e] = NoEdit]
  BY Zenon DEF StoreChunks, Forget
<1> HIDE DEF old, row
<1> QED BY <1>1, <1>2, <1>5, <1>6

LEMMA BeginIsAnEdit ==
  ASSUME KnowledgeInv, NEW e \in Editors, NEW d \in Documents,
         \/ \E x \in Contents, m \in Metadata : BeginCreate(e, d, x, m)
         \/ \E x \in Contents \cup {Absent}, m \in Metadata \cup {Absent} : BeginUpdate(e, d, x, m)
         \/ BeginIndex(e, d)
  PROVE  /\ UNCHANGED <<document, chunks>>
         /\ \E x \in Edit : edit' = [edit EXCEPT ![e] = x]
<1>1. /\ document[d] \in DocumentRow /\ NoDocument \in DocumentRow
      /\ [NoDocument EXCEPT !.content = document[d].content] \in DocumentRow
  BY RowsAreRows DEF KnowledgeInv, DocumentRow
<1>2. PICK pc \in {"creating", "updating", "indexing", "embedding"}, x \in Contents \cup {Absent},
           m \in Metadata \cup {Absent}, seen \in DocumentRow :
        Begin(e, pc, d, x, m, seen)
  <2>1. CASE \E x \in Contents, m \in Metadata : BeginCreate(e, d, x, m)
    BY <1>1, <2>1 DEF BeginCreate
  <2>2. CASE \E x \in Contents \cup {Absent}, m \in Metadata \cup {Absent} : BeginUpdate(e, d, x, m)
    BY <1>1, <2>2 DEF BeginUpdate
  <2>3. CASE BeginIndex(e, d)
    BY <1>1, <2>3 DEF BeginIndex
  <2> QED BY <2>1, <2>2, <2>3
<1> DEFINE new == [pc |-> pc, document |-> d, content |-> x, metadata |-> m, seen |-> seen]
<1>3. new \in Edit
  BY DEF Edit
<1>4. edit' = [edit EXCEPT ![e] = new] /\ UNCHANGED <<document, chunks>>
  BY <1>2 DEF Begin
<1> HIDE DEF new
<1> QED BY <1>3, <1>4

LEMMA EditStep ==
  ASSUME KnowledgeInv, [Next]_vars
  PROVE  edit' \in [Editors -> {NoEdit} \cup Edit]
<1>1. edit \in [Editors -> {NoEdit} \cup Edit]
  BY DEF KnowledgeInv
<1>2. ASSUME NEW e \in Editors, StartIndexing(e) \/ FailIndexing(e)
      PROVE  edit' \in [Editors -> {NoEdit} \cup Edit]
  <2>1. edit[e] \in Edit
    BY <1>2, StartWrites, WritingIsAnEdit
  <2>2. [edit[e] EXCEPT !.pc = "embedding"] \in Edit
    BY <2>1 DEF Edit
  <2> QED BY <1>1, <1>2, <2>2, StartWrites
<1>3. ASSUME NEW e \in Editors, Create(e) \/ Update(e) \/ StoreChunks(e) \/ Drop(e)
      PROVE  edit' = [edit EXCEPT ![e] = NoEdit]
  BY <1>3, CreateWrites, UpdateWrites, StoreWrites DEF Drop, Forget
<1>4. ASSUME NEW e \in Editors, NEW d \in Documents,
             \/ \E x \in Contents, m \in Metadata : BeginCreate(e, d, x, m)
             \/ \E x \in Contents \cup {Absent}, m \in Metadata \cup {Absent} : BeginUpdate(e, d, x, m)
             \/ BeginIndex(e, d)
      PROVE  edit' \in [Editors -> {NoEdit} \cup Edit]
  BY <1>1, <1>4, BeginIsAnEdit
<1>5. ASSUME \/ UNCHANGED knowledgeVars
             \/ CreateBrand \/ \E status : Cascade(status) /\ UNCHANGED edit
             \/ \E d \in Documents : DeleteDocument(d)
      PROVE  edit' = edit
  BY <1>5 DEF knowledgeVars, CreateBrand, DeleteDocument
<1> QED BY <1>1, <1>2, <1>3, <1>4, <1>5, KnowledgeActions

(* A row and its chunks are written together, and by whom.                   *)
LEMMA DocumentStep ==
  ASSUME KnowledgeInv, [Next]_vars
  PROVE  \/ UNCHANGED <<document, chunks>>
         \/ \E status : Cascade(status)
         \/ \E d \in Documents :
              /\ document' = [document EXCEPT ![d] = Gone]
              /\ chunks' = [chunks EXCEPT ![d] = NoChunks]
         \/ \E d \in Documents, row \in DocumentRow :
              /\ document' = [document EXCEPT ![d] = row]
              /\ \/ row.status # "READY" /\ chunks' = chunks
                 \/ /\ row.hash = row.content
                    /\ chunks' = [chunks EXCEPT ![d] =
                                    [content |-> row.content, metadata |-> row.metadata]]
                 \/ /\ chunks' = chunks
                    /\ row.status = document[d].status /\ row.hash = document[d].hash
                    /\ row.metadata = document[d].metadata
                    /\ \E e \in Editors :
                         /\ edit[e].pc = "updating" /\ edit' = [edit EXCEPT ![e] = NoEdit]
                         /\ row.content \in {document[d].content, edit[e].seen.content}
<1> DEFINE IsWritten(d, row) ==
      \/ row.status # "READY" /\ chunks' = chunks
      \/ /\ row.hash = row.content
         /\ chunks' = [chunks EXCEPT ![d] = [content |-> row.content, metadata |-> row.metadata]]
      \/ /\ chunks' = chunks
         /\ row.status = document[d].status /\ row.hash = document[d].hash
         /\ row.metadata = document[d].metadata
         /\ \E e \in Editors :
              /\ edit[e].pc = "updating" /\ edit' = [edit EXCEPT ![e] = NoEdit]
              /\ row.content \in {document[d].content, edit[e].seen.content}
<1>1. ASSUME NEW e \in Editors, edit[e].pc # "idle" PROVE edit[e].document \in Documents
  BY <1>1, WritingIsAnEdit
<1>2. ASSUME NEW e \in Editors,
             Create(e) \/ Update(e) \/ StartIndexing(e) \/ StoreChunks(e) \/ FailIndexing(e)
      PROVE  \/ UNCHANGED <<document, chunks>>
             \/ \E d \in Documents, row \in DocumentRow :
                  document' = [document EXCEPT ![d] = row] /\ IsWritten(d, row)
  <2>1. CASE Create(e)
    <3>1. edit[e].pc # "idle"
      BY <2>1 DEF Create
    <3> QED BY <1>1, <2>1, <3>1, CreateWrites
  <2>2. CASE Update(e)
    BY <1>1, <2>2, UpdateWrites
  <2>3. CASE StartIndexing(e) \/ FailIndexing(e)
    BY <1>1, <2>3, StartWrites
  <2>4. CASE StoreChunks(e)
    <3>1. PICK row \in DocumentRow :
            /\ document' = [document EXCEPT ![edit[e].document] = row]
            /\ row.hash = row.content
            /\ chunks' = [chunks EXCEPT ![edit[e].document] =
                            [content |-> row.content, metadata |-> row.metadata]]
      BY <2>4, StoreWrites
    <3>2. edit[e].document \in Documents
      BY <1>1, <2>4, StoreWrites
    <3>3. IsWritten(edit[e].document, row)
      BY <3>1
    <3> HIDE DEF IsWritten
    <3> QED BY <3>1, <3>2, <3>3
  <2> QED BY <1>2, <2>1, <2>2, <2>3, <2>4
<1>3. ASSUME NEW e \in Editors, Drop(e) PROVE UNCHANGED <<document, chunks>>
  BY <1>3 DEF Drop
<1>4. ASSUME NEW e \in Editors, NEW d \in Documents,
             \/ \E x \in Contents, m \in Metadata : BeginCreate(e, d, x, m)
             \/ \E x \in Contents \cup {Absent}, m \in Metadata \cup {Absent} : BeginUpdate(e, d, x, m)
             \/ BeginIndex(e, d)
      PROVE  UNCHANGED <<document, chunks>>
  BY <1>4, BeginIsAnEdit
<1>5. ASSUME NEW d \in Documents, DeleteDocument(d)
      PROVE  /\ document' = [document EXCEPT ![d] = Gone]
             /\ chunks' = [chunks EXCEPT ![d] = NoChunks]
  BY <1>5 DEF DeleteDocument, Set
<1>6. ASSUME UNCHANGED knowledgeVars \/ CreateBrand PROVE UNCHANGED <<document, chunks>>
  BY <1>6 DEF knowledgeVars, CreateBrand
<1> HIDE DEF IsWritten
<1>7. \/ UNCHANGED <<document, chunks>>
      \/ \E status : Cascade(status)
      \/ \E d \in Documents :
           /\ document' = [document EXCEPT ![d] = Gone]
           /\ chunks' = [chunks EXCEPT ![d] = NoChunks]
      \/ \E d \in Documents, row \in DocumentRow :
           document' = [document EXCEPT ![d] = row] /\ IsWritten(d, row)
  BY <1>2, <1>3, <1>4, <1>5, <1>6, KnowledgeActions
<1> QED BY <1>7, Zenon DEF IsWritten

(* The invariant of documents: rows, indexes and what edits have read keep   *)
(* their shape, whatever is deleted under an edit; a status has only the     *)
(* values of the enumeration.                                                *)
THEOREM KnowledgeCorrect == Spec => []KnowledgeInv
<1>1. Init => KnowledgeInv
  BY RowsAreRows DEF Init, KnowledgeInit, KnowledgeInv, NoChunks
<1>2. KnowledgeInv /\ [Next]_vars => KnowledgeInv'
  <2> SUFFICES ASSUME KnowledgeInv, [Next]_vars PROVE KnowledgeInv'
    OBVIOUS
  <2>1. /\ document \in [Documents -> DocumentRow]
        /\ chunks \in [Documents -> [content : Contents \cup {Absent}, metadata : Metadata \cup {Absent}]]
    BY DEF KnowledgeInv
  <2>2. NoChunks \in [content : Contents \cup {Absent}, metadata : Metadata \cup {Absent}]
        /\ \A row \in DocumentRow : [content |-> row.content, metadata |-> row.metadata]
               \in [content : Contents \cup {Absent}, metadata : Metadata \cup {Absent}]
    BY DEF NoChunks, DocumentRow
  <2>3. /\ document' \in [Documents -> DocumentRow]
        /\ chunks' \in [Documents -> [content : Contents \cup {Absent}, metadata : Metadata \cup {Absent}]]
    <3>1. ASSUME NEW status, Cascade(status)
          PROVE  /\ document' \in [Documents -> DocumentRow]
                 /\ chunks' \in [Documents -> [content : Contents \cup {Absent},
                                               metadata : Metadata \cup {Absent}]]
      BY <2>1, <2>2, <3>1, RowsAreRows DEF Cascade
    <3>2. ASSUME NEW d \in Documents, document' = [document EXCEPT ![d] = Gone],
                 chunks' = [chunks EXCEPT ![d] = NoChunks]
          PROVE  /\ document' \in [Documents -> DocumentRow]
                 /\ chunks' \in [Documents -> [content : Contents \cup {Absent},
                                               metadata : Metadata \cup {Absent}]]
      BY <2>1, <2>2, <3>2, RowsAreRows
    <3>3. ASSUME NEW d \in Documents, NEW row \in DocumentRow, document' = [document EXCEPT ![d] = row],
                 \/ chunks' = chunks
                 \/ chunks' = [chunks EXCEPT ![d] =
                                 [content |-> row.content, metadata |-> row.metadata]]
          PROVE  /\ document' \in [Documents -> DocumentRow]
                 /\ chunks' \in [Documents -> [content : Contents \cup {Absent},
                                               metadata : Metadata \cup {Absent}]]
      BY <2>1, <2>2, <3>3
    <3>4. CASE UNCHANGED <<document, chunks>>
      BY <2>1, <3>4
    <3> QED BY <3>1, <3>2, <3>3, <3>4, DocumentStep
  <2> QED BY <2>3, EditStep DEF KnowledgeInv
<1> QED BY <1>1, <1>2, PTL DEF Spec

(* documentVersionCondition, which every write of an indexer asks for, keeps *)
(* an index from saying what the document does not; the update that decides  *)
(* on the content it read is the one exception.                              *)
THEOREM IndexCorrect == Spec => IndexGoesStaleUnseen
<1> DEFINE Unseen ==
      \A d \in Documents :
        IsIndexed(d) /\ ~IsIndexed(d)' =>
          \E e \in Editors :
            /\ edit[e].pc = "updating" /\ edit'[e] = NoEdit
            /\ edit[e].seen.content # document[d].content
<1>1. KnowledgeInv /\ [Next]_vars => Unseen
  <2> SUFFICES ASSUME KnowledgeInv, [Next]_vars, NEW d \in Documents, IsIndexed(d), ~IsIndexed(d)'
               PROVE  \E e \in Editors :
                        /\ edit[e].pc = "updating" /\ edit'[e] = NoEdit
                        /\ edit[e].seen.content # document[d].content
    OBVIOUS
  <2>1. /\ document \in [Documents -> DocumentRow] /\ edit \in [Editors -> {NoEdit} \cup Edit]
        /\ chunks \in [Documents -> [content : Contents \cup {Absent}, metadata : Metadata \cup {Absent}]]
    BY DEF KnowledgeInv
  <2>2. /\ document'[d].status = "READY"
        /\ \/ document'[d].hash # document'[d].content
           \/ chunks'[d] # [content |-> document'[d].content, metadata |-> document'[d].metadata]
    BY DEF IsIndexed
  <2>3. document[d].status = "READY" =>
          /\ document[d].hash = document[d].content
          /\ chunks[d] = [content |-> document[d].content, metadata |-> document[d].metadata]
    BY DEF IsIndexed
  <2>4. document'[d] # document[d] \/ chunks'[d] # chunks[d]
    BY <2>2, <2>3
  <2>5. ASSUME NEW status, Cascade(status) PROVE FALSE
    <3>1. document'[d] = Gone \/ (document'[d] = document[d] /\ ~Exists(d))
      BY <2>1, <2>5 DEF Cascade
    <3> QED BY <2>2, <3>1, RowsAreRows DEF Exists
  <2>6. ASSUME NEW x \in Documents, document' = [document EXCEPT ![x] = Gone],
               chunks' = [chunks EXCEPT ![x] = NoChunks]
        PROVE  FALSE
    <3>1. x = d
      BY <2>1, <2>4, <2>6
    <3>2. document'[d] = Gone
      BY <2>1, <2>6, <3>1
    <3> QED BY <2>2, <3>2, RowsAreRows
  <2>7. ASSUME NEW x \in Documents, NEW row \in DocumentRow, document' = [document EXCEPT ![x] = row],
               \/ row.status # "READY" /\ chunks' = chunks
               \/ /\ row.hash = row.content
                  /\ chunks' = [chunks EXCEPT ![x] =
                                  [content |-> row.content, metadata |-> row.metadata]]
        PROVE  FALSE
    <3>1. x = d
      BY <2>1, <2>4, <2>7
    <3> QED BY <2>1, <2>2, <2>7, <3>1
  <2>8. ASSUME NEW x \in Documents, NEW row \in DocumentRow, document' = [document EXCEPT ![x] = row],
               chunks' = chunks,
               row.status = document[x].status, row.hash = document[x].hash,
               row.metadata = document[x].metadata,
               NEW e \in Editors, edit[e].pc = "updating", edit' = [edit EXCEPT ![e] = NoEdit],
               row.content \in {document[x].content, edit[e].seen.content}
        PROVE  edit'[e] = NoEdit /\ edit[e].seen.content # document[d].content
    <3>1. x = d
      BY <2>1, <2>4, <2>8
    <3>2. document'[d] = row /\ chunks'[d] = chunks[d]
      BY <2>1, <2>8, <3>1
    <3>3. row.content # document[d].content
      BY <2>2, <2>3, <2>8, <3>1, <3>2
    <3> QED BY <2>1, <2>8, <3>1, <3>3
  <2> QED BY <2>4, <2>5, <2>6, <2>7, <2>8, DocumentStep
<1> HIDE DEF Unseen
<1>2. KnowledgeInv /\ [Next]_vars => [Unseen]_knowledgeVars
  BY <1>1
<1>3. Spec => [][Unseen]_knowledgeVars
  BY <1>2, KnowledgeCorrect, PTL DEF Spec
<1> QED BY <1>3 DEF Unseen, IndexGoesStaleUnseen
===============================================================================

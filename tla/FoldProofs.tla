------------------------------ MODULE FoldProofs ------------------------------
(***************************************************************************)
(* Induction over the naturals, and what FoldLeft computes.                   *)
(*                                                                            *)
(* A property is proved of every number below a bound by collecting the        *)
(* numbers that have it in a set: that strict inclusion is well-founded on       *)
(* finite sets, applied to the intervals 1..n, makes such a set the whole.      *)
(*                                                                            *)
(* The step of a fold over a sequence is a function step[i][v], what the i-th    *)
(* element makes of the value v.                                               *)
(***************************************************************************)
EXTENDS SequencesExt, FiniteSetTheorems, SequenceTheorems, Integers, TLAPS

\* A set of naturals has a least member.
LEMMA NatHasLeast ==
  ASSUME NEW T, T \subseteq Nat, T # {}
  PROVE  \E x \in T : \A y \in T : x <= y
<1> DEFINE U == {1..n : n \in T}
<1>1. U \subseteq FiniteSubsetsOf(Nat) /\ U # {}
  <2>1. \A n \in T : 1..n \subseteq Nat /\ IsFiniteSet(1..n)
    BY FS_Interval
  <2>2. QED
    BY <2>1 DEF FiniteSubsetsOf
<1>2. IsWellFoundedOn(StrictSubsetOrdering(Nat), FiniteSubsetsOf(Nat))
  BY FS_StrictSubsetOrderingWellFounded
<1>3. \E u \in U : \A v \in U : ~ (<<v, u>> \in StrictSubsetOrdering(Nat))
  <2> HIDE DEF U
  <2> QED
    BY <1>1, <1>2, WFMin
<1>4. PICK x \in T : \A y \in T : ~ (<<1..y, 1..x>> \in StrictSubsetOrdering(Nat))
  BY <1>3
<1>5. ASSUME NEW y \in T, ~(x <= y)
      PROVE  FALSE
  <2>1. 1..y \subseteq 1..x /\ x \in 1..x /\ x \notin 1..y
    BY <1>5
  <2>2. 1..y \in SUBSET Nat /\ 1..x \in SUBSET Nat
    BY <1>5
  <2>3. QED
    BY <1>4, <2>1, <2>2 DEF StrictSubsetOrdering
<1>6. QED
  BY <1>5

\* What holds of 0 and is passed on below N holds up to N.
LEMMA IntervalInduction ==
  ASSUME NEW N \in Nat, NEW S, 0 \in S, \A i \in 0..(N - 1) : i \in S => i + 1 \in S
  PROVE  \A i \in 0..N : i \in S
<1> DEFINE T == {i \in 0..N : i \notin S}
<1>1. SUFFICES ASSUME T # {}
               PROVE  FALSE
  OBVIOUS
<1>2. PICK x \in T : \A y \in T : x <= y
  <2>1. T \subseteq Nat
    OBVIOUS
  <2>2. QED
    BY <1>1, <2>1, NatHasLeast
<1>3. x \in Nat /\ x # 0 /\ x - 1 \in 0..(N - 1) /\ x - 1 \notin T
  BY <1>2
<1>4. x \in S
  BY <1>3
<1>5. QED
  BY <1>2, <1>4

\* The greatest position of a set of positions.
LEMMA MaxOfPositions ==
  ASSUME NEW N \in Nat, NEW s \in SUBSET (1..N), s # {}
  PROVE  Max(s) \in s /\ \A i \in s : i <= Max(s)
<1> DEFINE T == {N - i : i \in s}
<1>1. PICK x \in T : \A y \in T : x <= y
  <2>1. T \subseteq Nat /\ T # {}
    OBVIOUS
  <2>2. QED
    BY <2>1, NatHasLeast
<1>2. PICK m \in s : x = N - m
  BY <1>1
<1>3. \A i \in s : m >= i
  <2>1. SUFFICES ASSUME NEW i \in s
                 PROVE  m >= i
    OBVIOUS
  <2>2. N - i \in T /\ i \in 1..N /\ m \in 1..N
    OBVIOUS
  <2>3. N - m <= N - i
    BY <1>1, <1>2, <2>2
  <2>4. QED
    BY <2>2, <2>3
<1>4. \E j \in s : \A i \in s : j >= i
  BY <1>3
<1>5. Max(s) \in s /\ \A i \in s : Max(s) >= i
  BY <1>4, Zenon DEF Max
<1>6. QED
  BY <1>5

LEMMA MaxOfPrefix ==
  ASSUME NEW n \in Nat \ {0}
  PROVE  Max(1..n) = n /\ (1..n) \ {n} = 1..(n - 1)
<1>1. n \in Nat /\ 1..n \in SUBSET (1..n) /\ 1..n # {}
  OBVIOUS
<1>2. Max(1..n) \in 1..n /\ \A i \in 1..n : i <= Max(1..n)
  BY <1>1, MaxOfPositions
<1>3. QED
  BY <1>2

LEMMA MaxOfTop ==
  ASSUME NEW n \in Nat, NEW s \in SUBSET (1..(n + 1)), n + 1 \in s
  PROVE  Max(s) = n + 1
<1>1. Max(s) \in s /\ \A i \in s : i <= Max(s)
  BY MaxOfPositions
<1>2. Max(s) \in 1..(n + 1) /\ n + 1 <= Max(s)
  BY <1>1
<1>3. QED
  BY <1>2

\* A function on the sets of positions that folds step from the highest down, as
\* MapThenFoldSet wants one.
Folds(iter, N, base, step) ==
    iter = [s \in SUBSET (1..N) |->
              IF s = {} THEN base ELSE step[Max(s)][iter[s \ {Max(s)}]]]

\* There is one.
LEMMA FoldExists ==
  ASSUME NEW N \in Nat, NEW X, NEW base \in X, NEW step \in [1..N -> [X -> X]]
  PROVE  \E iter \in [SUBSET (1..N) -> X] : Folds(iter, N, base, step)
<1> DEFINE S == {n \in 0..N : \E iter \in [SUBSET (1..n) -> X] : Folds(iter, n, base, step)}
<1>1. 0 \in S
  <2> DEFINE it == [s \in SUBSET (1..0) |-> base]
  <2>1. it \in [SUBSET (1..0) -> X]
    OBVIOUS
  <2>2. SUBSET (1..0) = {{}}
    OBVIOUS
  <2>3. it = [s \in SUBSET (1..0) |-> IF s = {} THEN base ELSE step[Max(s)][it[s \ {Max(s)}]]]
    BY <2>2
  <2>4. QED
    BY <2>1, <2>3 DEF Folds
<1>2. ASSUME NEW n \in 0..(N - 1), n \in S
      PROVE  n + 1 \in S
  <2>1. PICK it \in [SUBSET (1..n) -> X] : Folds(it, n, base, step)
    BY <1>2
  <2> DEFINE m == n + 1
             up == [s \in SUBSET (1..m) |->
                      IF m \in s THEN step[m][it[s \ {m}]] ELSE it[s]]
  <2>2. ASSUME NEW s \in SUBSET (1..m)
        PROVE  /\ m \in s => s \ {m} \in SUBSET (1..n) /\ Max(s) = m
               /\ m \notin s => s \in SUBSET (1..n)
               /\ m \notin s /\ s # {} =>
                    s \ {Max(s)} \in SUBSET (1..n) /\ m \notin s \ {Max(s)}
    <3>1. n \in Nat /\ s \in SUBSET (1..(n + 1))
      OBVIOUS
    <3>2. m \in s => Max(s) = m
      BY <3>1, MaxOfTop
    <3>3. m \in s => s \ {m} \in SUBSET (1..n)
      BY <3>1
    <3>4. m \notin s => s \in SUBSET (1..n)
      BY <3>1
    <3>5. m \notin s => s \ {Max(s)} \in SUBSET (1..n) /\ m \notin s \ {Max(s)}
      BY <3>4
    <3>6. QED
      BY <3>2, <3>3, <3>4, <3>5
  <2>3. up \in [SUBSET (1..m) -> X]
    <3>1. step[m] \in [X -> X]
      OBVIOUS
    <3>2. QED
      BY <2>2, <3>1
  <2>4. ASSUME NEW s \in SUBSET (1..m)
        PROVE  up[s] = IF s = {} THEN base ELSE step[Max(s)][up[s \ {Max(s)}]]
    <3>1. CASE m \in s
      <4>1. up[s] = step[m][it[s \ {m}]]
        BY <3>1
      <4>2. s \ {m} \in SUBSET (1..m) /\ m \notin s \ {m}
        OBVIOUS
      <4>3. up[s \ {m}] = it[s \ {m}]
        BY <4>2
      <4>4. QED
        BY <2>2, <3>1, <4>1, <4>3
    <3>2. CASE m \notin s
      <4>1. up[s] = it[s] /\ s \in SUBSET (1..n)
        BY <2>2, <3>2
      <4>2. it[s] = IF s = {} THEN base ELSE step[Max(s)][it[s \ {Max(s)}]]
        BY <2>1, <4>1 DEF Folds
      <4>3. s # {} => up[s \ {Max(s)}] = it[s \ {Max(s)}]
        BY <2>2, <3>2
      <4>4. QED
        BY <4>1, <4>2, <4>3
    <3>3. QED
      BY <3>1, <3>2
  <2>5. up = [s \in SUBSET (1..m) |-> IF s = {} THEN base ELSE step[Max(s)][up[s \ {Max(s)}]]]
    <3>1. up = [s \in SUBSET (1..m) |-> up[s]]
      OBVIOUS
    <3> HIDE DEF up
    <3>2. QED
      BY <2>4, <3>1
  <2>6. m \in 0..N
    OBVIOUS
  <2>7. QED
    BY <2>3, <2>5, <2>6 DEF Folds
<1>3. N \in S
  <2>1. 0 \in S /\ \A i \in 0..(N - 1) : i \in S => i + 1 \in S
    BY <1>1, <1>2
  <2> HIDE DEF S
  <2>2. \A i \in 0..N : i \in S
    BY <2>1, IntervalInduction
  <2>3. QED
    BY <2>2
<1>4. QED
  BY <1>3

\* The same where iter is known to be a value of X below.
FoldsWithin(iter, N, X, base, step) ==
    /\ iter[{}] = base
    /\ \A s \in SUBSET (1..N) : s # {} /\ iter[s \ {Max(s)}] \in X =>
          iter[s] = step[Max(s)][iter[s \ {Max(s)}]]

LEMMA NextPrefix ==
  ASSUME NEW N \in Nat, NEW i \in 0..(N - 1)
  PROVE  /\ 1..(i + 1) \in SUBSET (1..N) /\ 1..(i + 1) # {}
         /\ Max(1..(i + 1)) = i + 1 /\ (1..(i + 1)) \ {i + 1} = 1..i
<1>1. i + 1 \in Nat \ {0} /\ i + 1 \in 1..(i + 1) /\ (i + 1) - 1 = i
  OBVIOUS
<1>2. Max(1..(i + 1)) = i + 1 /\ (1..(i + 1)) \ {i + 1} = 1..((i + 1) - 1)
  BY <1>1, MaxOfPrefix
<1>3. 1..(i + 1) \in SUBSET (1..N)
  OBVIOUS
<1>4. QED
  BY <1>1, <1>2, <1>3

\* The values of the fold after each element.
Runs(run, N, base, step) == run[0] = base /\ \A i \in 1..N : run[i] = step[i][run[i - 1]]

RunOf(iter, N, X, base, step) ==
    \E run \in [0..N -> X] : Runs(run, N, base, step) /\ iter[1..N] = run[N]

\* What such a function makes of the prefixes is the fold, step by step, and stays in X.
LEMMA FoldRuns ==
  ASSUME NEW N \in Nat, NEW X, NEW base \in X, NEW step \in [1..N -> [X -> X]],
         NEW iter, FoldsWithin(iter, N, X, base, step)
  PROVE  RunOf(iter, N, X, base, step)
<1> DEFINE S == {n \in 0..N : iter[1..n] \in X}
           run == [n \in 0..N |-> iter[1..n]]
<1>1. ASSUME NEW i \in 0..(N - 1), iter[1..i] \in X
      PROVE  iter[1..(i + 1)] = step[i + 1][iter[1..i]]
  <2>1. /\ 1..(i + 1) \in SUBSET (1..N) /\ 1..(i + 1) # {}
        /\ Max(1..(i + 1)) = i + 1 /\ (1..(i + 1)) \ {i + 1} = 1..i
    BY NextPrefix
  <2>2. iter[(1..(i + 1)) \ {Max(1..(i + 1))}] \in X
    BY <1>1, <2>1
  <2>3. iter[1..(i + 1)] = step[Max(1..(i + 1))][iter[(1..(i + 1)) \ {Max(1..(i + 1))}]]
    BY <2>1, <2>2, Zenon DEF FoldsWithin
  <2>4. QED
    BY <2>1, <2>3
<1>2. 0 \in S
  <2>1. 1..0 = {}
    OBVIOUS
  <2>2. QED
    BY <2>1 DEF FoldsWithin
<1>3. ASSUME NEW i \in 0..(N - 1), i \in S
      PROVE  i + 1 \in S
  <2>1. i + 1 \in 1..N /\ step[i + 1] \in [X -> X]
    OBVIOUS
  <2>2. QED
    BY <1>1, <1>3, <2>1
<1>4. \A n \in 0..N : n \in S
  <2> HIDE DEF S
  <2>1. QED
    BY <1>2, <1>3, IntervalInduction
<1>5. run \in [0..N -> X] /\ run[0] = base /\ run[N] = iter[1..N]
  <2>1. 1..0 = {} /\ 0 \in 0..N /\ N \in 0..N
    OBVIOUS
  <2>2. QED
    BY <1>4, <2>1 DEF FoldsWithin
<1>6. ASSUME NEW i \in 1..N
      PROVE  run[i] = step[i][run[i - 1]]
  <2>1. i - 1 \in 0..(N - 1) /\ (i - 1) + 1 = i /\ i \in 0..N /\ i - 1 \in 0..N
    OBVIOUS
  <2>2. iter[1..(i - 1)] \in X
    BY <1>4, <2>1
  <2>3. iter[1..((i - 1) + 1)] = step[(i - 1) + 1][iter[1..(i - 1)]]
    BY <1>1, <2>1, <2>2
  <2>4. QED
    BY <2>1, <2>3
<1>7. QED
  <2> HIDE DEF run
  <2>1. QED
    BY <1>5, <1>6 DEF Runs, RunOf
===============================================================================

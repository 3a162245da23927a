---------------------------- MODULE RequestsProofs ----------------------------
(***************************************************************************)
(* The start of a server and the way of its requests, for any environment     *)
(* and any number of requests, repositories, names and sizes.                  *)
(*                                                                            *)
(* The lemmas on Split come first.  They are about sequences over any set C of   *)
(* characters: only that "/" and "*" are two of them is ever used.              *)
(***************************************************************************)
EXTENDS Requests, FoldProofs

-----------------------------------------------------------------------------
\* What strings.Split returns: at least one part.
PartLists(C) == Seq(Seq(C)) \ {<<>>}

\* One more character: a new part, or one more in the last one.
Extended(next, parts, ch, C) ==
    /\ next \in PartLists(C) /\ Len(parts) \in Nat \ {0} /\ Last(parts) \in Seq(C)
    /\ ch = "/" => /\ Len(next) = Len(parts) + 1 /\ next[Len(parts) + 1] = <<>>
                   /\ \A p \in 1..Len(parts) : next[p] = parts[p]
    /\ ch # "/" => /\ Len(next) = Len(parts) /\ next[Len(parts)] = Append(Last(parts), ch)
                   /\ \A p \in 1..(Len(parts) - 1) : next[p] = parts[p]

LEMMA ExtendFacts ==
  ASSUME NEW C, NEW parts \in PartLists(C), NEW ch \in C
  PROVE  Extended(Extend(parts, ch), parts, ch, C)
<1> DEFINE N == Len(parts)
<1>1. parts \in Seq(Seq(C)) /\ N \in Nat \ {0} /\ N \in DOMAIN parts
  BY DEF PartLists
<1>2. Last(parts) = parts[N] /\ Last(parts) \in Seq(C)
  BY <1>1 DEF Last
<1>3. CASE ch = "/"
  <2>1. Extend(parts, ch) = Append(parts, <<>>)
    BY <1>3 DEF Extend
  <2>2. <<>> \in Seq(C)
    OBVIOUS
  <2>3. /\ Append(parts, <<>>) \in Seq(Seq(C))
        /\ Len(Append(parts, <<>>)) = N + 1 /\ Append(parts, <<>>)[N + 1] = <<>>
        /\ \A p \in 1..N : Append(parts, <<>>)[p] = parts[p]
    BY <1>1, <2>2
  <2>4. Append(parts, <<>>) # <<>>
    BY <1>1, <2>3
  <2>5. QED
    BY <1>1, <1>2, <1>3, <2>1, <2>3, <2>4 DEF PartLists, Extended
<1>4. CASE ch # "/"
  <2> DEFINE part == Append(Last(parts), ch)
             next == [parts EXCEPT ![N] = part]
  <2>1. Extend(parts, ch) = next
    BY <1>2, <1>4 DEF Extend
  <2>2. part \in Seq(C)
    BY <1>2, AppendProperties
  <2> HIDE DEF part
  <2>3. /\ next \in Seq(Seq(C)) /\ Len(next) = N /\ next[N] = part
        /\ \A p \in 1..(N - 1) : next[p] = parts[p]
    BY <1>1, <2>2
  <2>4. next # <<>>
    BY <1>1, <2>3
  <2>5. QED
    BY <1>1, <1>2, <1>4, <2>1, <2>3, <2>4 DEF PartLists, part, Extended
<1>5. QED
  BY <1>3, <1>4

SplitRun(run, s, C) ==
    /\ run \in [0..Len(s) -> PartLists(C)]
    /\ run[0] = << <<>> >>
    /\ \A i \in 1..Len(s) : run[i] = Extend(run[i - 1], s[i])

\* Split is what Extend makes of the characters, one after the other.
LEMMA SplitRuns ==
  ASSUME NEW C, NEW s \in Seq(C)
  PROVE  \E run : SplitRun(run, s, C) /\ Split(s) = run[Len(s)]
<1> DEFINE N == Len(s)
           base == << <<>> >>
           step == [i \in 1..N |-> [v \in PartLists(C) |-> Extend(v, s[i])]]
           G(it) == [t \in SUBSET (DOMAIN s) |->
                       IF t = {} THEN base ELSE Extend(it[t \ {Max(t)}], s[Max(t)])]
<1>1. N \in Nat /\ DOMAIN s = 1..N /\ \A i \in 1..N : s[i] \in C
  OBVIOUS
<1>2. base \in PartLists(C)
  BY DEF PartLists
<1>3. step \in [1..N -> [PartLists(C) -> PartLists(C)]]
  <2>1. \A i \in 1..N, v \in PartLists(C) : Extend(v, s[i]) \in PartLists(C)
    BY <1>1, ExtendFacts DEF Extended
  <2>2. QED
    BY <2>1
<1>4. PICK it \in [SUBSET (1..N) -> PartLists(C)] : Folds(it, N, base, step)
  <2> HIDE DEF N, base, step
  <2>1. QED
    BY <1>1, <1>2, <1>3, FoldExists
<1>5. it = G(it)
  <2>1. ASSUME NEW t \in SUBSET (1..N), t # {}
        PROVE  step[Max(t)][it[t \ {Max(t)}]] = Extend(it[t \ {Max(t)}], s[Max(t)])
    <3>1. Max(t) \in 1..N
      BY <2>1, <1>1, MaxOfPositions
    <3>2. it[t \ {Max(t)}] \in PartLists(C)
      OBVIOUS
    <3>3. QED
      BY <3>1, <3>2
  <2> HIDE DEF base
  <2>2. QED
    BY <1>1, <1>4, <2>1 DEF Folds
<1>6. PICK chosen : chosen = G(chosen) /\ Split(s) = chosen[1..N]
  <2> DEFINE c == CHOOSE c : c = G(c)
  <2>1. c = G(c)
    BY <1>5
  <2>2. Split(s) = c[1..N]
    BY <1>1 DEF Split, FoldLeft, MapThenFoldSet
  <2>3. QED
    BY <2>1, <2>2
<1>7. FoldsWithin(chosen, N, PartLists(C), base, step)
  <2>1. \A t \in SUBSET (1..N) : t # {} => Max(t) \in 1..N
    BY <1>1, MaxOfPositions
  <2> HIDE DEF base
  <2>2. QED
    BY <1>1, <1>6, <2>1 DEF FoldsWithin
<1>8. RunOf(chosen, N, PartLists(C), base, step)
  <2> HIDE DEF N, base, step, G
  <2>1. QED
    BY <1>1, <1>2, <1>3, <1>7, FoldRuns
<1>9. PICK run \in [0..N -> PartLists(C)] : Runs(run, N, base, step) /\ chosen[1..N] = run[N]
  BY <1>8 DEF RunOf
<1>10. \A i \in 1..N : i - 1 \in 0..N
  BY <1>1
<1>11. SplitRun(run, s, C)
  <2> HIDE DEF base
  <2>1. run[0] = base /\ \A i \in 1..N : run[i] = Extend(run[i - 1], s[i])
    BY <1>1, <1>9, <1>10 DEF Runs
  <2>2. QED
    BY <2>1 DEF SplitRun, base
<1>12. QED
  BY <1>6, <1>9, <1>11

\* The run of a text, in steps from n to n + 1.
LEMMA SplitRunStep ==
  ASSUME NEW C, NEW s \in Seq(C), NEW run, SplitRun(run, s, C), NEW n \in 0..(Len(s) - 1)
  PROVE  /\ n + 1 \in 1..Len(s) /\ s[n + 1] \in C
         /\ run[n] \in PartLists(C) /\ run[n + 1] = Extend(run[n], s[n + 1])
<1>1. n + 1 \in 1..Len(s) /\ n \in 0..Len(s) /\ (n + 1) - 1 = n
  OBVIOUS
<1>2. QED
  BY <1>1 DEF SplitRun
-----------------------------------------------------------------------------
\* The characters of the parts.
Chars(parts) == UNION {ToSet(parts[p]) : p \in DOMAIN parts}

LEMMA ExtendChars ==
  ASSUME NEW C, NEW parts \in PartLists(C), NEW ch \in C
  PROVE  Chars(Extend(parts, ch)) = Chars(parts) \cup ({ch} \ {"/"})
<1> DEFINE next == Extend(parts, ch)
           N == Len(parts)
<1>1. /\ next \in PartLists(C) /\ N \in Nat \ {0} /\ Last(parts) \in Seq(C)
      /\ ch = "/" => /\ Len(next) = N + 1 /\ next[N + 1] = <<>>
                     /\ \A p \in 1..N : next[p] = parts[p]
      /\ ch # "/" => /\ Len(next) = N /\ next[N] = Append(Last(parts), ch)
                     /\ \A p \in 1..(N - 1) : next[p] = parts[p]
  <2>1. Extended(next, parts, ch, C)
    BY ExtendFacts
  <2> HIDE DEF next
  <2>2. QED
    BY <2>1 DEF Extended
<1>0. Last(parts) = parts[N]
  BY DEF Last
<1>2. DOMAIN parts = 1..N /\ DOMAIN next = 1..Len(next)
  BY <1>1 DEF PartLists
<1> HIDE DEF next, N
<1>3. CASE ch = "/"
  <2>1. ToSet(<<>>) = {}
    BY DEF ToSet
  <2>2. 1..(N + 1) = (1..N) \cup {N + 1}
    BY <1>1
  <2>3. Chars(next) = Chars(parts)
    BY <1>1, <1>2, <1>3, <2>1, <2>2 DEF Chars
  <2>4. QED
    BY <1>3, <2>3 DEF next
<1>4. CASE ch # "/"
  <2>1. ToSet(Append(Last(parts), ch)) = ToSet(parts[N]) \cup {ch}
    <3>1. \A q \in Seq(C) : ToSet(Append(q, ch)) = ToSet(q) \cup {ch}
      <4>1. SUFFICES ASSUME NEW q \in Seq(C)
                     PROVE  ToSet(Append(q, ch)) = ToSet(q) \cup {ch}
        OBVIOUS
      <4>2. DOMAIN q = 1..Len(q) /\ Len(q) \in Nat
        OBVIOUS
      <4>3. DOMAIN Append(q, ch) = 1..(Len(q) + 1)
        OBVIOUS
      <4>4. 1..(Len(q) + 1) = (1..Len(q)) \cup {Len(q) + 1}
        BY <4>2
      <4>5. Append(q, ch)[Len(q) + 1] = ch /\ \A i \in 1..Len(q) : Append(q, ch)[i] = q[i]
        BY AppendProperties
      <4>6. QED
        BY <4>2, <4>3, <4>4, <4>5 DEF ToSet
    <3>2. QED
      BY <1>0, <1>1, <3>1
  <2>2. 1..N = (1..(N - 1)) \cup {N}
    BY <1>1
  <2>3. Chars(next) = Chars(parts) \cup {ch}
    BY <1>1, <1>2, <1>4, <2>1, <2>2 DEF Chars
  <2>4. QED
    BY <1>4, <2>3 DEF next
<1>5. QED
  BY <1>3, <1>4

\* Split drops the slashes and nothing else.
LEMMA SplitChars ==
  ASSUME NEW C, NEW s \in Seq(C)
  PROVE  Chars(Split(s)) = ToSet(s) \ {"/"}
<1>1. PICK run : SplitRun(run, s, C) /\ Split(s) = run[Len(s)]
  BY SplitRuns
<1> DEFINE N == Len(s)
           S == {n \in 0..N : Chars(run[n]) = {s[i] : i \in 1..n} \ {"/"}}
<1>2. 0 \in S
  <2>1. Chars(<< <<>> >>) = {}
    BY DEF Chars, ToSet
  <2>2. QED
    BY <1>1, <2>1 DEF SplitRun
<1>3. ASSUME NEW n \in 0..(N - 1), n \in S
      PROVE  n + 1 \in S
  <2>1. Chars(run[n + 1]) = Chars(run[n]) \cup ({s[n + 1]} \ {"/"})
    <3>1. run[n] \in PartLists(C) /\ s[n + 1] \in C /\ run[n + 1] = Extend(run[n], s[n + 1])
      BY <1>1, SplitRunStep
    <3>2. QED
      BY <3>1, ExtendChars
  <2>2. 1..(n + 1) = (1..n) \cup {n + 1} /\ n + 1 \in 0..N
    OBVIOUS
  <2>3. QED
    BY <1>3, <2>1, <2>2
<1>4. N \in Nat /\ DOMAIN s = 1..N
  OBVIOUS
<1>5. N \in S
  <2> HIDE DEF S
  <2>1. \A n \in 0..N : n \in S
    BY <1>2, <1>3, <1>4, IntervalInduction
  <2>2. QED
    BY <1>4, <2>1
<1>6. QED
  BY <1>1, <1>4, <1>5 DEF ToSet
-----------------------------------------------------------------------------
\* A step of Split can be taken back: it tells the parts before it and the character.
LEMMA ExtendUndone ==
  ASSUME NEW C, NEW parts \in PartLists(C), NEW ch \in C, NEW other \in PartLists(C), NEW ch2 \in C,
         Extend(parts, ch) = Extend(other, ch2)
  PROVE  parts = other /\ ch = ch2
<1> DEFINE next == Extend(parts, ch)
<1>1. Extended(next, parts, ch, C) /\ Extended(next, other, ch2, C)
  <2>1. Extended(Extend(other, ch2), other, ch2, C)
    BY ExtendFacts
  <2>2. QED
    BY <2>1, ExtendFacts
<1>2. parts \in Seq(Seq(C)) /\ other \in Seq(Seq(C))
  BY DEF PartLists
<1>3. ch = "/" <=> ch2 = "/"
  <2>1. ch = "/" => next[Len(next)] = <<>>
    BY <1>1 DEF Extended
  <2>2. ch2 = "/" => next[Len(next)] = <<>>
    BY <1>1 DEF Extended
  <2>3. ch # "/" => next[Len(next)] # <<>>
    BY <1>1, AppendProperties DEF Extended
  <2>4. ch2 # "/" => next[Len(next)] # <<>>
    BY <1>1, AppendProperties DEF Extended
  <2>5. QED
    BY <2>1, <2>2, <2>3, <2>4
<1> HIDE DEF next
<1>4. CASE ch = "/"
  <2>1. Len(parts) = Len(other) /\ \A p \in 1..Len(parts) : parts[p] = other[p]
    BY <1>1, <1>3, <1>4 DEF Extended
  <2>2. QED
    BY <1>2, <1>3, <1>4, <2>1, SeqEqual
<1>5. CASE ch # "/"
  <2> DEFINE N == Len(parts)
  <2>1. /\ N \in Nat \ {0} /\ N = Len(other) /\ Last(parts) \in Seq(C) /\ Last(other) \in Seq(C)
        /\ \A p \in 1..(N - 1) : parts[p] = other[p]
        /\ Append(Last(parts), ch) = Append(Last(other), ch2)
    BY <1>1, <1>3, <1>5 DEF Extended
  <2>2. Last(parts) = Last(other) /\ ch = ch2
    <3> DEFINE a == Last(parts)
               b == Last(other)
    <3>1. /\ a \in Seq(C) /\ b \in Seq(C) /\ Append(a, ch) = Append(b, ch2)
          /\ Len(a) \in Nat /\ Len(b) \in Nat
      BY <2>1
    <3> HIDE DEF a, b
    <3>2. /\ Len(Append(a, ch)) = Len(a) + 1 /\ Append(a, ch)[Len(a) + 1] = ch
          /\ \A i \in 1..Len(a) : Append(a, ch)[i] = a[i]
      BY <3>1, AppendProperties
    <3>3. /\ Len(Append(b, ch2)) = Len(b) + 1 /\ Append(b, ch2)[Len(b) + 1] = ch2
          /\ \A i \in 1..Len(b) : Append(b, ch2)[i] = b[i]
      BY <3>1, AppendProperties
    <3>4. Len(a) = Len(b) /\ ch = ch2 /\ \A i \in 1..Len(a) : a[i] = b[i]
      BY <3>1, <3>2, <3>3
    <3>5. a = b
      BY <3>1, <3>4, SeqEqual
    <3>6. QED
      BY <3>4, <3>5 DEF a, b
  <2>3. parts[N] = other[N]
    BY <2>1, <2>2 DEF Last
  <2>4. \A p \in 1..N : parts[p] = other[p]
    <3>1. \A p \in 1..N : p \in 1..(N - 1) \/ p = N
      BY <2>1
    <3>2. QED
      BY <2>1, <2>3, <3>1
  <2>5. QED
    BY <1>2, <2>1, <2>2, <2>4, SeqEqual
<1>6. QED
  BY <1>4, <1>5

LEMMA ExtendIsMore ==
  ASSUME NEW C, NEW parts \in PartLists(C), NEW ch \in C
  PROVE  Extend(parts, ch) # << <<>> >>
<1> DEFINE next == Extend(parts, ch)
<1>1. Extended(next, parts, ch, C)
  BY ExtendFacts
<1> HIDE DEF next
<1>2. SUFFICES ASSUME next = << <<>> >>
               PROVE  FALSE
  BY DEF next
<1>3. Len(next) = 1 /\ next[1] = <<>>
  BY <1>2
<1>4. ch # "/" /\ Len(parts) = 1
  BY <1>1, <1>3 DEF Extended
<1>5. Append(Last(parts), ch) # <<>>
  BY <1>1, AppendProperties DEF Extended
<1>6. QED
  BY <1>1, <1>3, <1>4, <1>5 DEF Extended

\* Texts with the same parts are the same text.
LEMMA SplitInjective ==
  ASSUME NEW C, NEW s \in Seq(C), NEW A, SplitRun(A, s, C), NEW t \in Seq(C), NEW B, SplitRun(B, t, C)
  PROVE  \A n \in 0..Len(s) : \A m \in 0..Len(t) :
            A[n] = B[m] => n = m /\ \A i \in 1..n : s[i] = t[i]
<1> DEFINE Same(n) == \A m \in 0..Len(t) : A[n] = B[m] => n = m /\ \A i \in 1..n : s[i] = t[i]
           N == Len(s)
           S == {n \in 0..N : Same(n)}
<1>1. A[0] = << <<>> >> /\ B[0] = << <<>> >>
  BY DEF SplitRun
<1>2. ASSUME NEW m \in 0..Len(t), m # 0
      PROVE  /\ m - 1 \in 0..Len(t) /\ m \in Nat /\ B[m - 1] \in PartLists(C) /\ t[m] \in C
             /\ B[m] = Extend(B[m - 1], t[m]) /\ B[m] # << <<>> >>
  <2>1. m - 1 \in 0..(Len(t) - 1) /\ (m - 1) + 1 = m /\ m - 1 \in 0..Len(t)
    BY <1>2
  <2>2. B[m - 1] \in PartLists(C) /\ t[(m - 1) + 1] \in C /\ B[(m - 1) + 1] = Extend(B[m - 1], t[(m - 1) + 1])
    BY <2>1, SplitRunStep
  <2>3. B[m] = Extend(B[m - 1], t[m]) /\ t[m] \in C
    BY <2>1, <2>2
  <2>4. B[m] # << <<>> >>
    BY <2>2, <2>3, ExtendIsMore
  <2>5. QED
    BY <2>1, <2>2, <2>3, <2>4
<1>3. 0 \in S
  BY <1>1, <1>2
<1>4. ASSUME NEW n \in 0..(N - 1), n \in S
      PROVE  n + 1 \in S
  <2>1. A[n] \in PartLists(C) /\ s[n + 1] \in C /\ A[n + 1] = Extend(A[n], s[n + 1]) /\ n + 1 \in 0..N
    BY SplitRunStep
  <2>2. ASSUME NEW m \in 0..Len(t), A[n + 1] = B[m]
        PROVE  n + 1 = m /\ \A i \in 1..(n + 1) : s[i] = t[i]
    <3>1. m # 0
      BY <1>1, <2>1, <2>2, ExtendIsMore
    <3>2. A[n] = B[m - 1] /\ s[n + 1] = t[m]
      <4>1. B[m - 1] \in PartLists(C) /\ t[m] \in C /\ B[m] = Extend(B[m - 1], t[m])
        BY <1>2, <3>1
      <4>2. Extend(A[n], s[n + 1]) = Extend(B[m - 1], t[m])
        BY <2>1, <2>2, <4>1
      <4>3. A[n] \in PartLists(C) /\ s[n + 1] \in C
        BY <2>1
      <4>4. QED
        BY <4>1, <4>2, <4>3, ExtendUndone
    <3>3. n = m - 1 /\ \A i \in 1..n : s[i] = t[i]
      BY <1>2, <1>4, <3>1, <3>2
    <3>4. QED
      BY <1>2, <3>1, <3>2, <3>3
  <2>3. QED
    BY <2>1, <2>2
<1>5. QED
  <2>1. N \in Nat
    OBVIOUS
  <2> HIDE DEF S, N
  <2>2. \A n \in 0..N : n \in S
    BY <1>3, <1>4, <2>1, IntervalInduction
  <2>3. QED
    BY <2>2 DEF S, N

\* Texts that begin alike are split alike so far.
LEMMA SplitAgrees ==
  ASSUME NEW C, NEW s \in Seq(C), NEW A, SplitRun(A, s, C), NEW t \in Seq(C), NEW B, SplitRun(B, t, C),
         Len(s) <= Len(t), \A i \in 1..Len(s) : s[i] = t[i]
  PROVE  A[Len(s)] = B[Len(s)]
<1> DEFINE N == Len(s)
           S == {n \in 0..N : A[n] = B[n]}
<1>1. 0 \in S
  <2>1. A[0] = B[0]
    BY DEF SplitRun
  <2>2. 0 \in 0..N
    OBVIOUS
  <2>3. QED
    BY <2>1, <2>2
<1>2. ASSUME NEW n \in 0..(N - 1), n \in S
      PROVE  n + 1 \in S
  <2>1. A[n + 1] = Extend(A[n], s[n + 1]) /\ n + 1 \in 1..N
    BY SplitRunStep
  <2>2. n \in 0..(Len(t) - 1)
    OBVIOUS
  <2>3. B[n + 1] = Extend(B[n], t[n + 1])
    BY <2>2, SplitRunStep
  <2>4. QED
    BY <1>2, <2>1, <2>3
<1>3. N \in Nat
  OBVIOUS
<1> HIDE DEF S, N
<1>4. \A n \in 0..N : n \in S
  BY <1>1, <1>2, <1>3, IntervalInduction
<1>5. QED
  BY <1>3, <1>4 DEF S, N

\* The parts before a slash stay as they are.
LEMMA SplitKeeps ==
  ASSUME NEW C, NEW s \in Seq(C), NEW A, SplitRun(A, s, C), NEW m \in 1..Len(s), s[m] = "/"
  PROVE  /\ Len(A[m - 1]) < Len(A[Len(s)])
         /\ \A p \in 1..Len(A[m - 1]) : A[Len(s)][p] = A[m - 1][p]
<1> DEFINE N == Len(s)
           L == Len(A[m - 1])
           Kept(n) == L < Len(A[n]) /\ \A p \in 1..L : A[n][p] = A[m - 1][p]
           S == {n \in 0..N : n >= m => Kept(n)}
<1>1. /\ N \in Nat /\ m \in Nat \ {0} /\ m - 1 \in 0..(N - 1) /\ (m - 1) + 1 = m
  OBVIOUS
<1>2. A[m - 1] \in PartLists(C) /\ A[m] = Extend(A[m - 1], s[m]) /\ s[m] \in C
  <2>1. A[m - 1] \in PartLists(C) /\ A[(m - 1) + 1] = Extend(A[m - 1], s[(m - 1) + 1]) /\ s[(m - 1) + 1] \in C
    BY <1>1, SplitRunStep
  <2>2. QED
    BY <1>1, <2>1
<1>3. L \in Nat /\ Kept(m)
  <2>1. Extended(A[m], A[m - 1], s[m], C)
    BY <1>2, ExtendFacts
  <2>2. QED
    BY <2>1 DEF Extended
<1>4. 0 \in S
  BY <1>1
<1>5. ASSUME NEW n \in 0..(N - 1), n \in S
      PROVE  n + 1 \in S
  <2>1. n + 1 \in 0..N /\ (n + 1 >= m => n >= m \/ n + 1 = m)
    BY <1>1
  <2>2. ASSUME Kept(n)
        PROVE  Kept(n + 1)
    <3>1. A[n] \in PartLists(C) /\ s[n + 1] \in C /\ A[n + 1] = Extend(A[n], s[n + 1])
      BY SplitRunStep
    <3>2. Extended(A[n + 1], A[n], s[n + 1], C)
      BY <3>1, ExtendFacts
    <3>3. Len(A[n + 1]) >= Len(A[n]) /\ \A p \in 1..(Len(A[n]) - 1) : A[n + 1][p] = A[n][p]
      BY <3>2 DEF Extended
    <3>4. Len(A[n]) \in Nat /\ Len(A[n + 1]) \in Nat
      BY <3>2 DEF Extended, PartLists
    <3> HIDE DEF L
    <3>5. QED
      BY <1>3, <2>2, <3>3, <3>4
  <2>3. QED
    <3> HIDE DEF Kept, N
    <3>1. QED
      BY <1>3, <1>5, <2>1, <2>2
<1>6. Kept(N)
  <2>1. N >= m
    BY <1>1
  <2> HIDE DEF S, Kept, N
  <2>2. \A n \in 0..N : n \in S
    BY <1>1, <1>4, <1>5, IntervalInduction
  <2>3. QED
    BY <1>1, <2>1, <2>2 DEF S
<1>7. QED
  BY <1>6

\* The slash that ends the first L parts of a text is its character m.
CutAt(A, s, L, m) ==
    s[m] = "/" /\ Len(A[m - 1]) = L /\ \A p \in 1..L : A[m - 1][p] = A[Len(s)][p]

\* Where a part ends there is a slash, and what is before it are the parts so far.
LEMMA SplitCut ==
  ASSUME NEW C, NEW s \in Seq(C), NEW A, SplitRun(A, s, C), NEW L \in 1..(Len(A[Len(s)]) - 1)
  PROVE  \E m \in 1..Len(s) : CutAt(A, s, L, m)
<1> DEFINE N == Len(s)
           Cut(n, m) == s[m] = "/" /\ Len(A[m - 1]) = L /\ \A p \in 1..L : A[m - 1][p] = A[n][p]
           S == {n \in 0..N : L < Len(A[n]) => \E m \in 1..n : Cut(n, m)}
<1>1. N \in Nat /\ L \in Nat \ {0}
  OBVIOUS
<1>2. 0 \in S
  <2>1. A[0] = << <<>> >>
    BY DEF SplitRun
  <2>2. Len(A[0]) = 1
    BY <2>1
  <2>3. 0 \in 0..N /\ ~(L < 1)
    BY <1>1
  <2>4. QED
    BY <2>2, <2>3
<1>3. ASSUME NEW n \in 0..(N - 1), n \in S
      PROVE  n + 1 \in S
  <2>1. A[n] \in PartLists(C) /\ s[n + 1] \in C /\ A[n + 1] = Extend(A[n], s[n + 1])
    BY SplitRunStep
  <2>2. Extended(A[n + 1], A[n], s[n + 1], C)
    BY <2>1, ExtendFacts
  <2>3. Len(A[n]) \in Nat /\ n \in Nat /\ n + 1 \in 0..N /\ n + 1 \in 1..(n + 1) /\ (n + 1) - 1 = n
    BY <2>2 DEF Extended
  <2>4. CASE L < Len(A[n])
    <3>1. PICK m \in 1..n : Cut(n, m)
      BY <1>3, <2>4
    <3>2. \A p \in 1..L : A[n + 1][p] = A[n][p]
      BY <1>1, <2>2, <2>3, <2>4 DEF Extended
    <3>3. m \in 1..(n + 1) /\ Cut(n + 1, m)
      BY <2>3, <3>1, <3>2
    <3>4. QED
      BY <2>3, <3>3
  <2>5. CASE ~(L < Len(A[n])) /\ L < Len(A[n + 1])
    <3>1. s[n + 1] = "/" /\ L = Len(A[n]) /\ \A p \in 1..L : A[n + 1][p] = A[n][p]
      BY <1>1, <2>2, <2>3, <2>5 DEF Extended
    <3>2. Cut(n + 1, n + 1)
      BY <2>3, <3>1
    <3> HIDE DEF Cut
    <3>3. QED
      BY <2>3, <3>2
  <2>6. CASE ~(L < Len(A[n + 1]))
    BY <2>3, <2>6
  <2>7. QED
    BY <2>4, <2>5, <2>6
<1>4. N \in S
  <2> HIDE DEF S, N
  <2>1. \A n \in 0..N : n \in S
    BY <1>1, <1>2, <1>3, IntervalInduction
  <2>2. QED
    BY <1>1, <2>1
<1>5. L < Len(A[N])
  <2>1. A[N] \in PartLists(C)
    BY <1>1 DEF SplitRun
  <2>2. Len(A[N]) \in Nat
    BY <2>1 DEF PartLists
  <2> HIDE DEF N
  <2>3. QED
    BY <2>2 DEF N
<1>6. QED
  BY <1>4, <1>5 DEF CutAt

Begins(s, t) == Len(s) <= Len(t) /\ \A i \in 1..Len(s) : s[i] = t[i]

LEMMA PrefixMeans ==
  ASSUME NEW C, NEW s \in Seq(C), NEW t \in Seq(C)
  PROVE  IsPrefix(s, t) <=> Begins(s, t)
<1> DEFINE n == Len(s)
<1>1. n \in Nat /\ Len(t) \in Nat /\ \A i \in 1..n : s[i] \in C
  OBVIOUS
<1>2. CASE ~(n <= Len(t))
  BY <1>2 DEF IsPrefix, Begins
<1>3. CASE n <= Len(t)
  <2>1. \A i \in 1..n : t[i] \in C
    BY <1>1, <1>3
  <2>2. 1 \in Int /\ n \in Int /\ (n - 1) + 1 = n
    BY <1>1
  <2> DEFINE a == SubSeq(s, 1, n)
             b == SubSeq(t, 1, n)
  <2>3. a \in Seq(C) /\ Len(a) = (IF 1 <= n THEN (n - 1) + 1 ELSE 0) /\ \A i \in 1..((n - 1) + 1) : a[i] = s[(1 + i) - 1]
    BY <1>1, <2>2, SubSeqProperties
  <2>4. b \in Seq(C) /\ Len(b) = (IF 1 <= n THEN (n - 1) + 1 ELSE 0) /\ \A i \in 1..((n - 1) + 1) : b[i] = t[(1 + i) - 1]
    BY <2>1, <2>2, SubSeqProperties
  <2> HIDE DEF a, b
  <2>5. Len(a) = n /\ Len(b) = n /\ \A i \in 1..n : a[i] = s[i] /\ b[i] = t[i]
    BY <1>1, <2>3, <2>4
  <2>6. a = b <=> \A i \in 1..n : s[i] = t[i]
    <3>1. ASSUME \A i \in 1..n : s[i] = t[i]
          PROVE  a = b
      <4>1. Len(a) = Len(b) /\ \A i \in 1..Len(a) : a[i] = b[i]
        BY <2>5, <3>1
      <4>2. QED
        BY <2>3, <2>4, <4>1, SeqEqual
    <3>2. ASSUME a = b
          PROVE  \A i \in 1..n : s[i] = t[i]
      BY <2>5, <3>2
    <3>3. QED
      BY <3>1, <3>2
  <2>7. QED
    BY <1>3, <2>6 DEF IsPrefix, Begins, a, b
<1>4. QED
  BY <1>2, <1>3

LEMMA OnceMore ==
  ASSUME NEW C, NEW s \in Seq(C), NEW a \in C
  PROVE  /\ s \o <<a>> \in Seq(C) /\ Len(s \o <<a>>) = Len(s) + 1
         /\ (s \o <<a>>)[Len(s) + 1] = a /\ \A i \in 1..Len(s) : (s \o <<a>>)[i] = s[i]
  OBVIOUS

\* An owner and a slash begin a name exactly when the parts of the owner are the first of
\* its parts, and not all of them.
LEMMA BelowOwner ==
  ASSUME NEW C, "/" \in C, NEW o \in Seq(C), NEW id \in Seq(C)
  PROVE  IsPrefix(o \o <<"/">>, id) <=> IsStrictPrefix(Split(o), Split(id))
<1> DEFINE N == Len(o)
           M == Len(id)
<1>1. N \in Nat /\ M \in Nat
  OBVIOUS
<1>2. PICK A : SplitRun(A, o, C) /\ Split(o) = A[N]
  BY SplitRuns
<1>3. PICK B : SplitRun(B, id, C) /\ Split(id) = B[M]
  BY SplitRuns
<1>4. A[N] \in PartLists(C) /\ B[M] \in PartLists(C)
  <2>1. N \in 0..N /\ M \in 0..M
    BY <1>1
  <2>2. QED
    BY <1>2, <1>3, <2>1 DEF SplitRun
<1>5. A[N] \in Seq(Seq(C)) /\ B[M] \in Seq(Seq(C)) /\ Len(A[N]) \in Nat \ {0} /\ Len(B[M]) \in Nat
  BY <1>4 DEF PartLists
<1>6. IsPrefix(o \o <<"/">>, id) <=> N < M /\ id[N + 1] = "/" /\ \A i \in 1..N : o[i] = id[i]
  <2> DEFINE w == o \o <<"/">>
  <2>1. w \in Seq(C) /\ Len(w) = N + 1 /\ w[N + 1] = "/" /\ \A i \in 1..N : w[i] = o[i]
    BY OnceMore
  <2> HIDE DEF w
  <2>2. IsPrefix(w, id) <=> Begins(w, id)
    BY <2>1, PrefixMeans
  <2>3. 1..(N + 1) = (1..N) \cup {N + 1}
    BY <1>1
  <2>4. Begins(w, id) <=> N < M /\ id[N + 1] = "/" /\ \A i \in 1..N : o[i] = id[i]
    BY <1>1, <2>1, <2>3 DEF Begins
  <2>5. QED
    BY <2>2, <2>4 DEF w
<1>7. IsPrefix(Split(o), Split(id)) <=> Begins(A[N], B[M])
  BY <1>2, <1>3, <1>5, PrefixMeans
<1>8. ASSUME N < M, id[N + 1] = "/", \A i \in 1..N : o[i] = id[i]
      PROVE  Begins(A[N], B[M]) /\ A[N] # B[M]
  <2>1. A[N] = B[N]
    BY <1>2, <1>3, <1>8, SplitAgrees
  <2>2. N + 1 \in 1..M /\ (N + 1) - 1 = N
    BY <1>1, <1>8
  <2>3. Len(B[(N + 1) - 1]) < Len(B[M]) /\ \A p \in 1..Len(B[(N + 1) - 1]) : B[M][p] = B[(N + 1) - 1][p]
    BY <1>3, <1>8, <2>2, SplitKeeps
  <2>4. Len(A[N]) < Len(B[M]) /\ \A p \in 1..Len(A[N]) : B[M][p] = A[N][p]
    BY <2>1, <2>2, <2>3
  <2>5. QED
    BY <1>5, <2>4 DEF Begins
<1>9. ASSUME Begins(A[N], B[M]), A[N] # B[M]
      PROVE  N < M /\ id[N + 1] = "/" /\ \A i \in 1..N : o[i] = id[i]
  <2> DEFINE L == Len(A[N])
  <2>1. L < Len(B[M])
    <3>1. L # Len(B[M])
      <4>1. SUFFICES ASSUME L = Len(B[M]) PROVE FALSE
        OBVIOUS
      <4>2. \A p \in 1..Len(A[N]) : A[N][p] = B[M][p]
        BY <1>9 DEF Begins
      <4>3. A[N] = B[M]
        BY <1>5, <4>1, <4>2, SeqEqual
      <4>4. QED
        BY <1>9, <4>3
    <3>2. QED
      BY <1>5, <1>9, <3>1 DEF Begins
  <2>2. L \in 1..(Len(B[M]) - 1)
    BY <1>5, <2>1
  <2>3. PICK m \in 1..M : id[m] = "/" /\ Len(B[m - 1]) = L /\ \A p \in 1..L : B[m - 1][p] = B[M][p]
    <3>1. \E m \in 1..M : CutAt(B, id, L, m)
      <4> HIDE DEF L
      <4>1. QED
        BY <1>3, <2>2, SplitCut
    <3>2. QED
      BY <3>1 DEF CutAt
  <2>4. m - 1 \in 0..M /\ N \in 0..N /\ m \in Nat
    BY <1>1
  <2>5. B[m - 1] \in Seq(Seq(C))
    <3>1. B[m - 1] \in PartLists(C)
      BY <1>3, <2>4 DEF SplitRun
    <3>2. QED
      BY <3>1 DEF PartLists
  <2>6. A[N] = B[m - 1]
    <3>1. Len(A[N]) = Len(B[m - 1]) /\ \A p \in 1..Len(A[N]) : A[N][p] = B[m - 1][p]
      BY <1>9, <2>3 DEF Begins
    <3>2. QED
      BY <1>5, <2>5, <3>1, SeqEqual
  <2>7. N = m - 1 /\ \A i \in 1..N : o[i] = id[i]
    <3>1. \A n \in 0..N : \A k \in 0..M : A[n] = B[k] => n = k /\ \A i \in 1..n : o[i] = id[i]
      BY <1>2, <1>3, SplitInjective
    <3>2. QED
      BY <2>4, <2>6, <3>1
  <2>8. m = N + 1 /\ N < M
    BY <1>1, <2>4, <2>7
  <2>9. QED
    BY <2>3, <2>7, <2>8
<1>10. QED
  BY <1>2, <1>3, <1>6, <1>7, <1>8, <1>9 DEF IsStrictPrefix

\* The wildcard is the last part of the target, and the owner is what is before it.
LEMMA SplitWildcard ==
  ASSUME NEW C, "/" \in C, "*" \in C, NEW o \in Seq(C), NEW t \in Seq(C), Len(t) = Len(o) + 2,
         \A i \in 1..Len(o) : t[i] = o[i], t[Len(o) + 1] = "/", t[Len(o) + 2] = "*"
  PROVE  Split(t) = Append(Split(o), <<"*">>) /\ Split(o) \in PartLists(C)
<1> DEFINE N == Len(o)
<1>1. PICK A : SplitRun(A, o, C) /\ Split(o) = A[N]
  BY SplitRuns
<1>2. PICK B : SplitRun(B, t, C) /\ Split(t) = B[Len(t)]
  BY SplitRuns
<1>3. /\ N \in Nat /\ N <= Len(t) /\ N \in 0..(Len(t) - 1) /\ N + 1 \in 0..(Len(t) - 1) /\ Len(t) = (N + 1) + 1
      /\ (N + 1) + 1 = N + 2
  OBVIOUS
<1>4. A[N] = B[N]
  <2>1. \A i \in 1..N : o[i] = t[i]
    OBVIOUS
  <2>2. QED
    BY <1>1, <1>2, <1>3, <2>1, SplitAgrees
<1>5. B[N] \in PartLists(C) /\ B[N + 1] = Extend(B[N], "/")
  BY <1>2, <1>3, SplitRunStep
<1>6. B[N + 1] \in PartLists(C) /\ B[(N + 1) + 1] = Extend(B[N + 1], "*")
  <2>1. t[(N + 1) + 1] = "*"
    BY <1>3
  <2>2. QED
    BY <1>2, <1>3, <2>1, SplitRunStep
<1> DEFINE P == A[N]
           Q == Append(P, <<>>)
<1>7. P \in Seq(Seq(C)) /\ Len(P) \in Nat
  BY <1>4, <1>5 DEF PartLists
<1>8. B[N + 1] = Q
  BY <1>4, <1>5 DEF Extend
<1>9. B[(N + 1) + 1] = [Q EXCEPT ![Len(Q)] = Append(@, "*")]
  BY <1>6, <1>8 DEF Extend
<1>10. <<>> \in Seq(C) /\ <<"*">> \in Seq(C) /\ Append(<<>>, "*") = <<"*">>
  OBVIOUS
<1> HIDE DEF P
<1>11. [Q EXCEPT ![Len(Q)] = Append(@, "*")] = Append(P, <<"*">>)
  <2>1. /\ Q \in Seq(Seq(C)) /\ Len(Q) = Len(P) + 1 /\ Q[Len(P) + 1] = <<>>
        /\ \A i \in 1..Len(P) : Q[i] = P[i]
    BY <1>7, <1>10, AppendProperties
  <2> DEFINE R == Append(P, <<"*">>)
             T == [Q EXCEPT ![Len(Q)] = Append(@, "*")]
  <2>2. /\ R \in Seq(Seq(C)) /\ Len(R) = Len(P) + 1 /\ R[Len(P) + 1] = <<"*">>
        /\ \A i \in 1..Len(P) : R[i] = P[i]
    BY <1>7, <1>10, AppendProperties
  <2> HIDE DEF Q
  <2>3. Append(Q[Len(Q)], "*") = <<"*">>
    BY <1>10, <2>1
  <2>4. T = [Q EXCEPT ![Len(Q)] = <<"*">>]
    BY <2>3
  <2>5. /\ T \in Seq(Seq(C)) /\ Len(T) = Len(P) + 1 /\ T[Len(P) + 1] = <<"*">>
        /\ \A i \in 1..Len(P) : T[i] = P[i]
    BY <1>7, <1>10, <2>1, <2>4
  <2> HIDE DEF T, R
  <2>6. \A i \in 1..Len(T) : T[i] = R[i]
    <3>1. \A i \in 1..Len(T) : i \in 1..Len(P) \/ i = Len(P) + 1
      BY <1>7, <2>5
    <3>2. QED
      BY <2>2, <2>5, <3>1
  <2>7. T = R
    BY <2>2, <2>5, <2>6, SeqEqual
  <2>8. QED
    BY <2>7 DEF T, R
<1>12. QED
  BY <1>1, <1>2, <1>3, <1>4, <1>5, <1>9, <1>11 DEF P
-----------------------------------------------------------------------------
LEMMA Reversed ==
  ASSUME NEW C, NEW s \in Seq(C)
  PROVE  /\ Reverse(s) \in Seq(C) /\ Len(Reverse(s)) = Len(s)
         /\ \A i \in 1..Len(s) : Reverse(s)[i] = s[(Len(s) - i) + 1]
<1>1. Len(s) \in Nat /\ \A i \in 1..Len(s) : (Len(s) - i) + 1 \in 1..Len(s) /\ s[i] \in C
  OBVIOUS
<1>2. \A i \in 1..Len(s) : s[(Len(s) - i) + 1] \in C
  BY <1>1
<1>3. Reverse(s) \in [1..Len(s) -> C]
  BY <1>2 DEF Reverse
<1>4. QED
  BY <1>1, <1>3 DEF Reverse

LEMMA SuffixMeans ==
  ASSUME NEW C, "/" \in C, "*" \in C, NEW t \in Seq(C)
  PROVE  IsSuffix(OwnerWildcard, t) <=>
            Len(t) >= 2 /\ t[Len(t) - 1] = "/" /\ t[Len(t)] = "*"
<1> DEFINE w == OwnerWildcard
           u == Reverse(w)
           v == Reverse(t)
<1>1. w \in Seq(C) /\ Len(w) = 2 /\ w[1] = "/" /\ w[2] = "*"
  BY DEF OwnerWildcard
<1>2. u \in Seq(C) /\ Len(u) = 2 /\ u[1] = "*" /\ u[2] = "/"
  <2>1. u \in Seq(C) /\ Len(u) = Len(w) /\ \A i \in 1..Len(w) : u[i] = w[(Len(w) - i) + 1]
    BY <1>1, Reversed
  <2> HIDE DEF u, w
  <2>2. u[1] = w[(2 - 1) + 1] /\ u[2] = w[(2 - 2) + 1]
    BY <1>1, <2>1
  <2>3. QED
    BY <1>1, <2>1, <2>2
<1>3. Len(t) \in Nat
  OBVIOUS
<1>4. v \in Seq(C) /\ Len(v) = Len(t) /\ \A i \in 1..Len(t) : v[i] = t[(Len(t) - i) + 1]
  BY Reversed
<1> HIDE DEF u, v, w
<1>5. IsPrefix(u, v) <=> Begins(u, v)
  BY <1>2, <1>4, PrefixMeans
<1>6. Len(t) >= 2 => v[1] = t[Len(t)] /\ v[2] = t[Len(t) - 1]
  <2>1. ASSUME Len(t) >= 2
        PROVE  v[1] = t[(Len(t) - 1) + 1] /\ v[2] = t[(Len(t) - 2) + 1]
    BY <1>3, <1>4, <2>1
  <2>2. (Len(t) - 1) + 1 = Len(t) /\ (Len(t) - 2) + 1 = Len(t) - 1
    BY <1>3
  <2>3. QED
    BY <2>1, <2>2
<1>7. Begins(u, v) <=> 2 <= Len(t) /\ u[1] = v[1] /\ u[2] = v[2]
  <2>1. 1..2 = {1, 2}
    OBVIOUS
  <2>2. QED
    BY <1>2, <1>4, <2>1 DEF Begins
<1>8. QED
  BY <1>2, <1>3, <1>5, <1>6, <1>7 DEF IsSuffix, u, v, w

\* Where a text ends in the wildcard, what is before it is the owner.
LEMMA OwnerOf ==
  ASSUME NEW C, "/" \in C, "*" \in C, NEW t \in Seq(C), Len(t) >= 2, t[Len(t) - 1] = "/", t[Len(t)] = "*"
  PROVE  \E o \in Seq(C) : /\ Front(t) = o \o <<"/">>
                           /\ Last(Split(t)) = <<"*">> /\ Front(Split(t)) = Split(o)
<1> DEFINE N == Len(t) - 2
           o == SubSeq(t, 1, N)
<1>1. N \in Nat /\ Len(t) = N + 2 /\ Len(t) - 1 = N + 1 /\ 1 \in Int /\ N \in Int /\ N + 1 \in Int
  OBVIOUS
<1>2. o \in Seq(C) /\ Len(o) = N /\ \A i \in 1..N : o[i] = t[i]
  <2>1. \A i \in 1..N : t[i] \in C
    OBVIOUS
  <2>2. o \in Seq(C) /\ Len(o) = (IF 1 <= N THEN (N - 1) + 1 ELSE 0) /\ \A i \in 1..((N - 1) + 1) : o[i] = t[(1 + i) - 1]
    BY <1>1, <2>1, SubSeqProperties
  <2> HIDE DEF o, N
  <2>3. QED
    BY <1>1, <2>2
<1> HIDE DEF o
<1>3. Front(t) = o \o <<"/">>
  <2> DEFINE f == SubSeq(t, 1, N + 1)
             g == o \o <<"/">>
  <2>1. \A i \in 1..(N + 1) : t[i] \in C
    OBVIOUS
  <2>2. f \in Seq(C) /\ Len(f) = (IF 1 <= N + 1 THEN ((N + 1) - 1) + 1 ELSE 0) /\ \A i \in 1..(((N + 1) - 1) + 1) : f[i] = t[(1 + i) - 1]
    BY <1>1, <2>1, SubSeqProperties
  <2>3. g \in Seq(C) /\ Len(g) = N + 1 /\ g[N + 1] = "/" /\ \A i \in 1..N : g[i] = t[i]
    BY <1>2, OnceMore
  <2>4. t[N + 1] = "/"
    BY <1>1
  <2> HIDE DEF f, g, N
  <2>5. Len(f) = N + 1 /\ \A i \in 1..(N + 1) : f[i] = t[i]
    BY <1>1, <2>2
  <2>6. \A i \in 1..(N + 1) : f[i] = g[i]
    <3>1. \A i \in 1..(N + 1) : i \in 1..N \/ i = N + 1
      BY <1>1
    <3>2. QED
      BY <2>3, <2>4, <2>5, <3>1
  <2>7. f = g
    <3>1. Len(f) = Len(g) /\ \A i \in 1..Len(f) : f[i] = g[i]
      BY <2>3, <2>5, <2>6
    <3>2. QED
      BY <2>2, <2>3, <3>1, SeqEqual
  <2>8. Front(t) = f
    BY <1>1 DEF Front, f
  <2>9. QED
    BY <2>7, <2>8 DEF g
<1>4. Split(t) = Append(Split(o), <<"*">>) /\ Split(o) \in PartLists(C)
  <2>1. Len(t) = Len(o) + 2 /\ t[Len(o) + 1] = "/" /\ t[Len(o) + 2] = "*" /\ \A i \in 1..Len(o) : t[i] = o[i]
    BY <1>1, <1>2
  <2>2. QED
    BY <1>2, <2>1, SplitWildcard
<1>5. Last(Split(t)) = <<"*">> /\ Front(Split(t)) = Split(o)
  <2> DEFINE P == Split(o)
             Q == Append(P, <<"*">>)
  <2>1. P \in Seq(Seq(C)) /\ <<"*">> \in Seq(C) /\ Len(P) \in Nat
    BY <1>4 DEF PartLists
  <2> HIDE DEF P
  <2>2. Q \in Seq(Seq(C)) /\ Len(Q) = Len(P) + 1 /\ Q[Len(P) + 1] = <<"*">> /\ \A i \in 1..Len(P) : Q[i] = P[i]
    BY <2>1, AppendProperties
  <2>3. Last(Q) = <<"*">> /\ Front(Q) = P
    BY <2>1 DEF Last, Front
  <2>4. QED
    BY <1>4, <2>3 DEF P, Q
<1>6. QED
  BY <1>2, <1>3, <1>5
-----------------------------------------------------------------------------
NameChars == Alphanumeric \cup Punctuation \cup {"/"}

LEMMA LowerTyped ==
  ASSUME NEW C, "a" \in C, "b" \in C, NEW s \in Seq(C)
  PROVE  /\ Lower(s) \in Seq(C)
         /\ "*" \in ToSet(s) => "*" \in ToSet(Lower(s))
<1>1. DOMAIN s = 1..Len(s) /\ Len(s) \in Nat /\ \A i \in 1..Len(s) : s[i] \in C
  OBVIOUS
<1>2. Lower(s) \in [1..Len(s) -> C]
  BY <1>1 DEF Lower
<1>3. Lower(s) \in Seq(C)
  BY <1>1, <1>2
<1>4. DOMAIN Lower(s) = DOMAIN s /\ \A i \in DOMAIN s : s[i] = "*" => Lower(s)[i] = "*"
  BY DEF Lower
<1>5. QED
  BY <1>3, <1>4 DEF ToSet

\* identity.go: what ParseIdentity accepts.
LEMMA IdentityParsed ==
  ASSUME NEW C, "a" \in C, "b" \in C, NEW d \in Seq(C), ParseIdentity(d) # Refused
  PROVE  /\ ParseIdentity(d) = Lower(d) /\ ParseIdentity(d) \in Seq(C)
         /\ Len(Split(ParseIdentity(d))) >= 2
         /\ \A n \in DOMAIN Split(ParseIdentity(d)) : ValidIdentityComponent(Split(ParseIdentity(d))[n])
         /\ ToSet(ParseIdentity(d)) \subseteq NameChars
         /\ "*" \notin ToSet(d)
<1> DEFINE id == ParseIdentity(d)
<1>1. /\ id = Lower(d) /\ Len(Split(Lower(d))) \in 2..MaxIdentityComponents
      /\ \A n \in DOMAIN Split(Lower(d)) : ValidIdentityComponent(Split(Lower(d))[n])
  BY DEF ParseIdentity
<1>2. id \in Seq(C) /\ ("*" \in ToSet(d) => "*" \in ToSet(id))
  BY <1>1, LowerTyped
<1>3. Chars(Split(id)) = ToSet(id) \ {"/"}
  BY <1>2, SplitChars
<1>4. Chars(Split(id)) \subseteq Alphanumeric \cup Punctuation
  BY <1>1 DEF Chars, ValidIdentityComponent
<1>5. ToSet(id) \subseteq NameChars
  BY <1>3, <1>4 DEF NameChars
<1>6. "*" \notin NameChars
  BY DEF NameChars, Alphanumeric, Punctuation
<1>7. QED
  BY <1>1, <1>2, <1>5, <1>6

\* scope.go:71-100: a scope that parses grants over a package what is below its owner.
LEMMA GrantMeans ==
  ASSUME NEW C, "/" \in C, "*" \in C, "a" \in C, "b" \in C,
         NEW g, g.target \in Seq(C) \cup {NoTarget}, ParseScope(g),
         NEW r, r.target \in Seq(C), r.target # <<>>, ToSet(r.target) \subseteq NameChars
  PROVE  Satisfies(g, r) <=> g.action = r.action /\ WithinOwner(g, r.target)
<1> DEFINE t == g.target
           id == r.target
<1>1. id # NoTarget /\ "*" \notin ToSet(id)
  <2>1. "*" \notin NameChars /\ "none" \notin NameChars
    BY DEF NameChars, Alphanumeric, Punctuation
  <2>2. ToSet(NoTarget) = {"none"}
    BY DEF NoTarget, ToSet
  <2>3. QED
    BY <2>1, <2>2
<1>2. Satisfies(g, r) <=> /\ g.action = r.action
                          /\ \/ t \in {NoTarget, id}
                             \/ IsSuffix(OwnerWildcard, t) /\ IsPrefix(Front(t), id)
  BY <1>1 DEF Satisfies
<1>3. WithinOwner(g, id) <=>
          \/ t \in {NoTarget, id}
          \/ Last(Split(t)) = <<"*">> /\ IsStrictPrefix(Front(Split(t)), Split(id))
  BY DEF WithinOwner
<1> HIDE DEF t, id
<1>4. CASE t \in {NoTarget, id}
  BY <1>2, <1>3, <1>4 DEF id
<1>5. t \notin {NoTarget, id} => t \in Seq(C)
  BY DEF t
<1>6. CASE t \notin {NoTarget, id} /\ IsSuffix(OwnerWildcard, t)
  <2>1. Len(t) >= 2 /\ t[Len(t) - 1] = "/" /\ t[Len(t)] = "*"
    BY <1>6, <1>5, SuffixMeans
  <2>2. PICK o \in Seq(C) : /\ Front(t) = o \o <<"/">>
                            /\ Last(Split(t)) = <<"*">> /\ Front(Split(t)) = Split(o)
    BY <1>6, <1>5, <2>1, OwnerOf
  <2>3. IsPrefix(o \o <<"/">>, id) <=> IsStrictPrefix(Split(o), Split(id))
    BY BelowOwner DEF id
  <2>4. IsPrefix(Front(t), id) <=> IsStrictPrefix(Front(Split(t)), Split(id))
    BY <2>2, <2>3
  <2>5. QED
    BY <1>2, <1>3, <1>6, <2>2, <2>4 DEF id
<1>7. CASE t \notin {NoTarget, id} /\ ~IsSuffix(OwnerWildcard, t)
  <2>1. ParseIdentity(t) # Refused
    BY <1>7 DEF ParseScope, t
  <2>2. "*" \notin ToSet(t)
    BY <1>7, <1>5, <2>1, IdentityParsed
  <2>3. Chars(Split(t)) = ToSet(t) \ {"/"}
    BY <1>7, <1>5, SplitChars
  <2>4. Len(Split(t)) \in DOMAIN Split(t)
    <3>1. PICK run : SplitRun(run, t, C) /\ Split(t) = run[Len(t)]
      BY <1>7, <1>5, SplitRuns
    <3>2. Len(t) \in 0..Len(t)
      BY <1>7, <1>5
    <3>3. Split(t) \in PartLists(C)
      BY <3>1, <3>2 DEF SplitRun
    <3>4. QED
      BY <3>3 DEF PartLists
  <2>5. "*" \in ToSet(<<"*">>)
    BY DEF ToSet
  <2>6. Last(Split(t)) # <<"*">>
    BY <2>2, <2>3, <2>4, <2>5 DEF Last, Chars
  <2>7. QED
    BY <1>2, <1>3, <1>7, <2>6 DEF id
<1>8. QED
  BY <1>4, <1>6, <1>7

\* What one owner has is below it: the parts of a package without the last are the first
\* of its parts, and not all of them.
LEMMA OwnedIsBelow ==
  ASSUME NEW C, NEW id \in Seq(C), NEW g, Covers(g, id)
  PROVE  WithinOwner(g, id)
<1> DEFINE P == Split(id)
<1>1. P \in Seq(Seq(C)) /\ Len(P) \in Nat \ {0}
  <2>1. PICK run : SplitRun(run, id, C) /\ P = run[Len(id)]
    BY SplitRuns
  <2>2. Len(id) \in 0..Len(id)
    OBVIOUS
  <2>3. P \in PartLists(C)
    BY <2>1, <2>2 DEF SplitRun
  <2>4. QED
    BY <2>3 DEF PartLists
<1> HIDE DEF P
<1>2. Front(P) \in Seq(Seq(C)) /\ Len(Front(P)) = Len(P) - 1
      /\ \A i \in 1..(Len(P) - 1) : Front(P)[i] = P[i]
  <2> DEFINE m == Len(P) - 1
             f == SubSeq(P, 1, m)
  <2>1. m \in Nat /\ m <= Len(P) /\ (1 + m) - 1 = m
    BY <1>1
  <2>2. f \in Seq(Seq(C)) /\ Len(f) = m /\ \A i \in 1..m : f[i] = P[i]
    BY <1>1, <2>1, SubSeqProperties
  <2>3. QED
    BY <2>2 DEF Front
<1>3. Begins(Front(P), P)
  BY <1>1, <1>2 DEF Begins
<1>4. IsPrefix(Front(P), P)
  BY <1>1, <1>2, <1>3, PrefixMeans
<1>5. Front(P) # P
  BY <1>1, <1>2
<1>6. IsStrictPrefix(Front(P), P)
  BY <1>4, <1>5 DEF IsStrictPrefix
<1>7. QED
  BY <1>6 DEF Covers, WithinOwner, P

-----------------------------------------------------------------------------
\* What Load and the flags leave behind.
ConfigInv ==
    /\ ConfigTypeOK
    /\ phase = "starting" => env \in Environments
    /\ phase \in {"loaded", "listening", "serving"} => cfg.archive \in 1..MaxInt
    /\ phase \in {"loaded", "listening"} => Problems(env) = {} /\ cfg = Loaded(env)
    /\ phase = "listening" => ~FlagsRefused /\ listen = ListenAddr

\* A number that Load took is an int64 above zero, given or by default.
LEMMA PositiveTaken ==
  ASSUME NEW raw, NEW fallback \in 1..MaxInt
  PROVE  /\ PositiveInt64(raw, fallback) \in 1..MaxInt
         /\ ~BadNumber(raw) => raw \in {Unset} \cup 1..MaxInt
  BY DEF PositiveInt64, BadNumber, Positive

LEMMA LoadedTyped ==
  ASSUME NEW e
  PROVE  /\ Loaded(e).archive \in 1..MaxInt
         /\ Loaded(e).uncompressed \in 1..MaxInt
         /\ Loaded(e).entries \in 1..MaxInt
<1>1. 2 \in 1..MaxInt /\ 3 \in 1..MaxInt
  BY RequestsConstants
<1>2. Defaults.archive = 2 /\ Defaults.uncompressed = 3 /\ Defaults.entries = 2
  BY DEF Defaults
<1>3. QED
  BY <1>1, <1>2, PositiveTaken DEF Loaded

LEMMA ConfigInitInv == ConfigInit => ConfigInv
<1>1. ToSet(<<>>) = {}
  BY DEF ToSet
<1>2. /\ NoConfig.archive = 0 /\ NoConfig.uncompressed = 0 /\ NoConfig.entries = 0
      /\ NoConfig.media = <<>> /\ NoConfig.addr = <<>>
  BY DEF NoConfig
<1>3. 0 \in 0..MaxInt
  BY RequestsConstants
<1>4. ConfigInit => ConfigTypeOK
  BY <1>1, <1>2, <1>3 DEF ConfigInit, ConfigTypeOK
<1>5. QED
  BY <1>4 DEF ConfigInit, ConfigInv

\* What is kept of a list of media types are some of those the server can read.
Kept(out, mt) == IF mt \in Readable /\ ~Contains(out, mt) THEN Append(out, mt) ELSE out

LEMMA MediaTypesReadable ==
  ASSUME NEW C, NEW parts \in Seq(C)
  PROVE  ToSet(ParseMediaTypes(parts)) \subseteq Readable
<1> DEFINE N == Len(parts)
           X == Seq(Readable)
           base == <<>>
           step == [i \in 1..N |-> [v \in X |-> Kept(v, parts[i])]]
           G(it) == [t \in SUBSET (DOMAIN parts) |->
                       IF t = {} THEN base ELSE Kept(it[t \ {Max(t)}], parts[Max(t)])]
<1>1. N \in Nat /\ DOMAIN parts = 1..N
  OBVIOUS
<1>2. base \in X
  OBVIOUS
<1>3. step \in [1..N -> [X -> X]]
  <2>1. \A v \in X, mt \in Readable : Append(v, mt) \in X
    OBVIOUS
  <2> HIDE DEF X
  <2>2. \A i \in 1..N, v \in X : Kept(v, parts[i]) \in X
    BY <2>1 DEF Kept
  <2>3. QED
    BY <2>2
<1>4. PICK it \in [SUBSET (1..N) -> X] : Folds(it, N, base, step)
  <2> HIDE DEF N, X, base, step
  <2>1. QED
    BY <1>1, <1>2, <1>3, FoldExists
<1>5. it = G(it)
  <2>1. ASSUME NEW t \in SUBSET (1..N), t # {}
        PROVE  step[Max(t)][it[t \ {Max(t)}]] = Kept(it[t \ {Max(t)}], parts[Max(t)])
    <3>1. Max(t) \in 1..N
      BY <2>1, <1>1, MaxOfPositions
    <3>2. it[t \ {Max(t)}] \in X
      OBVIOUS
    <3>3. QED
      BY <3>1, <3>2
  <2> HIDE DEF base, X
  <2>2. QED
    BY <1>1, <1>4, <2>1 DEF Folds
<1>6. PICK chosen : chosen = G(chosen) /\ ParseMediaTypes(parts) = chosen[1..N]
  <2> DEFINE c == CHOOSE c : c = G(c)
  <2>1. c = G(c)
    BY <1>5
  <2>2. ParseMediaTypes(parts) = c[1..N]
    BY <1>1 DEF ParseMediaTypes, FoldLeft, MapThenFoldSet, Kept
  <2>3. QED
    BY <2>1, <2>2
<1>7. FoldsWithin(chosen, N, X, base, step)
  <2>1. \A t \in SUBSET (1..N) : t # {} => Max(t) \in 1..N
    BY <1>1, MaxOfPositions
  <2> HIDE DEF base, X
  <2>2. QED
    BY <1>1, <1>6, <2>1 DEF FoldsWithin
<1>8. RunOf(chosen, N, X, base, step)
  <2> HIDE DEF N, X, base, step, G
  <2>1. QED
    BY <1>1, <1>2, <1>3, <1>7, FoldRuns
<1>9. ParseMediaTypes(parts) \in X
  <2> HIDE DEF X, base, step, G
  <2>1. PICK run \in [0..N -> X] : chosen[1..N] = run[N]
    BY <1>8 DEF RunOf
  <2>2. N \in 0..N
    BY <1>1
  <2>3. QED
    BY <1>6, <2>1, <2>2
<1>10. QED
  BY <1>9 DEF ToSet

\* A configuration that Load returns has none of the problems.
LEMMA NoProblem ==
  ASSUME NEW e, Problems(e) = {}
  PROVE  /\ ValidatePort(PortOf(e))
         /\ e.addr = <<>> \/ ValidateAddr(e.addr)
         /\ ~Disagree(e)
         /\ ~BadNumber(e.archive) /\ ~BadNumber(e.uncompressed) /\ ~BadNumber(e.entries)
         /\ ~(Loaded(e).archive > Loaded(e).uncompressed)
         /\ ToSet(Parts(e)) \subseteq Readable \cup {""}
         /\ Loaded(e).media # <<>>
         /\ ~BadBool(e.insecure)
         /\ ~PlainHTTP(Loaded(e))
<1> DEFINE c == Loaded(e)
           If(condition, problem) == IF condition THEN {problem} ELSE {}
<1>1. /\ If(~ValidatePort(PortOf(e)), "PORT") = {}
      /\ If(e.addr # <<>> /\ ~ValidateAddr(e.addr), "ADDR") = {}
      /\ If(Disagree(e), "ADDR and PORT") = {}
      /\ If(BadNumber(e.archive), "MAX_ARCHIVE_BYTES") = {}
      /\ If(BadNumber(e.uncompressed), "MAX_UNCOMPRESSED_BYTES") = {}
      /\ If(BadNumber(e.entries), "MAX_ARCHIVE_ENTRIES") = {}
      /\ If(c.archive > c.uncompressed, "caps") = {}
      /\ If(~(ToSet(Parts(e)) \subseteq Readable \cup {""}), "media type") = {}
      /\ If(c.media = <<>>, "ACCEPTED_MEDIA_TYPES") = {}
      /\ If(BadBool(e.insecure), "ALLOW_INSECURE_HTTP") = {}
      /\ If(PlainHTTP(c), "BASE_URL") = {}
  BY Zenon DEF Problems
<1>2. QED
  BY <1>1

\* What Load returns has its type.
LEMMA LoadedTypeOK ==
  ASSUME NEW e \in Environments, Problems(e) = {}
  PROVE  /\ ToSet(Loaded(e).media) \subseteq Readable
         /\ Loaded(e).addr = <<>> \/ ValidateAddr(Loaded(e).addr)
<1>1. Loaded(e).media = ParseMediaTypes(Parts(e)) /\ Loaded(e).addr = ResolvedAddr(e)
  BY DEF Loaded
<1>2. Parts(e) \in Seq(STRING) \cup Seq({"zip", "gzip"})
  <2>1. Defaults.media \in Seq({"zip", "gzip"})
    BY DEF Defaults
  <2>2. QED
    BY <2>1, RequestsConstants DEF Parts
<1>3. ToSet(Loaded(e).media) \subseteq Readable
  BY <1>1, <1>2, MediaTypesReadable
<1>4. ValidatePort(PortOf(e)) /\ (e.addr = <<>> \/ ValidateAddr(e.addr))
  BY NoProblem
<1>5. ValidateAddr(<<"", PortOf(e)>>)
  <2>1. \A p : Len(<<"", p>>) = 2 /\ <<"", p>>[2] = p
    OBVIOUS
  <2> HIDE DEF PortOf
  <2>2. QED
    BY <1>4, <2>1 DEF ValidateAddr
<1>6. ResolvedAddr(e) = <<>> \/ ValidateAddr(ResolvedAddr(e))
  BY <1>4, <1>5 DEF ResolvedAddr
<1>7. QED
  BY <1>1, <1>3, <1>6

LEMMA ConfigNextInv == ConfigInv /\ ConfigNext => ConfigInv'
<1> SUFFICES ASSUME ConfigInv, ConfigNext PROVE ConfigInv'
  OBVIOUS
<1>1. CASE LoadConfig
  <2>1. CASE Problems(env) = {}
    <3>1. phase' = "loaded" /\ cfg' = Loaded(env) /\ env' = env
      BY <1>1, <2>1 DEF LoadConfig
    <3>2. cfg'.archive \in 1..MaxInt /\ cfg'.uncompressed \in 1..MaxInt /\ cfg'.entries \in 1..MaxInt
      BY <3>1, LoadedTyped
    <3>3. env \in Environments /\ listen' = listen
      BY <1>1 DEF LoadConfig, ConfigInv
    <3>4. ToSet(cfg'.media) \subseteq Readable /\ (cfg'.addr = <<>> \/ ValidateAddr(cfg'.addr))
      BY <2>1, <3>1, <3>3, LoadedTypeOK
    <3>5. ConfigTypeOK'
      BY <3>1, <3>2, <3>3, <3>4, RequestsConstants DEF ConfigTypeOK, ConfigInv
    <3>6. QED
      BY <2>1, <3>1, <3>2, <3>5 DEF ConfigInv
  <2>2. CASE Problems(env) # {}
    BY <1>1, <2>2 DEF LoadConfig, ConfigInv, ConfigTypeOK
  <2>3. QED
    BY <2>1, <2>2
<1>2. CASE ResolveListenAddr
  <2>1. phase = "loaded" /\ env' = env /\ cfg' = cfg
    BY <1>2 DEF ResolveListenAddr
  <2>2. CASE FlagsRefused
    BY <1>2, <2>1, <2>2 DEF ResolveListenAddr, ConfigInv, ConfigTypeOK
  <2>3. CASE ~FlagsRefused
    <3>1. phase' = "listening" /\ listen' = ListenAddr
      BY <1>2, <2>3 DEF ResolveListenAddr
    <3>2. FlagsRefused' = FlagsRefused /\ ListenAddr' = ListenAddr
      BY <2>1 DEF FlagsRefused, ListenAddr
    <3>3. ListenAddr = <<>> \/ ValidateAddr(ListenAddr)
      <4>1. \A h, p : Len(<<h, p>>) = 2 /\ <<h, p>>[2] = p
        OBVIOUS
      <4>2. CASE env.addrFlag # <<>>
        BY <2>3, <4>2 DEF ListenAddr, FlagsRefused
      <4>3. CASE env.addrFlag = <<>> /\ env.portFlag # ""
        BY <2>3, <4>1, <4>3 DEF ListenAddr, FlagsRefused, ValidateAddr
      <4>4. CASE env.addrFlag = <<>> /\ env.portFlag = ""
        BY <4>4 DEF ListenAddr, ConfigInv, ConfigTypeOK
      <4>5. QED
        BY <4>2, <4>3, <4>4
    <3>4. ConfigTypeOK'
      BY <2>1, <3>1, <3>3 DEF ConfigInv, ConfigTypeOK
    <3>5. QED
      BY <2>1, <2>3, <3>1, <3>2, <3>4 DEF ConfigInv
  <2>4. QED
    BY <2>2, <2>3
<1>3. QED
  BY <1>1, <1>2 DEF ConfigNext

\* config.go:70-139: whatever starts can be met, and no default hides a bad value.
LEMMA LoadedIsSound == ConfigInv => StartsOnlyWhenSound
<1> SUFFICES ASSUME ConfigInv, phase \in {"loaded", "listening"}
             PROVE  /\ 0 < cfg.archive /\ cfg.archive <= cfg.uncompressed /\ 0 < cfg.entries
                    /\ cfg.media # <<>>
                    /\ cfg.base[1] = "http://" =>
                          cfg.base[2] \in {"localhost", "127.0.0.1", "[::1]"} \/ env.insecure = "true"
                    /\ \A raw \in {env.archive, env.uncompressed, env.entries} :
                          raw \in {Unset} \cup 1..MaxInt
                    /\ env.addr = <<>> \/ ValidateAddr(env.addr)
                    /\ ToSet(env.media) \subseteq Readable \cup {""}
                    /\ env.insecure \in {"", "true", "false"}
  BY DEF StartsOnlyWhenSound
<1>1. Problems(env) = {} /\ cfg = Loaded(env)
  BY DEF ConfigInv
<1>2. 0 < cfg.archive /\ cfg.archive <= cfg.uncompressed /\ 0 < cfg.entries
  <2>1. cfg.archive \in 1..MaxInt /\ cfg.uncompressed \in 1..MaxInt /\ cfg.entries \in 1..MaxInt
    BY <1>1, LoadedTyped
  <2>2. ~(cfg.archive > cfg.uncompressed)
    BY <1>1, NoProblem
  <2>3. QED
    BY <2>1, <2>2, RequestsConstants
<1>3. cfg.base[1] = "http://" =>
          cfg.base[2] \in {"localhost", "127.0.0.1", "[::1]"} \/ env.insecure = "true"
  <2>1. ~PlainHTTP(cfg) /\ ~BadBool(env.insecure)
    BY <1>1, NoProblem
  <2>2. cfg.insecure = BoolOr(env.insecure, FALSE)
    BY <1>1 DEF Loaded
  <2>3. cfg.insecure => env.insecure = "true"
    BY <2>1, <2>2 DEF BoolOr, BadBool
  <2>4. QED
    BY <2>1, <2>3 DEF PlainHTTP, IsLoopback
<1>4. \A raw \in {env.archive, env.uncompressed, env.entries} : raw \in {Unset} \cup 1..MaxInt
  BY <1>1, NoProblem DEF BadNumber, Positive
<1>5. ToSet(env.media) \subseteq Readable \cup {""}
  <2>1. CASE env.media = <<>>
    BY <2>1 DEF ToSet
  <2>2. CASE env.media # <<>>
    BY <1>1, <2>2, NoProblem DEF Parts
  <2>3. QED
    BY <2>1, <2>2
<1>6. env.insecure \in {"", "true", "false"} /\ (env.addr = <<>> \/ ValidateAddr(env.addr)) /\ cfg.media # <<>>
  BY <1>1, NoProblem DEF BadBool
<1>7. QED
  BY <1>2, <1>3, <1>4, <1>5, <1>6

\* The port of the configuration is the one that the environment names, and the
\* address has it.
LEMMA ConfiguredPort ==
  ASSUME NEW e, Problems(e) = {}
  PROVE  /\ e.port # "" => Loaded(e).port = e.port
         /\ e.addr # <<>> => Loaded(e).port = e.addr[2] /\ Loaded(e).addr = e.addr
         /\ e.addr = <<>> => Loaded(e).addr[1] = ""
         /\ Loaded(e).addr[2] = Loaded(e).port
         /\ e.base = <<>> => Loaded(e).base[3] = Loaded(e).port
<1>1. Loaded(e).port = ResolvedPort(e) /\ Loaded(e).addr = ResolvedAddr(e) /\ Loaded(e).base = BaseURL(e)
  BY DEF Loaded
<1>2. ~Disagree(e) /\ (e.addr = <<>> \/ ValidateAddr(e.addr))
  BY NoProblem
<1>3. e.base = <<>> => Loaded(e).base[3] = Loaded(e).port
  <2>1. e.base = <<>> => BaseURL(e) = <<"http://", "localhost", ResolvedPort(e)>>
    BY DEF BaseURL
  <2>2. QED
    BY <1>1, <2>1
<1>4. CASE e.addr = <<>>
  <2>1. ResolvedPort(e) = PortOf(e) /\ ResolvedAddr(e) = <<"", PortOf(e)>>
    BY <1>4 DEF ResolvedPort, ResolvedAddr, AddrWins
  <2>2. e.port # "" => PortOf(e) = e.port
    BY DEF PortOf
  <2>3. ResolvedAddr(e)[1] = "" /\ ResolvedAddr(e)[2] = PortOf(e)
    <3>1. \A h, p : <<h, p>>[1] = h /\ <<h, p>>[2] = p
      OBVIOUS
    <3>2. <<"", PortOf(e)>>[1] = "" /\ <<"", PortOf(e)>>[2] = PortOf(e)
      BY <3>1, Zenon
    <3>3. QED
      BY <2>1, <3>2, Zenon
  <2>4. QED
    BY <1>1, <1>3, <1>4, <2>1, <2>2, <2>3
<1>5. CASE e.addr # <<>>
  <2>1. AddrWins(e)
    BY <1>2, <1>5 DEF AddrWins
  <2>2. ResolvedPort(e) = e.addr[2] /\ ResolvedAddr(e) = e.addr
    BY <1>5, <2>1 DEF ResolvedPort, ResolvedAddr
  <2>3. e.port # "" => e.port = e.addr[2]
    BY <1>2, <1>5 DEF Disagree
  <2>4. QED
    BY <1>1, <1>3, <1>5, <2>2, <2>3
<1>6. QED
  BY <1>4, <1>5

\* config.go:205-232, addr.go:16-45: variables and flags that are set are what is bound.
LEMMA BindsInv == ConfigInv => BindsWhatWasAsked
<1> SUFFICES ASSUME ConfigInv, phase = "listening"
             PROVE  /\ env.port # "" => cfg.port = env.port
                    /\ env.addr # <<>> => cfg.port = env.addr[2]
                    /\ env.base = <<>> => cfg.base[3] = cfg.port
                    /\ ~(env.addrFlag # <<>> \/ env.portFlag # "") => listen[2] = cfg.port
                    /\ env.portFlag # "" => listen[2] = env.portFlag
                    /\ env.addrFlag # <<>> => listen = env.addrFlag
                    /\ env.addrFlag = <<>> => listen[1] = IF env.addr # <<>> THEN env.addr[1] ELSE ""
  BY DEF BindsWhatWasAsked
<1>1. Problems(env) = {} /\ cfg = Loaded(env) /\ ~FlagsRefused /\ listen = ListenAddr
  BY DEF ConfigInv
<1>2. /\ env.port # "" => cfg.port = env.port
      /\ env.addr # <<>> => cfg.port = env.addr[2] /\ cfg.addr = env.addr
      /\ env.addr = <<>> => cfg.addr[1] = ""
      /\ cfg.addr[2] = cfg.port
      /\ env.base = <<>> => cfg.base[3] = cfg.port
  BY <1>1, ConfiguredPort
<1>3. env.addrFlag = <<>> \/ env.portFlag = ""
  BY <1>1 DEF FlagsRefused
<1>4. CASE env.addrFlag # <<>>
  BY <1>1, <1>2, <1>3, <1>4 DEF ListenAddr
<1>5. CASE env.addrFlag = <<>> /\ env.portFlag # ""
  <2>1. listen = <<cfg.addr[1], env.portFlag>>
    BY <1>1, <1>5 DEF ListenAddr
  <2>2. QED
    BY <1>2, <1>5, <2>1
<1>6. CASE env.addrFlag = <<>> /\ env.portFlag = ""
  <2>1. listen = cfg.addr
    BY <1>1, <1>6 DEF ListenAddr
  <2>2. QED
    BY <1>2, <1>6, <2>1
<1>7. QED
  BY <1>4, <1>5, <1>6

-----------------------------------------------------------------------------
\* A set of positions has a first one.
LEMMA FirstOfTwelve ==
  ASSUME NEW S, S \subseteq 1..12, S # {}
  PROVE  Min(S) \in S
<1>1. \E m \in S : \A n \in S : m <= n
  <2>1. SUFFICES ASSUME \A m \in S : \E n \in S : ~(m <= n)
                 PROVE  FALSE
    OBVIOUS
  <2>2. 1 \notin S /\ 2 \notin S /\ 3 \notin S
    BY <2>1
  <2>3. 4 \notin S /\ 5 \notin S /\ 6 \notin S
    BY <2>1, <2>2
  <2>4. 7 \notin S /\ 8 \notin S /\ 9 \notin S
    BY <2>1, <2>2, <2>3
  <2>5. 10 \notin S /\ 11 \notin S /\ 12 \notin S
    BY <2>1, <2>2, <2>3, <2>4
  <2>6. PICK m \in S : m \in 1..12
    OBVIOUS
  <2>7. m \in {1, 2, 3, 4, 5, 6, 7, 8, 9, 10, 11, 12}
    BY <2>6
  <2>8. QED
    BY <2>2, <2>3, <2>4, <2>5, <2>6, <2>7
<1>2. QED
  BY <1>1, Zenon DEF Min

\* problem.go: a status of the taxonomy means that one of its errors was found.
LEMMA ProblemStatus ==
  ASSUME NEW error
  PROVE  /\ ProblemFor(error) \in {400, 401, 403, 404, 409, 413, 415, 422, 500, 503}
         /\ ProblemFor(error) = 404 => "ErrNotFound" \in error
         /\ ProblemFor(error) = 413 => "ErrPayloadTooLarge" \in error
         /\ ProblemFor(error) = 409 => "ConflictError" \in error \/ "ErrVersionConflict" \in error
         /\ ProblemFor(error) = 422 => "ValidationError" \in error \/ "ErrArchiveInvalid" \in error
<1> DEFINE found == {n \in DOMAIN Taxonomy : Taxonomy[n][1] \in error}
<1>1. CASE found = {}
  BY <1>1 DEF ProblemFor
<1>2. CASE found # {}
  <2>1. DOMAIN Taxonomy = 1..12
    BY DEF Taxonomy
  <2>2. Min(found) \in found
    BY <1>2, <2>1, FirstOfTwelve
  <2>3. PICK n \in 1..12 : n = Min(found) /\ Taxonomy[n][1] \in error
    BY <2>1, <2>2
  <2>4. ProblemFor(error) = Taxonomy[n][2]
    BY <1>2, <2>3 DEF ProblemFor
  <2>5. n \in {1, 2, 3, 4, 5, 6, 7, 8, 9, 10, 11, 12}
    BY <2>3
  <2>6. QED
    BY <2>3, <2>4, <2>5 DEF Taxonomy
<1>3. QED
  BY <1>1, <1>2

\* publish.go:234-250: what ingest reads of a body, and when it is all of it.
LEMMA IngestedWholeOrOver ==
  ASSUME cfg.archive \in 1..MaxInt, NEW size \in 0..MaxSize
  PROVE  /\ Ingested(size) \in 0..size
         /\ cfg.archive = MaxInt => Ingested(size) = 0
         /\ cfg.archive # MaxInt /\ ~(Ingested(size) > cfg.archive) =>
                Ingested(size) = size /\ size <= cfg.archive
         /\ Ingested(size) > cfg.archive => size > cfg.archive
<1>1. \A a, b \in Int : Min({a, b}) = IF a <= b THEN a ELSE b
  <2>1. SUFFICES ASSUME NEW a \in Int, NEW b \in Int
                 PROVE  Min({a, b}) = IF a <= b THEN a ELSE b
    OBVIOUS
  <2>2. \E m \in {a, b} : \A n \in {a, b} : m <= n
    OBVIOUS
  <2>3. Min({a, b}) \in {a, b} /\ \A n \in {a, b} : Min({a, b}) <= n
    BY <2>2, Zenon DEF Min
  <2>4. QED
    BY <2>3
<1>2. MaxInt \in Nat /\ MaxSize \in Nat
  BY RequestsConstants
<1>3. CASE cfg.archive = MaxInt
  <2>1. Wrapped(cfg.archive + 1) <= 0
    BY <1>2, <1>3 DEF Wrapped
  <2>2. Ingested(size) = 0
    BY <2>1 DEF Ingested
  <2>3. QED
    BY <1>2, <1>3, <2>2
<1>4. CASE cfg.archive # MaxInt
  <2>1. Wrapped(cfg.archive + 1) = cfg.archive + 1 /\ ~(cfg.archive + 1 <= 0)
    BY <1>2, <1>4 DEF Wrapped
  <2>2. Ingested(size) = Min({size, cfg.archive + 1})
    BY <2>1 DEF Ingested
  <2>3. Ingested(size) = IF size <= cfg.archive + 1 THEN size ELSE cfg.archive + 1
    BY <1>1, <1>2, <2>2
  <2>4. QED
    BY <1>2, <1>4, <2>3
<1>5. QED
  BY <1>3, <1>4

-----------------------------------------------------------------------------
Packages == {ParseIdentity(IdentityFrom(path)) : path \in Paths} \cup {None}
Versions == RawNames \cup {None}
Bodies == Seq({"success", "archive", "truncated", "problem", "anonymous_problem"})
Logs == Seq({"request", "panic"} \X (Statuses \cup {Unsent}))

\* The frame of an exchange, without what the parsers make of names.
Frame == [step : Steps, route : Routes, id : {NoId, "theirs", "ours"},
          repository : RawNames \cup {None},
          package : Packages,
          version : Versions,
          scoped : BOOLEAN, accepted : BOOLEAN, size : 0..MaxSize, read : 0..MaxSize,
          stored : {"unknown", "absent", "row", "bytes"},
          error : SUBSET Kinds, status : Statuses \cup {Unsent},
          body : Bodies,
          log : Logs]

\* The steps a request of a package route takes, and where each check has been passed.
PastRepository == {"identity", "version", "authorise", "media_type", "receive", "service", "query", "stream"}
PastIdentity == PastRepository \ {"identity"}
PastVersion == {"media_type", "receive", "service"}
PastMediaType == {"receive", "service"}
Ended == {"answered", "panicking", "closed"}

ChecksInv(x) ==
    /\ x.step \in PastRepository => x.repository \in Repositories
    /\ x.step \in PastIdentity => x.package # Refused
    /\ x.step = "version" => x.route \in {"download", "publish"}
    /\ x.step \in {"repository", "identity", "authorise"} => x.route \in PackageRoutes
    /\ x.step = "authorise" /\ x.route # "list" => x.version # Refused
    /\ x.step \in PastVersion => x.route = "publish" /\ x.version # Refused /\ x.scoped
    /\ x.step \in PastMediaType => x.accepted
    /\ x.read > 0 =>
          /\ x.step \in {"service", "failing"} \cup Ended
          /\ x.route = "publish" /\ x.repository \in Repositories
          /\ x.package # Refused /\ x.version # Refused /\ x.scoped /\ x.accepted

\* A publish was judged on all that was sent, or refused for its size.
Judged(x, cap) ==
    x.route = "publish" =>
        IF cap = MaxInt THEN x.read = 0 ELSE x.read = x.size /\ x.size <= cap

Verdicts == {"ValidationError", "ErrArchiveInvalid", "ConflictError", "ErrVersionConflict"}

JudgedInv(x, cap) ==
    /\ x.step = "service" => Judged(x, cap)
    /\ x.error \cap Verdicts # {} => Judged(x, cap)
    /\ x.status = 201 => Judged(x, cap)
    /\ "ErrPayloadTooLarge" \in x.error => x.size > cap

AnswerInv(x) ==
    /\ x.step \in InHandler \ {"failing"} => x.error = {}
    /\ x.step \in InHandler \ {"failing", "stream"} => x.stored = "unknown"
    /\ x.step # "idle" => x.id # NoId
    /\ "ErrNotFound" \in x.error => x.stored \in {"unknown", "absent"}
    /\ x.status \notin {Unsent, 200, 201, 500} => x.status = ProblemFor(x.error)
    /\ x.step \in InHandler \ {"stream"} => x.status = Unsent
    /\ x.step = "stream" => x.status = 200
    /\ x.step \in InHandler => x.body = <<>> /\ x.log = <<>>
    /\ x.step = "answered" =>
          /\ x.log = <<>> /\ x.status # Unsent
          /\ IF x.status < 300 THEN x.body \in {<<"success">>, <<"archive">>, <<"truncated">>}
             ELSE x.body = <<"problem">>
    /\ x.step = "panicking" => x.body = <<>> /\ x.log = <<>> /\ x.status \in {Unsent, 200}
    /\ x.step = "closed" =>
          \/ /\ x.log = << <<"request", x.status>> >>
             /\ IF x.status < 300 THEN x.body \in {<<"success">>, <<"archive">>, <<"truncated">>}
                ELSE x.body = <<"problem">>
          \/ /\ x.log = << <<"panic", Unsent>> >>
             /\ x.body = <<"anonymous_problem">>
             /\ x.status \in {200, 500}

\* What is known of a frame while the server has this cap.
FrameInv(x, cap) == x \in Frame /\ ChecksInv(x) /\ JudgedInv(x, cap) /\ AnswerInv(x)

RequestsInv ==
    /\ ConfigInv
    /\ ex = [e \in Exchanges |-> ex[e]]
    /\ \A e \in Exchanges : FrameInv(ex[e], cfg.archive)
    /\ phase # "serving" => \A e \in Exchanges : ex[e] = NoExchange

\* A request that has not come yet has nothing to keep.
LEMMA NoExchangeInv == ASSUME NEW cap PROVE FrameInv(NoExchange, cap)
<1>1. NoExchange \in Frame
  BY RequestsConstants DEF NoExchange, Frame, Packages, Versions, Bodies, Logs, Steps, Routes, NoId, Unsent
<1>2. ChecksInv(NoExchange)
  BY DEF NoExchange, ChecksInv, PastRepository, PastIdentity, PastVersion, PastMediaType
<1>3. JudgedInv(NoExchange, cap)
  BY DEF NoExchange, JudgedInv, Unsent
<1>4. AnswerInv(NoExchange)
  BY DEF NoExchange, AnswerInv, InHandler, Steps, Unsent
<1>5. QED
  BY <1>1, <1>2, <1>3, <1>4 DEF FrameInv

LEMMA RequestsInitInv == RequestsInit => RequestsInv
<1> SUFFICES ASSUME RequestsInit PROVE RequestsInv
  OBVIOUS
<1>1. ConfigInv
  BY ConfigInitInv DEF RequestsInit
<1>2. ex = [e \in Exchanges |-> NoExchange]
  BY DEF RequestsInit
<1>3. QED
  BY <1>1, <1>2, NoExchangeInv DEF RequestsInv

\* A step that changes one frame while the server runs keeps the invariant if the new
\* frame has what a frame must have.
LEMMA BecomeInv ==
  ASSUME RequestsInv, phase = "serving", NEW e \in Exchanges, NEW f,
         Become(e, f), FrameInv(f, cfg.archive)
  PROVE  RequestsInv'
<1>1. UNCHANGED configVars /\ ex' = [ex EXCEPT ![e] = f]
  BY DEF Become
<1>2. UNCHANGED <<env, phase, cfg, listen>>
  BY <1>1 DEF configVars
<1>3. ConfigInv'
  BY <1>2 DEF RequestsInv, ConfigInv, ConfigTypeOK, FlagsRefused, ListenAddr
<1>4. ex' = [o \in Exchanges |-> IF o = e THEN f ELSE ex[o]]
  BY <1>1 DEF RequestsInv
<1>5. \A o \in Exchanges : FrameInv(ex'[o], cfg'.archive)
  BY <1>2, <1>4 DEF RequestsInv
<1>6. ex' = [o \in Exchanges |-> ex'[o]]
  BY <1>4
<1>7. QED
  BY <1>2, <1>3, <1>5, <1>6 DEF RequestsInv

\* An error that a step before the body runs into says nothing about the body, and a
\* missing repository or package is found before anything is.
LEMMA FailInv ==
  ASSUME RequestsInv, NEW e \in Exchanges, phase = "serving",
         ex[e].step \in InHandler \ {"stream", "failing"},
         NEW error \in SUBSET Kinds, Fail(e, error),
         error \cap Verdicts # {} => Judged(ex[e], cfg.archive),
         "ErrPayloadTooLarge" \notin error,
         "ErrNotFound" \in error => ex[e].stored \in {"unknown", "absent"}
  PROVE  RequestsInv'
<1> DEFINE x == ex[e]
           f == [x EXCEPT !.step = "failing", !.error = error]
<1>1. x \in Frame /\ ChecksInv(x) /\ JudgedInv(x, cfg.archive) /\ AnswerInv(x)
  BY DEF RequestsInv, FrameInv
<1>2. f \in Frame
  BY <1>1 DEF Frame, Steps
<1>3. /\ f.step = "failing" /\ f.error = error /\ f.route = x.route /\ f.id = x.id
      /\ f.repository = x.repository /\ f.package = x.package /\ f.version = x.version
      /\ f.scoped = x.scoped /\ f.accepted = x.accepted /\ f.size = x.size /\ f.read = x.read
      /\ f.stored = x.stored /\ f.status = x.status /\ f.body = x.body /\ f.log = x.log
  BY <1>1 DEF Frame
<1>4. ChecksInv(f)
  BY <1>1, <1>3 DEF ChecksInv, PastRepository, PastIdentity, PastVersion, PastMediaType, Ended
<1>5. JudgedInv(f, cfg.archive)
  BY <1>1, <1>3 DEF JudgedInv, Judged
<1>6. AnswerInv(f)
  <2>1. x.status = Unsent /\ x.body = <<>> /\ x.log = <<>> /\ x.id # NoId
    BY <1>1 DEF AnswerInv, InHandler
  <2>2. QED
    BY <1>3, <2>1 DEF AnswerInv, InHandler, Steps
<1>7. FrameInv(f, cfg.archive)
  BY <1>2, <1>4, <1>5, <1>6 DEF FrameInv
<1>8. QED
  BY <1>7, BecomeInv DEF Fail

\* A step from one check to the next touches neither the response nor the body.
LEMMA PassInv ==
  ASSUME RequestsInv, NEW e \in Exchanges, phase = "serving", NEW f \in Frame, Become(e, f),
         ex[e].step \in InHandler \ {"stream", "failing"},
         f.step \in InHandler \ {"stream", "failing", "service"}, ChecksInv(f),
         f.error = ex[e].error, f.stored = ex[e].stored, f.id = ex[e].id, f.status = ex[e].status,
         f.body = ex[e].body, f.log = ex[e].log
  PROVE  RequestsInv'
<1>1. AnswerInv(ex[e])
  BY DEF RequestsInv, FrameInv
<1>2. ex[e].error = {} /\ ex[e].stored = "unknown" /\ ex[e].status = Unsent /\ ex[e].body = <<>> /\ ex[e].log = <<>> /\ ex[e].id # NoId
  BY <1>1 DEF AnswerInv, InHandler
<1>3. AnswerInv(f)
  BY <1>2 DEF AnswerInv, InHandler
<1>4. JudgedInv(f, cfg.archive)
  BY <1>2 DEF JudgedInv, Unsent
<1>5. QED
  BY <1>3, <1>4, BecomeInv DEF FrameInv

LEMMA FrameAnswered ==
  ASSUME NEW x \in Frame, NEW step \in Steps, NEW status \in Statuses \cup {Unsent}, NEW body \in Bodies
  PROVE  [x EXCEPT !.step = step, !.status = status, !.body = body] \in Frame
  BY DEF Frame

\* The response that ends a handler.
LEMMA AnswerKeepsInv ==
  ASSUME RequestsInv, NEW e \in Exchanges, phase = "serving",
         NEW status \in Statuses,
         NEW part \in {"success", "archive", "truncated", "problem"}, Answer(e, status, part),
         ex[e].step \in InHandler,
         IF status < 300 THEN part # "problem" ELSE part = "problem",
         status \notin {200, 201, 500} => status = ProblemFor(ex[e].error),
         status = 201 => Judged(ex[e], cfg.archive)
  PROVE  RequestsInv'
<1> DEFINE x == ex[e]
           f == [x EXCEPT !.step = "answered", !.status = status, !.body = Append(@, part)]
<1>1. x \in Frame /\ ChecksInv(x) /\ JudgedInv(x, cfg.archive) /\ AnswerInv(x)
  BY DEF RequestsInv, FrameInv
<1>2. x.body = <<>> /\ x.log = <<>> /\ x.id # NoId
  BY <1>1 DEF AnswerInv, InHandler
<1>3. Append(x.body, part) = <<part>>
  BY <1>2
<1>4. f \in Frame
  <2>1. \A S : \A z \in S : <<z>> \in Seq(S)
    OBVIOUS
  <2>2. <<part>> \in Bodies
    BY <2>1 DEF Bodies
  <2>3. ASSUME NEW sent \in Statuses \cup {Unsent}, NEW body \in Bodies, NEW step \in Steps
        PROVE  [x EXCEPT !.step = step, !.status = sent, !.body = body] \in Frame
    BY <1>1, FrameAnswered
  <2>4. "answered" \in Steps /\ status \in Statuses \cup {Unsent}
    BY DEF Steps
  <2>5. QED
    BY <1>3, <2>2, <2>3, <2>4
<1>5. /\ f.step = "answered" /\ f.error = x.error /\ f.route = x.route /\ f.id = x.id
      /\ f.repository = x.repository /\ f.package = x.package /\ f.version = x.version
      /\ f.scoped = x.scoped /\ f.accepted = x.accepted /\ f.size = x.size /\ f.read = x.read
      /\ f.stored = x.stored /\ f.status = status /\ f.body = <<part>> /\ f.log = x.log
  BY <1>1, <1>3 DEF Frame
<1>6. ChecksInv(f)
  BY <1>1, <1>5 DEF ChecksInv, PastRepository, PastIdentity, PastVersion, PastMediaType, Ended
<1>7. JudgedInv(f, cfg.archive)
  BY <1>1, <1>5 DEF JudgedInv, Judged
<1>8. AnswerInv(f)
  <2>1. status # Unsent
    BY DEF Statuses, Unsent
  <2>2. QED
    BY <1>1, <1>2, <1>5, <2>1 DEF AnswerInv, InHandler, Steps
<1>9. FrameInv(f, cfg.archive)
  BY <1>4, <1>6, <1>7, <1>8 DEF FrameInv
<1>10. QED
  BY <1>9, BecomeInv DEF Answer

-----------------------------------------------------------------------------
\* What the errors of the taxonomy are called.
LEMMA KindsNamed ==
  {"ValidationError", "ConflictError", "ScopeError", "ErrNotFound", "ErrVersionConflict",
   "ErrPayloadTooLarge", "ErrUnsupportedMediaType", "ErrArchiveInvalid", "ErrScopeDenied",
   "ErrUnauthenticated", "ErrBadRequest", "unreachable"} \subseteq Kinds
<1>1. SUFFICES ASSUME NEW n \in 1..12 PROVE Taxonomy[n][1] \in Kinds
  <2>1. /\ Taxonomy[1][1] = "ValidationError" /\ Taxonomy[2][1] = "ConflictError"
        /\ Taxonomy[3][1] = "ScopeError" /\ Taxonomy[4][1] = "ErrNotFound"
        /\ Taxonomy[5][1] = "ErrVersionConflict" /\ Taxonomy[6][1] = "ErrPayloadTooLarge"
        /\ Taxonomy[7][1] = "ErrUnsupportedMediaType" /\ Taxonomy[8][1] = "ErrArchiveInvalid"
        /\ Taxonomy[9][1] = "ErrScopeDenied" /\ Taxonomy[10][1] = "ErrUnauthenticated"
        /\ Taxonomy[11][1] = "ErrBadRequest" /\ Taxonomy[12][1] = "unreachable"
    BY DEF Taxonomy
  <2>2. /\ Taxonomy[1][1] \in Kinds /\ Taxonomy[2][1] \in Kinds /\ Taxonomy[3][1] \in Kinds
        /\ Taxonomy[4][1] \in Kinds /\ Taxonomy[5][1] \in Kinds /\ Taxonomy[6][1] \in Kinds
        /\ Taxonomy[7][1] \in Kinds /\ Taxonomy[8][1] \in Kinds /\ Taxonomy[9][1] \in Kinds
        /\ Taxonomy[10][1] \in Kinds /\ Taxonomy[11][1] \in Kinds /\ Taxonomy[12][1] \in Kinds
    BY <1>1
  <2>3. QED
    BY <2>1, <2>2
<1>2. DOMAIN Taxonomy = 1..12
  BY DEF Taxonomy
<1>3. Taxonomy[n] \in ToSet(Taxonomy)
  BY <1>2 DEF ToSet
<1>4. QED
  BY <1>3 DEF Kinds

\* requestID and the router: a frame with an id, and an error if there is no such route.
LEMMA ArriveInv ==
  ASSUME RequestsInv, NEW e \in Exchanges, NEW route \in Routes,
         NEW inbound \in {"absent", "unsafe", "safe"}, Arrive(e, route, inbound)
  PROVE  RequestsInv'
<1> DEFINE next == CASE route \in PackageRoutes -> "repository"
                     [] route \in {"health", "ready"} -> "ping"
                     [] OTHER -> "failing"
           f == [NoExchange EXCEPT !.route = route, !.id = RequestId(inbound),
                    !.error = IF route = "other" THEN {"ErrNotFound"} ELSE {}, !.step = next]
<1>1. phase = "serving" /\ Become(e, f)
  BY DEF Arrive, At
<1>2. /\ next \in {"repository", "ping", "failing"}
      /\ next = "repository" => route \in PackageRoutes
      /\ route = "other" => next = "failing"
  BY DEF Routes, PackageRoutes
<1>3. RequestId(inbound) \in {"theirs", "ours"}
  BY DEF RequestId
<1>4. "ErrNotFound" \in Kinds
  BY KindsNamed
<1>5. f \in Frame
  <2>1. NoExchange \in Frame
    BY NoExchangeInv DEF FrameInv
  <2>2. next \in Steps
    BY <1>2 DEF Steps
  <2>3. RequestId(inbound) \in {NoId, "theirs", "ours"}
    BY <1>3
  <2>4. (IF route = "other" THEN {"ErrNotFound"} ELSE {}) \in SUBSET Kinds
    BY <1>4
  <2>5. ASSUME NEW id \in {NoId, "theirs", "ours"}, NEW error \in SUBSET Kinds, NEW step \in Steps
        PROVE  [NoExchange EXCEPT !.route = route, !.id = id, !.error = error, !.step = step] \in Frame
    BY <2>1 DEF Frame
  <2>6. QED
    BY <2>2, <2>3, <2>4, <2>5
<1>6. /\ f.step = next /\ f.route = route /\ f.id = RequestId(inbound) /\ f.read = 0
      /\ f.error \subseteq {"ErrNotFound"} /\ f.stored = "unknown" /\ f.status = Unsent
      /\ f.body = <<>> /\ f.log = <<>>
      /\ next # "failing" => f.error = {}
  BY <1>2 DEF NoExchange
<1>7. ChecksInv(f)
  BY <1>2, <1>6 DEF ChecksInv, PastRepository, PastIdentity, PastVersion, PastMediaType
<1>8. JudgedInv(f, cfg.archive)
  BY <1>2, <1>6 DEF JudgedInv, Unsent, Verdicts
<1>9. AnswerInv(f)
  BY <1>2, <1>3, <1>6 DEF AnswerInv, InHandler, NoId, Unsent
<1>10. QED
  BY <1>1, <1>5, <1>7, <1>8, <1>9, BecomeInv DEF FrameInv

\* server.go, health.go: the probes.
LEMMA PingInv ==
  ASSUME RequestsInv, NEW e \in Exchanges, Ping(e) \/ PingFails(e)
  PROVE  RequestsInv'
<1>1. phase = "serving" /\ ex[e].step = "ping"
  BY DEF Ping, PingFails, At
<1>2. ex[e].step \in InHandler \ {"stream", "failing"}
  BY <1>1 DEF InHandler, Steps
<1>3. CASE Ping(e)
  <2>1. Answer(e, 200, "success") /\ 200 \in Statuses
    BY <1>3 DEF Ping, Statuses
  <2>2. QED
    BY <1>1, <1>2, <2>1, AnswerKeepsInv
<1>4. CASE PingFails(e)
  <2>1. Fail(e, {"unreachable"}) /\ {"unreachable"} \in SUBSET Kinds
    BY <1>4, KindsNamed DEF PingFails
  <2>2. {"unreachable"} \cap Verdicts = {}
    BY DEF Verdicts
  <2>3. QED
    BY <1>1, <1>2, <2>1, <2>2, FailInv
<1>5. QED
  BY <1>3, <1>4

\* An error found before the body is read that is no verdict on it.
LEMMA RefusedInv ==
  ASSUME RequestsInv, NEW e \in Exchanges, phase = "serving",
         ex[e].step \in InHandler \ {"stream", "failing"},
         NEW error \in SUBSET {"ErrNotFound", "ErrBadRequest", "ErrUnauthenticated", "ScopeError",
                               "ErrScopeDenied", "ErrUnsupportedMediaType"},
         Fail(e, error),
         "ErrNotFound" \in error => ex[e].stored = "unknown"
  PROVE  RequestsInv'
<1>1. error \in SUBSET Kinds
  BY KindsNamed
<1>2. error \cap Verdicts = {} /\ "ErrPayloadTooLarge" \notin error
  BY DEF Verdicts
<1>3. QED
  BY <1>1, <1>2, FailInv

\* Nothing has been asked of the stores while the request is resolved.
LEMMA ResolveRepositoryInv ==
  ASSUME RequestsInv, NEW e \in Exchanges, NEW raw \in RawNames, ResolveRepository(e, raw)
  PROVE  RequestsInv'
<1> DEFINE x == ex[e]
<1>1. x \in Frame /\ ChecksInv(x) /\ AnswerInv(x)
  BY DEF RequestsInv, FrameInv
<1>2. phase = "serving" /\ x.step = "repository"
  BY DEF ResolveRepository, At
<1>3. x.step \in InHandler \ {"stream", "failing"}
  BY <1>2 DEF InHandler, Steps
<1>4. CASE ParseRepositoryName(raw) \in Repositories
  <2> DEFINE f == [x EXCEPT !.step = "identity", !.repository = raw]
  <2>1. Become(e, f)
    BY <1>4 DEF ResolveRepository
  <2>2. raw \in Repositories
    BY <1>4, RequestsConstants DEF ParseRepositoryName, Refused, None
  <2>3. f \in Frame
    BY <1>1 DEF Frame, Steps
  <2>4. /\ f.step = "identity" /\ f.repository = raw /\ f.route = x.route /\ f.read = x.read
        /\ f.error = x.error /\ f.stored = x.stored /\ f.id = x.id /\ f.status = x.status /\ f.body = x.body /\ f.log = x.log
    BY <1>1 DEF Frame
  <2>5. ChecksInv(f)
    <3>1. ~(x.read > 0) /\ x.route \in PackageRoutes
      BY <1>1, <1>2 DEF ChecksInv, Ended
    <3>2. QED
      BY <2>2, <2>4, <3>1 DEF ChecksInv, PastRepository, PastIdentity, PastVersion, PastMediaType
  <2>6. f.step \in InHandler \ {"stream", "failing", "service"}
    BY <2>4 DEF InHandler, Steps
  <2>7. QED
    BY <1>2, <1>3, <2>1, <2>3, <2>4, <2>5, <2>6, PassInv
<1>5. CASE ParseRepositoryName(raw) \notin Repositories
  <2>1. Fail(e, {"ErrNotFound"}) /\ x.stored = "unknown"
    BY <1>1, <1>3, <1>5 DEF ResolveRepository, AnswerInv
  <2>2. QED
    BY <1>2, <1>3, <2>1, RefusedInv
<1>6. QED
  BY <1>4, <1>5

\* identity.go:81-86: the package, in either path form.
LEMMA ResolveIdentityInv ==
  ASSUME RequestsInv, NEW e \in Exchanges, NEW path \in Paths, ResolveIdentity(e, path)
  PROVE  RequestsInv'
<1> DEFINE x == ex[e]
<1>1. x \in Frame /\ ChecksInv(x) /\ AnswerInv(x)
  BY DEF RequestsInv, FrameInv
<1> DEFINE id == ParseIdentity(IdentityFrom(path))
<1>2. phase = "serving" /\ x.step = "identity"
  BY DEF ResolveIdentity, At
<1>3. x.step \in InHandler \ {"stream", "failing"}
  BY <1>2 DEF InHandler, Steps
<1>4. CASE id # Refused
  <2> DEFINE next == IF x.route = "list" THEN "authorise" ELSE "version"
             f == [x EXCEPT !.package = id, !.step = next]
  <2>1. Become(e, f)
    BY <1>4 DEF ResolveIdentity
  <2>2. next \in {"authorise", "version"} /\ next \in Steps
    BY DEF Steps
  <2>3. id \in Packages
    BY DEF Packages
  <2>4. ASSUME NEW i \in Packages, NEW step \in Steps
        PROVE  [x EXCEPT !.package = i, !.step = step] \in Frame
    BY <1>1 DEF Frame
  <2>5. f \in Frame
    BY <2>2, <2>3, <2>4
  <2>6. /\ f.step = next /\ f.package = id /\ f.repository = x.repository
        /\ f.route = x.route /\ f.read = x.read
        /\ f.error = x.error /\ f.stored = x.stored /\ f.id = x.id /\ f.status = x.status /\ f.body = x.body /\ f.log = x.log
    <3>1. \A i, step : LET g == [x EXCEPT !.package = i, !.step = step] IN
              /\ g.step = step /\ g.package = i /\ g.repository = x.repository
              /\ g.route = x.route /\ g.read = x.read
              /\ g.error = x.error /\ g.stored = x.stored /\ g.id = x.id /\ g.status = x.status /\ g.body = x.body /\ g.log = x.log
      BY <1>1 DEF Frame
    <3>2. QED
      BY <3>1
  <2>7. ChecksInv(f)
    <3>1. ~(x.read > 0) /\ x.repository \in Repositories /\ x.route \in PackageRoutes
      BY <1>1, <1>2 DEF ChecksInv, Ended, PastRepository
    <3>2. next = "version" => x.route \in {"download", "publish"}
      BY <3>1 DEF PackageRoutes
    <3>3. next = "authorise" => x.route = "list"
      OBVIOUS
    <3>4. QED
      BY <1>4, <2>2, <2>6, <3>1, <3>2, <3>3
         DEF ChecksInv, PastRepository, PastIdentity, PastVersion, PastMediaType
  <2>8. f.step \in InHandler \ {"stream", "failing", "service"}
    BY <2>2, <2>6 DEF InHandler
  <2>9. QED
    BY <1>2, <1>3, <2>1, <2>5, <2>6, <2>7, <2>8, PassInv
<1>5. CASE id = Refused
  <2>1. Fail(e, {"ErrBadRequest"})
    BY <1>5 DEF ResolveIdentity
  <2>2. QED
    BY <1>2, <1>3, <2>1, RefusedInv
<1>6. QED
  BY <1>4, <1>5

\* identity.go:88-95: the version, of which a listing has none.
LEMMA ResolveVersionInv ==
  ASSUME RequestsInv, NEW e \in Exchanges, NEW raw \in RawNames, ResolveVersion(e, raw)
  PROVE  RequestsInv'
<1> DEFINE x == ex[e]
<1>1. x \in Frame /\ ChecksInv(x) /\ AnswerInv(x)
  BY DEF RequestsInv, FrameInv
<1>2. phase = "serving" /\ x.step = "version"
  BY DEF ResolveVersion, At
<1>3. x.step \in InHandler \ {"stream", "failing"}
  BY <1>2 DEF InHandler, Steps
<1>4. CASE ParseVersion(raw) # Refused
  <2> DEFINE f == [x EXCEPT !.version = raw, !.step = "authorise"]
  <2>1. Become(e, f)
    BY <1>4 DEF ResolveVersion
  <2>2. raw # Refused
    BY <1>4 DEF ParseVersion
  <2>3. f \in Frame
    BY <1>1 DEF Frame, Steps, Versions
  <2>4. /\ f.step = "authorise" /\ f.version = raw /\ f.package = x.package /\ f.repository = x.repository
        /\ f.route = x.route /\ f.read = x.read
        /\ f.error = x.error /\ f.stored = x.stored /\ f.id = x.id /\ f.status = x.status /\ f.body = x.body /\ f.log = x.log
    BY <1>1 DEF Frame
  <2>5. ChecksInv(f)
    <3>1. /\ ~(x.read > 0) /\ x.repository \in Repositories /\ x.package # Refused
          /\ x.route \in PackageRoutes
      BY <1>1, <1>2 DEF ChecksInv, Ended, PastRepository, PastIdentity, PackageRoutes
    <3>2. QED
      BY <2>2, <2>4, <3>1 DEF ChecksInv, PastRepository, PastIdentity, PastVersion, PastMediaType
  <2>6. f.step \in InHandler \ {"stream", "failing", "service"}
    BY <2>4 DEF InHandler, Steps
  <2>7. QED
    BY <1>2, <1>3, <2>1, <2>3, <2>4, <2>5, <2>6, PassInv
<1>5. CASE ParseVersion(raw) = Refused
  <2>1. Fail(e, {"ErrBadRequest"})
    BY <1>5 DEF ResolveVersion
  <2>2. QED
    BY <1>2, <1>3, <2>1, RefusedInv
<1>6. QED
  BY <1>4, <1>5

\* identity.go:97-102: the scope, whatever it is that grants it.
LEMMA AuthoriseInv ==
  ASSUME RequestsInv, NEW e \in Exchanges, Authorise(e)
  PROVE  RequestsInv'
<1> DEFINE x == ex[e]
<1>1. x \in Frame /\ ChecksInv(x) /\ AnswerInv(x)
  BY DEF RequestsInv, FrameInv
<1>2. phase = "serving" /\ x.step = "authorise"
  BY DEF Authorise, At
<1>3. x.step \in InHandler \ {"stream", "failing"}
  BY <1>2 DEF InHandler, Steps
<1>4. CASE Fail(e, {"ErrUnauthenticated"})
  BY <1>2, <1>3, <1>4, RefusedInv
<1>5. CASE Fail(e, {"ScopeError", "ErrScopeDenied"})
  BY <1>2, <1>3, <1>5, RefusedInv
<1>6. CASE Become(e, [x EXCEPT !.scoped = TRUE,
                               !.step = IF x.route = "publish" THEN "media_type" ELSE "query"])
  <2>1. PICK next \in {"media_type", "query"} :
            /\ next = "media_type" => x.route = "publish"
            /\ Become(e, [x EXCEPT !.scoped = TRUE, !.step = next])
    BY <1>6
  <2> DEFINE f == [x EXCEPT !.scoped = TRUE, !.step = next]
  <2>2. f \in Frame
    BY <1>1, <2>1 DEF Frame, Steps
  <2>3. /\ f.step = next /\ f.scoped /\ f.version = x.version /\ f.package = x.package
        /\ f.repository = x.repository /\ f.route = x.route /\ f.read = x.read
        /\ f.error = x.error /\ f.stored = x.stored /\ f.id = x.id /\ f.status = x.status
        /\ f.body = x.body /\ f.log = x.log
    BY <1>1 DEF Frame
  <2>4. ChecksInv(f)
    <3>1. /\ ~(x.read > 0) /\ x.repository \in Repositories /\ x.package # Refused
          /\ x.route # "list" => x.version # Refused
      BY <1>1, <1>2 DEF ChecksInv, Ended, PastRepository, PastIdentity
    <3>2. QED
      BY <2>1, <2>3, <3>1 DEF ChecksInv, PastRepository, PastIdentity, PastVersion, PastMediaType
  <2>5. f.step \in InHandler \ {"stream", "failing", "service"}
    BY <2>1, <2>3 DEF InHandler, Steps
  <2>6. QED
    BY <1>2, <1>3, <2>1, <2>2, <2>3, <2>4, <2>5, PassInv
<1>7. QED
  BY <1>4, <1>5, <1>6, Zenon DEF Authorise

\* publish.go:30-34: the media type, last of the checks.
LEMMA CheckMediaTypeInv ==
  ASSUME RequestsInv, NEW e \in Exchanges, NEW mt, CheckMediaType(e, mt)
  PROVE  RequestsInv'
<1> DEFINE x == ex[e]
<1>1. x \in Frame /\ ChecksInv(x) /\ AnswerInv(x)
  BY DEF RequestsInv, FrameInv
<1>2. phase = "serving" /\ x.step = "media_type"
  BY DEF CheckMediaType, At
<1>3. x.step \in InHandler \ {"stream", "failing"}
  BY <1>2 DEF InHandler, Steps
<1>4. CASE Contains(cfg.media, mt)
  <2> DEFINE f == [x EXCEPT !.accepted = TRUE, !.step = "receive"]
  <2>1. Become(e, f)
    BY <1>4 DEF CheckMediaType
  <2>2. f \in Frame
    BY <1>1 DEF Frame, Steps
  <2>3. /\ f.step = "receive" /\ f.accepted /\ f.scoped = x.scoped /\ f.version = x.version
        /\ f.package = x.package /\ f.repository = x.repository
        /\ f.route = x.route /\ f.read = x.read
        /\ f.error = x.error /\ f.stored = x.stored /\ f.id = x.id /\ f.status = x.status /\ f.body = x.body /\ f.log = x.log
    BY <1>1 DEF Frame
  <2>4. ChecksInv(f)
    <3>1. /\ ~(x.read > 0) /\ x.repository \in Repositories /\ x.package # Refused
          /\ x.version # Refused /\ x.scoped /\ x.route = "publish"
      BY <1>1, <1>2 DEF ChecksInv, Ended, PastRepository, PastIdentity, PastVersion
    <3>2. QED
      BY <2>3, <3>1 DEF ChecksInv, PastRepository, PastIdentity, PastVersion, PastMediaType
  <2>5. f.step \in InHandler \ {"stream", "failing", "service"}
    BY <2>3 DEF InHandler, Steps
  <2>6. QED
    BY <1>2, <1>3, <2>1, <2>2, <2>3, <2>4, <2>5, PassInv
<1>5. CASE ~Contains(cfg.media, mt)
  <2>1. Fail(e, {"ErrUnsupportedMediaType"})
    BY <1>5 DEF CheckMediaType
  <2>2. QED
    BY <1>2, <1>3, <2>1, RefusedInv
<1>6. QED
  BY <1>4, <1>5

\* service publish.go:226-250: the body, up to one byte past the cap.
LEMMA ReceiveInv ==
  ASSUME RequestsInv, NEW e \in Exchanges, NEW size \in 0..MaxSize, Receive(e, size)
  PROVE  RequestsInv'
<1> DEFINE x == ex[e]
<1>1. x \in Frame /\ ChecksInv(x) /\ JudgedInv(x, cfg.archive) /\ AnswerInv(x)
  BY DEF RequestsInv, FrameInv
<1>2. phase = "serving" /\ x.step = "receive"
  BY DEF Receive, At
<1>3. cfg.archive \in 1..MaxInt
  BY <1>2 DEF RequestsInv, ConfigInv
<1> DEFINE read == Ingested(size)
           over == {"ErrPayloadTooLarge"}
<1>4. /\ read \in 0..size
      /\ cfg.archive = MaxInt => read = 0
      /\ cfg.archive # MaxInt /\ ~(read > cfg.archive) => read = size /\ size <= cfg.archive
      /\ read > cfg.archive => size > cfg.archive
  BY <1>3, IngestedWholeOrOver
<1>5. MaxInt \in Nat /\ cfg.archive > 0 /\ read \in 0..MaxSize
  <2>1. MaxSize \in Nat /\ MaxInt \in Nat
    BY RequestsConstants
  <2> HIDE DEF read
  <2>2. QED
    BY <1>3, <1>4, <2>1
<1>6. /\ x.repository \in Repositories /\ x.package # Refused /\ x.version # Refused
      /\ x.route = "publish" /\ x.scoped /\ x.accepted
      /\ x.error = {} /\ x.stored = "unknown" /\ x.status = Unsent /\ x.body = <<>> /\ x.log = <<>>
      /\ x.id # NoId
  BY <1>1, <1>2 DEF ChecksInv, PastRepository, PastIdentity, PastVersion, PastMediaType,
                    AnswerInv, InHandler, Steps
<1>7. ASSUME NEW step \in {"service", "failing"}, NEW error \in {{}, over}
      PROVE  LET f == [[x EXCEPT !.size = size, !.read = read] EXCEPT !.step = step, !.error = error] IN
             /\ f \in Frame /\ ChecksInv(f)
             /\ f.step = step /\ f.error = error /\ f.size = size /\ f.read = read
             /\ f.route = "publish" /\ f.id # NoId /\ f.stored = "unknown"
             /\ f.status = Unsent /\ f.body = <<>> /\ f.log = <<>>
  <2> DEFINE f == [[x EXCEPT !.size = size, !.read = read] EXCEPT !.step = step, !.error = error]
  <2>1. error \in SUBSET Kinds
    BY KindsNamed
  <2>2. f \in Frame
    <3> HIDE DEF read
    <3>1. QED
      BY <1>1, <1>5, <2>1 DEF Frame, Steps
  <2>3. /\ f.step = step /\ f.error = error /\ f.size = size /\ f.read = read
        /\ f.repository = x.repository /\ f.package = x.package /\ f.version = x.version
        /\ f.route = x.route /\ f.scoped = x.scoped /\ f.accepted = x.accepted
        /\ f.id = x.id /\ f.stored = x.stored
        /\ f.status = x.status /\ f.body = x.body /\ f.log = x.log
    BY <1>1 DEF Frame
  <2>4. ChecksInv(f)
    BY <1>6, <2>3 DEF ChecksInv, PastRepository, PastIdentity, PastVersion, PastMediaType, Ended
  <2>5. QED
    BY <1>6, <2>2, <2>3, <2>4
<1>8. CASE read > cfg.archive
  <2> DEFINE f == [[x EXCEPT !.size = size, !.read = read] EXCEPT !.step = "failing", !.error = over]
  <2>1. Become(e, f)
    BY <1>5, <1>8 DEF Receive
  <2>2. /\ f \in Frame /\ ChecksInv(f)
        /\ f.step = "failing" /\ f.error = over /\ f.size = size
        /\ f.route = "publish" /\ f.id # NoId /\ f.stored = "unknown"
        /\ f.status = Unsent /\ f.body = <<>> /\ f.log = <<>>
    BY <1>7
  <2>3. JudgedInv(f, cfg.archive)
    BY <1>4, <1>8, <2>2 DEF JudgedInv, Verdicts, Unsent
  <2>4. AnswerInv(f)
    BY <2>2 DEF AnswerInv, InHandler, Steps
  <2>5. QED
    BY <1>2, <2>1, <2>2, <2>3, <2>4, BecomeInv DEF FrameInv
<1>9. CASE ~(read > cfg.archive)
  <2> DEFINE g == [[x EXCEPT !.size = size, !.read = read] EXCEPT !.step = "service"]
             f == [[x EXCEPT !.size = size, !.read = read] EXCEPT !.step = "service", !.error = {}]
  <2>1. Become(e, g)
    BY <1>9 DEF Receive
  <2>2. g = f
    BY <1>1, <1>6 DEF Frame
  <2>3. /\ f \in Frame /\ ChecksInv(f)
        /\ f.step = "service" /\ f.error = {} /\ f.size = size /\ f.read = read
        /\ f.route = "publish" /\ f.id # NoId /\ f.stored = "unknown"
        /\ f.status = Unsent /\ f.body = <<>> /\ f.log = <<>>
    BY <1>7
  <2>4. JudgedInv(f, cfg.archive)
    BY <1>4, <1>9, <2>3 DEF JudgedInv, Judged, Verdicts, Unsent
  <2>5. AnswerInv(f)
    BY <2>3 DEF AnswerInv, InHandler, Steps
  <2>6. QED
    BY <1>2, <2>1, <2>2, <2>3, <2>4, <2>5, BecomeInv DEF FrameInv
<1>10. QED
  BY <1>8, <1>9

\* A fault of the server, an error of no kind at all.
LEMMA FaultInv ==
  ASSUME RequestsInv, NEW e \in Exchanges, ReceiveFails(e) \/ StoreFails(e)
  PROVE  RequestsInv'
<1>1. phase = "serving" /\ ex[e].step \in {"receive", "repository", "query"} /\ Fail(e, {})
  BY DEF ReceiveFails, StoreFails, At
<1>2. ex[e].step \in InHandler \ {"stream", "failing"}
  BY <1>1 DEF InHandler, Steps
<1>3. QED
  BY <1>1, <1>2, RefusedInv

\* service publish.go:79-146: what becomes of an ingested body.
LEMMA PublishInv ==
  ASSUME RequestsInv, NEW e \in Exchanges, Published(e) \/ PublishFails(e)
  PROVE  RequestsInv'
<1> DEFINE x == ex[e]
<1>1. x \in Frame /\ ChecksInv(x) /\ JudgedInv(x, cfg.archive) /\ AnswerInv(x)
  BY DEF RequestsInv, FrameInv
<1>2. phase = "serving" /\ x.step = "service"
  BY DEF Published, PublishFails, At
<1>3. x.step \in InHandler \ {"stream", "failing"} /\ Judged(x, cfg.archive)
  BY <1>1, <1>2 DEF InHandler, Steps, JudgedInv
<1>4. CASE Published(e)
  <2>1. Answer(e, 201, "success") /\ 201 \in Statuses
    BY <1>4 DEF Published, Statuses
  <2>2. QED
    BY <1>2, <1>3, <2>1, AnswerKeepsInv
<1>5. CASE PublishFails(e)
  <2>1. PICK error \in PublishErrors(e) : Fail(e, error)
    BY <1>5 DEF PublishFails
  <2>2. error \subseteq {"ErrBadRequest", "ValidationError", "ErrArchiveInvalid", "ConflictError", "ErrVersionConflict"}
    BY DEF PublishErrors
  <2>3. error \in SUBSET Kinds
    BY <2>2, KindsNamed
  <2>4. "ErrPayloadTooLarge" \notin error /\ "ErrNotFound" \notin error
    BY <2>2
  <2>5. QED
    BY <1>2, <1>3, <2>1, <2>3, <2>4, FailInv
<1>6. QED
  BY <1>4, <1>5

\* What a query found, and the step the request takes with it.
LEMMA FoundInv ==
  ASSUME RequestsInv, NEW e \in Exchanges, phase = "serving", ex[e].step = "query",
         NEW stored \in {"absent", "row", "bytes"},
         NEW f \in Frame, Become(e, f),
         f.stored = stored, f.read = ex[e].read, f.repository = ex[e].repository,
         f.package = ex[e].package, f.id = ex[e].id, f.log = ex[e].log, f.size = ex[e].size,
         f.route = ex[e].route,
         \/ f.step = "failing" /\ f.status = ex[e].status /\ f.body = ex[e].body /\ f.error = {}
         \/ /\ f.step = "failing" /\ f.status = ex[e].status /\ f.body = ex[e].body
            /\ stored = "absent" /\ f.error = {"ErrNotFound"}
         \/ f.step = "answered" /\ f.status = 200 /\ f.body = <<"success">> /\ f.error = ex[e].error
         \/ f.step = "stream" /\ f.status = 200 /\ f.body = ex[e].body /\ f.error = ex[e].error
  PROVE  RequestsInv'
<1> DEFINE x == ex[e]
<1>1. x \in Frame /\ ChecksInv(x) /\ JudgedInv(x, cfg.archive) /\ AnswerInv(x)
  BY DEF RequestsInv, FrameInv
<1>2. /\ x.error = {} /\ x.status = Unsent /\ x.body = <<>> /\ x.log = <<>> /\ x.id # NoId
      /\ ~(x.read > 0) /\ x.repository \in Repositories /\ x.package # Refused
  BY <1>1 DEF ChecksInv, PastRepository, PastIdentity, Ended, AnswerInv, InHandler, Steps
<1>3. ChecksInv(f)
  BY <1>2 DEF ChecksInv, PastRepository, PastIdentity, PastVersion, PastMediaType, Ended
<1>4. JudgedInv(f, cfg.archive)
  BY <1>2 DEF JudgedInv, Verdicts, Unsent
<1>5. AnswerInv(f)
  <2>1. f.id # NoId /\ f.log = <<>> /\ f.stored \in {"absent", "row", "bytes"}
    BY <1>2
  <2>2. CASE f.step = "failing"
    <3>1. f.status = Unsent /\ f.body = <<>> /\ ("ErrNotFound" \in f.error => f.stored = "absent")
      BY <1>2, <2>2
    <3>2. QED
      BY <2>1, <2>2, <3>1 DEF AnswerInv, InHandler, Steps
  <2>3. CASE f.step = "answered"
    <3>1. f.status = 200 /\ f.body = <<"success">> /\ f.error = {}
      BY <1>2, <2>3
    <3>2. QED
      BY <2>1, <2>3, <3>1 DEF AnswerInv, InHandler, Steps, Unsent
  <2>4. CASE f.step = "stream"
    <3>1. f.status = 200 /\ f.body = <<>> /\ f.error = {}
      BY <1>2, <2>4
    <3>2. QED
      BY <2>1, <2>4, <3>1 DEF AnswerInv, InHandler, Steps
  <2>5. QED
    BY <2>2, <2>3, <2>4
<1>6. QED
  BY <1>3, <1>4, <1>5, BecomeInv DEF FrameInv

\* versions.go, query.go:29-66, download.go: a listing or the bytes of a version.
LEMMA QueryInv ==
  ASSUME RequestsInv, NEW e \in Exchanges, NEW stored \in {"absent", "row", "bytes"},
         Listed(e, stored) \/ OpenDownload(e, stored)
  PROVE  RequestsInv'
<1> DEFINE x == ex[e]
<1>1. x \in Frame /\ ChecksInv(x) /\ JudgedInv(x, cfg.archive) /\ AnswerInv(x)
  BY DEF RequestsInv, FrameInv
<1>2. phase = "serving" /\ x.step = "query"
  BY DEF Listed, OpenDownload, At
<1>3. x.body = <<>> /\ x.error = {}
  BY <1>1, <1>2 DEF AnswerInv, InHandler, Steps
<1> DEFINE missing == [[x EXCEPT !.stored = stored] EXCEPT !.step = "failing", !.error = {"ErrNotFound"}]
           faulty == [[x EXCEPT !.stored = stored] EXCEPT !.step = "failing", !.error = {}]
           listed == [[x EXCEPT !.stored = stored] EXCEPT !.step = "answered", !.status = 200, !.body = <<"success">>]
           sending == [[x EXCEPT !.stored = stored] EXCEPT !.step = "stream", !.status = 200]
<1>4. \/ stored = "absent" /\ Become(e, missing)
      \/ Become(e, faulty) \/ Become(e, listed) \/ Become(e, sending)
  <2>1. CASE Listed(e, stored)
    BY <2>1 DEF Listed
  <2>2. CASE OpenDownload(e, stored)
    BY <2>2 DEF OpenDownload, NoBytes
  <2>3. QED
    BY <2>1, <2>2
<1>5. CASE stored = "absent" /\ Become(e, missing)
  <2>1. missing \in Frame
    BY <1>1, KindsNamed DEF Frame, Steps
  <2>2. /\ missing.stored = stored /\ missing.step = "failing" /\ missing.error = {"ErrNotFound"}
        /\ missing.read = x.read /\ missing.repository = x.repository /\ missing.package = x.package
        /\ missing.id = x.id /\ missing.log = x.log /\ missing.size = x.size /\ missing.route = x.route
        /\ missing.status = x.status /\ missing.body = x.body
    BY <1>1 DEF Frame
  <2>3. QED
    BY <1>2, <1>5, <2>1, <2>2, FoundInv
<1>6. CASE Become(e, faulty)
  <2>1. faulty \in Frame
    BY <1>1 DEF Frame, Steps
  <2>2. /\ faulty.stored = stored /\ faulty.step = "failing" /\ faulty.error = {}
        /\ faulty.read = x.read /\ faulty.repository = x.repository /\ faulty.package = x.package
        /\ faulty.id = x.id /\ faulty.log = x.log /\ faulty.size = x.size /\ faulty.route = x.route
        /\ faulty.status = x.status /\ faulty.body = x.body
    BY <1>1 DEF Frame
  <2>3. QED
    BY <1>2, <1>6, <2>1, <2>2, FoundInv
<1>7. CASE Become(e, listed)
  <2>1. <<"success">> \in Bodies
    <3>1. \A S : \A z \in S : <<z>> \in Seq(S)
      OBVIOUS
    <3>2. QED
      BY <3>1 DEF Bodies
  <2>2. listed \in Frame
    <3>1. 200 \in Statuses \cup {Unsent} /\ "answered" \in Steps
      BY DEF Statuses, Steps
    <3>2. ASSUME NEW status \in Statuses \cup {Unsent}
          PROVE  [[x EXCEPT !.stored = stored] EXCEPT !.step = "answered", !.status = status, !.body = <<"success">>] \in Frame
      BY <1>1, <2>1, <3>1 DEF Frame
    <3>3. QED
      BY <3>1, <3>2
  <2>3. /\ listed.stored = stored /\ listed.step = "answered" /\ listed.error = x.error
        /\ listed.read = x.read /\ listed.repository = x.repository /\ listed.package = x.package
        /\ listed.id = x.id /\ listed.log = x.log /\ listed.size = x.size /\ listed.route = x.route
        /\ listed.status = 200 /\ listed.body = <<"success">>
    BY <1>1 DEF Frame
  <2> HIDE DEF listed
  <2>4. QED
    BY <1>2, <1>7, <2>2, <2>3, FoundInv
<1>8. CASE Become(e, sending)
  <2>1. sending \in Frame
    <3>1. 200 \in Statuses \cup {Unsent} /\ "stream" \in Steps
      BY DEF Statuses, Steps
    <3>2. ASSUME NEW status \in Statuses \cup {Unsent}
          PROVE  [[x EXCEPT !.stored = stored] EXCEPT !.step = "stream", !.status = status] \in Frame
      BY <1>1, <3>1 DEF Frame
    <3>3. QED
      BY <3>1, <3>2
  <2>2. /\ sending.stored = stored /\ sending.step = "stream" /\ sending.error = x.error
        /\ sending.read = x.read /\ sending.repository = x.repository /\ sending.package = x.package
        /\ sending.id = x.id /\ sending.log = x.log /\ sending.size = x.size /\ sending.route = x.route
        /\ sending.status = 200 /\ sending.body = x.body
    BY <1>1 DEF Frame
  <2> HIDE DEF sending
  <2>3. QED
    BY <1>2, <1>8, <2>1, <2>2, FoundInv
<1>9. QED
  BY <1>4, <1>5, <1>6, <1>7, <1>8

\* download.go: the copy, whole or cut off.
LEMMA StreamInv ==
  ASSUME RequestsInv, NEW e \in Exchanges, Stream(e)
  PROVE  RequestsInv'
<1> DEFINE x == ex[e]
<1>1. x \in Frame /\ ChecksInv(x) /\ JudgedInv(x, cfg.archive) /\ AnswerInv(x)
  BY DEF RequestsInv, FrameInv
<1>2. phase = "serving" /\ x.step = "stream"
  BY DEF Stream, At
<1>3. x.step \in InHandler /\ x.status = 200 /\ 200 \in Statuses
  BY <1>1, <1>2 DEF AnswerInv, InHandler, Steps, Statuses
<1>4. PICK part \in {"archive", "truncated"} : Answer(e, x.status, part)
  BY DEF Stream
<1>5. QED
  BY <1>2, <1>3, <1>4, AnswerKeepsInv

\* problem.go: whatever failed is one problem, with the id.
LEMMA WriteProblemInv ==
  ASSUME RequestsInv, NEW e \in Exchanges, WriteProblem(e)
  PROVE  RequestsInv'
<1> DEFINE x == ex[e]
<1>1. x \in Frame /\ ChecksInv(x) /\ JudgedInv(x, cfg.archive) /\ AnswerInv(x)
  BY DEF RequestsInv, FrameInv
<1>2. phase = "serving" /\ x.step = "failing"
  BY DEF WriteProblem, At
<1>3. x.step \in InHandler /\ x.id # NoId
  BY <1>1, <1>2 DEF AnswerInv, InHandler, Steps
<1>4. Answer(e, ProblemFor(x.error), "problem")
  BY <1>3 DEF WriteProblem
<1>5. /\ ProblemFor(x.error) \in {400, 401, 403, 404, 409, 413, 415, 422, 500, 503}
  BY ProblemStatus
<1>6. ProblemFor(x.error) \in Statuses /\ ~(ProblemFor(x.error) < 300) /\ ProblemFor(x.error) # 201
  BY <1>5 DEF Statuses
<1>7. QED
  BY <1>2, <1>3, <1>4, <1>6, AnswerKeepsInv

\* middleware.go:155-172: the line of a response that came to its end.
LEMMA LogRequestInv ==
  ASSUME RequestsInv, NEW e \in Exchanges, LogRequest(e)
  PROVE  RequestsInv'
<1> DEFINE x == ex[e]
<1>1. x \in Frame /\ ChecksInv(x) /\ JudgedInv(x, cfg.archive) /\ AnswerInv(x)
  BY DEF RequestsInv, FrameInv
<1> DEFINE f == [x EXCEPT !.step = "closed", !.log = Append(@, <<"request", x.status>>)]
<1>2. phase = "serving" /\ x.step = "answered" /\ Become(e, f)
  BY DEF LogRequest, At
<1>3. x.log = <<>> /\ x.id # NoId
  BY <1>1, <1>2 DEF AnswerInv
<1>4. Append(x.log, <<"request", x.status>>) = << <<"request", x.status>> >>
  BY <1>3
<1>5. << <<"request", x.status>> >> \in Logs
  <2>1. \A S : \A z \in S : <<z>> \in Seq(S)
    OBVIOUS
  <2>2. <<"request", x.status>> \in {"request", "panic"} \X (Statuses \cup {Unsent})
    BY <1>1 DEF Frame
  <2>3. QED
    BY <2>1, <2>2 DEF Logs
<1>6. f \in Frame
  BY <1>1, <1>4, <1>5 DEF Frame, Steps
<1>7. /\ f.step = "closed" /\ f.error = x.error /\ f.route = x.route /\ f.id = x.id
      /\ f.repository = x.repository /\ f.package = x.package /\ f.version = x.version
      /\ f.scoped = x.scoped /\ f.accepted = x.accepted /\ f.size = x.size /\ f.read = x.read
      /\ f.stored = x.stored /\ f.status = x.status /\ f.body = x.body
      /\ f.log = << <<"request", x.status>> >>
  BY <1>1, <1>4 DEF Frame
<1>8. ChecksInv(f)
  BY <1>1, <1>7 DEF ChecksInv, PastRepository, PastIdentity, PastVersion, PastMediaType, Ended
<1>9. JudgedInv(f, cfg.archive)
  BY <1>1, <1>7 DEF JudgedInv, Judged
<1>10. AnswerInv(f)
  <2>1. IF x.status < 300 THEN x.body \in {<<"success">>, <<"archive">>, <<"truncated">>}
        ELSE x.body = <<"problem">>
    BY <1>1, <1>2 DEF AnswerInv
  <2>2. /\ "ErrNotFound" \in x.error => x.stored \in {"unknown", "absent"}
        /\ x.status \notin {Unsent, 200, 201, 500} => x.status = ProblemFor(x.error)
    BY <1>1 DEF AnswerInv
  <2> HIDE DEF f
  <2>3. QED
    BY <1>3, <1>7, <2>1, <2>2 DEF AnswerInv, InHandler
<1>11. QED
  BY <1>2, <1>6, <1>8, <1>9, <1>10, BecomeInv DEF FrameInv

\* A panic leaves the response as far as it was.
LEMMA PanicInv ==
  ASSUME RequestsInv, NEW e \in Exchanges, Panic(e)
  PROVE  RequestsInv'
<1> DEFINE x == ex[e]
<1>1. x \in Frame /\ ChecksInv(x) /\ JudgedInv(x, cfg.archive) /\ AnswerInv(x)
  BY DEF RequestsInv, FrameInv
<1> DEFINE f == [x EXCEPT !.step = "panicking"]
<1>2. phase = "serving" /\ x.step \in InHandler /\ Become(e, f)
  BY DEF Panic, Goto
<1>3. x.log = <<>> /\ x.body = <<>> /\ x.status \in {Unsent, 200} /\ x.id # NoId
  BY <1>1, <1>2 DEF AnswerInv, InHandler
<1>4. f \in Frame
  BY <1>1 DEF Frame, Steps
<1>5. /\ f.step = "panicking" /\ f.error = x.error /\ f.route = x.route /\ f.id = x.id
      /\ f.repository = x.repository /\ f.package = x.package /\ f.version = x.version
      /\ f.scoped = x.scoped /\ f.accepted = x.accepted /\ f.size = x.size /\ f.read = x.read
      /\ f.stored = x.stored /\ f.status = x.status /\ f.body = x.body /\ f.log = x.log
  BY <1>1 DEF Frame
<1>6. ChecksInv(f)
  BY <1>1, <1>5 DEF ChecksInv, PastRepository, PastIdentity, PastVersion, PastMediaType, Ended
<1>7. JudgedInv(f, cfg.archive)
  BY <1>1, <1>5 DEF JudgedInv, Judged
<1>8. AnswerInv(f)
  BY <1>1, <1>3, <1>5 DEF AnswerInv, InHandler
<1>9. QED
  BY <1>2, <1>4, <1>6, <1>7, <1>8, BecomeInv DEF FrameInv

\* middleware.go:71-104: the panic's line and its problem, behind a status that was sent.
LEMMA RecoverInv ==
  ASSUME RequestsInv, NEW e \in Exchanges, Recover(e)
  PROVE  RequestsInv'
<1> DEFINE x == ex[e]
<1>1. x \in Frame /\ ChecksInv(x) /\ JudgedInv(x, cfg.archive) /\ AnswerInv(x)
  BY DEF RequestsInv, FrameInv
<1>2. phase = "serving" /\ x.step = "panicking"
  BY DEF Recover, At
<1>3. x.log = <<>> /\ x.body = <<>> /\ x.status \in {Unsent, 200} /\ x.id # NoId
  BY <1>1, <1>2 DEF AnswerInv
<1> DEFINE Recovered(status) ==
             Become(e, [x EXCEPT !.step = "closed", !.log = << <<"panic", Unsent>> >>,
                                 !.status = status, !.body = <<"anonymous_problem">>])
<1>4. PICK status \in {200, 500} : Recovered(status)
  <2>1. Append(x.log, <<"panic", Unsent>>) = << <<"panic", Unsent>> >>
    BY <1>3
  <2>2. Append(x.body, "anonymous_problem") = <<"anonymous_problem">>
    BY <1>3
  <2>3. Recovered(IF x.status = Unsent THEN 500 ELSE x.status)
    BY <2>1, <2>2 DEF Recover
  <2>4. (IF x.status = Unsent THEN 500 ELSE x.status) \in {200, 500}
    BY <1>3
  <2> HIDE DEF Recovered
  <2>5. QED
    BY <2>3, <2>4
<1> DEFINE f == [x EXCEPT !.step = "closed", !.log = << <<"panic", Unsent>> >>,
                          !.status = status, !.body = <<"anonymous_problem">>]
<1>5. /\ << <<"panic", Unsent>> >> \in Logs
      /\ <<"anonymous_problem">> \in Bodies
  <2>1. \A S : \A z \in S : <<z>> \in Seq(S)
    OBVIOUS
  <2>2. <<"panic", Unsent>> \in {"request", "panic"} \X (Statuses \cup {Unsent})
    OBVIOUS
  <2>3. QED
    BY <2>1, <2>2 DEF Logs, Bodies
<1>6. status \in Statuses
  BY <1>4 DEF Statuses
<1>7. f \in Frame
  <2>1. ASSUME NEW sent \in Statuses \cup {Unsent}, NEW log \in Logs, NEW body \in Bodies, NEW step \in Steps
        PROVE  [x EXCEPT !.step = step, !.log = log, !.status = sent, !.body = body] \in Frame
    BY <1>1 DEF Frame
  <2>2. "closed" \in Steps
    BY DEF Steps
  <2>3. QED
    BY <1>5, <1>6, <2>1, <2>2
<1>8. /\ f.step = "closed" /\ f.error = x.error /\ f.route = x.route /\ f.id = x.id
      /\ f.repository = x.repository /\ f.package = x.package /\ f.version = x.version
      /\ f.scoped = x.scoped /\ f.accepted = x.accepted /\ f.size = x.size /\ f.read = x.read
      /\ f.stored = x.stored /\ f.status = status
      /\ f.body = <<"anonymous_problem">> /\ f.log = << <<"panic", Unsent>> >>
  BY <1>1 DEF Frame
<1> HIDE DEF f
<1>9. ChecksInv(f)
  <2>1. x.read > 0 => /\ x.route = "publish" /\ x.repository \in Repositories
                      /\ x.package # Refused /\ x.version # Refused
                      /\ x.scoped /\ x.accepted
    BY <1>1 DEF ChecksInv
  <2>2. /\ f.step \in Ended
        /\ f.step \notin PastRepository /\ f.step \notin PastIdentity
        /\ f.step \notin PastVersion /\ f.step \notin PastMediaType
        /\ f.step # "version" /\ f.step # "authorise"
        /\ f.step \notin {"repository", "identity", "authorise"}
    <3>1. f.step = "closed"
      BY <1>8
    <3>2. QED
      BY <3>1 DEF PastRepository, PastIdentity, PastVersion, PastMediaType, Ended
  <2>3. f.read > 0 => /\ f.route = "publish" /\ f.repository \in Repositories
                      /\ f.package # Refused /\ f.version # Refused
                      /\ f.scoped /\ f.accepted
    BY <1>8, <2>1, Zenon
  <2>4. QED
    BY <2>2, <2>3, Zenon DEF ChecksInv
<1>10. JudgedInv(f, cfg.archive)
  <2>1. f.status # 201
    <3>1. status # 201
      OBVIOUS
    <3>2. QED
      BY <1>8, <3>1, Zenon
  <2>2. /\ x.error \cap Verdicts # {} => Judged(x, cfg.archive)
        /\ "ErrPayloadTooLarge" \in x.error => x.size > cfg.archive
    BY <1>1 DEF JudgedInv
  <2>3. Judged(f, cfg.archive) <=> Judged(x, cfg.archive)
    <3>1. f.route = x.route /\ f.read = x.read /\ f.size = x.size
      BY <1>8
    <3>2. QED
      BY <3>1 DEF Judged
  <2>4. f.step # "service" /\ f.error = x.error /\ f.size = x.size
    BY <1>8
  <2>5. QED
    BY <2>1, <2>2, <2>3, <2>4 DEF JudgedInv
<1>11. AnswerInv(f)
  <2>1. "ErrNotFound" \in x.error => x.stored \in {"unknown", "absent"}
    BY <1>1 DEF AnswerInv
  <2>2. QED
    BY <1>3, <1>4, <1>8, <2>1 DEF AnswerInv, InHandler
<1>12. Become(e, f)
  BY <1>4 DEF f
<1>13. QED
  BY <1>2, <1>12, <1>7, <1>9, <1>10, <1>11, BecomeInv DEF FrameInv

-----------------------------------------------------------------------------
\* The start of the process leaves the requests alone, of which there are none yet.
LEMMA StartInv ==
  ASSUME RequestsInv, ConfigNext /\ UNCHANGED ex
  PROVE  RequestsInv'
<1>1. ConfigInv'
  BY ConfigNextInv DEF RequestsInv
<1>2. phase # "serving" /\ phase' # "serving"
  BY DEF ConfigNext, LoadConfig, ResolveListenAddr
<1>3. ex' = [e \in Exchanges |-> NoExchange]
  BY <1>2 DEF RequestsInv
<1>4. QED
  BY <1>1, <1>2, <1>3, NoExchangeInv DEF RequestsInv

LEMMA ServeInv ==
  ASSUME RequestsInv, Serve
  PROVE  RequestsInv'
<1>1. phase = "listening" /\ phase' = "serving" /\ ex' = ex /\ cfg' = [NoConfig EXCEPT !.archive = cfg.archive, !.media = cfg.media]
  BY DEF Serve
<1>2. cfg'.archive = cfg.archive
  BY <1>1 DEF NoConfig
<1>3. ConfigInv'
  <2>1. /\ cfg'.uncompressed = 0 /\ cfg'.entries = 0 /\ cfg'.addr = <<>>
        /\ cfg'.media = cfg.media /\ listen' = <<>>
    BY <1>1 DEF Serve, NoConfig
  <2>2. ConfigTypeOK'
    BY <1>1, <1>2, <2>1, RequestsConstants DEF RequestsInv, ConfigInv, ConfigTypeOK
  <2>3. QED
    BY <1>1, <1>2, <2>2 DEF RequestsInv, ConfigInv
<1>4. ex' = [e \in Exchanges |-> NoExchange]
  BY <1>1 DEF RequestsInv
<1>5. QED
  BY <1>1, <1>3, <1>4, NoExchangeInv DEF RequestsInv

LEMMA ServerStepInv ==
  ASSUME RequestsInv, NEW e \in Exchanges, ServerStep(e)
  PROVE  RequestsInv'
<1>1. CASE Ping(e) \/ PingFails(e)
  BY <1>1, PingInv
<1>2. CASE Authorise(e)
  BY <1>2, AuthoriseInv
<1>3. CASE \E raw \in RawNames : ResolveRepository(e, raw)
  BY <1>3, ResolveRepositoryInv
<1>4. CASE \E raw \in RawNames : ResolveVersion(e, raw)
  BY <1>4, ResolveVersionInv
<1>5. CASE \E path \in Paths : ResolveIdentity(e, path)
  BY <1>5, ResolveIdentityInv
<1>6. CASE \E mt \in Readable \cup {"other"} : CheckMediaType(e, mt)
  BY <1>6, CheckMediaTypeInv
<1>7. CASE Published(e) \/ PublishFails(e)
  BY <1>7, PublishInv
<1>8. CASE \E stored \in {"absent", "row", "bytes"} : Listed(e, stored) \/ OpenDownload(e, stored)
  BY <1>8, QueryInv
<1>9. CASE StoreFails(e)
  BY <1>9, FaultInv
<1>10. CASE Stream(e)
  BY <1>10, StreamInv
<1>11. CASE WriteProblem(e)
  BY <1>11, WriteProblemInv
<1>12. CASE LogRequest(e)
  BY <1>12, LogRequestInv
<1>13. CASE Recover(e)
  BY <1>13, RecoverInv
<1>14. QED
  BY <1>1, <1>2, <1>3, <1>4, <1>5, <1>6, <1>7, <1>8, <1>9, <1>10, <1>11, <1>12, <1>13, Zenon DEF ServerStep

LEMMA RequestsNextInv == RequestsInv /\ [RequestsNext]_requestVars => RequestsInv'
<1> SUFFICES ASSUME RequestsInv, [RequestsNext]_requestVars PROVE RequestsInv'
  OBVIOUS
<1>1. CASE ConfigNext /\ UNCHANGED ex
  BY <1>1, StartInv
<1>2. CASE Serve
  BY <1>2, ServeInv
<1>3. ASSUME NEW e \in Exchanges, ServerStep(e) PROVE RequestsInv'
  BY <1>3, ServerStepInv
<1>4. ASSUME NEW e \in Exchanges, ClientStep(e) PROVE RequestsInv'
  <2>1. CASE \E route \in Routes, inbound \in {"absent", "unsafe", "safe"} : Arrive(e, route, inbound)
    BY <2>1, ArriveInv
  <2>2. CASE \E size \in 0..MaxSize : Receive(e, size)
    BY <2>2, ReceiveInv
  <2>3. CASE ReceiveFails(e)
    BY <2>3, FaultInv
  <2>4. QED
    BY <1>4, <2>1, <2>2, <2>3, Zenon DEF ClientStep
<1>5. ASSUME NEW e \in Exchanges, Panic(e) PROVE RequestsInv'
  BY <1>5, PanicInv
<1>6. CASE UNCHANGED requestVars
  BY <1>6 DEF requestVars, configVars, RequestsInv, ConfigInv, ConfigTypeOK, FlagsRefused, ListenAddr
<1>7. QED
  BY <1>1, <1>2, <1>3, <1>4, <1>5, <1>6, Zenon DEF RequestsNext

LEMMA RequestsInvariance == RequestsSpec => []RequestsInv
<1>1. RequestsInit => RequestsInv
  BY RequestsInitInv
<1>2. RequestsInv /\ [RequestsNext]_requestVars => RequestsInv'
  BY RequestsNextInv
<1>3. QED
  BY <1>1, <1>2, PTL DEF RequestsSpec

\* TR-30, config.go:70-139: no environment, however its values combine, starts a server
\* whose caps cannot be met or hides a bad value behind a default.
THEOREM RequestsStartsOnlyWhenSound == RequestsSpec => []StartsOnlyWhenSound
<1>1. RequestsInv => StartsOnlyWhenSound
  BY LoadedIsSound DEF RequestsInv
<1>2. QED
  BY <1>1, RequestsInvariance, PTL

\* config.go:209-232, addr.go:16-45: whatever is set, the server binds that.
THEOREM RequestsBindsWhatWasAsked == RequestsSpec => []BindsWhatWasAsked
<1>1. RequestsInv => BindsWhatWasAsked
  BY BindsInv DEF RequestsInv
<1>2. QED
  BY <1>1, RequestsInvariance, PTL

\* ADR-0011: no byte of a body is read before all five checks have passed.
THEOREM RequestsBodyIsReadLast == RequestsSpec => []BodyIsReadLast
<1>1. RequestsInv => BodyIsReadLast
  <2> SUFFICES ASSUME RequestsInv, NEW e \in Exchanges,
                      ex[e].step \in {"receive", "service"} \/ ex[e].read > 0
               PROVE  /\ ex[e].route = "publish" /\ ex[e].repository \in Repositories
                      /\ ex[e].package # Refused /\ ex[e].version # Refused
                      /\ ex[e].scoped /\ ex[e].accepted
    BY DEF BodyIsReadLast
  <2>1. ChecksInv(ex[e])
    BY DEF RequestsInv, FrameInv
  <2>2. QED
    BY <2>1 DEF ChecksInv, PastRepository, PastIdentity, PastVersion, PastMediaType
<1>2. QED
  BY <1>1, RequestsInvariance, PTL

\* publish.go:226-250: a body is judged whole or refused for its size, whatever the cap;
\* the largest int64, one more than which wraps, is the only one for which it is not read.
THEOREM RequestsJudgedWholeOrRefused == RequestsSpec => []JudgedWholeOrRefused
<1>1. RequestsInv => JudgedWholeOrRefused
  <2> SUFFICES ASSUME RequestsInv, NEW e \in Exchanges
               PROVE  /\ ex[e].status = 413 => ex[e].size > cfg.archive
                      /\ ex[e].step = "service" \/ ex[e].status \in {201, 409, 422} =>
                            Judged(ex[e], cfg.archive)
    BY DEF JudgedWholeOrRefused, Judged
  <2>1. JudgedInv(ex[e], cfg.archive) /\ AnswerInv(ex[e])
    BY DEF RequestsInv, FrameInv
  <2>2. ex[e].status \in {409, 413, 422} => ex[e].status = ProblemFor(ex[e].error)
    <3>1. ex[e].status \notin {Unsent, 200, 201, 500} => ex[e].status = ProblemFor(ex[e].error)
      BY <2>1 DEF AnswerInv
    <3>2. QED
      BY <3>1 DEF Unsent
  <2>3. ex[e].status = 413 => "ErrPayloadTooLarge" \in ex[e].error
    BY <2>2, ProblemStatus
  <2>4. ex[e].status \in {409, 422} => ex[e].error \cap Verdicts # {}
    BY <2>2, ProblemStatus DEF Verdicts
  <2>5. QED
    BY <2>1, <2>3, <2>4 DEF JudgedInv
<1>2. QED
  BY <1>1, RequestsInvariance, PTL

\* query.go:55-66: a version that has a row is never answered with a 404.
THEOREM RequestsNotFoundIsNotPublished == RequestsSpec => []NotFoundIsNotPublished
<1>1. RequestsInv => NotFoundIsNotPublished
  <2> SUFFICES ASSUME RequestsInv, NEW e \in Exchanges, ex[e].status = 404
               PROVE  ex[e].stored \in {"unknown", "absent"}
    BY DEF NotFoundIsNotPublished
  <2>1. AnswerInv(ex[e])
    BY DEF RequestsInv, FrameInv
  <2>2. ProblemFor(ex[e].error) = 404
    BY <2>1 DEF AnswerInv, Unsent
  <2>3. QED
    BY <2>1, <2>2, ProblemStatus DEF AnswerInv
<1>2. QED
  BY <1>1, RequestsInvariance, PTL

\* FR-26, FR-27: every request has one answer and one line in the log, which agree; a
\* panic has its own.
THEOREM RequestsAnsweredAndLoggedOnce == RequestsSpec => []AnsweredAndLoggedOnce
<1>1. RequestsInv => AnsweredAndLoggedOnce
  <2> SUFFICES ASSUME RequestsInv, NEW e \in Exchanges, ex[e].step = "closed"
               PROVE  \/ /\ ex[e].log = << <<"request", ex[e].status>> >>
                         /\ ex[e].id # NoId
                         /\ IF ex[e].status < 300
                            THEN ex[e].body \in {<<"success">>, <<"archive">>, <<"truncated">>}
                            ELSE ex[e].body = <<"problem">>
                      \/ /\ ex[e].log = << <<"panic", Unsent>> >>
                         /\ ex[e].body = <<"anonymous_problem">>
                         /\ ex[e].status \in {200, 500}
    BY DEF AnsweredAndLoggedOnce
  <2> DEFINE x == ex[e]
  <2>1. x.step = "closed" /\ AnswerInv(x)
    BY DEF RequestsInv, FrameInv
  <2> HIDE DEF x
  <2>2. /\ x.id # NoId
        /\ \/ /\ x.log = << <<"request", x.status>> >>
              /\ IF x.status < 300 THEN x.body \in {<<"success">>, <<"archive">>, <<"truncated">>}
                 ELSE x.body = <<"problem">>
           \/ /\ x.log = << <<"panic", Unsent>> >>
              /\ x.body = <<"anonymous_problem">>
              /\ x.status \in {200, 500}
    BY <2>1 DEF AnswerInv
  <2>3. QED
    BY <2>2 DEF x
<1>2. QED
  BY <1>1, RequestsInvariance, PTL

-----------------------------------------------------------------------------
LEMMA CharactersListed == "a" \in Characters /\ "b" \in Characters /\ "/" \in Characters /\ "*" \in Characters
  BY DEF Characters, Alphanumeric

\* identity.go:81-86: either form of a path is text.
LEMMA PathsTyped ==
  ASSUME NEW path \in Paths
  PROVE  IdentityFrom(path) \in Seq(Characters)
<1>1. \A C : \A n, m \in Seq(C) : "/" \in C => n \o <<"/">> \o m \in Seq(C)
  OBVIOUS
<1>2. RawNames \subseteq Seq(Characters) /\ "/" \in Characters
  BY CharactersListed, RequestsConstants
<1>3. CASE path \in {<<n>> : n \in RawNames}
  <2>1. PICK n \in RawNames : path = <<n>>
    BY <1>3
  <2>2. IdentityFrom(path) = n
    BY <2>1 DEF IdentityFrom
  <2>3. QED
    BY <1>2, <2>2
<1>4. CASE path \in RawNames \X RawNames
  <2>1. PICK n \in RawNames, m \in RawNames : path = <<n, m>>
    BY <1>4
  <2>2. IdentityFrom(path) = n \o <<"/">> \o m
    BY <2>1 DEF IdentityFrom
  <2>3. QED
    BY <1>1, <1>2, <2>2
<1>5. QED
  BY <1>3, <1>4 DEF Paths

\* What the parsers make of text is text.
LEMMA PackagesTyped ==
  ASSUME NEW package \in Packages
  PROVE  package \in Seq(Characters)
<1>1. CASE package = None
  <2>1. \A C : <<>> \in Seq(C)
    OBVIOUS
  <2>2. QED
    BY <1>1, <2>1 DEF None
<1>2. CASE package # None
  <2>1. PICK path \in Paths : package = ParseIdentity(IdentityFrom(path))
    BY <1>2 DEF Packages
  <2>2. IdentityFrom(path) \in Seq(Characters)
    BY PathsTyped
  <2>3. "a" \in Characters /\ "b" \in Characters
    BY CharactersListed
  <2>4. ParseIdentity(IdentityFrom(path)) # Refused
    BY <1>2, <2>1 DEF None, Refused
  <2>5. ParseIdentity(IdentityFrom(path)) \in Seq(Characters)
    BY <2>2, <2>3, <2>4, IdentityParsed
  <2>6. QED
    BY <2>1, <2>5
<1>3. QED
  BY <1>1, <1>2

\* Every variable of the server and of its requests has its type.
THEOREM RequestsIsTyped == RequestsSpec => []RequestsTypeOK
<1>1. RequestsInv => RequestsTypeOK
  <2> SUFFICES ASSUME RequestsInv PROVE RequestsTypeOK
    OBVIOUS
  <2>1. ConfigTypeOK
    BY DEF RequestsInv, ConfigInv
  <2>2. Versions \subseteq Seq(Characters)
    <3>1. \A C : <<>> \in Seq(C)
      OBVIOUS
    <3>2. QED
      BY <3>1, RequestsConstants DEF Versions, None
  <2>3. Packages \subseteq Seq(Characters)
    BY PackagesTyped
  <2>4. ASSUME NEW x \in Frame
        PROVE  x \in Exchange
    <3> DEFINE T == Seq(Characters)
    <3>1. Versions \subseteq T /\ Packages \subseteq T
      BY <2>2, <2>3
    <3> HIDE DEF T
    <3>2. x \in [step : Steps, route : Routes, id : {NoId, "theirs", "ours"},
                 repository : RawNames \cup {None}, package : T, version : T,
                 scoped : BOOLEAN, accepted : BOOLEAN, size : 0..MaxSize, read : 0..MaxSize,
                 stored : {"unknown", "absent", "row", "bytes"},
                 error : SUBSET Kinds, status : Statuses \cup {Unsent},
                 body : Bodies, log : Logs]
      BY <3>1 DEF Frame
    <3>3. QED
      BY <3>2, Zenon DEF Exchange, T, Bodies, Logs
  <2>5. ex = [e \in Exchanges |-> ex[e]] /\ \A e \in Exchanges : ex[e] \in Exchange
    BY <2>4 DEF RequestsInv, FrameInv
  <2>6. ex \in [Exchanges -> Exchange]
    <3> HIDE DEF RequestsInv
    <3>1. [e \in Exchanges |-> ex[e]] \in [Exchanges -> Exchange]
      BY <2>5
    <3>2. QED
      BY <2>5, <3>1
  <2>7. QED
    BY <2>1, <2>6 DEF RequestsTypeOK
<1>2. QED
  BY <1>1, RequestsInvariance, PTL

\* The package a request is authorised for is what ParseIdentity made of its path.
LEMMA AuthorisedPackage ==
  ASSUME RequestsInv, NEW e \in Exchanges, At(e, "authorise")
  PROVE  \E path \in Paths : /\ ParseIdentity(IdentityFrom(path)) = ex[e].package
                              /\ ex[e].package # Refused
<1>1. ex[e].step = "authorise" /\ ex[e] \in Frame /\ ChecksInv(ex[e])
  BY DEF At, RequestsInv, FrameInv
<1>2. ex[e].package # Refused
  BY <1>1 DEF ChecksInv, PastIdentity, PastRepository
<1>3. ex[e].package \in Packages
  BY <1>1 DEF Frame
<1>4. QED
  BY <1>2, <1>3 DEF Packages, None, Refused

\* FR-14, FR-16, identity.go:27-71: a request is authorised for, and acts on, a package
\* whose name has at least two parts, none of them empty or a dot segment, and no
\* character but those of names, whichever of its accepted spellings it was sent in.
THEOREM RequestsPackagesHaveOneName == RequestsSpec => []PackagesHaveOneName
<1>1. RequestsInv => PackagesHaveOneName
  <2> SUFFICES ASSUME RequestsInv, NEW e \in Exchanges, At(e, "authorise")
               PROVE  LET parts == Split(ex[e].package) IN
                      /\ Len(parts) >= 2
                      /\ \A n \in DOMAIN parts : parts[n] \notin {<<>>, <<".">>, <<".", ".">>}
                      /\ ToSet(ex[e].package) \cap {"A", "K", "backslash", "ctl", "*"} = {}
                      /\ \A path \in Paths : Lower(IdentityFrom(path)) = ex[e].package =>
                            ParseIdentity(IdentityFrom(path)) \in {ex[e].package, Refused}
    BY DEF PackagesHaveOneName
  <2>1. PICK sent \in Paths : ParseIdentity(IdentityFrom(sent)) = ex[e].package /\ ex[e].package # Refused
    BY AuthorisedPackage
  <2> DEFINE id == ex[e].package
  <2>2. "a" \in Characters /\ "b" \in Characters /\ IdentityFrom(sent) \in Seq(Characters)
    BY CharactersListed, PathsTyped
  <2>3. /\ Len(Split(id)) >= 2
        /\ \A n \in DOMAIN Split(id) : ValidIdentityComponent(Split(id)[n])
        /\ ToSet(id) \subseteq NameChars
    BY <2>1, <2>2, IdentityParsed
  <2>4. \A n \in DOMAIN Split(id) : Split(id)[n] \notin {<<>>, <<".">>, <<".", ".">>}
    BY <2>3 DEF ValidIdentityComponent
  <2>5. ToSet(id) \cap {"A", "K", "backslash", "ctl", "*"} = {}
    BY <2>3 DEF NameChars, Alphanumeric, Punctuation
  <2>6. \A d : ParseIdentity(d) \in {Lower(d), Refused}
    BY DEF ParseIdentity
  <2>7. QED
    BY <2>3, <2>4, <2>5, <2>6
<1>2. QED
  BY <1>1, RequestsInvariance, PTL

\* scope.go:71-100: whatever scope of whatever length parses, "acme/*" is at least all
\* that acme has, and nothing of acme-corp.
THEOREM RequestsGrantsKeepToTheirOwner == RequestsSpec => []GrantsKeepToTheirOwner
<1>1. RequestsInv => GrantsKeepToTheirOwner
  <2> SUFFICES ASSUME RequestsInv, NEW e \in Exchanges, At(e, "authorise"), NEW g \in Grants, ParseScope(g)
               PROVE  /\ Satisfies(g, RequiredScope(e)) =>
                            g.action = RequiredScope(e).action /\ WithinOwner(g, ex[e].package)
                      /\ g.action = RequiredScope(e).action /\ Covers(g, ex[e].package) =>
                            Satisfies(g, RequiredScope(e))
    BY DEF GrantsKeepToTheirOwner
  <2>1. PICK sent \in Paths : ParseIdentity(IdentityFrom(sent)) = ex[e].package /\ ex[e].package # Refused
    BY AuthorisedPackage
  <2> DEFINE id == ex[e].package
             r == RequiredScope(e)
  <2>2. /\ "a" \in Characters /\ "b" \in Characters /\ "/" \in Characters /\ "*" \in Characters
        /\ IdentityFrom(sent) \in Seq(Characters) /\ g.target \in Seq(Characters) \cup {NoTarget}
    BY CharactersListed, PathsTyped, RequestsConstants
  <2>3. id \in Seq(Characters) /\ ToSet(id) \subseteq NameChars
    BY <2>1, <2>2, IdentityParsed
  <2>4. r.target = id
    BY DEF RequiredScope, Scope
  <2> HIDE DEF r
  <2>5. r.target # <<>>
    BY <2>1, <2>4 DEF Refused
  <2>6. Satisfies(g, r) <=> g.action = r.action /\ WithinOwner(g, r.target)
    BY <2>2, <2>3, <2>4, <2>5, GrantMeans
  <2>7. Covers(g, id) => WithinOwner(g, id)
    BY <2>3, OwnedIsBelow
  <2>8. QED
    BY <2>4, <2>6, <2>7 DEF r
<1>2. QED
  BY <1>1, RequestsInvariance, PTL
=============================================================================

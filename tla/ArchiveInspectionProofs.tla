----------------------- MODULE ArchiveInspectionProofs -----------------------
(***************************************************************************)
(* What an accepted archive is, how much of one is read, which verdict an     *)
(* archive gets and which names leave its root, for every set of archives and *)
(* every value of the caps.                                                   *)
(***************************************************************************)
EXTENDS ArchiveInspection, FoldProofs

-----------------------------------------------------------------------------
\* path.Clean's stack holds segments.
LEMMA DescendType ==
  ASSUME NEW stack \in Seq(Segments), NEW g \in Segments
  PROVE  Descend(stack, g) \in Seq(Segments)
<1>1. stack # <<>> => Front(stack) \in Seq(Segments)
  BY DEF Front
<1>2. Append(stack, g) \in Seq(Segments)
  OBVIOUS
<1>3. QED
  BY <1>1, <1>2, Zenon DEF Descend

LEMMA CleanRuns ==
  ASSUME NEW name \in Seq(Segments)
  PROVE  \E run \in [0..Len(name) -> Seq(Segments)] :
            /\ run[0] = <<>>
            /\ \A i \in 1..Len(name) : run[i] = Descend(run[i - 1], name[i])
            /\ Clean(name) = run[Len(name)]
<1> DEFINE N == Len(name)
           X == Seq(Segments)
           step == [i \in 1..N |-> [v \in X |-> Descend(v, name[i])]]
           G(it) == [s \in SUBSET (DOMAIN name) |->
                       IF s = {} THEN <<>> ELSE Descend(it[s \ {Max(s)}], name[Max(s)])]
<1>1. N \in Nat /\ DOMAIN name = 1..N /\ \A i \in 1..N : name[i] \in Segments
  OBVIOUS
<1>2. step \in [1..N -> [X -> X]]
  BY <1>1, DescendType
<1>3. PICK it \in [SUBSET (1..N) -> X] : Folds(it, N, <<>>, step)
  <2>1. <<>> \in X
    OBVIOUS
  <2> HIDE DEF N, X, step
  <2>2. QED
    BY <1>1, <1>2, <2>1, FoldExists
<1>4. it = G(it)
  <2>1. ASSUME NEW s \in SUBSET (1..N), s # {}
        PROVE  step[Max(s)][it[s \ {Max(s)}]] = Descend(it[s \ {Max(s)}], name[Max(s)])
    <3>1. Max(s) \in 1..N
      BY <2>1, <1>1, MaxOfPositions
    <3>2. it[s \ {Max(s)}] \in X
      OBVIOUS
    <3> QED
      BY <3>1, <3>2
  <2>2. QED
    BY <1>1, <1>3, <2>1 DEF Folds
<1>5. PICK chosen : chosen = G(chosen) /\ Clean(name) = chosen[1..N]
  <2> DEFINE c == CHOOSE c : c = G(c)
  <2>1. c = G(c)
    BY <1>4
  <2>2. Clean(name) = c[1..N]
    BY <1>1 DEF Clean, FoldLeft, MapThenFoldSet
  <2>3. QED
    BY <2>1, <2>2
<1>6. FoldsWithin(chosen, N, X, <<>>, step)
  <2>1. \A s \in SUBSET (1..N) : s # {} => Max(s) \in 1..N
    BY <1>1, MaxOfPositions
  <2>2. QED
    BY <1>1, <1>5, <2>1 DEF FoldsWithin
<1>7. PICK run \in [0..N -> X] : Runs(run, N, <<>>, step) /\ chosen[1..N] = run[N]
  <2>1. <<>> \in X /\ N \in Nat
    BY <1>1
  <2> HIDE DEF N, X, step, G
  <2>2. RunOf(chosen, N, X, <<>>, step)
    BY <1>2, <1>6, <2>1, FoldRuns
  <2>3. QED
    BY <2>2 DEF RunOf
<1>8. \A i \in 1..N : i - 1 \in 0..N
  BY <1>1
<1>9. QED
  BY <1>1, <1>5, <1>7, <1>8 DEF Runs
-----------------------------------------------------------------------------
\* How far below the root a name leads, segment by segment.
LEMMA CountStep ==
  ASSUME NEW name, NEW n \in Nat, NEW S
  PROVE  /\ Count(name, n, S) \in Nat
         /\ Count(name, 0, S) = 0
         /\ Count(name, n + 1, S) = Count(name, n, S) + IF name[n + 1] \in S THEN 1 ELSE 0
<1> DEFINE Hits(m) == {i \in 1..m : name[i] \in S}
<1>1. IsFiniteSet(Hits(n)) /\ n + 1 \notin Hits(n)
  <2>1. IsFiniteSet(1..n) /\ Hits(n) \in SUBSET (1..n)
    BY FS_Interval
  <2>2. QED
    BY <2>1, FS_Subset
<1>2. Hits(0) = {}
  OBVIOUS
<1>3. name[n + 1] \in S => Hits(n + 1) = Hits(n) \cup {n + 1}
  OBVIOUS
<1>4. name[n + 1] \notin S => Hits(n + 1) = Hits(n)
  OBVIOUS
<1>5. Cardinality(Hits(n)) \in Nat /\ Cardinality(Hits(n) \cup {n + 1}) = Cardinality(Hits(n)) + 1
  <2> HIDE DEF Hits
  <2>1. QED
    BY <1>1, FS_CardinalityType, FS_AddElement
<1>6. Cardinality(Hits(0)) = 0
  BY <1>2, FS_EmptySet
<1>7. /\ Cardinality(Hits(n)) \in Nat
      /\ Cardinality(Hits(0)) = 0
      /\ Cardinality(Hits(n + 1)) = Cardinality(Hits(n)) + IF name[n + 1] \in S THEN 1 ELSE 0
  <2> HIDE DEF Hits
  <2>1. QED
    BY <1>3, <1>4, <1>5, <1>6
<1>8. QED
  BY <1>7 DEF Count

Normal(segment) == segment \in Segments \ {"", ".", ".."}

LEMMA DepthStep ==
  ASSUME NEW name, NEW n \in Nat
  PROVE  /\ Depth(name, n) \in Int
         /\ Depth(name, 0) = 0
         /\ Depth(name, n + 1) =
              Depth(name, n) + IF Normal(name[n + 1]) THEN 1 ELSE IF name[n + 1] = ".." THEN 0 - 1 ELSE 0
<1> DEFINE ups(m) == Count(name, m, {".."})
           downs(m) == Count(name, m, Segments \ {"", ".", ".."})
<1>1. /\ ups(n) \in Nat /\ ups(0) = 0
      /\ ups(n + 1) = ups(n) + IF name[n + 1] = ".." THEN 1 ELSE 0
  BY CountStep
<1>2. /\ downs(n) \in Nat /\ downs(0) = 0
      /\ downs(n + 1) = downs(n) + IF Normal(name[n + 1]) THEN 1 ELSE 0
  BY CountStep DEF Normal
<1>3. ~(Normal(name[n + 1]) /\ name[n + 1] = "..")
  BY DEF Normal
<1>4. \A m : Depth(name, m) = downs(m) - ups(m)
  BY DEF Depth
<1> HIDE DEF ups, downs
<1>5. QED
  BY <1>1, <1>2, <1>3, <1>4

\* path.Clean's stack after n segments: the steps above the root that could not be
\* undone, and below them the directories that were entered and not left.
Shape(stack, k, name, n) ==
    /\ k \in 0..Len(stack)
    /\ \A i \in 1..Len(stack) : i <= k <=> stack[i] = ".."
    /\ Len(stack) - (k + k) = Depth(name, n)
    /\ k > 0 <=> \E m \in 1..n : Depth(name, m) < 0

LEMMA AppendOf ==
  ASSUME NEW S, NEW stack \in Seq(S), NEW g \in S
  PROVE  /\ Len(Append(stack, g)) = Len(stack) + 1 /\ Append(stack, g)[Len(stack) + 1] = g
         /\ \A i \in 1..Len(stack) : Append(stack, g)[i] = stack[i]
OBVIOUS

LEMMA FrontOf ==
  ASSUME NEW S, NEW stack \in Seq(S), Len(stack) # 0
  PROVE  Len(Front(stack)) = Len(stack) - 1 /\ \A i \in 1..Len(Front(stack)) : Front(stack)[i] = stack[i]
<1>1. Front(stack) = SubSeq(stack, 1, Len(stack) - 1)
  BY DEF Front
<1>2. Len(stack) \in Nat \ {0}
  OBVIOUS
<1>3. Front(stack) = [i \in 1..(Len(stack) - 1) |-> stack[i]]
  BY <1>1, <1>2
<1>4. Len(SubSeq(stack, 1, Len(stack) - 1)) = Len(stack) - 1
  <2>1. PICK m \in Nat : m = Len(stack) - 1
    BY <1>2
  <2>2. SubSeq(stack, 1, m) = [i \in 1..m |-> stack[i]] /\ Len([i \in 1..m |-> stack[i]]) = m
    BY <1>2, <2>1
  <2>3. QED
    BY <2>1, <2>2
<1>5. QED
  BY <1>1, <1>2, <1>3, <1>4

LEMMA ShapeStep ==
  ASSUME NEW name \in Seq(Segments), NEW n \in 0..(Len(name) - 1),
         NEW stack \in Seq(Segments), NEW k, Shape(stack, k, name, n)
  PROVE  \E j : Shape(Descend(stack, name[n + 1]), j, name, n + 1)
<1> DEFINE g == name[n + 1]
           d == Depth(name, n)
           e == Depth(name, n + 1)
<1>1. /\ n \in Nat /\ n + 1 \in 1..Len(name) /\ g \in Segments
      /\ k \in Nat /\ Len(stack) \in Nat /\ k <= Len(stack)
  BY DEF Shape
<1>2. d \in Int /\ e = d + IF Normal(g) THEN 1 ELSE IF g = ".." THEN 0 - 1 ELSE 0
  BY <1>1, DepthStep
<1>3. \A m \in 1..(n + 1) : m \in 1..n \/ m = n + 1
  BY <1>1
<1>4. (\E m \in 1..(n + 1) : Depth(name, m) < 0) <=> k > 0 \/ e < 0
  BY <1>1, <1>3 DEF Shape
<1>5. CASE g \in {"", "."}
  <2>1. Descend(stack, g) = stack
    BY <1>5, Zenon DEF Descend
  <2>2. e = d
    <3>1. ~Normal(g) /\ g # ".."
      BY <1>5 DEF Normal
    <3> HIDE DEF g, d, e
    <3>2. QED
      BY <1>2, <3>1
  <2>3. k = 0 => ~(e < 0)
    BY <1>1, <2>2 DEF Shape
  <2>4. Shape(stack, k, name, n + 1)
    BY <1>4, <2>2, <2>3 DEF Shape
  <2>5. QED
    BY <2>1, <2>4
<1>6. CASE g = ".." /\ stack # <<>> /\ Last(stack) # ".."
  <2> DEFINE up == Front(stack)
  <2>1. Descend(stack, g) = up /\ e = d - 1
    BY <1>2, <1>6 DEF Descend, Normal
  <2>2. Len(stack) # 0 /\ stack[Len(stack)] # ".."
    BY <1>1, <1>6 DEF Last
  <2>3. Len(up) = Len(stack) - 1 /\ \A i \in 1..Len(up) : up[i] = stack[i]
    BY <1>1, <2>2, FrontOf
  <2>4. k < Len(stack)
    BY <1>1, <2>2 DEF Shape
  <2> HIDE DEF up, d, e
  <2>5. Len(stack) - (k + k) = d
    BY DEF Shape, d
  <2>6. k = 0 => ~(e < 0)
    BY <1>1, <2>1, <2>4, <2>5
  <2>7. Len(up) - (k + k) = e /\ k \in 0..Len(up)
    BY <1>1, <2>1, <2>3, <2>4, <2>5
  <2>8. \A i \in 1..Len(up) : i <= k <=> up[i] = ".."
    BY <1>1, <2>3 DEF Shape
  <2>9. Shape(up, k, name, n + 1)
    BY <1>1, <1>4, <2>6, <2>7, <2>8 DEF Shape, e
  <2>10. QED
    BY <2>1, <2>9
<1>7. CASE g = ".." /\ ~(stack # <<>> /\ Last(stack) # "..")
  <2> DEFINE up == Append(stack, g)
  <2>1. Descend(stack, g) = up /\ e = d - 1
    BY <1>2, <1>7 DEF Descend, Normal
  <2>2. Len(up) = Len(stack) + 1 /\ up[Len(stack) + 1] = ".." /\ \A i \in 1..Len(stack) : up[i] = stack[i]
    BY <1>1, <1>7
  <2>3. k = Len(stack)
    <3>1. CASE stack = <<>>
      BY <3>1, <1>1
    <3>2. CASE stack # <<>> /\ stack[Len(stack)] = ".."
      BY <3>2, <1>1 DEF Shape
    <3>3. QED
      BY <1>7, <3>1, <3>2 DEF Last
  <2> HIDE DEF up, d, e
  <2>4. Len(stack) - (k + k) = d
    BY DEF Shape, d
  <2>5. e < 0 /\ Len(up) - ((k + 1) + (k + 1)) = e /\ k + 1 \in 0..Len(up) /\ k + 1 > 0
    BY <1>1, <2>1, <2>2, <2>3, <2>4
  <2>6. \A i \in 1..Len(up) : i <= k + 1 <=> up[i] = ".."
    <3>1. \A i \in 1..Len(stack) : stack[i] = ".."
      BY <1>1, <2>3 DEF Shape
    <3>2. \A i \in 1..Len(up) : i <= k + 1 /\ (i \in 1..Len(stack) \/ i = Len(stack) + 1)
      BY <1>1, <2>2, <2>3
    <3>3. QED
      BY <2>2, <3>1, <3>2
  <2>7. Shape(up, k + 1, name, n + 1)
    BY <1>1, <1>4, <2>5, <2>6 DEF Shape, e
  <2>8. QED
    BY <2>1, <2>7
<1>8. CASE Normal(g)
  <2> DEFINE down == Append(stack, g)
  <2>1. Descend(stack, g) = down /\ e = d + 1
    BY <1>2, <1>8 DEF Descend, Normal
  <2>2. Len(down) = Len(stack) + 1 /\ down[Len(stack) + 1] # ".." /\ \A i \in 1..Len(stack) : down[i] = stack[i]
    <3>1. g # ".."
      BY <1>8 DEF Normal
    <3>2. g \in Segments
      BY <1>1
    <3> HIDE DEF g
    <3>3. /\ Len(down) = Len(stack) + 1 /\ down[Len(stack) + 1] = g
          /\ \A i \in 1..Len(stack) : down[i] = stack[i]
      BY <3>2, AppendOf
    <3> HIDE DEF down
    <3>4. QED
      BY <3>1, <3>3
  <2> HIDE DEF down, d, e
  <2>3. Len(stack) - (k + k) = d
    BY DEF Shape, d
  <2>4. (k = 0 => ~(e < 0)) /\ Len(down) - (k + k) = e /\ k \in 0..Len(down)
    BY <1>1, <2>1, <2>2, <2>3
  <2>5. \A i \in 1..Len(down) : i <= k <=> down[i] = ".."
    <3>1. \A i \in 1..Len(stack) : i <= k <=> stack[i] = ".."
      BY DEF Shape
    <3>2. \A i \in 1..Len(down) : i \in 1..Len(stack) \/ (i = Len(stack) + 1 /\ ~(i <= k))
      BY <1>1, <2>2
    <3>3. QED
      BY <2>2, <3>1, <3>2
  <2>6. Shape(down, k, name, n + 1)
    BY <1>1, <1>4, <2>4, <2>5 DEF Shape, e
  <2>7. QED
    BY <2>1, <2>6
<1>9. QED
  BY <1>1, <1>5, <1>6, <1>7, <1>8 DEF Normal, Segments

\* entryrules.go:194-199: a name whose cleaned form begins with ".." is one along
\* which some step is above the root, for names of any length.
LEMMA CleanFindsClimbs ==
  ASSUME NEW name \in Seq(Segments)
  PROVE  Escapes(name) <=> Climbs(name)
<1> DEFINE N == Len(name)
<1>1. PICK run \in [0..N -> Seq(Segments)] :
          /\ run[0] = <<>>
          /\ \A i \in 1..N : run[i] = Descend(run[i - 1], name[i])
          /\ Clean(name) = run[N]
  BY CleanRuns
<1> DEFINE S == {n \in 0..N : \E k : Shape(run[n], k, name, n)}
<1>2. 0 \in S
  <2>1. Shape(<<>>, 0, name, 0)
    BY DepthStep DEF Shape
  <2>2. QED
    BY <1>1, <2>1
<1>3. ASSUME NEW n \in 0..(N - 1), n \in S
      PROVE  n + 1 \in S
  <2>1. n + 1 \in 1..N /\ (n + 1) - 1 = n /\ run[n] \in Seq(Segments)
    OBVIOUS
  <2>2. run[n + 1] = Descend(run[n], name[n + 1])
    BY <1>1, <2>1
  <2>3. QED
    BY <1>3, <2>1, <2>2, ShapeStep
<1>4. PICK k : Shape(Clean(name), k, name, N)
  <2>1. N \in Nat
    OBVIOUS
  <2> HIDE DEF S
  <2>2. \A n \in 0..N : n \in S
    BY <1>2, <1>3, <2>1, IntervalInduction
  <2>3. N \in S
    BY <2>1, <2>2
  <2>4. QED
    BY <1>1, <2>3 DEF S
<1>5. Clean(name) \in Seq(Segments)
  BY <1>1
<1>6. Escapes(name) <=> k > 0
  BY <1>4, <1>5 DEF Escapes, Shape
<1>7. QED
  BY <1>4, <1>6 DEF Shape, Climbs

-----------------------------------------------------------------------------
\* The walk.

Entries == archive.entries

\* What the walk knows of the entries behind it while no cap has tripped.
Scanned ==
    /\ found.count <= MaxEntries
    /\ found.expanded <= MaxUncompressed \/ found.unreadable # {}
    /\ found.expanded <= MaxUncompressed + 1
    /\ \A i \in 1..found.count :
        /\ Unsafe(Entries[i]) => found.unsafe # {}
        /\ Entries[i].kind = "file" /\ ~IsManifest(Entries[i])
                /\ Entries[i].body # "sound" /\ ~Unsafe(Entries[i]) => found.unreadable # {}
        /\ IsManifest(Entries[i]) /\ ~Unsafe(Entries[i]) =>
                i <= found.manifest \/ found.unreadable # {}

Captured == found.manifest # 0 =>
    /\ found.manifest <= found.count
    /\ IsManifest(Entries[found.manifest])
    /\ Entries[found.manifest].size > MaxManifest \/ Entries[found.manifest].body = "sound"

\* Validate's findings, kept from the step that judged the archive on.
Accepted == verdict = "accepted" =>
    /\ found.limit = "none" /\ found.unsafe = {} /\ found.unreadable = {}
    /\ found.manifest # 0 /\ ManifestRules(Entries[found.manifest]) = {}
    /\ found.count = Len(Entries) /\ ~archive.cut /\ archive.opens

Inv ==
    /\ TypeOK
    /\ found.count <= Len(Entries)
    /\ found.expanded <= MaxUncompressed + MaxManifest + 2
    /\ found.limit = "none" => Scanned
    /\ Captured
    /\ phase # "open" => archive.opens \/ verdict = "corrupt"
    /\ phase \in {"walk", "validate"} => archive.opens
    /\ phase \in {"open", "walk"} => found.limit = "none"
    /\ phase = "validate" /\ found.limit = "none" => found.count = Len(Entries) /\ ~archive.cut
    /\ phase # "done" => verdict = "none"
    /\ Accepted

-----------------------------------------------------------------------------
\* The inspection begins with nothing found.
LEMMA InitInv == Init => Inv
  BY InspectionConstants
     DEF Init, Inv, TypeOK, Inspection, Rules, Scanned, Captured, Accepted, Entries

\* What TypeOK says of the entry about to be consumed.
LEMMA CurrentTyped ==
  ASSUME TypeOK, HasNext, found.count <= Len(Entries)
  PROVE  /\ At \in 1..Len(Entries) /\ At \in Nat \ {0}
         /\ Current = Entries[At] /\ Current \in Entry
         /\ Current.size \in Nat /\ Current.kind \in Kinds /\ Current.body \in Bodies
         /\ found.count \in Nat /\ found.expanded \in Nat /\ found.manifest \in Nat
         /\ found.unsafe \in SUBSET (Nat \ {0}) /\ found.unreadable \in SUBSET (Nat \ {0})
  <1>1. archive.entries \in Seq(Entry)
    BY DEF TypeOK, Archive
  <1>2. found \in Inspection
    BY DEF TypeOK
  <1>3. found.count \in Nat
    BY <1>2 DEF Inspection
  <1>4. At \in 1..Len(Entries)
    BY <1>1, <1>3 DEF HasNext, At, Entries
  <1>5. Current \in Entry
    BY <1>1, <1>4 DEF Current, Entries
  <1> QED
    BY <1>2, <1>3, <1>4, <1>5 DEF Entry, Inspection, Current, Entries

\* A consume that found nothing new, or an entry that already fails the archive.
LEMMA GoOnInv ==
  ASSUME Inv, Consumed, NEW f \in Inspection, NEW n \in 0..Current.size, GoOn(f, n),
         f.limit = "none", f.count = found.count,
         f.unsafe = found.unsafe \/ At \in f.unsafe,
         f.unreadable = found.unreadable \/ At \in f.unreadable,
         f.manifest = found.manifest
            \/ (f.manifest = At /\ IsManifest(Current)
                  /\ (Current.size > MaxManifest \/ Current.body = "sound")),
         f.expanded <= MaxUncompressed \/ f.unreadable # {},
         f.expanded <= MaxUncompressed + 1,
         Unsafe(Current) => At \in f.unsafe,
         Current.kind = "file" /\ ~IsManifest(Current) /\ Current.body # "sound"
            /\ ~Unsafe(Current) => At \in f.unreadable,
         IsManifest(Current) /\ ~Unsafe(Current) => f.manifest = At \/ At \in f.unreadable
  PROVE  Inv'
  <1>0. phase = "walk" /\ verdict = "none" /\ Scanned /\ found.limit = "none" /\ ~(At > MaxEntries)
    BY DEF Inv, Consumed, Opened, HasNext, OverEntries
  <1>1. /\ At \in 1..Len(Entries) /\ At \in Nat \ {0} /\ Current = Entries[At]
        /\ found.count \in Nat /\ found.manifest \in Nat
    BY CurrentTyped DEF Inv, Consumed, Opened
  <1>9. inflated' \in [read : Nat, skipped : Nat]
    <2>1. Current.size \in Nat /\ Rest(n) \in Nat
      BY CurrentTyped DEF Inv, Consumed, Opened, Rest
    <2>2. inflated.read + n \in Nat /\ inflated.skipped + Rest(n) \in Nat
      BY <2>1 DEF Inv, TypeOK
    <2> QED
      BY <2>2 DEF GoOn
  <1>2. /\ found' = [f EXCEPT !.count = At]
        /\ UNCHANGED <<archive, phase, failures, verdict>>
    BY DEF GoOn
  <1>3. /\ found'.count = At /\ found'.unsafe = f.unsafe /\ found'.unreadable = f.unreadable
        /\ found'.expanded = f.expanded /\ found'.limit = "none" /\ found'.manifest = f.manifest
        /\ found' \in Inspection
    BY <1>1, <1>2 DEF Inspection
  <1>4. Entries' = Entries
    BY <1>2 DEF Entries
  <1>5. TypeOK'
    BY <1>2, <1>3, <1>9 DEF Inv, TypeOK
  <1>6. Scanned'
    <2>1. found'.count <= MaxEntries
      BY <1>0, <1>1, <1>3, InspectionConstants
    <2>2. ASSUME NEW i \in 1..found'.count
          PROVE  /\ Unsafe(Entries[i]) => found'.unsafe # {}
                 /\ Entries[i].kind = "file" /\ ~IsManifest(Entries[i])
                      /\ Entries[i].body # "sound" /\ ~Unsafe(Entries[i]) => found'.unreadable # {}
                 /\ IsManifest(Entries[i]) /\ ~Unsafe(Entries[i]) =>
                      i <= found'.manifest \/ found'.unreadable # {}
      <3>1. CASE i = At
        BY <3>1, <1>1, <1>3
      <3>2. CASE i # At
        <4>1. i \in 1..found.count
          BY <3>2, <1>1, <1>3 DEF At
        <4>2. i <= At
          BY <4>1, <1>1 DEF At
        <4> QED
          BY <4>1, <4>2, <1>0, <1>1, <1>3 DEF Scanned
      <3> QED
        BY <3>1, <3>2
    <2> QED
      BY <2>1, <2>2, <1>3, <1>4, <1>2 DEF Scanned, Unsafe, IsManifest
  <1>7. Captured'
    <2>1. CASE f.manifest = found.manifest
      BY <2>1, <1>1, <1>2, <1>3, <1>4 DEF Inv, Captured, IsManifest, At
    <2>2. CASE f.manifest = At /\ IsManifest(Current)
                 /\ (Current.size > MaxManifest \/ Current.body = "sound")
      BY <2>2, <1>1, <1>2, <1>3, <1>4 DEF Captured, IsManifest
    <2> QED
      BY <2>1, <2>2
  <1>8. found'.count <= Len(Entries') /\ found'.expanded <= MaxUncompressed + MaxManifest + 2
    BY <1>1, <1>3, <1>4, InspectionConstants DEF Inspection
  <1> QED
    BY <1>0, <1>2, <1>3, <1>4, <1>5, <1>6, <1>7, <1>8 DEF Inv, Accepted

\* A consume that trips a cap.
LEMMA StopInv ==
  ASSUME Inv, Opened, NEW f \in Inspection, NEW cap \in {"entries", "uncompressed"},
         NEW n \in Nat, Stop(f, cap, n),
         f.manifest = found.manifest
            \/ (f.manifest = At /\ IsManifest(Current)
                  /\ (Current.size > MaxManifest \/ Current.body = "sound")),
         f.expanded <= MaxUncompressed + MaxManifest + 2
  PROVE  Inv'
  <1>0. phase = "walk" /\ verdict = "none"
    BY DEF Inv, Opened, HasNext
  <1>1. /\ At \in 1..Len(Entries) /\ At \in Nat \ {0} /\ Current = Entries[At]
        /\ found.count \in Nat /\ found.manifest \in Nat
    BY CurrentTyped DEF Inv, Opened
  <1>2. /\ found' = [f EXCEPT !.count = At, !.limit = cap]
        /\ phase' = "validate"
        /\ UNCHANGED <<archive, failures, verdict>>
    BY DEF Stop
  <1>9. inflated' \in [read : Nat, skipped : Nat]
    BY DEF Stop, Inv, TypeOK
  <1>3. /\ found'.count = At /\ found'.expanded = f.expanded /\ found'.limit = cap
        /\ found'.manifest = f.manifest /\ found' \in Inspection
    BY <1>1, <1>2 DEF Inspection
  <1>4. Entries' = Entries
    BY <1>2 DEF Entries
  <1>5. TypeOK'
    BY <1>2, <1>3, <1>9 DEF Inv, TypeOK
  <1>7. Captured'
    <2>1. CASE f.manifest = found.manifest
      BY <2>1, <1>1, <1>2, <1>3, <1>4 DEF Inv, Captured, IsManifest, At
    <2>2. CASE f.manifest = At /\ IsManifest(Current)
                 /\ (Current.size > MaxManifest \/ Current.body = "sound")
      BY <2>2, <1>1, <1>2, <1>3, <1>4 DEF Captured, IsManifest
    <2> QED
      BY <2>1, <2>2
  <1> QED
    BY <1>0, <1>1, <1>2, <1>3, <1>4, <1>5, <1>7 DEF Inv, Accepted

\* Of a link no more is read than there is, and than a target may be long.
LEMMA LinkReadTyped ==
  ASSUME TypeOK, HasNext, found.count <= Len(Entries)
  PROVE  /\ LinkRead \in Nat /\ LinkRead \in 0..Current.size
         /\ LinkRead <= MaxLinkTarget
  BY CurrentTyped, InspectionConstants DEF LinkRead, Least

LEMMA LinkReadOpened ==
  ASSUME Inv, Opened
  PROVE  /\ LinkRead \in Nat /\ LinkRead \in 0..Current.size
         /\ LinkRead <= MaxLinkTarget
  BY LinkReadTyped DEF Inv, Opened

-----------------------------------------------------------------------------
\* Every step keeps the invariant.
LEMMA NextInv == Inv /\ [Next]_vars => Inv'
  <1> SUFFICES ASSUME Inv, [Next]_vars PROVE Inv'
    OBVIOUS
  <1> USE InspectionConstants
  <1>t. found \in Inspection /\ archive.entries \in Seq(Entry)
    BY DEF Inv, TypeOK, Archive
  <1>1. CASE Open
    <2>1. /\ phase = "open" /\ archive.opens /\ phase' = "walk"
          /\ UNCHANGED <<archive, found, inflated, failures, verdict>>
      BY <1>1 DEF Open
    <2>2. Scanned' = Scanned /\ Captured' = Captured
      BY <2>1 DEF Scanned, Captured, Entries, Unsafe, IsManifest
    <2>3. found.limit = "none" /\ verdict = "none"
      BY <2>1 DEF Inv
    <2> QED
      BY <2>1, <2>2, <2>3 DEF Inv, TypeOK, Entries, Accepted
  <1>2. ASSUME Corrupt PROVE Inv'
    BY <1>2 DEF Corrupt, Judged, Inv, TypeOK, Entries, Scanned, Captured, Accepted, Unsafe,
                IsManifest
  <1>3. CASE OpenFails
    BY <1>3, <1>2 DEF OpenFails
  <1>4. CASE MemberClosed
    BY <1>4, <1>2 DEF MemberClosed
  <1>5. CASE StreamCut
    BY <1>5, <1>2 DEF StreamCut
  <1>6. CASE WalkEnds
    BY <1>6 DEF WalkEnds, Inv, TypeOK, Entries, Scanned, Captured, Accepted, Unsafe, IsManifest
  <1>7. CASE TooManyEntries
    <2>1. /\ Stop(found, "entries", LinkRead) /\ Opened /\ found.manifest = found.manifest
          /\ LinkRead \in Nat
      BY <1>7, LinkReadOpened DEF TooManyEntries
    <2>2. found.expanded <= MaxUncompressed + MaxManifest + 2
      BY DEF Inv
    <2> QED
      BY <2>1, <2>2, <1>t, StopInv
  <1>8. ASSUME Consumed
        PROVE  /\ Opened /\ Scanned /\ found.limit = "none"
               /\ At \in Nat \ {0} /\ Current.size \in Nat /\ Current.kind \in Kinds
               /\ Current.body \in Bodies
               /\ found.expanded \in Nat /\ found.expanded <= MaxUncompressed + 1
               /\ found.expanded <= MaxUncompressed \/ found.unreadable # {}
               /\ Current.kind = "file" => Current.body # "closed"
    BY <1>8, CurrentTyped DEF Consumed, Opened, HasNext, Inv, Scanned
  <1>9. CASE SkipUnsafe
    <2> DEFINE f == [found EXCEPT !.unsafe = @ \cup {At}]
    <2>1. Consumed /\ Unsafe(Current) /\ GoOn(f, LinkRead) /\ LinkRead \in 0..Current.size
      BY <1>9, LinkReadOpened DEF SkipUnsafe, Consumed
    <2>2. /\ f \in Inspection /\ f.limit = "none" /\ f.count = found.count
          /\ At \in f.unsafe /\ f.unreadable = found.unreadable
          /\ f.manifest = found.manifest /\ f.expanded = found.expanded
      BY <1>t, <1>8, <2>1 DEF Inspection
    <2> HIDE DEF f
    <2> QED
      BY <2>1, <2>2, <1>8, GoOnInv
  <1>10. CASE SkipDirectory
    <2>1. /\ Consumed /\ ~Unsafe(Current) /\ Current.kind = "dir" /\ GoOn(found, 0)
          /\ 0 \in 0..Current.size
      BY <1>10, <1>8 DEF SkipDirectory
    <2>2. ~IsManifest(Current)
      BY <2>1 DEF IsManifest
    <2> QED
      BY <2>1, <2>2, <1>8, <1>t, GoOnInv
  <1>11. CASE ManifestBreaks
    <2> DEFINE f == [found EXCEPT !.unreadable = @ \cup {At}]
    <2>1. /\ Consumed /\ ~Unsafe(Current) /\ IsManifest(Current) /\ GoOn(f, Current.size)
          /\ Current.size \in 0..Current.size
      BY <1>11, <1>8 DEF ManifestBreaks
    <2>2. /\ f \in Inspection /\ f.limit = "none" /\ f.count = found.count
          /\ f.unsafe = found.unsafe /\ At \in f.unreadable
          /\ f.manifest = found.manifest /\ f.expanded = found.expanded
      BY <1>t, <1>8, <2>1 DEF Inspection
    <2> HIDE DEF f
    <2> QED
      BY <2>1, <2>2, <1>8, GoOnInv
  <1>12. CASE ReadManifest
    <2> DEFINE n == Least(Current.size, MaxManifest + 1)
               total == found.expanded + n
               f == [found EXCEPT !.manifest = At, !.expanded = total]
    <2>1. /\ Consumed /\ ~Unsafe(Current) /\ IsManifest(Current)
          /\ Reads(Current, MaxManifest + 1) /\ Checked(f, n)
      BY <1>12 DEF ReadManifest
    <2>2. n \in 0..(MaxManifest + 1) /\ n \in 0..Current.size /\ n \in Nat
      BY <1>8, <2>1 DEF Least
    <2> HIDE DEF n
    <2>9. total \in Nat /\ total = found.expanded + n
      BY <1>8, <2>1, <2>2
    <2> HIDE DEF total
    <2>3. /\ f \in Inspection /\ f.limit = "none" /\ f.count = found.count
          /\ f.unsafe = found.unsafe /\ f.unreadable = found.unreadable /\ f.manifest = At
          /\ f.expanded = total
      BY <1>t, <1>8, <2>1, <2>2, <2>9 DEF Inspection
    <2>7. f.expanded \in Nat /\ f.expanded <= MaxUncompressed + MaxManifest + 2
      <3> HIDE DEF f
      <3> QED
        BY <1>8, <2>1, <2>2, <2>3, <2>9
    <2>4. Current.size > MaxManifest \/ Current.body = "sound"
      BY <1>8, <2>1 DEF Reads
    <2> HIDE DEF f
    <2>5. CASE f.expanded > MaxUncompressed
      BY <2>1, <2>2, <2>3, <2>4, <2>5, <2>7, <1>8, StopInv DEF Checked
    <2>6. CASE ~(f.expanded > MaxUncompressed)
      <3>1. GoOn(f, n) /\ f.expanded <= MaxUncompressed /\ f.expanded <= MaxUncompressed + 1
        BY <2>1, <2>6, <2>7 DEF Checked
      <3> QED
        BY <2>1, <2>2, <2>3, <2>4, <3>1, <1>8, GoOnInv
    <2> QED
      BY <2>5, <2>6
  <1>13. CASE FileBreaks
    <2> DEFINE n == Current.size
               total == found.expanded + n
               f == [found EXCEPT !.unreadable = @ \cup {At}, !.expanded = total]
    <2>1. /\ Consumed /\ ~Unsafe(Current) /\ ~IsManifest(Current) /\ GoOn(f, n)
          /\ n <= Remaining /\ n \in Nat /\ n \in 0..Current.size
      BY <1>13, <1>8 DEF FileBreaks, Breaks
    <2> HIDE DEF n
    <2>9. total \in Nat /\ total = found.expanded + n
      BY <1>8, <2>1
    <2> HIDE DEF total
    <2>2. /\ f \in Inspection /\ f.limit = "none" /\ f.count = found.count
          /\ f.unsafe = found.unsafe /\ At \in f.unreadable
          /\ f.manifest = found.manifest /\ f.expanded = total
      BY <1>t, <1>8, <2>1, <2>9 DEF Inspection
    <2> HIDE DEF f
    <2>3. f.expanded <= MaxUncompressed + 1
      BY <1>8, <2>1, <2>2, <2>9 DEF Remaining
    <2> QED
      BY <2>1, <2>2, <2>3, <1>8, GoOnInv
  <1>14. CASE ReadFile
    <2> DEFINE n == Least(Current.size, Remaining)
               total == found.expanded + n
               f == [found EXCEPT !.expanded = total]
    <2>1. /\ Consumed /\ ~Unsafe(Current) /\ Current.kind = "file" /\ ~IsManifest(Current)
          /\ Reads(Current, Remaining) /\ Checked(f, n)
      BY <1>14 DEF ReadFile
    <2>2. /\ Remaining \in Nat /\ found.expanded + Remaining = MaxUncompressed + 1
          /\ n \in 0..Remaining /\ n \in Nat /\ n \in 0..Current.size
          /\ Current.body # "sound" => n = Remaining
      BY <1>8, <2>1 DEF Least, Remaining, Reads
    <2> HIDE DEF n
    <2>9. total \in Nat /\ total = found.expanded + n
      BY <1>8, <2>1, <2>2
    <2> HIDE DEF total
    <2>3. /\ f \in Inspection /\ f.limit = "none" /\ f.count = found.count
          /\ f.unsafe = found.unsafe /\ f.unreadable = found.unreadable
          /\ f.manifest = found.manifest
          /\ f.expanded = total
      BY <1>t, <1>8, <2>1, <2>2, <2>9 DEF Inspection
    <2> HIDE DEF f
    <2>6. /\ f.expanded \in Nat /\ f.expanded <= MaxUncompressed + 1
          /\ Current.body # "sound" => f.expanded = MaxUncompressed + 1
      BY <1>8, <2>1, <2>2, <2>3, <2>9
    <2>4. CASE f.expanded > MaxUncompressed
      <3>1. Stop(f, "uncompressed", n) /\ f.expanded <= MaxUncompressed + MaxManifest + 2
        BY <2>1, <2>3, <2>4, <2>6 DEF Checked
      <3> QED
        BY <2>1, <2>2, <2>3, <3>1, <1>8, StopInv
    <2>5. CASE ~(f.expanded > MaxUncompressed)
      <3>1. GoOn(f, n) /\ f.expanded <= MaxUncompressed /\ Current.body = "sound"
        BY <2>1, <2>3, <2>5, <2>6 DEF Checked
      <3> QED
        BY <2>1, <2>2, <2>3, <2>6, <3>1, <1>8, GoOnInv
    <2> QED
      BY <2>4, <2>5
  <1>15. CASE Validate
    <2>1. /\ phase = "validate" /\ phase' = "done" /\ failures' = Failures
          /\ verdict' = IF Failures = {} THEN "accepted" ELSE "rejected"
          /\ UNCHANGED <<archive, found, inflated>> /\ Entries' = Entries
      BY <1>15 DEF Validate, Judged, Entries
    <2>2. Failures \subseteq Rules
      BY DEF Failures, ManifestRules, Rules
    <2>3. Failures = {} =>
            /\ found.limit = "none" /\ found.unsafe = {} /\ found.unreadable = {}
            /\ found.manifest # 0 /\ ManifestRules(Entries[found.manifest]) = {}
      BY DEF Failures, Entries
    <2>4. Accepted'
      BY <2>1, <2>3 DEF Inv, Accepted, ManifestRules
    <2> QED
      BY <2>1, <2>2, <2>4 DEF Inv, TypeOK, Scanned, Captured, Unsafe, IsManifest
  <1>16. CASE UNCHANGED vars
    BY <1>16 DEF vars, Inv, TypeOK, Entries, Scanned, Captured, Accepted, Unsafe, IsManifest,
                 ManifestRules
  <1> QED
    BY <1>1, <1>3, <1>4, <1>5, <1>6, <1>7, <1>9, <1>10, <1>11, <1>12, <1>13, <1>14, <1>15, <1>16
       DEF Next

\* The invariant of the inspection.
THEOREM InspectionInvariant == Spec => []Inv
  BY InitInv, NextInv, PTL DEF Spec

\* The inspection under way is an Inspection and its report a set of rules
\* (archive.go:20-58, validation.go:24-101).
THEOREM InspectionTypeCorrect == Spec => []TypeOK
  BY InspectionInvariant, PTL DEF Inv

-----------------------------------------------------------------------------
\* What a consume makes of the findings.
LEMMA GoesOn ==
  ASSUME found \in Inspection, NEW f \in Inspection, NEW n, GoOn(f, n)
  PROVE  /\ archive' = archive /\ phase' = phase /\ verdict' = verdict /\ failures' = failures
         /\ found'.count = At /\ found'.unsafe = f.unsafe /\ found'.unreadable = f.unreadable
         /\ found'.expanded = f.expanded /\ found'.limit = f.limit
  BY DEF GoOn, Inspection

LEMMA Stops ==
  ASSUME found \in Inspection, NEW f \in Inspection, NEW cap, NEW n, Stop(f, cap, n)
  PROVE  /\ archive' = archive /\ phase' = "validate" /\ verdict' = verdict
         /\ found'.count = At /\ found'.unsafe = f.unsafe /\ found'.unreadable = f.unreadable
         /\ found'.expanded = f.expanded /\ found'.limit = cap
  BY DEF Stop, Inspection

LEMMA Checks ==
  ASSUME found \in Inspection, NEW f \in Inspection, NEW n, Checked(f, n), f.limit = "none"
  PROVE  /\ archive' = archive /\ phase' \in {phase, "validate"} /\ verdict' = verdict
         /\ found'.count = At /\ found'.unsafe = f.unsafe /\ found'.unreadable = f.unreadable
         /\ found'.expanded = f.expanded
         /\ \/ found'.limit = "uncompressed" /\ f.expanded > MaxUncompressed
            \/ found'.limit = "none" /\ ~(f.expanded > MaxUncompressed)
  BY GoesOn, Stops DEF Checked

\* What has been read is in the sum, or is of an entry that broke or was skipped.
ReadInv ==
    /\ inflated.read <= found.expanded + (MaxManifest + 1) * Cardinality(found.unreadable)
                          + MaxLinkTarget * Cardinality(LinksOnly)
    /\ found.unreadable \subseteq 1..found.count /\ found.unreadable \subseteq 1..MaxEntries
    /\ found.unsafe \subseteq 1..found.count /\ found.unsafe \subseteq 1..MaxEntries
    /\ found.count <= MaxEntries + 1 /\ LinksOnly \subseteq 1..(MaxEntries + 1)

\* Sets of positions are finite.
LEMMA InitialsAreFinite ==
  ASSUME NEW n \in Nat, NEW P \in SUBSET (1..n)
  PROVE  IsFiniteSet(P)
  <1>1. 1 \in Int /\ n \in Int
    OBVIOUS
  <1>2. IsFiniteSet(1..n)
    BY <1>1, FS_Interval
  <1> QED
    BY <1>2, FS_Subset

\* One more to pay for.
LEMMA OneMore ==
  ASSUME NEW m \in Nat, NEW c \in Nat
  PROVE  m * c \in Nat /\ m * (c + 1) = m * c + m
  OBVIOUS

\* The bytes a consumed entry may be charged with.
Charged(n) ==
    \/ /\ found'.expanded = found.expanded + n /\ found'.limit # "entries"
       /\ found'.unreadable \in {found.unreadable, found.unreadable \cup {At}}
       /\ found'.unsafe = found.unsafe
    \/ /\ found'.expanded = found.expanded /\ found'.limit = "none" /\ n <= MaxManifest + 1
       /\ found'.unreadable = found.unreadable \cup {At} /\ found'.unsafe = found.unsafe
    \/ /\ found'.expanded = found.expanded /\ found'.limit = "none" /\ n <= MaxLinkTarget
       /\ found'.unreadable = found.unreadable /\ found'.unsafe = found.unsafe \cup {At}
    \/ /\ found'.expanded = found.expanded /\ found'.limit = "entries" /\ n <= MaxLinkTarget
       /\ found'.unreadable = found.unreadable /\ found'.unsafe = found.unsafe

\* Whatever it is charged with, the sum covers it.
LEMMA ChargeStep ==
  ASSUME Inv, ReadInv, Opened, NEW n \in Nat, inflated'.read = inflated.read + n,
         found'.count = At, Charged(n), OverEntries => found'.limit = "entries"
  PROVE  ReadInv'
  <1> USE InspectionConstants
  <1>1. /\ At = found.count + 1 /\ found.count \in Nat /\ found.expanded \in Nat
        /\ found.limit = "none" /\ found.count <= MaxEntries /\ inflated.read \in Nat
    BY CurrentTyped DEF Opened, HasNext, Inv, At, Scanned, TypeOK
  <1> DEFINE U == found.unreadable
             S == found.unsafe
             u == Cardinality(U)
             l == Cardinality(S)
             M == MaxManifest + 1
             L == MaxLinkTarget
  <1>2. /\ U \subseteq 1..found.count /\ S \subseteq 1..found.count
        /\ At \notin U /\ At \notin S
    BY <1>1 DEF ReadInv
  <1>3. IsFiniteSet(U) /\ IsFiniteSet(S)
    BY <1>1, <1>2, InitialsAreFinite
  <1>4. /\ u \in Nat /\ l \in Nat
        /\ Cardinality(U \cup {At}) = u + 1 /\ Cardinality(S \cup {At}) = l + 1
    BY <1>2, <1>3, FS_AddElement, FS_CardinalityType
  <1>5. LinksOnly = S
    BY <1>1 DEF LinksOnly
  <1>6. LinksOnly' = IF found'.limit = "entries" THEN found'.unsafe \cup {At} ELSE found'.unsafe
    BY DEF LinksOnly
  <1>7. /\ found'.count <= MaxEntries + 1 /\ 1..found.count \subseteq 1..At
        /\ ~OverEntries => At \in 1..MaxEntries
        /\ At \in 1..At /\ At \in 1..(MaxEntries + 1)
    BY <1>1 DEF OverEntries
  <1>8. /\ found'.unreadable \subseteq 1..At /\ found'.unreadable \subseteq 1..MaxEntries
        /\ found'.unsafe \subseteq 1..At /\ found'.unsafe \subseteq 1..MaxEntries
    BY <1>2, <1>7 DEF Charged, ReadInv
  <1>9. inflated.read <= found.expanded + M * u + L * l
    BY <1>5 DEF ReadInv
  <1>10. /\ M * u \in Nat /\ M * (u + 1) = M * u + M /\ M \in Nat
         /\ L * l \in Nat /\ L * (l + 1) = L * l + L /\ L \in Nat
    <2>1. M \in Nat /\ L \in Nat
      OBVIOUS
    <2> HIDE DEF M, L, u, l
    <2> QED
      BY <1>4, <2>1, OneMore
  <1>11. inflated'.read <= found'.expanded + M * Cardinality(found'.unreadable)
                             + L * Cardinality(LinksOnly')
    <2>1. /\ Cardinality(found'.unreadable) = u \/ Cardinality(found'.unreadable) = u + 1
          /\ Cardinality(LinksOnly') = l \/ Cardinality(LinksOnly') = l + 1
      BY <1>4, <1>6 DEF Charged
    <2>2. /\ M * u <= M * Cardinality(found'.unreadable)
          /\ L * l <= L * Cardinality(LinksOnly')
          /\ M * Cardinality(found'.unreadable) \in Nat /\ L * Cardinality(LinksOnly') \in Nat
      <3> HIDE DEF M, L, u, l
      <3> QED
        BY <1>10, <2>1
    <2>3. CASE found'.expanded = found.expanded + n
      <3> DEFINE a == M * u
                 b == L * l
                 c == M * Cardinality(found'.unreadable)
                 d == L * Cardinality(LinksOnly')
      <3>1. a \in Nat /\ b \in Nat /\ c \in Nat /\ d \in Nat /\ a <= c /\ b <= d
        BY <1>10, <2>2
      <3>2. inflated.read <= found.expanded + a + b
        BY <1>9
      <3> HIDE DEF a, b, c, d
      <3>3. inflated'.read <= found'.expanded + c + d
        BY <1>1, <2>3, <3>1, <3>2
      <3> QED
        BY <3>3 DEF c, d
    <2>4. CASE found'.unreadable = U \cup {At} /\ n <= M /\ found'.expanded = found.expanded
      <3> DEFINE a == M * u
                 b == L * l
                 c == M * Cardinality(found'.unreadable)
                 d == L * Cardinality(LinksOnly')
      <3>1. a \in Nat /\ b \in Nat /\ c = a + M /\ d \in Nat /\ b <= d /\ M \in Nat
        BY <1>4, <1>10, <2>2, <2>4
      <3>2. inflated.read <= found.expanded + a + b
        BY <1>9
      <3> HIDE DEF a, b, c, d, M
      <3>3. inflated'.read <= found'.expanded + c + d
        BY <1>1, <2>4, <3>1, <3>2
      <3> QED
        BY <3>3 DEF c, d
    <2>5. CASE LinksOnly' = S \cup {At} /\ n <= L /\ found'.expanded = found.expanded
      <3> DEFINE a == M * u
                 b == L * l
                 c == M * Cardinality(found'.unreadable)
                 d == L * Cardinality(LinksOnly')
      <3>1. a \in Nat /\ b \in Nat /\ c \in Nat /\ d = b + L /\ a <= c /\ L \in Nat
        BY <1>4, <1>10, <2>2, <2>5
      <3>2. inflated.read <= found.expanded + a + b
        BY <1>9
      <3> HIDE DEF a, b, c, d, L
      <3>3. inflated'.read <= found'.expanded + c + d
        BY <1>1, <2>5, <3>1, <3>2
      <3> QED
        BY <3>3 DEF c, d
    <2> QED
      BY <2>3, <2>4, <2>5, <1>6 DEF Charged
  <1>12. LinksOnly' \subseteq 1..(MaxEntries + 1)
    <2>1. 1..MaxEntries \subseteq 1..(MaxEntries + 1)
      OBVIOUS
    <2> QED
      BY <1>6, <1>7, <1>8, <2>1
  <1> QED
    BY <1>7, <1>8, <1>11, <1>12 DEF ReadInv

\* What consume is charged with, step by step.
LEMMA ReadStep ==
  ASSUME Inv, ReadInv, [Next]_vars
  PROVE  ReadInv'
  <1> USE InspectionConstants
  <1>1. found \in Inspection
    BY DEF Inv, TypeOK
  <1>2. ASSUME Opened
        PROVE  /\ At \in Nat \ {0} /\ Current.size \in Nat /\ found.expanded \in Nat
               /\ found.limit = "none" /\ found.expanded <= MaxUncompressed + 1
               /\ inflated \in [read : Nat, skipped : Nat]
    <2>1. At \in Nat \ {0} /\ Current.size \in Nat /\ found.expanded \in Nat
      BY <1>2, CurrentTyped DEF Opened, Inv
    <2> QED
      BY <1>2, <2>1 DEF Opened, HasNext, Inv, Scanned, TypeOK
  <1>3. CASE \/ Open \/ WalkEnds \/ OpenFails \/ MemberClosed \/ StreamCut \/ Validate
             \/ UNCHANGED vars
    <2>1. found' = found /\ inflated' = inflated
      BY <1>3 DEF Open, WalkEnds, OpenFails, MemberClosed, StreamCut, Corrupt, Validate, vars
    <2> QED
      BY <2>1 DEF ReadInv, LinksOnly
  <1>4. CASE TooManyEntries
    <2> DEFINE n == LinkRead
    <2>1. /\ Opened /\ Stop(found, "entries", n)
          /\ n \in Nat /\ n <= MaxLinkTarget
      BY <1>4, LinkReadOpened DEF TooManyEntries
    <2> HIDE DEF n
    <2>2. inflated'.read = inflated.read + n /\ found'.count = At /\ found'.limit = "entries"
      BY <2>1, <1>1, <1>2 DEF Stop, Inspection
    <2>3. Charged(n)
      BY <2>1, <1>1, Stops DEF Charged
    <2> QED
      BY <2>1, <2>2, <2>3, ChargeStep
  <1>5. CASE SkipUnsafe
    <2> DEFINE n == LinkRead
               f == [found EXCEPT !.unsafe = @ \cup {At}]
    <2>1. /\ Opened /\ ~OverEntries /\ GoOn(f, n)
          /\ n \in Nat /\ n <= MaxLinkTarget
      BY <1>5, LinkReadOpened DEF SkipUnsafe, Consumed
    <2> HIDE DEF n
    <2>2. /\ f \in Inspection /\ f.unsafe = found.unsafe \cup {At} /\ f.limit = "none"
          /\ f.unreadable = found.unreadable /\ f.expanded = found.expanded
      BY <1>1, <1>2, <2>1 DEF Inspection
    <2> HIDE DEF f
    <2>3. inflated'.read = inflated.read + n
      BY <2>1, <1>2 DEF GoOn
    <2>4. Charged(n) /\ found'.count = At
      BY <2>1, <2>2, <1>1, GoesOn DEF Charged
    <2> QED
      BY <2>1, <2>3, <2>4, ChargeStep
  <1>6. CASE SkipDirectory
    <2>1. Opened /\ ~OverEntries /\ GoOn(found, 0)
      BY <1>6 DEF SkipDirectory, Consumed
    <2>2. inflated'.read = inflated.read + 0
      BY <2>1, <1>2 DEF GoOn
    <2>3. Charged(0) /\ found'.count = At
      BY <2>1, <1>1, <1>2, GoesOn DEF Charged
    <2> QED
      BY <2>1, <2>2, <2>3, ChargeStep
  <1>7. CASE ManifestBreaks
    <2> DEFINE n == Current.size
               f == [found EXCEPT !.unreadable = @ \cup {At}]
    <2>1. Opened /\ ~OverEntries /\ GoOn(f, n) /\ n \in Nat /\ n <= MaxManifest + 1
      BY <1>7, <1>2 DEF ManifestBreaks, Consumed, Breaks
    <2> HIDE DEF n
    <2>2. /\ f \in Inspection /\ f.unsafe = found.unsafe /\ f.limit = "none"
          /\ f.unreadable = found.unreadable \cup {At} /\ f.expanded = found.expanded
      BY <1>1, <1>2, <2>1 DEF Inspection
    <2> HIDE DEF f
    <2>3. inflated'.read = inflated.read + n
      BY <2>1, <1>2 DEF GoOn
    <2>4. Charged(n) /\ found'.count = At
      BY <2>1, <2>2, <1>1, GoesOn DEF Charged
    <2> QED
      BY <2>1, <2>3, <2>4, ChargeStep
  <1>8. CASE ReadManifest
    <2> DEFINE n == Least(Current.size, MaxManifest + 1)
               total == found.expanded + n
               f == [found EXCEPT !.manifest = At, !.expanded = total]
    <2>1. Opened /\ ~OverEntries /\ Checked(f, n) /\ n \in Nat
      BY <1>8, <1>2 DEF ReadManifest, Consumed, Least
    <2> HIDE DEF n
    <2>2. total \in Nat /\ total = found.expanded + n
      BY <1>2, <2>1
    <2> HIDE DEF total
    <2>3. /\ f \in Inspection /\ f.unsafe = found.unsafe /\ f.unreadable = found.unreadable
          /\ f.expanded = total /\ f.limit = "none"
      BY <1>1, <1>2, <2>1, <2>2 DEF Inspection
    <2> HIDE DEF f
    <2>4. inflated'.read = inflated.read + n
      BY <2>1, <1>2 DEF Checked, GoOn, Stop
    <2>5. Charged(n) /\ found'.count = At
      BY <2>1, <2>2, <2>3, <1>1, Checks DEF Charged
    <2> QED
      BY <2>1, <2>4, <2>5, ChargeStep
  <1>9. CASE FileBreaks
    <2> DEFINE n == Current.size
               total == found.expanded + n
               f == [found EXCEPT !.unreadable = @ \cup {At}, !.expanded = total]
    <2>1. Opened /\ ~OverEntries /\ GoOn(f, n) /\ n \in Nat
      BY <1>9, <1>2 DEF FileBreaks, Consumed
    <2> HIDE DEF n
    <2>2. total \in Nat /\ total = found.expanded + n
      BY <1>2, <2>1
    <2> HIDE DEF total
    <2>3. /\ f \in Inspection /\ f.unsafe = found.unsafe /\ f.limit = "none"
          /\ f.unreadable = found.unreadable \cup {At} /\ f.expanded = total
      BY <1>1, <1>2, <2>1, <2>2 DEF Inspection
    <2> HIDE DEF f
    <2>4. inflated'.read = inflated.read + n
      BY <2>1, <1>2 DEF GoOn
    <2>5. Charged(n) /\ found'.count = At
      BY <2>1, <2>2, <2>3, <1>1, GoesOn DEF Charged
    <2> QED
      BY <2>1, <2>4, <2>5, ChargeStep
  <1>10. CASE ReadFile
    <2> DEFINE n == Least(Current.size, Remaining)
               total == found.expanded + n
               f == [found EXCEPT !.expanded = total]
    <2>1. Opened /\ ~OverEntries /\ Checked(f, n) /\ n \in Nat
      BY <1>10, <1>2 DEF ReadFile, Consumed, Least, Remaining
    <2> HIDE DEF n
    <2>2. total \in Nat /\ total = found.expanded + n
      BY <1>2, <2>1
    <2> HIDE DEF total
    <2>3. /\ f \in Inspection /\ f.unsafe = found.unsafe /\ f.unreadable = found.unreadable
          /\ f.expanded = total /\ f.limit = "none"
      BY <1>1, <1>2, <2>1, <2>2 DEF Inspection
    <2> HIDE DEF f
    <2>4. inflated'.read = inflated.read + n
      BY <2>1, <1>2 DEF Checked, GoOn, Stop
    <2>5. Charged(n) /\ found'.count = At
      BY <2>1, <2>2, <2>3, <1>1, Checks DEF Charged
    <2> QED
      BY <2>1, <2>4, <2>5, ChargeStep
  <1> QED
    BY <1>3, <1>4, <1>5, <1>6, <1>7, <1>8, <1>9, <1>10 DEF Next

LEMMA ReadInvariance == Spec => []ReadInv
  <1>1. Init => ReadInv
    <2> SUFFICES ASSUME Init PROVE ReadInv
      OBVIOUS
    <2>1. /\ inflated.read = 0 /\ found.count = 0 /\ found.expanded = 0
          /\ found.unsafe = {} /\ found.unreadable = {} /\ LinksOnly = {}
      BY DEF Init, LinksOnly
    <2>2. MaxManifest + 1 \in Nat /\ MaxLinkTarget \in Nat /\ MaxEntries \in Nat
      BY InspectionConstants
    <2> QED
      BY <2>1, <2>2, FS_EmptySet DEF ReadInv
  <1> QED
    BY <1>1, ReadStep, InspectionInvariant, PTL DEF Spec

\* A body is left unread by consume only when its entry is unsafe or an apm.yml over its
\* limit: any other is read to its end, or ends the walk.
LEMMA SkippedStep ==
  ASSUME Inv, SkippedForAReason, [Next]_vars
  PROVE  SkippedForAReason'
  <1> USE InspectionConstants
  <1> DEFINE Reason == /\ archive.format = "targz"
                       /\ \/ found.unsafe # {}
                          \/ \E i \in 1..found.count : /\ IsManifest(archive.entries[i])
                                                       /\ archive.entries[i].size > MaxManifest + 1
  <1>1. found \in Inspection /\ inflated \in [read : Nat, skipped : Nat] /\ archive \in Archive
    BY DEF Inv, TypeOK
  <1>2. ASSUME Opened
        PROVE  /\ At \in Nat \ {0} /\ Current.size \in Nat /\ found.expanded \in Nat
               /\ found.count \in Nat /\ At = found.count + 1 /\ At \in DOMAIN archive.entries
               /\ found.expanded <= MaxUncompressed + 1 /\ found.limit = "none"
    <2>1. At \in Nat \ {0} /\ Current.size \in Nat /\ found.expanded \in Nat
      BY <1>2, CurrentTyped DEF Opened, Inv
    <2> QED
      BY <1>1, <1>2, <2>1 DEF Opened, HasNext, Inv, Scanned, TypeOK, At, Inspection, Archive
  <1>3. SUFFICES /\ inflated'.skipped = inflated.skipped \/ Reason'
                 /\ archive' = archive /\ found.unsafe \subseteq found'.unsafe
                 /\ 1..found.count \subseteq 1..found'.count
    <2>1. Reason => Reason'
      BY <1>3
    <2> QED
      BY <1>3, <2>1 DEF SkippedForAReason
  <1>4. CASE \/ Open \/ WalkEnds \/ OpenFails \/ MemberClosed \/ StreamCut \/ Validate
             \/ UNCHANGED vars
    BY <1>4 DEF Open, WalkEnds, OpenFails, MemberClosed, StreamCut, Corrupt, Validate, vars
  <1>5. ASSUME Opened
        PROVE  1..found.count \subseteq 1..At
    BY <1>2, <1>5
  <1>6. CASE TooManyEntries
    BY <1>1, <1>5, <1>6 DEF TooManyEntries, Stop, Inspection
  <1>7. CASE SkipUnsafe
    <2>1. /\ Opened /\ archive' = archive /\ found'.count = At
          /\ found'.unsafe = found.unsafe \cup {At}
          /\ inflated'.skipped = inflated.skipped + Rest(LinkRead)
      BY <1>1, <1>7 DEF SkipUnsafe, Consumed, GoOn, Inspection
    <2>2. CASE archive.format = "targz"
      BY <1>5, <2>1, <2>2
    <2>3. CASE archive.format # "targz"
      BY <1>1, <1>5, <2>1, <2>3 DEF Rest
    <2> QED
      BY <2>2, <2>3
  <1>8. CASE SkipDirectory
    <2>1. /\ Opened /\ archive' = archive /\ found'.count = At /\ found'.unsafe = found.unsafe
          /\ inflated'.skipped = inflated.skipped + Rest(0) /\ Current.kind = "dir"
      BY <1>1, <1>8 DEF SkipDirectory, Consumed, GoOn, Inspection
    <2>2. archive.format = "targz" => Current.size = 0
      BY <1>1, <1>2, <2>1 DEF Archive, Current
    <2>3. Rest(0) = 0
      BY <2>2 DEF Rest
    <2> QED
      BY <1>1, <1>5, <2>1, <2>3
  <1>9. ASSUME NEW f \in Inspection, Opened, f.unsafe = found.unsafe, GoOn(f, Current.size)
        PROVE  /\ inflated'.skipped = inflated.skipped /\ archive' = archive
               /\ found.unsafe \subseteq found'.unsafe /\ 1..found.count \subseteq 1..found'.count
    <2>1. archive' = archive /\ found'.count = At /\ found'.unsafe = found.unsafe
      BY <1>1, <1>9, GoesOn
    <2>2. inflated'.skipped = inflated.skipped + Rest(Current.size)
      BY <1>9 DEF GoOn
    <2>3. Rest(Current.size) = 0
      BY <1>2, <1>9 DEF Rest
    <2> QED
      BY <1>1, <1>5, <1>9, <2>1, <2>2, <2>3
  <1>10. CASE ManifestBreaks
    <2> DEFINE f == [found EXCEPT !.unreadable = @ \cup {At}]
    <2>1. Opened /\ GoOn(f, Current.size)
      BY <1>10 DEF ManifestBreaks, Consumed
    <2>2. f \in Inspection /\ f.unsafe = found.unsafe
      BY <1>1, <1>2, <2>1 DEF Inspection
    <2> HIDE DEF f
    <2> QED
      BY <1>9, <2>1, <2>2
  <1>11. CASE FileBreaks
    <2> DEFINE total == found.expanded + Current.size
               f == [found EXCEPT !.unreadable = @ \cup {At}, !.expanded = total]
    <2>1. Opened /\ GoOn(f, Current.size)
      BY <1>11 DEF FileBreaks, Consumed
    <2>2. total \in Nat
      BY <1>2, <2>1
    <2> HIDE DEF total
    <2>3. f \in Inspection /\ f.unsafe = found.unsafe
      BY <1>1, <1>2, <2>1, <2>2 DEF Inspection
    <2> HIDE DEF f
    <2> QED
      BY <1>9, <2>1, <2>3
  <1>12. ASSUME NEW f \in Inspection, NEW n, Opened, f.unsafe = found.unsafe, f.limit = "none",
                Checked(f, n)
         PROVE  /\ archive' = archive /\ found'.count = At /\ found'.unsafe = found.unsafe
                /\ found.unsafe \subseteq found'.unsafe /\ 1..found.count \subseteq 1..found'.count
                /\ \/ inflated'.skipped = inflated.skipped
                   \/ /\ ~(f.expanded > MaxUncompressed)
                      /\ inflated'.skipped = inflated.skipped + Rest(n)
    <2>1. archive' = archive /\ found'.count = At /\ found'.unsafe = found.unsafe
      BY <1>1, <1>12, Checks
    <2>2. CASE f.expanded > MaxUncompressed
      BY <1>1, <1>5, <1>12, <2>1, <2>2 DEF Checked, Stop
    <2>3. CASE ~(f.expanded > MaxUncompressed)
      BY <1>5, <1>12, <2>1, <2>3 DEF Checked, GoOn
    <2> QED
      BY <2>2, <2>3
  <1>13. CASE ReadManifest
    <2> DEFINE n == Least(Current.size, MaxManifest + 1)
               total == found.expanded + n
               f == [found EXCEPT !.manifest = At, !.expanded = total]
    <2>1. Opened /\ Checked(f, n) /\ IsManifest(Current) /\ total \in Nat
      BY <1>13, <1>2 DEF ReadManifest, Consumed, Least
    <2>2. n = Current.size \/ Current.size > MaxManifest + 1
      BY <1>2, <2>1 DEF Least
    <2> HIDE DEF n, total
    <2>3. f \in Inspection /\ f.unsafe = found.unsafe /\ f.limit = "none"
      BY <1>1, <1>2, <2>1 DEF Inspection
    <2> HIDE DEF f
    <2>4. /\ archive' = archive /\ found'.count = At
          /\ found.unsafe \subseteq found'.unsafe /\ 1..found.count \subseteq 1..found'.count
          /\ \/ inflated'.skipped = inflated.skipped
             \/ inflated'.skipped = inflated.skipped + Rest(n)
      BY <1>12, <2>1, <2>3
    <2>5. CASE n = Current.size \/ archive.format # "targz"
      <3>1. Rest(n) = 0
        BY <1>2, <2>1, <2>5 DEF Rest
      <3> QED
        BY <1>1, <2>4, <3>1
    <2>6. CASE archive.format = "targz" /\ Current.size > MaxManifest + 1
      <3>1. At \in 1..found'.count /\ archive'.entries[At] = Current
        BY <1>2, <2>1, <2>4 DEF Current
      <3> QED
        BY <2>1, <2>4, <2>6, <3>1
    <2> QED
      BY <2>2, <2>5, <2>6
  <1>14. CASE ReadFile
    <2> DEFINE n == Least(Current.size, Remaining)
               total == found.expanded + n
               f == [found EXCEPT !.expanded = total]
    <2>1. Opened /\ Checked(f, n)
      BY <1>14 DEF ReadFile, Consumed
    <2>2. total \in Nat
      BY <1>2, <2>1 DEF Least, Remaining
    <2>3. n = Current.size \/ total > MaxUncompressed
      BY <1>2, <2>1 DEF Least, Remaining
    <2> HIDE DEF n, total
    <2>4. f \in Inspection /\ f.unsafe = found.unsafe /\ f.limit = "none" /\ f.expanded = total
      BY <1>1, <1>2, <2>1, <2>2 DEF Inspection
    <2> HIDE DEF f
    <2>5. /\ archive' = archive
          /\ found.unsafe \subseteq found'.unsafe /\ 1..found.count \subseteq 1..found'.count
          /\ \/ inflated'.skipped = inflated.skipped
             \/ ~(total > MaxUncompressed) /\ inflated'.skipped = inflated.skipped + Rest(n)
      BY <1>12, <2>1, <2>4
    <2>6. n = Current.size => Rest(n) = 0
      BY <1>2, <2>1 DEF Rest
    <2> QED
      BY <1>1, <2>3, <2>5, <2>6
  <1> QED
    BY <1>4, <1>6, <1>7, <1>8, <1>10, <1>11, <1>13, <1>14 DEF Next

LEMMA SkippedInvariance == Spec => []SkippedForAReason
  <1>1. Init => SkippedForAReason
    BY DEF Init, SkippedForAReason
  <1> QED
    BY <1>1, SkippedStep, InspectionInvariant, PTL DEF Spec

\* TR-13, as far as it is kept: what inspection itself reads of the bodies is within the
\* cap, one manifest, two bytes, and a bounded part of each entry that broke or is only
\* skipped; what tar's Next decompresses behind its back is of an archive that is refused
\* for an unsafe entry, or of an apm.yml over its limit.
THEOREM InspectionReadIsBounded == Spec => []ReadIsBounded
  <1>1. Inv /\ ReadInv /\ SkippedForAReason => ReadIsBounded
    <2> SUFFICES ASSUME Inv, ReadInv, SkippedForAReason PROVE ReadIsBounded
      OBVIOUS
    <2> USE InspectionConstants
    <2>1. /\ found.count \in Nat /\ found.expanded \in Nat /\ inflated.read \in Nat
          /\ found.expanded <= MaxUncompressed + MaxManifest + 2
          /\ found.unreadable \subseteq 1..MaxEntries /\ found.unsafe \subseteq 1..MaxEntries
      BY DEF Inv, TypeOK, Inspection, ReadInv
    <2>2. LinksOnly \subseteq 1..(MaxEntries + 1)
      BY DEF ReadInv
    <2>3. IsFiniteSet(found.unreadable) /\ IsFiniteSet(LinksOnly)
      <3>1. MaxEntries \in Nat /\ MaxEntries + 1 \in Nat
        OBVIOUS
      <3> QED
        BY <2>1, <2>2, <3>1, InitialsAreFinite
    <2> DEFINE c == (MaxManifest + 1) * Cardinality(found.unreadable)
               d == MaxLinkTarget * Cardinality(LinksOnly)
    <2>4. c \in Nat /\ d \in Nat
      BY <2>3, FS_CardinalityType, OneMore
    <2>5. inflated.read <= found.expanded + c + d
      BY DEF ReadInv
    <2>6. ReadBound = MaxUncompressed + MaxManifest + 2 + c + d
      BY DEF ReadBound
    <2> HIDE DEF c, d
    <2>7. inflated.read <= ReadBound
      BY <2>1, <2>4, <2>5, <2>6
    <2> QED
      BY <2>1, <2>2, <2>7 DEF ReadIsBounded
  <1> QED
    BY <1>1, InspectionInvariant, ReadInvariance, SkippedInvariance, PTL

\* An accepted archive is safe and whole, and its manifest is the one recorded.
THEOREM InspectionAcceptsOnlySound == Spec => []AcceptedKeepsTheRules
  <1>1. Inv => AcceptedKeepsTheRules
    <2> SUFFICES ASSUME Inv, verdict = "accepted" PROVE AcceptedKeepsTheRules
      BY DEF AcceptedKeepsTheRules
    <2> USE InspectionConstants
    <2> DEFINE m == found.manifest
    <2>1. /\ found.limit = "none" /\ found.unsafe = {} /\ found.unreadable = {}
          /\ m # 0 /\ ManifestRules(Entries[m]) = {}
          /\ found.count = Len(Entries) /\ ~archive.cut /\ archive.opens
          /\ Scanned /\ Captured
      BY DEF Inv, Accepted
    <2>2. Entries \in Seq(Entry) /\ DOMAIN Entries = 1..found.count /\ m \in Nat
      BY <2>1 DEF Inv, TypeOK, Archive, Inspection, Entries
    <2>3. m \in DOMAIN Entries /\ IsManifest(Entries[m])
      BY <2>1, <2>2 DEF Captured
    <2>4. Entries[m].size \in Nat
      <3>1. Entries \in Seq(Entry) /\ m \in 1..Len(Entries)
        BY <2>2, <2>3, <2>1
      <3>2. Entries[m] \in Entry
        BY <3>1
      <3> QED
        BY <3>2 DEF Entry
    <2>5. /\ Entries[m].size <= MaxManifest /\ Entries[m].body = "sound"
          /\ Entries[m].defects \cap {"yaml", "fields", "name"} = {}
          /\ RequireVersionMatch => "version" \notin Entries[m].defects
      <3>1. /\ ~(Entries[m].size > MaxManifest) /\ "yaml" \notin Entries[m].defects
            /\ "fields" \notin Entries[m].defects /\ "name" \notin Entries[m].defects
            /\ RequireVersionMatch => "version" \notin Entries[m].defects
        BY <2>1 DEF ManifestRules
      <3> QED
        BY <3>1, <2>1, <2>4 DEF Captured
    <2>6. ASSUME NEW i \in DOMAIN Entries
          PROVE  /\ ~Unsafe(Entries[i])
                 /\ Entries[i].kind = "file" =>
                        IsManifest(Entries[i]) \/ Entries[i].body = "sound"
                 /\ IsManifest(Entries[i]) => i <= m
      BY <2>1, <2>2 DEF Scanned
    <2> QED
      BY <2>1, <2>2, <2>3, <2>5, <2>6 DEF AcceptedKeepsTheRules, Entries, Scanned
  <1> QED
    BY <1>1, InspectionInvariant, PTL

-----------------------------------------------------------------------------
\* What the files of the archive expand to, entry by entry.
Counted(e) == IF e.kind = "file" THEN e.size ELSE 0

Totals(tot, entries) ==
    /\ tot \in [0..Len(entries) -> Nat]
    /\ tot[0] = 0
    /\ \A i \in 1..Len(entries) : tot[i] = tot[i - 1] + Counted(entries[i])

\* RealExpansion is the last of them.
LEMMA ExpansionRuns ==
  ASSUME NEW a \in Archive
  PROVE  \E tot : Totals(tot, a.entries) /\ RealExpansion(a) = tot[Len(a.entries)]
<1> DEFINE entries == a.entries
           N == Len(entries)
           Plus(n, e) == IF e.kind = "file" THEN n + e.size ELSE n
           step == [i \in 1..N |-> [v \in Nat |-> Plus(v, entries[i])]]
           G(it) == [s \in SUBSET (DOMAIN entries) |->
                       IF s = {} THEN 0 ELSE Plus(it[s \ {Max(s)}], entries[Max(s)])]
<1>1. entries \in Seq(Entry) /\ N \in Nat /\ DOMAIN entries = 1..N
  BY DEF Archive
<1>2. \A i \in 1..N : entries[i] \in Entry /\ entries[i].size \in Nat
  <2>1. \A i \in 1..N : entries[i] \in Entry
    BY <1>1
  <2>2. QED
    BY <2>1 DEF Entry
<1>3. step \in [1..N -> [Nat -> Nat]]
  <2>1. \A i \in 1..N, v \in Nat : Plus(v, entries[i]) \in Nat
    BY <1>2
  <2> HIDE DEF Plus, N, entries
  <2>2. QED
    BY <2>1
<1>4. PICK it \in [SUBSET (1..N) -> Nat] : Folds(it, N, 0, step)
  <2> HIDE DEF N, step
  <2>1. QED
    BY <1>1, <1>3, FoldExists
<1>5. it = G(it)
  <2>1. ASSUME NEW s \in SUBSET (1..N), s # {}
        PROVE  step[Max(s)][it[s \ {Max(s)}]] = Plus(it[s \ {Max(s)}], entries[Max(s)])
    <3>1. Max(s) \in 1..N
      BY <2>1, <1>1, MaxOfPositions
    <3>2. it[s \ {Max(s)}] \in Nat
      OBVIOUS
    <3> QED
      BY <3>1, <3>2
  <2> HIDE DEF Plus
  <2>2. QED
    BY <1>1, <1>4, <2>1 DEF Folds
<1>6. PICK chosen : chosen = G(chosen) /\ RealExpansion(a) = chosen[1..N]
  <2> DEFINE c == CHOOSE c : c = G(c)
  <2>1. c = G(c)
    BY <1>5
  <2>2. RealExpansion(a) = c[1..N]
    BY <1>1 DEF RealExpansion, FoldLeft, MapThenFoldSet
  <2>3. QED
    BY <2>1, <2>2
<1>7. FoldsWithin(chosen, N, Nat, 0, step)
  <2>1. \A s \in SUBSET (1..N) : s # {} => Max(s) \in 1..N
    BY <1>1, MaxOfPositions
  <2>2. QED
    BY <1>1, <1>6, <2>1 DEF FoldsWithin
<1>8. PICK run \in [0..N -> Nat] : Runs(run, N, 0, step) /\ chosen[1..N] = run[N]
  <2> DEFINE X == Nat
             base == 0
  <2>1. /\ N \in Nat /\ base \in X /\ step \in [1..N -> [X -> X]]
        /\ FoldsWithin(chosen, N, X, base, step)
    BY <1>1, <1>3, <1>7
  <2> HIDE DEF N, step, G, X, base
  <2>2. RunOf(chosen, N, X, base, step)
    BY <2>1, FoldRuns
  <2>3. QED
    BY <2>2 DEF X, base, RunOf
<1>9. ASSUME NEW i \in 1..N
      PROVE  run[i] = run[i - 1] + Counted(entries[i])
  <2>1. i - 1 \in 0..N /\ run[i - 1] \in Nat
    BY <1>1
  <2>2. run[i] = Plus(run[i - 1], entries[i])
    BY <1>8, <2>1 DEF Runs
  <2>3. QED
    BY <1>2, <2>1, <2>2 DEF Counted
<1>10. Totals(run, entries)
  BY <1>1, <1>8, <1>9 DEF Totals, Runs
<1>11. QED
  BY <1>6, <1>8, <1>10

\* They never fall.
LEMMA TotalsRise ==
  ASSUME NEW entries \in Seq(Entry), NEW tot, Totals(tot, entries)
  PROVE  \A i \in 0..Len(entries) : tot[i] <= tot[Len(entries)]
<1> DEFINE N == Len(entries)
           S == {n \in 0..N : \A i \in 0..n : tot[i] <= tot[n]}
<1>1. N \in Nat /\ tot \in [0..N -> Nat]
  BY DEF Totals
<1>2. 0 \in S
  BY <1>1
<1>3. ASSUME NEW n \in 0..(N - 1), n \in S
      PROVE  n + 1 \in S
  <2>1. n + 1 \in 1..N /\ (n + 1) - 1 = n
    OBVIOUS
  <2>2. entries[n + 1] \in Entry
    BY <2>1
  <2>3. Counted(entries[n + 1]) \in Nat
    BY <2>2 DEF Counted, Entry
  <2>4. tot[n + 1] = tot[n] + Counted(entries[n + 1])
    BY <2>1 DEF Totals
  <2>5. ASSUME NEW i \in 0..(n + 1)
        PROVE  tot[i] <= tot[n + 1]
    <3>1. i \in 0..n \/ i = n + 1
      OBVIOUS
    <3>2. n \in 0..N /\ i \in 0..N /\ n + 1 \in 0..N
      BY <1>1
    <3>3. tot[n] \in Nat /\ tot[i] \in Nat /\ tot[n + 1] \in Nat
      BY <1>1, <3>2
    <3>4. i \in 0..n => tot[i] <= tot[n]
      BY <1>3
    <3>5. QED
      BY <2>3, <2>4, <3>1, <3>3, <3>4
  <2>6. QED
    BY <2>1, <2>5
<1>4. \A n \in 0..N : n \in S
  <2> HIDE DEF S, N
  <2>1. QED
    BY <1>1, <1>2, <1>3, IntervalInduction
<1>5. N \in S
  <2>1. N \in 0..N
    BY <1>1
  <2> HIDE DEF S, N
  <2>2. QED
    BY <1>4, <2>1
<1>6. QED
  BY <1>5

-----------------------------------------------------------------------------
\* What the walk noted, and what Validate found, has its reason in the archive.
Grounds ==
    /\ found.unreadable # {} => \E i \in Files(archive) : Entries[i].body # "sound"
    /\ found.unsafe # {} => \E i \in DOMAIN Entries : Unsafe(Entries[i])
    /\ found.limit = "entries" => Len(Entries) > MaxEntries
    /\ found.limit = "uncompressed" => found.expanded > MaxUncompressed
    /\ verdict = "corrupt" =>
          ~archive.opens \/ archive.cut \/ \E i \in Files(archive) : Entries[i].body # "sound"
    /\ verdict = "rejected" =>
          /\ failures = Failures /\ failures # {}
          /\ found.limit = "none" => found.count = Len(Entries)
    /\ phase = "done" => verdict # "none"

Unblemished == found.limit = "none" /\ found.unsafe = {} /\ found.unreadable = {}

\* The running sum is never more than the files behind the walk expand to, and all
\* of it while nothing has failed; of a manifest too large to parse it has a part.
Tallied(tot) ==
    /\ found.expanded <= tot[found.count]
    /\ Unblemished
          /\ (\A i \in 1..found.count : IsManifest(Entries[i]) => Entries[i].size <= MaxManifest)
       => found.expanded = tot[found.count]

\* One entry more in the sum.
LEMMA TallyStep ==
  ASSUME Inv, NEW tot, Totals(tot, Entries), Tallied(tot), Opened, archive' = archive,
         found'.count = At, found'.expanded \in Nat,
         found'.expanded <= found.expanded + Counted(Current),
         Unblemished' /\ (IsManifest(Current) => Current.size <= MaxManifest) =>
            Unblemished /\ found'.expanded = found.expanded + Counted(Current)
  PROVE  Tallied(tot)'
  <1>1. /\ At \in 1..Len(Entries) /\ Current = Entries[At] /\ Current.size \in Nat
        /\ found.count \in Nat /\ found.expanded \in Nat /\ At = found.count + 1
    BY CurrentTyped DEF Inv, Opened, At
  <1>2. Counted(Current) \in Nat
    BY <1>1 DEF Counted
  <1>3. /\ found.count \in 0..Len(Entries) /\ At - 1 = found.count
        /\ 1..At = (1..found.count) \cup {At}
    BY <1>1
  <1>4. tot[found.count] \in Nat /\ tot[At] = tot[found.count] + Counted(Current)
    BY <1>1, <1>3 DEF Totals
  <1>5. Entries' = Entries /\ \A e : IsManifest(e)' = IsManifest(e)
    BY DEF Entries, IsManifest
  <1>6. found'.expanded <= tot[At]
    BY <1>1, <1>2, <1>4 DEF Tallied
  <1>7. ASSUME Unblemished',
               \A i \in 1..At : IsManifest(Entries[i]) => Entries[i].size <= MaxManifest
        PROVE  found'.expanded = tot[At]
    <2>1. /\ IsManifest(Current) => Current.size <= MaxManifest
          /\ \A i \in 1..found.count : IsManifest(Entries[i]) => Entries[i].size <= MaxManifest
      BY <1>1, <1>3, <1>7
    <2>2. Unblemished /\ found'.expanded = found.expanded + Counted(Current)
      BY <1>7, <2>1
    <2>3. found.expanded = tot[found.count]
      BY <2>1, <2>2 DEF Tallied
    <2> QED
      BY <1>4, <2>2, <2>3
  <1> QED
    BY <1>5, <1>6, <1>7 DEF Tallied, IsManifest

\* A step that finds nothing leaves the sum alone.
LEMMA TallyRests ==
  ASSUME NEW tot, Tallied(tot), archive' = archive, found' = found
  PROVE  Tallied(tot)'
  BY DEF Tallied, Unblemished, Entries, IsManifest

\* What a step that hands an entry to consume makes of the findings.
Consumes ==
    /\ Opened /\ archive' = archive /\ found'.count = At /\ found'.expanded \in Nat
    /\ phase' # "done" /\ verdict' = verdict
    /\ found'.expanded <= found.expanded + Counted(Current)
    /\ found'.unsafe # {} => found.unsafe # {} \/ Unsafe(Current)
    /\ found'.unreadable # {} =>
          found.unreadable # {} \/ (Current.kind = "file" /\ Current.body # "sound")
    /\ found'.limit = "entries" => OverEntries
    /\ found'.limit = "uncompressed" => found'.expanded > MaxUncompressed
    /\ Unblemished' /\ (IsManifest(Current) => Current.size <= MaxManifest) =>
          Unblemished /\ found'.expanded = found.expanded + Counted(Current)

\* What any other step does.
Concludes ==
    /\ archive' = archive /\ found' = found
    /\ \/ UNCHANGED <<phase, verdict, failures>>
       \/ phase' \in {"walk", "validate"} /\ UNCHANGED <<verdict, failures>>
       \/ ~archive.opens /\ Corrupt
       \/ HasNext /\ Current.kind = "file" /\ Current.body = "closed" /\ Corrupt
       \/ archive.cut /\ Corrupt
       \/ Validate

LEMMA EveryStep ==
  ASSUME Inv, [Next]_vars
  PROVE  Consumes \/ Concludes
  <1> USE InspectionConstants
  <1>1. found \in Inspection
    BY DEF Inv, TypeOK
  <1>2. ASSUME Opened
        PROVE  /\ At \in Nat \ {0} /\ Current.size \in Nat /\ found.expanded \in Nat
               /\ found.limit = "none" /\ phase = "walk" /\ Counted(Current) \in Nat
               /\ found.expanded <= MaxUncompressed + 1
               /\ Current.body \in Bodies
    <2>1. At \in Nat \ {0} /\ Current.size \in Nat /\ found.expanded \in Nat /\ Current.body \in Bodies
      BY <1>2, CurrentTyped DEF Opened, Inv
    <2>2. found.limit = "none" /\ phase = "walk" /\ Scanned
      BY <1>2 DEF Opened, HasNext, Inv
    <2> QED
      BY <2>1, <2>2 DEF Counted, Scanned
  <1>3. CASE Open \/ WalkEnds \/ UNCHANGED vars
    BY <1>3 DEF Concludes, Open, WalkEnds, vars
  <1>4. CASE OpenFails \/ MemberClosed \/ StreamCut
    BY <1>4 DEF Concludes, OpenFails, MemberClosed, StreamCut, Corrupt
  <1>5. CASE Validate
    BY <1>5 DEF Concludes, Validate
  <1>6. CASE TooManyEntries
    <2>1. Opened /\ OverEntries /\ Stop(found, "entries", LinkRead)
      BY <1>6 DEF TooManyEntries
    <2>2. Consumes
      BY <2>1, <1>1, <1>2, Stops DEF Consumes, Unblemished
    <2> QED
      BY <2>2
  <1>7. CASE SkipUnsafe
    <2> DEFINE f == [found EXCEPT !.unsafe = @ \cup {At}]
    <2>1. Opened /\ Unsafe(Current) /\ GoOn(f, LinkRead)
      BY <1>7 DEF SkipUnsafe, Consumed
    <2>2. /\ f \in Inspection /\ At \in f.unsafe /\ f.unreadable = found.unreadable
          /\ f.expanded = found.expanded /\ f.limit = "none"
      BY <1>1, <1>2, <2>1 DEF Inspection
    <2> HIDE DEF f
    <2>3. Consumes
      BY <2>1, <2>2, <1>1, <1>2, GoesOn DEF Consumes, Unblemished
    <2> QED
      BY <2>3
  <1>8. CASE SkipDirectory
    <2>1. Opened /\ Current.kind = "dir" /\ GoOn(found, 0)
      BY <1>8 DEF SkipDirectory, Consumed
    <2>2. Counted(Current) = 0
      BY <2>1 DEF Counted
    <2>3. Consumes
      BY <2>1, <2>2, <1>1, <1>2, GoesOn DEF Consumes, Unblemished
    <2> QED
      BY <2>3
  <1>9. CASE ManifestBreaks
    <2> DEFINE f == [found EXCEPT !.unreadable = @ \cup {At}]
    <2>1. Opened /\ Current.kind = "file" /\ Current.body # "sound" /\ GoOn(f, Current.size)
      BY <1>9 DEF ManifestBreaks, Consumed, IsManifest, Breaks
    <2>2. /\ f \in Inspection /\ f.unsafe = found.unsafe /\ At \in f.unreadable
          /\ f.expanded = found.expanded /\ f.limit = "none"
      BY <1>1, <1>2, <2>1 DEF Inspection
    <2> HIDE DEF f
    <2>3. Consumes
      BY <2>1, <2>2, <1>1, <1>2, GoesOn DEF Consumes, Unblemished
    <2> QED
      BY <2>3
  <1>10. CASE ReadManifest
    <2> DEFINE n == Least(Current.size, MaxManifest + 1)
               total == found.expanded + n
               f == [found EXCEPT !.manifest = At, !.expanded = total]
    <2>1. Opened /\ Current.kind = "file" /\ IsManifest(Current) /\ Checked(f, n)
      BY <1>10 DEF ReadManifest, Consumed, IsManifest
    <2>2. /\ n \in Nat /\ n <= Current.size
          /\ Current.size <= MaxManifest => n = Current.size
          /\ Counted(Current) = Current.size
      BY <1>2, <2>1 DEF Least, Counted
    <2> HIDE DEF n
    <2>3. total \in Nat /\ total = found.expanded + n
      BY <1>2, <2>1, <2>2
    <2> HIDE DEF total
    <2>4. /\ f \in Inspection /\ f.unsafe = found.unsafe /\ f.unreadable = found.unreadable
          /\ f.expanded = total /\ f.limit = "none"
      BY <1>1, <1>2, <2>1, <2>3 DEF Inspection
    <2> HIDE DEF f
    <2>5. Consumes
      BY <2>1, <2>2, <2>3, <2>4, <1>1, <1>2, Checks DEF Consumes, Unblemished
    <2> QED
      BY <2>5
  <1>11. CASE FileBreaks
    <2> DEFINE n == Current.size
               total == found.expanded + n
               f == [found EXCEPT !.unreadable = @ \cup {At}, !.expanded = total]
    <2>1. Opened /\ Current.kind = "file" /\ Current.body # "sound" /\ GoOn(f, n)
      BY <1>11 DEF FileBreaks, Consumed, Breaks
    <2>2. n \in Nat /\ Counted(Current) = n
      BY <1>2, <2>1 DEF Counted
    <2> HIDE DEF n
    <2>3. total \in Nat /\ total = found.expanded + n
      BY <1>2, <2>1, <2>2
    <2> HIDE DEF total
    <2>4. /\ f \in Inspection /\ f.unsafe = found.unsafe /\ At \in f.unreadable
          /\ f.expanded = total /\ f.limit = "none"
      BY <1>1, <1>2, <2>1, <2>3 DEF Inspection
    <2> HIDE DEF f
    <2>5. Consumes
      BY <2>1, <2>2, <2>3, <2>4, <1>1, <1>2, GoesOn DEF Consumes, Unblemished
    <2> QED
      BY <2>5
  <1>12. CASE ReadFile
    <2> DEFINE n == Least(Current.size, Remaining)
               total == found.expanded + n
               f == [found EXCEPT !.expanded = total]
    <2>1. Opened /\ Current.kind = "file" /\ Checked(f, n)
      BY <1>12 DEF ReadFile, Consumed
    <2>2. /\ n \in Nat /\ n <= Current.size
          /\ n # Current.size => found.expanded + n > MaxUncompressed
          /\ Counted(Current) = Current.size
      BY <1>2, <2>1 DEF Least, Counted, Remaining
    <2> HIDE DEF n
    <2>3. total \in Nat /\ total = found.expanded + n
      BY <1>2, <2>1, <2>2
    <2> HIDE DEF total
    <2>4. /\ f \in Inspection /\ f.unsafe = found.unsafe /\ f.unreadable = found.unreadable
          /\ f.expanded = total /\ f.limit = "none"
      BY <1>1, <1>2, <2>1, <2>3 DEF Inspection
    <2> HIDE DEF f
    <2>5. Consumes
      BY <2>1, <2>2, <2>3, <2>4, <1>1, <1>2, Checks DEF Consumes, Unblemished
    <2> QED
      BY <2>5
  <1> QED
    BY <1>3, <1>4, <1>5, <1>6, <1>7, <1>8, <1>9, <1>10, <1>11, <1>12 DEF Next

LEMMA InitGrounds == Init => Grounds /\ \A tot : Totals(tot, Entries) => Tallied(tot)
  BY DEF Init, Grounds, Totals, Tallied

LEMMA TallyKept ==
  ASSUME Inv, [Next]_vars, NEW tot, Totals(tot, Entries), Tallied(tot)
  PROVE  Tallied(tot)'
  <1>1. CASE Consumes
    BY <1>1, TallyStep DEF Consumes
  <1>2. CASE Concludes
    BY <1>2, TallyRests DEF Concludes
  <1> QED
    BY <1>1, <1>2, EveryStep

LEMMA GroundsKept ==
  ASSUME Inv, Grounds, [Next]_vars
  PROVE  Grounds'
  <1> DEFINE Broken == \E i \in Files(archive) : Entries[i].body # "sound"
             Astray == \E i \in DOMAIN Entries : Unsafe(Entries[i])
             Same == Broken' = Broken /\ Astray' = Astray /\ Len(Entries)' = Len(Entries)
  <1>1. ASSUME archive' = archive
        PROVE  Entries' = Entries /\ Same
    BY <1>1 DEF Entries, Files, Unsafe
  <1>2. ASSUME HasNext
        PROVE  /\ Unsafe(Current) => Astray
               /\ Current.kind = "file" /\ Current.body # "sound" => Broken
               /\ At <= Len(Entries) /\ At \in Nat /\ Len(Entries) \in Nat
    <2>1. archive.entries \in Seq(Entry)
      BY DEF Inv, TypeOK, Archive
    <2>2. At \in 1..Len(Entries) /\ Current = Entries[At] /\ DOMAIN Entries = 1..Len(Entries)
      BY <1>2, <2>1, CurrentTyped DEF Inv, Entries
    <2>3. Len(Entries) \in Nat
      BY <2>1 DEF Entries
    <2> QED
      BY <2>2, <2>3 DEF Files, Entries
  <1>3. CASE Consumes
    <2>1. /\ Opened /\ phase' # "done" /\ verdict' = verdict /\ HasNext
          /\ phase = "walk" /\ verdict = "none" /\ Same
      BY <1>1, <1>3 DEF Consumes, Inv, Opened, HasNext
    <2>2. found'.unreadable # {} => Broken
      BY <1>2, <1>3, <2>1 DEF Consumes, Grounds, Opened
    <2>3. found'.unsafe # {} => Astray
      BY <1>2, <1>3, <2>1 DEF Consumes, Grounds, Opened
    <2>4. found'.limit = "entries" => Len(Entries) > MaxEntries
      BY <1>2, <1>3, <2>1, InspectionConstants DEF Consumes, OverEntries
    <2> HIDE DEF Broken, Astray
    <2>5. QED
      BY <1>3, <2>1, <2>2, <2>3, <2>4 DEF Consumes, Grounds, Broken, Astray
  <1>4. CASE Concludes
    <2>1. Same /\ found' = found /\ Entries' = Entries /\ archive' = archive
      BY <1>1, <1>4 DEF Concludes
    <2>2. CASE UNCHANGED <<phase, verdict, failures>>
      BY <2>1, <2>2 DEF Grounds, Failures, ManifestRules
    <2>3. CASE phase' \in {"walk", "validate"} /\ UNCHANGED <<verdict, failures>>
      BY <2>1, <2>3 DEF Grounds, Failures, ManifestRules
    <2>4. CASE Corrupt /\ (~archive.opens \/ archive.cut \/ Broken)
      BY <2>1, <2>4 DEF Grounds, Corrupt, Judged
    <2>5. CASE Validate
      <3>1. /\ phase = "validate" /\ failures' = Failures /\ phase' = "done"
            /\ verdict' = IF Failures = {} THEN "accepted" ELSE "rejected"
        BY <2>5 DEF Validate, Judged
      <3>2. Failures' = Failures
        BY <2>1 DEF Failures, ManifestRules
      <3>3. found.limit = "none" => found.count = Len(Entries)
        BY <3>1 DEF Inv
      <3> QED
        BY <2>1, <3>1, <3>2, <3>3 DEF Grounds
    <2> QED
      BY <1>2, <1>4, <2>2, <2>3, <2>4, <2>5 DEF Concludes
  <1> QED
    BY <1>3, <1>4, EveryStep

\* The invariant of the judgement.
JudgementInv ==
    /\ Inv
    /\ Grounds
    /\ \A tot : Totals(tot, Entries) => Tallied(tot)

LEMMA JudgementStep == JudgementInv /\ [Next]_vars => JudgementInv'
  <1> SUFFICES ASSUME JudgementInv, [Next]_vars
               PROVE  JudgementInv'
    OBVIOUS
  <1>1. Inv' /\ Grounds'
    BY NextInv, GroundsKept DEF JudgementInv
  <1>2. Entries' = Entries
    BY EveryStep DEF JudgementInv, Consumes, Concludes, Entries
  <1>3. ASSUME NEW tot, Totals(tot, Entries)
        PROVE  Tallied(tot)'
    BY <1>3, TallyKept DEF JudgementInv
  <1>4. \A tot : Totals(tot, Entries)' = Totals(tot, Entries)
    BY <1>2 DEF Totals, Counted
  <1> QED
    BY <1>1, <1>3, <1>4 DEF JudgementInv

LEMMA JudgementInvariant == Spec => []JudgementInv
  <1>1. Init => JudgementInv
    BY InitInv, InitGrounds DEF JudgementInv
  <1> QED
    BY <1>1, JudgementStep, PTL DEF Spec

\* An apm.yml at the root is no unsafe entry.
LEMMA ManifestIsSafe ==
  ASSUME NEW e, IsManifest(e)
  PROVE  ~Unsafe(e)
  <1> DEFINE name == <<"apm.yml">>
  <1>1. e.kind = "file" /\ e.name = name
    BY DEF IsManifest
  <1>2. name \in Seq(Segments) /\ Len(name) = 1 /\ name[1] = "apm.yml"
    BY DEF Segments
  <1>3. Depth(name, 1) = 1
    <2>1. Normal("apm.yml")
      BY DEF Normal, Segments
    <2>2. Depth(name, 0 + 1) = Depth(name, 0) + 1 /\ Depth(name, 0) = 0
      BY <1>2, <2>1, DepthStep
    <2> QED
      BY <2>2
  <1>4. ~Escapes(name)
    <2>1. ~Climbs(name)
      BY <1>2, <1>3 DEF Climbs
    <2> HIDE DEF name
    <2> QED
      BY <1>2, <2>1, CleanFindsClimbs
  <1> QED
    BY <1>1, <1>2, <1>4 DEF Unsafe, UnsafeName

\* A rule named in a 422 is really broken (validation.go:35-108).
LEMMA ReportsAreTrue == JudgementInv => ReportedRulesAreBroken
  <1> SUFFICES ASSUME JudgementInv, verdict = "rejected", NEW r \in failures
               PROVE  \/ r \in BrokenRules(archive)
                      \/ r = "manifest_present" /\ (found.limit # "none" \/ found.unreadable # {})
    BY DEF ReportedRulesAreBroken
  <1>1. Inv /\ Grounds /\ r \in Failures
    BY DEF JudgementInv, Grounds
  <1>2. archive \in Archive /\ Entries \in Seq(Entry) /\ Entries = archive.entries /\ found \in Inspection
    BY <1>1 DEF Inv, TypeOK, Archive, Entries
  <1>3. CASE r = "archive_parse" /\ found.unreadable # {}
    BY <1>1, <1>2, <1>3 DEF Grounds, BrokenRules
  <1>4. CASE r = "entry_safety" /\ found.unsafe # {}
    BY <1>1, <1>2, <1>4 DEF Grounds, BrokenRules
  <1>5. CASE r = "archive_limits" /\ found.limit # "none"
    <2>1. PICK tot : Totals(tot, Entries) /\ RealExpansion(archive) = tot[Len(Entries)]
      BY <1>2, ExpansionRuns
    <2>2. Tallied(tot) /\ tot[found.count] <= tot[Len(Entries)]
      <3>1. found.count \in 0..Len(Entries)
        BY <1>1, <1>2 DEF Inv, Inspection
      <3> QED
        BY <1>2, <2>1, <3>1, TotalsRise DEF JudgementInv
    <2>3. tot[found.count] \in Nat /\ tot[Len(Entries)] \in Nat /\ found.expanded \in Nat
      <3>1. found.count \in 0..Len(Entries) /\ Len(Entries) \in 0..Len(Entries)
        BY <1>1, <1>2 DEF Inv, Inspection
      <3> QED
        BY <1>2, <2>1, <3>1 DEF Totals, Inspection
    <2>4. Len(archive.entries) > MaxEntries \/ RealExpansion(archive) > MaxUncompressed
      <3>1. found.limit \in {"entries", "uncompressed"}
        BY <1>2, <1>5 DEF Inspection
      <3>2. found.expanded <= tot[found.count]
        BY <2>2 DEF Tallied
      <3> QED
        BY <1>1, <1>2, <2>1, <2>2, <2>3, <3>1, <3>2, InspectionConstants DEF Grounds
    <2> QED
      BY <1>5, <2>4 DEF BrokenRules
  <1>6. CASE r = "manifest_present" /\ found.manifest = 0
    <2>1. CASE found.limit = "none" /\ found.unreadable = {}
      <3>1. found.count = Len(Entries) /\ Scanned
        BY <1>1, <2>1 DEF Inv, Grounds
      <3>2. ASSUME NEW i \in DOMAIN Entries, IsManifest(Entries[i])
            PROVE  FALSE
        <4>1. i \in 1..found.count /\ ~Unsafe(Entries[i])
          BY <1>2, <3>1, <3>2, ManifestIsSafe
        <4> QED
          BY <1>6, <2>1, <3>1, <3>2, <4>1 DEF Scanned
      <3> QED
        BY <1>2, <1>6, <3>2 DEF BrokenRules, Manifests
    <2> QED
      BY <1>2, <1>6, <2>1
  <1>7. CASE found.manifest # 0 /\ r \in ManifestRules(archive.entries[found.manifest])
    <2>1. found.manifest \in Manifests(archive)
      BY <1>1, <1>2, <1>7 DEF Inv, Captured, Manifests, Inspection
    <2> QED
      BY <1>7, <2>1 DEF BrokenRules
  <1> QED
    BY <1>1, <1>3, <1>4, <1>5, <1>6, <1>7 DEF Failures

\* Of an archive with one apm.yml nothing is accepted that breaks a rule, and nothing
\* else turned away (entryrules.go:57-93, validation.go:35-108).
LEMMA VerdictsAreExact == JudgementInv => VerdictIsExact
  <1> SUFFICES ASSUME JudgementInv, phase = "done", Cardinality(Manifests(archive)) <= 1
               PROVE  verdict = "accepted" <=>
                        archive.opens /\ ~archive.cut /\ BrokenRules(archive) = {}
    BY DEF VerdictIsExact
  <1>1. Inv /\ Grounds
    BY DEF JudgementInv
  <1>2. /\ archive \in Archive /\ Entries \in Seq(Entry) /\ Entries = archive.entries
        /\ found \in Inspection /\ DOMAIN Entries = 1..Len(Entries) /\ Len(Entries) \in Nat
    <2>1. archive \in Archive /\ found \in Inspection
      BY <1>1 DEF Inv, TypeOK
    <2>2. archive.entries \in Seq(Entry)
      BY <2>1 DEF Archive
    <2> QED
      BY <2>1, <2>2 DEF Entries
  <1>3. \A i, j \in Manifests(archive) : i = j
    <2> DEFINE M == Manifests(archive)
    <2>1. IsFiniteSet(M)
      <3>1. M \subseteq 1..Len(Entries) /\ IsFiniteSet(1..Len(Entries))
        BY <1>2, FS_Interval DEF Manifests
      <3> QED
        BY <3>1, FS_Subset
    <2>2. ASSUME NEW i \in M, NEW j \in M, i # j
          PROVE  FALSE
      <3> HIDE DEF M
      <3>1. {i, j} \subseteq M /\ Cardinality({i, j}) = 2
        <4>1. IsFiniteSet({i}) /\ Cardinality({i}) = 1
          BY FS_Singleton
        <4>2. Cardinality({i} \cup {j}) = 1 + 1 /\ {i} \cup {j} = {i, j}
          BY <2>2, <4>1, FS_AddElement
        <4> QED
          BY <4>2
      <3>2. 2 <= Cardinality(M) /\ Cardinality(M) \in Nat
        BY <2>1, <3>1, FS_Subset, FS_CardinalityType
      <3> QED
        BY <3>2 DEF M
    <2> QED
      BY <2>2
  <1>4. ASSUME verdict = "accepted"
        PROVE  archive.opens /\ ~archive.cut /\ BrokenRules(archive) = {}
    <2> DEFINE m == found.manifest
    <2>1. /\ Unblemished /\ m # 0 /\ ManifestRules(Entries[m]) = {}
          /\ found.count = Len(Entries) /\ ~archive.cut /\ archive.opens
          /\ Scanned /\ Captured
      BY <1>1, <1>4 DEF Inv, Accepted, Unblemished
    <2>2. m \in Manifests(archive) /\ ~(Entries[m].size > MaxManifest)
      <3>1. m \in 1..Len(Entries) /\ IsManifest(Entries[m])
        BY <1>2, <2>1 DEF Captured, Inspection
      <3> QED
        BY <1>2, <2>1, <3>1 DEF Manifests, ManifestRules
    <2>3. Entries[m].size \in Nat /\ Entries[m].body = "sound" /\ Entries[m].size <= MaxManifest
      <3>1. Entries[m] \in Entry
        BY <1>2, <2>2 DEF Manifests
      <3>2. Entries[m].size \in Nat
        BY <3>1 DEF Entry
      <3> QED
        BY <2>1, <2>2, <3>2, InspectionConstants DEF Captured
    <2>4. \A i \in DOMAIN Entries : ~Unsafe(Entries[i])
      BY <1>2, <2>1 DEF Scanned, Unblemished
    <2>5. \A i \in Files(archive) : Entries[i].body = "sound"
      BY <1>2, <1>3, <2>1, <2>2, <2>3, <2>4 DEF Files, Manifests, Scanned, Unblemished
    <2>6. Len(Entries) <= MaxEntries /\ RealExpansion(archive) <= MaxUncompressed
      <3>1. PICK tot : Totals(tot, Entries) /\ RealExpansion(archive) = tot[Len(Entries)]
        BY <1>2, ExpansionRuns
      <3>2. \A i \in 1..found.count : IsManifest(Entries[i]) => Entries[i].size <= MaxManifest
        BY <1>2, <1>3, <2>1, <2>2, <2>3 DEF Manifests
      <3>3. found.expanded = tot[Len(Entries)]
        BY <2>1, <3>1, <3>2 DEF JudgementInv, Tallied
      <3> QED
        BY <2>1, <3>1, <3>3 DEF Scanned, Unblemished
    <2>7. UNION {ManifestRules(Entries[i]) : i \in Manifests(archive)} = {}
      BY <1>3, <2>1, <2>2
    <2>8. RealExpansion(archive) \in Nat /\ ~(Len(Entries) > MaxEntries)
                /\ ~(RealExpansion(archive) > MaxUncompressed)
      <3>1. PICK tot : Totals(tot, Entries) /\ RealExpansion(archive) = tot[Len(Entries)]
        BY <1>2, ExpansionRuns
      <3>2. RealExpansion(archive) \in Nat
        BY <1>2, <3>1 DEF Totals
      <3> QED
        BY <1>2, <2>6, <3>2, InspectionConstants
    <2> QED
      BY <1>2, <2>1, <2>2, <2>4, <2>5, <2>7, <2>8, Zenon DEF BrokenRules
  <1>5. ASSUME archive.opens, ~archive.cut, BrokenRules(archive) = {}
        PROVE  verdict = "accepted"
    <2>1. verdict \in {"accepted", "rejected", "corrupt"}
      BY <1>1 DEF Inv, TypeOK, Grounds
    <2>2. ~\E i \in Files(archive) : archive.entries[i].body # "sound"
      BY <1>5 DEF BrokenRules
    <2>3. verdict # "corrupt" /\ found.unreadable = {}
      BY <1>1, <1>2, <1>5, <2>2 DEF Grounds
    <2>4. ASSUME verdict = "rejected"
          PROVE  FALSE
      <3>1. PICK r \in failures : TRUE
        BY <1>1, <2>4 DEF Grounds
      <3>2. r = "manifest_present" /\ found.limit # "none"
        BY <1>5, <2>3, <2>4, <3>1, ReportsAreTrue DEF ReportedRulesAreBroken
      <3>3. "archive_limits" \in failures
        BY <1>1, <2>4, <3>2 DEF Grounds, Failures
      <3> QED
        BY <1>5, <2>4, <3>3, ReportsAreTrue DEF ReportedRulesAreBroken
    <2> QED
      BY <2>1, <2>3, <2>4
  <1> QED
    BY <1>4, <1>5

\* entryrules.go:194-199: cleaning a name finds that it leaves the root, for names of
\* any length.
THEOREM InspectionFindsClimbs == Spec => []EscapesIsClimbs
  <1>1. Inv => EscapesIsClimbs
    <2> SUFFICES ASSUME Inv, NEW i \in DOMAIN archive.entries
                 PROVE  Escapes(archive.entries[i].name) <=> Climbs(archive.entries[i].name)
      BY DEF EscapesIsClimbs
    <2>1. archive.entries \in Seq(Entry)
      BY DEF Inv, TypeOK, Archive
    <2>2. archive.entries[i] \in Entry
      BY <2>1
    <2>3. archive.entries[i].name \in Seq(Segments)
      BY <2>2 DEF Entry
    <2> QED
      BY <2>3, CleanFindsClimbs
  <1> QED
    BY <1>1, InspectionInvariant, PTL

\* validation.go:35-108: the verdict on an archive with one apm.yml is what the rules
\* say of the whole of it, whatever the walk skipped or did not reach.
THEOREM InspectionIsExact == Spec => []VerdictIsExact
  BY JudgementInvariant, VerdictsAreExact, PTL

\* A rule named in a 422 is broken, of any archive.
THEOREM InspectionReportsTheTruth == Spec => []ReportedRulesAreBroken
  BY JudgementInvariant, ReportsAreTrue, PTL
=============================================================================

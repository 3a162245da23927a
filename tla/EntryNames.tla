----------------------------- MODULE EntryNames -----------------------------
(***************************************************************************)
(* Which names of archive entries leave the archive root                    *)
(* (internal/domain/archive/entryrules.go, unsafeReason).                    *)
(*                                                                          *)
(* A name is the sequence of its segments between slashes, so "" is <<"">>   *)
(* and "/a" is <<"", "a">>.  The segment "odd" stands for every segment with   *)
(* a NUL, a backslash, a control character or a drive letter in it.            *)
(***************************************************************************)
EXTENDS SequencesExt

Segments == {"", ".", "..", "a", "apm.yml", "odd"}

\* One more segment on path.Clean's stack.
Descend(stack, segment) ==
    IF segment \in {"", "."} THEN stack
    ELSE IF segment = ".." /\ stack # <<>> /\ Last(stack) # ".." THEN Front(stack)
    ELSE Append(stack, segment)

Clean(name) == FoldLeft(Descend, <<>>, name)

\* Mutant: compared before cleaning.
EscapesUncleaned(name) == name[1] = ".."

Escapes(name) == Clean(name) # <<>> /\ Clean(name)[1] = ".."

\* Empty and absolute names both begin with an empty segment.
UnsafeName(name) ==
    \/ name[1] = ""
    \/ \E i \in DOMAIN name : name[i] = "odd"
    \/ Escapes(name)

-----------------------------------------------------------------------------
\* The definition by walking: how far below the root the first n segments lead.
Count(name, n, S) == Cardinality({i \in 1..n : name[i] \in S})
Depth(name, n) ==
    Count(name, n, Segments \ {"", ".", ".."}) - Count(name, n, {".."})

Climbs(name) == \E n \in 1..Len(name) : Depth(name, n) < 0
=============================================================================

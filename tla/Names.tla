-------------------------------- MODULE Names --------------------------------
(***************************************************************************)
(* The names a request carries and what may be granted over them              *)
(* (internal/domain: identity.go, version.go, repository.go, scope.go).       *)
(*                                                                            *)
(* A name is a sequence of characters, one for each class the code tells      *)
(* apart: "a" and "b" are lowercase letters or digits, "A" is the capital of    *)
(* "a", "K" a letter outside ASCII whose lowercase is "b" (the Kelvin sign is   *)
(* one), "-" stands for "_" too, "/", "*", "." and "backslash" for themselves,   *)
(* "ctl" is a control character and "odd" any other.                            *)
(***************************************************************************)
EXTENDS SequencesExt, Integers

CONSTANTS MaxIdentityLength,       \* bytes, as sent
          MaxIdentityComponents,
          MaxVersionLength,
          MaxRepositoryNameLength

Alphanumeric == {"a", "b"}
Punctuation == {".", "-"}
Characters == Alphanumeric \cup Punctuation \cup {"A", "K", "/", "*", "backslash", "ctl", "odd"}

\* len counts bytes: "K" has three.
ByteLength(s) == Len(s) + 2 * Cardinality({i \in DOMAIN s : s[i] = "K"})

Lower(s) == [i \in DOMAIN s |-> CASE s[i] = "A" -> "a" [] s[i] = "K" -> "b" [] OTHER -> s[i]]

\* strings.Split(s, "/"), one more character at a time.
Extend(parts, ch) ==
    IF ch = "/" THEN Append(parts, <<>>) ELSE [parts EXCEPT ![Len(parts)] = Append(@, ch)]

Split(s) == FoldLeft(Extend, << <<>> >>, s)

\* What a parser that refuses returns.
Refused == <<>>

ValidIdentityComponent(c) ==
    /\ c \notin {<<>>, <<".">>, <<".", ".">>}
    /\ ToSet(c) \subseteq Alphanumeric \cup Punctuation
    /\ ToSet(c) \cap Alphanumeric # {}

\* Mutant: what was sent is kept, not what was checked.
ParseIdentityAsSent(decoded) ==
    IF /\ Len(Split(Lower(decoded))) \in 2..MaxIdentityComponents
       /\ \A n \in DOMAIN Split(Lower(decoded)) :
             ValidIdentityComponent(Split(Lower(decoded))[n])
    THEN decoded ELSE Refused

\* The canonical identity.  The length is that of what was sent, the characters
\* are checked after lowering.
ParseIdentity(decoded) ==
    LET components == Split(Lower(decoded)) IN
    IF /\ decoded # <<>> /\ ByteLength(decoded) <= MaxIdentityLength
       /\ "backslash" \notin ToSet(decoded) /\ decoded[1] # "/"
       /\ Len(components) \in 2..MaxIdentityComponents
       /\ \A n \in DOMAIN components : ValidIdentityComponent(components[n])
    THEN Lower(decoded) ELSE Refused

ParseVersion(decoded) ==
    IF /\ ByteLength(decoded) <= MaxVersionLength
       /\ decoded \notin {<<".">>, <<".", ".">>}
       /\ ToSet(decoded) \cap {"/", "backslash", "ctl"} = {}
    THEN decoded ELSE Refused

ParseRepositoryName(raw) ==
    IF /\ raw # <<>> /\ ByteLength(raw) <= MaxRepositoryNameLength
       /\ ToSet(raw) \subseteq Alphanumeric \cup Punctuation
       /\ raw[1] \in Alphanumeric
    THEN raw ELSE Refused

-----------------------------------------------------------------------------
\* A scope is what stands before its first ":" and what stands after, if any.
Actions == {"read", "publish"}
NoTarget == <<"none">>
Scope(action, target) == [action |-> action, target |-> target]

OwnerWildcard == <<"/", "*">>

ParseScope(s) ==
    /\ s.action \in Actions
    /\ \/ s.target = NoTarget
       \/ IF IsSuffix(OwnerWildcard, s.target) THEN s.target # OwnerWildcard
          ELSE ParseIdentity(s.target) # Refused

\* Mutant: the owner is a prefix, without the separator after it.
SatisfiesOwnerPrefix(s, required) ==
    /\ s.action = required.action
    /\ \/ s.target \in {NoTarget, required.target}
       \/ /\ IsSuffix(OwnerWildcard, s.target)
          /\ IsPrefix(Front(Front(s.target)), required.target)

\* owner + "/" is the target without its "*".
Satisfies(s, required) ==
    /\ required.target \notin {NoTarget, <<>>} /\ "*" \notin ToSet(required.target)
    /\ s.action = required.action
    /\ \/ s.target \in {NoTarget, required.target}
       \/ /\ IsSuffix(OwnerWildcard, s.target)
          /\ IsPrefix(Front(s.target), required.target)

SatisfiedBy(scopes, required) == \E s \in scopes : Satisfies(s, required)

-----------------------------------------------------------------------------
\* What a grant says, component by component: everything, one package, or what one owner
\* has, the owner of a package being all of its identity but the last component.
Covers(s, identity) ==
    \/ s.target \in {NoTarget, identity}
    \/ /\ Last(Split(s.target)) = <<"*">>
       /\ Front(Split(s.target)) = Front(Split(identity))

\* Everything, one package, or what is anywhere below an owner.
WithinOwner(s, identity) ==
    \/ s.target \in {NoTarget, identity}
    \/ /\ Last(Split(s.target)) = <<"*">>
       /\ IsStrictPrefix(Front(Split(s.target)), Split(identity))
=============================================================================

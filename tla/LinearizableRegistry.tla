------------------------- MODULE LinearizableRegistry -------------------------
(***************************************************************************)
(* What the registry promises its clients: a write-once map from tuples to  *)
(* digests on which every publish and every download takes effect at one    *)
(* instant.  Nothing here knows of blobs, tables, transactions or steps.     *)
(***************************************************************************)
CONSTANTS Publishers, Readers, Tuples, Digests,
          NoDigest    \* the tuple is free; also a conflict that names nothing

VARIABLES entries,    \* what is published under each tuple
          outcome,    \* what became of each publish
          seen        \* what became of each download

regVars == <<entries, outcome, seen>>

Pending == [kind |-> "pending"]
Failed == [kind |-> "failed"]
Created(t, d) == [kind |-> "created", tuple |-> t, digest |-> d]
Conflict(t, d) == [kind |-> "conflict", tuple |-> t, digest |-> d]
Served(t, d) == [kind |-> "served", tuple |-> t, digest |-> d]

RegistryInit ==
    /\ entries = [t \in Tuples |-> NoDigest]
    /\ outcome = [p \in Publishers |-> Pending]
    /\ seen = [k \in Readers |-> Pending]

\* A publish claims a free tuple.
Create(p, t, d) ==
    /\ outcome[p] = Pending
    /\ entries[t] = NoDigest
    /\ entries' = [entries EXCEPT ![t] = d]
    /\ outcome' = [outcome EXCEPT ![p] = Created(t, d)]
    /\ UNCHANGED seen

\* A publish loses to the entry that is there, which it names if it can.
Lose(p, t, named) ==
    /\ outcome[p] = Pending
    /\ entries[t] # NoDigest
    /\ named \in {entries[t], NoDigest}
    /\ outcome' = [outcome EXCEPT ![p] = Conflict(t, named)]
    /\ UNCHANGED <<entries, seen>>

\* A download answers with the entry, or with not found when the tuple is free.
Read(k, t) ==
    /\ seen[k] = Pending
    /\ seen' = [seen EXCEPT ![k] = Served(t, entries[t])]
    /\ UNCHANGED <<entries, outcome>>

\* Requests fail without effect, several at once when the process dies.
Fail(ps, ks) ==
    /\ \A p \in ps : outcome[p] = Pending
    /\ \A k \in ks : seen[k] = Pending
    /\ outcome' = [p \in Publishers |-> IF p \in ps THEN Failed ELSE outcome[p]]
    /\ seen' = [k \in Readers |-> IF k \in ks THEN Failed ELSE seen[k]]
    /\ UNCHANGED entries

RegistryNext ==
    \/ \E p \in Publishers, t \in Tuples, d \in Digests : Create(p, t, d)
    \/ \E p \in Publishers, t \in Tuples, named \in Digests \cup {NoDigest} : Lose(p, t, named)
    \/ \E k \in Readers, t \in Tuples : Read(k, t)
    \/ \E ps \in SUBSET Publishers, ks \in SUBSET Readers : Fail(ps, ks)

RegistrySpec == RegistryInit /\ [][RegistryNext]_regVars
=============================================================================

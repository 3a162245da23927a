-------------------------- MODULE ArchiveInspection --------------------------
(***************************************************************************)
(* One pass over an uploaded archive and the rules it is judged by           *)
(* (internal/domain/archive, internal/domain/validation.go, manifest.go).      *)
(*                                                                            *)
(* Inspect opens the archive, walks its entries in order and hands each to     *)
(* consume; Validate judges what was found.  This is how Registry's Verdict    *)
(* comes about: "corrupt" is a 400, "rejected" a 422.                           *)
(***************************************************************************)
EXTENDS EntryNames, Integers

CONSTANTS Archives,             \* what clients send
          MaxEntries,           \* APM_REGISTRY_MAX_ARCHIVE_ENTRIES
          MaxUncompressed,      \* APM_REGISTRY_MAX_UNCOMPRESSED_BYTES
          MaxManifest,          \* maxManifestBytes
          MaxLinkTarget,        \* of a zip symlink's target, what is read
          RequireVersionMatch   \* APM_REGISTRY_REQUIRE_MANIFEST_VERSION_MATCH

VARIABLES archive,    \* the upload
          phase,      \* of Inspect and Validate
          found,      \* the Inspection so far
          inflated,   \* the bytes decompressed: read, and skipped to reach what follows
          failures,   \* the rules Validate reports
          verdict

vars == <<archive, phase, found, inflated, failures, verdict>>

Kinds == {"file", "dir", "symlink", "hardlink", "other"}

\* A body yields size bytes and then ends, or breaks; a zip member may not open.
Bodies == {"sound", "breaks", "closed"}

\* What is wrong with an entry's bytes read as a manifest.
Defects == {"yaml", "fields", "name", "version"}

Entry == [name : Seq(Segments), kind : Kinds, size : Nat, body : Bodies,
          defects : SUBSET Defects]

\* A tar stream may be cut behind, or inside, its last entry, and its directories and
\* links are headers only.
Archive == {a \in [format : {"zip", "targz"}, opens : BOOLEAN, entries : Seq(Entry),
                   cut : BOOLEAN] :
    /\ a.format = "zip" => ~a.cut
    /\ a.format = "targz" => \A i \in DOMAIN a.entries :
            /\ a.entries[i].body # "closed"
            /\ a.entries[i].body = "breaks" => a.cut /\ i = Len(a.entries)
            /\ a.entries[i].kind \in {"dir", "symlink", "hardlink"} => a.entries[i].size = 0
    /\ \A i \in DOMAIN a.entries : a.entries[i].name # <<>>}

ASSUME InspectionConstants ==
    /\ Archives \subseteq Archive
    /\ MaxEntries \in Nat \ {0} /\ MaxUncompressed \in Nat \ {0} /\ MaxManifest \in Nat
    /\ MaxLinkTarget \in Nat
    /\ RequireVersionMatch \in BOOLEAN

Rules == {"archive_parse", "entry_safety", "archive_limits", "manifest_present",
          "manifest_yaml", "manifest_fields", "manifest_name_match",
          "manifest_version_match"}

Inspection == [count : Nat, unsafe : SUBSET (Nat \ {0}), unreadable : SUBSET (Nat \ {0}),
               expanded : Nat, limit : {"none", "entries", "uncompressed"},
               manifest : Nat]   \* the index of the captured apm.yml, or 0

Init ==
    /\ archive \in Archives
    /\ phase = "open"
    /\ found = [count |-> 0, unsafe |-> {}, unreadable |-> {}, expanded |-> 0,
                limit |-> "none", manifest |-> 0]
    /\ inflated = [read |-> 0, skipped |-> 0]
    /\ failures = {}
    /\ verdict = "none"

Judged(v) == phase' = "done" /\ verdict' = v

Corrupt ==
    /\ Judged("corrupt")
    /\ UNCHANGED <<archive, found, inflated, failures>>

\* openZip reads the central directory, openTarGz the gzip header.
Open ==
    /\ phase = "open" /\ archive.opens
    /\ phase' = "walk"
    /\ UNCHANGED <<archive, found, inflated, failures, verdict>>

OpenFails == phase = "open" /\ ~archive.opens /\ Corrupt

-----------------------------------------------------------------------------
Unsafe(e) == e.kind \in {"symlink", "hardlink", "other"} \/ UnsafeName(e.name)
IsManifest(e) == e.kind = "file" /\ e.name = <<"apm.yml">>

HasNext == phase = "walk" /\ found.count < Len(archive.entries)
At == found.count + 1
Current == archive.entries[At]

Least(m, n) == IF m < n THEN m ELSE n

\* The rest of a body that consume did not read to its end: a zip's is not touched,
\* tar's Next decompresses it on its way to the next header.
Rest(n) == IF archive.format = "targz" THEN Current.size - n ELSE 0

\* consume returned nil after reading n bytes of the body: the walk goes on.
GoOn(f, n) ==
    /\ found' = [f EXCEPT !.count = At]
    /\ inflated' = [read |-> inflated.read + n, skipped |-> inflated.skipped + Rest(n)]
    /\ UNCHANGED <<archive, phase, failures, verdict>>

\* errLimitReached unwinds the walk; Inspect drops the error.
Stop(f, limit, n) ==
    /\ found' = [f EXCEPT !.count = At, !.limit = limit]
    /\ inflated' = [inflated EXCEPT !.read = @ + n]
    /\ phase' = "validate"
    /\ UNCHANGED <<archive, failures, verdict>>

\* checkExpansion, after the n bytes read were added.
Checked(f, n) ==
    IF f.expanded > MaxUncompressed THEN Stop(f, "uncompressed", n) ELSE GoOn(f, n)

\* zip: a member that will not open ends the walk, before consume sees it.
MemberClosed ==
    /\ HasNext
    /\ Current.kind = "file" /\ Current.body = "closed"
    /\ Corrupt

\* tar: Next fails, as it does after a body that broke.
StreamCut ==
    /\ phase = "walk" /\ found.count = Len(archive.entries)
    /\ archive.cut
    /\ Corrupt

WalkEnds ==
    /\ phase = "walk" /\ found.count = Len(archive.entries)
    /\ ~archive.cut
    /\ phase' = "validate"
    /\ UNCHANGED <<archive, found, inflated, failures, verdict>>

Opened == HasNext /\ ~(Current.kind = "file" /\ Current.body = "closed")

\* Mutant: >= for >.
OverEntriesAtCap == At >= MaxEntries

OverEntries == At > MaxEntries

\* zip: the target of a symlink is read before consume sees the entry.
LinkRead ==
    IF archive.format = "zip" /\ Current.kind = "symlink" /\ Current.body # "closed"
    THEN Least(Current.size, MaxLinkTarget) ELSE 0

TooManyEntries == Opened /\ OverEntries /\ Stop(found, "entries", LinkRead)

Consumed == Opened /\ ~OverEntries

SkipUnsafe ==
    /\ Consumed /\ Unsafe(Current)
    /\ GoOn([found EXCEPT !.unsafe = @ \cup {At}], LinkRead)

SkipDirectory == Consumed /\ ~Unsafe(Current) /\ Current.kind = "dir" /\ GoOn(found, 0)

\* A body that breaks is not noticed once the reader has all it asked for; when
\* it breaks exactly there, either may happen.
Breaks(e, wanted) == e.body = "breaks" /\ e.size <= wanted
Reads(e, wanted) == e.body = "sound" \/ e.size >= wanted

\* Mutant: the failed manifest is captured all the same.
ManifestBreaksButIsKept ==
    /\ Consumed /\ ~Unsafe(Current) /\ IsManifest(Current)
    /\ Breaks(Current, MaxManifest + 1)
    /\ GoOn([found EXCEPT !.manifest = At], Current.size)

ManifestBreaks ==
    /\ Consumed /\ ~Unsafe(Current) /\ IsManifest(Current)
    /\ Breaks(Current, MaxManifest + 1)
    /\ GoOn([found EXCEPT !.unreadable = @ \cup {At}], Current.size)

ReadManifest ==
    /\ Consumed /\ ~Unsafe(Current) /\ IsManifest(Current)
    /\ Reads(Current, MaxManifest + 1)
    /\ LET n == Least(Current.size, MaxManifest + 1) IN
           Checked([found EXCEPT !.manifest = At, !.expanded = @ + n], n)

\* Mutant: every entry gets the whole cap.
RemainingOfEach == MaxUncompressed + 1

\* Mutant: without the + 1.
RemainingToTheCap == MaxUncompressed - found.expanded

Remaining == MaxUncompressed - found.expanded + 1

FileBreaks ==
    /\ Consumed /\ ~Unsafe(Current) /\ Current.kind = "file" /\ ~IsManifest(Current)
    /\ Breaks(Current, Remaining)
    /\ GoOn([found EXCEPT !.unreadable = @ \cup {At}, !.expanded = @ + Current.size], Current.size)

ReadFile ==
    /\ Consumed /\ ~Unsafe(Current) /\ Current.kind = "file" /\ ~IsManifest(Current)
    /\ Reads(Current, Remaining)
    /\ LET n == Least(Current.size, Remaining) IN
           Checked([found EXCEPT !.expanded = @ + n], n)

-----------------------------------------------------------------------------
\* ParseManifest and the two rules about what it returned.
ManifestRules(e) ==
    IF e.size > MaxManifest \/ "yaml" \in e.defects THEN {"manifest_yaml"}
    ELSE IF "fields" \in e.defects THEN {"manifest_fields"}
    ELSE {r \in {"manifest_name_match"} : "name" \in e.defects} \cup
         {r \in {"manifest_version_match"} : RequireVersionMatch /\ "version" \in e.defects}

\* Rule 1 cannot fail here: the version was parsed before.
Failures ==
    {r \in {"archive_parse"} : found.unreadable # {}} \cup
    {r \in {"entry_safety"} : found.unsafe # {}} \cup
    {r \in {"archive_limits"} : found.limit # "none"} \cup
    IF found.manifest = 0 THEN {"manifest_present"}
    ELSE ManifestRules(archive.entries[found.manifest])

Validate ==
    /\ phase = "validate"
    /\ failures' = Failures
    /\ Judged(IF Failures = {} THEN "accepted" ELSE "rejected")
    /\ UNCHANGED <<archive, found, inflated>>

Next ==
    \/ Open \/ OpenFails \/ MemberClosed \/ StreamCut \/ WalkEnds
    \/ TooManyEntries \/ SkipUnsafe \/ SkipDirectory
    \/ ManifestBreaks \/ ReadManifest \/ FileBreaks \/ ReadFile
    \/ Validate

Spec == Init /\ [][Next]_vars

-----------------------------------------------------------------------------
\* Every variable has its type.
TypeOK ==
    /\ archive \in Archive
    /\ phase \in {"open", "walk", "validate", "done"}
    /\ found \in Inspection
    /\ inflated \in [read : Nat, skipped : Nat]
    /\ failures \subseteq Rules
    /\ verdict \in {"none", "accepted", "rejected", "corrupt"}

\* The entries of which no more than the target of a link is read.
LinksOnly == found.unsafe \cup {i \in {found.count} : found.limit = "entries"}

\* The uncompressed cap, one manifest, the bytes that tell "at the cap" from "over it",
\* and what is read of entries without being added to the sum.
ReadBound ==
    MaxUncompressed + MaxManifest + 2
        + (MaxManifest + 1) * Cardinality(found.unreadable)
        + MaxLinkTarget * Cardinality(LinksOnly)

\* What no cap counts: of a tar.gz, the body of an unsafe entry and the rest of an apm.yml
\* over its limit.
SkippedForAReason == inflated.skipped # 0 =>
    /\ archive.format = "targz"
    /\ \/ found.unsafe # {}
       \/ \E i \in 1..found.count :
             IsManifest(archive.entries[i]) /\ archive.entries[i].size > MaxManifest + 1

\* TR-13, as far as it is kept (entryrules.go:120-145, zip.go:97): what inspection itself
\* reads of the bodies stays within the cap, one manifest, two bytes, and a manifest for
\* each entry that broke and a target for each that is only skipped, of which the entry
\* cap allows no more than it says, and one more link.  What tar's Next decompresses past
\* that (targz.go:45), without a bound, is of an archive that fails the rules or of an
\* apm.yml over its limit.
ReadIsBounded ==
    /\ inflated.read <= ReadBound
    /\ found.unreadable \subseteq 1..MaxEntries /\ LinksOnly \subseteq 1..(MaxEntries + 1)
    /\ SkippedForAReason

\* FR-10: in an accepted archive every entry is safe and every file was read to its
\* end, none was left out, and the apm.yml the registry records is the last one at
\* the root and a manifest of this package and version.  Only an apm.yml that a later
\* one replaced goes unjudged.
AcceptedKeepsTheRules == verdict = "accepted" =>
    LET entries == archive.entries IN
    /\ Len(entries) <= MaxEntries /\ archive.opens /\ ~archive.cut
    /\ \A i \in DOMAIN entries :
        /\ ~Unsafe(entries[i])
        /\ entries[i].kind = "file" => IsManifest(entries[i]) \/ entries[i].body = "sound"
    /\ \E m \in DOMAIN entries :
        /\ IsManifest(entries[m]) /\ entries[m].size <= MaxManifest /\ entries[m].body = "sound"
        /\ entries[m].defects \cap {"yaml", "fields", "name"} = {}
        /\ RequireVersionMatch => "version" \notin entries[m].defects
        /\ \A i \in DOMAIN entries : IsManifest(entries[i]) => i <= m

-----------------------------------------------------------------------------
\* The rules again, each over the whole archive at once.
Files(a) == {i \in DOMAIN a.entries : a.entries[i].kind = "file"}
Manifests(a) == {i \in DOMAIN a.entries : IsManifest(a.entries[i])}

RealExpansion(a) ==
    FoldLeft(LAMBDA n, e : IF e.kind = "file" THEN n + e.size ELSE n, 0, a.entries)

BrokenRules(a) ==
    {r \in {"archive_parse"} : \E i \in Files(a) : a.entries[i].body # "sound"} \cup
    {r \in {"entry_safety"} : \E i \in DOMAIN a.entries : Unsafe(a.entries[i])} \cup
    {r \in {"archive_limits"} : Len(a.entries) > MaxEntries \/ RealExpansion(a) > MaxUncompressed} \cup
    {r \in {"manifest_present"} : Manifests(a) = {}} \cup
    UNION {ManifestRules(a.entries[i]) : i \in Manifests(a)}

\* entryrules.go:57-93 and validation.go:35-108: the walk that stops early, skips
\* and sums as it goes accepts an archive with one apm.yml exactly when the whole of
\* it keeps every rule.
VerdictIsExact == phase = "done" /\ Cardinality(Manifests(archive)) <= 1 =>
    (verdict = "accepted" <=> archive.opens /\ ~archive.cut /\ BrokenRules(archive) = {})

\* A rule named in a 422 is really broken; only "no apm.yml" may be said of an
\* archive that has one, when the walk did not reach or could not read it.
ReportedRulesAreBroken == verdict = "rejected" =>
    \A r \in failures : r \in BrokenRules(archive) \/
        (r = "manifest_present" /\ (found.limit # "none" \/ found.unreadable # {}))

\* TR-14: no archive is accepted that expands beyond the uncompressed cap.
AcceptedIsWithinTheCap == verdict = "accepted" => RealExpansion(archive) <= MaxUncompressed

\* entryrules.go:194-199: cleaning finds a name that leaves the root exactly when
\* some way along it leads above the root, even if it comes back.
EscapesIsClimbs == \A i \in DOMAIN archive.entries :
    LET name == archive.entries[i].name IN name[1] # "" => (Escapes(name) <=> Climbs(name))
=============================================================================

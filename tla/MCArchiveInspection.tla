------------------------- MODULE MCArchiveInspection -------------------------
\* Archives of up to three entries from a menu that has every kind of entry on
\* both sides of every cap, and archives of one entry with any short name.
EXTENDS ArchiveInspection

CONSTANT MaxLength

AnEntry(name, kind, size, body, defects) ==
    [name |-> name, kind |-> kind, size |-> size, body |-> body, defects |-> defects]

Root == <<"apm.yml">>
Manifest(size, body, defects) == AnEntry(Root, "file", size, body, defects)
File(size, body) == AnEntry(<<"a">>, "file", size, body, {})
Link(size, body) == AnEntry(<<"a">>, "symlink", size, body, {})
Escaping == AnEntry(<<"a", "..", "..", "a">>, "file", 2, "sound", {})

\* For archives of three entries.
Short == {Manifest(1, "sound", {}), Manifest(1, "sound", {"fields", "name"}),
          Manifest(3, "sound", {}), Manifest(2, "breaks", {}),
          File(1, "sound"), File(3, "sound"), File(4, "sound"), File(3, "breaks"), Escaping}

\* For archives of two.
Menu == Short \cup
    {Manifest(1, "sound", {"yaml"}), Manifest(1, "sound", {"name", "version"}),
     Manifest(2, "sound", {}), Manifest(1, "breaks", {}),
     File(2, "sound"), File(1, "breaks"), File(4, "breaks"),
     AnEntry(<<"a", "">>, "dir", 0, "sound", {}), Link(0, "sound"),
     AnEntry(<<"..", "a">>, "file", 20, "sound", {})}

UpTo(menu, n) == UNION {[1..k -> menu] : k \in 0..n}

Zips == {[format |-> "zip", opens |-> TRUE, entries |-> es, cut |-> FALSE] :
    es \in UpTo(Menu \cup {File(1, "closed"), Link(3, "sound"), Link(1, "closed")}, 2) \cup UpTo(Short, MaxLength)}
Tars == {a \in {[format |-> "targz", opens |-> TRUE, entries |-> es, cut |-> c] :
    c \in BOOLEAN,
    es \in UpTo(Menu \cup {AnEntry(Root, "hardlink", 0, "sound", {})}, 2) \cup UpTo(Short, MaxLength)} :
        a \in Archive}
Broken == {[format |-> f, opens |-> FALSE, entries |-> <<>>, cut |-> FALSE] :
            f \in {"zip", "targz"}}
Named == {[format |-> "zip", opens |-> TRUE, cut |-> FALSE,
           entries |-> <<AnEntry(name, "file", 1, "sound", {})>>] :
            name \in UNION {[1..k -> Segments \ {"apm.yml"}] : k \in 1..4}}

MCArchives == Zips \cup Tars \cup Broken \cup Named
=============================================================================

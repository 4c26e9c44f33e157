------------------------------- MODULE Workspace -------------------------------
(***************************************************************************)
(* Where a path of a tool call leads (crates/botroster-guest/src/tools.rs). The    *)
(* file system is a map from places to what is there; a place is the sequence of   *)
(* names from the top. What the operating system does with a path, links          *)
(* followed, is here beside what Workspace::resolve makes of it.                 *)
(***************************************************************************)
EXTENDS Integers, Sequences, SequencesExt, FiniteSetsExt

CONSTANTS Root,     \* the place of the workspace
          Nowhere   \* where a path leads that leads nowhere

Dir        == [kind |-> "dir",  to |-> <<>>, data |-> Nowhere]
Link(to)   == [kind |-> "link", to |-> to,   data |-> Nowhere]
File(data) == [kind |-> "file", to |-> <<>>, data |-> data]

MaxLinks == 3     \* links followed one after another before the system gives up

-----------------------------------------------------------------------------
(* The operating system.                                                    *)

IsDir(t, p) == p = <<>> \/ (p \in DOMAIN t /\ t[p].kind = "dir")

\* One name further: into a directory, along a link.
RECURSIVE Follow(_, _, _)
Further(t, up, name, links) ==
    IF up = Nowhere \/ ~IsDir(t, up) \/ Append(up, name) \notin DOMAIN t THEN Nowhere
    ELSE IF t[Append(up, name)].kind # "link" THEN Append(up, name)
    ELSE IF links = 0 THEN Nowhere ELSE Follow(t, t[Append(up, name)].to, links - 1)
Follow(t, p, links) == FoldLeft(LAMBDA up, name : Further(t, up, name, links), <<>>, p)

\* canonicalize: the place itself, or nothing when there is none.
Canonical(t, p) == Follow(t, p, MaxLinks)

\* symlink_metadata: there is an entry of that name, be it a link that leads nowhere.
IsEntry(t, up, name) == up # Nowhere /\ IsDir(t, up) /\ Append(up, name) \in DOMAIN t
HasEntry(t, p) == p = <<>> \/ IsEntry(t, Canonical(t, Front(p)), Last(p))

\* Where a file opened for writing is: a link is followed, even to a name not there yet.
RECURSIVE OpensAt(_, _, _)
OpensIn(t, up, name, links) ==
    IF up = Nowhere \/ ~IsDir(t, up) THEN Nowhere
    ELSE IF Append(up, name) \notin DOMAIN t \/ t[Append(up, name)].kind = "file" THEN Append(up, name)
    ELSE IF t[Append(up, name)].kind = "dir" \/ links = 0 THEN Nowhere
    ELSE OpensAt(t, t[Append(up, name)].to, links - 1)
OpensAt(t, p, links) ==
    IF p = <<>> THEN Nowhere ELSE OpensIn(t, Canonical(t, Front(p)), Last(p), links)

\* create_dir_all: Nowhere when a file is in the way.
MakeDirs(t, p) ==
    LET wanted  == {SubSeq(p, 1, n) : n \in 1 .. Len(p)}
        missing == {q \in wanted : q \notin DOMAIN t}
    IN  IF \E q \in wanted \ missing : t[q].kind # "dir" THEN Nowhere
        ELSE [q \in DOMAIN t \cup missing |-> IF q \in missing THEN Dir ELSE t[q]]

Put(t, p, entry) == [q \in DOMAIN t \cup {p} |-> IF q = p THEN entry ELSE t[q]]

-----------------------------------------------------------------------------
(* Workspace::resolve.                                                      *)

\* "." and ".." are taken away before the system sees the path.
Lexical(raw) ==
    FoldLeft(LAMBDA path, part : IF path = Nowhere THEN Nowhere
                                 ELSE IF part = "." THEN path
                                 ELSE IF part # ".." THEN Append(path, part)
                                 ELSE IF path = <<>> THEN Nowhere ELSE Front(path),
             <<>>, (IF raw.absolute THEN <<>> ELSE Root) \o raw.parts)

\* The walk up stops at the first directory entry.
DeepestEntry(t, p) == Max({n \in 0 .. Len(p) : HasEntry(t, SubSeq(p, 1, n))})

\* That part made canonical, and the rest put back behind it; nothing for a broken link.
Rejoined(t, path) ==
    UNION {{real \o SubSeq(path, n + 1, Len(path)) : real \in {Canonical(t, SubSeq(path, 1, n))} \ {Nowhere}}
             : n \in {DeepestEntry(t, path)}}

\* The one place a path stands for, if it is not refused.
Resolve(t, raw, confine) ==
    LET paths == {Lexical(raw)} \ {Nowhere}
    IN  IF ~confine THEN paths
        ELSE {full \in UNION {Rejoined(t, path) : path \in paths} : IsPrefix(Root, full)}
=============================================================================

------------------------------ MODULE Metadata ------------------------------
(***************************************************************************)
(* The metadata database (src/internal/database/sqlite.go and its schema): *)
(* tracked directories, the files found under them, the snapshots of each  *)
(* file and the contents snapshots point to. Every operation is one SQL    *)
(* transaction, hence one action; SQLite's constraints are part of it.     *)
(*                                                                         *)
(* Data: paths are the nodes of a tree given by Above. A file row holds    *)
(* its name relative to its directory; the pair determines the absolute    *)
(* path and consolidation rewrites the name so that the absolute path      *)
(* stays, so a row is modelled with the absolute path. A snapshot is a     *)
(* model value for the fields snapshotsEqual compares; ContentOf is its    *)
(* checksum. created_at is taken to grow, so history order is row order.   *)
(***************************************************************************)
EXTENDS Naturals, Sequences, SequencesExt

CONSTANTS
    Dirs,      \* directory paths
    Paths,     \* file paths
    Above,     \* <<d, p>>: directory d contains p, at any depth
    Like,      \* <<d, e>>: the SQL pattern d || '/%' matches e
    Snaps,     \* snapshots
    Contents,  \* plaintext checksums
    ContentOf, \* the checksum of each snapshot
    Null,      \* SQL NULL, or "" for a missing argument
    MaxIds,    \* bound: rows with a UUID ever created
    MaxSnaps,  \* bound: snapshots recorded per file
    MaxCiphers \* bound: encryptions, hence ciphertexts, of one content

\* Checksums of ciphertexts: encrypting is randomised, so one plaintext has many.
Ciphers == Contents \X Nat

\* Containment is a strict order in which what contains one path is a chain;
\* NULL is no checksum, and no ciphertext has the checksum of a plaintext.
WellFormed ==
    /\ Above \subseteq Dirs \X (Dirs \cup Paths)
    /\ \A d \in Dirs : <<d, d>> \notin Above
    /\ \A d, e \in Dirs, p \in Dirs \cup Paths :
          <<d, e>> \in Above /\ <<e, p>> \in Above => <<d, p>> \in Above
    /\ \A d, e \in Dirs, p \in Dirs \cup Paths :
          <<d, p>> \in Above /\ <<e, p>> \in Above =>
             d = e \/ <<d, e>> \in Above \/ <<e, d>> \in Above
    /\ Like \subseteq Dirs \X Dirs
    /\ ContentOf \in [Snaps -> Contents]
    /\ Null \notin Contents /\ \A c \in Contents \cup {Null} : c \notin Ciphers
    /\ MaxIds \in Nat /\ MaxSnaps \in Nat /\ MaxCiphers \in Nat

ASSUME MetadataAssumption == WellFormed

VARIABLES
    dirs,     \* table directories
    files,    \* table files, each with its snapshots, the last one current
    contents, \* table contents
    nextId,   \* the next UUID
    lookups   \* (directory ID, path) pairs callers were given and still hold

vars == <<dirs, files, contents, nextId, lookups>>

Directory == [id : Nat, path : Dirs, encrypted : BOOLEAN]
File == [id : Nat, dir : Nat, path : Paths, snaps : Seq(Snaps)]
Content == [id : Contents \cup Ciphers, cipher : Ciphers \cup {Null}]
Lookup == [dir : Nat, path : Paths]

Init ==
    /\ dirs = {} /\ files = {} /\ contents = {}
    /\ nextId = 0 /\ lookups = {}

-----------------------------------------------------------------------------
(* Queries                                                                 *)

\* SearchDirectoryForPath: the tracked directories that contain p, and the
\* one among them with the shortest path.
Containing(p) == {r \in dirs : <<r.path, p>> \in Above}
SearchDirectoryForPath_Longest(p) ==
    {r \in Containing(p) : \A q \in Containing(p) : q = r \/ <<q.path, r.path>> \in Above}
SearchDirectoryForPath(p) ==
    {r \in Containing(p) : \A q \in Containing(p) : q = r \/ <<r.path, q.path>> \in Above}

FilesAt(p) == {f \in files : f.path = p}
HasContent(id) == \E c \in contents : c.id = id

\* Rows may be inserted for an existing directory only (foreign key).
HasDirectory(id) == \E r \in dirs : r.id = id

-----------------------------------------------------------------------------
(* Transactions                                                            *)

\* Rows of `files` after the children of a new directory moved to it.
Moved_None(children, id) == files
Moved(children, id) ==
    {IF \E r \in children : r.id = f.dir THEN [f EXCEPT !.dir = id] ELSE f : f \in files}

\* UNIQUE(directory_id, name)
UniqueNames(fs) == \A f, g \in fs : f.dir = g.dir /\ f.path = g.path => f.id = g.id

\* Directories that CreateDirectory consolidates.
Children_Above(p) == {r \in dirs : <<r.path, p>> \in Like}
Children(p) == {r \in dirs : <<p, r.path>> \in Like}

\* BTService.AddDirectory on a path not tracked yet, and CreateDirectory: the
\* children's files move to the new directory and the children are deleted,
\* with the files they still own (ON DELETE CASCADE).
\* A tracked path is left as it is, whatever the encrypted argument.
AddDirectory(p, encrypted) ==
    /\ ~ \E r \in dirs : r.path = p
    /\ nextId < MaxIds
    /\ dirs' = (dirs \ Children(p))
                 \cup {[id |-> nextId, path |-> p, encrypted |-> encrypted]}
    /\ UniqueNames(Moved(Children(p), nextId))
    /\ files' = {f \in Moved(Children(p), nextId) : \E r \in dirs' : r.id = f.dir}
    /\ nextId' = nextId + 1
    /\ UNCHANGED contents

\* Content rows created with a snapshot, where missing.
NewContents_Swapped(content, cipher) ==
    LET rows == IF cipher = Null
                THEN {[id |-> content, cipher |-> Null]}
                ELSE {[id |-> content, cipher |-> Null], [id |-> cipher, cipher |-> content]}
    IN  {c \in rows : ~HasContent(c.id)}
NewContents(content, cipher) ==
    LET rows == IF cipher = Null
                THEN {[id |-> content, cipher |-> Null]}
                ELSE {[id |-> cipher, cipher |-> Null], [id |-> content, cipher |-> cipher]}
    IN  {c \in rows : ~HasContent(c.id)}

\* The file's rows after a snapshot: none when it equals the current one.
AddSnapshot_Always(s, snaps) == Append(snaps, s)
AddSnapshot(s, snaps) ==
    IF snaps # << >> /\ Last(snaps) = s THEN snaps ELSE Append(snaps, s)

\* CreateFileSnapshotAndContent
CreateFileSnapshotAndContent(dir, p, s, cipher) ==
    /\ HasDirectory(dir)
    /\ contents' = contents \cup NewContents(ContentOf[s], cipher)
    /\ IF \E f \in files : f.dir = dir /\ f.path = p
       THEN /\ files' = {IF f.dir = dir /\ f.path = p
                         THEN [f EXCEPT !.snaps = AddSnapshot(s, @)] ELSE f : f \in files}
            /\ UNCHANGED nextId
       ELSE /\ nextId < MaxIds
            /\ files' = files \cup {[id |-> nextId, dir |-> dir, path |-> p,
                                     snaps |-> <<s>>]}
            /\ nextId' = nextId + 1
    /\ UNCHANGED dirs

-----------------------------------------------------------------------------
(* The database under arbitrary callers: a caller looks a file up, keeps   *)
(* the directory ID as long as it likes, and records a snapshot with it.   *)

LookUp(p) ==
    /\ \E r \in SearchDirectoryForPath(p) : lookups' = lookups \cup {[dir |-> r.id, path |-> p]}
    /\ UNCHANGED <<dirs, files, contents, nextId>>

Record(l, s, cipher) ==
    /\ \A f \in FilesAt(l.path) : Len(f.snaps) < MaxSnaps
    /\ CreateFileSnapshotAndContent(l.dir, l.path, s, cipher)
    /\ UNCHANGED lookups

Forget(l) ==
    /\ lookups' = lookups \ {l}
    /\ UNCHANGED <<dirs, files, contents, nextId>>

Next ==
    \/ \E p \in Dirs, e \in BOOLEAN : AddDirectory(p, e) /\ UNCHANGED lookups
    \/ \E p \in Paths : LookUp(p)
    \/ \E l \in lookups, s \in Snaps :
          \/ Record(l, s, Null)
          \/ \E n \in 1..MaxCiphers : Record(l, s, <<ContentOf[s], n>>)
    \/ \E l \in lookups : Forget(l)

Spec == Init /\ [][Next]_vars

-----------------------------------------------------------------------------
(* Properties                                                              *)

\* The types of the tables; what a content row names as its sealed form is a ciphertext.
TypeOK ==
    /\ dirs \subseteq Directory
    /\ files \subseteq File
    /\ contents \subseteq Content
    /\ nextId \in Nat
    /\ lookups \subseteq Lookup

\* The SQL pattern matches exactly the directories below: no path holds a
\* LIKE wildcard and no two differ in case only.
BenignNames == \A d, e \in Dirs : <<d, e>> \in Like <=> <<d, e>> \in Above

\* A file on disk is one row of `files`, whatever directories were added
\* above and below it and whenever its directory was looked up: no history
\* is split over two rows.
OneFilePerPath == \A f, g \in files : f.path = g.path => f = g

\* A tracked directory inside another tracked directory owns no file: the
\* shortest-prefix search and consolidation agree on the owner.
NestedOwnNothing ==
    \A r, q \in dirs : <<r.path, q.path>> \in Above => ~ \E f \in files : f.dir = q.id

\* A file that is within a tracked directory stays within one.
CoverageKept ==
    [][\A p \in Paths : SearchDirectoryForPath(p) # {} => SearchDirectoryForPath(p)' # {}]_vars

\* Snapshots recorded for a file are never lost, moved to another file or
\* reordered, in particular not by consolidation.
History(p) == {f.snaps : f \in FilesAt(p)}
HistoryKept ==
    [][\A p \in Paths : \A h \in History(p) : \E g \in History(p)' : IsPrefix(h, g)]_vars

\* Two successive snapshots of a file differ.
NoRepeatedSnapshot ==
    \A f \in files : \A i \in 1..(Len(f.snaps) - 1) : f.snaps[i] # f.snaps[i + 1]

\* Documented at the query of CreateDirectory ("child directories that need
\* to be consolidated"): a directory stops being tracked only because one
\* that contains it is tracked instead.
ConsolidatesChildrenOnly ==
    [][\A r \in dirs \ dirs' : \E q \in dirs' : <<q.path, r.path>> \in Above]_vars
=============================================================================

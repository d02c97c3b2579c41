-------------------------------- MODULE Tree --------------------------------
(***************************************************************************)
(* Which files a command is about: `bt add` of a file or a directory, the  *)
(* ignore rules, `bt dir status`, and which versions `bt restore` finds    *)
(* (src/internal/bt/service.go, status.go, restore.go, src/internal/fs).   *)
(*                                                                         *)
(* Every other module knows a file by its absolute path. Here a file row   *)
(* and a queued operation hold what the code holds, the ID of a directory  *)
(* and the name relative to it, which consolidation rewrites.              *)
(*                                                                         *)
(* One command at a time, on behalf of a user who changes files and ignore *)
(* rules meanwhile. `add` stages one file per step; a file is backed up in *)
(* one step (module Backup has the steps) and copied whole or not at all   *)
(* (module Staging).                                                       *)
(*                                                                         *)
(* Data: a path is the sequence of its names; the state of a file on disk  *)
(* is one stamp for its bytes, mtime and size, None when it is absent; an  *)
(* ignore pattern is the set of what it matches.                           *)
(***************************************************************************)
EXTENDS Naturals, Sequences, SequencesExt

CONSTANTS
    Dirs,       \* directories
    Walk,       \* every file path, in the order of filepath.WalkDir
    Copies,     \* those among them that restore writes (*.btrestored)
    CopyOf,     \* the path restore writes, for each file and stamp
    Stamps,     \* states a file can be in
    None,       \* no state: not on disk, or never backed up
    Base,       \* ignore patterns of defaultIgnorePatterns and the configuration
    IgnoreSets, \* what a .btignore file may hold
    MaxIds,     \* bound: directory IDs ever given out
    MaxQueue,   \* bound: length of the queue when an add begins
    MaxChanges  \* bound: changes the user makes

Files == ToSet(Walk)
Sources == Files \ Copies

\* A path is a file's or a directory's; what restore writes has a name that
\* a pattern of defaultIgnorePatterns matches.
ASSUME TreeAssumption ==
    /\ Dirs \subseteq Seq(STRING)
    /\ Walk \in Seq(Seq(STRING) \ {<< >>})
    /\ Dirs \cap Files = {}
    /\ None \notin Stamps
    /\ Copies \subseteq Files
    /\ \E q \in Base : ~q.slash /\ \A f \in Copies : Last(f) \in q.of
    /\ CopyOf \in [Sources \X Stamps -> Copies]
    /\ MaxIds \in Nat /\ MaxQueue \in Nat /\ MaxChanges \in Nat

VARIABLES
    disk,     \* the state of every file
    rules,    \* the patterns in each directory's .btignore
    dirs,     \* table directories
    files,    \* table files, each with its current snapshot
    nextId,   \* the next directory ID
    queue,    \* the staging queue
    cmd,      \* the add in progress
    changes,  \* changes made so far
    recorded  \* history: the last state of every file that was backed up

userVars == <<disk, rules, changes>>
dbVars == <<dirs, files, nextId>>
vars == <<userVars, dbVars, queue, cmd, recorded>>

Idle == [pc |-> "idle"]
Found == [file : Files, stamp : Stamps]

Init ==
    /\ disk \in [Files -> Stamps \cup {None}]
    /\ \A f \in Copies : disk[f] = None
    /\ rules = [d \in Dirs |-> {}]
    /\ dirs = {} /\ files = {} /\ nextId = 0
    /\ queue = << >>
    /\ cmd = Idle
    /\ changes = 0
    /\ recorded = [f \in Files |-> None]

-----------------------------------------------------------------------------
(* Paths                                                                   *)

Inside(d, p) == IsStrictPrefix(d, p)
\* filepath.Rel, for p inside d; the empty name when they are the same.
Rel(d, p) == SubSeq(p, Len(d) + 1, Len(p))

-----------------------------------------------------------------------------
(* src/internal/fs                                                         *)

\* A pattern with a slash is matched against the path relative to the
\* directory, any other against the last name only.
Match(patterns, rel) ==
    \E q \in patterns : IF q.slash THEN rel \in q.of ELSE Last(rel) \in q.of

\* combinedMatcher
Matcher_OwnOnly(d) == IF rules[d] = {} THEN Base ELSE rules[d]
Matcher(d) == Base \cup rules[d]

IsIgnored(f, d) == Match(Matcher(d), Rel(d, f))

\* The callback of filepath.WalkDir collects the files it is to find.
Collect(found) ==
    LET result[i \in 0..Len(Walk)] ==
          IF i = 0 THEN << >>
          ELSE IF Walk[i] \in found THEN Append(result[i - 1], Walk[i]) ELSE result[i - 1]
    IN  result[Len(Walk)]

\* FindFiles: the files below d, or in d itself, in walking order.
FindFiles_Gone(d, recursive) ==
    Collect({f \in Files : /\ Inside(d, f)
                           /\ recursive \/ Len(f) = Len(d) + 1
                           /\ ~IsIgnored(f, d)})
FindFiles(d, recursive) ==
    Collect({f \in Files : /\ disk[f] # None
                           /\ Inside(d, f)
                           /\ recursive \/ Len(f) = Len(d) + 1
                           /\ ~IsIgnored(f, d)})

-----------------------------------------------------------------------------
(* The database                                                            *)

\* SearchDirectoryForPath: the tracked directory with the shortest path
\* among those that hold p or are p.
Holding(p) == {r \in dirs : r.path = p \/ Inside(r.path, p)}
Owner_Longest(p) == {r \in Holding(p) : \A q \in Holding(p) : Len(r.path) >= Len(q.path)}
Owner(p) == {r \in Holding(p) : \A q \in Holding(p) : Len(r.path) <= Len(q.path)}

\* FindDirectoryByPath, and what StageFiles and GetStatus fall back on.
Tracked(d) == {r \in dirs : r.path = d}
DirectoryFor(d) == IF Tracked(d) # {} THEN Tracked(d) ELSE Owner(d)

FindFile(r, name) == {x \in files : x.dir = r.id /\ x.name = name}

\* UpdateFileDirectoryAndName, for the files of the consolidated children.
Moved_Bare(d, children, id) ==
    {IF \E r \in children : r.id = x.dir THEN [x EXCEPT !.dir = id] ELSE x : x \in files}
Moved(d, children, id) ==
    {x \in files : \A r \in children : r.id # x.dir}
    \cup {[dir |-> id, name |-> Rel(d, y[1].path) \o y[2].name, stamp |-> y[2].stamp] :
             y \in {z \in children \X files : z[2].dir = z[1].id}}

\* CreateFileSnapshotAndContent: the file's current snapshot.
Recorded(op) ==
    {x \in files : ~(x.dir = op.dir /\ x.name = op.name)}
    \cup {[dir |-> op.dir, name |-> op.name, stamp |-> op.stamp]}

-----------------------------------------------------------------------------
(* The user                                                                *)

Changed == changes < MaxChanges /\ changes' = changes + 1

\* A file is written, touched, or removed.
ChangeFile(f, s) ==
    /\ disk[f] # s
    /\ Changed
    /\ disk' = [disk EXCEPT ![f] = s]
    /\ UNCHANGED <<rules, dbVars, queue, cmd, recorded>>

EditIgnoreFile(d, patterns) ==
    /\ rules[d] # patterns
    /\ Changed
    /\ rules' = [rules EXCEPT ![d] = patterns]
    /\ UNCHANGED <<disk, dbVars, queue, cmd, recorded>>

-----------------------------------------------------------------------------
(* Commands                                                                *)

\* bt dir init: a tracked directory is left as it is; a new one takes over
\* the directories below it.
AddDirectory(d) ==
    /\ cmd = Idle
    /\ Tracked(d) = {}
    /\ nextId < MaxIds
    /\ LET children == {r \in dirs : Inside(d, r.path)}
       IN  /\ dirs' = (dirs \ children) \cup {[id |-> nextId, path |-> d]}
           /\ files' = Moved(d, children, nextId)
    /\ nextId' = nextId + 1
    /\ UNCHANGED <<userVars, queue, cmd, recorded>>

\* What an add of a directory is to stage: for the properties.
Wanted(d, recursive) ==
    {f \in Files : /\ disk[f] # None
                   /\ IF recursive THEN Inside(d, f) ELSE Front(f) = d
                   /\ ~Match(Base \cup rules[d], Rel(d, f))}

Begin(found, wanted) ==
    cmd' = [pc |-> "add", found |-> [i \in DOMAIN found |->
                                       [file |-> found[i], stamp |-> disk[found[i]]]],
            done |-> 0, wanted |-> wanted]

\* bt add of a file: its state is the one Resolve finds.
AddFile(f) ==
    /\ cmd = Idle /\ Len(queue) < MaxQueue
    /\ disk[f] # None
    /\ Begin(<<f>>, {f})
    /\ UNCHANGED <<userVars, dbVars, queue, recorded>>

\* bt add of a directory: StageFiles up to its loop.
AddFiles(d, recursive) ==
    /\ cmd = Idle /\ Len(queue) < MaxQueue
    /\ DirectoryFor(d) # {}
    /\ Begin(FindFiles(d, recursive), Wanted(d, recursive))
    /\ UNCHANGED <<userVars, dbVars, queue, recorded>>

\* stageOneFile
Adding == cmd.pc = "add" /\ cmd.done < Len(cmd.found)
Current == cmd.found[cmd.done + 1]
Stageable(r, x) == ~IsIgnored(x.file, r.path) /\ disk[x.file] = x.stamp

StageOneFile(r) ==
    /\ Adding
    /\ r \in Owner(Current.file)
    /\ Stageable(r, Current)
    /\ queue' = Append(queue, [dir |-> r.id, name |-> Rel(r.path, Current.file),
                               stamp |-> Current.stamp, file |-> Current.file])
    /\ cmd' = [cmd EXCEPT !.done = @ + 1]
    /\ UNCHANGED <<userVars, dbVars, recorded>>

\* stageOneFile fails: the file is ignored by the rules of its tracked
\* directory, or changed since it was found, or has no such directory. The
\* files before it stay staged.
StageFails_Skip ==
    /\ Adding
    /\ \A r \in Owner(Current.file) : ~Stageable(r, Current)
    /\ cmd' = [cmd EXCEPT !.done = @ + 1]
    /\ UNCHANGED <<userVars, dbVars, queue, recorded>>
StageFails ==
    /\ Adding
    /\ \A r \in Owner(Current.file) : ~Stageable(r, Current)
    /\ cmd' = Idle
    /\ UNCHANGED <<userVars, dbVars, queue, recorded>>

AddReturns ==
    /\ cmd.pc = "add" /\ cmd.done = Len(cmd.found)
    /\ cmd' = Idle
    /\ UNCHANGED <<userVars, dbVars, queue, recorded>>

\* bt backup of the head of the queue; it fails when the directory is gone.
BackupNext ==
    /\ cmd = Idle
    /\ queue # << >>
    /\ \E r \in dirs : r.id = Head(queue).dir
    /\ files' = Recorded(Head(queue))
    /\ recorded' = [recorded EXCEPT ![Head(queue).file] = Head(queue).stamp]
    /\ queue' = Tail(queue)
    /\ UNCHANGED <<userVars, dirs, nextId, cmd>>

\* The version restore takes for the path of a file.
RestoreVersion(f) == {x.stamp : x \in UNION {FindFile(r, Rel(r.path, f)) : r \in Owner(f)}}
\* The files and versions restore takes for a tracked directory.
RestoreDirectory(r) ==
    {[file |-> r.path \o x.name, stamp |-> x.stamp] : x \in {y \in files : y.dir = r.id}}

\* bt restore of a file, or of one file of a directory: it refuses to write
\* over a file that is there.
Restore(f) ==
    /\ cmd = Idle
    /\ \E s \in RestoreVersion(f) :
          /\ disk[CopyOf[f, s]] = None
          /\ disk' = [disk EXCEPT ![CopyOf[f, s]] = s]
    /\ UNCHANGED <<rules, changes, dbVars, queue, cmd, recorded>>

Next ==
    \/ \E f \in Files, s \in Stamps \cup {None} : ChangeFile(f, s)
    \/ \E d \in Dirs, patterns \in IgnoreSets : EditIgnoreFile(d, patterns)
    \/ \E d \in Dirs : AddDirectory(d) \/ \E recursive \in BOOLEAN : AddFiles(d, recursive)
    \/ \E f \in Files : AddFile(f)
    \/ \E f \in Sources : Restore(f)
    \/ \E r \in dirs : StageOneFile(r)
    \/ StageFails \/ AddReturns \/ BackupNext

Spec == Init /\ [][Next]_vars

-----------------------------------------------------------------------------
(* bt dir status                                                           *)

\* getFileStatus, for a file on disk.
FileStatus(r, f) ==
    LET name == Rel(r.path, f)
        rows == FindFile(r, name)
    IN  [name |-> name,
         staged |-> \E i \in DOMAIN queue : queue[i].dir = r.id /\ queue[i].name = name,
         backedUp |-> rows # {},
         modified |-> \E x \in rows : x.stamp # disk[f]]

\* Rows of the database below d that are not among those found on disk.
Missing(r, d, recursive, seen) ==
    {x \in files : /\ x.dir = r.id
                   /\ Inside(Rel(r.path, d), x.name)
                   /\ recursive \/ Len(x.name) = Len(Rel(r.path, d)) + 1
                   /\ x.name \notin seen}

\* GetStatus for d, whose files are listed under the tracked directory r.
GetStatus(r, d, recursive) ==
    LET onDisk == {FileStatus(r, f) : f \in ToSet(FindFiles(d, recursive))}
    IN  onDisk \cup
        {[name |-> x.name, staged |-> FALSE, backedUp |-> TRUE, modified |-> TRUE] :
            x \in Missing(r, d, recursive, {y.name : y \in onDisk})}

-----------------------------------------------------------------------------
(* Properties                                                              *)

\* The types of the variables; what an add has found was on disk.
TypeOK ==
    /\ disk \in [Files -> Stamps \cup {None}]
    /\ rules \in [Dirs -> IgnoreSets \cup {{}}]
    /\ dirs \subseteq [id : Nat, path : Dirs]
    /\ files \subseteq [dir : Nat, name : Seq(STRING), stamp : Stamps]
    /\ nextId \in Nat /\ changes \in Nat
    /\ queue \in Seq([dir : Nat, name : Seq(STRING), stamp : Stamps, file : Files])
    /\ cmd \in {Idle} \cup [pc : {"add"}, found : Seq(Found), done : Nat, wanted : SUBSET Files]
    /\ recorded \in [Files -> Stamps \cup {None}]

\* A tracked directory inside another tracked directory: init accepts it,
\* but the files in it belong to the outer one.
Shadowed(r) == \E q \in dirs : Inside(q.path, r.path)

\* The files a status of d is about: those on disk that are not ignored, and
\* those backed up before.
Visible(f, d) == disk[f] # None /\ ~Match(Base \cup rules[d], Rel(d, f))
Listed(d, recursive) ==
    {f \in Files : /\ IF recursive THEN Inside(d, f) ELSE Front(f) = d
                   /\ Visible(f, d) \/ recorded[f] # None}

\* A file waits in the queue; and it does only under IDs of directories that
\* were consolidated away since.
InQueue(f) == \E i \in DOMAIN queue : queue[i].file = f
Orphaned(f) ==
    \A i \in DOMAIN queue : queue[i].file = f => \A r \in dirs : r.id # queue[i].dir

\* bt dir status tells the truth about the files below a directory, whatever
\* was tracked, consolidated, added, backed up, changed, removed or ignored
\* before: a row stands for a file by a directory ID and a relative name, and
\* all of these move under it. It lists the files on disk and in the history,
\* and no others; it knows which are backed up and whether they changed since,
\* one that is ignored or removed being shown as changed; what it shows as
\* staged is queued. A queued file is shown as staged, but not one that is
\* removed or ignored, and not one whose directory was consolidated since it
\* was staged: IsStaged asks for the ID of the directory the file belongs to
\* now. A directory tracked inside another one is excepted.
StatusTellsTruth ==
    \A d \in Dirs, recursive \in BOOLEAN : \A r \in DirectoryFor(d) : ~Shadowed(r) =>
        LET rows == GetStatus(r, d, recursive)
        IN  /\ {x.name : x \in rows} = {Rel(r.path, f) : f \in Listed(d, recursive)}
            /\ \A x \in rows, f \in Listed(d, recursive) : x.name = Rel(r.path, f) =>
                   /\ x.backedUp <=> recorded[f] # None
                   /\ x.modified <=> recorded[f] # None
                                     /\ (recorded[f] # disk[f] \/ ~Visible(f, d))
                   /\ x.staged => InQueue(f)
                   /\ InQueue(f) /\ Visible(f, d) /\ ~Orphaned(f) => x.staged

\* bt restore of a file finds its last backed-up version, and of a tracked
\* directory that of every file below it, across consolidation; excepted a
\* directory tracked inside another one.
LastVersions(d) ==
    {[file |-> f, stamp |-> recorded[f]] : f \in {g \in Files : Inside(d, g) /\ recorded[g] # None}}
RestoreFindsLast ==
    /\ \A f \in Files : RestoreVersion(f) = {recorded[f]} \ {None}
    /\ \A r \in dirs : ~Shadowed(r) => RestoreDirectory(r) = LastVersions(r.path)

\* Documented for Restore ("If absPath matches a tracked directory exactly,
\* all files in that directory are restored").
RestoresWholeDirectory == \A r \in dirs : RestoreDirectory(r) = LastVersions(r.path)

\* An add that returns without error has staged every file it was asked for,
\* once, in the state it was found in: what it found when it began and every
\* step since make up the end of the queue.
AddComplete ==
    cmd.pc = "add" /\ cmd.done = Len(cmd.found) =>
        LET n == Len(queue) - cmd.done
        IN  /\ cmd.done <= Len(queue)
            /\ cmd.wanted = {queue[i].file : i \in (n + 1)..Len(queue)}
            /\ \A i \in 1..cmd.done : /\ queue[n + i].file = cmd.found[i].file
                                      /\ queue[n + i].stamp = cmd.found[i].stamp

\* What restore writes is never staged or backed up in its turn, whatever a
\* .btignore file says and whether it is found or named.
CopiesStayOut ==
    \A f \in Copies : /\ recorded[f] = None
                      /\ \A i \in DOMAIN queue : queue[i].file # f
=============================================================================

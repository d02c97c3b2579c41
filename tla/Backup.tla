------------------------------- MODULE Backup -------------------------------
(***************************************************************************)
(* BTService (src/internal/bt/service.go): the dir init, add and backup    *)
(* commands over the staging queue, the metadata database and the vault.   *)
(*                                                                         *)
(* One bt command runs at a time (TODO.md asks for a lock file to enforce  *)
(* that). init and add are one action; backup is one action per call that  *)
(* leaves something behind, and can stop at each of them, because a call   *)
(* failed or because the process was killed: what it had in memory is gone *)
(* and the queue, the database and the vault are as the last call left     *)
(* them. queue.json is rewritten in place, by a stage and by a commit: a   *)
(* kill or a full disk in the rewrite leaves a file that no longer parses, *)
(* and from then on every call that reads it fails. The staging area is    *)
(* that of module Staging for a single client, the database is module      *)
(* Metadata.                                                               *)
(***************************************************************************)
EXTENDS Naturals, Sequences, SequencesExt, FiniteSets

CONSTANTS
    Dirs, Paths, Above, Like, Snaps, Contents, ContentOf, Null,
    MaxIds, MaxSnaps, MaxCiphers,   \* as in Metadata
    MaxDirs,    \* bound: AddDirectory is not called once that many IDs are used
    MaxStaged,  \* bound: files ever staged
    MaxRejects, \* bound: Stage calls that fail after storing the content
    MaxStops    \* bound: commands that are killed or fail in a call that changes state

VARIABLES
    dirs, files, contents, nextId, \* the database, as in Metadata
    queue,    \* queue.json; what it held last, when it cannot be read any more
    readable, \* queue.json parses
    stored,   \* checksums in the staging area's content directory
    vault,    \* checksums in the vault
    proc,     \* the backup command in progress
    ciphers,  \* encryptions made so far
    count,    \* [staged, rejected, stopped], for the bounds
    recorded  \* history: the head of the queue is in the database already

dbVars == <<dirs, files, contents, nextId>>
vars == <<dbVars, queue, readable, stored, vault, proc, ciphers, count, recorded>>

Ops == [dir : Nat, path : Paths, snap : Snaps]
Held(q) == {[dir |-> q[i].dir, path |-> q[i].path] : i \in DOMAIN q}

\* The database; the directory IDs its caller still holds are those of the queue.
M == INSTANCE Metadata WITH lookups <- Held(queue)

ASSUME BackupAssumption ==
    /\ M!WellFormed
    /\ MaxDirs \in Nat /\ MaxStaged \in Nat /\ MaxRejects \in Nat /\ MaxStops \in Nat
    /\ MaxSnaps > MaxStaged

Idle == [pc |-> "idle"]
Sum(op) == ContentOf[op.snap]
Needed(q) == {Sum(q[i]) : i \in DOMAIN q}

Init ==
    /\ queue = << >> /\ readable = TRUE /\ stored = {} /\ vault = {}
    /\ M!Init
    /\ proc = Idle
    /\ ciphers = 0
    /\ count = [staged |-> 0, rejected |-> 0, stopped |-> 0]
    /\ recorded = FALSE

-----------------------------------------------------------------------------
(* bt dir init, bt add                                                     *)

AddDirectory(p, encrypted) ==
    /\ proc = Idle
    /\ nextId < MaxDirs
    /\ M!AddDirectory(p, encrypted)
    /\ UNCHANGED <<queue, readable, stored, vault, proc, ciphers, count, recorded>>

\* stageOneFile: the directory is looked up now, its ID kept in the queue.
Stage_Any(p, s) ==
    /\ proc = Idle /\ readable
    /\ count.staged < MaxStaged
    /\ \E r \in M!Containing(p) :
          queue' = Append(queue, [dir |-> r.id, path |-> p, snap |-> s])
    /\ stored' = stored \cup {ContentOf[s]}
    /\ count' = [count EXCEPT !.staged = @ + 1]
    /\ UNCHANGED <<dbVars, readable, vault, proc, ciphers, recorded>>
Stage(p, s) ==
    /\ proc = Idle /\ readable
    /\ count.staged < MaxStaged
    /\ \E r \in M!SearchDirectoryForPath(p) :
          queue' = Append(queue, [dir |-> r.id, path |-> p, snap |-> s])
    /\ stored' = stored \cup {ContentOf[s]}
    /\ count' = [count EXCEPT !.staged = @ + 1]
    /\ UNCHANGED <<dbVars, readable, vault, proc, ciphers, recorded>>

\* The file changed while it was read, the staging area is full, or the queue
\* cannot be read: the content just stored is removed again.
StageRejected(p, s) ==
    /\ proc = Idle
    /\ count.rejected < MaxRejects
    /\ M!SearchDirectoryForPath(p) # {}
    /\ stored' = stored \ {ContentOf[s]}
    /\ count' = [count EXCEPT !.rejected = @ + 1]
    /\ UNCHANGED <<dbVars, queue, readable, vault, proc, ciphers, recorded>>

\* Stage is killed before the append, or in the rewrite of queue.json, or the
\* rewrite fails.
StageStops(p, s) ==
    /\ proc = Idle /\ readable
    /\ count.stopped < MaxStops
    /\ M!SearchDirectoryForPath(p) # {}
    /\ \/ stored' = stored \cup {ContentOf[s]} /\ readable' \in BOOLEAN
       \/ stored' = stored \ {ContentOf[s]} /\ readable' = FALSE
    /\ count' = [count EXCEPT !.stopped = @ + 1]
    /\ UNCHANGED <<dbVars, queue, vault, proc, ciphers, recorded>>

-----------------------------------------------------------------------------
(* bt backup: BackupAll, ProcessNext and backupFile                        *)

Goto(p) == proc' = p

BackupAll ==
    /\ proc = Idle
    /\ queue # << >>
    /\ Goto([pc |-> "loop"])
    /\ UNCHANGED <<dbVars, queue, readable, stored, vault, ciphers, count, recorded>>

\* The queue is empty or cannot be read, or its head's content cannot be opened.
LoopEnds ==
    /\ proc.pc = "loop"
    /\ queue # << >> /\ readable => Sum(Head(queue)) \notin stored
    /\ Goto(Idle)
    /\ UNCHANGED <<dbVars, queue, readable, stored, vault, ciphers, count, recorded>>

Peek ==
    /\ proc.pc = "loop"
    /\ queue # << >> /\ readable
    /\ Sum(Head(queue)) \in stored
    /\ Goto([pc |-> "opened", op |-> Head(queue)])
    /\ UNCHANGED <<dbVars, queue, readable, stored, vault, ciphers, count, recorded>>

\* A content the database knows is in the vault already, sealed or not.
Dedup ==
    /\ proc.pc = "opened"
    /\ M!HasContent(Sum(proc.op))
    /\ Goto([pc |-> "record", op |-> proc.op, cipher |-> Null])
    /\ UNCHANGED <<dbVars, queue, readable, stored, vault, ciphers, count, recorded>>

\* FindDirectoryByID finds nothing: the directory was consolidated away.
DirectoryGone ==
    /\ proc.pc = "opened"
    /\ ~M!HasContent(Sum(proc.op))
    /\ ~M!HasDirectory(proc.op.dir)
    /\ Goto(Idle)
    /\ UNCHANGED <<dbVars, queue, readable, stored, vault, ciphers, count, recorded>>

\* New content: encrypted to a temporary file when the directory asks for it.
Prepare ==
    /\ proc.pc = "opened"
    /\ ~M!HasContent(Sum(proc.op))
    /\ \E r \in dirs :
          /\ r.id = proc.op.dir
          /\ IF r.encrypted
             THEN /\ ciphers < MaxCiphers
                  /\ ciphers' = ciphers + 1
                  /\ Goto([pc |-> "put", op |-> proc.op,
                           cipher |-> <<Sum(proc.op), ciphers + 1>>])
             ELSE /\ UNCHANGED ciphers
                  /\ Goto([pc |-> "put", op |-> proc.op, cipher |-> Null])
    /\ UNCHANGED <<dbVars, queue, readable, stored, vault, count, recorded>>

\* The key PutContent is called with.
VaultKey_Cipher == proc.cipher
VaultKey == IF proc.cipher = Null THEN Sum(proc.op) ELSE proc.cipher

PutContent_Late ==
    /\ proc.pc = "put"
    /\ Goto([proc EXCEPT !.pc = "record"])
    /\ UNCHANGED <<dbVars, queue, readable, stored, vault, ciphers, count, recorded>>
PutContent ==
    /\ proc.pc = "put"
    /\ vault' = vault \cup {VaultKey}
    /\ Goto([proc EXCEPT !.pc = "record"])
    /\ UNCHANGED <<dbVars, queue, readable, stored, ciphers, count, recorded>>

\* PutContent fails, with or without the content in place.
PutFails ==
    /\ proc.pc = "put"
    /\ count.stopped < MaxStops
    /\ vault' = vault \cup {VaultKey}
    /\ count' = [count EXCEPT !.stopped = @ + 1]
    /\ Goto(Idle)
    /\ UNCHANGED <<dbVars, queue, readable, stored, ciphers, recorded>>

Record ==
    /\ proc.pc = "record"
    /\ M!CreateFileSnapshotAndContent(proc.op.dir, proc.op.path, proc.op.snap, proc.cipher)
    /\ recorded' = TRUE
    /\ Goto([pc |-> "recorded", op |-> proc.op])
    /\ UNCHANGED <<queue, readable, stored, vault, ciphers, count>>

\* A new row for a directory that is gone: the foreign key fails.
RecordFails ==
    /\ proc.pc = "record"
    /\ ~M!HasDirectory(proc.op.dir)
    /\ Goto(Idle)
    /\ UNCHANGED <<dbVars, queue, readable, stored, vault, ciphers, count, recorded>>

\* ProcessNext commits: Pop, and RemoveContent unless another operation
\* needs it; then BackupAll goes round.
Commit_Keep ==
    /\ proc.pc = "recorded"
    /\ recorded' = FALSE
    /\ Goto([pc |-> "loop"])
    /\ UNCHANGED <<dbVars, queue, readable, stored, vault, ciphers, count>>
Commit_Discard ==
    /\ proc.pc = "recorded"
    /\ queue' = Tail(queue)
    /\ stored' = stored \ {Sum(proc.op)}
    /\ recorded' = FALSE
    /\ Goto([pc |-> "loop"])
    /\ UNCHANGED <<dbVars, readable, vault, ciphers, count>>
Commit ==
    /\ proc.pc = "recorded"
    /\ queue' = Tail(queue)
    /\ stored' = IF Sum(proc.op) \in Needed(queue') THEN stored
                 ELSE stored \ {Sum(proc.op)}
    /\ recorded' = FALSE
    /\ Goto([pc |-> "loop"])
    /\ UNCHANGED <<dbVars, readable, vault, ciphers, count>>

\* The commit is killed in the rewrite of queue.json, or the rewrite fails; or
\* it is killed after Pop, and the content stays.
CommitStops ==
    /\ proc.pc = "recorded"
    /\ count.stopped < MaxStops
    /\ \/ readable' = FALSE /\ UNCHANGED <<queue, recorded>>
       \/ queue' = Tail(queue) /\ recorded' = FALSE /\ UNCHANGED readable
    /\ count' = [count EXCEPT !.stopped = @ + 1]
    /\ Goto(Idle)
    /\ UNCHANGED <<dbVars, stored, vault, ciphers>>

\* Any call returns an error, which ends the command, or the process dies.
Stop ==
    /\ proc # Idle
    /\ count.stopped < MaxStops
    /\ count' = [count EXCEPT !.stopped = @ + 1]
    /\ Goto(Idle)
    /\ UNCHANGED <<dbVars, queue, readable, stored, vault, ciphers, recorded>>

BackupStep ==
    \/ BackupAll \/ LoopEnds \/ Peek \/ Dedup \/ DirectoryGone \/ Prepare
    \/ PutContent \/ Record \/ RecordFails \/ Commit

Next ==
    \/ \E p \in Dirs, e \in BOOLEAN : AddDirectory(p, e)
    \/ \E p \in Paths, s \in Snaps : Stage(p, s) \/ StageRejected(p, s) \/ StageStops(p, s)
    \/ BackupStep
    \/ PutFails \/ CommitStops \/ Stop

Spec == Init /\ [][Next]_vars

\* bt backup is run again as long as something is staged, and runs on.
FairSpec == Spec /\ WF_vars(BackupStep)

-----------------------------------------------------------------------------
(* Properties                                                              *)

\* The types of the variables; what is uploaded in place of a content is a ciphertext.
TypeOK ==
    /\ M!TypeOK
    /\ queue \in Seq(Ops)
    /\ stored \subseteq Contents
    /\ vault \subseteq Contents \cup M!Ciphers
    /\ proc \in [pc : {"idle", "loop"}] \cup [pc : {"opened", "recorded"}, op : Ops]
                \cup [pc : {"put", "record"}, op : Ops, cipher : M!Ciphers \cup {Null}]
    /\ ciphers \in 0..MaxCiphers
    /\ count \in [staged : 0..MaxStaged, rejected : 0..MaxRejects, stopped : 0..MaxStops]
    /\ recorded \in BOOLEAN /\ readable \in BOOLEAN

\* Every snapshot in the database can be restored: its content row leads,
\* directly or through one encrypted content, to bytes the vault holds,
\* wherever a backup was interrupted.
Restorable ==
    \A f \in files : \A i \in DOMAIN f.snaps :
        \E c \in contents :
            /\ c.id = ContentOf[f.snaps[i]]
            /\ IF c.cipher = Null THEN c.id \in vault
               ELSE c.cipher \in vault /\ c.cipher[1] = c.id

\* The code implements VersionStore: what is pending there is the queue,
\* less a head that is recorded and not yet popped; a crash between the
\* database commit and the pop never makes a second version.
Pending ==
    LET q == IF recorded THEN Tail(queue) ELSE queue
    IN  [i \in DOMAIN q |-> [path |-> q[i].path, snap |-> q[i].snap]]
Versions ==
    [p \in Paths |-> IF M!FilesAt(p) = {} THEN << >>
                     ELSE (CHOOSE f \in M!FilesAt(p) : TRUE).snaps]
VS == INSTANCE VersionStore WITH pending <- Pending, versions <- Versions
ImplementsVersionStore == VS!Spec

\* The service uses the database as Metadata allows: what is shown there of
\* every sequence of transactions holds of the ones bt add and bt backup make.
ImplementsMetadata == M!Spec

\* Documented for bt backup ("Processes all staged operations"): whatever is
\* staged is backed up in the end.
EventuallyBackedUp == (queue # << >>) ~> (queue = << >>)

\* Whatever is staged is backed up in the end, unless the head of the queue
\* was staged in a directory consolidated since, a rejected file took a staged
\* content with it, or a kill or a full disk tore queue.json in the rewrite of
\* a stage or a pop: nothing else blocks the queue for good, no other kill, and
\* no failure of the vault or of the database.
DirectoryLost == queue # << >> /\ ~M!HasDirectory(Head(queue).dir)
BackedUpUnlessBlocked ==
    (queue # << >>) ~> (queue = << >> \/ DirectoryLost \/ count.rejected > 0 \/ ~readable)

\* Every bt backup ends, the ones that find their queue blocked included.
BackupEnds == (proc # Idle) ~> (proc = Idle)

\* Documented for encrypted directories ("files in this directory are
\* encrypted"): the content of a file below one is encrypted in the vault. It
\* is not when the content was backed up from a plain directory first, nor in
\* an encrypted directory tracked inside a plain one, which owns no file.
EncryptedDirSealed ==
    \A f \in files, r \in dirs : <<r.path, f.path>> \in Above /\ r.encrypted =>
        \A c \in contents : c.id = ContentOf[Last(f.snaps)] => c.cipher # Null
=============================================================================

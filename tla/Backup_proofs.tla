---------------------------- MODULE Backup_proofs ----------------------------
(***************************************************************************)
(* Proofs about module Backup, for any tree of paths, any snapshots and    *)
(* any bounds: types, that every recorded version can be restored, and     *)
(* that the service implements Metadata and VersionStore. What is proved   *)
(* of Metadata is used through the instance MP of its proofs.              *)
(***************************************************************************)
EXTENDS Backup, SequenceTheorems, TLAPS

MP == INSTANCE Metadata_proofs WITH lookups <- Held(queue)

-----------------------------------------------------------------------------
(* The instances M and MP                                                  *)

\* Both are the database with the same tables: what MP proves is about M.
LEMMA SameConstants == MP!WellFormed /\ (M!BenignNames <=> MP!BenignNames)
<1>1. M!WellFormed
    BY BackupAssumption
<1>2. M!Ciphers = MP!Ciphers
    BY DEF M!Ciphers, MP!Ciphers
<1> QED
    BY <1>1, <1>2 DEF M!WellFormed, MP!WellFormed, M!BenignNames, MP!BenignNames

LEMMA SameTypes ==
    /\ M!Ciphers = MP!Ciphers /\ M!Content = MP!Content
    /\ M!TypeOK <=> MP!TypeOK
BY DEF M!Ciphers, MP!Ciphers, M!Content, MP!Content, M!TypeOK, MP!TypeOK,
       M!Directory, MP!Directory, M!File, MP!File, M!Lookup, MP!Lookup

LEMMA SameTransactions ==
    /\ \A p \in Dirs, e \in BOOLEAN : M!AddDirectory(p, e) <=> MP!AddDirectory(p, e)
    /\ \A d \in Nat, p \in Paths, s \in Snaps, x \in M!Ciphers \cup {Null} :
          M!CreateFileSnapshotAndContent(d, p, s, x) <=> MP!CreateFileSnapshotAndContent(d, p, s, x)
    /\ \A p \in Paths : M!SearchDirectoryForPath(p) = MP!SearchDirectoryForPath(p)
<1>1. \A p : M!Children(p) = MP!Children(p)
    BY DEF M!Children, MP!Children
<1>2. \A p, id : M!Moved(M!Children(p), id) = MP!Moved(MP!Children(p), id)
    BY <1>1 DEF M!Moved, MP!Moved
<1>3. \A fs : M!UniqueNames(fs) <=> MP!UniqueNames(fs)
    BY DEF M!UniqueNames, MP!UniqueNames
<1>4. \A id : M!HasDirectory(id) <=> MP!HasDirectory(id)
    BY DEF M!HasDirectory, MP!HasDirectory
<1>5. \A x, y : M!NewContents(x, y) = MP!NewContents(x, y)
    BY DEF M!NewContents, MP!NewContents, M!HasContent, MP!HasContent
<1>6. \A x, y : M!AddSnapshot(x, y) = MP!AddSnapshot(x, y)
    BY DEF M!AddSnapshot, MP!AddSnapshot, M!Last, MP!Last
<1>7. \A p \in Dirs, e \in BOOLEAN : M!AddDirectory(p, e) <=> MP!AddDirectory(p, e)
    BY <1>1, <1>2, <1>3 DEF M!AddDirectory, MP!AddDirectory
<1>8. \A d \in Nat, p \in Paths, s \in Snaps, x \in M!Ciphers \cup {Null} :
          M!CreateFileSnapshotAndContent(d, p, s, x) <=> MP!CreateFileSnapshotAndContent(d, p, s, x)
    BY <1>4, <1>5, <1>6 DEF M!CreateFileSnapshotAndContent, MP!CreateFileSnapshotAndContent
<1>9. \A p \in Paths : M!SearchDirectoryForPath(p) = MP!SearchDirectoryForPath(p)
    BY DEF M!SearchDirectoryForPath, MP!SearchDirectoryForPath, M!Containing, MP!Containing
<1> QED
    BY <1>7, <1>8, <1>9

-----------------------------------------------------------------------------
(* Types                                                                   *)

\* A backup command works at the head of the queue.
Working == proc.pc \in {"opened", "put", "record", "recorded"}
AtHead == /\ Working => queue # << >> /\ proc.op = Head(queue)
          /\ proc.pc = "recorded" => recorded

\* The head and the tail of the queue.
LEMMA QueueParts ==
    ASSUME queue \in Seq(Ops), queue # << >>
    PROVE  /\ Head(queue) \in Ops /\ Tail(queue) \in Seq(Ops)
           /\ Len(queue) \in Nat \ {0} /\ Len(Tail(queue)) = Len(queue) - 1
           /\ Head(queue) = queue[1]
           /\ \A i \in 1..Len(Tail(queue)) : Tail(queue)[i] = queue[i + 1]
BY HeadTailProperties, LenProperties

LEMMA HeldTyped == ASSUME NEW q \in Seq(Ops) PROVE Held(q) \subseteq M!Lookup
<1>1. \A i \in DOMAIN q : q[i] \in Ops
    BY ElementOfSeq
<1> QED
    BY <1>1 DEF Held, M!Lookup, Ops

\* What a search finds is a tracked directory.
LEMMA FoundTyped ==
    ASSUME M!TypeOK, NEW p \in Paths, NEW r \in M!SearchDirectoryForPath(p)
    PROVE  r \in dirs /\ r.id \in Nat
BY DEF M!SearchDirectoryForPath, M!Containing, M!TypeOK, M!Directory

\* What the command in progress holds at each program counter.
LEMMA ProcTyped ==
    ASSUME TypeOK
    PROVE  /\ proc.pc \in {"idle", "loop", "opened", "put", "record", "recorded"}
           /\ proc # Idle <=> proc.pc # "idle"
           /\ proc.pc \in {"opened", "put", "record", "recorded"} =>
                 proc.op \in Ops /\ Sum(proc.op) \in Contents
           /\ proc.pc \in {"put", "record"} =>
                 /\ proc \in [pc : {"put", "record"}, op : Ops, cipher : M!Ciphers \cup {Null}]
                 /\ proc.cipher \in M!Ciphers \cup {Null}
<1>1. CASE proc \in [pc : {"idle", "loop"}]
    BY <1>1 DEF Idle
<1>2. CASE proc \in [pc : {"opened", "recorded"}, op : Ops]
    BY <1>2, BackupAssumption DEF Idle, Ops, Sum, M!WellFormed
<1>3. CASE proc \in [pc : {"put", "record"}, op : Ops, cipher : M!Ciphers \cup {Null}]
    BY <1>3, BackupAssumption DEF Idle, Ops, Sum, M!WellFormed
<1> QED
    BY <1>1, <1>2, <1>3 DEF TypeOK

LEMMA TypeInit == Init => TypeOK
<1> SUFFICES ASSUME Init PROVE TypeOK
    OBVIOUS
<1>1. queue \in Seq(Ops) /\ Held(queue) = {}
    BY DEF Init, Held
<1>2. M!TypeOK
    BY <1>1 DEF Init, M!Init, M!TypeOK
<1>3. ciphers \in 0..MaxCiphers /\ proc \in [pc : {"idle", "loop"}]
    BY BackupAssumption DEF Init, Idle, M!WellFormed
<1>4. count \in [staged : 0..MaxStaged, rejected : 0..MaxRejects, stopped : 0..MaxStops]
    BY BackupAssumption DEF Init
<1> QED
    BY <1>1, <1>2, <1>3, <1>4 DEF Init, TypeOK

LEMMA TypeNext == TypeOK /\ AtHead /\ [Next]_vars => TypeOK'
<1> SUFFICES ASSUME TypeOK, AtHead, [Next]_vars PROVE TypeOK'
    OBVIOUS
<1> USE DEF TypeOK
<1>1. ASSUME NEW p \in Dirs, NEW e \in BOOLEAN, AddDirectory(p, e) PROVE TypeOK'
  <2>1. dirs' \subseteq MP!Directory /\ files' \subseteq MP!File /\ nextId' \in Nat
    BY <1>1, SameConstants, SameTypes, SameTransactions, MP!AddDirectoryTyped DEF AddDirectory
  <2>2. M!TypeOK'
    BY <1>1, <2>1 DEF AddDirectory, M!AddDirectory, M!TypeOK, M!Directory, MP!Directory,
                      M!File, MP!File, Held
  <2> QED
    BY <1>1, <2>2 DEF AddDirectory
<1>2. ASSUME NEW p \in Paths, NEW s \in Snaps, Stage(p, s) PROVE TypeOK'
  <2>1. PICK r \in M!SearchDirectoryForPath(p) :
            queue' = Append(queue, [dir |-> r.id, path |-> p, snap |-> s])
    BY <1>2 DEF Stage
  <2>2. queue' \in Seq(Ops)
    BY <2>1, FoundTyped, AppendProperties DEF Ops
  <2>3. M!TypeOK'
    BY <1>2, <2>2, HeldTyped DEF Stage, dbVars, M!TypeOK
  <2>4. ContentOf[s] \in Contents
    BY BackupAssumption DEF M!WellFormed
  <2>5. count' \in [staged : 0..MaxStaged, rejected : 0..MaxRejects, stopped : 0..MaxStops]
    BY <1>2, BackupAssumption DEF Stage
  <2> QED
    BY <1>2, <2>2, <2>3, <2>4, <2>5 DEF Stage, dbVars
<1>3. ASSUME NEW p \in Paths, NEW s \in Snaps, StageRejected(p, s) \/ StageStops(p, s)
      PROVE  TypeOK'
  <2>1. M!TypeOK'
    BY <1>3 DEF StageRejected, StageStops, dbVars, M!TypeOK
  <2>2. count' \in [staged : 0..MaxStaged, rejected : 0..MaxRejects, stopped : 0..MaxStops]
    BY <1>3, BackupAssumption DEF StageRejected, StageStops
  <2>3. stored' \subseteq Contents /\ readable' \in BOOLEAN
    BY <1>3, BackupAssumption DEF StageRejected, StageStops, M!WellFormed
  <2> QED
    BY <1>3, <2>1, <2>2, <2>3 DEF StageRejected, StageStops, dbVars
<1>4. UNCHANGED <<dbVars, queue>> => M!TypeOK'
    BY DEF dbVars, M!TypeOK
<1>5. CASE BackupAll \/ LoopEnds
    BY <1>4, <1>5 DEF BackupAll, LoopEnds, Goto, Idle, dbVars
<1>6. CASE Peek
  <2>1. proc' \in [pc : {"opened", "recorded"}, op : Ops]
    BY <1>6, QueueParts DEF Peek, Goto
  <2> QED
    BY <1>4, <1>6, <2>1 DEF Peek, dbVars
<1>7. CASE Dedup
  <2>1. proc' \in [pc : {"put", "record"}, op : Ops, cipher : M!Ciphers \cup {Null}]
    BY <1>7, ProcTyped DEF Dedup, Goto
  <2> QED
    BY <1>4, <1>7, <2>1 DEF Dedup, dbVars
<1>8. CASE DirectoryGone \/ RecordFails
    BY <1>4, <1>8 DEF DirectoryGone, RecordFails, Goto, Idle, dbVars
<1>9. CASE Prepare
  <2>1. PICK r \in dirs : IF r.encrypted
             THEN /\ ciphers < MaxCiphers
                  /\ ciphers' = ciphers + 1
                  /\ Goto([pc |-> "put", op |-> proc.op,
                           cipher |-> <<Sum(proc.op), ciphers + 1>>])
             ELSE /\ UNCHANGED ciphers
                  /\ Goto([pc |-> "put", op |-> proc.op, cipher |-> Null])
    BY <1>9 DEF Prepare
  <2>2. ciphers' \in 0..MaxCiphers /\ ciphers + 1 \in Nat
    BY <2>1, BackupAssumption DEF M!WellFormed
  <2>3. proc.op \in Ops /\ Sum(proc.op) \in Contents
    BY <1>9, ProcTyped DEF Prepare
  <2>4. <<Sum(proc.op), ciphers + 1>> \in M!Ciphers
    BY <2>2, <2>3 DEF M!Ciphers
  <2>5. proc' \in [pc : {"put", "record"}, op : Ops, cipher : M!Ciphers \cup {Null}]
    BY <2>1, <2>3, <2>4 DEF Goto
  <2> QED
    BY <1>4, <1>9, <2>2, <2>5 DEF Prepare, dbVars
<1>10. CASE PutContent \/ PutFails
  <2>1. VaultKey \in Contents \cup M!Ciphers
    BY <1>10, ProcTyped DEF PutContent, PutFails, VaultKey
  <2>2. [proc EXCEPT !.pc = "record"] \in [pc : {"put", "record"}, op : Ops,
                                           cipher : M!Ciphers \cup {Null}]
    BY <1>10, ProcTyped DEF PutContent, PutFails
  <2>3. CASE PutContent
    BY <1>4, <2>1, <2>2, <2>3 DEF PutContent, Goto, dbVars
  <2>4. CASE PutFails
    <3>1. count' \in [staged : 0..MaxStaged, rejected : 0..MaxRejects, stopped : 0..MaxStops]
      BY <2>4, BackupAssumption DEF PutFails
    <3> QED
      BY <1>4, <2>1, <2>4, <3>1 DEF PutFails, Goto, Idle, dbVars
  <2> QED
    BY <1>10, <2>3, <2>4
<1>11. CASE Stop
  <2>1. count' \in [staged : 0..MaxStaged, rejected : 0..MaxRejects, stopped : 0..MaxStops]
    BY <1>11, BackupAssumption DEF Stop
  <2> QED
    BY <1>4, <1>11, <2>1 DEF Stop, Goto, Idle, dbVars
<1>12. CASE Record
  <2>1. /\ proc.op \in Ops /\ proc.cipher \in MP!Ciphers \cup {Null}
        /\ proc.op.dir \in Nat /\ proc.op.path \in Paths /\ proc.op.snap \in Snaps
    BY <1>12, ProcTyped, SameTypes DEF Record, Ops
  <2>2. MP!CreateFileSnapshotAndContent(proc.op.dir, proc.op.path, proc.op.snap, proc.cipher)
    BY <1>12, <2>1, SameTransactions, SameTypes DEF Record
  <2>3. files' \subseteq MP!File /\ contents' \subseteq MP!Content /\ nextId' \in Nat
    BY <2>1, <2>2, SameConstants, SameTypes, MP!RecordTyped
  <2>4. M!TypeOK'
    BY <1>12, <2>3, SameTypes DEF Record, M!CreateFileSnapshotAndContent, M!TypeOK,
                      M!File, MP!File, Held
  <2> QED
    BY <1>12, <2>1, <2>4 DEF Record, Goto
<1>13. CASE Commit
  <2>1. queue # << >>
    BY <1>13 DEF Commit, AtHead, Working
  <2>2. queue' \in Seq(Ops)
    BY <1>13, <2>1, QueueParts DEF Commit
  <2>3. M!TypeOK'
    BY <1>13, <2>2, HeldTyped DEF Commit, dbVars, M!TypeOK
  <2> QED
    BY <1>13, <2>2, <2>3 DEF Commit, Goto, dbVars
<1>14. CASE CommitStops
  <2>1. queue # << >> /\ (queue' = queue \/ queue' = Tail(queue))
    BY <1>14 DEF CommitStops, AtHead, Working
  <2>2. queue' \in Seq(Ops)
    BY <2>1, QueueParts
  <2>3. M!TypeOK'
    BY <1>14, <2>2, HeldTyped DEF CommitStops, dbVars, M!TypeOK
  <2>4. count' \in [staged : 0..MaxStaged, rejected : 0..MaxRejects, stopped : 0..MaxStops]
    BY <1>14, BackupAssumption DEF CommitStops
  <2>5. readable' \in BOOLEAN /\ recorded' \in BOOLEAN
    BY <1>14 DEF CommitStops
  <2> QED
    BY <1>14, <2>2, <2>3, <2>4, <2>5 DEF CommitStops, Goto, Idle, dbVars
<1>15. CASE UNCHANGED vars
    BY <1>4, <1>15 DEF vars, dbVars
<1> QED
    BY <1>1, <1>2, <1>3, <1>5, <1>6, <1>7, <1>8, <1>9, <1>10, <1>11, <1>12, <1>13, <1>14, <1>15
       DEF Next, BackupStep

\* Only Stage, Commit and CommitStops touch the queue, and neither while an operation is
\* in hand and stays so.
LEMMA AtHeadNext == TypeOK /\ AtHead /\ [Next]_vars => AtHead'
<1> SUFFICES ASSUME TypeOK, AtHead, [Next]_vars PROVE AtHead'
    OBVIOUS
<1> USE DEF AtHead, Working
<1>1. ASSUME NEW p \in Dirs, NEW e \in BOOLEAN, AddDirectory(p, e) PROVE AtHead'
    BY <1>1 DEF AddDirectory
<1>2. ASSUME NEW p \in Paths, NEW s \in Snaps, Stage(p, s) \/ StageRejected(p, s)
                                                \/ StageStops(p, s)
      PROVE  AtHead'
    BY <1>2 DEF Stage, StageRejected, StageStops, Idle
<1>3. CASE BackupAll \/ LoopEnds \/ Peek \/ Dedup \/ DirectoryGone
    BY <1>3 DEF BackupAll, LoopEnds, Peek, Dedup, DirectoryGone, Goto, Idle
<1>4. CASE Prepare
    BY <1>4 DEF Prepare, Goto
<1>5. CASE PutContent
  <2>1. proc'.pc = "record" /\ proc'.op = proc.op
    BY <1>5, ProcTyped DEF PutContent, Goto
  <2> QED
    BY <1>5, <2>1 DEF PutContent
<1>6. CASE PutFails \/ Record \/ RecordFails \/ Commit \/ CommitStops \/ Stop
    BY <1>6 DEF PutFails, Record, RecordFails, Commit, CommitStops, Stop, Goto, Idle
<1>7. CASE UNCHANGED vars
    BY <1>7 DEF vars
<1> QED
    BY <1>1, <1>2, <1>3, <1>4, <1>5, <1>6, <1>7 DEF Next, BackupStep

LEMMA HeadInHand == Spec => [](TypeOK /\ AtHead)
<1>1. Init => AtHead
    BY DEF Init, Idle, AtHead, Working
<1> QED
    BY <1>1, TypeInit, TypeNext, AtHeadNext, PTL DEF Spec

\* The types of the variables, wherever a backup is cut off.
THEOREM TypeCorrect == Spec => []TypeOK
BY HeadInHand, PTL

-----------------------------------------------------------------------------
(* Every version can be restored                                           *)

\* What the vault holds: each content row of a plaintext leads to it, each
\* snapshot has a content row, and what is about to be recorded is there.
Sealed(sum, cipher) == cipher \in M!Ciphers /\ cipher[1] = sum
ContentsInVault ==
    \A row \in contents : row.id \in Contents =>
        IF row.cipher = Null THEN row.id \in vault
        ELSE row.cipher \in vault /\ row.cipher[1] = row.id
SnapshotsHaveContent ==
    \A f \in files : \A i \in DOMAIN f.snaps : M!HasContent(ContentOf[f.snaps[i]])
UploadFirst ==
    /\ proc.pc = "put" => proc.cipher = Null \/ Sealed(Sum(proc.op), proc.cipher)
    /\ proc.pc = "record" =>
          IF proc.cipher = Null THEN Sum(proc.op) \in vault \/ M!HasContent(Sum(proc.op))
          ELSE proc.cipher \in vault /\ Sealed(Sum(proc.op), proc.cipher)

VaultInv == ContentsInVault /\ SnapshotsHaveContent /\ UploadFirst

\* The invariant is what Restorable needs.
LEMMA VaultInvRestores == TypeOK /\ VaultInv => Restorable
<1> SUFFICES ASSUME TypeOK, VaultInv, NEW f \in files, NEW i \in DOMAIN f.snaps
             PROVE  \E row \in contents :
                       /\ row.id = ContentOf[f.snaps[i]]
                       /\ IF row.cipher = Null THEN row.id \in vault
                          ELSE row.cipher \in vault /\ row.cipher[1] = row.id
    BY DEF Restorable
<1>1. f.snaps[i] \in Snaps
    BY ElementOfSeq DEF TypeOK, M!TypeOK, M!File
<1>2. ContentOf[f.snaps[i]] \in Contents
    BY <1>1, BackupAssumption DEF M!WellFormed
<1>3. PICK row \in contents : row.id = ContentOf[f.snaps[i]]
    BY DEF VaultInv, SnapshotsHaveContent, M!HasContent
<1> QED
    BY <1>2, <1>3 DEF VaultInv, ContentsInVault

\* The database commit leaves the invariant as it was: the bytes its content
\* rows lead to were uploaded before.
LEMMA RecordKeepsVault ==
    ASSUME TypeOK, VaultInv, Record
    PROVE  ContentsInVault' /\ SnapshotsHaveContent'
<1> DEFINE sum == Sum(proc.op)
<1>1. /\ proc.pc = "record" /\ proc.op \in Ops /\ sum \in Contents
      /\ proc.cipher \in M!Ciphers \cup {Null}
      /\ vault' = vault
      /\ proc.op.snap \in Snaps /\ sum = ContentOf[proc.op.snap]
    BY ProcTyped DEF Record, Ops, Sum
<1>2. contents' = contents \cup M!NewContents(sum, proc.cipher)
    BY DEF Record, M!CreateFileSnapshotAndContent, Sum
<1>3. \A x \in Contents : x \notin M!Ciphers /\ x # Null
    BY BackupAssumption DEF M!WellFormed
<1>4. ASSUME NEW row \in M!NewContents(sum, proc.cipher), row.id \in Contents
      PROVE  IF row.cipher = Null THEN row.id \in vault
             ELSE row.cipher \in vault /\ row.cipher[1] = row.id
  <2>1. ~ M!HasContent(row.id)
    BY DEF M!NewContents
  <2>2. CASE proc.cipher = Null
    <3>1. row = [id |-> sum, cipher |-> Null]
      BY <2>2 DEF M!NewContents
    <3> QED
      BY <1>1, <2>1, <2>2, <3>1 DEF VaultInv, UploadFirst
  <2>3. CASE proc.cipher # Null
    <3>1. row = [id |-> sum, cipher |-> proc.cipher]
      BY <1>1, <1>3, <1>4, <2>3 DEF M!NewContents
    <3> QED
      BY <1>1, <2>3, <3>1 DEF VaultInv, UploadFirst, Sealed
  <2> QED
    BY <2>2, <2>3
<1>5. ContentsInVault'
    BY <1>1, <1>2, <1>4 DEF VaultInv, ContentsInVault
<1>6. \A x : M!HasContent(x) => \E row \in contents' : row.id = x
    BY <1>2 DEF M!HasContent
<1>7. \E row \in contents' : row.id = sum
  <2>1. CASE M!HasContent(sum)
    BY <1>6, <2>1
  <2>2. CASE ~ M!HasContent(sum)
    <3>1. [id |-> sum, cipher |-> proc.cipher] \in M!NewContents(sum, proc.cipher)
      BY <2>2 DEF M!NewContents
    <3> QED
      BY <1>2, <3>1
  <2> QED
    BY <2>1, <2>2
<1>8. ASSUME NEW g \in files', NEW i \in DOMAIN g.snaps
      PROVE  g.snaps[i] = proc.op.snap \/ M!HasContent(ContentOf[g.snaps[i]])
  <2>1. \A f \in files : f \in M!File /\ f.snaps \in Seq(Snaps)
    BY DEF TypeOK, M!TypeOK, M!File
  <2>2. CASE \E f \in files : f.dir = proc.op.dir /\ f.path = proc.op.path
    <3>1. files' = {IF f.dir = proc.op.dir /\ f.path = proc.op.path
                    THEN [f EXCEPT !.snaps = M!AddSnapshot(proc.op.snap, @)] ELSE f : f \in files}
      BY <2>2 DEF Record, M!CreateFileSnapshotAndContent
    <3>2. PICK f \in files : g = IF f.dir = proc.op.dir /\ f.path = proc.op.path
                    THEN [f EXCEPT !.snaps = M!AddSnapshot(proc.op.snap, @)] ELSE f
      BY <3>1
    <3>3. [f EXCEPT !.snaps = M!AddSnapshot(proc.op.snap, @)].snaps
             = M!AddSnapshot(proc.op.snap, f.snaps)
      BY <2>1 DEF M!File
    <3>4. g.snaps = f.snaps \/ g.snaps = Append(f.snaps, proc.op.snap)
      BY <3>2, <3>3 DEF M!AddSnapshot
    <3>5. CASE g.snaps = f.snaps
      BY <3>5 DEF VaultInv, SnapshotsHaveContent
    <3>6. CASE g.snaps = Append(f.snaps, proc.op.snap)
      <4>1. /\ Len(Append(f.snaps, proc.op.snap)) = Len(f.snaps) + 1
            /\ \A j \in 1..Len(f.snaps) : Append(f.snaps, proc.op.snap)[j] = f.snaps[j]
            /\ Append(f.snaps, proc.op.snap)[Len(f.snaps) + 1] = proc.op.snap
            /\ Append(f.snaps, proc.op.snap) \in Seq(Snaps)
        BY <1>1, <2>1, AppendProperties
      <4>2. i \in 1..(Len(f.snaps) + 1) /\ Len(f.snaps) \in Nat
        BY <2>1, <3>6, <4>1, LenProperties
      <4>3. i \in 1..Len(f.snaps) => M!HasContent(ContentOf[g.snaps[i]])
        BY <2>1, <3>6, <4>1, LenProperties DEF VaultInv, SnapshotsHaveContent
      <4> QED
        BY <3>6, <4>1, <4>2, <4>3
    <3> QED
      BY <3>4, <3>5, <3>6
  <2>3. CASE ~ \E f \in files : f.dir = proc.op.dir /\ f.path = proc.op.path
    <3>1. g \in files \/ g = [id |-> nextId, dir |-> proc.op.dir, path |-> proc.op.path,
                              snaps |-> <<proc.op.snap>>]
      BY <2>3 DEF Record, M!CreateFileSnapshotAndContent
    <3> QED
      BY <3>1 DEF VaultInv, SnapshotsHaveContent
  <2> QED
    BY <2>2, <2>3
<1>9. SnapshotsHaveContent'
  <2>1. \A g \in files' : \A i \in DOMAIN g.snaps :
           \E row \in contents' : row.id = ContentOf[g.snaps[i]]
    BY <1>1, <1>6, <1>7, <1>8
  <2> QED
    BY <2>1 DEF SnapshotsHaveContent, M!HasContent
<1> QED
    BY <1>5, <1>9

LEMMA VaultInvNext == TypeOK /\ VaultInv /\ [Next]_vars => VaultInv'
<1> SUFFICES ASSUME TypeOK, VaultInv, [Next]_vars PROVE VaultInv'
    OBVIOUS
<1> USE DEF VaultInv
<1>1. \A x : UNCHANGED contents => (M!HasContent(x) => M!HasContent(x)')
    BY DEF M!HasContent
<1>2. UNCHANGED <<files, contents>> /\ vault \subseteq vault'
         => ContentsInVault' /\ SnapshotsHaveContent'
    BY <1>1 DEF ContentsInVault, SnapshotsHaveContent
<1>3. ASSUME NEW p \in Dirs, NEW e \in BOOLEAN, AddDirectory(p, e) PROVE VaultInv'
  <2>1. \A f \in files : f \in M!File
    BY DEF TypeOK, M!TypeOK
  <2>2. \A f \in files : [f EXCEPT !.dir = nextId].snaps = f.snaps
    BY <2>1 DEF M!File
  <2>3. \A g \in files' : \E f \in files : g.snaps = f.snaps
    BY <1>3, <2>2 DEF AddDirectory, M!AddDirectory, M!Moved
  <2>4. UNCHANGED <<contents, vault, proc>>
    BY <1>3 DEF AddDirectory, M!AddDirectory
  <2>5. SnapshotsHaveContent'
    BY <1>1, <2>3, <2>4 DEF SnapshotsHaveContent
  <2> QED
    BY <1>1, <2>4, <2>5 DEF ContentsInVault, UploadFirst
<1>4. ASSUME NEW p \in Paths, NEW s \in Snaps, Stage(p, s) \/ StageRejected(p, s)
                                                \/ StageStops(p, s)
      PROVE  VaultInv'
    BY <1>1, <1>2, <1>4 DEF Stage, StageRejected, StageStops, dbVars, UploadFirst, Idle
<1>5. CASE BackupAll \/ LoopEnds \/ Peek \/ DirectoryGone \/ RecordFails \/ Commit
         \/ CommitStops \/ Stop
    BY <1>2, <1>5 DEF BackupAll, LoopEnds, Peek, DirectoryGone, RecordFails, Commit,
                      CommitStops, Stop, Goto, Idle, dbVars, UploadFirst
<1>6. CASE Dedup
    BY <1>1, <1>2, <1>6 DEF Dedup, Goto, dbVars, UploadFirst
<1>7. CASE Prepare
  <2>1. PICK r \in dirs : IF r.encrypted
             THEN /\ ciphers < MaxCiphers
                  /\ ciphers' = ciphers + 1
                  /\ Goto([pc |-> "put", op |-> proc.op,
                           cipher |-> <<Sum(proc.op), ciphers + 1>>])
             ELSE /\ UNCHANGED ciphers
                  /\ Goto([pc |-> "put", op |-> proc.op, cipher |-> Null])
    BY <1>7 DEF Prepare
  <2>2. Sealed(Sum(proc.op), <<Sum(proc.op), ciphers + 1>>)
    BY <1>7, ProcTyped DEF Prepare, Sealed, M!Ciphers, TypeOK
  <2>3. UploadFirst'
    BY <2>1, <2>2 DEF Goto, UploadFirst
  <2> QED
    BY <1>2, <1>7, <2>3 DEF Prepare, dbVars
<1>8. CASE PutContent
  <2>1. proc' = [pc |-> "record", op |-> proc.op, cipher |-> proc.cipher]
    BY <1>8, ProcTyped DEF PutContent, Goto
  <2>2. UploadFirst'
    BY <1>8, <2>1 DEF PutContent, UploadFirst, VaultKey, Sealed
  <2> QED
    BY <1>2, <1>8, <2>2 DEF PutContent, dbVars
<1>9. CASE PutFails
    BY <1>2, <1>9 DEF PutFails, Goto, Idle, dbVars, UploadFirst
<1>10. CASE Record
    BY <1>10, RecordKeepsVault DEF Record, Goto, UploadFirst
<1>11. CASE UNCHANGED vars
    BY <1>1, <1>2, <1>11 DEF vars, dbVars, UploadFirst
<1> QED
    BY <1>3, <1>4, <1>5, <1>6, <1>7, <1>8, <1>9, <1>10, <1>11 DEF Next, BackupStep

\* Every recorded version leads to bytes in the vault, wherever a backup was
\* interrupted and whatever was deduplicated.
THEOREM AllRestorable == Spec => []Restorable
<1>1. Init => VaultInv
    BY DEF Init, M!Init, Idle, VaultInv, ContentsInVault, SnapshotsHaveContent, UploadFirst
<1>2. TypeOK /\ VaultInv => Restorable
    BY VaultInvRestores
<1> QED
    BY <1>1, <1>2, VaultInvNext, TypeCorrect, PTL DEF Spec

-----------------------------------------------------------------------------
(* The service uses the database as Metadata allows                        *)

\* A head that is in the database already is the last snapshot of its file,
\* unless its directory was consolidated since.
HeadRow ==
    \E f \in files : /\ f.dir = Head(queue).dir /\ f.path = Head(queue).path
                     /\ f.snaps # << >> /\ Last(f.snaps) = Head(queue).snap
HeadRecorded == recorded => queue # << >> /\ (M!HasDirectory(Head(queue).dir) => HeadRow)

\* No history is longer than what was staged and is not pending.
Bounded ==
    /\ Len(queue) <= count.staged
    /\ \A f \in files : Len(f.snaps) + Len(queue) <= count.staged + 1
    /\ ~recorded => \A f \in files : Len(f.snaps) + Len(queue) <= count.staged

\* What a backup is about to upload or record was encrypted by it.
Encrypted ==
    proc.pc \in {"put", "record"} =>
        proc.cipher = Null \/ \E n \in 1..ciphers : proc.cipher = <<Sum(proc.op), n>>

\* The inductive invariant of the refinements. Names are benign, so that the
\* invariant of Metadata_proofs holds of the tables.
DBInv == TypeOK /\ AtHead /\ HeadRecorded /\ Bounded /\ Encrypted /\ MP!IInv

LEMMA DBInvInit == Init => DBInv
<1> SUFFICES ASSUME Init PROVE DBInv
    OBVIOUS
<1>1. AtHead /\ HeadRecorded /\ Bounded /\ Encrypted
    BY DEF Init, M!Init, Idle, AtHead, Working, HeadRecorded, Bounded, Encrypted
<1>2. MP!Init
    BY DEF Init, M!Init, MP!Init
<1> QED
    BY <1>1, <1>2, TypeInit, SameConstants, MP!IInvInit DEF DBInv

\* The directory IDs held are those of the queue.
LEMMA HeldAppend ==
    ASSUME NEW q \in Seq(Ops), NEW op \in Ops
    PROVE  Held(Append(q, op)) = Held(q) \cup {[dir |-> op.dir, path |-> op.path]}
<1>1. /\ DOMAIN Append(q, op) = 1..(Len(q) + 1) /\ DOMAIN q = 1..Len(q) /\ Len(q) \in Nat
      /\ \A i \in 1..Len(q) : Append(q, op)[i] = q[i]
      /\ Append(q, op)[Len(q) + 1] = op
    BY AppendProperties, LenProperties
<1> QED
    BY <1>1 DEF Held

LEMMA HeldTail ==
    ASSUME queue \in Seq(Ops), queue # << >>
    PROVE  /\ [dir |-> Head(queue).dir, path |-> Head(queue).path] \in Held(queue)
           /\ Held(queue) = Held(Tail(queue)) \cup
                            {[dir |-> Head(queue).dir, path |-> Head(queue).path]}
<1>1. /\ DOMAIN Tail(queue) = 1..Len(Tail(queue)) /\ DOMAIN queue = 1..Len(queue)
      /\ Len(queue) \in Nat \ {0} /\ Len(Tail(queue)) = Len(queue) - 1
      /\ Head(queue) = queue[1]
      /\ \A i \in 1..Len(Tail(queue)) : Tail(queue)[i] = queue[i + 1]
    BY QueueParts, LenProperties
<1>2. \A i \in 1..Len(queue) : i # 1 => i - 1 \in 1..Len(Tail(queue))
                                        /\ queue[i] = Tail(queue)[i - 1]
    BY <1>1
<1>3. \A i \in 1..Len(Tail(queue)) : i + 1 \in 1..Len(queue)
    BY <1>1
<1> DEFINE Pair(op) == [dir |-> op.dir, path |-> op.path]
<1>4. /\ Held(queue) = {Pair(queue[i]) : i \in 1..Len(queue)}
      /\ Held(Tail(queue)) = {Pair(Tail(queue)[i]) : i \in 1..Len(Tail(queue))}
    BY <1>1 DEF Held
<1>5. Pair(Head(queue)) \in Held(queue)
    BY <1>1, <1>4
<1>6. Held(Tail(queue)) \subseteq Held(queue)
    BY <1>1, <1>3, <1>4
<1>7. ASSUME NEW x \in Held(queue), x # Pair(Head(queue)) PROVE x \in Held(Tail(queue))
  <2>1. PICK i \in 1..Len(queue) : x = Pair(queue[i])
    BY <1>4
  <2>2. i # 1
    BY <1>1, <1>7, <2>1
  <2> QED
    BY <1>2, <1>4, <2>1, <2>2
<1> QED
    BY <1>5, <1>6, <1>7

\* A pending head is held: its directory ID is the owner's, while it exists,
\* and there is room for the snapshot.
LEMMA RecordAllowed ==
    ASSUME DBInv, Record
    PROVE  LET l == [dir |-> proc.op.dir, path |-> proc.op.path]
           IN  /\ l \in Held(queue)
               /\ proc.op.snap \in Snaps /\ proc.cipher \in M!Ciphers \cup {Null}
               /\ M!Record(l, proc.op.snap, proc.cipher)
<1> DEFINE l == [dir |-> proc.op.dir, path |-> proc.op.path]
<1>1. /\ queue # << >> /\ proc.op = Head(queue)
      /\ queue \in Seq(Ops) /\ Len(queue) \in Nat \ {0}
    BY QueueParts DEF Record, DBInv, AtHead, Working, TypeOK
<1>2. /\ proc.op.snap \in Snaps /\ proc.cipher \in M!Ciphers \cup {Null}
      /\ l.dir = proc.op.dir /\ l.path = proc.op.path
    BY ProcTyped DEF Record, Ops, DBInv
<1>3. \A f \in M!FilesAt(l.path) : Len(f.snaps) < MaxSnaps
  <2> TAKE f \in M!FilesAt(l.path)
  <2>1. f \in files /\ Len(f.snaps) \in Nat
    BY LenProperties DEF M!FilesAt, DBInv, TypeOK, M!TypeOK, M!File
  <2>2. Len(f.snaps) + Len(queue) <= count.staged + 1 /\ count.staged \in 0..MaxStaged
    BY <2>1 DEF DBInv, Bounded, TypeOK
  <2> QED
    BY <1>1, <2>1, <2>2, BackupAssumption DEF M!WellFormed
<1>4. UNCHANGED Held(queue)
    BY DEF Record, Held
<1> QED
    BY <1>1, <1>2, <1>3, <1>4, HeldTail DEF Record, M!Record

\* Every step of the service is a transaction of Metadata, a lookup, the end
\* of the use of a directory ID, or none of the database's business.
LEMMA DatabaseStep == DBInv /\ [Next]_vars => [M!Next]_(M!vars)
<1> SUFFICES ASSUME DBInv, [Next]_vars PROVE M!Next \/ UNCHANGED M!vars
    OBVIOUS
<1> USE DEF DBInv
<1>1. ASSUME NEW p \in Dirs, NEW e \in BOOLEAN, AddDirectory(p, e) PROVE M!Next
    BY <1>1 DEF AddDirectory, Held, M!Next
<1>2. ASSUME NEW p \in Paths, NEW s \in Snaps, Stage(p, s) PROVE M!Next
  <2>1. PICK r \in M!SearchDirectoryForPath(p) :
            queue' = Append(queue, [dir |-> r.id, path |-> p, snap |-> s])
    BY <1>2 DEF Stage
  <2>2. [dir |-> r.id, path |-> p, snap |-> s] \in Ops
    BY FoundTyped DEF TypeOK, Ops
  <2>3. Held(queue)' = Held(queue) \cup {[dir |-> r.id, path |-> p]}
    BY <2>1, <2>2, HeldAppend DEF TypeOK
  <2>4. M!LookUp(p)
    BY <1>2, <2>3 DEF Stage, dbVars, M!LookUp
  <2> QED
    BY <2>4 DEF M!Next
<1>3. UNCHANGED <<dbVars, queue>> => UNCHANGED M!vars
    BY DEF dbVars, M!vars, Held
<1>4. CASE Record
  <2> DEFINE l == [dir |-> proc.op.dir, path |-> proc.op.path]
  <2>1. /\ l \in Held(queue) /\ proc.op.snap \in Snaps
        /\ M!Record(l, proc.op.snap, proc.cipher)
        /\ proc.cipher \in M!Ciphers \cup {Null}
    BY <1>4, RecordAllowed
  <2>2. CASE proc.cipher = Null
    BY <2>1, <2>2 DEF M!Next
  <2>3. CASE proc.cipher # Null
    <3>1. \E n \in 1..MaxCiphers : proc.cipher = <<ContentOf[proc.op.snap], n>>
      BY <1>4, <2>3, BackupAssumption DEF Record, Encrypted, TypeOK, Sum, M!WellFormed
    <3> QED
      BY <2>1, <3>1 DEF M!Next
  <2> QED
    BY <2>2, <2>3
<1>5. CASE (Commit \/ CommitStops) /\ queue' # queue
  <2> DEFINE l == [dir |-> Head(queue).dir, path |-> Head(queue).path]
  <2>1. queue' = Tail(queue) /\ queue # << >> /\ UNCHANGED dbVars
    BY <1>5 DEF Commit, CommitStops, AtHead, Working
  <2>2. l \in Held(queue) /\ Held(queue) = Held(queue)' \cup {l}
    BY <2>1, HeldTail DEF TypeOK
  <2>3. CASE l \in Held(queue)'
    BY <2>1, <2>2, <2>3 DEF M!vars, dbVars
  <2>4. CASE l \notin Held(queue)'
    BY <2>1, <2>2, <2>4 DEF M!Next, M!Forget, dbVars
  <2> QED
    BY <2>3, <2>4
<1>6. CASE UNCHANGED vars
    BY <1>3, <1>6 DEF vars
<1> QED
    BY <1>1, <1>2, <1>3, <1>4, <1>5, <1>6
       DEF Next, BackupStep, StageRejected, StageStops, BackupAll, LoopEnds, Peek, Dedup,
           DirectoryGone, Prepare, PutContent, PutFails, RecordFails, Commit, CommitStops, Stop

LEMMA EncryptedNext == DBInv /\ [Next]_vars => Encrypted'
<1> SUFFICES ASSUME DBInv, [Next]_vars PROVE Encrypted'
    OBVIOUS
<1> USE DEF DBInv, Encrypted
<1>1. CASE Prepare
  <2>1. PICK r \in dirs : IF r.encrypted
             THEN /\ ciphers < MaxCiphers
                  /\ ciphers' = ciphers + 1
                  /\ Goto([pc |-> "put", op |-> proc.op,
                           cipher |-> <<Sum(proc.op), ciphers + 1>>])
             ELSE /\ UNCHANGED ciphers
                  /\ Goto([pc |-> "put", op |-> proc.op, cipher |-> Null])
    BY <1>1 DEF Prepare
  <2>2. CASE r.encrypted
    <3>1. ciphers + 1 \in 1..ciphers'
      BY <2>1, <2>2, BackupAssumption DEF TypeOK, M!WellFormed
    <3>2. Sum(proc'.op) = Sum(proc.op) /\ proc'.cipher = <<Sum(proc.op), ciphers + 1>>
      BY <2>1, <2>2 DEF Goto, Sum
    <3> QED
      BY <3>1, <3>2
  <2>3. CASE ~r.encrypted
    BY <2>1, <2>3 DEF Goto
  <2> QED
    BY <2>2, <2>3
<1>2. CASE PutContent
  <2>1. proc' = [pc |-> "record", op |-> proc.op, cipher |-> proc.cipher]
    BY <1>2, ProcTyped DEF PutContent, Goto
  <2> QED
    BY <1>2, <2>1 DEF PutContent, Sum
<1>3. CASE Dedup
    BY <1>3 DEF Dedup, Goto
<1>4. CASE BackupAll \/ LoopEnds \/ Peek \/ DirectoryGone \/ PutFails \/ Record
           \/ RecordFails \/ Commit \/ CommitStops \/ Stop
    BY <1>4 DEF BackupAll, LoopEnds, Peek, DirectoryGone, PutFails, Record, RecordFails,
                Commit, CommitStops, Stop, Goto, Idle
<1>5. ASSUME NEW p \in Paths, NEW s \in Snaps, Stage(p, s) \/ StageRejected(p, s)
                                                \/ StageStops(p, s)
      PROVE  Encrypted'
    BY <1>5 DEF Stage, StageRejected, StageStops, Idle
<1>6. ASSUME NEW p \in Dirs, NEW e \in BOOLEAN, AddDirectory(p, e) PROVE Encrypted'
    BY <1>6 DEF AddDirectory, Idle
<1>7. CASE UNCHANGED vars
    BY <1>7 DEF vars, Sum
<1> QED
    BY <1>1, <1>2, <1>3, <1>4, <1>5, <1>6, <1>7 DEF Next, BackupStep

\* The row a backup records is the only one of its file, so a head that is
\* recorded already is not recorded again.
LEMMA RecordEffect ==
    ASSUME DBInv, M!BenignNames, Record
    PROVE  /\ proc.op = Head(queue) /\ queue # << >> /\ M!HasDirectory(proc.op.dir)
           /\ \/ /\ recorded /\ files' = files
              \/ /\ ~recorded
                 /\ \E f \in files, g \in files' :
                       /\ f.dir = proc.op.dir /\ f.path = proc.op.path
                       /\ g = [f EXCEPT !.snaps = M!AddSnapshot(proc.op.snap, @)]
                       /\ files' = (files \ {f}) \cup {g}
              \/ /\ ~recorded
                 /\ \A f \in files : f.path # proc.op.path
                 /\ files' = files \cup {[id |-> nextId, dir |-> proc.op.dir,
                                          path |-> proc.op.path, snaps |-> <<proc.op.snap>>]}
<1> USE DEF DBInv
<1>1. /\ queue # << >> /\ proc.op = Head(queue) /\ M!HasDirectory(proc.op.dir)
      /\ proc.op.path \in Paths /\ proc.op.snap \in Snaps
      /\ [dir |-> proc.op.dir, path |-> proc.op.path] \in Held(queue)
    BY RecordAllowed, ProcTyped DEF Record, AtHead, Working, M!CreateFileSnapshotAndContent, Ops
<1>2. \A f \in files : f \in M!File /\ f.path \in Paths
    BY DEF TypeOK, M!TypeOK, M!File
<1>3. \A f, g \in files : f.dir = g.dir /\ f.path = g.path => f = g
    BY DEF MP!IInv, MP!FileRows
<1>4. CASE \E f \in files : f.dir = proc.op.dir /\ f.path = proc.op.path
  <2>1. PICK f \in files : f.dir = proc.op.dir /\ f.path = proc.op.path
    BY <1>4
  <2> DEFINE g == [f EXCEPT !.snaps = M!AddSnapshot(proc.op.snap, @)]
  <2>2. files' = {IF x.dir = proc.op.dir /\ x.path = proc.op.path
                  THEN [x EXCEPT !.snaps = M!AddSnapshot(proc.op.snap, @)] ELSE x : x \in files}
    BY <1>4 DEF Record, M!CreateFileSnapshotAndContent
  <2>3. \A x \in files : x # f => ~(x.dir = proc.op.dir /\ x.path = proc.op.path)
    BY <1>3, <2>1
  <2>4. files' = (files \ {f}) \cup {g}
    BY <2>1, <2>2, <2>3
  <2>5. CASE recorded
    <3>1. f.snaps # << >> /\ f.snaps[Len(f.snaps)] = proc.op.snap
      BY <1>1, <1>3, <2>1, <2>5 DEF HeadRecorded, HeadRow, Last
    <3>2. M!AddSnapshot(proc.op.snap, f.snaps) = f.snaps
      BY <3>1 DEF M!AddSnapshot, M!Last
    <3>3. g = f
      BY <1>2, <3>2 DEF M!File
    <3> QED
      BY <1>1, <2>4, <2>5, <3>3
  <2>6. CASE ~recorded
    BY <1>1, <2>1, <2>4, <2>6
  <2> QED
    BY <2>5, <2>6 DEF TypeOK
<1>5. CASE ~ \E f \in files : f.dir = proc.op.dir /\ f.path = proc.op.path
  <2>1. files' = files \cup {[id |-> nextId, dir |-> proc.op.dir,
                              path |-> proc.op.path, snaps |-> <<proc.op.snap>>]}
    BY <1>5 DEF Record, M!CreateFileSnapshotAndContent
  <2>2. ~recorded
    BY <1>1, <1>5 DEF HeadRecorded, HeadRow
  <2>3. PICK r \in dirs : r.id = proc.op.dir
    BY <1>1 DEF M!HasDirectory
  <2>4. r \in MP!SearchDirectoryForPath(proc.op.path)
    BY <1>1, <2>3 DEF MP!IInv, MP!Owners, MP!OwnerID
  <2>5. ASSUME NEW f \in files, f.path = proc.op.path PROVE FALSE
    <3>1. PICK q \in dirs : q.id = f.dir
      BY DEF MP!IInv, MP!Owners, MP!HasDirectory
    <3>2. q \in MP!SearchDirectoryForPath(proc.op.path)
      BY <2>5, <3>1 DEF MP!IInv, MP!Owners, MP!OwnerID
    <3>3. q = r
      BY <1>1, <2>4, <3>2, SameConstants, MP!TopmostUnique DEF MP!IInv
    <3> QED
      BY <1>5, <2>3, <2>5, <3>1, <3>3
  <2> QED
    BY <1>1, <2>1, <2>2, <2>5
<1> QED
    BY <1>4, <1>5

\* AddSnapshot ends a history with the snapshot and lengthens it by one at most.
LEMMA AddedLast ==
    ASSUME NEW h \in Seq(Snaps), NEW s \in Snaps
    PROVE  /\ M!AddSnapshot(s, h) \in Seq(Snaps) /\ M!AddSnapshot(s, h) # << >>
           /\ Last(M!AddSnapshot(s, h)) = s
           /\ Len(M!AddSnapshot(s, h)) <= Len(h) + 1
           /\ Len(M!AddSnapshot(s, h)) \in Nat
<1>1. /\ Len(Append(h, s)) = Len(h) + 1 /\ Append(h, s)[Len(h) + 1] = s
      /\ Append(h, s) \in Seq(Snaps) /\ Append(h, s) # << >> /\ Len(h) \in Nat
    BY AppendProperties, LenProperties
<1>2. CASE h # << >> /\ h[Len(h)] = s
    BY <1>1, <1>2 DEF M!AddSnapshot, M!Last, Last
<1>3. CASE ~(h # << >> /\ h[Len(h)] = s)
    BY <1>1, <1>3 DEF M!AddSnapshot, M!Last, Last
<1> QED
    BY <1>2, <1>3

LEMMA HeadRecordedNext == DBInv /\ M!BenignNames /\ [Next]_vars => HeadRecorded'
<1> SUFFICES ASSUME DBInv, M!BenignNames, [Next]_vars PROVE HeadRecorded'
    OBVIOUS
<1> USE DEF DBInv
<1>1. ASSUME NEW p \in Dirs, NEW e \in BOOLEAN, AddDirectory(p, e) PROVE HeadRecorded'
  <2>1. /\ queue' = queue /\ recorded' = recorded /\ MP!AddDirectory(p, e)
        /\ dirs' = (dirs \ MP!Children(p)) \cup {[id |-> nextId, path |-> p, encrypted |-> e]}
    BY <1>1, SameTransactions DEF AddDirectory, M!AddDirectory, M!Children, MP!Children
  <2>2. SUFFICES ASSUME recorded, NEW r \in dirs', r.id = Head(queue).dir PROVE HeadRow'
    BY <2>1 DEF HeadRecorded, M!HasDirectory
  <2>3. queue # << >> /\ [dir |-> Head(queue).dir, path |-> Head(queue).path] \in Held(queue)
    BY <2>2, HeldTail DEF HeadRecorded, TypeOK
  <2>4. Head(queue).dir < nextId
    BY <2>3 DEF MP!IInv, MP!DirectoryRows
  <2>5. r \in dirs \ MP!Children(p)
    BY <2>1, <2>2, <2>4 DEF TypeOK, M!TypeOK
  <2>6. HeadRow
    BY <2>2, <2>5 DEF HeadRecorded, M!HasDirectory
  <2>7. PICK f \in files : /\ f.dir = Head(queue).dir /\ f.path = Head(queue).path
                           /\ f.snaps # << >> /\ Last(f.snaps) = Head(queue).snap
    BY <2>6 DEF HeadRow
  <2>8. ~ \E q \in MP!Children(p) : q.id = f.dir
    BY <2>2, <2>5, <2>7 DEF MP!IInv, MP!DirectoryRows, MP!Children
  <2>9. f \in files'
    BY <2>1, <2>8, SameConstants, MP!FilesAfterAdd
  <2> QED
    BY <2>1, <2>7, <2>9 DEF HeadRow
<1>2. ASSUME NEW p \in Paths, NEW s \in Snaps, Stage(p, s) PROVE HeadRecorded'
  <2>1. PICK r \in M!SearchDirectoryForPath(p) :
            queue' = Append(queue, [dir |-> r.id, path |-> p, snap |-> s])
    BY <1>2 DEF Stage
  <2>2. [dir |-> r.id, path |-> p, snap |-> s] \in Ops /\ queue \in Seq(Ops)
    BY FoundTyped DEF TypeOK, Ops
  <2>3. recorded' = recorded /\ dirs' = dirs /\ files' = files
    BY <1>2 DEF Stage, dbVars
  <2>4. queue # << >> => Head(queue') = Head(queue) /\ queue' # << >>
    BY <2>1, <2>2
  <2> QED
    BY <2>3, <2>4 DEF HeadRecorded, HeadRow, M!HasDirectory
<1>3. CASE Record
  <2>1. /\ queue' = queue /\ queue # << >> /\ proc.op = Head(queue)
        /\ proc.op.snap \in Snaps /\ proc.op.path \in Paths
        /\ M!HasDirectory(proc.op.dir)
    BY <1>3, RecordEffect, ProcTyped DEF Record, Ops
  <2>2. HeadRow'
    <3>1. CASE recorded /\ files' = files
      BY <2>1, <3>1 DEF HeadRecorded, HeadRow
    <3>2. CASE \E f \in files, g \in files' :
                  /\ f.dir = proc.op.dir /\ f.path = proc.op.path
                  /\ g = [f EXCEPT !.snaps = M!AddSnapshot(proc.op.snap, @)]
      <4>1. PICK f \in files, g \in files' :
                  /\ f.dir = proc.op.dir /\ f.path = proc.op.path
                  /\ g = [f EXCEPT !.snaps = M!AddSnapshot(proc.op.snap, @)]
        BY <3>2
      <4>2. f \in M!File
        BY DEF TypeOK, M!TypeOK
      <4>3. /\ g.dir = f.dir /\ g.path = f.path
            /\ g.snaps = M!AddSnapshot(proc.op.snap, f.snaps) /\ f.snaps \in Seq(Snaps)
        BY <4>1, <4>2 DEF M!File
      <4> QED
        BY <2>1, <4>1, <4>3, AddedLast DEF HeadRow
    <3>3. CASE [id |-> nextId, dir |-> proc.op.dir,
                path |-> proc.op.path, snaps |-> <<proc.op.snap>>] \in files'
      BY <2>1, <3>3 DEF Last, HeadRow
    <3> QED
      BY <1>3, <3>1, <3>2, <3>3, RecordEffect
  <2> QED
    BY <2>1, <2>2 DEF HeadRecorded
<1>4. CASE recorded' = FALSE
    BY <1>4 DEF HeadRecorded
<1>5. CASE UNCHANGED <<dirs, files, queue, recorded>>
    BY <1>5 DEF HeadRecorded, HeadRow, M!HasDirectory
<1> QED
    BY <1>1, <1>2, <1>3, <1>4, <1>5
       DEF Next, BackupStep, StageRejected, StageStops, BackupAll, LoopEnds, Peek, Dedup,
           DirectoryGone, Prepare, PutContent, PutFails, RecordFails, Commit, CommitStops,
           Stop, vars, dbVars

LEMMA BoundedNext == DBInv /\ M!BenignNames /\ [Next]_vars => Bounded'
<1> SUFFICES ASSUME DBInv, M!BenignNames, [Next]_vars PROVE Bounded'
    OBVIOUS
<1> USE DEF DBInv
<1>1. /\ Len(queue) \in Nat /\ count.staged \in Nat
      /\ \A f \in files : f \in M!File /\ f.snaps \in Seq(Snaps) /\ Len(f.snaps) \in Nat
  <2>1. Len(queue) \in Nat /\ count.staged \in Nat
    BY LenProperties, BackupAssumption DEF TypeOK
  <2>2. \A f \in files : f \in M!File /\ f.snaps \in Seq(Snaps) /\ Len(f.snaps) \in Nat
    BY LenProperties DEF TypeOK, M!TypeOK, M!File
  <2> QED
    BY <2>1, <2>2
<1>2. UNCHANGED <<queue, recorded>> /\ count'.staged = count.staged
      /\ (\A g \in files' : \E f \in files : g.snaps = f.snaps) => Bounded'
    BY DEF Bounded
<1>3. ASSUME NEW p \in Dirs, NEW e \in BOOLEAN, AddDirectory(p, e) PROVE Bounded'
  <2>1. \A f \in files : [f EXCEPT !.dir = nextId].snaps = f.snaps
    BY <1>1 DEF M!File
  <2>2. \A g \in files' : \E f \in files : g.snaps = f.snaps
    BY <1>3, <2>1 DEF AddDirectory, M!AddDirectory, M!Moved
  <2> QED
    BY <1>2, <1>3, <2>2 DEF AddDirectory
<1>4. ASSUME NEW p \in Paths, NEW s \in Snaps, Stage(p, s) PROVE Bounded'
  <2>1. PICK r \in M!SearchDirectoryForPath(p) :
            queue' = Append(queue, [dir |-> r.id, path |-> p, snap |-> s])
    BY <1>4 DEF Stage
  <2>2. [dir |-> r.id, path |-> p, snap |-> s] \in Ops
    BY FoundTyped DEF TypeOK, Ops
  <2>3. Len(queue') = Len(queue) + 1
    BY <2>1, <2>2, AppendProperties DEF TypeOK
  <2>4. /\ count'.staged = count.staged + 1 /\ recorded' = recorded /\ files' = files
    BY <1>4 DEF Stage, dbVars, TypeOK
  <2>5. Len(queue') <= count'.staged
    BY <1>1, <2>3, <2>4 DEF Bounded
  <2>6. ASSUME NEW f \in files
        PROVE  /\ Len(f.snaps) + Len(queue') <= count'.staged + 1
               /\ ~recorded => Len(f.snaps) + Len(queue') <= count'.staged
    <3> DEFINE n == Len(f.snaps)
               q == Len(queue)
               c == count.staged
    <3>1. n \in Nat /\ q \in Nat /\ c \in Nat
      BY <1>1
    <3>2. n + q <= c + 1 /\ (~recorded => n + q <= c)
      BY DEF Bounded
    <3>3. Len(queue') = q + 1 /\ count'.staged = c + 1
      BY <2>3, <2>4
    <3> HIDE DEF n, q, c
    <3>4. n + (q + 1) <= (c + 1) + 1 /\ (n + q <= c => n + (q + 1) <= c + 1)
      BY ONLY <3>1, <3>2
    <3>5. n + Len(queue') <= count'.staged + 1
      BY ONLY <3>3, <3>4
    <3>6. ~recorded => n + Len(queue') <= count'.staged
      BY ONLY <3>2, <3>3, <3>4
    <3> QED
      BY <3>5, <3>6 DEF n
  <2> QED
    BY <2>4, <2>5, <2>6 DEF Bounded
<1>5. CASE Record
  <2>1. UNCHANGED <<queue, count>> /\ recorded' = TRUE /\ queue # << >>
    BY <1>5, RecordEffect DEF Record
  <2>2. CASE recorded /\ files' = files
    BY <1>1, <2>1, <2>2 DEF Bounded
  <2>3. ASSUME NEW g \in files', ~recorded
        PROVE  \/ Len(g.snaps) = 1
               \/ \E f \in files : Len(g.snaps) \in Nat /\ Len(g.snaps) <= Len(f.snaps) + 1
    <3>1. CASE g \in files
      BY <1>1, <3>1
    <3>2. CASE \E f \in files : g = [f EXCEPT !.snaps = M!AddSnapshot(proc.op.snap, @)]
      <4>1. PICK f \in files : g = [f EXCEPT !.snaps = M!AddSnapshot(proc.op.snap, @)]
        BY <3>2
      <4>2. g.snaps = M!AddSnapshot(proc.op.snap, f.snaps) /\ f.snaps \in Seq(Snaps)
        BY <1>1, <4>1 DEF M!File
      <4>3. proc.op.snap \in Snaps
        BY <1>5, ProcTyped DEF Record, Ops
      <4> QED
        BY <4>2, <4>3, AddedLast
    <3>3. CASE g = [id |-> nextId, dir |-> proc.op.dir,
                    path |-> proc.op.path, snaps |-> <<proc.op.snap>>]
      BY <3>3
    <3> QED
      BY <1>5, <2>3, <3>1, <3>2, <3>3, RecordEffect
  <2>4. CASE ~recorded
    <3>1. ASSUME NEW g \in files' PROVE Len(g.snaps) + Len(queue) <= count.staged + 1
      <4>1. Len(queue) <= count.staged
        BY DEF Bounded
      <4>2. CASE Len(g.snaps) = 1
        BY <1>1, <4>1, <4>2
      <4>3. CASE \E f \in files : Len(g.snaps) \in Nat /\ Len(g.snaps) <= Len(f.snaps) + 1
        <5>1. PICK f \in files : Len(g.snaps) \in Nat /\ Len(g.snaps) <= Len(f.snaps) + 1
          BY <4>3
        <5>2. Len(f.snaps) + Len(queue) <= count.staged /\ Len(f.snaps) \in Nat
          BY <1>1, <2>4 DEF Bounded
        <5> QED
          BY <1>1, <5>1, <5>2
      <4> QED
        BY <2>3, <2>4, <4>2, <4>3
    <3> QED
      BY <1>1, <2>1, <3>1 DEF Bounded
  <2> QED
    BY <1>5, <2>2, <2>4, RecordEffect
<1>6. CASE (Commit \/ CommitStops) /\ queue' = Tail(queue) /\ recorded' = FALSE
  <2>1. /\ queue' = Tail(queue) /\ queue # << >> /\ recorded /\ recorded' = FALSE
        /\ UNCHANGED <<files, count.staged>>
    BY <1>6 DEF Commit, CommitStops, AtHead, Working, dbVars, TypeOK
  <2>2. Len(queue') = Len(queue) - 1
    BY <2>1, QueueParts DEF TypeOK
  <2> QED
    BY <1>1, <2>1, <2>2 DEF Bounded
<1>7. ASSUME NEW p \in Paths, NEW s \in Snaps, StageRejected(p, s) \/ StageStops(p, s)
      PROVE  Bounded'
    BY <1>2, <1>7 DEF StageRejected, StageStops, dbVars, TypeOK
<1>8. CASE PutFails \/ Stop \/ (CommitStops /\ UNCHANGED <<queue, recorded>>)
    BY <1>2, <1>8 DEF PutFails, Stop, CommitStops, dbVars, TypeOK
<1>9. CASE UNCHANGED <<files, queue, count, recorded>>
    BY <1>2, <1>9
<1> QED
    BY <1>3, <1>4, <1>5, <1>6, <1>7, <1>8, <1>9
       DEF Next, BackupStep, BackupAll, LoopEnds, Peek, Dedup, DirectoryGone,
           Prepare, PutContent, RecordFails, Commit, CommitStops, vars, dbVars

LEMMA SameNext == TypeOK /\ [M!Next]_(M!vars) => [MP!Next]_(MP!vars)
<1> SUFFICES ASSUME TypeOK, M!Next \/ UNCHANGED M!vars PROVE MP!Next \/ UNCHANGED MP!vars
    OBVIOUS
<1>1. CASE UNCHANGED M!vars
    BY <1>1 DEF M!vars, MP!vars
<1>2. ASSUME NEW p \in Dirs, NEW e \in BOOLEAN, M!AddDirectory(p, e), UNCHANGED Held(queue)
      PROVE  MP!Next
    BY <1>2, SameTransactions DEF MP!Next
<1>3. ASSUME NEW p \in Paths, M!LookUp(p) PROVE MP!Next
    BY <1>3, SameTransactions DEF M!LookUp, MP!LookUp, MP!Next
<1>4. ASSUME NEW l \in Held(queue), NEW s \in Snaps, NEW x \in M!Ciphers \cup {Null},
             M!Record(l, s, x)
      PROVE  MP!Record(l, s, x)
  <2>1. l.dir \in Nat /\ l.path \in Paths
    BY DEF TypeOK, M!TypeOK, M!Lookup
  <2> QED
    BY <1>4, <2>1, SameTransactions DEF M!Record, MP!Record, M!FilesAt, MP!FilesAt
<1>5. ASSUME NEW l \in Held(queue), M!Forget(l) PROVE MP!Next
    BY <1>5 DEF M!Forget, MP!Forget, MP!Next
<1>6. \A s \in Snaps, n \in 1..MaxCiphers : <<ContentOf[s], n>> \in M!Ciphers
    BY BackupAssumption DEF M!WellFormed, M!Ciphers
<1>7. ASSUME NEW l \in Held(queue), NEW s \in Snaps,
             \/ M!Record(l, s, Null)
             \/ \E n \in 1..MaxCiphers : M!Record(l, s, <<ContentOf[s], n>>)
      PROVE  MP!Next
    BY <1>4, <1>6, <1>7 DEF MP!Next
<1> QED
    BY <1>1, <1>2, <1>3, <1>5, <1>7 DEF M!Next

LEMMA DBInvNext == DBInv /\ M!BenignNames /\ [Next]_vars => DBInv'
<1> SUFFICES ASSUME DBInv, M!BenignNames, [Next]_vars PROVE DBInv'
    OBVIOUS
<1>1. TypeOK' /\ AtHead'
    BY TypeNext, AtHeadNext DEF DBInv
<1>2. HeadRecorded' /\ Bounded' /\ Encrypted'
    BY HeadRecordedNext, BoundedNext, EncryptedNext
<1>3. [MP!Next]_(MP!vars)
    BY DatabaseStep, SameNext DEF DBInv
<1>4. MP!IInv'
    BY <1>3, SameConstants, MP!IInvNext DEF DBInv
<1> QED
    BY <1>1, <1>2, <1>4 DEF DBInv

LEMMA Invariant == M!BenignNames => (Spec => []DBInv)
<1> SUFFICES ASSUME M!BenignNames PROVE Spec => []DBInv
    OBVIOUS
<1>1. M!BenignNames /\ DBInv /\ [Next]_vars => DBInv'
    BY DBInvNext
<1> QED
    BY <1>1, DBInvInit, PTL DEF Spec

\* What bt add and bt backup do to the database, cut off anywhere, is what
\* Metadata allows its callers: all that is proved there holds here.
THEOREM DatabaseAsAllowed == M!BenignNames => (Spec => ImplementsMetadata)
<1> SUFFICES ASSUME M!BenignNames PROVE Spec => ImplementsMetadata
    OBVIOUS
<1>1. Init => M!Init
    BY DEF Init, M!Init, Held
<1>2. DBInv /\ [Next]_vars => [M!Next]_(M!vars)
    BY DatabaseStep
<1> QED
    BY <1>1, <1>2, Invariant, PTL DEF Spec, M!Spec, ImplementsMetadata

-----------------------------------------------------------------------------
(* The service implements VersionStore                                     *)

\* What the version store sees of an operation and of a queue.
Submission(op) == [path |-> op.path, snap |-> op.snap]
Submissions(q) == [i \in DOMAIN q |-> Submission(q[i])]

Submitted == [path : Paths, snap : Snaps]

LEMMA SubmissionsOf ==
    ASSUME NEW q \in Seq(Ops)
    PROVE  /\ Submissions(q) \in Seq(Submitted) /\ Len(Submissions(q)) = Len(q)
           /\ Len(q) \in Nat
           /\ \A i \in 1..Len(q) : Submissions(q)[i] = Submission(q[i])
<1>1. DOMAIN q = 1..Len(q) /\ Len(q) \in Nat /\ \A i \in 1..Len(q) : q[i] \in Ops
    BY LenProperties, ElementOfSeq
<1>2. Submissions(q) = [i \in 1..Len(q) |-> Submission(q[i])]
    BY <1>1 DEF Submissions
<1>3. \A i \in 1..Len(q) : Submission(q[i]) \in Submitted
    BY <1>1 DEF Submission, Submitted, Ops
<1>4. Submissions(q) \in Seq(Submitted) /\ Len(Submissions(q)) = Len(q)
    BY <1>1, <1>2, <1>3
<1> QED
    BY <1>1, <1>2, <1>4

LEMMA SubmissionsAppend ==
    ASSUME NEW q \in Seq(Ops), NEW op \in Ops
    PROVE  Submissions(Append(q, op)) = Append(Submissions(q), Submission(op))
<1> DEFINE n == Len(q)
           longer == Append(q, op)
           subs == Submissions(q)
           x == Submission(op)
           A == Submissions(longer)
           B == Append(subs, x)
<1>1. /\ longer \in Seq(Ops) /\ Len(longer) = n + 1
      /\ \A i \in 1..n : longer[i] = q[i]
      /\ longer[n + 1] = op
    BY AppendProperties
<1>2. n \in Nat /\ subs \in Seq(Submitted) /\ Len(subs) = n
      /\ \A i \in 1..n : subs[i] = Submission(q[i])
    BY SubmissionsOf
<1>3. x \in Submitted
    BY DEF Submission, Submitted, Ops
<1>4. A \in Seq(Submitted) /\ Len(A) = n + 1
      /\ \A i \in 1..(n + 1) : A[i] = Submission(longer[i])
    BY <1>1, SubmissionsOf
<1> HIDE DEF n, longer, subs, A
<1>5. /\ B \in Seq(Submitted) /\ Len(B) = n + 1
      /\ \A i \in 1..n : B[i] = subs[i]
      /\ B[n + 1] = x
  <2> HIDE DEF x
  <2> QED
    BY <1>2, <1>3, AppendProperties
<1>6. ASSUME NEW i \in 1..(n + 1) PROVE A[i] = B[i]
  <2>1. i = n + 1 \/ i \in 1..n
    BY <1>2
  <2>2. A[i] = Submission(longer[i])
    BY <1>4
  <2>3. CASE i = n + 1
    BY <1>1, <1>5, <2>2, <2>3
  <2>4. CASE i \in 1..n
    BY <1>1, <1>2, <1>5, <2>2, <2>4
  <2> QED
    BY <2>1, <2>3, <2>4
<1> HIDE DEF B
<1>7. A = B
    BY <1>4, <1>5, <1>6, SeqEqual
<1> QED
    BY <1>7 DEF A, B, longer, subs

LEMMA SubmissionsParts ==
    ASSUME NEW q \in Seq(Ops), q # << >>
    PROVE  /\ Submissions(q) # << >> /\ Head(Submissions(q)) = Submission(Head(q))
           /\ Tail(Submissions(q)) = Submissions(Tail(q))
<1> DEFINE n == Len(q)
           rest == Tail(q)
           subs == Submissions(q)
           A == Tail(subs)
           B == Submissions(rest)
<1>1. /\ rest \in Seq(Ops) /\ Head(q) = q[1] /\ n \in Nat \ {0} /\ Len(rest) = n - 1
      /\ \A i \in 1..Len(rest) : rest[i] = q[i + 1]
    BY HeadTailProperties, LenProperties
<1>2. /\ subs \in Seq(Submitted) /\ Len(subs) = n
      /\ \A i \in 1..n : subs[i] = Submission(q[i])
    BY SubmissionsOf
<1>3. /\ B \in Seq(Submitted) /\ Len(B) = n - 1
      /\ \A i \in 1..(n - 1) : B[i] = Submission(q[i + 1])
    BY <1>1, SubmissionsOf
<1> HIDE DEF n, rest, subs, B
<1>4. subs # << >>
    BY <1>1, <1>2
<1>5. /\ Head(subs) = subs[1] /\ A \in Seq(Submitted) /\ Len(A) = n - 1
      /\ \A i \in 1..(n - 1) : A[i] = subs[i + 1]
    BY <1>1, <1>2, <1>4, HeadTailProperties
<1>6. ASSUME NEW i \in 1..(n - 1) PROVE A[i] = B[i]
  <2>1. i + 1 \in 1..n
    BY <1>1
  <2> QED
    BY <1>2, <1>3, <1>5, <2>1
<1> HIDE DEF A
<1>7. A = B
    BY <1>3, <1>5, <1>6, SeqEqual
<1>8. Head(subs) = Submission(Head(q))
    BY <1>1, <1>2, <1>5
<1> QED
    BY <1>4, <1>7, <1>8 DEF A, B, subs, rest

LEMMA TailAppend ==
    ASSUME NEW q \in Seq(Ops), q # << >>, NEW op \in Ops
    PROVE  Tail(Append(q, op)) = Append(Tail(q), op)
OBVIOUS

\* The history of a path, when a path is one row.
Version(fs, p) ==
    LET rows == {f \in fs : f.path = p}
    IN  IF rows = {} THEN << >> ELSE (CHOOSE f \in rows : TRUE).snaps

LEMMA VersionOf ==
    ASSUME NEW fs, \A f, g \in fs : f.path = g.path => f = g, NEW f \in fs
    PROVE  Version(fs, f.path) = f.snaps
<1>1. {g \in fs : g.path = f.path} = {f}
    OBVIOUS
<1> QED
    BY <1>1 DEF Version

LEMMA NoVersion ==
    ASSUME NEW fs, NEW p, \A f \in fs : f.path # p
    PROVE  Version(fs, p) = << >>
<1>1. {f \in fs : f.path = p} = {}
    OBVIOUS
<1> QED
    BY <1>1 DEF Version

LEMMA SameRows ==
    ASSUME NEW fs, NEW gs, NEW p, {f \in fs : f.path = p} = {f \in gs : f.path = p}
    PROVE  Version(fs, p) = Version(gs, p)
<1> DEFINE rows(fs0) == {f \in fs0 : f.path = p}
<1>1. /\ Version(fs, p) = IF rows(fs) = {} THEN << >> ELSE (CHOOSE f \in rows(fs) : TRUE).snaps
      /\ Version(gs, p) = IF rows(gs) = {} THEN << >> ELSE (CHOOSE f \in rows(gs) : TRUE).snaps
    BY DEF Version
<1>2. rows(fs) = rows(gs)
    OBVIOUS
<1> HIDE DEF rows
<1> QED
    BY <1>1, <1>2

\* The histories stay as they are when the rows keep their paths and snapshots.
LEMMA SameVersions ==
    ASSUME NEW fs, NEW gs,
           \A f, g \in fs : f.path = g.path => f = g,
           \A f, g \in gs : f.path = g.path => f = g,
           \A f \in fs : \E g \in gs : g.path = f.path /\ g.snaps = f.snaps,
           \A g \in gs : \E f \in fs : g.path = f.path,
           NEW p
    PROVE  Version(fs, p) = Version(gs, p)
<1>1. CASE \E f \in fs : f.path = p
    BY <1>1, VersionOf
<1>2. CASE ~ \E f \in fs : f.path = p
    BY <1>2, NoVersion
<1> QED
    BY <1>1, <1>2

LEMMA SeenByStore ==
    /\ Versions = [p \in Paths |-> Version(files, p)]
    /\ Versions' = [p \in Paths |-> Version(files', p)]
    /\ Pending = Submissions(IF recorded THEN Tail(queue) ELSE queue)
    /\ Pending' = Submissions(IF recorded' THEN Tail(queue') ELSE queue')
BY DEF Versions, Version, M!FilesAt, Pending, Submissions, Submission

\* The database commit of a backup is the next version, the first time.
LEMMA RecordApplies ==
    ASSUME DBInv, M!BenignNames, MP!OneFilePerPath, MP!OneFilePerPath', Record
    PROVE  IF recorded THEN UNCHANGED VS!vars ELSE VS!Apply
<1> USE DEF DBInv
<1>1. /\ queue # << >> /\ queue' = queue /\ recorded' = TRUE /\ queue \in Seq(Ops)
      /\ proc.op = Head(queue) /\ proc.op.path \in Paths /\ proc.op.snap \in Snaps
    BY RecordEffect, ProcTyped DEF Record, TypeOK, Ops
<1>2. CASE recorded
  <2>1. files' = files
    BY <1>2, RecordEffect
  <2> QED
    BY <1>1, <1>2, <2>1, SeenByStore DEF VS!vars
<1>3. CASE ~recorded
  <2> DEFINE p == proc.op.path
             s == proc.op.snap
             h == Version(files, p)
             Extended(old) == IF old # << >> /\ old[Len(old)] = s THEN old ELSE Append(old, s)
  <2>1. /\ Pending = Submissions(queue) /\ Pending' = Submissions(Tail(queue))
        /\ Pending # << >> /\ Pending' = Tail(Pending)
        /\ Head(Pending).path = p /\ Head(Pending).snap = s
    BY <1>1, <1>3, SeenByStore, SubmissionsParts DEF Submission
  <2>2. /\ \A f, g \in files : f.path = g.path => f = g
        /\ \A f, g \in files' : f.path = g.path => f = g
    BY DEF MP!OneFilePerPath
  <2>3. Version(files', p) = Extended(h)
        /\ \A q \in Paths : q # p => Version(files', q) = Version(files, q)
    <3>1. CASE \E f \in files, g \in files' :
                  /\ f.dir = proc.op.dir /\ f.path = p
                  /\ g = [f EXCEPT !.snaps = M!AddSnapshot(s, @)]
                  /\ files' = (files \ {f}) \cup {g}
      <4>1. PICK f \in files, g \in files' :
                  /\ f.dir = proc.op.dir /\ f.path = p
                  /\ g = [f EXCEPT !.snaps = M!AddSnapshot(s, @)]
                  /\ files' = (files \ {f}) \cup {g}
        BY <3>1
      <4>2. f \in M!File
        BY DEF TypeOK, M!TypeOK
      <4>3. g.path = p /\ g.snaps = M!AddSnapshot(s, f.snaps)
        BY <4>1, <4>2 DEF M!File
      <4>4. Version(files, p) = f.snaps /\ Version(files', p) = g.snaps
        <5>1. Version(files, f.path) = f.snaps
          BY <2>2, VersionOf
        <5>2. Version(files', g.path) = g.snaps
          BY <2>2, VersionOf
        <5> QED
          BY <4>1, <4>3, <5>1, <5>2
      <4>5. Version(files', p) = Extended(h)
        BY <4>3, <4>4 DEF M!AddSnapshot, M!Last
      <4>6. ASSUME NEW q \in Paths, q # p PROVE Version(files', q) = Version(files, q)
        <5>1. {x \in files' : x.path = q} = {x \in files : x.path = q}
          BY <4>1, <4>3, <4>6
        <5> QED
          BY <5>1, SameRows
      <4> QED
        BY <4>5, <4>6
    <3>2. CASE /\ \A f \in files : f.path # p
               /\ files' = files \cup {[id |-> nextId, dir |-> proc.op.dir,
                                        path |-> p, snaps |-> <<s>>]}
      <4> DEFINE row == [id |-> nextId, dir |-> proc.op.dir, path |-> p, snaps |-> <<s>>]
      <4>1. h = << >>
        BY <3>2, NoVersion
      <4>2. row \in files' /\ row.path = p /\ row.snaps = <<s>>
        BY <3>2
      <4>3. Version(files', p) = <<s>>
        BY <2>2, <4>2, VersionOf
      <4>4. Append(<< >>, s) = <<s>>
        OBVIOUS
      <4>5. ASSUME NEW q \in Paths, q # p PROVE Version(files', q) = Version(files, q)
        <5>1. {x \in files' : x.path = q} = {x \in files : x.path = q}
          BY <3>2, <4>5
        <5> QED
          BY <5>1, SameRows
      <4> QED
        BY <4>1, <4>3, <4>4, <4>5
    <3> QED
      BY <1>3, <3>1, <3>2, RecordEffect
  <2>4. Versions' = [Versions EXCEPT ![p] = Extended(h)]
    BY <1>1, <2>3, SeenByStore
  <2>5. Versions[p] = h
    BY <1>1, SeenByStore
  <2> QED
    BY <1>3, <2>1, <2>4, <2>5 DEF VS!Apply, VS!Last
<1> QED
  BY <1>2, <1>3

\* Every step of the service is a submission, the next version, or a stutter.
LEMMA VersionStep ==
    ASSUME DBInv, M!BenignNames, MP!OneFilePerPath, MP!OneFilePerPath', [Next]_vars
    PROVE  [VS!Next]_(VS!vars)
<1> USE DEF DBInv
<1>1. UNCHANGED <<files, queue, recorded>> => UNCHANGED VS!vars
    BY SeenByStore DEF VS!vars
<1>2. ASSUME NEW p \in Dirs, NEW e \in BOOLEAN, AddDirectory(p, e) PROVE UNCHANGED VS!vars
  <2>1. MP!AddDirectory(p, e) /\ UNCHANGED <<queue, recorded>>
    BY <1>2, SameTransactions DEF AddDirectory
  <2>2. \A f \in files : /\ [f EXCEPT !.dir = nextId].path = f.path
                         /\ [f EXCEPT !.dir = nextId].snaps = f.snaps
    BY DEF TypeOK, M!TypeOK, M!File
  <2>3. /\ \A f \in files : \E g \in files' : g.path = f.path /\ g.snaps = f.snaps
        /\ \A g \in files' : \E f \in files : g.path = f.path
    BY <2>1, <2>2, SameConstants, MP!FilesAfterAdd
  <2>4. \A x : Version(files, x) = Version(files', x)
    BY <2>3, SameVersions DEF MP!OneFilePerPath
  <2> QED
    BY <2>1, <2>4, SeenByStore DEF VS!vars
<1>3. ASSUME NEW p \in Paths, NEW s \in Snaps, Stage(p, s) PROVE VS!Submit(p, s)
  <2>1. PICK r \in M!SearchDirectoryForPath(p) :
            queue' = Append(queue, [dir |-> r.id, path |-> p, snap |-> s])
    BY <1>3 DEF Stage
  <2> DEFINE op == [dir |-> r.id, path |-> p, snap |-> s]
  <2>2. op \in Ops /\ Submission(op) = [path |-> p, snap |-> s] /\ queue \in Seq(Ops)
    BY FoundTyped DEF TypeOK, Ops, Submission
  <2>3. UNCHANGED <<files, recorded>>
    BY <1>3 DEF Stage, dbVars
  <2> HIDE DEF op
  <2>4. CASE recorded
    <3>1. queue # << >> /\ Tail(queue) \in Seq(Ops) /\ Tail(queue') = Append(Tail(queue), op)
      BY <2>1, <2>2, <2>4, QueueParts, TailAppend DEF HeadRecorded, op
    <3> QED
      BY <2>2, <2>3, <2>4, <3>1, SeenByStore, SubmissionsAppend DEF VS!Submit
  <2>5. CASE ~recorded
    BY <2>1, <2>2, <2>3, <2>5, SeenByStore, SubmissionsAppend DEF VS!Submit, op
  <2> QED
    BY <2>4, <2>5
<1>4. CASE Record
    BY <1>4, RecordApplies DEF VS!Next
<1>5. CASE (Commit \/ CommitStops) /\ recorded' = FALSE /\ queue' = Tail(queue)
  <2>1. recorded /\ ~recorded' /\ queue' = Tail(queue) /\ files' = files
    BY <1>5 DEF Commit, CommitStops, AtHead, dbVars
  <2> QED
    BY <2>1, SeenByStore DEF VS!vars
<1>6. CASE UNCHANGED <<files, queue, recorded>>
    BY <1>1, <1>6
<1> QED
    BY <1>2, <1>3, <1>4, <1>5, <1>6
       DEF Next, BackupStep, StageRejected, StageStops, BackupAll, LoopEnds, Peek, Dedup,
           DirectoryGone, Prepare, PutContent, PutFails, RecordFails, Commit, CommitStops,
           Stop, vars, dbVars, VS!Next

\* What is staged becomes a version once, in order, whatever crash or failed
\* call comes between the upload, the database commit and the pop.
THEOREM VersionsAsPromised == M!BenignNames => (Spec => ImplementsVersionStore)
<1> SUFFICES ASSUME M!BenignNames PROVE Spec => ImplementsVersionStore
    OBVIOUS
<1>1. Init => VS!Init
  <2> SUFFICES ASSUME Init PROVE VS!Init
    OBVIOUS
  <2>1. queue = << >> /\ ~recorded /\ files = {}
    BY DEF Init, M!Init
  <2>2. \A p : Version(files, p) = << >>
    BY <2>1, NoVersion
  <2>3. Pending = << >>
    BY <2>1, SeenByStore DEF Submissions
  <2> QED
    BY <2>2, <2>3, SeenByStore DEF VS!Init
<1>2. DBInv => MP!OneFilePerPath
    BY SameConstants, MP!OneOwnerOneRow DEF DBInv
<1>3. DBInv /\ MP!OneFilePerPath /\ MP!OneFilePerPath' /\ [Next]_vars => [VS!Next]_(VS!vars)
    BY VersionStep
<1> QED
    BY <1>1, <1>2, <1>3, Invariant, PTL DEF Spec, VS!Spec, ImplementsVersionStore
=============================================================================

--------------------------- MODULE Metadata_proofs ---------------------------
(***************************************************************************)
(* Proofs about module Metadata, for any tree of paths, any snapshots and  *)
(* any bounds. What concerns who owns a file is proved of names that are   *)
(* benign: with others CreateDirectory consolidates the wrong directories. *)
(* IInv is the inductive invariant: every file row, and every directory ID *)
(* a caller still holds, is of the topmost tracked directory above the     *)
(* file, if of any.                                                        *)
(***************************************************************************)
EXTENDS Metadata, SequenceTheorems, TLAPS

\* IDs and paths of directories are unique, and IDs come from nextId.
DirectoryRows ==
    /\ \A r, q \in dirs : r.id = q.id \/ r.path = q.path => r = q
    /\ \A r \in dirs : r.id < nextId
    /\ \A l \in lookups : l.dir < nextId

\* A directory ID stands for the directory that p belongs to, or for none.
OwnerID(id, p) == \A r \in dirs : r.id = id => r \in SearchDirectoryForPath(p)

Owners ==
    /\ \A f \in files : HasDirectory(f.dir) /\ OwnerID(f.dir, f.path)
    /\ \A l \in lookups : OwnerID(l.dir, l.path)

FileRows == \A f, g \in files : f.dir = g.dir /\ f.path = g.path => f = g

IInv == TypeOK /\ DirectoryRows /\ Owners /\ FileRows

-----------------------------------------------------------------------------
(* Operators                                                               *)

\* Of the tracked directories above a path, one is topmost.
LEMMA TopmostUnique ==
    ASSUME TypeOK, NEW p \in Paths,
           NEW r \in SearchDirectoryForPath(p), NEW q \in SearchDirectoryForPath(p)
    PROVE  r = q
<1>1. r \in dirs /\ q \in dirs /\ r.path \in Dirs /\ q.path \in Dirs
    BY DEF SearchDirectoryForPath, Containing, TypeOK, Directory
<1>2. r # q => <<r.path, q.path>> \in Above /\ <<q.path, r.path>> \in Above
    BY DEF SearchDirectoryForPath
<1> QED
    BY <1>1, <1>2, MetadataAssumption DEF WellFormed

\* A sequence is a prefix of itself and of what is appended to it.
LEMMA PrefixReflexive ==
    ASSUME NEW S, NEW s \in Seq(S) PROVE IsPrefix(s, s)
BY DEF IsPrefix

LEMMA PrefixAppend ==
    ASSUME NEW S, NEW s \in Seq(S), NEW x \in S PROVE IsPrefix(s, Append(s, x))
<1>1. /\ Len(Append(s, x)) = Len(s) + 1
      /\ \A i \in 1..Len(s) : Append(s, x)[i] = s[i]
    BY AppendProperties
<1>2. SubSeq(s, 1, Len(s)) = s /\ Len(s) \in Nat
    BY LenProperties, SubSeqFull
<1>3. \A i \in 1..Len(s) : Append(s, x)[i] \in S
    BY <1>1, ElementOfSeq
<1>4. /\ SubSeq(Append(s, x), 1, Len(s)) \in Seq(S)
      /\ Len(SubSeq(Append(s, x), 1, Len(s))) = IF 1 <= Len(s) THEN Len(s) - 1 + 1 ELSE 0
      /\ \A i \in 1..(Len(s) - 1 + 1) : SubSeq(Append(s, x), 1, Len(s))[i] = Append(s, x)[1 + i - 1]
    BY <1>2, <1>3, SubSeqProperties
<1>5. SubSeq(Append(s, x), 1, Len(s)) = s
    BY <1>1, <1>2, <1>4, SeqEqual
<1> QED
    BY <1>1, <1>2, <1>5 DEF IsPrefix

\* A snapshot only lengthens a history, and never repeats its last entry.
LEMMA AddSnapshotProperties ==
    ASSUME NEW h \in Seq(Snaps), NEW s \in Snaps
    PROVE  /\ AddSnapshot(s, h) \in Seq(Snaps)
           /\ IsPrefix(h, AddSnapshot(s, h))
           /\ \/ AddSnapshot(s, h) = h
              \/ /\ AddSnapshot(s, h) = Append(h, s)
                 /\ h # << >> => h[Len(h)] # s
<1>1. CASE h # << >> /\ h[Len(h)] = s
    BY <1>1, PrefixReflexive DEF AddSnapshot, Last
<1>2. CASE ~(h # << >> /\ h[Len(h)] = s)
  <2>1. AddSnapshot(s, h) = Append(h, s)
    BY <1>2 DEF AddSnapshot, Last
  <2> QED
    BY <1>2, <2>1, PrefixAppend, AppendProperties
<1> QED
    BY <1>1, <1>2

\* The rows a snapshot adds to the content table are well formed.
LEMMA NewContentsType ==
    ASSUME NEW s \in Snaps, NEW cipher \in Ciphers \cup {Null}
    PROVE  NewContents(ContentOf[s], cipher) \subseteq Content
<1>1. ContentOf[s] \in Contents
    BY MetadataAssumption DEF WellFormed
<1>2. /\ [id |-> ContentOf[s], cipher |-> Null] \in Content
      /\ cipher # Null => [id |-> cipher, cipher |-> Null] \in Content
      /\ cipher # Null => [id |-> ContentOf[s], cipher |-> cipher] \in Content
    BY <1>1 DEF Content
<1> QED
    BY <1>2 DEF NewContents

-----------------------------------------------------------------------------
(* Type correctness                                                        *)

LEMMA TypeInit == Init => TypeOK
BY DEF Init, TypeOK

\* The two transactions keep the types of the tables.
LEMMA AddDirectoryTyped ==
    ASSUME TypeOK, NEW p \in Dirs, NEW e \in BOOLEAN, AddDirectory(p, e)
    PROVE  dirs' \subseteq Directory /\ files' \subseteq File /\ nextId' \in Nat
<1>1. nextId' \in Nat /\ [id |-> nextId, path |-> p, encrypted |-> e] \in Directory
    BY DEF AddDirectory, TypeOK, Directory
<1>2. dirs' \subseteq Directory
    BY <1>1 DEF AddDirectory, TypeOK
<1>3. \A f \in files : [f EXCEPT !.dir = nextId] \in File
    BY DEF TypeOK, File
<1>4. Moved(Children(p), nextId) \subseteq File
    BY <1>3 DEF Moved, TypeOK
<1> QED
    BY <1>1, <1>2, <1>4 DEF AddDirectory

LEMMA RecordTyped ==
    ASSUME TypeOK, NEW d \in Nat, NEW p \in Paths, NEW s \in Snaps,
           NEW cipher \in Ciphers \cup {Null},
           CreateFileSnapshotAndContent(d, p, s, cipher)
    PROVE  files' \subseteq File /\ contents' \subseteq Content /\ nextId' \in Nat
<1>1. contents' \subseteq Content
    BY NewContentsType DEF CreateFileSnapshotAndContent, TypeOK
<1>2. \A f \in files : [f EXCEPT !.snaps = AddSnapshot(s, @)] \in File
    BY AddSnapshotProperties DEF TypeOK, File
<1>3. [id |-> nextId, dir |-> d, path |-> p, snaps |-> <<s>>] \in File
    BY DEF TypeOK, File
<1> QED
    BY <1>1, <1>2, <1>3 DEF CreateFileSnapshotAndContent, TypeOK

LEMMA TypeNext == TypeOK /\ [Next]_vars => TypeOK'
<1> SUFFICES ASSUME TypeOK, [Next]_vars PROVE TypeOK'
    OBVIOUS
<1>1. ASSUME NEW p \in Dirs, NEW e \in BOOLEAN, AddDirectory(p, e), UNCHANGED lookups
      PROVE  TypeOK'
    BY <1>1, AddDirectoryTyped DEF TypeOK, AddDirectory
<1>2. ASSUME NEW p \in Paths, LookUp(p) PROVE TypeOK'
    BY <1>2 DEF TypeOK, LookUp, Lookup, Directory, SearchDirectoryForPath, Containing
<1>3. ASSUME NEW l \in lookups, NEW s \in Snaps, NEW cipher \in Ciphers \cup {Null},
             Record(l, s, cipher)
      PROVE  TypeOK'
  <2>1. l.dir \in Nat /\ l.path \in Paths
    BY DEF TypeOK, Lookup
  <2> QED
    BY <1>3, <2>1, RecordTyped DEF TypeOK, Record, CreateFileSnapshotAndContent
<1>4. ASSUME NEW l \in lookups, Forget(l) PROVE TypeOK'
    BY <1>4 DEF TypeOK, Forget
<1>5. \A s \in Snaps, n \in 1..MaxCiphers : <<ContentOf[s], n>> \in Ciphers
    BY MetadataAssumption DEF WellFormed, Ciphers
<1>6. CASE UNCHANGED vars
    BY <1>6 DEF TypeOK, vars
<1> QED
    BY <1>1, <1>2, <1>3, <1>4, <1>5, <1>6 DEF Next

\* Every table keeps its types, whatever callers do.
THEOREM TypeCorrect == Spec => []TypeOK
BY TypeInit, TypeNext, PTL DEF Spec

-----------------------------------------------------------------------------
(* Who owns a file                                                         *)

\* After a directory is added, what owned a path owns it still or, when it
\* was consolidated, the new directory does.
LEMMA OwnerAfterAdd ==
    ASSUME BenignNames, TypeOK, DirectoryRows,
           NEW p \in Dirs, NEW e \in BOOLEAN, AddDirectory(p, e),
           NEW q \in Paths, NEW r \in SearchDirectoryForPath(q)
    PROVE  IF r \in Children(p)
           THEN [id |-> nextId, path |-> p, encrypted |-> e] \in SearchDirectoryForPath(q)'
           ELSE r \in SearchDirectoryForPath(q)'
<1> DEFINE new == [id |-> nextId, path |-> p, encrypted |-> e]
<1>1. /\ r \in dirs /\ r.path \in Dirs /\ <<r.path, q>> \in Above
      /\ \A x \in dirs : x.path \in Dirs
      /\ \A x \in dirs : <<x.path, q>> \in Above => x = r \/ <<r.path, x.path>> \in Above
    BY DEF SearchDirectoryForPath, Containing, TypeOK, Directory
<1>2. /\ dirs' = (dirs \ Children(p)) \cup {new}
      /\ \A x \in dirs : x.path # p
      /\ \A x \in dirs : x \in Children(p) <=> <<p, x.path>> \in Above
    BY <1>1 DEF AddDirectory, Children, BenignNames
<1>3. CASE r \in Children(p)
  <2>1. <<p, q>> \in Above
    BY <1>1, <1>2, <1>3, MetadataAssumption DEF WellFormed
  <2>2. ASSUME NEW x \in dirs', <<x.path, q>> \in Above PROVE x = new
    <3>1. CASE x \in dirs /\ x # r
      <4>1. <<r.path, x.path>> \in Above
        BY <1>1, <2>2, <3>1
      <4>2. <<p, x.path>> \in Above
        BY <1>1, <1>2, <1>3, <3>1, <4>1, MetadataAssumption DEF WellFormed
      <4> QED
        BY <1>2, <2>2, <3>1, <4>2
    <3> QED
      BY <1>2, <1>3, <2>2, <3>1
  <2> QED
    BY <1>2, <1>3, <2>1, <2>2 DEF SearchDirectoryForPath, Containing
<1>4. CASE r \notin Children(p)
  <2>1. r \in dirs'
    BY <1>1, <1>2, <1>4
  <2>2. <<p, q>> \in Above => <<r.path, p>> \in Above
    BY <1>1, <1>2, <1>4, MetadataAssumption DEF WellFormed
  <2> QED
    BY <1>1, <1>2, <1>4, <2>1, <2>2 DEF SearchDirectoryForPath, Containing
<1> QED
    BY <1>3, <1>4

\* Consolidation moves every row of a child and no other, and deletes none.
LEMMA FilesAfterAdd ==
    ASSUME BenignNames, IInv, NEW p \in Dirs, NEW e \in BOOLEAN, AddDirectory(p, e)
    PROVE  /\ files' = Moved(Children(p), nextId)
           /\ \A f \in files : IF \E r \in Children(p) : r.id = f.dir
                               THEN [f EXCEPT !.dir = nextId] \in files' ELSE f \in files'
           /\ \A g \in files' : \E f \in files :
                 g = IF \E r \in Children(p) : r.id = f.dir THEN [f EXCEPT !.dir = nextId] ELSE f
<1>1. \A f \in files : f \in File /\ \E r \in dirs : r.id = f.dir
    BY DEF IInv, TypeOK, Owners, HasDirectory
<1>2. \A f \in files : [f EXCEPT !.dir = nextId].dir = nextId
    BY <1>1 DEF File
<1>3. ASSUME NEW g \in Moved(Children(p), nextId) PROVE \E r \in dirs' : r.id = g.dir
  <2>1. PICK f \in files :
            g = IF \E r \in Children(p) : r.id = f.dir THEN [f EXCEPT !.dir = nextId] ELSE f
    BY <1>3 DEF Moved
  <2>2. CASE \E r \in Children(p) : r.id = f.dir
    <3>1. g.dir = nextId
      BY <1>2, <2>1, <2>2
    <3>2. [id |-> nextId, path |-> p, encrypted |-> e] \in dirs'
      BY DEF AddDirectory
    <3> QED
      BY <3>1, <3>2
  <2>3. CASE ~ \E r \in Children(p) : r.id = f.dir
    BY <1>1, <2>1, <2>3 DEF AddDirectory, Children
  <2> QED
    BY <2>2, <2>3
<1>4. files' = Moved(Children(p), nextId)
    BY <1>3 DEF AddDirectory
<1> QED
    BY <1>4 DEF Moved

LEMMA AddDirectoryInv ==
    ASSUME BenignNames, IInv, NEW p \in Dirs, NEW e \in BOOLEAN, AddDirectory(p, e),
           UNCHANGED lookups
    PROVE  DirectoryRows' /\ Owners' /\ FileRows'
<1> DEFINE new == [id |-> nextId, path |-> p, encrypted |-> e]
           children == Children(p)
           IsMoved(f) == \E r \in children : r.id = f.dir
<1>1. /\ dirs' = (dirs \ children) \cup {new} /\ children \subseteq dirs
      /\ nextId \in Nat /\ nextId' = nextId + 1
      /\ \A r \in dirs : r.id \in Nat /\ r.path # p
      /\ new.id = nextId /\ new.path = p
    BY DEF AddDirectory, Children, IInv, TypeOK, Directory
<1>2. \A l \in lookups : l.dir \in Nat /\ l.path \in Paths
    BY DEF IInv, TypeOK, Lookup
<1>3. \A f \in files :
         /\ f.path \in Paths /\ f.dir \in Nat /\ f.dir # nextId
         /\ [f EXCEPT !.dir = nextId].dir = nextId
         /\ [f EXCEPT !.dir = nextId].path = f.path
  <2>1. \A f \in files : f \in File /\ f.dir # nextId
    BY <1>1 DEF IInv, TypeOK, DirectoryRows, Owners, HasDirectory
  <2> QED
    BY <2>1 DEF File
<1>4. DirectoryRows'
  <2>1. \A r \in dirs : r.id < nextId
    BY DEF IInv, DirectoryRows
  <2>2. \A r \in dirs' : r.id < nextId'
    BY <1>1, <2>1
  <2>3. \A r, q \in dirs' : r.id = q.id \/ r.path = q.path => r = q
    BY <1>1, <2>1 DEF IInv, DirectoryRows
  <2>4. \A l \in lookups' : l.dir < nextId'
    BY <1>1, <1>2 DEF IInv, DirectoryRows
  <2> QED
    BY <2>2, <2>3, <2>4 DEF DirectoryRows
<1>5. \A f \in files : IF IsMoved(f) THEN new \in SearchDirectoryForPath(f.path)'
                       ELSE \E r \in dirs' : r.id = f.dir /\ r \in SearchDirectoryForPath(f.path)'
  <2> SUFFICES ASSUME NEW f \in files
               PROVE  IF IsMoved(f) THEN new \in SearchDirectoryForPath(f.path)'
                      ELSE \E r \in dirs' : r.id = f.dir /\ r \in SearchDirectoryForPath(f.path)'
    OBVIOUS
  <2>1. PICK r \in dirs : r.id = f.dir
    BY DEF IInv, Owners, HasDirectory
  <2>2. r \in SearchDirectoryForPath(f.path)
    BY <2>1 DEF IInv, Owners, OwnerID
  <2>3. IsMoved(f) <=> r \in children
    BY <1>1, <2>1 DEF IInv, DirectoryRows
  <2>4. r \in children => new \in SearchDirectoryForPath(f.path)'
    BY <1>3, <2>2, OwnerAfterAdd DEF IInv
  <2>5. r \notin children => r \in SearchDirectoryForPath(f.path)' /\ r \in dirs'
    BY <1>1, <1>3, <2>2, OwnerAfterAdd DEF IInv
  <2> QED
    BY <2>1, <2>3, <2>4, <2>5
<1>6. ASSUME NEW g \in files' PROVE HasDirectory(g.dir)' /\ OwnerID(g.dir, g.path)'
  <2>1. PICK f \in files : g = IF IsMoved(f) THEN [f EXCEPT !.dir = nextId] ELSE f
    BY FilesAfterAdd
  <2>2. \E r \in dirs' : r.id = g.dir /\ r \in SearchDirectoryForPath(g.path)'
    BY <1>1, <1>3, <1>5, <2>1
  <2> QED
    BY <1>4, <2>2 DEF HasDirectory, OwnerID, DirectoryRows
<1>7. ASSUME NEW l \in lookups PROVE OwnerID(l.dir, l.path)'
  <2>1. \A r \in dirs : r.id = l.dir /\ r \notin children => r \in SearchDirectoryForPath(l.path)'
    BY <1>2, OwnerAfterAdd DEF IInv, Owners, OwnerID
  <2>2. l.dir # nextId
    BY <1>1, <1>2 DEF IInv, DirectoryRows
  <2> QED
    BY <1>1, <2>1, <2>2 DEF OwnerID
<1>8. FileRows'
  <2> SUFFICES ASSUME NEW f \in files', NEW g \in files', f.dir = g.dir, f.path = g.path
               PROVE  f = g
    BY DEF FileRows
  <2>1. PICK f0 \in files : f = IF IsMoved(f0) THEN [f0 EXCEPT !.dir = nextId] ELSE f0
    BY FilesAfterAdd
  <2>2. PICK g0 \in files : g = IF IsMoved(g0) THEN [g0 EXCEPT !.dir = nextId] ELSE g0
    BY FilesAfterAdd
  <2>3. f0.path = g0.path /\ f0.path \in Paths /\ (IsMoved(f0) <=> IsMoved(g0))
    BY <1>3, <2>1, <2>2
  <2>4. PICK r \in dirs, q \in dirs : r.id = f0.dir /\ q.id = g0.dir
    BY DEF IInv, Owners, HasDirectory
  <2>5. r \in SearchDirectoryForPath(f0.path) /\ q \in SearchDirectoryForPath(f0.path)
    BY <2>3, <2>4 DEF IInv, Owners, OwnerID
  <2>6. f0.dir = g0.dir
    BY <2>3, <2>4, <2>5, TopmostUnique DEF IInv
  <2> QED
    BY <2>1, <2>2, <2>3, <2>6 DEF IInv, FileRows
<1> QED
    BY <1>4, <1>6, <1>7, <1>8 DEF Owners

LEMMA RecordInv ==
    ASSUME IInv, NEW l \in lookups, NEW s \in Snaps,
           NEW cipher \in Ciphers \cup {Null}, Record(l, s, cipher)
    PROVE  DirectoryRows' /\ Owners' /\ FileRows'
<1>1. /\ dirs' = dirs /\ lookups' = lookups
      /\ nextId \in Nat /\ nextId' \in Nat /\ nextId <= nextId'
      /\ \A r \in dirs : r.id \in Nat
      /\ \A x \in lookups : x.dir \in Nat
    BY DEF Record, CreateFileSnapshotAndContent, IInv, TypeOK, Directory, Lookup
<1>2. DirectoryRows'
    BY <1>1 DEF IInv, DirectoryRows
<1>3. /\ \A d : HasDirectory(d)' <=> HasDirectory(d)
      /\ \A d, p : OwnerID(d, p)' <=> OwnerID(d, p)
    BY <1>1 DEF HasDirectory, OwnerID, SearchDirectoryForPath, Containing
<1>4. \A f \in files : /\ f.path \in Paths
                       /\ [f EXCEPT !.snaps = AddSnapshot(s, @)].dir = f.dir
                       /\ [f EXCEPT !.snaps = AddSnapshot(s, @)].path = f.path
  <2>1. \A f \in files : f \in File
    BY DEF IInv, TypeOK
  <2> QED
    BY <2>1 DEF File
<1>5. HasDirectory(l.dir) /\ OwnerID(l.dir, l.path) /\ l.path \in Paths
    BY DEF Record, CreateFileSnapshotAndContent, IInv, Owners, TypeOK, Lookup
<1>6. CASE \E f \in files : f.dir = l.dir /\ f.path = l.path
  <2>1. files' = {IF f.dir = l.dir /\ f.path = l.path
                  THEN [f EXCEPT !.snaps = AddSnapshot(s, @)] ELSE f : f \in files}
    BY <1>6 DEF Record, CreateFileSnapshotAndContent
  <2>2. \A g \in files' : \E f \in files :
            /\ g.dir = f.dir /\ g.path = f.path
            /\ g = IF f.dir = l.dir /\ f.path = l.path
                   THEN [f EXCEPT !.snaps = AddSnapshot(s, @)] ELSE f
    <3> TAKE g \in files'
    <3>1. PICK f \in files : g = IF f.dir = l.dir /\ f.path = l.path
                                 THEN [f EXCEPT !.snaps = AddSnapshot(s, @)] ELSE f
      BY <2>1
    <3>2. g.dir = f.dir /\ g.path = f.path
      BY <1>4, <3>1
    <3> QED
      BY <3>1, <3>2
  <2>3. FileRows'
    BY <2>2 DEF IInv, FileRows
  <2>4. Owners'
    BY <1>1, <1>3, <1>4, <2>2 DEF IInv, Owners
  <2> QED
    BY <1>2, <2>3, <2>4
<1>7. CASE ~ \E f \in files : f.dir = l.dir /\ f.path = l.path
  <2>1. files' = files \cup {[id |-> nextId, dir |-> l.dir, path |-> l.path, snaps |-> <<s>>]}
    BY <1>7 DEF Record, CreateFileSnapshotAndContent
  <2>2. FileRows'
    BY <1>7, <2>1 DEF IInv, FileRows
  <2>3. Owners'
    BY <1>1, <1>3, <1>4, <1>5, <2>1 DEF IInv, Owners
  <2> QED
    BY <1>2, <2>2, <2>3
<1> QED
    BY <1>6, <1>7

LEMMA IInvNext == BenignNames /\ IInv /\ [Next]_vars => IInv'
<1> SUFFICES ASSUME BenignNames, IInv, [Next]_vars PROVE IInv'
    OBVIOUS
<1> USE DEF IInv
<1>1. TypeOK'
    BY TypeNext
<1>2. ASSUME NEW p \in Dirs, NEW e \in BOOLEAN, AddDirectory(p, e), UNCHANGED lookups
      PROVE  DirectoryRows' /\ Owners' /\ FileRows'
    BY <1>2, AddDirectoryInv
<1>3. ASSUME NEW p \in Paths, LookUp(p) PROVE DirectoryRows' /\ Owners' /\ FileRows'
  <2>1. PICK r \in SearchDirectoryForPath(p) : lookups' = lookups \cup {[dir |-> r.id, path |-> p]}
    BY <1>3 DEF LookUp
  <2>2. UNCHANGED <<dirs, files, nextId>> /\ r \in dirs
    BY <1>3 DEF LookUp, SearchDirectoryForPath, Containing
  <2>3. \A q : SearchDirectoryForPath(q)' = SearchDirectoryForPath(q)
    BY <2>2 DEF SearchDirectoryForPath, Containing
  <2>4. OwnerID(r.id, p) /\ r.id < nextId
    BY <2>2 DEF OwnerID, DirectoryRows
  <2> QED
    BY <2>1, <2>2, <2>3, <2>4 DEF DirectoryRows, Owners, OwnerID, HasDirectory, FileRows
<1>4. ASSUME NEW l \in lookups, NEW s \in Snaps, NEW cipher \in Ciphers \cup {Null},
             Record(l, s, cipher)
      PROVE  DirectoryRows' /\ Owners' /\ FileRows'
    BY <1>4, RecordInv
<1>5. ASSUME NEW l \in lookups, Forget(l) PROVE DirectoryRows' /\ Owners' /\ FileRows'
    BY <1>5 DEF Forget, DirectoryRows, Owners, OwnerID, HasDirectory, FileRows,
               SearchDirectoryForPath, Containing
<1>6. \A s \in Snaps, n \in 1..MaxCiphers : <<ContentOf[s], n>> \in Ciphers
    BY MetadataAssumption DEF WellFormed, Ciphers
<1>7. CASE UNCHANGED vars
    BY <1>1, <1>7 DEF vars, DirectoryRows, Owners, OwnerID, HasDirectory, FileRows,
               SearchDirectoryForPath, Containing
<1> QED
    BY <1>1, <1>2, <1>3, <1>4, <1>5, <1>6, <1>7 DEF Next

LEMMA IInvInit == Init => IInv
BY TypeInit DEF Init, IInv, DirectoryRows, Owners, FileRows

\* Whoever keeps a directory ID for however long, a file or an ID held is of
\* the topmost tracked directory above it.
LEMMA Owned == BenignNames => (Spec => []IInv)
<1> SUFFICES ASSUME BenignNames PROVE Spec => []IInv
    OBVIOUS
<1>1. BenignNames /\ IInv /\ [Next]_vars => IInv'
    BY IInvNext
<1> QED
    BY <1>1, IInvInit, PTL DEF Spec

\* The rows of a path are of the same, topmost directory, hence one row.
LEMMA OneOwnerOneRow == IInv => OneFilePerPath
<1> SUFFICES ASSUME IInv, NEW f \in files, NEW g \in files, f.path = g.path PROVE f = g
  BY DEF OneFilePerPath
<1>1. PICK r \in dirs, q \in dirs : r.id = f.dir /\ q.id = g.dir
  BY DEF IInv, Owners, HasDirectory
<1>2. r \in SearchDirectoryForPath(f.path) /\ q \in SearchDirectoryForPath(f.path)
  BY <1>1 DEF IInv, Owners, OwnerID
<1>3. r = q
  BY <1>2, TopmostUnique DEF IInv, TypeOK, File
<1> QED
  BY <1>1, <1>3 DEF IInv, FileRows

\* However directories are nested and whenever callers looked them up, a file
\* is one row.
THEOREM OneRowPerFile == BenignNames => (Spec => []OneFilePerPath)
BY OneOwnerOneRow, Owned, PTL

\* A tracked directory inside another one owns no file: its files' owner is
\* the outer one, by the search and by consolidation alike.
THEOREM InnerOwnsNothing == BenignNames => (Spec => []NestedOwnNothing)
<1> SUFFICES ASSUME BenignNames PROVE Spec => []NestedOwnNothing
    OBVIOUS
<1>1. IInv => NestedOwnNothing
  <2> SUFFICES ASSUME IInv, NEW r \in dirs, NEW q \in dirs, <<r.path, q.path>> \in Above,
                      NEW f \in files, f.dir = q.id
               PROVE  FALSE
    BY DEF NestedOwnNothing
  <2>1. r.path \in Dirs /\ q.path \in Dirs /\ f.path \in Paths
    BY DEF IInv, TypeOK, Directory, File
  <2>2. q \in SearchDirectoryForPath(f.path)
    BY DEF IInv, Owners, OwnerID
  <2>3. <<r.path, f.path>> \in Above
    BY <2>1, <2>2, MetadataAssumption DEF SearchDirectoryForPath, Containing, WellFormed
  <2>4. q = r \/ <<q.path, r.path>> \in Above
    BY <2>2, <2>3 DEF SearchDirectoryForPath, Containing
  <2> QED
    BY <2>1, <2>4, MetadataAssumption DEF WellFormed
<1> QED
    BY <1>1, Owned, PTL

\* No history holds the same snapshot twice in a row, for any names.
THEOREM NoRepeats == Spec => []NoRepeatedSnapshot
<1>1. Init => NoRepeatedSnapshot
    BY DEF Init, NoRepeatedSnapshot
<1>2. TypeOK /\ NoRepeatedSnapshot /\ [Next]_vars => NoRepeatedSnapshot'
  <2> SUFFICES ASSUME TypeOK, NoRepeatedSnapshot, [Next]_vars PROVE NoRepeatedSnapshot'
    OBVIOUS
  <2> DEFINE Varied(h) == \A i \in 1..(Len(h) - 1) : h[i] # h[i + 1]
  <2>1. \A f \in files : f \in File /\ Varied(f.snaps) /\ f.snaps \in Seq(Snaps)
    BY DEF TypeOK, NoRepeatedSnapshot, File
  <2>2. ASSUME NEW p \in Dirs, NEW e \in BOOLEAN, AddDirectory(p, e) PROVE NoRepeatedSnapshot'
    <3>1. \A f \in files : [f EXCEPT !.dir = nextId].snaps = f.snaps
      BY <2>1 DEF File
    <3>2. \A g \in files' : \E f \in files : g.snaps = f.snaps
      BY <2>2, <3>1 DEF AddDirectory, Moved
    <3> QED
      BY <2>1, <3>2 DEF NoRepeatedSnapshot
  <2>3. ASSUME NEW h \in Seq(Snaps), NEW s \in Snaps, Varied(h) PROVE Varied(AddSnapshot(s, h))
    <3>1. CASE AddSnapshot(s, h) = h
      BY <2>3, <3>1
    <3>2. CASE AddSnapshot(s, h) = Append(h, s) /\ (h # << >> => h[Len(h)] # s)
      <4>1. /\ Len(Append(h, s)) = Len(h) + 1 /\ Len(h) \in Nat
            /\ \A i \in 1..Len(h) : Append(h, s)[i] = h[i]
            /\ Append(h, s)[Len(h) + 1] = s
        BY AppendProperties, LenProperties
      <4> SUFFICES ASSUME NEW i \in 1..(Len(Append(h, s)) - 1)
                   PROVE  Append(h, s)[i] # Append(h, s)[i + 1]
        BY <3>2
      <4>2. CASE i < Len(h)
        BY <2>3, <4>1, <4>2
      <4>3. CASE i = Len(h)
        BY <3>2, <4>1, <4>3
      <4> QED
        BY <4>1, <4>2, <4>3
    <3> QED
      BY <3>1, <3>2, AddSnapshotProperties
  <2>4. ASSUME NEW l \in lookups, NEW s \in Snaps, NEW cipher \in Ciphers \cup {Null},
               Record(l, s, cipher)
        PROVE  NoRepeatedSnapshot'
    <3>1. \A f \in files : [f EXCEPT !.snaps = AddSnapshot(s, @)].snaps = AddSnapshot(s, f.snaps)
      BY <2>1 DEF File
    <3>2. ASSUME NEW g \in files'
          PROVE  g.snaps = <<s>> \/ \E f \in files : g.snaps \in {f.snaps, AddSnapshot(s, f.snaps)}
      <4>1. CASE \E f \in files : f.dir = l.dir /\ f.path = l.path
        <5>1. files' = {IF f.dir = l.dir /\ f.path = l.path
                        THEN [f EXCEPT !.snaps = AddSnapshot(s, @)] ELSE f : f \in files}
          BY <2>4, <4>1 DEF Record, CreateFileSnapshotAndContent
        <5>2. PICK f \in files : g = IF f.dir = l.dir /\ f.path = l.path
                                     THEN [f EXCEPT !.snaps = AddSnapshot(s, @)] ELSE f
          BY <5>1
        <5> QED
          BY <3>1, <5>2
      <4>2. CASE ~ \E f \in files : f.dir = l.dir /\ f.path = l.path
        <5>1. g \in files \/ g = [id |-> nextId, dir |-> l.dir, path |-> l.path, snaps |-> <<s>>]
          BY <2>4, <4>2 DEF Record, CreateFileSnapshotAndContent
        <5> QED
          BY <5>1
      <4> QED
        BY <4>1, <4>2
    <3>3. Varied(<<s>>)
      OBVIOUS
    <3>4. \A f \in files : Varied(AddSnapshot(s, f.snaps))
      BY <2>1, <2>3
    <3>5. \A g \in files' : Varied(g.snaps)
      BY <2>1, <3>2, <3>3, <3>4
    <3> QED
      BY <3>5 DEF NoRepeatedSnapshot
  <2>5. \A s \in Snaps, n \in 1..MaxCiphers : <<ContentOf[s], n>> \in Ciphers
    BY MetadataAssumption DEF WellFormed, Ciphers
  <2>6. CASE UNCHANGED files
    BY <2>6 DEF NoRepeatedSnapshot
  <2> QED
    BY <2>2, <2>4, <2>5, <2>6 DEF Next, LookUp, Forget, vars
<1> QED
    BY <1>1, <1>2, TypeCorrect, PTL DEF Spec

\* Adding a directory never takes a file out of the tracked ones: whatever
\* owned it owns it still or has the new directory above it.
THEOREM CoverageIsKept == BenignNames => (Spec => CoverageKept)
<1> SUFFICES ASSUME BenignNames PROVE Spec => CoverageKept
    OBVIOUS
<1>1. ASSUME IInv, [Next]_vars, NEW p \in Paths, SearchDirectoryForPath(p) # {}
      PROVE  SearchDirectoryForPath(p)' # {}
  <2>1. PICK r : r \in SearchDirectoryForPath(p)
    BY <1>1
  <2>2. ASSUME NEW d \in Dirs, NEW e \in BOOLEAN, AddDirectory(d, e)
        PROVE  SearchDirectoryForPath(p)' # {}
    BY <1>1, <2>1, <2>2, OwnerAfterAdd DEF IInv
  <2>3. CASE UNCHANGED dirs
    BY <2>1, <2>3 DEF SearchDirectoryForPath, Containing
  <2> QED
    BY <1>1, <2>2, <2>3
       DEF Next, LookUp, Record, CreateFileSnapshotAndContent, Forget, vars
<1>2. IInv /\ [Next]_vars =>
         [\A p \in Paths : SearchDirectoryForPath(p) # {} => SearchDirectoryForPath(p)' # {}]_vars
    BY <1>1
<1> QED
    BY <1>2, Owned, PTL DEF Spec, CoverageKept

\* No transaction drops a file row, and none touches a history but at its end.
LEMMA HistoryStep ==
    ASSUME BenignNames, IInv, [Next]_vars, NEW f \in files
    PROVE  \E g \in files' : g.path = f.path /\ IsPrefix(f.snaps, g.snaps)
<1>1. f \in File /\ f.snaps \in Seq(Snaps) /\ IsPrefix(f.snaps, f.snaps)
    BY PrefixReflexive DEF IInv, TypeOK, File
<1>2. ASSUME NEW p \in Dirs, NEW e \in BOOLEAN, AddDirectory(p, e)
      PROVE  \E g \in files' : g.path = f.path /\ IsPrefix(f.snaps, g.snaps)
  <2>1. /\ [f EXCEPT !.dir = nextId].path = f.path
        /\ [f EXCEPT !.dir = nextId].snaps = f.snaps
    BY <1>1 DEF File
  <2>2. [f EXCEPT !.dir = nextId] \in files' \/ f \in files'
    BY <1>2, FilesAfterAdd
  <2> QED
    BY <1>1, <2>1, <2>2
<1>3. ASSUME NEW l \in lookups, NEW s \in Snaps, NEW cipher \in Ciphers \cup {Null},
             Record(l, s, cipher)
      PROVE  \E g \in files' : g.path = f.path /\ IsPrefix(f.snaps, g.snaps)
  <2>1. /\ [f EXCEPT !.snaps = AddSnapshot(s, @)].path = f.path
        /\ [f EXCEPT !.snaps = AddSnapshot(s, @)].snaps = AddSnapshot(s, f.snaps)
        /\ IsPrefix(f.snaps, AddSnapshot(s, f.snaps))
    BY <1>1, AddSnapshotProperties DEF File
  <2>2. [f EXCEPT !.snaps = AddSnapshot(s, @)] \in files' \/ f \in files'
    BY <1>3 DEF Record, CreateFileSnapshotAndContent
  <2> QED
    BY <1>1, <2>1, <2>2
<1>4. \A s \in Snaps, n \in 1..MaxCiphers : <<ContentOf[s], n>> \in Ciphers
    BY MetadataAssumption DEF WellFormed, Ciphers
<1>5. CASE UNCHANGED files
    BY <1>1, <1>5
<1> QED
    BY <1>2, <1>3, <1>4, <1>5 DEF Next, LookUp, Forget, vars

\* The history of every path only grows, through consolidation too.
THEOREM HistoryIsKept == BenignNames => (Spec => HistoryKept)
<1> SUFFICES ASSUME BenignNames PROVE Spec => HistoryKept
    OBVIOUS
<1>1. ASSUME IInv, [Next]_vars, NEW p \in Paths, NEW h \in History(p)
      PROVE  \E g \in History(p)' : IsPrefix(h, g)
  <2>1. PICK f \in files : f.path = p /\ h = f.snaps
    BY DEF History, FilesAt
  <2>2. PICK g \in files' : g.path = f.path /\ IsPrefix(f.snaps, g.snaps)
    BY <1>1, HistoryStep
  <2> QED
    BY <2>1, <2>2 DEF History, FilesAt
<1>2. IInv /\ [Next]_vars =>
         [\A p \in Paths : \A h \in History(p) : \E g \in History(p)' : IsPrefix(h, g)]_vars
    BY <1>1
<1> QED
    BY <1>2, Owned, PTL DEF Spec, HistoryKept

\* With benign names a directory stops being tracked only for one above it;
\* without, it may not: the run metadata_like shows how.
THEOREM ConsolidationIsUpward == BenignNames => (Spec => ConsolidatesChildrenOnly)
<1> SUFFICES ASSUME BenignNames PROVE Spec => ConsolidatesChildrenOnly
    OBVIOUS
<1>1. ASSUME TypeOK, [Next]_vars, NEW r \in dirs \ dirs'
      PROVE  \E q \in dirs' : <<q.path, r.path>> \in Above
  <2>1. PICK p \in Dirs, e \in BOOLEAN : AddDirectory(p, e)
    BY <1>1 DEF Next, LookUp, Record, CreateFileSnapshotAndContent, Forget, vars
  <2>2. /\ [id |-> nextId, path |-> p, encrypted |-> e] \in dirs'
        /\ r \in Children(p) /\ r.path \in Dirs
    BY <1>1, <2>1 DEF AddDirectory, TypeOK, Directory
  <2> QED
    BY <2>2 DEF Children, BenignNames
<1>2. TypeOK /\ [Next]_vars =>
         [\A r \in dirs \ dirs' : \E q \in dirs' : <<q.path, r.path>> \in Above]_vars
    BY <1>1
<1> QED
    BY <1>2, TypeCorrect, PTL DEF Spec, ConsolidatesChildrenOnly
=============================================================================

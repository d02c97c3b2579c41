------------------------ MODULE Staging_serial_proofs ------------------------
(***************************************************************************)
(* What Staging guarantees while calls do not overlap, for any number of   *)
(* processes, any sequence of changes, I/O errors, failed backups and      *)
(* crashes: no operation is dropped before it is backed up, and a queued   *)
(* content is missing only after a failed Stage. Calls of two processes    *)
(* that overlap can break both: the later one to rewrite queue.json drops  *)
(* what the other appended. TODO.md asks for a lock file against that.     *)
(*                                                                         *)
(* Serial is the inductive invariant. One client is at work at a time, so  *)
(* queue.json is still what it read: its operation is the head, which Pop  *)
(* therefore removes although it looks for a file and a checksum only, and *)
(* the copy it will write lacks nothing but that operation.                *)
(***************************************************************************)
EXTENDS Staging_proofs

\* Contents in the store, or removed by a Stage that failed.
Kept == content \cup discarded

\* An operation is backed up or queued.
Survives(n, q) == n \in backedUp \/ \E i \in DOMAIN q : q[i].id = n

QueueOK ==
    /\ Referenced(queue) \subseteq Kept
    /\ readable => \A n \in 0..(nextId - 1) : Survives(n, queue)

JobOK(c) ==
    /\ job[c].pc \in {"stored", "checked", "rejected", "appending"} => job[c].sum \in Kept
    /\ job[c].pc = "appending" =>
          /\ readable
          /\ Referenced(job[c].copy) \subseteq Kept
          /\ \A n \in 0..nextId : Survives(n, job[c].copy)
    /\ job[c].pc \in {"peeked", "backed", "popping"} =>
          readable /\ queue # << >> /\ job[c].op = Head(queue)
    /\ job[c].pc \in {"backed", "popping"} => job[c].op.id \in backedUp
    /\ job[c].pc = "popping" =>
          /\ Referenced(job[c].copy) \subseteq Referenced(queue)
          /\ \A n \in 0..(nextId - 1) : Survives(n, job[c].copy)
    /\ job[c].pc = "popped" /\ ~job[c].needed => job[c].sum \notin Referenced(queue)

OneAtWork == \A c, d \in Clients : job[c] # Idle /\ job[d] # Idle => c = d

Serial == ~overlap => OneAtWork /\ QueueOK /\ \A c \in Clients : JobOK(c)

LEMMA SerialInit == Init => Serial
BY DEF Init, Serial, OneAtWork, QueueOK, JobOK, Referenced, Idle

-----------------------------------------------------------------------------
(* The queue                                                               *)

\* The operation that is popped is the head, whatever else it matches.
LEMMA PopsHead ==
    ASSUME queue \in Seq(Ops), queue # << >>
    PROVE  /\ Referenced(Pop(Head(queue))) \subseteq Referenced(queue)
           /\ \A n : Survives(n, queue) /\ Head(queue).id \in backedUp
                        => Survives(n, Pop(Head(queue)))
<1>1. /\ Head(queue) = queue[1] /\ Len(queue) \in Nat /\ Len(queue) >= 1
      /\ DOMAIN queue = 1..Len(queue) /\ 1 \in DOMAIN queue
  BY HeadTailProperties, LenProperties
<1>2. FirstMatch(Head(queue)) = {1}
  <2>1. 1 \in FirstMatch(Head(queue))
    BY <1>1 DEF FirstMatch, Matches
  <2>2. ASSUME NEW i \in FirstMatch(Head(queue)) PROVE i = 1
    <3>1. i \in 1..Len(queue) /\ \A j \in 1..(i - 1) : ~Matches(queue[j], Head(queue))
      BY <1>1 DEF FirstMatch
    <3>2. Matches(queue[1], Head(queue))
      BY <1>1 DEF Matches
    <3> QED BY <1>1, <3>1, <3>2
  <2> QED BY <2>1, <2>2
<1>3. Pop(Head(queue)) = Without(1)
  BY <1>2 DEF Pop
<1>4. /\ \A j \in DOMAIN queue \ {1} : \E k \in DOMAIN Without(1) : Without(1)[k] = queue[j]
      /\ \A k \in DOMAIN Without(1) : \E j \in DOMAIN queue : Without(1)[k] = queue[j]
  BY <1>1, WithoutElements
<1>5. Referenced(Without(1)) \subseteq Referenced(queue)
  BY <1>4 DEF Referenced
<1>6. ASSUME NEW n, Survives(n, queue), Head(queue).id \in backedUp
      PROVE  Survives(n, Without(1))
  BY <1>1, <1>4, <1>6 DEF Survives
<1> QED BY <1>3, <1>5, <1>6

\* The queue with one more operation.
LEMMA AppendsLast ==
    ASSUME queue \in Seq(Ops), NEW o \in Ops
    PROVE  /\ Referenced(Append(queue, o)) = Referenced(queue) \cup {o.sum}
           /\ \A n : Survives(n, queue) \/ n = o.id => Survives(n, Append(queue, o))
<1> DEFINE q == Append(queue, o)
<1>1. /\ Len(queue) \in Nat /\ DOMAIN queue = 1..Len(queue) /\ DOMAIN q = 1..(Len(queue) + 1)
      /\ \A i \in 1..Len(queue) : q[i] = queue[i]
      /\ q[Len(queue) + 1] = o
  BY AppendProperties, LenProperties
<1>2. \A i \in 1..Len(queue) : i \in DOMAIN q
  BY <1>1
<1>3. \A i \in DOMAIN q : i \in 1..Len(queue) \/ i = Len(queue) + 1
  BY <1>1
<1>4. Len(queue) + 1 \in DOMAIN q
  BY <1>1
<1> HIDE DEF q
<1>5. Referenced(q) = Referenced(queue) \cup {o.sum}
  <2>1. Referenced(q) \subseteq Referenced(queue) \cup {o.sum}
    BY <1>1, <1>3 DEF Referenced
  <2>2. Referenced(queue) \subseteq Referenced(q)
    BY <1>1, <1>2 DEF Referenced
  <2>3. o.sum \in Referenced(q)
    BY <1>1, <1>4 DEF Referenced
  <2> QED BY <2>1, <2>2, <2>3
<1>6. \A n : Survives(n, queue) \/ n = o.id => Survives(n, q)
  BY <1>1, <1>2, <1>4 DEF Survives
<1> QED BY <1>5, <1>6 DEF q

-----------------------------------------------------------------------------
(* Steps of one client                                                     *)

\* Calls that overlapped have done so for good.
LEMMA SerialBefore == TypeOK /\ [Next]_vars /\ ~overlap' => ~overlap
<1> SUFFICES ASSUME TypeOK, [Next]_vars, overlap PROVE overlap'
  BY DEF TypeOK
<1> QED
  BY DEF Next, Stage, ProcessNext, Open, StoreBegin, StoreEnd, StoreFails, BeginWork, histVars,
         Restat, Reject, TooBig, AppendBegin, AppendEnd, AppendFails, Peek,
         BackupSucceeds, BackupFails, PopBegin, PopEnd, Commit, PopFails, Delete, Change,
         Crash, vars

\* Who makes a step is alone at work.
LEMMA Alone ==
    ASSUME TypeOK, Serial, ~overlap, ~overlap', NEW c \in Clients, Stage(c) \/ ProcessNext(c)
    PROVE  \A d \in Clients : d # c => job[d] = Idle
<1>1. CASE job[c] # Idle
  BY <1>1 DEF Serial, OneAtWork
<1>2. CASE job[c] = Idle
  <2>1. (\E f \in Files : Open(c, f)) \/ Peek(c)
    BY <1>2 DEF Idle, Stage, ProcessNext, StoreBegin, StoreEnd, StoreFails, Restat, Reject,
                TooBig, AppendBegin, AppendEnd, AppendFails, BackupSucceeds, BackupFails,
                PopBegin, PopEnd, Commit, PopFails
  <2>2. BeginWork(c)
    BY <2>1 DEF Open, Peek
  <2> QED BY <2>2 DEF BeginWork
<1> QED BY <1>1, <1>2

LEMMA ClientStep ==
    ASSUME TypeOK, NEW c \in Clients, NEW j, job' = [job EXCEPT ![c] = j],
           \A d \in Clients : d # c => job[d] = Idle,
           QueueOK', JobOK(c)'
    PROVE  Serial'
<1>1. \A d \in Clients : d # c => job'[d] = Idle
  BY DEF TypeOK
<1>2. ASSUME NEW d \in Clients, job'[d] = Idle PROVE JobOK(d)'
  BY <1>2 DEF JobOK, Idle
<1> QED BY <1>1, <1>2 DEF Serial, OneAtWork

\* A step that adds contents and leaves the queue as it is.
LEMMA QueueKept ==
    ASSUME QueueOK, UNCHANGED <<queue, readable, nextId>>, Kept \subseteq Kept',
           backedUp \subseteq backedUp'
    PROVE  QueueOK'
BY DEF QueueOK, Survives, Referenced

\* Nothing can be missing from a queue that was cut short.
LEMMA QueueCut ==
    ASSUME QueueOK, WriteQueueFails, Kept \subseteq Kept', UNCHANGED <<nextId, backedUp>>
    PROVE  QueueOK'
<1>1. CASE UNCHANGED <<queue, readable>>
  BY <1>1, QueueKept
<1>2. CASE queue' = << >> /\ readable' = FALSE
  BY <1>2 DEF QueueOK, Referenced
<1> QED BY <1>1, <1>2 DEF WriteQueueFails

\* The only client at work replaces the queue by its copy.
LEMMA WritesAlone ==
    ASSUME NEW c \in Writers, WriteQueue(c), \A d \in Clients : d # c => job[d] = Idle
    PROVE  queue' = job[c].copy /\ readable' = TRUE
BY DEF WriteQueue, Writers, Idle

LEMMA SerialStage ==
    ASSUME TypeOK, Serial, ~overlap, ~overlap', NEW c \in Clients, Stage(c)
    PROVE  Serial'
<1> USE DEF fsVars, storeVars, histVars
<1>0. /\ job \in [Clients -> Jobs] /\ job[c] \in Jobs /\ queue \in Seq(Ops) /\ nextId \in Nat
      /\ \A d \in Clients : d # c => job[d] = Idle
      /\ QueueOK /\ JobOK(c)
  BY Alone DEF TypeOK, Serial
<1>1. ASSUME NEW f \in Files, Open(c, f) PROVE Serial'
  <2>1. QueueOK'
    BY <1>0, <1>1, QueueKept DEF Open, Kept
  <2>2. JobOK(c)'
    BY <1>0, <1>1 DEF Open, JobOK
  <2> QED BY <1>0, <1>1, <2>1, <2>2, ClientStep DEF Open
<1>2. CASE StoreBegin(c)
  <2>1. QueueOK'
    BY <1>0, <1>2, QueueKept DEF StoreBegin, Kept
  <2>2. JobOK(c)'
    BY <1>0, <1>2 DEF StoreBegin, JobOK
  <2> QED BY <1>0, <1>2, <2>1, <2>2, ClientStep DEF StoreBegin
<1>3. CASE StoreEnd(c)
  <2> DEFINE sum == <<job[c].half, disk[job[c].file].data[2]>>
  <2>1. QueueOK'
    BY <1>0, <1>3, QueueKept DEF StoreEnd, Kept
  <2>2. job'[c].pc = "stored" /\ job'[c].sum = sum /\ sum \in Kept'
    BY <1>0, <1>3 DEF StoreEnd, Kept
  <2>3. JobOK(c)'
    BY <2>2 DEF JobOK
  <2> QED BY <1>0, <1>3, <2>1, <2>3, ClientStep DEF StoreEnd
<1>4. CASE StoreFails(c)
  <2>1. QueueOK'
    BY <1>0, <1>4, QueueKept DEF StoreFails, Kept
  <2>2. JobOK(c)'
    BY <1>0, <1>4 DEF StoreFails, JobOK, Idle
  <2> QED BY <1>0, <1>4, <2>1, <2>2, ClientStep DEF StoreFails
<1>5. CASE Restat(c)
  <2> DEFINE j == [job[c] EXCEPT !.pc = IF Unchanged(job[c]) THEN "checked" ELSE "rejected"]
  <2>1. job[c] \in [pc : {"stored"}, file : Files, stat : Nat, sum : Data]
    BY <1>0, <1>5 DEF Restat, Jobs
  <2>2. j.pc \in {"checked", "rejected"} /\ j.sum = job[c].sum
    BY <2>1
  <2>3. job' = [job EXCEPT ![c] = j]
    BY <1>5 DEF Restat
  <2> HIDE DEF j
  <2>4. QueueOK'
    BY <1>0, <1>5, QueueKept DEF Restat, Kept
  <2>5. job[c].sum \in Kept /\ Kept' = Kept
    BY <1>0, <1>5 DEF Restat, JobOK, Kept
  <2>6. JobOK(c)'
    BY <1>0, <2>2, <2>3, <2>5 DEF JobOK
  <2> QED BY <1>0, <2>3, <2>4, <2>6, ClientStep
<1>6. CASE Drop(c) /\ QueueOK'
  <2>1. JobOK(c)'
    BY <1>0, <1>6 DEF Drop, JobOK, Idle
  <2> QED BY <1>0, <1>6, <2>1, ClientStep DEF Drop
<1>7. Drop(c) => Kept \subseteq Kept'
  BY DEF Drop, Kept
<1>8. CASE Reject(c)
  BY <1>0, <1>6, <1>7, <1>8, QueueKept DEF Reject
<1>9. CASE TooBig(c)
  BY <1>0, <1>6, <1>7, <1>9, QueueKept DEF TooBig
<1>10. CASE AppendFails(c)
  <2>1. WriteQueueFails
    BY <1>10 DEF AppendFails, WriteQueueFails
  <2>2. UNCHANGED <<nextId, backedUp>> /\ Drop(c)
    BY <1>10 DEF AppendFails
  <2>3. QueueOK'
    BY <1>0, <1>7, <2>1, <2>2, QueueCut
  <2> QED BY <1>6, <2>2, <2>3
<1>11. CASE AppendBegin(c)
  <2> DEFINE o == [id |-> nextId, file |-> job[c].file, sum |-> job[c].sum,
                   stat |-> job[c].stat]
             q == Append(queue, o)
             j == [pc |-> "appending", file |-> job[c].file, stat |-> job[c].stat,
                   sum |-> job[c].sum, copy |-> q]
  <2>1. job[c] \in [pc : {"checked"}, file : Files, stat : Nat, sum : Data]
    BY <1>0, <1>11 DEF AppendBegin, Jobs
  <2>2. o \in Ops /\ o.sum = job[c].sum /\ o.id = nextId
    BY <1>0, <2>1 DEF Ops
  <2>3. job' = [job EXCEPT ![c] = j] /\ readable
    BY <1>11 DEF AppendBegin
  <2>4. QueueOK'
    BY <1>0, <1>11, QueueKept DEF AppendBegin, Kept
  <2>5. Referenced(q) \subseteq Kept /\ job[c].sum \in Kept
    BY <1>0, <2>1, <2>2, AppendsLast DEF QueueOK, JobOK
  <2>6. \A n \in 0..nextId : Survives(n, q)
    <3>1. \A n \in 0..nextId : n \in 0..(nextId - 1) \/ n = nextId
      BY <1>0
    <3> QED BY <1>0, <2>2, <2>3, <3>1, AppendsLast DEF QueueOK
  <2>7. /\ job'[c].pc = "appending" /\ job'[c].copy = q /\ job'[c].sum = job[c].sum
        /\ UNCHANGED <<content, discarded, readable, nextId, backedUp>>
    BY <1>0, <1>11 DEF AppendBegin
  <2> HIDE DEF q, o
  <2>8. JobOK(c)'
    <3>1. readable' /\ job'[c].sum \in Kept'
      BY <2>3, <2>5, <2>7 DEF Kept
    <3>2. Referenced(job'[c].copy) \subseteq Kept'
      BY <2>5, <2>7 DEF Kept
    <3>3. \A n \in 0..nextId' : n \in backedUp' \/ \E i \in DOMAIN job'[c].copy : job'[c].copy[i].id = n
      BY <2>6, <2>7 DEF Survives
    <3> QED BY <2>7, <3>1, <3>2, <3>3 DEF JobOK, Survives, Referenced
  <2> QED BY <1>0, <2>3, <2>4, <2>8, ClientStep
<1>12. CASE AppendEnd(c)
  <2>1. /\ queue' = job[c].copy /\ nextId' = nextId + 1
        /\ UNCHANGED <<content, discarded, backedUp>>
    BY <1>0, <1>12, WritesAlone DEF AppendEnd, Writers
  <2>2. /\ Referenced(job[c].copy) \subseteq Kept
        /\ \A n \in 0..nextId : Survives(n, job[c].copy)
    BY <1>0, <1>12 DEF AppendEnd, JobOK
  <2>3. 0..(nextId' - 1) = 0..nextId
    BY <1>0, <2>1
  <2>4. QueueOK'
    BY <2>1, <2>2, <2>3 DEF QueueOK, Survives, Referenced, Kept
  <2>5. JobOK(c)'
    BY <1>0, <1>12 DEF AppendEnd, JobOK, Idle
  <2> QED BY <1>0, <1>12, <2>4, <2>5, ClientStep DEF AppendEnd
<1> QED
  BY <1>1, <1>2, <1>3, <1>4, <1>5, <1>8, <1>9, <1>10, <1>11, <1>12 DEF Stage

LEMMA SerialProcessNext ==
    ASSUME TypeOK, Serial, ~overlap, ~overlap', NEW c \in Clients, ProcessNext(c)
    PROVE  Serial'
<1> USE DEF fsVars, storeVars, histVars
<1>0. /\ job \in [Clients -> Jobs] /\ job[c] \in Jobs /\ queue \in Seq(Ops) /\ nextId \in Nat
      /\ \A d \in Clients : d # c => job[d] = Idle
      /\ QueueOK /\ JobOK(c)
  BY Alone DEF TypeOK, Serial
<1>1. CASE Peek(c)
  <2>1. QueueOK'
    BY <1>0, <1>1, QueueKept DEF Peek, Kept
  <2>2. /\ job'[c] = [pc |-> "peeked", op |-> Head(queue)]
        /\ queue # << >> /\ readable /\ UNCHANGED <<queue, readable>>
    BY <1>0, <1>1 DEF Peek
  <2>3. JobOK(c)'
    BY <2>2 DEF JobOK
  <2> QED BY <1>0, <1>1, <2>1, <2>3, ClientStep DEF Peek
<1>2. CASE BackupSucceeds(c)
  <2> DEFINE j == [job[c] EXCEPT !.pc = "backed"]
  <2>1. job[c] \in [pc : {"peeked"}, op : Ops]
    BY <1>0, <1>2 DEF BackupSucceeds, Jobs
  <2>2. j.pc = "backed" /\ j.op = job[c].op /\ job' = [job EXCEPT ![c] = j]
    BY <1>2, <2>1 DEF BackupSucceeds
  <2> HIDE DEF j
  <2>3. job'[c].pc = "backed" /\ job'[c].op = job[c].op
    BY <1>0, <2>2
  <2>4. QueueOK'
    BY <1>0, <1>2, QueueKept DEF BackupSucceeds, Kept
  <2>5. readable' /\ queue' # << >> /\ job'[c].op = Head(queue') /\ job'[c].op.id \in backedUp'
    BY <1>0, <1>2, <2>3 DEF BackupSucceeds, JobOK
  <2>6. JobOK(c)'
    BY <2>3, <2>5 DEF JobOK
  <2> QED BY <1>0, <2>2, <2>4, <2>6, ClientStep
<1>3. CASE BackupFails(c)
  <2>1. QueueOK'
    BY <1>0, <1>3, QueueKept DEF BackupFails, Kept
  <2>2. JobOK(c)'
    BY <1>0, <1>3 DEF BackupFails, JobOK, Idle
  <2> QED BY <1>0, <1>3, <2>1, <2>2, ClientStep DEF BackupFails
<1>4. CASE PopBegin(c)
  <2> DEFINE q == Pop(job[c].op)
             j == [pc |-> "popping", op |-> job[c].op, copy |-> q]
  <2>1. /\ readable /\ queue # << >> /\ job[c].op = Head(queue)
        /\ job[c].op.id \in backedUp
    BY <1>0, <1>4 DEF PopBegin, JobOK
  <2>2. Referenced(q) \subseteq Referenced(queue)
    BY <1>0, <2>1, PopsHead
  <2>3. \A n \in 0..(nextId - 1) : Survives(n, q)
    BY <1>0, <2>1, PopsHead DEF QueueOK
  <2>4. /\ job' = [job EXCEPT ![c] = j]
        /\ UNCHANGED <<queue, readable, content, discarded, nextId, backedUp>>
    BY <1>4 DEF PopBegin
  <2> HIDE DEF q
  <2>5. job'[c].pc = "popping" /\ job'[c].op = job[c].op /\ job'[c].copy = q
    BY <1>0, <2>4
  <2>6. QueueOK'
    BY <1>0, <2>4, QueueKept DEF Kept
  <2>7. JobOK(c)'
    <3>1. readable' /\ queue' # << >> /\ job'[c].op = Head(queue') /\ job'[c].op.id \in backedUp'
      BY <2>1, <2>4, <2>5
    <3>2. Referenced(job[c].copy)' \subseteq Referenced(queue)'
      BY <2>2, <2>4, <2>5 DEF Referenced
    <3>3. \A n \in 0..(nextId' - 1) : Survives(n, job[c].copy)'
      BY <2>3, <2>4, <2>5 DEF Survives
    <3> QED BY <2>5, <3>1, <3>2, <3>3 DEF JobOK
  <2> QED BY <1>0, <2>4, <2>6, <2>7, ClientStep
<1>5. CASE PopEnd(c)
  <2> DEFINE needed == StillNeeded(job[c].copy, job[c].op.sum)
             j == [pc |-> "popped", sum |-> job[c].op.sum, needed |-> needed]
  <2>1. /\ queue' = job[c].copy
        /\ UNCHANGED <<content, discarded, nextId, backedUp>>
        /\ job' = [job EXCEPT ![c] = j]
    BY <1>0, <1>5, WritesAlone DEF PopEnd, Writers
  <2>2. /\ Referenced(job[c].copy) \subseteq Kept
        /\ \A n \in 0..(nextId - 1) : Survives(n, job[c].copy)
    BY <1>0, <1>5 DEF PopEnd, JobOK, QueueOK
  <2>3. QueueOK'
    BY <2>1, <2>2 DEF QueueOK, Survives, Referenced, Kept
  <2>4. needed <=> job[c].op.sum \in Referenced(queue)'
    BY <2>1 DEF StillNeeded, Referenced
  <2> HIDE DEF needed
  <2>5. job'[c].pc = "popped" /\ job'[c].sum = job[c].op.sum /\ job'[c].needed = needed
    BY <1>0, <2>1
  <2>6. JobOK(c)'
    BY <2>4, <2>5 DEF JobOK
  <2> QED BY <1>0, <2>1, <2>3, <2>6, ClientStep
<1>6. CASE Commit(c)
  <2>1. UNCHANGED <<queue, readable, nextId, backedUp, discarded>>
    BY <1>6 DEF Commit
  <2>2. Referenced(queue) \subseteq Kept'
    <3>1. CASE job[c].needed
      BY <1>0, <1>6, <3>1 DEF Commit, QueueOK, Kept
    <3>2. CASE ~job[c].needed
      <4>1. job[c].sum \notin Referenced(queue)
        BY <1>0, <1>6, <3>2 DEF Commit, JobOK
      <4> QED BY <1>0, <1>6, <3>2, <4>1 DEF Commit, QueueOK, Kept
    <3> QED BY <3>1, <3>2
  <2>3. QueueOK'
    BY <1>0, <2>1, <2>2 DEF QueueOK, Survives, Referenced
  <2>4. JobOK(c)'
    BY <1>0, <1>6 DEF Commit, JobOK, Idle
  <2> QED BY <1>0, <1>6, <2>3, <2>4, ClientStep DEF Commit
<1>7. CASE PopFails(c)
  <2>1. WriteQueueFails
    BY <1>7 DEF PopFails, WriteQueueFails
  <2>2. QueueOK'
    BY <1>0, <1>7, <2>1, QueueCut DEF PopFails, Kept
  <2>3. JobOK(c)'
    BY <1>0, <1>7 DEF PopFails, JobOK, Idle
  <2> QED BY <1>0, <1>7, <2>2, <2>3, ClientStep DEF PopFails
<1> QED
  BY <1>1, <1>2, <1>3, <1>4, <1>5, <1>6, <1>7 DEF ProcessNext

-----------------------------------------------------------------------------
(* Crashes, and the theorems                                               *)

LEMMA JobKept ==
    ASSUME NEW d \in Clients, JobOK(d), job'[d] = job[d],
           UNCHANGED <<queue, readable, content, discarded, nextId, backedUp>>
    PROVE  JobOK(d)'
<1>1. /\ Referenced(queue)' = Referenced(queue) /\ Kept' = Kept
      /\ Referenced(job[d].copy)' = Referenced(job[d].copy)
  BY DEF Referenced, Kept
<1>2. \A n : Survives(n, job[d].copy)' <=> Survives(n, job[d].copy)
  BY DEF Survives
<1> QED BY <1>1, <1>2 DEF JobOK

\* A process that dies while it rewrites queue.json was alone at work.
LEMMA SerialCrash ==
    ASSUME TypeOK, Serial, ~overlap, NEW p, Crash(p)
    PROVE  Serial'
<1> USE DEF fsVars, storeVars, histVars
<1>0. /\ job \in [Clients -> Jobs] /\ QueueOK /\ OneAtWork /\ \A d \in Clients : JobOK(d)
      /\ UNCHANGED <<content, discarded, nextId, backedUp>>
      /\ \A d \in Clients : job'[d] = Idle \/ (d \notin Died(p) /\ job'[d] = job[d])
  BY DEF TypeOK, Serial, Crash
<1>1. OneAtWork'
  BY <1>0 DEF OneAtWork
<1>2. \A d \in Clients : job'[d] = Idle => JobOK(d)'
  BY DEF JobOK, Idle
<1>3. CASE UNCHANGED <<queue, readable>>
  <2>1. QueueOK'
    BY <1>0, <1>3, QueueKept DEF Kept
  <2>2. \A d \in Clients : JobOK(d)'
    BY <1>0, <1>2, <1>3, JobKept
  <2> QED BY <1>1, <2>1, <2>2 DEF Serial
<1>4. CASE Writers \cap Died(p) # {} /\ WriteQueueFails
  <2>1. QueueOK'
    BY <1>0, <1>4, QueueCut DEF Kept
  <2>2. PICK w \in Died(p) : w \in Clients /\ job[w] # Idle
    BY <1>4 DEF Writers, Idle
  <2>3. \A d \in Clients : job'[d] = Idle
    BY <1>0, <2>2 DEF OneAtWork
  <2> QED BY <1>1, <1>2, <2>1, <2>3 DEF Serial
<1> QED BY <1>3, <1>4 DEF Crash

LEMMA SerialNext == TypeOK /\ Serial /\ [Next]_vars => Serial'
<1> SUFFICES ASSUME TypeOK, Serial, [Next]_vars, ~overlap' PROVE Serial'
  BY DEF Serial
<1>1. ~overlap
  BY SerialBefore
<1>2. ASSUME NEW c \in Clients, Stage(c) \/ ProcessNext(c) PROVE Serial'
  BY <1>1, <1>2, SerialStage, SerialProcessNext
<1>3. ASSUME NEW p, Crash(p) PROVE Serial'
  BY <1>1, <1>3, SerialCrash
<1>4. CASE UNCHANGED <<storeVars, job, histVars>>
  <2>1. /\ QueueOK /\ OneAtWork /\ \A d \in Clients : JobOK(d)
        /\ UNCHANGED <<queue, readable, content, discarded, nextId, backedUp, job>>
    BY <1>1, <1>4 DEF Serial, storeVars, histVars
  <2>2. QueueOK'
    BY <2>1, QueueKept DEF Kept
  <2>3. \A d \in Clients : JobOK(d)'
    BY <2>1, JobKept
  <2>4. OneAtWork'
    BY <2>1 DEF OneAtWork
  <2> QED BY <2>2, <2>3, <2>4 DEF Serial
<1> QED
  BY <1>2, <1>3, <1>4 DEF Next, Change, Delete, vars

LEMMA SerialAlways == Spec => []Serial
BY SerialInit, SerialNext, TypeCorrect, PTL DEF Spec

\* Calls that follow each other, of whatever processes and cut off wherever,
\* drop no operation before it was backed up, as long as queue.json is whole.
THEOREM NothingIsDropped == Spec => []NothingDropped
<1>1. Serial => NothingDropped
  BY DEF Serial, QueueOK, Survives, NothingDropped
<1> QED BY <1>1, SerialAlways, PTL

\* Nor do they take the content of a queued operation away, but for a Stage
\* that fails and removes the content it shares with the operation.
THEOREM LostByDiscard == Spec => []LostOnlyByDiscard
<1>1. Serial => LostOnlyByDiscard
  BY DEF Serial, QueueOK, Kept, Referenced, LostOnlyByDiscard
<1> QED BY <1>1, SerialAlways, PTL
=============================================================================

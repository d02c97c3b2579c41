------------------------------ MODULE Staging ------------------------------
(***************************************************************************)
(* The staging area of bt (src/internal/staging): files are copied into a  *)
(* content directory keyed by checksum, an operation per file is appended  *)
(* to queue.json, and ProcessNext hands the head of the queue to a backup  *)
(* function and removes it when that function succeeds.                    *)
(*                                                                         *)
(* stagingArea.mu keeps the goroutines of one process apart; nothing keeps *)
(* two processes apart that use one staging directory, such as `bt add`    *)
(* and `bt backup`. Granularity: what one lock section does with the files *)
(* of the staging area is one action, but for the calls another process or *)
(* a crash can come between: StoreContent reads the source file in two     *)
(* steps, queue.json is read, then rewritten, and RemoveContent follows.   *)
(*                                                                         *)
(* Data: a file is two blocks, so that a read can be torn; the checksum of *)
(* a content is the content itself (SHA-256 taken as collision free); the  *)
(* stat data the code compares is one stamp, fresh at every change of the  *)
(* file (the kernel's ctime); every content has size 1.                    *)
(***************************************************************************)
EXTENDS Naturals, Sequences, FiniteSets

CONSTANTS
    Clients,    \* goroutines that use one staging directory
    Process,    \* the process of each client: its clients share a stagingArea
    Files,      \* (directory ID, relative path) pairs
    Blocks,     \* values of half a file
    MaxSize,    \* stagingArea.maxSize, in contents
    MaxChanges, \* bound: changes made to the source files
    MaxOps,     \* bound: operations ever appended
    MaxFaults   \* bound: I/O errors, failing backups and crashes

ASSUME StagingAssumption ==
    /\ MaxSize \in Nat \ {0} /\ MaxChanges \in Nat /\ MaxOps \in Nat
    /\ MaxFaults \in Nat

VARIABLES
    disk,     \* source files: what is on disk now
    clock,    \* number of changes made, the source of fresh stamps
    mu,       \* the clients holding their process's stagingArea.mu
    content,  \* checksums present in content/
    tmps,     \* abandoned .tmp-* files in content/
    queue,    \* the operations in queue.json
    readable, \* queue.json can be parsed
    job,      \* what each client is doing
    faults,   \* faults so far
    past,     \* history: every state a source file has had
    nextId,   \* history: identity of the next operation
    backedUp, \* history: operations for which fn returned nil
    discarded, \* history: checksums removed by a Stage that failed
    overlap,  \* history: two clients have been at work at once
    raced     \* history: two clients have been rewriting queue.json at once

fsVars   == <<disk, clock, past>>
storeVars == <<content, tmps, queue, readable>>
histVars == <<nextId, backedUp, discarded, overlap, raced>>
vars == <<fsVars, storeVars, mu, job, faults, histVars>>

Data == Blocks \X Blocks
States == [file : Files, data : Data, stamp : Nat]
Ops == [id : Nat, file : Files, sum : Data, stat : Nat]
Jobs ==
    [pc : {"idle"}]
    \cup [pc : {"opened"}, file : Files, stat : Nat]
    \cup [pc : {"reading"}, file : Files, stat : Nat, half : Blocks]
    \cup [pc : {"stored", "checked", "rejected"}, file : Files, stat : Nat, sum : Data]
    \cup [pc : {"appending"}, file : Files, stat : Nat, sum : Data, copy : Seq(Ops)]
    \cup [pc : {"peeked", "backed"}, op : Ops]
    \cup [pc : {"popping"}, op : Ops, copy : Seq(Ops)]
    \cup [pc : {"popped"}, sum : Data, needed : BOOLEAN]

Idle == [pc |-> "idle"]
Free(c) == \A d \in mu : Process[d] # Process[c]
\* Clients between reading queue.json and rewriting it.
Writers == {c \in Clients : job[c].pc \in {"appending", "popping"}}
FileState(f) == [file |-> f, data |-> disk[f].data, stamp |-> disk[f].stamp]

Init ==
    /\ disk \in [Files -> {[data |-> d, stamp |-> 0, there |-> TRUE] : d \in Data}]
    /\ clock = 0
    /\ past = {FileState(f) : f \in Files}
    /\ mu = {} /\ content = {} /\ tmps = 0
    /\ queue = << >> /\ readable = TRUE
    /\ job = [c \in Clients |-> Idle]
    /\ faults = 0 /\ nextId = 0 /\ backedUp = {} /\ discarded = {}
    /\ overlap = FALSE /\ raced = FALSE

-----------------------------------------------------------------------------
(* Programs that own the source files.                                     *)

\* Any change of a file: new bytes, or only new metadata (touch, chmod).
Change(f, d) ==
    /\ clock < MaxChanges
    /\ clock' = clock + 1
    /\ disk' = [disk EXCEPT ![f] = [data |-> d, stamp |-> clock + 1, there |-> TRUE]]
    /\ past' = past \cup {[file |-> f, data |-> d, stamp |-> clock + 1]}
    /\ UNCHANGED <<storeVars, mu, job, faults, histVars>>

\* The file is unlinked; a reader that has it open still reads its bytes.
Delete(f) ==
    /\ disk[f].there
    /\ clock < MaxChanges
    /\ clock' = clock + 1
    /\ disk' = [disk EXCEPT ![f].there = FALSE]
    /\ UNCHANGED <<past, storeVars, mu, job, faults, histVars>>

-----------------------------------------------------------------------------
(* The store.                                                              *)

\* filesystemStore.ContentSize counts every entry of content/, the temp file
\* that another process is filling with what it holds so far.
ContentSize ==
    LET whole == Cardinality(content) + tmps
        filling == Cardinality({c \in Clients : job[c].pc = "reading"})
    IN  whole .. (whole + filling)
Full == \E n \in ContentSize : n > MaxSize
Fits == \E n \in ContentSize : n <= MaxSize

Fault == faults < MaxFaults /\ faults' = faults + 1
BeginWork(c) == overlap' = (overlap \/ \E d \in Clients : d # c /\ job[d] # Idle)
BeginRewrite == raced' = (raced \/ Writers # {})

\* os.WriteFile truncates queue.json before it writes. When it fails, either
\* nothing happened or the file no longer parses and its operations are gone;
\* of two processes that write at once the later one wins, or leaves the
\* tail of what the other wrote; who reads meanwhile may find it cut short.
WriteQueueFails ==
    \/ UNCHANGED <<queue, readable>>
    \/ queue' = << >> /\ readable' = FALSE
WriteQueue(c) ==
    \/ queue' = job[c].copy /\ readable' = TRUE
    \/ Writers # {c} /\ queue' = << >> /\ readable' = FALSE
MayNotParse == ~readable \/ Writers # {}

Matches(o, p) == o.file = p.file /\ o.sum = p.sum
FirstMatch(o) ==
    {i \in DOMAIN queue : /\ Matches(queue[i], o)
                          /\ \A j \in 1..(i - 1) : ~Matches(queue[j], o)}
Without(i) == SubSeq(queue, 1, i - 1) \o SubSeq(queue, i + 1, Len(queue))
\* filesystemStore.Pop: the queue without its first match, or unchanged.
Pop_All(o) == SelectSeq(queue, LAMBDA p : ~Matches(p, o))
Pop(o) ==
    IF FirstMatch(o) = {} THEN queue ELSE Without(CHOOSE i \in FirstMatch(o) : TRUE)
Referenced(q) == {q[i].sum : i \in DOMAIN q}
\* The number of references Pop returns is not zero.
StillNeeded_Other(q, sum) == \E i, j \in DOMAIN q : i # j /\ q[i].sum = sum /\ q[j].sum = sum
StillNeeded(q, sum) == sum \in Referenced(q)

-----------------------------------------------------------------------------
(* stagingArea.Stage                                                       *)

\* Stat the path and open it.
Open(c, f) ==
    /\ job[c] = Idle
    /\ disk[f].there
    /\ job' = [job EXCEPT ![c] = [pc |-> "opened", file |-> f, stat |-> disk[f].stamp]]
    /\ BeginWork(c)
    /\ UNCHANGED <<fsVars, storeVars, mu, faults, nextId, backedUp, discarded, raced>>

\* Lock; StoreContent creates its temp file and copies the first block ...
StoreBegin(c) ==
    /\ job[c].pc = "opened" /\ Free(c)
    /\ mu' = mu \cup {c}
    /\ job' = [job EXCEPT ![c] =
                 [pc |-> "reading", file |-> job[c].file, stat |-> job[c].stat,
                  half |-> disk[job[c].file].data[1]]]
    /\ UNCHANGED <<fsVars, storeVars, faults, histVars>>

\* ... then the second, and renames the file to its checksum, or drops it
\* when that content is already there.
StoreEnd(c) ==
    /\ job[c].pc = "reading"
    /\ LET sum == <<job[c].half, disk[job[c].file].data[2]>>
       IN  /\ content' = content \cup {sum}
           /\ job' = [job EXCEPT ![c] =
                        [pc |-> "stored", file |-> job[c].file, stat |-> job[c].stat,
                         sum |-> sum]]
    /\ mu' = mu \ {c}
    /\ UNCHANGED <<fsVars, tmps, queue, readable, faults, histVars>>

\* The copy or the rename fails: the temp file is removed, Stage returns.
StoreFails_Locked(c) ==
    /\ job[c].pc = "reading" /\ Fault
    /\ job' = [job EXCEPT ![c] = Idle]
    /\ UNCHANGED <<fsVars, storeVars, mu, histVars>>
StoreFails(c) ==
    /\ job[c].pc = "reading" /\ Fault
    /\ mu' = mu \ {c}
    /\ job' = [job EXCEPT ![c] = Idle]
    /\ UNCHANGED <<fsVars, storeVars, histVars>>

\* validateStatUnchanged: the second stat finds the file as the first did.
Unchanged_NoStat(j) == disk[j.file].there
Unchanged(j) == disk[j.file].there /\ disk[j.file].stamp = j.stat

\* Second stat, outside the lock.
Restat(c) ==
    /\ job[c].pc = "stored"
    /\ job' = [job EXCEPT ![c].pc = IF Unchanged(job[c]) THEN "checked" ELSE "rejected"]
    /\ UNCHANGED <<fsVars, storeVars, mu, faults, histVars>>

\* RemoveContent and return an error: what every failing path after
\* StoreContent does.
Drop_Leak(c) ==
    /\ mu' = mu \ {c}
    /\ job' = [job EXCEPT ![c] = Idle]
    /\ UNCHANGED <<content, discarded>>
Drop(c) ==
    /\ content' = content \ {job[c].sum}
    /\ discarded' = discarded \cup {job[c].sum}
    /\ mu' = mu \ {c}
    /\ job' = [job EXCEPT ![c] = Idle]

Reject(c) ==
    /\ job[c].pc = "rejected" /\ Free(c)
    /\ Drop(c)
    /\ UNCHANGED <<fsVars, tmps, queue, readable, faults, nextId, backedUp, overlap, raced>>

TooBig(c) ==
    /\ job[c].pc = "checked" /\ Free(c)
    /\ Full
    /\ Drop(c)
    /\ UNCHANGED <<fsVars, tmps, queue, readable, faults, nextId, backedUp, overlap, raced>>

\* Append reads queue.json ...
AppendBegin(c) ==
    /\ job[c].pc = "checked" /\ Free(c)
    /\ Fits
    /\ readable
    /\ nextId < MaxOps
    /\ mu' = mu \cup {c}
    /\ LET op == [id |-> nextId, file |-> job[c].file, sum |-> job[c].sum, stat |-> job[c].stat]
       IN  job' = [job EXCEPT ![c] =
                     [pc |-> "appending", file |-> job[c].file, stat |-> job[c].stat,
                      sum |-> job[c].sum, copy |-> Append(queue, op)]]
    /\ BeginRewrite
    /\ UNCHANGED <<fsVars, storeVars, faults, nextId, backedUp, discarded, overlap>>

\* ... and rewrites it.
AppendEnd(c) ==
    /\ job[c].pc = "appending"
    /\ WriteQueue(c)
    /\ nextId' = nextId + 1
    /\ mu' = mu \ {c}
    /\ job' = [job EXCEPT ![c] = Idle]
    /\ UNCHANGED <<fsVars, content, tmps, faults, backedUp, discarded, overlap, raced>>

\* queue.json cannot be parsed, or cannot be written.
AppendFails(c) ==
    /\ \/ job[c].pc = "checked" /\ Free(c) /\ Fits
          /\ MayNotParse /\ UNCHANGED <<faults, queue, readable>>
       \/ job[c].pc = "appending" /\ Fault /\ WriteQueueFails
    /\ Drop(c)
    /\ UNCHANGED <<fsVars, tmps, nextId, backedUp, overlap, raced>>

-----------------------------------------------------------------------------
(* stagingArea.ProcessNext                                                 *)

\* Peek and OpenContent. An empty queue, an unreadable one and a missing
\* content all return to the caller with nothing changed.
Peek(c) ==
    /\ job[c] = Idle /\ Free(c) /\ readable
    /\ queue # << >>
    /\ Head(queue).sum \in content
    /\ job' = [job EXCEPT ![c] = [pc |-> "peeked", op |-> Head(queue)]]
    /\ BeginWork(c)
    /\ UNCHANGED <<fsVars, storeVars, mu, faults, nextId, backedUp, discarded, raced>>

\* The backup function runs outside the lock, on the open reader.
BackupSucceeds(c) ==
    /\ job[c].pc = "peeked"
    /\ job' = [job EXCEPT ![c].pc = "backed"]
    /\ backedUp' = backedUp \cup {job[c].op.id}
    /\ UNCHANGED <<fsVars, storeVars, mu, faults, nextId, discarded, overlap, raced>>

BackupFails(c) ==
    /\ job[c].pc = "peeked" /\ Fault
    /\ job' = [job EXCEPT ![c] = Idle]
    /\ UNCHANGED <<fsVars, storeVars, mu, histVars>>

\* Pop reads queue.json ...
PopBegin(c) ==
    /\ job[c].pc = "backed" /\ Free(c) /\ readable
    /\ mu' = mu \cup {c}
    /\ job' = [job EXCEPT ![c] = [pc |-> "popping", op |-> job[c].op, copy |-> Pop(job[c].op)]]
    /\ BeginRewrite
    /\ UNCHANGED <<fsVars, storeVars, faults, nextId, backedUp, discarded, overlap>>

\* ... rewrites it, and returns how many operations need the content ...
PopEnd(c) ==
    /\ job[c].pc = "popping"
    /\ WriteQueue(c)
    /\ job' = [job EXCEPT ![c] =
                 [pc |-> "popped", sum |-> job[c].op.sum,
                  needed |-> StillNeeded(job[c].copy, job[c].op.sum)]]
    /\ UNCHANGED <<fsVars, content, tmps, mu, faults, histVars>>

\* ... which is removed when none does.
Commit(c) ==
    /\ job[c].pc = "popped"
    /\ content' = IF job[c].needed THEN content ELSE content \ {job[c].sum}
    /\ mu' = mu \ {c}
    /\ job' = [job EXCEPT ![c] = Idle]
    /\ UNCHANGED <<fsVars, tmps, queue, readable, faults, histVars>>

\* Pop fails: the operation stays although fn succeeded, and is retried.
PopFails(c) ==
    /\ \/ job[c].pc = "backed" /\ Free(c)
          /\ MayNotParse /\ UNCHANGED <<faults, queue, readable>>
       \/ job[c].pc = "popping" /\ Fault /\ WriteQueueFails
    /\ mu' = mu \ {c}
    /\ job' = [job EXCEPT ![c] = Idle]
    /\ UNCHANGED <<fsVars, content, tmps, histVars>>

-----------------------------------------------------------------------------
\* A process dies and can be started again: its lock and its jobs are lost,
\* the files stay, a StoreContent in progress leaves its temp file, and
\* queue.json may have been cut short.
Died(p) == {c \in Clients : Process[c] = p}
Crash(p) ==
    /\ Fault
    /\ \E c \in Died(p) : job[c] # Idle
    /\ tmps' = tmps + Cardinality({c \in Died(p) : job[c].pc = "reading"})
    /\ IF Writers \cap Died(p) # {} THEN WriteQueueFails ELSE UNCHANGED <<queue, readable>>
    /\ mu' = mu \ Died(p)
    /\ job' = [c \in Clients |-> IF c \in Died(p) THEN Idle ELSE job[c]]
    /\ UNCHANGED <<fsVars, content, histVars>>

Stage(c) ==
    \/ \E f \in Files : Open(c, f)
    \/ StoreBegin(c) \/ StoreEnd(c) \/ StoreFails(c) \/ Restat(c)
    \/ Reject(c) \/ TooBig(c) \/ AppendBegin(c) \/ AppendEnd(c) \/ AppendFails(c)

ProcessNext(c) ==
    \/ Peek(c) \/ BackupSucceeds(c) \/ BackupFails(c)
    \/ PopBegin(c) \/ PopEnd(c) \/ Commit(c) \/ PopFails(c)

Next ==
    \/ \E c \in Clients : Stage(c) \/ ProcessNext(c) \/ Crash(Process[c])
    \/ \E f \in Files : Delete(f) \/ \E d \in Data : Change(f, d)

Spec == Init /\ [][Next]_vars

-----------------------------------------------------------------------------
(* Properties                                                              *)

\* The types of the variables; and a process's mutex is held by exactly the
\* client, if any, that is inside StoreContent, Append or Pop: no path returns
\* with it locked.
TypeOK ==
    /\ disk \in [Files -> [data : Data, stamp : Nat, there : BOOLEAN]]
    /\ clock \in Nat
    /\ content \subseteq Data
    /\ tmps \in Nat
    /\ queue \in Seq(Ops)
    /\ readable \in BOOLEAN
    /\ job \in [Clients -> Jobs]
    /\ faults \in Nat
    /\ past \subseteq States
    /\ nextId \in Nat /\ backedUp \subseteq Nat /\ discarded \subseteq Data
    /\ overlap \in BOOLEAN /\ raced \in BOOLEAN
    /\ mu = {c \in Clients : job[c].pc \in {"reading", "appending", "popping", "popped"}}
    /\ \A c, d \in mu : Process[c] = Process[d] => c = d

\* Every queued operation records a content and a stat that its source file
\* had at one and the same time: the stat, read, stat again protocol of
\* Stage never lets a torn or outdated copy into the queue, not even when
\* processes overwrite each other's queue.
SnapshotConsistent ==
    \A i \in DOMAIN queue :
        [file |-> queue[i].file, data |-> queue[i].sum, stamp |-> queue[i].stat] \in past

\* Contents that a call in progress has yet to queue or to remove.
Owed(c) ==
    \/ job[c].pc \in {"stored", "checked", "rejected", "appending"}
    \/ job[c].pc = "popped" /\ ~job[c].needed
InFlight == {job[c].sum : c \in {d \in Clients : Owed(d)}}

\* A content file in the staging area is owed to a queued operation, to a
\* Stage in progress or to a ProcessNext about to commit, as long as nothing
\* failed and no two processes were rewriting queue.json at once: neither
\* Stage nor ProcessNext leaves content behind to eat up the size limit.
NoOrphanContent ==
    faults = 0 /\ ~raced => content \subseteq Referenced(queue) \cup InFlight

\* The content of a queued operation is missing only when a failed Stage of
\* the same content removed it: calls that follow each other, of any number
\* of processes, never take the content away from a queued operation.
LostOnlyByDiscard ==
    ~overlap => \A i \in DOMAIN queue : queue[i].sum \in content \cup discarded

\* An operation leaves a readable queue only after the backup function
\* returned nil for that very operation, however calls are cut off and
\* retried. Calls that overlap can lose one: the later of two processes to
\* rewrite queue.json drops what the other appended.
NothingDropped ==
    readable /\ ~overlap => \A n \in 0..(nextId - 1) :
        n \in backedUp \/ \E i \in DOMAIN queue : queue[i].id = n

\* Documented by BackupFunc and ProcessNext ("the operation stays in queue
\* for retry"): a queued operation can be processed, its content is there.
\* Once a Stage that failed has removed it, every ProcessNext fails before it
\* calls the backup function, until a file with the same content is staged.
QueuedContentPresent == \A i \in DOMAIN queue : queue[i].sum \in content
=============================================================================

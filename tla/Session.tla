------------------------------- MODULE Session -------------------------------
(***************************************************************************)
(* One bt command that changes the database, from NewBTApp to Close        *)
(* (src/internal/app/app.go), and the metadata copy it uploads to the      *)
(* vault (PutMetadata and GetMetadataVersion of src/internal/vault).       *)
(* Processes share the host's database and the vault; nothing keeps two of *)
(* them from running at once. Every call is an action, a process can be    *)
(* killed between any two, and the local database can be replaced by an    *)
(* older image of itself or by the vault's copy. On a file system the      *)
(* version is written by os.WriteFile, which truncates the file and then   *)
(* writes it in place: two actions, and two processes can be between them. *)
(*                                                                         *)
(* Data: the database is the sequence of its backup_operations rows, each  *)
(* with its status and with how much of the command's work is in the other *)
(* tables; a row's ID is its position (AUTOINCREMENT, rows are never       *)
(* deleted). Read-only commands persist no row and change nothing.         *)
(***************************************************************************)
EXTENDS Naturals, Sequences

CONSTANTS
    Procs,     \* processes
    Radix,     \* the base version numbers are written in: 10 in the code
    MaxOps,    \* bound: operations ever persisted
    MaxFaults, \* bound: failing calls and crashes
    MaxLosses, \* bound: replacements of the local database
    Torn       \* a version file that was truncated and not yet written

ASSUME SessionAssumption ==
    /\ Radix \in Nat \ {0, 1} /\ Torn \notin Nat
    /\ MaxOps \in Nat /\ MaxFaults \in Nat /\ MaxLosses \in Nat

VARIABLES
    vault,   \* the kind of vault the host is configured with
    db,      \* the local database
    remote,  \* the vault's copy of it
    version, \* the version stored next to the copy
    proc,    \* what each process is doing
    overlap, \* history: two processes have run at once
    raced,   \* history: two have been writing the version file at once
    faults, losses

vars == <<vault, db, remote, version, proc, overlap, raced, faults, losses>>

Row == [status : {"running", "success"}, work : {"none", "partial", "done"}]
Down == [pc |-> "down"]
Jobs ==
    [pc : {"down", "open"}]
    \cup [pc : {"work", "finish", "snapshot", "version", "write"}, id : Nat \ {0}]
    \cup [pc : {"data"}, id : Nat \ {0}, copy : Seq(Row)]

Init ==
    /\ vault \in {"filesystem", "s3"}
    /\ db = << >> /\ remote = << >> /\ version = 0
    /\ proc = [p \in Procs |-> Down]
    /\ overlap = FALSE /\ raced = FALSE
    /\ faults = 0 /\ losses = 0

Goto(p, s) == proc' = [proc EXCEPT ![p] = s]
Fault == faults < MaxFaults /\ faults' = faults + 1

-----------------------------------------------------------------------------
\* The version guard of NewBTApp: a torn version file does not parse, and a
\* copy newer than the local database blocks the command.
GuardOK_None == version # Torn
GuardOK == version # Torn /\ version <= Len(db)

NewBTApp(p) ==
    /\ proc[p] = Down
    /\ GuardOK
    /\ Goto(p, [pc |-> "open"])
    /\ overlap' = (overlap \/ \E q \in Procs : proc[q] # Down)
    /\ UNCHANGED <<vault, db, remote, version, raced, faults, losses>>

persistOperation_Zero(p) ==
    /\ proc[p].pc = "open"
    /\ Len(db) < MaxOps
    /\ db' = Append(db, [status |-> "running", work |-> "none"])
    /\ Goto(p, [pc |-> "work", id |-> Len(db)])
    /\ UNCHANGED <<vault, remote, version, overlap, raced, faults, losses>>
persistOperation(p) ==
    /\ proc[p].pc = "open"
    /\ Len(db) < MaxOps
    /\ db' = Append(db, [status |-> "running", work |-> "none"])
    /\ Goto(p, [pc |-> "work", id |-> Len(db) + 1])
    /\ UNCHANGED <<vault, remote, version, overlap, raced, faults, losses>>

\* The service call succeeds, or fails having recorded nothing or a part;
\* main prints the error and runs Close all the same.
Work(p) ==
    /\ proc[p].pc = "work"
    /\ \/ db' = [db EXCEPT ![proc[p].id].work = "done"] /\ UNCHANGED faults
       \/ Fault /\ \E w \in {"none", "partial"} : db' = [db EXCEPT ![proc[p].id].work = w]
    /\ Goto(p, [pc |-> "finish", id |-> proc[p].id])
    /\ UNCHANGED <<vault, remote, version, overlap, raced, losses>>

\* Close: the row is finished with the status the operation was created
\* with; a failure is noted and Close goes on.
FinishBackupOperation(p) ==
    /\ proc[p].pc = "finish"
    /\ \/ db' = [db EXCEPT ![proc[p].id].status = "success"] /\ UNCHANGED faults
       \/ Fault /\ UNCHANGED db
    /\ Goto(p, [pc |-> "snapshot", id |-> proc[p].id])
    /\ UNCHANGED <<vault, remote, version, overlap, raced, losses>>

\* BackupTo copies the whole database, other processes' rows included.
BackupTo(p) ==
    /\ proc[p].pc = "snapshot"
    /\ Goto(p, [pc |-> "data", id |-> proc[p].id, copy |-> db])
    /\ UNCHANGED <<vault, db, remote, version, overlap, raced, faults, losses>>

\* PutMetadata: first the data object, then the version object.
PutData_VersionFirst(p) ==
    /\ proc[p].pc = "data"
    /\ version' = proc[p].id
    /\ Goto(p, [pc |-> "version", id |-> proc[p].id])
    /\ UNCHANGED <<vault, db, remote, overlap, raced, faults, losses>>
PutData_Once(p) ==
    /\ proc[p].pc = "data"
    /\ remote' = IF remote = << >> THEN proc[p].copy ELSE remote
    /\ Goto(p, [pc |-> "version", id |-> proc[p].id])
    /\ UNCHANGED <<vault, db, version, overlap, raced, faults, losses>>
PutData(p) ==
    /\ proc[p].pc = "data"
    /\ remote' = proc[p].copy
    /\ Goto(p, [pc |-> "version", id |-> proc[p].id])
    /\ UNCHANGED <<vault, db, version, overlap, raced, faults, losses>>

\* The version object of an S3 vault is replaced at once.
PutVersion_Next(p) ==
    /\ proc[p].pc = "version" /\ vault = "s3"
    /\ version' = proc[p].id + 1
    /\ Goto(p, Down)
    /\ UNCHANGED <<vault, db, remote, overlap, raced, faults, losses>>
PutVersion(p) ==
    /\ proc[p].pc = "version" /\ vault = "s3"
    /\ version' = proc[p].id
    /\ Goto(p, Down)
    /\ UNCHANGED <<vault, db, remote, overlap, raced, faults, losses>>

\* The version file is opened and truncated ...
TruncateVersion(p) ==
    /\ proc[p].pc = "version" /\ vault = "filesystem"
    /\ version' = Torn
    /\ raced' = (raced \/ \E q \in Procs : proc[q].pc = "write")
    /\ Goto(p, [pc |-> "write", id |-> proc[p].id])
    /\ UNCHANGED <<vault, db, remote, overlap, faults, losses>>

\* The place value of a number's first digit.
Lead(n) == {q \in 1..n : n < Radix * q /\ \E k \in 0..n : q = Radix^k}
\* What a file that holds m reads as once n is written at its start: a
\* shorter n leaves the last digits of m behind its own.
WrittenOver(n, m) ==
    {IF q <= p THEN n ELSE n * (q \div p) + (m % (q \div p)) : p \in Lead(n), q \in Lead(m)}

\* ... and written, over what another process wrote since.
WriteVersion_Next(p) ==
    /\ proc[p].pc = "write"
    /\ version' = proc[p].id + 1
    /\ Goto(p, Down)
    /\ UNCHANGED <<vault, db, remote, overlap, raced, faults, losses>>
WriteVersion(p) ==
    /\ proc[p].pc = "write"
    /\ version' \in IF version = Torn THEN {proc[p].id} ELSE WrittenOver(proc[p].id, version)
    /\ Goto(p, Down)
    /\ UNCHANGED <<vault, db, remote, overlap, raced, faults, losses>>

\* A failing call ends the command; so does a kill at any point: after the
\* version file was truncated, it stays empty.
Stop(p) ==
    /\ proc[p] # Down
    /\ Fault
    /\ Goto(p, Down)
    /\ UNCHANGED <<vault, db, remote, version, overlap, raced, losses>>

\* The host's database is replaced: by an older image of itself, an empty one
\* included, or by the vault's copy.
LoseLocal ==
    /\ losses < MaxLosses
    /\ \A p \in Procs : proc[p] = Down
    /\ \/ \E k \in 0..Len(db) : db' = SubSeq(db, 1, k)
       \/ db' = remote
    /\ losses' = losses + 1
    /\ UNCHANGED <<vault, remote, version, proc, overlap, raced, faults>>

Next ==
    \/ \E p \in Procs :
          \/ NewBTApp(p) \/ persistOperation(p) \/ Work(p) \/ FinishBackupOperation(p)
          \/ BackupTo(p) \/ PutData(p) \/ PutVersion(p)
          \/ TruncateVersion(p) \/ WriteVersion(p) \/ Stop(p)
    \/ LoseLocal

Spec == Init /\ [][Next]_vars

-----------------------------------------------------------------------------
(* Properties                                                              *)

\* The types of the variables; what a command works on has a valid ID, never 0.
TypeOK ==
    /\ vault \in {"filesystem", "s3"}
    /\ db \in Seq(Row) /\ remote \in Seq(Row)
    /\ version \in Nat \cup {Torn}
    /\ proc \in [Procs -> Jobs]
    /\ overlap \in BOOLEAN /\ raced \in BOOLEAN
    /\ faults \in 0..MaxFaults /\ losses \in 0..MaxLosses

\* A host whose database was never replaced is never locked out by the
\* version guard, whatever crashed and whatever ran side by side, when the
\* vault is S3. On a file system that holds until two commands have been
\* writing the version file at once, and except while one is writing it or
\* after one failed or was killed doing so, when the file does not parse. Once
\* two have, the digits of one can follow those of the other, and the version
\* is ahead of every database.
NeverLockedOut ==
    losses = 0 /\ (vault = "s3" \/ ~raced) =>
        \/ GuardOK
        \/ /\ vault = "filesystem" /\ version = Torn
           /\ faults > 0 \/ \E p \in Procs : proc[p].pc = "write"

\* The other three hold of commands that run one after another. Each fails
\* when two have overlapped: Close uploads a copy taken earlier, with the ID
\* of its own operation, over whatever is there.

\* The stored version never names an operation the stored copy lacks: a
\* PutMetadata cut between its two objects errs on the side of an old version.
VersionNotAhead == ~overlap /\ version # Torn => version <= Len(remote)

\* Replacing the vault's copy drops no operation from it as long as no call
\* failed: the guard turns away a database older than the copy.
RemoteKept == [][~overlap /\ faults = 0 => Len(remote') >= Len(remote)]_vars

\* The stored version is the latest operation of the copy whenever no command
\* runs and none has failed, also after the local database was replaced.
VersionIsLatest ==
    ~overlap /\ faults = 0 /\ (\A p \in Procs : proc[p] = Down) => version = Len(remote)
=============================================================================

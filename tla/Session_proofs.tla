--------------------------- MODULE Session_proofs ---------------------------
(***************************************************************************)
(* Proofs about module Session, for any number of processes, operations,   *)
(* faults and replacements. A row's ID is its position in the database, so *)
(* everything rests on IdsInDb: the operation a command has persisted is   *)
(* in the database for as long as the command runs.                        *)
(***************************************************************************)
EXTENDS Session, SequenceTheorems, TLAPS

\* Processes that have persisted their operation.
Persisted == {p \in Procs : proc[p].pc \notin {"down", "open"}}
IdsInDb == \A p \in Persisted : proc[p].id <= Len(db)

\* What the guard compares, as long as the database was never replaced and
\* no two processes have been writing the version file at once.
VersionInDb ==
    losses = 0 /\ (vault = "s3" \/ ~raced) => version = Torn \/ version <= Len(db)

\* The version file does not parse only while it is being written, or after
\* that failed; and until two have been writing at once, whoever has
\* truncated the file still finds it so.
TornOnlyInWrite ==
    /\ \A p \in Procs : proc[p].pc = "write" => vault = "filesystem"
    /\ version = Torn => vault = "filesystem" /\ (faults > 0 \/ \E p \in Procs : proc[p].pc = "write")
    /\ ~raced => \A p, q \in Procs : proc[p].pc = "write" /\ proc[q].pc = "write" =>
                     p = q /\ version = Torn

Inv == TypeOK /\ IdsInDb /\ VersionInDb /\ TornOnlyInWrite

\* Digits written over digits read as a number.
LEMMA OverIsNumber ==
    ASSUME NEW n \in Nat, NEW m \in Nat
    PROVE  WrittenOver(n, m) \subseteq Nat
<1> SUFFICES ASSUME NEW p \in Lead(n), NEW q \in Lead(m)
             PROVE  (IF q <= p THEN n ELSE n * (q \div p) + (m % (q \div p))) \in Nat
    BY DEF WrittenOver, Lead
<1>1. p \in Nat \ {0} /\ q \in Nat \ {0}
    BY DEF Lead
<1>2. CASE q <= p
    BY <1>1, <1>2
<1>3. CASE p < q
    BY <1>1, <1>3
<1> QED
    BY <1>1, <1>2, <1>3

\* A job that is neither down nor open has an ID, and a copy when it uploads.
LEMMA JobForms ==
    ASSUME TypeOK, NEW p \in Procs
    PROVE  /\ proc[p].pc \in {"down", "open", "work", "finish", "snapshot", "version", "write", "data"}
           /\ p \in Persisted => proc[p].id \in Nat \ {0}
           /\ proc[p].pc = "data" => proc[p].copy \in Seq(Row)
BY DEF TypeOK, Jobs, Persisted

\* Changing a row leaves a database of the same length.
LEMMA UpdateRow ==
    ASSUME NEW s \in Seq(Row), NEW i \in 1..Len(s), NEW r \in Row
    PROVE  /\ [s EXCEPT ![i] = r] \in Seq(Row)
           /\ Len([s EXCEPT ![i] = r]) = Len(s)
BY ExceptSeq

\* Work and FinishBackupOperation change one existing row.
LEMMA RowChanges ==
    ASSUME Inv, NEW p \in Persisted,
           NEW w \in {"none", "partial", "done"},
           \/ db' = [db EXCEPT ![proc[p].id].work = w]
           \/ db' = [db EXCEPT ![proc[p].id].status = "success"]
           \/ UNCHANGED db
    PROVE  db' \in Seq(Row) /\ Len(db') = Len(db)
<1> DEFINE i == proc[p].id
<1>1. db \in Seq(Row) /\ i \in 1..Len(db) /\ db[i] \in Row
    BY JobForms, LenProperties DEF Inv, TypeOK, IdsInDb, Persisted
<1>2. [db[i] EXCEPT !.work = w] \in Row /\ [db[i] EXCEPT !.status = "success"] \in Row
    BY <1>1 DEF Row
<1>3. /\ [db EXCEPT ![i].work = w] = [db EXCEPT ![i] = [db[i] EXCEPT !.work = w]]
      /\ [db EXCEPT ![i].status = "success"]
            = [db EXCEPT ![i] = [db[i] EXCEPT !.status = "success"]]
    OBVIOUS
<1> HIDE DEF i
<1>4. CASE db' = [db EXCEPT ![i].work = w]
    BY <1>1, <1>2, <1>3, <1>4, UpdateRow
<1>5. CASE db' = [db EXCEPT ![i].status = "success"]
    BY <1>1, <1>2, <1>3, <1>5, UpdateRow
<1> QED
    BY <1>1, <1>4, <1>5 DEF i

\* Inv holds of an empty database.
LEMMA InvInit == Init => Inv
<1> SUFFICES ASSUME Init
             PROVE  Inv
    OBVIOUS
<1>1. overlap \in BOOLEAN /\ raced \in BOOLEAN
    BY DEF Init
<1>2. TypeOK
    BY <1>1, SessionAssumption DEF Init, TypeOK, Jobs, Down
<1>3. IdsInDb /\ VersionInDb
    BY DEF Init, IdsInDb, Persisted, VersionInDb, Down
<1>4. TornOnlyInWrite
    BY SessionAssumption DEF Init, TornOnlyInWrite, Down
<1> QED
    BY <1>2, <1>3, <1>4 DEF Inv

\* What p's step may do to the version: leave it alone, replace the object,
\* truncate the file or write it; a step that ends a write early is a fault.
Untouched(p) ==
    /\ UNCHANGED <<version, raced>>
    /\ proc'[p].pc # "write"
    /\ proc[p].pc # "write" \/ faults' > 0
Replaced(p) ==
    /\ vault = "s3" /\ UNCHANGED raced
    /\ proc[p].pc # "write" /\ proc'[p].pc # "write"
    /\ version' \in Nat /\ version' <= Len(db')
Truncated(p) ==
    /\ vault = "filesystem" /\ version' = Torn
    /\ proc'[p].pc = "write"
    /\ raced' = (raced \/ \E q \in Procs : proc[q].pc = "write")
Written(p) ==
    /\ UNCHANGED raced
    /\ proc[p].pc = "write" /\ proc'[p].pc # "write"
    /\ version' \in Nat
    /\ version = Torn => version' <= Len(db')

\* What process p's step must show to keep Inv: only p changes, its new job is
\* in order, the database does not shrink, and the version is handled as above.
Keeps(p) ==
    /\ proc' \in [Procs -> Jobs]
    /\ \A q \in Procs \ {p} : proc'[q] = proc[q]
    /\ proc'[p].pc \notin {"down", "open"} => proc'[p].id <= Len(db')
    /\ db' \in Seq(Row) /\ Len(db') >= Len(db)
    /\ remote' \in Seq(Row)
    /\ faults' \in 0..MaxFaults /\ faults' >= faults /\ UNCHANGED <<vault, losses>>
    /\ overlap' \in BOOLEAN
    /\ Untouched(p) \/ Replaced(p) \/ Truncated(p) \/ Written(p)

LEMMA StepKeeps ==
    ASSUME Inv, NEW p \in Procs, Keeps(p)
    PROVE  Inv'
<1>1. /\ db \in Seq(Row) /\ version \in Nat \cup {Torn} /\ losses \in 0..MaxLosses
      /\ vault \in {"filesystem", "s3"}
    BY DEF Inv, TypeOK
<1>2. Len(db) \in Nat /\ Len(db') \in Nat /\ Len(db') >= Len(db)
    BY <1>1, LenProperties DEF Keeps
<1>3. ASSUME NEW q \in Procs, proc'[q].pc \notin {"down", "open"}
      PROVE  proc'[q].id <= Len(db')
    <2>1. CASE q = p
        BY <1>3, <2>1 DEF Keeps
    <2>2. CASE q # p
        <3>1. proc'[q] = proc[q]
            BY <2>2 DEF Keeps
        <3>2. proc[q].id <= Len(db) /\ proc[q].id \in Nat
            BY <1>3, <3>1, JobForms DEF Inv, IdsInDb, Persisted
        <3> QED
            BY <1>2, <3>1, <3>2
    <2> QED
        BY <2>1, <2>2
<1>4. IdsInDb'
    BY <1>3 DEF IdsInDb, Persisted
<1>5. /\ faults \in Nat /\ faults' \in Nat /\ faults' >= faults
      /\ raced \in BOOLEAN
      /\ vault' = vault /\ losses' = losses
      /\ \A q \in Procs \ {p} : proc'[q] = proc[q]
      /\ VersionInDb /\ TornOnlyInWrite
    BY DEF Inv, TypeOK, Keeps
<1> DEFINE Good == /\ VersionInDb' /\ TornOnlyInWrite'
                   /\ version' \in Nat \cup {Torn} /\ raced' \in BOOLEAN
<1>6. ASSUME Untouched(p)
      PROVE  Good
    <2>1. VersionInDb'
        BY <1>1, <1>2, <1>5, <1>6 DEF VersionInDb, Untouched
    <2>2. version' = Torn => vault' = "filesystem" /\ (faults' > 0 \/ \E q \in Procs : proc'[q].pc = "write")
        BY <1>5, <1>6 DEF TornOnlyInWrite, Untouched
    <2>3. \A q \in Procs : proc'[q].pc = "write" => proc[q].pc = "write"
        BY <1>5, <1>6 DEF Untouched
    <2>4. TornOnlyInWrite'
        BY <1>5, <1>6, <2>2, <2>3 DEF TornOnlyInWrite, Untouched
    <2> QED
        BY <1>1, <1>5, <1>6, <2>1, <2>4 DEF Untouched
<1>7. ASSUME Replaced(p)
      PROVE  Good
    <2>1. VersionInDb' /\ version' # Torn
        BY <1>7, SessionAssumption DEF VersionInDb, Replaced
    <2>2. \A q \in Procs : proc'[q].pc # "write"
        BY <1>5, <1>7 DEF TornOnlyInWrite, Replaced
    <2> QED
        BY <1>5, <1>7, <2>1, <2>2 DEF TornOnlyInWrite, Replaced
<1>8. ASSUME Truncated(p)
      PROVE  Good
    <2>1. ~raced' => ~raced /\ \A q \in Procs : proc[q].pc # "write"
        BY <1>5, <1>8 DEF Truncated
    <2>2. ~raced' => \A q \in Procs \ {p} : proc'[q].pc # "write"
        BY <1>5, <2>1
    <2>3. version' = Torn /\ vault' = "filesystem" /\ proc'[p].pc = "write" /\ raced' \in BOOLEAN
        BY <1>5, <1>8 DEF Truncated
    <2> QED
        BY <2>2, <2>3 DEF TornOnlyInWrite, VersionInDb
<1>9. ASSUME Written(p)
      PROVE  Good
    <2>1. vault = "filesystem" /\ vault' = "filesystem"
        BY <1>5, <1>9 DEF TornOnlyInWrite, Written
    <2>2. ~raced => version = Torn /\ \A q \in Procs : proc[q].pc = "write" => q = p
        BY <1>5, <1>9 DEF TornOnlyInWrite, Written
    <2>3. VersionInDb'
        BY <1>5, <1>9, <2>1, <2>2 DEF VersionInDb, Written
    <2>4. ~raced' => \A q \in Procs : proc'[q].pc # "write"
        BY <1>5, <1>9, <2>2 DEF Written
    <2>5. version' # Torn
        BY <1>9, SessionAssumption DEF Written
    <2>6. TornOnlyInWrite'
        BY <2>1, <2>4, <2>5 DEF TornOnlyInWrite
    <2> QED
        BY <1>5, <1>9, <2>3, <2>6 DEF Written
<1>10. Good
    BY <1>6, <1>7, <1>8, <1>9 DEF Keeps
<1>11. TypeOK'
    BY <1>1, <1>10 DEF TypeOK, Keeps
<1> QED
    BY <1>4, <1>10, <1>11 DEF Inv

\* Every step keeps Inv.
LEMMA InvNext == Inv /\ [Next]_vars => Inv'
<1> SUFFICES ASSUME Inv, [Next]_vars
             PROVE  Inv'
    OBVIOUS
<1>t. /\ vault \in {"filesystem", "s3"}
      /\ db \in Seq(Row) /\ remote \in Seq(Row)
      /\ version \in Nat \cup {Torn}
      /\ proc \in [Procs -> Jobs]
      /\ overlap \in BOOLEAN /\ raced \in BOOLEAN
      /\ faults \in 0..MaxFaults /\ faults \in Nat /\ losses \in 0..MaxLosses
    BY SessionAssumption DEF Inv, TypeOK
<1>l. Len(db) \in Nat
    BY <1>t, LenProperties
<1>b. MaxFaults \in Nat /\ MaxLosses \in Nat
    BY SessionAssumption
<1>d. Down \in Jobs
    BY DEF Down, Jobs
<1>f. /\ Fault => faults' \in 0..MaxFaults /\ faults' >= faults /\ faults' > 0
      /\ UNCHANGED faults => faults' \in 0..MaxFaults /\ faults' >= faults
    BY <1>t, <1>b DEF Fault
<1>1. ASSUME NEW p \in Procs, NewBTApp(p)
      PROVE  Inv'
    <2> DEFINE s == [pc |-> "open"]
    <2>1. s \in Jobs /\ s.pc = "open" /\ proc[p].pc = "down"
        BY <1>1 DEF Jobs, NewBTApp, Down
    <2>2. proc' = [proc EXCEPT ![p] = s] /\ UNCHANGED <<vault, losses>>
        BY <1>1 DEF NewBTApp, Goto
    <2>3. UNCHANGED <<db, remote, version, raced, faults>> /\ overlap' \in BOOLEAN
        BY <1>1, <1>t DEF NewBTApp
    <2> HIDE DEF s
    <2>4. /\ proc' \in [Procs -> Jobs] /\ proc'[p] = s
           /\ \A q \in Procs \ {p} : proc'[q] = proc[q]
        BY <1>t, <2>1, <2>2
    <2>5. Keeps(p)
        BY <1>f, <1>l, <1>t, <2>1, <2>2, <2>3, <2>4 DEF Keeps, Untouched
    <2> QED
        BY <2>5, StepKeeps
<1>2. ASSUME NEW p \in Procs, persistOperation(p)
      PROVE  Inv'
    <2> DEFINE s == [pc |-> "work", id |-> Len(db) + 1]
               r == [status |-> "running", work |-> "none"]
    <2>1. s \in Jobs /\ s.id = Len(db) + 1 /\ s.pc = "work" /\ proc[p].pc = "open"
        BY <1>2, <1>l DEF Jobs, persistOperation
    <2>2. r \in Row
        BY DEF Row
    <2>3. db' = Append(db, r) /\ db' \in Seq(Row) /\ Len(db') = Len(db) + 1
        <3> HIDE DEF r
        <3> QED
            BY <1>2, <1>t, <2>2, AppendProperties DEF persistOperation, r
    <2>4. proc' = [proc EXCEPT ![p] = s] /\ UNCHANGED <<vault, losses>>
        BY <1>2 DEF persistOperation, Goto
    <2>5. UNCHANGED <<remote, version, overlap, raced, faults>>
        BY <1>2 DEF persistOperation
    <2> HIDE DEF s
    <2>6. /\ proc' \in [Procs -> Jobs] /\ proc'[p] = s
           /\ \A q \in Procs \ {p} : proc'[q] = proc[q]
        BY <1>t, <2>1, <2>4
    <2>7. Keeps(p)
        BY <1>f, <1>l, <1>t, <2>1, <2>3, <2>4, <2>5, <2>6 DEF Keeps, Untouched
    <2> QED
        BY <2>7, StepKeeps
<1>3. ASSUME NEW p \in Procs, Work(p)
      PROVE  Inv'
    <2> DEFINE s == [pc |-> "finish", id |-> proc[p].id]
    <2>1. p \in Persisted
        BY <1>3 DEF Work, Persisted
    <2>2. proc[p].id \in Nat \ {0} /\ proc[p].id <= Len(db)
        BY <2>1, JobForms DEF Inv, IdsInDb
    <2>3. s \in Jobs /\ s.id = proc[p].id /\ s.pc = "finish" /\ proc[p].pc = "work"
        BY <1>3, <2>2 DEF Jobs, Work
    <2>4. PICK w \in {"none", "partial", "done"} : db' = [db EXCEPT ![proc[p].id].work = w]
        BY <1>3 DEF Work
    <2>5. db' \in Seq(Row) /\ Len(db') = Len(db)
        BY <2>1, <2>4, RowChanges
    <2>6. faults' \in 0..MaxFaults /\ faults' >= faults
        BY <1>3, <1>f DEF Work
    <2>7. proc' = [proc EXCEPT ![p] = s] /\ UNCHANGED <<vault, losses>>
        BY <1>3 DEF Work, Goto
    <2>8. UNCHANGED <<remote, version, overlap, raced>>
        BY <1>3 DEF Work
    <2> HIDE DEF s
    <2>9. /\ proc' \in [Procs -> Jobs] /\ proc'[p] = s
           /\ \A q \in Procs \ {p} : proc'[q] = proc[q]
        BY <1>t, <2>3, <2>7
    <2>10. Keeps(p)
        BY <1>l, <1>t, <2>2, <2>3, <2>5, <2>6, <2>7, <2>8, <2>9 DEF Keeps, Untouched
    <2> QED
        BY <2>10, StepKeeps
<1>4. ASSUME NEW p \in Procs, FinishBackupOperation(p)
      PROVE  Inv'
    <2> DEFINE s == [pc |-> "snapshot", id |-> proc[p].id]
    <2>1. p \in Persisted
        BY <1>4 DEF FinishBackupOperation, Persisted
    <2>2. proc[p].id \in Nat \ {0} /\ proc[p].id <= Len(db)
        BY <2>1, JobForms DEF Inv, IdsInDb
    <2>3. s \in Jobs /\ s.id = proc[p].id /\ s.pc = "snapshot" /\ proc[p].pc = "finish"
        BY <1>4, <2>2 DEF Jobs, FinishBackupOperation
    <2>4. db' \in Seq(Row) /\ Len(db') = Len(db)
        BY <1>4, <2>1, RowChanges DEF FinishBackupOperation
    <2>5. faults' \in 0..MaxFaults /\ faults' >= faults
        BY <1>4, <1>f DEF FinishBackupOperation
    <2>6. proc' = [proc EXCEPT ![p] = s] /\ UNCHANGED <<vault, losses>>
        BY <1>4 DEF FinishBackupOperation, Goto
    <2>7. UNCHANGED <<remote, version, overlap, raced>>
        BY <1>4 DEF FinishBackupOperation
    <2> HIDE DEF s
    <2>8. /\ proc' \in [Procs -> Jobs] /\ proc'[p] = s
           /\ \A q \in Procs \ {p} : proc'[q] = proc[q]
        BY <1>t, <2>3, <2>6
    <2>9. Keeps(p)
        BY <1>l, <1>t, <2>2, <2>3, <2>4, <2>5, <2>6, <2>7, <2>8 DEF Keeps, Untouched
    <2> QED
        BY <2>9, StepKeeps
<1>5. ASSUME NEW p \in Procs, BackupTo(p)
      PROVE  Inv'
    <2> DEFINE s == [pc |-> "data", id |-> proc[p].id, copy |-> db]
    <2>1. p \in Persisted
        BY <1>5 DEF BackupTo, Persisted
    <2>2. proc[p].id \in Nat \ {0} /\ proc[p].id <= Len(db)
        BY <2>1, JobForms DEF Inv, IdsInDb
    <2>3. s \in Jobs /\ s.id = proc[p].id /\ s.pc = "data" /\ proc[p].pc = "snapshot"
        BY <1>5, <1>t, <2>2 DEF Jobs, BackupTo
    <2>4. proc' = [proc EXCEPT ![p] = s] /\ UNCHANGED <<vault, losses>>
        BY <1>5 DEF BackupTo, Goto
    <2>5. UNCHANGED <<db, remote, version, overlap, raced, faults>>
        BY <1>5 DEF BackupTo
    <2> HIDE DEF s
    <2>6. /\ proc' \in [Procs -> Jobs] /\ proc'[p] = s
           /\ \A q \in Procs \ {p} : proc'[q] = proc[q]
        BY <1>t, <2>3, <2>4
    <2>7. Keeps(p)
        BY <1>f, <1>l, <1>t, <2>2, <2>3, <2>4, <2>5, <2>6 DEF Keeps, Untouched
    <2> QED
        BY <2>7, StepKeeps
<1>6. ASSUME NEW p \in Procs, PutData(p)
      PROVE  Inv'
    <2> DEFINE s == [pc |-> "version", id |-> proc[p].id]
    <2>1. p \in Persisted
        BY <1>6 DEF PutData, Persisted
    <2>2. proc[p].id \in Nat \ {0} /\ proc[p].id <= Len(db)
        BY <2>1, JobForms DEF Inv, IdsInDb
    <2>3. s \in Jobs /\ s.id = proc[p].id /\ s.pc = "version" /\ proc[p].pc = "data"
        BY <1>6, <2>2 DEF Jobs, PutData
    <2>4. remote' \in Seq(Row)
        BY <1>6, JobForms DEF Inv, PutData
    <2>5. proc' = [proc EXCEPT ![p] = s] /\ UNCHANGED <<vault, losses>>
        BY <1>6 DEF PutData, Goto
    <2>6. UNCHANGED <<db, version, overlap, raced, faults>>
        BY <1>6 DEF PutData
    <2> HIDE DEF s
    <2>7. /\ proc' \in [Procs -> Jobs] /\ proc'[p] = s
           /\ \A q \in Procs \ {p} : proc'[q] = proc[q]
        BY <1>t, <2>3, <2>5
    <2>8. Keeps(p)
        BY <1>f, <1>l, <1>t, <2>2, <2>3, <2>4, <2>5, <2>6, <2>7 DEF Keeps, Untouched
    <2> QED
        BY <2>8, StepKeeps
<1>7. ASSUME NEW p \in Procs, PutVersion(p)
      PROVE  Inv'
    <2>1. p \in Persisted /\ proc[p].pc = "version" /\ vault = "s3"
        BY <1>7 DEF PutVersion, Persisted
    <2>2. proc[p].id \in Nat \ {0} /\ proc[p].id <= Len(db)
        BY <2>1, JobForms DEF Inv, IdsInDb
    <2>3. Down.pc = "down"
        BY DEF Down
    <2>4. proc' = [proc EXCEPT ![p] = Down] /\ UNCHANGED <<vault, losses>>
        BY <1>7 DEF PutVersion, Goto
    <2>5. UNCHANGED <<db, remote, overlap, raced, faults>> /\ version' = proc[p].id
        BY <1>7 DEF PutVersion
    <2>6. /\ proc' \in [Procs -> Jobs] /\ proc'[p] = Down
           /\ \A q \in Procs \ {p} : proc'[q] = proc[q]
        BY <1>t, <1>d, <2>4
    <2>7. Keeps(p)
        BY <1>f, <1>l, <1>t, <2>1, <2>2, <2>3, <2>4, <2>5, <2>6 DEF Keeps, Replaced
    <2> QED
        BY <2>7, StepKeeps
<1>8. ASSUME NEW p \in Procs, TruncateVersion(p)
      PROVE  Inv'
    <2> DEFINE s == [pc |-> "write", id |-> proc[p].id]
    <2>1. p \in Persisted /\ vault = "filesystem"
        BY <1>8 DEF TruncateVersion, Persisted
    <2>2. proc[p].id \in Nat \ {0} /\ proc[p].id <= Len(db)
        BY <2>1, JobForms DEF Inv, IdsInDb
    <2>3. s \in Jobs /\ s.id = proc[p].id /\ s.pc = "write"
        BY <2>2 DEF Jobs
    <2>4. proc' = [proc EXCEPT ![p] = s] /\ UNCHANGED <<vault, losses>>
        BY <1>8 DEF TruncateVersion, Goto
    <2>5. /\ UNCHANGED <<db, remote, overlap, faults>> /\ version' = Torn
          /\ raced' = (raced \/ \E q \in Procs : proc[q].pc = "write")
        BY <1>8 DEF TruncateVersion
    <2> HIDE DEF s
    <2>6. /\ proc' \in [Procs -> Jobs] /\ proc'[p] = s
           /\ \A q \in Procs \ {p} : proc'[q] = proc[q]
        BY <1>t, <2>3, <2>4
    <2>7. Truncated(p)
        BY <2>1, <2>3, <2>5, <2>6 DEF Truncated
    <2>8. Keeps(p)
        BY <1>f, <1>l, <1>t, <2>2, <2>3, <2>4, <2>5, <2>6, <2>7 DEF Keeps
    <2> QED
        BY <2>8, StepKeeps
<1>9. ASSUME NEW p \in Procs, WriteVersion(p)
      PROVE  Inv'
    <2>1. p \in Persisted /\ proc[p].pc = "write"
        BY <1>9 DEF WriteVersion, Persisted
    <2>2. proc[p].id \in Nat \ {0} /\ proc[p].id <= Len(db)
        BY <2>1, JobForms DEF Inv, IdsInDb
    <2>3. Down.pc = "down"
        BY DEF Down
    <2>4. proc' = [proc EXCEPT ![p] = Down] /\ UNCHANGED <<vault, losses>>
        BY <1>9 DEF WriteVersion, Goto
    <2>5. /\ UNCHANGED <<db, remote, overlap, raced, faults>>
          /\ version' \in Nat
          /\ version = Torn => version' = proc[p].id
        BY <1>9, <1>t, <2>2, OverIsNumber DEF WriteVersion
    <2>6. /\ proc' \in [Procs -> Jobs] /\ proc'[p] = Down
           /\ \A q \in Procs \ {p} : proc'[q] = proc[q]
        BY <1>t, <1>d, <2>4
    <2>7. Written(p)
        BY <2>1, <2>2, <2>3, <2>5, <2>6 DEF Written
    <2>8. Keeps(p)
        BY <1>f, <1>l, <1>t, <2>2, <2>3, <2>4, <2>5, <2>6, <2>7 DEF Keeps
    <2> QED
        BY <2>8, StepKeeps
<1>10. ASSUME NEW p \in Procs, Stop(p)
      PROVE  Inv'
    <2>1. Down.pc = "down"
        BY DEF Down
    <2>2. proc' = [proc EXCEPT ![p] = Down] /\ UNCHANGED <<vault, losses>>
        BY <1>10 DEF Stop, Goto
    <2>3. /\ UNCHANGED <<db, remote, version, overlap, raced>>
          /\ faults' \in 0..MaxFaults /\ faults' >= faults /\ faults' > 0
        BY <1>10, <1>f DEF Stop
    <2>4. /\ proc' \in [Procs -> Jobs] /\ proc'[p] = Down
           /\ \A q \in Procs \ {p} : proc'[q] = proc[q]
        BY <1>t, <1>d, <2>2
    <2>5. Keeps(p)
        BY <1>l, <1>t, <2>1, <2>2, <2>3, <2>4 DEF Keeps, Untouched
    <2> QED
        BY <2>5, StepKeeps
<1>11. ASSUME LoseLocal
      PROVE  Inv'
    <2>1. losses' \in 1..MaxLosses /\ losses' # 0
        BY <1>11, <1>t, <1>b DEF LoseLocal
    <2>2. db' \in Seq(Row)
        BY <1>11, <1>t, <1>l, SubSeqProperties DEF LoseLocal
    <2>3. TypeOK'
        BY <1>11, <1>t, <2>1, <2>2 DEF LoseLocal, TypeOK
    <2>4. IdsInDb'
        BY <1>11 DEF LoseLocal, IdsInDb, Persisted, Down
    <2>5. VersionInDb'
        BY <2>1 DEF VersionInDb
    <2>6. TornOnlyInWrite'
        BY <1>11 DEF LoseLocal, Inv, TornOnlyInWrite
    <2> QED
        BY <2>3, <2>4, <2>5, <2>6 DEF Inv
<1>12. CASE UNCHANGED vars
    BY <1>12 DEF vars, Inv, TypeOK, IdsInDb, Persisted, VersionInDb, TornOnlyInWrite
<1> QED
    BY <1>1, <1>2, <1>3, <1>4, <1>5, <1>6, <1>7, <1>8, <1>9, <1>10, <1>11, <1>12 DEF Next

LEMMA InvAlways == Spec => []Inv
BY InvInit, InvNext, PTL DEF Spec

\* Every row a command works on, snapshot it uploads and version it stores is
\* well formed, however many commands run at once.
THEOREM SessionTypeCorrect == Spec => []TypeOK
<1>1. Inv => TypeOK
    BY DEF Inv
<1> QED
    BY <1>1, InvAlways, PTL

\* NewBTApp's guard never turns away a host whose database was not replaced.
\* With an S3 vault that holds whatever commands run at once and whatever
\* fails. With a file system vault it holds as long as no two commands have
\* been between truncating and writing the version file at once, and except
\* while one is there, or when one failed or was killed there.
THEOREM GuardLetsIn == Spec => []NeverLockedOut
<1>1. Inv => NeverLockedOut
    BY DEF Inv, VersionInDb, TornOnlyInWrite, NeverLockedOut, GuardOK
<1> QED
    BY <1>1, InvAlways, PTL

-----------------------------------------------------------------------------
(* As long as no two commands have overlapped, at most one process is not     *)
(* down, and it is the only one whose job has to be known.                    *)
Alone ==
    \A p, q \in Procs : proc[p].pc # "down" /\ proc[q].pc # "down" => p = q

\* What is known at each point of a command: the guard's comparison still
\* holds, its operation is the last row, and so is the copy's.
Passed(p) == proc[p].pc \notin {"down", "write"} => version # Torn /\ version <= Len(db)
LastRow(p) == p \in Persisted => proc[p].id = Len(db)
FullCopy(p) == proc[p].pc = "data" => Len(proc[p].copy) = Len(db)
FullRemote(p) == proc[p].pc \in {"version", "write"} => Len(remote) = Len(db)
Point(p) == Passed(p) /\ LastRow(p) /\ FullCopy(p) /\ FullRemote(p)

\* Between a copy and its version nothing is promised.
InStep ==
    faults = 0 /\ (\A p \in Procs : proc[p].pc \notin {"version", "write"}) =>
        version = Len(remote)

AloneInv ==
    /\ Inv
    /\ VersionNotAhead
    /\ ~overlap => ~raced /\ Alone /\ InStep /\ \A p \in Procs : Point(p)

\* AloneInv holds when nothing has run yet.
LEMMA AloneInit == Init => AloneInv
<1> SUFFICES ASSUME Init
             PROVE  AloneInv
    OBVIOUS
<1>1. Len(remote) = 0 /\ version = 0 /\ ~raced /\ Inv
    BY InvInit DEF Init
<1>2. \A p \in Procs : proc[p].pc = "down"
    BY DEF Init, Down
<1>3. VersionNotAhead
    BY <1>1 DEF VersionNotAhead
<1> QED
    BY <1>1, <1>2, <1>3
       DEF AloneInv, Alone, Point, Passed, LastRow, FullCopy, FullRemote, InStep, Persisted

\* The uploaded copy is never shorter than the one it replaces: the guard saw
\* a version that was its length, and rows have only been added since.
LEMMA AlonePutData ==
    ASSUME AloneInv, ~overlap, NEW p \in Procs, PutData(p)
    PROVE  /\ remote' \in Seq(Row) /\ Len(remote') = Len(db)
           /\ version \in Nat /\ version <= Len(remote')
           /\ faults = 0 => Len(remote') >= Len(remote)
<1>1. proc[p].pc = "data" /\ remote' = proc[p].copy /\ proc[p].copy \in Seq(Row)
    BY JobForms DEF PutData, AloneInv, Inv
<1>2. Len(remote') = Len(db)
    BY <1>1 DEF AloneInv, Point, FullCopy
<1>3. version \in Nat /\ version <= Len(db)
    BY <1>1 DEF AloneInv, Point, Passed, Inv, TypeOK
<1>4. \A q \in Procs : proc[q].pc \notin {"version", "write"}
    BY <1>1 DEF AloneInv, Alone
<1>5. faults = 0 => version = Len(remote)
    BY <1>4 DEF AloneInv, InStep
<1> QED
    BY <1>1, <1>2, <1>3, <1>5

\* A process that is down makes no demands.
LEMMA DownPoint ==
    ASSUME NEW p \in Procs, proc[p].pc = "down"
    PROVE  Point(p)
BY DEF Point, Passed, LastRow, FullCopy, FullRemote, Persisted

\* Every step keeps AloneInv.
LEMMA AloneNext == AloneInv /\ [Next]_vars => AloneInv'
<1> SUFFICES ASSUME AloneInv, [Next]_vars
             PROVE  AloneInv'
    OBVIOUS
<1>i. Inv /\ Inv'
    BY InvNext DEF AloneInv
<1>t. /\ db \in Seq(Row) /\ remote \in Seq(Row)
      /\ version \in Nat \cup {Torn}
      /\ proc \in [Procs -> Jobs]
      /\ overlap \in BOOLEAN
      /\ faults \in Nat
    BY <1>i, SessionAssumption DEF Inv, TypeOK
<1>l. Len(db) \in Nat /\ Len(remote) \in Nat
    BY <1>t, LenProperties
<1>f. Fault => faults' # 0
    BY <1>t DEF Fault
<1>m. overlap => overlap'
    BY DEF Next, vars, NewBTApp, persistOperation, Work, FinishBackupOperation, BackupTo,
           PutData, PutVersion, TruncateVersion, WriteVersion, Stop, LoseLocal
<1>r. ASSUME ~overlap
      PROVE  ~raced /\ ~raced'
    <2>1. ASSUME NEW p \in Procs, TruncateVersion(p)
          PROVE  ~\E q \in Procs : proc[q].pc = "write"
        BY <1>r, <2>1 DEF AloneInv, Alone, TruncateVersion
    <2>2. ~raced
        BY <1>r DEF AloneInv
    <2>3. (\E p \in Procs : TruncateVersion(p)) \/ UNCHANGED raced
        BY DEF Next, vars, NewBTApp, persistOperation, Work, FinishBackupOperation, BackupTo,
               PutData, PutVersion, WriteVersion, Stop, LoseLocal
    <2>4. CASE \E p \in Procs : TruncateVersion(p)
        BY <2>1, <2>2, <2>4 DEF TruncateVersion
    <2> QED
        BY <2>2, <2>3, <2>4
<1> SUFFICES ASSUME ~overlap', ~overlap
             PROVE  (VersionNotAhead /\ Alone /\ InStep /\ \A p \in Procs : Point(p))'
    BY <1>i, <1>m, <1>r DEF AloneInv, VersionNotAhead
<1>o. version # Torn => version <= Len(remote)
    BY DEF AloneInv, VersionNotAhead
<1>s. InStep /\ \A p \in Procs : Point(p)
    BY DEF AloneInv
\* Enough for a step of p: the other processes are down and stay so.
<1>k. ASSUME NEW p \in Procs,
             \A q \in Procs \ {p} : proc[q].pc = "down" /\ proc'[q] = proc[q],
             VersionNotAhead', InStep', Point(p)'
      PROVE  (VersionNotAhead /\ Alone /\ InStep /\ \A q \in Procs : Point(q))'
    <2>1. \A q \in Procs \ {p} : proc'[q].pc = "down"
        BY <1>k
    <2>2. Alone'
        BY <2>1 DEF Alone
    <2>3. \A q \in Procs \ {p} : Point(q)'
        BY <2>1 DEF Point, Passed, LastRow, FullCopy, FullRemote, Persisted
    <2> QED
        BY <1>k, <2>2, <2>3
<1>a. ASSUME NEW p \in Procs, proc[p].pc # "down", NEW s, proc' = [proc EXCEPT ![p] = s]
      PROVE  \A q \in Procs \ {p} : proc[q].pc = "down" /\ proc'[q] = proc[q]
    BY <1>a, <1>t DEF AloneInv, Alone
\* Nobody is putting the version in p's step unless p is.
<1>v. ASSUME NEW p \in Procs, proc[p].pc \notin {"down", "version", "write"}, faults = 0
      PROVE  version = Len(remote)
    <2>1. \A q \in Procs : proc[q].pc \notin {"version", "write"}
        BY <1>v DEF AloneInv, Alone
    <2> QED
        BY <1>s, <1>v, <2>1 DEF InStep
<1>1. ASSUME NEW p \in Procs, NewBTApp(p)
      PROVE  (VersionNotAhead /\ Alone /\ InStep /\ \A q \in Procs : Point(q))'
    <2>1. /\ proc'[p].pc = "open"
          /\ UNCHANGED <<db, remote, version, faults>>
          /\ version # Torn /\ version <= Len(db)
        BY <1>1, <1>t DEF NewBTApp, Goto, GuardOK
    <2>2. \A q \in Procs : proc[q].pc = "down"
        <3>1. ~\E q \in Procs : proc[q] # Down
            BY <1>1, Zenon DEF NewBTApp
        <3> QED
            BY <3>1 DEF Down
    <2>3. \A q \in Procs \ {p} : proc[q].pc = "down" /\ proc'[q] = proc[q]
        BY <1>1, <1>t, <2>2 DEF NewBTApp, Goto
    <2>4. InStep'
        BY <1>s, <2>1, <2>2 DEF InStep
    <2>5. VersionNotAhead'
        BY <1>o, <2>1 DEF VersionNotAhead
    <2>6. Point(p)'
        BY <2>1 DEF Point, Passed, LastRow, FullCopy, FullRemote, Persisted
    <2> QED
        BY <1>k, <2>3, <2>4, <2>5, <2>6
<1>2. ASSUME NEW p \in Procs, persistOperation(p)
      PROVE  (VersionNotAhead /\ Alone /\ InStep /\ \A q \in Procs : Point(q))'
    <2> DEFINE r == [status |-> "running", work |-> "none"]
    <2>1. /\ proc'[p].pc = "work" /\ proc'[p].id = Len(db) + 1 /\ proc[p].pc = "open"
          /\ UNCHANGED <<remote, version, faults>>
        BY <1>2, <1>t DEF persistOperation, Goto
    <2>2. r \in Row
        BY DEF Row
    <2>3. db' = Append(db, r)
        BY <1>2 DEF persistOperation
    <2> HIDE DEF r
    <2>4. Len(db') = Len(db) + 1
        BY <1>t, <2>2, <2>3, AppendProperties
    <2>5. Passed(p)' /\ LastRow(p)'
        BY <1>s, <1>l, <1>t, <2>1, <2>4 DEF Point, Passed, LastRow
    <2>6. Point(p)'
        BY <2>1, <2>5 DEF Point, FullCopy, FullRemote
    <2>7. InStep'
        BY <1>v, <2>1 DEF InStep
    <2>8. VersionNotAhead'
        BY <1>o, <2>1 DEF VersionNotAhead
    <2>9. \A q \in Procs \ {p} : proc[q].pc = "down" /\ proc'[q] = proc[q]
        BY <1>2, <1>a, <2>1 DEF persistOperation, Goto
    <2> QED
        BY <1>k, <2>6, <2>7, <2>8, <2>9
\* Work, FinishBackupOperation and BackupTo add no row and touch no object.
<1>3. ASSUME NEW p \in Procs, Work(p) \/ FinishBackupOperation(p) \/ BackupTo(p)
      PROVE  (VersionNotAhead /\ Alone /\ InStep /\ \A q \in Procs : Point(q))'
    <2>1. p \in Persisted
        BY <1>3 DEF Work, FinishBackupOperation, BackupTo, Persisted
    <2>2. Len(db') = Len(db)
        <3>1. CASE Work(p)
            <4>1. PICK w \in {"none", "partial", "done"} :
                      db' = [db EXCEPT ![proc[p].id].work = w]
                BY <3>1 DEF Work
            <4> QED
                BY <1>i, <2>1, <4>1, RowChanges
        <3>2. CASE FinishBackupOperation(p)
            BY <1>i, <2>1, <3>2, RowChanges DEF FinishBackupOperation
        <3>3. CASE BackupTo(p)
            BY <3>3 DEF BackupTo
        <3> QED
            BY <1>3, <3>1, <3>2, <3>3
    <2>3. /\ UNCHANGED <<remote, version>>
          /\ UNCHANGED faults \/ faults' # 0
        BY <1>3, <1>f DEF Work, FinishBackupOperation, BackupTo
    <2>4. /\ proc'[p].pc \in {"finish", "snapshot", "data"} /\ proc'[p].id = proc[p].id
          /\ proc[p].pc \in {"work", "finish", "snapshot"}
        BY <1>3, <1>t DEF Work, FinishBackupOperation, BackupTo, Goto
    <2>5. FullCopy(p)'
        BY <1>3, <1>t, <2>2 DEF Work, FinishBackupOperation, BackupTo, Goto, FullCopy
    <2>6. Passed(p)' /\ LastRow(p)'
        BY <1>s, <2>1, <2>2, <2>3, <2>4 DEF Point, Passed, LastRow
    <2>7. Point(p)'
        BY <2>4, <2>5, <2>6 DEF Point, FullRemote
    <2>8. InStep'
        BY <1>v, <2>3, <2>4 DEF InStep
    <2>9. VersionNotAhead'
        BY <1>o, <2>3 DEF VersionNotAhead
    <2>10. \A q \in Procs \ {p} : proc[q].pc = "down" /\ proc'[q] = proc[q]
        BY <1>3, <1>a, <2>4 DEF Work, FinishBackupOperation, BackupTo, Goto
    <2> QED
        BY <1>k, <2>7, <2>8, <2>9, <2>10
<1>4. ASSUME NEW p \in Procs, PutData(p)
      PROVE  (VersionNotAhead /\ Alone /\ InStep /\ \A q \in Procs : Point(q))'
    <2>1. /\ UNCHANGED <<db, version>>
          /\ proc[p].pc = "data" /\ proc'[p].pc = "version" /\ proc'[p].id = proc[p].id
        BY <1>4, <1>t DEF PutData, Goto
    <2>2. Len(remote') = Len(db) /\ version <= Len(remote')
        BY <1>4, AlonePutData
    <2>3. Passed(p)' /\ LastRow(p)'
        BY <1>s, <2>1 DEF Point, Passed, LastRow, Persisted
    <2>4. Point(p)'
        BY <2>1, <2>2, <2>3 DEF Point, FullCopy, FullRemote
    <2>5. VersionNotAhead'
        BY <2>1, <2>2 DEF VersionNotAhead
    <2>6. InStep'
        BY <2>1 DEF InStep
    <2>7. \A q \in Procs \ {p} : proc[q].pc = "down" /\ proc'[q] = proc[q]
        BY <1>4, <1>a, <2>1 DEF PutData, Goto
    <2> QED
        BY <1>k, <2>4, <2>5, <2>6, <2>7
\* The object is replaced, or the file written over nothing: alone, the
\* process finds it as it truncated it.
<1>5. ASSUME NEW p \in Procs, PutVersion(p) \/ WriteVersion(p)
      PROVE  (VersionNotAhead /\ Alone /\ InStep /\ \A q \in Procs : Point(q))'
    <2>1. /\ UNCHANGED <<db, remote, faults>>
          /\ proc[p].pc \in {"version", "write"} /\ proc'[p].pc = "down"
        BY <1>5, <1>t DEF PutVersion, WriteVersion, Goto, Down
    <2>v. version' = proc[p].id
        <3>1. CASE PutVersion(p)
            BY <3>1 DEF PutVersion
        <3>2. CASE WriteVersion(p)
            <4>1. version = Torn
                BY <1>i, <1>r, <3>2 DEF WriteVersion, Inv, TornOnlyInWrite
            <4> QED
                BY <3>2, <4>1 DEF WriteVersion
        <3> QED
            BY <1>5, <3>1, <3>2
    <2>2. version' = Len(remote)
        BY <1>s, <2>1, <2>v DEF Point, LastRow, FullRemote, Persisted
    <2>3. VersionNotAhead'
        BY <1>l, <2>1, <2>2 DEF VersionNotAhead
    <2>4. InStep'
        BY <2>1, <2>2 DEF InStep
    <2>5. Point(p)'
        BY <2>1 DEF Point, Passed, LastRow, FullCopy, FullRemote, Persisted
    <2>6. \A q \in Procs \ {p} : proc[q].pc = "down" /\ proc'[q] = proc[q]
        BY <1>5, <1>a, <2>1 DEF PutVersion, WriteVersion, Goto
    <2> QED
        BY <1>k, <2>3, <2>4, <2>5, <2>6
<1>6. ASSUME NEW p \in Procs, TruncateVersion(p)
      PROVE  (VersionNotAhead /\ Alone /\ InStep /\ \A q \in Procs : Point(q))'
    <2>1. /\ UNCHANGED <<db, remote, faults>> /\ version' = Torn
          /\ proc[p].pc = "version" /\ proc'[p].pc = "write" /\ proc'[p].id = proc[p].id
        BY <1>6, <1>t DEF TruncateVersion, Goto
    <2>2. VersionNotAhead' /\ InStep'
        BY <2>1 DEF VersionNotAhead, InStep
    <2>3. LastRow(p)' /\ FullRemote(p)'
        BY <1>s, <2>1 DEF Point, LastRow, FullRemote, Persisted
    <2>4. Point(p)'
        BY <2>1, <2>3 DEF Point, Passed, FullCopy
    <2>5. \A q \in Procs \ {p} : proc[q].pc = "down" /\ proc'[q] = proc[q]
        BY <1>6, <1>a, <2>1 DEF TruncateVersion, Goto
    <2> QED
        BY <1>k, <2>2, <2>4, <2>5
<1>7. ASSUME NEW p \in Procs, Stop(p)
      PROVE  (VersionNotAhead /\ Alone /\ InStep /\ \A q \in Procs : Point(q))'
    <2>1. /\ UNCHANGED <<db, remote>> /\ proc'[p].pc = "down" /\ faults' # 0
          /\ UNCHANGED version
        BY <1>7, <1>f, <1>t DEF Stop, Goto, Down
    <2>2. VersionNotAhead'
        BY <1>o, <2>1 DEF VersionNotAhead
    <2>3. InStep' /\ Point(p)'
        BY <2>1 DEF InStep, Point, Passed, LastRow, FullCopy, FullRemote, Persisted
    <2>4. proc[p].pc # "down"
        BY <1>7, <1>t DEF Stop, Down, Jobs
    <2>5. \A q \in Procs \ {p} : proc[q].pc = "down" /\ proc'[q] = proc[q]
        BY <1>7, <1>a, <2>4 DEF Stop, Goto
    <2> QED
        BY <1>k, <2>2, <2>3, <2>5
<1>8. ASSUME LoseLocal
      PROVE  (VersionNotAhead /\ Alone /\ InStep /\ \A q \in Procs : Point(q))'
    <2>1. UNCHANGED <<remote, version, proc, faults>> /\ \A p \in Procs : proc[p].pc = "down"
        BY <1>8 DEF LoseLocal, Down
    <2>2. VersionNotAhead'
        BY <1>o, <2>1 DEF VersionNotAhead
    <2>3. Alone' /\ InStep'
        BY <1>s, <2>1 DEF Alone, InStep
    <2>4. \A q \in Procs : Point(q)'
        BY <2>1 DEF Point, Passed, LastRow, FullCopy, FullRemote, Persisted
    <2> QED
        BY <2>2, <2>3, <2>4
<1>9. CASE UNCHANGED vars
    BY <1>9 DEF vars, AloneInv, VersionNotAhead, Alone, InStep, Point, Passed, LastRow,
                FullCopy, FullRemote, Persisted
<1> QED
    BY <1>1, <1>2, <1>3, <1>4, <1>5, <1>6, <1>7, <1>8, <1>9 DEF Next

LEMMA AloneAlways == Spec => []AloneInv
BY AloneInit, AloneNext, PTL DEF Spec

\* Commands that run one after another: whatever call failed or was cut off,
\* and whatever image the database was replaced by, the stored version names
\* an operation that the stored copy holds.
THEOREM VersionBehindCopy == Spec => []VersionNotAhead
<1>1. AloneInv => VersionNotAhead
    BY DEF AloneInv
<1> QED
    BY <1>1, AloneAlways, PTL

\* Commands that run one after another and never fail: between them the stored
\* version is the latest operation of the stored copy.
THEOREM VersionNamesCopy == Spec => []VersionIsLatest
<1>1. AloneInv => VersionIsLatest
    BY DEF AloneInv, InStep, VersionIsLatest, Down
<1> QED
    BY <1>1, AloneAlways, PTL

\* Commands that run one after another and never fail: no upload drops an
\* operation from the vault's copy, even after the local database was replaced.
THEOREM CopyOnlyGrows == Spec => RemoteKept
<1>1. AloneInv /\ [Next]_vars => [~overlap /\ faults = 0 => Len(remote') >= Len(remote)]_vars
    <2> SUFFICES ASSUME AloneInv, [Next]_vars, ~overlap, faults = 0
                 PROVE  Len(remote') >= Len(remote) \/ UNCHANGED vars
        OBVIOUS
    <2>1. Len(remote) \in Nat
        BY LenProperties DEF AloneInv, Inv, TypeOK
    <2>2. ASSUME NEW p \in Procs, PutData(p)
          PROVE  Len(remote') >= Len(remote)
        BY <2>2, AlonePutData
    <2>3. (\E p \in Procs : PutData(p)) \/ UNCHANGED remote
        BY DEF Next, vars, NewBTApp, persistOperation, Work, FinishBackupOperation,
               BackupTo, PutVersion, TruncateVersion, WriteVersion, Stop, LoseLocal
    <2> QED
        BY <2>1, <2>2, <2>3
<1> QED
    BY <1>1, AloneAlways, PTL DEF Spec, RemoteKept
=============================================================================

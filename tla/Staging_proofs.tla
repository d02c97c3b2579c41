--------------------------- MODULE Staging_proofs ---------------------------
(* Theorems about Staging, for every set of clients, files and blocks and  *)
(* every bound.                                                            *)
EXTENDS Staging, TLAPS, SequenceTheorems, FiniteSetTheorems

-----------------------------------------------------------------------------
(* Pop *)

\* Removing one position keeps every other element.
LEMMA WithoutElements ==
    ASSUME NEW S, queue \in Seq(S), NEW i \in DOMAIN queue
    PROVE  /\ Without(i) \in Seq(S)
           /\ \A j \in DOMAIN queue \ {i} : \E k \in DOMAIN Without(i) : Without(i)[k] = queue[j]
           /\ \A k \in DOMAIN Without(i) : \E j \in DOMAIN queue : Without(i)[k] = queue[j]
<1> DEFINE a == SubSeq(queue, 1, i - 1)
           b == SubSeq(queue, i + 1, Len(queue))
<1>1. /\ i \in Nat /\ 1 <= i /\ i <= Len(queue) /\ Len(queue) \in Nat
      /\ DOMAIN queue = 1..Len(queue)
  OBVIOUS
<1>2. /\ a \in Seq(S) /\ Len(a) = i - 1
      /\ \A k \in 1..(i - 1) : a[k] = queue[k]
  BY <1>1
<1>3. /\ b \in Seq(S) /\ Len(b) = Len(queue) - i
      /\ \A k \in 1..(Len(queue) - i) : b[k] = queue[i + k]
  BY <1>1
<1>4. Without(i) = a \o b
  BY DEF Without
<1> HIDE DEF a, b
<1>5. /\ a \o b \in Seq(S) /\ Len(a \o b) = Len(queue) - 1
      /\ \A k \in 1..(Len(queue) - 1) :
            (a \o b)[k] = IF k < i THEN a[k] ELSE b[k - (i - 1)]
  <2>1. /\ a \o b \in Seq(S)
        /\ Len(a \o b) = Len(a) + Len(b)
        /\ \A k \in 1..(Len(a) + Len(b)) :
              (a \o b)[k] = IF k <= Len(a) THEN a[k] ELSE b[k - Len(a)]
    BY <1>2, <1>3, ConcatProperties
  <2>2. Len(a) = i - 1 /\ Len(a) + Len(b) = Len(queue) - 1
    BY <1>1, <1>2, <1>3
  <2>3. \A k \in 1..(Len(queue) - 1) : k <= i - 1 <=> k < i
    BY <1>1
  <2> QED BY <2>1, <2>2, <2>3
<1>6. /\ Without(i) \in Seq(S) /\ Len(Without(i)) = Len(queue) - 1
      /\ \A k \in 1..(Len(queue) - 1) :
            Without(i)[k] = IF k < i THEN queue[k] ELSE queue[k + 1]
  <2>1. ASSUME NEW k \in 1..(Len(queue) - 1)
        PROVE  (a \o b)[k] = IF k < i THEN queue[k] ELSE queue[k + 1]
    <3>1. CASE k < i
      BY <1>1, <1>2, <1>5, <3>1
    <3>2. CASE ~(k < i)
      <4>1. k - (i - 1) \in 1..(Len(queue) - i) /\ i + (k - (i - 1)) = k + 1
        BY <1>1, <3>2
      <4> QED BY <1>1, <1>3, <1>5, <3>2, <4>1
    <3> QED BY <3>1, <3>2
  <2> QED BY <1>4, <1>5, <2>1
<1>7. ASSUME NEW j \in DOMAIN queue \ {i}
      PROVE  \E k \in DOMAIN Without(i) : Without(i)[k] = queue[j]
  <2>1. CASE j < i
    <3>1. j \in DOMAIN Without(i) /\ Without(i)[j] = queue[j]
      BY <1>1, <1>6, <2>1
    <3> QED BY <3>1
  <2>2. CASE j > i
    <3>1. j - 1 \in DOMAIN Without(i) /\ Without(i)[j - 1] = queue[j]
      BY <1>1, <1>6, <2>2
    <3> QED BY <3>1
  <2> QED BY <1>1, <2>1, <2>2
<1>8. ASSUME NEW k \in DOMAIN Without(i)
      PROVE  \E j \in DOMAIN queue : Without(i)[k] = queue[j]
  BY <1>1, <1>6
<1> QED BY <1>6, <1>7, <1>8

\* Pop yields a queue again, invents no operation, and loses at most one,
\* which has the checksum asked for.
LEMMA PopElements ==
    ASSUME queue \in Seq(Ops), NEW o \in Ops
    PROVE  /\ Pop(o) \in Seq(Ops)
           /\ Referenced(queue) \ {o.sum} \subseteq Referenced(Pop(o))
           /\ \A k \in DOMAIN Pop(o) : \E j \in DOMAIN queue : Pop(o)[k] = queue[j]
<1>1. CASE FirstMatch(o) = {}
  BY <1>1 DEF Pop
<1>2. CASE FirstMatch(o) # {}
  <2> DEFINE i == CHOOSE i \in FirstMatch(o) : TRUE
  <2>1. i \in FirstMatch(o)
    BY <1>2
  <2>2. i \in DOMAIN queue /\ queue[i].sum = o.sum
    BY <2>1 DEF FirstMatch, Matches
  <2>3. Pop(o) = Without(i)
    BY <1>2 DEF Pop
  <2> HIDE DEF i
  <2>4. /\ Without(i) \in Seq(Ops)
        /\ \A j \in DOMAIN queue \ {i} : \E k \in DOMAIN Without(i) : Without(i)[k] = queue[j]
        /\ \A k \in DOMAIN Without(i) : \E j \in DOMAIN queue : Without(i)[k] = queue[j]
    BY <2>2, WithoutElements
  <2>5. ASSUME NEW s \in Referenced(queue) \ {o.sum}
        PROVE  s \in Referenced(Pop(o))
    <3>1. PICK j \in DOMAIN queue : queue[j].sum = s
      BY DEF Referenced
    <3>2. j # i
      BY <2>2, <3>1
    <3>3. PICK k \in DOMAIN Without(i) : Without(i)[k] = queue[j]
      BY <2>4, <3>2
    <3> QED BY <2>3, <3>1, <3>3 DEF Referenced
  <2> QED BY <2>3, <2>4, <2>5
<1> QED BY <1>1, <1>2

-----------------------------------------------------------------------------
(* Type correctness *)

\* TypeOK in three parts: the mutexes, the jobs and the rest.
Holding == {"reading", "appending", "popping", "popped"}
MutexOK ==
    /\ mu = {c \in Clients : job[c].pc \in Holding}
    /\ \A c, d \in mu : Process[c] = Process[d] => c = d
TypeRest ==
    /\ disk \in [Files -> [data : Data, stamp : Nat, there : BOOLEAN]]
    /\ clock \in Nat
    /\ content \subseteq Data
    /\ tmps \in Nat
    /\ queue \in Seq(Ops)
    /\ readable \in BOOLEAN
    /\ faults \in Nat
    /\ past \subseteq States
    /\ nextId \in Nat /\ backedUp \subseteq Nat /\ discarded \subseteq Data
    /\ overlap \in BOOLEAN /\ raced \in BOOLEAN

LEMMA TypeParts ==
    /\ TypeOK <=> TypeRest /\ MutexOK /\ job \in [Clients -> Jobs]
    /\ TypeRest' /\ MutexOK' /\ job' \in [Clients -> Jobs] => TypeOK'
<1>1. TypeOK <=> TypeRest /\ MutexOK /\ job \in [Clients -> Jobs]
  BY DEF TypeOK, TypeRest, MutexOK, Holding
<1>2. TypeRest' /\ MutexOK' /\ job' \in [Clients -> Jobs] => TypeOK'
  BY DEF TypeOK, TypeRest, MutexOK, Holding
<1> QED BY <1>1, <1>2

\* The types of the variables and the ownership of the mutex hold initially.
LEMMA TypeInit == Init => TypeOK
<1> SUFFICES ASSUME Init PROVE TypeOK
  OBVIOUS
<1>1. disk \in [Files -> [data : Data, stamp : Nat, there : BOOLEAN]]
  <2>1. ASSUME NEW d \in Data
        PROVE  [data |-> d, stamp |-> 0, there |-> TRUE]
                 \in [data : Data, stamp : Nat, there : BOOLEAN]
    OBVIOUS
  <2>2. {[data |-> d, stamp |-> 0, there |-> TRUE] : d \in Data}
          \subseteq [data : Data, stamp : Nat, there : BOOLEAN]
    BY <2>1, Zenon
  <2> HIDE DEF Data
  <2>3. disk \in [Files -> {[data |-> d, stamp |-> 0, there |-> TRUE] : d \in Data}]
    BY DEF Init
  <2> QED BY <2>2, <2>3, Zenon
<1>2. past \subseteq States
  BY <1>1 DEF Init, FileState, States
<1>3. job \in [Clients -> Jobs] /\ \A c \in Clients : job[c].pc = "idle"
  BY DEF Init, Jobs, Idle
<1>4. queue \in Seq(Ops)
  BY DEF Init
<1>5. TypeRest
  BY <1>1, <1>2, <1>4 DEF Init, TypeRest
<1>6. MutexOK
  BY <1>3 DEF Init, MutexOK, Holding
<1> QED BY <1>3, <1>5, <1>6, TypeParts

\* A failing write leaves a queue, if an empty one.
LEMMA TypeWriteFails ==
    ASSUME TypeOK, WriteQueueFails
    PROVE  queue' \in Seq(Ops) /\ readable' \in BOOLEAN
<1>1. CASE UNCHANGED <<queue, readable>>
  BY <1>1 DEF TypeOK
<1>2. CASE queue' = << >> /\ readable' = FALSE
  <2>1. queue' \in Seq(Ops)
    BY <1>2
  <2>2. readable' \in BOOLEAN
    BY <1>2
  <2> QED BY <2>1, <2>2
<1> QED BY <1>1, <1>2 DEF WriteQueueFails

\* So does a write of several.
LEMMA TypeWrite ==
    ASSUME TypeOK, NEW c \in Clients, job[c].copy \in Seq(Ops), WriteQueue(c)
    PROVE  queue' \in Seq(Ops) /\ readable' \in BOOLEAN
<1>1. << >> \in Seq(Ops)
  OBVIOUS
<1> QED BY <1>1 DEF WriteQueue

\* The history variables stay Booleans.
LEMMA TypeHistory ==
    ASSUME TypeOK
    PROVE  /\ \A c \in Clients : BeginWork(c) => overlap' \in BOOLEAN
           /\ BeginRewrite => raced' \in BOOLEAN
           /\ Fault => faults' \in Nat
<1>1. ASSUME NEW c \in Clients, BeginWork(c) PROVE overlap' \in BOOLEAN
  <2>1. overlap' = (overlap \/ \E d \in Clients : d # c /\ job[d] # Idle)
    BY <1>1 DEF BeginWork
  <2> QED BY <2>1, Zenon
<1>2. ASSUME BeginRewrite PROVE raced' \in BOOLEAN
  <2>1. raced' = (raced \/ Writers # {})
    BY <1>2 DEF BeginRewrite
  <2> QED BY <2>1, Zenon
<1>3. Fault => faults' \in Nat
  BY DEF TypeOK, Fault
<1> QED BY <1>1, <1>2, <1>3

\* A client that takes a job under its lock found the lock free or has it
\* already; one that takes any other job has unlocked.
LEMMA MutexMove ==
    ASSUME TypeOK, NEW c \in Clients, NEW j \in Jobs, job' = [job EXCEPT ![c] = j],
           \/ j.pc \in Holding /\ mu' = mu \cup {c} /\ (Free(c) \/ c \in mu)
           \/ j.pc \notin Holding /\ mu' = mu \ {c}
    PROVE  job' \in [Clients -> Jobs] /\ MutexOK'
<1>1. job \in [Clients -> Jobs] /\ MutexOK
  BY TypeParts
<1>2. /\ job' \in [Clients -> Jobs] /\ job'[c] = j
      /\ \A d \in Clients : d # c => job'[d] = job[d]
  BY <1>1
<1>3. mu' = {d \in Clients : job'[d].pc \in Holding}
  BY <1>1, <1>2 DEF MutexOK
<1>4. \A d, e \in mu' : Process[d] = Process[e] => d = e
  <2>1. CASE mu' = mu \ {c}
    BY <1>1, <2>1 DEF MutexOK
  <2>2. CASE mu' = mu \cup {c} /\ c \in mu
    BY <1>1, <2>2 DEF MutexOK
  <2>3. CASE mu' = mu \cup {c} /\ Free(c)
    BY <1>1, <2>3 DEF MutexOK, Free
  <2> QED BY <2>1, <2>2, <2>3
<1> QED BY <1>2, <1>3, <1>4 DEF MutexOK

\* Steps of a Stage call preserve the types.
LEMMA TypeStage ==
    ASSUME TypeOK, NEW c \in Clients, Stage(c)
    PROVE  TypeOK'
<1> USE DEF fsVars, storeVars, histVars
<1>0. job[c] \in Jobs /\ TypeRest /\ (c \in mu <=> job[c].pc \in Holding)
  BY TypeParts DEF TypeOK, Holding
<1>i. Idle \in Jobs /\ Idle.pc \notin Holding
  BY DEF Idle, Jobs, Holding
<1>n. c \notin mu => mu \ {c} = mu
  OBVIOUS
<1>1. ASSUME NEW f \in Files, Open(c, f) PROVE TypeOK'
  <2> DEFINE j == [pc |-> "opened", file |-> f, stat |-> disk[f].stamp]
  <2>1. j \in Jobs /\ j.pc \notin Holding
    BY <1>0 DEF TypeRest, Jobs, Holding
  <2>2. job' = [job EXCEPT ![c] = j] /\ mu' = mu \ {c}
    BY <1>0, <1>1, <1>n DEF Open, Idle, Holding
  <2>3. TypeRest'
    BY <1>0, <1>1, TypeHistory DEF Open, TypeRest
  <2> QED BY <2>1, <2>2, <2>3, MutexMove, TypeParts
<1>2. CASE StoreBegin(c)
  <2> DEFINE j == [pc |-> "reading", file |-> job[c].file, stat |-> job[c].stat,
                   half |-> disk[job[c].file].data[1]]
  <2>1. job[c] \in [pc : {"opened"}, file : Files, stat : Nat]
    BY <1>0, <1>2 DEF StoreBegin, Jobs
  <2>2. disk[job[c].file].data[1] \in Blocks
    BY <1>0, <2>1 DEF TypeRest, Data
  <2>3. j \in Jobs /\ j.pc \in Holding
    BY <2>1, <2>2 DEF Jobs, Holding
  <2>4. TypeRest'
    BY <1>0, <1>2 DEF StoreBegin, TypeRest
  <2> QED BY <1>2, <2>3, <2>4, MutexMove, TypeParts DEF StoreBegin
<1>3. CASE StoreEnd(c)
  <2> DEFINE sum == <<job[c].half, disk[job[c].file].data[2]>>
             j == [pc |-> "stored", file |-> job[c].file, stat |-> job[c].stat,
                   sum |-> sum]
  <2>1. job[c] \in [pc : {"reading"}, file : Files, stat : Nat, half : Blocks]
    BY <1>0, <1>3 DEF StoreEnd, Jobs
  <2>2. sum \in Data
    BY <1>0, <2>1 DEF TypeRest, Data
  <2>3. j \in Jobs /\ j.pc \notin Holding
    BY <2>1, <2>2 DEF Jobs, Holding
  <2>4. TypeRest'
    BY <1>0, <1>3, <2>2 DEF StoreEnd, TypeRest
  <2> QED BY <1>3, <2>3, <2>4, MutexMove, TypeParts DEF StoreEnd
<1>4. CASE StoreFails(c)
  <2>1. TypeRest'
    BY <1>0, <1>4, TypeHistory DEF StoreFails, TypeRest
  <2> QED BY <1>4, <1>i, <2>1, MutexMove, TypeParts DEF StoreFails
<1>5. CASE Restat(c)
  <2> DEFINE j == [job[c] EXCEPT !.pc = IF Unchanged(job[c]) THEN "checked" ELSE "rejected"]
  <2>1. job[c] \in [pc : {"stored"}, file : Files, stat : Nat, sum : Data]
    BY <1>0, <1>5 DEF Restat, Jobs
  <2>2. j \in Jobs /\ j.pc \notin Holding
    BY <2>1 DEF Jobs, Holding
  <2>3. job' = [job EXCEPT ![c] = j] /\ mu' = mu \ {c}
    BY <1>0, <1>5, <1>n, <2>1 DEF Restat, Holding
  <2>4. TypeRest'
    BY <1>0, <1>5 DEF Restat, TypeRest
  <2> QED BY <2>2, <2>3, <2>4, MutexMove, TypeParts
<1>6. CASE /\ Drop(c) /\ job[c].pc \in {"checked", "rejected", "appending"}
           /\ queue' \in Seq(Ops) /\ readable' \in BOOLEAN /\ faults' \in Nat
           /\ UNCHANGED <<fsVars, tmps, nextId, backedUp, overlap, raced>>
  <2>1. job[c].sum \in Data
    BY <1>0, <1>6 DEF Jobs
  <2>2. TypeRest'
    BY <1>0, <1>6, <2>1 DEF Drop, TypeRest
  <2> QED BY <1>6, <1>i, <2>2, MutexMove, TypeParts DEF Drop
<1>7. CASE Reject(c)
  BY <1>0, <1>6, <1>7 DEF Reject, TypeRest
<1>8. CASE TooBig(c)
  BY <1>0, <1>6, <1>8 DEF TooBig, TypeRest
<1>9. CASE AppendBegin(c)
  <2> DEFINE op == [id |-> nextId, file |-> job[c].file, sum |-> job[c].sum,
                    stat |-> job[c].stat]
             j == [pc |-> "appending", file |-> job[c].file, stat |-> job[c].stat,
                   sum |-> job[c].sum, copy |-> Append(queue, op)]
  <2>1. job[c] \in [pc : {"checked"}, file : Files, stat : Nat, sum : Data]
    BY <1>0, <1>9 DEF AppendBegin, Jobs
  <2>2. op \in Ops
    BY <1>0, <2>1 DEF TypeRest, Ops
  <2>3. Append(queue, op) \in Seq(Ops)
    BY <1>0, <2>2 DEF TypeRest
  <2>4. j \in Jobs /\ j.pc \in Holding
    BY <2>1, <2>3 DEF Jobs, Holding
  <2>5. TypeRest'
    BY <1>0, <1>9, TypeHistory DEF AppendBegin, TypeRest
  <2> QED BY <1>9, <2>4, <2>5, MutexMove, TypeParts DEF AppendBegin
<1>10. CASE AppendEnd(c)
  <2>1. job[c].copy \in Seq(Ops)
    BY <1>0, <1>10 DEF AppendEnd, Jobs
  <2>2. TypeRest'
    BY <1>0, <1>10, <2>1, TypeWrite DEF AppendEnd, TypeRest
  <2> QED BY <1>10, <1>i, <2>2, MutexMove, TypeParts DEF AppendEnd
<1>11. CASE AppendFails(c)
  <2>1. queue' \in Seq(Ops) /\ readable' \in BOOLEAN /\ faults' \in Nat
    BY <1>0, <1>11, TypeWriteFails, TypeHistory DEF AppendFails, TypeRest
  <2> QED BY <1>6, <1>11, <2>1 DEF AppendFails
<1> QED
  BY <1>1, <1>2, <1>3, <1>4, <1>5, <1>7, <1>8, <1>9, <1>10, <1>11 DEF Stage

\* Steps of a ProcessNext call preserve the types.
LEMMA TypeProcessNext ==
    ASSUME TypeOK, NEW c \in Clients, ProcessNext(c)
    PROVE  TypeOK'
<1> USE DEF fsVars, storeVars, histVars
<1>0. job[c] \in Jobs /\ TypeRest /\ (c \in mu <=> job[c].pc \in Holding)
  BY TypeParts DEF TypeOK, Holding
<1>i. Idle \in Jobs /\ Idle.pc \notin Holding
  BY DEF Idle, Jobs, Holding
<1>n. c \notin mu => mu \ {c} = mu
  OBVIOUS
<1>1. CASE Peek(c)
  <2> DEFINE j == [pc |-> "peeked", op |-> Head(queue)]
  <2>1. Head(queue) \in Ops
    BY <1>0, <1>1 DEF TypeRest, Peek
  <2>2. j \in Jobs /\ j.pc \notin Holding
    BY <2>1 DEF Jobs, Holding
  <2>3. job' = [job EXCEPT ![c] = j] /\ mu' = mu \ {c}
    BY <1>0, <1>1, <1>n DEF Peek, Idle, Holding
  <2>4. TypeRest'
    BY <1>0, <1>1, TypeHistory DEF Peek, TypeRest
  <2> QED BY <2>2, <2>3, <2>4, MutexMove, TypeParts
<1>2. CASE BackupSucceeds(c)
  <2> DEFINE j == [job[c] EXCEPT !.pc = "backed"]
  <2>1. job[c] \in [pc : {"peeked"}, op : Ops] /\ job[c].op.id \in Nat
    BY <1>0, <1>2 DEF BackupSucceeds, Jobs, Ops
  <2>2. j \in Jobs /\ j.pc \notin Holding
    BY <2>1 DEF Jobs, Holding
  <2>3. job' = [job EXCEPT ![c] = j] /\ mu' = mu \ {c}
    BY <1>0, <1>2, <1>n, <2>1 DEF BackupSucceeds, Holding
  <2>4. TypeRest'
    BY <1>0, <1>2, <2>1 DEF BackupSucceeds, TypeRest
  <2> QED BY <2>2, <2>3, <2>4, MutexMove, TypeParts
<1>3. CASE BackupFails(c)
  <2>1. job' = [job EXCEPT ![c] = Idle] /\ mu' = mu \ {c}
    BY <1>0, <1>3, <1>n DEF BackupFails, Holding
  <2>2. TypeRest'
    BY <1>0, <1>3, TypeHistory DEF BackupFails, TypeRest
  <2> QED BY <1>i, <2>1, <2>2, MutexMove, TypeParts
<1>4. CASE PopBegin(c)
  <2> DEFINE j == [pc |-> "popping", op |-> job[c].op, copy |-> Pop(job[c].op)]
  <2>1. job[c].op \in Ops
    BY <1>0, <1>4 DEF PopBegin, Jobs
  <2>2. Pop(job[c].op) \in Seq(Ops)
    BY <1>0, <2>1, PopElements DEF TypeRest
  <2>3. j \in Jobs /\ j.pc \in Holding
    BY <2>1, <2>2 DEF Jobs, Holding
  <2>4. TypeRest'
    BY <1>0, <1>4, TypeHistory DEF PopBegin, TypeRest
  <2> QED BY <1>4, <2>3, <2>4, MutexMove, TypeParts DEF PopBegin
<1>5. CASE PopEnd(c)
  <2> DEFINE needed == StillNeeded(job[c].copy, job[c].op.sum)
             j == [pc |-> "popped", sum |-> job[c].op.sum, needed |-> needed]
  <2>1. job[c].op.sum \in Data /\ job[c].copy \in Seq(Ops)
    BY <1>0, <1>5 DEF PopEnd, Jobs, Ops
  <2>2. needed \in BOOLEAN
    BY DEF StillNeeded
  <2> HIDE DEF needed
  <2>3. j \in Jobs /\ j.pc \in Holding
    BY <2>1, <2>2 DEF Jobs, Holding
  <2>4. job' = [job EXCEPT ![c] = j] /\ c \in mu /\ mu' = mu \cup {c}
    BY <1>0, <1>5 DEF PopEnd, Holding, needed
  <2>5. TypeRest'
    BY <1>0, <1>5, <2>1, TypeWrite DEF PopEnd, TypeRest
  <2> QED BY <2>3, <2>4, <2>5, MutexMove, TypeParts
<1>6. CASE Commit(c)
  <2>1. TypeRest'
    BY <1>0, <1>6 DEF Commit, TypeRest
  <2> QED BY <1>6, <1>i, <2>1, MutexMove, TypeParts DEF Commit
<1>7. CASE PopFails(c)
  <2>1. queue' \in Seq(Ops) /\ readable' \in BOOLEAN /\ faults' \in Nat
    BY <1>0, <1>7, TypeWriteFails, TypeHistory DEF PopFails, TypeRest
  <2>2. TypeRest'
    BY <1>0, <1>7, <2>1 DEF PopFails, TypeRest
  <2> QED BY <1>7, <1>i, <2>2, MutexMove, TypeParts DEF PopFails
<1> QED
  BY <1>1, <1>2, <1>3, <1>4, <1>5, <1>6, <1>7 DEF ProcessNext

\* A process that dies takes its lock and its jobs with it, and no others.
LEMMA TypeCrash ==
    ASSUME TypeOK, NEW p, Crash(p)
    PROVE  TypeOK'
<1> USE DEF fsVars, storeVars, histVars
<1>0. TypeRest /\ MutexOK /\ job \in [Clients -> Jobs]
  BY TypeParts
<1>1. tmps' \in Nat
  <2> DEFINE R == {c \in Died(p) : job[c].pc = "reading"}
  <2>1. \A c, d \in R : c = d
    BY <1>0 DEF Died, MutexOK, Holding
  <2>2. R = {} \/ \E c \in R : R = {c}
    BY <2>1
  <2> HIDE DEF R
  <2>3. Cardinality(R) \in Nat
    <3>1. CASE R = {}
      <4>1. Cardinality(R) = 0
        BY <3>1, FS_EmptySet, Zenon
      <4> QED BY <4>1
    <3>2. ASSUME NEW c \in R, R = {c} PROVE Cardinality(R) \in Nat
      <4>1. Cardinality(R) = 1
        BY <3>2, FS_Singleton, Zenon
      <4> QED BY <4>1
    <3> QED BY <2>2, <3>1, <3>2
  <2> QED BY <1>0, <2>3 DEF Crash, TypeRest, R
<1>2. queue' \in Seq(Ops) /\ readable' \in BOOLEAN /\ faults' \in Nat
  BY <1>0, TypeWriteFails, TypeHistory DEF Crash, TypeRest
<1>3. TypeRest'
  BY <1>0, <1>1, <1>2 DEF Crash, TypeRest
<1>4. Idle \in Jobs /\ Idle.pc \notin Holding
  BY DEF Idle, Jobs, Holding
<1>5. /\ job' \in [Clients -> Jobs]
      /\ \A c \in Clients : job'[c] = IF c \in Died(p) THEN Idle ELSE job[c]
  BY <1>0, <1>4 DEF Crash
<1>6. MutexOK'
  BY <1>0, <1>4, <1>5 DEF Crash, MutexOK
<1> QED BY <1>3, <1>5, <1>6, TypeParts

\* Every step preserves the types.
LEMMA TypeNext == TypeOK /\ [Next]_vars => TypeOK'
<1> SUFFICES ASSUME TypeOK, [Next]_vars PROVE TypeOK'
  OBVIOUS
<1> USE DEF fsVars, storeVars, histVars
<1>1. ASSUME NEW c \in Clients, Stage(c) \/ ProcessNext(c) PROVE TypeOK'
  BY <1>1, TypeStage, TypeProcessNext
<1>2. ASSUME NEW f \in Files, Delete(f) PROVE TypeOK'
  <2>1. [disk[f] EXCEPT !.there = FALSE] \in [data : Data, stamp : Nat, there : BOOLEAN]
    BY DEF TypeOK
  <2>2. disk' = [disk EXCEPT ![f] = [disk[f] EXCEPT !.there = FALSE]]
    BY <1>2 DEF Delete
  <2>3. disk' \in [Files -> [data : Data, stamp : Nat, there : BOOLEAN]]
    BY <2>1, <2>2 DEF TypeOK
  <2> QED BY <1>2, <2>3 DEF TypeOK, Delete
<1>3. ASSUME NEW f \in Files, NEW d \in Data, Change(f, d) PROVE TypeOK'
  <2>1. past' \subseteq States
    BY <1>3 DEF TypeOK, Change, States
  <2> QED BY <1>3, <2>1 DEF TypeOK, Change
<1>4. ASSUME NEW c \in Clients, Crash(Process[c]) PROVE TypeOK'
  BY <1>4, TypeCrash
<1>5. CASE UNCHANGED vars
  BY <1>5 DEF vars, TypeOK
<1> QED BY <1>1, <1>2, <1>3, <1>4, <1>5 DEF Next

\* Type correctness of the staging area; no path of Stage or ProcessNext
\* returns with the mutex locked, and no two clients of a process hold it.
THEOREM TypeCorrect == Spec => []TypeOK
<1> QED BY TypeInit, TypeNext, PTL DEF Spec

-----------------------------------------------------------------------------
(* Snapshots are real                                                       *)
(* The stat that validateStatUnchanged compares is fresh at every change,  *)
(* so a file that still carries the first stat has not been written since: *)
(* what was read before is what the file holds now.                        *)

\* Every operation of q is a state its file has had.
Real(q) == \A i \in DOMAIN q :
              [file |-> q[i].file, data |-> q[i].sum, stamp |-> q[i].stat] \in past

\* What a client that has not validated its copy yet knows about the file,
\* and what one that is about to rewrite queue.json writes.
CopyOK(c) ==
    LET j == job[c]
    IN  /\ j.pc \in {"opened", "reading", "stored"} => j.stat <= clock
        /\ j.pc = "reading" /\ disk[j.file].stamp = j.stat => j.half = disk[j.file].data[1]
        /\ j.pc = "stored" /\ disk[j.file].stamp = j.stat => j.sum = disk[j.file].data
        /\ j.pc = "checked" => [file |-> j.file, data |-> j.sum, stamp |-> j.stat] \in past
        /\ j.pc \in {"appending", "popping"} => Real(j.copy)

PastOK == \A f \in Files : FileState(f) \in past /\ disk[f].stamp <= clock

\* The inductive invariant behind SnapshotConsistent.
SnapshotInv == PastOK /\ (\A c \in Clients : CopyOK(c)) /\ SnapshotConsistent

LEMMA SnapshotInit == Init => SnapshotInv
<1> SUFFICES ASSUME Init PROVE SnapshotInv
  OBVIOUS
<1>1. \A f \in Files : disk[f].stamp = 0
  BY DEF Init
<1>2. PastOK
  BY <1>1 DEF Init, PastOK
<1>3. \A c \in Clients : CopyOK(c)
  BY DEF Init, CopyOK, Idle
<1>4. SnapshotConsistent
  BY DEF Init, SnapshotConsistent
<1> QED BY <1>2, <1>3, <1>4 DEF SnapshotInv

\* When only the job of c changes, the invariant needs checking for c alone.
LEMMA OtherCopies ==
    ASSUME TypeOK, SnapshotInv, NEW c \in Clients, UNCHANGED fsVars,
           NEW j \in Jobs, job' = [job EXCEPT ![c] = j],
           CopyOK(c)', SnapshotConsistent'
    PROVE  SnapshotInv'
<1>1. PastOK'
  BY DEF SnapshotInv, PastOK, fsVars, FileState
<1>2. ASSUME NEW d \in Clients PROVE CopyOK(d)'
  BY DEF TypeOK, SnapshotInv, CopyOK, Real, fsVars
<1> QED BY <1>1, <1>2 DEF SnapshotInv

\* A client that goes back to idle knows nothing.
LEMMA BackToIdle ==
    ASSUME TypeOK, SnapshotInv, NEW c \in Clients, UNCHANGED fsVars,
           job' = [job EXCEPT ![c] = Idle], SnapshotConsistent'
    PROVE  SnapshotInv'
<1>1. Idle \in Jobs
  BY DEF Idle, Jobs
<1>2. CopyOK(c)'
  BY DEF TypeOK, CopyOK, Idle
<1> QED BY <1>1, <1>2, OtherCopies

\* Steps that leave the source files and their history alone.
LEMMA SnapshotClient ==
    ASSUME TypeOK, SnapshotInv, NEW c \in Clients, Stage(c) \/ ProcessNext(c)
    PROVE  SnapshotInv'
<1> USE DEF fsVars, storeVars, histVars
<1>0. job[c] \in Jobs /\ CopyOK(c) /\ SnapshotConsistent /\ PastOK
  BY DEF TypeOK, SnapshotInv
<1>a. ASSUME UNCHANGED <<queue, past>> PROVE SnapshotConsistent'
  BY <1>0, <1>a DEF SnapshotConsistent
<1>1. ASSUME NEW f \in Files, Open(c, f) PROVE SnapshotInv'
  <2> DEFINE j == [pc |-> "opened", file |-> f, stat |-> disk[f].stamp]
  <2>1. j \in Jobs /\ disk[f].stamp <= clock
    BY <1>0 DEF TypeOK, Jobs, PastOK
  <2>2. CopyOK(c)'
    BY <1>1, <2>1 DEF TypeOK, Open, CopyOK
  <2> QED BY <1>1, <1>a, <2>1, <2>2, OtherCopies DEF Open
<1>2. CASE StoreBegin(c)
  <2> DEFINE j == [pc |-> "reading", file |-> job[c].file, stat |-> job[c].stat,
                   half |-> disk[job[c].file].data[1]]
  <2>1. job[c] \in [pc : {"opened"}, file : Files, stat : Nat]
    BY <1>0, <1>2 DEF StoreBegin, Jobs
  <2>2. disk[job[c].file].data[1] \in Blocks
    BY <2>1 DEF TypeOK, Data
  <2>3. j \in Jobs
    BY <2>1, <2>2 DEF Jobs
  <2>4. CopyOK(c)'
    BY <1>0, <1>2, <2>1, <2>3 DEF TypeOK, StoreBegin, CopyOK
  <2> QED BY <1>2, <1>a, <2>3, <2>4, OtherCopies DEF StoreBegin
<1>3. CASE StoreEnd(c)
  <2> DEFINE sum == <<job[c].half, disk[job[c].file].data[2]>>
             j == [pc |-> "stored", file |-> job[c].file, stat |-> job[c].stat,
                   sum |-> sum]
  <2>1. job[c] \in [pc : {"reading"}, file : Files, stat : Nat, half : Blocks]
    BY <1>0, <1>3 DEF StoreEnd, Jobs
  <2>2. disk[job[c].file].data \in Blocks \X Blocks
    BY <2>1 DEF TypeOK, Data
  <2>3. j \in Jobs
    BY <2>1, <2>2 DEF Jobs, Data
  <2>4. disk[job[c].file].stamp = job[c].stat => sum = disk[job[c].file].data
    BY <1>0, <2>1, <2>2 DEF CopyOK
  <2>5. CopyOK(c)'
    BY <1>0, <1>3, <2>1, <2>4 DEF TypeOK, StoreEnd, CopyOK
  <2> QED BY <1>3, <1>a, <2>3, <2>5, OtherCopies DEF StoreEnd
<1>4. CASE StoreFails(c)
  BY <1>4, <1>a, BackToIdle DEF StoreFails
<1>5. CASE Restat(c)
  <2> DEFINE j == [job[c] EXCEPT !.pc = IF Unchanged(job[c]) THEN "checked" ELSE "rejected"]
  <2>1. job[c] \in [pc : {"stored"}, file : Files, stat : Nat, sum : Data]
    BY <1>0, <1>5 DEF Restat, Jobs
  <2>2. j \in Jobs
    BY <2>1 DEF Jobs
  <2>3. job' = [job EXCEPT ![c] = j]
    BY <1>5 DEF Restat
  <2>4. Unchanged(job[c]) =>
           [file |-> job[c].file, data |-> job[c].sum, stamp |-> job[c].stat] \in past
    BY <1>0, <2>1 DEF CopyOK, Unchanged, PastOK, FileState
  <2>5. CopyOK(c)'
    BY <1>0, <1>5, <2>1, <2>3, <2>4 DEF TypeOK, Restat, CopyOK
  <2> QED BY <1>5, <1>a, <2>2, <2>3, <2>5, OtherCopies DEF Restat
<1>6. CASE Reject(c)
  BY <1>6, <1>a, BackToIdle DEF Reject, Drop
<1>7. CASE TooBig(c)
  BY <1>7, <1>a, BackToIdle DEF TooBig, Drop
<1>8. CASE AppendBegin(c)
  <2> DEFINE o == [id |-> nextId, file |-> job[c].file, sum |-> job[c].sum,
                   stat |-> job[c].stat]
             q == Append(queue, o)
             j == [pc |-> "appending", file |-> job[c].file, stat |-> job[c].stat,
                   sum |-> job[c].sum, copy |-> q]
  <2>1. job[c] \in [pc : {"checked"}, file : Files, stat : Nat, sum : Data]
    BY <1>0, <1>8 DEF AppendBegin, Jobs
  <2>2. o \in Ops /\ queue \in Seq(Ops)
    BY <2>1 DEF TypeOK, Ops
  <2>3. [file |-> o.file, data |-> o.sum, stamp |-> o.stat] \in past
    BY <1>0, <1>8 DEF CopyOK, AppendBegin
  <2>4. job' = [job EXCEPT ![c] = j] /\ UNCHANGED <<fsVars, queue>>
    BY <1>8 DEF AppendBegin
  <2>5. ASSUME NEW k \in DOMAIN q
        PROVE  [file |-> q[k].file, data |-> q[k].sum, stamp |-> q[k].stat] \in past
    <3> HIDE DEF o
    <3>1. (k \in DOMAIN queue /\ q[k] = queue[k]) \/ q[k] = o
      BY <2>2
    <3> QED BY <1>0, <2>3, <3>1 DEF SnapshotConsistent
  <2>6. q \in Seq(Ops)
    BY <2>2
  <2> HIDE DEF q
  <2>7. j \in Jobs
    BY <2>1, <2>6 DEF Jobs
  <2>8. CopyOK(c)'
    <3>1. job'[c] = j
      BY <2>4 DEF TypeOK
    <3>2. \A k \in DOMAIN q :
             [file |-> q[k].file, data |-> q[k].sum, stamp |-> q[k].stat] \in past'
      BY <2>4, <2>5
    <3> QED BY <3>1, <3>2 DEF CopyOK, Real
  <2> QED BY <1>a, <2>4, <2>7, <2>8, OtherCopies
<1>e. ASSUME job[c].pc \in {"appending", "popping"}, WriteQueue(c), UNCHANGED past
      PROVE  SnapshotConsistent'
  <2>1. queue' = job[c].copy \/ queue' = << >>
    BY <1>e DEF WriteQueue
  <2> QED BY <1>0, <1>e, <2>1 DEF CopyOK, Real, SnapshotConsistent
<1>9. CASE AppendEnd(c)
  BY <1>9, <1>e, BackToIdle DEF AppendEnd
<1>b. ASSUME UNCHANGED queue \/ WriteQueueFails, UNCHANGED past
      PROVE  SnapshotConsistent'
  <2>1. UNCHANGED queue \/ queue' = << >>
    BY <1>b DEF WriteQueueFails
  <2> QED BY <1>0, <1>b, <2>1 DEF SnapshotConsistent
<1>10. CASE AppendFails(c)
  BY <1>10, <1>b, BackToIdle DEF AppendFails, Drop
<1>11. CASE Peek(c)
  <2> DEFINE j == [pc |-> "peeked", op |-> Head(queue)]
  <2>1. j \in Jobs
    BY <1>11 DEF TypeOK, Peek, Jobs
  <2>2. CopyOK(c)'
    BY <1>11 DEF TypeOK, Peek, CopyOK
  <2> QED BY <1>11, <1>a, <2>1, <2>2, OtherCopies DEF Peek
<1>12. CASE BackupSucceeds(c)
  <2> DEFINE j == [job[c] EXCEPT !.pc = "backed"]
  <2>1. job[c] \in [pc : {"peeked"}, op : Ops]
    BY <1>0, <1>12 DEF BackupSucceeds, Jobs
  <2>2. j \in Jobs /\ job' = [job EXCEPT ![c] = j]
    BY <1>12, <2>1 DEF BackupSucceeds, Jobs
  <2>3. CopyOK(c)'
    BY <2>1, <2>2 DEF TypeOK, CopyOK
  <2> QED BY <1>12, <1>a, <2>2, <2>3, OtherCopies DEF BackupSucceeds
<1>13. CASE BackupFails(c)
  BY <1>13, <1>a, BackToIdle DEF BackupFails
<1>14. CASE PopBegin(c)
  <2> DEFINE q == Pop(job[c].op)
             j == [pc |-> "popping", op |-> job[c].op, copy |-> q]
  <2>1. job[c].op \in Ops /\ queue \in Seq(Ops)
    BY <1>0, <1>14 DEF TypeOK, PopBegin, Jobs
  <2>2. q \in Seq(Ops) /\ \A k \in DOMAIN q : \E i \in DOMAIN queue : q[k] = queue[i]
    BY <2>1, PopElements
  <2> HIDE DEF q
  <2>3. j \in Jobs
    BY <2>1, <2>2 DEF Jobs
  <2>4. \A k \in DOMAIN q :
           [file |-> q[k].file, data |-> q[k].sum, stamp |-> q[k].stat] \in past'
    BY <1>0, <1>14, <2>2 DEF PopBegin, SnapshotConsistent
  <2>5. job' = [job EXCEPT ![c] = j]
    BY <1>14 DEF PopBegin, q
  <2>6. CopyOK(c)'
    BY <2>4, <2>5 DEF TypeOK, CopyOK, Real
  <2> QED BY <1>14, <1>a, <2>3, <2>5, <2>6, OtherCopies DEF PopBegin
<1>15. CASE PopEnd(c)
  <2> DEFINE needed == StillNeeded(job[c].copy, job[c].op.sum)
             j == [pc |-> "popped", sum |-> job[c].op.sum, needed |-> needed]
  <2>1. job[c].op.sum \in Data
    BY <1>0, <1>15 DEF PopEnd, Jobs, Ops
  <2>2. needed \in BOOLEAN
    BY DEF StillNeeded
  <2>3. job' = [job EXCEPT ![c] = j]
    BY <1>15 DEF PopEnd
  <2> HIDE DEF needed
  <2>4. j \in Jobs
    BY <2>1, <2>2 DEF Jobs
  <2>5. CopyOK(c)'
    BY <2>3 DEF TypeOK, CopyOK
  <2> QED BY <1>15, <1>e, <2>3, <2>4, <2>5, OtherCopies DEF PopEnd
<1>16. CASE Commit(c)
  BY <1>16, <1>a, BackToIdle DEF Commit
<1>17. CASE PopFails(c)
  BY <1>17, <1>b, BackToIdle DEF PopFails
<1> QED
  BY <1>1, <1>2, <1>3, <1>4, <1>5, <1>6, <1>7, <1>8, <1>9, <1>10, <1>11, <1>12,
     <1>13, <1>14, <1>15, <1>16, <1>17 DEF Stage, ProcessNext

\* Every step preserves the invariant; a change of a file brings a stamp no
\* client has seen.
LEMMA SnapshotNext == TypeOK /\ SnapshotInv /\ [Next]_vars => SnapshotInv'
<1> SUFFICES ASSUME TypeOK, SnapshotInv, [Next]_vars PROVE SnapshotInv'
  OBVIOUS
<1> USE DEF fsVars, storeVars, histVars
<1>0. PastOK /\ SnapshotConsistent /\ \A c \in Clients : job[c] \in Jobs /\ CopyOK(c)
  BY DEF TypeOK, SnapshotInv
<1>1. ASSUME NEW c \in Clients, Stage(c) \/ ProcessNext(c) PROVE SnapshotInv'
  BY <1>1, SnapshotClient
<1>2. ASSUME NEW f \in Files, Delete(f) PROVE SnapshotInv'
  <2>1. \A g \in Files : disk'[g].data = disk[g].data /\ disk'[g].stamp = disk[g].stamp
    BY <1>2 DEF TypeOK, Delete
  <2>2. clock' = clock + 1 /\ clock \in Nat /\ UNCHANGED <<past, job, queue>>
    BY <1>2 DEF TypeOK, Delete
  <2>3. PastOK'
    <3>1. \A g \in Files : FileState(g)' = FileState(g)
      BY <2>1 DEF FileState
    <3>2. \A g \in Files : disk[g].stamp \in Nat
      BY DEF TypeOK
    <3> QED BY <1>0, <2>1, <2>2, <3>1, <3>2 DEF PastOK
  <2>4. ASSUME NEW c \in Clients PROVE CopyOK(c)'
    BY <1>0, <2>1, <2>2 DEF CopyOK, Real, Jobs
  <2>5. SnapshotConsistent'
    BY <1>0, <2>2 DEF SnapshotConsistent
  <2> QED BY <2>3, <2>4, <2>5 DEF SnapshotInv
<1>3. ASSUME NEW f \in Files, NEW d \in Data, Change(f, d) PROVE SnapshotInv'
  <2>1. /\ clock' = clock + 1 /\ clock \in Nat /\ UNCHANGED <<job, queue>>
        /\ past' = past \cup {[file |-> f, data |-> d, stamp |-> clock + 1]}
        /\ disk'[f].data = d /\ disk'[f].stamp = clock + 1
        /\ \A g \in Files : g # f => disk'[g] = disk[g]
    BY <1>3 DEF TypeOK, Change
  <2>2. PastOK'
    <3>1. ASSUME NEW g \in Files PROVE FileState(g)' \in past' /\ disk'[g].stamp <= clock'
      <4>1. CASE g = f
        BY <2>1, <4>1 DEF FileState
      <4>2. CASE g # f
        <5>1. disk[g].stamp \in Nat
          BY DEF TypeOK
        <5> QED BY <1>0, <2>1, <4>2, <5>1 DEF FileState, PastOK
      <4> QED BY <4>1, <4>2
    <3> QED BY <3>1 DEF PastOK
  <2>3. ASSUME NEW c \in Clients PROVE CopyOK(c)'
    BY <1>0, <2>1 DEF CopyOK, Real, Jobs
  <2>4. SnapshotConsistent'
    BY <1>0, <2>1 DEF SnapshotConsistent
  <2> QED BY <2>2, <2>3, <2>4 DEF SnapshotInv
<1>4. ASSUME NEW p, Crash(p) PROVE SnapshotInv'
  <2>1. \A c \in Clients : job'[c] = Idle \/ job'[c] = job[c]
    BY <1>4 DEF Crash
  <2>2. \A c \in Clients : CopyOK(c)'
    BY <1>0, <1>4, <2>1 DEF Crash, CopyOK, Real, Idle
  <2>3. UNCHANGED queue \/ queue' = << >>
    BY <1>4 DEF Crash, WriteQueueFails
  <2>4. SnapshotConsistent'
    BY <1>0, <1>4, <2>3 DEF Crash, SnapshotConsistent
  <2> QED BY <1>0, <1>4, <2>2, <2>4 DEF Crash, SnapshotInv, PastOK, FileState
<1>5. CASE UNCHANGED vars
  BY <1>0, <1>5 DEF vars, SnapshotInv, PastOK, CopyOK, Real, FileState, SnapshotConsistent
<1> QED BY <1>1, <1>2, <1>3, <1>4, <1>5 DEF Next

\* Whatever other programs do to a file while it is being staged, a queued
\* operation records a content and a stat the file had at one instant.
THEOREM SnapshotsAreReal == Spec => []SnapshotConsistent
<1>1. TypeOK /\ SnapshotInv /\ [Next]_vars => (TypeOK /\ SnapshotInv)'
  BY TypeNext, SnapshotNext
<1>2. SnapshotInv => SnapshotConsistent
  BY DEF SnapshotInv
<1> QED BY <1>1, <1>2, TypeInit, SnapshotInit, PTL DEF Spec

-----------------------------------------------------------------------------
(* No orphan content                                                        *)
(* The obligation to remove a content moves from the Stage that stored it  *)
(* to the operation it queues, and from the last such operation to the     *)
(* ProcessNext that pops it. It survives the rewriting of queue.json       *)
(* because the copy that is about to be written still refers to everything *)
(* the queue does: nobody else is rewriting it.                            *)

Quiet == faults = 0 /\ ~raced
Writing == {"appending", "popping"}

\* What a client that rewrites queue.json is about to write.
RewriteOK(c) ==
    /\ job[c].pc = "appending" =>
          Referenced(queue) \cup {job[c].sum} \subseteq Referenced(job[c].copy)
    /\ job[c].pc = "popping" =>
          Referenced(queue) \ {job[c].op.sum} \subseteq Referenced(job[c].copy)
RewriteInv == Quiet => /\ \A c, d \in Writers : c = d
                       /\ \A c \in Clients : RewriteOK(c)

\* The inductive invariant behind NoOrphanContent.
OrphanInv == NoOrphanContent /\ RewriteInv

LEMMA OrphanInit == Init => OrphanInv
BY DEF Init, OrphanInv, NoOrphanContent, RewriteInv, Writers, RewriteOK, Idle

\* Faults and races are never forgotten.
LEMMA QuietBefore == TypeOK /\ [Next]_vars /\ Quiet' => Quiet
<1> SUFFICES ASSUME TypeOK, [Next]_vars, Quiet' PROVE Quiet
  OBVIOUS
<1> USE DEF fsVars, storeVars, histVars
<1>1. faults \in Nat /\ faults' = 0 /\ ~raced'
  BY DEF TypeOK, Quiet
<1>2. faults' = faults \/ faults' = faults + 1
  BY DEF Next, Stage, ProcessNext, Open, StoreBegin, StoreEnd, StoreFails, Fault, Restat,
         Reject, TooBig, AppendBegin, AppendEnd, AppendFails, Peek, BackupSucceeds,
         BackupFails, PopBegin, PopEnd, Commit, PopFails, Delete, Change, Crash, vars
<1>3. raced => raced'
  BY DEF Next, Stage, ProcessNext, Open, StoreBegin, StoreEnd, StoreFails, BeginRewrite,
         Restat, Reject, TooBig, AppendBegin, AppendEnd, AppendFails, Peek,
         BackupSucceeds, BackupFails, PopBegin, PopEnd, Commit, PopFails, Delete, Change,
         Crash, vars
<1> QED BY <1>1, <1>2, <1>3 DEF Quiet

LEMMA RewriteSame ==
    ASSUME NEW d \in Clients, RewriteOK(d), job'[d] = job[d], UNCHANGED queue
    PROVE  RewriteOK(d)'
<1>1. Referenced(queue)' = Referenced(queue)
  BY DEF Referenced
<1>2. Referenced(job[d].copy)' = Referenced(job[d].copy)
  BY DEF Referenced
<1> QED BY <1>1, <1>2 DEF RewriteOK

\* A client that neither starts nor ends rewriting leaves RewriteInv alone.
LEMMA RewriteElsewhere ==
    ASSUME TypeOK, RewriteInv, Quiet, NEW c \in Clients, UNCHANGED queue,
           NEW j, job' = [job EXCEPT ![c] = j], j.pc \notin Writing
    PROVE  RewriteInv'
<1>1. job'[c] = j /\ \A d \in Clients : d # c => job'[d] = job[d]
  BY DEF TypeOK
<1>2. Writers' \subseteq Writers
  BY <1>1 DEF Writers, Writing
<1>3. ASSUME NEW d \in Clients PROVE RewriteOK(d)'
  <2>1. CASE d = c
    BY <1>1, <2>1 DEF RewriteOK, Writing
  <2>2. CASE d # c
    BY <1>1, <2>2, RewriteSame DEF RewriteInv
  <2> QED BY <2>1, <2>2
<1> QED BY <1>2, <1>3 DEF RewriteInv

\* The only client rewriting queue.json is done with it.
LEMMA RewriteEnds ==
    ASSUME TypeOK, RewriteInv, Quiet, NEW c \in Writers,
           NEW j, job' = [job EXCEPT ![c] = j], j.pc \notin Writing
    PROVE  RewriteInv'
<1>1. c \in Clients /\ job'[c] = j /\ \A d \in Clients : d # c => job'[d] = job[d]
  BY DEF TypeOK, Writers
<1>2. ASSUME NEW d \in Clients PROVE job'[d].pc \notin Writing
  BY <1>1 DEF RewriteInv, Writers, Writing
<1> QED BY <1>2 DEF RewriteInv, RewriteOK, Writers, Writing

\* A client begins to rewrite queue.json while no other does.
LEMMA RewriteBegins ==
    ASSUME TypeOK, RewriteInv, Quiet', BeginRewrite, NEW c \in Clients,
           NEW j, job' = [job EXCEPT ![c] = j], RewriteOK(c)'
    PROVE  RewriteInv'
<1>1. job'[c] = j /\ \A d \in Clients : d # c => job'[d] = job[d]
  BY DEF TypeOK
<1>2. Writers = {}
  BY DEF BeginRewrite, Quiet
<1>3. \A d \in Clients : d # c => job'[d].pc \notin Writing
  BY <1>1, <1>2 DEF Writers, Writing
<1> QED BY <1>3 DEF RewriteInv, RewriteOK, Writers, Writing

\* The only client rewriting queue.json replaces it by its copy.
LEMMA WritesCopy ==
    ASSUME RewriteInv, Quiet, NEW c \in Writers, WriteQueue(c)
    PROVE  queue' = job[c].copy
<1>1. Writers = {c}
  BY DEF RewriteInv
<1> QED BY <1>1 DEF WriteQueue

\* A step in which no content appears, no operation leaves and no debt is lost.
LEMMA DebtKept ==
    ASSUME NoOrphanContent, Quiet, content' \subseteq content, UNCHANGED queue,
           \A d \in Clients : Owed(d) => Owed(d)' /\ job'[d].sum = job[d].sum
    PROVE  NoOrphanContent'
BY DEF NoOrphanContent, Quiet, InFlight, Referenced

\* A Stage that fails removes the content it owes.
LEMMA DebtPaid ==
    ASSUME TypeOK, OrphanInv, Quiet, NEW c \in Clients, Drop(c),
           job[c].pc \in {"checked", "rejected"}, UNCHANGED queue
    PROVE  OrphanInv'
<1>1. job'[c] = Idle /\ \A d \in Clients : d # c => job'[d] = job[d]
  BY DEF TypeOK, Drop
<1>2. ASSUME NEW s \in content' PROVE s \in Referenced(queue)' \cup InFlight'
  <2>1. s \in content /\ s # job[c].sum
    BY <1>2 DEF Drop
  <2> QED BY <1>1, <2>1 DEF OrphanInv, NoOrphanContent, Quiet, InFlight, Referenced, Owed
<1>3. RewriteInv'
  BY RewriteElsewhere DEF OrphanInv, Drop, Writing, Idle
<1> QED BY <1>2, <1>3 DEF OrphanInv, NoOrphanContent

LEMMA OrphanStage ==
    ASSUME TypeOK, OrphanInv, Quiet, Quiet', NEW c \in Clients, Stage(c)
    PROVE  OrphanInv'
<1> USE DEF fsVars, storeVars, histVars
<1>0. /\ job \in [Clients -> Jobs] /\ queue \in Seq(Ops) /\ faults \in Nat
      /\ NoOrphanContent /\ RewriteInv /\ faults = 0 /\ faults' = 0
  BY DEF TypeOK, OrphanInv, Quiet
<1>f. ~Fault
  BY <1>0 DEF Fault
<1>1. ASSUME NEW f \in Files, Open(c, f) PROVE OrphanInv'
  <2>1. \A d \in Clients : Owed(d) => Owed(d)' /\ job'[d].sum = job[d].sum
    BY <1>0, <1>1 DEF Open, Owed, Idle
  <2>2. RewriteInv'
    BY <1>0, <1>1, RewriteElsewhere DEF Open, Writing
  <2> QED BY <1>0, <1>1, <2>1, <2>2, DebtKept DEF Open, OrphanInv
<1>2. CASE StoreBegin(c)
  <2>1. \A d \in Clients : Owed(d) => Owed(d)' /\ job'[d].sum = job[d].sum
    BY <1>0, <1>2 DEF StoreBegin, Owed
  <2>2. RewriteInv'
    BY <1>0, <1>2, RewriteElsewhere DEF StoreBegin, Writing
  <2> QED BY <1>0, <1>2, <2>1, <2>2, DebtKept DEF StoreBegin, OrphanInv
<1>3. CASE StoreEnd(c)
  <2>1. \A d \in Clients : Owed(d) => job'[d] = job[d]
    BY <1>0, <1>3 DEF StoreEnd, Owed
  <2>2. job'[c].pc = "stored" /\ content' = content \cup {job'[c].sum}
    BY <1>0, <1>3 DEF StoreEnd
  <2>3. queue' = queue
    BY <1>3 DEF StoreEnd
  <2>4. NoOrphanContent'
    BY <1>0, <2>1, <2>2, <2>3 DEF NoOrphanContent, Quiet, InFlight, Referenced, Owed
  <2>5. RewriteInv'
    BY <1>0, <1>3, RewriteElsewhere DEF StoreEnd, Writing
  <2> QED BY <2>4, <2>5 DEF OrphanInv
<1>4. CASE StoreFails(c)
  BY <1>4, <1>f DEF StoreFails
<1>5. CASE Restat(c)
  <2> DEFINE j == [job[c] EXCEPT !.pc = IF Unchanged(job[c]) THEN "checked" ELSE "rejected"]
  <2>1. job[c] \in [pc : {"stored"}, file : Files, stat : Nat, sum : Data]
    BY <1>0, <1>5 DEF Restat, Jobs
  <2>2. job' = [job EXCEPT ![c] = j] /\ UNCHANGED <<content, queue>>
    BY <1>5 DEF Restat
  <2>3. j.pc \in {"checked", "rejected"} /\ j.sum = job[c].sum
    BY <2>1
  <2> HIDE DEF j
  <2>4. \A d \in Clients : Owed(d) => Owed(d)' /\ job'[d].sum = job[d].sum
    BY <1>0, <2>2, <2>3 DEF Owed
  <2>5. RewriteInv'
    BY <1>0, <2>2, <2>3, RewriteElsewhere DEF Writing
  <2> QED BY <1>0, <2>2, <2>4, <2>5, DebtKept DEF OrphanInv
<1>6. CASE Reject(c)
  BY <1>6, DebtPaid DEF Reject
<1>7. CASE TooBig(c)
  BY <1>7, DebtPaid DEF TooBig
<1>8. CASE AppendBegin(c)
  <2> DEFINE o == [id |-> nextId, file |-> job[c].file, sum |-> job[c].sum,
                   stat |-> job[c].stat]
             q == Append(queue, o)
             j == [pc |-> "appending", file |-> job[c].file, stat |-> job[c].stat,
                   sum |-> job[c].sum, copy |-> q]
  <2>1. job[c] \in [pc : {"checked"}, file : Files, stat : Nat, sum : Data]
    BY <1>0, <1>8 DEF AppendBegin, Jobs
  <2>2. o \in Ops /\ o.sum = job[c].sum
    BY <2>1 DEF TypeOK, Ops
  <2>3. job' = [job EXCEPT ![c] = j] /\ UNCHANGED <<content, queue>> /\ BeginRewrite
    BY <1>8 DEF AppendBegin
  <2> HIDE DEF o
  <2>4. Referenced(queue) \cup {job[c].sum} \subseteq Referenced(q)
    <3>1. \A i \in DOMAIN queue : i \in DOMAIN q /\ q[i] = queue[i]
      BY <1>0, <2>2
    <3>2. Len(q) \in DOMAIN q /\ q[Len(q)] = o
      BY <1>0, <2>2
    <3> HIDE DEF q
    <3> QED BY <2>2, <3>1, <3>2 DEF Referenced
  <2> HIDE DEF q
  <2>5. job'[c] = j /\ \A d \in Clients : d # c => job'[d] = job[d]
    BY <1>0, <2>3
  <2>6. RewriteOK(c)'
    <3>1. Referenced(queue)' = Referenced(queue)
      BY <2>3 DEF Referenced
    <3>2. Referenced(job[c].copy)' = Referenced(q)
      BY <2>5 DEF Referenced
    <3>3. job'[c].pc = "appending" /\ job'[c].sum = job[c].sum
      BY <2>5
    <3> QED BY <2>4, <3>1, <3>2, <3>3 DEF RewriteOK
  <2>7. \A d \in Clients : Owed(d) => Owed(d)' /\ job'[d].sum = job[d].sum
    BY <2>5 DEF Owed
  <2>8. RewriteInv'
    BY <1>0, <2>3, <2>6, RewriteBegins
  <2> QED BY <1>0, <2>3, <2>7, <2>8, DebtKept DEF OrphanInv
<1>9. CASE AppendEnd(c)
  <2>0. c \in Writers
    BY <1>9 DEF AppendEnd, Writers
  <2>1. queue' = job[c].copy /\ content' = content /\ job' = [job EXCEPT ![c] = Idle]
    BY <1>0, <1>9, <2>0, WritesCopy DEF AppendEnd
  <2>2. \A d \in Clients : d # c => job'[d] = job[d]
    BY <1>0, <2>1
  <2>3. Referenced(queue) \cup {job[c].sum} \subseteq Referenced(queue)'
    <3>1. Referenced(queue)' = Referenced(job[c].copy)
      BY <2>1 DEF Referenced
    <3> QED BY <1>0, <1>9, <3>1 DEF AppendEnd, RewriteInv, RewriteOK
  <2>4. NoOrphanContent'
    BY <1>0, <2>1, <2>2, <2>3 DEF NoOrphanContent, Quiet, InFlight, Owed
  <2>5. c \in Writers /\ Idle.pc \notin Writing
    BY <1>9 DEF AppendEnd, Writers, Writing, Idle
  <2>6. RewriteInv'
    BY <1>0, <2>1, <2>5, RewriteEnds
  <2> QED BY <2>4, <2>6 DEF OrphanInv
<1>10. CASE AppendFails(c)
  BY <1>10, <1>f, DebtPaid DEF AppendFails
<1> QED
  BY <1>1, <1>2, <1>3, <1>4, <1>5, <1>6, <1>7, <1>8, <1>9, <1>10 DEF Stage

LEMMA OrphanProcessNext ==
    ASSUME TypeOK, OrphanInv, Quiet, Quiet', NEW c \in Clients, ProcessNext(c)
    PROVE  OrphanInv'
<1> USE DEF fsVars, storeVars, histVars
<1>0. /\ job \in [Clients -> Jobs] /\ queue \in Seq(Ops) /\ faults \in Nat
      /\ NoOrphanContent /\ RewriteInv /\ faults = 0 /\ faults' = 0
  BY DEF TypeOK, OrphanInv, Quiet
<1>f. ~Fault
  BY <1>0 DEF Fault
<1>1. CASE Peek(c)
  <2>1. \A d \in Clients : Owed(d) => Owed(d)' /\ job'[d].sum = job[d].sum
    BY <1>0, <1>1 DEF Peek, Owed, Idle
  <2>2. RewriteInv'
    BY <1>0, <1>1, RewriteElsewhere DEF Peek, Writing
  <2> QED BY <1>0, <1>1, <2>1, <2>2, DebtKept DEF Peek, OrphanInv
<1>2. CASE BackupSucceeds(c)
  <2> DEFINE j == [job[c] EXCEPT !.pc = "backed"]
  <2>1. job[c] \in [pc : {"peeked"}, op : Ops]
    BY <1>0, <1>2 DEF BackupSucceeds, Jobs
  <2>2. j.pc = "backed" /\ job' = [job EXCEPT ![c] = j]
    BY <1>2, <2>1 DEF BackupSucceeds
  <2>3. \A d \in Clients : Owed(d) => Owed(d)' /\ job'[d].sum = job[d].sum
    BY <1>0, <2>1, <2>2 DEF Owed
  <2>4. RewriteInv'
    BY <1>0, <1>2, <2>2, RewriteElsewhere DEF BackupSucceeds, Writing
  <2> QED BY <1>0, <1>2, <2>3, <2>4, DebtKept DEF BackupSucceeds, OrphanInv
<1>3. CASE BackupFails(c)
  BY <1>3, <1>f DEF BackupFails
<1>4. CASE PopBegin(c)
  <2> DEFINE q == Pop(job[c].op)
             j == [pc |-> "popping", op |-> job[c].op, copy |-> q]
  <2>1. job[c].op \in Ops
    BY <1>0, <1>4 DEF PopBegin, Jobs
  <2>2. Referenced(queue) \ {job[c].op.sum} \subseteq Referenced(q)
    BY <1>0, <2>1, PopElements
  <2>3. job' = [job EXCEPT ![c] = j] /\ UNCHANGED <<content, queue>> /\ BeginRewrite
    BY <1>4 DEF PopBegin
  <2> HIDE DEF q
  <2>4. job'[c] = j /\ \A d \in Clients : d # c => job'[d] = job[d]
    BY <1>0, <2>3
  <2>5. RewriteOK(c)'
    BY <2>2, <2>3, <2>4 DEF RewriteOK, Referenced
  <2>6. \A d \in Clients : Owed(d) => Owed(d)' /\ job'[d].sum = job[d].sum
    BY <1>4, <2>4 DEF PopBegin, Owed
  <2>7. RewriteInv'
    BY <1>0, <2>3, <2>5, RewriteBegins
  <2> QED BY <1>0, <2>3, <2>6, <2>7, DebtKept DEF OrphanInv
<1>5. CASE PopEnd(c)
  <2> DEFINE sum == job[c].op.sum
             needed == StillNeeded(job[c].copy, sum)
             j == [pc |-> "popped", sum |-> sum, needed |-> needed]
  <2>0. c \in Writers
    BY <1>5 DEF PopEnd, Writers
  <2>1. /\ job' = [job EXCEPT ![c] = j] /\ queue' = job[c].copy /\ content' = content
        /\ job[c].pc = "popping"
    BY <1>0, <1>5, <2>0, WritesCopy DEF PopEnd
  <2>2. needed <=> sum \in Referenced(queue)'
    BY <2>1 DEF StillNeeded, Referenced
  <2>3. Referenced(queue) \ {sum} \subseteq Referenced(queue)'
    BY <1>0, <2>1 DEF RewriteInv, RewriteOK, Referenced
  <2> HIDE DEF needed
  <2>4. job'[c] = j /\ \A d \in Clients : d # c => job'[d] = job[d]
    BY <1>0, <2>1
  <2>5. sum \in Referenced(queue)' \cup InFlight'
    <3>1. CASE needed
      BY <2>2, <3>1
    <3>2. CASE ~needed
      BY <2>4, <3>2 DEF InFlight, Owed
    <3> QED BY <3>1, <3>2
  <2>6. InFlight \subseteq InFlight'
    BY <2>1, <2>4 DEF InFlight, Owed
  <2>7. NoOrphanContent'
    BY <1>0, <2>1, <2>3, <2>5, <2>6 DEF NoOrphanContent, Quiet
  <2>8. c \in Writers /\ j.pc \notin Writing
    BY <2>1 DEF Writers, Writing
  <2>9. RewriteInv'
    BY <1>0, <2>1, <2>8, RewriteEnds
  <2> QED BY <2>7, <2>9 DEF OrphanInv
<1>6. CASE Commit(c)
  <2>1. /\ job' = [job EXCEPT ![c] = Idle] /\ queue' = queue
        /\ content' = (IF job[c].needed THEN content ELSE content \ {job[c].sum})
        /\ job[c].pc = "popped"
    BY <1>6 DEF Commit
  <2>2. \A d \in Clients : d # c => job'[d] = job[d]
    BY <1>0, <2>1
  <2>3. ASSUME NEW s \in content' PROVE s \in Referenced(queue)' \cup InFlight'
    <3>1. s \in content /\ (Owed(c) => s # job[c].sum)
      BY <2>1 DEF Owed
    <3> QED BY <1>0, <2>1, <2>2, <3>1 DEF NoOrphanContent, InFlight, Referenced, Quiet, Owed
  <2>4. RewriteInv'
    BY <1>0, <2>1, RewriteElsewhere DEF Writing, Idle
  <2> QED BY <2>3, <2>4 DEF OrphanInv, NoOrphanContent
<1>7. CASE PopFails(c)
  <2>1. /\ job[c].pc = "backed" /\ job' = [job EXCEPT ![c] = Idle]
        /\ UNCHANGED <<content, queue>>
    BY <1>7, <1>f DEF PopFails
  <2>2. \A d \in Clients : Owed(d) => Owed(d)' /\ job'[d].sum = job[d].sum
    BY <1>0, <2>1 DEF Owed
  <2>3. RewriteInv'
    BY <1>0, <2>1, RewriteElsewhere DEF Writing, Idle
  <2> QED BY <1>0, <2>1, <2>2, <2>3, DebtKept DEF OrphanInv
<1> QED
  BY <1>1, <1>2, <1>3, <1>4, <1>5, <1>6, <1>7 DEF ProcessNext

\* Every step preserves the invariant.
LEMMA OrphanNext == TypeOK /\ OrphanInv /\ [Next]_vars => OrphanInv'
<1> SUFFICES ASSUME TypeOK, OrphanInv, [Next]_vars PROVE OrphanInv'
  OBVIOUS
<1> USE DEF fsVars, storeVars, histVars
<1>1. ASSUME ~Quiet' PROVE OrphanInv'
  BY <1>1 DEF OrphanInv, NoOrphanContent, RewriteInv, Quiet
<1>2. ASSUME Quiet' PROVE OrphanInv'
  <2>0. Quiet /\ NoOrphanContent /\ RewriteInv
    BY <1>2, QuietBefore DEF OrphanInv
  <2>1. ASSUME NEW c \in Clients, Stage(c) \/ ProcessNext(c) PROVE OrphanInv'
    BY <1>2, <2>0, <2>1, OrphanStage, OrphanProcessNext
  <2>2. ASSUME UNCHANGED <<content, queue, job>> PROVE OrphanInv'
    <3>1. RewriteInv'
      <4>1. \A c \in Clients : RewriteOK(c)'
        BY <2>0, <2>2, RewriteSame DEF RewriteInv
      <4> QED BY <2>0, <2>2, <4>1 DEF RewriteInv, Writers
    <3>2. NoOrphanContent'
      BY <2>0, <2>2 DEF NoOrphanContent, Quiet, InFlight, Owed, Referenced
    <3> QED BY <3>1, <3>2 DEF OrphanInv
  <2>3. ASSUME NEW f \in Files, Delete(f) \/ \E d \in Data : Change(f, d) PROVE OrphanInv'
    BY <2>2, <2>3 DEF Delete, Change
  <2>4. ASSUME NEW p, Crash(p) PROVE OrphanInv'
    BY <1>2, <2>0, <2>4 DEF Crash, Fault, Quiet
  <2>5. CASE UNCHANGED vars
    BY <2>2, <2>5 DEF vars
  <2> QED BY <2>1, <2>3, <2>4, <2>5 DEF Next
<1> QED BY <1>1, <1>2

\* Without faults nothing stays behind in the content directory, however many
\* goroutines share the staging area, of one process or of several that do not
\* rewrite queue.json at once.
THEOREM NoOrphans == Spec => []NoOrphanContent
<1>1. TypeOK /\ OrphanInv /\ [Next]_vars => (TypeOK /\ OrphanInv)'
  BY TypeNext, OrphanNext
<1>2. OrphanInv => NoOrphanContent
  BY DEF OrphanInv
<1> QED BY <1>1, <1>2, TypeInit, OrphanInit, PTL DEF Spec
=============================================================================

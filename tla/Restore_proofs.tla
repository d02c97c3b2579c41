--------------------------- MODULE Restore_proofs ---------------------------
(***************************************************************************)
(* Proofs about module Restore, for any files, listing, content length and *)
(* bounds. Inv is the inductive invariant: besides the types it says, for  *)
(* each program counter, what is known of the output file being written.   *)
(***************************************************************************)
EXTENDS Restore, SequenceTheorems, TLAPS

\* The command has created the output file of the head of its request.
Writing == cmd.pc \in {"lookup", "copy", "decrypt", "close", "wait", "attributes"}

\* The pipe carries what the output file holds.
PipeInStep == cmd.pc = "decrypt" /\ fetch.pc = "send" => fetch.sent = out[File]

\* The file being written is not one reported before, and it is complete once
\* decrypting or copying succeeded.
FileInHand ==
    /\ Writing => File \notin reported /\ out[File] # Absent
    /\ cmd.pc = "lookup" => out[File] = 0
    /\ cmd.pc \in {"close", "wait"} /\ cmd.ok => out[File] = Chunks
    /\ cmd.pc = "attributes" => out[File] = Chunks

\* As long as nothing faulted, only the file being written can be partial.
OthersWhole ==
    faults = 0 => \A f \in Files :
        out[f] \in {Absent, Chunks} \/ (Writing /\ f = File)

FetchOnlyWhenDecrypting == NoLeak /\ (cmd.pc = "decrypt" => fetch.pc # "none")

Inv ==
    /\ TypeOK /\ PipeInStep /\ FileInHand /\ OthersWhole
    /\ ReportedComplete /\ FetchOnlyWhenDecrypting

\* The head and the tail of a request.
LEMMA RequestHead ==
    ASSUME NEW todo \in Requests
    PROVE  /\ Head(todo) \in Files
           /\ Len(todo) # 1 => Tail(todo) \in Requests
<1>1. todo \in Seq(Files) /\ todo # << >>
    BY DEF Requests
<1>2. /\ Head(todo) \in Files
      /\ Tail(todo) \in Seq(Files)
      /\ Len(Tail(todo)) = Len(todo) - 1
    BY <1>1, HeadTailProperties
<1>3. Len(todo) # 1 => Len(Tail(todo)) # 0
    BY <1>1, <1>2, LenProperties
<1>4. Len(todo) # 1 => Tail(todo) # << >>
    BY <1>3
<1> QED
    BY <1>2, <1>4 DEF Requests

\* A request for one file is not empty.
LEMMA OneFile == ASSUME NEW f \in Files PROVE <<f>> \in Requests
BY DEF Requests

\* Inv holds initially: nothing was restored yet.
LEMMA InvInit == Init => Inv
<1> SUFFICES ASSUME Init PROVE Inv
    OBVIOUS
<1> USE RestoreAssumption DEF Init, Absent, Idle, NoFetch
<1>1. TypeOK
    <2>1. -1 \in -1..Chunks /\ 0 \in 0..MaxCommands /\ 0 \in 0..MaxFaults
        OBVIOUS
    <2>2. cmd \in Commands /\ fetch \in Fetches
        BY DEF Commands, Fetches
    <2> QED
        BY <2>1, <2>2 DEF TypeOK
<1>2. PipeInStep /\ FileInHand /\ OthersWhole
    BY DEF PipeInStep, FileInHand, OthersWhole, Writing
<1>3. ReportedComplete /\ FetchOnlyWhenDecrypting
    BY DEF ReportedComplete, FetchOnlyWhenDecrypting, NoLeak
<1> QED
    BY <1>1, <1>2, <1>3 DEF Inv

-----------------------------------------------------------------------------
(* The steps, grouped as in the module.                                    *)

\* Whenever the command works on a file, that file is one of Files.
LEMMA FileKnown ==
    ASSUME TypeOK, cmd # Idle
    PROVE  /\ cmd.todo \in Requests /\ cmd.key \in BOOLEAN
           /\ File \in Files /\ out[File] \in Absent..Chunks
<1>1. cmd.todo \in Requests /\ cmd.key \in BOOLEAN
    BY DEF TypeOK, Commands, Idle
<1>2. File \in Files
    BY <1>1, RequestHead DEF File
<1> QED
    BY <1>1, <1>2 DEF TypeOK

\* A command that gives up on the file in its hands, removing it or not.
LEMMA InvRemove ==
    ASSUME Inv, Writing, RemoveOutput, cmd' = Idle, fetch' = NoFetch,
           UNCHANGED <<readerClosed, commands, reported>>
    PROVE  Inv'
<1> USE RestoreAssumption DEF Inv, Absent
<1>1. File \in Files /\ out[File] \in Absent..Chunks /\ cmd # Idle
    BY FileKnown DEF Writing, Idle
<1>2. /\ out' \in [Files -> Absent..Chunks]
      /\ \A f \in Files : f # File => out'[f] = out[f]
      /\ faults' \in 0..MaxFaults
      /\ faults' = 0 => faults = 0 /\ out'[File] = Absent
    BY <1>1 DEF RemoveOutput, Fault, TypeOK
<1>3. TypeOK'
    BY <1>2 DEF TypeOK, Commands, Fetches, Idle, NoFetch
<1>4. PipeInStep' /\ FileInHand' /\ FetchOnlyWhenDecrypting'
    BY DEF PipeInStep, FileInHand, FetchOnlyWhenDecrypting, NoLeak, Writing, Idle, NoFetch
<1>5. OthersWhole'
    BY <1>2 DEF OthersWhole
<1>6. ReportedComplete'
    BY <1>2 DEF ReportedComplete, FileInHand, TypeOK
<1> QED
    BY <1>3, <1>4, <1>5, <1>6

\* Inv is kept by a command that goes on.
LEMMA InvCommand == Inv /\ (Command) => Inv'
<1> SUFFICES ASSUME Inv, Command PROVE Inv'
    OBVIOUS
<1> USE RestoreAssumption DEF Inv, TypeOK, Commands, Fetches, At, PipeInStep, FileInHand, OthersWhole,
    ReportedComplete, FetchOnlyWhenDecrypting, NoLeak, Writing, Absent, Idle,
    NoFetch, File
<1>1. CASE Create
    BY <1>1, FileKnown DEF Create
<1>2. CASE OutputExists
    BY <1>2, FileKnown DEF OutputExists
<1>3. CASE FindContent /\ File \in Sealed
    <2>1. TypeOK'
        <3>1. cmd' \in Commands
            BY <1>3, FileKnown DEF FindContent
        <3>2. fetch' \in Fetches
            BY <1>3 DEF FindContent
        <3>3. readerClosed' \in BOOLEAN
            BY <1>3 DEF FindContent
        <3> QED
            BY <1>3, <3>1, <3>2, <3>3 DEF FindContent
    <2>2. PipeInStep' /\ FileInHand'
        BY <1>3, FileKnown DEF FindContent
    <2>3. OthersWhole'
        BY <1>3, FileKnown DEF FindContent
    <2>4. ReportedComplete' /\ FetchOnlyWhenDecrypting'
        BY <1>3, FileKnown DEF FindContent
    <2> QED
        BY <2>1, <2>2, <2>3, <2>4
<1>4. CASE FindContent /\ File \notin Sealed
    <2>1. TypeOK'
        <3>1. cmd' \in Commands
            BY <1>4, FileKnown DEF FindContent
        <3>2. fetch' \in Fetches
            BY <1>4 DEF FindContent
        <3>3. readerClosed' \in BOOLEAN
            BY <1>4 DEF FindContent
        <3> QED
            BY <1>4, <3>1, <3>2, <3>3 DEF FindContent
    <2>2. PipeInStep' /\ FileInHand'
        BY <1>4, FileKnown DEF FindContent
    <2>3. OthersWhole'
        BY <1>4, FileKnown DEF FindContent
    <2>4. ReportedComplete' /\ FetchOnlyWhenDecrypting'
        BY <1>4, FileKnown DEF FindContent
    <2> QED
        BY <2>1, <2>2, <2>3, <2>4
<1>5. CASE NoDecryptionContext
    BY <1>5, InvRemove DEF NoDecryptionContext, Abandon
<1>6. CASE Copy /\ out[File] < Chunks
    <2>1. TypeOK'
        BY <1>6, FileKnown DEF Copy
    <2>2. PipeInStep' /\ FileInHand'
        BY <1>6, FileKnown DEF Copy
    <2>3. OthersWhole'
        BY <1>6, FileKnown DEF Copy
    <2>4. ReportedComplete' /\ FetchOnlyWhenDecrypting'
        BY <1>6, FileKnown DEF Copy
    <2> QED
        BY <2>1, <2>2, <2>3, <2>4
<1>7. CASE Copy /\ ~(out[File] < Chunks)
    <2>1. TypeOK'
        BY <1>7, FileKnown DEF Copy
    <2>2. PipeInStep' /\ FileInHand'
        BY <1>7, FileKnown DEF Copy
    <2>3. OthersWhole'
        BY <1>7, FileKnown DEF Copy
    <2>4. ReportedComplete' /\ FetchOnlyWhenDecrypting'
        BY <1>7, FileKnown DEF Copy
    <2> QED
        BY <2>1, <2>2, <2>3, <2>4
<1>8. CASE Transfer
    BY <1>8, FileKnown DEF Transfer
<1>9. CASE DecryptEnds
    BY <1>9, FileKnown DEF DecryptEnds, DecryptReturns
<1>10. CASE CloseReader
    BY <1>10, FileKnown DEF CloseReader
<1>11. CASE Wait /\ cmd.ok
    BY <1>11, FileKnown DEF Wait, AfterWait
<1>12. CASE Wait /\ ~cmd.ok
    BY <1>12, InvRemove DEF Wait, AfterWait
<1>13. CASE Attributes
    BY <1>13, FileKnown, RequestHead DEF Attributes
<1> QED
    BY <1>1, <1>2, <1>3, <1>4, <1>5, <1>6, <1>7, <1>8, <1>9, <1>10, <1>11, <1>12, <1>13 DEF Command

\* Inv is kept by a command that fails.
LEMMA InvCommandFails == Inv /\ (CommandFails) => Inv'
<1> SUFFICES ASSUME Inv, CommandFails PROVE Inv'
    OBVIOUS
<1> USE RestoreAssumption DEF Inv, TypeOK, Commands, Fetches, At, PipeInStep, FileInHand, OthersWhole,
    ReportedComplete, FetchOnlyWhenDecrypting, NoLeak, Writing, Absent, Idle,
    NoFetch, File
<1>1. CASE CreateFails
    BY <1>1, FileKnown DEF CreateFails
<1>2. CASE FindContentFails
    BY <1>2, InvRemove DEF FindContentFails, Abandon
<1>3. CASE CopyFails
    BY <1>3, InvRemove DEF CopyFails, Abandon
<1>4. CASE DecryptFails
    BY <1>4, FileKnown DEF DecryptFails, DecryptReturns
<1>5. CASE AttributesFail
    BY <1>5, FileKnown DEF AttributesFail
<1> QED
    BY <1>1, <1>2, <1>3, <1>4, <1>5 DEF CommandFails

\* Inv is kept by the goroutine.
LEMMA InvFetch == Inv /\ (FetchEnds \/ FetchFails \/ Signal) => Inv'
<1> SUFFICES ASSUME Inv, FetchEnds \/ FetchFails \/ Signal PROVE Inv'
    OBVIOUS
<1> USE RestoreAssumption DEF Inv, TypeOK, Commands, Fetches, At, PipeInStep, FileInHand, OthersWhole,
    ReportedComplete, FetchOnlyWhenDecrypting, NoLeak, Writing, Absent, Idle,
    NoFetch, File
<1>1. CASE FetchEnds
    BY <1>1 DEF FetchEnds, FetchReturns
<1>2. CASE FetchFails
    BY <1>2 DEF FetchFails, FetchReturns
<1>3. CASE Signal
    BY <1>3 DEF Signal
<1> QED
    BY <1>1, <1>2, <1>3 DEF Signal

\* Inv is kept by a new request, a kill and the user.
LEMMA InvEnvironment ==
    ASSUME Inv,
           \/ \E todo \in {<<f>> : f \in Files} \cup {Listing}, key \in BOOLEAN :
                 Request(todo, key)
           \/ Kill
           \/ \E f \in Files : TakeAway(f)
    PROVE  Inv'
<1> USE RestoreAssumption DEF Inv, TypeOK, Commands, Fetches, At, PipeInStep, FileInHand,
    OthersWhole, ReportedComplete, FetchOnlyWhenDecrypting, NoLeak, Writing,
    Absent, Idle, NoFetch, File
<1>1. ASSUME NEW todo \in {<<f>> : f \in Files} \cup {Listing}, NEW key \in BOOLEAN,
             Request(todo, key)
      PROVE  Inv'
    <2>1. todo \in Requests
        <3>1. CASE todo = Listing
            BY <1>1, <3>1 DEF Request, Requests
        <3>2. CASE \E f \in Files : todo = <<f>>
            BY <3>2, OneFile
        <3> QED
            BY <1>1, <3>1, <3>2
    <2> QED
        BY <1>1, <2>1 DEF Request
<1>2. CASE Kill
    BY <1>2, FileKnown DEF Kill, Fault
<1>3. ASSUME NEW f \in Files, TakeAway(f) PROVE Inv'
    BY <1>3 DEF TakeAway
<1> QED
    BY <1>1, <1>2, <1>3

\* Inv is inductive.
LEMMA InvNext == Inv /\ [Next]_vars => Inv'
<1> SUFFICES ASSUME Inv, [Next]_vars PROVE Inv'
    OBVIOUS
<1>1. CASE Command
    BY <1>1, InvCommand
<1>2. CASE CommandFails
    BY <1>2, InvCommandFails
<1>3. CASE FetchEnds \/ FetchFails \/ Signal
    BY <1>3, InvFetch
<1>4. CASE UNCHANGED vars
    BY <1>4 DEF vars, Inv, TypeOK, PipeInStep, FileInHand, OthersWhole, ReportedComplete,
        FetchOnlyWhenDecrypting, NoLeak, Writing, File
<1> QED
    BY <1>1, <1>2, <1>3, <1>4, InvEnvironment DEF Next

-----------------------------------------------------------------------------
(* Results                                                                 *)

\* Inv in every reachable state.
LEMMA InvAlways == Spec => []Inv
BY InvInit, InvNext, PTL DEF Spec

\* The variables have their types (restore.go as a whole).
THEOREM RestoreTypeCorrect == Spec => []TypeOK
<1>1. Inv => TypeOK
    BY DEF Inv
<1> QED
    BY <1>1, InvAlways, PTL

\* A file reported as restored is complete and stays so (restoreOneFile).
THEOREM ReportsAreComplete == Spec => []ReportedComplete
<1>1. Inv => ReportedComplete
    BY DEF Inv
<1> QED
    BY <1>1, InvAlways, PTL

\* A restore that fails without being killed leaves no part of a file
\* (the removals in restoreOneFile).
THEOREM NothingPartial == Spec => []NoPartialOutput
<1>1. Inv => NoPartialOutput
    <2>1. cmd = Idle => ~Writing
        BY DEF Writing, Idle
    <2> QED
        BY <2>1 DEF Inv, OthersWhole, NoPartialOutput
<1> QED
    BY <1>1, InvAlways, PTL

\* The goroutine of an encrypted restore never outlives it (restoreOneFile).
THEOREM FetchDoesNotLeak == Spec => []NoLeak
<1>1. Inv => NoLeak
    BY DEF Inv, FetchOnlyWhenDecrypting
<1> QED
    BY <1>1, InvAlways, PTL
=============================================================================

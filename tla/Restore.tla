------------------------------- MODULE Restore -------------------------------
(***************************************************************************)
(* bt restore (src/internal/bt/restore.go): the files of a request are     *)
(* written one after the other, each to a new file next to the original. A *)
(* plain content is copied from the vault by the command itself. For an    *)
(* encrypted one a goroutine fetches the ciphertext into an io.Pipe and    *)
(* the command decrypts what it reads from there.                          *)
(*                                                                         *)
(* A pipe has no buffer: a write returns once the reader took it or closed *)
(* its end, a read once the writer wrote or closed its end.                *)
(*                                                                         *)
(* Data: every content is Chunks chunks long; an output file is the number *)
(* of chunks it holds. Decryption authenticates: on a ciphertext that ends *)
(* early it fails, and it reads up to the end of its input (age).          *)
(***************************************************************************)
EXTENDS Integers, Sequences

CONSTANTS
    Files,       \* output files, one per snapshot that can be restored
    Sealed,      \* those whose content is encrypted
    Listing,     \* the files of the tracked directory, in database order
    Chunks,      \* length of a content
    MaxCommands, \* bound: restore commands
    MaxFaults    \* bound: kills, and removals that fail

ASSUME RestoreAssumption ==
    /\ Sealed \subseteq Files
    /\ Listing \in Seq(Files)
    /\ Chunks \in Nat \ {0} /\ MaxCommands \in Nat /\ MaxFaults \in Nat

VARIABLES
    out,      \* chunks in each output file
    cmd,      \* the restore command
    fetch,    \* the goroutine, and its end of the pipe
    readerClosed, \* the command closed its end of the pipe
    commands, faults,
    reported  \* history: files restoreOneFile returned without error

vars == <<out, cmd, fetch, readerClosed, commands, faults, reported>>

Absent == -1
Requests == Seq(Files) \ {<< >>}
Commands ==
    [pc : {"idle"}]
    \cup [pc : {"create", "lookup", "copy", "decrypt", "attributes"},
          todo : Requests, key : BOOLEAN]
    \cup [pc : {"close", "wait"}, todo : Requests, key : BOOLEAN, ok : BOOLEAN]
Fetches ==
    [pc : {"none"}] \cup [pc : {"send"}, sent : 0..Chunks]
    \cup [pc : {"signal", "done"}, end : {"eof", "error"}]
Idle == [pc |-> "idle"]
NoFetch == [pc |-> "none"]

Init ==
    /\ out = [f \in Files |-> Absent]
    /\ cmd = Idle /\ fetch = NoFetch /\ readerClosed = FALSE
    /\ commands = 0 /\ faults = 0 /\ reported = {}

Fault == faults < MaxFaults /\ faults' = faults + 1
File == Head(cmd.todo)
At(pc) == [pc |-> pc, todo |-> cmd.todo, key |-> cmd.key]

\* The output file is removed; os.Remove's error is ignored.
RemoveOutput_Not == UNCHANGED <<out, faults>>
RemoveOutput ==
    \/ out' = [out EXCEPT ![File] = Absent] /\ UNCHANGED faults
    \/ Fault /\ UNCHANGED out

-----------------------------------------------------------------------------
(* The command                                                             *)

\* A file or the tracked directory, with a decryption context or without.
Request(todo, key) ==
    /\ cmd = Idle
    /\ commands < MaxCommands
    /\ todo # << >>
    /\ commands' = commands + 1
    /\ cmd' = [pc |-> "create", todo |-> todo, key |-> key]
    /\ UNCHANGED <<out, fetch, readerClosed, faults, reported>>

\* Stat finds no output file, and an empty one is created.
Create_Over ==
    /\ cmd.pc = "create"
    /\ out' = [out EXCEPT ![File] = 0]
    /\ cmd' = At("lookup")
    /\ UNCHANGED <<fetch, readerClosed, commands, faults, reported>>
Create ==
    /\ cmd.pc = "create"
    /\ out[File] = Absent
    /\ out' = [out EXCEPT ![File] = 0]
    /\ cmd' = At("lookup")
    /\ UNCHANGED <<fetch, readerClosed, commands, faults, reported>>

OutputExists ==
    /\ cmd.pc = "create"
    /\ out[File] # Absent
    /\ cmd' = Idle
    /\ UNCHANGED <<out, fetch, readerClosed, commands, faults, reported>>

\* The parent directory or the file cannot be created.
CreateFails ==
    /\ cmd.pc = "create"
    /\ cmd' = Idle
    /\ UNCHANGED <<out, fetch, readerClosed, commands, faults, reported>>

\* The content row tells whether to decrypt; the goroutine is started.
FindContent ==
    /\ cmd.pc = "lookup"
    /\ File \in Sealed => cmd.key
    /\ IF File \in Sealed
       THEN /\ cmd' = At("decrypt")
            /\ fetch' = [pc |-> "send", sent |-> 0]
       ELSE /\ cmd' = At("copy")
            /\ UNCHANGED fetch
    /\ readerClosed' = FALSE
    /\ UNCHANGED <<out, commands, faults, reported>>

\* RemoveOutput and return an error, from any place.
Abandon(pc) ==
    /\ cmd.pc = pc
    /\ RemoveOutput
    /\ cmd' = Idle
    /\ UNCHANGED <<fetch, readerClosed, commands, reported>>

NoDecryptionContext == Abandon("lookup") /\ File \in Sealed /\ ~cmd.key

\* No content row, or a failing query.
FindContentFails == Abandon("lookup")

\* GetContent into the output file.
Copy ==
    /\ cmd.pc = "copy"
    /\ IF out[File] < Chunks
       THEN out' = [out EXCEPT ![File] = @ + 1] /\ UNCHANGED cmd
       ELSE cmd' = At("attributes") /\ UNCHANGED out
    /\ UNCHANGED <<fetch, readerClosed, commands, faults, reported>>

CopyFails == Abandon("copy")

\* Decrypt takes one chunk from the pipe: both ends go on.
Transfer ==
    /\ cmd.pc = "decrypt"
    /\ fetch.pc = "send" /\ fetch.sent < Chunks
    /\ fetch' = [pc |-> "send", sent |-> fetch.sent + 1]
    /\ out' = [out EXCEPT ![File] = @ + 1]
    /\ UNCHANGED <<cmd, readerClosed, commands, faults, reported>>

\* Decrypt returns when the writer has closed its end: without error when
\* it read the whole ciphertext.
DecryptReturns(ok) ==
    /\ cmd.pc = "decrypt"
    /\ cmd' = [pc |-> "close", todo |-> cmd.todo, key |-> cmd.key, ok |-> ok]
    /\ UNCHANGED <<out, fetch, readerClosed, commands, faults, reported>>
DecryptEnds ==
    /\ fetch.pc \in {"signal", "done"}
    /\ DecryptReturns(fetch.end = "eof" /\ out[File] = Chunks)

\* A wrong key, a damaged ciphertext, or the output cannot be written.
DecryptFails == DecryptReturns(FALSE)

\* pr.CloseWithError
CloseReader_Not ==
    /\ cmd.pc = "close"
    /\ cmd' = [cmd EXCEPT !.pc = "wait"]
    /\ UNCHANGED <<out, fetch, readerClosed, commands, faults, reported>>
CloseReader ==
    /\ cmd.pc = "close"
    /\ readerClosed' = TRUE
    /\ cmd' = [cmd EXCEPT !.pc = "wait"]
    /\ UNCHANGED <<out, fetch, commands, faults, reported>>

\* <-vaultErrCh, then the error of Decrypt decides; the fetch's is dropped.
AfterWait ==
    IF cmd.ok
    THEN /\ cmd' = At("attributes")
         /\ UNCHANGED <<out, faults>>
    ELSE RemoveOutput /\ cmd' = Idle
Wait_Not ==
    /\ cmd.pc = "wait"
    /\ AfterWait
    /\ UNCHANGED <<fetch, readerClosed, commands, reported>>
Wait ==
    /\ cmd.pc = "wait"
    /\ fetch.pc = "done"
    /\ fetch' = NoFetch
    /\ AfterWait
    /\ UNCHANGED <<readerClosed, commands, reported>>

\* Chmod and Chtimes; then the next file of the request.
Attributes_On ==
    /\ cmd.pc = "attributes"
    /\ reported' = reported \cup {File}
    /\ cmd' = [pc |-> "create", todo |-> Tail(cmd.todo), key |-> cmd.key]
    /\ UNCHANGED <<out, fetch, readerClosed, commands, faults>>
Attributes ==
    /\ cmd.pc = "attributes"
    /\ reported' = reported \cup {File}
    /\ cmd' = IF Len(cmd.todo) = 1 THEN Idle
              ELSE [pc |-> "create", todo |-> Tail(cmd.todo), key |-> cmd.key]
    /\ UNCHANGED <<out, fetch, readerClosed, commands, faults>>

\* An error here leaves the output file.
AttributesFail ==
    /\ cmd.pc = "attributes"
    /\ cmd' = Idle
    /\ UNCHANGED <<out, fetch, readerClosed, commands, faults, reported>>

Command ==
    \/ Create \/ OutputExists \/ FindContent \/ NoDecryptionContext \/ Copy
    \/ Transfer \/ DecryptEnds \/ CloseReader \/ Wait \/ Attributes

CommandFails ==
    CreateFails \/ FindContentFails \/ CopyFails \/ DecryptFails \/ AttributesFail

-----------------------------------------------------------------------------
(* The goroutine                                                           *)

\* GetContent returns, and the goroutine closes its end with the outcome.
FetchReturns(end) ==
    /\ fetch.pc = "send"
    /\ fetch' = [pc |-> "signal", end |-> end]
    /\ UNCHANGED <<out, cmd, readerClosed, commands, faults, reported>>

\* Everything was written, or a write finds the pipe closed.
FetchEnds ==
    \/ fetch.pc = "send" /\ fetch.sent = Chunks /\ FetchReturns("eof")
    \/ fetch.pc = "send" /\ fetch.sent < Chunks /\ readerClosed /\ FetchReturns("error")

\* The vault fails.
FetchFails == FetchReturns("error")

\* The channel has room for the one value ever sent.
Signal ==
    /\ fetch.pc = "signal"
    /\ fetch' = [pc |-> "done", end |-> fetch.end]
    /\ UNCHANGED <<out, cmd, readerClosed, commands, faults, reported>>

-----------------------------------------------------------------------------
\* The process is killed; the goroutine with it.
Kill ==
    /\ cmd # Idle
    /\ Fault
    /\ cmd' = Idle /\ fetch' = NoFetch
    /\ UNCHANGED <<out, readerClosed, commands, reported>>

\* The user moves an output file away.
TakeAway(f) ==
    /\ cmd = Idle
    /\ out[f] # Absent
    /\ out' = [out EXCEPT ![f] = Absent]
    /\ reported' = reported \ {f}
    /\ UNCHANGED <<cmd, fetch, readerClosed, commands, faults>>

Next ==
    \/ \E todo \in {<<f>> : f \in Files} \cup {Listing}, key \in BOOLEAN : Request(todo, key)
    \/ Command \/ CommandFails
    \/ FetchEnds \/ FetchFails \/ Signal
    \/ Kill
    \/ \E f \in Files : TakeAway(f)

Spec == Init /\ [][Next]_vars

\* Both goroutines are scheduled. No call is counted on to fail.
FairSpec == Spec /\ WF_vars(Command) /\ WF_vars(FetchEnds) /\ WF_vars(Signal)

-----------------------------------------------------------------------------
(* Properties                                                              *)

\* The types of the variables; an output never holds more than the whole content.
TypeOK ==
    /\ out \in [Files -> Absent..Chunks]
    /\ cmd \in Commands
    /\ fetch \in Fetches
    /\ readerClosed \in BOOLEAN
    /\ commands \in 0..MaxCommands /\ faults \in 0..MaxFaults
    /\ reported \subseteq Files

\* A file reported as restored is complete, and no later restore, however it
\* fails, shortens or removes it.
ReportedComplete == \A f \in reported : out[f] = Chunks

\* A restore that fails without being killed leaves no part of a file behind
\* (one would make every later restore of the file fail).
NoPartialOutput == faults = 0 /\ cmd = Idle => \A f \in Files : out[f] \in {Absent, Chunks}

\* The goroutine does not outlive the decryption it was started for ("wait
\* for goroutine to finish (no leak)").
NoLeak == cmd.pc \notin {"decrypt", "close", "wait"} => fetch = NoFetch

\* Neither end of the pipe waits for the other for ever ("unblock goroutine
\* if Decrypt failed early"): every restore returns.
RestoreEnds == cmd # Idle ~> cmd = Idle
=============================================================================

-------------------------------- MODULE Keys --------------------------------
(***************************************************************************)
(* The encryption keys of a host: bt config init writes the configuration  *)
(* and generates a key pair (src/cmd/bt/main.go, config.Init, and Setup of *)
(* src/internal/encryption/age.go); every command that changes the         *)
(* database encrypts with the public key what it uploads, and uploads both *)
(* key files (Close in src/internal/app/app.go).                           *)
(*                                                                         *)
(* Granularity: os.WriteFile and os.OpenFile(O_TRUNC) leave a file empty   *)
(* before it is written, so a file is written in two actions, with a kill  *)
(* possible between any two. One command runs at a time.                   *)
(*                                                                         *)
(* Data: a key pair is a number, fresh at every Setup, and so is a host ID;*)
(* a ciphertext is the number of the key it was made with. The two objects *)
(* of a PutMetadata are written as one: nothing reads a key's version.     *)
(***************************************************************************)
EXTENDS Naturals

CONSTANTS
    MaxKeys,   \* bound: key pairs ever generated
    MaxHosts,  \* bound: configurations ever written
    MaxFaults, \* bound: failing calls and kills
    None,      \* no file, no object
    Torn,      \* a file that was created and not written
    Plain      \* a copy of the database that is not encrypted

Keys == 1..MaxKeys
Hosts == 1..MaxHosts

ASSUME KeysAssumption ==
    /\ MaxKeys \in Nat /\ MaxHosts \in Nat /\ MaxFaults \in Nat
    /\ None \notin Keys /\ Torn \notin Keys /\ Plain \notin Keys
    /\ None # Torn /\ Plain # None

VARIABLES
    config,   \* the configuration file; "ready" once it names a vault
    host,     \* the host ID in it
    pub, priv, \* the two key files
    nextKey,  \* source of fresh key pairs
    sealed,   \* keys that contents in the vault were encrypted with
    dbCopy,   \* for each host, the database copy in the vault
    keyCopy,  \* for each host, the key files in the vault
    proc,     \* what the running command is doing
    faults,
    cut       \* history: a Setup was stopped half way

fileVars == <<config, host, pub, priv, nextKey>>
vaultVars == <<sealed, dbCopy, keyCopy>>
vars == <<fileVars, vaultVars, proc, faults, cut>>

Init ==
    /\ config = "none" /\ host = 0
    /\ pub = None /\ priv = None /\ nextKey = 1
    /\ sealed = {}
    /\ dbCopy = [h \in Hosts |-> None]
    /\ keyCopy = [h \in Hosts |-> [pub |-> None, priv |-> None]]
    /\ proc = "idle" /\ faults = 0 /\ cut = FALSE

At(from, to) == proc = from /\ proc' = to

\* Both key files exist.
IsConfigured == pub # None /\ priv # None

-----------------------------------------------------------------------------
(* The user                                                                *)

\* A vault is added to the configuration by hand.
EditConfig ==
    /\ proc = "idle" /\ config = "written"
    /\ config' = "ready"
    /\ UNCHANGED <<host, pub, priv, nextKey, vaultVars, proc, faults, cut>>

\* The configuration is removed, the only way to run config init again.
RemoveConfig ==
    /\ proc = "idle" /\ config # "none"
    /\ config' = "none"
    /\ UNCHANGED <<host, pub, priv, nextKey, vaultVars, proc, faults, cut>>

-----------------------------------------------------------------------------
(* bt config init                                                          *)

\* config.Init finds no file and creates one ...
CreateConfig ==
    /\ At("idle", "config")
    /\ config = "none" /\ host < MaxHosts
    /\ config' = "torn"
    /\ UNCHANGED <<host, pub, priv, nextKey, vaultVars, faults, cut>>

\* ... and writes it, with a new host ID.
WriteConfig ==
    /\ At("config", "prompt")
    /\ config' = "written" /\ host' = host + 1
    /\ UNCHANGED <<pub, priv, nextKey, vaultVars, faults, cut>>

\* There are keys already, or the passphrases are empty or do not match.
GiveUp ==
    /\ At("prompt", "idle")
    /\ UNCHANGED <<fileVars, vaultVars, faults, cut>>

\* Setup: a new key pair; the public key file is truncated ...
TruncatePublic_Again ==
    /\ At("prompt", "public")
    /\ nextKey <= MaxKeys
    /\ pub' = Torn
    /\ UNCHANGED <<config, host, priv, nextKey, vaultVars, faults, cut>>
TruncatePublic ==
    /\ At("prompt", "public")
    /\ ~IsConfigured
    /\ nextKey <= MaxKeys
    /\ pub' = Torn
    /\ UNCHANGED <<config, host, priv, nextKey, vaultVars, faults, cut>>

\* ... and written,
WritePublic ==
    /\ At("public", "between")
    /\ pub' = nextKey
    /\ UNCHANGED <<config, host, priv, nextKey, vaultVars, faults, cut>>

\* then the private key file is truncated
TruncatePrivate ==
    /\ At("between", "private")
    /\ priv' = Torn
    /\ UNCHANGED <<config, host, pub, nextKey, vaultVars, faults, cut>>

\* and written, encrypted with the passphrase.
WritePrivate_Other ==
    /\ At("private", "idle")
    /\ \E k \in Keys : priv' = k
    /\ nextKey' = nextKey + 1
    /\ UNCHANGED <<config, host, pub, vaultVars, faults, cut>>
WritePrivate ==
    /\ At("private", "idle")
    /\ priv' = nextKey
    /\ nextKey' = nextKey + 1
    /\ UNCHANGED <<config, host, pub, vaultVars, faults, cut>>

InSetup == proc \in {"public", "between", "private"}

-----------------------------------------------------------------------------
(* A command that changes the database                                     *)

NewBTApp ==
    /\ At("idle", "work")
    /\ config = "ready"
    /\ UNCHANGED <<fileVars, vaultVars, faults, cut>>

\* A content of an encrypted directory is put into the vault: Encrypt reads
\* the public key only.
Encrypt ==
    /\ At("work", "close")
    /\ pub \in Keys
    /\ sealed' = sealed \cup {pub}
    /\ UNCHANGED <<fileVars, dbCopy, keyCopy, faults, cut>>

\* Nothing to encrypt, or no public key to encrypt with.
PlainWork ==
    /\ At("work", "close")
    /\ UNCHANGED <<fileVars, vaultVars, faults, cut>>

\* Where Close goes on once the database was dealt with.
AfterDb == IF IsConfigured THEN "keys" ELSE "idle"

\* Encrypted whenever both key files exist, plain otherwise. (A torn public
\* key would make Encrypt fail; as the public key is written first, there is
\* none when both exist.)
uploadMetadata ==
    /\ At("close", AfterDb)
    /\ dbCopy' = [dbCopy EXCEPT ![host] = IF IsConfigured THEN pub ELSE Plain]
    /\ UNCHANGED <<fileVars, sealed, keyCopy, faults, cut>>

\* Any call of it fails: Close goes on.
uploadMetadataFails ==
    /\ At("close", AfterDb)
    /\ faults < MaxFaults /\ faults' = faults + 1
    /\ UNCHANGED <<fileVars, vaultVars, cut>>

\* uploadKeyMetadata uploads the files as they are, one after the other.
UploadPublicKey ==
    /\ At("keys", "privateKey")
    /\ keyCopy' = [keyCopy EXCEPT ![host].pub = pub]
    /\ UNCHANGED <<fileVars, sealed, dbCopy, faults, cut>>

UploadPrivateKey_Swapped ==
    /\ At("privateKey", "idle")
    /\ keyCopy' = [keyCopy EXCEPT ![host].pub = priv]
    /\ UNCHANGED <<fileVars, sealed, dbCopy, faults, cut>>
UploadPrivateKey ==
    /\ At("privateKey", "idle")
    /\ keyCopy' = [keyCopy EXCEPT ![host].priv = priv]
    /\ UNCHANGED <<fileVars, sealed, dbCopy, faults, cut>>

\* A call fails and ends the command, or the process is killed. A Setup
\* stopped after it generated its pair takes the pair with it.
Stop ==
    /\ proc # "idle" /\ proc' = "idle"
    /\ faults < MaxFaults /\ faults' = faults + 1
    /\ IF InSetup THEN cut' = TRUE /\ nextKey' = nextKey + 1
                  ELSE UNCHANGED <<cut, nextKey>>
    /\ UNCHANGED <<config, host, pub, priv, vaultVars>>

Setup == TruncatePublic \/ WritePublic \/ TruncatePrivate \/ WritePrivate
ConfigInit == CreateConfig \/ WriteConfig \/ GiveUp \/ Setup
Close == uploadMetadata \/ uploadMetadataFails \/ UploadPublicKey \/ UploadPrivateKey
Command == NewBTApp \/ Encrypt \/ PlainWork \/ Close

Next == EditConfig \/ RemoveConfig \/ ConfigInit \/ Command \/ Stop

Spec == Init /\ [][Next]_vars

-----------------------------------------------------------------------------
(* Properties                                                              *)

KeyFiles == Keys \cup {None, Torn}
Types ==
    /\ config \in {"none", "torn", "written", "ready"}
    /\ host \in 0..MaxHosts
    /\ pub \in KeyFiles /\ priv \in KeyFiles
    /\ nextKey \in 1..(MaxKeys + 1)
    /\ sealed \subseteq Keys
    /\ dbCopy \in [Hosts -> Keys \cup {None, Plain}]
    /\ keyCopy \in [Hosts -> [pub : KeyFiles, priv : KeyFiles]]
    /\ proc \in {"idle", "config", "prompt", "public", "between", "private",
                 "work", "close", "keys", "privateKey"}
    /\ faults \in 0..MaxFaults /\ cut \in BOOLEAN

\* The pairs a Setup has generated, the one at work included.
Generated == {k \in Keys : k < nextKey \/ (k = nextKey /\ InSetup)}

OnlyGenerated ==
    /\ sealed \cup ({pub, priv} \cap Keys) \subseteq Generated
    /\ \A h \in Hosts :
           {dbCopy[h], keyCopy[h].pub, keyCopy[h].priv} \cap Keys \subseteq Generated

\* The types of the variables; and no key, in a file, in an object or used to
\* encrypt, that no Setup has generated yet.
TypeOK == Types /\ OnlyGenerated

\* "Immutable after initial setup": a finished key pair is never touched
\* again, however often config init is repeated.
KeysImmutable == [][(priv \in Keys) => UNCHANGED <<pub, priv>>]_vars

\* Everything encrypted that the vault holds, contents and database copies,
\* can be decrypted with the private key file, as long as no Setup was
\* stopped half way. (After one was, commands encrypt with a public key whose
\* private key was never written.)
Recoverable ==
    ~cut => /\ \A k \in sealed : priv = k
            /\ \A h \in Hosts : dbCopy[h] \in Keys => priv = dbCopy[h]

\* "Keys are backed up to the vault as metadata": next to a host's encrypted
\* database copy lie the two keys it was made with; when a call failed, at
\* least never a private key that does not open it.
VaultHoldsKeys ==
    \A h \in Hosts : dbCopy[h] \in Keys =>
        /\ keyCopy[h].priv \in {dbCopy[h], None, Torn}
        /\ faults = 0 /\ proc = "idle" =>
               keyCopy[h] = [pub |-> dbCopy[h], priv |-> dbCopy[h]]
=============================================================================

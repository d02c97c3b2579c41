---------------------------- MODULE Keys_proofs -----------------------------
(***************************************************************************)
(* Proofs about module Keys, for any number of key pairs, configurations   *)
(* and faults. The argument: the public key file is written first, so when *)
(* a private key file exists the public one is whole (FilePhases), Setup   *)
(* refuses to run from then on, and what was encrypted before is nothing   *)
(* unless a Setup was stopped half way.                                    *)
(***************************************************************************)
EXTENDS Keys, TLAPS

\* The key files at each point of Setup, and outside of it.
FilePhases ==
    /\ priv \in Keys => pub = priv
    /\ priv # None => pub \in Keys
    /\ InSetup => nextKey \in Keys
    /\ proc = "public" => priv = None
    /\ proc = "between" => pub = nextKey /\ priv = None
    /\ proc = "private" => pub = nextKey /\ priv = Torn
    /\ ~cut /\ ~InSetup => pub = None \/ priv \in Keys
    /\ proc = "config" => host < MaxHosts

\* An encrypted database copy was made with the public key there is now, and
\* a private key in the vault is the one there is now.
CopiesCurrent ==
    \A h \in Hosts :
        /\ dbCopy[h] \in Keys => pub = dbCopy[h] /\ priv # None
        /\ keyCopy[h].priv \in Keys => priv = keyCopy[h].priv

Both(k) == [pub |-> k, priv |-> k]
\* Without faults only the running command owes the vault a key.
CopiesComplete ==
    /\ faults = 0 => ~cut
    /\ faults = 0 => \A h \in Hosts : dbCopy[h] \in Keys =>
           \/ h = host /\ proc \in {"keys", "privateKey"}
           \/ keyCopy[h] = Both(dbCopy[h])
    /\ proc = "privateKey" /\ host \in Hosts => keyCopy[host].pub = pub
    /\ proc \in {"keys", "privateKey"} => IsConfigured

Inv == Types /\ OnlyGenerated /\ FilePhases /\ Recoverable /\ CopiesCurrent /\ CopiesComplete

\* What was generated stays generated.
LEMMA GeneratedGrows ==
    ASSUME nextKey \in Nat,
           \/ nextKey' = nextKey /\ (InSetup => InSetup')
           \/ nextKey' = nextKey + 1
    PROVE  Generated \subseteq Generated'
BY DEF Generated, InSetup, Keys

\* Two ways a step keeps OnlyGenerated: files and objects keep what they held
\* or get what one of them held, or the public key file gets the new key.
LEMMA OnlyGeneratedKept ==
    ASSUME OnlyGenerated, Generated \subseteq Generated',
           sealed' \subseteq sealed \cup {pub}, sealed' \subseteq Keys,
           {pub', priv'} \cap Keys \subseteq Generated',
           \A h \in Hosts :
               /\ dbCopy'[h] \in {dbCopy[h], pub, Plain}
               /\ keyCopy'[h].pub \in {keyCopy[h].pub, pub}
               /\ keyCopy'[h].priv \in {keyCopy[h].priv, priv}
    PROVE  OnlyGenerated'
<1>1. sealed' \subseteq Generated'
    BY KeysAssumption DEF OnlyGenerated
<1>2. ASSUME NEW h \in Hosts
      PROVE  {dbCopy'[h], keyCopy'[h].pub, keyCopy'[h].priv} \cap Keys \subseteq Generated'
    BY KeysAssumption DEF OnlyGenerated
<1> QED
    BY <1>1, <1>2 DEF OnlyGenerated

LEMMA InvInit == Init => Inv
<1> SUFFICES ASSUME Init
             PROVE  Inv
    OBVIOUS
<1>1. 1 \in 1..(MaxKeys + 1) /\ 0 \in 0..MaxHosts /\ 0 \in 0..MaxFaults
    BY KeysAssumption
<1>2. Types
    BY <1>1 DEF Init, Types, KeyFiles
<1>3. FilePhases /\ Recoverable
    BY KeysAssumption DEF Init, FilePhases, Recoverable, InSetup
<1>4. CopiesCurrent /\ CopiesComplete
    BY KeysAssumption DEF Init, CopiesCurrent, CopiesComplete
<1>5. OnlyGenerated
    BY KeysAssumption DEF Init, OnlyGenerated
<1> QED
    BY <1>2, <1>3, <1>4, <1>5 DEF Inv

\* A step that leaves the key files and the vault alone keeps Inv, when it
\* stays outside Setup and does not start to upload keys.
LEMMA QuietStep ==
    ASSUME Inv, UNCHANGED <<pub, priv, nextKey, vaultVars, cut>>, ~InSetup,
           config' \in {"none", "torn", "written", "ready"}, host' \in 0..MaxHosts,
           proc' \in {"idle", "config", "prompt", "work", "close"},
           proc' = "config" => host' < MaxHosts,
           UNCHANGED faults \/ (faults' \in 0..MaxFaults /\ faults' # 0),
           faults' = 0 => proc \notin {"keys", "privateKey"}
    PROVE  Inv'
<1>1. Types'
    BY DEF Inv, Types, vaultVars
<1>2. FilePhases' /\ Recoverable'
    BY DEF Inv, FilePhases, Recoverable, InSetup, vaultVars
<1>3. CopiesCurrent'
    BY DEF Inv, CopiesCurrent, vaultVars
<1>4. CopiesComplete'
    BY DEF Inv, CopiesComplete, vaultVars
<1>5. OnlyGenerated'
    <2>1. Generated \subseteq Generated'
        BY GeneratedGrows DEF Inv, Types
    <2> QED
        BY <2>1, OnlyGeneratedKept DEF Inv, Types, OnlyGenerated, vaultVars
<1> QED
    BY <1>1, <1>2, <1>3, <1>4, <1>5 DEF Inv

\* Every step keeps Inv.
LEMMA InvNext == Inv /\ [Next]_vars => Inv'
<1> SUFFICES ASSUME Inv, [Next]_vars
             PROVE  Inv'
    OBVIOUS
<1> USE KeysAssumption
<1>t. /\ host \in 0..MaxHosts /\ faults \in 0..MaxFaults
      /\ pub \in KeyFiles /\ priv \in KeyFiles
      /\ nextKey \in 1..(MaxKeys + 1)
      /\ dbCopy \in [Hosts -> Keys \cup {None, Plain}]
      /\ keyCopy \in [Hosts -> [pub : KeyFiles, priv : KeyFiles]]
    BY DEF Inv, Types
<1>1. CASE EditConfig \/ RemoveConfig \/ CreateConfig \/ WriteConfig \/ GiveUp
    <2>1. /\ UNCHANGED <<pub, priv, nextKey, vaultVars, cut, faults>>
          /\ proc \in {"idle", "config", "prompt"}
          /\ proc' \in {"idle", "config", "prompt"}
          /\ config' \in {"none", "torn", "written", "ready"}
        BY <1>1 DEF EditConfig, RemoveConfig, CreateConfig, WriteConfig, GiveUp, At,
                    fileVars, Inv, Types
    <2>2. host' \in 0..MaxHosts /\ (proc' = "config" => host' < MaxHosts)
        BY <1>1, <1>t DEF EditConfig, RemoveConfig, CreateConfig, WriteConfig, GiveUp, At,
                          fileVars, Inv, FilePhases
    <2> QED
        BY <2>1, <2>2, QuietStep DEF InSetup
<1>2. CASE TruncatePublic
    <2>1. /\ proc = "prompt" /\ proc' = "public" /\ pub' = Torn
          /\ priv = None /\ nextKey \in Keys
          /\ UNCHANGED <<config, host, priv, nextKey, sealed, dbCopy, keyCopy, faults, cut>>
        BY <1>2, <1>t DEF TruncatePublic, At, IsConfigured, vaultVars, Inv, FilePhases, Keys
    <2>2. Types'
        BY <2>1 DEF Inv, Types, KeyFiles
    <2>3. FilePhases'
        BY <2>1 DEF FilePhases, InSetup
    <2>4. Recoverable' /\ CopiesCurrent' /\ CopiesComplete'
        BY <2>1 DEF Inv, Recoverable, CopiesCurrent, CopiesComplete
    <2>g. OnlyGenerated'
        <3>1. Generated \subseteq Generated'
            BY <2>1, GeneratedGrows, <1>t DEF InSetup
        <3> QED
            BY <2>1, <2>2, <3>1, <1>t, OnlyGeneratedKept DEF Inv, Types, OnlyGenerated, Generated
    <2> QED
        BY <2>2, <2>3, <2>4, <2>g DEF Inv
<1>3. CASE WritePublic
    <2>1. /\ proc = "public" /\ proc' = "between" /\ pub' = nextKey
          /\ priv = None /\ nextKey \in Keys
          /\ UNCHANGED <<config, host, priv, nextKey, sealed, dbCopy, keyCopy, faults, cut>>
        BY <1>3 DEF WritePublic, At, vaultVars, Inv, FilePhases, InSetup
    <2>2. Types'
        BY <2>1 DEF Inv, Types, KeyFiles
    <2>3. FilePhases'
        BY <2>1 DEF FilePhases, InSetup
    <2>4. Recoverable' /\ CopiesCurrent' /\ CopiesComplete'
        BY <2>1 DEF Inv, Recoverable, CopiesCurrent, CopiesComplete
    <2>g. OnlyGenerated'
        <3>1. Generated \subseteq Generated'
            BY <2>1, GeneratedGrows, <1>t DEF InSetup
        <3>2. pub' \in Generated'
            BY <2>1 DEF Generated, InSetup
        <3> QED
            BY <2>1, <2>2, <3>1, <3>2, <1>t, OnlyGeneratedKept DEF Inv, Types, OnlyGenerated
    <2> QED
        BY <2>2, <2>3, <2>4, <2>g DEF Inv
<1>4. CASE TruncatePrivate
    <2>1. /\ proc = "between" /\ proc' = "private" /\ priv' = Torn
          /\ pub = nextKey /\ priv = None /\ nextKey \in Keys
          /\ UNCHANGED <<config, host, pub, nextKey, sealed, dbCopy, keyCopy, faults, cut>>
        BY <1>4 DEF TruncatePrivate, At, vaultVars, Inv, FilePhases, InSetup
    <2>2. Types'
        BY <2>1 DEF Inv, Types, KeyFiles
    <2>3. FilePhases'
        BY <2>1 DEF FilePhases, InSetup
    <2>4. Recoverable' /\ CopiesCurrent' /\ CopiesComplete'
        BY <2>1 DEF Inv, Types, Recoverable, CopiesCurrent, CopiesComplete
    <2>g. OnlyGenerated'
        <3>1. Generated \subseteq Generated'
            BY <2>1, GeneratedGrows, <1>t DEF InSetup
        <3> QED
            BY <2>1, <2>2, <3>1, <1>t, OnlyGeneratedKept DEF Inv, Types, OnlyGenerated, Generated
    <2> QED
        BY <2>2, <2>3, <2>4, <2>g DEF Inv
<1>5. CASE WritePrivate
    <2>1. /\ proc = "private" /\ proc' = "idle" /\ priv' = nextKey
          /\ pub = nextKey /\ priv = Torn /\ nextKey \in Keys /\ nextKey' = nextKey + 1
          /\ UNCHANGED <<config, host, pub, sealed, dbCopy, keyCopy, faults, cut>>
        BY <1>5 DEF WritePrivate, At, vaultVars, Inv, FilePhases, InSetup
    <2>2. Types'
        BY <2>1 DEF Inv, Types, KeyFiles, Keys
    <2>3. FilePhases'
        BY <2>1 DEF FilePhases, InSetup
    <2>4. Recoverable' /\ CopiesCurrent' /\ CopiesComplete'
        BY <2>1 DEF Inv, Types, Recoverable, CopiesCurrent, CopiesComplete
    <2>g. OnlyGenerated'
        <3>1. Generated \subseteq Generated'
            BY <2>1, GeneratedGrows, <1>t DEF InSetup
        <3> QED
            BY <2>1, <2>2, <3>1, <1>t, OnlyGeneratedKept DEF Inv, Types, OnlyGenerated, Generated
    <2> QED
        BY <2>2, <2>3, <2>4, <2>g DEF Inv
<1>6. CASE NewBTApp \/ PlainWork
    <2>1. /\ UNCHANGED <<config, host, pub, priv, nextKey, vaultVars, cut, faults>>
          /\ proc \in {"idle", "work"} /\ proc' \in {"work", "close"}
        BY <1>6 DEF NewBTApp, PlainWork, At, fileVars
    <2> QED
        BY <2>1, QuietStep DEF InSetup, Inv, Types
<1>7. CASE Encrypt
    <2>1. /\ proc = "work" /\ proc' = "close" /\ pub \in Keys
          /\ sealed' = sealed \cup {pub}
          /\ UNCHANGED <<config, host, pub, priv, nextKey, dbCopy, keyCopy, faults, cut>>
        BY <1>7 DEF Encrypt, At, fileVars
    <2>2. Types'
        BY <2>1 DEF Inv, Types
    <2>3. FilePhases'
        BY <2>1 DEF Inv, FilePhases, InSetup
    <2>4. Recoverable'
        BY <2>1 DEF Inv, Recoverable, FilePhases, InSetup
    <2>5. CopiesCurrent' /\ CopiesComplete'
        BY <2>1 DEF Inv, CopiesCurrent, CopiesComplete
    <2>g. OnlyGenerated'
        <3>1. Generated \subseteq Generated'
            BY <2>1, GeneratedGrows, <1>t DEF InSetup
        <3> QED
            BY <2>1, <2>2, <3>1, <1>t, OnlyGeneratedKept DEF Inv, Types, OnlyGenerated, Generated
    <2> QED
        BY <2>2, <2>3, <2>4, <2>5, <2>g DEF Inv
<1>8. CASE uploadMetadata
    <2> DEFINE v == IF IsConfigured THEN pub ELSE Plain
    <2>1. /\ proc = "close" /\ proc' = AfterDb /\ dbCopy' = [dbCopy EXCEPT ![host] = v]
          /\ UNCHANGED <<config, host, pub, priv, nextKey, sealed, keyCopy, faults, cut>>
        BY <1>8 DEF uploadMetadata, At, fileVars
    <2>2. proc' \in {"keys", "idle"} /\ (proc' = "keys" <=> IsConfigured)
        BY <2>1 DEF AfterDb
    <2>3. v \in Keys \cup {None, Plain} /\ (v \in Keys <=> IsConfigured)
          /\ (IsConfigured => v = pub)
        BY DEF IsConfigured, Inv, FilePhases
    <2> HIDE DEF v
    <2>4. /\ dbCopy' \in [Hosts -> Keys \cup {None, Plain}]
          /\ \A h \in Hosts : dbCopy'[h] = IF h = host THEN v ELSE dbCopy[h]
        BY <1>t, <2>1, <2>3
    <2>5. Types'
        BY <2>1, <2>2, <2>4 DEF Inv, Types
    <2>6. FilePhases'
        BY <2>1, <2>2 DEF Inv, FilePhases, InSetup
    <2>7. Recoverable'
        BY <2>1, <2>3, <2>4 DEF Inv, Recoverable, FilePhases, InSetup, IsConfigured
    <2>8. CopiesCurrent'
        BY <2>1, <2>3, <2>4 DEF Inv, CopiesCurrent, IsConfigured
    <2>9. CopiesComplete'
        BY <2>1, <2>2, <2>3, <2>4 DEF Inv, CopiesComplete, IsConfigured
    <2>g. OnlyGenerated'
        <3>1. Generated \subseteq Generated'
            BY <2>1, GeneratedGrows, <1>t DEF InSetup
        <3>2. \A h \in Hosts : dbCopy'[h] \in {dbCopy[h], pub, Plain}
            BY <2>4 DEF v
        <3> QED
            BY <2>1, <2>5, <3>1, <3>2, <1>t, OnlyGeneratedKept DEF Inv, Types, OnlyGenerated
    <2> QED
        BY <2>5, <2>6, <2>7, <2>8, <2>9, <2>g DEF Inv
<1>9. CASE uploadMetadataFails
    <2>1. /\ proc = "close" /\ proc' \in {"keys", "idle"} /\ (proc' = "keys" => IsConfigured)
          /\ faults' \in 0..MaxFaults /\ faults' # 0
          /\ UNCHANGED <<config, host, pub, priv, nextKey, sealed, dbCopy, keyCopy, cut>>
        BY <1>9, <1>t DEF uploadMetadataFails, At, AfterDb, fileVars, vaultVars
    <2>2. Types'
        BY <2>1 DEF Inv, Types
    <2>3. FilePhases' /\ Recoverable'
        BY <2>1 DEF Inv, FilePhases, InSetup, Recoverable
    <2>4. CopiesCurrent' /\ CopiesComplete'
        BY <2>1 DEF Inv, CopiesCurrent, CopiesComplete, IsConfigured
    <2>g. OnlyGenerated'
        <3>1. Generated \subseteq Generated'
            BY <2>1, GeneratedGrows, <1>t DEF InSetup
        <3> QED
            BY <2>1, <2>2, <3>1, <1>t, OnlyGeneratedKept DEF Inv, Types, OnlyGenerated, Generated
    <2> QED
        BY <2>2, <2>3, <2>4, <2>g DEF Inv
<1>10. CASE UploadPublicKey
    <2>1. /\ proc = "keys" /\ proc' = "privateKey"
          /\ keyCopy' = [keyCopy EXCEPT ![host].pub = pub]
          /\ UNCHANGED <<config, host, pub, priv, nextKey, sealed, dbCopy, faults, cut>>
        BY <1>10 DEF UploadPublicKey, At, fileVars
    <2>2. /\ keyCopy' \in [Hosts -> [pub : KeyFiles, priv : KeyFiles]]
          /\ \A h \in Hosts : /\ keyCopy'[h].priv = keyCopy[h].priv
                              /\ h # host => keyCopy'[h] = keyCopy[h]
                              /\ h = host => keyCopy'[h].pub = pub
        BY <1>t, <2>1
    <2>3. Types'
        BY <2>1, <2>2 DEF Inv, Types
    <2>4. FilePhases' /\ Recoverable'
        BY <2>1 DEF Inv, FilePhases, InSetup, Recoverable
    <2>5. CopiesCurrent'
        BY <2>1, <2>2 DEF Inv, CopiesCurrent
    <2>6. CopiesComplete'
        BY <2>1, <2>2 DEF Inv, CopiesComplete, IsConfigured
    <2>g. OnlyGenerated'
        <3>1. Generated \subseteq Generated'
            BY <2>1, GeneratedGrows, <1>t DEF InSetup
        <3> QED
            BY <2>1, <2>3, <3>1, <1>t, OnlyGeneratedKept DEF Inv, Types, OnlyGenerated, Generated
    <2> QED
        BY <2>3, <2>4, <2>5, <2>6, <2>g DEF Inv
<1>11. CASE UploadPrivateKey
    <2>1. /\ proc = "privateKey" /\ proc' = "idle"
          /\ keyCopy' = [keyCopy EXCEPT ![host].priv = priv]
          /\ UNCHANGED <<config, host, pub, priv, nextKey, sealed, dbCopy, faults, cut>>
        BY <1>11 DEF UploadPrivateKey, At, fileVars
    <2>2. /\ keyCopy' \in [Hosts -> [pub : KeyFiles, priv : KeyFiles]]
          /\ \A h \in Hosts : /\ h # host => keyCopy'[h] = keyCopy[h]
                              /\ h = host => keyCopy'[h] = [pub |-> keyCopy[h].pub, priv |-> priv]
        BY <1>t, <2>1
    <2>3. Types'
        BY <2>1, <2>2 DEF Inv, Types
    <2>4. FilePhases' /\ Recoverable'
        BY <2>1 DEF Inv, FilePhases, InSetup, Recoverable
    <2>5. CopiesCurrent'
        BY <2>1, <2>2 DEF Inv, CopiesCurrent
    <2>6. ASSUME faults = 0, NEW h \in Hosts, dbCopy[h] \in Keys
          PROVE  keyCopy'[h] = Both(dbCopy[h])
        <3>1. ~cut /\ pub = dbCopy[h] /\ priv \in Keys /\ priv = pub
            BY <2>1, <2>6 DEF Inv, CopiesComplete, CopiesCurrent, FilePhases, InSetup
        <3>2. CASE h = host
            BY <2>1, <2>2, <3>1, <3>2 DEF Inv, CopiesComplete, Both
        <3>3. CASE h # host
            BY <2>1, <2>2, <2>6, <3>3 DEF Inv, CopiesComplete
        <3> QED
            BY <3>2, <3>3
    <2>7. CopiesComplete'
        BY <2>1, <2>6 DEF Inv, CopiesComplete, IsConfigured
    <2>g. OnlyGenerated'
        <3>1. Generated \subseteq Generated'
            BY <2>1, GeneratedGrows, <1>t DEF InSetup
        <3> QED
            BY <2>1, <2>3, <3>1, <1>t, OnlyGeneratedKept DEF Inv, Types, OnlyGenerated, Generated
    <2> QED
        BY <2>3, <2>4, <2>5, <2>7, <2>g DEF Inv
<1>12. CASE Stop
    <2>1. /\ proc # "idle" /\ proc' = "idle" /\ faults' \in 0..MaxFaults /\ faults' # 0
          /\ UNCHANGED <<config, host, pub, priv, sealed, dbCopy, keyCopy>>
          /\ IF InSetup THEN cut' = TRUE /\ nextKey' = nextKey + 1
                        ELSE UNCHANGED <<cut, nextKey>>
        BY <1>12, <1>t DEF Stop, vaultVars
    <2>2. nextKey' \in 1..(MaxKeys + 1)
        BY <1>t, <2>1 DEF Inv, FilePhases, Keys
    <2>3. Types'
        BY <2>1, <2>2 DEF Inv, Types
    <2>4. FilePhases' /\ Recoverable'
        BY <2>1 DEF Inv, FilePhases, InSetup, Recoverable
    <2>5. CopiesCurrent' /\ CopiesComplete'
        BY <2>1 DEF Inv, CopiesCurrent, CopiesComplete
    <2>g. OnlyGenerated'
        <3>1. Generated \subseteq Generated'
            BY <2>1, GeneratedGrows, <1>t DEF InSetup
        <3> QED
            BY <2>1, <2>3, <3>1, <1>t, OnlyGeneratedKept DEF Inv, Types, OnlyGenerated, Generated
    <2> QED
        BY <2>3, <2>4, <2>5, <2>g DEF Inv
<1>13. CASE UNCHANGED vars
    BY <1>13 DEF vars, fileVars, vaultVars, Inv, Types, FilePhases, InSetup, Recoverable,
                 CopiesCurrent, CopiesComplete, IsConfigured, OnlyGenerated, Generated
<1> QED
    BY <1>1, <1>2, <1>3, <1>4, <1>5, <1>6, <1>7, <1>8, <1>9, <1>10, <1>11, <1>12, <1>13
       DEF Next, ConfigInit, Setup, Command, Close

LEMMA InvAlways == Spec => []Inv
BY InvInit, InvNext, PTL DEF Spec

\* The files and objects of a host's keys have their types; in particular no
\* key is in a file, in the vault or used to encrypt that no Setup generated.
THEOREM KeysTypeCorrect == Spec => []TypeOK
<1>1. Inv => TypeOK
    BY DEF Inv, TypeOK
<1> QED
    BY <1>1, InvAlways, PTL

\* Whatever was encrypted can be decrypted with the private key on disk, for
\* any number of config inits, commands and faults, unless a Setup was cut.
THEOREM NothingUndecryptable == Spec => []Recoverable
<1>1. Inv => Recoverable
    BY DEF Inv
<1> QED
    BY <1>1, InvAlways, PTL

\* A private key in the vault opens the database copy beside it, and without
\* faults it is there as soon as the command that uploaded the copy ends.
THEOREM KeysBackedUp == Spec => []VaultHoldsKeys
<1>1. Inv => VaultHoldsKeys
    <2> SUFFICES ASSUME Inv, NEW h \in Hosts, dbCopy[h] \in Keys
                 PROVE  /\ keyCopy[h].priv \in {dbCopy[h], None, Torn}
                        /\ faults = 0 /\ proc = "idle" => keyCopy[h] = Both(dbCopy[h])
        BY DEF VaultHoldsKeys, Both
    <2>1. keyCopy[h].priv \in KeyFiles
        BY DEF Inv, Types
    <2>2. keyCopy[h].priv \in Keys => keyCopy[h].priv = dbCopy[h]
        BY DEF Inv, CopiesCurrent, FilePhases
    <2>3. faults = 0 /\ proc = "idle" => keyCopy[h] = Both(dbCopy[h])
        BY DEF Inv, CopiesComplete
    <2> QED
        BY <2>1, <2>2, <2>3 DEF KeyFiles
<1> QED
    BY <1>1, InvAlways, PTL

\* A finished key pair is never touched again.
THEOREM PairsAreFinal == Spec => KeysImmutable
<1>1. Inv /\ [Next]_vars => [(priv \in Keys) => UNCHANGED <<pub, priv>>]_vars
    <2> SUFFICES ASSUME Inv, Next, priv \in Keys
                 PROVE  UNCHANGED <<pub, priv>>
        BY DEF vars, fileVars
    <2>1. pub \in Keys /\ pub # None /\ priv # None /\ priv # Torn
        BY KeysAssumption DEF Inv, FilePhases
    <2>2. ~(TruncatePublic \/ WritePublic \/ TruncatePrivate \/ WritePrivate)
        BY <2>1 DEF TruncatePublic, WritePublic, TruncatePrivate, WritePrivate, At,
                    IsConfigured, Inv, FilePhases
    <2> QED
        BY <2>2 DEF Next, ConfigInit, Setup, Command, Close, EditConfig, RemoveConfig,
                    CreateConfig, WriteConfig, GiveUp, NewBTApp, Encrypt, PlainWork,
                    uploadMetadata, uploadMetadataFails, UploadPublicKey, UploadPrivateKey,
                    Stop, fileVars
<1> QED
    BY <1>1, InvAlways, PTL DEF Spec, KeysImmutable
=============================================================================

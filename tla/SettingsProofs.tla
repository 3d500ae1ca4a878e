--------------------------- MODULE SettingsProofs ---------------------------
(***************************************************************************)
(* The signing key is stored once, for any number of overlapping changes.  *)
(***************************************************************************)
EXTENDS Settings, TLAPS

PutRequest == [op : {"put"}, asks : SUBSET Keys, config : Config]
SaveRequest == [op : {"save"}, asks : SUBSET Keys, config : Config, reads : Rows]
SetupRequest == [op : {"setup"}, asks : SUBSET Keys, config : Config, inserts : BOOLEAN]
StartRequest == [op : {"start"}, asks : {{SecretKey}}, key : Secrets, inserts : BOOLEAN]

(* Each kind of request has its fields.                                    *)
LEMMA Kinds ==
  ASSUME TypeOK, NEW r \in Reqs
  PROVE  /\ Doing(r, "put") => req[r] \in PutRequest
         /\ Doing(r, "save") => req[r] \in SaveRequest
         /\ Doing(r, "setup") => req[r] \in SetupRequest
         /\ Doing(r, "start") => req[r] \in StartRequest
<1>1. req[r] \in PutRequest \cup SaveRequest \cup SetupRequest \cup StartRequest \cup {Idle}
  BY DEF TypeOK, Request, PutRequest, SaveRequest, SetupRequest, StartRequest
<1> QED BY <1>1 DEF Doing, PutRequest, SaveRequest, SetupRequest, StartRequest, Idle

(* What is read is a configuration, and with changes remains one.          *)
LEMMA LoadType == ASSUME setting \in Rows PROVE Load(setting) \in Config
<1>1. \A k \in Keys : Load(setting)[k] \in Texts \cup Secrets \cup Values \cup {Empty, Null}
  BY SettingsAssumption DEF Load, DefaultOf, Rows
<1> QED BY <1>1 DEF Load, Config

LEMMA ChangedType ==
  ASSUME setting \in Rows, NEW D \in SUBSET Keys,
         NEW change \in [D -> Texts \cup Secrets \cup Values \cup {Empty, Null}]
  PROVE  Changed(change) \in Config
<1>1. \A k \in Keys : Changed(change)[k] \in Texts \cup Secrets \cup Values \cup {Empty, Null}
  BY LoadType DEF Changed, Config
<1> QED BY <1>1 DEF Changed, Config

LEMMA SavesType ==
  ASSUME setting \in Rows, NEW config \in Config, NEW reads \in Rows, Saves(config, reads)
  PROVE  setting' \in Rows
BY DEF Rows, Config, Saves

(* What can be asked of a PUT: numbers, or an origin.                      *)
LEMMA ChangesType ==
  ASSUME NEW change \in Changes
  PROVE  /\ SecretKey \notin DOMAIN change
         /\ DOMAIN change \in SUBSET Keys
         /\ change \in [DOMAIN change -> Texts \cup Secrets \cup Values \cup {Empty, Null}]
<1> DEFINE number == UNION {[ks -> Values \cup {Null}] : ks \in SUBSET Numbers}
<1>1. change \in number \/ change \in [{Origin} -> Texts]
  BY Zenon DEF Changes
<1>2. CASE change \in [{Origin} -> Texts]
  BY <1>2, SettingsAssumption DEF Keys
<1>3. CASE change \in number
  <2>1. PICK ks \in SUBSET Numbers : change \in [ks -> Values \cup {Null}]
    BY <1>3
  <2> QED BY <2>1, SettingsAssumption DEF Keys
<1> HIDE DEF number
<1> QED BY <1>1, <1>2, <1>3

LEMMA InitType == Init => TypeOK
<1> SUFFICES ASSUME Init PROVE TypeOK
  OBVIOUS
<1>1. PICK text \in Texts \cup {Absent} :
        setting = [k \in Keys |-> IF k = Origin THEN text ELSE Absent]
  BY DEF Init
<1>2. setting \in Rows
  BY <1>1 DEF Rows
<1> QED BY <1>2 DEF Init, TypeOK

(* A step of one request, by what it makes of it.                          *)
LEMMA GoesType ==
  ASSUME TypeOK, NEW r \in Reqs, NEW q \in Request \cup {Idle}, Goes(r, q),
         setting' \in Rows, made' \subseteq Secrets, overtaken' \subseteq Reqs
  PROVE  TypeOK'
BY DEF TypeOK, Goes

LEMMA BeginSetupType ==
  ASSUME TypeOK, NEW r \in Reqs, NEW text \in Texts, NEW key \in Secrets,
         BeginSetup(r, text, key)
  PROVE  TypeOK'
<1> DEFINE origin == [k \in {Origin} |-> text]
           asked == [Changed(origin) EXCEPT ![SecretKey] = IF NeedsKey THEN key ELSE @]
           q == [op |-> "setup", config |-> asked,
                 asks |-> IF NeedsKey THEN {Origin, SecretKey} ELSE {Origin},
                 inserts |-> NeedsKey /\ setting[SecretKey] = Absent]
<1>1. Changed(origin) \in Config
  <2>1. origin \in [{Origin} -> Texts \cup Secrets \cup Values \cup {Empty, Null}]
    OBVIOUS
  <2> QED BY <2>1, ChangedType DEF TypeOK, Keys
<1> HIDE DEF origin
<1>2. asked \in Config
  BY <1>1 DEF Config, Keys
<1>3. q \in SetupRequest
  BY <1>2 DEF SetupRequest, Keys
<1>4. Goes(r, q) /\ made' \subseteq Secrets /\ setting' \in Rows /\ overtaken' \subseteq Reqs
  BY DEF BeginSetup, TypeOK, origin
<1> QED BY <1>3, <1>4, GoesType DEF Request, SetupRequest

LEMMA NextType == TypeOK /\ [Next]_vars => TypeOK'
<1> SUFFICES ASSUME TypeOK, [Next]_vars PROVE TypeOK'
  OBVIOUS
<1>1. ASSUME NEW r \in Reqs, NEW change \in Changes, BeginPut(r, change) PROVE TypeOK'
  <2> DEFINE q == [op |-> "put", asks |-> DOMAIN change, config |-> Changed(change)]
  <2>1. Changed(change) \in Config /\ DOMAIN change \in SUBSET Keys
    BY ChangesType, ChangedType DEF TypeOK
  <2>2. q \in Request
    BY <2>1 DEF Request
  <2>3. Goes(r, q) /\ UNCHANGED <<setting, made, overtaken>>
    BY <1>1 DEF BeginPut
  <2> QED BY <2>2, <2>3, GoesType DEF TypeOK
<1>2. ASSUME NEW r \in Reqs, PutReadsRows(r) PROVE TypeOK'
  <2> DEFINE q == [op |-> "save", asks |-> req[r].asks, config |-> req[r].config,
                   reads |-> setting]
  <2>1. req[r] \in PutRequest
    BY <1>2, Kinds DEF PutReadsRows
  <2>2. q \in Request
    BY <2>1 DEF Request, PutRequest, TypeOK
  <2>3. Goes(r, q) /\ UNCHANGED <<setting, made, overtaken>>
    BY <1>2 DEF PutReadsRows
  <2> QED BY <2>2, <2>3, GoesType DEF TypeOK
<1>3. ASSUME NEW r \in Reqs, CommitPut(r) PROVE TypeOK'
  <2>1. req[r] \in SaveRequest
    BY <1>3, Kinds DEF CommitPut
  <2>2. setting' \in Rows
    BY <1>3, <2>1, SavesType DEF CommitPut, SaveRequest, TypeOK
  <2> QED BY <1>3, <2>2, GoesType DEF CommitPut, Ends, TypeOK
<1>4. ASSUME NEW r \in Reqs, NEW text \in Texts, NEW key \in Secrets, BeginSetup(r, text, key)
      PROVE  TypeOK'
  BY <1>4, BeginSetupType
<1>5. ASSUME NEW r \in Reqs, CommitSetup(r) PROVE TypeOK'
  <2>1. req[r] \in SetupRequest
    BY <1>5, Kinds DEF CommitSetup
  <2>2. setting' \in Rows
    BY <1>5, <2>1, SavesType DEF CommitSetup, SetupRequest, TypeOK
  <2> QED BY <1>5, <2>2, GoesType DEF CommitSetup, Ends, TypeOK
<1>6. ASSUME NEW r \in Reqs, NEW key \in Secrets, BeginStart(r, key) PROVE TypeOK'
  <2> DEFINE q == [op |-> "start", asks |-> {SecretKey}, key |-> key,
                   inserts |-> setting[SecretKey] = Absent]
  <2>1. q \in Request
    BY DEF Request
  <2> QED BY <1>6, <2>1, GoesType DEF BeginStart, TypeOK
<1>7. ASSUME NEW r \in Reqs, CommitStart(r) PROVE TypeOK'
  <2>1. req[r] \in StartRequest
    BY <1>7, Kinds DEF CommitStart
  <2>2. setting' \in Rows
    BY <1>7, <2>1 DEF CommitStart, StartRequest, TypeOK, Rows
  <2> QED BY <1>7, <2>2, GoesType DEF CommitStart, Ends, TypeOK
<1>8. ASSUME NEW r \in Reqs, Fails(r) PROVE TypeOK'
  BY <1>8, GoesType DEF Fails, TypeOK
<1>9. CASE UNCHANGED vars
  BY <1>9 DEF vars, TypeOK
<1> QED BY <1>1, <1>2, <1>3, <1>4, <1>5, <1>6, <1>7, <1>8, <1>9 DEF Next

(* The variables have their types.                                         *)
THEOREM TypeCorrect == Spec => []TypeOK
<1> QED BY InitType, NextType, PTL DEF Spec

-----------------------------------------------------------------------------
(* Whoever saves a configuration has read the key that is stored, or makes *)
(* one where there was none.                                               *)
KnowsKey(r) ==
  /\ req[r].op \in {"put", "save"} =>
       setting[SecretKey] # Absent /\ req[r].config[SecretKey] = setting[SecretKey]
  /\ Doing(r, "setup") =>
       IF req[r].inserts THEN req[r].config[SecretKey] # Empty
       ELSE setting[SecretKey] # Absent /\ req[r].config[SecretKey] = setting[SecretKey]
  /\ Doing(r, "start") => req[r].inserts

Inv == TypeOK /\ setting[SecretKey] # Empty /\ \A r \in Reqs : KnowsKey(r)

(* The step of the stored key.                                             *)
Stays == setting[SecretKey] # Absent => setting'[SecretKey] = setting[SecretKey]

USE DEF Doing

LEMMA InitInv == Init => Inv
<1> SUFFICES ASSUME Init PROVE Inv
  OBVIOUS
<1>1. setting[SecretKey] = Absent
  BY SettingsAssumption DEF Init, Keys
<1>2. \A r \in Reqs : KnowsKey(r)
  BY DEF Init, Idle, KnowsKey
<1> QED BY <1>1, <1>2, InitType, SettingsAssumption DEF Inv

(* What does not touch the rows: enough that r knows the key in the end.   *)
LEMMA ReadingKeeps ==
  ASSUME Inv, NEW r \in Reqs, NEW q, Goes(r, q), setting' = setting, TypeOK', KnowsKey(r)'
  PROVE  Inv' /\ Stays
<1>1. \A p \in Reqs : p # r => req'[p] = req[p]
  BY DEF Inv, TypeOK, Goes
<1>2. \A p \in Reqs : KnowsKey(p)'
  BY <1>1 DEF Inv, KnowsKey
<1> QED BY <1>2 DEF Inv, Stays

(* What does: the others still know the key if it stays.                   *)
LEMMA WritingKeeps ==
  ASSUME Inv, NEW r \in Reqs, Goes(r, Idle), Stays, TypeOK', setting'[SecretKey] # Empty
  PROVE  Inv'
<1>1. \A p \in Reqs : p # r => req'[p] = req[p]
  BY DEF Inv, TypeOK, Goes
<1>2. req'[r] = Idle
  BY DEF Inv, TypeOK, Goes
<1>3. KnowsKey(r)'
  BY <1>2 DEF Idle, KnowsKey
<1>4. \A p \in Reqs : p # r => KnowsKey(p)'
  BY <1>1 DEF Inv, KnowsKey, Stays
<1> QED BY <1>3, <1>4 DEF Inv

(* The key as it is loaded, and in a configuration with changes.           *)
LEMMA LoadedKey ==
  ASSUME Inv
  PROVE  /\ Load(setting)[SecretKey] =
              IF setting[SecretKey] = Absent THEN Empty ELSE setting[SecretKey]
         /\ NeedsKey <=> setting[SecretKey] = Absent
         /\ \A change : SecretKey \notin DOMAIN change =>
              Changed(change)[SecretKey] = Load(setting)[SecretKey]
<1>1. SecretKey \in Keys /\ SecretKey \notin Numbers
  BY SettingsAssumption DEF Keys
<1>2. Load(setting)[SecretKey] =
        IF setting[SecretKey] = Absent THEN Empty ELSE setting[SecretKey]
  BY <1>1 DEF Load, DefaultOf
<1>3. \A change : SecretKey \notin DOMAIN change =>
        Changed(change)[SecretKey] = Load(setting)[SecretKey]
  BY <1>1 DEF Changed
<1> QED BY <1>2, <1>3 DEF NeedsKey, Inv

(* A save of a configuration that holds the stored key leaves it alone.    *)
LEMMA SavesKey ==
  ASSUME Inv, NEW config, NEW reads, Saves(config, reads)
  PROVE  setting'[SecretKey] =
           IF config[SecretKey] # reads[SecretKey] THEN config[SecretKey] ELSE setting[SecretKey]
BY DEF Saves, Keys

LEMMA InvInductive == Inv /\ [Next]_vars => Inv' /\ Stays
<1> SUFFICES ASSUME Inv, [Next]_vars PROVE Inv' /\ Stays
  OBVIOUS
<1>0. TypeOK /\ TypeOK'
  BY NextType DEF Inv
<1>a. \A r \in Reqs : \A q : Goes(r, q) => req'[r] = q
  BY <1>0 DEF Goes, TypeOK
<1>1. ASSUME NEW r \in Reqs, NEW change \in Changes, BeginPut(r, change)
      PROVE  Inv' /\ Stays
  <2> DEFINE q == [op |-> "put", asks |-> DOMAIN change, config |-> Changed(change)]
  <2>1. Goes(r, q) /\ setting' = setting /\ req'[r] = q /\ setting[SecretKey] # Absent
    BY <1>1, <1>a DEF BeginPut, Running
  <2>2. Changed(change)[SecretKey] = setting[SecretKey]
    BY <2>1, ChangesType, LoadedKey
  <2>3. KnowsKey(r)'
    BY <2>1, <2>2 DEF KnowsKey
  <2> QED BY <1>0, <2>1, <2>3, ReadingKeeps
<1>2. ASSUME NEW r \in Reqs, PutReadsRows(r) PROVE Inv' /\ Stays
  <2> DEFINE q == [op |-> "save", asks |-> req[r].asks, config |-> req[r].config,
                   reads |-> setting]
  <2>1. Goes(r, q) /\ setting' = setting /\ req'[r] = q /\ Doing(r, "put")
    BY <1>2, <1>a DEF PutReadsRows
  <2>2. KnowsKey(r)'
    BY <2>1 DEF KnowsKey, Inv
  <2> QED BY <1>0, <2>1, <2>2, ReadingKeeps
<1>3. ASSUME NEW r \in Reqs, CommitPut(r) PROVE Inv' /\ Stays
  <2>1. setting[SecretKey] # Absent /\ req[r].config[SecretKey] = setting[SecretKey]
    BY <1>3 DEF CommitPut, Inv, KnowsKey
  <2>2. setting'[SecretKey] = setting[SecretKey]
    BY <1>3, <2>1, SavesKey DEF CommitPut
  <2> QED BY <1>0, <1>3, <2>2, WritingKeeps DEF CommitPut, Ends, Inv, Stays
<1>4. ASSUME NEW r \in Reqs, NEW text \in Texts, NEW key \in Secrets,
             BeginSetup(r, text, key)
      PROVE  Inv' /\ Stays
  <2> DEFINE origin == [k \in {Origin} |-> text]
             asked == [Changed(origin) EXCEPT ![SecretKey] = IF NeedsKey THEN key ELSE @]
             inserts == NeedsKey /\ setting[SecretKey] = Absent
             q == [op |-> "setup", config |-> asked,
                   asks |-> IF NeedsKey THEN {Origin, SecretKey} ELSE {Origin},
                   inserts |-> inserts]
  <2>1. Goes(r, q) /\ setting' = setting /\ req'[r] = q
    BY <1>4, <1>a DEF BeginSetup
  <2>2. asked[SecretKey] =
          IF setting[SecretKey] = Absent THEN key ELSE setting[SecretKey]
    BY LoadedKey, SettingsAssumption DEF Changed, Keys
  <2>3. inserts <=> setting[SecretKey] = Absent
    BY LoadedKey
  <2> HIDE DEF asked, inserts
  <2>4. req'[r].op = "setup" /\ req'[r].config = asked /\ req'[r].inserts = inserts
    BY <2>1
  <2>5. KnowsKey(r)'
    BY <2>1, <2>2, <2>3, <2>4, SettingsAssumption DEF KnowsKey
  <2> QED BY <1>0, <2>1, <2>5, ReadingKeeps
<1>5. ASSUME NEW r \in Reqs, CommitSetup(r) PROVE Inv' /\ Stays
  <2>1. setting'[SecretKey] =
          IF req[r].config[SecretKey] # setting[SecretKey] THEN req[r].config[SecretKey]
          ELSE setting[SecretKey]
    BY <1>5, SavesKey DEF CommitSetup
  <2>2. Stays /\ setting'[SecretKey] # Empty
    BY <1>5, <2>1 DEF CommitSetup, Inv, KnowsKey, Stays
  <2> QED BY <1>0, <1>5, <2>2, WritingKeeps DEF CommitSetup, Ends
<1>6. ASSUME NEW r \in Reqs, NEW key \in Secrets, BeginStart(r, key) PROVE Inv' /\ Stays
  <2> DEFINE inserts == setting[SecretKey] = Absent
             q == [op |-> "start", asks |-> {SecretKey}, key |-> key, inserts |-> inserts]
  <2>1. Goes(r, q) /\ setting' = setting /\ NeedsKey
    BY <1>6 DEF BeginStart
  <2>2. req'[r] = q
    BY <2>1, <1>a
  <2>3. inserts
    BY <2>1, LoadedKey
  <2> HIDE DEF inserts
  <2>4. req'[r].op = "start" /\ req'[r].inserts = inserts
    BY <2>2
  <2>5. KnowsKey(r)'
    BY <2>3, <2>4 DEF KnowsKey
  <2> QED BY <1>0, <2>1, <2>5, ReadingKeeps
<1>7. ASSUME NEW r \in Reqs, CommitStart(r) PROVE Inv' /\ Stays
  <2>1. setting[SecretKey] = Absent
    BY <1>7 DEF CommitStart, Inv, KnowsKey
  <2>2. req[r] \in StartRequest
    BY <1>0, <1>7, Kinds DEF CommitStart
  <2>3. setting'[SecretKey] \in Secrets
    BY <1>0, <1>7, <2>2 DEF CommitStart, TypeOK, Rows, Keys, StartRequest
  <2> QED BY <1>0, <1>7, <2>1, <2>3, WritingKeeps, SettingsAssumption DEF CommitStart, Ends, Stays
<1>8. ASSUME NEW r \in Reqs, Fails(r) PROVE Inv' /\ Stays
  <2>1. Goes(r, Idle) /\ setting' = setting /\ req'[r] = Idle
    BY <1>8, <1>a DEF Fails
  <2>2. KnowsKey(r)'
    BY <2>1 DEF KnowsKey, Idle
  <2> QED BY <1>0, <2>1, <2>2, ReadingKeeps
<1>9. CASE UNCHANGED vars
  BY <1>0, <1>9 DEF vars, Inv, KnowsKey, Stays
<1> QED BY <1>1, <1>2, <1>3, <1>4, <1>5, <1>6, <1>7, <1>8, <1>9 DEF Next

(* However many setups, starts and changes of settings overlap, the key    *)
(* that was stored first stays.                                            *)
THEOREM KeyStays == Spec => SecretStays
<1>1. Inv /\ [Next]_vars => [setting[SecretKey] # Absent =>
                              setting'[SecretKey] = setting[SecretKey]]_vars
  BY InvInductive DEF Stays
<1> QED BY <1>1, InitInv, InvInductive, PTL DEF Spec, SecretStays

-----------------------------------------------------------------------------
(* A change that is not overtaken has, in what it does not ask for, the    *)
(* configuration that is stored, or that its save has found.               *)
Same(config, rows, ks) == \A k \in Keys \ ks : config[k] = Load(rows)[k]

UpToDate(r) ==
  /\ req[r].op \in {"put", "setup"} => Same(req[r].config, setting, req[r].asks)
  /\ Doing(r, "save") => Same(req[r].config, req[r].reads, req[r].asks)
  /\ Doing(r, "start") => req[r].asks = {SecretKey}

DateInv == TypeOK /\ \A r \in Reqs \ overtaken : UpToDate(r)

(* The end of r leaves what it did not ask for.                            *)
OnlyAsked(r) ==
  ~Doing(r, "idle") /\ req'[r] = Idle =>
    \A k \in Keys \ req[r].asks : Load(setting)[k] = (Load(setting)')[k]
OnlyAskedStep == \A r \in Reqs \ overtaken : OnlyAsked(r)

LEMMA DateInit == Init => DateInv
<1> SUFFICES ASSUME Init PROVE DateInv
  OBVIOUS
<1>1. \A r \in Reqs : UpToDate(r)
  BY DEF Init, Idle, UpToDate
<1> QED BY <1>1, InitType DEF DateInv

(* A step that reads: r becomes up to date, or stays out of date.          *)
LEMMA ReadingDate ==
  ASSUME DateInv, NEW r \in Reqs, NEW q, Goes(r, q), UNCHANGED <<setting, overtaken>>,
         TypeOK', r \notin overtaken => UpToDate(r)'
  PROVE  DateInv' /\ OnlyAskedStep
<1>1. \A p \in Reqs : p # r => req'[p] = req[p]
  BY DEF DateInv, TypeOK, Goes
<1>2. \A p \in Reqs \ overtaken : UpToDate(p)'
  BY <1>1 DEF DateInv, UpToDate, Same, Load, Doing
<1>3. Load(setting)' = Load(setting)
  BY DEF Load
<1> QED BY <1>2, <1>3 DEF DateInv, OnlyAskedStep, OnlyAsked

(* The end of a change: whoever has loaded the configuration is overtaken. *)
LEMMA EndingDate ==
  ASSUME DateInv, NEW r \in Reqs, Ends(r), TypeOK', r \notin overtaken => OnlyAsked(r)
  PROVE  DateInv' /\ OnlyAskedStep
<1>1. \A p \in Reqs : p # r => req'[p] = req[p]
  BY DEF DateInv, TypeOK, Goes, Ends
<1>2. req'[r] = Idle
  BY DEF DateInv, TypeOK, Goes, Ends
<1>3. \A p \in Reqs \ {r} : p \notin overtaken' =>
         p \notin overtaken /\ req[p].op \notin {"put", "setup"}
  BY DEF Ends
<1>4. \A p \in Reqs \ {r} : p \notin overtaken' => UpToDate(p)'
  BY <1>1, <1>3 DEF DateInv, UpToDate, Same, Load, Doing
<1>5. UpToDate(r)'
  BY <1>2 DEF UpToDate, Idle, Doing
<1>6. \A p \in Reqs : p # r => OnlyAsked(p)
  BY <1>1 DEF OnlyAsked, Idle, Doing
<1> QED BY <1>4, <1>5, <1>6 DEF DateInv, OnlyAskedStep

(* Rows that are written from an up-to-date configuration.                 *)
LEMMA SavesSame ==
  ASSUME NEW config, NEW reads, NEW ks, setting \in Rows,
         Saves(config, reads), Same(config, reads, ks)
  PROVE  \A k \in Keys \ ks : Load(setting)[k] = (Load(setting)')[k]
<1> SUFFICES ASSUME NEW k \in Keys \ ks PROVE Load(setting)[k] = (Load(setting)')[k]
  OBVIOUS
<1>1. setting'[k] = IF config[k] # reads[k] THEN config[k] ELSE setting[k]
  BY DEF Saves
<1>2. config[k] = IF reads[k] = Absent THEN DefaultOf(k) ELSE reads[k]
  BY DEF Same, Load
<1>3. DefaultOf(k) # Absent
  BY SettingsAssumption DEF DefaultOf
<1>4. reads[k] = Absent => setting[k] = Absent
  BY DEF Saves
<1>5. /\ Load(setting)[k] = IF setting[k] = Absent THEN DefaultOf(k) ELSE setting[k]
      /\ (Load(setting)')[k] = IF setting'[k] = Absent THEN DefaultOf(k) ELSE setting'[k]
  BY DEF Load, DefaultOf
<1> QED BY <1>1, <1>2, <1>3, <1>4, <1>5

LEMMA DateInductive == DateInv /\ [Next]_vars => DateInv' /\ OnlyAskedStep
<1> SUFFICES ASSUME DateInv, [Next]_vars PROVE DateInv' /\ OnlyAskedStep
  OBVIOUS
<1>0. TypeOK /\ TypeOK'
  BY NextType DEF DateInv
<1>a. \A r \in Reqs : \A q : Goes(r, q) => req'[r] = q
  BY <1>0 DEF Goes, TypeOK
<1>b. \A change, ks : DOMAIN change \subseteq ks => Same(Changed(change), setting, ks)
  BY DEF Same, Changed
<1>1. ASSUME NEW r \in Reqs, NEW change \in Changes, BeginPut(r, change)
      PROVE  DateInv' /\ OnlyAskedStep
  <2> DEFINE q == [op |-> "put", asks |-> DOMAIN change, config |-> Changed(change)]
  <2>1. Goes(r, q) /\ UNCHANGED <<setting, overtaken>> /\ req'[r] = q
    BY <1>1, <1>a DEF BeginPut
  <2>2. Same(q.config, setting, q.asks)
    BY <1>b
  <2>3. UpToDate(r)'
    BY <2>1, <2>2 DEF UpToDate, Same, Load
  <2> QED BY <1>0, <2>1, <2>3, ReadingDate
<1>2. ASSUME NEW r \in Reqs, PutReadsRows(r) PROVE DateInv' /\ OnlyAskedStep
  <2> DEFINE q == [op |-> "save", asks |-> req[r].asks, config |-> req[r].config,
                   reads |-> setting]
  <2>1. Goes(r, q) /\ UNCHANGED <<setting, overtaken>> /\ req'[r] = q /\ Doing(r, "put")
    BY <1>2, <1>a DEF PutReadsRows
  <2>2. r \notin overtaken => Same(q.config, q.reads, q.asks)
    BY <2>1 DEF DateInv, UpToDate
  <2>3. r \notin overtaken => UpToDate(r)'
    BY <2>1, <2>2 DEF UpToDate, Same, Load
  <2> QED BY <1>0, <2>1, <2>3, ReadingDate
<1>3. ASSUME NEW r \in Reqs, CommitPut(r) PROVE DateInv' /\ OnlyAskedStep
  <2>1. r \notin overtaken => Same(req[r].config, req[r].reads, req[r].asks)
    BY <1>3 DEF DateInv, UpToDate, CommitPut
  <2>2. r \notin overtaken => OnlyAsked(r)
    BY <1>0, <1>3, <2>1, SavesSame DEF CommitPut, OnlyAsked, TypeOK
  <2> QED BY <1>0, <1>3, <2>2, EndingDate DEF CommitPut
<1>4. ASSUME NEW r \in Reqs, NEW text \in Texts, NEW key \in Secrets,
             BeginSetup(r, text, key)
      PROVE  DateInv' /\ OnlyAskedStep
  <2> DEFINE origin == [k \in {Origin} |-> text]
             asked == [Changed(origin) EXCEPT ![SecretKey] = IF NeedsKey THEN key ELSE @]
             asks == IF NeedsKey THEN {Origin, SecretKey} ELSE {Origin}
             q == [op |-> "setup", config |-> asked, asks |-> asks,
                   inserts |-> NeedsKey /\ setting[SecretKey] = Absent]
  <2>1. Goes(r, q) /\ UNCHANGED <<setting, overtaken>> /\ req'[r] = q
    BY <1>4, <1>a DEF BeginSetup
  <2>2. Same(Changed(origin), setting, asks)
    BY <1>b
  <2>3. \A k \in Keys \ asks : asked[k] = Changed(origin)[k]
    BY DEF Changed
  <2>4. Same(asked, setting, asks)
    BY <2>2, <2>3 DEF Same
  <2> HIDE DEF asked, asks
  <2>5. req'[r].op = "setup" /\ req'[r].config = asked /\ req'[r].asks = asks
    BY <2>1
  <2>6. UpToDate(r)'
    BY <2>1, <2>4, <2>5 DEF UpToDate, Same, Load
  <2> QED BY <1>0, <2>1, <2>6, ReadingDate
<1>5. ASSUME NEW r \in Reqs, CommitSetup(r) PROVE DateInv' /\ OnlyAskedStep
  <2>1. r \notin overtaken => Same(req[r].config, setting, req[r].asks)
    BY <1>5 DEF DateInv, UpToDate, CommitSetup
  <2>2. r \notin overtaken => OnlyAsked(r)
    BY <1>0, <1>5, <2>1, SavesSame DEF CommitSetup, OnlyAsked, TypeOK
  <2> QED BY <1>0, <1>5, <2>2, EndingDate DEF CommitSetup
<1>6. ASSUME NEW r \in Reqs, NEW key \in Secrets, BeginStart(r, key)
      PROVE  DateInv' /\ OnlyAskedStep
  <2> DEFINE q == [op |-> "start", asks |-> {SecretKey}, key |-> key,
                   inserts |-> setting[SecretKey] = Absent]
  <2>1. Goes(r, q) /\ UNCHANGED <<setting, overtaken>> /\ req'[r] = q
    BY <1>6, <1>a DEF BeginStart
  <2>2. UpToDate(r)'
    BY <2>1 DEF UpToDate
  <2> QED BY <1>0, <2>1, <2>2, ReadingDate
<1>7. ASSUME NEW r \in Reqs, CommitStart(r) PROVE DateInv' /\ OnlyAskedStep
  <2>1. r \notin overtaken => req[r].asks = {SecretKey}
    BY <1>7 DEF DateInv, UpToDate, CommitStart
  <2>2. \A k \in Keys \ {SecretKey} : setting'[k] = setting[k]
    BY <1>0, <1>7 DEF CommitStart, TypeOK, Rows
  <2>3. r \notin overtaken => OnlyAsked(r)
    BY <2>1, <2>2 DEF OnlyAsked, Load
  <2> QED BY <1>0, <1>7, <2>3, EndingDate DEF CommitStart
<1>8. ASSUME NEW r \in Reqs, Fails(r) PROVE DateInv' /\ OnlyAskedStep
  <2>1. \A p \in Reqs : p # r => req'[p] = req[p]
    BY <1>0, <1>8 DEF Fails, Goes, TypeOK
  <2>2. req'[r] = Idle /\ setting' = setting /\ overtaken' = overtaken \ {r}
    BY <1>8, <1>a DEF Fails
  <2>3. \A p \in Reqs \ overtaken' : UpToDate(p)'
    BY <2>1, <2>2 DEF DateInv, UpToDate, Idle, Same, Load
  <2>4. OnlyAskedStep
    BY <2>2 DEF OnlyAskedStep, OnlyAsked, Load
  <2> QED BY <1>0, <2>3, <2>4 DEF DateInv
<1>9. CASE UNCHANGED vars
  <2>1. Load(setting)' = Load(setting)
    BY <1>9 DEF vars, Load
  <2>2. \A r \in Reqs \ overtaken : UpToDate(r)'
    BY <1>9 DEF vars, DateInv, UpToDate, Same, Load
  <2> QED BY <1>0, <1>9, <2>1, <2>2 DEF vars, DateInv, OnlyAskedStep, OnlyAsked
<1> QED BY <1>1, <1>2, <1>3, <1>4, <1>5, <1>6, <1>7, <1>8, <1>9 DEF Next

(* Whoever changes a setting, runs setup or starts a worker changes what   *)
(* was asked for and nothing else, unless overtaken by another change.     *)
THEOREM NothingElseChanges == Spec => OnlyWhatWasAsked
<1>1. DateInv /\ [Next]_vars =>
        [\A r \in Reqs \ overtaken : ~Doing(r, "idle") /\ req'[r] = Idle =>
           \A k \in Keys \ req[r].asks : Load(setting)[k] = (Load(setting)')[k]]_vars
  BY DateInductive DEF OnlyAskedStep, OnlyAsked
<1> QED BY <1>1, DateInit, DateInductive, PTL DEF Spec, OnlyWhatWasAsked
=============================================================================

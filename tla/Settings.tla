------------------------------ MODULE Settings ------------------------------
(***************************************************************************)
(* The settings: one row per key in the table `setting`, read whole at the *)
(* start of every request (load) and written whole by whoever changes one  *)
(* (save): the administration's PUT and the setup command.  Setup, and the *)
(* start of each worker process, make the signing key if there is none.    *)
(*                                                                         *)
(* load keeps no row, so save reads the rows again and writes those whose  *)
(* value differs from what load has read, changed or not.                  *)
(***************************************************************************)

CONSTANTS
  Origin, SecretKey,  \* two keys that are texts
  Numbers,            \* the keys that are numbers
  Texts,              \* texts that setup and administrators type
  Secrets,            \* signing keys, each made once
  Values,             \* numbers, as text
  Default,            \* the default of a number
  Empty, Null,        \* the empty text; the text "None"
  Absent,             \* no row, and nothing asked
  Reqs                \* requests and commands that can overlap

ASSUME SettingsAssumption ==
  /\ Origin # SecretKey /\ {Origin, SecretKey} \cap Numbers = {}
  /\ Default \in Values
  /\ Empty \notin Texts \cup Secrets \cup Values
  /\ Absent \notin Texts \cup Secrets \cup Values \cup {Empty, Null}
  /\ Null \notin Texts \cup Secrets \cup Values \cup {Empty}

VARIABLES
  setting,  \* the committed rows: the text of each key, or Absent
  req,      \* the changes under way
  made,     \* history: the signing keys that were made
  overtaken \* history: the changes whose configuration is no longer current,
            \* and who have not read the rows yet

vars == <<setting, req, made, overtaken>>

Keys == {Origin, SecretKey} \cup Numbers
Config == [Keys -> Texts \cup Secrets \cup Values \cup {Empty, Null}]
Rows == [Keys -> Texts \cup Secrets \cup Values \cup {Empty, Null, Absent}]

(* Broken: a key without a row has no value.                               *)
LoadBroken(rows) == rows

(* Config and load: a key without a row has its default.  A number that    *)
(* cannot be read makes load fail, and every request with it.              *)
DefaultOf(k) == IF k \in Numbers THEN Default ELSE Empty
Readable(rows) == \A k \in Numbers : rows[k] # Null
Load(rows) == [k \in Keys |-> IF rows[k] = Absent THEN DefaultOf(k) ELSE rows[k]]

Idle == [op |-> "idle"]

(* asks: what the request is to change.  reads: what save has found.       *)
(* inserts: there was no row for the key that has been made.               *)
Request ==
  [op : {"put"}, asks : SUBSET Keys, config : Config]
  \cup [op : {"save"}, asks : SUBSET Keys, config : Config, reads : Rows]
  \cup [op : {"setup"}, asks : SUBSET Keys, config : Config, inserts : BOOLEAN]
  \cup [op : {"start"}, asks : {{SecretKey}}, key : Secrets, inserts : BOOLEAN]

TypeOK ==
  /\ setting \in Rows
  /\ req \in [Reqs -> Request \cup {Idle}]
  /\ made \subseteq Secrets
  /\ overtaken \subseteq Reqs

(* An empty database, or the origin that a migration has carried over.     *)
Init ==
  /\ \E text \in Texts \cup {Absent} :
       setting = [k \in Keys |-> IF k = Origin THEN text ELSE Absent]
  /\ req = [r \in Reqs |-> Idle]
  /\ made = {}
  /\ overtaken = {}

Doing(r, op) == req[r].op = op
Goes(r, request) == req' = [req EXCEPT ![r] = request]
Begins(r) == Doing(r, "idle") /\ Readable(setting)

(* r has committed: what the others have loaded may be of the past.         *)
Ends(r) ==
  /\ Goes(r, Idle)
  /\ overtaken' = (overtaken \cup {q \in Reqs : req[q].op \in {"put", "setup"}}) \ {r}

(* The application has been created: there is an origin, and a key.        *)
Running == setting[Origin] \notin {Absent, Empty} /\ setting[SecretKey] # Absent

Changed(change) ==
  [k \in Keys |-> IF k \in DOMAIN change THEN change[k] ELSE Load(setting)[k]]

(* Broken: a number that was not sent is taken for a null.                 *)
BeginPutBroken(r, change) ==
  /\ Begins(r) /\ Running
  /\ Goes(r, [op |-> "put", asks |-> DOMAIN change,
              config |-> [k \in Keys |-> IF k \in Numbers \ DOMAIN change THEN Null
                                         ELSE Changed(change)[k]]])
  /\ UNCHANGED <<setting, made, overtaken>>

(* put_settings: change holds the keys that were sent (exclude_unset), with *)
(* their values, and is made in the configuration read for this request.    *)
BeginPut(r, change) ==
  /\ Begins(r) /\ Running
  /\ Goes(r, [op |-> "put", asks |-> DOMAIN change, config |-> Changed(change)])
  /\ UNCHANGED <<setting, made, overtaken>>

(* save reads the rows.                                                    *)
PutReadsRows(r) ==
  /\ Doing(r, "put")
  /\ Goes(r, [op |-> "save", asks |-> req[r].asks, config |-> req[r].config,
              reads |-> setting])
  /\ UNCHANGED <<setting, made, overtaken>>

(* An UPDATE of the rows found with another value, an INSERT of the rows   *)
(* not found, which fails if there is one by now.                          *)
Saves(config, reads) ==
  /\ \A k \in Keys : reads[k] = Absent => setting[k] = Absent
  /\ setting' = [k \in Keys |-> IF config[k] # reads[k] THEN config[k] ELSE setting[k]]

CommitPut(r) ==
  /\ Doing(r, "save")
  /\ Saves(req[r].config, req[r].reads)
  /\ Ends(r)
  /\ UNCHANGED made

(* Broken: a key is made whether there is one or not.                      *)
NeedsKeyBroken == TRUE

(* ensure_secret_key                                                       *)
NeedsKey == Load(setting)[SecretKey] = Empty

(* cmd_setup: the configuration is read, then people answer questions.     *)
BeginSetup(r, text, key) ==
  /\ Begins(r)
  /\ NeedsKey => key \notin made
  /\ LET asked == [Changed([k \in {Origin} |-> text]) EXCEPT
                    ![SecretKey] = IF NeedsKey THEN key ELSE @]
     IN Goes(r, [op |-> "setup", config |-> asked,
                 asks |-> IF NeedsKey THEN {Origin, SecretKey} ELSE {Origin},
                 inserts |-> NeedsKey /\ setting[SecretKey] = Absent])
  /\ made' = IF NeedsKey THEN made \cup {key} ELSE made
  /\ UNCHANGED <<setting, overtaken>>

(* Its save and its commit, with the write lock held since the provider    *)
(* was flushed.                                                            *)
CommitSetup(r) ==
  /\ Doing(r, "setup")
  /\ req[r].inserts => setting[SecretKey] = Absent
  /\ Saves(req[r].config, setting)
  /\ Ends(r)
  /\ UNCHANGED made

(* create_app, in each worker process.                                     *)
BeginStart(r, key) ==
  /\ Begins(r) /\ NeedsKey
  /\ setting[Origin] \notin {Absent, Empty} /\ key \notin made
  /\ Goes(r, [op |-> "start", asks |-> {SecretKey}, key |-> key,
              inserts |-> setting[SecretKey] = Absent])
  /\ made' = made \cup {key}
  /\ UNCHANGED <<setting, overtaken>>

CommitStart(r) ==
  /\ Doing(r, "start")
  /\ req[r].inserts => setting[SecretKey] = Absent
  /\ setting' = [setting EXCEPT ![SecretKey] = req[r].key]
  /\ Ends(r)
  /\ UNCHANGED made

(* Refused, or a statement fails, or the command is interrupted.           *)
Fails(r) ==
  /\ ~Doing(r, "idle")
  /\ Goes(r, Idle)
  /\ overtaken' = overtaken \ {r}
  /\ UNCHANGED <<setting, made>>

Changes ==
  [{Origin} -> Texts] \cup
    UNION {[ks -> Values \cup {Null}] : ks \in SUBSET Numbers}

Next ==
  \E r \in Reqs :
    \/ \E change \in Changes : BeginPut(r, change)
    \/ \E text \in Texts, key \in Secrets : BeginSetup(r, text, key)
    \/ \E key \in Secrets : BeginStart(r, key)
    \/ PutReadsRows(r) \/ CommitPut(r) \/ CommitSetup(r) \/ CommitStart(r) \/ Fails(r)

Spec == Init /\ [][Next]_vars

-----------------------------------------------------------------------------
(* Properties                                                              *)

(* Whoever changes a setting changes what was asked for and nothing else   *)
(* (config.py, "the administration only stores what was actually changed"),*)
(* unless another change was committed between the two reads of save.      *)
OnlyWhatWasAsked ==
  [][\A r \in Reqs \ overtaken : ~Doing(r, "idle") /\ req'[r] = Idle =>
       \A k \in Keys \ req[r].asks : Load(setting)[k] = (Load(setting)')[k]]_vars

(* The signing key is stored once, however many setups and starts overlap  *)
(* and whatever stale configuration is saved: each worker process keeps    *)
(* the key it has read, and sign-ins under way depend on it.               *)
SecretStays ==
  [][setting[SecretKey] # Absent => setting'[SecretKey] = setting[SecretKey]]_vars

(* The service can read its settings, otherwise it answers nothing at all, *)
(* the administration included.  The code does not keep this: see the      *)
(* README, disagreements.                                                  *)
SettingsCanBeRead == Readable(setting)
=============================================================================

----------------------------- MODULE Migrations -----------------------------
(***************************************************************************)
(* `migrate` and `setup` bring the database to the newest revision: seven  *)
(* scripts, statement by statement, on SQLite.                             *)
(*                                                                         *)
(* Alembic runs each script in a transaction of its own, but Python's      *)
(* driver opens one only before the first statement that writes rows.      *)
(* What changes the schema before that is committed at once and stays when *)
(* the script fails or the process ends; what follows is rolled back.      *)
(* A table that SQLite cannot alter is rebuilt: a new one is created, the  *)
(* rows are copied, the old one is dropped and the new one renamed.        *)
(***************************************************************************)
EXTENDS Naturals, Sequences

CONSTANTS
  Accounts,       \* accounts of a database of version 2.0.0
  Providers,      \* identity providers of that database
  Mails,          \* addresses, in lower case
  NoProvider, NoMail, Absent,
  NoFile, NoPort, \* no config.toml; one that names no port
  OldPort, NewPort, OtherPort,
  MaxCrashes      \* bound: how often the process ends in between

Row == [provider : Providers \cup {NoProvider}, mail : Mails \cup {NoMail},
        admin : BOOLEAN, active : BOOLEAN]
Entry == [provider : Providers, mail : Mails, admin : BOOLEAN]
Files == {NoFile, NoPort, OldPort, OtherPort}

ASSUME MigrationsAssumption ==
  /\ NoProvider \notin Providers /\ NoMail \notin Mails /\ Absent \notin Row
  /\ OtherPort \notin {NoFile, OldPort}
  /\ MaxCrashes \in Nat

VARIABLES
  stored,   \* the committed database
  work,     \* the database as the open transaction sees it
  open,     \* there is an open transaction
  at,       \* the next statement of the script; 0 when none is being run
  file,     \* config.toml
  crashes,  \* how often the process has ended in between
  found     \* history: the database that was found at first

vars == <<stored, work, open, at, file, crashes, found>>

-----------------------------------------------------------------------------
(* The scripts.  The schema is a set of tables <<t>> and of those columns  *)
(* <<t, c>> that are not there from first to last.                         *)

Create(what) == <<[do |-> "create", what |-> what]>>
Fill(t, c) == <<[do |-> "fill", what |-> {<<t, c>>}]>>
Rows(name) == <<[do |-> name]>>
DropTable(t) == <<[do |-> "drop", what |-> {<<t>>}]>>
Columns(t, cs) == {<<t, c>> : c \in cs}

Temporary(t) == <<"_alembic_tmp", t>>

(* Broken: the old table stays behind under the temporary name.            *)
RebuiltBroken(t, lost, new) ==
  Create({Temporary(t)})
    \o <<[do |-> "copy"], [do |-> "rename", what |-> {}, lost |-> lost, new |-> new]>>

Rebuilt(t, lost, new) ==
  Create({Temporary(t)})
    \o <<[do |-> "copy"], [do |-> "drop", what |-> {<<t>>}],
         [do |-> "rename", what |-> {Temporary(t)}, lost |-> lost, new |-> new \cup {<<t>>}]>>

LocalLogin == {"password_hash", "must_enroll_passkey", "enroll_expires_at"}

InitialSchema ==
  Create({<<"provider">>}) \o Create({<<"group">>})
    \o Create({<<"user">>} \cup Columns("user", LocalLogin))
    \o Create({<<"audit_log">>}) \o Create({<<"ix_audit_log">>})
    \o Create({<<"backup_code">>}) \o Create({<<"credential">>})
    \o Create({<<"session">>, <<"session", "enrollment_only">>})
    \o Create({<<"user_group">>}) \o Create({<<"vault">>}) \o Create({<<"generation">>})
    \o Create({<<"vault_access">>}) \o Create({<<"vault_lock">>})

(* failed_attempts has no default: SQLite adds it to an empty table only.  *)
Throttling ==
  Create({<<"webauthn_challenge">>}) \o Fill("user", "failed_attempts")
    \o Create({<<"user", "locked_until">>})

GenerationCounter ==
  Create({<<"vault", "next_generation">>}) \o Rebuilt("vault", {}, {})

IdsCountUpwards == Rebuilt("user", {}, {}) \o Rebuilt("group", {}, {})

SessionsKnow == Create({<<"session", "strong_auth">>})

(* Broken: what is no longer wanted is removed first.                      *)
IdentityFromProviderBroken ==
  DropTable("webauthn_challenge") \o DropTable("backup_code") \o DropTable("credential")
    \o Create({<<"setting">>}) \o Rows("import")
    \o Create({<<"allowlist">>}) \o Rows("list") \o Rows("disable") \o Rows("signout")

IdentityFromProvider ==
  Create({<<"setting">>}) \o Rows("import")
    \o Create({<<"provider", "kind">>}) \o Create({<<"provider", "tenant">>})
    \o Create({<<"provider", "is_primary">>}) \o Create({<<"provider", "sync_groups">>})
    \o Create({<<"allowlist">>}) \o Rows("list")
    \o Rebuilt("group", {}, Columns("group", {"source", "external_id", "last_synced_at"}))
    \o Rows("disable")
    \o Rebuilt("user", Columns("user", LocalLogin \cup {"failed_attempts", "locked_until"}), {})
    \o Rows("signout")
    \o Rebuilt("session", Columns("session", {"enrollment_only", "strong_auth"}), {})
    \o DropTable("webauthn_challenge") \o DropTable("backup_code") \o DropTable("credential")

DefaultPort == Rows("port")

Scripts == <<InitialSchema, Throttling, GenerationCounter, IdsCountUpwards,
             SessionsKnow, IdentityFromProvider, DefaultPort>>
Newest == Len(Scripts)
Version2 == 5  \* the newest revision of version 2.0.0

(* The last statement of each script enters its revision.                  *)
Script(k) == Scripts[k] \o Rows("version")

-----------------------------------------------------------------------------
(* What a statement does                                                   *)

(* Broken: only those who may sign in now are carried over.                *)
CarriedBroken(users) ==
  {u \in Accounts : /\ users[u] # Absent /\ users[u].active
                    /\ users[u].provider # NoProvider /\ users[u].mail # NoMail}

(* The accounts that get an entry of the allowlist.                        *)
Carried(users) ==
  {u \in Accounts : /\ users[u] # Absent
                    /\ users[u].provider # NoProvider /\ users[u].mail # NoMail}

EntryOf(row) == [provider |-> row.provider, mail |-> row.mail, admin |-> row.admin]

(* Two of them would have one address.                                     *)
Twins(users) ==
  \E u, v \in Carried(users) :
    u # v /\ users[u].provider = users[v].provider /\ users[u].mail = users[v].mail

(* A statement that writes rows opens a transaction; without a config.toml *)
(* there is nothing to import.                                             *)
Opens(s) ==
  \/ s.do \in {"copy", "list", "disable", "signout", "port", "version"}
  \/ s.do = "import" /\ file # NoFile

(* Otherwise the statement fails.  The table of accounts must be empty for *)
(* a column without a default; two entries may not have the same address.  *)
Possible(s, db) ==
  /\ s.do \in {"create", "fill"} => s.what \cap db.objects = {}
  /\ s.do = "fill" => \A u \in Accounts : db.users[u] = Absent
  /\ s.do \in {"drop", "rename"} => s.what \subseteq db.objects
  /\ s.do = "list" => ~Twins(db.users)

Imported(toml, db) == IF toml = NoFile THEN db.port ELSE toml

Disabled(users) ==
  [u \in Accounts |->
     IF users[u] # Absent /\ users[u].provider = NoProvider
       THEN [users[u] EXCEPT !.active = FALSE] ELSE users[u]]

(* What a statement makes of db, the file being toml.                      *)
Effect(toml, s, db) ==
  CASE s.do \in {"create", "fill"} -> [db EXCEPT !.objects = @ \cup s.what]
    [] s.do = "drop" -> [db EXCEPT !.objects = @ \ s.what]
    [] s.do = "rename" -> [db EXCEPT !.objects = (@ \ (s.what \cup s.lost)) \cup s.new]
    [] s.do = "copy" -> db
    [] s.do = "import" -> [db EXCEPT !.port = Imported(toml, db)]
    [] s.do = "list" -> [db EXCEPT !.list = {EntryOf(db.users[u]) : u \in Carried(db.users)}]
    [] s.do = "disable" -> [db EXCEPT !.users = Disabled(@)]
    [] s.do = "signout" -> [db EXCEPT !.signedIn = FALSE]
    [] s.do = "port" -> [db EXCEPT !.port = IF @ = OldPort THEN NewPort ELSE @]
    [] s.do = "version" -> [db EXCEPT !.rev = @ + 1]

(* db after each of a script's statements, nothing coming in between, and  *)
(* after the script.                                                       *)
Run(toml, db, k) ==
  LET run[n \in 0..Len(Script(k))] ==
        IF n = 0 THEN db ELSE Effect(toml, Script(k)[n], run[n - 1])
  IN run
After(toml, db, k) == Run(toml, db, k)[Len(Script(k))]

(* db at revision k.                                                       *)
Upgraded(toml, db, k) ==
  LET upTo[n \in 0..Newest] == IF n <= db.rev THEN db ELSE After(toml, upTo[n - 1], n)
  IN upTo[k]

Empty == [rev |-> 0, objects |-> {}, users |-> [u \in Accounts |-> Absent],
          list |-> {}, signedIn |-> FALSE, port |-> NoFile]
Built == Upgraded(NoFile, Empty, Version2)

-----------------------------------------------------------------------------
(* A new installation, or a database of version 2.0.0.                     *)
Init ==
  /\ \/ stored = Empty
     \/ \E users \in [Accounts -> Row \cup {Absent}], signedIn \in BOOLEAN :
          stored = [Built EXCEPT !.users = users, !.signedIn = signedIn]
  /\ file \in Files
  /\ work = stored /\ open = FALSE /\ at = 0 /\ crashes = 0
  /\ found = stored

(* cmd_migrate and cmd_setup: the database is behind.                      *)
Start ==
  /\ at = 0 /\ stored.rev < Newest
  /\ at' = 1 /\ work' = stored
  /\ UNCHANGED <<stored, open, file, crashes, found>>

Statement == Script(stored.rev + 1)[at]

(* Within a transaction, or committed at once.                             *)
Execute ==
  /\ at > 0 /\ at < Len(Script(stored.rev + 1))
  /\ Possible(Statement, work)
  /\ work' = Effect(file, Statement, work)
  /\ open' = (open \/ Opens(Statement))
  /\ stored' = IF open' THEN stored ELSE work'
  /\ at' = at + 1
  /\ UNCHANGED <<file, crashes, found>>

(* The revision is entered and the transaction committed; the next script  *)
(* follows.                                                                *)
Commit ==
  /\ at > 0 /\ at = Len(Script(stored.rev + 1))
  /\ work' = Effect(file, Statement, work)
  /\ stored' = work' /\ open' = FALSE
  /\ at' = IF stored'.rev < Newest THEN 1 ELSE 0
  /\ UNCHANGED <<file, crashes, found>>

RollBack == work' = stored /\ open' = FALSE /\ at' = 0 /\ UNCHANGED <<stored, file, found>>

(* A statement fails; the command ends with its error.                     *)
Refused ==
  /\ at > 0 /\ ~Possible(Statement, work)
  /\ RollBack /\ UNCHANGED crashes

(* The process is stopped.                                                 *)
Crash ==
  /\ at > 0 /\ crashes < MaxCrashes
  /\ RollBack /\ crashes' = crashes + 1

Next == Start \/ Execute \/ Commit \/ Refused \/ Crash

Spec == Init /\ [][Next]_vars

(* Whoever runs the service tries again until it starts.                   *)
FairSpec == Spec /\ WF_vars(Start) /\ WF_vars(Execute \/ Commit \/ Refused)

-----------------------------------------------------------------------------
(* Properties                                                              *)

Bound(row) == row.provider # NoProvider

TypeOK ==
  /\ stored.rev \in 0..Newest /\ work.rev = stored.rev
  /\ stored.users \in [Accounts -> Row \cup {Absent}]
  /\ stored.list \subseteq Entry
  /\ open \in BOOLEAN /\ at \in Nat /\ crashes \in 0..MaxCrashes
  /\ ~open => work = stored

(* A script that fails or is stopped at any statement loses nothing: the   *)
(* rows are those of the revision that is entered, and the schema has all  *)
(* that this revision has; new tables and columns may have come.  So the   *)
(* version it was made for still works, and `start` decides by the         *)
(* revision alone.                                                         *)
AllOrNothing ==
  LET want == Upgraded(file, found, stored.rev) IN
  /\ want.objects \subseteq stored.objects
  /\ [stored EXCEPT !.objects = {}] = [want EXCEPT !.objects = {}]

(* SEC-48: at the end the bound accounts are listed with their rights, the *)
(* others are disabled, everybody is signed out, the credentials are gone  *)
(* and a config.toml has been imported.                                    *)
CarriedOver ==
  stored.rev = Newest =>
    /\ \A u \in Accounts : found.users[u] # Absent =>
         LET row == found.users[u] IN
         /\ Bound(row) /\ row.mail # NoMail => EntryOf(row) \in stored.list
         /\ ~Bound(row) => ~stored.users[u].active
         /\ Bound(row) => stored.users[u] = row
    /\ ~stored.signedIn
    /\ stored.objects \cap {<<"credential">>, <<"backup_code">>, <<"webauthn_challenge">>} = {}
    /\ file = OtherPort => stored.port = OtherPort

(* Whoever keeps running `migrate` gets the newest revision, unless the    *)
(* process was stopped half way, which may leave a table that the next     *)
(* attempt creates once more, or two accounts have one address.            *)
MigrationEnds == <>(stored.rev = Newest \/ crashes > 0 \/ Twins(found.users))
=============================================================================

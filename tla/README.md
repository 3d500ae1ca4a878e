# Verification of mmo_vault

mmo_vault is a password vault that is encrypted in the browser. A small FastAPI
service keeps the encrypted files, hands them out to signed-in people, keeps a
history of every save and coordinates who may edit. The service never sees a key;
what it must get right is that *no save is lost, no confirmed state disappears, and
two people do not work past each other*, and that nobody opens what was not granted
to them. That is what this project is about. It holds TLA+ models of the service and of
the tab that edits, TLC runs that check them on small instances, and TLAPS proofs of
the most important properties for instances of any size.

Paths are relative to the repository (`src/`); `vault_api.py` stands for
`mmo_vault/server/routers/vault_api.py`, likewise `admin_api.py` and `oidc.py`, other
Python files for those in `mmo_vault/server/`, `server.js` for
`mmo_vault/server/static/server.js`, and `mmo_vault.html` for
`mmo_vault/public_html/mmo_vault.html`.

## 1. Inventory

### Components

| component | state | operations | what makes it correct |
| --- | --- | --- | --- |
| Vault locks (`vaults.py` 73-137, `vault_api.py` 359-447) | one row per vault: holder, token, deadline | acquire, renew, release, beacon, look (clears an expired row), break | one holder at a time; a token is personal; a lost lock is noticed |
| Vault content (`vault_api.py` 269-353, 496-537, `storage.py`) | the current file, ETag in the vault row | read, write with lock and If-Match, restore, delete the vault | no lost update; file and row agree or somebody was told; a deleted vault is gone |
| History (`history.py`, `vault_api.py` 453-567) | a file and a row per generation, a counter in the vault row | keep, list, fetch, drop one, drop many | confirmed generations stay; a number stands for one content for ever |
| Unit of work (`routing.py`, `db.py`, `deps.py`, `app.py` 117-140) | a session per request, SQLite's write lock | commit before the answer, rollback on error, 503 when busy | a commit is on the event loop; nothing is confirmed before it is committed; every request ends |
| Server adapter in the browser (`server.js`, `mmo_vault.html` 2999-3213, 3337-3488, 3636-3967) | token and timer per vault, ETag per opened vault, entries, dirty flag | open, unlock, edit, save, heartbeat, conflict and fallback dialogues, lock the application, beacon | a save is sent with what was really opened; no silent overwrite; what is shown as saved is saved |
| Accounts (`oidc.py`, `admin_api.py`, `sessions.py`) | providers, allowlist, accounts, sessions | sign in, (de)list, promote, disable, delete, revoke | rights follow the list; a session is its owner's; an administrator remains; so does a primary provider |
| Access (`vaults.py` 29-67, `vault_api.py` 230-263, `admin_api.py` 426-560) | shares of accounts and groups, memberships | replace shares, effective permission, group changes | the wider share wins, no administrator shortcut, nobody inherits a share, no row refers to a deleted one |
| Group sync (`sync.py`, `oidc.py` 173-189) | mirrored groups | fetch (awaits, page by page), apply | failure changes nothing; only this provider's groups change; it ends |
| Hooks (`hooks.py`, `vault_api.py` 352, 537) | none | run every script after a save | never before the answer; all of them; nothing older than the save |
| Settings (`config.py`, `admin_api.py` 563-624) | a row per key | load, save, make the signing key | the key stays; a change changes what was asked for |
| Migrations (`migrations/versions/`, `migrations.py`, `cli.py`) | the schema and its revision | seven scripts, statement by statement | no row is lost, what should be carried over is, it ends |
| Records in the browser (`mmo_vault.html`) | entries, versions, trash, attachments | edit, restore, delete, fold into a file | version numbers grow, nothing referenced is dropped |
| Local files (`mmo_vault.html`) | a file handle | write, verify, roll back | the previous content survives a failed write |
| Cryptography, TOTP, Markdown, import and export, views, pages | none that lasts | computation and rendering | |

### How they interact

* The service is one process with one event loop and a pool of worker threads.
  Handlers written with `def` run in a thread; `write_content` alone is `async` and
  runs on the loop. *Every* commit runs on the loop (`routing.py` 30-36), also the
  one of a threaded handler. A commit is a synchronous call: while it waits for
  SQLite, the loop stands still.
* `write_content` gives the loop up in one place, while it waits for the body
  (`vault_api.py` 302). From there to its own commit nothing else on the loop runs,
  but the reads and file operations of threads do.
* SQLite lets one transaction write at a time. A transaction is opened by the first
  statement that writes and ends with the request. Another writer waits up to five
  seconds (`db.py` 49) and then gets an error that `app.py` 117-140 turns into 503.
  Reads outside a transaction always see the last commit.
* Files are not part of any transaction: they are replaced before the commit.
* The tabs keep a lock token and an ETag; they learn of changes only from the
  answers to their own requests.
* A tab has one thread and one global `state`. Nearly every handler awaits something
  (keys, encryption, pickers, files, answers), and others run in between.
* Accounts come into being by signing in. `callback` reads the allowlist, may write an
  account, waits for the provider's groups and commits only then.
* Backup scripts run after the answer, in the pool of threads that every request needs
  for its dependencies.

### What is hard, and where

The `hazards` of `PROJECT.json` list it line by line: decisions about a row that are
carried out on another row, because statements address rows by primary key only; rows
loaded before a wait and used after; checks of an invariant over several rows (the last
administrator, the primary provider) in reads that no transaction protects; file steps
before a commit that fails, waits, or never comes; ids that come back; deletion beside
writing; a commit that blocks the loop its blocker needs; edits made while a save is under
way, and a source that is another one when the save is ready; retries of requests that had
an effect; scripts and migrations stopped half-way.

## 2. Modules

| module | what it is | its instance | its proofs |
| --- | --- | --- | --- |
| `VaultLocks` | the lock of one vault: row, requests, tabs, clock | `MCVaultLocks` | `VaultStoreProofs` |
| `VaultStore` | extends `VaultLocks` with the content of the vault: files, rows, content requests, event loop, write lock | `MCVaultStore` | `VaultStoreProofs` |
| `VaultHistory` | the abstract promise of the store: a current content and an append-only numbered log | | |
| `VaultWorkers` | the saves of one vault in several worker processes | `MCVaultWorkers` | `VaultWorkersProofs` |
| `EditSession` | one browser tab over a server that does what `VaultStore` promises | `MCEditSession` | `EditSessionProofs` |
| `Accounts` | providers, allowlist, accounts, sessions | `MCAccounts` | `AccountsProofs` |
| `Access` | shares, groups, memberships, mirrored groups | `MCAccess` | `AccessProofs` |
| `GroupFetch` | the fetch of the groups during a sign-in | `MCGroupFetch` | `AccessProofs` |
| `BackupHooks` | scripts, the pool of threads | `MCBackupHooks` | `BackupHooksProofs` |
| `Settings` | settings rows, configuration, signing key | `MCSettings` | `SettingsProofs` |
| `Migrations` | the migration scripts on SQLite | `MCMigrations` | `MigrationsProofs` |

### VaultLocks

State: `lock` is the committed row of `vault_lock` (or `NoLock`), `held` the token
that each tab's adapter keeps (`locks` in `server.js`), `lockReq` the lock requests
in flight. A request is two steps, as in the code. `LoadAcquire`, `LoadRenew`,
`LoadRelease`, `LoadLook` and `LoadBreak` are the handlers: each reads the row once
and decides on a statement. `LockCommit` carries the statement out at the commit and
lets the answer reach the tab; `LockFail` is a statement that does not apply (500)
or a busy database (503). The four statements are those the ORM makes of the code:

* `insert`: a lock where no row was read. The primary key refuses a second one.
* `switch`: deleting an expired row and adding a new one with the same primary key
  in one session, which SQLAlchemy turns into an UPDATE of all columns.
* `extend`: an UPDATE of the deadline.
* `delete`: removes the row, and lets it pass if there is none any more.

All of them say `WHERE vault_id = ?` and nothing else. That is the source of the
hazards of this module: the row they change need not be the row that was read.

The deadline is one bit, `live`; `Expire` may clear it at any moment. So no
assumption about the TTL is made for safety. `Fresh` models the random token:
different from every token that is remembered anywhere. `TabVanishes` covers closed
tabs without a beacon, and answers that never arrive.

A refused request (409, 403, 404) changes nothing and is no step; only a refused
heartbeat is one, because the adapter then forgets the lock (`server.js` 70-79).

### VaultStore

State: `file`, `gen` (the current file and the generation files), `vault` and `rows`
(the committed rows), `base` (the ETag each tab will send as If-Match), `req` (the
content requests with what they have read), `loop` (the save that occupies the event
loop), `writer` (whose transaction has SQLite's write lock). Four history variables
record what has happened for the properties' sake and guard nothing: `kept`,
`refused`, `condemned`, `purged`; `sent` counts saves and numbers their contents.

Every request is a sequence of phases; a phase ends where the code can be
interrupted or where it has an effect that others see:

| request | phases (actions) | code |
| --- | --- | --- |
| save | `BeginSave`, `CheckLock` (or `RejectBody`), `Compare`, `Replace`, `Keep`, `Commit` | `write_content` |
| restore | `BeginRestore`, `Fetch`, `Replace`, `Keep`, `Commit` | `restore_generation` |
| drop | `BeginDrop`, `Unlink`, `ForgetRows` | `delete_generation`, `delete_history` |
| delete | `BeginDelete`, `EraseHistory`, `EraseFile`, `ForgetVault` | `delete_vault`, `storage.delete` |

Any commit may instead be `CommitRefused` (the flush fails: number taken, vault row
or lock row gone) or `CommitBusy` (somebody else's transaction); any file step may
end in `StorageFails`; `Restart` may happen at any moment. Lock requests go on as
`LockStep`, with what the vault adds to them: the foreign key, the loop, the busy
database. `OtherWrites` and `OtherCommits` stand for all other requests that hold
the write lock for a while.

Abstractions, each with its reason:

* A content is a number; the ETag is the content. Two saves never have equal
  content, because the browser encrypts with fresh random values; a restored content
  equals the generation it comes from, and its ETag with it. This is what SHA-256
  gives up to collisions.
* `storage.write` and `write_generation` are one step each: a temporary file and
  `os.replace`. A failure before the replacement leaves nothing that is ever read.
* Permissions, sign-in and the audit log are left out: they add refusals before the
  first step, and rows that nothing here reads.
* Generation rows carry the content they describe (`sha256` in the code).
* `read_generation` looks at the file only, as the code does (`vault_api.py` 486,
  526), so `Fetch` may find a file without a row.

**The assumption NobodyEdits.** The comment of `restore_generation` says "nobody may
be editing while it happens". The code demands the lock for it, and a person's tabs
share one lock. With `NobodyEdits = TRUE` a save and a restore are not in flight
together, nor two restores; that is the condition under which the properties hold.
With `FALSE` the model does what the code does, see disagreement 2.

### VaultHistory

Four kinds of steps: the current content changes, the current content is entered
into the log under the next number, somebody asks for generations to be deleted and
they disappear (only those, in any portions), somebody asks for the vault to be
deleted (and all bets are off). `VaultStore` implements it with the mapping
`Promise`: what can be listed *and* fetched is the log. So between `Replace` and
`Commit` the new content is current and not yet logged; a failure there is a `Put`
without its `Record`, which is visible in the abstract specification as well.

### VaultWorkers

State: files, rows and vault row as in `VaultStore`, and `loop`, the save that occupies
the event loop *of each process*. The mutex of `write_content` (`vault_api.py` 48) lives
in a process, the settings allow up to 64 (`admin_api.py` 99), the constraint
`uq_generation_seq` and SQLite's write lock are common to all. A save goes through
`BeginSave`, `BodyComes`, `Compare`, `Replace`, `Keep` and `Commit`, or `Fails` after any
of these, also when its files are written and the commit meets a busy database or the
process is stopped; a flush that does not apply (`FlushApplies`) ends it as well. `kept`
(confirmed saves) and `origin` (the process each content was sent to) are history. Locks
are left out: all saves carry the token of one person, whom the lock never refuses;
deletions and restores are the subject of `VaultStore`.

### EditSession

State: what the tab of `mmo_vault.html` has in memory: `view`, `source` (with `session`,
which of the source objects it is, and `seen`, what that object knows), the content the
password is asked for (`pending`), `memory` (the entries), `dirty`; what is under way:
`opening`, `unlocking` and the saves. A content is the set of edits it contains, so
"nothing was overwritten" is a statement about sets. The server is reduced to the
comparison of ETags, which is what `SavesReplaceTheirBase` shows of it; `OthersWrite`
adds the edits of other people.

A handler is cut wherever it awaits something that takes its time:

| handler | phases (actions) |
| --- | --- |
| `openServerVault` | `StartOpening`, then `OpenServerVault` or `OpenFails` |
| unlocking, a new vault | `TryUnlockPendingVault` or `CreateVault`, then `Unlocked` or `WrongPassword` |
| `saveToFile` | `SaveToFile` (the text is what `memory` has), `EncryptionFails` |
| ... to the server | `SaveToServer` (source and ETag *as they are by then*), `WriteContent`, `AnswerOK`, `AnswerConflict`, `AnswerOtherwise` |
| ... to a file | `SaveLocally`, `FilePicked` or `PickCancelled`, `FileWritten` or `FileFails`, `FallbackPick` or `FallbackCancel` |
| conflict | `ConflictCancel`, `ConflictSaveAs`; reloading is `Lock` |

`Edit`, `Lock`, `OpenFile` and `ShowFileStep` may come between any two of them. `Written`
is the end of a save: the flag of *whatever is open by then* is cleared, or the
application locked. `GivenUp` and `Unsaved` are the fallback that gives a source up for a
file and takes it back. History are `saved`, `loaded`, `hurried` (edits made while a save
or an unlock was under way) and `mixed` (sources that were sent what was not read from them).

Not told apart: the awaits within the encryption of one text (`mmo_vault.html` 3663-3712),
whose first one is behind the snapshot of the entries; the raising of an old key within
`Unlocked`; an answer of a stale ETag that is known to be refused already (`Refused`).
A local file has no content of its own: what it gets is `saved`.

### Accounts

State: the committed rows of `provider`, `allowlist`, `user` and `session`, the requests
in flight with what they have read, and `writer`, whose transaction has SQLite's write
lock. A request reads outside any transaction, at its start, and decides; what it writes
is an UPDATE of the columns it has given another value, by primary key (`Changed`,
`Update`). So most requests are two steps, `Begin...` and `Commit...`: between them
anything may be committed. Requests that write before their end take the write lock in a
step of their own:

* sign-in: `admit` ends in `AdmitKnown` or `AdmitNew`, or denies the sign-in (`Fails`). A
  new row is flushed for its id, so `AdmitNew` holds the write lock while the groups are
  fetched. `SignedIn` is the commit with the session.
* setup: `BeginSetup` reads, `SetupProvider` flushes the provider, people are asked for
  an address (one in the model), `CommitSetup` commits.

`Fails` is a statement that does not apply (a foreign key, a name or an address that is
taken) or a busy database; it writes nothing. Providers are known by their ids, as the
names matter in `Fails` only. New rows get the id after the highest one there is
(`Follows`), so that of a deleted account comes back: the last migration (`a1c0de5e2100`
119) has rebuilt the table without AUTOINCREMENT.

Requests overlap in any way, and the code does not keep every claim then. History tells
which one: the field `who` of a session, and `raced`. At each commit `Overtaken` notes the
claims that this commit has taken away under a request still in flight, each in one line:

* *primary*: the primary flag was moved, and the other request makes primary what it has
  read as primary, or disables or deletes what it has read as not primary, or is a `setup`
  that has read another one;
* *list*: both take an administrator off the list, each relying on the other's entry;
* *owner*: an account was deleted that the other request is signing in to;
* *rights*: the account of an entry was changed while it signs in or the other way round,
  two sign-ins of one account overlap, or one entry is removed while another request
  removes or demotes it.

Each property excepts its own claim and nothing else. So they say two things: what always
holds, and that these overlaps are *all* there is to it. Each line of `Overtaken` was shown
to be needed by leaving it out: TLC then finds the property violated.

### Access

State: vaults, accounts, groups, `members`, `shares` and the requests in flight. Shares
refer to a subject by its bare id, and are set by its name; a list of members is written
as the difference to what was read (`Rewrites`). `EffectivePermission` is
`effective_permission`. `Apply` is `apply` of the synchronisation: it takes the reported
groups in the provider's order, on the loop without giving it up, in the step
`SignInWithGroups`, with `FreeName` for a name that is taken. The schema is that of the
migrations: names are unique, and foreign keys hold between memberships and their
subjects, but ids come back (`Follows`, disagreement 9). History are `whose` (the person
or group that a share was meant for) and `lost`: whether that was deleted before the share
was written, or, of a list of members or a sign-in, whether the group or the account it is
about was deleted under it. `Strays` says which memberships such a request may change.
Each exception was shown to be needed by leaving it out.

### GroupFetch

One sign-in: pages are asked for one after the other; the provider may answer with a page
that links anywhere, with an error, with JSON of another shape, or not in time (httpx's
timeout is for one read; a provider that sends for ever, a byte at a time, is left out).
`before` (the mirror at the start) and `looped` are history. Its definitions have names of
their own (`FetchInit`, `FetchSpec`), as `AccessProofs` extends it beside `Access`. What
`apply` does with the result is in `Access`.

### BackupHooks

A request waits for a thread of the pool (its dependencies), loads the number of its
generation, writes, is committed, and hands its run to the pool, where it keeps a thread
until its last script has ended. Saves write on the loop, one after the other; restores
(`Restores`) write in a thread of their own, beside saves and each other, so a file may be
replaced by a restore that is refused at its commit. `RunScript` covers success, failure
and time-out of a script: `hooks.py` goes on with the next one in each case. `RunRaises`
is output that cannot be decoded, which ends the run. `ran`, `lost` (runs a restart has
cut off) and `raised` are history. Whether a file counts as a script is not modelled: their
number is arbitrary.

### Settings

`Load` is what `config.load` makes of the rows, and happens at the start of every
request; `save` reads the rows *again* and writes those that differ. So a PUT is three
steps: `BeginPut`, `PutReadsRows`, `CommitPut`. `setup` and the start of each worker make the
signing key if they find none (`NeedsKey`). An explicit null becomes the text `None`.
`made` and `overtaken` are history.

### Migrations

The scripts are sequences of statements; Python's driver opens a transaction only before
a statement that writes rows, so schema changes before it are committed at once, and stay
when the script fails. `Rebuilt` is Alembic's batch mode: create, copy, drop, rename. A
database of version 2.0.0 is a set of accounts with a provider, an address and flags,
each of which may be missing. `Crash` may happen anywhere, `MaxCrashes` times. `found`
is history.

## 3. Runs

The bounds are chosen so that each hazard's whole scenario fits.

| run | instance | checks | states |
| --- | --- | --- | --- |
| `VaultLocks` | 2 people, 3 tabs, 2 requests, 3 tokens, fairness | `LockTypeOK`, `TokenIsPersonal`, `LostLockIsNoticed` | 103,000 |
| `VaultStore` | 2 people with a tab each, 2 content requests, 1 lock request, 2 tokens, 2 saves, 2 generations | `TypeOK`, `ConfirmedIsKept`, `NumbersAreNeverReused`, `GoneIsGone`, `KeepsItsPromise`, `SavesReplaceTheirBase` | 1,240,000 |
| `VaultStoreLive` | 1 tab, 1 save, 1 generation, restores unrestricted, fairness | `RequestsEnd` | 129,000 |
| `VaultWorkers` | 2 processes, 3 overlapping saves, 4 saves in all | `OneWinner`, `ConfirmedIsKept` | 50,000 |
| `EditSession` | 2 vaults and local files, 2 saves, 2 edits, 2 writes of each vault, 2 sources chosen | `TypeOK`, `CleanIsSaved`, `NothingIsOverwritten` | 5,140,000 |
| `Accounts` | 2 overlapping requests about people, 2 addresses, 2 people, 1 provider, 2 entries, 2 accounts, 2 sessions | `TypeOK`, `SessionsAreTheirOwners`, `AnAdminIsListed`, `RightsFollowTheList` | 1,690,000 |
| `AccountsProviders` | 2 overlapping requests about 3 providers, 1 person, 2 entries | `APrimary`, `AtMostOnePrimary`, `PrimaryStays` | 906,000 |
| `Access` | 2 overlapping requests, 1 vault, 2 people, 2 external groups, 2 names, 2 accounts, 2 groups | `NobodyInherits`, `SharesHaveSubjects`, `MembersExist`, `MirrorsFindNames`, `MirrorsFollowTheProvider` | 410,000 |
| `GroupFetch` | 3 pages, 4 rounds, 2 groups, fairness | `WholeOrNothing`, `SignInEnds` | 20,000 |
| `BackupHooks` | 2 saves and a restore, 2 scripts, 2 threads, 1 restart, fairness | `TypeOK`, `OnlyAfterTheAnswer`, `NothingOlder`, `EveryScriptRuns` | 160,000 |
| `Settings` | 3 overlapping changes, setups and starts, 3 keys made | `TypeOK`, `SecretStays`, `OnlyWhatWasAsked` | 870,000 |
| `Migrations` | a new database, and each of version 2.0.0 with up to 2 accounts; 2 crashes, fairness | `AllOrNothing`, `CarriedOver`, `MigrationEnds` | 490,000 |

What each property says, and why the bounds reach it:

* `TokenIsPersonal`: a token names only its owner's lock. An expired row, a request that
  saw it and another one that takes or extends it meanwhile.
* `LostLockIsNoticed`: a broken or replaced lock is noticed by its tab, although its
  heartbeats may fail.
* `SavesReplaceTheirBase`: no lost update. It needs two saves from one base, of two
  people, with the lock moving from one to the other between check and write.
* `ConfirmedIsKept`: what was answered with 200 stays, row and file, until somebody
  sets out to delete it, through failed saves, restarts and half-done deletions. Two
  numbers suffice: one confirmed, one that a failed or stale request tries to take. In
  `VaultWorkers` the property of that name says: the row stays, and the file, unless a
  save of another process has replaced it.
* `NumbersAreNeverReused`: no number is confirmed twice with different contents,
  also after deletion. Needs a save, the deletion of its generation, another save.
* `KeepsItsPromise`: the refinement of `VaultHistory`.
* `GoneIsGone`: nothing brings rows of a deleted vault back.
* `RequestsEnd`: each request past its body comes to an end. The danger is the loop
  that waits in a commit for a transaction whose owner needs the loop.
* `OneWinner`: also with a mutex per process, of several saves based on one content at
  most one is confirmed; the constraint on the numbers sees to it. Three saves, so that
  one can be confirmed between two others' steps.
* `CleanIsSaved`: while a vault is open and not shown as unsaved, every edit in memory is
  in some content of the server or a file, except those made while a save or an unlock
  was under way. `NothingIsOverwritten`: an edit in a vault never disappears from it, with
  the same exception, and that of a source that is sent what was not read from it
  (disagreements 16 and 17). Two saves, so that the answer of one changes the ETag
  the other is sent with; two writes, one of which is somebody else's; two vaults and two
  choices of a source, so that a save begun in one meets the other.
* `SessionsAreTheirOwners`: a session belongs to the account of the person who signed in,
  also when accounts are deleted and made while the sign-in waits, and their ids come
  back; unless that very account was deleted under it (claim *owner*). Two people and two
  accounts: one id is given away again while somebody who had it, or has it, signs in.
* `AnAdminIsListed`, `RightsFollowTheList`: an administrator remains listed, and who has a
  usable session is on the list with the rights it states (claims *list* and *rights*). Two
  entries, two addresses and two people, so that addresses change hands while requests
  look for the account of an entry; `setup` beside the service is included.
* `AtMostOnePrimary`, `APrimary`, `PrimaryStays`: one provider is primary, nobody disables
  or deletes it (claim *primary* for the latter two). Three providers and two overlapping
  requests: one that loses the flag, one that gets it, one that is asked to have it.
  `setup` is not in this run: beside the service it can make a second primary provider,
  which nobody promises to exclude.
* `NobodyInherits`: an account may open exactly what was granted to its person or a group
  of its. `SharesHaveSubjects`, `MembersExist`: no share or membership refers to a deleted
  row. A share that was written after its subject had been deleted is excepted from the
  first two (`lost`, disagreements 8 and 9), and from nothing else. Needs a subject, its
  deletion, and a new one under its id, with a share or a list under way.
* `MirrorsFindNames`: no sign-in fails because a mirrored group finds no name, whatever
  groups of that name there are. `MirrorsFollowTheProvider`: a mirrored group's members
  change by sign-in and by what deletes them, not by hand; except through a list, or a
  sign-in, whose group or account was deleted under it (disagreement 9).
* `WholeOrNothing`, `SignInEnds`: a fetch that fails leaves the mirror as it was; one
  that succeeds has all pages, if the provider does not link back; the loop ends.
* `OnlyAfterTheAnswer`: scripts run for committed saves, each once. `NothingOlder`: a
  script finds the content of its save or one that was written later. `EveryScriptRuns`:
  all scripts of an answered save run unless the service stops or one of them raises, with
  as few threads as runs and requests compete for; three on two threads make them wait for
  each other.
* `SecretStays`: a stored signing key is never replaced. Three overlapping changes: two
  that make a key, one that saves an old configuration. `OnlyWhatWasAsked`: a change that
  no other one overtakes changes what was asked for, nothing else.
* `AllOrNothing`: after an attempt that fails or is stopped, the rows are those of the
  revision that is entered, and its tables are there. `CarriedOver`: a migrated database
  has each account with provider, address and rights as it should. `MigrationEnds`:
  undisturbed, it ends at the newest revision (disagreement 12). Two accounts of one
  provider make every relation the scripts look at.

Bounds that cut off: `MaxSaves`, `MaxSeq`, `MaxEdits` and the like bound counters in the
guards of the actions that count. `MCTogetherOrDeleting` splits the behaviours of the
store in two kinds: two people write, or one of them writes while something is deleted
(a deletion asks for no lock, so neither a second person nor, for generations, a lock
request under way adds anything). `MCSharesOrMembers` does the same for `Access`: shares,
with groups made by hand and one person, or memberships, of two people in groups of both
kinds, without a vault; it follows a behaviour until a third group comes into being or a
second request or share has lost its subject. `MCVaultFirst` lets vaults be made only while
there is nothing else, as their creation reads nothing. `MCUndoubted` follows a behaviour of
`Accounts` until claim *owner* or *rights* is given up. The theorems of section 5 know none of
these cuts. `CHECK_DEADLOCK
FALSE` stands where the system may rightly stop: the vault is gone, the fetch is over,
the bounds are reached. Symmetry is used in safety runs only.

Definitions called `...Broken` are deliberate errors, no part of any specification:
each is what a plausible mistake would make of the definition it is named after, and
putting it in that one's place makes the named property fail. `PROJECT.json`
(`mutants`) lists them with their runs.

| definition | property | the mistake |
| --- | --- | --- |
| `LoadAcquireBroken` | `TokenIsPersonal` | the holder is not compared |
| `LoadAcquireReusingBroken` | `LockTypeOK`, `TypeOK` | the old token is written again |
| `TokenAcceptedBroken` | `LostLockIsNoticed` | renewal without comparing tokens |
| `UnlinkBroken` | `ConfirmedIsKept` | older files are deleted too |
| `BeginSaveBroken` | `NumbersAreNeverReused` | the number is derived from the rows there are |
| `LockStepBroken` | `GoneIsGone` | no foreign key on lock rows |
| `VaultAfterStuckBroken` | `KeepsItsPromise` | the counter is not advanced |
| `CheckLockBroken` | `SavesReplaceTheirBase` | no mutex |
| `CommitBusyBroken` | `RequestsEnd` | no busy timeout |
| `FlushAppliesBroken` | `OneWinner` | no unique numbers |
| `BodyComesBroken` (VaultWorkers) | `ConfirmedIsKept` | another wait before the commit, and no mutex |
| `SaveToServerBroken` | `TypeOK` of EditSession | the source is not looked at again after the encryption |
| `AnswerOtherwiseBroken` | `CleanIsSaved` | the dirty flag is reset before the outcome is known |
| `AnswerConflictBroken` | `NothingIsOverwritten` | the tab takes over the ETag the server has by now |
| `RevokedBroken` | `TypeOK` of Accounts | sessions are kept and lose their account |
| `AdmitKnownBroken` | `SessionsAreTheirOwners` | found by address instead of subject |
| `OthersClearedBroken` | `AtMostOnePrimary` | the others keep the flag |
| `BeginEditEntryBroken` | `AnAdminIsListed` | the entry itself counts among the others |
| `AdmitKnownAsBeforeBroken` | `RightsFollowTheList` | a known account keeps its role |
| `AllClearedBroken` | `APrimary` | the flag is taken from the row itself as well |
| `BeginEditProviderBroken` | `PrimaryStays` | the primary provider may be disabled |
| `EntriesOfBroken` | `NobodyInherits` | the kind of a share's subject is not compared |
| `DeleteUserBroken` | `SharesHaveSubjects` | shares are left |
| `RewritesBroken` | `MembersExist` | no foreign key on memberships |
| `FreeNameBroken` | `MirrorsFindNames` | no numbering |
| `CommitGroupsOfBroken` | `MirrorsFollowTheProvider` | an account's groups are replaced as they were read |
| `AnswerUnusableBroken` | `WholeOrNothing` | half a list is used |
| `NextRoundBroken` | `SignInEnds` | rounds are not counted |
| `RunScriptBroken`, `RunScriptPastBroken` | `EveryScriptRuns`, `TypeOK` | a failure ends the run; one script too many |
| `StartRunBroken` | `OnlyAfterTheAnswer` | the run starts before the commit |
| `WriteBroken` | `NothingOlder` | the generation is kept, the file not replaced |
| `LoadBroken` | `TypeOK` of Settings | no defaults |
| `NeedsKeyBroken` | `SecretStays` | a key is made every time |
| `BeginPutBroken` | `OnlyWhatWasAsked` | a number that was not sent is taken for a null |
| `IdentityFromProviderBroken` | `AllOrNothing` | what is no longer wanted is removed first |
| `CarriedBroken` | `CarriedOver` | only those who may sign in now are carried over |
| `RebuiltBroken` | `MigrationEnds` | the old table stays behind |

### Fairness

* `FairLockSpec`: a decided lock request is committed or fails (weak; the loop runs
  and the commit has a timeout). Each tab that holds a token sends heartbeats (strong:
  `setInterval` waits for nothing, but in the model a slot for the request must be
  free, which other requests may take in turns). Nothing is assumed about the clock or
  about people.
* `FairSpec` of `VaultStore`: a content request that has its body takes its next step
  when it can (weak, per request: its thread, or its turn on the loop). Nothing is
  assumed about the arrival of a body, for which the server sets no limit, nor about when
  another endpoint's transaction ends. `RequestsEnd` starts after the body for this reason.
* `GroupFetch`: weak fairness of the whole step: each answer comes or times out.
* `BackupHooks`: strong fairness of each save's next step. The pool hands out its
  threads in the order they were asked for, so nobody waits for ever while threads become
  free again and again; a script is ended after 120 seconds (`hooks.py`).
* `Migrations`: a script that has begun goes on (weak), and whoever runs the service tries
  again until it starts (weak).

## 4. Disagreements

Where the code does not do what a document, a comment or a test says. Each is stated as
a property of its module that the code does not keep (marked so in the module), as the
exception that a property makes, or as an assumption that a run makes; adding the property
to the named run, or dropping the exception or the assumption, makes TLC print the steps.
All were found that way.

1. `LiveLockIsRespected` (`VaultLocks`; `vaults.py` 84, 104). A stale statement removes or
   replaces a live lock. Shortest case: somebody lists the vaults while a lock is expired;
   before that request commits its "cleared on sight" (`vaults.py` 76), the lock is acquired
   anew; the commit deletes the new one. The damage is bounded: the holder is told at the
   next heartbeat, and no save is lost (`SavesReplaceTheirBase`), which is what "the ETag
   decides" (`models.py` 201) means.
2. `ConfirmedIsKept` (`VaultStore` with `NobodyEdits = FALSE`; `vault_api.py` 520). A
   restore and a save of one person at the same time take the same generation number; the
   loser fails with 500 after it has replaced the winner's generation file. The comment
   says "nobody may be editing while it happens" (`vault_api.py` 514), and
   `docs/requirements.md` 336 promises a gapless history.
3. `BusyHadNoEffect` (`VaultStore`; `app.py` 124). A save answered with 503 "please send
   the request again" has already replaced the file; sent again it is refused with 412.
4. `DeletedLeavesNoFiles` (`VaultStore`; `vault_api.py` 203). "The file goes with it": a
   write under way while its vault is deleted creates the directory again, and encrypted
   files of a deleted vault stay on disk.
5. `AnAdminIsListed`, `APrimary`, `PrimaryStays`, `RightsFollowTheList` without `raced`
   (`Accounts`, `AccountsProviders`): what overlapping requests do.
   * Two administrators demote or remove each other's entries (`admin_api.py` 358, 388):
     both checks pass, both commit, nobody administrates (`docs/requirements.md` 146,
     SEC-45).
   * One makes a provider primary while another disables or deletes it (278, 300):
     the primary provider is disabled, or gone (145, SEC-44).
   * A request asks to make primary what it has read as primary, while another moves the
     flag: it has nothing to write in the row itself, and its UPDATE clears the others
     (244-246). No primary provider is left. Two setups, or one and a change, can do so too.
   * Who is taken off the list while the sign-in waits for the provider's groups
     (`oidc.py` 100) still gets a session (138, SEC-37, "sofort"). Two sign-ins of one
     account with different addresses on the way leave it with the rights of one and the
     address of the other.
6. `SomebodyCanSignIn` (`AccountsProviders`; `admin_api.py` 277). One request after the
   other, an administrator makes another provider primary and disables the first, to which
   all listed administrators belong. "The service must not be able to lock itself out"
   (`admin_api.py` 7).
7. A denied sign-in changes nothing (`Fails`; `oidc.py` 91). `admit` disables a known
   account that is no longer listed, then the callback raises 403 and everything is rolled
   back, the audit entry included; the comment (137-139) and `tests/test_oidc.py` 76 say
   otherwise, but the test calls `admit` alone. `EntriesNameOneAccount` (`Accounts`;
   `admin_api.py` 133, 369, 397): when an address changes hands at the provider, two
   accounts have it, and the queries for "the" account of the entry fail.
   `SlowProvidersBlockNobody` (`Accounts`; `oidc.py` 169): a first sign-in waits for the
   provider with SQLite's write lock in its hand.
8. `SharesHaveSubjects` without `lost` (`Access`; `vault_api.py` 257): a share that is being
   written while its subject is deleted stays without one; compare
   `tests/test_admin.py` 137.
9. Ids come back. The last migration (`a1c0de5e2100` 110, 119) rebuilds the tables of groups
   and accounts without the AUTOINCREMENT that `8b50a162c06d` gave them ("ids must never come
   back", `models.py` 133). The tests make their tables from the models and cannot see it.
   Whatever is under way about a row when it is deleted then concerns the next row:
   * `NobodyInherits` without `lost`: a share of 8 is inherited by the next account or group;
   * `SessionsAreTheirOwners` without `raced` (`Accounts`): a sign-in that waits at
     `oidc.py` 100 while its account is deleted gets a session on the next one's row;
   * `MirrorsFollowTheProvider` without `Strays` (`Access`): a member list that was read for
     a group made by hand is written into the mirror that has its id by then; a list of one
     account's groups becomes another's; and a sign-in puts another person's
     memberships in the mirrors of its own provider.
10. `NobodyIsInTheWay` (`Access`; `oidc.py` 160): the first migration's unique constraint on
    the display name is still there, so a second person of one name cannot sign in;
    `docs/requirements.md` 135 (SEC-34) says that (provider, sub) is the identity.
11. `OnlyWhatWasAsked` without `overtaken` (`Settings`; `config.py` 126): of two overlapping
    changes, the later save writes the other's setting back; `config.py` 6 says "only
    stores what was actually changed". `SettingsCanBeRead` (`admin_api.py` 614): an explicit
    null for a number is stored as `None`, and no later request can read the settings.
12. `MigrationEnds` (`Migrations`) excepts two cases that never end: one interruption after a
    script has created a table (every further attempt fails on it), and two accounts of one
    provider with one address (`a1c0de5e2100` 102), where that script says "nobody is locked
    out by the migration".
13. `ScriptsFindTheirGeneration` (`BackupHooks`; `vault_api.py` 352): the next save may have
    replaced the file before the scripts read it (`tests/test_hooks.py` 188: "the one just
    saved"). `ScriptsDelayNoSave` (`hooks.py` 94): slow scripts occupy the pool that every
    save needs, although "a slow script never delays the save" (`hooks.py` 10). Runs that wait
    when the service stops are lost (`lost`, excepted by `EveryScriptRuns`), against FUN-108
    (`docs/requirements.md` 348).
14. `ConfirmedIsKept` of `VaultWorkers` excepts the file that a failing save of another
    process has replaced; the comment (`vault_api.py` 45) says that one process is what this
    is built for, the settings allow 64.
15. `NoLockedDoor` (`GroupFetch`; `sync.py` 91): JSON of an unexpected shape raises what
    nobody catches; "must not turn into a locked door" (`oidc.py` 177).
16. `CleanIsSaved` without `hurried` (`EditSession`; `mmo_vault.html` 3054, 3952): edits made
    while a save is on its way, to the server or to a file, are shown as saved when it
    ends, and so is whatever was opened since; against `docs/requirements.md` 253 (FUN-38).
    After a lost answer the next save conflicts with oneself, "a second writer" (3061).
    `lockApp` (3389) releases the lock of the current source only; the lock of one whose
    opening failed, that was left with "choose another file" or saved as a local file is
    kept alive by heartbeats (FUN-92, 332); this one is not modelled.
17. `NothingIsMixed`, `NothingIsOverwritten` without `hurried` and `mixed` (`EditSession`),
    against "no silent overwriting" (`docs/requirements.md` 334, FUN-94). The text is what the
    entries are at 3651; encryption is awaited (3663); then the ETag (3876) and the source
    (3918, 3053) are read. So
    * of two saves, one may send its older text with the ETag that the other's answer has
      just brought: an edit made in between disappears from the server, without a conflict;
    * a save that was begun in one vault may be sent to another one that was opened since;
    * `openServerVault` sets the source when its answer comes (3041), also when another
      vault is open by then, which then is saved to the wrong one;
    * an unlock that ends after something else has been chosen opens the one with the
      source of the other (3172-3208), and so does "Back" followed by "new vault", whose
      first save replaces a vault on the server by an empty one.
18. `NothingRaises` (`BackupHooks`; `hooks.py` 94): a script's output is decoded (`text=True`);
    if it is not UTF-8, `UnicodeDecodeError` is caught by neither handler (107, 110) and
    ends the run, so that the remaining scripts do not run. "Nothing here may raise"
    (`hooks.py` 75); a failing script concerns no other (`docs/requirements.md` 350, FUN-110).

## 5. Proofs

Every theorem holds for all values of the constants that satisfy the named assumptions
of its module. Those say that absent values are no members of what they are absent from,
that bounds are naturals and switches Boolean; they do not restrict the program. What a
theorem assumes beyond that is in the table.

| module | theorem | statement | assumes |
| --- | --- | --- | --- |
| `VaultStoreProofs` | `LockTypeCorrect` | `LockSpec => []LockTypeOK` | |
| | `TokensArePersonal` | `LockSpec => []TokenIsPersonal` | |
| | `TypeCorrect` | `Spec => []TypeOK` | |
| | `TokensStayPersonal` | `Spec => []TokenIsPersonal` | |
| | `DeletedVaultsStayEmpty` | `Spec => []GoneIsGone` | |
| | `ConfirmedGenerationsStay` | `Spec => []ConfirmedIsKept` | `NobodyEdits` |
| | `NumbersStayUnique` | `Spec => []NumbersAreNeverReused` | `NobodyEdits` |
| | `SavesAreNotLost` | `Spec => SavesReplaceTheirBase` | `NobodyEdits` |
| | `TheStoreKeepsItsPromise` | `Spec => KeepsItsPromise` | `NobodyEdits` |
| `VaultWorkersProofs` | `TypeCorrect` | `Spec => []TypeOK` | |
| | `OnlyOneWins` | `Spec => []OneWinner` | |
| | `ConfirmedStays` | `Spec => []ConfirmedIsKept` | |
| `EditSessionProofs` | `TypeCorrect` | `Spec => []TypeOK` | |
| | `NoSilentOverwriting` | `Spec => NothingIsOverwritten` | |
| | `CleanMeansSaved` | `Spec => []CleanIsSaved` | |
| `AccountsProofs` | `TypeCorrect` | `Spec => []TypeOK` | |
| | `OnePrimary` | `Spec => []AtMostOnePrimary` | no `setup` beside the service |
| | `AlwaysAnAdmin` | `Spec => []AnAdminIsListed` | |
| | `SessionsOfTheirOwners` | `Spec => []SessionsAreTheirOwners` | |
| | `AlwaysAPrimary` | `Spec => []APrimary` | |
| | `PrimaryIsKept` | `Spec => PrimaryStays` | |
| | `RightsAreListed` | `Spec => []RightsFollowTheList` | |
| `AccessProofs` | `AccessTypes` | `Spec => []TypeOK` | |
| | `NoDanglingMembers` | `Spec => []MembersExist` | |
| | `SharesPointSomewhere` | `Spec => []SharesHaveSubjects` | |
| | `NamesAreFound` | `Spec => []MirrorsFindNames` | |
| | `OnlyOwnShares` | `Spec => []NobodyInherits` | |
| | `MirrorsBelongToProviders` | `Spec => MirrorsFollowTheProvider` | |
| | `FetchTypes` | `FetchSpec => []FetchTypeOK` | |
| | `WholeAnswers` | `FetchSpec => []WholeOrNothing` | `Pages <= MaxPages` |
| `BackupHooksProofs` | `TypeCorrect` | `Spec => []TypeOK` | |
| | `ScriptsAfterAnswers` | `Spec => []OnlyAfterTheAnswer` | |
| | `BackupsAreCurrent` | `Spec => []NothingOlder` | |
| `SettingsProofs` | `TypeCorrect` | `Spec => []TypeOK` | |
| | `KeyStays` | `Spec => SecretStays` | |
| | `NothingElseChanges` | `Spec => OnlyWhatWasAsked` | |
| `MigrationsProofs` | `TypeCorrect` | `Spec => []TypeOK` | |
| | `NothingHalfDone` | `Spec => []AllOrNothing` | |
| | `EverythingIsCarriedOver` | `Spec => []CarriedOver` | |

The assumptions of the last column are about the program. `NobodyEdits` says that restores
are done while nobody saves; disagreement 2 shows what happens otherwise. `setup` is done by
whoever installs the service, and nothing promises one primary provider if it is run
beside it. Whatever else the code does not keep is no assumption, but an exception in the
property itself: a history variable notes the overlap that breaks it when it happens
(`raced`, `lost`, `hurried`, `mixed`, `raised`, `overtaken`; disagreements 5, 8, 9, 11, 16-18).

The arguments:

* **Tokens** (`LockInv`). `TokenIsPersonal` alone is not inductive: it says nothing of
  the tokens that requests carry. `OneOwner` says for every pair of places that
  remember a token (the row, a tab, a request) that they agree on its owner. A
  fresh token is remembered nowhere, `insert` and `switch` write person and token
  together, `extend` leaves both alone.
* **Types and shape of the store** (`BaseInv`). In addition to types: which phases belong
  to which kind of request (`Shape`), and that a save past its lock check occupies the loop
  (`LoopHeld`). `GoneIsGone` is inductive with these and needs no assumption.
* **Content of the store** (`StoreInv`). `ConfirmedIsKept` alone is not inductive: `Keep`
  replaces whatever generation file has the number the request loaded long ago, so the
  number must be shown unused at that time. Contents are numbered as they are sent
  (`NothingNewer`), so the body of a save is found nowhere before the save writes it
  (`BodiesAreNew`). Hence a save whose base *equals the file* cannot have been overtaken
  by another save, and the counter it loaded before its wait is still the committed one
  (`Current`). The comparison of ETags is what makes the stale vault row harmless. A
  restore has no such comparison and needs `Alone`: no other write is in flight beside
  it. With the counter current, its number is above every confirmed and every deleted one
  (`NumbersBelow`), and what was confirmed stays as it is (`KeptOK`). Once deletion of the
  vault has begun (`purged`) none of this is claimed. *No lost save* is the part of
  `Current` about a save that is about to replace the file: it holds the loop since the
  comparison, and no restore runs beside it. *Refinement*: one step per action; each maps
  to an abstract step or a stutter under `StoreInv`.
* **Several processes**. Files cannot be relied upon, so the argument rests on the rows: the
  rows that are taken are those below the committed counter (`Counting`); a content not
  written yet is known to its save alone (`Fresh`), so the base of a written save is not
  current any more and does not come back (`Gone`); and who is still under way on the base of
  a confirmed save has a number that is used up (`Beaten`), so its flush fails.
  That confirmed content *stays* (`KeptInv`) needs the loop of each process as well
  (`HasLoop`): as soon as a save has replaced the file, all others of its process that still
  wait have another base than the file and will be refused, and so will whoever of them has
  a number that a confirmed generation uses (`Late`). A generation file is therefore
  overwritten by another process only, which is the exception that `ConfirmedIsKept` makes
  (`Origins`, `FilesKept`); the row of a confirmed generation stays in any case.
* **The tab**. An edit could only disappear if a save were applied whose text lacks it.
  `Knows` says what an ETag stands for: as long as it is the stored one, the text sent with
  it contains everything stored, but for edits made in a hurry. `Has` says which texts there
  are of a choice of a source: in memory, asked for a password, being unlocked, in
  saves. They differ in such edits only (`Alike`), so it does not matter which of
  them goes out with which ETag, as long as both are of one choice: that is `SourceKnows`
  for what the source has read, `SaveKnows` for what has been sent. Where they are not, the
  choice is `mixed`, and nothing is claimed of it. *Clean means saved* (`CleanInv`): what
  was read or written is in `saved` (`ReadIsSaved`, `WrittenIsSaved`), and each save under
  way has in its text all that is in memory, but for what is saved already and what
  came in a hurry (`SavesHaveAll`). So the answer that clears the flag leaves nothing else
  unsaved behind.
* **Accounts**. Claims are only added to `raced` (`RacesStay`), so it is enough that
  each of these invariants is kept by every step that does not add its own claim.
  `PrimaryInv` says that no `setup` is under way; every other request that sets the flag clears
  all others in the same commit. `ListInv`: whoever is about to take an administrator off
  the list has seen another one there (`Spare`), who stays until the commit, unless the
  claim is lost; sign-ins never write entries. `OwnersInv`: the account that a sign-in
  will give the session to exists and has its person, and a first sign-in has an id nobody
  has, as it holds the write lock (`Knows`); every session has a row of its person
  (`Matched`), although rows come back, since sessions go with their account.
  `PlaceInv`: there is a primary provider, and what a request has read about its provider's
  being primary is so when it writes, where this matters (`Settled`); it gives that no step
  disables or deletes the primary one as well. `RightsInv` says more than
  `RightsFollowTheList`: each session's account, usable or not, is on the list with its
  rights (`SessionsListed`), as whatever takes them ends the sessions; and what a
  request has read of the entry and the accounts it concerns is still so (`Honest`).
* **Access** (`Safe`). `Tables`: types, no two groups have one name or one external group,
  and no two accounts have one person. `References`: members exist; each share that is
  written, or about to be, is for whom it was meant (`Bears`); an administrator's lists are
  about groups made by hand (`ByHand`); and a sign-in returns to the account it has found
  (`ReturnsTo`); all but the members unless `lost`. All this is about ids that are taken, so
  it needs no assumption on who gets an id next: a step either leaves
  the rows there are, then whatever was true of them remains (`UsersStay`, `GroupsStay`), or
  deletes some, then whoever refers to one of them is marked in the same step (`Gone`).
  `Apply` is a recursive function over the reported groups; its lemmas show by induction what
  each prefix of the list keeps (names and external groups stay distinct, groups of others
  are not touched). That a free name is always found is a pigeonhole argument:
  there are more numbered names than there can be groups.
* **GroupFetch**: as long as the provider has not linked back, each round was one page
  further, and all pages before the current one are collected (`Progress`).
* **BackupHooks**: committed saves have numbers below the counter (`Numbered`), what has
  run belongs to an answered save and lies behind its run's next script (`Behind`), and the
  file never is older than what a save has written (`Current`): this only says that writes
  replace it in the order they happen, so it does not matter that restores are written
  beside saves.
* **Settings**: whoever is going to write the key knows the stored one, or is going to insert
  a row where there is none and fails if there is one by then (`KnowsKey`). A change that is
  not overtaken has, in what it does not ask for, the stored configuration, and its save
  finds the same (`UpToDate`): it writes no row but those it was asked for.
* **Migrations**. `Upgraded` is what undisturbed scripts make of the database that was found.
  The committed database `Covers` it up to the entered revision: the same rows, at least its
  schema. The working copy covers the same after the statements executed so far. Both survive
  an interruption for one reason: what is committed early only *adds* to the schema.
  `Underway` says why: a statement that drops or renames comes after one that writes rows, so
  it finds the transaction open; this is shown for each of the seven scripts, from lemmas on
  concatenated sequences. For what is carried over, `Achieved` says what each statement of
  the sixth script is to bring about, and `Carrying` that all statements executed so far have
  brought it about and none of the later ones, the seventh script included, undoes it.
* **Induction.** The library's induction theorems take an operator as a parameter and
  cannot be instantiated. `AccessProofs` and `MigrationsProofs` use sets of natural numbers
  instead: a set that has 0 and with each number the next one is Nat (`Induction`), which
  follows from `WFMin`. From it they prove that the recursive functions of the models exist,
  and what these compute.

The invariants were checked by TLC before they were proved. Only model-checked are the
liveness properties (`LostLockIsNoticed`, `RequestsEnd`, `SignInEnds`, `EveryScriptRuns`,
`MigrationEnds`): the provers do not deal with fairness and ENABLED. All other properties
of the runs are stated by a theorem of the table.

Bounds such as `MaxSaves` and `MaxSeq` are constants of the specifications; the theorems
hold for each of their values, so they do not limit the results.

## 6. Not modelled, and what is left

* Cryptography, TOTP, Markdown, CSV, import and export: computations over text and bytes,
  without states in which steps could interleave.
* Views, administration page, pages and script injection: rendering and static text. What
  their requests do is modelled at the server.
* Command line: `export` and the environment variables keep no state; `setup`, `migrate` and
  `start` are in `Accounts`, `Settings` and `Migrations`.
* Validation of providers' fields, the URLs made of them, ID tokens and login state: they
  decide whether a sign-in begins, not what it does.
* Throttling, cookies, headers, wording of answers, audit log (written, never read).
* Snapshots of a transaction's later reads: SQLite shows a transaction the database as of
  its first read. The requests modelled here read before they write.
* `LocalFile` (write, verify and roll back a file through the browser's file API) and
  `RecordVersions` (version numbers, trash, attachments of the records in a tab) are left
  for later: one tab's sequential code, where nothing of the above interleaves.
* Heartbeats and releases of a tab are in `VaultLocks`, not in `EditSession`: no lock decides
  what a save overwrites.
* Proofs worth making next: that `VaultWorkers` with one process implements the saves of
  `VaultStore`.


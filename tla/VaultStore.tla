----------------------------- MODULE VaultStore -----------------------------
(***************************************************************************)
(* One vault on the server: the current file, the kept generations (a file *)
(* and a database row each), the vault row with the ETag and the generation*)
(* counter, and the requests that change them while the lock requests of   *)
(* VaultLocks go on beside them.                                           *)
(*                                                                         *)
(* The service is one process with one event loop and a pool of threads.   *)
(* write_content runs on the loop and gives it up only while it waits for  *)
(* the body; everything else runs in a thread and comes back to the loop   *)
(* for one thing, the commit (UnitOfWork).  A commit therefore never falls *)
(* between the lock check of a save and the save's own commit, but reads   *)
(* and file operations of threads do.                                      *)
(*                                                                         *)
(* A content stands for a whole encrypted file.  Every save encrypts with  *)
(* fresh random values, so its content equals no earlier one, and the ETag,*)
(* a hash of the content, is modelled as the content.  Nothing is the      *)
(* absent file and the ETag "".                                            *)
(***************************************************************************)
EXTENDS VaultLocks

CONSTANTS
  Reqs,             \* identities of the content requests that can overlap
  MaxSaves,         \* bound: how many saves are ever sent
  MaxSeq,           \* bound: the highest generation number
  NoReq, OtherReq,  \* nobody; a request of some other endpoint
  Gone,             \* the vault row after the vault was deleted
  NobodyEdits       \* TRUE: restores keep clear of saves (see Editing)

ASSUME StoreAssumption ==
  /\ MaxSaves \in Nat
  /\ MaxSeq \in Nat
  /\ NoReq \notin Reqs /\ OtherReq \notin Reqs /\ NoReq # OtherReq
  /\ Gone \notin [etag : 0..MaxSaves, next : 1..MaxSeq + 1]
  /\ NobodyEdits \in BOOLEAN

VARIABLES
  file,       \* the current file
  gen,        \* the generation files, by number
  rows,       \* the committed generation rows: the content they describe
  vault,      \* the committed vault row: [etag, next], or Gone
  base,       \* per tab: the ETag its next save will send as If-Match
  req,        \* the content requests
  loop,       \* the save that occupies the event loop, or NoReq
  writer,     \* the request whose open transaction has SQLite's write lock
  sent,       \* how many saves have been sent
  kept,       \* history: <<number, content>> of every committed generation
  refused,    \* history: contents of the saves answered with 503
  condemned,  \* history: numbers an administrator has begun to delete
  purged      \* history: deleting the vault has been begun

storeVars == <<file, gen, rows, vault, base, req, loop, writer, sent,
               kept, refused, condemned, purged>>
vars == <<lockVars, storeVars>>

Nothing == 0
Contents == 0..MaxSaves
Seqs == 1..MaxSeq
VaultRow == [etag : Contents, next : 1..MaxSeq + 1]

Phases == {"idle", "body", "compare", "fetch", "replace", "keep", "commit",
           "unlink", "forget", "eraseFile", "eraseHistory", "forgetVault"}
Kinds == {"save", "restore", "drop", "delete"}

(* seen is the vault row as loaded at the start; body what will be written;*)
(* seqs the generation to restore, or those to delete.                     *)
Request == [phase : Phases, kind : Kinds, tab : Tabs \cup {NoTab},
            token : Tokens \cup {NoToken}, base : Contents, body : Contents,
            seen : VaultRow, seqs : SUBSET Seqs]
IdleReq == [phase |-> "idle", kind |-> "save", tab |-> NoTab, token |-> NoToken,
            base |-> Nothing, body |-> Nothing,
            seen |-> [etag |-> Nothing, next |-> 1], seqs |-> {}]

TypeOK ==
  /\ LockTypeOK
  /\ file \in Contents
  /\ gen \in [Seqs -> Contents]
  /\ rows \in [Seqs -> Contents]
  /\ vault \in VaultRow \cup {Gone}
  /\ base \in [Tabs -> Contents]
  /\ req \in [Reqs -> Request]
  /\ loop \in Reqs \cup {NoReq}
  /\ writer \in Reqs \cup {NoReq, OtherReq}
  /\ sent \in 0..MaxSaves
  /\ kept \in SUBSET (Seqs \X Contents)
  /\ refused \in SUBSET Contents
  /\ condemned \in SUBSET Seqs
  /\ purged \in BOOLEAN

(* The vault has just been created: an empty shell without a file.         *)
Init ==
  /\ LockInit
  /\ file = Nothing
  /\ gen = [n \in Seqs |-> Nothing]
  /\ rows = [n \in Seqs |-> Nothing]
  /\ vault = [etag |-> Nothing, next |-> 1]
  /\ base = [t \in Tabs |-> Nothing]
  /\ req = [r \in Reqs |-> IdleReq]
  /\ loop = NoReq
  /\ writer = NoReq
  /\ sent = 0
  /\ kept = {}
  /\ refused = {}
  /\ condemned = {}
  /\ purged = FALSE

-----------------------------------------------------------------------------
(* Common parts of the requests                                            *)

LoopFree == loop = NoReq

(* Generation files or rows f once those numbered in S are deleted.        *)
Without(f, S) == [n \in Seqs |-> IF n \in S THEN Nothing ELSE f[n]]

At(r, phase) == req[r].phase = phase
Advance(r, phase) == req' = [req EXCEPT ![r].phase = phase]
Finish(r) == req' = [req EXCEPT ![r] = IdleReq]

(* restore_generation: "the lock is required [...] nobody may be editing   *)
(* while it happens".  The code enforces no more than the lock, which two  *)
(* tabs of one person share; NobodyEdits = TRUE is the stated assumption.  *)
InFlight(kinds) == \E r \in Reqs : ~At(r, "idle") /\ req[r].kind \in kinds
KeepsClearOf(kinds) == NobodyEdits => ~InFlight(kinds)

(* A transaction that another request holds open blocks a commit, and with *)
(* it the event loop, until the busy timeout of five seconds: whoever could*)
(* end that transaction needs the loop for its own commit.                 *)
CommitBlocked(r) == writer \notin {NoReq, r}

-----------------------------------------------------------------------------
(* Opening the vault in a tab: readVault() takes the ETag of the file; for *)
(* an empty vault the one of the vault list stays.                         *)
OpenVault(t) ==
  /\ vault # Gone
  /\ base' = [base EXCEPT ![t] = IF file = Nothing THEN vault.etag ELSE file]
  /\ UNCHANGED lockVars
  /\ UNCHANGED <<file, gen, rows, vault, req, loop, writer, sent, kept,
                 refused, condemned, purged>>

-----------------------------------------------------------------------------
(* Saving: write_content                                                   *)

(* Broken: the next number is found by counting the generations there are. *)
BeginSaveBroken(r, t) ==
  LET count == Cardinality({n \in Seqs : rows[n] # Nothing}) IN
  /\ At(r, "idle") /\ LoopFree /\ vault # Gone
  /\ held[t] # NoToken /\ sent < MaxSaves /\ count + 1 \in Seqs
  /\ KeepsClearOf({"restore"})
  /\ sent' = sent + 1
  /\ req' = [req EXCEPT ![r] =
       [phase |-> "body", kind |-> "save", tab |-> t, token |-> held[t],
        base |-> base[t], body |-> sent + 1,
        seen |-> [vault EXCEPT !.next = count + 1], seqs |-> {}]]
  /\ UNCHANGED lockVars
  /\ UNCHANGED <<file, gen, rows, vault, base, loop, writer, kept, refused,
                 condemned, purged>>

(* The handler starts on the loop, loads the vault row and waits for the   *)
(* body.  Permissions are taken as given.                                  *)
BeginSave(r, t) ==
  /\ At(r, "idle") /\ LoopFree /\ vault # Gone
  /\ held[t] # NoToken /\ sent < MaxSaves /\ vault.next \in Seqs
  /\ KeepsClearOf({"restore"})
  /\ sent' = sent + 1
  /\ req' = [req EXCEPT ![r] =
       [phase |-> "body", kind |-> "save", tab |-> t, token |-> held[t],
        base |-> base[t], body |-> sent + 1, seen |-> vault, seqs |-> {}]]
  /\ UNCHANGED lockVars
  /\ UNCHANGED <<file, gen, rows, vault, base, loop, writer, kept, refused,
                 condemned, purged>>

(* The body never arrives whole, is too large or fails the structural      *)
(* check: nothing has happened yet.                                        *)
RejectBody(r) ==
  /\ At(r, "body") /\ LoopFree
  /\ Finish(r)
  /\ UNCHANGED lockVars
  /\ UNCHANGED <<file, gen, rows, vault, base, loop, writer, sent, kept,
                 refused, condemned, purged>>

(* Broken: no mutex between the comparison and the replacement.            *)
CheckLockBroken(r) ==
  /\ At(r, "body")
  /\ IF TokenAccepted(req[r].token) /\ lock.user = UserOf[req[r].tab]
       THEN Advance(r, "compare")
       ELSE Finish(r)
  /\ UNCHANGED lockVars
  /\ UNCHANGED <<file, gen, rows, vault, base, loop, writer, sent, kept, refused,
                 condemned, purged>>

(* The body is there.  The lock row is read now, not before the wait; 409  *)
(* if it is not the live lock of this token and this person.               *)
CheckLock(r) ==
  /\ At(r, "body") /\ LoopFree
  /\ IF TokenAccepted(req[r].token) /\ lock.user = UserOf[req[r].tab]
       THEN Advance(r, "compare") /\ loop' = r
       ELSE Finish(r) /\ UNCHANGED loop
  /\ UNCHANGED lockVars
  /\ UNCHANGED <<file, gen, rows, vault, base, writer, sent, kept, refused,
                 condemned, purged>>

(* Under the mutex: If-Match against the ETag of the file, 412 otherwise.  *)
Compare(r) ==
  /\ At(r, "compare")
  /\ IF req[r].base = file
       THEN Advance(r, "replace") /\ UNCHANGED loop
       ELSE Finish(r) /\ loop' = NoReq
  /\ UNCHANGED lockVars
  /\ UNCHANGED <<file, gen, rows, vault, base, writer, sent, kept, refused,
                 condemned, purged>>

-----------------------------------------------------------------------------
(* Restoring: restore_generation, in a thread                              *)

(* Loads the vault row and checks the token; there is no If-Match.         *)
BeginRestore(r, t, n) ==
  /\ At(r, "idle") /\ vault # Gone /\ vault.next \in Seqs
  /\ TokenAccepted(held[t])
  /\ KeepsClearOf({"save", "restore"})
  /\ req' = [req EXCEPT ![r] =
       [phase |-> "fetch", kind |-> "restore", tab |-> t, token |-> held[t],
        base |-> Nothing, body |-> Nothing, seen |-> vault, seqs |-> {n}]]
  /\ UNCHANGED lockVars
  /\ UNCHANGED <<file, gen, rows, vault, base, loop, writer, sent, kept,
                 refused, condemned, purged>>

(* The generation file decides what can be restored, not its row; 404.     *)
Fetch(r) ==
  /\ At(r, "fetch")
  /\ \E n \in req[r].seqs :
       IF gen[n] = Nothing
         THEN Finish(r)
         ELSE req' = [req EXCEPT ![r].phase = "replace", ![r].body = gen[n]]
  /\ UNCHANGED lockVars
  /\ UNCHANGED <<file, gen, rows, vault, base, loop, writer, sent, kept,
                 refused, condemned, purged>>

-----------------------------------------------------------------------------
(* What saving and restoring share                                         *)

(* storage.write(): the current file is replaced in one step.              *)
Replace(r) ==
  /\ At(r, "replace")
  /\ file' = req[r].body
  /\ Advance(r, "keep")
  /\ UNCHANGED lockVars
  /\ UNCHANGED <<gen, rows, vault, base, loop, writer, sent, kept, refused,
                 condemned, purged>>

(* history.keep(): the number comes from the row as loaded at the start;   *)
(* a file that already has this number is replaced without a word.         *)
Keep(r) ==
  /\ At(r, "keep")
  /\ gen' = [gen EXCEPT ![req[r].seen.next] = req[r].body]
  /\ Advance(r, "commit")
  /\ UNCHANGED lockVars
  /\ UNCHANGED <<file, rows, vault, base, loop, writer, sent, kept, refused,
                 condemned, purged>>

(* The flush goes through: the vault row is there to be updated, the       *)
(* number is free among the generation rows, and a save, which moves the   *)
(* deadline of its lock, finds a lock row - anybody's.                     *)
FlushApplies(r) ==
  /\ vault # Gone
  /\ rows[req[r].seen.next] = Nothing
  /\ req[r].kind = "save" => lock # NoLock

(* Broken: the counter is not advanced.                                    *)
VaultAfterStuckBroken(q) == [etag |-> q.body, next |-> q.seen.next]

(* Only columns that differ from the row as loaded are written.            *)
VaultAfter(q) ==
  [etag |-> IF q.body = q.seen.etag THEN vault.etag ELSE q.body,
   next |-> q.seen.next + 1]

(* The commit, on the loop.  The answer of a save, if it gets through,     *)
(* gives the tab its new ETag.                                             *)
Commit(r) ==
  LET q == req[r] IN
  /\ At(r, "commit") /\ q.kind \in {"save", "restore"}
  /\ loop \in {NoReq, r} /\ ~CommitBlocked(r)
  /\ FlushApplies(r)
  /\ vault' = VaultAfter(q)
  /\ rows' = [rows EXCEPT ![q.seen.next] = q.body]
  /\ lock' = IF q.kind = "save" THEN [lock EXCEPT !.live = TRUE] ELSE lock
  /\ \/ q.kind = "save" /\ base' = [base EXCEPT ![q.tab] = q.body]
     \/ UNCHANGED base
  /\ kept' = kept \cup {<<q.seen.next, q.body>>}
  /\ loop' = NoReq
  /\ Finish(r)
  /\ UNCHANGED <<held, lockReq, file, gen, writer, sent, refused, condemned,
                 purged>>

(* The flush fails on a duplicate number or a missing row: 500.            *)
CommitRefused(r) ==
  /\ At(r, "commit") /\ req[r].kind \in {"save", "restore"}
  /\ loop \in {NoReq, r} /\ ~CommitBlocked(r)
  /\ ~FlushApplies(r)
  /\ loop' = NoReq
  /\ Finish(r)
  /\ UNCHANGED lockVars
  /\ UNCHANGED <<file, gen, rows, vault, base, writer, sent, kept, refused,
                 condemned, purged>>

(* Broken: no busy timeout.                                                *)
CommitBusyBroken(r) == FALSE

(* The database stays busy: 503 and the advice to send the request again.  *)
CommitBusy(r) ==
  /\ \/ At(r, "commit") /\ loop \in {NoReq, r}
     \/ At(r, "forget") /\ LoopFree
  /\ CommitBlocked(r)
  /\ refused' = IF req[r].kind = "save" THEN refused \cup {req[r].body} ELSE refused
  /\ loop' = NoReq
  /\ Finish(r)
  /\ UNCHANGED lockVars
  /\ UNCHANGED <<file, gen, rows, vault, base, writer, sent, kept, condemned,
                 purged>>

-----------------------------------------------------------------------------
(* Deleting generations: history.drop() and drop_many()                    *)

Below(n) == {m \in Seqs : rows[m] # Nothing /\ m < n}

(* One generation, or all below a number, as far as there are rows.        *)
BeginDrop(r) ==
  /\ At(r, "idle") /\ vault # Gone
  /\ \E n \in 1..MaxSeq + 1, single \in BOOLEAN :
       LET S == IF single THEN {n} \cap Below(n + 1) ELSE Below(n) IN
       /\ S # {}
       /\ req' = [req EXCEPT ![r] =
            [IdleReq EXCEPT !.phase = "unlink", !.kind = "drop", !.seqs = S]]
       /\ condemned' = condemned \cup S
  /\ UNCHANGED lockVars
  /\ UNCHANGED <<file, gen, rows, vault, base, loop, writer, sent, kept,
                 refused, purged>>

(* Broken: deleting one generation takes the older ones with it.           *)
UnlinkBroken(r) ==
  /\ At(r, "unlink")
  /\ \E n \in req[r].seqs : gen' = Without(gen, 1..n)
  /\ Advance(r, "forget")
  /\ UNCHANGED lockVars
  /\ UNCHANGED <<file, rows, vault, base, loop, writer, sent, kept, refused,
                 condemned, purged>>

(* The files go first, in the thread ...                                   *)
Unlink(r) ==
  /\ At(r, "unlink")
  /\ gen' = Without(gen, req[r].seqs)
  /\ Advance(r, "forget")
  /\ UNCHANGED lockVars
  /\ UNCHANGED <<file, rows, vault, base, loop, writer, sent, kept, refused,
                 condemned, purged>>

(* ... the rows at the commit, on the loop.                                *)
ForgetRows(r) ==
  /\ At(r, "forget") /\ LoopFree /\ ~CommitBlocked(r)
  /\ rows' = Without(rows, req[r].seqs)
  /\ Finish(r)
  /\ UNCHANGED lockVars
  /\ UNCHANGED <<file, gen, vault, base, loop, writer, sent, kept, refused,
                 condemned, purged>>

-----------------------------------------------------------------------------
(* Deleting the vault: delete_vault                                        *)

(* The rows are deleted by statements at once, which opens the transaction *)
(* and keeps the write lock for the rest of the request.                   *)
BeginDelete(r) ==
  /\ At(r, "idle") /\ vault # Gone /\ writer = NoReq
  /\ writer' = r
  /\ req' = [req EXCEPT ![r] =
       [IdleReq EXCEPT !.phase = "eraseHistory", !.kind = "delete"]]
  /\ purged' = TRUE
  /\ UNCHANGED lockVars
  /\ UNCHANGED <<file, gen, rows, vault, base, loop, sent, kept, refused,
                 condemned>>

(* storage.delete() lists the directory and removes what it found in       *)
(* reverse order, the history before the current file.  Without a          *)
(* directory there is nothing to do.  body remembers whether the current   *)
(* file was on the list.                                                   *)
EraseHistory(r) ==
  /\ At(r, "eraseHistory")
  /\ gen' = [n \in Seqs |-> Nothing]
  /\ \/ req' = [req EXCEPT ![r].phase = "eraseFile", ![r].body = file]
     \/ gen = gen' /\ file = Nothing /\ Advance(r, "forgetVault")
  /\ UNCHANGED lockVars
  /\ UNCHANGED <<file, rows, vault, base, loop, writer, sent, kept, refused,
                 condemned, purged>>

(* The directory itself goes last and only when it is empty: files that a  *)
(* write has put there since make the request fail, and the transaction    *)
(* with it.                                                                *)
EraseFile(r) ==
  /\ At(r, "eraseFile")
  /\ file' = IF req[r].body = Nothing THEN file ELSE Nothing
  /\ IF file' = Nothing /\ \A n \in Seqs : gen[n] = Nothing
       THEN Advance(r, "forgetVault") /\ UNCHANGED writer
       ELSE Finish(r) /\ writer' = NoReq
  /\ UNCHANGED lockVars
  /\ UNCHANGED <<gen, rows, vault, base, loop, sent, kept, refused,
                 condemned, purged>>

ForgetVault(r) ==
  /\ At(r, "forgetVault") /\ LoopFree
  /\ vault' = Gone
  /\ rows' = [n \in Seqs |-> Nothing]
  /\ lock' = NoLock
  /\ writer' = NoReq
  /\ Finish(r)
  /\ UNCHANGED <<held, lockReq, file, gen, base, loop, sent, kept, refused,
                 condemned, purged>>

-----------------------------------------------------------------------------
(* The surroundings                                                        *)

(* A file operation raises (disk full, permissions): the handler ends with *)
(* an error, its transaction is rolled back, the file steps it has done    *)
(* remain - of several files to delete, any number.                        *)
Deletable(r) ==
  CASE At(r, "unlink") -> req[r].seqs
    [] At(r, "eraseHistory") -> Seqs
    [] OTHER -> {}

StorageFails(r) ==
  /\ req[r].phase \in {"replace", "keep", "unlink", "eraseHistory", "eraseFile"}
  /\ \E S \in SUBSET Deletable(r) : gen' = Without(gen, S)
  /\ Finish(r)
  /\ loop' = IF loop = r THEN NoReq ELSE loop
  /\ writer' = IF writer = r THEN NoReq ELSE writer
  /\ UNCHANGED lockVars
  /\ UNCHANGED <<file, rows, vault, base, sent, kept, refused, condemned,
                 purged>>

(* A request writes before its commit and holds SQLite's write lock until  *)
(* then: one of another endpoint that replaces shares, or any that has     *)
(* last_seen_at to refresh and flushes that with its first query.  A save  *)
(* can be such a request too, and keep the lock while it waits for its     *)
(* body; nothing depends on whose transaction it is.                       *)
OtherWrites ==
  /\ writer = NoReq
  /\ writer' = OtherReq
  /\ UNCHANGED lockVars
  /\ UNCHANGED <<file, gen, rows, vault, base, req, loop, sent, kept, refused,
                 condemned, purged>>

OtherCommits ==
  /\ writer = OtherReq /\ LoopFree
  /\ writer' = NoReq
  /\ UNCHANGED lockVars
  /\ UNCHANGED <<file, gen, rows, vault, base, req, loop, sent, kept, refused,
                 condemned, purged>>

(* The process dies and is started again: requests and transactions are    *)
(* gone, files and committed rows remain.                                  *)
Restart ==
  /\ req' = [r \in Reqs |-> IdleReq]
  /\ lockReq' = [q \in LockReqs |-> IdleLockReq]
  /\ loop' = NoReq
  /\ writer' = NoReq
  /\ UNCHANGED <<lock, held, file, gen, rows, vault, base, sent, kept, refused,
                 condemned, purged>>

(* The lock requests read in a thread and commit on the loop; their row    *)
(* references the vault's.  Tokens are random: a new one also differs from *)
(* those that content requests still carry.                                *)
NewToken(q) == lockReq'[q].op = "acquire" /\ lockReq'[q].stmt # "extend"
CarriedBySaves == {req[r].token : r \in Reqs}

(* Broken: a lock row does not reference its vault.                        *)
LockStepBroken ==
  /\ \/ \E q \in LockReqs :
          \/ vault # Gone /\ LockLoad(q)
          \/ LoopFree /\ ~CommitBlocked(OtherReq) /\ LockCommit(q)
     \/ \E t \in Tabs : TabVanishes(t)
     \/ Expire
  /\ UNCHANGED storeVars

LockStep ==
  /\ \/ \E q \in LockReqs :
          \/ /\ vault # Gone /\ LockLoad(q)
             /\ NewToken(q) => lockReq'[q].token \notin CarriedBySaves
          \/ LoopFree /\ vault # Gone /\ ~CommitBlocked(OtherReq) /\ LockCommit(q)
          \/ LoopFree /\ LockFail(q)
     \/ \E t \in Tabs : TabVanishes(t)
     \/ Expire
  /\ UNCHANGED storeVars

SaveStep(r) ==
  \/ RejectBody(r) \/ CheckLock(r) \/ Compare(r) \/ Replace(r) \/ Keep(r)
  \/ Commit(r) \/ CommitRefused(r) \/ CommitBusy(r)

ReqStep(r) ==
  \/ SaveStep(r) \/ Fetch(r)
  \/ Unlink(r) \/ ForgetRows(r)
  \/ EraseFile(r) \/ EraseHistory(r) \/ ForgetVault(r)
  \/ StorageFails(r)

Next ==
  \/ \E r \in Reqs :
       \/ \E t \in Tabs :
            BeginSave(r, t) \/ \E n \in Seqs : BeginRestore(r, t, n)
       \/ BeginDrop(r) \/ BeginDelete(r)
       \/ ReqStep(r)
  \/ \E t \in Tabs : OpenVault(t)
  \/ LockStep
  \/ OtherWrites \/ OtherCommits
  \/ Restart

Spec == Init /\ [][Next]_vars

(* A request keeps running once it has what it needs: its thread, or its   *)
(* turn on the loop.  The body of a save may never come; the server sets   *)
(* no limit to that wait, so nothing is assumed about it, nor about when   *)
(* the transaction of another endpoint ends.                               *)
Working(r) == ~At(r, "idle") /\ ~At(r, "body")

FairSpec == Spec /\ \A r \in Reqs : WF_vars(Working(r) /\ ReqStep(r))

-----------------------------------------------------------------------------
(* Every generation the service has confirmed - by a save or a restore - is*)
(* still there, row and file, with the content that was confirmed, unless  *)
(* an administrator set out to delete it or the whole vault.  What failed  *)
(* or crashed half way never damages what was confirmed before.            *)
ConfirmedIsKept ==
  \A k \in kept :
    \/ purged \/ k[1] \in condemned
    \/ rows[k[1]] = k[2] /\ gen[k[1]] = k[2]

(* A generation number stands for one content for ever, also after the     *)
(* generation was deleted.                                                 *)
NumbersAreNeverReused ==
  \A k, l \in kept : purged \/ (k[1] = l[1] => k = l)

(* A save replaces the content it was based on and nothing else, whatever  *)
(* happened to the lock in the meantime: no save is lost without a trace.  *)
SavesReplaceTheirBase ==
  [][\A r \in Reqs :
       Replace(r) /\ req[r].kind = "save" => purged \/ file = req[r].base]_vars

(* The abstract history: what can be listed and fetched is an append-only  *)
(* log of what was current, cut only where somebody asked for it.          *)
Promise == INSTANCE VaultHistory WITH
  current <- file,
  history <- [n \in Seqs |-> IF rows[n] = Nothing THEN Nothing ELSE gen[n]],
  high <- IF vault = Gone THEN 0 ELSE vault.next - 1,
  doomed <- condemned,
  deleting <- purged

KeepsItsPromise == Promise!Spec

(* Deleting the vault leaves nothing of it in the database, although saves,*)
(* restores and lock requests that loaded its row may commit afterwards.   *)
GoneIsGone ==
  vault = Gone => lock = NoLock /\ \A n \in Seqs : rows[n] = Nothing

(* No request waits for ever once it is past its body, although a commit   *)
(* that waits for another transaction stops the loop which that transaction*)
(* needs for its own commit.                                               *)
RequestsEnd == \A r \in Reqs : Working(r) ~> At(r, "idle")

(* A save that was answered with "send the request again" has left the     *)
(* file alone, so that sending it again can succeed.  The code does not    *)
(* keep this: see the README, disagreements.                               *)
BusyHadNoEffect == file \notin refused \/ file = Nothing

(* When the vault is gone and nothing is under way, its files are gone too.*)
(* The code does not keep this: see the README, disagreements.             *)
DeletedLeavesNoFiles ==
  vault = Gone /\ (\A r \in Reqs : At(r, "idle"))
    => file = Nothing /\ \A n \in Seqs : gen[n] = Nothing

=============================================================================

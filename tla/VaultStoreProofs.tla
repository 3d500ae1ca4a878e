-------------------------- MODULE VaultStoreProofs --------------------------
(***************************************************************************)
(* Proofs about VaultLocks and VaultStore, for any number of people, tabs, *)
(* requests, tokens, saves and generations.                                *)
(*                                                                         *)
(* The lock comes first.  Of the store, types and the parts that need no   *)
(* assumption follow; what needs that restores keep clear of saves         *)
(* (NobodyEdits) is proved from it at the end.                             *)
(***************************************************************************)
EXTENDS VaultStore, TLAPS

-----------------------------------------------------------------------------
(* The lock: its inductive invariant                                       *)

(* Requests are shaped as the Load actions make them: only acquiring writes*)
(* a row, and a request that carries a token belongs to a tab.             *)
LockReqsOK ==
  \A q \in LockReqs :
    /\ lockReq[q].op \in {"acquire", "renew", "release"} =>
         lockReq[q].tab \in Tabs
    /\ lockReq[q].op = "acquire" => lockReq[q].token \in Tokens
    /\ lockReq[q].stmt \in {"insert", "switch"} => lockReq[q].op = "acquire"

(* Account u is connected with token k: by the row, by a tab, by a request.*)
Knows(u, k) ==
  \/ lock # NoLock /\ lock.user = u /\ lock.token = k
  \/ \E t \in Tabs : UserOf[t] = u /\ held[t] = k
  \/ \E q \in LockReqs : /\ lockReq[q].tab \in Tabs
                         /\ UserOf[lockReq[q].tab] = u
                         /\ lockReq[q].token = k

OneOwner ==
  \A k \in Tokens : \A u, v \in Users : Knows(u, k) /\ Knows(v, k) => u = v

LockInv == LockTypeOK /\ LockReqsOK /\ OneOwner
-----------------------------------------------------------------------------
(* A step after which every account is connected with no token it was not  *)
(* connected with before keeps OneOwner.                                   *)
LEMMA NothingNewIsKnown ==
  ASSUME OneOwner, \A u \in Users, k \in Tokens : Knows(u, k)' => Knows(u, k)
  PROVE  OneOwner'
  <1>1. SUFFICES ASSUME NEW k \in Tokens, NEW u \in Users, NEW v \in Users,
                        Knows(u, k)', Knows(v, k)'
                 PROVE  u = v
    BY DEF OneOwner
  <1>2. Knows(u, k) /\ Knows(v, k)
    BY <1>1
  <1> QED BY <1>2 DEF OneOwner

(* Nor does handing one account a token that is fresh.                     *)
LEMMA FreshIsUnknown ==
  ASSUME NEW k \in Tokens, Fresh(k), NEW u
  PROVE  ~Knows(u, k)
  BY DEF Fresh, Knows

LEMMA FreshTokenHasOneOwner ==
  ASSUME OneOwner, NEW w \in Users, NEW n \in Tokens, Fresh(n),
         \A u \in Users, k \in Tokens :
           Knows(u, k)' => Knows(u, k) \/ (u = w /\ k = n)
  PROVE  OneOwner'
  <1>1. SUFFICES ASSUME NEW k \in Tokens, NEW u \in Users, NEW v \in Users,
                        Knows(u, k)', Knows(v, k)'
                 PROVE  u = v
    BY DEF OneOwner
  <1>2. /\ Knows(u, k) \/ (u = w /\ k = n)
        /\ Knows(v, k) \/ (v = w /\ k = n)
    BY <1>1
  <1>3. CASE k = n
    BY <1>2, <1>3, FreshIsUnknown
  <1>4. CASE k # n
    BY <1>2, <1>4 DEF OneOwner
  <1> QED BY <1>3, <1>4
-----------------------------------------------------------------------------
LEMMA LockInitInv == LockInit => LockInv
  <1> SUFFICES ASSUME LockInit PROVE LockInv
    OBVIOUS
  <1>1. LockTypeOK
    BY DEF LockInit, LockTypeOK, LockRequest, IdleLockReq, Statements
  <1>2. LockReqsOK
    BY LockAssumption DEF LockInit, LockReqsOK, IdleLockReq
  <1>3. ASSUME NEW k \in Tokens, NEW u
        PROVE  ~Knows(u, k)
    BY LockAssumption DEF LockInit, Knows, IdleLockReq
  <1> QED BY <1>1, <1>2, <1>3 DEF LockInv, OneOwner

(* Loading.                                                                *)
LEMMA LoadAcquireInv ==
  ASSUME LockInv, NEW q \in LockReqs, NEW t \in Tabs, LoadAcquire(q, t)
  PROVE  LockInv'
  <1>1. CASE LiveLock /\ lock.user = UserOf[t] /\ Decide(q, "acquire", "extend", t, lock.token)
    <2>1. LockTypeOK'
      BY <1>1 DEF LoadAcquire, LockInv, LockTypeOK, LockRequest, LockRow, Ops,
                  Statements, Decide, LiveLock
    <2>2. LockReqsOK'
      BY <1>1 DEF LoadAcquire, LockInv, LockTypeOK, LockRow, LockReqsOK, Decide,
                  LiveLock, LockRequest
    <2>3. \A u \in Users, k \in Tokens : Knows(u, k)' => Knows(u, k)
      BY <1>1 DEF LoadAcquire, LockInv, LockTypeOK, Knows, Decide, LiveLock
    <2> QED BY <2>1, <2>2, <2>3, NothingNewIsKnown DEF LockInv
  <1>2. ASSUME NEW n \in Tokens, Fresh(n), NEW stmt \in {"insert", "switch"},
               Decide(q, "acquire", stmt, t, n)
        PROVE  LockInv'
    <2>1. LockTypeOK'
      BY <1>2 DEF LoadAcquire, LockInv, LockTypeOK, LockRequest, Ops,
                  Statements, Decide
    <2>2. LockReqsOK'
      BY <1>2 DEF LoadAcquire, LockInv, LockTypeOK, LockReqsOK, Decide, LockRequest
    <2>3. /\ UserOf[t] \in Users
          /\ \A u \in Users, k \in Tokens :
               Knows(u, k)' => Knows(u, k) \/ (u = UserOf[t] /\ k = n)
      BY <1>2, LockAssumption
         DEF LoadAcquire, LockInv, LockTypeOK, Knows, Decide
    <2> QED BY <1>2, <2>1, <2>2, <2>3, FreshTokenHasOneOwner DEF LockInv
  <1> QED BY <1>1, <1>2 DEF LoadAcquire

LEMMA LoadRenewInv ==
  ASSUME LockInv, NEW q \in LockReqs, NEW t \in Tabs, LoadRenew(q, t)
  PROVE  LockInv'
  <1>1. LockTypeOK'
    BY DEF LoadRenew, LockInv, LockTypeOK, LockRequest, Ops, Statements, Decide
  <1>2. LockReqsOK'
    BY DEF LoadRenew, LockInv, LockTypeOK, LockReqsOK, Decide, LockRequest
  <1>3. \A u \in Users, k \in Tokens : Knows(u, k)' => Knows(u, k)
    BY LockAssumption DEF LoadRenew, LockInv, LockTypeOK, Knows, Decide
  <1> QED BY <1>1, <1>2, <1>3, NothingNewIsKnown DEF LockInv

LEMMA LoadReleaseInv ==
  ASSUME LockInv, NEW q \in LockReqs, NEW t \in Tabs, LoadRelease(q, t)
  PROVE  LockInv'
  <1>1. LockTypeOK'
    BY DEF LoadRelease, LockInv, LockTypeOK, LockRequest, Ops, Statements, Decide
  <1>2. LockReqsOK'
    BY DEF LoadRelease, LockInv, LockTypeOK, LockReqsOK, Decide, LockRequest
  <1>3. \A u \in Users, k \in Tokens : Knows(u, k)' => Knows(u, k)
    BY LockAssumption DEF LoadRelease, LockInv, LockTypeOK, Knows, Decide
  <1> QED BY <1>1, <1>2, <1>3, NothingNewIsKnown DEF LockInv

(* A request that only deletes the row and carries no token.               *)
LEMMA DeleteOnlyInv ==
  ASSUME LockInv, NEW q \in LockReqs, NEW op \in {"look", "break"},
         Decide(q, op, "delete", NoTab, NoToken), UNCHANGED <<lock, held>>
  PROVE  LockInv'
  <1>1. LockTypeOK'
    BY DEF LockInv, LockTypeOK, LockRequest, Ops, Statements, Decide
  <1>2. LockReqsOK'
    BY DEF LockInv, LockTypeOK, LockReqsOK, Decide, LockRequest
  <1>3. \A u \in Users, k \in Tokens : Knows(u, k)' => Knows(u, k)
    BY LockAssumption DEF LockInv, LockTypeOK, Knows, Decide
  <1> QED BY <1>1, <1>2, <1>3, NothingNewIsKnown DEF LockInv

LEMMA LockLoadInv ==
  ASSUME LockInv, NEW q \in LockReqs, LockLoad(q)
  PROVE  LockInv'
  BY LoadAcquireInv, LoadRenewInv, LoadReleaseInv, DeleteOnlyInv
     DEF LockLoad, LoadLook, LoadBreak

(* Committing.                                                             *)
LEMMA LockCommitInv ==
  ASSUME LockInv, NEW q \in LockReqs, LockCommit(q)
  PROVE  LockInv'
  <1> DEFINE r == lockReq[q]
  <1>1. r \in LockRequest /\ r.op \in Ops
    BY DEF LockInv, LockTypeOK, LockCommit, Idle, LockRequest
  <1>2. r.op = "acquire" => r.tab \in Tabs /\ r.token \in Tokens
    BY DEF LockInv, LockReqsOK
  <1>3. lock' \in LockRow \cup {NoLock}
    <2>1. CASE r.stmt \in {"insert", "switch"}
      <3>1. r.op = "acquire"
        BY <2>1 DEF LockInv, LockReqsOK
      <3>2. lock' = [user |-> UserOf[r.tab], token |-> r.token, live |-> TRUE]
        BY <2>1 DEF LockCommit, RowAfter
      <3> QED BY <1>2, <3>1, <3>2, LockAssumption DEF LockRow
    <2>2. CASE r.stmt = "extend"
      <3>1. lock # NoLock /\ lock' = [lock EXCEPT !.live = TRUE]
        BY <2>2 DEF LockCommit, RowAfter, Applies
      <3> QED BY <3>1 DEF LockInv, LockTypeOK, LockRow
    <2>3. CASE r.stmt = "delete"
      BY <2>3 DEF LockCommit, RowAfter
    <2> QED BY <1>1, <2>1, <2>2, <2>3 DEF LockRequest, Statements
  <1>4. LockTypeOK'
    BY <1>2, <1>3
       DEF LockCommit, LockInv, LockTypeOK, LockRequest, IdleLockReq, Statements
  <1>5. LockReqsOK'
    BY DEF LockCommit, LockInv, LockTypeOK, LockReqsOK, IdleLockReq
  <1>6. ASSUME NEW u \in Users, NEW k \in Tokens, Knows(u, k)'
        PROVE  Knows(u, k)
    <2>1. CASE lock' # NoLock /\ lock'.user = u /\ lock'.token = k
      <3>1. CASE r.stmt \in {"insert", "switch"}
        <4>1. r.op = "acquire"
          BY <3>1 DEF LockInv, LockReqsOK
        <4>2. lock' = [user |-> UserOf[r.tab], token |-> r.token, live |-> TRUE]
          BY <3>1 DEF LockCommit, RowAfter
        <4> QED BY <1>2, <2>1, <4>1, <4>2 DEF Knows
      <3>2. CASE r.stmt = "extend"
        <4>1. lock # NoLock /\ lock' = [lock EXCEPT !.live = TRUE]
          BY <3>2 DEF LockCommit, RowAfter, Applies
        <4>2. lock \in LockRow
          BY <4>1 DEF LockInv, LockTypeOK
        <4> QED BY <2>1, <4>1, <4>2 DEF Knows, LockRow
      <3>3. CASE r.stmt = "delete"
        BY <2>1, <3>3 DEF LockCommit, RowAfter
      <3> QED BY <1>1, <3>1, <3>2, <3>3 DEF LockRequest, Statements
    <2>2. ASSUME NEW t \in Tabs, UserOf[t] = u, held'[t] = k
          PROVE  Knows(u, k)
      BY <1>2, <2>2 DEF LockCommit, LockInv, LockTypeOK, Knows
    <2>3. ASSUME NEW p \in LockReqs, lockReq'[p].tab \in Tabs,
                 UserOf[lockReq'[p].tab] = u, lockReq'[p].token = k
          PROVE  Knows(u, k)
      BY <2>3, LockAssumption
         DEF LockCommit, LockInv, LockTypeOK, Knows, IdleLockReq
    <2> QED BY <1>6, <2>1, <2>2, <2>3 DEF Knows
  <1> QED BY <1>4, <1>5, <1>6, NothingNewIsKnown DEF LockInv

(* Steps after which somebody remembers less, and everything else is as it *)
(* was: a failed request, a tab that vanishes, a restart of the server.    *)
LEMMA ForgettingInv ==
  ASSUME LockInv, UNCHANGED lock,
         held' \in [Tabs -> Tokens \cup {NoToken}],
         \A t \in Tabs : held'[t] \in {held[t], NoToken},
         DOMAIN lockReq' = LockReqs, lockReq' = [q \in LockReqs |-> lockReq'[q]],
         \A q \in LockReqs : lockReq'[q] \in {lockReq[q], IdleLockReq}
  PROVE  LockInv'
  <1>1. LockTypeOK'
    BY DEF LockInv, LockTypeOK, LockRequest, IdleLockReq, Statements
  <1>2. LockReqsOK'
    BY DEF LockInv, LockReqsOK, IdleLockReq
  <1>3. \A u \in Users, k \in Tokens : Knows(u, k)' => Knows(u, k)
    BY LockAssumption DEF Knows, IdleLockReq
  <1> QED BY <1>1, <1>2, <1>3, NothingNewIsKnown DEF LockInv

LEMMA LockFailInv ==
  ASSUME LockInv, NEW q \in LockReqs, LockFail(q)
  PROVE  LockInv'
  BY ForgettingInv DEF LockFail, LockInv, LockTypeOK

LEMMA TabVanishesInv ==
  ASSUME LockInv, NEW t \in Tabs, TabVanishes(t)
  PROVE  LockInv'
  BY ForgettingInv DEF TabVanishes, LockInv, LockTypeOK

(* Steps that move the deadline of the row or remove the row, and leave the*)
(* rest alone.                                                             *)
LEMMA SameHolderInv ==
  ASSUME LockInv, UNCHANGED <<held, lockReq>>,
         \/ lock' = NoLock
         \/ lock # NoLock /\ \E b \in BOOLEAN : lock' = [lock EXCEPT !.live = b]
  PROVE  LockInv'
  <1>1. LockTypeOK'
    BY DEF LockInv, LockTypeOK, LockRow
  <1>2. LockReqsOK'
    BY DEF LockInv, LockReqsOK
  <1>3. \A u \in Users, k \in Tokens : Knows(u, k)' => Knows(u, k)
    BY DEF LockInv, LockTypeOK, LockRow, Knows
  <1> QED BY <1>1, <1>2, <1>3, NothingNewIsKnown DEF LockInv

LEMMA LockNextInv == LockInv /\ [LockNext]_lockVars => LockInv'
  <1> SUFFICES ASSUME LockInv, [LockNext]_lockVars PROVE LockInv'
    OBVIOUS
  <1>1. ASSUME NEW q \in LockReqs, LockLoad(q) PROVE LockInv'
    BY <1>1, LockLoadInv
  <1>2. ASSUME NEW q \in LockReqs, LockCommit(q) PROVE LockInv'
    BY <1>2, LockCommitInv
  <1>3. ASSUME NEW q \in LockReqs, LockFail(q) PROVE LockInv'
    BY <1>3, LockFailInv
  <1>4. ASSUME NEW t \in Tabs, TabVanishes(t) PROVE LockInv'
    BY <1>4, TabVanishesInv
  <1>5. CASE Expire
    BY <1>5, SameHolderInv DEF Expire, LiveLock
  <1>6. CASE UNCHANGED lockVars
    BY <1>6 DEF lockVars, LockInv, LockTypeOK, LockReqsOK, OneOwner, Knows
  <1> QED BY <1>1, <1>2, <1>3, <1>4, <1>5, <1>6 DEF LockNext
-----------------------------------------------------------------------------
LEMMA LockInvHolds == LockSpec => []LockInv
  BY LockInitInv, LockNextInv, PTL DEF LockSpec

(* Every variable keeps its type.                                          *)
THEOREM LockTypeCorrect == LockSpec => []LockTypeOK
  <1>1. LockInv => LockTypeOK
    BY DEF LockInv
  <1> QED BY <1>1, LockInvHolds, PTL

(* The row that carries a tab's token belongs to that tab's account: a     *)
(* check of the token alone, as restore_generation and renew() make it,    *)
(* never lets a second person through.                                     *)
LEMMA LockInvGivesPersonalTokens == LockInv => TokenIsPersonal
  <1> SUFFICES ASSUME LockInv, NEW t \in Tabs, lock # NoLock, lock.token = held[t]
               PROVE  lock.user = UserOf[t]
    BY DEF TokenIsPersonal
  <1>1. /\ lock.token \in Tokens /\ lock.user \in Users
        /\ UserOf[t] \in Users
    BY LockAssumption DEF LockInv, LockTypeOK, LockRow
  <1>2. Knows(lock.user, lock.token) /\ Knows(UserOf[t], lock.token)
    BY DEF Knows
  <1> QED BY <1>1, <1>2 DEF LockInv, OneOwner

THEOREM TokensArePersonal == LockSpec => []TokenIsPersonal
  BY LockInvHolds, LockInvGivesPersonalTokens, PTL

-----------------------------------------------------------------------------
(* The store: its inductive invariant                                      *)

Writing == {"replace", "keep", "commit"}
Saving == {"body", "compare"} \cup Writing
Restoring == {"fetch"} \cup Writing

IsSave(r) == req[r].kind = "save" /\ req[r].phase \in Saving
IsRestore(r) == req[r].kind = "restore" /\ req[r].phase \in Restoring

(* The phases belong to their kinds, and a request that will use a number  *)
(* has one.                                                                *)
Shape ==
  \A r \in Reqs :
    /\ req[r].phase # "idle" =>
         \/ IsSave(r)
         \/ IsRestore(r)
         \/ req[r].kind = "drop" /\ req[r].phase \in {"unlink", "forget"}
         \/ /\ req[r].kind = "delete"
            /\ req[r].phase \in {"eraseHistory", "eraseFile", "forgetVault"}
            /\ purged
    /\ IsSave(r) \/ IsRestore(r) => req[r].seen.next \in Seqs
    /\ req[r].kind = "drop" => req[r].seqs \subseteq condemned

(* A save that has passed its lock check occupies the loop.                *)
LoopHeld ==
  \A r \in Reqs : IsSave(r) /\ ~At(r, "body") => loop = r

(* Restores keep clear: see NobodyEdits.                                   *)
Alone ==
  \A r, s \in Reqs : IsRestore(r) /\ s # r => ~IsSave(s) /\ ~IsRestore(s)

(* Contents are numbered in the order they were sent, so what exists is no *)
(* newer than the last save sent.                                          *)
NothingNewer ==
  /\ file <= sent
  /\ \A n \in Seqs : gen[n] <= sent
  /\ \A t \in Tabs : base[t] <= sent
  /\ \A r \in Reqs : req[r].body <= sent /\ req[r].base <= sent
  /\ vault # Gone => vault.etag <= sent

(* The body of a save is nowhere else before the save replaces the file.   *)
BodiesAreNew ==
  \A r \in Reqs : IsSave(r) =>
    /\ req[r].body # Nothing
    /\ \A s \in Reqs \ {r} :
         IsSave(s) => req[s].body # req[r].body /\ req[s].base # req[r].body
    /\ req[r].phase \in {"body", "compare", "replace"} =>
         /\ file # req[r].body
         /\ \A n \in Seqs : gen[n] # req[r].body
         /\ \A t \in Tabs : base[t] # req[r].body
         /\ vault # Gone => vault.etag # req[r].body

(* Numbers that are or were given out are below the counter.               *)
NumbersBelow ==
  /\ vault # Gone
  /\ \A n \in Seqs : rows[n] # Nothing => n < vault.next
  /\ \A k \in kept : k[1] < vault.next
  /\ \A n \in condemned : n < vault.next

(* What a request in flight knows is still so.                             *)
CurrentFor(r) ==
  /\ IsRestore(r) \/ (IsSave(r) /\ req[r].phase \in Writing) =>
       req[r].seen.next = vault.next
  /\ IsSave(r) /\ req[r].base = file => req[r].seen.next = vault.next
  /\ IsSave(r) /\ At(r, "replace") => req[r].base = file
  /\ IsRestore(r) /\ req[r].phase \in Writing => req[r].body # Nothing
  /\ (IsSave(r) \/ IsRestore(r)) /\ req[r].phase \in {"keep", "commit"} =>
       file = req[r].body
  /\ (IsSave(r) \/ IsRestore(r)) /\ At(r, "commit") =>
       gen[req[r].seen.next] = req[r].body

Current == \A r \in Reqs : CurrentFor(r)

KeptOK ==
  /\ \A k, l \in kept : k[1] = l[1] => k = l
  /\ \A k \in kept :
       k[1] \in condemned \/ (rows[k[1]] = k[2] /\ gen[k[1]] = k[2])

HistoryInv == purged \/ (NumbersBelow /\ Current /\ KeptOK)

BaseInv == TypeOK /\ LockInv /\ Shape /\ LoopHeld /\ GoneIsGone
StoreInv == BaseInv /\ Alone /\ NothingNewer /\ BodiesAreNew /\ HistoryInv
-----------------------------------------------------------------------------
(* The lock                                                                *)

LEMMA LockPartInv ==
  ASSUME LockInv, [Next]_vars
  PROVE  LockInv'
  <1>1. CASE UNCHANGED lockVars
    BY <1>1, LockNextInv
  <1>2. CASE LockStep
    BY <1>2, LockLoadInv, LockCommitInv, LockFailInv, TabVanishesInv, SameHolderInv
       DEF LockStep, Expire, LiveLock
  <1>3. ASSUME NEW r \in Reqs, Commit(r) PROVE LockInv'
    <2>1. CASE req[r].kind = "save"
      <3>1. lock # NoLock /\ \E b \in BOOLEAN : lock' = [lock EXCEPT !.live = b]
        BY <1>3, <2>1 DEF Commit, FlushApplies
      <3> QED BY <1>3, <3>1, SameHolderInv DEF Commit
    <2>2. CASE req[r].kind # "save"
      BY <1>3, <2>2, LockNextInv DEF Commit, lockVars
    <2> QED BY <2>1, <2>2
  <1>4. ASSUME NEW r \in Reqs, ForgetVault(r) PROVE LockInv'
    BY <1>4, SameHolderInv DEF ForgetVault
  <1>5. CASE Restart
    <2>1. /\ UNCHANGED <<lock, held>>
          /\ lockReq' = [q \in LockReqs |-> IdleLockReq]
      BY <1>5 DEF Restart
    <2> QED BY <2>1, ForgettingInv DEF LockInv, LockTypeOK
  <1>6. CASE UNCHANGED vars
    BY <1>1, <1>6 DEF vars
  <1>7. ASSUME Next, ~LockStep, ~Restart,
               \A r \in Reqs : ~Commit(r) /\ ~ForgetVault(r)
        PROVE  UNCHANGED lockVars
    BY ZenonT(60), <1>7
       DEF Next, ReqStep, SaveStep, OpenVault, BeginSave, RejectBody, CheckLock,
           Compare, BeginRestore, Fetch, Replace, Keep, CommitRefused,
           CommitBusy, BeginDrop, Unlink, ForgetRows, BeginDelete, EraseHistory,
           EraseFile, StorageFails, OtherWrites, OtherCommits
  <1> QED BY <1>1, <1>2, <1>3, <1>4, <1>5, <1>6, <1>7
-----------------------------------------------------------------------------
(* Types                                                                   *)

LEMMA EmptyType == Nothing \in Contents /\ [n \in Seqs |-> Nothing] \in [Seqs -> Contents]
  BY StoreAssumption DEF Nothing, Contents

LEMMA WithoutType ==
  ASSUME NEW f \in [Seqs -> Contents], NEW S
  PROVE  Without(f, S) \in [Seqs -> Contents]
  BY EmptyType DEF Without

LEMMA IdleReqOK == IdleReq \in Request
  BY StoreAssumption, EmptyType DEF IdleReq, Request, Phases, Kinds, VaultRow

LEMMA AdvanceType ==
  ASSUME TypeOK, NEW r \in Reqs, NEW phase \in Phases, Advance(r, phase)
  PROVE  req' \in [Reqs -> Request]
  BY SMTT(30) DEF TypeOK, Advance, Request

LEMMA WithBodyType ==
  ASSUME TypeOK, NEW r \in Reqs, NEW phase \in Phases, NEW c \in Contents,
         req' = [req EXCEPT ![r].phase = phase, ![r].body = c]
  PROVE  req' \in [Reqs -> Request]
  <1>1. ASSUME NEW s \in Reqs PROVE req'[s] \in Request
    <2>1. CASE s # r
      BY <2>1 DEF TypeOK
    <2>2. CASE s = r
      <3>1. req'[s] = [req[s] EXCEPT !.phase = phase, !.body = c]
        BY <2>2 DEF TypeOK
      <3> QED BY ZenonT(60), <3>1 DEF TypeOK, Request
    <2> QED BY <2>1, <2>2
  <1> QED BY <1>1 DEF TypeOK

LEMMA FinishType ==
  ASSUME TypeOK, NEW r \in Reqs, Finish(r)
  PROVE  req' \in [Reqs -> Request]
  BY IdleReqOK DEF TypeOK, Finish

LEMMA CommittedRowIsARow ==
  ASSUME TypeOK, Shape, NEW r \in Reqs, Commit(r)
  PROVE  vault' \in VaultRow
  <1>1. req[r] \in Request /\ req[r].seen.next \in Seqs
    BY DEF Commit, At, Shape, IsSave, IsRestore, Saving, Restoring, Writing, TypeOK
  <1>2. req[r].seen.next + 1 \in 1..MaxSeq + 1
    BY <1>1, StoreAssumption DEF Seqs
  <1>3. vault \in VaultRow
    BY DEF Commit, FlushApplies, TypeOK
  <1> QED BY <1>1, <1>2, <1>3 DEF Commit, VaultAfter, VaultRow, Request

LEMMA TypePart ==
  ASSUME BaseInv, [Next]_vars
  PROVE  TypeOK'
  <1>t. TypeOK /\ LockTypeOK'
    BY LockPartInv DEF BaseInv, LockInv
  <1>s. \A r \in Reqs : IsSave(r) \/ IsRestore(r) => req[r].seen.next \in Seqs
    BY DEF BaseInv, Shape
  <1>1. ASSUME NEW t \in Tabs, OpenVault(t) PROVE TypeOK'
    BY <1>1, <1>t DEF OpenVault, VaultRow, TypeOK
  <1>2. ASSUME NEW r \in Reqs, NEW t \in Tabs, BeginSave(r, t) PROVE TypeOK'
    <2>1. sent + 1 \in Contents /\ sent' \in 0..MaxSaves
      BY <1>2, <1>t, StoreAssumption DEF BeginSave, TypeOK, Contents
    <2>2. vault \in VaultRow /\ base[t] \in Contents /\ held[t] \in Tokens \cup {NoToken}
      BY <1>2, <1>t DEF BeginSave, TypeOK, LockTypeOK, BaseInv
    <2>3. req'[r] \in Request
      BY <1>2, <1>t, <2>1, <2>2 DEF BeginSave, TypeOK, Request, Phases, Kinds
    <2>4. req' \in [Reqs -> Request]
      BY <1>2, <1>t, <2>3 DEF BeginSave, TypeOK
    <2> QED BY <1>2, <1>t, <2>1, <2>4 DEF BeginSave, TypeOK
  <1>3. ASSUME NEW r \in Reqs, RejectBody(r) PROVE TypeOK'
    BY <1>3, <1>t, FinishType DEF RejectBody, TypeOK
  <1>4. ASSUME NEW r \in Reqs, CheckLock(r) PROVE TypeOK'
    BY <1>4, <1>t, AdvanceType, FinishType DEF CheckLock, Phases, TypeOK
  <1>5. ASSUME NEW r \in Reqs, Compare(r) PROVE TypeOK'
    BY <1>5, <1>t, AdvanceType, FinishType DEF Compare, Phases, TypeOK
  <1>6. ASSUME NEW r \in Reqs, NEW t \in Tabs, NEW n \in Seqs, BeginRestore(r, t, n)
        PROVE  TypeOK'
    <2>1. /\ vault \in VaultRow /\ held[t] \in Tokens \cup {NoToken}
          /\ Nothing \in Contents
      BY <1>6, <1>t, IdleReqOK DEF BeginRestore, TypeOK, LockTypeOK, IdleReq, Request
    <2>2. req'[r] \in Request
      BY <1>6, <1>t, <2>1 DEF BeginRestore, TypeOK, Request, Phases, Kinds
    <2>3. req' \in [Reqs -> Request]
      BY <1>6, <1>t, <2>2 DEF BeginRestore, TypeOK
    <2> QED BY <1>6, <1>t, <2>3 DEF BeginRestore, TypeOK
  <1>7. ASSUME NEW r \in Reqs, Fetch(r) PROVE TypeOK'
    <2>1. req' \in [Reqs -> Request]
      <3>1. PICK n \in req[r].seqs :
              IF gen[n] = Nothing
                THEN Finish(r)
                ELSE req' = [req EXCEPT ![r].phase = "replace", ![r].body = gen[n]]
        BY <1>7 DEF Fetch
      <3>2. gen[n] \in Contents
        BY <1>t, <3>1 DEF TypeOK, Request
      <3>3. "replace" \in Phases
        BY DEF Phases
      <3> QED BY <1>t, <3>1, <3>2, <3>3, FinishType, WithBodyType
    <2> QED BY <1>7, <1>t, <2>1 DEF Fetch, TypeOK
  <1>8. ASSUME NEW r \in Reqs, Replace(r) PROVE TypeOK'
    BY <1>8, <1>t, AdvanceType DEF Replace, Phases, Request, TypeOK
  <1>9. ASSUME NEW r \in Reqs, Keep(r) PROVE TypeOK'
    <2>1. req[r].body \in Contents
      BY <1>t DEF TypeOK, Request
    <2> QED BY <1>9, <1>t, <2>1, AdvanceType DEF Keep, Phases, TypeOK
  <1>10. ASSUME NEW r \in Reqs, Commit(r) PROVE TypeOK'
    <2>1. req[r] \in Request /\ req[r].seen.next \in Seqs
      BY <1>10, <1>t, <1>s
         DEF Commit, At, IsSave, IsRestore, Saving, Restoring, Writing, TypeOK
    <2>4. vault' \in VaultRow
      BY <1>10, CommittedRowIsARow DEF BaseInv
    <2>5. rows' \in [Seqs -> Contents]
      BY <1>10, <1>t, <2>1 DEF Commit, TypeOK, Request
    <2>6. base' \in [Tabs -> Contents]
      BY <1>10, <1>t, <2>1 DEF Commit, TypeOK, Request
    <2>7. kept' \in SUBSET (Seqs \X Contents)
      BY <1>10, <1>t, <2>1 DEF Commit, TypeOK, Request
    <2>8. req' \in [Reqs -> Request] /\ loop' \in Reqs \cup {NoReq}
      BY <1>10, <1>t, FinishType DEF Commit
    <2> QED BY <1>10, <1>t, <2>4, <2>5, <2>6, <2>7, <2>8 DEF Commit, TypeOK
  <1>11. ASSUME NEW r \in Reqs, CommitRefused(r) PROVE TypeOK'
    BY <1>11, <1>t, FinishType DEF CommitRefused, TypeOK
  <1>12. ASSUME NEW r \in Reqs, CommitBusy(r) PROVE TypeOK'
    BY <1>12, <1>t, FinishType DEF CommitBusy, Request, TypeOK
  <1>13. ASSUME NEW r \in Reqs, BeginDrop(r) PROVE TypeOK'
    <2>1. PICK S \in SUBSET Seqs :
            /\ req' = [req EXCEPT ![r] =
                 [IdleReq EXCEPT !.phase = "unlink", !.kind = "drop", !.seqs = S]]
            /\ condemned' = condemned \cup S
      BY <1>13 DEF BeginDrop, Below
    <2>2. req' \in [Reqs -> Request]
      BY <1>t, <2>1, IdleReqOK DEF TypeOK, Request, Phases, Kinds
    <2> QED BY SMTT(30), <1>13, <1>t, <2>1, <2>2 DEF BeginDrop, TypeOK
  <1>14. ASSUME NEW r \in Reqs, Unlink(r) PROVE TypeOK'
    BY <1>14, <1>t, AdvanceType, EmptyType, WithoutType
       DEF Unlink, Phases, TypeOK
  <1>15. ASSUME NEW r \in Reqs, ForgetRows(r) PROVE TypeOK'
    BY <1>15, <1>t, FinishType, EmptyType, WithoutType DEF ForgetRows, TypeOK
  <1>16. ASSUME NEW r \in Reqs, BeginDelete(r) PROVE TypeOK'
    <2>1. req' \in [Reqs -> Request]
      BY <1>16, <1>t, IdleReqOK DEF BeginDelete, TypeOK, Request, Phases, Kinds
    <2> QED BY <1>16, <1>t, <2>1 DEF BeginDelete, TypeOK
  <1>17. ASSUME NEW r \in Reqs, EraseHistory(r) PROVE TypeOK'
    <2>1. req' \in [Reqs -> Request]
      <3>1. {"eraseFile", "forgetVault"} \subseteq Phases /\ file \in Contents
        BY <1>t DEF Phases, TypeOK
      <3> QED BY <1>17, <1>t, <3>1, AdvanceType, WithBodyType DEF EraseHistory
    <2> QED BY <1>17, <1>t, <2>1, EmptyType DEF EraseHistory, TypeOK
  <1>18. ASSUME NEW r \in Reqs, EraseFile(r) PROVE TypeOK'
    BY <1>18, <1>t, AdvanceType, FinishType, EmptyType
       DEF EraseFile, Phases, TypeOK
  <1>19. ASSUME NEW r \in Reqs, ForgetVault(r) PROVE TypeOK'
    BY <1>19, <1>t, FinishType, EmptyType DEF ForgetVault, TypeOK
  <1>20. ASSUME NEW r \in Reqs, StorageFails(r) PROVE TypeOK'
    BY <1>20, <1>t, FinishType, EmptyType, WithoutType
       DEF StorageFails, TypeOK
  <1>21. CASE LockStep
    BY <1>21, <1>t DEF LockStep, storeVars, TypeOK
  <1>22. CASE OtherWrites
    BY <1>22, <1>t DEF OtherWrites, TypeOK
  <1>23. CASE OtherCommits
    BY <1>23, <1>t DEF OtherCommits, TypeOK
  <1>24. CASE Restart
    BY <1>24, <1>t, IdleReqOK DEF Restart, TypeOK
  <1>25. CASE UNCHANGED vars
    BY <1>25, <1>t DEF vars, storeVars, TypeOK
  <1> QED BY <1>1, <1>2, <1>3, <1>4, <1>5, <1>6, <1>7, <1>8, <1>9, <1>10,
       <1>11, <1>12, <1>13, <1>14, <1>15, <1>16, <1>17, <1>18, <1>19, <1>20,
       <1>21, <1>22, <1>23, <1>24, <1>25 DEF Next, ReqStep, SaveStep

LEMMA ShapePart ==
  ASSUME BaseInv, [Next]_vars
  PROVE  Shape'
  <1>t. TypeOK /\ Shape
    BY DEF BaseInv
  <1>1. ASSUME NEW t \in Tabs, OpenVault(t) PROVE Shape'
    BY <1>1, <1>t
       DEF OpenVault, At, Shape, TypeOK, IsSave, IsRestore, Saving,
           Restoring, Writing
  <1>2. ASSUME NEW r \in Reqs, NEW t \in Tabs, BeginSave(r, t) PROVE Shape'
    BY <1>2, <1>t
       DEF BeginSave, At, Shape, TypeOK, IsSave, IsRestore, Saving,
           Restoring, Writing
  <1>3. ASSUME NEW r \in Reqs, RejectBody(r) PROVE Shape'
    BY <1>3, <1>t
       DEF RejectBody, Finish, IdleReq, At, Shape, TypeOK, IsSave,
           IsRestore, Saving, Restoring, Writing
  <1>4. ASSUME NEW r \in Reqs, CheckLock(r) PROVE Shape'
    <2>1. CASE Advance(r, "compare")
      BY <1>4, <1>t, <2>1
         DEF CheckLock, Advance, At, Shape, TypeOK, IsSave, IsRestore, Saving,
             Restoring, Writing
    <2>2. CASE Finish(r)
      BY <1>4, <1>t, <2>2
         DEF CheckLock, Finish, IdleReq, At, Shape, TypeOK, IsSave, IsRestore,
             Saving, Restoring, Writing
    <2> QED BY <1>4, <2>1, <2>2 DEF CheckLock
  <1>5. ASSUME NEW r \in Reqs, Compare(r) PROVE Shape'
    <2>1. CASE Advance(r, "replace")
      BY <1>5, <1>t, <2>1
         DEF Compare, Advance, At, Shape, TypeOK, IsSave, IsRestore, Saving,
             Restoring, Writing
    <2>2. CASE Finish(r)
      BY <1>5, <1>t, <2>2
         DEF Compare, Finish, IdleReq, At, Shape, TypeOK, IsSave, IsRestore,
             Saving, Restoring, Writing
    <2> QED BY <1>5, <2>1, <2>2 DEF Compare
  <1>6. ASSUME NEW r \in Reqs, NEW t \in Tabs, NEW n \in Seqs, BeginRestore(r, t, n)
        PROVE  Shape'
    BY <1>6, <1>t
       DEF BeginRestore, At, Shape, TypeOK, IsSave, IsRestore, Saving,
           Restoring, Writing
  <1>7. ASSUME NEW r \in Reqs, Fetch(r) PROVE Shape'
    <2>1. CASE Finish(r)
      BY <1>7, <1>t, <2>1
         DEF Fetch, Finish, IdleReq, At, Shape, TypeOK, IsSave, IsRestore,
             Saving, Restoring, Writing
    <2>2. ASSUME NEW c, req' = [req EXCEPT ![r].phase = "replace", ![r].body = c]
          PROVE  Shape'
      BY <1>7, <1>t, <2>2
         DEF Fetch, At, Shape, TypeOK, IsSave, IsRestore, Saving, Restoring,
             Writing
    <2> QED BY <1>7, <2>1, <2>2 DEF Fetch
  <1>8. ASSUME NEW r \in Reqs, Replace(r) PROVE Shape'
    BY <1>8, <1>t
       DEF Replace, Advance, At, Shape, TypeOK, IsSave, IsRestore, Saving,
           Restoring, Writing
  <1>9. ASSUME NEW r \in Reqs, Keep(r) PROVE Shape'
    BY <1>9, <1>t
       DEF Keep, Advance, At, Shape, TypeOK, IsSave, IsRestore, Saving,
           Restoring, Writing
  <1>10. ASSUME NEW r \in Reqs, Commit(r) PROVE Shape'
    BY <1>10, <1>t
       DEF Commit, Finish, IdleReq, At, Shape, TypeOK, IsSave, IsRestore,
           Saving, Restoring, Writing
  <1>11. ASSUME NEW r \in Reqs, CommitRefused(r) PROVE Shape'
    BY <1>11, <1>t
       DEF CommitRefused, Finish, IdleReq, At, Shape, TypeOK, IsSave,
           IsRestore, Saving, Restoring, Writing
  <1>12. ASSUME NEW r \in Reqs, CommitBusy(r) PROVE Shape'
    BY <1>12, <1>t
       DEF CommitBusy, Finish, IdleReq, At, Shape, TypeOK, IsSave,
           IsRestore, Saving, Restoring, Writing
  <1>13. ASSUME NEW r \in Reqs, BeginDrop(r) PROVE Shape'
    BY <1>13, <1>t
       DEF BeginDrop, IdleReq, At, Shape, TypeOK, IsSave, IsRestore, Saving,
           Restoring, Writing
  <1>14. ASSUME NEW r \in Reqs, Unlink(r) PROVE Shape'
    BY <1>14, <1>t
       DEF Unlink, Advance, At, Shape, TypeOK, IsSave, IsRestore, Saving,
           Restoring, Writing
  <1>15. ASSUME NEW r \in Reqs, ForgetRows(r) PROVE Shape'
    BY <1>15, <1>t
       DEF ForgetRows, Finish, IdleReq, At, Shape, TypeOK, IsSave,
           IsRestore, Saving, Restoring, Writing
  <1>16. ASSUME NEW r \in Reqs, BeginDelete(r) PROVE Shape'
    BY <1>16, <1>t
       DEF BeginDelete, IdleReq, At, Shape, TypeOK, IsSave, IsRestore,
           Saving, Restoring, Writing
  <1>17. ASSUME NEW r \in Reqs, EraseHistory(r) PROVE Shape'
    <2>1. CASE req' = [req EXCEPT ![r].phase = "eraseFile", ![r].body = file]
      BY <1>17, <1>t, <2>1
         DEF EraseHistory, Advance, At, Shape, TypeOK, IsSave, IsRestore,
             Saving, Restoring, Writing
    <2>2. CASE Advance(r, "forgetVault")
      BY <1>17, <1>t, <2>2
         DEF EraseHistory, Advance, At, Shape, TypeOK, IsSave, IsRestore,
             Saving, Restoring, Writing
    <2> QED BY <1>17, <2>1, <2>2 DEF EraseHistory
  <1>18. ASSUME NEW r \in Reqs, EraseFile(r) PROVE Shape'
    <2>1. CASE Advance(r, "forgetVault")
      BY <1>18, <1>t, <2>1
         DEF EraseFile, Advance, At, Shape, TypeOK, IsSave, IsRestore, Saving,
             Restoring, Writing
    <2>2. CASE Finish(r)
      BY <1>18, <1>t, <2>2
         DEF EraseFile, Finish, IdleReq, At, Shape, TypeOK, IsSave, IsRestore,
             Saving, Restoring, Writing
    <2> QED BY <1>18, <2>1, <2>2 DEF EraseFile
  <1>19. ASSUME NEW r \in Reqs, ForgetVault(r) PROVE Shape'
    BY <1>19, <1>t
       DEF ForgetVault, Finish, IdleReq, At, Shape, TypeOK, IsSave,
           IsRestore, Saving, Restoring, Writing
  <1>20. ASSUME NEW r \in Reqs, StorageFails(r) PROVE Shape'
    BY <1>20, <1>t
       DEF StorageFails, Finish, IdleReq, At, Shape, TypeOK, IsSave,
           IsRestore, Saving, Restoring, Writing
  <1>21. CASE LockStep
    BY <1>21, <1>t
       DEF LockStep, storeVars, At, Shape, TypeOK, IsSave, IsRestore,
           Saving, Restoring, Writing
  <1>22. CASE OtherWrites
    BY <1>22, <1>t
       DEF OtherWrites, At, Shape, TypeOK, IsSave, IsRestore, Saving,
           Restoring, Writing
  <1>23. CASE OtherCommits
    BY <1>23, <1>t
       DEF OtherCommits, At, Shape, TypeOK, IsSave, IsRestore, Saving,
           Restoring, Writing
  <1>24. CASE Restart
    BY <1>24, <1>t
       DEF Restart, IdleReq, At, Shape, TypeOK, IsSave, IsRestore, Saving,
           Restoring, Writing
  <1>25. CASE UNCHANGED vars
    BY <1>25, <1>t
       DEF vars, storeVars, At, Shape, TypeOK, IsSave, IsRestore, Saving,
           Restoring, Writing
  <1> QED BY <1>1, <1>2, <1>3, <1>4, <1>5, <1>6, <1>7, <1>8, <1>9, <1>10,
       <1>11, <1>12, <1>13, <1>14, <1>15, <1>16, <1>17, <1>18, <1>19, <1>20,
       <1>21, <1>22, <1>23, <1>24, <1>25 DEF Next, ReqStep, SaveStep

LEMMA LoopPart ==
  ASSUME BaseInv, [Next]_vars
  PROVE  LoopHeld'
  <1>t. TypeOK /\ Shape /\ LoopHeld
    BY DEF BaseInv
  <1>1. ASSUME NEW t \in Tabs, OpenVault(t) PROVE LoopHeld'
    BY <1>1, <1>t
       DEF OpenVault, At, LoopHeld, Shape, TypeOK, LoopFree, IsSave,
           IsRestore, Saving, Restoring, Writing
  <1>2. ASSUME NEW r \in Reqs, NEW t \in Tabs, BeginSave(r, t) PROVE LoopHeld'
    BY <1>2, <1>t
       DEF BeginSave, At, LoopHeld, Shape, TypeOK, LoopFree, IsSave,
           IsRestore, Saving, Restoring, Writing
  <1>3. ASSUME NEW r \in Reqs, RejectBody(r) PROVE LoopHeld'
    BY <1>3, <1>t
       DEF RejectBody, Finish, IdleReq, At, LoopHeld, Shape, TypeOK,
           LoopFree, IsSave, IsRestore, Saving, Restoring, Writing
  <1>4. ASSUME NEW r \in Reqs, CheckLock(r) PROVE LoopHeld'
    <2>1. CASE Advance(r, "compare") /\ loop' = r
      BY <1>4, <1>t, <2>1, StoreAssumption
         DEF CheckLock, Advance, At, LoopHeld, LoopFree, Shape, TypeOK, IsSave,
             IsRestore, Saving, Restoring, Writing
    <2>2. CASE Finish(r) /\ UNCHANGED loop
      BY <1>4, <1>t, <2>2
         DEF CheckLock, Finish, IdleReq, At, LoopHeld, LoopFree, Shape, TypeOK,
             IsSave, IsRestore, Saving, Restoring, Writing
    <2> QED BY <1>4, <2>1, <2>2 DEF CheckLock
  <1>5. ASSUME NEW r \in Reqs, Compare(r) PROVE LoopHeld'
    BY <1>5, <1>t
       DEF Compare, Finish, IdleReq, Advance, At, LoopHeld, Shape, TypeOK,
           LoopFree, IsSave, IsRestore, Saving, Restoring, Writing
  <1>6. ASSUME NEW r \in Reqs, NEW t \in Tabs, NEW n \in Seqs, BeginRestore(r, t, n)
        PROVE  LoopHeld'
    BY <1>6, <1>t
       DEF BeginRestore, At, LoopHeld, Shape, TypeOK, LoopFree, IsSave,
           IsRestore, Saving, Restoring, Writing
  <1>7. ASSUME NEW r \in Reqs, Fetch(r) PROVE LoopHeld'
    <2>1. CASE Finish(r)
      BY <1>7, <1>t, <2>1
         DEF Fetch, Finish, IdleReq, At, LoopHeld, LoopFree, Shape, TypeOK,
             IsSave, IsRestore, Saving, Restoring, Writing
    <2>2. ASSUME NEW c, req' = [req EXCEPT ![r].phase = "replace", ![r].body = c]
          PROVE  LoopHeld'
      BY <1>7, <1>t, <2>2
         DEF Fetch, At, LoopHeld, LoopFree, Shape, TypeOK, IsSave, IsRestore,
             Saving, Restoring, Writing
    <2> QED BY <1>7, <2>1, <2>2 DEF Fetch
  <1>8. ASSUME NEW r \in Reqs, Replace(r) PROVE LoopHeld'
    BY <1>8, <1>t
       DEF Replace, Advance, At, LoopHeld, Shape, TypeOK, LoopFree, IsSave,
           IsRestore, Saving, Restoring, Writing
  <1>9. ASSUME NEW r \in Reqs, Keep(r) PROVE LoopHeld'
    BY <1>9, <1>t
       DEF Keep, Advance, At, LoopHeld, Shape, TypeOK, LoopFree, IsSave,
           IsRestore, Saving, Restoring, Writing
  <1>10. ASSUME NEW r \in Reqs, Commit(r) PROVE LoopHeld'
    BY <1>10, <1>t
       DEF Commit, Finish, IdleReq, At, LoopHeld, Shape, TypeOK, LoopFree,
           IsSave, IsRestore, Saving, Restoring, Writing
  <1>11. ASSUME NEW r \in Reqs, CommitRefused(r) PROVE LoopHeld'
    BY <1>11, <1>t
       DEF CommitRefused, Finish, IdleReq, At, LoopHeld, Shape, TypeOK,
           LoopFree, IsSave, IsRestore, Saving, Restoring, Writing
  <1>12. ASSUME NEW r \in Reqs, CommitBusy(r) PROVE LoopHeld'
    BY <1>12, <1>t
       DEF CommitBusy, Finish, IdleReq, At, LoopHeld, Shape, TypeOK,
           LoopFree, IsSave, IsRestore, Saving, Restoring, Writing
  <1>13. ASSUME NEW r \in Reqs, BeginDrop(r) PROVE LoopHeld'
    BY <1>13, <1>t
       DEF BeginDrop, IdleReq, At, LoopHeld, Shape, TypeOK, LoopFree,
           IsSave, IsRestore, Saving, Restoring, Writing
  <1>14. ASSUME NEW r \in Reqs, Unlink(r) PROVE LoopHeld'
    BY <1>14, <1>t
       DEF Unlink, Advance, At, LoopHeld, Shape, TypeOK, LoopFree, IsSave,
           IsRestore, Saving, Restoring, Writing
  <1>15. ASSUME NEW r \in Reqs, ForgetRows(r) PROVE LoopHeld'
    BY <1>15, <1>t
       DEF ForgetRows, Finish, IdleReq, At, LoopHeld, Shape, TypeOK,
           LoopFree, IsSave, IsRestore, Saving, Restoring, Writing
  <1>16. ASSUME NEW r \in Reqs, BeginDelete(r) PROVE LoopHeld'
    BY <1>16, <1>t
       DEF BeginDelete, IdleReq, At, LoopHeld, Shape, TypeOK, LoopFree,
           IsSave, IsRestore, Saving, Restoring, Writing
  <1>17. ASSUME NEW r \in Reqs, EraseHistory(r) PROVE LoopHeld'
    <2>1. CASE req' = [req EXCEPT ![r].phase = "eraseFile", ![r].body = file]
      BY <1>17, <1>t, <2>1
         DEF EraseHistory, Advance, At, LoopHeld, LoopFree, Shape, TypeOK,
             IsSave, IsRestore, Saving, Restoring, Writing
    <2>2. CASE Advance(r, "forgetVault")
      BY <1>17, <1>t, <2>2
         DEF EraseHistory, Advance, At, LoopHeld, LoopFree, Shape, TypeOK,
             IsSave, IsRestore, Saving, Restoring, Writing
    <2> QED BY <1>17, <2>1, <2>2 DEF EraseHistory
  <1>18. ASSUME NEW r \in Reqs, EraseFile(r) PROVE LoopHeld'
    <2>1. CASE Advance(r, "forgetVault")
      BY <1>18, <1>t, <2>1
         DEF EraseFile, Advance, At, LoopHeld, LoopFree, Shape, TypeOK, IsSave,
             IsRestore, Saving, Restoring, Writing
    <2>2. CASE Finish(r)
      BY <1>18, <1>t, <2>2
         DEF EraseFile, Finish, IdleReq, At, LoopHeld, LoopFree, Shape, TypeOK,
             IsSave, IsRestore, Saving, Restoring, Writing
    <2> QED BY <1>18, <2>1, <2>2 DEF EraseFile
  <1>19. ASSUME NEW r \in Reqs, ForgetVault(r) PROVE LoopHeld'
    BY <1>19, <1>t
       DEF ForgetVault, Finish, IdleReq, At, LoopHeld, Shape, TypeOK,
           LoopFree, IsSave, IsRestore, Saving, Restoring, Writing
  <1>20. ASSUME NEW r \in Reqs, StorageFails(r) PROVE LoopHeld'
    BY <1>20, <1>t
       DEF StorageFails, Finish, IdleReq, At, LoopHeld, Shape, TypeOK,
           LoopFree, IsSave, IsRestore, Saving, Restoring, Writing
  <1>21. CASE LockStep
    BY <1>21, <1>t
       DEF LockStep, storeVars, At, LoopHeld, Shape, TypeOK, LoopFree,
           IsSave, IsRestore, Saving, Restoring, Writing
  <1>22. CASE OtherWrites
    BY <1>22, <1>t
       DEF OtherWrites, At, LoopHeld, Shape, TypeOK, LoopFree, IsSave,
           IsRestore, Saving, Restoring, Writing
  <1>23. CASE OtherCommits
    BY <1>23, <1>t
       DEF OtherCommits, At, LoopHeld, Shape, TypeOK, LoopFree, IsSave,
           IsRestore, Saving, Restoring, Writing
  <1>24. CASE Restart
    BY <1>24, <1>t
       DEF Restart, IdleReq, At, LoopHeld, Shape, TypeOK, LoopFree, IsSave,
           IsRestore, Saving, Restoring, Writing
  <1>25. CASE UNCHANGED vars
    BY <1>25, <1>t
       DEF vars, storeVars, At, LoopHeld, Shape, TypeOK, LoopFree, IsSave,
           IsRestore, Saving, Restoring, Writing
  <1> QED BY <1>1, <1>2, <1>3, <1>4, <1>5, <1>6, <1>7, <1>8, <1>9, <1>10,
       <1>11, <1>12, <1>13, <1>14, <1>15, <1>16, <1>17, <1>18, <1>19, <1>20,
       <1>21, <1>22, <1>23, <1>24, <1>25 DEF Next, ReqStep, SaveStep

LEMMA GonePart ==
  ASSUME BaseInv, [Next]_vars
  PROVE  GoneIsGone'
  <1>t. TypeOK /\ GoneIsGone
    BY DEF BaseInv
  <1>1. CASE UNCHANGED <<vault, rows, lock>>
    BY <1>t, <1>1 DEF GoneIsGone
  <1>2. ASSUME NEW r \in Reqs, Commit(r) PROVE GoneIsGone'
    <2>1. vault' \in VaultRow
      BY <1>2, CommittedRowIsARow DEF BaseInv
    <2> QED BY <2>1, StoreAssumption DEF GoneIsGone, VaultRow, Contents
  <1>3. ASSUME NEW r \in Reqs, ForgetRows(r) PROVE GoneIsGone'
    BY <1>t, <1>3 DEF ForgetRows, GoneIsGone, Without, lockVars
  <1>4. ASSUME NEW r \in Reqs, ForgetVault(r) PROVE GoneIsGone'
    BY <1>4 DEF ForgetVault, GoneIsGone
  <1>5. CASE LockStep
    <2>1. vault' = vault /\ rows' = rows
      BY <1>5 DEF LockStep, storeVars
    <2>2. vault = Gone => lock' = lock
      BY <1>t, <1>5
         DEF LockStep, GoneIsGone, LockFail, TabVanishes, Expire, LiveLock
    <2> QED BY <1>t, <2>1, <2>2 DEF GoneIsGone
  <1>6. CASE UNCHANGED vars
    BY SMTT(30), <1>1, <1>6 DEF vars, storeVars, lockVars
  <1>7. ASSUME Next, ~LockStep,
               \A r \in Reqs : ~Commit(r) /\ ~ForgetRows(r) /\ ~ForgetVault(r)
        PROVE  UNCHANGED <<vault, rows, lock>>
    BY ZenonT(60), <1>7
       DEF Next, ReqStep, SaveStep, OpenVault, BeginSave, RejectBody, CheckLock,
           Compare, BeginRestore, Fetch, Replace, Keep, CommitRefused,
           CommitBusy, BeginDrop, Unlink, BeginDelete, EraseHistory, EraseFile,
           StorageFails, OtherWrites, OtherCommits, Restart, lockVars
  <1> QED BY <1>1, <1>2, <1>3, <1>4, <1>5, <1>6, <1>7

LEMMA InitBase == Init => BaseInv
  <1> SUFFICES ASSUME Init PROVE BaseInv
    OBVIOUS
  <1>1. LockInv /\ LockTypeOK
    BY LockInitInv DEF Init, LockInv
  <1>2. TypeOK
    <2>1. /\ 0 \in 0..MaxSaves
          /\ [etag |-> Nothing, next |-> 1] \in VaultRow
      BY StoreAssumption, EmptyType DEF VaultRow
    <2> QED BY <1>1, <2>1, EmptyType, IdleReqOK DEF Init, TypeOK
  <1>3. Shape /\ LoopHeld
    BY DEF Init, Shape, LoopHeld, IsSave, IsRestore, IdleReq, Saving, Restoring,
           Writing
  <1>4. GoneIsGone
    BY DEF Init, LockInit, GoneIsGone
  <1> QED BY <1>1, <1>2, <1>3, <1>4 DEF BaseInv

LEMMA NextBase == BaseInv /\ [Next]_vars => BaseInv'
  BY TypePart, LockPartInv, ShapePart, LoopPart, GonePart DEF BaseInv

LEMMA BaseInvHolds == Spec => []BaseInv
  BY InitBase, NextBase, PTL DEF Spec

(* Every variable keeps its type.                                          *)
THEOREM TypeCorrect == Spec => []TypeOK
  <1>1. BaseInv => TypeOK
    BY DEF BaseInv
  <1> QED BY <1>1, BaseInvHolds, PTL

(* Nothing of a deleted vault is left in the database, whichever requests  *)
(* had loaded its row before.                                              *)
THEOREM DeletedVaultsStayEmpty == Spec => []GoneIsGone
  <1>1. BaseInv => GoneIsGone
    BY DEF BaseInv
  <1> QED BY <1>1, BaseInvHolds, PTL

(* Tokens remain personal with saves, deletions and restarts going on.     *)
THEOREM TokensStayPersonal == Spec => []TokenIsPersonal
  <1>1. BaseInv => TokenIsPersonal
    BY LockInvGivesPersonalTokens DEF BaseInv
  <1> QED BY <1>1, BaseInvHolds, PTL
-----------------------------------------------------------------------------
(* What a step does to the saves and restores under way: some start, the   *)
(* others stay what they are or end.                                       *)

Starts(r) ==
  \/ \E t \in Tabs : BeginSave(r, t)
  \/ \E t \in Tabs, n \in Seqs : BeginRestore(r, t, n)

Stays(r) ==
  /\ IsSave(r)' => /\ IsSave(r)
                   /\ req'[r].base = req[r].base /\ req'[r].body = req[r].body
                   /\ req'[r].phase \in {"body", "compare", "replace"} =>
                        req[r].phase \in {"body", "compare", "replace"}
  /\ IsRestore(r)' => IsRestore(r)
  /\ IsSave(r)' \/ IsRestore(r)' => req'[r].seen = req[r].seen

LEMMA StaysOrStarts ==
  ASSUME BaseInv, [Next]_vars
  PROVE  \A s \in Reqs : Stays(s) \/ Starts(s)
  <1>t. TypeOK /\ Shape
    BY DEF BaseInv
  <1>1. ASSUME NEW t \in Tabs, OpenVault(t)
        PROVE  \A s \in Reqs : Stays(s) \/ Starts(s)
    BY <1>1, <1>t
       DEF OpenVault, At, Shape, TypeOK, Stays, IsSave, IsRestore, Saving,
           Restoring, Writing
  <1>2. ASSUME NEW r \in Reqs, NEW t \in Tabs, BeginSave(r, t)
        PROVE  \A s \in Reqs : Stays(s) \/ Starts(s)
    BY ZenonT(60), <1>2, <1>t
       DEF BeginSave, At, Shape, TypeOK, Stays, IsSave, IsRestore, Saving,
           Restoring, Writing, Starts
  <1>3. ASSUME NEW r \in Reqs, RejectBody(r)
        PROVE  \A s \in Reqs : Stays(s) \/ Starts(s)
    BY <1>3, <1>t
       DEF RejectBody, Finish, IdleReq, At, Shape, TypeOK, Stays, IsSave,
           IsRestore, Saving, Restoring, Writing
  <1>4. ASSUME NEW r \in Reqs, CheckLock(r)
        PROVE  \A s \in Reqs : Stays(s) \/ Starts(s)
    <2>1. CASE Advance(r, "compare")
      BY <1>4, <1>t, <2>1
         DEF CheckLock, Advance, At, Shape, TypeOK, Stays, IsSave, IsRestore,
             Saving, Restoring, Writing
    <2>2. CASE Finish(r)
      BY <1>4, <1>t, <2>2
         DEF CheckLock, Finish, IdleReq, At, Shape, TypeOK, Stays, IsSave,
             IsRestore, Saving, Restoring, Writing
    <2> QED BY <1>4, <2>1, <2>2 DEF CheckLock
  <1>5. ASSUME NEW r \in Reqs, Compare(r)
        PROVE  \A s \in Reqs : Stays(s) \/ Starts(s)
    <2>1. CASE Advance(r, "replace")
      BY <1>5, <1>t, <2>1
         DEF Compare, Advance, At, Shape, TypeOK, Stays, IsSave, IsRestore,
             Saving, Restoring, Writing
    <2>2. CASE Finish(r)
      BY <1>5, <1>t, <2>2
         DEF Compare, Finish, IdleReq, At, Shape, TypeOK, Stays, IsSave,
             IsRestore, Saving, Restoring, Writing
    <2> QED BY <1>5, <2>1, <2>2 DEF Compare
  <1>6. ASSUME NEW r \in Reqs, NEW t \in Tabs, NEW n \in Seqs, BeginRestore(r, t, n)
        PROVE  \A s \in Reqs : Stays(s) \/ Starts(s)
    BY ZenonT(60), <1>6, <1>t
       DEF BeginRestore, At, Shape, TypeOK, Stays, IsSave, IsRestore,
           Saving, Restoring, Writing, Starts
  <1>7. ASSUME NEW r \in Reqs, Fetch(r)
        PROVE  \A s \in Reqs : Stays(s) \/ Starts(s)
    <2>1. CASE Finish(r)
      BY <1>7, <1>t, <2>1
         DEF Fetch, Finish, IdleReq, At, Shape, TypeOK, Stays, IsSave,
             IsRestore, Saving, Restoring, Writing
    <2>2. ASSUME NEW c, req' = [req EXCEPT ![r].phase = "replace", ![r].body = c]
          PROVE  \A s \in Reqs : Stays(s) \/ Starts(s)
      BY <1>7, <1>t, <2>2
         DEF Fetch, At, Shape, TypeOK, Stays, IsSave, IsRestore, Saving,
             Restoring, Writing
    <2> QED BY <1>7, <2>1, <2>2 DEF Fetch
  <1>8. ASSUME NEW r \in Reqs, Replace(r)
        PROVE  \A s \in Reqs : Stays(s) \/ Starts(s)
    BY <1>8, <1>t
       DEF Replace, Advance, At, Shape, TypeOK, Stays, IsSave, IsRestore,
           Saving, Restoring, Writing
  <1>9. ASSUME NEW r \in Reqs, Keep(r)
        PROVE  \A s \in Reqs : Stays(s) \/ Starts(s)
    BY <1>9, <1>t
       DEF Keep, Advance, At, Shape, TypeOK, Stays, IsSave, IsRestore,
           Saving, Restoring, Writing
  <1>10. ASSUME NEW r \in Reqs, Commit(r)
         PROVE  \A s \in Reqs : Stays(s) \/ Starts(s)
    BY <1>10, <1>t
       DEF Commit, Finish, IdleReq, At, Shape, TypeOK, Stays, IsSave,
           IsRestore, Saving, Restoring, Writing
  <1>11. ASSUME NEW r \in Reqs, CommitRefused(r)
         PROVE  \A s \in Reqs : Stays(s) \/ Starts(s)
    BY <1>11, <1>t
       DEF CommitRefused, Finish, IdleReq, At, Shape, TypeOK, Stays, IsSave,
           IsRestore, Saving, Restoring, Writing
  <1>12. ASSUME NEW r \in Reqs, CommitBusy(r)
         PROVE  \A s \in Reqs : Stays(s) \/ Starts(s)
    BY <1>12, <1>t
       DEF CommitBusy, Finish, IdleReq, At, Shape, TypeOK, Stays, IsSave,
           IsRestore, Saving, Restoring, Writing
  <1>13. ASSUME NEW r \in Reqs, BeginDrop(r)
         PROVE  \A s \in Reqs : Stays(s) \/ Starts(s)
    BY <1>13, <1>t
       DEF BeginDrop, IdleReq, At, Shape, TypeOK, Stays, IsSave, IsRestore,
           Saving, Restoring, Writing
  <1>14. ASSUME NEW r \in Reqs, Unlink(r)
         PROVE  \A s \in Reqs : Stays(s) \/ Starts(s)
    BY <1>14, <1>t
       DEF Unlink, Advance, At, Shape, TypeOK, Stays, IsSave, IsRestore,
           Saving, Restoring, Writing
  <1>15. ASSUME NEW r \in Reqs, ForgetRows(r)
         PROVE  \A s \in Reqs : Stays(s) \/ Starts(s)
    BY <1>15, <1>t
       DEF ForgetRows, Finish, IdleReq, At, Shape, TypeOK, Stays, IsSave,
           IsRestore, Saving, Restoring, Writing
  <1>16. ASSUME NEW r \in Reqs, BeginDelete(r)
         PROVE  \A s \in Reqs : Stays(s) \/ Starts(s)
    BY <1>16, <1>t
       DEF BeginDelete, IdleReq, At, Shape, TypeOK, Stays, IsSave,
           IsRestore, Saving, Restoring, Writing
  <1>17. ASSUME NEW r \in Reqs, EraseHistory(r)
         PROVE  \A s \in Reqs : Stays(s) \/ Starts(s)
    <2>1. CASE req' = [req EXCEPT ![r].phase = "eraseFile", ![r].body = file]
      BY <1>17, <1>t, <2>1
         DEF EraseHistory, Advance, At, Shape, TypeOK, Stays, IsSave, IsRestore,
             Saving, Restoring, Writing
    <2>2. CASE Advance(r, "forgetVault")
      BY <1>17, <1>t, <2>2
         DEF EraseHistory, Advance, At, Shape, TypeOK, Stays, IsSave, IsRestore,
             Saving, Restoring, Writing
    <2> QED BY <1>17, <2>1, <2>2 DEF EraseHistory
  <1>18. ASSUME NEW r \in Reqs, EraseFile(r)
         PROVE  \A s \in Reqs : Stays(s) \/ Starts(s)
    <2>1. CASE Advance(r, "forgetVault")
      BY <1>18, <1>t, <2>1
         DEF EraseFile, Advance, At, Shape, TypeOK, Stays, IsSave, IsRestore,
             Saving, Restoring, Writing
    <2>2. CASE Finish(r)
      BY <1>18, <1>t, <2>2
         DEF EraseFile, Finish, IdleReq, At, Shape, TypeOK, Stays, IsSave,
             IsRestore, Saving, Restoring, Writing
    <2> QED BY <1>18, <2>1, <2>2 DEF EraseFile
  <1>19. ASSUME NEW r \in Reqs, ForgetVault(r)
         PROVE  \A s \in Reqs : Stays(s) \/ Starts(s)
    BY <1>19, <1>t
       DEF ForgetVault, Finish, IdleReq, At, Shape, TypeOK, Stays, IsSave,
           IsRestore, Saving, Restoring, Writing
  <1>20. ASSUME NEW r \in Reqs, StorageFails(r)
         PROVE  \A s \in Reqs : Stays(s) \/ Starts(s)
    BY <1>20, <1>t
       DEF StorageFails, Finish, IdleReq, At, Shape, TypeOK, Stays, IsSave,
           IsRestore, Saving, Restoring, Writing
  <1>21. CASE LockStep
    BY <1>21, <1>t
       DEF LockStep, storeVars, At, Shape, TypeOK, Stays, IsSave, IsRestore,
           Saving, Restoring, Writing
  <1>22. CASE OtherWrites
    BY <1>22, <1>t
       DEF OtherWrites, At, Shape, TypeOK, Stays, IsSave, IsRestore, Saving,
           Restoring, Writing
  <1>23. CASE OtherCommits
    BY <1>23, <1>t
       DEF OtherCommits, At, Shape, TypeOK, Stays, IsSave, IsRestore,
           Saving, Restoring, Writing
  <1>24. CASE Restart
    BY <1>24, <1>t
       DEF Restart, IdleReq, At, Shape, TypeOK, Stays, IsSave, IsRestore,
           Saving, Restoring, Writing
  <1>25. CASE UNCHANGED vars
    BY <1>25, <1>t
       DEF vars, storeVars, At, Shape, TypeOK, Stays, IsSave, IsRestore,
           Saving, Restoring, Writing
  <1> QED BY <1>1, <1>2, <1>3, <1>4, <1>5, <1>6, <1>7, <1>8, <1>9, <1>10,
       <1>11, <1>12, <1>13, <1>14, <1>15, <1>16, <1>17, <1>18, <1>19, <1>20,
       <1>21, <1>22, <1>23, <1>24, <1>25 DEF Next, ReqStep, SaveStep

-----------------------------------------------------------------------------
(* What holds when restores keep clear of saves                            *)

LEMMA AlonePart ==
  ASSUME BaseInv, Alone, NobodyEdits, [Next]_vars
  PROVE  Alone'
  <1>t. TypeOK
    BY DEF BaseInv
  <1>1. SUFFICES ASSUME NEW r \in Reqs, NEW s \in Reqs, s # r,
                        IsRestore(r)', IsSave(s)' \/ IsRestore(s)'
                 PROVE  FALSE
    BY DEF Alone
  <1>2. CASE ~Starts(r) /\ ~Starts(s)
    BY <1>1, <1>2, StaysOrStarts DEF Stays, Alone
  <1>3. ASSUME NEW p \in Reqs, NEW t \in Tabs, BeginSave(p, t), p \in {r, s}
        PROVE  FALSE
    BY <1>1, <1>3, <1>t
       DEF BeginSave, TypeOK, KeepsClearOf, InFlight, At, IsSave, IsRestore,
           Saving, Restoring, Writing
  <1>4. ASSUME NEW p \in Reqs, NEW t \in Tabs, NEW n \in Seqs,
               BeginRestore(p, t, n), p \in {r, s}
        PROVE  FALSE
    BY <1>1, <1>4, <1>t
       DEF BeginRestore, TypeOK, KeepsClearOf, InFlight, At, IsSave, IsRestore,
           Saving, Restoring, Writing
  <1> QED BY <1>2, <1>3, <1>4 DEF Starts

LEMMA TypesOfContents ==
  ASSUME TypeOK
  PROVE  /\ sent \in Nat /\ file \in Nat
         /\ \A n \in Seqs : gen[n] \in Nat
         /\ \A t \in Tabs : base[t] \in Nat
         /\ \A r \in Reqs : req[r].body \in Nat /\ req[r].base \in Nat
         /\ vault # Gone => vault.etag \in Nat
  <1>1. Contents \subseteq Nat /\ 0..MaxSaves \subseteq Nat
    BY StoreAssumption DEF Contents
  <1> QED BY <1>1 DEF TypeOK, Request, VaultRow

LEMMA NewerPart ==
  ASSUME BaseInv, NothingNewer, [Next]_vars
  PROVE  NothingNewer'
  <1>t. TypeOK /\ NothingNewer /\ Nothing \in Nat
    BY DEF BaseInv, Nothing
  <1>n. /\ sent \in Nat /\ file \in Nat
        /\ \A n \in Seqs : gen[n] \in Nat
        /\ \A t \in Tabs : base[t] \in Nat
        /\ \A r \in Reqs : req[r].body \in Nat /\ req[r].base \in Nat
        /\ vault # Gone => vault.etag \in Nat
    BY <1>t, TypesOfContents
  <1>1. ASSUME NEW t \in Tabs, OpenVault(t) PROVE NothingNewer'
    BY <1>1, <1>t, <1>n DEF OpenVault, NothingNewer, TypeOK, Nothing
  <1>2. ASSUME NEW r \in Reqs, NEW t \in Tabs, BeginSave(r, t)
        PROVE  NothingNewer'
    BY <1>2, <1>t, <1>n DEF BeginSave, NothingNewer, TypeOK, Nothing
  <1>3. ASSUME NEW r \in Reqs, RejectBody(r) PROVE NothingNewer'
    BY <1>3, <1>t, <1>n
       DEF RejectBody, Finish, IdleReq, NothingNewer, TypeOK, Nothing
  <1>4. ASSUME NEW r \in Reqs, CheckLock(r) PROVE NothingNewer'
    <2>1. CASE Advance(r, "compare")
      BY <1>4, <1>t, <1>n, <2>1
         DEF CheckLock, Advance, NothingNewer, TypeOK, Nothing
    <2>2. CASE Finish(r)
      BY <1>4, <1>t, <1>n, <2>2
         DEF CheckLock, Finish, IdleReq, NothingNewer, TypeOK, Nothing
    <2> QED BY <1>4, <2>1, <2>2 DEF CheckLock
  <1>5. ASSUME NEW r \in Reqs, Compare(r) PROVE NothingNewer'
    <2>1. CASE Advance(r, "replace")
      BY <1>5, <1>t, <1>n, <2>1
         DEF Compare, Advance, NothingNewer, TypeOK, Nothing
    <2>2. CASE Finish(r)
      BY <1>5, <1>t, <1>n, <2>2
         DEF Compare, Finish, IdleReq, NothingNewer, TypeOK, Nothing
    <2> QED BY <1>5, <2>1, <2>2 DEF Compare
  <1>6. ASSUME NEW r \in Reqs, NEW t \in Tabs, NEW n \in Seqs, BeginRestore(r, t, n)
        PROVE  NothingNewer'
    BY <1>6, <1>t, <1>n DEF BeginRestore, NothingNewer, TypeOK, Nothing
  <1>7. ASSUME NEW r \in Reqs, Fetch(r) PROVE NothingNewer'
    <2>1. CASE Finish(r)
      BY <1>7, <1>t, <1>n, <2>1 DEF Fetch, Finish, IdleReq, NothingNewer, TypeOK, Nothing
    <2>2. PICK n \in Seqs :
            \/ Finish(r)
            \/ req' = [req EXCEPT ![r].phase = "replace", ![r].body = gen[n]]
      BY <1>7, <1>t DEF Fetch, TypeOK, Request
    <2>3. CASE req' = [req EXCEPT ![r].phase = "replace", ![r].body = gen[n]]
      BY <1>7, <1>t, <1>n, <2>3 DEF Fetch, NothingNewer, TypeOK, Nothing
    <2> QED BY <2>1, <2>2, <2>3
  <1>8. ASSUME NEW r \in Reqs, Replace(r) PROVE NothingNewer'
    BY <1>8, <1>t, <1>n DEF Replace, Advance, NothingNewer, TypeOK, Nothing
  <1>9. ASSUME NEW r \in Reqs, Keep(r) PROVE NothingNewer'
    BY <1>9, <1>t, <1>n DEF Keep, Advance, NothingNewer, TypeOK, Nothing
  <1>10. ASSUME NEW r \in Reqs, Commit(r) PROVE NothingNewer'
    BY <1>10, <1>t, <1>n
       DEF Commit, Finish, IdleReq, FlushApplies, VaultAfter, NothingNewer,
           TypeOK, Nothing
  <1>11. ASSUME NEW r \in Reqs, CommitRefused(r) PROVE NothingNewer'
    BY <1>11, <1>t, <1>n
       DEF CommitRefused, Finish, IdleReq, NothingNewer, TypeOK, Nothing
  <1>12. ASSUME NEW r \in Reqs, CommitBusy(r) PROVE NothingNewer'
    BY <1>12, <1>t, <1>n
       DEF CommitBusy, Finish, IdleReq, NothingNewer, TypeOK, Nothing
  <1>13. ASSUME NEW r \in Reqs, BeginDrop(r) PROVE NothingNewer'
    BY <1>13, <1>t, <1>n DEF BeginDrop, IdleReq, NothingNewer, TypeOK, Nothing
  <1>14. ASSUME NEW r \in Reqs, Unlink(r) PROVE NothingNewer'
    BY <1>14, <1>t, <1>n
       DEF Unlink, Advance, Without, NothingNewer, TypeOK, Nothing
  <1>15. ASSUME NEW r \in Reqs, ForgetRows(r) PROVE NothingNewer'
    BY <1>15, <1>t, <1>n
       DEF ForgetRows, Finish, IdleReq, NothingNewer, TypeOK, Nothing
  <1>16. ASSUME NEW r \in Reqs, BeginDelete(r) PROVE NothingNewer'
    BY <1>16, <1>t, <1>n
       DEF BeginDelete, IdleReq, NothingNewer, TypeOK, Nothing
  <1>17. ASSUME NEW r \in Reqs, EraseHistory(r) PROVE NothingNewer'
    <2>1. CASE req' = [req EXCEPT ![r].phase = "eraseFile", ![r].body = file]
      BY <1>17, <1>t, <1>n, <2>1
         DEF EraseHistory, Advance, NothingNewer, TypeOK, Nothing
    <2>2. CASE Advance(r, "forgetVault")
      BY <1>17, <1>t, <1>n, <2>2
         DEF EraseHistory, Advance, NothingNewer, TypeOK, Nothing
    <2> QED BY <1>17, <2>1, <2>2 DEF EraseHistory
  <1>18. ASSUME NEW r \in Reqs, EraseFile(r) PROVE NothingNewer'
    <2>1. CASE Advance(r, "forgetVault")
      BY <1>18, <1>t, <1>n, <2>1
         DEF EraseFile, Advance, NothingNewer, TypeOK, Nothing
    <2>2. CASE Finish(r)
      BY <1>18, <1>t, <1>n, <2>2
         DEF EraseFile, Finish, IdleReq, NothingNewer, TypeOK, Nothing
    <2> QED BY <1>18, <2>1, <2>2 DEF EraseFile
  <1>19. ASSUME NEW r \in Reqs, ForgetVault(r) PROVE NothingNewer'
    BY <1>19, <1>t, <1>n
       DEF ForgetVault, Finish, IdleReq, NothingNewer, TypeOK, Nothing
  <1>20. ASSUME NEW r \in Reqs, StorageFails(r) PROVE NothingNewer'
    BY <1>20, <1>t, <1>n
       DEF StorageFails, Finish, IdleReq, Without, NothingNewer, TypeOK,
           Nothing
  <1>21. CASE LockStep
    BY <1>21, <1>t, <1>n
       DEF LockStep, storeVars, NothingNewer, TypeOK, Nothing
  <1>22. CASE OtherWrites
    BY <1>22, <1>t, <1>n DEF OtherWrites, NothingNewer, TypeOK, Nothing
  <1>23. CASE OtherCommits
    BY <1>23, <1>t, <1>n DEF OtherCommits, NothingNewer, TypeOK, Nothing
  <1>24. CASE Restart
    BY <1>24, <1>t, <1>n DEF Restart, IdleReq, NothingNewer, TypeOK, Nothing
  <1>25. CASE UNCHANGED vars
    BY <1>25, <1>t, <1>n DEF vars, storeVars, NothingNewer, TypeOK, Nothing
  <1> QED BY <1>1, <1>2, <1>3, <1>4, <1>5, <1>6, <1>7, <1>8, <1>9, <1>10,
       <1>11, <1>12, <1>13, <1>14, <1>15, <1>16, <1>17, <1>18, <1>19, <1>20,
       <1>21, <1>22, <1>23, <1>24, <1>25 DEF Next, ReqStep, SaveStep

LEMMA BodiesPart ==
  ASSUME BaseInv, Alone, NothingNewer, BodiesAreNew, [Next]_vars
  PROVE  BodiesAreNew'
  <1> DEFINE Early == {"body", "compare", "replace"}
             Absent(b) == /\ file # b
                          /\ \A n \in Seqs : gen[n] # b
                          /\ \A t \in Tabs : base[t] # b
                          /\ vault # Gone => vault.etag # b
             StaysAbsent(b) == /\ file' # b
                               /\ \A n \in Seqs : gen'[n] # b
                               /\ \A t \in Tabs : base'[t] # b
                               /\ vault' # Gone => vault'.etag # b
  <1>t. TypeOK /\ Shape
    BY DEF BaseInv
  <1>n. /\ sent \in Nat /\ file \in Nat
        /\ \A n \in Seqs : gen[n] \in Nat
        /\ \A t \in Tabs : base[t] \in Nat
        /\ \A r \in Reqs : req[r].body \in Nat /\ req[r].base \in Nat
        /\ vault # Gone => vault.etag \in Nat
    BY <1>t, TypesOfContents
  <1>1. SUFFICES ASSUME NEW r \in Reqs, IsSave(r)'
                 PROVE  /\ req'[r].body # Nothing
                        /\ \A s \in Reqs \ {r} : IsSave(s)' =>
                             /\ req'[s].body # req'[r].body
                             /\ req'[s].base # req'[r].body
                        /\ req'[r].phase \in Early => StaysAbsent(req'[r].body)
    BY DEF BodiesAreNew
  <1>2. ASSUME NEW t \in Tabs, BeginSave(r, t)
        PROVE  /\ req'[r].body # Nothing
               /\ \A s \in Reqs \ {r} : IsSave(s)' =>
                    /\ req'[s].body # req'[r].body
                    /\ req'[s].base # req'[r].body
               /\ StaysAbsent(req'[r].body)
    <2>1. req'[r].body = sent + 1
      BY <1>2, <1>t DEF BeginSave, TypeOK
    <2>2. /\ \A s \in Reqs \ {r} : req'[s] = req[s]
          /\ UNCHANGED <<file, gen, vault, base>>
      BY <1>2, <1>t DEF BeginSave, TypeOK
    <2>3. StaysAbsent(sent + 1)
      BY <1>n, <2>2 DEF NothingNewer
    <2>4. \A s \in Reqs \ {r} :
            req'[s].body # sent + 1 /\ req'[s].base # sent + 1
      BY <1>n, <2>2 DEF NothingNewer
    <2>5. sent + 1 # Nothing
      BY <1>n DEF Nothing
    <2> HIDE DEF Absent, StaysAbsent
    <2> QED BY <2>1, <2>3, <2>4, <2>5
  <1>3. CASE ~Starts(r)
    <2>0. PICK b : b = req[r].body
      OBVIOUS
    <2>1. /\ IsSave(r) /\ req'[r].body = b /\ b # Nothing
          /\ req'[r].phase \in Early => req[r].phase \in Early
      BY <2>0, <1>1, <1>3, StaysOrStarts DEF Stays, BodiesAreNew
    <2>2. ASSUME NEW s \in Reqs \ {r}, IsSave(s)'
          PROVE  req'[s].body # b /\ req'[s].base # b
      <3>1. CASE ~Starts(s)
        BY <2>0, <2>1, <2>2, <3>1, StaysOrStarts DEF Stays, BodiesAreNew
      <3>2. ASSUME NEW t \in Tabs, BeginSave(s, t)
            PROVE  req'[s].body # b /\ req'[s].base # b
        <4>1. req'[s].body = sent + 1 /\ req'[s].base = base[t]
          BY <1>t, <3>2 DEF BeginSave, TypeOK
        <4>2. b # sent + 1
          BY <2>0, <1>n DEF NothingNewer
        <4>3. At(r, "body")
          BY <2>1, <3>2, StoreAssumption
             DEF BaseInv, LoopHeld, BeginSave, LoopFree
        <4>4. base[t] # b
          BY <2>0, <2>1, <4>3 DEF BodiesAreNew, At
        <4> QED BY <4>1, <4>2, <4>4
      <3>3. ASSUME NEW t \in Tabs, NEW n \in Seqs, BeginRestore(s, t, n)
            PROVE  FALSE
        BY <1>t, <2>2, <3>3 DEF BeginRestore, TypeOK, IsSave
      <3> QED BY <3>1, <3>2, <3>3 DEF Starts
    <2>3. ASSUME req'[r].phase \in Early
          PROVE  StaysAbsent(b)
      <3>1. Absent(b) /\ b # Nothing
        BY <2>0, <2>1, <2>3 DEF BodiesAreNew
      <3>2. ASSUME NEW p \in Reqs, p # r, At(p, "replace") \/ At(p, "keep") \/ At(p, "commit")
            PROVE  req[p].body # b
        BY <1>t, <2>0, <2>1, <3>2
           DEF At, Shape, IsSave, IsRestore, Saving, Restoring, Writing, Alone,
               BodiesAreNew
      <3>3. ASSUME NEW t \in Tabs, OpenVault(t) PROVE StaysAbsent(b)
        BY <1>t, <3>1, <3>3 DEF OpenVault, TypeOK
      <3>4. ASSUME NEW p \in Reqs, Replace(p) PROVE StaysAbsent(b)
        <4>1. p # r
          BY <1>t, <2>3, <3>4 DEF Replace, Advance, TypeOK
        <4> QED BY <3>1, <3>2, <3>4, <4>1 DEF Replace
      <3>5. ASSUME NEW p \in Reqs, Keep(p) PROVE StaysAbsent(b)
        <4>1. p # r
          BY <1>t, <2>3, <3>5 DEF Keep, Advance, TypeOK
        <4> QED BY <1>t, <3>1, <3>2, <3>5, <4>1 DEF Keep, TypeOK
      <3>6. ASSUME NEW p \in Reqs, Commit(p) PROVE StaysAbsent(b)
        <4>1. p # r
          BY <1>1, <1>t, <3>6
             DEF Commit, Finish, TypeOK, IdleReq, IsSave, Saving, Writing
        <4>2. req[p].body # b
          BY <3>2, <3>6, <4>1 DEF Commit
        <4>3. vault # Gone /\ vault' = VaultAfter(req[p])
          BY <3>6 DEF Commit, FlushApplies
        <4>4. vault'.etag # b
          BY <3>1, <4>2, <4>3 DEF VaultAfter
        <4> QED BY <1>t, <3>1, <3>6, <4>2, <4>4 DEF Commit, TypeOK
      <3>7. ASSUME NEW p \in Reqs, Unlink(p) PROVE StaysAbsent(b)
        BY <3>1, <3>7 DEF Unlink, Without
      <3>8. ASSUME NEW p \in Reqs, StorageFails(p) PROVE StaysAbsent(b)
        BY <3>1, <3>8 DEF StorageFails, Without
      <3>9. ASSUME NEW p \in Reqs, EraseHistory(p) PROVE StaysAbsent(b)
        BY <3>1, <3>9 DEF EraseHistory
      <3>10. ASSUME NEW p \in Reqs, EraseFile(p) PROVE StaysAbsent(b)
        BY <3>1, <3>10 DEF EraseFile
      <3>11. ASSUME NEW p \in Reqs, ForgetVault(p) PROVE StaysAbsent(b)
        BY <3>1, <3>11 DEF ForgetVault
      <3>12. CASE UNCHANGED <<file, gen, base, vault>>
        BY SMTT(30), <3>1, <3>12
      <3>13. ASSUME Next, \A t \in Tabs : ~OpenVault(t),
                    \A p \in Reqs :
                      /\ ~Replace(p) /\ ~Keep(p) /\ ~Commit(p) /\ ~Unlink(p)
                      /\ ~StorageFails(p) /\ ~EraseHistory(p)
                      /\ ~EraseFile(p) /\ ~ForgetVault(p)
             PROVE  UNCHANGED <<file, gen, base, vault>>
        BY ZenonT(60), <3>13
           DEF Next, ReqStep, SaveStep, BeginSave, RejectBody, CheckLock,
               Compare, BeginRestore, Fetch, CommitRefused, CommitBusy,
               BeginDrop, ForgetRows, BeginDelete, LockStep, OtherWrites,
               OtherCommits, Restart, storeVars
      <3>14. CASE UNCHANGED vars
        BY <3>12, <3>14 DEF vars, storeVars
      <3> HIDE DEF Absent, StaysAbsent
      <3> QED BY <3>3, <3>4, <3>5, <3>6, <3>7, <3>8, <3>9, <3>10, <3>11, <3>12,
             <3>13, <3>14
    <2> HIDE DEF Absent, StaysAbsent
    <2> QED BY <2>1, <2>2, <2>3
  <1>4. ASSUME NEW t \in Tabs, NEW n \in Seqs, BeginRestore(r, t, n)
        PROVE  FALSE
    BY <1>1, <1>4, <1>t DEF BeginRestore, TypeOK, IsSave
  <1> HIDE DEF Absent, StaysAbsent, Early
  <1> QED BY <1>2, <1>3, <1>4 DEF Starts

(* Two requests never write at the same time, and beside one that writes a *)
(* save can only be waiting for its body.                                  *)
LEMMA BesideAWriter ==
  ASSUME BaseInv, Alone, NEW p \in Reqs, NEW r \in Reqs, r # p,
         req[p].phase \in Writing, IsSave(r) \/ IsRestore(r)
  PROVE  IsSave(p) /\ IsSave(r) /\ At(r, "body")
  <1>1. IsSave(p) \/ IsRestore(p)
    BY DEF BaseInv, Shape, Writing
  <1>2. ~IsRestore(p) /\ ~IsRestore(r)
    BY <1>1 DEF Alone
  <1> QED BY <1>1, <1>2 DEF BaseInv, LoopHeld, At, Writing

LEMMA WriterShape ==
  ASSUME BaseInv, NEW p \in Reqs, req[p].phase \in Writing
  PROVE  /\ IsSave(p) \/ IsRestore(p)
         /\ req[p].seen.next \in Seqs
  BY DEF BaseInv, Shape, Writing

(* Before the deletion of the vault has begun there is no request for it.  *)
LEMMA BeforeDeletion ==
  ASSUME BaseInv, [Next]_vars, ~purged'
  PROVE  /\ ~purged
         /\ \A r \in Reqs : /\ ~BeginDelete(r) /\ ~EraseHistory(r)
                            /\ ~EraseFile(r) /\ ~ForgetVault(r)
                            /\ ~At(r, "eraseHistory") /\ ~At(r, "eraseFile")
  <1>1. ASSUME NEW r \in Reqs, BeginDelete(r) PROVE FALSE
    BY <1>1 DEF BeginDelete
  <1>2. purged' = purged
    BY ZenonT(60), <1>1
       DEF Next, ReqStep, SaveStep, OpenVault, BeginSave, RejectBody, CheckLock,
           Compare, BeginRestore, Fetch, Replace, Keep, Commit, CommitRefused,
           CommitBusy, BeginDrop, Unlink, ForgetRows, EraseHistory, EraseFile,
           ForgetVault, StorageFails, LockStep, OtherWrites, OtherCommits,
           Restart, vars, storeVars
  <1>3. \A r \in Reqs : /\ ~At(r, "eraseHistory") /\ ~At(r, "eraseFile")
                        /\ ~At(r, "forgetVault")
    BY <1>2
       DEF At, BaseInv, Shape, IsSave, IsRestore, Saving, Restoring, Writing
  <1> QED BY <1>1, <1>2, <1>3 DEF EraseHistory, EraseFile, ForgetVault

(* What Unlink and a failing request may take away was condemned.          *)
LEMMA OnlyCondemnedIsLost ==
  ASSUME BaseInv, [Next]_vars, ~purged', NEW r \in Reqs,
         Unlink(r) \/ StorageFails(r)
  PROVE  \E S \in SUBSET condemned : gen' = Without(gen, S)
  <1>1. ~At(r, "eraseHistory")
    BY BeforeDeletion
  <1>2. At(r, "unlink") => req[r].seqs \subseteq condemned
    BY DEF At, BaseInv, Shape, IsSave, IsRestore, Saving, Restoring, Writing
  <1>3. CASE Unlink(r)
    BY <1>2, <1>3 DEF Unlink
  <1>4. CASE StorageFails(r)
    <2>1. Deletable(r) \subseteq condemned
      BY <1>1, <1>2 DEF Deletable
    <2> QED BY <1>4, <2>1 DEF StorageFails
  <1> QED BY <1>3, <1>4

LEMMA NumberTypes ==
  ASSUME TypeOK
  PROVE  /\ Seqs \subseteq Nat
         /\ vault # Gone => vault.next \in Nat
         /\ \A k \in kept : k[1] \in Seqs
         /\ \A r \in Reqs : req[r].seen.next \in Nat
  <1>1. Seqs \subseteq Nat /\ 1..MaxSeq + 1 \subseteq Nat
    BY StoreAssumption DEF Seqs
  <1> QED BY <1>1 DEF TypeOK, VaultRow, Request

LEMMA NumbersPart ==
  ASSUME BaseInv, [Next]_vars, ~purged', NumbersBelow, Current
  PROVE  NumbersBelow'
  <1>t. TypeOK /\ Shape
    BY DEF BaseInv
  <1>n. /\ Seqs \subseteq Nat
        /\ vault # Gone => vault.next \in Nat
        /\ \A k \in kept : k[1] \in Seqs
    BY <1>t, NumberTypes
  <1>1. ASSUME NEW r \in Reqs, Commit(r) PROVE NumbersBelow'
    <2>1. req[r].phase \in Writing
      BY <1>1 DEF Commit, At, Writing
    <2>2. req[r].seen.next = vault.next
      BY <2>1, WriterShape DEF Current, CurrentFor
    <2>3. vault' # Gone
      BY <1>1, <1>t, CommittedRowIsARow, StoreAssumption DEF VaultRow, Contents
    <2>4. vault'.next = vault.next + 1 /\ vault.next \in Nat
      BY <1>1, <1>n, <2>2 DEF Commit, VaultAfter, FlushApplies
    <2>5. rows' = [rows EXCEPT ![vault.next] = req[r].body]
      BY <1>1, <2>2 DEF Commit
    <2>6. kept' = kept \cup {<<vault.next, req[r].body>>} /\ condemned' = condemned
      BY <1>1, <2>2 DEF Commit
    <2>7. \A n \in Seqs : rows'[n] # Nothing => n < vault'.next
      BY <1>n, <1>t, <2>4, <2>5 DEF NumbersBelow, TypeOK
    <2>8. \A k \in kept' : k[1] < vault'.next
      <3>1. ASSUME NEW k \in kept PROVE k[1] < vault.next + 1
        <4>1. k[1] \in Nat /\ k[1] < vault.next
          BY <1>n DEF NumbersBelow
        <4> QED BY <2>4, <4>1
      <3>2. PICK e : e = <<vault.next, req[r].body>>
        OBVIOUS
      <3>3. e[1] < vault.next + 1
        BY <2>4, <3>2
      <3> QED BY <2>4, <2>6, <3>1, <3>2, <3>3
    <2>9. \A n \in condemned' : n < vault'.next
      BY <1>n, <1>t, <2>4, <2>6 DEF NumbersBelow, TypeOK
    <2> QED BY <2>3, <2>7, <2>8, <2>9 DEF NumbersBelow
  <1>2. ASSUME NEW r \in Reqs, BeginDrop(r) PROVE NumbersBelow'
    <2>1. PICK S \in SUBSET {n \in Seqs : rows[n] # Nothing} :
            condemned' = condemned \cup S
      BY <1>2 DEF BeginDrop, Below
    <2>2. UNCHANGED <<vault, rows, kept>>
      BY <1>2 DEF BeginDrop
    <2> QED BY <2>1, <2>2 DEF NumbersBelow
  <1>3. ASSUME NEW r \in Reqs, ForgetRows(r) PROVE NumbersBelow'
    BY <1>3 DEF ForgetRows, NumbersBelow, Without
  <1>4. CASE UNCHANGED <<vault, rows, kept, condemned>>
    BY <1>4 DEF NumbersBelow
  <1>5. ASSUME Next,
               \A r \in Reqs : ~Commit(r) /\ ~BeginDrop(r) /\ ~ForgetRows(r)
                               /\ ~ForgetVault(r)
        PROVE  UNCHANGED <<vault, rows, kept, condemned>>
    BY ZenonT(60), <1>5
       DEF Next, ReqStep, SaveStep, OpenVault, BeginSave, RejectBody, CheckLock,
           Compare, BeginRestore, Fetch, Replace, Keep, CommitRefused,
           CommitBusy, Unlink, BeginDelete, EraseHistory, EraseFile,
           StorageFails, LockStep, OtherWrites, OtherCommits, Restart, storeVars
  <1>6. \A r \in Reqs : ~ForgetVault(r)
    BY BeforeDeletion
  <1> QED BY <1>1, <1>2, <1>3, <1>4, <1>5, <1>6 DEF vars, storeVars

LEMMA KeptPart ==
  ASSUME BaseInv, [Next]_vars, ~purged', NumbersBelow, Current, KeptOK
  PROVE  KeptOK'
  <1>t. TypeOK /\ Shape
    BY DEF BaseInv
  <1>n. /\ Seqs \subseteq Nat
        /\ vault # Gone => vault.next \in Nat
        /\ \A k \in kept : k[1] \in Seqs
    BY <1>t, NumberTypes
  <1>1. ASSUME NEW r \in Reqs, Commit(r) PROVE KeptOK'
    <2>1. /\ req[r].phase \in Writing /\ At(r, "commit")
      BY <1>1 DEF Commit, At, Writing
    <2>2. /\ req[r].seen.next = vault.next /\ vault.next \in Seqs
          /\ gen[vault.next] = req[r].body
      BY <2>1, WriterShape DEF Current, CurrentFor
    <2>3. PICK e : e = <<vault.next, req[r].body>>
      OBVIOUS
    <2>4. /\ kept' = kept \cup {e}
          /\ rows' = [rows EXCEPT ![vault.next] = req[r].body]
          /\ UNCHANGED <<gen, condemned>>
      BY <1>1, <2>2, <2>3 DEF Commit
    <2>5. \A k \in kept : k[1] \in Seqs /\ k[1] # vault.next
      BY <1>n DEF NumbersBelow
    <2>6. \A k, l \in kept' : k[1] = l[1] => k = l
      BY <2>3, <2>4, <2>5 DEF KeptOK
    <2>7. \A k \in kept' :
            k[1] \in condemned' \/ (rows'[k[1]] = k[2] /\ gen'[k[1]] = k[2])
      BY <1>t, <2>2, <2>3, <2>4, <2>5 DEF KeptOK, TypeOK
    <2> QED BY <2>6, <2>7 DEF KeptOK
  <1>2. ASSUME NEW r \in Reqs, Keep(r) PROVE KeptOK'
    <2>1. req[r].seen.next = vault.next
      BY <1>2, WriterShape DEF Keep, At, Writing, Current, CurrentFor
    <2>2. \A k \in kept : k[1] \in Seqs /\ k[1] # vault.next
      BY <1>n DEF NumbersBelow
    <2> QED BY <1>2, <1>t, <2>1, <2>2 DEF Keep, KeptOK, TypeOK
  <1>3. ASSUME NEW r \in Reqs, Unlink(r) \/ StorageFails(r) PROVE KeptOK'
    <2>1. UNCHANGED <<kept, rows, condemned>>
      BY <1>3 DEF Unlink, StorageFails
    <2> QED BY <1>3, <1>n, <2>1, OnlyCondemnedIsLost DEF KeptOK, Without
  <1>4. ASSUME NEW r \in Reqs, ForgetRows(r) PROVE KeptOK'
    <2>1. req[r].seqs \subseteq condemned
      BY <1>4, <1>t
         DEF ForgetRows, At, Shape, IsSave, IsRestore, Saving, Restoring,
             Writing
    <2> QED BY <1>4, <1>n, <2>1 DEF ForgetRows, KeptOK, Without
  <1>5. ASSUME NEW r \in Reqs, BeginDrop(r) PROVE KeptOK'
    BY <1>5 DEF BeginDrop, KeptOK
  <1>6. CASE UNCHANGED <<gen, rows, kept, condemned>>
    BY <1>6 DEF KeptOK
  <1>7. ASSUME Next,
               \A r \in Reqs : /\ ~Commit(r) /\ ~Keep(r) /\ ~Unlink(r)
                               /\ ~StorageFails(r) /\ ~ForgetRows(r)
                               /\ ~BeginDrop(r) /\ ~EraseHistory(r)
                               /\ ~ForgetVault(r)
        PROVE  UNCHANGED <<gen, rows, kept, condemned>>
    BY ZenonT(60), <1>7
       DEF Next, ReqStep, SaveStep, OpenVault, BeginSave, RejectBody, CheckLock,
           Compare, BeginRestore, Fetch, Replace, CommitRefused, CommitBusy,
           BeginDelete, EraseFile, LockStep, OtherWrites, OtherCommits, Restart,
           storeVars
  <1>8. \A r \in Reqs : ~EraseHistory(r) /\ ~ForgetVault(r)
    BY BeforeDeletion
  <1> QED BY <1>1, <1>2, <1>3, <1>4, <1>5, <1>6, <1>7, <1>8 DEF vars, storeVars

LEMMA CurrentPart ==
  ASSUME BaseInv, Alone, BodiesAreNew, [Next]_vars, ~purged', NumbersBelow, Current
  PROVE  Current'
  <1> DEFINE R(r) == IsSave(r) \/ IsRestore(r)
  <1>t. TypeOK /\ Shape /\ vault # Gone
    BY DEF BaseInv, NumbersBelow
  <1>1. SUFFICES ASSUME NEW r \in Reqs PROVE CurrentFor(r)'
    BY DEF Current
  <1>c. CurrentFor(r)
    BY DEF Current
  <1>2. CASE req'[r] = req[r] /\ UNCHANGED <<file, gen, vault>>
    BY <1>2, <1>c
       DEF CurrentFor, IsSave, IsRestore, At
  <1>3. CASE ~IsSave(r)' /\ ~IsRestore(r)'
    BY <1>3 DEF CurrentFor
  (* The steps of r itself.                                                *)
  <1>4. ASSUME NEW t \in Tabs, BeginSave(r, t) PROVE CurrentFor(r)'
    <2>1. /\ req'[r].seen = vault /\ req'[r].kind = "save"
          /\ req'[r].phase = "body" /\ UNCHANGED vault
      BY <1>4, <1>t DEF BeginSave, TypeOK
    <2> QED BY <2>1 DEF CurrentFor, IsSave, IsRestore, At, Writing
  <1>5. ASSUME NEW t \in Tabs, NEW n \in Seqs, BeginRestore(r, t, n)
        PROVE  CurrentFor(r)'
    <2>1. /\ req'[r].seen = vault /\ req'[r].kind = "restore"
          /\ req'[r].phase = "fetch" /\ UNCHANGED vault
      BY <1>5, <1>t DEF BeginRestore, TypeOK
    <2> QED BY <2>1 DEF CurrentFor, IsSave, IsRestore, At, Writing
  <1>6. ASSUME Finish(r) PROVE CurrentFor(r)'
    BY <1>6, <1>t
       DEF Finish, IdleReq, TypeOK, CurrentFor, IsSave, IsRestore, Saving,
           Restoring, Writing
  <1>7. CASE CheckLock(r)
    <2>1. CASE Advance(r, "compare")
      BY <1>7, <1>c, <1>t, <2>1
         DEF CheckLock, Advance, TypeOK, CurrentFor, Shape, IsSave, IsRestore,
             At, Saving, Restoring, Writing
    <2> QED BY <1>6, <1>7, <2>1 DEF CheckLock
  <1>8. CASE Compare(r)
    <2>1. CASE Advance(r, "replace") /\ req[r].base = file
      <3>1. IsSave(r) /\ req[r].seen.next = vault.next
        BY <1>8, <1>c, <1>t, <2>1
           DEF Compare, At, Shape, CurrentFor, IsSave, IsRestore, Saving,
               Restoring, Writing
      <3>2. /\ req'[r].kind = "save" /\ req'[r].seen = req[r].seen
            /\ req'[r].base = req[r].base /\ req'[r].phase = "replace"
            /\ UNCHANGED <<file, vault>>
        BY <1>8, <1>t, <2>1, <3>1 DEF Compare, Advance, TypeOK, IsSave
      <3> QED BY <2>1, <3>1, <3>2 DEF CurrentFor, IsSave, IsRestore, At
    <2> QED BY <1>6, <1>8, <2>1 DEF Compare
  <1>9. CASE Fetch(r)
    <2>1. ASSUME NEW c \in Contents \ {Nothing},
                 req' = [req EXCEPT ![r].phase = "replace", ![r].body = c]
          PROVE  CurrentFor(r)'
      <3>1. IsRestore(r) /\ req[r].seen.next = vault.next
        BY <1>9, <1>c, <1>t
           DEF Fetch, At, Shape, CurrentFor, IsSave, IsRestore, Saving,
               Restoring, Writing
      <3>2. /\ req'[r].kind = "restore" /\ req'[r].seen = req[r].seen
            /\ req'[r].phase = "replace" /\ req'[r].body = c
            /\ UNCHANGED vault
        BY <1>9, <1>t, <2>1, <3>1 DEF Fetch, TypeOK, IsRestore
      <3> QED BY <2>1, <3>1, <3>2 DEF CurrentFor, IsSave, IsRestore, At
    <2>2. PICK n \in Seqs :
            \/ Finish(r)
            \/ /\ gen[n] # Nothing
               /\ req' = [req EXCEPT ![r].phase = "replace", ![r].body = gen[n]]
      BY <1>9, <1>t DEF Fetch, TypeOK, Request
    <2> QED BY <1>6, <1>t, <2>1, <2>2 DEF TypeOK
  <1>10. CASE Replace(r)
    <2>1. R(r) /\ req[r].seen.next = vault.next
      BY <1>10, <1>c, WriterShape DEF Replace, At, Writing, CurrentFor
    <2>2. IsRestore(r) => req[r].body # Nothing
      BY <1>10, <1>c DEF Replace, At, Writing, CurrentFor
    <2>3. /\ req'[r].kind = req[r].kind /\ req'[r].seen = req[r].seen
          /\ req'[r].body = req[r].body /\ req'[r].phase = "keep"
          /\ file' = req[r].body /\ UNCHANGED vault
      BY <1>10, <1>t DEF Replace, Advance, TypeOK
    <2> QED BY <2>1, <2>2, <2>3
            DEF CurrentFor, IsSave, IsRestore, At, Saving, Restoring, Writing
  <1>11. CASE Keep(r)
    <2>1. /\ R(r) /\ req[r].seen.next = vault.next /\ req[r].seen.next \in Seqs
          /\ file = req[r].body
          /\ IsRestore(r) => req[r].body # Nothing
      BY <1>11, <1>c, WriterShape DEF Keep, At, Writing, CurrentFor
    <2>2. /\ req'[r].kind = req[r].kind /\ req'[r].seen = req[r].seen
          /\ req'[r].body = req[r].body /\ req'[r].phase = "commit"
          /\ gen'[req[r].seen.next] = req[r].body /\ UNCHANGED <<file, vault>>
      BY <1>11, <1>t, <2>1 DEF Keep, Advance, TypeOK
    <2> QED BY <2>1, <2>2
            DEF CurrentFor, IsSave, IsRestore, At, Saving, Restoring, Writing
  (* Steps of another request p.                                           *)
  <1>12. ASSUME NEW p \in Reqs, p # r, Replace(p) PROVE CurrentFor(r)'
    <2>1. /\ req'[r] = req[r] /\ req[p].phase \in Writing
          /\ file' = req[p].body /\ UNCHANGED <<gen, vault>>
      BY <1>12, <1>t DEF Replace, Advance, TypeOK, At, Writing
    <2>2. CASE ~R(r)
      BY <1>3, <2>1, <2>2 DEF IsSave, IsRestore
    <2>3. CASE R(r)
      <3>1. IsSave(p) /\ IsSave(r) /\ At(r, "body")
        BY <1>12, <2>1, <2>3, BesideAWriter
      <3>2. req[r].base # req[p].body
        BY <1>12, <3>1 DEF BodiesAreNew
      <3> QED BY <2>1, <3>1, <3>2
              DEF CurrentFor, IsSave, IsRestore, At, Writing
    <2> QED BY <2>2, <2>3
  <1>13. ASSUME NEW p \in Reqs, p # r, Keep(p) PROVE CurrentFor(r)'
    <2>1. /\ req'[r] = req[r] /\ req[p].phase \in Writing
          /\ UNCHANGED <<file, vault>>
      BY <1>13, <1>t DEF Keep, Advance, TypeOK, At, Writing
    <2>2. CASE ~R(r)
      BY <1>3, <2>1, <2>2 DEF IsSave, IsRestore
    <2>3. CASE R(r)
      <3>1. IsSave(r) /\ At(r, "body")
        BY <1>13, <2>1, <2>3, BesideAWriter
      <3> QED BY <1>c, <2>1, <3>1
              DEF CurrentFor, IsSave, IsRestore, At, Writing
    <2> QED BY <2>2, <2>3
  <1>14. ASSUME NEW p \in Reqs, p # r, Commit(p) PROVE CurrentFor(r)'
    <2>1. /\ req'[r] = req[r] /\ req[p].phase \in Writing /\ At(p, "commit")
          /\ UNCHANGED <<file, gen>>
      BY <1>14, <1>t DEF Commit, Finish, TypeOK, At, Writing
    <2>2. CASE ~R(r)
      BY <1>3, <2>1, <2>2 DEF IsSave, IsRestore
    <2>3. CASE R(r)
      <3>1. IsSave(p) /\ IsSave(r) /\ At(r, "body")
        BY <1>14, <2>1, <2>3, BesideAWriter
      <3>2. file = req[p].body
        BY <2>1, <3>1 DEF Current, CurrentFor, At
      <3>3. req[r].base # req[p].body
        BY <1>14, <3>1 DEF BodiesAreNew
      <3> QED BY <2>1, <3>1, <3>2, <3>3
              DEF CurrentFor, IsSave, IsRestore, At, Writing
    <2> QED BY <2>2, <2>3
  <1>15. ASSUME NEW p \in Reqs, p # r,
                \/ \E t \in Tabs : BeginSave(p, t)
                \/ \E t \in Tabs, n \in Seqs : BeginRestore(p, t, n)
                \/ RejectBody(p) \/ CheckLock(p) \/ Compare(p) \/ Fetch(p)
                \/ CommitRefused(p) \/ CommitBusy(p) \/ BeginDrop(p)
                \/ ForgetRows(p)
         PROVE  CurrentFor(r)'
    BY <1>2, <1>15, <1>t
       DEF BeginSave, BeginRestore, RejectBody, CheckLock, Compare, Fetch,
           CommitRefused, CommitBusy, BeginDrop, ForgetRows, Advance, Finish,
           TypeOK
  (* Steps that take generations away.                                     *)
  <1>16. ASSUME NEW p \in Reqs, p # r, Unlink(p) \/ StorageFails(p)
         PROVE  CurrentFor(r)'
    <2>1. PICK S \in SUBSET condemned : gen' = Without(gen, S)
      BY <1>16, OnlyCondemnedIsLost
    <2>2. req'[r] = req[r] /\ UNCHANGED <<file, vault>>
      BY <1>16, <1>t DEF Unlink, StorageFails, Advance, Finish, TypeOK
    <2>3. CASE R(r) /\ At(r, "commit")
      <3>1. req[r].seen.next = vault.next /\ vault.next \in Seqs
        BY <1>c, <2>3, WriterShape DEF At, Writing, CurrentFor
      <3>2. vault.next \notin condemned
        BY <1>t, <3>1, NumberTypes DEF NumbersBelow
      <3>3. gen'[vault.next] = gen[vault.next]
        BY <2>1, <3>1, <3>2 DEF Without
      <3> QED BY <1>c, <2>2, <3>1, <3>3 DEF CurrentFor, IsSave, IsRestore, At
    <2>4. CASE ~(R(r) /\ At(r, "commit"))
      BY <1>c, <2>2, <2>4 DEF CurrentFor, IsSave, IsRestore, At
    <2> QED BY <2>3, <2>4
  <1>17. CASE Unlink(r) \/ BeginDrop(r)
    <2>1. CASE Unlink(r)
      <3>1. req[r].kind = "drop"
        BY <1>t, <2>1
           DEF Unlink, At, Shape, IsSave, IsRestore, Saving, Restoring, Writing
      <3> QED BY <1>3, <1>t, <2>1, <3>1
              DEF Unlink, Advance, TypeOK, IsSave, IsRestore
    <2>2. CASE BeginDrop(r)
      <3>1. req'[r].kind = "drop"
        BY <1>t, <2>2 DEF BeginDrop, IdleReq, TypeOK
      <3> QED BY <1>3, <3>1 DEF IsSave, IsRestore
    <2> QED BY <1>17, <2>1, <2>2
  (* Everything else.                                                      *)
  <1>18. CASE \/ RejectBody(r) \/ Commit(r) \/ CommitRefused(r) \/ CommitBusy(r)
              \/ ForgetRows(r) \/ StorageFails(r)
    BY <1>6, <1>18
       DEF RejectBody, Commit, CommitRefused, CommitBusy, ForgetRows,
           StorageFails
  <1>19. CASE \/ \E t \in Tabs : OpenVault(t)
              \/ LockStep \/ OtherWrites \/ OtherCommits \/ UNCHANGED vars
    BY <1>2, <1>19
       DEF OpenVault, LockStep, OtherWrites, OtherCommits, vars, storeVars
  <1>20. CASE Restart
    BY <1>3, <1>20
       DEF Restart, IdleReq, IsSave, IsRestore, Saving, Restoring, Writing
  <1>21. \A p \in Reqs : /\ ~BeginDelete(p) /\ ~EraseHistory(p)
                         /\ ~EraseFile(p) /\ ~ForgetVault(p)
    BY BeforeDeletion
  <1>22. CASE \E p \in Reqs : \/ \E t \in Tabs : \/ BeginSave(p, t)
                                                 \/ \E n \in Seqs : BeginRestore(p, t, n)
                              \/ BeginDrop(p) \/ ReqStep(p)
    <2>1. PICK p \in Reqs : \/ \E t \in Tabs : \/ BeginSave(p, t)
                                               \/ \E n \in Seqs : BeginRestore(p, t, n)
                            \/ BeginDrop(p) \/ ReqStep(p)
      BY <1>22
    <2>2. CASE p = r
      BY <1>4, <1>5, <1>7, <1>8, <1>9, <1>10, <1>11, <1>17, <1>18, <1>21, <2>1, <2>2
         DEF ReqStep, SaveStep
    <2>3. CASE p # r
      BY <1>12, <1>13, <1>14, <1>15, <1>16, <1>21, <2>1, <2>3
         DEF ReqStep, SaveStep
    <2> QED BY <2>2, <2>3
  <1> QED BY <1>19, <1>20, <1>21, <1>22 DEF Next

-----------------------------------------------------------------------------
LEMMA InitStore == Init => StoreInv
  <1> SUFFICES ASSUME Init PROVE StoreInv
    OBVIOUS
  <1>1. \A r \in Reqs : ~IsSave(r) /\ ~IsRestore(r)
    BY DEF Init, IdleReq, IsSave, IsRestore, Saving, Restoring, Writing
  <1>2. Alone /\ BodiesAreNew /\ Current
    BY <1>1 DEF Alone, BodiesAreNew, Current, CurrentFor
  <1>3. NothingNewer
    BY DEF Init, NothingNewer, IdleReq, Nothing
  <1>4. NumbersBelow /\ KeptOK
    <2>1. vault # Gone
      BY InitBase, StoreAssumption, EmptyType DEF Init, Contents, Nothing
    <2> QED BY <2>1 DEF Init, NumbersBelow, KeptOK
  <1> QED BY <1>2, <1>3, <1>4, InitBase DEF StoreInv, HistoryInv

LEMMA NextStore == StoreInv /\ NobodyEdits /\ [Next]_vars => StoreInv'
  <1> SUFFICES ASSUME StoreInv, NobodyEdits, [Next]_vars PROVE StoreInv'
    OBVIOUS
  <1>1. BaseInv' /\ Alone' /\ NothingNewer' /\ BodiesAreNew'
    BY NextBase, AlonePart, NewerPart, BodiesPart DEF StoreInv
  <1>2. ASSUME ~purged' PROVE NumbersBelow' /\ Current' /\ KeptOK'
    <2>1. NumbersBelow /\ Current /\ KeptOK
      BY <1>2, BeforeDeletion DEF StoreInv, HistoryInv
    <2> QED BY <1>2, <2>1, NumbersPart, CurrentPart, KeptPart DEF StoreInv
  <1> QED BY <1>1, <1>2 DEF StoreInv, HistoryInv

LEMMA StoreInvHolds == NobodyEdits /\ Spec => []StoreInv
  <1>1. CASE NobodyEdits
    <2>1. Init => StoreInv
      BY InitStore
    <2>2. StoreInv /\ [Next]_vars => StoreInv'
      BY <1>1, NextStore
    <2> QED BY <2>1, <2>2, PTL DEF Spec
  <1>2. CASE ~NobodyEdits
    BY <1>2, PTL
  <1> QED BY <1>1, <1>2

(* What a save or a restore has confirmed stays in the history, through    *)
(* every failure and restart, as long as nobody restores and saves at the  *)
(* same time.                                                              *)
THEOREM ConfirmedGenerationsStay == NobodyEdits /\ Spec => []ConfirmedIsKept
  <1>1. StoreInv => ConfirmedIsKept
    BY DEF StoreInv, HistoryInv, KeptOK, ConfirmedIsKept
  <1> QED BY <1>1, StoreInvHolds, PTL

(* No two confirmed generations ever had the same number.                  *)
THEOREM NumbersStayUnique == NobodyEdits /\ Spec => []NumbersAreNeverReused
  <1>1. StoreInv => NumbersAreNeverReused
    BY DEF StoreInv, HistoryInv, KeptOK, NumbersAreNeverReused
  <1> QED BY <1>1, StoreInvHolds, PTL

(* No save is lost: the content a save replaces is the one it was based on.*)
THEOREM SavesAreNotLost == NobodyEdits /\ Spec => SavesReplaceTheirBase
  <1>1. StoreInv =>
          [\A r \in Reqs :
             Replace(r) /\ req[r].kind = "save" => purged \/ file = req[r].base]_vars
    BY DEF StoreInv, HistoryInv, Current, CurrentFor, Replace, At, IsSave, Saving,
           Writing
  <1> QED BY <1>1, StoreInvHolds, PTL DEF SavesReplaceTheirBase

-----------------------------------------------------------------------------
(* The abstract history                                                    *)

Listed == [n \in Seqs |-> IF rows[n] = Nothing THEN Nothing ELSE gen[n]]
High == IF vault = Gone THEN 0 ELSE vault.next - 1

PromiseTypeOK ==
  /\ file \in Contents /\ condemned \in SUBSET Seqs
  /\ Listed \in [Seqs -> Contents]
  /\ High \in {0} \cup Seqs

LEMMA PromiseTypes == TypeOK => PromiseTypeOK
  <1> SUFFICES ASSUME TypeOK PROVE PromiseTypeOK
    OBVIOUS
  <1>1. High \in {0} \cup Seqs
    BY StoreAssumption DEF TypeOK, VaultRow, High, Seqs
  <1> QED BY <1>1, EmptyType DEF TypeOK, Listed, PromiseTypeOK

LEMMA PromiseStep ==
  ASSUME StoreInv, StoreInv', [Next]_vars
  PROVE  \/ Promise!Next
         \/ UNCHANGED <<file, Listed, High, condemned, purged>>
  <1>t. TypeOK /\ BaseInv /\ TypeOK'
    BY DEF StoreInv, BaseInv
  <1>1. CASE purged
    <2>1. purged' = TRUE
      BY ZenonT(60), <1>1, <1>t
         DEF Next, ReqStep, SaveStep, OpenVault, BeginSave, RejectBody,
             CheckLock, Compare, BeginRestore, Fetch, Replace, Keep, Commit,
             CommitRefused, CommitBusy, BeginDrop, Unlink, ForgetRows,
             BeginDelete, EraseHistory, EraseFile, ForgetVault, StorageFails,
             LockStep, OtherWrites, OtherCommits, Restart, vars, storeVars,
             TypeOK
    <2>2. PromiseTypeOK'
      BY <1>t, PromiseTypes, PTL
    <2> QED BY SMTT(30), <1>1, <2>1, <2>2
            DEF Promise!Next, Promise!BeyondPromise, PromiseTypeOK, Listed, High
  <1>2. ASSUME NEW r \in Reqs, BeginDelete(r)
        PROVE  Promise!Next
    <2>1. purged' = TRUE /\ UNCHANGED <<file, gen, rows, vault, condemned>>
      BY <1>2 DEF BeginDelete
    <2> QED BY <2>1 DEF Promise!Next, Promise!Delete
  <1>3. CASE ~purged'
    <2>1. /\ ~purged /\ NumbersBelow /\ Current /\ KeptOK /\ vault # Gone
          /\ \A r \in Reqs : /\ ~BeginDelete(r) /\ ~EraseHistory(r)
                             /\ ~EraseFile(r) /\ ~ForgetVault(r)
      BY <1>3, <1>t, BeforeDeletion DEF StoreInv, HistoryInv, NumbersBelow
    <2>2. ASSUME NEW r \in Reqs, Replace(r) PROVE Promise!Next
      <3>1. req[r].body \in Contents \ {Nothing}
        BY <1>t, <2>1, <2>2, WriterShape
           DEF Replace, At, Writing, StoreInv, BodiesAreNew, Current,
               CurrentFor, TypeOK, Request
      <3>2. file' = req[r].body /\ UNCHANGED <<gen, rows, vault, condemned, purged>>
        BY <2>2 DEF Replace
      <3> QED BY <3>1, <3>2 DEF Promise!Next, Promise!Put
    <2>3. ASSUME NEW r \in Reqs, Keep(r) PROVE UNCHANGED Listed
      <3>1. req[r].seen.next = vault.next
        BY <2>1, <2>3, WriterShape, <1>t DEF Keep, At, Writing, Current, CurrentFor
      <3>2. \A n \in Seqs : rows[n] # Nothing => n # vault.next
        BY <1>t, <2>1, NumberTypes DEF NumbersBelow
      <3>3. rows' = rows /\ gen' = [gen EXCEPT ![vault.next] = req[r].body]
        BY <2>3, <3>1 DEF Keep
      <3> QED BY <1>t, <3>2, <3>3 DEF Listed, TypeOK
    <2>4. ASSUME NEW r \in Reqs, Commit(r) PROVE Promise!Next
      <3>1. /\ req[r].seen.next = vault.next /\ vault.next \in Seqs
            /\ file = req[r].body /\ gen[vault.next] = req[r].body
        BY <2>1, <2>4, WriterShape, <1>t
           DEF Commit, At, Writing, Current, CurrentFor
      <3>2. /\ vault' # Gone /\ vault'.next = vault.next + 1 /\ vault.next \in Nat
        <4>1. vault' \in VaultRow
          BY <1>t, <2>4, CommittedRowIsARow DEF BaseInv
        <4> QED BY <1>t, <2>1, <2>4, <3>1, <4>1, StoreAssumption, NumberTypes
                DEF Commit, VaultAfter, VaultRow, Contents
      <3>3. /\ rows' = [rows EXCEPT ![vault.next] = req[r].body]
            /\ UNCHANGED <<file, gen, condemned, purged>>
        BY <2>4, <3>1 DEF Commit
      <3>4. High + 1 = vault.next /\ High' = High + 1
        BY <2>1, <3>2 DEF High
      <3>5. Listed' = [Listed EXCEPT ![vault.next] = file]
        BY <1>t, <3>1, <3>3 DEF Listed, TypeOK
      <3> QED BY <3>1, <3>3, <3>4, <3>5
              DEF Promise!Next, Promise!Record, Listed, High
    <2>5. ASSUME NEW r \in Reqs, BeginDrop(r) PROVE Promise!Next
      <3>1. /\ condemned \subseteq condemned'
            /\ UNCHANGED <<file, gen, rows, vault, purged>>
        BY <2>5 DEF BeginDrop
      <3>2. condemned' \in SUBSET Seqs
        BY <1>t DEF TypeOK
      <3> QED BY <3>1, <3>2 DEF Promise!Next, Promise!Condemn
    <2>6. ASSUME NEW r \in Reqs, Unlink(r) \/ StorageFails(r) PROVE Promise!Next
      <3>1. PICK S \in SUBSET condemned : gen' = Without(gen, S)
        BY <1>3, <1>t, <2>6, OnlyCondemnedIsLost
      <3>2. UNCHANGED <<file, rows, vault, condemned, purged>>
        BY <2>6 DEF Unlink, StorageFails
      <3>3. Listed' = [n \in Seqs |-> IF n \in S THEN Nothing ELSE Listed[n]]
        BY <3>1, <3>2 DEF Listed, Without
      <3> QED BY <3>2, <3>3 DEF Promise!Next, Promise!Forget, Listed, High
    <2>7. ASSUME NEW r \in Reqs, ForgetRows(r) PROVE Promise!Next
      <3>1. req[r].seqs \in SUBSET condemned
        BY <1>t, <2>7
           DEF ForgetRows, At, BaseInv, Shape, IsSave, IsRestore, Saving,
               Restoring, Writing
      <3>2. /\ UNCHANGED <<file, gen, vault, condemned, purged>>
            /\ rows' = Without(rows, req[r].seqs)
        BY <2>7 DEF ForgetRows
      <3>3. Listed' = [n \in Seqs |-> IF n \in req[r].seqs THEN Nothing ELSE Listed[n]]
        BY <3>2 DEF Listed, Without
      <3> QED BY <3>1, <3>2, <3>3 DEF Promise!Next, Promise!Forget, Listed, High
    <2>8. CASE UNCHANGED <<file, gen, rows, vault, condemned, purged>>
      BY <2>8 DEF Listed, High
    <2>9. ASSUME NEW r \in Reqs, Keep(r)
          PROVE  UNCHANGED <<file, Listed, High, condemned, purged>>
      <3>1. UNCHANGED <<file, vault, condemned, purged>>
        BY <2>9 DEF Keep
      <3> QED BY <2>3, <2>9, <3>1 DEF High
    <2>10. ASSUME Next,
                  \A r \in Reqs : /\ ~Replace(r) /\ ~Keep(r) /\ ~Commit(r)
                                  /\ ~BeginDrop(r) /\ ~Unlink(r)
                                  /\ ~StorageFails(r) /\ ~ForgetRows(r)
           PROVE  UNCHANGED <<file, gen, rows, vault, condemned, purged>>
      BY ZenonT(60), <2>1, <2>10
         DEF Next, ReqStep, SaveStep, OpenVault, BeginSave, RejectBody,
             CheckLock, Compare, BeginRestore, Fetch, CommitRefused, CommitBusy,
             LockStep, OtherWrites, OtherCommits, Restart, storeVars
    <2>11. CASE UNCHANGED vars
      BY <2>8, <2>11 DEF vars, storeVars
    <2> QED BY <2>2, <2>4, <2>5, <2>6, <2>7, <2>8, <2>9, <2>10, <2>11
  <1>4. \/ purged \/ ~purged' \/ \E r \in Reqs : BeginDelete(r)
    BY ZenonT(60)
       DEF Next, ReqStep, SaveStep, OpenVault, BeginSave, RejectBody, CheckLock,
           Compare, BeginRestore, Fetch, Replace, Keep, Commit, CommitRefused,
           CommitBusy, BeginDrop, Unlink, ForgetRows, EraseHistory, EraseFile,
           ForgetVault, StorageFails, LockStep, OtherWrites, OtherCommits, Restart,
           vars, storeVars
  <1> QED BY <1>1, <1>2, <1>3, <1>4

(* What can be listed and fetched is an append-only log of what was        *)
(* current, cut only where somebody asked for it.                          *)
THEOREM TheStoreKeepsItsPromise == NobodyEdits /\ Spec => KeepsItsPromise
  <1>1. Init => Promise!Init
    <2>1. Init => vault # Gone
      BY StoreAssumption, EmptyType DEF Init, Contents, Nothing
    <2> QED BY <2>1 DEF Init, Promise!Init
  <1>2. StoreInv /\ StoreInv' /\ [Next]_vars =>
          [Promise!Next]_<<file, Listed, High, condemned, purged>>
    BY PromiseStep
  <1>3. StoreInv /\ StoreInv' /\ [Next]_vars => [Promise!Next]_(Promise!historyVars)
    BY <1>2 DEF Listed, High, Promise!historyVars
  <1> QED BY <1>1, <1>3, StoreInvHolds, PTL DEF Spec, KeepsItsPromise, Promise!Spec
=============================================================================

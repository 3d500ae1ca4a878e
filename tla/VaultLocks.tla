----------------------------- MODULE VaultLocks -----------------------------
(***************************************************************************)
(* The advisory edit lock of one vault: one database row, the requests     *)
(* that read it in a worker thread and write it at their commit, and the   *)
(* browser tabs that believe they hold it.                                 *)
(*                                                                         *)
(* A request is two steps, because the code is: the handler reads the row  *)
(* once and decides (the Load actions), and the statement that follows     *)
(* from the decision reaches the database only when the request commits    *)
(* (LockCommit).  Statements address the row by its primary key, the       *)
(* vault's id, and by nothing else, so what a request decided about one    *)
(* holder may be carried out on the row of another.                        *)
(*                                                                         *)
(* Clock values are abstracted to one bit of the row: `live' until the     *)
(* deadline passes, which may happen at any moment.                        *)
(***************************************************************************)
EXTENDS Naturals, FiniteSets

CONSTANTS
  Users,      \* accounts that may write to the vault
  Tabs,       \* browser tabs; several may belong to one person
  UserOf,     \* the account each tab is signed in as
  LockReqs,   \* identities of the lock requests that can overlap
  NoLock,     \* what is read when the vault_lock row is absent
  NoTab,      \* the tab of a request that no tab's adapter answers to
  Tokens,     \* random lock tokens; their number bounds how many are known
  NoToken     \* what the adapter keeps while it holds no lock

ASSUME LockAssumption ==
  /\ UserOf \in [Tabs -> Users]
  /\ NoTab \notin Tabs
  /\ NoToken \notin Tokens
  /\ NoLock \notin [user : Users, token : Tokens, live : BOOLEAN]

VARIABLES
  lock,       \* the committed vault_lock row, or NoLock
  held,       \* per tab: the token its adapter keeps, or NoToken
  lockReq     \* per request: the statement it will commit

lockVars == <<lock, held, lockReq>>

LockRow == [user : Users, token : Tokens, live : BOOLEAN]

(* The requests, and what each has decided to do to the row.  "insert" is  *)
(* a new row; "switch" is a new row over one found expired, which the      *)
(* session turns into an UPDATE of every column; "extend" moves the        *)
(* deadline; "delete" removes the row.                                     *)
Ops == {"acquire", "renew", "release", "look", "break"}
Statements == {"insert", "switch", "extend", "delete"}
IdleLockReq == [op |-> "idle", stmt |-> "delete", tab |-> NoTab, token |-> NoToken]
LockRequest == [op : Ops \cup {"idle"}, stmt : Statements,
                tab : Tabs \cup {NoTab}, token : Tokens \cup {NoToken}]

LockTypeOK ==
  /\ lock \in LockRow \cup {NoLock}
  /\ held \in [Tabs -> Tokens \cup {NoToken}]
  /\ lockReq \in [LockReqs -> LockRequest]

LockInit ==
  /\ lock = NoLock
  /\ held = [t \in Tabs |-> NoToken]
  /\ lockReq = [q \in LockReqs |-> IdleLockReq]

-----------------------------------------------------------------------------
(* Reading the row                                                         *)

LiveLock == lock # NoLock /\ lock.live

ExpiredLock == lock # NoLock /\ ~lock.live

(* Deliberate errors: a definition named ...Broken is what a plausible     *)
(* mistake would make of the one it is named after; no specification uses  *)
(* it, the README says which property notices it.                          *)
(* This one: renewing looks at the deadline only.                          *)
TokenAcceptedBroken(token) == LiveLock /\ token \in Tokens

(* active_lock() found a live row and the token sent matches it.           *)
TokenAccepted(token) == LiveLock /\ lock.token = token

Idle(q) == lockReq[q].op = "idle"

Decide(q, op, stmt, t, token) ==
  lockReq' = [lockReq EXCEPT
                ![q] = [op |-> op, stmt |-> stmt, tab |-> t, token |-> token]]

(* A new token is random: it equals none that anybody still remembers.     *)
Fresh(k) ==
  /\ lock # NoLock => lock.token # k
  /\ \A t \in Tabs : held[t] # k
  /\ \A q \in LockReqs : lockReq[q].token # k

(* Broken: a live lock is handed out without comparing its holder.         *)
LoadAcquireBroken(q, t) ==
  /\ Idle(q)
  /\ \/ LiveLock /\ Decide(q, "acquire", "extend", t, lock.token)
     \/ /\ ~LiveLock
        /\ \E k \in Tokens :
             /\ Fresh(k)
             /\ Decide(q, "acquire",
                       IF lock = NoLock THEN "insert" ELSE "switch", t, k)
  /\ UNCHANGED <<lock, held>>

(* Broken: over an expired row the tab's own last token is written again.  *)
LoadAcquireReusingBroken(q, t) ==
  /\ Idle(q)
  /\ \/ LiveLock /\ lock.user = UserOf[t]
        /\ Decide(q, "acquire", "extend", t, lock.token)
     \/ lock = NoLock
        /\ \E k \in Tokens : Fresh(k) /\ Decide(q, "acquire", "insert", t, k)
     \/ ExpiredLock /\ Decide(q, "acquire", "switch", t, held[t])
  /\ UNCHANGED <<lock, held>>

(* acquire(): one's own live lock is renewed and its token handed out      *)
(* again; an expired row or none at all means a new lock with a new token. *)
(* A live lock of somebody else is refused with 409 and changes nothing.   *)
LoadAcquire(q, t) ==
  /\ Idle(q)
  /\ \/ /\ LiveLock
        /\ lock.user = UserOf[t]
        /\ Decide(q, "acquire", "extend", t, lock.token)
     \/ /\ ~LiveLock
        /\ \E k \in Tokens :
             /\ Fresh(k)
             /\ Decide(q, "acquire",
                       IF lock = NoLock THEN "insert" ELSE "switch", t, k)
  /\ UNCHANGED <<lock, held>>

(* renew(), the heartbeat.  When the token is no longer accepted the       *)
(* request ends with 409; the adapter forgets the lock and tells the       *)
(* application.                                                            *)
LoadRenew(q, t) ==
  /\ Idle(q)
  /\ held[t] # NoToken
  /\ \/ /\ TokenAccepted(held[t])
        /\ Decide(q, "renew", "extend", t, held[t])
        /\ UNCHANGED held
     \/ /\ ~TokenAccepted(held[t])
        /\ held' = [held EXCEPT ![t] = NoToken]
        /\ UNCHANGED lockReq
  /\ UNCHANGED lock

(* release() by the regular endpoint or by the beacon of a closing tab:    *)
(* the adapter has already dropped the token when the request goes out.    *)
(* An expired row counts as absent and is removed on sight, whoever asks.  *)
LoadRelease(q, t) ==
  /\ Idle(q)
  /\ held[t] # NoToken
  /\ held' = [held EXCEPT ![t] = NoToken]
  /\ IF TokenAccepted(held[t]) \/ ExpiredLock
       THEN Decide(q, "release", "delete", t, held[t])
       ELSE UNCHANGED lockReq
  /\ UNCHANGED lock

(* A request that only looks - the vault list, the lock status - and finds *)
(* an expired row: active_lock() marks it for deletion and the request,    *)
(* which succeeds, commits that.                                           *)
LoadLook(q) ==
  /\ Idle(q)
  /\ ExpiredLock
  /\ Decide(q, "look", "delete", NoTab, NoToken)
  /\ UNCHANGED <<lock, held>>

(* break_lock(), an administrator's force: no token, and no look at the    *)
(* deadline.                                                               *)
LoadBreak(q) ==
  /\ Idle(q)
  /\ lock # NoLock
  /\ Decide(q, "break", "delete", NoTab, NoToken)
  /\ UNCHANGED <<lock, held>>

-----------------------------------------------------------------------------
(* Writing the row                                                         *)

(* The row after a statement that finds what it needs.                     *)
RowAfter(stmt, t, token) ==
  CASE stmt \in {"insert", "switch"} ->
         [user |-> UserOf[t], token |-> token, live |-> TRUE]
    [] stmt = "extend" -> [lock EXCEPT !.live = TRUE]
    [] stmt = "delete" -> NoLock

(* An INSERT needs the row to be absent (the primary key), an UPDATE needs *)
(* it to be there (a count of zero rows is an error); a DELETE of a row    *)
(* that is gone is let pass.                                               *)
Applies(stmt) ==
  CASE stmt = "insert" -> lock = NoLock
    [] stmt \in {"switch", "extend"} -> lock # NoLock
    [] stmt = "delete" -> TRUE

(* The answer reaches the tab: a successful acquire hands it the token.    *)
LockCommit(q) ==
  LET r == lockReq[q] IN
  /\ ~Idle(q)
  /\ Applies(r.stmt)
  /\ lock' = RowAfter(r.stmt, r.tab, r.token)
  /\ held' = IF r.op = "acquire" THEN [held EXCEPT ![r.tab] = r.token] ELSE held
  /\ lockReq' = [lockReq EXCEPT ![q] = IdleLockReq]

(* The statement does not apply (500) or the database stays busy (503).    *)
(* A heartbeat that fails for whatever reason makes the adapter forget the *)
(* lock, whichever token it holds by then.                                 *)
LockFail(q) ==
  LET r == lockReq[q] IN
  /\ ~Idle(q)
  /\ held' = IF r.op = "renew" THEN [held EXCEPT ![r.tab] = NoToken] ELSE held
  /\ lockReq' = [lockReq EXCEPT ![q] = IdleLockReq]
  /\ UNCHANGED lock

(* The deadline passes without a renewal.                                  *)
Expire ==
  /\ LiveLock
  /\ lock' = [lock EXCEPT !.live = FALSE]
  /\ UNCHANGED <<held, lockReq>>

(* A tab goes away without its beacon getting through, or never hears the  *)
(* answer that would have given it the lock.                               *)
TabVanishes(t) ==
  /\ held[t] # NoToken
  /\ held' = [held EXCEPT ![t] = NoToken]
  /\ UNCHANGED <<lock, lockReq>>

LockLoad(q) ==
  \/ \E t \in Tabs : LoadAcquire(q, t) \/ LoadRenew(q, t) \/ LoadRelease(q, t)
  \/ LoadLook(q)
  \/ LoadBreak(q)

LockNext ==
  \/ \E q \in LockReqs : LockLoad(q) \/ LockCommit(q) \/ LockFail(q)
  \/ \E t \in Tabs : TabVanishes(t)
  \/ Expire

LockSpec == LockInit /\ [][LockNext]_lockVars

(* What keeps running: the event loop finishes every request it has        *)
(* decided, and each open tab's interval timer sends its heartbeat (strong:*)
(* that a slot of LockReqs is free again and again is a matter of this     *)
(* model, the timer waits for nothing).                                    *)
LockFairness ==
  /\ \A q \in LockReqs : WF_lockVars(LockCommit(q) \/ LockFail(q))
  /\ \A t \in Tabs : SF_lockVars(\E q \in LockReqs : LoadRenew(q, t))

FairLockSpec == LockSpec /\ LockFairness

-----------------------------------------------------------------------------
(* A token is personal: the row that carries the token a tab holds belongs *)
(* to that tab's account, through every stale UPDATE that may have gone    *)
(* over the row.  write_content compares the holder as well as the token,  *)
(* restore_generation and renew() only the token; this is why that is      *)
(* enough.                                                                 *)
TokenIsPersonal ==
  \A t \in Tabs :
    lock # NoLock /\ lock.token = held[t] => lock.user = UserOf[t]

(* The previous holder of a broken or expired and replaced lock learns of  *)
(* it from a heartbeat: a tab does not go on for ever believing in a token *)
(* that is no longer in the row.                                           *)
LostLockIsNoticed ==
  \A t \in Tabs :
    (held[t] # NoToken /\ (lock = NoLock \/ lock.token # held[t]))
      ~> (held[t] = NoToken \/ (lock # NoLock /\ lock.token = held[t]))

(* While a lock is live, no request takes it from the person who holds it: *)
(* neither hands it to somebody else nor removes it, other than the        *)
(* holder's own release and an administrator's force.  (A deadline that    *)
(* passes is not a request, and leaves the row expired first.)  The code   *)
(* does not keep this: see the README, disagreements.                      *)
LiveLockIsRespected ==
  [][\A q \in LockReqs :
       LockCommit(q) /\ LiveLock /\ (lock' = NoLock \/ lock'.user # lock.user)
         => \/ lockReq[q].op = "break"
            \/ lockReq[q].op = "release" /\ lockReq[q].token = lock.token]_lockVars
=============================================================================

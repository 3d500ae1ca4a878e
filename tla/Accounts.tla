------------------------------ MODULE Accounts ------------------------------
(***************************************************************************)
(* Who may sign in: identity providers, the allowlist, the accounts that   *)
(* come into being by signing in, and their sessions; the administration's *)
(* requests, the sign-in and the setup command that change them.           *)
(*                                                                         *)
(* A request reads rows outside any transaction, so it sees the last       *)
(* commit of each moment.  What it changes is written at its commit: of a  *)
(* loaded row only the columns that were given another value, by primary   *)
(* key (Update).  From its first written statement to its commit it has    *)
(* SQLite's write lock.  A request whose first written statement comes     *)
(* with or just before the commit is therefore two steps, Begin and        *)
(* Commit; one that writes earlier takes the lock in a step of its own.    *)
(* A refused request (404, 409, 403) changes nothing and is no step.       *)
(***************************************************************************)
EXTENDS Naturals, FiniteSets

CONSTANTS
  Emails,         \* mail addresses
  Subjects,       \* people, as the providers identify them
  MaxProviders,   \* bound: the highest provider id
  MaxEntries,     \* bound: the highest allowlist id
  MaxUsers,       \* bound: the highest account id
  Sessions,       \* session rows
  Reqs,           \* identities of the requests that can overlap
  Ops,            \* the kinds of requests that are made
  Absent, NoReq   \* no row; nobody

ASSUME AccountsAssumption ==
  /\ MaxProviders \in Nat \ {0} /\ MaxEntries \in Nat \ {0} /\ MaxUsers \in Nat
  /\ NoReq \notin Reqs

VARIABLES
  provider,  \* the committed rows of provider
  entry,     \* the committed rows of allowlist
  user,      \* the committed rows of user
  session,   \* the committed rows of session
  req,       \* the requests in flight, with what they have read
  writer,    \* the request whose open transaction has SQLite's write lock
  raced      \* history: what a commit has taken away under a request (Overtaken)

rowVars == <<provider, entry, user, session>>
vars == <<provider, entry, user, session, req, writer, raced>>

ProviderIds == 1..MaxProviders
EntryIds == 1..MaxEntries
UserIds == 1..MaxUsers

ProviderRow == [enabled : BOOLEAN, primary : BOOLEAN]
EntryRow == [provider : ProviderIds, email : Emails, admin : BOOLEAN]
UserRow == [provider : ProviderIds, subject : Subjects, email : Emails,
            admin : BOOLEAN, active : BOOLEAN]

(* who is history: the person who signed in.                               *)
SessionRow == [user : UserIds, who : ProviderIds \X Subjects]

ASSUME AbsentAssumption ==
  Absent \notin ProviderRow \cup EntryRow \cup UserRow \cup SessionRow

Table(I, Row) == [I -> Row \cup {Absent}]
Ids(table) == {i \in DOMAIN table : table[i] # Absent}

(* A new row follows the highest one there is: the migrations rebuild the  *)
(* tables, that of the accounts as well, without AUTOINCREMENT.            *)
Follows(i, table) ==
  /\ i = 1 \/ i - 1 \in Ids(table)
  /\ \A j \in Ids(table) : j < i

(* Statements of the unit of work: an UPDATE of the columns whose value    *)
(* was changed, which fails when it finds no row; without a changed column *)
(* there is no statement at all.                                           *)
Changed(row, seen, new) ==
  [c \in DOMAIN row |-> IF new[c] = seen[c] THEN row[c] ELSE new[c]]
Applies(table, i, seen, new) == seen # new => i \in Ids(table)
Update(table, i, seen, new) ==
  [j \in DOMAIN table |->
     IF j = i /\ table[j] # Absent THEN Changed(table[j], seen, new) ELSE table[j]]
Delete(table, i) == [table EXCEPT ![i] = Absent]

(* Broken: the rows are kept and lose their account.                       *)
RevokedBroken(us) ==
  [k \in Sessions |-> IF session[k] # Absent /\ session[k].user \in us
                       THEN [session[k] EXCEPT !.user = 0] ELSE session[k]]

(* revoke_all_for                                                          *)
Revoked(us) ==
  [k \in Sessions |->
     IF session[k] # Absent /\ session[k].user \in us THEN Absent ELSE session[k]]

(* Broken: the flag is set, and nobody else's is taken away.               *)
OthersClearedBroken(p) == provider

(* Broken: the flag is taken from the row itself as well.                  *)
AllClearedBroken(p) ==
  [q \in ProviderIds |->
     IF provider[q] # Absent THEN [provider[q] EXCEPT !.primary = FALSE] ELSE provider[q]]

(* _make_primary: one UPDATE of all other rows.                            *)
OthersCleared(p) ==
  [q \in ProviderIds |->
     IF q # p /\ provider[q] # Absent THEN [provider[q] EXCEPT !.primary = FALSE]
                                      ELSE provider[q]]

EntriesFor(p, m) ==
  {e \in Ids(entry) : entry[e].provider = p /\ entry[e].email = m}
AccountsFor(p, m) ==
  {u \in Ids(user) : user[u].provider = p /\ user[u].email = m}
AccountsOf(p, s) ==
  {u \in Ids(user) : user[u].provider = p /\ user[u].subject = s}
OtherAdminEntriesExist(e) == \E f \in Ids(entry) \ {e} : entry[f].admin
OtherActiveAdminsExist(u) ==
  \E v \in Ids(user) \ {u} : user[v].admin /\ user[v].active

(* lookup and require_user: a session works while its account is active.   *)
Usable(k) ==
  /\ session[k] # Absent
  /\ user[session[k].user] # Absent
  /\ user[session[k].user].active
AdminSignedIn == \E k \in Sessions : Usable(k) /\ user[session[k].user].admin

-----------------------------------------------------------------------------
(* Requests in flight                                                      *)

Idle == [op |-> "idle"]
Wishes == {"enable", "disable", "primary"}

(* found and snap: the account found for an entry, as it was read then.    *)
Request ==
  [op : {"editProvider"}, id : ProviderIds, asks : SUBSET Wishes, seen : ProviderRow]
  \cup [op : {"deleteProvider"}, id : ProviderIds]
  \cup [op : {"editEntry"}, id : EntryIds, seen : EntryRow, new : EntryRow]
  \cup [op : {"removeEntry"}, id : EntryIds, seen : EntryRow]
  \cup [op : {"editFound"}, id : EntryIds, seen : EntryRow, new : EntryRow,
        found : SUBSET UserIds, snap : BOOLEAN]
  \cup [op : {"removeFound"}, id : EntryIds, found : SUBSET UserIds, snap : BOOLEAN]
  \cup [op : {"editUser"}, id : UserIds, seen : UserRow, new : UserRow]
  \cup [op : {"deleteUser"}, id : UserIds]
  \cup [op : {"token"}, provider : ProviderIds, subject : Subjects, email : Emails]
  \cup [op : {"known", "new"}, id : UserIds, seen : UserRow, new : UserRow]
  \cup [op : {"setup"}, existing : SUBSET ProviderIds, seen : ProviderRow]
  \cup [op : {"admins"}, id : ProviderIds, keeps : ProviderIds \cup {0},
        seen : ProviderRow, new : ProviderRow]

-----------------------------------------------------------------------------
(* History: a check that holds when a request makes it need not hold when  *)
(* that request commits.  Of every commit it is noted which claim it has   *)
(* taken away under a request in flight.                                   *)

Claims == {"primary", "list", "owner", "rights"}

(* c has made its provider primary; q has read that another one is, or     *)
(* that this one is not.                                                   *)
MakesPrimary(c) ==
  \/ c.op = "editProvider" /\ "primary" \in c.asks
  \/ c.op \in {"admins", "createProvider"}
CountsOnOther(q, p) ==
  \/ q.op = "editProvider" /\ "primary" \in q.asks /\ q.seen.primary /\ q.id # p
  \/ q.op = "editProvider" /\ "disable" \in q.asks /\ q.id = p
  \/ q.op = "deleteProvider" /\ q.id = p
  \/ q.op = "setup" /\ q.existing \notin {{}, {p}}

(* Both take an administrator off the list.                                *)
TakesAdmin(q) ==
  \/ q.op \in {"editEntry", "editFound"} /\ ~q.new.admin
  \/ q.op \in {"removeEntry", "removeFound"}

(* c has deleted the account that q admits.                                *)
DeletesOwner(c, q) == c.op = "deleteUser" /\ q.op = "known" /\ c.id = q.id

(* c has changed what the list says, the accounts it says it of, or what   *)
(* is written of one of them, after q has read it.  An account created     *)
(* under the id of a deleted one counts as the same.                       *)
Finds(q) == q.op \in {"editFound", "removeFound"}
SignsIn(q) == q.op \in {"known", "new"}
ChangesRights(c, q) ==
  \/ Finds(c) /\ q.op = "known"
  \/ SignsIn(c) /\ Finds(q)
  \/ SignsIn(c) /\ q.op = "known" /\ c.id = q.id
  \/ c.op = "removeFound" /\ TakesAdmin(q) /\ c.id = q.id

TakesAway(claim, c, q) ==
  \/ claim = "primary" /\ MakesPrimary(c) /\ CountsOnOther(q, c.id)
  \/ claim = "list" /\ TakesAdmin(c) /\ TakesAdmin(q) /\ c.id # q.id
  \/ claim = "owner" /\ DeletesOwner(c, q)
  \/ claim = "rights" /\ ChangesRights(c, q)

Overtaken(c, others) ==
  {claim \in Claims : \E r \in others : TakesAway(claim, c, req[r])}

-----------------------------------------------------------------------------
TypeOK ==
  /\ provider \in Table(ProviderIds, ProviderRow)
  /\ entry \in Table(EntryIds, EntryRow)
  /\ user \in Table(UserIds, UserRow)
  /\ session \in Table(Sessions, SessionRow)
  /\ req \in [Reqs -> Request \cup {Idle}]
  /\ writer \in Reqs \cup {NoReq}
  /\ raced \in SUBSET Claims

(* After the first setup: a primary provider and a listed administrator.   *)
Init ==
  /\ provider = [p \in ProviderIds |->
       IF p = 1 THEN [enabled |-> TRUE, primary |-> TRUE] ELSE Absent]
  /\ \E m \in Emails :
       entry = [e \in EntryIds |->
         IF e = 1 THEN [provider |-> 1, email |-> m, admin |-> TRUE] ELSE Absent]
  /\ user = [u \in UserIds |-> Absent]
  /\ session = [k \in Sessions |-> Absent]
  /\ req = [r \in Reqs |-> Idle]
  /\ writer = NoReq
  /\ raced = {}

Doing(r, op) == req[r].op = op
Goes(r, request) == req' = [req EXCEPT ![r] = request]

Begins(r, op) ==
  /\ op \in Ops /\ Doing(r, "idle")
  /\ op \in {"signIn", "setup"} \/ AdminSignedIn

(* A handler whose reads and commit need not be told apart: what it reads  *)
(* decides only whether a constraint of the schema would refuse it.        *)
AtOnce(op) == op \in Ops /\ writer = NoReq /\ AdminSignedIn

(* The commit, on the event loop, with the write lock.                     *)
MayCommit(r) == writer \in {NoReq, r}
Done(r) ==
  /\ Goes(r, Idle)
  /\ writer' = NoReq
  /\ raced' = raced \cup Overtaken(req[r], Reqs \ {r})

(* The only step of r: nothing is written yet.                             *)
ReadsOnly == UNCHANGED rowVars /\ UNCHANGED <<writer, raced>>

-----------------------------------------------------------------------------
(* Providers                                                               *)

(* create_provider.  A taken name is refused by the query or the schema.   *)
CreateProvider(p, enabled, primary) ==
  /\ AtOnce("createProvider") /\ Follows(p, provider)
  /\ provider' = [(IF primary THEN OthersCleared(p) ELSE provider)
                    EXCEPT ![p] = [enabled |-> enabled, primary |-> primary]]
  /\ raced' = IF primary THEN raced \cup Overtaken([op |-> "createProvider", id |-> p], Reqs)
                        ELSE raced
  /\ UNCHANGED <<entry, user, session, req, writer>>

(* Broken: the primary provider may be disabled.                           *)
BeginEditProviderBroken(r, p, asks) ==
  /\ Begins(r, "editProvider") /\ p \in Ids(provider)
  /\ ~({"enable", "disable"} \subseteq asks)
  /\ Goes(r, [op |-> "editProvider", id |-> p, asks |-> asks, seen |-> provider[p]])
  /\ ReadsOnly

(* update_provider.  The check comes after _make_primary, so it also       *)
(* refuses to make primary and disable at once.                            *)
BeginEditProvider(r, p, asks) ==
  /\ Begins(r, "editProvider") /\ p \in Ids(provider)
  /\ ~({"enable", "disable"} \subseteq asks)
  /\ "disable" \in asks => ~provider[p].primary /\ "primary" \notin asks
  /\ Goes(r, [op |-> "editProvider", id |-> p, asks |-> asks, seen |-> provider[p]])
  /\ ReadsOnly

Asked(seen, asks) ==
  [enabled |-> IF "enable" \in asks THEN TRUE
               ELSE IF "disable" \in asks THEN FALSE ELSE seen.enabled,
   primary |-> seen.primary \/ "primary" \in asks]

CommitEditProvider(r) ==
  /\ Doing(r, "editProvider") /\ MayCommit(r)
  /\ LET p == req[r].id
         seen == req[r].seen
         new == Asked(seen, req[r].asks)
         others == IF "primary" \in req[r].asks THEN OthersCleared(p) ELSE provider
     IN /\ Applies(provider, p, seen, new)
        /\ provider' = Update(others, p, seen, new)
  /\ Done(r)
  /\ UNCHANGED <<entry, user, session>>

(* delete_provider: not the primary one, and none with people behind it;   *)
(* the foreign keys say the latter once more.  A row that has gone in the  *)
(* meantime is no error.                                                   *)
HasPeople(p) ==
  \/ \E e \in Ids(entry) : entry[e].provider = p
  \/ \E u \in Ids(user) : user[u].provider = p

BeginDeleteProvider(r, p) ==
  /\ Begins(r, "deleteProvider") /\ p \in Ids(provider)
  /\ ~provider[p].primary /\ ~HasPeople(p)
  /\ Goes(r, [op |-> "deleteProvider", id |-> p])
  /\ ReadsOnly

CommitDeleteProvider(r) ==
  /\ Doing(r, "deleteProvider") /\ MayCommit(r)
  /\ ~HasPeople(req[r].id)
  /\ provider' = Delete(provider, req[r].id)
  /\ Done(r)
  /\ UNCHANGED <<entry, user, session>>

-----------------------------------------------------------------------------
(* The allowlist                                                           *)

(* add_to_allowlist.  A double or an unknown provider is refused by the    *)
(* query or the schema.                                                    *)
AddToAllowlist(e, p, m, admin) ==
  /\ AtOnce("addEntry") /\ p \in Ids(provider)
  /\ EntriesFor(p, m) = {} /\ Follows(e, entry)
  /\ entry' = [entry EXCEPT ![e] = [provider |-> p, email |-> m, admin |-> admin]]
  /\ UNCHANGED <<provider, user, session, req, writer, raced>>

(* Broken: the entry itself counts among the others.                       *)
BeginEditEntryBroken(r, e, admin) ==
  /\ Begins(r, "editEntry") /\ e \in Ids(entry)
  /\ ~admin /\ entry[e].admin => \E f \in Ids(entry) : entry[f].admin
  /\ Goes(r, [op |-> "editEntry", id |-> e, seen |-> entry[e],
               new |-> [entry[e] EXCEPT !.admin = admin]])
  /\ ReadsOnly

(* update_allowlist and remove_from_allowlist: the last administrator on   *)
(* the list stays; entries of disabled providers count.                    *)
BeginEditEntry(r, e, admin) ==
  /\ Begins(r, "editEntry") /\ e \in Ids(entry)
  /\ ~admin /\ entry[e].admin => OtherAdminEntriesExist(e)
  /\ Goes(r, [op |-> "editEntry", id |-> e, seen |-> entry[e],
               new |-> [entry[e] EXCEPT !.admin = admin]])
  /\ ReadsOnly

BeginRemoveEntry(r, e) ==
  /\ Begins(r, "removeEntry") /\ e \in Ids(entry)
  /\ entry[e].admin => OtherAdminEntriesExist(e)
  /\ Goes(r, [op |-> "removeEntry", id |-> e, seen |-> entry[e]])
  /\ ReadsOnly

(* The account of the entry, by its address.  The query flushes a changed  *)
(* entry first, which takes the write lock.  With two accounts of one      *)
(* address it fails (one_or_none).                                         *)
FindForEdit(r) ==
  /\ Doing(r, "editEntry")
  /\ LET q == req[r]
         found == AccountsFor(q.seen.provider, q.seen.email)
     IN /\ Applies(entry, q.id, q.seen, q.new)
        /\ \A u, v \in found : u = v
        /\ IF q.seen = q.new THEN UNCHANGED writer ELSE writer = NoReq /\ writer' = r
        /\ Goes(r, [op |-> "editFound", id |-> q.id, seen |-> q.seen, new |-> q.new,
                     found |-> found, snap |-> \E u \in found : user[u].admin])
  /\ UNCHANGED rowVars /\ UNCHANGED raced

FindForRemoval(r) ==
  /\ Doing(r, "removeEntry")
  /\ LET q == req[r]
         found == AccountsFor(q.seen.provider, q.seen.email)
     IN /\ \A u, v \in found : u = v
        /\ Goes(r, [op |-> "removeFound", id |-> q.id, found |-> found,
                     snap |-> \E u \in found : user[u].active])
  /\ ReadsOnly

CommitEditEntry(r) ==
  /\ Doing(r, "editFound") /\ MayCommit(r)
  /\ LET q == req[r]
         flag == q.new.admin
     IN /\ Applies(entry, q.id, q.seen, q.new)
        /\ entry' = Update(entry, q.id, q.seen, q.new)
        /\ flag # q.snap => q.found \subseteq Ids(user)
        /\ user' = [u \in UserIds |->
              IF u \in q.found /\ flag # q.snap THEN [user[u] EXCEPT !.admin = flag]
                                              ELSE user[u]]
        /\ session' = Revoked(q.found)
  /\ Done(r)
  /\ UNCHANGED provider

CommitRemoveEntry(r) ==
  /\ Doing(r, "removeFound") /\ MayCommit(r)
  /\ LET q == req[r] IN
       /\ entry' = Delete(entry, q.id)
       /\ q.snap => q.found \subseteq Ids(user)
       /\ user' = [u \in UserIds |->
             IF u \in q.found /\ q.snap THEN [user[u] EXCEPT !.active = FALSE]
                                       ELSE user[u]]
       /\ session' = Revoked(q.found)
  /\ Done(r)
  /\ UNCHANGED provider

-----------------------------------------------------------------------------
(* Accounts and sessions                                                   *)

(* update_user: the last active administrator stays active.  Enabling asks *)
(* nothing of the allowlist.                                               *)
BeginEditUser(r, u, active) ==
  /\ Begins(r, "editUser") /\ u \in Ids(user)
  /\ ~active /\ user[u].admin => OtherActiveAdminsExist(u)
  /\ Goes(r, [op |-> "editUser", id |-> u, seen |-> user[u],
               new |-> [user[u] EXCEPT !.active = active]])
  /\ ReadsOnly

CommitEditUser(r) ==
  /\ Doing(r, "editUser") /\ MayCommit(r)
  /\ LET q == req[r] IN
       /\ Applies(user, q.id, q.seen, q.new)
       /\ user' = Update(user, q.id, q.seen, q.new)
       /\ session' = IF q.new.active THEN session ELSE Revoked({q.id})
  /\ Done(r)
  /\ UNCHANGED <<provider, entry>>

(* delete_user                                                             *)
BeginDeleteUser(r, u) ==
  /\ Begins(r, "deleteUser") /\ u \in Ids(user)
  /\ user[u].admin /\ user[u].active => OtherActiveAdminsExist(u)
  /\ Goes(r, [op |-> "deleteUser", id |-> u])
  /\ ReadsOnly

CommitDeleteUser(r) ==
  /\ Doing(r, "deleteUser") /\ MayCommit(r)
  /\ user' = Delete(user, req[r].id)
  /\ session' = Revoked({req[r].id})
  /\ Done(r)
  /\ UNCHANGED <<provider, entry>>

(* revoke_sessions                                                         *)
RevokeSessions(u) ==
  /\ AtOnce("revoke") /\ Revoked({u}) # session
  /\ session' = Revoked({u})
  /\ UNCHANGED <<provider, entry, user, req, writer, raced>>

(* logout, and lookup of a session that has expired.                       *)
EndSession(k) ==
  /\ writer = NoReq /\ session[k] # Absent
  /\ session' = [session EXCEPT ![k] = Absent]
  /\ UNCHANGED <<provider, entry, user, req, writer, raced>>

-----------------------------------------------------------------------------
(* Signing in: the callback, on the event loop                             *)

(* _provider_or_404; then the provider is asked for the token.             *)
BeginSignIn(r, p, s, m) ==
  /\ Begins(r, "signIn")
  /\ p \in Ids(provider) /\ provider[p].enabled
  /\ Goes(r, [op |-> "token", provider |-> p, subject |-> s, email |-> m])
  /\ ReadsOnly

(* Broken: the account is looked for by its address.                       *)
AdmitKnownBroken(r) ==
  /\ Doing(r, "token")
  /\ LET q == req[r] IN
       \E e \in EntriesFor(q.provider, q.email), u \in AccountsFor(q.provider, q.email) :
         Goes(r, [op |-> "known", id |-> u, seen |-> user[u],
                  new |-> [user[u] EXCEPT !.admin = entry[e].admin,
                                          !.subject = q.subject, !.active = TRUE]])
  /\ ReadsOnly

(* Broken: a known account keeps its role.                                 *)
AdmitKnownAsBeforeBroken(r) ==
  /\ Doing(r, "token")
  /\ LET q == req[r] IN
       \E e \in EntriesFor(q.provider, q.email), u \in AccountsOf(q.provider, q.subject) :
         Goes(r, [op |-> "known", id |-> u, seen |-> user[u],
                  new |-> [user[u] EXCEPT !.active = TRUE, !.email = q.email]])
  /\ ReadsOnly

(* admit, for an address on the list (one that is not verified is on none).*)
(* A known account: its new values wait for the commit.                    *)
AdmitKnown(r) ==
  /\ Doing(r, "token")
  /\ LET q == req[r] IN
       \E e \in EntriesFor(q.provider, q.email), u \in AccountsOf(q.provider, q.subject) :
         Goes(r, [op |-> "known", id |-> u, seen |-> user[u],
                  new |-> [user[u] EXCEPT !.admin = entry[e].admin,
                                          !.active = TRUE, !.email = q.email]])
  /\ ReadsOnly

(* A first sign-in: the row is flushed, for its id, and the write lock     *)
(* stays with the request while it waits for the provider's groups.        *)
AdmitNew(r, u) ==
  /\ Doing(r, "token") /\ writer = NoReq /\ Follows(u, user)
  /\ LET q == req[r] IN
       /\ AccountsOf(q.provider, q.subject) = {}
       /\ q.provider \in Ids(provider)
       /\ \E e \in EntriesFor(q.provider, q.email) :
            LET row == [provider |-> q.provider, subject |-> q.subject, email |-> q.email,
                        admin |-> entry[e].admin, active |-> TRUE]
            IN Goes(r, [op |-> "new", id |-> u, seen |-> row, new |-> row])
  /\ writer' = r
  /\ UNCHANGED rowVars /\ UNCHANGED raced

(* The groups have come or could not be fetched: sessions.create, and the  *)
(* commit.  The sign-in's time is always written to a known account.       *)
SignedIn(r, k) ==
  /\ req[r].op \in {"known", "new"} /\ MayCommit(r) /\ session[k] = Absent
  /\ LET q == req[r] IN
       /\ IF Doing(r, "known")
            THEN q.id \in Ids(user) /\ user' = Update(user, q.id, q.seen, q.new)
            ELSE user' = [user EXCEPT ![q.id] = q.new]
       /\ session' = [session EXCEPT ![k] =
             [user |-> q.id, who |-> <<q.new.provider, q.new.subject>>]]
  /\ Done(r)
  /\ UNCHANGED <<provider, entry>>

-----------------------------------------------------------------------------
(* The setup command, a process of its own                                 *)

Primaries == {p \in Ids(provider) : provider[p].primary}

(* The primary provider is read first (--force is given when there is one);*)
(* then people answer questions.                                           *)
BeginSetup(r) ==
  /\ Begins(r, "setup")
  /\ \A p, q \in Primaries : p = q
  /\ Goes(r, [op |-> "setup", existing |-> Primaries,
               seen |-> [enabled |-> \E p \in Primaries : provider[p].enabled,
                         primary |-> Primaries # {}]])
  /\ ReadsOnly

(* The row that gets the credentials, as the unit of work knows it: the    *)
(* UPDATE that spares the provider of the typed name, and no other, has    *)
(* cleared the flag of the primary one itself if the names differ.         *)
SetupRow == [enabled |-> TRUE, primary |-> TRUE]
SetupSeen(q, p, n) == IF q.existing # {} THEN [q.seen EXCEPT !.primary = (p = n)]
                      ELSE IF n # 0 THEN provider[p] ELSE SetupRow

(* The credentials are typed, and n is the provider of the typed name, 0   *)
(* for a name nobody has.  They go to the primary provider if there was    *)
(* one, whatever the name.  Then people are asked once more, with the      *)
(* write lock held.                                                        *)
SetupProvider(r, p, n) ==
  /\ Doing(r, "setup") /\ writer = NoReq
  /\ LET q == req[r]
     IN /\ n \in Ids(provider) \cup {0}
        /\ IF q.existing # {} THEN p \in q.existing \cap Ids(provider)
            ELSE IF n # 0 THEN p = n ELSE Follows(p, provider)
        /\ Goes(r, [op |-> "admins", id |-> p, keeps |-> n,
                     seen |-> SetupSeen(q, p, n), new |-> SetupRow])
  /\ writer' = r
  /\ UNCHANGED rowVars /\ UNCHANGED raced

(* The administrators' addresses are typed (one is enough here).           *)
CommitSetup(r, e, m) ==
  /\ Doing(r, "admins") /\ MayCommit(r)
  /\ LET q == req[r]
         cleared == [j \in ProviderIds |->
           IF j # q.keeps /\ provider[j] # Absent
             THEN [provider[j] EXCEPT !.primary = FALSE] ELSE provider[j]]
     IN /\ provider' = IF q.id \in Ids(provider) THEN Update(cleared, q.id, q.seen, q.new)
                                                 ELSE [cleared EXCEPT ![q.id] = q.new]
        /\ IF EntriesFor(q.id, m) = {} THEN Follows(e, entry) ELSE e \in EntriesFor(q.id, m)
        /\ entry' = [entry EXCEPT ![e] = [provider |-> q.id, email |-> m, admin |-> TRUE]]
  /\ Done(r)
  /\ UNCHANGED <<user, session>>

-----------------------------------------------------------------------------
(* A request may end without effect: the provider refuses, a statement     *)
(* finds no row or breaks a constraint (500), the database stays busy      *)
(* (503), or the process is stopped.  So does a sign-in with an address    *)
(* that is not listed: admit disables a known account, and the callback    *)
(* raises 403, which rolls that back.                                      *)
Fails(r) ==
  /\ ~Doing(r, "idle")
  /\ Goes(r, Idle)
  /\ writer' = IF writer = r THEN NoReq ELSE writer
  /\ UNCHANGED rowVars /\ UNCHANGED raced

Begin(r) ==
  \/ \E p \in ProviderIds :
       \/ \E asks \in SUBSET Wishes \ {{}} : BeginEditProvider(r, p, asks)
       \/ BeginDeleteProvider(r, p)
       \/ \E s \in Subjects, m \in Emails : BeginSignIn(r, p, s, m)
  \/ \E e \in EntryIds :
       (\E admin \in BOOLEAN : BeginEditEntry(r, e, admin)) \/ BeginRemoveEntry(r, e)
  \/ \E u \in UserIds :
       (\E active \in BOOLEAN : BeginEditUser(r, u, active)) \/ BeginDeleteUser(r, u)
  \/ BeginSetup(r)

Continue(r) ==
  \/ FindForEdit(r) \/ FindForRemoval(r)
  \/ AdmitKnown(r) \/ \E u \in UserIds : AdmitNew(r, u)
  \/ \E p \in ProviderIds, n \in ProviderIds \cup {0} : SetupProvider(r, p, n)

Commit(r) ==
  \/ CommitEditProvider(r) \/ CommitDeleteProvider(r)
  \/ CommitEditEntry(r) \/ CommitRemoveEntry(r)
  \/ CommitEditUser(r) \/ CommitDeleteUser(r)
  \/ \E k \in Sessions : SignedIn(r, k)
  \/ \E e \in EntryIds, m \in Emails : CommitSetup(r, e, m)

Immediate ==
  \/ \E p \in ProviderIds, enabled, primary \in BOOLEAN : CreateProvider(p, enabled, primary)
  \/ \E e \in EntryIds, p \in ProviderIds, m \in Emails, admin \in BOOLEAN :
       AddToAllowlist(e, p, m, admin)
  \/ \E u \in UserIds : RevokeSessions(u)
  \/ \E k \in Sessions : EndSession(k)

Next ==
  \/ Immediate
  \/ \E r \in Reqs : Begin(r) \/ Continue(r) \/ Commit(r) \/ Fails(r)

Spec == Init /\ [][Next]_vars

-----------------------------------------------------------------------------
(* Properties                                                              *)

(* There are never two primary providers, in whatever order the requests   *)
(* that move the flag read and write (_make_primary).                      *)
AtMostOnePrimary == \A p, q \in Primaries : p = q

(* There is always a primary provider.  A request that makes primary what  *)
(* it has read as primary writes nothing, and still clears the others: two *)
(* of them, or one and a deletion, can leave none (admin_api.py:244-246).  *)
(* Nothing else does.                                                      *)
APrimary == "primary" \in raced \/ Primaries # {}

(* SEC-44: nobody disables or deletes the primary provider, if it has not  *)
(* become it since that was asked.                                         *)
PrimaryStays ==
  [][\A p \in Primaries :
       \/ "primary" \in raced
       \/ p \in Ids(provider)' /\ (provider[p].enabled => provider'[p].enabled)]_vars

(* SEC-45: there is always an administrator on the allowlist, unless two   *)
(* requests have each left it to the other to be the last.                 *)
AnAdminIsListed == "list" \in raced \/ \E e \in Ids(entry) : entry[e].admin

(* SEC-37: whoever can do anything is on the list, and administrates only  *)
(* if the list says so; unless the list, or the account, was changed under *)
(* the request that decides it.                                            *)
RightsFollowTheList ==
  "rights" \in raced \/
  \A k \in Sessions : Usable(k) =>
    LET a == user[session[k].user] IN
    \E e \in EntriesFor(a.provider, a.email) : a.admin => entry[e].admin

(* SEC-34: a session belongs to the account of the person who signed in,   *)
(* also when accounts are deleted and created while the sign-in waits, and *)
(* their ids come back; unless it is the account of this sign-in that has  *)
(* been deleted since it was found.                                        *)
SessionsAreTheirOwners ==
  "owner" \in raced \/
  \A k \in Sessions : session[k] # Absent =>
    LET u == session[k].user IN
    u \in Ids(user) /\ <<user[u].provider, user[u].subject>> = session[k].who

(* The service does not lock itself out: a listed administrator's provider *)
(* is enabled (admin_api.py, second rule).  The code does not keep this:   *)
(* see the README, disagreements; nor the next two.                        *)
SomebodyCanSignIn ==
  \E e \in Ids(entry) : entry[e].admin /\ provider[entry[e].provider].enabled

(* The queries for the account of an entry take for granted that there is  *)
(* at most one (one_or_none).                                              *)
EntriesNameOneAccount ==
  \A e \in Ids(entry) :
    \A u, v \in AccountsFor(entry[e].provider, entry[e].email) : u = v

(* No administrator's commit meets the write lock of a sign-in that waits  *)
(* for a slow provider.                                                    *)
SlowProvidersBlockNobody ==
  \A r, q \in Reqs :
    ~ /\ Doing(r, "new") /\ writer = r
      /\ req[q].op \in {"editProvider", "editUser", "deleteUser", "removeFound"}
=============================================================================

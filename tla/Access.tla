------------------------------- MODULE Access -------------------------------
(***************************************************************************)
(* Who may open which vault: the shares of a vault with accounts and       *)
(* groups, the memberships, and the groups themselves, which are made by   *)
(* hand or mirrored from the providers at sign-in.                         *)
(*                                                                         *)
(* As in Accounts, a request reads at its start, outside any transaction,  *)
(* and writes at its commit.  Shares refer to their subject by a bare      *)
(* number, without a foreign key, and are set by the subject's name; a     *)
(* list of members is written as its difference to the list that was read. *)
(* The schema is the one the migrations make: no two accounts and no two   *)
(* groups have the same name, although the models do not ask for that, and *)
(* the id of a deleted row comes back, which the models do ask not to be.  *)
(***************************************************************************)
EXTENDS Naturals, Sequences, FiniteSets

CONSTANTS
  Vaults,                \* vault ids (UUIDs, never used twice)
  Persons,               \* people, as the providers identify them
  Externals,             \* groups, as the providers identify them
  Providers, ProviderOf, \* the provider of each person and external group
  Names,                 \* display names, of accounts and of groups
  MaxCopies,             \* bound: how far a name is numbered to be free
  MaxUsers, MaxGroups,   \* bounds: the highest ids
  MaxFetched,            \* bound: how many groups a provider reports
  MaxShares,             \* bound: how many shares one request sets
  Reqs,                  \* identities of the requests that can overlap
  Absent, Local          \* no row; the origin of a group made by hand

ASSUME AccessAssumption ==
  /\ ProviderOf \in [Persons \cup Externals -> Providers]
  /\ MaxUsers \in Nat /\ MaxGroups \in Nat
  /\ MaxCopies \in Nat /\ MaxCopies >= MaxGroups
  /\ MaxFetched \in Nat
  /\ Local \notin Externals

VARIABLES
  vaults,   \* the committed vaults
  used,     \* the vault ids that were ever used
  user,     \* the committed rows of user
  group,    \* the committed rows of group
  members,  \* the committed rows of user_group: <<account, group>>
  shares,   \* the committed rows of vault_access
  req       \* the requests in flight, with what they have read

vars == <<vaults, used, user, group, members, shares, req>>

UserIds == 1..MaxUsers
GroupIds == 1..MaxGroups
Kinds == {"user", "group"}
Permissions == {"read", "readwrite"}

(* A mirrored group whose name is taken is named after its provider, with  *)
(* a number: "name (provider)", "name (provider 2)".                       *)
GroupNames == Names \cup (Names \X Providers \X (1..MaxCopies))

UserRow == [who : Persons, name : Names]
GroupRow == [name : GroupNames, origin : Externals \cup {Local}]

ASSUME AbsentAssumption == Absent \notin UserRow \cup GroupRow

Ids(table) == {i \in DOMAIN table : table[i] # Absent}

(* A new row follows the highest one there is: the last migration rebuilds *)
(* both tables without AUTOINCREMENT.                                      *)
Follows(i, table) ==
  /\ i = 1 \/ i - 1 \in Ids(table)
  /\ \A j \in Ids(table) : j < i

Subject(kind) == IF kind = "user" THEN user ELSE group
Named(kind, name) == {i \in Ids(Subject(kind)) : Subject(kind)[i].name = name}
GroupsOf(u) == {g \in GroupIds : <<u, g>> \in members}
MembersOf(g) == {u \in UserIds : <<u, g>> \in members}
AccountsOf(who) == {u \in Ids(user) : user[u].who = who}

(* Who is meant by the number of a subject: a person, a provider's group,  *)
(* or the local group of a name.                                           *)
Whose(kind, i) ==
  IF kind = "user" THEN <<"person", user[i].who>>
  ELSE IF group[i].origin = Local THEN <<"local", group[i].name>>
  ELSE <<"mirror", group[i].origin>>
Someone == ({"person"} \X Persons) \cup ({"local"} \X GroupNames)
             \cup ({"mirror"} \X Externals)

(* whose and lost are history: who was meant when the share was asked for, *)
(* and whether this subject was deleted before the share was written.      *)
Share == [vault : Vaults, kind : Kinds, id : UserIds \cup GroupIds,
          permission : Permissions, whose : Someone, lost : BOOLEAN]

-----------------------------------------------------------------------------
(* effective_permission                                                    *)

Widest(permissions) ==
  IF "readwrite" \in permissions THEN "readwrite"
  ELSE IF "read" \in permissions THEN "read" ELSE "none"

(* Broken: what kind of subject it is for is not asked.                    *)
EntriesOfBroken(u, v) ==
  {s \in shares : s.vault = v /\ (s.id = u \/ s.id \in GroupsOf(u))}

EntriesOf(u, v) ==
  {s \in shares : /\ s.vault = v
                  /\ \/ s.kind = "user" /\ s.id = u
                     \/ s.kind = "group" /\ s.id \in GroupsOf(u)}

EffectivePermission(u, v) == Widest({s.permission : s \in EntriesOf(u, v)})

-----------------------------------------------------------------------------
(* Requests in flight                                                      *)

Idle == [op |-> "idle"]

(* removes and adds: how a list of members is to change.  lost is history: *)
(* whether a group that is listed, or the account that signs in, has been  *)
(* deleted since it was read.                                              *)
Request ==
  [op : {"share"}, vault : Vaults, entries : SUBSET Share]
  \cup [op : {"createGroup"}, name : Names]
  \cup [op : {"members"}, id : GroupIds, removes : SUBSET UserIds, adds : SUBSET UserIds,
        lost : BOOLEAN]
  \cup [op : {"groupsOf"}, id : UserIds, removes : SUBSET GroupIds, adds : SUBSET GroupIds,
        lost : BOOLEAN]
  \cup [op : {"signIn"}, who : Persons, name : Names, id : {0}, lost : BOOLEAN]
  \cup [op : {"signIn"}, who : Persons, name : Names \cup {Absent}, id : UserIds,
        lost : BOOLEAN]

TypeOK ==
  /\ vaults \subseteq used /\ used \subseteq Vaults
  /\ user \in [UserIds -> UserRow \cup {Absent}]
  /\ group \in [GroupIds -> GroupRow \cup {Absent}]
  /\ members \subseteq UserIds \X GroupIds
  /\ shares \subseteq Share
  /\ req \in [Reqs -> Request \cup {Idle}]

Init ==
  /\ vaults = {} /\ used = {}
  /\ user = [u \in UserIds |-> Absent]
  /\ group = [g \in GroupIds |-> Absent]
  /\ members = {} /\ shares = {}
  /\ req = [r \in Reqs |-> Idle]

Doing(r, op) == req[r].op = op
Goes(r, request) == req' = [req EXCEPT ![r] = request]

ReadsOnly == UNCHANGED <<vaults, used, user, group, members, shares>>

-----------------------------------------------------------------------------
(* Vaults and their shares                                                 *)

(* create_vault: nobody may open it yet, not even its creator.             *)
CreateVault(v) ==
  /\ v \notin used
  /\ vaults' = vaults \cup {v} /\ used' = used \cup {v}
  /\ UNCHANGED <<user, group, members, shares, req>>

(* delete_vault                                                            *)
DeleteVault(v) ==
  /\ v \in vaults
  /\ vaults' = vaults \ {v}
  /\ shares' = {s \in shares : s.vault # v}
  /\ UNCHANGED <<used, user, group, members, req>>

(* set_access, first part: each name is resolved to the subject that bears *)
(* it; an unknown name is refused.                                         *)
BeginShare(r, v, payload) ==
  /\ Doing(r, "idle") /\ v \in vaults
  /\ \A e \in payload : \E i \in UserIds \cup GroupIds : Named(e.kind, e.name) = {i}
  /\ Goes(r, [op |-> "share", vault |-> v, entries |->
       {[vault |-> v, kind |-> e.kind, id |-> CHOOSE i \in Named(e.kind, e.name) : TRUE,
         whose |-> Whose(e.kind, CHOOSE i \in Named(e.kind, e.name) : TRUE),
         permission |-> e.permission, lost |-> FALSE] : e \in payload}])
  /\ ReadsOnly

(* Its second part replaces the shares of the vault.  The schema knows     *)
(* the vault, and one share per subject, but not the subjects.             *)
CommitShare(r) ==
  /\ Doing(r, "share") /\ req[r].vault \in vaults
  /\ \A s, t \in req[r].entries : s.kind = t.kind /\ s.id = t.id => s = t
  /\ shares' = {s \in shares : s.vault # req[r].vault} \cup req[r].entries
  /\ Goes(r, Idle)
  /\ UNCHANGED <<vaults, used, user, group, members>>

(* History: what is still to be written when a subject is deleted.         *)
Orphaned(S, kind, i) == {[s EXCEPT !.lost = @ \/ (s.kind = kind /\ s.id = i)] : s \in S}
Lists(q, kind, i) ==
  \/ kind = "group" /\ q.op = "members" /\ i = q.id
  \/ kind = "group" /\ q.op = "groupsOf" /\ i \in q.removes \cup q.adds
  \/ kind = "user" /\ q.op = "signIn" /\ i = q.id
RequestsAfter(kind, i) ==
  [r \in Reqs |->
     IF Doing(r, "share") THEN [req[r] EXCEPT !.entries = Orphaned(@, kind, i)]
     ELSE IF Lists(req[r], kind, i) THEN [req[r] EXCEPT !.lost = TRUE] ELSE req[r]]

-----------------------------------------------------------------------------
(* Accounts and groups                                                     *)

(* Broken: a deleted account's shares stay.                                *)
DeleteUserBroken(u) ==
  /\ u \in Ids(user)
  /\ user' = [user EXCEPT ![u] = Absent]
  /\ members' = {m \in members : m[1] # u}
  /\ req' = RequestsAfter("user", u)
  /\ UNCHANGED <<vaults, used, group, shares>>

(* delete_user: shares and memberships go with the account.                *)
DeleteUser(u) ==
  /\ u \in Ids(user)
  /\ user' = [user EXCEPT ![u] = Absent]
  /\ shares' = {s \in shares : ~(s.kind = "user" /\ s.id = u)}
  /\ members' = {m \in members : m[1] # u}
  /\ req' = RequestsAfter("user", u)
  /\ UNCHANGED <<vaults, used, group>>

(* delete_group, of a mirrored group too: the next sync makes it anew.     *)
DeleteGroup(g) ==
  /\ g \in Ids(group)
  /\ group' = [group EXCEPT ![g] = Absent]
  /\ shares' = {s \in shares : ~(s.kind = "group" /\ s.id = g)}
  /\ members' = {m \in members : m[2] # g}
  /\ req' = RequestsAfter("group", g)
  /\ UNCHANGED <<vaults, used, user>>

(* create_group: the name is looked for, then the row is written, if the   *)
(* name is still free.                                                     *)
BeginCreateGroup(r, name) ==
  /\ Doing(r, "idle") /\ Named("group", name) = {}
  /\ Goes(r, [op |-> "createGroup", name |-> name])
  /\ ReadsOnly

(* The table after the insertion of one row, if there is room for it.      *)
WithGroup(table, row) ==
  [g \in GroupIds |-> IF Follows(g, table) THEN row ELSE table[g]]

CommitCreateGroup(r) ==
  /\ Doing(r, "createGroup") /\ Named("group", req[r].name) = {}
  /\ \E g \in GroupIds : Follows(g, group)
  /\ group' = WithGroup(group, [name |-> req[r].name, origin |-> Local])
  /\ Goes(r, Idle)
  /\ UNCHANGED <<vaults, used, user, members, shares>>

(* update_group: the members of a local group, by their names.             *)
BeginMembers(r, g, names) ==
  /\ Doing(r, "idle") /\ g \in Ids(group) /\ group[g].origin = Local
  /\ \A n \in names : \E u \in UserIds : Named("user", n) = {u}
  /\ LET wanted == UNION {Named("user", n) : n \in names} IN
     Goes(r, [op |-> "members", id |-> g, removes |-> MembersOf(g) \ wanted,
              adds |-> wanted \ MembersOf(g), lost |-> FALSE])
  /\ ReadsOnly

(* Broken: the account's groups are replaced as they were read.            *)
CommitGroupsOfBroken(r) ==
  /\ Doing(r, "groupsOf") /\ req[r].id \in Ids(user)
  /\ req[r].adds \subseteq Ids(group)
  /\ members' = {m \in members : m[1] # req[r].id} \cup ({req[r].id} \X req[r].adds)
  /\ Goes(r, Idle)
  /\ UNCHANGED <<vaults, used, user, group, shares>>

(* update_user: the local groups of an account, by their names.            *)
BeginGroupsOf(r, u, names) ==
  /\ Doing(r, "idle") /\ u \in Ids(user)
  /\ LET local == {g \in Ids(group) : group[g].origin = Local}
         wanted == UNION {Named("group", n) \cap local : n \in names}
     IN /\ \A n \in names : \E g \in GroupIds : Named("group", n) \cap local = {g}
        /\ Goes(r, [op |-> "groupsOf", id |-> u,
                    removes |-> (GroupsOf(u) \cap local) \ wanted,
                    adds |-> wanted \ GroupsOf(u), lost |-> FALSE])
  /\ ReadsOnly

(* Broken: the schema's foreign keys are not enforced.                     *)
RewritesBroken(gone, new) ==
  /\ gone \subseteq members /\ new \cap members = {}
  /\ members' = (members \ gone) \cup new

(* A list is written as the rows to delete and to insert.  A row that is   *)
(* not there any more, or there already, and a row without its account or  *)
(* group make the request fail.                                            *)
Rewrites(gone, new) ==
  /\ gone \subseteq members /\ new \cap members = {}
  /\ \A m \in new : m[1] \in Ids(user) /\ m[2] \in Ids(group)
  /\ members' = (members \ gone) \cup new

CommitMembers(r) ==
  /\ Doing(r, "members")
  /\ Rewrites(req[r].removes \X {req[r].id}, req[r].adds \X {req[r].id})
  /\ Goes(r, Idle)
  /\ UNCHANGED <<vaults, used, user, group, shares>>

CommitGroupsOf(r) ==
  /\ Doing(r, "groupsOf")
  /\ Rewrites({req[r].id} \X req[r].removes, {req[r].id} \X req[r].adds)
  /\ Goes(r, Idle)
  /\ UNCHANGED <<vaults, used, user, group, shares>>

-----------------------------------------------------------------------------
(* Signing in, and the mirror of the provider's groups: sync.apply         *)

(* admit has decided; the provider is asked for the groups.  The name of   *)
(* an account that has it already is not written.                          *)
BeginSignIn(r, who, name) ==
  /\ Doing(r, "idle")
  /\ \/ /\ AccountsOf(who) = {}
        /\ Goes(r, [op |-> "signIn", who |-> who, name |-> name, id |-> 0, lost |-> FALSE])
     \/ \E u \in AccountsOf(who) :
          Goes(r, [op |-> "signIn", who |-> who, id |-> u, lost |-> FALSE,
                   name |-> IF user[u].name = name THEN Absent ELSE name])
  /\ ReadsOnly

(* u is the account, with the name its provider reports; the sign-in fails *)
(* if somebody else has that name.                                         *)
SignsIn(q, u) ==
  /\ IF q.id = 0 THEN AccountsOf(q.who) = {} /\ Follows(u, user)
                 ELSE u = q.id /\ u \in Ids(user)
  /\ Named("user", q.name) \subseteq {q.id}
  /\ user' = [user EXCEPT ![u] =
       IF q.id = 0 THEN [who |-> q.who, name |-> q.name]
       ELSE IF q.name = Absent THEN @ ELSE [@ EXCEPT !.name = q.name]]

(* Broken: a wanted name is taken as it comes.                             *)
FreeNameBroken(table, name, p) == name

(* _free_name                                                              *)
FreeName(table, name, p) ==
  LET taken == {table[g].name : g \in Ids(table)}
      copies == {k \in 1..MaxCopies : <<name, p, k>> \notin taken}
  IN IF name \notin taken THEN name
     ELSE <<name, p, CHOOSE k \in copies : \A j \in copies : k <= j>>

(* One reported group: a new mirror, or the known one, which follows a new *)
(* name if that is free.                                                   *)
Mirrored(table, x, name, p) ==
  LET known == {g \in Ids(table) : table[g].origin = x}
      others == {table[h].name : h \in Ids(table) \ known}
  IN IF known = {} THEN WithGroup(table, [name |-> FreeName(table, name, p), origin |-> x])
     ELSE [g \in GroupIds |-> IF g \in known /\ name \notin others
                                THEN [table[g] EXCEPT !.name = name] ELSE table[g]]

(* All of them, in the order in which the provider reports them.           *)
Apply(fetched, p) ==
  LET applied[n \in 0..Len(fetched)] ==
        IF n = 0 THEN group
                 ELSE Mirrored(applied[n - 1], fetched[n].id, fetched[n].name, p)
  IN applied[Len(fetched)]

Reported(fetched) == {fetched[i].id : i \in DOMAIN fetched}

(* The schema's constraint on the names.                                   *)
NamesDiffer(table) == \A g, h \in Ids(table) : table[g].name = table[h].name => g = h

MirrorsOf(table, p) ==
  {g \in Ids(table) : table[g].origin # Local /\ ProviderOf[table[g].origin] = p}

(* The memberships in this provider's mirrors are replaced, no others.     *)
Replaced(u, p, now) ==
  {m \in members : ~(m[1] = u /\ m[2] \in MirrorsOf(group, p))} \cup ({u} \X now)

(* The groups have come.  From here to the commit nobody else runs.        *)
SignInWithGroups(r, u, fetched) ==
  /\ Doing(r, "signIn") /\ SignsIn(req[r], u)
  /\ LET p == ProviderOf[req[r].who]
         synced == Apply(fetched, p)
         now == {g \in Ids(synced) : synced[g].origin \in Reported(fetched)}
     IN /\ \A x \in Reported(fetched) : ProviderOf[x] = p
        /\ \A x \in Reported(fetched) : \E g \in now : synced[g].origin = x
        /\ NamesDiffer(synced)
        /\ group' = synced
        /\ members' = Replaced(u, p, now)
  /\ Goes(r, Idle)
  /\ UNCHANGED <<vaults, used, shares>>

(* They cannot be fetched, or the provider does not mirror any: nothing    *)
(* changes but the account.                                                *)
SignInWithoutGroups(r, u) ==
  /\ Doing(r, "signIn") /\ SignsIn(req[r], u)
  /\ Goes(r, Idle)
  /\ UNCHANGED <<vaults, used, group, members, shares>>

-----------------------------------------------------------------------------
Fails(r) ==
  /\ ~Doing(r, "idle")
  /\ Goes(r, Idle)
  /\ ReadsOnly

Wish == [kind : Kinds, name : GroupNames, permission : Permissions]
Payloads == {S \in SUBSET {w \in Wish : Named(w.kind, w.name) # {}} :
               Cardinality(S) <= MaxShares}

(* A provider may report a group twice; the first one counts (seen).       *)
Reports == {f \in UNION {[1..n -> [id : Externals, name : Names]] : n \in 0..MaxFetched} :
              \A i, j \in DOMAIN f : f[i].id = f[j].id => i = j}

Next ==
  \/ \E v \in Vaults : CreateVault(v) \/ DeleteVault(v)
  \/ \E u \in UserIds : DeleteUser(u)
  \/ \E g \in GroupIds : DeleteGroup(g)
  \/ \E r \in Reqs :
       \/ \E v \in vaults : \E payload \in Payloads : BeginShare(r, v, payload)
       \/ CommitShare(r)
       \/ \E name \in Names : BeginCreateGroup(r, name)
       \/ CommitCreateGroup(r)
       \/ \E g \in GroupIds, names \in SUBSET Names : BeginMembers(r, g, names)
       \/ CommitMembers(r)
       \/ \E u \in UserIds, names \in SUBSET Names : BeginGroupsOf(r, u, names)
       \/ CommitGroupsOf(r)
       \/ \E who \in Persons, name \in Names : BeginSignIn(r, who, name)
       \/ \E u \in UserIds, fetched \in Reports : SignInWithGroups(r, u, fetched)
       \/ \E u \in UserIds : SignInWithoutGroups(r, u)
       \/ Fails(r)

Spec == Init /\ [][Next]_vars

-----------------------------------------------------------------------------
(* Properties                                                              *)

(* FUN-88: a vault is open to an account exactly as far as the widest      *)
(* share that was granted to this person, or to a group the account is in; *)
(* nobody inherits what was granted to somebody who has been deleted, when *)
(* the number comes back, and nobody loses what was granted.  A share whose*)
(* subject was deleted while it was being set counts for whoever has the   *)
(* number: see the README, disagreements.                                  *)
Granted(u, v) ==
  LET us == {Whose("user", u)} \cup {Whose("group", g) : g \in GroupsOf(u)} IN
  {s \in shares : /\ s.vault = v
                  /\ IF s.lost THEN s \in EntriesOf(u, v) ELSE s.whose \in us}
NobodyInherits ==
  \A u \in Ids(user), v \in Vaults :
    EffectivePermission(u, v) = Widest({s.permission : s \in Granted(u, v)})

(* A share names a subject that exists, unless that was deleted while the  *)
(* share was being set.                                                    *)
SharesHaveSubjects == \A s \in shares : ~s.lost => s.id \in Ids(Subject(s.kind))

(* SEC-46, SEC-47: whatever groups and names its provider reports, no name *)
(* collides and makes a sign-in that waits for them fail.                  *)
MirrorsFindNames ==
  \A p \in {ProviderOf[req[r].who] : r \in {q \in Reqs : Doing(q, "signIn")}} :
    \A fetched \in {f \in Reports : \A x \in Reported(f) : ProviderOf[x] = p} :
      NamesDiffer(Apply(fetched, p))

(* SEC-34: who somebody is, is a matter of provider and subject; another   *)
(* person's account does not keep anybody out.  The code does not keep     *)
(* this: see the README, disagreements.                                    *)
NobodyIsInTheWay ==
  \A r \in Reqs : Doing(r, "signIn") =>
    \A u \in Named("user", req[r].name) : user[u].who = req[r].who

(* SEC-46, SEC-47: who is in a mirrored group changes by that person's own *)
(* sign-in at that group's provider, or by deletion, whatever requests of  *)
(* administrators are under way; unless the group on their list, or the    *)
(* account that signs in, was deleted under the request, and the mirror or *)
(* that person's account has come under its number.                        *)
SignsInNow(r, u) ==
  Doing(r, "signIn") /\ req'[r] = Idle /\ req[r].who = user[u].who
Strays(r, u, g) ==
  /\ req[r].op \in {"members", "groupsOf", "signIn"} /\ req[r].lost /\ req'[r] = Idle
  /\ IF Doing(r, "members") THEN g = req[r].id ELSE u = req[r].id
MirrorsFollowTheProvider ==
  [][\A u \in Ids(user) \cap Ids(user)', g \in Ids(group) \cap Ids(group)' :
       /\ group[g].origin # Local
       /\ (<<u, g>> \in members) # (<<u, g>> \in members')
       => \E r \in Reqs :
            \/ Strays(r, u, g)
            \/ /\ SignsInNow(r, u)
               /\ ProviderOf[req[r].who] = ProviderOf[group[g].origin]]_vars

(* No membership is left without its account and its group.                *)
MembersExist == \A m \in members : m[1] \in Ids(user) /\ m[2] \in Ids(group)
=============================================================================

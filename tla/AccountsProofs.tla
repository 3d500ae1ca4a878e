--------------------------- MODULE AccountsProofs ---------------------------
(***************************************************************************)
(* Sessions, the primary provider and the allowlist.                       *)
(*                                                                         *)
(* Everything is proved for any number of requests that overlap in any     *)
(* way.  What the code only checks beforehand can be taken away under a    *)
(* request that has checked it; then it is in raced.  So for each claim    *)
(* there is an invariant that holds as long as it has not been raced: what *)
(* the requests in flight count on is still so.                            *)
(***************************************************************************)
EXTENDS Accounts, TLAPS

-----------------------------------------------------------------------------
(* Tables, and what the statements of the unit of work make of them        *)

LEMMA IdsType ==
  ASSUME NEW I, NEW Row, NEW table \in Table(I, Row)
  PROVE  Ids(table) \subseteq I /\ \A i \in Ids(table) : table[i] \in Row
BY DEF Table, Ids

LEMMA PutType ==
  ASSUME NEW I, NEW Row, NEW table \in Table(I, Row), NEW i, NEW row \in Row \cup {Absent}
  PROVE  [table EXCEPT ![i] = row] \in Table(I, Row)
BY DEF Table

LEMMA UpdateType ==
  ASSUME NEW I, NEW Row, NEW table \in Table(I, Row), NEW i, NEW seen, NEW new,
         \A row \in Row : Changed(row, seen, new) \in Row
  PROVE  Update(table, i, seen, new) \in Table(I, Row)
BY DEF Table, Update

LEMMA ProviderChanged ==
  ASSUME NEW row \in ProviderRow, NEW seen \in ProviderRow, NEW new \in ProviderRow
  PROVE  Changed(row, seen, new) \in ProviderRow
BY DEF ProviderRow, Changed

LEMMA EntryChanged ==
  ASSUME NEW row \in EntryRow, NEW seen \in EntryRow, NEW new \in EntryRow
  PROVE  Changed(row, seen, new) \in EntryRow
BY DEF EntryRow, Changed

LEMMA UserChanged ==
  ASSUME NEW row \in UserRow, NEW seen \in UserRow, NEW new \in UserRow
  PROVE  Changed(row, seen, new) \in UserRow
BY DEF UserRow, Changed

LEMMA ProviderUpdate ==
  ASSUME NEW table \in Table(ProviderIds, ProviderRow), NEW i,
         NEW seen \in ProviderRow, NEW new \in ProviderRow
  PROVE  Update(table, i, seen, new) \in Table(ProviderIds, ProviderRow)
BY ProviderChanged, UpdateType

LEMMA EntryUpdate ==
  ASSUME NEW table \in Table(EntryIds, EntryRow), NEW i,
         NEW seen \in EntryRow, NEW new \in EntryRow
  PROVE  Update(table, i, seen, new) \in Table(EntryIds, EntryRow)
BY EntryChanged, UpdateType

LEMMA UserUpdate ==
  ASSUME NEW table \in Table(UserIds, UserRow), NEW i,
         NEW seen \in UserRow, NEW new \in UserRow
  PROVE  Update(table, i, seen, new) \in Table(UserIds, UserRow)
BY UserChanged, UpdateType

LEMMA RevokedType ==
  ASSUME TypeOK, NEW us PROVE Revoked(us) \in Table(Sessions, SessionRow)
BY DEF TypeOK, Table, Revoked

LEMMA ClearedType ==
  ASSUME TypeOK, NEW p PROVE OthersCleared(p) \in Table(ProviderIds, ProviderRow)
BY ZenonT(60) DEF TypeOK, Table, OthersCleared, ProviderRow

-----------------------------------------------------------------------------
(* What each kind of request carries.                                      *)
LEMMA Fields ==
  ASSUME TypeOK, NEW r \in Reqs
  PROVE  /\ Doing(r, "editProvider") => /\ req[r].id \in ProviderIds
                                        /\ req[r].asks \in SUBSET Wishes
                                        /\ req[r].seen \in ProviderRow
         /\ req[r].op \in {"editEntry", "editFound"} =>
              req[r].id \in EntryIds /\ req[r].seen \in EntryRow /\ req[r].new \in EntryRow
         /\ Doing(r, "removeEntry") => req[r].id \in EntryIds /\ req[r].seen \in EntryRow
         /\ req[r].op \in {"editFound", "removeFound"} =>
              /\ req[r].id \in EntryIds /\ req[r].found \in SUBSET UserIds
              /\ req[r].snap \in BOOLEAN
         /\ req[r].op \in {"editUser", "known", "new"} =>
              req[r].id \in UserIds /\ req[r].seen \in UserRow /\ req[r].new \in UserRow
         /\ Doing(r, "deleteUser") => req[r].id \in UserIds
         /\ Doing(r, "token") => /\ req[r].provider \in ProviderIds
                                 /\ req[r].subject \in Subjects /\ req[r].email \in Emails
         /\ Doing(r, "setup") =>
              req[r].existing \in SUBSET ProviderIds /\ req[r].seen \in ProviderRow
         /\ Doing(r, "admins") =>
              /\ req[r].id \in ProviderIds /\ req[r].keeps \in ProviderIds \cup {0}
              /\ req[r].seen \in ProviderRow /\ req[r].new \in ProviderRow
<1>1. req[r] \in Request \/ req[r] = Idle
  BY DEF TypeOK
<1>2. CASE req[r] = Idle
  BY <1>2 DEF Doing, Idle
<1>3. CASE req[r] \in Request
  BY <1>3 DEF Request, Doing
<1> QED BY <1>1, <1>2, <1>3

LEMMA TypeStep ==
  ASSUME TypeOK, NEW r \in Reqs, NEW q \in Request \cup {Idle}, Goes(r, q),
         provider' \in Table(ProviderIds, ProviderRow), entry' \in Table(EntryIds, EntryRow),
         user' \in Table(UserIds, UserRow),
         session' \in Table(Sessions, SessionRow),
         writer' \in {writer, r, NoReq}, raced' \in SUBSET Claims
  PROVE  TypeOK'
BY DEF TypeOK, Goes

(* A step that only reads, by what it makes of its request.                *)
LEMMA ReadStep ==
  ASSUME TypeOK, NEW r \in Reqs, NEW q \in Request \cup {Idle}, Goes(r, q),
         UNCHANGED rowVars, writer' \in {writer, r, NoReq}, raced' \in SUBSET Claims
  PROVE  TypeOK'
BY TypeStep DEF TypeOK, rowVars

LEMMA InitType == Init => TypeOK
<1> SUFFICES ASSUME Init PROVE TypeOK
  OBVIOUS
<1> USE AccountsAssumption
<1>1. PICK m \in Emails :
        entry = [e \in EntryIds |->
          IF e = 1 THEN [provider |-> 1, email |-> m, admin |-> TRUE] ELSE Absent]
  BY DEF Init
<1>2. [provider |-> 1, email |-> m, admin |-> TRUE] \in EntryRow
  BY DEF EntryRow, ProviderIds
<1>3. entry \in Table(EntryIds, EntryRow)
  BY <1>1, <1>2 DEF Table
<1>4. provider \in Table(ProviderIds, ProviderRow)
  BY DEF Init, Table, ProviderRow
<1>5. user \in Table(UserIds, UserRow) /\ session \in Table(Sessions, SessionRow)
  BY DEF Init, Table
<1>6. req \in [Reqs -> Request \cup {Idle}]
  BY DEF Init
<1> QED BY <1>3, <1>4, <1>5, <1>6 DEF Init, TypeOK

-----------------------------------------------------------------------------
(* What begins, goes on or fails has written nothing.                      *)
LEMMA ReadersWriteNothing ==
  ASSUME NEW r \in Reqs, Begin(r) \/ Continue(r) \/ Fails(r)
  PROVE  UNCHANGED rowVars
<1>1. CASE Begin(r)
  BY <1>1 DEF Begin, BeginEditProvider, BeginDeleteProvider, BeginSignIn, BeginEditEntry,
     BeginRemoveEntry, BeginEditUser, BeginDeleteUser, BeginSetup, ReadsOnly
<1>2. CASE Continue(r)
  BY ZenonT(60), <1>2 DEF Continue, FindForEdit, FindForRemoval, AdmitKnown, AdmitNew,
     SetupProvider, ReadsOnly
<1> QED BY <1>1, <1>2 DEF Fails

LEMMA BeginType == ASSUME TypeOK, NEW r \in Reqs, Begin(r) PROVE TypeOK'
<1> USE DEF ReadsOnly
<1>0. /\ UNCHANGED rowVars /\ writer' = writer /\ raced' = raced
      /\ raced' \in SUBSET Claims
  BY DEF Begin, BeginEditProvider, BeginDeleteProvider, BeginSignIn, BeginEditEntry,
         BeginRemoveEntry, BeginEditUser, BeginDeleteUser, BeginSetup, TypeOK
<1>a. /\ provider \in Table(ProviderIds, ProviderRow)
      /\ entry \in Table(EntryIds, EntryRow)
      /\ user \in Table(UserIds, UserRow)
  BY DEF TypeOK
<1>1. ASSUME NEW p \in ProviderIds, NEW asks \in SUBSET Wishes \ {{}},
             BeginEditProvider(r, p, asks)
      PROVE  TypeOK'
  <2> DEFINE q == [op |-> "editProvider", id |-> p, asks |-> asks, seen |-> provider[p]]
  <2>1. provider[p] \in ProviderRow
    BY <1>1, <1>a, IdsType DEF BeginEditProvider
  <2>2. q \in Request
    BY <2>1 DEF Request
  <2> QED BY <1>0, <1>1, <2>2, ReadStep DEF BeginEditProvider
<1>2. ASSUME NEW p \in ProviderIds, BeginDeleteProvider(r, p) PROVE TypeOK'
  <2>1. [op |-> "deleteProvider", id |-> p] \in Request
    BY DEF Request
  <2> QED BY <1>0, <1>2, <2>1, ReadStep DEF BeginDeleteProvider
<1>3. ASSUME NEW p \in ProviderIds, NEW s \in Subjects, NEW m \in Emails, BeginSignIn(r, p, s, m)
      PROVE  TypeOK'
  <2>1. [op |-> "token", provider |-> p, subject |-> s, email |-> m] \in Request
    BY DEF Request
  <2> QED BY <1>0, <1>3, <2>1, ReadStep DEF BeginSignIn
<1>4. ASSUME NEW e \in EntryIds, NEW admin \in BOOLEAN, BeginEditEntry(r, e, admin)
      PROVE  TypeOK'
  <2> DEFINE new == [entry[e] EXCEPT !.admin = admin]
             q == [op |-> "editEntry", id |-> e, seen |-> entry[e], new |-> new]
  <2>1. entry[e] \in EntryRow
    BY <1>4, <1>a, IdsType DEF BeginEditEntry
  <2>2. new \in EntryRow
    BY <2>1 DEF EntryRow
  <2>3. q \in Request
    BY <2>1, <2>2 DEF Request
  <2> QED BY <1>0, <1>4, <2>3, ReadStep DEF BeginEditEntry
<1>5. ASSUME NEW e \in EntryIds, BeginRemoveEntry(r, e) PROVE TypeOK'
  <2> DEFINE q == [op |-> "removeEntry", id |-> e, seen |-> entry[e]]
  <2>1. entry[e] \in EntryRow
    BY <1>5, <1>a, IdsType DEF BeginRemoveEntry
  <2>2. q \in Request
    BY <2>1 DEF Request
  <2> QED BY <1>0, <1>5, <2>2, ReadStep DEF BeginRemoveEntry
<1>6. ASSUME NEW u \in UserIds, NEW active \in BOOLEAN, BeginEditUser(r, u, active)
      PROVE  TypeOK'
  <2> DEFINE new == [user[u] EXCEPT !.active = active]
             q == [op |-> "editUser", id |-> u, seen |-> user[u], new |-> new]
  <2>1. user[u] \in UserRow
    BY <1>6, <1>a, IdsType DEF BeginEditUser
  <2>2. new \in UserRow
    BY <2>1 DEF UserRow
  <2>3. q \in Request
    BY <2>1, <2>2 DEF Request
  <2> QED BY <1>0, <1>6, <2>3, ReadStep DEF BeginEditUser
<1>7. ASSUME NEW u \in UserIds, BeginDeleteUser(r, u) PROVE TypeOK'
  <2>1. [op |-> "deleteUser", id |-> u] \in Request
    BY DEF Request
  <2> QED BY <1>0, <1>7, <2>1, ReadStep DEF BeginDeleteUser
<1>8. CASE BeginSetup(r)
  <2> DEFINE seen == [enabled |-> \E p \in Primaries : provider[p].enabled,
                      primary |-> Primaries # {}]
             q == [op |-> "setup", existing |-> Primaries, seen |-> seen]
  <2>1. Primaries \in SUBSET ProviderIds
    BY <1>a, IdsType DEF Primaries
  <2>2. seen \in ProviderRow
    BY DEF ProviderRow
  <2>3. q \in Request
    BY <2>1, <2>2 DEF Request
  <2> QED BY <1>0, <1>8, <2>3, ReadStep DEF BeginSetup
<1> QED BY <1>1, <1>2, <1>3, <1>4, <1>5, <1>6, <1>7, <1>8 DEF Begin

LEMMA AccountsType ==
  ASSUME TypeOK
  PROVE  /\ \A p, m : AccountsFor(p, m) \in SUBSET UserIds
         /\ \A p, s : AccountsOf(p, s) \in SUBSET UserIds
BY IdsType DEF TypeOK, AccountsFor, AccountsOf

LEMMA ContinueType == ASSUME TypeOK, NEW r \in Reqs, Continue(r) PROVE TypeOK'
<1> USE DEF ReadsOnly
<1>1. CASE FindForEdit(r)
  <2> DEFINE found == AccountsFor(req[r].seen.provider, req[r].seen.email)
             snap == \E u \in found : user[u].admin
             q == [op |-> "editFound", id |-> req[r].id, seen |-> req[r].seen,
                   new |-> req[r].new, found |-> found, snap |-> snap]
  <2>1. /\ req[r].id \in EntryIds /\ req[r].seen \in EntryRow /\ req[r].new \in EntryRow
        /\ found \in SUBSET UserIds /\ snap \in BOOLEAN
    BY <1>1, Fields, AccountsType DEF FindForEdit, Doing
  <2>2. Goes(r, q) /\ UNCHANGED rowVars /\ raced' = raced /\ writer' \in {writer, r}
    BY <1>1 DEF FindForEdit
  <2> HIDE DEF found, snap
  <2>3. q \in Request
    BY <2>1 DEF Request
  <2> QED BY <2>2, <2>3, ReadStep DEF TypeOK
<1>2. CASE FindForRemoval(r)
  <2> DEFINE found == AccountsFor(req[r].seen.provider, req[r].seen.email)
             snap == \E u \in found : user[u].active
             q == [op |-> "removeFound", id |-> req[r].id, found |-> found, snap |-> snap]
  <2>1. req[r].id \in EntryIds /\ found \in SUBSET UserIds /\ snap \in BOOLEAN
    BY <1>2, Fields, AccountsType DEF FindForRemoval, Doing
  <2>2. Goes(r, q) /\ UNCHANGED rowVars /\ raced' = raced /\ writer' = writer
    BY <1>2 DEF FindForRemoval
  <2> HIDE DEF found, snap
  <2>3. q \in Request
    BY <2>1 DEF Request
  <2> QED BY <2>2, <2>3, ReadStep DEF TypeOK
<1>4. CASE AdmitKnown(r)
  <2>1. PICK e \in EntriesFor(req[r].provider, req[r].email),
             u \in AccountsOf(req[r].provider, req[r].subject) :
          Goes(r, [op |-> "known", id |-> u, seen |-> user[u],
                   new |-> [user[u] EXCEPT !.admin = entry[e].admin,
                                           !.active = TRUE, !.email = req[r].email]])
    BY <1>4 DEF AdmitKnown
  <2> DEFINE new == [user[u] EXCEPT !.admin = entry[e].admin,
                                    !.active = TRUE, !.email = req[r].email]
             q == [op |-> "known", id |-> u, seen |-> user[u], new |-> new]
  <2>2. u \in UserIds /\ user[u] \in UserRow /\ entry[e] \in EntryRow /\ req[r].email \in Emails
    BY <1>4, Fields, IdsType DEF AdmitKnown, AccountsOf, EntriesFor, TypeOK
  <2>3. new \in UserRow
    BY <2>2 DEF UserRow, EntryRow
  <2>4. q \in Request
    BY <2>2, <2>3 DEF Request
  <2> QED BY <1>4, <2>1, <2>4, ReadStep DEF AdmitKnown, TypeOK
<1>5. ASSUME NEW u \in UserIds, AdmitNew(r, u) PROVE TypeOK'
  <2>1. PICK e \in EntriesFor(req[r].provider, req[r].email) :
          LET row == [provider |-> req[r].provider, subject |-> req[r].subject,
                      email |-> req[r].email, admin |-> entry[e].admin, active |-> TRUE]
          IN Goes(r, [op |-> "new", id |-> u, seen |-> row, new |-> row])
    BY <1>5 DEF AdmitNew
  <2> DEFINE row == [provider |-> req[r].provider, subject |-> req[r].subject,
                     email |-> req[r].email, admin |-> entry[e].admin, active |-> TRUE]
             q == [op |-> "new", id |-> u, seen |-> row, new |-> row]
  <2>2. /\ entry[e] \in EntryRow /\ req[r].email \in Emails
        /\ req[r].provider \in ProviderIds /\ req[r].subject \in Subjects
    BY <1>5, Fields, IdsType DEF AdmitNew, EntriesFor, TypeOK
  <2>3. row \in UserRow
    BY <2>2 DEF UserRow, EntryRow
  <2>4. q \in Request
    BY <2>3 DEF Request
  <2> QED BY <1>5, <2>1, <2>4, ReadStep DEF AdmitNew, TypeOK
<1>6. ASSUME NEW p \in ProviderIds, NEW n \in ProviderIds \cup {0}, SetupProvider(r, p, n)
      PROVE  TypeOK'
  <2> DEFINE seen == SetupSeen(req[r], p, n)
             q == [op |-> "admins", id |-> p, keeps |-> n, seen |-> seen, new |-> SetupRow]
  <2>1. SetupRow \in ProviderRow
    BY DEF SetupRow, ProviderRow
  <2>2. req[r].seen \in ProviderRow
    BY <1>6, Fields DEF SetupProvider
  <2>3. [req[r].seen EXCEPT !.primary = (p = n)] \in ProviderRow
    BY <2>2 DEF ProviderRow
  <2>4. n # 0 /\ req[r].existing = {} => p \in Ids(provider)
    BY <1>6 DEF SetupProvider
  <2>5. n # 0 /\ req[r].existing = {} => provider[p] \in ProviderRow
    BY <2>4, IdsType DEF TypeOK
  <2>6. seen \in ProviderRow
    BY <2>1, <2>3, <2>5 DEF SetupSeen
  <2>7. Goes(r, q) /\ UNCHANGED rowVars /\ raced' = raced /\ writer' = r
    BY <1>6 DEF SetupProvider
  <2> HIDE DEF seen
  <2>8. q \in Request
    BY <2>1, <2>6 DEF Request
  <2> QED BY <2>7, <2>8, ReadStep DEF TypeOK
<1> QED BY <1>1, <1>2, <1>4, <1>5, <1>6 DEF Continue

-----------------------------------------------------------------------------
(* What commits and what is raced                                          *)

LEMMA OvertakenType == ASSUME NEW c, NEW others PROVE Overtaken(c, others) \in SUBSET Claims
BY DEF Overtaken

LEMMA CommitRaces ==
  ASSUME NEW r \in Reqs, Commit(r)
  PROVE  /\ raced' = raced \cup Overtaken(req[r], Reqs \ {r})
         /\ raced \in SUBSET Claims => raced' \in SUBSET Claims
         /\ Goes(r, Idle) /\ writer' = NoReq /\ writer \in {NoReq, r}
<1>1. Done(r) /\ MayCommit(r)
  BY DEF Commit, CommitEditProvider, CommitDeleteProvider, CommitEditEntry, CommitRemoveEntry,
         CommitEditUser, CommitDeleteUser, SignedIn, CommitSetup
<1> QED BY <1>1, OvertakenType DEF Done, MayCommit

(* Of a claim that is not raced nothing has been taken away.               *)
LEMMA NotTaken ==
  ASSUME NEW r \in Reqs, Commit(r), NEW p \in Reqs, p # r, NEW claim \in Claims,
         claim \notin raced'
  PROVE  ~TakesAway(claim, req[r], req[p])
BY CommitRaces DEF Overtaken

LEMMA RacesStay == ASSUME [Next]_vars PROVE raced \subseteq raced'
<1>1. CASE Immediate
  BY <1>1 DEF Immediate, CreateProvider, AddToAllowlist, RevokeSessions, EndSession
<1>2. ASSUME NEW r \in Reqs, Begin(r) PROVE raced' = raced
  BY <1>2 DEF Begin, BeginEditProvider, BeginDeleteProvider, BeginSignIn, BeginEditEntry,
         BeginRemoveEntry, BeginEditUser, BeginDeleteUser, BeginSetup, ReadsOnly
<1>3. ASSUME NEW r \in Reqs, Continue(r) PROVE raced' = raced
  BY ZenonT(60), <1>3 DEF Continue, FindForEdit, FindForRemoval, AdmitKnown, AdmitNew,
     SetupProvider, ReadsOnly
<1>4. ASSUME NEW r \in Reqs, Commit(r) PROVE raced \subseteq raced'
  BY <1>4, CommitRaces
<1>5. ASSUME NEW r \in Reqs, Fails(r) PROVE raced' = raced
  BY <1>5 DEF Fails
<1>6. CASE UNCHANGED vars
  BY <1>6 DEF vars
<1> QED BY <1>1, <1>2, <1>3, <1>4, <1>5, <1>6 DEF Next

-----------------------------------------------------------------------------
LEMMA CommitType == ASSUME TypeOK, NEW r \in Reqs, Commit(r) PROVE TypeOK'
<1> USE DEF Done
<1>a. /\ provider \in Table(ProviderIds, ProviderRow) /\ entry \in Table(EntryIds, EntryRow)
      /\ user \in Table(UserIds, UserRow) /\ session \in Table(Sessions, SessionRow)
      /\ raced' \in SUBSET Claims
  <2>1. raced' \in SUBSET Claims
    BY CommitRaces DEF TypeOK
  <2> QED BY <2>1, SMTT(30) DEF TypeOK
<1>b. Goes(r, Idle) /\ writer' = NoReq
  BY DEF Commit, CommitEditProvider, CommitDeleteProvider, CommitEditEntry, CommitRemoveEntry,
         CommitEditUser, CommitDeleteUser, SignedIn, CommitSetup
<1>1. CASE CommitEditProvider(r)
  <2> DEFINE seen == req[r].seen
             new == Asked(seen, req[r].asks)
             others == IF "primary" \in req[r].asks THEN OthersCleared(req[r].id) ELSE provider
  <2>1. seen \in ProviderRow
    BY <1>1, Fields DEF CommitEditProvider
  <2>2. new \in ProviderRow
    BY <2>1 DEF Asked, ProviderRow
  <2>3. others \in Table(ProviderIds, ProviderRow)
    BY <1>a, ClearedType
  <2>4. provider' = Update(others, req[r].id, seen, new)
        /\ UNCHANGED <<entry, user, session>>
    BY <1>1 DEF CommitEditProvider
  <2> HIDE DEF seen, new, others
  <2>5. provider' \in Table(ProviderIds, ProviderRow)
    BY <2>1, <2>2, <2>3, <2>4, ProviderUpdate
  <2> QED BY <1>a, <1>b, <2>4, <2>5, TypeStep
<1>2. CASE CommitDeleteProvider(r)
  <2>1. provider' \in Table(ProviderIds, ProviderRow)
    BY <1>2, <1>a, PutType DEF CommitDeleteProvider, Delete
  <2> QED BY <1>a, <1>b, <1>2, <2>1, TypeStep DEF CommitDeleteProvider
<1>3. CASE CommitEditEntry(r)
  <2>1. /\ req[r].seen \in EntryRow /\ req[r].new \in EntryRow
        /\ req[r].found \in SUBSET UserIds /\ req[r].snap \in BOOLEAN
    BY <1>3, Fields DEF CommitEditEntry, Doing
  <2>2. entry' \in Table(EntryIds, EntryRow)
    BY <1>3, <1>a, <2>1, EntryUpdate DEF CommitEditEntry
  <2>3. session' \in Table(Sessions, SessionRow)
    BY <1>3, RevokedType DEF CommitEditEntry
  <2> DEFINE flag == req[r].new.admin
  <2>4. flag \in BOOLEAN
    BY <2>1 DEF EntryRow
  <2>5. /\ flag # req[r].snap => req[r].found \subseteq Ids(user)
        /\ user' = [u \in UserIds |->
             IF u \in req[r].found /\ flag # req[r].snap THEN [user[u] EXCEPT !.admin = flag]
                                                         ELSE user[u]]
    BY <1>3 DEF CommitEditEntry
  <2> HIDE DEF flag
  <2>6. \A u \in UserIds : user'[u] \in UserRow \cup {Absent}
    <3>1. ASSUME NEW row \in UserRow PROVE [row EXCEPT !.admin = flag] \in UserRow
      BY <2>4 DEF UserRow
    <3> QED BY <1>a, <2>5, <3>1, IdsType DEF Table
  <2>7. user' \in Table(UserIds, UserRow)
    BY <2>5, <2>6 DEF Table
  <2> QED BY <1>a, <1>b, <1>3, <2>2, <2>3, <2>7, TypeStep DEF CommitEditEntry
<1>4. CASE CommitRemoveEntry(r)
  <2>1. entry' \in Table(EntryIds, EntryRow)
    BY <1>4, <1>a, PutType DEF CommitRemoveEntry, Delete
  <2>2. session' \in Table(Sessions, SessionRow)
    BY <1>4, RevokedType DEF CommitRemoveEntry
  <2>3. /\ req[r].snap => req[r].found \subseteq Ids(user)
        /\ user' = [u \in UserIds |->
             IF u \in req[r].found /\ req[r].snap THEN [user[u] EXCEPT !.active = FALSE]
                                                  ELSE user[u]]
    BY <1>4 DEF CommitRemoveEntry
  <2>4. \A u \in UserIds : user'[u] \in UserRow \cup {Absent}
    <3>1. ASSUME NEW row \in UserRow PROVE [row EXCEPT !.active = FALSE] \in UserRow
      BY DEF UserRow
    <3> QED BY <1>a, <2>3, <3>1, IdsType DEF Table
  <2>5. user' \in Table(UserIds, UserRow)
    BY <2>3, <2>4 DEF Table
  <2> QED BY <1>a, <1>b, <1>4, <2>1, <2>2, <2>5, TypeStep DEF CommitRemoveEntry
<1>5. CASE CommitEditUser(r)
  <2>1. req[r].id \in UserIds /\ req[r].seen \in UserRow /\ req[r].new \in UserRow
    BY <1>5, Fields DEF CommitEditUser, Doing
  <2>2. user' \in Table(UserIds, UserRow)
    BY <1>5, <1>a, <2>1, UserUpdate DEF CommitEditUser
  <2>3. session' \in Table(Sessions, SessionRow)
    BY <1>5, <1>a, RevokedType DEF CommitEditUser
  <2> QED BY <1>a, <1>b, <1>5, <2>2, <2>3, TypeStep DEF CommitEditUser
<1>6. CASE CommitDeleteUser(r)
  <2>1. user' \in Table(UserIds, UserRow)
    BY <1>6, <1>a, PutType DEF CommitDeleteUser, Delete
  <2>2. session' \in Table(Sessions, SessionRow)
    BY <1>6, <1>a, RevokedType DEF CommitDeleteUser
  <2> QED BY <1>a, <1>b, <1>6, <2>1, <2>2, TypeStep DEF CommitDeleteUser
<1>7. ASSUME NEW k \in Sessions, SignedIn(r, k) PROVE TypeOK'
  <2>1. req[r].id \in UserIds /\ req[r].seen \in UserRow /\ req[r].new \in UserRow
    BY <1>7, Fields DEF SignedIn
  <2>2. user' \in Table(UserIds, UserRow)
    <3>1. Update(user, req[r].id, req[r].seen, req[r].new) \in Table(UserIds, UserRow)
      BY <1>a, <2>1, UserUpdate
    <3>2. [user EXCEPT ![req[r].id] = req[r].new] \in Table(UserIds, UserRow)
      BY <1>a, <2>1, PutType
    <3> QED BY <1>7, <3>1, <3>2 DEF SignedIn
  <2>4. [user |-> req[r].id, who |-> <<req[r].new.provider, req[r].new.subject>>] \in SessionRow
    BY <2>1 DEF SessionRow, UserRow
  <2>5. session' \in Table(Sessions, SessionRow)
    BY <1>7, <1>a, <2>4, PutType DEF SignedIn
  <2> QED BY <1>a, <1>b, <1>7, <2>2, <2>5, TypeStep DEF SignedIn
<1>8. ASSUME NEW e \in EntryIds, NEW m \in Emails, CommitSetup(r, e, m) PROVE TypeOK'
  <2> DEFINE cleared == [j \in ProviderIds |->
               IF j # req[r].keeps /\ provider[j] # Absent
                 THEN [provider[j] EXCEPT !.primary = FALSE] ELSE provider[j]]
  <2>1. /\ req[r].id \in ProviderIds
        /\ req[r].seen \in ProviderRow /\ req[r].new \in ProviderRow
    BY <1>8, Fields DEF CommitSetup
  <2>2. cleared \in Table(ProviderIds, ProviderRow)
    BY <1>a DEF Table, ProviderRow
  <2>3. provider' = IF req[r].id \in Ids(provider)
                      THEN Update(cleared, req[r].id, req[r].seen, req[r].new)
                      ELSE [cleared EXCEPT ![req[r].id] = req[r].new]
    BY <1>8 DEF CommitSetup
  <2> HIDE DEF cleared
  <2>4. provider' \in Table(ProviderIds, ProviderRow)
    BY <2>1, <2>2, <2>3, ProviderUpdate, PutType
  <2>5. [provider |-> req[r].id, email |-> m, admin |-> TRUE] \in EntryRow
    BY <2>1 DEF EntryRow
  <2>6. entry' \in Table(EntryIds, EntryRow)
    BY <1>8, <1>a, <2>5, PutType DEF CommitSetup
  <2> QED BY <1>a, <1>b, <1>8, <2>4, <2>6, TypeStep DEF CommitSetup
<1> QED BY <1>1, <1>2, <1>3, <1>4, <1>5, <1>6, <1>7, <1>8 DEF Commit

LEMMA ImmediateType == ASSUME TypeOK, Immediate PROVE TypeOK'
<1>a. /\ provider \in Table(ProviderIds, ProviderRow) /\ entry \in Table(EntryIds, EntryRow)
      /\ session \in Table(Sessions, SessionRow)
  BY DEF TypeOK
<1>1. ASSUME NEW p \in ProviderIds, NEW enabled \in BOOLEAN, NEW primary \in BOOLEAN,
             CreateProvider(p, enabled, primary)
      PROVE  TypeOK'
  <2> DEFINE others == IF primary THEN OthersCleared(p) ELSE provider
  <2>1. others \in Table(ProviderIds, ProviderRow)
    BY <1>a, ClearedType
  <2>2. [enabled |-> enabled, primary |-> primary] \in ProviderRow
    BY DEF ProviderRow
  <2>3. provider' = [others EXCEPT ![p] = [enabled |-> enabled, primary |-> primary]]
    BY <1>1 DEF CreateProvider
  <2> HIDE DEF others
  <2>4. provider' \in Table(ProviderIds, ProviderRow)
    BY <2>1, <2>2, <2>3, PutType
  <2>5. raced' \in SUBSET Claims
    BY <1>1, OvertakenType DEF CreateProvider, TypeOK
  <2> QED BY <1>1, <2>4, <2>5 DEF CreateProvider, TypeOK
<1>2. ASSUME NEW e \in EntryIds, NEW p \in ProviderIds, NEW m \in Emails, NEW admin \in BOOLEAN,
             AddToAllowlist(e, p, m, admin)
      PROVE  TypeOK'
  <2>1. [provider |-> p, email |-> m, admin |-> admin] \in EntryRow
    BY DEF EntryRow
  <2>2. entry' \in Table(EntryIds, EntryRow)
    BY <1>2, <1>a, <2>1, PutType DEF AddToAllowlist
  <2> QED BY <1>2, <2>2 DEF AddToAllowlist, TypeOK
<1>3. ASSUME NEW u \in UserIds, RevokeSessions(u) PROVE TypeOK'
  BY <1>3, RevokedType DEF RevokeSessions, TypeOK
<1>4. ASSUME NEW k \in Sessions, EndSession(k) PROVE TypeOK'
  <2>1. session' \in Table(Sessions, SessionRow)
    BY <1>4, <1>a, PutType DEF EndSession
  <2> QED BY <1>4, <2>1 DEF EndSession, TypeOK
<1> QED BY <1>1, <1>2, <1>3, <1>4 DEF Immediate

LEMMA FailsType == ASSUME TypeOK, NEW r \in Reqs, Fails(r) PROVE TypeOK'
BY ReadStep DEF Fails, TypeOK

LEMMA NextType == TypeOK /\ [Next]_vars => TypeOK'
<1> SUFFICES ASSUME TypeOK, [Next]_vars PROVE TypeOK'
  OBVIOUS
<1>1. CASE Next
  BY <1>1, ImmediateType, BeginType, ContinueType, CommitType, FailsType DEF Next
<1>2. CASE UNCHANGED vars
  BY <1>2 DEF vars, TypeOK
<1> QED BY <1>1, <1>2

(* The variables have their types.                                         *)
THEOREM TypeCorrect == Spec => []TypeOK
<1> QED BY InitType, NextType, PTL DEF Spec

-----------------------------------------------------------------------------
(* The primary provider                                                    *)

(* Without the setup command nobody writes a flag that somebody else has   *)
(* read: who makes a provider primary clears the others in the same commit *)
NoSetup == \A r \in Reqs : req[r].op \notin {"setup", "admins"}
PrimaryInv == TypeOK /\ NoSetup /\ AtMostOnePrimary

LEMMA PrimaryInit == Init => PrimaryInv
<1> SUFFICES ASSUME Init PROVE PrimaryInv
  OBVIOUS
<1>1. NoSetup
  BY DEF Init, Idle, NoSetup
<1>2. AtMostOnePrimary
  BY DEF Init, AtMostOnePrimary, Primaries, Ids
<1> QED BY <1>1, <1>2, InitType DEF PrimaryInv

LEMMA NoSetupKeeps ==
  ASSUME TypeOK, NoSetup, "setup" \notin Ops, [Next]_vars PROVE NoSetup'
<1>1. ASSUME NEW r \in Reqs, NEW q, q.op \notin {"setup", "admins"}, Goes(r, q) PROVE NoSetup'
  BY <1>1 DEF Goes, NoSetup, TypeOK
<1>2. CASE UNCHANGED req
  BY <1>2 DEF NoSetup
<1>3. CASE Immediate
  BY <1>2, <1>3 DEF Immediate, CreateProvider, AddToAllowlist, RevokeSessions, EndSession
<1>4. ASSUME NEW r \in Reqs, Begin(r) PROVE NoSetup'
  <2>1. \A p \in ProviderIds : BeginDeleteProvider(r, p) => NoSetup'
    BY <1>1 DEF BeginDeleteProvider
  <2>2. \A p \in ProviderIds, asks \in SUBSET Wishes : BeginEditProvider(r, p, asks) => NoSetup'
    BY <1>1 DEF BeginEditProvider
  <2>3. \A p \in ProviderIds, s \in Subjects, m \in Emails : BeginSignIn(r, p, s, m) => NoSetup'
    BY <1>1 DEF BeginSignIn
  <2>4. \A e \in EntryIds : BeginRemoveEntry(r, e) => NoSetup'
    BY <1>1 DEF BeginRemoveEntry
  <2>5. \A e \in EntryIds, admin \in BOOLEAN : BeginEditEntry(r, e, admin) => NoSetup'
    BY <1>1 DEF BeginEditEntry
  <2>6. \A u \in UserIds : BeginDeleteUser(r, u) => NoSetup'
    BY <1>1 DEF BeginDeleteUser
  <2>7. \A u \in UserIds, active \in BOOLEAN : BeginEditUser(r, u, active) => NoSetup'
    BY <1>1 DEF BeginEditUser
  <2>8. ~BeginSetup(r)
    BY DEF BeginSetup, Begins
  <2> QED BY <1>4, <2>1, <2>2, <2>3, <2>4, <2>5, <2>6, <2>7, <2>8 DEF Begin
<1>5. ASSUME NEW r \in Reqs, Continue(r) PROVE NoSetup'
  <2>1. FindForEdit(r) => NoSetup'
    BY <1>1 DEF FindForEdit
  <2>2. FindForRemoval(r) => NoSetup'
    BY <1>1 DEF FindForRemoval
  <2>4. AdmitKnown(r) => NoSetup'
    BY <1>1 DEF AdmitKnown
  <2>5. \A u \in UserIds : AdmitNew(r, u) => NoSetup'
    BY <1>1 DEF AdmitNew
  <2>6. \A p, n : ~SetupProvider(r, p, n)
    BY DEF SetupProvider, Doing, NoSetup
  <2> QED BY <1>5, <2>1, <2>2, <2>4, <2>5, <2>6 DEF Continue
<1>6. ASSUME NEW r \in Reqs, Commit(r) \/ Fails(r) PROVE NoSetup'
  <2>1. Goes(r, Idle)
    BY <1>6 DEF Commit, CommitEditProvider, CommitDeleteProvider, CommitEditEntry,
              CommitRemoveEntry, CommitEditUser, CommitDeleteUser, SignedIn, CommitSetup,
              Fails, Done
  <2> QED BY <1>1, <2>1 DEF Idle
<1>7. CASE UNCHANGED vars
  BY <1>2, <1>7 DEF vars
<1> QED BY <1>3, <1>4, <1>5, <1>6, <1>7 DEF Next

(* Rows that do not become primary, or only one does and the others do not *)
(* stay it.                                                                *)
LEMMA PrimaryStep ==
  ASSUME TypeOK, AtMostOnePrimary,
         \/ \A p \in ProviderIds :
              p \in Ids(provider)' /\ provider'[p].primary =>
                p \in Ids(provider) /\ provider[p].primary
         \/ \E q : \A p \in ProviderIds :
              p \in Ids(provider)' /\ provider'[p].primary => p = q,
         TypeOK'
  PROVE  AtMostOnePrimary'
<1>1. Primaries' \subseteq ProviderIds
  BY DEF Primaries, Ids, TypeOK, Table
<1> QED BY <1>1 DEF AtMostOnePrimary, Primaries

LEMMA EditProviderPrimary ==
  ASSUME TypeOK, NEW r \in Reqs, CommitEditProvider(r)
  PROVE  \/ \A p \in ProviderIds :
              p \in Ids(provider)' /\ provider'[p].primary =>
                p \in Ids(provider) /\ provider[p].primary
         \/ \E q : \A p \in ProviderIds :
              p \in Ids(provider)' /\ provider'[p].primary => p = q
<1> DEFINE i == req[r].id
           seen == req[r].seen
           new == Asked(seen, req[r].asks)
<1>0. /\ i \in ProviderIds /\ seen \in ProviderRow
      /\ new.primary = (seen.primary \/ "primary" \in req[r].asks)
  BY Fields DEF CommitEditProvider, Asked
<1>1. provider \in [ProviderIds -> ProviderRow \cup {Absent}]
  BY DEF TypeOK, Table
<1>2. CASE "primary" \in req[r].asks
  <2>1. provider' = Update(OthersCleared(i), i, seen, new)
    BY <1>2 DEF CommitEditProvider
  <2>2. ASSUME NEW p \in ProviderIds, p # i, p \in Ids(provider)'
        PROVE  ~provider'[p].primary
    <3>1. provider'[p] = OthersCleared(i)[p] /\ provider'[p] # Absent
      BY <2>1, <2>2 DEF Update, OthersCleared, Ids
    <3>2. provider[p] # Absent /\ provider[p] \in ProviderRow
      BY <1>1, <2>2, <3>1 DEF OthersCleared
    <3> QED BY <2>2, <3>1, <3>2 DEF OthersCleared, ProviderRow
  <2> QED BY <2>2
<1>3. CASE "primary" \notin req[r].asks
  <2>1. provider' = Update(provider, i, seen, new) /\ new.primary = seen.primary
    BY <1>0, <1>3 DEF CommitEditProvider, ProviderRow
  <2> HIDE DEF i, seen, new
  <2>2. ASSUME NEW p \in ProviderIds, p \in Ids(provider)'
        PROVE  provider[p] # Absent /\ provider'[p].primary = provider[p].primary
    <3>1. CASE p = i /\ provider[p] # Absent
      <4>1. provider'[p] = Changed(provider[p], seen, new)
        BY <1>1, <2>1, <3>1 DEF Update
      <4> QED BY <1>1, <2>1, <3>1, <4>1 DEF Changed, ProviderRow
    <3>2. CASE ~(p = i /\ provider[p] # Absent)
      BY <1>1, <2>1, <2>2, <3>2 DEF Update, Ids
    <3> QED BY <3>1, <3>2
  <2> QED BY <1>1, <2>2 DEF Ids
<1> QED BY <1>2, <1>3

LEMMA PrimaryInductive ==
  ASSUME "setup" \notin Ops, PrimaryInv, [Next]_vars PROVE PrimaryInv'
<1>0. TypeOK /\ TypeOK' /\ NoSetup' /\ AtMostOnePrimary
  BY NextType, NoSetupKeeps DEF PrimaryInv
<1>a. provider \in [ProviderIds -> ProviderRow \cup {Absent}]
  BY <1>0 DEF TypeOK, Table
<1>1. ASSUME NEW p \in ProviderIds, NEW enabled \in BOOLEAN, NEW primary \in BOOLEAN,
             CreateProvider(p, enabled, primary)
      PROVE  AtMostOnePrimary'
  <2> DEFINE row == [enabled |-> enabled, primary |-> primary]
  <2>1. CASE primary
    <3>1. provider' = [OthersCleared(p) EXCEPT ![p] = row]
      BY <1>1, <2>1 DEF CreateProvider
    <3>2. ASSUME NEW q \in ProviderIds, q # p, q \in Ids(provider)'
          PROVE  ~provider'[q].primary
      <4>1. provider'[q] = OthersCleared(p)[q] /\ provider'[q] # Absent
        BY <3>1, <3>2 DEF OthersCleared, Ids
      <4>2. provider[q] # Absent /\ provider[q] \in ProviderRow
        BY <1>a, <3>2, <4>1 DEF OthersCleared
      <4> QED BY <3>2, <4>1, <4>2 DEF OthersCleared, ProviderRow
    <3> QED BY <1>0, <3>2, PrimaryStep
  <2>2. CASE ~primary
    <3>1. provider' = [provider EXCEPT ![p] = row]
      BY <1>1, <2>2 DEF CreateProvider
    <3>2. \A q \in ProviderIds : q \in Ids(provider)' /\ provider'[q].primary =>
            q \in Ids(provider) /\ provider[q].primary
      BY <1>a, <2>2, <3>1 DEF Ids
    <3> QED BY <1>0, <3>2, PrimaryStep
  <2> QED BY <2>1, <2>2
<1>2. ASSUME NEW r \in Reqs, CommitEditProvider(r) PROVE AtMostOnePrimary'
  BY <1>0, <1>2, EditProviderPrimary, PrimaryStep
<1>3. ASSUME NEW r \in Reqs, CommitDeleteProvider(r) PROVE AtMostOnePrimary'
  <2>1. provider' = [provider EXCEPT ![req[r].id] = Absent]
    BY <1>3 DEF CommitDeleteProvider, Delete
  <2>2. \A q \in ProviderIds : q \in Ids(provider)' /\ provider'[q].primary =>
          q \in Ids(provider) /\ provider[q].primary
    BY <1>a, <2>1 DEF Ids
  <2> QED BY <1>0, <2>2, PrimaryStep
<1>4. ASSUME provider' = provider PROVE AtMostOnePrimary'
  <2>1. Primaries' = Primaries
    BY <1>4 DEF Primaries, Ids
  <2> QED BY <1>0, <2>1 DEF AtMostOnePrimary
<1>5. CASE UNCHANGED vars
  <2>1. provider' = provider
    BY <1>5 DEF vars
  <2> QED BY <1>0, <1>4, <2>1 DEF PrimaryInv
<1>6. ASSUME NEW r \in Reqs, Begin(r) \/ Continue(r) \/ Fails(r) PROVE provider' = provider
  BY <1>6, ReadersWriteNothing DEF rowVars
<1>7. ASSUME NEW r \in Reqs, Commit(r)
      PROVE  provider' = provider \/ CommitEditProvider(r) \/ CommitDeleteProvider(r)
  <2>1. \A e \in EntryIds, m \in Emails : ~CommitSetup(r, e, m)
    BY DEF CommitSetup, Doing, PrimaryInv, NoSetup
  <2> QED BY <1>7, <2>1 DEF Commit, CommitEditEntry, CommitRemoveEntry, CommitEditUser,
              CommitDeleteUser, SignedIn
<1>8. CASE Immediate
  <2>1. \/ provider' = provider
        \/ \E p \in ProviderIds, enabled, primary \in BOOLEAN : CreateProvider(p, enabled, primary)
    BY <1>8 DEF Immediate, AddToAllowlist, RevokeSessions, EndSession
  <2> QED BY <1>0, <1>1, <1>4, <2>1 DEF PrimaryInv
<1> QED BY <1>0, <1>2, <1>3, <1>4, <1>5, <1>6, <1>7, <1>8 DEF Next, PrimaryInv

(* Without the setup command there are never two primary providers.        *)
THEOREM OnePrimary == ASSUME "setup" \notin Ops PROVE Spec => []AtMostOnePrimary
<1>1. PrimaryInv /\ [Next]_vars => PrimaryInv'
  BY PrimaryInductive
<1>2. PrimaryInv => AtMostOnePrimary
  BY DEF PrimaryInv
<1> QED BY <1>1, <1>2, PrimaryInit, PTL DEF Spec

-----------------------------------------------------------------------------
(* The allowlist                                                           *)

(* The entries there are stay, and lose nothing.                           *)
SameAddress(row, other) == row.provider = other.provider /\ row.email = other.email
EntriesRemain ==
  \A e \in Ids(entry) :
    /\ e \in Ids(entry)' /\ SameAddress(entry'[e], entry[e])
    /\ entry[e].admin => entry'[e].admin

(* Who edits an entry changes its role only.                               *)
EditsRole ==
  \A r \in Reqs : req[r].op \in {"editEntry", "editFound"} =>
    req[r].new = [req[r].seen EXCEPT !.admin = req[r].new.admin]

(* Whoever is about to take an administrator off the list has seen another *)
(* one there, and nobody has taken that one since.                         *)
Spare == \A r \in Reqs : TakesAdmin(req[r]) => OtherAdminEntriesExist(req[r].id)
AdminListed == \E e \in Ids(entry) : entry[e].admin

ListInv == TypeOK /\ EditsRole /\ Spare /\ AdminListed

LEMMA ListInit == Init => ListInv
<1> SUFFICES ASSUME Init PROVE ListInv
  OBVIOUS
<1>1. \A r \in Reqs : req[r].op = "idle"
  BY DEF Init, Idle
<1>2. AdminListed
  <2>1. PICK m \in Emails :
          entry = [e \in EntryIds |->
            IF e = 1 THEN [provider |-> 1, email |-> m, admin |-> TRUE] ELSE Absent]
    BY DEF Init
  <2>2. 1 \in EntryIds /\ [provider |-> 1, email |-> m, admin |-> TRUE] \in EntryRow
    BY AccountsAssumption DEF EntryIds, EntryRow, ProviderIds
  <2>3. 1 \in Ids(entry) /\ entry[1].admin
    BY <2>1, <2>2, AbsentAssumption DEF Ids
  <2> QED BY <2>3 DEF AdminListed
<1>3. EditsRole /\ Spare
  BY <1>1 DEF EditsRole, Spare, TakesAdmin
<1> QED BY <1>2, <1>3, InitType DEF ListInv

(* Requests that edit an entry, as they begin and go on.                   *)
LEMMA RolesEdited ==
  ASSUME TypeOK, EditsRole, [Next]_vars PROVE EditsRole'
<1>1. ASSUME NEW r \in Reqs, NEW q, Goes(r, q),
             q.op \in {"editEntry", "editFound"} => q.new = [q.seen EXCEPT !.admin = q.new.admin]
      PROVE  EditsRole'
  <2>1. req'[r] = q /\ \A p \in Reqs : p # r => req'[p] = req[p]
    BY <1>1 DEF Goes, TypeOK
  <2> QED BY <1>1, <2>1 DEF EditsRole
<1>2. ASSUME NEW r \in Reqs, NEW q, Goes(r, q), q.op \notin {"editEntry", "editFound"}
      PROVE  EditsRole'
  BY <1>1, <1>2
<1>3. ASSUME NEW r \in Reqs, Begin(r) PROVE EditsRole'
  <2>1. \A p \in ProviderIds : BeginDeleteProvider(r, p) => EditsRole'
    BY <1>2 DEF BeginDeleteProvider
  <2>2. \A p \in ProviderIds, asks \in SUBSET Wishes : BeginEditProvider(r, p, asks) => EditsRole'
    BY <1>2 DEF BeginEditProvider
  <2>3. \A p \in ProviderIds, s \in Subjects, m \in Emails : BeginSignIn(r, p, s, m) => EditsRole'
    BY <1>2 DEF BeginSignIn
  <2>4. \A e \in EntryIds : BeginRemoveEntry(r, e) => EditsRole'
    BY <1>2 DEF BeginRemoveEntry
  <2>5. ASSUME NEW e \in EntryIds, NEW admin \in BOOLEAN, BeginEditEntry(r, e, admin)
        PROVE  EditsRole'
    <3> DEFINE new == [entry[e] EXCEPT !.admin = admin]
               q == [op |-> "editEntry", id |-> e, seen |-> entry[e], new |-> new]
    <3>1. Goes(r, q) /\ entry[e] \in EntryRow
      BY <2>5, IdsType DEF BeginEditEntry, TypeOK
    <3>2. new.admin = admin
      BY <3>1 DEF EntryRow
    <3> QED BY <1>1, <3>1, <3>2
  <2>6. \A u \in UserIds : BeginDeleteUser(r, u) => EditsRole'
    BY <1>2 DEF BeginDeleteUser
  <2>7. \A u \in UserIds, active \in BOOLEAN : BeginEditUser(r, u, active) => EditsRole'
    BY <1>2 DEF BeginEditUser
  <2>8. BeginSetup(r) => EditsRole'
    BY <1>2 DEF BeginSetup
  <2> QED BY <1>3, <2>1, <2>2, <2>3, <2>4, <2>5, <2>6, <2>7, <2>8 DEF Begin
<1>4. ASSUME NEW r \in Reqs, Continue(r) PROVE EditsRole'
  <2>1. CASE FindForEdit(r)
    <3> DEFINE found == AccountsFor(req[r].seen.provider, req[r].seen.email)
               snap == \E u \in found : user[u].admin
               q == [op |-> "editFound", id |-> req[r].id, seen |-> req[r].seen,
                     new |-> req[r].new, found |-> found, snap |-> snap]
    <3>1. Goes(r, q) /\ req[r].op = "editEntry"
      BY <2>1 DEF FindForEdit, Doing
    <3> HIDE DEF found, snap
    <3> QED BY <1>1, <3>1 DEF EditsRole
  <2>2. FindForRemoval(r) => EditsRole'
    BY <1>2 DEF FindForRemoval
  <2>3. AdmitKnown(r) => EditsRole'
    BY <1>2 DEF AdmitKnown
  <2>4. \A u \in UserIds : AdmitNew(r, u) => EditsRole'
    BY <1>2 DEF AdmitNew
  <2>5. \A p \in ProviderIds, n \in ProviderIds \cup {0} : SetupProvider(r, p, n) => EditsRole'
    BY <1>2 DEF SetupProvider
  <2> QED BY <1>4, <2>1, <2>2, <2>3, <2>4, <2>5 DEF Continue
<1>5. ASSUME NEW r \in Reqs, Commit(r) \/ Fails(r) PROVE EditsRole'
  <2>1. Goes(r, Idle)
    BY <1>5, CommitRaces DEF Fails
  <2> QED BY <1>2, <2>1 DEF Idle
<1>6. CASE UNCHANGED req
  BY <1>6 DEF EditsRole
<1>7. CASE Immediate
  BY <1>6, <1>7 DEF Immediate, CreateProvider, AddToAllowlist, RevokeSessions, EndSession
<1> QED BY <1>3, <1>4, <1>5, <1>6, <1>7 DEF Next, vars

(* A new entry takes no other's place.                                     *)
LEMMA AddedRemain ==
  ASSUME TypeOK, NEW e \in EntryIds, NEW row \in EntryRow,
         entry' = [entry EXCEPT ![e] = row],
         Follows(e, entry) \/ (SameAddress(row, entry[e]) /\ row.admin)
  PROVE  EntriesRemain
<1>1. entry \in [EntryIds -> EntryRow \cup {Absent}] /\ row # Absent
  BY AbsentAssumption DEF TypeOK, Table
<1>2. ASSUME NEW f \in Ids(entry)
      PROVE  /\ f \in Ids(entry)' /\ SameAddress(entry'[f], entry[f])
             /\ entry[f].admin => entry'[f].admin
  <2>1. CASE f = e
    <3>1. ~Follows(e, entry)
      BY <1>2, <2>1 DEF Follows, EntryIds
    <3> QED BY <1>1, <2>1, <3>1 DEF Ids
  <2>2. CASE f # e
    BY <1>1, <1>2, <2>2 DEF Ids, SameAddress
  <2> QED BY <2>1, <2>2
<1> QED BY <1>2 DEF EntriesRemain

LEMMA SetupRemain ==
  ASSUME TypeOK, NEW r \in Reqs, NEW e \in EntryIds, NEW m \in Emails, CommitSetup(r, e, m)
  PROVE  EntriesRemain
<1> DEFINE row == [provider |-> req[r].id, email |-> m, admin |-> TRUE]
<1>1. entry' = [entry EXCEPT ![e] = row]
      /\ (e \in EntriesFor(req[r].id, m) \/ Follows(e, entry))
  BY DEF CommitSetup
<1>2. row \in EntryRow
  BY Fields DEF CommitSetup, EntryRow
<1>3. e \in EntriesFor(req[r].id, m) => SameAddress(row, entry[e])
  BY DEF EntriesFor, SameAddress
<1> HIDE DEF row
<1>4. row.admin
  BY DEF row
<1> QED BY <1>1, <1>2, <1>3, <1>4, AddedRemain

LEMMA SameEntries == ASSUME entry' = entry PROVE EntriesRemain
BY DEF EntriesRemain, SameAddress, Ids

(* The edited entry: the address stays, and a role that is given.          *)
LEMMA EditedEntry ==
  ASSUME TypeOK, EditsRole, NEW r \in Reqs, Doing(r, "editFound"),
         entry' = Update(entry, req[r].id, req[r].seen, req[r].new)
  PROVE  /\ \A e \in Ids(entry) : e \in Ids(entry)' /\ SameAddress(entry'[e], entry[e])
         /\ \A e \in EntryIds : e # req[r].id => entry'[e] = entry[e]
         /\ req[r].new.admin => EntriesRemain
<1> DEFINE i == req[r].id
           seen == req[r].seen
           new == req[r].new
<1>1. /\ seen \in EntryRow /\ new \in EntryRow /\ entry \in [EntryIds -> EntryRow \cup {Absent}]
      /\ new = [seen EXCEPT !.admin = new.admin]
  BY Fields DEF TypeOK, Table, Doing, EditsRole
<1> HIDE DEF i, seen, new
<1>2. new.provider = seen.provider /\ new.email = seen.email
  BY <1>1 DEF EntryRow
<1>3. ASSUME NEW e \in Ids(entry)
      PROVE  /\ e \in Ids(entry)' /\ SameAddress(entry'[e], entry[e])
             /\ new.admin => (entry[e].admin => entry'[e].admin)
  <2>1. e \in EntryIds /\ entry[e] \in EntryRow /\ entry[e] # Absent
    BY <1>1, <1>3 DEF Ids
  <2>2. entry'[e] = (IF e = i THEN Changed(entry[e], seen, new) ELSE entry[e])
        /\ DOMAIN entry' = EntryIds
    BY <1>1, <2>1 DEF Update, i, seen, new
  <2>3. Changed(entry[e], seen, new) \in EntryRow
    BY <1>1, <2>1, EntryChanged
  <2>4. /\ SameAddress(Changed(entry[e], seen, new), entry[e])
        /\ new.admin => (entry[e].admin => Changed(entry[e], seen, new).admin)
    BY <1>1, <1>2, <2>1 DEF Changed, EntryRow, SameAddress
  <2> QED BY <2>1, <2>2, <2>3, <2>4, AbsentAssumption DEF Ids, SameAddress
<1>4. \A e \in EntryIds : e # i => entry'[e] = entry[e]
  BY <1>1 DEF Update, i, seen, new
<1> QED BY <1>3, <1>4 DEF EntriesRemain, i, new

(* A step that takes nothing from the list.                                *)
LEMMA ListStays ==
  ASSUME ListInv, TypeOK', EditsRole', EntriesRemain,
         \A p \in Reqs : TakesAdmin(req'[p]) =>
           \/ TakesAdmin(req[p]) /\ req'[p].id = req[p].id
           \/ OtherAdminEntriesExist(req'[p].id)
  PROVE  ListInv'
<1>1. AdminListed'
  BY DEF ListInv, AdminListed, EntriesRemain
<1>2. ASSUME NEW p \in Reqs, TakesAdmin(req'[p]) PROVE OtherAdminEntriesExist(req[p].id)'
  <2>1. OtherAdminEntriesExist(req'[p].id)
    BY <1>2 DEF ListInv, Spare
  <2>2. PICK f \in Ids(entry) \ {req'[p].id} : entry[f].admin
    BY <2>1 DEF OtherAdminEntriesExist
  <2>3. f \in Ids(entry)' /\ entry'[f].admin
    BY <2>2 DEF EntriesRemain
  <2> QED BY <2>2, <2>3 DEF OtherAdminEntriesExist
<1>3. Spare'
  BY <1>2 DEF Spare, TakesAdmin
<1> QED BY <1>1, <1>3 DEF ListInv

(* A step that reads.                                                      *)
LEMMA ListRead ==
  ASSUME ListInv, TypeOK', EditsRole', entry' = entry, NEW r \in Reqs, NEW q, Goes(r, q),
         TakesAdmin(q) => OtherAdminEntriesExist(q.id)
  PROVE  ListInv'
<1>1. req'[r] = q /\ \A p \in Reqs : p # r => req'[p] = req[p]
  BY DEF ListInv, TypeOK, Goes
<1> QED BY <1>1, SameEntries, ListStays

(* A commit that may take the role or the entry it is about from the list, *)
(* and nothing else; nobody else in flight counts on that.                 *)
LEMMA ListTaken ==
  ASSUME ListInv, TypeOK', EditsRole', NEW r \in Reqs, Commit(r), TakesAdmin(req[r]),
         "list" \notin raced',
         \A e \in EntryIds : e # req[r].id => entry'[e] = entry[e]
  PROVE  ListInv'
<1>0. entry \in [EntryIds -> EntryRow \cup {Absent}] /\ DOMAIN entry' = EntryIds
  BY DEF ListInv, TypeOK, Table
<1>1. \A f \in Ids(entry) \ {req[r].id} : f \in Ids(entry)' /\ entry'[f] = entry[f]
  BY <1>0 DEF Ids
<1>2. PICK f \in Ids(entry) \ {req[r].id} : entry[f].admin
  BY DEF ListInv, Spare, OtherAdminEntriesExist
<1>3. AdminListed'
  BY <1>1, <1>2 DEF AdminListed
<1>4. ASSUME NEW p \in Reqs, TakesAdmin(req'[p]) PROVE OtherAdminEntriesExist(req[p].id)'
  <2>1. req'[r] = Idle /\ (p # r => req'[p] = req[p])
    BY CommitRaces DEF ListInv, TypeOK, Goes
  <2>2. p # r /\ req'[p] = req[p]
    BY <1>4, <2>1 DEF TakesAdmin, Idle
  <2>3. ~TakesAway("list", req[r], req[p])
    BY <2>2, NotTaken DEF Claims
  <2>4. req[p].id = req[r].id
    BY <1>4, <2>2, <2>3 DEF TakesAway
  <2> QED BY <1>1, <1>2, <2>2, <2>4 DEF OtherAdminEntriesExist
<1>5. Spare'
  BY <1>4 DEF Spare, TakesAdmin
<1> QED BY <1>3, <1>5 DEF ListInv

LEMMA ListInductive ==
  ASSUME ListInv, [Next]_vars, "list" \notin raced' PROVE ListInv'
<1>0. TypeOK /\ TypeOK' /\ EditsRole /\ EditsRole' /\ entry \in [EntryIds -> EntryRow \cup {Absent}]
  BY NextType, RolesEdited DEF ListInv, TypeOK, Table
<1>a. ASSUME NEW r \in Reqs, NEW q, Goes(r, q), entry' = entry, ~TakesAdmin(q) PROVE ListInv'
  BY <1>0, <1>a, ListRead
<1>1. ASSUME NEW r \in Reqs, Begin(r) PROVE ListInv'
  <2>0. entry' = entry
    BY <1>1, ReadersWriteNothing DEF rowVars
  <2>2. ASSUME NEW e \in EntryIds PROVE entry[e].admin \/ OtherAdminEntriesExist(e)
    BY DEF ListInv, AdminListed, OtherAdminEntriesExist
  <2>3. \A p \in ProviderIds, asks \in SUBSET Wishes : BeginEditProvider(r, p, asks) => ListInv'
    BY <1>a, <2>0 DEF BeginEditProvider, TakesAdmin
  <2>4. \A p \in ProviderIds : BeginDeleteProvider(r, p) => ListInv'
    BY <1>a, <2>0 DEF BeginDeleteProvider, TakesAdmin
  <2>5. \A p \in ProviderIds, s \in Subjects, m \in Emails : BeginSignIn(r, p, s, m) => ListInv'
    BY <1>a, <2>0 DEF BeginSignIn, TakesAdmin
  <2>6. ASSUME NEW e \in EntryIds, NEW admin \in BOOLEAN, BeginEditEntry(r, e, admin)
        PROVE  ListInv'
    <3> DEFINE new == [entry[e] EXCEPT !.admin = admin]
               q == [op |-> "editEntry", id |-> e, seen |-> entry[e], new |-> new]
    <3>1. Goes(r, q) /\ e \in Ids(entry)
      BY <2>6 DEF BeginEditEntry
    <3>2. new.admin = admin
      BY <1>0, <3>1 DEF Ids, EntryRow
    <3>3. ~admin => OtherAdminEntriesExist(e)
      BY <2>2, <2>6 DEF BeginEditEntry
    <3>4. TakesAdmin(q) => OtherAdminEntriesExist(q.id)
      BY <3>2, <3>3 DEF TakesAdmin
    <3> QED BY <1>0, <2>0, <3>1, <3>4, ListRead
  <2>7. ASSUME NEW e \in EntryIds, BeginRemoveEntry(r, e) PROVE ListInv'
    <3> DEFINE q == [op |-> "removeEntry", id |-> e, seen |-> entry[e]]
    <3>1. Goes(r, q)
      BY <2>7 DEF BeginRemoveEntry
    <3>2. OtherAdminEntriesExist(q.id)
      BY <2>2, <2>7 DEF BeginRemoveEntry
    <3> QED BY <1>0, <2>0, <3>1, <3>2, ListRead
  <2>8. \A u \in UserIds, active \in BOOLEAN : BeginEditUser(r, u, active) => ListInv'
    BY <1>a, <2>0 DEF BeginEditUser, TakesAdmin
  <2>9. \A u \in UserIds : BeginDeleteUser(r, u) => ListInv'
    BY <1>a, <2>0 DEF BeginDeleteUser, TakesAdmin
  <2>10. BeginSetup(r) => ListInv'
    BY <1>a, <2>0 DEF BeginSetup, TakesAdmin
  <2> QED BY <1>1, <2>3, <2>4, <2>5, <2>6, <2>7, <2>8, <2>9, <2>10 DEF Begin
<1>2. ASSUME NEW r \in Reqs, Continue(r) PROVE ListInv'
  <2>0. entry' = entry
    BY <1>2, ReadersWriteNothing DEF rowVars
  <2>2. CASE FindForEdit(r)
    <3> DEFINE found == AccountsFor(req[r].seen.provider, req[r].seen.email)
               snap == \E u \in found : user[u].admin
               q == [op |-> "editFound", id |-> req[r].id, seen |-> req[r].seen,
                     new |-> req[r].new, found |-> found, snap |-> snap]
    <3>1. Goes(r, q) /\ req[r].op = "editEntry"
      BY <2>2 DEF FindForEdit, Doing
    <3> HIDE DEF found, snap
    <3>2. TakesAdmin(q) => OtherAdminEntriesExist(q.id)
      BY <3>1 DEF TakesAdmin, ListInv, Spare
    <3> QED BY <1>0, <2>0, <3>1, <3>2, ListRead
  <2>3. CASE FindForRemoval(r)
    <3> DEFINE found == AccountsFor(req[r].seen.provider, req[r].seen.email)
               snap == \E u \in found : user[u].active
               q == [op |-> "removeFound", id |-> req[r].id, found |-> found, snap |-> snap]
    <3>1. Goes(r, q) /\ req[r].op = "removeEntry"
      BY <2>3 DEF FindForRemoval, Doing
    <3> HIDE DEF found, snap
    <3>2. OtherAdminEntriesExist(q.id)
      BY <3>1 DEF TakesAdmin, ListInv, Spare
    <3> QED BY <1>0, <2>0, <3>1, <3>2, ListRead
  <2>5. AdmitKnown(r) => ListInv'
    BY <1>a, <2>0 DEF AdmitKnown, TakesAdmin
  <2>6. \A u \in UserIds : AdmitNew(r, u) => ListInv'
    BY <1>a, <2>0 DEF AdmitNew, TakesAdmin
  <2>7. \A p \in ProviderIds, n \in ProviderIds \cup {0} : SetupProvider(r, p, n) => ListInv'
    BY <1>a, <2>0 DEF SetupProvider, TakesAdmin
  <2> QED BY <1>2, <2>2, <2>3, <2>5, <2>6, <2>7 DEF Continue
<1>b. ASSUME NEW r \in Reqs, Goes(r, Idle), EntriesRemain PROVE ListInv'
  <2>1. req'[r] = Idle /\ \A p \in Reqs : p # r => req'[p] = req[p]
    BY <1>0, <1>b DEF TypeOK, Goes
  <2>2. \A p \in Reqs : TakesAdmin(req'[p]) => TakesAdmin(req[p]) /\ req'[p].id = req[p].id
    BY <2>1 DEF TakesAdmin, Idle
  <2> QED BY <1>0, <1>b, <2>2, ListStays
<1>3. ASSUME NEW r \in Reqs, CommitEditEntry(r) PROVE ListInv'
  <2>1. /\ Doing(r, "editFound") /\ Commit(r)
        /\ entry' = Update(entry, req[r].id, req[r].seen, req[r].new)
    BY <1>3 DEF CommitEditEntry, Commit
  <2>2. CASE req[r].new.admin
    BY <1>0, <1>b, <2>1, <2>2, EditedEntry, CommitRaces
  <2>3. CASE ~req[r].new.admin
    BY <1>0, <2>1, <2>3, EditedEntry, ListTaken DEF TakesAdmin, Doing
  <2> QED BY <2>2, <2>3
<1>4. ASSUME NEW r \in Reqs, CommitRemoveEntry(r) PROVE ListInv'
  <2>1. Commit(r) /\ TakesAdmin(req[r]) /\ entry' = [entry EXCEPT ![req[r].id] = Absent]
    BY <1>4 DEF Commit, CommitRemoveEntry, Delete, Doing, TakesAdmin
  <2> QED BY <1>0, <2>1, ListTaken
<1>5. ASSUME NEW r \in Reqs, Commit(r) PROVE ListInv'
  <2>1. \/ CommitEditEntry(r) \/ CommitRemoveEntry(r)
        \/ \E e \in EntryIds, m \in Emails : CommitSetup(r, e, m)
        \/ entry' = entry
    BY <1>5 DEF Commit, CommitEditProvider, CommitDeleteProvider, CommitEditUser,
                CommitDeleteUser, SignedIn
  <2> QED BY <1>0, <1>b, <1>3, <1>4, <1>5, <2>1, CommitRaces, SetupRemain, SameEntries
<1>6. ASSUME NEW r \in Reqs, Fails(r) PROVE ListInv'
  <2>1. Goes(r, Idle) /\ entry' = entry
    BY <1>6 DEF Fails, rowVars
  <2> QED BY <1>b, <2>1, SameEntries
<1>7. ASSUME req' = req, EntriesRemain PROVE ListInv'
  BY <1>0, <1>7, ListStays
<1>8. CASE Immediate
  <2>1. req' = req /\ EntriesRemain
    <3>1. ASSUME NEW e \in EntryIds, NEW p \in ProviderIds, NEW m \in Emails,
                 NEW admin \in BOOLEAN, AddToAllowlist(e, p, m, admin)
          PROVE  req' = req /\ EntriesRemain
      <4> DEFINE row == [provider |-> p, email |-> m, admin |-> admin]
      <4>1. row \in EntryRow
        BY DEF EntryRow
      <4>2. req' = req /\ entry' = [entry EXCEPT ![e] = row] /\ Follows(e, entry)
        BY <3>1 DEF AddToAllowlist
      <4> HIDE DEF row
      <4> QED BY <1>0, <4>1, <4>2, AddedRemain
    <3>2. CASE req' = req /\ entry' = entry
      BY <3>2, SameEntries
    <3> QED BY <1>8, <3>1, <3>2 DEF Immediate, CreateProvider, RevokeSessions, EndSession
  <2> QED BY <1>7, <2>1
<1>9. CASE UNCHANGED vars
  BY <1>7, <1>9, SameEntries DEF vars
<1> QED BY <1>1, <1>2, <1>5, <1>6, <1>8, <1>9 DEF Next

(* SEC-45: there is always an administrator on the list, unless one        *)
(* request has taken an administrator off it under another that was about  *)
(* to take another one.                                                    *)
THEOREM AlwaysAnAdmin == Spec => []AnAdminIsListed
<1> DEFINE Claim == TypeOK /\ ("list" \notin raced => ListInv)
<1>1. Init => Claim
  BY ListInit DEF ListInv
<1>2. Claim /\ [Next]_vars => Claim'
  BY ListInductive, RacesStay, NextType
<1>3. Claim => AnAdminIsListed
  BY DEF ListInv, AdminListed, AnAdminIsListed
<1> QED BY <1>1, <1>2, <1>3, PTL DEF Spec

-----------------------------------------------------------------------------
(* The write lock                                                          *)

(* A first sign-in has it while it waits for the groups, and the setup     *)
(* command while it asks for the administrators.                           *)
Locks == \A r \in Reqs : req[r].op \in {"admins", "new"} => writer = r

LEMMA LocksInit == Init => Locks
BY DEF Init, Idle, Locks

LEMMA LocksInductive == ASSUME TypeOK, Locks, [Next]_vars PROVE Locks'
<1>1. ASSUME NEW r \in Reqs, NEW q, Goes(r, q), q.op \in {"admins", "new"} => writer' = r,
             writer' = writer \/ writer \in {NoReq, r}
      PROVE  Locks'
  <2>1. req'[r] = q /\ \A p \in Reqs : p # r => req'[p] = req[p]
    BY <1>1 DEF TypeOK, Goes
  <2> QED BY <1>1, <2>1, AccountsAssumption DEF Locks
<1>2. ASSUME NEW r \in Reqs, Begin(r) PROVE Locks'
  <2>0. writer' = writer
    BY <1>2 DEF Begin, BeginEditProvider, BeginDeleteProvider, BeginSignIn, BeginEditEntry,
           BeginRemoveEntry, BeginEditUser, BeginDeleteUser, BeginSetup, ReadsOnly
  <2>a. ASSUME NEW q, Goes(r, q), q.op \notin {"admins", "new"} PROVE Locks'
    BY <1>1, <2>0, <2>a
  <2>1. \A p \in ProviderIds : BeginDeleteProvider(r, p) => Locks'
    BY <2>a DEF BeginDeleteProvider
  <2>2. \A p \in ProviderIds, asks \in SUBSET Wishes : BeginEditProvider(r, p, asks) => Locks'
    BY <2>a DEF BeginEditProvider
  <2>3. \A p \in ProviderIds, s \in Subjects, m \in Emails : BeginSignIn(r, p, s, m) => Locks'
    BY <2>a DEF BeginSignIn
  <2>4. \A e \in EntryIds : BeginRemoveEntry(r, e) => Locks'
    BY <2>a DEF BeginRemoveEntry
  <2>5. \A e \in EntryIds, admin \in BOOLEAN : BeginEditEntry(r, e, admin) => Locks'
    BY <2>a DEF BeginEditEntry
  <2>6. \A u \in UserIds : BeginDeleteUser(r, u) => Locks'
    BY <2>a DEF BeginDeleteUser
  <2>7. \A u \in UserIds, active \in BOOLEAN : BeginEditUser(r, u, active) => Locks'
    BY <2>a DEF BeginEditUser
  <2>8. BeginSetup(r) => Locks'
    BY <2>a DEF BeginSetup
  <2> QED BY <1>2, <2>1, <2>2, <2>3, <2>4, <2>5, <2>6, <2>7, <2>8 DEF Begin
<1>3. ASSUME NEW r \in Reqs, Continue(r) PROVE Locks'
  <2>1. FindForEdit(r) => Locks'
    BY <1>1 DEF FindForEdit
  <2>2. FindForRemoval(r) => Locks'
    BY <1>1 DEF FindForRemoval, ReadsOnly
  <2>3. AdmitKnown(r) => Locks'
    BY <1>1 DEF AdmitKnown, ReadsOnly
  <2>4. \A u \in UserIds : AdmitNew(r, u) => Locks'
    BY <1>1 DEF AdmitNew
  <2>5. \A p \in ProviderIds, n \in ProviderIds \cup {0} : SetupProvider(r, p, n) => Locks'
    BY <1>1 DEF SetupProvider
  <2> QED BY <1>3, <2>1, <2>2, <2>3, <2>4, <2>5 DEF Continue
<1>4. ASSUME NEW r \in Reqs, Commit(r) \/ Fails(r) PROVE Locks'
  <2>1. Goes(r, Idle) /\ (writer' = writer \/ writer \in {NoReq, r})
    BY <1>4, CommitRaces DEF Fails
  <2> QED BY <1>1, <2>1 DEF Idle
<1>5. CASE req' = req /\ writer' = writer
  BY <1>5 DEF Locks
<1>6. CASE Immediate
  BY <1>5, <1>6 DEF Immediate, CreateProvider, AddToAllowlist, RevokeSessions, EndSession
<1> QED BY <1>2, <1>3, <1>4, <1>5, <1>6 DEF Next, vars

-----------------------------------------------------------------------------
(* Sessions                                                                *)

SamePerson(row, other) == row.provider = other.provider /\ row.subject = other.subject

(* A request that will write or use an account knows whose it is, and the  *)
(* account of a sign-in is still there; a first sign-in has an id that     *)
(* nobody has for itself, as it has the write lock.                        *)
Knows(r) ==
  /\ req[r].op \in {"editUser", "known"} => SamePerson(req[r].seen, req[r].new)
  /\ Doing(r, "known") =>
       req[r].id \in Ids(user) /\ SamePerson(user[req[r].id], req[r].new)
  /\ Doing(r, "new") => req[r].id \notin Ids(user) /\ writer = r

Matched ==
  \A k \in Sessions : session[k] # Absent =>
    LET u == session[k].user IN
    u \in Ids(user) /\ <<user[u].provider, user[u].subject>> = session[k].who

OwnersInv == TypeOK /\ (\A r \in Reqs : Knows(r)) /\ Matched

LEMMA OwnersInit == Init => OwnersInv
<1> SUFFICES ASSUME Init PROVE OwnersInv
  OBVIOUS
<1>1. \A r \in Reqs : Knows(r)
  BY DEF Init, Idle, Knows, Doing
<1>2. Ids(user) = {} /\ Matched
  BY DEF Init, Ids, Matched
<1> QED BY <1>1, <1>2, InitType DEF OwnersInv

(* The accounts that remain are still the same people's, the sessions that *)
(* remain have their accounts, and so have the sign-ins.                   *)
Remain ==
  /\ \A u \in UserIds : u \in Ids(user)' => u \in Ids(user) /\ SamePerson(user'[u], user[u])
  /\ \A k \in Sessions : session'[k] # Absent =>
       session'[k] = session[k] /\ session[k].user \in Ids(user)'
  /\ \A p \in Reqs : Doing(p, "known") /\ req'[p] = req[p] => req[p].id \in Ids(user)'

LEMMA RemainKeeps ==
  ASSUME OwnersInv, TypeOK', Remain,
         \A p \in Reqs :
           \/ req'[p] = req[p] /\ (Doing(p, "new") => writer' = p)
           \/ Knows(p)'
  PROVE  OwnersInv'
<1>1. Ids(user)' \subseteq UserIds /\ Ids(user) \subseteq UserIds
  BY DEF OwnersInv, TypeOK, Ids, Table
<1>3. ASSUME NEW p \in Reqs PROVE Knows(p)'
  <2>1. CASE req'[p] = req[p] /\ (Doing(p, "new") => writer' = p)
    BY <1>1, <2>1 DEF OwnersInv, Remain, Knows, Doing, SamePerson
  <2> QED BY <2>1
<1>4. Matched'
  <2>1. ASSUME NEW k \in Sessions, session'[k] # Absent
        PROVE  /\ session'[k].user \in Ids(user)'
               /\ <<user'[session'[k].user].provider, user'[session'[k].user].subject>>
                    = session'[k].who
    BY <1>1, <2>1 DEF OwnersInv, Remain, Matched, SamePerson
  <2> QED BY <2>1 DEF Matched
<1> QED BY <1>3, <1>4 DEF OwnersInv

(* Nothing changes about accounts, or sessions end.                        *)
LEMMA QuietRemain ==
  ASSUME OwnersInv, TypeOK', user' = user,
         \A k \in Sessions : session'[k] # Absent => session'[k] = session[k]
  PROVE  Remain
<1>1. Ids(user)' = Ids(user)
  BY DEF Ids
<1>2. \A p \in Reqs : Doing(p, "known") => req[p].id \in Ids(user)
  BY DEF OwnersInv, Knows
<1>3. \A k \in Sessions : session[k] # Absent => session[k].user \in Ids(user)
  BY DEF OwnersInv, Matched
<1> QED BY <1>1, <1>2, <1>3 DEF Remain, SamePerson

LEMMA RevokedSessions ==
  ASSUME NEW us, session' \in {session, Revoked(us)}, NEW k \in Sessions, session'[k] # Absent
  PROVE  session'[k] = session[k] /\ (session' = Revoked(us) => session[k].user \notin us)
BY DEF Revoked

(* A step of r as the others see it.                                       *)
LEMMA OwnStep ==
  ASSUME OwnersInv, TypeOK', Remain, NEW r \in Reqs, NEW q, Goes(r, q), Knows(r)',
         writer' = writer \/ writer \in {NoReq, r}
  PROVE  OwnersInv'
<1>1. ASSUME NEW p \in Reqs, p # r
      PROVE  req'[p] = req[p] /\ (Doing(p, "new") => writer' = p)
  BY <1>1, AccountsAssumption DEF OwnersInv, TypeOK, Goes, Knows
<1> QED BY <1>1, RemainKeeps

(* A step that ends the request of r, or goes on with one that is neither  *)
(* that of a sign-in nor of an edited account.                             *)
LEMMA PlainStep ==
  ASSUME OwnersInv, TypeOK', Remain, NEW r \in Reqs, NEW q, Goes(r, q),
         q.op \notin {"editUser", "known", "new"},
         writer' = writer \/ writer \in {NoReq, r}
  PROVE  OwnersInv'
<1>1. req'[r] = q
  BY DEF OwnersInv, TypeOK, Goes
<1>2. Knows(r)'
  BY <1>1 DEF Knows, Doing
<1> QED BY <1>2, OwnStep

LEMMA ChangedPerson ==
  ASSUME NEW row \in UserRow, NEW seen, NEW new, SamePerson(seen, new)
  PROVE  SamePerson(Changed(row, seen, new), row)
BY DEF UserRow, Changed, SamePerson

LEMMA UpdatedPeople ==
  ASSUME TypeOK, TypeOK', NEW i, NEW seen \in UserRow, NEW new \in UserRow,
         SamePerson(seen, new), user' = Update(user, i, seen, new)
  PROVE  /\ \A u \in UserIds : u \in Ids(user)' => u \in Ids(user) /\ SamePerson(user'[u], user[u])
         /\ Ids(user) \subseteq Ids(user)'
<1>1. user \in [UserIds -> UserRow \cup {Absent}] /\ user' \in [UserIds -> UserRow \cup {Absent}]
  BY DEF TypeOK, Table
<1>2. ASSUME NEW u \in UserIds, user[u] = Absent PROVE user'[u] = Absent
  BY <1>1, <1>2 DEF Update
<1>3. ASSUME NEW u \in UserIds, user[u] # Absent
      PROVE  SamePerson(user'[u], user[u]) /\ user'[u] \in UserRow
  <2>1. user[u] \in UserRow
    BY <1>1, <1>3
  <2>2. user'[u] = (IF u = i THEN Changed(user[u], seen, new) ELSE user[u])
    BY <1>1, <1>3 DEF Update
  <2> QED BY <2>1, <2>2, ChangedPerson, UserChanged DEF SamePerson
<1>4. Absent \notin UserRow
  BY AbsentAssumption
<1> QED BY <1>1, <1>2, <1>3, <1>4 DEF Ids

LEMMA OwnersBegin ==
  ASSUME OwnersInv, TypeOK', NEW r \in Reqs, Begin(r)
  PROVE  OwnersInv'
<1>1. UNCHANGED <<user, session, writer>>
  BY DEF Begin, BeginEditProvider, BeginDeleteProvider, BeginSignIn, BeginEditEntry,
         BeginRemoveEntry, BeginEditUser, BeginDeleteUser, BeginSetup, ReadsOnly, rowVars
<1>2. Remain
  BY <1>1, QuietRemain
<1>3. ASSUME NEW u \in UserIds, NEW active \in BOOLEAN, BeginEditUser(r, u, active)
      PROVE  OwnersInv'
  <2> DEFINE new == [user[u] EXCEPT !.active = active]
             q == [op |-> "editUser", id |-> u, seen |-> user[u], new |-> new]
  <2>1. user[u] \in UserRow
    BY <1>3, AbsentAssumption DEF BeginEditUser, OwnersInv, TypeOK, Table, Ids
  <2>2. SamePerson(user[u], new)
    BY <2>1 DEF SamePerson, UserRow
  <2>3. Goes(r, q)
    BY <1>3 DEF BeginEditUser
  <2>4. req'[r] = q
    BY <2>3 DEF OwnersInv, TypeOK, Goes
  <2>5. q.op = "editUser" /\ q.seen = user[u] /\ q.new = new
    OBVIOUS
  <2> HIDE DEF q, new
  <2>6. Knows(r)'
    BY <2>2, <2>4, <2>5 DEF Knows, Doing, SamePerson
  <2> QED BY <1>1, <1>2, <2>3, <2>6, OwnStep
<1>4. ASSUME NEW q, Goes(r, q), q.op \notin {"editUser", "known", "new"} PROVE OwnersInv'
  BY <1>1, <1>2, <1>4, PlainStep
<1>5. \/ \E u \in UserIds, active \in BOOLEAN : BeginEditUser(r, u, active)
      \/ \E q : Goes(r, q) /\ q.op \notin {"editUser", "known", "new"}
  <2>1. CASE \E p \in ProviderIds, asks \in SUBSET Wishes : BeginEditProvider(r, p, asks)
    <3>1. PICK p \in ProviderIds, asks \in SUBSET Wishes :
            Goes(r, [op |-> "editProvider", id |-> p, asks |-> asks, seen |-> provider[p]])
      BY <2>1 DEF BeginEditProvider
    <3> QED BY <3>1
  <2>2. CASE \E p \in ProviderIds : BeginDeleteProvider(r, p)
    <3>1. PICK p \in ProviderIds : Goes(r, [op |-> "deleteProvider", id |-> p])
      BY <2>2 DEF BeginDeleteProvider
    <3> QED BY <3>1
  <2>3. CASE \E p \in ProviderIds, s \in Subjects, m \in Emails : BeginSignIn(r, p, s, m)
    <3>1. PICK p \in ProviderIds, s \in Subjects, m \in Emails :
            Goes(r, [op |-> "token", provider |-> p, subject |-> s, email |-> m])
      BY <2>3 DEF BeginSignIn
    <3> QED BY <3>1
  <2>4. CASE \E e \in EntryIds, admin \in BOOLEAN : BeginEditEntry(r, e, admin)
    <3>1. PICK e \in EntryIds, admin \in BOOLEAN :
            Goes(r, [op |-> "editEntry", id |-> e, seen |-> entry[e],
                     new |-> [entry[e] EXCEPT !.admin = admin]])
      BY <2>4 DEF BeginEditEntry
    <3> QED BY <3>1
  <2>5. CASE \E e \in EntryIds : BeginRemoveEntry(r, e)
    <3>1. PICK e \in EntryIds : Goes(r, [op |-> "removeEntry", id |-> e, seen |-> entry[e]])
      BY <2>5 DEF BeginRemoveEntry
    <3> QED BY <3>1
  <2>6. CASE \E u \in UserIds : BeginDeleteUser(r, u)
    <3>1. PICK u \in UserIds : Goes(r, [op |-> "deleteUser", id |-> u])
      BY <2>6 DEF BeginDeleteUser
    <3> QED BY <3>1
  <2>7. CASE BeginSetup(r)
    <3> DEFINE seen == [enabled |-> \E p \in Primaries : provider[p].enabled,
                        primary |-> Primaries # {}]
               q == [op |-> "setup", existing |-> Primaries, seen |-> seen]
    <3>1. Goes(r, q)
      BY <2>7 DEF BeginSetup
    <3>2. q.op = "setup"
      OBVIOUS
    <3> HIDE DEF q
    <3> QED BY <3>1, <3>2
  <2> QED BY <2>1, <2>2, <2>3, <2>4, <2>5, <2>6, <2>7 DEF Begin
<1> QED BY <1>3, <1>4, <1>5

LEMMA OwnersContinue ==
  ASSUME OwnersInv, TypeOK', NEW r \in Reqs, Continue(r)
  PROVE  OwnersInv'
<1>0. UNCHANGED <<user, session>> /\ (writer' = writer \/ writer \in {NoReq, r})
  BY DEF Continue, FindForEdit, FindForRemoval, AdmitKnown, AdmitNew, SetupProvider,
         ReadsOnly, rowVars
<1>1. Remain
  BY <1>0, QuietRemain
<1>2. ASSUME AdmitKnown(r) PROVE OwnersInv'
  <2>1. PICK e \in EntriesFor(req[r].provider, req[r].email),
             u \in AccountsOf(req[r].provider, req[r].subject) :
          Goes(r, [op |-> "known", id |-> u, seen |-> user[u],
                   new |-> [user[u] EXCEPT !.admin = entry[e].admin,
                                           !.active = TRUE, !.email = req[r].email]])
    BY <1>2 DEF AdmitKnown
  <2> DEFINE new == [user[u] EXCEPT !.admin = entry[e].admin,
                                    !.active = TRUE, !.email = req[r].email]
             q == [op |-> "known", id |-> u, seen |-> user[u], new |-> new]
  <2>2. u \in Ids(user) /\ user[u] \in UserRow
    BY AbsentAssumption DEF AccountsOf, OwnersInv, TypeOK, Table, Ids
  <2>3. SamePerson(user[u], new)
    BY <2>2 DEF SamePerson, UserRow
  <2>4. req'[r] = q /\ Goes(r, q)
    BY <2>1 DEF OwnersInv, TypeOK, Goes
  <2>5. q.op = "known" /\ q.id = u /\ q.seen = user[u] /\ q.new = new
    OBVIOUS
  <2> HIDE DEF q, new
  <2>6. Knows(r)'
    BY <1>0, <2>2, <2>3, <2>4, <2>5 DEF Knows, Doing, Ids
  <2> QED BY <1>0, <1>1, <2>4, <2>6, OwnStep
<1>3. ASSUME NEW u \in UserIds, AdmitNew(r, u) PROVE OwnersInv'
  <2>1. PICK row : Goes(r, [op |-> "new", id |-> u, seen |-> row, new |-> row])
    BY <1>3 DEF AdmitNew
  <2> DEFINE q == [op |-> "new", id |-> u, seen |-> row, new |-> row]
  <2>2. req'[r] = q /\ Goes(r, q)
    BY <2>1 DEF OwnersInv, TypeOK, Goes
  <2>3. q.op = "new" /\ q.id = u
    OBVIOUS
  <2> HIDE DEF q
  <2>4. u \notin Ids(user) /\ writer' = r
    BY <1>3 DEF AdmitNew, Follows, UserIds
  <2>5. Knows(r)'
    BY <1>0, <2>2, <2>3, <2>4 DEF Knows, Doing, Ids
  <2> QED BY <1>0, <1>1, <2>2, <2>5, OwnStep
<1>4. ASSUME NEW q, Goes(r, q), q.op \notin {"editUser", "known", "new"} PROVE OwnersInv'
  BY <1>0, <1>1, <1>4, PlainStep
<1>5. \/ AdmitKnown(r) \/ \E u \in UserIds : AdmitNew(r, u)
      \/ \E q : Goes(r, q) /\ q.op \notin {"editUser", "known", "new"}
  <2>1. CASE FindForEdit(r)
    <3>1. PICK q, found : Goes(r, [op |-> "editFound", id |-> q.id, seen |-> q.seen,
                                   new |-> q.new, found |-> found,
                                   snap |-> \E u \in found : user[u].admin])
      BY <2>1 DEF FindForEdit
    <3> DEFINE snap == \E u \in found : user[u].admin
    <3>2. Goes(r, [op |-> "editFound", id |-> q.id, seen |-> q.seen,
                   new |-> q.new, found |-> found, snap |-> snap])
      BY <3>1
    <3> HIDE DEF snap
    <3> QED BY <3>2
  <2>2. CASE FindForRemoval(r)
    <3>1. PICK q, found : Goes(r, [op |-> "removeFound", id |-> q.id, found |-> found,
                                   snap |-> \E u \in found : user[u].active])
      BY <2>2 DEF FindForRemoval
    <3> DEFINE snap == \E u \in found : user[u].active
    <3>2. Goes(r, [op |-> "removeFound", id |-> q.id, found |-> found, snap |-> snap])
      BY <3>1
    <3> HIDE DEF snap
    <3> QED BY <3>2
  <2>4. CASE \E p \in ProviderIds, n \in ProviderIds \cup {0} : SetupProvider(r, p, n)
    <3>1. PICK p, n, seen : Goes(r, [op |-> "admins", id |-> p, keeps |-> n,
                                     seen |-> seen, new |-> SetupRow])
      BY <2>4 DEF SetupProvider
    <3> QED BY <3>1
  <2> QED BY <2>1, <2>2, <2>4 DEF Continue
<1> QED BY SMTT(30), <1>2, <1>3, <1>4, <1>5

(* A commit that changes columns of accounts or deletes them, and revokes. *)
LEMMA ChangesRemain ==
  ASSUME OwnersInv, TypeOK', NEW us, session' \in {session, Revoked(us)},
         \A u \in UserIds : u \in Ids(user)' =>
           u \in Ids(user) /\ SamePerson(user'[u], user[u]),
         \A u \in Ids(user) : u \in Ids(user)' \/ (u \in us /\ session' = Revoked(us)),
         \A p \in Reqs : Doing(p, "known") /\ req'[p] = req[p] => req[p].id \in Ids(user)'
  PROVE  Remain
<1>1. ASSUME NEW k \in Sessions, session'[k] # Absent
      PROVE  session'[k] = session[k] /\ session[k].user \in Ids(user)'
  <2>1. session'[k] = session[k] /\ (session' = Revoked(us) => session[k].user \notin us)
    BY <1>1, RevokedSessions
  <2>2. session[k].user \in Ids(user)
    BY <1>1, <2>1 DEF OwnersInv, Matched
  <2> QED BY <2>1, <2>2
<1> QED BY <1>1 DEF Remain

(* The flags of the account of an entry.                                   *)
LEMMA FlagsRemain ==
  ASSUME OwnersInv, TypeOK', NEW us, session' = Revoked(us),
         user' \in [UserIds -> UserRow \cup {Absent}],
         \A u \in UserIds :
           \/ user'[u] = user[u]
           \/ u \in Ids(user) /\ user'[u] \in UserRow /\ SamePerson(user'[u], user[u])
  PROVE  Remain
<1>1. \A u \in UserIds : u \in Ids(user)' => u \in Ids(user) /\ SamePerson(user'[u], user[u])
  BY DEF OwnersInv, TypeOK, Table, Ids, SamePerson
<1>2. \A u \in Ids(user) : u \in Ids(user)'
  BY AbsentAssumption DEF OwnersInv, TypeOK, Table, Ids
<1>3. \A p \in Reqs : Doing(p, "known") => req[p].id \in Ids(user)'
  BY <1>2 DEF OwnersInv, Knows
<1> QED BY <1>1, <1>2, <1>3, ChangesRemain

LEMMA OwnersSignedIn ==
  ASSUME OwnersInv, TypeOK', NEW r \in Reqs, NEW k \in Sessions, SignedIn(r, k)
  PROVE  OwnersInv'
<1> DEFINE q == req[r]
<1>1. q.id \in UserIds /\ q.seen \in UserRow /\ q.new \in UserRow
  BY Fields DEF SignedIn, OwnersInv
<1>2. /\ Goes(r, Idle) /\ writer' = NoReq /\ writer \in {NoReq, r}
      /\ session' = [session EXCEPT ![k] =
           [user |-> q.id, who |-> <<q.new.provider, q.new.subject>>]]
  BY DEF SignedIn, Done, MayCommit
<1>3. /\ user \in [UserIds -> UserRow \cup {Absent}] /\ user' \in [UserIds -> UserRow \cup {Absent}]
      /\ session \in [Sessions -> SessionRow \cup {Absent}]
  BY DEF OwnersInv, TypeOK, Table
(* The account is there, the person's, and old accounts are whose they were. *)
<1>4. /\ q.id \in Ids(user)' /\ SamePerson(user'[q.id], q.new)
      /\ Ids(user) \subseteq Ids(user)'
      /\ \A u \in Ids(user) : SamePerson(user'[u], user[u])
  <2>1. CASE Doing(r, "known")
    <3>1. q.id \in Ids(user) /\ user' = Update(user, q.id, q.seen, q.new)
      BY <2>1 DEF SignedIn
    <3>2. SamePerson(q.seen, q.new) /\ SamePerson(user[q.id], q.new)
      BY <2>1, <3>1 DEF OwnersInv, Knows, Doing
    <3>3. /\ \A u \in UserIds : u \in Ids(user)' => u \in Ids(user) /\ SamePerson(user'[u], user[u])
          /\ Ids(user) \subseteq Ids(user)'
      BY <1>1, <3>1, <3>2, UpdatedPeople DEF OwnersInv
    <3>4. Ids(user)' \subseteq UserIds /\ Ids(user) \subseteq UserIds
      BY <1>3 DEF Ids
    <3>5. q.id \in Ids(user)' /\ SamePerson(user'[q.id], q.new)
      BY <1>1, <3>1, <3>2, <3>3 DEF SamePerson
    <3> QED BY <3>3, <3>4, <3>5
  <2>2. CASE Doing(r, "new")
    <3>1. user' = [user EXCEPT ![q.id] = q.new] /\ q.id \notin Ids(user)
      BY <2>2 DEF SignedIn, Doing, OwnersInv, Knows
    <3>2. q.new # Absent
      BY <1>1, AbsentAssumption
    <3>3. user'[q.id] = q.new /\ \A u \in UserIds : u # q.id => user'[u] = user[u]
      BY <1>1, <1>3, <3>1
    <3> QED BY <1>1, <1>3, <3>1, <3>2, <3>3 DEF SamePerson, Ids
  <2> QED BY <2>1, <2>2 DEF SignedIn, Doing
<1>5. ASSUME NEW p \in Reqs PROVE Knows(p)'
  <2>1. CASE p = r
    <3>1. req'[p] = Idle
      BY <1>2, <2>1 DEF Goes, OwnersInv, TypeOK
    <3> QED BY <3>1 DEF Knows, Doing, Idle
  <2>2. CASE p # r
    <3>1. req'[p] = req[p] /\ Knows(p)
      BY <1>2, <2>2 DEF Goes, OwnersInv, TypeOK
    <3>2. ~Doing(p, "new")
      BY <1>2, <2>2, <3>1, AccountsAssumption DEF Knows
    <3>3. ASSUME Doing(p, "known")
          PROVE  /\ req[p].id \in Ids(user)'
                 /\ SamePerson(user'[req[p].id], req[p].new)
      BY <1>4, <3>1, <3>3 DEF Knows, SamePerson
    <3> QED BY <3>1, <3>2, <3>3 DEF Knows, Doing
  <2> QED BY <2>1, <2>2
<1>6. Matched'
  <2>1. ASSUME NEW j \in Sessions, session'[j] # Absent
        PROVE  /\ session'[j].user \in Ids(user)'
               /\ <<user'[session'[j].user].provider, user'[session'[j].user].subject>>
                    = session'[j].who
    <3>1. CASE j = k
      <4>1. /\ session'[j].user = q.id
            /\ session'[j].who = <<q.new.provider, q.new.subject>>
        BY <1>2, <1>3, <3>1
      <4> QED BY <1>4, <4>1 DEF SamePerson
    <3>2. CASE j # k
      <4>1. session'[j] = session[j]
        BY <1>2, <1>3, <3>2
      <4>2. /\ session[j].user \in Ids(user)
            /\ <<user[session[j].user].provider, user[session[j].user].subject>> = session[j].who
        BY <2>1, <4>1 DEF OwnersInv, Matched
      <4> QED BY <1>4, <4>1, <4>2 DEF SamePerson
    <3> QED BY <3>1, <3>2
  <2> QED BY <2>1 DEF Matched
<1> QED BY <1>5, <1>6 DEF OwnersInv

LEMMA OwnersCommit ==
  ASSUME OwnersInv, TypeOK', NEW r \in Reqs, Commit(r), "owner" \notin raced'
  PROVE  OwnersInv'
<1>0. /\ user \in [UserIds -> UserRow \cup {Absent}] /\ user' \in [UserIds -> UserRow \cup {Absent}]
      /\ Absent \notin UserRow
  BY AbsentAssumption DEF OwnersInv, TypeOK, Table
<1>1. ASSUME Goes(r, Idle), writer' = NoReq, writer \in {NoReq, r}, Remain
      PROVE  OwnersInv'
  BY <1>1, PlainStep DEF Idle
<1>2. ASSUME Goes(r, Idle), writer' = NoReq, writer \in {NoReq, r},
             UNCHANGED <<user, session>>
      PROVE  OwnersInv'
  BY <1>1, <1>2, QuietRemain
<1>3. CASE CommitEditProvider(r) \/ CommitDeleteProvider(r)
           \/ \E e \in EntryIds, m \in Emails : CommitSetup(r, e, m)
  BY <1>2, <1>3 DEF CommitEditProvider, CommitDeleteProvider, CommitSetup, Done, MayCommit
<1>4. CASE CommitEditEntry(r)
  <2> DEFINE q == req[r]
             sets == q.new.admin # q.snap
  <2>1. /\ q.found \in SUBSET UserIds /\ q.new.admin \in BOOLEAN
    BY <1>4, Fields DEF CommitEditEntry, Doing, OwnersInv, EntryRow
  <2>2. /\ sets => q.found \subseteq Ids(user)
        /\ user' = [u \in UserIds |->
             IF u \in q.found /\ sets THEN [user[u] EXCEPT !.admin = q.new.admin]
                                       ELSE user[u]]
        /\ session' = Revoked(q.found)
        /\ Goes(r, Idle) /\ writer' = NoReq /\ writer \in {NoReq, r}
    BY <1>4 DEF CommitEditEntry, Done, MayCommit
  <2>3. ASSUME NEW u \in UserIds, user'[u] # user[u]
        PROVE  u \in Ids(user) /\ user'[u] \in UserRow /\ SamePerson(user'[u], user[u])
    <3> HIDE DEF sets
    <3>1. u \in q.found /\ sets /\ user'[u] = [user[u] EXCEPT !.admin = q.new.admin]
      BY <2>2, <2>3
    <3>2. u \in Ids(user) /\ user[u] \in UserRow
      BY <1>0, <2>2, <3>1 DEF Ids
    <3> QED BY <2>1, <3>1, <3>2 DEF SamePerson, UserRow
  <2>4. Remain
    BY <1>0, <2>2, <2>3, FlagsRemain
  <2> QED BY <1>1, <2>2, <2>4
<1>5. CASE CommitRemoveEntry(r)
  <2> DEFINE q == req[r]
  <2>1. q.found \in SUBSET UserIds /\ q.snap \in BOOLEAN
    BY <1>5, Fields DEF CommitRemoveEntry, Doing, OwnersInv
  <2>2. /\ q.snap => q.found \subseteq Ids(user)
        /\ user' = [u \in UserIds |->
             IF u \in q.found /\ q.snap THEN [user[u] EXCEPT !.active = FALSE]
                                         ELSE user[u]]
        /\ session' = Revoked(q.found)
        /\ Goes(r, Idle) /\ writer' = NoReq /\ writer \in {NoReq, r}
    BY <1>5 DEF CommitRemoveEntry, Done, MayCommit
  <2>3. ASSUME NEW u \in UserIds, user'[u] # user[u]
        PROVE  u \in Ids(user) /\ user'[u] \in UserRow /\ SamePerson(user'[u], user[u])
    <3>1. u \in q.found /\ q.snap /\ user'[u] = [user[u] EXCEPT !.active = FALSE]
      BY <2>2, <2>3
    <3>2. u \in Ids(user) /\ user[u] \in UserRow
      BY <1>0, <2>2, <3>1 DEF Ids
    <3> QED BY <2>1, <3>1, <3>2 DEF SamePerson, UserRow
  <2>4. Remain
    BY <1>0, <2>2, <2>3, FlagsRemain
  <2> QED BY <1>1, <2>2, <2>4
<1>6. CASE CommitEditUser(r)
  <2> DEFINE q == req[r]
  <2>1. q.seen \in UserRow /\ q.new \in UserRow /\ SamePerson(q.seen, q.new)
    BY <1>6, Fields DEF CommitEditUser, Doing, OwnersInv, Knows
  <2>2. /\ user' = Update(user, q.id, q.seen, q.new)
        /\ session' \in {session, Revoked({q.id})}
        /\ Goes(r, Idle) /\ writer' = NoReq /\ writer \in {NoReq, r}
    BY <1>6 DEF CommitEditUser, Done, MayCommit
  <2>3. /\ \A u \in UserIds : u \in Ids(user)' => u \in Ids(user) /\ SamePerson(user'[u], user[u])
        /\ Ids(user) \subseteq Ids(user)'
    BY <2>1, <2>2, UpdatedPeople DEF OwnersInv
  <2>4. \A p \in Reqs : Doing(p, "known") => req[p].id \in Ids(user)'
    BY <2>3 DEF OwnersInv, Knows
  <2>5. Remain
    BY <2>2, <2>3, <2>4, ChangesRemain
  <2> QED BY <1>1, <2>2, <2>5
<1>7. CASE CommitDeleteUser(r)
  <2> DEFINE i == req[r].id
  <2>1. /\ user' = [user EXCEPT ![i] = Absent]
        /\ session' = Revoked({i})
        /\ Goes(r, Idle) /\ writer' = NoReq /\ writer \in {NoReq, r}
    BY <1>7 DEF CommitDeleteUser, Delete, Done, MayCommit
  <2>2. /\ \A u \in UserIds : u \in Ids(user)' => u \in Ids(user) /\ SamePerson(user'[u], user[u])
        /\ \A u \in Ids(user) : u \in Ids(user)' \/ u \in {i}
    BY <1>0, <2>1 DEF Ids, SamePerson
  <2> DEFINE us == {i}
  <2>3. /\ session' \in {session, Revoked(us)}
        /\ \A u \in Ids(user) : u \in Ids(user)' \/ (u \in us /\ session' = Revoked(us))
    BY <2>1, <2>2
  <2>4. ASSUME NEW p \in Reqs, Doing(p, "known"), req'[p] = req[p]
        PROVE  req[p].id \in Ids(user)'
    <3>1. p # r
      BY <1>7, <2>4 DEF CommitDeleteUser, Doing
    <3>2. ~DeletesOwner(req[r], req[p])
      BY <3>1, NotTaken DEF Claims, TakesAway
    <3>3. req[p].id # i
      BY <1>7, <2>4, <3>2 DEF DeletesOwner, CommitDeleteUser, Doing
    <3>4. req[p].id \in Ids(user)
      BY <2>4 DEF OwnersInv, Knows
    <3> QED BY <1>0, <2>1, <3>3, <3>4 DEF Ids
  <2> HIDE DEF us
  <2>5. Remain
    BY <2>2, <2>3, <2>4, ChangesRemain
  <2> QED BY <1>1, <2>1, <2>5
<1>8. CASE \E k \in Sessions : SignedIn(r, k)
  BY <1>8, OwnersSignedIn
<1> QED BY <1>3, <1>4, <1>5, <1>6, <1>7, <1>8 DEF Commit

LEMMA OwnersImmediate == ASSUME OwnersInv, TypeOK', Immediate PROVE OwnersInv'
<1>1. /\ UNCHANGED <<user, req, writer>>
      /\ \A k \in Sessions : session'[k] # Absent => session'[k] = session[k]
  <2>1. CASE \E p \in ProviderIds, enabled \in BOOLEAN, primary \in BOOLEAN :
               CreateProvider(p, enabled, primary)
    BY <2>1 DEF CreateProvider
  <2>2. CASE \E e \in EntryIds, p \in ProviderIds, m \in Emails, admin \in BOOLEAN :
               AddToAllowlist(e, p, m, admin)
    BY <2>2 DEF AddToAllowlist
  <2>3. CASE \E u \in UserIds : RevokeSessions(u)
    BY <2>3, RevokedSessions DEF RevokeSessions
  <2>4. CASE \E k \in Sessions : EndSession(k)
    BY <2>4 DEF EndSession, OwnersInv, TypeOK, Table
  <2> QED BY <2>1, <2>2, <2>3, <2>4 DEF Immediate
<1>2. Remain
  BY <1>1, QuietRemain
<1>3. \A p \in Reqs : req'[p] = req[p] /\ (Doing(p, "new") => writer' = p)
  BY <1>1 DEF OwnersInv, Knows
<1> QED BY <1>2, <1>3, RemainKeeps

LEMMA OwnersInductive ==
  ASSUME OwnersInv, [Next]_vars, "owner" \notin raced' PROVE OwnersInv'
<1>0. TypeOK'
  BY NextType DEF OwnersInv
<1>1. CASE Immediate
  BY <1>0, <1>1, OwnersImmediate
<1>2. ASSUME NEW r \in Reqs, Begin(r) PROVE OwnersInv'
  BY <1>0, <1>2, OwnersBegin
<1>3. ASSUME NEW r \in Reqs, Continue(r) PROVE OwnersInv'
  BY <1>0, <1>3, OwnersContinue
<1>4. ASSUME NEW r \in Reqs, Commit(r) PROVE OwnersInv'
  BY <1>0, <1>4, OwnersCommit
<1>5. ASSUME NEW r \in Reqs, Fails(r) PROVE OwnersInv'
  <2>1. /\ Goes(r, Idle) /\ UNCHANGED <<user, session>>
        /\ writer' = writer \/ writer \in {NoReq, r}
    BY <1>5 DEF Fails, rowVars
  <2>2. Remain
    BY <1>0, <2>1, QuietRemain
  <2> QED BY <1>0, <2>1, <2>2, PlainStep DEF Idle
<1>6. CASE UNCHANGED vars
  <2>1. UNCHANGED <<user, session, req, writer>>
    BY <1>6 DEF vars
  <2>2. Remain
    BY <1>0, <2>1, QuietRemain
  <2>3. \A p \in Reqs : req'[p] = req[p] /\ (Doing(p, "new") => writer' = p)
    BY <2>1 DEF OwnersInv, Knows
  <2> QED BY <1>0, <2>2, <2>3, RemainKeeps
<1> QED BY <1>1, <1>2, <1>3, <1>4, <1>5, <1>6 DEF Next

(* SEC-34: a session is always one of the account of the person who signed *)
(* in, unless the account of a sign-in has been deleted under it.          *)
THEOREM SessionsOfTheirOwners == Spec => []SessionsAreTheirOwners
<1> DEFINE Claim == TypeOK /\ ("owner" \notin raced => OwnersInv)
<1>1. Init => Claim
  BY OwnersInit DEF OwnersInv
<1>2. Claim /\ [Next]_vars => Claim'
  BY OwnersInductive, RacesStay, NextType
<1>3. Claim => SessionsAreTheirOwners
  BY DEF OwnersInv, Matched, SessionsAreTheirOwners
<1> QED BY <1>1, <1>2, <1>3, PTL DEF Spec

-----------------------------------------------------------------------------
(* There is always a primary provider                                      *)

(* Who is about to write to a provider, and needs to know that it is the   *)
(* primary one or is not, knows it.                                        *)
Settled(q) ==
  /\ q.op = "editProvider" =>
       /\ "primary" \in q.asks /\ q.seen.primary => q.id \in Primaries
       /\ "disable" \in q.asks => q.id \notin Primaries /\ "primary" \notin q.asks
  /\ q.op = "deleteProvider" => q.id \notin Primaries
  /\ q.op = "setup" => q.existing # {} /\ q.existing \subseteq Primaries
  /\ q.op = "admins" =>
       /\ q.id \in Primaries /\ q.new = SetupRow
       /\ q.seen.primary => q.keeps = q.id

PlaceInv == TypeOK /\ Locks /\ Primaries # {} /\ \A r \in Reqs : Settled(req[r])

(* What a commit c may do to the flags: nothing, or it makes its provider  *)
(* primary and takes the flag from others.                                 *)
Moves(i) == i \in Primaries' /\ Primaries' \subseteq Primaries \cup {i}
Moved(c) == Primaries' = Primaries \/ (MakesPrimary(c) /\ Moves(c.id))

(* One step of PrimaryStays.                                               *)
PrimaryKept ==
  \A p \in Primaries :
    p \in Ids(provider)' /\ (provider[p].enabled => provider'[p].enabled)

LEMMA PlaceInit == Init => PlaceInv
<1> SUFFICES ASSUME Init PROVE PlaceInv
  OBVIOUS
<1>1. \A r \in Reqs : Settled(req[r])
  BY DEF Init, Idle, Settled
<1>2. 1 \in ProviderIds
  BY AccountsAssumption DEF ProviderIds
<1>3. [enabled |-> TRUE, primary |-> TRUE] # Absent
  <2>1. [enabled |-> TRUE, primary |-> TRUE] \in ProviderRow
    BY DEF ProviderRow
  <2> QED BY <2>1, AbsentAssumption
<1>4. 1 \in Primaries
  BY <1>2, <1>3 DEF Init, Primaries, Ids
<1> QED BY <1>1, <1>4, LocksInit, InitType DEF PlaceInv

LEMMA SameProviders ==
  ASSUME PlaceInv, TypeOK', Locks', provider' = provider,
         \A p \in Reqs : Settled(req'[p])
  PROVE  PlaceInv' /\ PrimaryKept
<1>1. Primaries' = Primaries
  BY DEF Primaries, Ids
<1>2. \A p \in Reqs : Settled(req[p])'
  BY <1>1 DEF Settled
<1>3. PrimaryKept
  BY DEF PrimaryKept, Primaries, Ids
<1> QED BY <1>1, <1>2, <1>3 DEF PlaceInv

(* A step that leaves the providers alone.                                 *)
LEMMA PlaceStays ==
  ASSUME PlaceInv, TypeOK', Locks', provider' = provider,
         NEW r \in Reqs, NEW q, Goes(r, q), Settled(q)
  PROVE  PlaceInv' /\ PrimaryKept
<1>1. req'[r] = q /\ \A p \in Reqs : p # r => req'[p] = req[p]
  BY DEF PlaceInv, TypeOK, Goes
<1>2. \A p \in Reqs : Settled(req'[p])
  BY <1>1 DEF PlaceInv
<1> QED BY <1>2, SameProviders

(* Who is not overtaken by a commit knows what it knew.                    *)
LEMMA StaysSettled ==
  ASSUME NEW c, NEW p \in Reqs, Settled(req[p]), ~Doing(p, "admins"), req'[p] = req[p],
         Moved(c), ~TakesAway("primary", c, req[p])
  PROVE  Settled(req[p])'
<1> DEFINE q == req[p]
<1>0. Settled(q) /\ q.op # "admins" /\ ~TakesAway("primary", c, q) /\ req'[p] = q
  BY DEF Doing
<1> HIDE DEF q
<1>1. CASE Primaries' = Primaries
  BY <1>0, <1>1 DEF Settled
<1>2. CASE MakesPrimary(c) /\ Moves(c.id)
  <2> DEFINE i == c.id
  <2>1. ~CountsOnOther(q, i) /\ i \in Primaries' /\ Primaries' \subseteq Primaries \cup {i}
    BY <1>0, <1>2 DEF TakesAway, Moves
  <2> HIDE DEF i
  <2>2. q.op = "setup" => q.existing # {} /\ q.existing \subseteq Primaries'
    BY <1>0, <2>1 DEF CountsOnOther, Settled
  <2>3. q.op = "deleteProvider" => q.id \notin Primaries'
    BY <1>0, <2>1 DEF CountsOnOther, Settled
  <2>4. q.op = "editProvider" =>
          /\ "primary" \in q.asks /\ q.seen.primary => q.id \in Primaries'
          /\ "disable" \in q.asks => q.id \notin Primaries' /\ "primary" \notin q.asks
    BY <1>0, <2>1 DEF CountsOnOther, Settled
  <2> QED BY <1>0, <2>2, <2>3, <2>4 DEF Settled
<1> QED BY <1>1, <1>2 DEF Moved

LEMMA PlaceMoves ==
  ASSUME PlaceInv, TypeOK', Locks', NEW r \in Reqs, Commit(r), Moved(req[r]),
         "primary" \notin raced'
  PROVE  PlaceInv'
<1>0. TypeOK /\ Goes(r, Idle) /\ writer' = NoReq /\ writer \in {NoReq, r}
  BY CommitRaces DEF PlaceInv
<1>1. ASSUME NEW p \in Reqs PROVE Settled(req[p])'
  <2>1. CASE p = r
    <3>1. req'[p] = Idle
      BY <1>0, <2>1 DEF TypeOK, Goes
    <3> QED BY <3>1 DEF Idle, Settled
  <2>2. CASE p # r
    <3>1. req'[p] = req[p] /\ Settled(req[p]) /\ req[p].op # "admins"
      BY <1>0, <2>2, AccountsAssumption DEF PlaceInv, TypeOK, Goes, Locks, Doing
    <3>2. ~TakesAway("primary", req[r], req[p])
      BY <2>2, NotTaken DEF Claims
    <3> QED BY <3>1, <3>2, StaysSettled DEF Doing
  <2> QED BY <2>1, <2>2
<1>2. Primaries' # {}
  BY DEF Moved, Moves, PlaceInv
<1> QED BY <1>1, <1>2 DEF PlaceInv

LEMMA PrimaryRows ==
  ASSUME TypeOK
  PROVE  /\ provider \in [ProviderIds -> ProviderRow \cup {Absent}]
         /\ \A p \in Primaries : p \in ProviderIds /\ provider[p] \in ProviderRow
         /\ \A p : p \in Primaries <=> p \in ProviderIds /\ provider[p] # Absent
                                                         /\ provider[p].primary
BY DEF TypeOK, Table, Primaries, Ids

(* A row as it is after its columns have been written.                     *)
LEMMA WrittenRow ==
  ASSUME NEW table \in Table(ProviderIds, ProviderRow), NEW i \in ProviderIds,
         NEW p \in ProviderIds, NEW seen, NEW new, table[p] \in ProviderRow
  PROVE  LET row == Update(table, i, seen, new)[p] IN
         /\ row = IF p = i THEN Changed(table[p], seen, new) ELSE table[p]
         /\ row.enabled = IF p = i /\ new.enabled # seen.enabled THEN new.enabled
                                                                 ELSE table[p].enabled
         /\ row.primary = IF p = i /\ new.primary # seen.primary THEN new.primary
                                                                 ELSE table[p].primary
<1>1. table \in [ProviderIds -> ProviderRow \cup {Absent}] /\ table[p] # Absent
  BY AbsentAssumption DEF Table
<1>2. Update(table, i, seen, new)[p] = IF p = i THEN Changed(table[p], seen, new) ELSE table[p]
  BY <1>1 DEF Update
<1> QED BY <1>2 DEF Changed, ProviderRow

LEMMA KeptRow ==
  ASSUME TypeOK', NEW p \in ProviderIds, provider'[p] # Absent
  PROVE  p \in Ids(provider)' /\ (provider'[p].primary => p \in Primaries')
BY DEF TypeOK, Table, Ids, Primaries

(* _make_primary spares the row it is for, and only clears flags.          *)
LEMMA ClearedRow ==
  ASSUME TypeOK, NEW i, NEW p \in ProviderIds, provider[p] \in ProviderRow
  PROVE  /\ OthersCleared(i)[p] \in ProviderRow
         /\ OthersCleared(i)[p].enabled = provider[p].enabled
         /\ p = i => OthersCleared(i)[p] = provider[p]
<1>1. provider[p] # Absent
  BY AbsentAssumption
<1> QED BY <1>1 DEF OthersCleared, ProviderRow

LEMMA EditProviderPlace ==
  ASSUME PlaceInv, TypeOK', NEW r \in Reqs, CommitEditProvider(r)
  PROVE  Moved(req[r]) /\ PrimaryKept
<1> DEFINE i == req[r].id
           asks == req[r].asks
           seen == req[r].seen
           new == Asked(seen, asks)
           others == IF "primary" \in asks THEN OthersCleared(i) ELSE provider
<1>0. /\ TypeOK /\ i \in ProviderIds /\ seen \in ProviderRow
      /\ Applies(provider, i, seen, new) /\ provider' = Update(others, i, seen, new)
  BY Fields DEF PlaceInv, CommitEditProvider
<1>a. /\ "primary" \in asks /\ seen.primary => i \in Primaries
      /\ "disable" \in asks => i \notin Primaries /\ "primary" \notin asks
  BY DEF PlaceInv, Settled, CommitEditProvider, Doing
<1>b. /\ new.enabled \in {TRUE, seen.enabled} \/ "disable" \in asks
      /\ new.primary = (seen.primary \/ "primary" \in asks)
      /\ new.primary \in BOOLEAN /\ new \in ProviderRow
  BY <1>0 DEF Asked, ProviderRow
<1>c. others \in Table(ProviderIds, ProviderRow)
  BY <1>0, ClearedType DEF TypeOK
<1>d. ASSUME NEW p \in ProviderIds, provider[p] \in ProviderRow
      PROVE  /\ others[p] \in ProviderRow /\ others[p].enabled = provider[p].enabled
             /\ p = i \/ "primary" \notin asks => others[p] = provider[p]
  BY <1>0, <1>d, ClearedRow
<1> HIDE DEF i, asks, seen, new, others
<1>1. ASSUME NEW p \in ProviderIds, provider[p] \in ProviderRow
      PROVE  provider'[p] \in ProviderRow /\ provider'[p] # Absent
  <2>1. others[p] \in ProviderRow
    BY <1>1, <1>d
  <2>2. provider'[p] = IF p = i THEN Changed(others[p], seen, new) ELSE others[p]
    BY <1>0, <1>c, <2>1, WrittenRow
  <2> QED BY <1>0, <1>b, <2>1, <2>2, ProviderChanged, AbsentAssumption
<1>2. PrimaryKept
  <2>1. ASSUME NEW p \in Primaries, provider[p].enabled
        PROVE  provider'[p].enabled
    <3>1. p \in ProviderIds /\ provider[p] \in ProviderRow
      BY <1>0, PrimaryRows
    <3>2. others[p] \in ProviderRow /\ others[p].enabled
      BY <1>d, <2>1, <3>1
    <3>3. provider'[p].enabled = IF p = i /\ new.enabled # seen.enabled THEN new.enabled
                                                                        ELSE others[p].enabled
      BY ZenonT(60), <1>0, <1>c, <3>1, <3>2, WrittenRow
    <3>4. p = i => new.enabled \in {TRUE, seen.enabled}
      BY <1>a, <1>b
    <3> QED BY <3>2, <3>3, <3>4
  <2>2. \A p \in Primaries : p \in Ids(provider)'
    BY <1>0, <1>1, PrimaryRows, KeptRow
  <2> QED BY <2>1, <2>2 DEF PrimaryKept
<1>e. ASSUME NEW p \in ProviderIds, provider'[p] # Absent
      PROVE  provider[p] \in ProviderRow
  <2>1. others[p] # Absent
    BY <1>0, <1>c, <1>e DEF Update, Table
  <2> QED BY <1>0, <2>1 DEF others, OthersCleared, TypeOK, Table
<1>3. CASE "primary" \in asks
  <2>1. i \in Primaries'
    <3>1. i \in Ids(provider)
      BY <1>0, <1>a, <1>b, <1>3 DEF Applies, Primaries
    <3>2. provider[i] \in ProviderRow /\ others[i] = provider[i]
      BY <1>0, <1>d, <3>1, IdsType DEF TypeOK
    <3>3. provider'[i].primary = IF new.primary # seen.primary THEN new.primary
                                                              ELSE provider[i].primary
      BY <1>0, <1>c, <3>2, WrittenRow
    <3>4. seen.primary => provider[i].primary
      BY <1>3, <1>a DEF Primaries
    <3>5. provider'[i].primary
      BY <1>0, <1>b, <1>3, <3>3, <3>4 DEF ProviderRow
    <3>6. provider'[i] # Absent
      BY <1>0, <1>1, <3>2
    <3> QED BY <1>0, <3>5, <3>6, KeptRow
  <2>2. ASSUME NEW p \in Primaries', p # i PROVE p \in Primaries
    <3>1. p \in ProviderIds /\ provider'[p] # Absent /\ provider'[p].primary
      BY <2>2, SMTT(30) DEF Primaries, Ids, TypeOK, Table
    <3>2. provider[p] \in ProviderRow /\ others[p] \in ProviderRow
      BY <1>e, <1>d, <3>1
    <3>3. others[p].primary
      BY <1>0, <1>c, <2>2, <3>1, <3>2, WrittenRow
    <3>4. others[p] = OthersCleared(i)[p]
      BY <1>3 DEF others
    <3> QED BY <2>2, <3>1, <3>2, <3>3, <3>4, AbsentAssumption DEF OthersCleared, ProviderRow
  <2>3. MakesPrimary(req[r])
    BY <1>3 DEF MakesPrimary, CommitEditProvider, Doing, asks
  <2> QED BY <1>2, <2>1, <2>2, <2>3 DEF Moved, Moves, i
<1>4. CASE "primary" \notin asks
  <2>1. new.primary = seen.primary
    BY <1>0, <1>b, <1>4 DEF ProviderRow
  <2>2. ASSUME NEW p \in ProviderIds, provider[p] \in ProviderRow
        PROVE  provider'[p].primary = provider[p].primary
    <3>1. others[p] = provider[p] /\ others[p] \in ProviderRow
      BY <1>d, <1>4, <2>2
    <3> QED BY <1>0, <1>c, <2>1, <2>2, <3>1, WrittenRow
  <2>3. \A p \in ProviderIds :
          p \in Primaries <=> provider[p] \in ProviderRow /\ provider[p].primary
    BY <1>0, PrimaryRows, AbsentAssumption
  <2>4. \A p \in ProviderIds : p \in Primaries' <=> provider'[p] # Absent /\ provider'[p].primary
    BY KeptRow DEF Primaries, Ids
  <2>5. Primaries \subseteq ProviderIds /\ Primaries' \subseteq ProviderIds
    BY <1>0 DEF Primaries, Ids, TypeOK, Table
  <2>6. \A p \in ProviderIds : p \in Primaries' <=> p \in Primaries
    BY <1>1, <1>e, <2>2, <2>3, <2>4
  <2> QED BY <1>2, <2>5, <2>6 DEF Moved
<1> QED BY <1>2, <1>3, <1>4

LEMMA SetupPlace ==
  ASSUME PlaceInv, TypeOK', NEW r \in Reqs, NEW e \in EntryIds, NEW m \in Emails,
         CommitSetup(r, e, m)
  PROVE  Moved(req[r]) /\ PrimaryKept
<1> DEFINE i == req[r].id
           seen == req[r].seen
           cleared == [j \in ProviderIds |->
             IF j # req[r].keeps /\ provider[j] # Absent
               THEN [provider[j] EXCEPT !.primary = FALSE] ELSE provider[j]]
<1>0. /\ TypeOK /\ i \in Primaries /\ seen \in ProviderRow /\ req[r].new = SetupRow
      /\ seen.primary => req[r].keeps = i
  BY Fields DEF PlaceInv, Settled, CommitSetup, Doing
<1>a. i \in ProviderIds /\ i \in Ids(provider) /\ provider[i] \in ProviderRow /\ provider[i].primary
  BY <1>0, PrimaryRows DEF Primaries
<1>b. provider' = Update(cleared, i, seen, SetupRow)
  BY <1>0, <1>a DEF CommitSetup
<1>c. cleared \in Table(ProviderIds, ProviderRow)
  BY <1>0 DEF TypeOK, Table, ProviderRow
<1>d. ASSUME NEW p \in ProviderIds, provider[p] \in ProviderRow
      PROVE  /\ cleared[p] \in ProviderRow /\ cleared[p].enabled = provider[p].enabled
             /\ p = req[r].keeps => cleared[p] = provider[p]
  BY <1>d DEF ProviderRow
<1>e. SetupRow \in ProviderRow /\ SetupRow.enabled = TRUE /\ SetupRow.primary = TRUE
  BY DEF SetupRow, ProviderRow
<1> HIDE DEF i, seen, cleared
<1>1. ASSUME NEW p \in ProviderIds, provider[p] \in ProviderRow
      PROVE  provider'[p] \in ProviderRow /\ provider'[p] # Absent
  <2>1. cleared[p] \in ProviderRow
    BY <1>1, <1>d
  <2>2. provider'[p] = IF p = i THEN Changed(cleared[p], seen, SetupRow) ELSE cleared[p]
    BY <1>a, <1>b, <1>c, <2>1, WrittenRow
  <2> QED BY <1>0, <1>e, <2>1, <2>2, ProviderChanged, AbsentAssumption
<1>2. PrimaryKept
  <2>1. ASSUME NEW p \in Primaries, provider[p].enabled
        PROVE  provider'[p].enabled
    <3>1. p \in ProviderIds /\ provider[p] \in ProviderRow
      BY <1>0, PrimaryRows
    <3>2. cleared[p] \in ProviderRow /\ cleared[p].enabled
      BY <1>d, <2>1, <3>1
    <3>3. provider'[p].enabled = IF p = i /\ SetupRow.enabled # seen.enabled
                                   THEN SetupRow.enabled ELSE cleared[p].enabled
      BY ZenonT(60), <1>a, <1>b, <1>c, <3>1, <3>2, WrittenRow
    <3> QED BY <1>e, <3>2, <3>3
  <2>2. \A p \in Primaries : p \in Ids(provider)'
    BY <1>0, <1>1, PrimaryRows, KeptRow
  <2> QED BY <2>1, <2>2 DEF PrimaryKept
<1>3. i \in Primaries'
  <2>1. cleared[i] \in ProviderRow /\ (seen.primary => cleared[i].primary)
    BY <1>0, <1>a, <1>d
  <2>2. provider'[i].primary = IF SetupRow.primary # seen.primary THEN SetupRow.primary
                                                                 ELSE cleared[i].primary
    BY <1>a, <1>b, <1>c, <2>1, WrittenRow
  <2>3. provider'[i].primary
    BY <1>0, <1>e, <2>1, <2>2 DEF ProviderRow
  <2> QED BY <1>1, <1>a, <2>3, KeptRow
<1>4. ASSUME NEW p \in Primaries', p # i PROVE p \in Primaries
  <2>1. p \in ProviderIds /\ provider'[p] # Absent /\ provider'[p].primary
    BY <1>4, SMTT(30) DEF Primaries, Ids, TypeOK, Table
  <2>2. provider'[p] = cleared[p] /\ cleared[p] # Absent
    BY <1>b, <1>c, <1>4, <2>1 DEF Update, Table
  <2>3. provider[p] \in ProviderRow
    BY <1>0, <2>1, <2>2 DEF cleared, TypeOK, Table
  <2>4. provider[p] # Absent /\ provider[p].primary
    BY <2>1, <2>2, <2>3, AbsentAssumption DEF cleared, ProviderRow
  <2> QED BY <1>0, <2>1, <2>4, PrimaryRows
<1>5. MakesPrimary(req[r])
  BY DEF MakesPrimary, CommitSetup, Doing
<1> QED BY <1>2, <1>3, <1>4, <1>5 DEF Moved, Moves, i

LEMMA DeleteProviderPlace ==
  ASSUME PlaceInv, TypeOK', NEW r \in Reqs, CommitDeleteProvider(r)
  PROVE  Moved(req[r]) /\ PrimaryKept
<1>1. TypeOK /\ req[r].id \notin Primaries /\ provider' = [provider EXCEPT ![req[r].id] = Absent]
  BY DEF PlaceInv, Settled, CommitDeleteProvider, Doing, Delete
<1>2. ASSUME NEW p \in Primaries
      PROVE  p \in ProviderIds /\ provider'[p] = provider[p] /\ provider[p] # Absent
             /\ provider[p].primary
  BY <1>1, PrimaryRows
<1>3. Primaries \subseteq Primaries' /\ \A p \in Primaries : p \in Ids(provider)'
  BY <1>2, KeptRow
<1>4. Primaries' \subseteq Primaries
  BY <1>1 DEF Primaries, Ids, TypeOK, Table
<1> QED BY <1>2, <1>3, <1>4 DEF Moved, PrimaryKept

LEMMA CreateProviderPlace ==
  ASSUME PlaceInv, TypeOK', NEW p \in ProviderIds, NEW enabled \in BOOLEAN,
         NEW primary \in BOOLEAN, CreateProvider(p, enabled, primary)
  PROVE  /\ Moved([op |-> "createProvider", id |-> p]) /\ PrimaryKept
         /\ ~primary => Primaries' = Primaries
<1> DEFINE others == IF primary THEN OthersCleared(p) ELSE provider
           row == [enabled |-> enabled, primary |-> primary]
<1>0. TypeOK /\ provider' = [others EXCEPT ![p] = row] /\ Follows(p, provider)
  BY DEF PlaceInv, CreateProvider
<1>a. others \in [ProviderIds -> ProviderRow \cup {Absent}]
  BY <1>0, ClearedType DEF TypeOK, Table
<1>b. p \notin Primaries
  <2>1. p \notin Ids(provider)
    BY <1>0 DEF Follows, ProviderIds
  <2> QED BY <2>1 DEF Primaries
<1>c. row # Absent /\ row.primary = primary
  BY AbsentAssumption DEF ProviderRow
<1>1. ASSUME NEW q \in Primaries
      PROVE  /\ q \in ProviderIds /\ provider'[q] # Absent
             /\ provider'[q].enabled = provider[q].enabled
             /\ ~primary => provider'[q].primary
  <2>1. q \in ProviderIds /\ provider[q] \in ProviderRow /\ provider[q].primary /\ q # p
    BY <1>0, <1>b, PrimaryRows
  <2>2. others[q] \in ProviderRow /\ others[q].enabled = provider[q].enabled
        /\ (~primary => others[q] = provider[q])
    BY <1>0, <2>1, ClearedRow
  <2>3. provider'[q] = others[q]
    BY <1>0, <1>a, <2>1
  <2> QED BY <2>1, <2>2, <2>3, AbsentAssumption
<1>2. PrimaryKept
  BY <1>1, KeptRow DEF PrimaryKept
<1>3. ASSUME NEW q \in Primaries', q # p PROVE q \in Primaries /\ ~primary
  <2>1. q \in ProviderIds /\ provider'[q] # Absent /\ provider'[q].primary
    BY <1>3, SMTT(30) DEF Primaries, Ids, TypeOK, Table
  <2>2. provider'[q] = others[q]
    BY <1>0, <1>a, <1>3, <2>1
  <2>3. provider[q] \in ProviderRow
    BY <1>0, <2>1, <2>2 DEF OthersCleared, TypeOK, Table
  <2>4. primary => ~others[q].primary
    BY <1>3, <2>1, <2>3, AbsentAssumption DEF OthersCleared, ProviderRow
  <2>5. ~primary => provider[q] = provider'[q]
    BY <2>2
  <2>6. ~primary
    BY <2>1, <2>2, <2>4
  <2>7. provider[q] # Absent /\ provider[q].primary
    BY <2>1, <2>3, <2>5, <2>6, AbsentAssumption
  <2> QED BY <1>0, <2>1, <2>6, <2>7, PrimaryRows
<1>4. CASE primary
  <2>1. provider'[p] = row
    BY <1>0, <1>a
  <2>2. p \in Primaries'
    BY <1>4, <1>c, <2>1, KeptRow
  <2> QED BY <1>2, <1>3, <1>4, <2>2 DEF Moved, Moves, MakesPrimary
<1>5. CASE ~primary
  <2>1. provider' = [provider EXCEPT ![p] = row]
    BY <1>0, <1>5
  <2>2. p \notin Primaries'
    BY <1>0, <1>5, <1>c, <2>1 DEF Primaries, TypeOK, Table
  <2>3. Primaries \subseteq Primaries'
    BY <1>1, <1>5, KeptRow
  <2>4. Primaries' \subseteq Primaries
    BY <1>3, <2>2
  <2> QED BY <1>2, <2>3, <2>4 DEF Moved
<1> QED BY <1>4, <1>5

LEMMA PlaceBegins ==
  ASSUME PlaceInv, TypeOK', Locks', NEW r \in Reqs, Begin(r)
  PROVE  PlaceInv' /\ PrimaryKept
<1>0. provider' = provider
  BY ReadersWriteNothing DEF rowVars
<1>1. ASSUME NEW p \in ProviderIds, NEW asks \in SUBSET Wishes, BeginEditProvider(r, p, asks)
      PROVE  PlaceInv' /\ PrimaryKept
  <2> DEFINE q == [op |-> "editProvider", id |-> p, asks |-> asks, seen |-> provider[p]]
  <2>1. Goes(r, q) /\ p \in Ids(provider)
        /\ ("disable" \in asks => ~provider[p].primary /\ "primary" \notin asks)
    BY <1>1 DEF BeginEditProvider
  <2>2. Settled(q)
    BY <2>1 DEF Settled, Primaries
  <2> QED BY <1>0, <2>1, <2>2, PlaceStays
<1>2. ASSUME NEW p \in ProviderIds, BeginDeleteProvider(r, p) PROVE PlaceInv' /\ PrimaryKept
  <2> DEFINE q == [op |-> "deleteProvider", id |-> p]
  <2>1. Goes(r, q) /\ ~provider[p].primary
    BY <1>2 DEF BeginDeleteProvider
  <2>2. Settled(q)
    BY <2>1 DEF Settled, Primaries
  <2> QED BY <1>0, <2>1, <2>2, PlaceStays
<1>3. CASE BeginSetup(r)
  <2> DEFINE seen == [enabled |-> \E p \in Primaries : provider[p].enabled,
                      primary |-> Primaries # {}]
             q == [op |-> "setup", existing |-> Primaries, seen |-> seen]
  <2>1. Goes(r, q)
    BY <1>3 DEF BeginSetup
  <2> HIDE DEF seen
  <2>2. Settled(q)
    BY DEF Settled, PlaceInv
  <2> QED BY <1>0, <2>1, <2>2, PlaceStays
<1>4. ASSUME NEW q, Goes(r, q),
             q.op \notin {"editProvider", "deleteProvider", "setup", "admins"}
      PROVE  PlaceInv' /\ PrimaryKept
  BY <1>0, <1>4, PlaceStays DEF Settled
<1>5. ASSUME NEW p \in ProviderIds, NEW s \in Subjects, NEW m \in Emails, BeginSignIn(r, p, s, m)
      PROVE  PlaceInv' /\ PrimaryKept
  BY <1>4, <1>5 DEF BeginSignIn
<1>6. ASSUME NEW e \in EntryIds, NEW admin \in BOOLEAN, BeginEditEntry(r, e, admin)
      PROVE  PlaceInv' /\ PrimaryKept
  BY <1>4, <1>6 DEF BeginEditEntry
<1>7. ASSUME NEW e \in EntryIds, BeginRemoveEntry(r, e) PROVE PlaceInv' /\ PrimaryKept
  BY <1>4, <1>7 DEF BeginRemoveEntry
<1>8. ASSUME NEW u \in UserIds, NEW active \in BOOLEAN, BeginEditUser(r, u, active)
      PROVE  PlaceInv' /\ PrimaryKept
  BY <1>4, <1>8 DEF BeginEditUser
<1>9. ASSUME NEW u \in UserIds, BeginDeleteUser(r, u) PROVE PlaceInv' /\ PrimaryKept
  BY <1>4, <1>9 DEF BeginDeleteUser
<1> QED BY <1>1, <1>2, <1>3, <1>5, <1>6, <1>7, <1>8, <1>9 DEF Begin

LEMMA PlaceContinues ==
  ASSUME PlaceInv, TypeOK', Locks', NEW r \in Reqs, Continue(r)
  PROVE  PlaceInv' /\ PrimaryKept
<1>0. provider' = provider /\ TypeOK
  BY ReadersWriteNothing DEF rowVars, PlaceInv
<1>1. ASSUME NEW q, Goes(r, q),
             q.op \notin {"editProvider", "deleteProvider", "setup", "admins"}
      PROVE  PlaceInv' /\ PrimaryKept
  BY <1>0, <1>1, PlaceStays DEF Settled
<1>2. FindForEdit(r) => PlaceInv' /\ PrimaryKept
  BY <1>1 DEF FindForEdit
<1>3. FindForRemoval(r) => PlaceInv' /\ PrimaryKept
  BY <1>1 DEF FindForRemoval
<1>5. AdmitKnown(r) => PlaceInv' /\ PrimaryKept
  BY <1>1 DEF AdmitKnown
<1>6. \A u \in UserIds : AdmitNew(r, u) => PlaceInv' /\ PrimaryKept
  BY <1>1 DEF AdmitNew
<1>7. ASSUME NEW p \in ProviderIds, NEW n \in ProviderIds \cup {0}, SetupProvider(r, p, n)
      PROVE  PlaceInv' /\ PrimaryKept
  <2> DEFINE seen == SetupSeen(req[r], p, n)
             q == [op |-> "admins", id |-> p, keeps |-> n, seen |-> seen, new |-> SetupRow]
  <2>1. /\ req[r].existing # {} /\ req[r].existing \subseteq Primaries
        /\ req[r].seen \in ProviderRow
    BY <1>0, <1>7, Fields DEF SetupProvider, Doing, PlaceInv, Settled
  <2>2. Goes(r, q) /\ p \in Primaries /\ writer' = r
    BY <1>7, <2>1 DEF SetupProvider
  <2>3. seen.primary = (p = n)
    BY <2>1 DEF SetupSeen, ProviderRow
  <2> HIDE DEF seen
  <2>4. Settled(q)
    BY <2>2, <2>3 DEF Settled
  <2> QED BY <1>0, <2>2, <2>4, PlaceStays
<1> QED BY <1>2, <1>3, <1>5, <1>6, <1>7 DEF Continue

LEMMA PlaceStep ==
  ASSUME PlaceInv, [Next]_vars
  PROVE  PrimaryKept /\ ("primary" \notin raced' => PlaceInv')
<1>0. TypeOK /\ TypeOK' /\ Locks'
  BY NextType, LocksInductive DEF PlaceInv
<1>1. ASSUME NEW r \in Reqs, Commit(r), provider' = provider PROVE PlaceInv' /\ PrimaryKept
  BY <1>0, <1>1, PlaceStays, CommitRaces DEF Settled, Idle
<1>2. ASSUME NEW r \in Reqs, Commit(r)
      PROVE  PrimaryKept /\ ("primary" \notin raced' => PlaceInv')
  <2>1. CASE CommitEditProvider(r)
    BY <1>0, <1>2, <2>1, EditProviderPlace, PlaceMoves
  <2>2. CASE CommitDeleteProvider(r)
    BY <1>0, <1>2, <2>2, DeleteProviderPlace, PlaceMoves
  <2>3. ASSUME NEW e \in EntryIds, NEW m \in Emails, CommitSetup(r, e, m)
        PROVE  PrimaryKept /\ ("primary" \notin raced' => PlaceInv')
    BY <1>0, <1>2, <2>3, SetupPlace, PlaceMoves
  <2>4. \/ CommitEditProvider(r) \/ CommitDeleteProvider(r)
        \/ \E e \in EntryIds, m \in Emails : CommitSetup(r, e, m)
        \/ provider' = provider
    BY <1>2 DEF Commit, CommitEditEntry, CommitRemoveEntry, CommitEditUser,
                CommitDeleteUser, SignedIn
  <2> QED BY <1>1, <1>2, <2>1, <2>2, <2>3, <2>4
<1>3. ASSUME NEW r \in Reqs, Fails(r) PROVE PlaceInv' /\ PrimaryKept
  BY <1>0, <1>3, PlaceStays DEF Fails, rowVars, Settled, Idle
<1>4. ASSUME req' = req, provider' = provider PROVE PlaceInv' /\ PrimaryKept
  BY <1>0, <1>4, SameProviders DEF PlaceInv
<1>5. ASSUME NEW p \in ProviderIds, NEW enabled \in BOOLEAN, NEW primary \in BOOLEAN,
             CreateProvider(p, enabled, primary)
      PROVE  PrimaryKept /\ ("primary" \notin raced' => PlaceInv')
  <2> DEFINE c == [op |-> "createProvider", id |-> p]
  <2>1. Moved(c) /\ PrimaryKept /\ (~primary => Primaries' = Primaries)
    BY <1>0, <1>5, CreateProviderPlace
  <2>2. req' = req /\ writer' = writer /\ writer = NoReq
        /\ (primary => raced' = raced \cup Overtaken(c, Reqs))
    BY <1>5 DEF CreateProvider, AtOnce
  <2> HIDE DEF c
  <2>3. ASSUME NEW r \in Reqs, "primary" \notin raced' PROVE Settled(req[r])'
    <3>1. Settled(req[r]) /\ ~Doing(r, "admins")
      BY <2>2, AccountsAssumption DEF PlaceInv, Locks, Doing
    <3>2. CASE primary
      <4>1. ~TakesAway("primary", c, req[r])
        BY <2>2, <2>3, <3>2 DEF Overtaken, Claims
      <4> QED BY <2>1, <2>2, <3>1, <4>1, StaysSettled
    <3>3. CASE ~primary
      BY <2>1, <2>2, <3>1, <3>3 DEF Settled
    <3> QED BY <3>2, <3>3
  <2>4. Primaries' # {}
    BY <2>1 DEF Moved, Moves, PlaceInv
  <2> QED BY <1>0, <2>1, <2>3, <2>4 DEF PlaceInv
<1>6. CASE Immediate
  <2>1. \/ req' = req /\ provider' = provider
        \/ \E p \in ProviderIds, enabled, primary \in BOOLEAN : CreateProvider(p, enabled, primary)
    BY <1>6 DEF Immediate, AddToAllowlist, RevokeSessions, EndSession
  <2> QED BY <1>4, <1>5, <2>1
<1>7. CASE UNCHANGED vars
  BY <1>4, <1>7 DEF vars
<1> QED BY <1>0, <1>2, <1>3, <1>6, <1>7, PlaceBegins, PlaceContinues DEF Next

(* There is always a primary provider, unless a provider has been made     *)
(* primary under a request that counts on another one: no other sequence   *)
(* of requests, and no setup in between, takes the flag away without       *)
(* giving it to somebody else.                                             *)
THEOREM AlwaysAPrimary == Spec => []APrimary
<1> DEFINE Claim == TypeOK /\ ("primary" \notin raced => PlaceInv)
<1>1. Init => Claim
  BY PlaceInit DEF PlaceInv
<1>2. Claim /\ [Next]_vars => Claim'
  BY PlaceStep, RacesStay, NextType
<1>3. Claim => APrimary
  BY DEF PlaceInv, APrimary
<1> QED BY <1>1, <1>2, <1>3, PTL DEF Spec

(* SEC-44: no step disables or deletes the primary provider, unless it has *)
(* become it under the request that does.                                  *)
THEOREM PrimaryIsKept == Spec => PrimaryStays
<1> DEFINE Claim == TypeOK /\ ("primary" \notin raced => PlaceInv)
           Kept == \A p \in Primaries :
                     \/ "primary" \in raced
                     \/ p \in Ids(provider)' /\ (provider[p].enabled => provider'[p].enabled)
<1>1. Init => Claim
  BY PlaceInit DEF PlaceInv
<1>2. Claim /\ [Next]_vars => Claim'
  BY PlaceStep, RacesStay, NextType
<1>3. Claim /\ [Next]_vars => [Kept]_vars
  BY PlaceStep DEF PrimaryKept
<1> QED BY <1>1, <1>2, <1>3, PTL DEF Spec, PrimaryStays

-----------------------------------------------------------------------------
(* Rights follow the list                                                  *)

SameRights(row, other) == SameAddress(row, other) /\ row.admin = other.admin
Listed(row) ==
  \E e \in Ids(entry) : SameAddress(entry[e], row) /\ (row.admin => entry[e].admin)

(* What a request has read is still so when it writes: the entry that it   *)
(* takes an administrator off with, and the accounts of its address; the   *)
(* rights of the account that signs in, and that there is an entry for     *)
(* those it is about to get.                                               *)
Honest(q) ==
  /\ TakesAdmin(q) => q.id \in Ids(entry)
  /\ TakesAdmin(q) /\ ~Finds(q) => SameAddress(entry[q.id], q.seen)
  /\ TakesAdmin(q) /\ Finds(q) =>
       AccountsFor(entry[q.id].provider, entry[q.id].email) \subseteq q.found
  /\ q.op = "editUser" => q.new = [q.seen EXCEPT !.active = q.new.active]
  /\ q.op = "known" => SameRights(user[q.id], q.seen) \/ q.id \notin Ids(user)
  /\ SignsIn(q) => Listed(q.new)

(* Whatever takes an account's entry away or its role ends its sessions.   *)
SessionsListed ==
  \A k \in Sessions : session[k] # Absent =>
    LET u == session[k].user IN u \in Ids(user) /\ Listed(user[u])

RightsInv ==
  TypeOK /\ EditsRole /\ Locks /\ SessionsListed /\ \A r \in Reqs : Honest(req[r])

LEMMA RightsInit == Init => RightsInv
<1> SUFFICES ASSUME Init PROVE RightsInv
  OBVIOUS
<1>1. \A r \in Reqs : Honest(req[r])
  BY DEF Init, Idle, Honest, TakesAdmin, Finds, SignsIn
<1>2. SessionsListed
  BY DEF Init, SessionsListed
<1>3. EditsRole
  BY DEF Init, Idle, EditsRole
<1> QED BY <1>1, <1>2, <1>3, LocksInit, InitType DEF RightsInv

LEMMA ListedStays ==
  ASSUME EntriesRemain, NEW row, Listed(row)
  PROVE  \E e \in Ids(entry)' : SameAddress(entry'[e], row) /\ (row.admin => entry'[e].admin)
<1>1. PICK e \in Ids(entry) : SameAddress(entry[e], row) /\ (row.admin => entry[e].admin)
  BY DEF Listed
<1>2. /\ e \in Ids(entry)' /\ SameAddress(entry'[e], row)
      /\ row.admin => entry'[e].admin
  BY <1>1 DEF EntriesRemain, SameAddress
<1> QED BY <1>2

(* Accounts that are left have the rights they had, or the address only.   *)
RightsKept ==
  \A u \in Ids(user)' : u \in Ids(user) /\ SameRights(user'[u], user[u])
AddressesKept ==
  \A u \in Ids(user)' : u \in Ids(user) /\ SameAddress(user'[u], user[u])

LEMMA FewerAccounts ==
  ASSUME AddressesKept, NEW p, NEW m PROVE AccountsFor(p, m)' \subseteq AccountsFor(p, m)
BY DEF AddressesKept, AccountsFor, SameAddress

(* Each session that is left was there before, and its account keeps its   *)
(* rights and its entry.                                                   *)
LEMMA SessionsStayListed ==
  ASSUME RightsInv,
         \A k \in Sessions : session'[k] # Absent =>
           LET u == session[k].user IN
           /\ session'[k] = session[k] /\ u \in Ids(user)'
           /\ SameRights(user'[u], user[u])
           /\ \E e \in Ids(entry)' :
                SameAddress(entry'[e], user[u]) /\ (user[u].admin => entry'[e].admin)
  PROVE  SessionsListed'
<1>1. ASSUME NEW k \in Sessions, session'[k] # Absent
      PROVE  session'[k].user \in Ids(user)' /\ Listed(user[session[k].user])'
  <2> DEFINE u == session[k].user
  <2>1. session'[k] = session[k] /\ u \in Ids(user)' /\ SameRights(user'[u], user[u])
    BY <1>1
  <2>2. PICK e \in Ids(entry)' :
          SameAddress(entry'[e], user[u]) /\ (user[u].admin => entry'[e].admin)
    BY <1>1
  <2>3. SameAddress(entry'[e], user'[u]) /\ (user'[u].admin => entry'[e].admin)
    BY <2>1, <2>2 DEF SameRights, SameAddress
  <2>4. Listed(user[session[k].user])'
    BY <2>1, <2>3 DEF Listed
  <2> QED BY <2>1, <2>4
<1> QED BY <1>1 DEF SessionsListed

LEMMA SessionUsers ==
  ASSUME RightsInv, NEW k \in Sessions, session[k] # Absent
  PROVE  /\ session[k].user \in UserIds /\ session[k].user \in Ids(user)
         /\ user[session[k].user] \in UserRow /\ Listed(user[session[k].user])
<1>1. session[k].user \in Ids(user) /\ Listed(user[session[k].user])
  BY DEF RightsInv, SessionsListed
<1>2. user \in Table(UserIds, UserRow)
  BY DEF RightsInv, TypeOK
<1> QED BY <1>1, <1>2, IdsType

(* The list loses nothing, nor do the accounts that sessions are left of.  *)
LEMMA SessionsStayIf ==
  ASSUME RightsInv, EntriesRemain,
         \A k \in Sessions : session'[k] # Absent =>
           /\ session'[k] = session[k] /\ session[k].user \in Ids(user)'
           /\ SameRights(user'[session[k].user], user[session[k].user])
  PROVE  SessionsListed'
<1>1. ASSUME NEW k \in Sessions, session'[k] # Absent
      PROVE  \E e \in Ids(entry)' :
               /\ SameAddress(entry'[e], user[session[k].user])
               /\ user[session[k].user].admin => entry'[e].admin
  <2>1. Listed(user[session[k].user])
    BY <1>1, SessionUsers
  <2> QED BY <2>1, ListedStays
<1> QED BY <1>1, SessionsStayListed

(* Nothing happens to entries, accounts and sessions.                      *)
LEMMA SessionsStay ==
  ASSUME RightsInv, UNCHANGED <<entry, user, session>> PROVE SessionsListed'
<1>1. ASSUME NEW k \in Sessions, session'[k] # Absent
      PROVE  /\ session'[k] = session[k] /\ session[k].user \in Ids(user)'
             /\ SameRights(user'[session[k].user], user[session[k].user])
  <2>1. session[k].user \in Ids(user)
    BY <1>1, SessionUsers
  <2> QED BY <2>1 DEF Ids, SameRights, SameAddress
<1> QED BY <1>1, SameEntries, SessionsStayIf

LEMMA HonestStays ==
  ASSUME UNCHANGED <<entry, user>>, NEW p \in Reqs, Honest(req'[p])
  PROVE  Honest(req[p])'
<1>1. Ids(entry)' = Ids(entry) /\ Ids(user)' = Ids(user)
  BY DEF Ids
<1>2. \A a, m : AccountsFor(a, m)' = AccountsFor(a, m)
  BY <1>1 DEF AccountsFor
<1>3. Listed(req'[p].new) => Listed(req[p].new)'
  BY <1>1 DEF Listed
<1> QED BY <1>1, <1>2, <1>3 DEF Honest

(* A step that writes none of that.                                        *)
LEMMA RightsStay ==
  ASSUME RightsInv, TypeOK', EditsRole', Locks', UNCHANGED <<entry, user, session>>,
         NEW r \in Reqs, NEW q, Goes(r, q), Honest(q)
  PROVE  RightsInv'
<1>1. req'[r] = q /\ \A p \in Reqs : p # r => req'[p] = req[p]
  BY DEF RightsInv, TypeOK, Goes
<1>2. \A p \in Reqs : Honest(req'[p])
  BY <1>1 DEF RightsInv
<1> QED BY <1>2, SessionsStay, HonestStays DEF RightsInv

(* Most requests promise nothing.                                          *)
Plain(q) ==
  q.op \notin {"editEntry", "removeEntry", "editFound", "removeFound", "editUser", "known", "new"}

LEMMA PlainHonest == ASSUME NEW q, Plain(q) PROVE Honest(q)
BY DEF Plain, Honest, TakesAdmin, Finds, SignsIn

LEMMA RightsBegin ==
  ASSUME RightsInv, TypeOK', EditsRole', Locks', NEW r \in Reqs, Begin(r)
  PROVE  RightsInv'
<1>0. UNCHANGED <<entry, user, session>> /\ TypeOK
  BY ReadersWriteNothing DEF rowVars, RightsInv
<1>1. ASSUME NEW q, Goes(r, q), Plain(q) PROVE RightsInv'
  BY <1>0, <1>1, PlainHonest, RightsStay
<1>2. ASSUME NEW e \in EntryIds, NEW admin \in BOOLEAN, BeginEditEntry(r, e, admin)
      PROVE  RightsInv'
  <2> DEFINE q == [op |-> "editEntry", id |-> e, seen |-> entry[e],
                   new |-> [entry[e] EXCEPT !.admin = admin]]
  <2>1. Goes(r, q) /\ e \in Ids(entry)
    BY <1>2 DEF BeginEditEntry
  <2>2. Honest(q)
    BY <2>1 DEF Honest, SameAddress, TakesAdmin, Finds, SignsIn
  <2> QED BY <1>0, <2>1, <2>2, RightsStay
<1>3. ASSUME NEW e \in EntryIds, BeginRemoveEntry(r, e) PROVE RightsInv'
  <2> DEFINE q == [op |-> "removeEntry", id |-> e, seen |-> entry[e]]
  <2>1. Goes(r, q) /\ e \in Ids(entry)
    BY <1>3 DEF BeginRemoveEntry
  <2>2. Honest(q)
    BY <2>1 DEF Honest, SameAddress, TakesAdmin, Finds, SignsIn
  <2> QED BY <1>0, <2>1, <2>2, RightsStay
<1>4. ASSUME NEW u \in UserIds, NEW active \in BOOLEAN, BeginEditUser(r, u, active)
      PROVE  RightsInv'
  <2> DEFINE new == [user[u] EXCEPT !.active = active]
             q == [op |-> "editUser", id |-> u, seen |-> user[u], new |-> new]
  <2>1. Goes(r, q) /\ u \in Ids(user)
    BY <1>4 DEF BeginEditUser
  <2>2. user[u] \in UserRow
    BY <1>0, <2>1, IdsType DEF TypeOK
  <2>3. new.active = active
    BY <2>2 DEF UserRow
  <2>4. Honest(q)
    BY <2>3 DEF Honest, TakesAdmin, Finds, SignsIn
  <2> QED BY <1>0, <2>1, <2>4, RightsStay
<1>5. \A p \in ProviderIds, asks \in SUBSET Wishes : BeginEditProvider(r, p, asks) => RightsInv'
  BY <1>1 DEF BeginEditProvider, Plain
<1>6. \A p \in ProviderIds : BeginDeleteProvider(r, p) => RightsInv'
  BY <1>1 DEF BeginDeleteProvider, Plain
<1>7. \A p \in ProviderIds, s \in Subjects, m \in Emails : BeginSignIn(r, p, s, m) => RightsInv'
  BY <1>1 DEF BeginSignIn, Plain
<1>8. \A u \in UserIds : BeginDeleteUser(r, u) => RightsInv'
  BY <1>1 DEF BeginDeleteUser, Plain
<1>9. BeginSetup(r) => RightsInv'
  BY <1>1 DEF BeginSetup, Plain
<1> QED BY <1>2, <1>3, <1>4, <1>5, <1>6, <1>7, <1>8, <1>9 DEF Begin

LEMMA RightsContinue ==
  ASSUME RightsInv, TypeOK', EditsRole', Locks', NEW r \in Reqs, Continue(r)
  PROVE  RightsInv'
<1>0. UNCHANGED <<entry, user, session>> /\ TypeOK
  BY ReadersWriteNothing DEF rowVars, RightsInv
<1>1. CASE FindForEdit(r)
  <2> DEFINE found == AccountsFor(req[r].seen.provider, req[r].seen.email)
             snap == \E u \in found : user[u].admin
             q == [op |-> "editFound", id |-> req[r].id, seen |-> req[r].seen,
                   new |-> req[r].new, found |-> found, snap |-> snap]
  <2>1. Goes(r, q) /\ req[r].op = "editEntry" /\ Honest(req[r])
    BY <1>1 DEF FindForEdit, Doing, RightsInv
  <2>2. ~req[r].new.admin =>
          /\ req[r].id \in Ids(entry)
          /\ AccountsFor(entry[req[r].id].provider, entry[req[r].id].email) = found
    BY <2>1 DEF Honest, TakesAdmin, Finds, SameAddress
  <2> HIDE DEF found, snap
  <2>3. Honest(q)
    BY <2>2 DEF Honest, TakesAdmin, Finds, SignsIn
  <2> QED BY <1>0, <2>1, <2>3, RightsStay
<1>2. CASE FindForRemoval(r)
  <2> DEFINE found == AccountsFor(req[r].seen.provider, req[r].seen.email)
             snap == \E u \in found : user[u].active
             q == [op |-> "removeFound", id |-> req[r].id, found |-> found, snap |-> snap]
  <2>1. Goes(r, q) /\ req[r].op = "removeEntry" /\ Honest(req[r])
    BY <1>2 DEF FindForRemoval, Doing, RightsInv
  <2>2. /\ req[r].id \in Ids(entry)
        /\ AccountsFor(entry[req[r].id].provider, entry[req[r].id].email) = found
    BY <2>1 DEF Honest, TakesAdmin, Finds, SameAddress
  <2> HIDE DEF found, snap
  <2>3. Honest(q)
    BY <2>2 DEF Honest, TakesAdmin, Finds, SignsIn
  <2> QED BY <1>0, <2>1, <2>3, RightsStay
<1>4. CASE AdmitKnown(r)
  <2>1. PICK e \in EntriesFor(req[r].provider, req[r].email),
             u \in AccountsOf(req[r].provider, req[r].subject) :
          Goes(r, [op |-> "known", id |-> u, seen |-> user[u],
                   new |-> [user[u] EXCEPT !.admin = entry[e].admin,
                                           !.active = TRUE, !.email = req[r].email]])
    BY <1>4 DEF AdmitKnown
  <2> DEFINE new == [user[u] EXCEPT !.admin = entry[e].admin,
                                    !.active = TRUE, !.email = req[r].email]
             q == [op |-> "known", id |-> u, seen |-> user[u], new |-> new]
  <2>2. user[u] \in UserRow /\ user[u].provider = req[r].provider
    BY <1>0, IdsType DEF AccountsOf, TypeOK
  <2>3. /\ new.provider = req[r].provider /\ new.email = req[r].email
        /\ new.admin = entry[e].admin
    BY <2>2 DEF UserRow
  <2>4. Goes(r, q)
    BY <2>1
  <2> HIDE DEF new
  <2>5. Listed(new)
    BY <2>3 DEF Listed, EntriesFor, SameAddress
  <2>6. Honest(q)
    BY <2>5 DEF Honest, TakesAdmin, Finds, SignsIn, SameRights, SameAddress
  <2> QED BY <1>0, <2>4, <2>6, RightsStay
<1>5. ASSUME NEW u \in UserIds, AdmitNew(r, u) PROVE RightsInv'
  <2>1. PICK e \in EntriesFor(req[r].provider, req[r].email) :
          LET row == [provider |-> req[r].provider, subject |-> req[r].subject,
                      email |-> req[r].email, admin |-> entry[e].admin, active |-> TRUE]
          IN Goes(r, [op |-> "new", id |-> u, seen |-> row, new |-> row])
    BY <1>5 DEF AdmitNew
  <2> DEFINE row == [provider |-> req[r].provider, subject |-> req[r].subject,
                     email |-> req[r].email, admin |-> entry[e].admin, active |-> TRUE]
             q == [op |-> "new", id |-> u, seen |-> row, new |-> row]
  <2>2. Goes(r, q)
    BY <2>1
  <2>3. Listed(row)
    BY DEF Listed, EntriesFor, SameAddress
  <2> HIDE DEF row
  <2>4. Honest(q)
    BY <2>3 DEF Honest, TakesAdmin, Finds, SignsIn
  <2> QED BY <1>0, <2>2, <2>4, RightsStay
<1>6. ASSUME NEW p \in ProviderIds, NEW n \in ProviderIds \cup {0}, SetupProvider(r, p, n)
      PROVE  RightsInv'
  <2> DEFINE seen == SetupSeen(req[r], p, n)
             q == [op |-> "admins", id |-> p, keeps |-> n, seen |-> seen, new |-> SetupRow]
  <2>1. Goes(r, q)
    BY <1>6 DEF SetupProvider
  <2> HIDE DEF seen
  <2>2. Honest(q)
    BY PlainHonest DEF Plain
  <2> QED BY <1>0, <2>1, <2>2, RightsStay
<1> QED BY <1>1, <1>2, <1>4, <1>5, <1>6 DEF Continue

-----------------------------------------------------------------------------
(* What commits do to accounts, entries and sessions                       *)

(* The account of an entry gets or loses a flag, and its sessions end.     *)
LEMMA FlagsKeepAddresses ==
  ASSUME TypeOK, TypeOK', NEW r \in Reqs, CommitEditEntry(r) \/ CommitRemoveEntry(r)
  PROVE  /\ AddressesKept
         /\ \A u \in UserIds : u \notin req[r].found => user'[u] = user[u]
         /\ session' = Revoked(req[r].found)
<1>0. /\ user \in [UserIds -> UserRow \cup {Absent}] /\ user' \in [UserIds -> UserRow \cup {Absent}]
      /\ Absent \notin UserRow
  BY AbsentAssumption DEF TypeOK, Table
<1>a. ASSUME NEW u \in UserIds, user'[u] # Absent, user'[u] # user[u],
             user[u] \in UserRow, SameAddress(user'[u], user[u])
      PROVE  u \in Ids(user)
  BY <1>0, <1>a DEF Ids
<1>1. CASE CommitEditEntry(r)
  <2> DEFINE q == req[r]
             sets == q.new.admin # q.snap
  <2>1. /\ sets => q.found \subseteq Ids(user)
        /\ user' = [u \in UserIds |->
             IF u \in q.found /\ sets THEN [user[u] EXCEPT !.admin = q.new.admin]
                                       ELSE user[u]]
        /\ session' = Revoked(q.found)
    BY <1>1 DEF CommitEditEntry
  <2> HIDE DEF sets
  <2>2. ASSUME NEW u \in Ids(user)'
        PROVE  u \in Ids(user) /\ SameAddress(user'[u], user[u])
    <3>0. u \in UserIds /\ user'[u] # Absent
      BY <1>0, <2>2 DEF Ids
    <3>1. CASE u \in q.found /\ sets
      <4>1. u \in Ids(user) /\ user[u] \in UserRow
            /\ user'[u] = [user[u] EXCEPT !.admin = q.new.admin]
        BY <1>0, <2>1, <3>0, <3>1 DEF Ids
      <4> QED BY <4>1 DEF SameAddress, UserRow
    <3>2. CASE ~(u \in q.found /\ sets)
      BY <1>0, <2>1, <3>0, <3>2 DEF Ids, SameAddress
    <3> QED BY <3>1, <3>2
  <2>3. \A u \in UserIds : u \notin req[r].found => user'[u] = user[u]
    BY <2>1
  <2> QED BY <2>1, <2>2, <2>3 DEF AddressesKept
<1>2. CASE CommitRemoveEntry(r)
  <2> DEFINE q == req[r]
  <2>1. /\ q.snap => q.found \subseteq Ids(user)
        /\ user' = [u \in UserIds |->
             IF u \in q.found /\ q.snap THEN [user[u] EXCEPT !.active = FALSE]
                                         ELSE user[u]]
        /\ session' = Revoked(q.found)
    BY <1>2 DEF CommitRemoveEntry
  <2>2. ASSUME NEW u \in Ids(user)'
        PROVE  u \in Ids(user) /\ SameAddress(user'[u], user[u])
    <3>0. u \in UserIds /\ user'[u] # Absent
      BY <1>0, <2>2 DEF Ids
    <3>1. CASE u \in q.found /\ q.snap
      <4>1. u \in Ids(user) /\ user[u] \in UserRow
            /\ user'[u] = [user[u] EXCEPT !.active = FALSE]
        BY <1>0, <2>1, <3>0, <3>1 DEF Ids
      <4> QED BY <4>1 DEF SameAddress, UserRow
    <3>2. CASE ~(u \in q.found /\ q.snap)
      BY <1>0, <2>1, <3>0, <3>2 DEF Ids, SameAddress
    <3> QED BY <3>1, <3>2
  <2>3. \A u \in UserIds : u \notin req[r].found => user'[u] = user[u]
    BY <2>1
  <2> QED BY <2>1, <2>2, <2>3 DEF AddressesKept
<1> QED BY <1>1, <1>2

(* An account enabled, disabled or deleted.                                *)
LEMMA UserKeepsRights ==
  ASSUME RightsInv, TypeOK', NEW r \in Reqs, CommitEditUser(r) \/ CommitDeleteUser(r)
  PROVE  /\ RightsKept /\ entry' = entry
         /\ \A u \in Ids(user) : u \notin {req[r].id} => u \in Ids(user)'
         /\ CommitEditUser(r) => Ids(user) \subseteq Ids(user)'
<1>0. /\ TypeOK /\ Absent \notin UserRow
      /\ user \in [UserIds -> UserRow \cup {Absent}] /\ user' \in [UserIds -> UserRow \cup {Absent}]
  BY AbsentAssumption DEF RightsInv, TypeOK, Table
<1>1. CASE CommitEditUser(r)
  <2> DEFINE i == req[r].id
             seen == req[r].seen
             new == req[r].new
  <2>1. /\ seen \in UserRow /\ new \in UserRow /\ new = [seen EXCEPT !.active = new.active]
        /\ user' = Update(user, i, seen, new) /\ entry' = entry
    BY <1>0, <1>1, Fields DEF RightsInv, CommitEditUser, Doing, Honest
  <2>2. new.provider = seen.provider /\ new.email = seen.email /\ new.admin = seen.admin
    BY <2>1 DEF UserRow
  <2> HIDE DEF i, seen, new
  <2>3. ASSUME NEW u \in Ids(user)' PROVE u \in Ids(user) /\ SameRights(user'[u], user[u])
    <3>1. u \in UserIds /\ user'[u] # Absent
      BY <1>0, <2>3 DEF Ids
    <3>2. user[u] # Absent /\ user[u] \in UserRow
      BY <1>0, <2>1, <3>1 DEF Update
    <3>3. user'[u] = IF u = i THEN Changed(user[u], seen, new) ELSE user[u]
      BY <1>0, <2>1, <3>1, <3>2 DEF Update
    <3>4. SameRights(user'[u], user[u])
      BY <2>2, <3>2, <3>3 DEF Changed, UserRow, SameRights, SameAddress
    <3> QED BY <1>0, <3>1, <3>2, <3>4 DEF Ids
  <2>4. ASSUME NEW u \in Ids(user) PROVE u \in Ids(user)'
    <3>1. u \in UserIds /\ user[u] # Absent /\ user[u] \in UserRow
      BY <1>0, <2>4 DEF Ids
    <3>2. user'[u] = IF u = i THEN Changed(user[u], seen, new) ELSE user[u]
      BY <1>0, <2>1, <3>1 DEF Update
    <3>3. user'[u] \in UserRow
      BY <2>1, <3>1, <3>2, UserChanged
    <3> QED BY <1>0, <3>1, <3>3 DEF Ids
  <2> QED BY <2>1, <2>3, <2>4 DEF RightsKept
<1>2. CASE CommitDeleteUser(r)
  <2>1. user' = [user EXCEPT ![req[r].id] = Absent] /\ entry' = entry /\ Doing(r, "deleteUser")
    BY <1>2 DEF CommitDeleteUser, Delete
  <2>2. RightsKept
    BY <1>0, <2>1 DEF RightsKept, Ids, SameRights, SameAddress
  <2>3. \A u \in Ids(user) : u \notin {req[r].id} => u \in Ids(user)'
    BY <1>0, <2>1 DEF Ids
  <2>4. ~CommitEditUser(r)
    BY <2>1 DEF CommitEditUser, Doing
  <2> QED BY <2>1, <2>2, <2>3, <2>4
<1> QED BY <1>1, <1>2

LEMMA UserSessions ==
  ASSUME RightsInv, TypeOK', NEW r \in Reqs, CommitEditUser(r) \/ CommitDeleteUser(r)
  PROVE  SessionsListed'
<1> DEFINE us == {req[r].id}
<1>0. /\ RightsKept /\ entry' = entry
      /\ \A u \in Ids(user) : u \notin us => u \in Ids(user)'
      /\ CommitEditUser(r) => Ids(user) \subseteq Ids(user)'
  BY UserKeepsRights
<1>1. session' \in {session, Revoked(us)} /\ (CommitDeleteUser(r) => session' = Revoked(us))
  BY DEF CommitEditUser, CommitDeleteUser, Doing
<1> HIDE DEF us
<1>2. ASSUME NEW k \in Sessions, session'[k] # Absent
      PROVE  /\ session'[k] = session[k] /\ session[k].user \in Ids(user)'
             /\ SameRights(user'[session[k].user], user[session[k].user])
  <2>1. session'[k] = session[k] /\ (session' = Revoked(us) => session[k].user \notin us)
    BY <1>1, <1>2, RevokedSessions
  <2>2. session[k].user \in Ids(user)
    BY <1>2, <2>1, SessionUsers
  <2>3. session[k].user \in Ids(user)'
    BY <1>0, <1>1, <2>1, <2>2
  <2> QED BY <1>0, <2>1, <2>3 DEF RightsKept
<1> QED BY <1>0, <1>2, SameEntries, SessionsStayIf

(* An entry is taken back or demoted, and the sessions of its account end. *)
LEMMA FoundRevoked ==
  ASSUME RightsInv, TypeOK', NEW r \in Reqs, CommitEditEntry(r) \/ CommitRemoveEntry(r),
         TakesAdmin(req[r]), Finds(req[r]),
         \A e \in EntryIds : e # req[r].id => entry'[e] = entry[e]
  PROVE  SessionsListed'
<1>0. /\ \A u \in UserIds : u \notin req[r].found => user'[u] = user[u]
      /\ session' = Revoked(req[r].found)
  BY FlagsKeepAddresses DEF RightsInv
<1>1. /\ req[r].id \in Ids(entry)
      /\ AccountsFor(entry[req[r].id].provider, entry[req[r].id].email) \subseteq req[r].found
  BY DEF RightsInv, Honest
<1>2. entry \in [EntryIds -> EntryRow \cup {Absent}] /\ DOMAIN entry' = EntryIds
      /\ DOMAIN user' = UserIds
  BY DEF RightsInv, TypeOK, Table
<1>3. ASSUME NEW k \in Sessions, session'[k] # Absent
      PROVE  LET u == session[k].user IN
             /\ session'[k] = session[k] /\ u \in Ids(user)'
             /\ SameRights(user'[u], user[u])
             /\ \E e \in Ids(entry)' :
                  SameAddress(entry'[e], user[u]) /\ (user[u].admin => entry'[e].admin)
  <2> DEFINE u == session[k].user
  <2>1. session'[k] = session[k] /\ u \notin req[r].found
    BY <1>0, <1>3, RevokedSessions
  <2>2. u \in UserIds /\ u \in Ids(user) /\ Listed(user[u])
    BY <1>3, <2>1, SessionUsers
  <2>3. PICK e \in Ids(entry) :
          SameAddress(entry[e], user[u]) /\ (user[u].admin => entry[e].admin)
    BY <2>2 DEF Listed
  <2>4. e \in EntryIds /\ e # req[r].id
    BY <1>1, <1>2, <2>1, <2>2, <2>3 DEF AccountsFor, Ids, SameAddress
  <2>5. entry'[e] = entry[e] /\ user'[u] = user[u] /\ SameRights(user'[u], user[u])
    BY <1>0, <2>1, <2>2, <2>4 DEF SameRights, SameAddress
  <2>6. e \in Ids(entry)'
    BY <1>2, <2>4, <2>5, <2>3 DEF Ids
  <2>7. u \in Ids(user)'
    BY <1>2, <2>2, <2>5 DEF Ids
  <2> QED BY <2>1, <2>3, <2>5, <2>6, <2>7
<1> QED BY <1>3, SessionsStayListed

(* A role that is given: the sessions of its account end all the same.     *)
LEMMA FoundKept ==
  ASSUME RightsInv, TypeOK', NEW r \in Reqs, CommitEditEntry(r), EntriesRemain
  PROVE  SessionsListed'
<1>0. /\ \A u \in UserIds : u \notin req[r].found => user'[u] = user[u]
      /\ session' = Revoked(req[r].found)
  BY FlagsKeepAddresses DEF RightsInv
<1>1. ASSUME NEW k \in Sessions, session'[k] # Absent
      PROVE  /\ session'[k] = session[k] /\ session[k].user \in Ids(user)'
             /\ SameRights(user'[session[k].user], user[session[k].user])
  <2>1. session'[k] = session[k] /\ session[k].user \notin req[r].found
    BY <1>0, <1>1, RevokedSessions
  <2>2. session[k].user \in UserIds /\ session[k].user \in Ids(user)
    BY <1>1, <2>1, SessionUsers
  <2>3. user'[session[k].user] = user[session[k].user] /\ DOMAIN user' = UserIds
    BY <1>0, <2>1, <2>2 DEF TypeOK, Table
  <2> QED BY <2>1, <2>2, <2>3 DEF Ids, SameRights, SameAddress
<1> QED BY <1>1, SessionsStayIf

(* A sign-in that ends: the account it writes has the rights that there is *)
(* an entry for; no other is touched.                                      *)
LEMMA SignedInRow ==
  ASSUME RightsInv, TypeOK', NEW r \in Reqs, NEW k \in Sessions, SignedIn(r, k)
  PROVE  /\ req[r].id \in Ids(user)' /\ SameRights(user'[req[r].id], req[r].new)
         /\ \A u \in UserIds : u # req[r].id => user'[u] = user[u]
         /\ Listed(req[r].new) /\ entry' = entry
<1> DEFINE i == req[r].id
           seen == req[r].seen
           new == req[r].new
<1>1. /\ TypeOK /\ i \in UserIds /\ seen \in UserRow /\ new \in UserRow
      /\ Listed(new) /\ entry' = entry
      /\ Doing(r, "known") => SameRights(user[i], seen) \/ i \notin Ids(user)
  BY Fields DEF RightsInv, SignedIn, Doing, Honest, SignsIn
<1>2. user \in [UserIds -> UserRow \cup {Absent}] /\ DOMAIN user' = UserIds
  BY <1>1 DEF TypeOK, Table
<1>3. \/ Doing(r, "known") /\ i \in Ids(user) /\ user' = Update(user, i, seen, new)
      \/ user' = [user EXCEPT ![i] = new]
  BY DEF SignedIn
<1> HIDE DEF i, seen, new
<1>4. /\ SameRights(user'[i], new) /\ user'[i] \in UserRow
      /\ \A u \in UserIds : u # i => user'[u] = user[u]
  <2>1. CASE user' = [user EXCEPT ![i] = new]
    BY <1>1, <1>2, <2>1 DEF SameRights, SameAddress
  <2>2. CASE Doing(r, "known") /\ i \in Ids(user) /\ user' = Update(user, i, seen, new)
    <3>1. user[i] # Absent /\ user[i] \in UserRow /\ SameRights(user[i], seen)
      BY <1>1, <1>2, <2>2 DEF Ids
    <3>2. user'[i] = Changed(user[i], seen, new)
          /\ \A u \in UserIds : u # i => user'[u] = user[u]
      BY <1>1, <1>2, <2>2, <3>1 DEF Update
    <3>3. SameRights(Changed(user[i], seen, new), new)
      BY <1>1, <3>1 DEF Changed, UserRow, SameRights, SameAddress
    <3> QED BY <1>1, <3>1, <3>2, <3>3, UserChanged
  <2> QED BY <1>3, <2>1, <2>2
<1>5. i \in Ids(user)'
  BY <1>1, <1>2, <1>4, AbsentAssumption DEF Ids
<1> QED BY <1>1, <1>4, <1>5 DEF i, new

LEMMA SignedInSessions ==
  ASSUME RightsInv, TypeOK', NEW r \in Reqs, NEW k \in Sessions, SignedIn(r, k)
  PROVE  SessionsListed'
<1> DEFINE i == req[r].id
           new == req[r].new
           row == [user |-> i, who |-> <<new.provider, new.subject>>]
<1>0. session \in [Sessions -> SessionRow \cup {Absent}] /\ DOMAIN user' = UserIds
  BY DEF RightsInv, TypeOK, Table
<1>1. /\ i \in Ids(user)' /\ SameRights(user'[i], new) /\ Listed(new) /\ entry' = entry
      /\ \A u \in UserIds : u # i => user'[u] = user[u]
      /\ session' = [session EXCEPT ![k] = row]
  BY SignedInRow DEF SignedIn
<1>2. row.user = i
  OBVIOUS
<1> HIDE DEF i, new, row
<1>3. PICK e \in Ids(entry) : SameAddress(entry[e], new) /\ (new.admin => entry[e].admin)
  BY <1>1 DEF Listed
<1>4. e \in Ids(entry)' /\ SameAddress(entry'[e], user'[i]) /\ (user'[i].admin => entry'[e].admin)
  BY <1>1, <1>3 DEF SameRights, SameAddress, Ids
<1>5. ASSUME NEW l \in Sessions, session'[l] # Absent
      PROVE  session'[l].user \in Ids(user)' /\ Listed(user[session[l].user])'
  <2>1. CASE session'[l].user = i
    <3>1. Listed(user[session[l].user])'
      BY <1>4, <2>1 DEF Listed
    <3> QED BY <1>1, <2>1, <3>1
  <2>2. CASE session'[l].user # i
    <3> DEFINE u == session[l].user
    <3>1. session'[l] = session[l]
      BY <1>0, <1>1, <1>2, <2>2
    <3>2. u \in UserIds /\ u \in Ids(user) /\ Listed(user[u])
      BY <1>5, <3>1, SessionUsers
    <3>3. user'[u] = user[u] /\ u \in Ids(user)'
      BY <1>0, <1>1, <2>2, <3>1, <3>2 DEF Ids
    <3>4. PICK f \in Ids(entry) :
            SameAddress(entry[f], user[u]) /\ (user[u].admin => entry[f].admin)
      BY <3>2 DEF Listed
    <3>5. f \in Ids(entry)' /\ entry'[f] = entry[f]
      BY <1>1, <3>4 DEF Ids
    <3>6. Listed(user[session[l].user])'
      BY <3>1, <3>3, <3>4, <3>5 DEF Listed
    <3> QED BY <3>1, <3>3, <3>6
  <2> QED BY <2>1, <2>2
<1> QED BY <1>5 DEF SessionsListed

LEMMA CommitSessions ==
  ASSUME RightsInv, TypeOK', NEW r \in Reqs, Commit(r) PROVE SessionsListed'
<1>0. TypeOK /\ EditsRole
  BY DEF RightsInv
<1>1. CASE CommitEditEntry(r)
  <2>1. /\ Doing(r, "editFound")
        /\ entry' = Update(entry, req[r].id, req[r].seen, req[r].new)
    BY <1>1 DEF CommitEditEntry
  <2>2. /\ req[r].new.admin => EntriesRemain
        /\ \A e \in EntryIds : e # req[r].id => entry'[e] = entry[e]
    BY <1>0, <2>1, EditedEntry
  <2>3. CASE req[r].new.admin
    BY <1>1, <2>2, <2>3, FoundKept
  <2>4. CASE ~req[r].new.admin
    BY <1>1, <2>1, <2>2, <2>4, FoundRevoked DEF TakesAdmin, Finds, Doing
  <2> QED BY <2>3, <2>4
<1>2. CASE CommitRemoveEntry(r)
  <2>1. Doing(r, "removeFound") /\ entry' = [entry EXCEPT ![req[r].id] = Absent]
    BY <1>2 DEF CommitRemoveEntry, Delete
  <2>2. \A e \in EntryIds : e # req[r].id => entry'[e] = entry[e]
    BY <1>0, <2>1 DEF TypeOK, Table
  <2> QED BY <1>2, <2>1, <2>2, FoundRevoked DEF TakesAdmin, Finds, Doing
<1>3. ASSUME NEW e \in EntryIds, NEW m \in Emails, CommitSetup(r, e, m) PROVE SessionsListed'
  <2>1. EntriesRemain
    BY <1>0, <1>3, SetupRemain
  <2>2. user' = user /\ session' = session
    BY <1>3 DEF CommitSetup
  <2>3. ASSUME NEW k \in Sessions, session'[k] # Absent
        PROVE  /\ session'[k] = session[k] /\ session[k].user \in Ids(user)'
               /\ SameRights(user'[session[k].user], user[session[k].user])
    <3>1. session[k].user \in Ids(user)
      BY <2>2, <2>3, SessionUsers
    <3> QED BY <2>2, <3>1 DEF Ids, SameRights, SameAddress
  <2> QED BY <2>1, <2>3, SessionsStayIf
<1>4. CASE UNCHANGED <<entry, user, session>>
  BY <1>4, SessionsStay
<1> QED BY <1>1, <1>2, <1>3, <1>4, UserSessions, SignedInSessions
     DEF Commit, CommitEditProvider, CommitDeleteProvider

-----------------------------------------------------------------------------
(* What the others in flight have read stays so                            *)

LEMMA StaysHonest ==
  ASSUME RightsInv, NEW p \in Reqs, req'[p] = req[p],
         TakesAdmin(req[p]) =>
           /\ req[p].id \in Ids(entry)'
           /\ SameAddress(entry'[req[p].id], entry[req[p].id]),
         Finds(req[p]) => AddressesKept,
         Doing(p, "known") =>
           \/ req[p].id \notin Ids(user)'
           \/ req[p].id \in Ids(user) /\ SameRights(user'[req[p].id], user[req[p].id]),
         SignsIn(req[p]) => EntriesRemain
  PROVE  Honest(req[p])'
<1> DEFINE q == req[p]
<1>0. Honest(q) /\ req'[p] = q
  BY DEF RightsInv
<1>1. TakesAdmin(q) => q.id \in Ids(entry)'
  OBVIOUS
<1>2. TakesAdmin(q) /\ ~Finds(q) => SameAddress(entry'[q.id], q.seen)
  BY <1>0 DEF Honest, SameAddress
<1>3. TakesAdmin(q) /\ Finds(q) =>
        \A u \in Ids(user)' :
          user'[u].provider = entry'[q.id].provider /\ user'[u].email = entry'[q.id].email
            => u \in q.found
  <2>1. ASSUME TakesAdmin(q), Finds(q), NEW u \in Ids(user)',
               user'[u].provider = entry'[q.id].provider, user'[u].email = entry'[q.id].email
        PROVE  u \in q.found
    <3>1. u \in Ids(user) /\ SameAddress(user'[u], user[u])
      BY <2>1 DEF AddressesKept
    <3>2. SameAddress(entry'[q.id], entry[q.id])
      BY <2>1
    <3>3. AccountsFor(entry[q.id].provider, entry[q.id].email) \subseteq q.found
      BY <1>0, <2>1 DEF Honest
    <3> QED BY <2>1, <3>1, <3>2, <3>3 DEF AccountsFor, SameAddress
  <2> QED BY <2>1
<1>4. q.op = "known" => SameRights(user'[q.id], q.seen) \/ q.id \notin Ids(user)'
  BY <1>0 DEF Honest, Doing, SameRights, SameAddress
<1>5. SignsIn(q) =>
        \E e \in Ids(entry)' : SameAddress(entry'[e], q.new) /\ (q.new.admin => entry'[e].admin)
  BY <1>0, ListedStays DEF Honest
<1>6. q.op = "editUser" => q.new = [q.seen EXCEPT !.active = q.new.active]
  BY <1>0 DEF Honest
<1> HIDE DEF q
<1>7. TakesAdmin(q) /\ Finds(q) =>
        AccountsFor(entry[req[p].id].provider, entry[req[p].id].email)' \subseteq q.found
  BY <1>0, <1>3 DEF AccountsFor
<1> QED BY <1>0, <1>1, <1>2, <1>4, <1>5, <1>6, <1>7 DEF Honest, Listed

(* The list loses nothing and the accounts are the same.                   *)
LEMMA HonestRemain ==
  ASSUME RightsInv, EntriesRemain, user' = user, NEW p \in Reqs, req'[p] = req[p]
  PROVE  Honest(req[p])'
<1>1. TakesAdmin(req[p]) =>
        req[p].id \in Ids(entry)' /\ SameAddress(entry'[req[p].id], entry[req[p].id])
  BY DEF RightsInv, Honest, EntriesRemain
<1>2. AddressesKept
  BY DEF AddressesKept, Ids, SameAddress
<1>3. \/ req[p].id \notin Ids(user)'
      \/ req[p].id \in Ids(user) /\ SameRights(user'[req[p].id], user[req[p].id])
  BY DEF Ids, SameRights, SameAddress
<1> QED BY <1>1, <1>2, <1>3, StaysHonest

LEMMA CommitHonest ==
  ASSUME RightsInv, TypeOK', NEW r \in Reqs, Commit(r), "rights" \notin raced',
         NEW p \in Reqs, p # r
  PROVE  Honest(req[p])'
<1> DEFINE c == req[r]
           q == req[p]
<1>0. /\ TypeOK /\ EditsRole /\ Honest(q) /\ req'[p] = q
      /\ entry \in [EntryIds -> EntryRow \cup {Absent}] /\ DOMAIN entry' = EntryIds
      /\ DOMAIN user' = UserIds
  BY CommitRaces DEF RightsInv, Goes, TypeOK, Table
<1>1. ~ChangesRights(c, q)
  BY NotTaken DEF Claims, TakesAway
<1>2. ~Doing(p, "new") \/ writer = p
  BY DEF RightsInv, Locks, Doing
<1>3. ~Doing(p, "new")
  BY <1>2, CommitRaces, AccountsAssumption
<1>4. CASE UNCHANGED <<entry, user>>
  BY <1>0, <1>4, HonestStays
<1>5. CASE CommitEditEntry(r) \/ CommitRemoveEntry(r)
  <2>1. Finds(c)
    BY <1>5 DEF CommitEditEntry, CommitRemoveEntry, Finds, Doing
  <2>2. ~SignsIn(q) /\ ~Doing(p, "known")
    BY <1>1, <1>3, <2>1 DEF ChangesRights, SignsIn, Doing
  <2>3. AddressesKept
    BY <1>0, <1>5, FlagsKeepAddresses
  <2>4. TakesAdmin(q) => q.id \in Ids(entry)' /\ SameAddress(entry'[q.id], entry[q.id])
    <3> SUFFICES ASSUME TakesAdmin(q)
                 PROVE  q.id \in Ids(entry)' /\ SameAddress(entry'[q.id], entry[q.id])
      OBVIOUS
    <3>1. q.id \in Ids(entry)
      BY <1>0 DEF Honest
    <3>2. CASE CommitEditEntry(r)
      <4>1. /\ Doing(r, "editFound")
            /\ entry' = Update(entry, req[r].id, req[r].seen, req[r].new)
        BY <3>2 DEF CommitEditEntry
      <4> QED BY <1>0, <3>1, <4>1, EditedEntry
    <3>3. CASE CommitRemoveEntry(r)
      <4>1. Doing(r, "removeFound") /\ entry' = [entry EXCEPT ![req[r].id] = Absent]
        BY <3>3 DEF CommitRemoveEntry, Delete
      <4>2. c.id # q.id
        BY <1>1, <4>1 DEF ChangesRights, Doing
      <4> QED BY <1>0, <3>1, <4>1, <4>2 DEF Ids, SameAddress
    <3> QED BY <1>5, <3>2, <3>3
  <2> QED BY <1>0, <2>2, <2>3, <2>4, StaysHonest
<1>6. CASE CommitEditUser(r) \/ CommitDeleteUser(r)
  <2>1. RightsKept /\ entry' = entry
    BY <1>6, UserKeepsRights
  <2>2. AddressesKept
    BY <2>1 DEF RightsKept, AddressesKept, SameRights
  <2>3. TakesAdmin(q) => q.id \in Ids(entry)' /\ SameAddress(entry'[q.id], entry[q.id])
    BY <1>0, <2>1 DEF Honest, Ids, SameAddress
  <2>4. \/ q.id \notin Ids(user)'
        \/ q.id \in Ids(user) /\ SameRights(user'[q.id], user[q.id])
    BY <2>1 DEF RightsKept
  <2> QED BY <1>0, <2>1, <2>2, <2>3, <2>4, SameEntries, StaysHonest
<1>7. ASSUME NEW k \in Sessions, SignedIn(r, k) PROVE Honest(req[p])'
  <2>1. entry' = entry /\ \A u \in UserIds : u # c.id => user'[u] = user[u]
    BY <1>7, SignedInRow
  <2>2. SignsIn(c)
    BY <1>7 DEF SignedIn, SignsIn
  <2>3. ~Finds(q) /\ (Doing(p, "known") => c.id # q.id)
    BY <1>1, <2>2 DEF ChangesRights, Doing
  <2>4. TakesAdmin(q) => q.id \in Ids(entry)' /\ SameAddress(entry'[q.id], entry[q.id])
    BY <1>0, <2>1 DEF Honest, Ids, SameAddress
  <2>5. Doing(p, "known") =>
          \/ q.id \notin Ids(user)'
          \/ q.id \in Ids(user) /\ SameRights(user'[q.id], user[q.id])
    <3> SUFFICES ASSUME Doing(p, "known"), q.id \in Ids(user)'
                 PROVE  q.id \in Ids(user) /\ SameRights(user'[q.id], user[q.id])
      OBVIOUS
    <3>1. q.id \in UserIds /\ user'[q.id] = user[q.id]
      BY <1>0, <2>1, <2>3, Fields DEF Doing
    <3>2. DOMAIN user = UserIds
      BY <1>0 DEF TypeOK, Table
    <3> QED BY <1>0, <3>1, <3>2 DEF Ids, SameRights, SameAddress
  <2> QED BY <1>0, <2>1, <2>3, <2>4, <2>5, SameEntries, StaysHonest
<1>8. ASSUME NEW e \in EntryIds, NEW m \in Emails, CommitSetup(r, e, m) PROVE Honest(req[p])'
  <2>1. EntriesRemain
    BY <1>0, <1>8, SetupRemain
  <2>2. user' = user
    BY <1>8 DEF CommitSetup
  <2> QED BY <1>0, <2>1, <2>2, HonestRemain
<1> QED BY <1>4, <1>5, <1>6, <1>7, <1>8 DEF Commit, CommitEditProvider, CommitDeleteProvider

LEMMA RightsCommit ==
  ASSUME RightsInv, TypeOK', EditsRole', Locks', NEW r \in Reqs, Commit(r),
         "rights" \notin raced'
  PROVE  RightsInv'
<1>1. req'[r] = Idle
  BY CommitRaces DEF RightsInv, TypeOK, Goes
<1>2. Honest(req[r])'
  BY <1>1 DEF Idle, Honest, TakesAdmin, Finds, SignsIn
<1>3. \A p \in Reqs : Honest(req[p])'
  BY <1>2, CommitHonest
<1>4. SessionsListed'
  BY CommitSessions
<1> QED BY <1>3, <1>4 DEF RightsInv

LEMMA RightsImmediate ==
  ASSUME RightsInv, TypeOK', EditsRole', Locks', Immediate PROVE RightsInv'
<1>0. TypeOK
  BY DEF RightsInv
<1>1. /\ UNCHANGED <<user, req>>
      /\ \A k \in Sessions : session'[k] # Absent => session'[k] = session[k]
  <2>1. CASE \E p \in ProviderIds, enabled \in BOOLEAN, primary \in BOOLEAN :
               CreateProvider(p, enabled, primary)
    BY <2>1 DEF CreateProvider
  <2>2. CASE \E e \in EntryIds, p \in ProviderIds, m \in Emails, admin \in BOOLEAN :
               AddToAllowlist(e, p, m, admin)
    BY <2>2 DEF AddToAllowlist
  <2>3. CASE \E u \in UserIds : RevokeSessions(u)
    BY <2>3, RevokedSessions DEF RevokeSessions
  <2>4. CASE \E k \in Sessions : EndSession(k)
    BY <2>4 DEF EndSession, RightsInv, TypeOK, Table
  <2> QED BY <2>1, <2>2, <2>3, <2>4 DEF Immediate
<1>2. EntriesRemain
  <2>1. ASSUME NEW e \in EntryIds, NEW p \in ProviderIds, NEW m \in Emails,
               NEW admin \in BOOLEAN, AddToAllowlist(e, p, m, admin)
        PROVE  EntriesRemain
    <3> DEFINE row == [provider |-> p, email |-> m, admin |-> admin]
    <3>1. row \in EntryRow
      BY DEF EntryRow
    <3>2. entry' = [entry EXCEPT ![e] = row] /\ Follows(e, entry)
      BY <2>1 DEF AddToAllowlist
    <3> HIDE DEF row
    <3> QED BY <1>0, <3>1, <3>2, AddedRemain
  <2>2. CASE entry' = entry
    BY <2>2, SameEntries
  <2> QED BY <2>1, <2>2 DEF Immediate, CreateProvider, RevokeSessions, EndSession
<1>3. ASSUME NEW k \in Sessions, session'[k] # Absent
      PROVE  /\ session'[k] = session[k] /\ session[k].user \in Ids(user)'
             /\ SameRights(user'[session[k].user], user[session[k].user])
  <2>1. session'[k] = session[k] /\ session[k].user \in Ids(user)
    BY <1>1, <1>3, SessionUsers
  <2> QED BY <1>1, <2>1 DEF Ids, SameRights, SameAddress
<1>4. SessionsListed'
  BY <1>2, <1>3, SessionsStayIf
<1>5. \A p \in Reqs : Honest(req[p])'
  BY <1>1, <1>2, HonestRemain
<1> QED BY <1>4, <1>5 DEF RightsInv

LEMMA RightsInductive ==
  ASSUME RightsInv, [Next]_vars, "rights" \notin raced' PROVE RightsInv'
<1>0. TypeOK' /\ EditsRole' /\ Locks'
  BY NextType, RolesEdited, LocksInductive DEF RightsInv
<1>1. CASE Immediate
  BY <1>0, <1>1, RightsImmediate
<1>2. ASSUME NEW r \in Reqs, Begin(r) PROVE RightsInv'
  BY <1>0, <1>2, RightsBegin
<1>3. ASSUME NEW r \in Reqs, Continue(r) PROVE RightsInv'
  BY <1>0, <1>3, RightsContinue
<1>4. ASSUME NEW r \in Reqs, Commit(r) PROVE RightsInv'
  BY <1>0, <1>4, RightsCommit
<1>5. ASSUME NEW r \in Reqs, Fails(r) PROVE RightsInv'
  <2>1. Goes(r, Idle) /\ UNCHANGED <<entry, user, session>>
    BY <1>5 DEF Fails, rowVars
  <2>2. Honest(Idle)
    BY PlainHonest DEF Plain, Idle
  <2> QED BY <1>0, <2>1, <2>2, RightsStay
<1>6. CASE UNCHANGED vars
  <2>1. UNCHANGED <<entry, user, session, req>>
    BY <1>6 DEF vars
  <2>2. \A p \in Reqs : Honest(req'[p])
    BY <2>1 DEF RightsInv
  <2>3. \A p \in Reqs : Honest(req[p])'
    BY <2>1, <2>2, HonestStays
  <2>4. SessionsListed'
    BY <2>1, SessionsStay
  <2> QED BY <1>0, <2>3, <2>4 DEF RightsInv
<1> QED BY <1>1, <1>2, <1>3, <1>4, <1>5, <1>6 DEF Next

(* SEC-37: whoever has a session that works is on the list, and an         *)
(* administrator there if they administrate; unless the list or the        *)
(* account has been changed under the request that decides it.             *)
THEOREM RightsAreListed == Spec => []RightsFollowTheList
<1> DEFINE Claim == TypeOK /\ ("rights" \notin raced => RightsInv)
<1>1. Init => Claim
  BY RightsInit DEF RightsInv
<1>2. Claim /\ [Next]_vars => Claim'
  BY RightsInductive, RacesStay, NextType
<1>3. Claim => RightsFollowTheList
  <2> SUFFICES ASSUME RightsInv, NEW k \in Sessions, Usable(k)
               PROVE  LET a == user[session[k].user] IN
                      \E e \in EntriesFor(a.provider, a.email) : a.admin => entry[e].admin
    BY DEF RightsFollowTheList
  <2>1. Listed(user[session[k].user])
    BY DEF RightsInv, SessionsListed, Usable
  <2> QED BY <2>1 DEF Listed, EntriesFor, SameAddress
<1> QED BY <1>1, <1>2, <1>3, PTL DEF Spec

=============================================================================

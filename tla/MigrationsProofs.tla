-------------------------- MODULE MigrationsProofs --------------------------
(***************************************************************************)
(* The migration scripts, for any accounts of the database that is found,  *)
(* and any number of interruptions.                                        *)
(***************************************************************************)
EXTENDS Migrations, TLAPS, SequenceTheorems, WellFoundedInduction

-----------------------------------------------------------------------------
(* Natural numbers                                                         *)

LEMMA Least == ASSUME NEW S \in SUBSET Nat, S # {} PROVE \E n \in S : \A m \in S : n <= m
<1> DEFINE R == OpToRel(<, Nat)
<1>1. IsWellFoundedOn(R, Nat)
  BY NatLessThanWellFounded
<1> HIDE DEF R
<1>2. PICK n \in S : \A m \in S : ~(<<m, n>> \in R)
  BY <1>1, WFMin
<1>3. ASSUME NEW m \in S PROVE n <= m
  <2>1. ~(m < n)
    BY <1>2 DEF R, OpToRel
  <2> QED BY <2>1
<1> QED BY <1>3

LEMMA Induction ==
  ASSUME NEW S \in SUBSET Nat, 0 \in S, \A n \in S : n + 1 \in S
  PROVE  S = Nat
<1> SUFFICES ASSUME Nat \ S # {} PROVE FALSE
  OBVIOUS
<1>1. PICK n \in Nat \ S : \A m \in Nat \ S : n <= m
  BY Least
<1>2. n - 1 \in Nat /\ n - 1 \in S
  BY <1>1
<1> QED BY <1>1, <1>2

-----------------------------------------------------------------------------
(* The scripts                                                             *)

Names ==
  {"_alembic_tmp", "provider", "group", "user", "audit_log", "ix_audit_log", "backup_code",
   "credential", "session", "user_group", "vault", "generation", "vault_access", "vault_lock",
   "webauthn_challenge", "setting", "allowlist", "password_hash", "must_enroll_passkey",
   "enroll_expires_at", "enrollment_only", "failed_attempts", "locked_until",
   "next_generation", "strong_auth", "kind", "tenant", "is_primary", "sync_groups", "source",
   "external_id", "last_synced_at"}
Things == {<<t>> : t \in Names} \cup {<<t, c>> : t, c \in Names}

(* What writes rows opens a transaction, whatever there is to import.      *)
Writers == {"copy", "list", "disable", "signout", "port"}
Change ==
  [do : {"create", "fill", "drop"}, what : SUBSET Things]
    \cup [do : {"rename"}, what : SUBSET Things, lost : SUBSET Things, new : SUBSET Things]
    \cup [do : Writers \cup {"import"}]

HasWriter(s) == \E i \in 1..Len(s) : s[i].do \in Writers

(* Nothing is taken away outside a transaction.                            *)
Tidy(s) ==
  /\ s \in Seq(Change)
  /\ \A i \in 1..Len(s) :
       s[i].do \in {"drop", "rename"} => \E j \in 1..i - 1 : s[j].do \in Writers

(* The tables of the local login do not come back.                         *)
LoginTables == {<<"credential">>, <<"backup_code">>, <<"webauthn_challenge">>}
Harmless(c) ==
  /\ c.do \in {"create", "fill"} => c.what \cap LoginTables = {}
  /\ c.do = "rename" => c.new \cap LoginTables = {}
Spares(s) == \A i \in 1..Len(s) : Harmless(s[i])

Has(s, c) == \E i \in 1..Len(s) : s[i] = c

LEMMA Joined ==
  ASSUME NEW S, NEW s \in Seq(S), NEW t \in Seq(S)
  PROVE  /\ s \o t \in Seq(S)
         /\ Len(s) \in Nat /\ Len(t) \in Nat /\ Len(s \o t) = Len(s) + Len(t)
         /\ \A i \in 1..Len(s) : i \in 1..Len(s \o t) /\ (s \o t)[i] = s[i]
         /\ \A i \in 1..Len(t) : Len(s) + i \in 1..Len(s \o t) /\ (s \o t)[Len(s) + i] = t[i]
         /\ \A i \in 1..Len(s \o t) :
              \/ i \in 1..Len(s) /\ (s \o t)[i] = s[i]
              \/ \E j \in 1..Len(t) : i = Len(s) + j /\ (s \o t)[i] = t[j]
<1>1. Len(s) \in Nat /\ Len(t) \in Nat
  BY LenProperties
<1>2. /\ s \o t \in Seq(S)
      /\ Len(s \o t) = Len(s) + Len(t)
      /\ \A i \in 1..Len(s) + Len(t) :
           (s \o t)[i] = IF i <= Len(s) THEN s[i] ELSE t[i - Len(s)]
  BY ConcatProperties
<1>3. ASSUME NEW i \in 1..Len(s) PROVE i \in 1..Len(s \o t) /\ (s \o t)[i] = s[i]
  <2>1. i \in 1..Len(s) + Len(t) /\ i <= Len(s)
    BY <1>1
  <2> QED BY <1>2, <2>1
<1>4. ASSUME NEW i \in 1..Len(t)
      PROVE  Len(s) + i \in 1..Len(s \o t) /\ (s \o t)[Len(s) + i] = t[i]
  <2>1. Len(s) + i \in 1..Len(s) + Len(t) /\ ~(Len(s) + i <= Len(s)) /\ Len(s) + i - Len(s) = i
    BY <1>1
  <2> QED BY <1>2, <2>1
<1>5. ASSUME NEW i \in 1..Len(s \o t), i \notin 1..Len(s)
      PROVE  \E j \in 1..Len(t) : i = Len(s) + j
  <2>1. i - Len(s) \in 1..Len(t) /\ i = Len(s) + (i - Len(s))
    BY <1>1, <1>2, <1>5
  <2> QED BY <2>1
<1> QED BY <1>1, <1>2, <1>3, <1>4, <1>5

LEMMA TidyJoined ==
  ASSUME NEW s, NEW t, Tidy(s), t \in Seq(Change), Tidy(t) \/ HasWriter(s)
  PROVE  Tidy(s \o t)
<1>1. s \in Seq(Change)
  BY DEF Tidy
<1>2. s \o t \in Seq(Change)
  BY <1>1, Joined
<1> SUFFICES ASSUME NEW i \in 1..Len(s \o t), (s \o t)[i].do \in {"drop", "rename"}
             PROVE  \E j \in 1..i - 1 : (s \o t)[j].do \in Writers
  BY <1>2 DEF Tidy
<1> HIDE DEF Change
<1>3. CASE i \in 1..Len(s) /\ (s \o t)[i] = s[i]
  <2>1. PICK j \in 1..i - 1 : s[j].do \in Writers
    BY <1>3 DEF Tidy
  <2>2. j \in 1..Len(s)
    BY <1>1, <1>3, Joined
  <2>3. (s \o t)[j] = s[j]
    BY <1>1, <2>2, Joined
  <2> QED BY <2>1, <2>3
<1>4. ASSUME NEW n \in 1..Len(t), i = Len(s) + n, (s \o t)[i] = t[n]
      PROVE  \E j \in 1..i - 1 : (s \o t)[j].do \in Writers
  <2>1. Len(s) \in Nat /\ Len(t) \in Nat
    BY <1>1, Joined
  <2>2. CASE HasWriter(s)
    <3>1. PICK j \in 1..Len(s) : s[j].do \in Writers
      BY <2>2 DEF HasWriter
    <3>2. (s \o t)[j] = s[j]
      BY <1>1, <3>1, Joined
    <3>3. j \in 1..i - 1
      BY <1>4, <2>1
    <3> QED BY <3>1, <3>2, <3>3
  <2>3. CASE Tidy(t)
    <3>1. PICK j \in 1..n - 1 : t[j].do \in Writers
      BY <1>4, <2>3 DEF Tidy
    <3>2. j \in 1..Len(t) /\ Len(s) + j \in 1..i - 1
      BY <1>4, <2>1, <3>1
    <3>3. (s \o t)[Len(s) + j] = t[j]
      BY <1>1, <3>2, Joined
    <3> QED BY <3>1, <3>2, <3>3
  <2> QED BY <2>2, <2>3
<1>5. \/ i \in 1..Len(s) /\ (s \o t)[i] = s[i]
      \/ \E n \in 1..Len(t) : i = Len(s) + n /\ (s \o t)[i] = t[n]
  BY <1>1, Joined
<1> QED BY <1>3, <1>4, <1>5

LEMMA HasJoined ==
  ASSUME NEW s \in Seq(Change), NEW t \in Seq(Change)
  PROVE  /\ HasWriter(s) \/ HasWriter(t) => HasWriter(s \o t)
         /\ \A c : Has(s, c) \/ Has(t, c) => Has(s \o t, c)
         /\ Spares(s) /\ Spares(t) => Spares(s \o t)
<1> DEFINE st == s \o t
<1>1. \A i \in 1..Len(s) : i \in 1..Len(st) /\ st[i] = s[i]
  BY Joined
<1>2. \A i \in 1..Len(t) : Len(s) + i \in 1..Len(st) /\ st[Len(s) + i] = t[i]
  BY Joined
<1>3. \A i \in 1..Len(st) :
        \/ i \in 1..Len(s) /\ st[i] = s[i]
        \/ \E j \in 1..Len(t) : i = Len(s) + j /\ st[i] = t[j]
  BY Joined
<1> HIDE DEF st
<1>4. HasWriter(s) \/ HasWriter(t) => HasWriter(st)
  BY <1>1, <1>2 DEF HasWriter
<1>5. \A c : Has(s, c) \/ Has(t, c) => Has(st, c)
  BY <1>1, <1>2 DEF Has
<1>6. Spares(s) /\ Spares(t) => Spares(st)
  BY <1>3 DEF Spares
<1> QED BY <1>4, <1>5, <1>6 DEF st

LEMMA OneStatement ==
  ASSUME NEW c \in Change
  PROVE  /\ <<c>> \in Seq(Change) /\ Has(<<c>>, c)
         /\ c.do \notin {"drop", "rename"} => Tidy(<<c>>)
         /\ c.do \in Writers => HasWriter(<<c>>)
         /\ Harmless(c) => Spares(<<c>>)
<1>1. <<c>> \in Seq(Change) /\ Len(<<c>>) = 1 /\ <<c>>[1] = c
  OBVIOUS
<1> DEFINE s == <<c>>
<1> HIDE DEF s, Change
<1>2. \A i \in 1..Len(s) : s[i] = c
  BY <1>1 DEF s
<1>3. 1 \in 1..Len(s) /\ s[1] = c
  BY <1>1 DEF s
<1>4. Has(s, c) /\ (c.do \in Writers => HasWriter(s)) /\ (Harmless(c) => Spares(s))
  BY <1>2, <1>3 DEF Has, HasWriter, Spares
<1>5. c.do \notin {"drop", "rename"} => Tidy(s)
  BY <1>1, <1>2 DEF Tidy, s
<1> QED BY <1>1, <1>4, <1>5 DEF s

LEMMA Tables ==
  ASSUME NEW t \in Names, NEW cs \in SUBSET Names
  PROVE  {<<t>>} \subseteq Things /\ Columns(t, cs) \subseteq Things
         /\ \A c \in Names : {<<t, c>>} \subseteq Things
<1>1. <<t>> \in Things
  BY DEF Things
<1>2. ASSUME NEW c \in Names PROVE <<t, c>> \in Things
  BY DEF Things
<1>3. \A x \in Columns(t, cs) : \E c \in Names : x = <<t, c>>
  BY DEF Columns
<1> QED BY <1>1, <1>2, <1>3

LEMMA CreateTidy ==
  ASSUME NEW w \in SUBSET Things
  PROVE  Tidy(Create(w)) /\ (w \cap LoginTables = {} => Spares(Create(w)))
<1> DEFINE c == [do |-> "create", what |-> w]
<1>1. c \in Change /\ c.do \notin {"drop", "rename"}
  BY DEF Change
<1>2. w \cap LoginTables = {} => Harmless(c)
  BY DEF Harmless
<1> HIDE DEF c
<1>3. Tidy(<<c>>) /\ (Harmless(c) => Spares(<<c>>))
  BY <1>1, OneStatement
<1> QED BY <1>2, <1>3 DEF Create, c

LEMMA FillTidy ==
  ASSUME NEW t \in Names, NEW n \in Names PROVE Tidy(Fill(t, n))
<1> DEFINE c == [do |-> "fill", what |-> {<<t, n>>}]
<1>1. c \in Change /\ c.do \notin {"drop", "rename"}
  BY DEF Change, Things
<1> HIDE DEF c
<1>2. Tidy(<<c>>)
  BY <1>1, OneStatement
<1> QED BY <1>2 DEF Fill, c

LEMMA RowsTidy ==
  ASSUME NEW name \in Writers \cup {"import"}
  PROVE  /\ Tidy(Rows(name)) /\ Spares(Rows(name)) /\ Has(Rows(name), [do |-> name])
         /\ name \in Writers => HasWriter(Rows(name))
<1> DEFINE c == [do |-> name]
<1>1. c \in Change /\ c.do = name
  BY DEF Change
<1>2. name \notin {"drop", "rename", "create", "fill"}
  BY DEF Writers
<1> HIDE DEF c
<1>3. Harmless(c)
  BY <1>1, <1>2 DEF Harmless
<1>4. Tidy(<<c>>) /\ Spares(<<c>>) /\ Has(<<c>>, c) /\ (name \in Writers => HasWriter(<<c>>))
  BY <1>1, <1>2, <1>3, OneStatement
<1> QED BY <1>4 DEF Rows, c

LEMMA DropIs ==
  ASSUME NEW t \in Names
  PROVE  /\ DropTable(t) \in Seq(Change) /\ Spares(DropTable(t))
         /\ Has(DropTable(t), [do |-> "drop", what |-> {<<t>>}])
<1> DEFINE c == [do |-> "drop", what |-> {<<t>>}]
<1>1. c \in Change
  BY DEF Change, Things
<1>2. Harmless(c)
  BY DEF Harmless
<1> HIDE DEF c
<1>3. <<c>> \in Seq(Change) /\ Spares(<<c>>) /\ Has(<<c>>, c)
  BY <1>1, <1>2, OneStatement
<1> QED BY <1>3 DEF DropTable, c

(* A table is rebuilt: the copy opens a transaction before the table goes. *)
LEMMA RebuiltTidy ==
  ASSUME NEW t \in Names, NEW lost \in SUBSET Things, NEW new \in SUBSET Things
  PROVE  /\ Tidy(Rebuilt(t, lost, new)) /\ HasWriter(Rebuilt(t, lost, new))
         /\ <<t>> \notin LoginTables /\ new \cap LoginTables = {} => Spares(Rebuilt(t, lost, new))
<1> DEFINE a == [do |-> "copy"]
           b == [do |-> "drop", what |-> {<<t>>}]
           c == [do |-> "rename", what |-> {Temporary(t)}, lost |-> lost, new |-> new \cup {<<t>>}]
           s == <<a, b, c>>
<1>1. {Temporary(t)} \subseteq Things /\ {<<t>>} \subseteq Things
  <2>1. "_alembic_tmp" \in Names
    BY DEF Names
  <2> QED BY <2>1, Tables DEF Temporary
<1>2. a \in Change /\ b \in Change /\ c \in Change
  BY <1>1 DEF Change, Writers
<1>3. a.do \in Writers /\ a.do \notin {"drop", "rename", "create", "fill"}
      /\ b.do \notin {"create", "fill", "rename"}
  BY DEF Writers
<1>4. <<t>> \notin LoginTables /\ new \cap LoginTables = {} =>
        Harmless(a) /\ Harmless(b) /\ Harmless(c)
  BY DEF Harmless
<1> HIDE DEF a, b, c
<1>5. s \in Seq(Change) /\ Len(s) = 3 /\ s[1] = a /\ s[2] = b /\ s[3] = c
  BY <1>2
<1> HIDE DEF s
<1>6. \A i \in 1..Len(s) : i = 1 \/ (i \in {2, 3} /\ 1 \in 1..i - 1)
  BY <1>5
<1>7. Tidy(s) /\ HasWriter(s)
  BY <1>3, <1>5, <1>6 DEF Tidy, HasWriter
<1>8. <<t>> \notin LoginTables /\ new \cap LoginTables = {} => Spares(s)
  BY <1>4, <1>5, <1>6 DEF Spares
<1>9. /\ Tidy(Create({Temporary(t)}))
      /\ {Temporary(t)} \cap LoginTables = {} => Spares(Create({Temporary(t)}))
  BY <1>1, CreateTidy
<1>10. {Temporary(t)} \cap LoginTables = {}
  BY DEF Temporary, LoginTables
<1>11. Create({Temporary(t)}) \in Seq(Change) /\ s \in Seq(Change)
  BY <1>7, <1>9 DEF Tidy
<1>12. Tidy(Create({Temporary(t)}) \o s) /\ HasWriter(Create({Temporary(t)}) \o s)
  BY <1>7, <1>9, <1>11, TidyJoined, HasJoined
<1>13. <<t>> \notin LoginTables /\ new \cap LoginTables = {} =>
         Spares(Create({Temporary(t)}) \o s)
  BY <1>8, <1>9, <1>10, <1>11, HasJoined
<1> QED BY <1>12, <1>13 DEF Rebuilt, a, b, c, s

LEMMA CreateOne ==
  ASSUME NEW t \in Names
  PROVE  /\ Tidy(Create({<<t>>}))
         /\ t \notin {"credential", "backup_code", "webauthn_challenge"} =>
              Spares(Create({<<t>>})) /\ <<t>> \notin LoginTables
         /\ \A c \in Names : Tidy(Create({<<t, c>>})) /\ Spares(Create({<<t, c>>}))
<1>1. {<<t>>} \subseteq Things /\ \A c \in Names : {<<t, c>>} \subseteq Things
  BY Tables
<1>2. t \notin {"credential", "backup_code", "webauthn_challenge"} => <<t>> \notin LoginTables
  BY DEF LoginTables
<1>3. \A c \in Names : <<t, c>> \notin LoginTables
  BY DEF LoginTables
<1>4. ASSUME NEW w, w \in Things, w \notin LoginTables
      PROVE  Tidy(Create({w})) /\ Spares(Create({w}))
  BY <1>4, CreateTidy
<1>5. Tidy(Create({<<t>>}))
  BY <1>1, CreateTidy
<1> QED BY <1>1, <1>2, <1>3, <1>4, <1>5

LEMMA ColumnsSpared ==
  ASSUME NEW t, NEW cs PROVE Columns(t, cs) \cap LoginTables = {}
BY DEF Columns, LoginTables

(* The first four scripts and the last but one of version 2.0.0.           *)
LEMMA FirstScripts ==
  /\ Tidy(InitialSchema) /\ Tidy(Throttling) /\ Tidy(GenerationCounter)
  /\ Tidy(IdsCountUpwards) /\ Tidy(SessionsKnow)
<1>1. \A s, t : Tidy(s) /\ Tidy(t) => Tidy(s \o t)
  BY TidyJoined DEF Tidy
<1>2. \A t \in Names : Tidy(Create({<<t>>})) /\ \A c \in Names : Tidy(Create({<<t, c>>}))
  BY CreateOne
<1>3. \A t, c \in Names : Tidy(Fill(t, c))
  BY FillTidy
<1>4. \A t \in Names : Tidy(Rebuilt(t, {}, {}))
  BY RebuiltTidy
<1>5. Tidy(Throttling)
  <2>1. {"webauthn_challenge", "user", "failed_attempts", "locked_until"} \subseteq Names
    BY DEF Names
  <2>2. /\ Tidy(Create({<<"webauthn_challenge">>})) /\ Tidy(Fill("user", "failed_attempts"))
        /\ Tidy(Create({<<"user", "locked_until">>}))
    BY <1>2, <1>3, <2>1
  <2> QED BY <1>1, <2>2 DEF Throttling
<1>6. Tidy(GenerationCounter)
  <2>1. "vault" \in Names /\ "next_generation" \in Names
    BY DEF Names
  <2> QED BY <1>1, <1>2, <1>4, <2>1 DEF GenerationCounter
<1>7. Tidy(IdsCountUpwards)
  <2>1. "user" \in Names /\ "group" \in Names
    BY DEF Names
  <2> QED BY <1>1, <1>4, <2>1 DEF IdsCountUpwards
<1>8. Tidy(SessionsKnow)
  <2>1. "session" \in Names /\ "strong_auth" \in Names
    BY DEF Names
  <2> QED BY <1>2, <2>1 DEF SessionsKnow
<1>9. Tidy(InitialSchema)
  <2>1. /\ {"provider", "group", "user", "audit_log", "ix_audit_log", "backup_code"} \subseteq Names
        /\ {"credential", "session", "user_group", "vault", "generation"} \subseteq Names
        /\ {"vault_access", "vault_lock", "enrollment_only"} \subseteq Names
    BY DEF Names
  <2>2. LocalLogin \subseteq Names
    BY DEF LocalLogin, Names
  <2>3. Tidy(Create({<<"user">>} \cup Columns("user", LocalLogin)))
    <3>1. {<<"user">>} \cup Columns("user", LocalLogin) \subseteq Things
      BY <2>1, <2>2, Tables
    <3> QED BY <3>1, CreateTidy
  <2>4. Tidy(Create({<<"session">>, <<"session", "enrollment_only">>}))
    <3>1. {<<"session">>} \subseteq Things /\ {<<"session", "enrollment_only">>} \subseteq Things
      BY <2>1, Tables
    <3>2. {<<"session">>, <<"session", "enrollment_only">>} \subseteq Things
      BY <3>1
    <3> QED BY <3>2, CreateTidy
  <2>5. /\ Tidy(Create({<<"provider">>})) /\ Tidy(Create({<<"group">>}))
        /\ Tidy(Create({<<"audit_log">>})) /\ Tidy(Create({<<"ix_audit_log">>}))
        /\ Tidy(Create({<<"backup_code">>})) /\ Tidy(Create({<<"credential">>}))
        /\ Tidy(Create({<<"user_group">>})) /\ Tidy(Create({<<"vault">>}))
        /\ Tidy(Create({<<"generation">>})) /\ Tidy(Create({<<"vault_access">>}))
        /\ Tidy(Create({<<"vault_lock">>}))
    BY <1>2, <2>1
  <2> QED BY ZenonT(60), <1>1, <2>3, <2>4, <2>5 DEF InitialSchema
<1> QED BY <1>5, <1>6, <1>7, <1>8, <1>9

Sound(s) == Tidy(s) /\ Spares(s)

LEMMA SoundJoined ==
  ASSUME NEW s, NEW t, Sound(s), Sound(t) \/ (HasWriter(s) /\ t \in Seq(Change) /\ Spares(t))
  PROVE  /\ Sound(s \o t)
         /\ \A c : Has(s, c) \/ Has(t, c) => Has(s \o t, c)
         /\ HasWriter(s) \/ HasWriter(t) => HasWriter(s \o t)
<1>1. s \in Seq(Change) /\ t \in Seq(Change) /\ Spares(s) /\ Spares(t)
  BY DEF Sound, Tidy
<1>2. Tidy(s \o t)
  BY <1>1, TidyJoined DEF Sound
<1> QED BY <1>1, <1>2, HasJoined DEF Sound

(* The script that takes the login to the providers does all that SEC-48   *)
(* asks for, and creates nothing of the local login.                       *)
LEMMA IdentityIs ==
  LET s == IdentityFromProvider IN
  /\ Sound(s) /\ \A name \in {"import", "list", "disable", "signout"} : Has(s, [do |-> name])
  /\ \A t \in {"webauthn_challenge", "backup_code", "credential"} :
       Has(s, [do |-> "drop", what |-> {<<t>>}])
<1> DEFINE a == Create({<<"setting">>}) \o Rows("import")
           b == a \o Create({<<"provider", "kind">>}) \o Create({<<"provider", "tenant">>})
                  \o Create({<<"provider", "is_primary">>})
                  \o Create({<<"provider", "sync_groups">>})
                  \o Create({<<"allowlist">>}) \o Rows("list")
           group == Rebuilt("group", {},
                            Columns("group", {"source", "external_id", "last_synced_at"}))
           user == Rebuilt("user", Columns("user", LocalLogin
                                             \cup {"failed_attempts", "locked_until"}), {})
           session == Rebuilt("session",
                              Columns("session", {"enrollment_only", "strong_auth"}), {})
           c == b \o group \o Rows("disable")
           d == c \o user \o Rows("signout")
           e == d \o session
           f == e \o DropTable("webauthn_challenge")
           g == f \o DropTable("backup_code")
           h == g \o DropTable("credential")
<1>1. /\ {"setting", "provider", "kind", "tenant", "is_primary", "sync_groups"} \subseteq Names
      /\ {"allowlist", "group", "source", "external_id", "last_synced_at", "user"} \subseteq Names
      /\ {"failed_attempts", "locked_until", "session", "enrollment_only"} \subseteq Names
      /\ {"strong_auth", "webauthn_challenge", "backup_code", "credential"} \subseteq Names
      /\ LocalLogin \subseteq Names
  BY DEF Names, LocalLogin
<1>2. \A name \in {"import", "list", "disable", "signout"} :
        Sound(Rows(name)) /\ Has(Rows(name), [do |-> name])
  BY RowsTidy DEF Sound, Writers
<1>3. Sound(a) /\ Has(a, [do |-> "import"])
  <2>1. Sound(Create({<<"setting">>}))
    BY <1>1, CreateOne DEF Sound
  <2> QED BY <1>2, <2>1, SoundJoined
<1>4. Sound(b) /\ Has(b, [do |-> "import"]) /\ Has(b, [do |-> "list"])
  <2>1. /\ Sound(Create({<<"provider", "kind">>})) /\ Sound(Create({<<"provider", "tenant">>}))
        /\ Sound(Create({<<"provider", "is_primary">>}))
        /\ Sound(Create({<<"provider", "sync_groups">>}))
    BY <1>1, CreateOne DEF Sound
  <2>2. Sound(Create({<<"allowlist">>}))
    BY <1>1, CreateOne DEF Sound
  <2>3. Sound(Rows("list")) /\ Has(Rows("list"), [do |-> "list"])
    BY <1>2
  <2> HIDE DEF a
  <2>4. \A s, t : Sound(s) /\ Sound(t) =>
          Sound(s \o t) /\ \A x : Has(s, x) \/ Has(t, x) => Has(s \o t, x)
    BY SoundJoined
  <2> DEFINE b1 == a \o Create({<<"provider", "kind">>})
             b2 == b1 \o Create({<<"provider", "tenant">>})
             b3 == b2 \o Create({<<"provider", "is_primary">>})
             b4 == b3 \o Create({<<"provider", "sync_groups">>})
             b5 == b4 \o Create({<<"allowlist">>})
  <2>5. Sound(b1) /\ Has(b1, [do |-> "import"])
    BY <1>3, <2>1, <2>4
  <2>6. Sound(b2) /\ Has(b2, [do |-> "import"])
    <3> HIDE DEF b1
    <3> QED BY <2>1, <2>4, <2>5
  <2>7. Sound(b3) /\ Has(b3, [do |-> "import"])
    <3> HIDE DEF b2
    <3> QED BY <2>1, <2>4, <2>6
  <2>8. Sound(b4) /\ Has(b4, [do |-> "import"])
    <3> HIDE DEF b3
    <3> QED BY <2>1, <2>4, <2>7
  <2>9. Sound(b5) /\ Has(b5, [do |-> "import"])
    <3> HIDE DEF b4
    <3> QED BY <2>2, <2>4, <2>8
  <2>10. b = b5 \o Rows("list")
    OBVIOUS
  <2> HIDE DEF b, b5
  <2> QED BY <2>3, <2>4, <2>9, <2>10
<1>5. Sound(group) /\ Sound(user) /\ Sound(session) /\ HasWriter(session)
  <2>1. Columns("group", {"source", "external_id", "last_synced_at"}) \subseteq Things
    BY <1>1, Tables
  <2>2. Columns("user", LocalLogin \cup {"failed_attempts", "locked_until"}) \subseteq Things
    BY <1>1, Tables
  <2>3. Columns("session", {"enrollment_only", "strong_auth"}) \subseteq Things
    BY <1>1, Tables
  <2>4. /\ <<"group">> \notin LoginTables /\ <<"user">> \notin LoginTables
        /\ <<"session">> \notin LoginTables
    BY <1>1, CreateOne
  <2>5. Columns("group", {"source", "external_id", "last_synced_at"}) \cap LoginTables = {}
    BY ColumnsSpared
  <2>6. Sound(group)
    BY <1>1, <2>1, <2>4, <2>5, RebuiltTidy DEF Sound
  <2>7. Sound(user)
    BY <1>1, <2>2, <2>4, RebuiltTidy DEF Sound
  <2>8. Sound(session) /\ HasWriter(session)
    BY <1>1, <2>3, <2>4, RebuiltTidy DEF Sound
  <2> QED BY <2>6, <2>7, <2>8
<1> HIDE DEF a, b, group, user, session
<1>6. Sound(b \o group) /\ Has(b \o group, [do |-> "import"]) /\ Has(b \o group, [do |-> "list"])
  BY <1>4, <1>5, SoundJoined
<1>7. Sound(c) /\ \A name \in {"import", "list", "disable"} : Has(c, [do |-> name])
  BY <1>2, <1>6, SoundJoined
<1> HIDE DEF c
<1>8. Sound(c \o user) /\ \A name \in {"import", "list", "disable"} : Has(c \o user, [do |-> name])
  BY <1>5, <1>7, SoundJoined
<1>9. Sound(d) /\ \A name \in {"import", "list", "disable", "signout"} : Has(d, [do |-> name])
  BY <1>2, <1>8, SoundJoined
<1> HIDE DEF d
<1>10. /\ Sound(e) /\ HasWriter(e)
       /\ \A name \in {"import", "list", "disable", "signout"} : Has(e, [do |-> name])
  BY <1>5, <1>9, SoundJoined
<1> HIDE DEF e
<1>11. \A t \in {"webauthn_challenge", "backup_code", "credential"} :
         /\ DropTable(t) \in Seq(Change) /\ Spares(DropTable(t))
         /\ Has(DropTable(t), [do |-> "drop", what |-> {<<t>>}])
  BY <1>1, DropIs
<1>12. /\ Sound(f) /\ HasWriter(f)
       /\ \A name \in {"import", "list", "disable", "signout"} : Has(f, [do |-> name])
       /\ Has(f, [do |-> "drop", what |-> {<<"webauthn_challenge">>}])
  BY <1>10, <1>11, SoundJoined
<1> HIDE DEF f
<1>13. /\ Sound(g) /\ HasWriter(g)
       /\ \A name \in {"import", "list", "disable", "signout"} : Has(g, [do |-> name])
       /\ \A t \in {"webauthn_challenge", "backup_code"} :
            Has(g, [do |-> "drop", what |-> {<<t>>}])
  BY <1>11, <1>12, SoundJoined
<1> HIDE DEF g
<1>14. /\ Sound(h)
       /\ \A name \in {"import", "list", "disable", "signout"} : Has(h, [do |-> name])
       /\ \A t \in {"webauthn_challenge", "backup_code", "credential"} :
            Has(h, [do |-> "drop", what |-> {<<t>>}])
  BY <1>11, <1>13, SoundJoined
<1>15. IdentityFromProvider = h
  BY DEF IdentityFromProvider, a, b, c, d, e, f, g, group, user, session
<1> HIDE DEF h
<1> QED BY <1>14, <1>15

LEMMA DefaultPortIs == Sound(DefaultPort)
BY RowsTidy DEF DefaultPort, Sound, Writers

LEMMA SevenScripts ==
  /\ Newest = 7 /\ Scripts[6] = IdentityFromProvider
  /\ \A k \in 1..Newest : Tidy(Scripts[k]) /\ (k \in {6, 7} => Spares(Scripts[k]))
<1>1. Newest = 7
  BY DEF Newest, Scripts
<1>2. /\ Scripts[1] = InitialSchema /\ Scripts[2] = Throttling /\ Scripts[3] = GenerationCounter
      /\ Scripts[4] = IdsCountUpwards /\ Scripts[5] = SessionsKnow
      /\ Scripts[6] = IdentityFromProvider /\ Scripts[7] = DefaultPort
  BY DEF Scripts
<1>3. \A k \in 1..7 : k \in {1, 2, 3, 4, 5, 6, 7}
  OBVIOUS
<1>4. Sound(IdentityFromProvider)
  BY IdentityIs
<1> QED BY <1>1, <1>2, <1>3, <1>4, FirstScripts, DefaultPortIs DEF Sound

(* The statements of script k up to its last one, which enters the         *)
(* revision.                                                               *)
Body(k) == 1..Len(Script(k)) - 1
Version == [do |-> "version"]

LEMMA VersionAppended ==
  ASSUME NEW s \in Seq(Change)
  PROVE  /\ Len(s) \in Nat /\ Len(s \o <<Version>>) = Len(s) + 1
         /\ \A i \in 1..Len(s) : (s \o <<Version>>)[i] = s[i]
         /\ (s \o <<Version>>)[Len(s) + 1] = Version
<1> DEFINE S == Change \cup {Version}
           v == <<Version>>
<1>1. v \in Seq(S) /\ Len(v) = 1 /\ v[1] = Version
  OBVIOUS
<1> HIDE DEF v
<1>2. Change \subseteq S
  OBVIOUS
<1> HIDE DEF S
<1>3. s \in Seq(S)
  BY <1>2, SeqMonotonic
<1>4. Len(s) \in Nat
  BY <1>3, LenProperties
<1>5. /\ Len(s \o v) = Len(s) + Len(v)
      /\ \A i \in 1..Len(s) + Len(v) : (s \o v)[i] = IF i <= Len(s) THEN s[i] ELSE v[i - Len(s)]
  BY <1>1, <1>3, ConcatProperties
<1>6. \A i \in 1..Len(s) : (s \o v)[i] = s[i]
  BY <1>1, <1>4, <1>5
<1>7. (s \o v)[Len(s) + 1] = Version
  <2>1. Len(s) + 1 \in 1..Len(s) + Len(v) /\ ~(Len(s) + 1 <= Len(s)) /\ Len(s) + 1 - Len(s) = 1
    BY <1>1, <1>4
  <2> QED BY <1>1, <1>5, <2>1
<1> QED BY <1>1, <1>4, <1>5, <1>6, <1>7 DEF v

LEMMA ScriptIs ==
  ASSUME NEW k \in 1..Newest
  PROVE  /\ Len(Script(k)) \in Nat \ {0} /\ Script(k)[Len(Script(k))] = Version
         /\ \A i \in Body(k) :
              /\ Script(k)[i] \in Change
              /\ Script(k)[i].do \in {"drop", "rename"} =>
                   \E j \in 1..i - 1 : Script(k)[j].do \in Writers
              /\ k \in {6, 7} => Harmless(Script(k)[i])
<1> DEFINE s == Scripts[k]
<1>1. Tidy(s) /\ (k \in {6, 7} => Spares(s))
  BY SevenScripts
<1>2. s \in Seq(Change)
  BY <1>1 DEF Tidy
<1> HIDE DEF s
<1>3. Script(k) = s \o <<Version>>
  BY DEF Script, Rows, s, Version
<1>4. /\ Len(s) \in Nat /\ Len(Script(k)) = Len(s) + 1
      /\ \A i \in 1..Len(s) : Script(k)[i] = s[i]
      /\ Script(k)[Len(s) + 1] = Version
  BY <1>2, <1>3, VersionAppended
<1>5. Body(k) = 1..Len(s)
  BY <1>4 DEF Body
<1>6. ASSUME NEW i \in 1..Len(s)
      PROVE  /\ Script(k)[i] \in Change
             /\ Script(k)[i].do \in {"drop", "rename"} =>
                  \E j \in 1..i - 1 : Script(k)[j].do \in Writers
             /\ k \in {6, 7} => Harmless(Script(k)[i])
  <2>1. Script(k)[i] = s[i] /\ s[i] \in Change
    BY <1>2, <1>4, ElementOfSeq
  <2>2. \A j \in 1..i - 1 : Script(k)[j] = s[j]
    BY <1>4
  <2>3. s[i].do \in {"drop", "rename"} => \E j \in 1..i - 1 : s[j].do \in Writers
    BY <1>1 DEF Tidy
  <2>4. k \in {6, 7} => Harmless(s[i])
    BY <1>1 DEF Spares
  <2> QED BY <2>1, <2>2, <2>3, <2>4
<1> QED BY <1>4, <1>5, <1>6

LEMMA IdentityDoes ==
  /\ \A name \in {"import", "list", "disable", "signout"} :
       \E i \in Body(6) : Script(6)[i] = [do |-> name]
  /\ \A t \in {"webauthn_challenge", "backup_code", "credential"} :
       \E i \in Body(6) : Script(6)[i] = [do |-> "drop", what |-> {<<t>>}]
<1> DEFINE s == IdentityFromProvider
<1>1. s \in Seq(Change)
  BY IdentityIs DEF Sound, Tidy
<1>2. /\ \A name \in {"import", "list", "disable", "signout"} : Has(s, [do |-> name])
      /\ \A t \in {"webauthn_challenge", "backup_code", "credential"} :
           Has(s, [do |-> "drop", what |-> {<<t>>}])
  BY IdentityIs
<1>3. Script(6) = s \o <<Version>>
  BY SevenScripts DEF Script, Rows, Version
<1> HIDE DEF s
<1>4. /\ Len(s) \in Nat /\ Len(Script(6)) = Len(s) + 1
      /\ \A i \in 1..Len(s) : Script(6)[i] = s[i]
  BY <1>1, <1>3, VersionAppended
<1>5. Body(6) = 1..Len(s)
  BY <1>4 DEF Body
<1> HIDE DEF Body
<1>6. \A c : Has(s, c) => \E i \in Body(6) : Script(6)[i] = c
  BY <1>4, <1>5 DEF Has
<1> QED BY <1>2, <1>6

-----------------------------------------------------------------------------
(* Databases                                                               *)

DB == [rev : Nat, objects : SUBSET Things, users : [Accounts -> Row \cup {Absent}],
       list : SUBSET Entry, signedIn : BOOLEAN, port : Files \cup {NewPort}]

(* What a statement makes of the schema.                                   *)
Objects(c, objects) ==
  IF c.do \in {"create", "fill"} THEN objects \cup c.what
  ELSE IF c.do = "drop" THEN objects \ c.what
  ELSE IF c.do = "rename" THEN (objects \ (c.what \cup c.lost)) \cup c.new
  ELSE objects

Listed(users) == {EntryOf(users[u]) : u \in Carried(users)}

LEMMA ChangeIs ==
  ASSUME NEW c \in Change \cup {Version}
  PROVE  /\ c.do \in {"create", "fill", "drop", "rename", "import", "version"} \cup Writers
         /\ c.do = "version" <=> c = Version
         /\ c.do \in {"create", "fill", "drop"} => c.what \subseteq Things
         /\ c.do = "rename" => c.new \subseteq Things
BY DEF Change, Version, Writers

LEMMA UsersAre ==
  ASSUME NEW users \in [Accounts -> Row \cup {Absent}]
  PROVE  /\ Disabled(users) \in [Accounts -> Row \cup {Absent}]
         /\ Listed(users) \subseteq Entry
<1>1. ASSUME NEW u \in Accounts, users[u] # Absent
      PROVE  [users[u] EXCEPT !.active = FALSE] \in Row
  <2>1. users[u] \in Row
    BY <1>1
  <2> QED BY <2>1 DEF Row
<1>2. Disabled(users) \in [Accounts -> Row \cup {Absent}]
  BY <1>1 DEF Disabled
<1>3. ASSUME NEW u \in Carried(users) PROVE EntryOf(users[u]) \in Entry
  <2>1. users[u] \in Row /\ users[u].provider # NoProvider /\ users[u].mail # NoMail
    BY DEF Carried
  <2> QED BY <2>1 DEF Row, Entry, EntryOf
<1> QED BY <1>2, <1>3 DEF Listed

LEMMA EffectIs ==
  ASSUME NEW toml \in Files, NEW c \in Change \cup {Version}, NEW db \in DB
  PROVE  LET new == Effect(toml, c, db) IN
         /\ new \in DB
         /\ new.rev = IF c.do = "version" THEN db.rev + 1 ELSE db.rev
         /\ new.objects = Objects(c, db.objects)
         /\ new.users = IF c.do = "disable" THEN Disabled(db.users) ELSE db.users
         /\ new.list = IF c.do = "list" THEN Listed(db.users) ELSE db.list
         /\ new.signedIn = IF c.do = "signout" THEN FALSE ELSE db.signedIn
         /\ new.port = IF c.do = "import" THEN Imported(toml, db)
                       ELSE IF c.do = "port" /\ db.port = OldPort THEN NewPort ELSE db.port
<1> DEFINE new == Effect(toml, c, db)
<1>1. /\ c.do \in {"create", "fill", "drop", "rename", "import", "version"} \cup Writers
      /\ c.do \in {"create", "fill", "drop"} => c.what \subseteq Things
      /\ c.do = "rename" => c.new \subseteq Things
  BY ChangeIs
<1>2. /\ Disabled(db.users) \in [Accounts -> Row \cup {Absent}]
      /\ Listed(db.users) \subseteq Entry
  BY UsersAre DEF DB
<1>3. Imported(toml, db) \in Files \cup {NewPort}
  BY DEF Imported, DB
<1> HIDE DEF Change
<1>4. CASE c.do \in {"create", "fill"}
  <2>1. new = [db EXCEPT !.objects = db.objects \cup c.what]
    BY <1>4 DEF Effect
  <2> QED BY ZenonT(60), <1>1, <1>4, <2>1 DEF DB, Objects
<1>5. CASE c.do = "drop"
  <2>1. new = [db EXCEPT !.objects = db.objects \ c.what]
    BY <1>5 DEF Effect
  <2> QED BY <1>1, <1>5, <2>1 DEF DB, Objects
<1>6. CASE c.do = "rename"
  <2>1. new = [db EXCEPT !.objects = (db.objects \ (c.what \cup c.lost)) \cup c.new]
    BY <1>6 DEF Effect
  <2> QED BY <1>1, <1>6, <2>1 DEF DB, Objects
<1>7. CASE c.do = "copy"
  <2>1. new = db
    BY <1>7 DEF Effect
  <2> QED BY <1>7, <2>1 DEF DB, Objects
<1>8. CASE c.do = "import"
  <2>1. new = [db EXCEPT !.port = Imported(toml, db)]
    BY <1>8 DEF Effect
  <2> QED BY <1>3, <1>8, <2>1 DEF DB, Objects
<1>9. CASE c.do = "list"
  <2>1. new = [db EXCEPT !.list = Listed(db.users)]
    BY <1>9 DEF Effect, Listed
  <2> QED BY <1>2, <1>9, <2>1 DEF DB, Objects
<1>10. CASE c.do = "disable"
  <2>1. new = [db EXCEPT !.users = Disabled(db.users)]
    BY <1>10 DEF Effect
  <2> QED BY <1>2, <1>10, <2>1 DEF DB, Objects
<1>11. CASE c.do = "signout"
  <2>1. new = [db EXCEPT !.signedIn = FALSE]
    BY <1>11 DEF Effect
  <2> QED BY <1>11, <2>1 DEF DB, Objects
<1>12. CASE c.do = "port"
  <2>1. new = [db EXCEPT !.port = IF db.port = OldPort THEN NewPort ELSE db.port]
    BY <1>12 DEF Effect
  <2> QED BY <1>12, <2>1 DEF DB, Objects
<1>13. CASE c.do = "version"
  <2>1. new = [db EXCEPT !.rev = db.rev + 1]
    BY <1>13 DEF Effect
  <2> QED BY <1>13, <2>1 DEF DB, Objects
<1> QED BY <1>1, <1>4, <1>5, <1>6, <1>7, <1>8, <1>9, <1>10, <1>11, <1>12, <1>13 DEF Writers

(* db has the rows of want, and at least its schema.                       *)
Covers(db, want) ==
  /\ want.objects \subseteq db.objects
  /\ db.rev = want.rev /\ db.users = want.users /\ db.list = want.list
  /\ db.signedIn = want.signedIn /\ db.port = want.port

LEMMA EffectCovers ==
  ASSUME NEW toml \in Files, NEW c \in Change \cup {Version}, NEW db \in DB, NEW want \in DB,
         Covers(db, want)
  PROVE  Covers(Effect(toml, c, db), Effect(toml, c, want))
<1> DEFINE new == Effect(toml, c, db)
           then == Effect(toml, c, want)
<1>1. Imported(toml, db) = Imported(toml, want)
  BY DEF Imported, Covers
<1>2. /\ new.rev = IF c.do = "version" THEN db.rev + 1 ELSE db.rev
      /\ new.objects = Objects(c, db.objects)
      /\ new.users = IF c.do = "disable" THEN Disabled(db.users) ELSE db.users
      /\ new.list = IF c.do = "list" THEN Listed(db.users) ELSE db.list
      /\ new.signedIn = IF c.do = "signout" THEN FALSE ELSE db.signedIn
      /\ new.port = IF c.do = "import" THEN Imported(toml, db)
                    ELSE IF c.do = "port" /\ db.port = OldPort THEN NewPort ELSE db.port
  BY ZenonT(60), EffectIs
<1>3. /\ then.rev = IF c.do = "version" THEN want.rev + 1 ELSE want.rev
      /\ then.objects = Objects(c, want.objects)
      /\ then.users = IF c.do = "disable" THEN Disabled(want.users) ELSE want.users
      /\ then.list = IF c.do = "list" THEN Listed(want.users) ELSE want.list
      /\ then.signedIn = IF c.do = "signout" THEN FALSE ELSE want.signedIn
      /\ then.port = IF c.do = "import" THEN Imported(toml, want)
                     ELSE IF c.do = "port" /\ want.port = OldPort THEN NewPort ELSE want.port
  BY ZenonT(60), EffectIs
<1> HIDE DEF new, then
<1>4. Objects(c, want.objects) \subseteq Objects(c, db.objects)
  BY DEF Objects, Covers
<1>5. Covers(new, then)
  BY <1>1, <1>2, <1>3, <1>4 DEF Covers
<1> QED BY <1>5 DEF new, then

(* What opens no transaction and takes nothing away.                       *)
LEMMA QuietEffect ==
  ASSUME NEW toml \in Files, NEW c \in Change, NEW db \in DB, NEW want \in DB, Covers(db, want),
         c.do \notin Writers \cup {"drop", "rename"}, c.do = "import" => toml = NoFile
  PROVE  Covers(Effect(toml, c, db), want)
<1> DEFINE new == Effect(toml, c, db)
<1>1. c \in Change \cup {Version}
  OBVIOUS
<1>2. c.do \in {"create", "fill", "import"}
  BY DEF Change, Writers
<1>3. c.do = "import" => Imported(toml, db) = db.port
  BY DEF Imported
<1>4. db.objects \subseteq Objects(c, db.objects)
  BY <1>2 DEF Objects
<1>5. /\ new.rev = IF c.do = "version" THEN db.rev + 1 ELSE db.rev
      /\ new.objects = Objects(c, db.objects)
      /\ new.users = IF c.do = "disable" THEN Disabled(db.users) ELSE db.users
      /\ new.list = IF c.do = "list" THEN Listed(db.users) ELSE db.list
      /\ new.signedIn = IF c.do = "signout" THEN FALSE ELSE db.signedIn
      /\ new.port = IF c.do = "import" THEN Imported(toml, db)
                    ELSE IF c.do = "port" /\ db.port = OldPort THEN NewPort ELSE db.port
  BY ZenonT(60), <1>1, EffectIs
<1> HIDE DEF new
<1>6. Covers(new, want)
  BY <1>2, <1>3, <1>4, <1>5 DEF Covers
<1> QED BY <1>6 DEF new

-----------------------------------------------------------------------------
(* Recursion                                                               *)

(* G takes the values of T[n - 1] to those of T[n].                        *)
Leads(G, T, N) == \A n \in 1..N : \A x \in T[n - 1] : G[<<n, x>>] \in T[n]
Follows(f, d, G, N) == f[0] = d /\ \A n \in 1..N : f[n] = G[<<n, f[n - 1]>>]

LEMMA Recursion ==
  ASSUME NEW N \in Nat, NEW T, NEW G, Leads(G, T, N), NEW d \in T[0]
  PROVE  \E f : /\ f = [n \in 0..N |-> f[n]]
                /\ Follows(f, d, G, N)
                /\ \A n \in 0..N : f[n] \in T[n]
<1> DEFINE Good(f, n) == /\ f = [m \in 0..n |-> f[m]]
                         /\ Follows(f, d, G, n)
                         /\ \A m \in 0..n : f[m] \in T[m]
           Done == {n \in Nat : n <= N => \E f : Good(f, n)}
<1>1. 0 \in Done
  <2> DEFINE f == [m \in 0..0 |-> d]
  <2>1. Good(f, 0)
    BY DEF Follows
  <2> QED BY <2>1
<1>2. ASSUME NEW n \in Done PROVE n + 1 \in Done
  <2> SUFFICES ASSUME n + 1 <= N PROVE \E f : Good(f, n + 1)
    OBVIOUS
  <2>1. n \in Nat /\ n <= N /\ n + 1 \in 1..N /\ n + 1 - 1 = n
    OBVIOUS
  <2>2. PICK f : Good(f, n)
    BY <2>1
  <2> DEFINE h == [m \in 0..n + 1 |-> IF m = n + 1 THEN G[<<n + 1, f[n]>>] ELSE f[m]]
  <2>3. h = [m \in 0..n + 1 |-> h[m]]
    OBVIOUS
  <2>4. (\A m \in 0..n : h[m] = f[m]) /\ h[n + 1] = G[<<n + 1, f[n]>>]
    BY <2>1
  <2> HIDE DEF h
  <2>5. f[n] \in T[n]
    BY <2>1, <2>2
  <2>6. ASSUME NEW m \in 0..n + 1 PROVE h[m] \in T[m]
    <3>1. CASE m = n + 1
      BY <2>1, <2>4, <2>5, <3>1 DEF Leads
    <3>2. CASE m \in 0..n
      BY <2>2, <2>4, <3>2
    <3> QED BY <2>1, <3>1, <3>2
  <2>7. ASSUME NEW m \in 1..n + 1 PROVE h[m] = G[<<m, h[m - 1]>>]
    <3>1. CASE m = n + 1
      <4>1. m - 1 = n /\ n \in 0..n
        BY <2>1, <3>1
      <4> QED BY <2>4, <3>1, <4>1
    <3>2. CASE m \in 1..n
      <4>1. m - 1 \in 0..n /\ m \in 0..n
        BY <2>1, <3>2
      <4>2. f[m] = G[<<m, f[m - 1]>>]
        BY <2>2, <3>2 DEF Follows
      <4> QED BY <2>4, <4>1, <4>2
    <3> QED BY <2>1, <3>1, <3>2
  <2>8. h[0] = d
    <3>1. 0 \in 0..n
      BY <2>1
    <3> QED BY <2>2, <2>4, <3>1 DEF Follows
  <2>9. Good(h, n + 1)
    BY <2>3, <2>6, <2>7, <2>8 DEF Follows
  <2> QED BY <2>9
<1>3. Done = Nat
  <2> HIDE DEF Done
  <2>1. Done \subseteq Nat
    BY DEF Done
  <2> QED BY <1>1, <1>2, <2>1, Induction
<1>4. N \in Done
  BY <1>3
<1> HIDE DEF Follows
<1> QED BY <1>4

(* Whatever follows the same rule is the same.                             *)
LEMMA RecursionTyped ==
  ASSUME NEW N \in Nat, NEW T, NEW f, f[0] \in T[0],
         \A n \in 1..N : f[n - 1] \in T[n - 1] => f[n] \in T[n]
  PROVE  \A n \in 0..N : f[n] \in T[n]
<1> DEFINE Done == {n \in Nat : n <= N => f[n] \in T[n]}
<1>1. 0 \in Done
  OBVIOUS
<1>2. ASSUME NEW n \in Done PROVE n + 1 \in Done
  <2> SUFFICES ASSUME n + 1 <= N PROVE f[n + 1] \in T[n + 1]
    OBVIOUS
  <2>1. n + 1 \in 1..N /\ n + 1 - 1 = n /\ f[n] \in T[n]
    OBVIOUS
  <2> QED BY <2>1
<1>3. Done = Nat
  <2> HIDE DEF Done
  <2>1. Done \subseteq Nat
    BY DEF Done
  <2> QED BY <1>1, <1>2, <2>1, Induction
<1> QED BY <1>3

-----------------------------------------------------------------------------
(* What a script, and what all of them make of a database                  *)

At(k, n, rev) == {x \in DB : x.rev = IF n = Len(Script(k)) THEN rev + 1 ELSE rev}

LEMMA RunStep ==
  ASSUME NEW toml \in Files, NEW k \in 1..Newest, NEW rev \in Nat, NEW n \in 1..Len(Script(k)),
         NEW x \in At(k, n - 1, rev)
  PROVE  Effect(toml, Script(k)[n], x) \in At(k, n, rev)
<1> DEFINE N == Len(Script(k))
           c == Script(k)[n]
<1>1. N \in Nat \ {0} /\ Script(k)[N] = Version
  BY ScriptIs
<1>2. n - 1 # N /\ x \in DB /\ x.rev = rev
  BY <1>1 DEF At
<1>3. c \in Change \cup {Version} /\ (c = Version <=> n = N)
  <2>1. CASE n = N
    BY <1>1, <2>1
  <2>2. CASE n # N
    <3>1. n \in Body(k)
      BY <1>1, <2>2 DEF Body
    <3>2. c \in Change
      BY <3>1, ScriptIs
    <3>3. c # Version
      BY <3>2, ChangeIs DEF Change, Version, Writers
    <3> QED BY <2>2, <3>2, <3>3
  <2> QED BY <2>1, <2>2
<1>4. c.do = "version" <=> n = N
  BY <1>3, ChangeIs
<1> HIDE DEF c
<1>5. Effect(toml, c, x) \in DB
      /\ Effect(toml, c, x).rev = IF c.do = "version" THEN x.rev + 1 ELSE x.rev
  BY <1>2, <1>3, EffectIs
<1>6. Effect(toml, c, x) \in At(k, n, rev)
  BY <1>2, <1>4, <1>5 DEF At
<1> QED BY <1>6 DEF c

LEMMA RunIs ==
  ASSUME NEW toml \in Files, NEW k \in 1..Newest, NEW db \in DB
  PROVE  LET run == Run(toml, db, k) IN
         /\ run[0] = db
         /\ \A n \in 1..Len(Script(k)) : run[n] = Effect(toml, Script(k)[n], run[n - 1])
         /\ \A n \in 0..Len(Script(k)) : run[n] \in At(k, n, db.rev)
<1> DEFINE N == Len(Script(k))
           T == [n \in 0..N |-> At(k, n, db.rev)]
           G == [x \in (1..N) \X DB |-> Effect(toml, Script(k)[x[1]], x[2])]
           Step(f) == [n \in 0..N |->
                         IF n = 0 THEN db ELSE Effect(toml, Script(k)[n], f[n - 1])]
           run == Run(toml, db, k)
<1>1. N \in Nat \ {0}
  BY ScriptIs
<1>2. db.rev \in Nat
  BY DEF DB
<1>3. db \in T[0]
  BY <1>1 DEF At
<1>4. ASSUME NEW n \in 1..N, NEW x \in T[n - 1]
      PROVE  x \in DB /\ Effect(toml, Script(k)[n], x) \in T[n]
  <2>1. n - 1 \in 0..N /\ n \in 0..N
    BY <1>1
  <2>2. x \in At(k, n - 1, db.rev)
    BY <2>1
  <2>3. Effect(toml, Script(k)[n], x) \in At(k, n, db.rev)
    BY <1>2, <2>2, RunStep
  <2> QED BY <2>1, <2>2, <2>3 DEF At
<1> HIDE DEF T
<1>5. ASSUME NEW n \in 1..N, NEW x \in DB PROVE G[<<n, x>>] = Effect(toml, Script(k)[n], x)
  OBVIOUS
<1>6. Leads(G, T, N)
  <2> HIDE DEF G, N
  <2> QED BY <1>4, <1>5 DEF Leads
<1> HIDE DEF G
<1>7. PICK f : f = [n \in 0..N |-> f[n]] /\ Follows(f, db, G, N) /\ \A n \in 0..N : f[n] \in T[n]
  BY <1>1, <1>3, <1>6, Recursion
<1>8. f = Step(f)
  <2>1. f[0] = db
    BY <1>7 DEF Follows
  <2>2. ASSUME NEW n \in 1..N PROVE f[n] = Effect(toml, Script(k)[n], f[n - 1])
    <3>1. f[n] = G[<<n, f[n - 1]>>]
      BY <1>7 DEF Follows
    <3>2. n - 1 \in 0..N
      BY <1>1
    <3>3. f[n - 1] \in DB
      BY <1>4, <1>7, <3>2
    <3> QED BY <1>5, <3>1, <3>3
  <2>3. \A n \in 0..N : f[n] = Step(f)[n]
    <3>1. \A n \in 0..N : n = 0 \/ n \in 1..N
      BY <1>1
    <3> QED BY <2>1, <2>2, <3>1
  <2> HIDE DEF N
  <2> QED BY <1>7, <2>3
<1>9. run = CHOOSE g : g = Step(g)
  BY DEF Run
<1>10. run = Step(run)
  <2>1. \E g : g = Step(g)
    BY <1>8
  <2> HIDE DEF Step, run
  <2> QED BY <1>9, <2>1
<1> HIDE DEF run
<1>11. run[0] = db
  BY <1>1, <1>10
<1>12. ASSUME NEW n \in 1..N PROVE run[n] = Effect(toml, Script(k)[n], run[n - 1])
  <2>1. n \in 0..N /\ n # 0
    BY <1>1
  <2> QED BY <1>10, <2>1
<1>13. \A n \in 0..N : run[n] \in T[n]
  <2> HIDE DEF N
  <2> QED BY ZenonT(60), <1>1, <1>3, <1>4, <1>11, <1>12, RecursionTyped
<1> QED BY <1>11, <1>12, <1>13 DEF T, run

LEMMA AfterIs ==
  ASSUME NEW toml \in Files, NEW k \in 1..Newest, NEW db \in DB
  PROVE  After(toml, db, k) \in DB /\ After(toml, db, k).rev = db.rev + 1
<1>1. Len(Script(k)) \in Nat
  BY ScriptIs
<1>2. Run(toml, db, k)[Len(Script(k))] \in At(k, Len(Script(k)), db.rev)
  BY <1>1, RunIs
<1> QED BY <1>2 DEF After, At

UpTo(n, rev) == {x \in DB : x.rev = IF n <= rev THEN rev ELSE n}

LEMMA UpgradedIs ==
  ASSUME NEW toml \in Files, NEW db \in DB
  PROVE  \A n \in 0..Newest :
           /\ n <= db.rev => Upgraded(toml, db, n) = db
           /\ n > db.rev => Upgraded(toml, db, n) = After(toml, Upgraded(toml, db, n - 1), n)
           /\ Upgraded(toml, db, n) \in UpTo(n, db.rev)
<1> DEFINE T == [n \in 0..Newest |-> UpTo(n, db.rev)]
           Value(n, x) == IF n <= db.rev THEN db ELSE After(toml, x, n)
           G == [x \in (1..Newest) \X DB |-> Value(x[1], x[2])]
           Step(f) == [n \in 0..Newest |-> Value(n, f[n - 1])]
           all == CHOOSE f : f = Step(f)
<1>1. Newest \in Nat /\ db.rev \in Nat
  BY SevenScripts DEF DB
<1>2. db \in T[0]
  BY <1>1 DEF UpTo
<1>3. ASSUME NEW n \in 1..Newest, NEW x \in T[n - 1] PROVE x \in DB /\ Value(n, x) \in T[n]
  <2>1. n - 1 \in 0..Newest /\ n \in 0..Newest
    BY <1>1
  <2>2. x \in UpTo(n - 1, db.rev)
    BY <2>1
  <2>3. x \in DB /\ x.rev = IF n - 1 <= db.rev THEN db.rev ELSE n - 1
    BY <2>2 DEF UpTo
  <2>4. CASE n <= db.rev
    BY <2>1, <2>3, <2>4 DEF UpTo
  <2>5. CASE ~(n <= db.rev)
    <3>1. x.rev = n - 1
      BY <1>1, <2>3, <2>5
    <3>2. After(toml, x, n) \in DB /\ After(toml, x, n).rev = n
      BY <1>1, <2>3, <3>1, AfterIs
    <3>3. After(toml, x, n) \in UpTo(n, db.rev)
      BY <2>5, <3>2 DEF UpTo
    <3> QED BY <2>1, <2>3, <2>5, <3>3
  <2> QED BY <2>4, <2>5
<1> HIDE DEF T
<1>4. ASSUME NEW n \in 1..Newest, NEW x \in DB PROVE G[<<n, x>>] = Value(n, x)
  OBVIOUS
<1> HIDE DEF Value
<1>5. Leads(G, T, Newest)
  <2> HIDE DEF G
  <2> QED BY <1>3, <1>4 DEF Leads
<1> HIDE DEF G
<1>6. PICK f : /\ f = [n \in 0..Newest |-> f[n]] /\ Follows(f, db, G, Newest)
               /\ \A n \in 0..Newest : f[n] \in T[n]
  BY <1>1, <1>2, <1>5, Recursion
<1>7. f = Step(f)
  <2>1. f[0] = Value(0, f[0 - 1])
    BY <1>1, <1>6 DEF Follows, Value
  <2>2. ASSUME NEW n \in 1..Newest PROVE f[n] = Value(n, f[n - 1])
    <3>1. f[n] = G[<<n, f[n - 1]>>]
      BY <1>6 DEF Follows
    <3>2. n - 1 \in 0..Newest
      BY <1>1
    <3>3. f[n - 1] \in DB
      BY <1>3, <1>6, <3>2
    <3> QED BY <1>4, <3>1, <3>3
  <2>3. \A n \in 0..Newest : f[n] = Step(f)[n]
    <3>1. \A n \in 0..Newest : n = 0 \/ n \in 1..Newest
      BY <1>1
    <3> QED BY <2>1, <2>2, <3>1
  <2> QED BY <1>6, <2>3
<1>8. all = Step(all)
  <2>1. \E g : g = Step(g)
    BY <1>7
  <2> HIDE DEF Step
  <2> QED BY <2>1
<1>9. \A n : Upgraded(toml, db, n) = all[n]
  BY DEF Upgraded, Value
<1> HIDE DEF all
<1>10. ASSUME NEW n \in 0..Newest PROVE all[n] = Value(n, all[n - 1])
  BY <1>8
<1>11. \A n \in 0..Newest : all[n] \in T[n]
  <2>1. all[0] \in T[0]
    <3>1. 0 \in 0..Newest /\ 0 <= db.rev
      BY <1>1
    <3> QED BY <1>2, <1>10, <3>1 DEF Value
  <2>2. ASSUME NEW n \in 1..Newest, all[n - 1] \in T[n - 1] PROVE all[n] \in T[n]
    <3>1. n \in 0..Newest
      BY <1>1
    <3> QED BY <1>3, <1>10, <2>2, <3>1
  <2> QED BY <1>1, <2>1, <2>2, RecursionTyped
<1> SUFFICES ASSUME NEW n \in 0..Newest
             PROVE  /\ n <= db.rev => all[n] = db
                    /\ n > db.rev => all[n] = After(toml, all[n - 1], n)
                    /\ all[n] \in UpTo(n, db.rev)
  BY <1>9
<1>12. n \in Nat
  BY <1>1
<1> QED BY <1>1, <1>10, <1>11, <1>12 DEF Value, T

(* The database of version 2.0.0.                                          *)
LEMMA BuiltIs == Built \in DB /\ Built.rev = 5
<1>1. Empty \in DB /\ Empty.rev = 0
  <2>1. [u \in Accounts |-> Absent] \in [Accounts -> Row \cup {Absent}]
    OBVIOUS
  <2> QED BY <2>1 DEF Empty, DB, Files
<1>2. NoFile \in Files /\ 5 \in 0..Newest
  BY SevenScripts DEF Files
<1>3. Upgraded(NoFile, Empty, 5) \in UpTo(5, 0)
  BY <1>1, <1>2, UpgradedIs
<1> QED BY <1>3 DEF Built, Version2, UpTo

-----------------------------------------------------------------------------
(* A script that is being run has made of the database what it makes of    *)
(* the one that belongs to the revision, if not more tables.               *)

Want(toml, old, rev, n) == Run(toml, Upgraded(toml, old, rev), rev + 1)[n]

(* There is a next statement, and after one that writes rows the           *)
(* transaction is open.                                                    *)
Underway ==
  /\ stored.rev < Newest /\ at <= Len(Script(stored.rev + 1))
  /\ \A i \in 1..at - 1 : Script(stored.rev + 1)[i].do \in Writers => open

Types ==
  /\ stored \in DB /\ work \in DB /\ found \in DB /\ file \in Files
  /\ stored.rev \in 0..Newest /\ work.rev = stored.rev
  /\ found.rev <= 5 /\ found.rev <= stored.rev
  /\ open \in BOOLEAN /\ at \in Nat /\ crashes \in 0..MaxCrashes

Inv ==
  /\ Types /\ (~open => work = stored)
  /\ Covers(stored, Upgraded(file, found, stored.rev))
  /\ at > 0 => Underway /\ Covers(work, Want(file, found, stored.rev, at - 1))

LEMMA WantIs ==
  ASSUME NEW toml \in Files, NEW old \in DB, NEW rev \in 0..Newest, rev < Newest, old.rev <= rev
  PROVE  LET k == rev + 1 IN
         /\ k \in 1..Newest
         /\ Want(toml, old, rev, 0) = Upgraded(toml, old, rev)
         /\ \A n \in 1..Len(Script(k)) :
              Want(toml, old, rev, n) =
                Effect(toml, Script(k)[n], Want(toml, old, rev, n - 1))
         /\ \A n \in 0..Len(Script(k)) : Want(toml, old, rev, n) \in DB
         /\ Want(toml, old, rev, Len(Script(k))) = Upgraded(toml, old, k)
<1> DEFINE k == rev + 1
           base == Upgraded(toml, old, rev)
<1>1. k \in 1..Newest /\ k \in 0..Newest /\ old.rev \in Nat /\ k > old.rev /\ k - 1 = rev
  BY SevenScripts DEF DB
<1>2. base \in DB
  BY UpgradedIs DEF UpTo
<1>3. Upgraded(toml, old, k) = After(toml, base, k)
  BY <1>1, UpgradedIs
<1> HIDE DEF base
<1>4. /\ Run(toml, base, k)[0] = base
      /\ \A n \in 1..Len(Script(k)) :
           Run(toml, base, k)[n] = Effect(toml, Script(k)[n], Run(toml, base, k)[n - 1])
      /\ \A n \in 0..Len(Script(k)) : Run(toml, base, k)[n] \in At(k, n, base.rev)
  BY <1>1, <1>2, RunIs
<1>5. \A n \in 0..Len(Script(k)) : Run(toml, base, k)[n] \in DB
  BY <1>4 DEF At
<1>6. \A n : Want(toml, old, rev, n) = Run(toml, base, k)[n]
  BY DEF Want, base
<1> HIDE DEF k
<1>7. Want(toml, old, rev, Len(Script(k))) = Upgraded(toml, old, k)
  BY <1>3, <1>6 DEF After
<1>8. base = Upgraded(toml, old, rev)
  BY DEF base
<1> QED BY <1>1, <1>4, <1>5, <1>6, <1>7, <1>8 DEF k

LEMMA InitInv == Init => Inv
<1> SUFFICES ASSUME Init PROVE Inv
  OBVIOUS
<1>1. stored \in DB /\ stored.rev \in {0, 5}
  <2>1. CASE stored = Empty
    <3>1. [u \in Accounts |-> Absent] \in [Accounts -> Row \cup {Absent}]
      OBVIOUS
    <3> QED BY <2>1, <3>1 DEF Empty, DB, Files
  <2>2. ASSUME NEW users \in [Accounts -> Row \cup {Absent}], NEW signedIn \in BOOLEAN,
               stored = [Built EXCEPT !.users = users, !.signedIn = signedIn]
        PROVE  stored \in DB /\ stored.rev = 5
    BY <2>2, BuiltIs DEF DB
  <2> QED BY <2>1, <2>2 DEF Init, Empty
<1>2. stored.rev \in 0..Newest /\ stored.rev <= 5 /\ stored.rev <= stored.rev
  BY <1>1, SevenScripts
<1>3. /\ file \in Files /\ work = stored /\ open = FALSE /\ at = 0 /\ crashes = 0
      /\ found = stored
  BY DEF Init
<1>4. Types
  <2>1. crashes \in 0..MaxCrashes /\ at \in Nat
    <3>1. MaxCrashes \in Nat
      BY MigrationsAssumption
    <3>2. crashes = 0 /\ at = 0
      BY <1>3
    <3> QED BY <3>1, <3>2
  <2>2. open \in BOOLEAN
    BY <1>3
  <2>3. work \in DB /\ found \in DB /\ work.rev = stored.rev /\ found.rev <= 5
        /\ found.rev <= stored.rev
    BY <1>1, <1>2, <1>3
  <2> QED BY <1>1, <1>2, <1>3, <2>1, <2>2, <2>3 DEF Types
<1>5. Covers(stored, Upgraded(file, found, stored.rev))
  <2>1. Upgraded(file, found, stored.rev) = stored
    BY <1>1, <1>2, <1>3, UpgradedIs
  <2> QED BY <2>1 DEF Covers
<1> QED BY <1>3, <1>4, <1>5 DEF Inv

(* The statement that is executed next.                                    *)
LEMMA StatementIs ==
  ASSUME Inv, at > 0
  PROVE  /\ stored.rev + 1 \in 1..Newest /\ stored.rev \in Nat
         /\ at \in 1..Len(Script(stored.rev + 1)) /\ Len(Script(stored.rev + 1)) \in Nat
         /\ Statement \in Change \cup {Version}
         /\ at < Len(Script(stored.rev + 1)) =>
              /\ Statement \in Change /\ at \in Body(stored.rev + 1)
              /\ Statement.do # "version"
              /\ Statement.do \in {"drop", "rename"} => open
              /\ stored.rev \in {5, 6} => Harmless(Statement)
         /\ at = Len(Script(stored.rev + 1)) => Statement = Version
<1> DEFINE k == stored.rev + 1
           N == Len(Script(k))
<1>1. stored.rev < Newest /\ at <= N /\ at \in Nat /\ stored.rev \in 0..Newest
  BY DEF Inv, Types, Underway
<1>2. k \in 1..Newest /\ stored.rev \in Nat
  BY <1>1, SevenScripts
<1>3. N \in Nat \ {0} /\ Script(k)[N] = Version
  BY <1>2, ScriptIs
<1>4. at \in 1..N
  BY <1>1, <1>3
<1>5. Statement = Script(k)[at]
  BY DEF Statement
<1>6. ASSUME at < N
      PROVE  /\ Statement \in Change /\ at \in Body(k) /\ Statement.do # "version"
             /\ Statement.do \in {"drop", "rename"} => open
             /\ stored.rev \in {5, 6} => Harmless(Statement)
  <2>1. at \in Body(k)
    BY <1>3, <1>4, <1>6 DEF Body
  <2>2. /\ Script(k)[at] \in Change
        /\ Script(k)[at].do \in {"drop", "rename"} =>
             \E j \in 1..at - 1 : Script(k)[j].do \in Writers
        /\ k \in {6, 7} => Harmless(Script(k)[at])
    BY <1>2, <2>1, ScriptIs
  <2>3. Statement.do # "version"
    BY <1>5, <2>2 DEF Change, Writers
  <2>4. \A i \in 1..at - 1 : Script(k)[i].do \in Writers => open
    BY DEF Inv, Underway
  <2>5. stored.rev \in {5, 6} => k \in {6, 7}
    OBVIOUS
  <2> QED BY <1>5, <2>1, <2>2, <2>3, <2>4, <2>5
<1> HIDE DEF N
<1>7. Statement \in Change \cup {Version}
  BY <1>3, <1>4, <1>5, <1>6
<1> QED BY <1>2, <1>3, <1>4, <1>5, <1>6, <1>7 DEF N

LEMMA ExecuteInv == ASSUME Inv, Execute PROVE Inv'
<1> DEFINE k == stored.rev + 1
           N == Len(Script(k))
           base == Upgraded(file, found, stored.rev)
           new == Effect(file, Statement, work)
<1>1. /\ at > 0 /\ at < N /\ work' = new /\ open' = (open \/ Opens(Statement))
      /\ stored' = IF open' THEN stored ELSE work'
      /\ at' = at + 1 /\ file' = file /\ crashes' = crashes /\ found' = found
  BY DEF Execute
<1>2. /\ Statement \in Change /\ at \in 1..N /\ N \in Nat /\ Statement.do # "version"
      /\ Statement.do \in {"drop", "rename"} => open
      /\ Statement \in Change \cup {Version} /\ stored.rev \in Nat
  BY <1>1, StatementIs
<1>3. /\ Types /\ Underway /\ Covers(stored, base)
      /\ Covers(work, Want(file, found, stored.rev, at - 1))
      /\ (~open => work = stored)
  BY <1>1 DEF Inv
<1>4. /\ stored \in DB /\ work \in DB /\ found \in DB /\ file \in Files
      /\ stored.rev \in 0..Newest /\ work.rev = stored.rev /\ found.rev <= stored.rev
      /\ stored.rev < Newest
  BY <1>3 DEF Types, Underway
<1>5. new \in DB /\ new.rev = stored.rev
  BY <1>2, <1>4, EffectIs
<1>6. base \in DB
  BY <1>4, UpgradedIs DEF UpTo
<1>7. Covers(new, Want(file, found, stored.rev, at))
  <2>1. at - 1 \in 0..N
    BY <1>2
  <2>2. /\ Want(file, found, stored.rev, at - 1) \in DB
        /\ Want(file, found, stored.rev, at) =
             Effect(file, Statement, Want(file, found, stored.rev, at - 1))
    BY <1>2, <1>4, <2>1, WantIs DEF Statement
  <2> QED BY <1>2, <1>3, <1>4, <2>2, EffectCovers
<1>8. ASSUME ~open'
      PROVE  ~open /\ Statement.do \notin Writers /\ Covers(new, base) /\ work = stored
  <2>1. ~open /\ ~Opens(Statement)
    BY <1>1, <1>8
  <2>2. Statement.do \notin Writers /\ (Statement.do = "import" => file = NoFile)
    BY <2>1 DEF Opens, Writers
  <2>3. Statement.do \notin Writers \cup {"drop", "rename"} /\ Covers(work, base)
    BY <1>2, <1>3, <2>1, <2>2
  <2> QED BY <1>2, <1>3, <1>4, <1>6, <2>1, <2>2, <2>3, QuietEffect
<1> HIDE DEF new
<1>9. stored' \in DB /\ stored'.rev = stored.rev /\ work' \in DB /\ work'.rev = stored.rev
  BY <1>1, <1>4, <1>5
<1>10. Types'
  <2>1. open' \in BOOLEAN /\ at' \in Nat
    BY <1>1, <1>2
  <2> QED BY <1>1, <1>3, <1>4, <1>9, <2>1 DEF Types
<1>11. (~open => work = stored)'
  BY <1>1
<1>12. Covers(stored', base)
  BY <1>1, <1>3, <1>8
<1>13. Underway'
  <2>1. at' <= N
    BY <1>1, <1>2
  <2>2. ASSUME NEW i \in 1..at' - 1, Script(k)[i].do \in Writers PROVE open'
    <3>1. CASE i = at
      BY <1>8, <2>2, <3>1 DEF Statement
    <3>2. CASE i # at
      <4>1. i \in 1..at - 1
        BY <1>1, <1>2, <3>2
      <4>2. open
        BY <1>3, <2>2, <4>1 DEF Underway
      <4> QED BY <1>1, <4>2
    <3> QED BY <3>1, <3>2
  <2> QED BY <1>4, <1>9, <2>1, <2>2 DEF Underway
<1>14. at' - 1 = at
  BY <1>1, <1>2
<1> QED BY <1>1, <1>7, <1>9, <1>10, <1>11, <1>12, <1>13, <1>14 DEF Inv

LEMMA CommitInv == ASSUME Inv, Commit PROVE Inv'
<1> DEFINE k == stored.rev + 1
           N == Len(Script(k))
           new == Effect(file, Statement, work)
<1>1. /\ at > 0 /\ at = N /\ work' = new /\ stored' = new /\ open' = FALSE
      /\ at' = IF stored'.rev < Newest THEN 1 ELSE 0
      /\ file' = file /\ crashes' = crashes /\ found' = found
  BY DEF Commit
<1>2. /\ Statement = Version /\ Statement \in Change \cup {Version}
      /\ at \in 1..N /\ N \in Nat /\ stored.rev \in Nat /\ k \in 1..Newest
  BY <1>1, StatementIs
<1>3. Types /\ Underway /\ Covers(work, Want(file, found, stored.rev, at - 1))
  BY <1>1 DEF Inv
<1>4. /\ stored \in DB /\ work \in DB /\ found \in DB /\ file \in Files
      /\ stored.rev \in 0..Newest /\ work.rev = stored.rev /\ found.rev <= stored.rev
      /\ stored.rev < Newest /\ found.rev \in Nat
  BY <1>3 DEF Types, Underway, DB
<1>5. new \in DB /\ new.rev = k
  <2>1. Statement.do = "version"
    BY <1>2 DEF Version
  <2>2. new \in DB /\ new.rev = IF Statement.do = "version" THEN work.rev + 1 ELSE work.rev
    BY <1>2, <1>4, EffectIs
  <2> QED BY <1>4, <2>1, <2>2
<1>6. Covers(new, Upgraded(file, found, k))
  <2>1. at - 1 \in 0..N
    BY <1>2
  <2>2. /\ Want(file, found, stored.rev, at - 1) \in DB
        /\ Want(file, found, stored.rev, at) =
             Effect(file, Statement, Want(file, found, stored.rev, at - 1))
        /\ Want(file, found, stored.rev, at) = Upgraded(file, found, k)
    BY <1>1, <1>2, <1>4, <2>1, WantIs DEF Statement
  <2> QED BY <1>2, <1>3, <1>4, <2>2, EffectCovers
<1> HIDE DEF new
<1>7. Types'
  <2>1. at' \in Nat /\ open' \in BOOLEAN
    BY <1>1
  <2>2. k \in 0..Newest /\ found.rev <= k
    BY <1>2, <1>4
  <2> QED BY <1>1, <1>3, <1>4, <1>5, <2>1, <2>2 DEF Types
<1>8. ASSUME at' > 0 PROVE Underway' /\ Covers(new, Want(file, found, k, at' - 1))
  <2>1. at' = 1 /\ k < Newest
    BY <1>1, <1>5, <1>8
  <2>2. k + 1 \in 1..Newest /\ k \in 0..Newest /\ found.rev <= k
    BY SMTT(30), <1>2, <1>4, <2>1, SevenScripts
  <2>3. Len(Script(k + 1)) \in Nat \ {0}
    BY <2>2, ScriptIs
  <2>4. Underway'
    BY <1>1, <1>5, <2>1, <2>3 DEF Underway
  <2>5. Want(file, found, k, 0) = Upgraded(file, found, k)
    BY <1>4, <2>1, <2>2, WantIs
  <2>6. at' - 1 = 0
    BY <2>1
  <2> QED BY <1>6, <2>4, <2>5, <2>6
<1> QED BY <1>1, <1>5, <1>6, <1>7, <1>8 DEF Inv

LEMMA NextInv == Inv /\ [Next]_vars => Inv'
<1> SUFFICES ASSUME Inv, [Next]_vars PROVE Inv'
  OBVIOUS
<1>1. ASSUME Start PROVE Inv'
  <2>1. /\ at = 0 /\ stored.rev < Newest /\ at' = 1 /\ work' = stored
        /\ stored' = stored /\ open' = open /\ file' = file /\ crashes' = crashes
        /\ found' = found
    BY <1>1 DEF Start
  <2>2. Types /\ Covers(stored, Upgraded(file, found, stored.rev))
    BY DEF Inv
  <2>3. /\ stored.rev + 1 \in 1..Newest /\ stored.rev \in 0..Newest /\ found.rev <= stored.rev
        /\ found \in DB /\ file \in Files
    BY <2>1, <2>2, SevenScripts DEF Types
  <2>4. Want(file, found, stored.rev, 0) = Upgraded(file, found, stored.rev)
    BY <2>1, <2>3, WantIs
  <2>5. Underway'
    <3>1. Len(Script(stored.rev + 1)) \in Nat \ {0}
      BY <2>3, ScriptIs
    <3> QED BY <2>1, <3>1 DEF Underway
  <2>6. Types'
    BY <2>1, <2>2 DEF Types
  <2>7. at' - 1 = 0
    BY <2>1
  <2> QED BY <2>1, <2>2, <2>4, <2>5, <2>6, <2>7 DEF Inv
<1>2. ASSUME Refused \/ Crash PROVE Inv'
  <2>1. /\ work' = stored /\ open' = FALSE /\ at' = 0 /\ stored' = stored /\ file' = file
        /\ found' = found
    BY <1>2 DEF Refused, Crash, RollBack
  <2>2. crashes' \in 0..MaxCrashes
    BY <1>2, MigrationsAssumption DEF Refused, Crash, Inv, Types
  <2>3. Types'
    BY <2>1, <2>2 DEF Inv, Types
  <2> QED BY <2>1, <2>3 DEF Inv
<1>3. CASE UNCHANGED vars
  BY <1>3 DEF vars, Inv, Types, Underway
<1> QED BY <1>1, <1>2, <1>3, ExecuteInv, CommitInv DEF Next

(* The variables have their types.                                         *)
THEOREM TypeCorrect == Spec => []TypeOK
<1>1. Inv => TypeOK
  BY DEF Inv, Types, TypeOK, DB
<1> QED BY <1>1, InitInv, NextInv, PTL DEF Spec

(* Whatever statement an attempt stops at, and however often, the rows are *)
(* those of the revision that is entered and its schema is there.          *)
THEOREM NothingHalfDone == Spec => []AllOrNothing
<1>1. Inv => AllOrNothing
  <2> SUFFICES ASSUME Inv PROVE AllOrNothing
    OBVIOUS
  <2> DEFINE want == Upgraded(file, found, stored.rev)
  <2>1. stored \in DB /\ found \in DB /\ file \in Files /\ stored.rev \in 0..Newest
    BY DEF Inv, Types
  <2>2. want \in DB
    BY <2>1, UpgradedIs DEF UpTo
  <2>3. Covers(stored, want)
    BY DEF Inv
  <2> HIDE DEF want
  <2>4. /\ want.objects \subseteq stored.objects
        /\ [stored EXCEPT !.objects = {}] = [want EXCEPT !.objects = {}]
    BY <2>1, <2>2, <2>3 DEF Covers, DB
  <2> QED BY <2>4 DEF AllOrNothing, want
<1> QED BY <1>1, InitInv, NextInv, PTL DEF Spec

-----------------------------------------------------------------------------
(* What has been executed of the script that takes the login to the        *)
(* providers lasts: no later statement undoes it.                          *)

(* The accounts of old are still there, the bound ones as they were.       *)
Remains(old, db) ==
  \A u \in Accounts : old.users[u] # Absent =>
    /\ db.users[u] # Absent /\ db.users[u].provider = old.users[u].provider
    /\ Bound(old.users[u]) => db.users[u] = old.users[u]

Achieved(old, toml, c, db) ==
  /\ c.do = "list" =>
       \A u \in Accounts : old.users[u] # Absent =>
         LET row == old.users[u] IN
         Bound(row) /\ row.mail # NoMail => EntryOf(row) \in db.list
  /\ c.do = "disable" =>
       \A u \in Accounts :
         old.users[u] # Absent /\ ~Bound(old.users[u]) => ~db.users[u].active
  /\ c.do = "signout" => ~db.signedIn
  /\ c.do = "drop" => c.what \cap LoginTables \cap db.objects = {}
  /\ c.do = "import" => (toml = OtherPort => db.port = OtherPort)

Identity(db) == \A i \in Body(6) : Achieved(found, file, Script(6)[i], db)

Carrying ==
  /\ Remains(found, stored) /\ Remains(found, work)
  /\ stored.rev = 5 /\ at > 0 =>
       \A i \in 1..at - 1 : Achieved(found, file, Script(6)[i], work)
  /\ stored.rev > 5 => Identity(stored) /\ Identity(work)

(* Only unbound accounts are changed, and they are disabled.               *)
LEMMA RemainsOn ==
  ASSUME NEW toml \in Files, NEW c \in Change \cup {Version}, NEW db \in DB, NEW old \in DB,
         Remains(old, db)
  PROVE  Remains(old, Effect(toml, c, db))
<1> DEFINE new == Effect(toml, c, db)
<1>1. new.users = IF c.do = "disable" THEN Disabled(db.users) ELSE db.users
  BY EffectIs
<1> HIDE DEF new
<1>2. ASSUME NEW u \in Accounts, old.users[u] # Absent
      PROVE  /\ new.users[u] # Absent /\ new.users[u].provider = old.users[u].provider
             /\ Bound(old.users[u]) => new.users[u] = old.users[u]
  <2>1. /\ db.users[u] # Absent /\ db.users[u].provider = old.users[u].provider
        /\ Bound(old.users[u]) => db.users[u] = old.users[u]
    BY <1>2 DEF Remains
  <2>2. db.users[u] \in Row
    BY <2>1 DEF DB
  <2>3. CASE c.do = "disable" /\ db.users[u].provider = NoProvider
    <3>1. new.users[u] = [db.users[u] EXCEPT !.active = FALSE]
      BY <1>1, <2>1, <2>3 DEF Disabled
    <3>2. new.users[u] \in Row /\ new.users[u].provider = db.users[u].provider
      BY <2>2, <3>1 DEF Row
    <3>3. ~Bound(old.users[u])
      BY <2>1, <2>3 DEF Bound
    <3> QED BY <2>1, <3>2, <3>3, MigrationsAssumption
  <2>4. CASE ~(c.do = "disable" /\ db.users[u].provider = NoProvider)
    <3>1. new.users[u] = db.users[u]
      BY <1>1, <2>4 DEF Disabled
    <3> QED BY <2>1, <3>1
  <2> QED BY <2>3, <2>4
<1>3. Remains(old, new)
  BY <1>2 DEF Remains
<1> QED BY <1>3 DEF new

LEMMA AchievedAtOnce ==
  ASSUME NEW toml \in Files, NEW c \in Change \cup {Version}, NEW db \in DB, NEW old \in DB,
         Remains(old, db)
  PROVE  Achieved(old, toml, c, Effect(toml, c, db))
<1> DEFINE new == Effect(toml, c, db)
<1>1. /\ new.objects = Objects(c, db.objects)
      /\ new.users = IF c.do = "disable" THEN Disabled(db.users) ELSE db.users
      /\ new.list = IF c.do = "list" THEN Listed(db.users) ELSE db.list
      /\ new.signedIn = IF c.do = "signout" THEN FALSE ELSE db.signedIn
      /\ new.port = IF c.do = "import" THEN Imported(toml, db)
                    ELSE IF c.do = "port" /\ db.port = OldPort THEN NewPort ELSE db.port
  BY EffectIs
<1> HIDE DEF new
<1>2. ASSUME c.do = "list", NEW u \in Accounts, old.users[u] # Absent,
             Bound(old.users[u]), old.users[u].mail # NoMail
      PROVE  EntryOf(old.users[u]) \in new.list
  <2>1. db.users[u] = old.users[u]
    BY <1>2 DEF Remains
  <2>2. u \in Carried(db.users)
    BY <1>2, <2>1 DEF Carried, Bound
  <2> QED BY <1>1, <1>2, <2>1, <2>2 DEF Listed
<1>3. ASSUME c.do = "disable", NEW u \in Accounts, old.users[u] # Absent, ~Bound(old.users[u])
      PROVE  ~new.users[u].active
  <2>1. db.users[u] # Absent /\ db.users[u].provider = NoProvider
    BY <1>3 DEF Remains, Bound
  <2>2. db.users[u] \in Row
    BY <2>1 DEF DB
  <2>3. new.users[u] = [db.users[u] EXCEPT !.active = FALSE]
    BY <1>1, <1>3, <2>1 DEF Disabled
  <2> QED BY <2>2, <2>3 DEF Row
<1>4. c.do = "drop" => c.what \cap LoginTables \cap new.objects = {}
  BY <1>1 DEF Objects
<1>5. c.do = "import" => (toml = OtherPort => new.port = OtherPort)
  BY <1>1, MigrationsAssumption DEF Imported
<1>6. c.do = "signout" => ~new.signedIn
  BY <1>1
<1>7. Achieved(old, toml, c, new)
  BY <1>2, <1>3, <1>4, <1>5, <1>6 DEF Achieved
<1> QED BY <1>7 DEF new

LEMMA AchievedLasts ==
  ASSUME NEW toml \in Files, NEW s \in Change \cup {Version}, Harmless(s), NEW db \in DB,
         NEW old \in DB, Remains(old, db), NEW c, Achieved(old, toml, c, db)
  PROVE  Achieved(old, toml, c, Effect(toml, s, db))
<1> DEFINE new == Effect(toml, s, db)
<1>1. /\ new.objects = Objects(s, db.objects)
      /\ new.users = IF s.do = "disable" THEN Disabled(db.users) ELSE db.users
      /\ new.list = IF s.do = "list" THEN Listed(db.users) ELSE db.list
      /\ new.signedIn = IF s.do = "signout" THEN FALSE ELSE db.signedIn
      /\ new.port = IF s.do = "import" THEN Imported(toml, db)
                    ELSE IF s.do = "port" /\ db.port = OldPort THEN NewPort ELSE db.port
  BY EffectIs
<1>2. Achieved(old, toml, s, new)
  BY AchievedAtOnce
<1> HIDE DEF new
<1>3. ASSUME c.do = "list", NEW u \in Accounts, old.users[u] # Absent,
             Bound(old.users[u]), old.users[u].mail # NoMail
      PROVE  EntryOf(old.users[u]) \in new.list
  <2>1. CASE s.do = "list"
    BY <1>2, <1>3, <2>1 DEF Achieved
  <2>2. CASE s.do # "list"
    BY <1>1, <1>3, <2>2 DEF Achieved
  <2> QED BY <2>1, <2>2
<1>4. ASSUME c.do = "disable", NEW u \in Accounts, old.users[u] # Absent, ~Bound(old.users[u])
      PROVE  ~new.users[u].active
  <2>1. CASE s.do = "disable"
    BY <1>2, <1>4, <2>1 DEF Achieved
  <2>2. CASE s.do # "disable"
    BY <1>1, <1>4, <2>2 DEF Achieved
  <2> QED BY <2>1, <2>2
<1>5. c.do = "drop" => c.what \cap LoginTables \cap new.objects = {}
  <2>1. new.objects \cap LoginTables \subseteq db.objects
    BY <1>1 DEF Objects, Harmless
  <2>2. c.do = "drop" => c.what \cap LoginTables \cap db.objects = {}
    BY DEF Achieved
  <2> QED BY <2>1, <2>2
<1>6. ASSUME c.do = "import", toml = OtherPort PROVE new.port = OtherPort
  <2>1. db.port = OtherPort
    BY <1>6 DEF Achieved
  <2> QED BY <1>1, <1>6, <2>1, MigrationsAssumption DEF Imported
<1>7. c.do = "signout" => ~new.signedIn
  BY <1>1 DEF Achieved
<1>8. Achieved(old, toml, c, new)
  BY <1>3, <1>4, <1>5, <1>6, <1>7 DEF Achieved
<1> QED BY <1>8 DEF new

LEMMA InitCarrying == Init => Carrying
<1> SUFFICES ASSUME Init PROVE Carrying
  OBVIOUS
<1>1. work = stored /\ found = stored /\ at = 0
  BY DEF Init
<1>2. stored.rev <= 5 /\ stored.rev \in Nat
  BY <1>1, InitInv DEF Inv, Types, DB
<1> QED BY <1>1, <1>2 DEF Carrying, Remains

(* What the next statement makes of the transaction.                       *)
LEMMA StatementCarries ==
  ASSUME Inv, Carrying, at > 0
  PROVE  LET new == Effect(file, Statement, work) IN
         /\ Remains(found, new)
         /\ stored.rev = 5 =>
              \A i \in 1..at : i \in Body(6) => Achieved(found, file, Script(6)[i], new)
         /\ stored.rev > 5 => Identity(new)
<1> DEFINE new == Effect(file, Statement, work)
<1>1. /\ Statement \in Change \cup {Version} /\ work \in DB /\ found \in DB /\ file \in Files
      /\ Remains(found, work) /\ stored.rev \in Nat /\ at \in Nat
  BY StatementIs DEF Inv, Types, Carrying
<1>2. Remains(found, new)
  BY <1>1, RemainsOn
<1>3. ASSUME stored.rev > 4 PROVE Harmless(Statement)
  <2>1. CASE at < Len(Script(stored.rev + 1))
    <3>1. stored.rev \in {5, 6}
      BY <1>1, <1>3, StatementIs, SevenScripts
    <3> QED BY <2>1, <3>1, StatementIs
  <2>2. CASE at = Len(Script(stored.rev + 1))
    <3>1. Statement = Version
      BY <2>2, StatementIs
    <3> QED BY <3>1 DEF Harmless, Version
  <2>3. at \in 1..Len(Script(stored.rev + 1)) /\ Len(Script(stored.rev + 1)) \in Nat
    BY StatementIs
  <2> QED BY <2>1, <2>2, <2>3
<1>4. ASSUME stored.rev > 4, NEW c, Achieved(found, file, c, work)
      PROVE  Achieved(found, file, c, new)
  BY <1>1, <1>3, <1>4, AchievedLasts
<1>5. Achieved(found, file, Statement, new)
  BY <1>1, AchievedAtOnce
<1> HIDE DEF new
<1>6. ASSUME stored.rev = 5, NEW i \in 1..at PROVE Achieved(found, file, Script(6)[i], new)
  <2>1. CASE i = at
    BY <1>5, <1>6, <2>1 DEF Statement
  <2>2. CASE i # at
    <3>1. i \in 1..at - 1
      BY <1>1, <2>2
    <3>2. Achieved(found, file, Script(6)[i], work)
      BY <1>6, <3>1 DEF Carrying
    <3> QED BY <1>4, <1>6, <3>2
  <2> QED BY <2>1, <2>2
<1>7. ASSUME stored.rev > 5 PROVE Identity(new)
  <2>1. Identity(work) /\ stored.rev > 4
    BY <1>1, <1>7 DEF Carrying
  <2> QED BY <1>4, <2>1 DEF Identity
<1> QED BY <1>2, <1>6, <1>7 DEF new

LEMMA ExecuteRev == ASSUME Inv, Execute PROVE stored'.rev = stored.rev
<1>1. /\ at > 0 /\ at < Len(Script(stored.rev + 1)) /\ work' = Effect(file, Statement, work)
      /\ stored' = IF open' THEN stored ELSE work'
  BY DEF Execute
<1>2. Statement.do # "version" /\ Statement \in Change \cup {Version}
  BY <1>1, StatementIs
<1>3. work \in DB /\ file \in Files /\ work.rev = stored.rev
  BY DEF Inv, Types
<1>4. Effect(file, Statement, work).rev =
        IF Statement.do = "version" THEN work.rev + 1 ELSE work.rev
  BY <1>2, <1>3, EffectIs
<1> QED BY <1>1, <1>2, <1>3, <1>4

LEMMA CommitRev == ASSUME Inv, Commit PROVE stored'.rev = stored.rev + 1
<1>1. /\ at > 0 /\ at = Len(Script(stored.rev + 1)) /\ work' = Effect(file, Statement, work)
      /\ stored' = work'
  BY DEF Commit
<1>2. Statement = Version /\ Statement \in Change \cup {Version}
  BY <1>1, StatementIs
<1>3. work \in DB /\ file \in Files /\ work.rev = stored.rev
  BY DEF Inv, Types
<1>4. Effect(file, Statement, work).rev =
        IF Statement.do = "version" THEN work.rev + 1 ELSE work.rev
  BY <1>2, <1>3, EffectIs
<1>5. Statement.do = "version"
  BY <1>2 DEF Version
<1> QED BY <1>1, <1>3, <1>4, <1>5

LEMMA NextCarrying == Inv /\ Carrying /\ [Next]_vars => Carrying'
<1> SUFFICES ASSUME Inv, Carrying, [Next]_vars PROVE Carrying'
  OBVIOUS
<1> DEFINE new == Effect(file, Statement, work)
<1>0. /\ Remains(found, stored) /\ Remains(found, work)
      /\ stored.rev > 5 => Identity(stored) /\ Identity(work)
      /\ stored.rev \in Nat
  BY DEF Carrying, Inv, Types, DB
<1>1. ASSUME Start \/ Refused \/ Crash PROVE Carrying'
  <2>1. /\ work' = stored /\ stored' = stored /\ file' = file /\ found' = found
        /\ at' \in {0, 1}
    BY <1>1 DEF Start, Refused, Crash, RollBack
  <2> HIDE DEF new
  <2>2. 1..at' - 1 = {}
    <3>1. CASE at' = 0
      BY <3>1
    <3>2. CASE at' = 1
      BY <3>2
    <3> QED BY <2>1, <3>1, <3>2
  <2> QED BY <1>0, <2>1, <2>2 DEF Carrying, Identity
<1>2. ASSUME Execute PROVE Carrying'
  <2>1. /\ at > 0 /\ at < Len(Script(stored.rev + 1)) /\ work' = new
        /\ stored' = IF open' THEN stored ELSE work'
        /\ at' = at + 1 /\ file' = file /\ found' = found
    BY <1>2 DEF Execute
  <2>2. at \in Body(stored.rev + 1) /\ at \in Nat /\ Len(Script(stored.rev + 1)) \in Nat
    BY <2>1, StatementIs DEF Inv, Types
  <2>3. /\ Remains(found, new)
        /\ stored.rev = 5 =>
             \A i \in 1..at : i \in Body(6) => Achieved(found, file, Script(6)[i], new)
        /\ stored.rev > 5 => Identity(new)
    BY <2>1, StatementCarries
  <2> HIDE DEF new
  <2>4. stored'.rev = stored.rev
    BY <2>1, ExecuteRev, <1>2
  <2>5. ASSUME stored.rev = 5, NEW i \in 1..at' - 1 PROVE Achieved(found, file, Script(6)[i], new)
    <3>1. i \in 1..at /\ i \in Body(6)
      BY <2>1, <2>2, <2>5 DEF Body
    <3> QED BY <2>3, <2>5, <3>1
  <2> QED BY <1>0, <2>1, <2>3, <2>4, <2>5 DEF Carrying, Identity
<1>3. ASSUME Commit PROVE Carrying'
  <2>1. /\ at > 0 /\ at = Len(Script(stored.rev + 1)) /\ work' = new /\ stored' = new
        /\ at' = IF stored'.rev < Newest THEN 1 ELSE 0
        /\ file' = file /\ found' = found
    BY <1>3 DEF Commit
  <2>2. /\ Remains(found, new)
        /\ stored.rev = 5 =>
             \A i \in 1..at : i \in Body(6) => Achieved(found, file, Script(6)[i], new)
        /\ stored.rev > 5 => Identity(new)
    BY <2>1, StatementCarries
  <2>3. stored'.rev = stored.rev + 1
    BY <1>3, CommitRev
  <2> HIDE DEF new
  <2>4. ASSUME stored.rev = 5 PROVE Identity(new)
    <3>1. ASSUME NEW i \in Body(6) PROVE i \in 1..at
      <4>1. at = Len(Script(6)) /\ at \in Nat
        BY <2>1, <2>4 DEF Inv, Types
      <4> QED BY <3>1, <4>1 DEF Body
    <3> QED BY <2>2, <2>4, <3>1 DEF Identity
  <2>5. stored.rev >= 5 => Identity(new)
    BY <1>0, <2>2, <2>4
  <2>6. 1..at' - 1 = {}
    BY <2>1
  <2> QED BY <1>0, <2>1, <2>2, <2>3, <2>5, <2>6 DEF Carrying, Identity
<1>4. CASE UNCHANGED vars
  BY <1>4 DEF vars, Carrying, Identity
<1> QED BY <1>1, <1>2, <1>3, <1>4 DEF Next

(* SEC-48: who finds a database of version 2.0.0 and brings it to the      *)
(* newest revision, however many attempts that takes, has listed everybody *)
(* who was bound to a provider, locked out the others and removed the      *)
(* local login.                                                            *)
THEOREM EverythingIsCarriedOver == Spec => []CarriedOver
<1>1. Inv /\ Carrying => CarriedOver
  <2> SUFFICES ASSUME Inv, Carrying, stored.rev = Newest
               PROVE  /\ \A u \in Accounts : found.users[u] # Absent =>
                           LET row == found.users[u] IN
                           /\ Bound(row) /\ row.mail # NoMail => EntryOf(row) \in stored.list
                           /\ ~Bound(row) => ~stored.users[u].active
                           /\ Bound(row) => stored.users[u] = row
                      /\ ~stored.signedIn
                      /\ stored.objects \cap LoginTables = {}
                      /\ file = OtherPort => stored.port = OtherPort
    <3>1. LoginTables = {<<"credential">>, <<"backup_code">>, <<"webauthn_challenge">>}
      BY DEF LoginTables
    <3> QED BY <3>1 DEF CarriedOver
  <2>1. Identity(stored) /\ Remains(found, stored)
    BY SevenScripts DEF Carrying
  <2>2. ASSUME NEW name \in {"import", "list", "disable", "signout"}
        PROVE  Achieved(found, file, [do |-> name], stored)
    <3>1. PICK i \in Body(6) : Script(6)[i] = [do |-> name]
      BY IdentityDoes
    <3> QED BY <2>1, <3>1 DEF Identity
  <2>3. ASSUME NEW t \in {"webauthn_challenge", "backup_code", "credential"}
        PROVE  <<t>> \notin stored.objects
    <3> DEFINE c == [do |-> "drop", what |-> {<<t>>}]
    <3>1. PICK i \in Body(6) : Script(6)[i] = c
      BY IdentityDoes
    <3>2. Achieved(found, file, c, stored)
      BY <2>1, <3>1 DEF Identity
    <3>3. {<<t>>} \cap LoginTables \cap stored.objects = {}
      BY <3>2 DEF Achieved
    <3>4. <<t>> \in LoginTables
      BY <2>3 DEF LoginTables
    <3> QED BY <3>3, <3>4
  <2>4. stored.objects \cap LoginTables = {}
    BY <2>3 DEF LoginTables
  <2>5. ~stored.signedIn /\ (file = OtherPort => stored.port = OtherPort)
    BY <2>2 DEF Achieved
  <2>6. ASSUME NEW u \in Accounts, found.users[u] # Absent
        PROVE  LET row == found.users[u] IN
               /\ Bound(row) /\ row.mail # NoMail => EntryOf(row) \in stored.list
               /\ ~Bound(row) => ~stored.users[u].active
               /\ Bound(row) => stored.users[u] = row
    <3>1. /\ Achieved(found, file, [do |-> "list"], stored)
          /\ Achieved(found, file, [do |-> "disable"], stored)
      BY <2>2
    <3>2. Bound(found.users[u]) /\ found.users[u].mail # NoMail =>
            EntryOf(found.users[u]) \in stored.list
      BY <2>6, <3>1 DEF Achieved
    <3>3. ~Bound(found.users[u]) => ~stored.users[u].active
      BY <2>6, <3>1 DEF Achieved
    <3> QED BY <2>1, <2>6, <3>2, <3>3 DEF Remains
  <2> QED BY <2>4, <2>5, <2>6
<1>2. Inv /\ Carrying /\ [Next]_vars => (Inv /\ Carrying)'
  BY NextInv, NextCarrying
<1>3. Init => Inv /\ Carrying
  BY InitInv, InitCarrying
<1> QED BY <1>1, <1>2, <1>3, PTL DEF Spec
=============================================================================

---------------------------- MODULE AccessProofs ----------------------------
(***************************************************************************)
(* The shares, the memberships and the mirrors of the providers' groups,   *)
(* for every number of vaults, accounts, groups and overlapping requests:  *)
(* no reference is left without what it refers to, no name keeps anybody   *)
(* out, a share counts for whom it was meant, and a mirror changes by the  *)
(* sign-ins of its provider, although the ids of deleted rows come back:   *)
(* only what was deleted under a request that lists it is excepted.        *)
(*                                                                         *)
(* Apply is a function that is defined by recursion; no theorem about      *)
(* induction can be instantiated here, so the induction it needs is proved *)
(* first, for sets of natural numbers, from the order of the naturals.     *)
(***************************************************************************)
EXTENDS Access, GroupFetch, TLAPS, FiniteSetTheorems, SequenceTheorems, WellFoundedInduction

-----------------------------------------------------------------------------
(* Natural numbers                                                         *)

LEMMA Least == ASSUME NEW S \in SUBSET Nat, S # {} PROVE \E n \in S : \A m \in S : n <= m
<1> DEFINE R == OpToRel(<, Nat)
<1>1. IsWellFoundedOn(R, Nat)
  BY NatLessThanWellFounded
<1> HIDE DEF R
<1>2. PICK n \in S : \A m \in S : ~(<<m, n>> \in R)
  BY <1>1, WFMin
<1>3. ASSUME NEW m \in S PROVE n <= m
  <2>1. ~(m < n)
    BY <1>2 DEF R, OpToRel
  <2> QED BY <2>1
<1> QED BY <1>3

LEMMA Induction ==
  ASSUME NEW S \in SUBSET Nat, 0 \in S, \A n \in S : n + 1 \in S
  PROVE  S = Nat
<1> SUFFICES ASSUME Nat \ S # {} PROVE FALSE
  OBVIOUS
<1>1. PICK n \in Nat \ S : \A m \in Nat \ S : n <= m
  BY Least
<1>2. n - 1 \in Nat /\ n - 1 \in S
  BY <1>1
<1> QED BY <1>1, <1>2

-----------------------------------------------------------------------------
(* Tables of accounts and of groups                                        *)

GroupTable(table) == table \in [GroupIds -> GroupRow \cup {Absent}]

LEMMA GroupIdsOf ==
  ASSUME NEW table, GroupTable(table)
  PROVE  /\ Ids(table) \subseteq GroupIds /\ DOMAIN table = GroupIds
         /\ \A g \in Ids(table) : table[g] \in GroupRow
         /\ \A g \in Ids(table) : table[g].name \in GroupNames
                               /\ table[g].origin \in Externals \cup {Local}
<1>1. Ids(table) \subseteq GroupIds /\ \A g \in Ids(table) : table[g] \in GroupRow
  BY DEF GroupTable, Ids
<1>2. DOMAIN table = GroupIds
  BY DEF GroupTable
<1> QED BY <1>1, <1>2 DEF GroupRow

(* There is one number for a new row, and no row has it.                   *)
LEMMA FollowsIs ==
  ASSUME NEW table, NEW N \in Nat, Ids(table) \subseteq 1..N,
         NEW i \in 1..N, Follows(i, table)
  PROVE  /\ i \notin Ids(table)
         /\ \A j \in 1..N : Follows(j, table) => j = i
<1>1. i \notin Ids(table)
  BY DEF Follows
<1>2. ASSUME NEW j \in 1..N, Follows(j, table), j # i PROVE FALSE
  <2>1. CASE j < i
    <3>1. i # 1
      BY <2>1
    <3>2. i - 1 \in Ids(table)
      BY <3>1 DEF Follows
    <3>3. i - 1 < j
      BY <1>2, <3>2 DEF Follows
    <3> QED BY <2>1, <3>3
  <2>2. CASE i < j
    <3>1. j # 1
      BY <2>2
    <3>2. j - 1 \in Ids(table)
      BY <1>2, <3>1 DEF Follows
    <3>3. j - 1 < i
      BY <3>2 DEF Follows
    <3> QED BY <2>2, <3>3
  <2> QED BY <1>2, <2>1, <2>2
<1> QED BY <1>1, <1>2

(* As long as there is room for another group, there is a name for it.     *)
LEMMA FreeNameIs ==
  ASSUME NEW table, GroupTable(table), NEW g \in GroupIds, g \notin Ids(table),
         NEW name \in Names, NEW p \in Providers
  PROVE  /\ FreeName(table, name, p) \in GroupNames
         /\ \A h \in Ids(table) : table[h].name # FreeName(table, name, p)
<1> DEFINE taken == {table[h].name : h \in Ids(table)}
           copies == {k \in 1..MaxCopies : <<name, p, k>> \notin taken}
<1>1. ASSUME name \in taken, copies = {} PROVE FALSE
  <2> DEFINE f == [k \in 1..MaxCopies |->
                     CHOOSE h \in Ids(table) : table[h].name = <<name, p, k>>]
  <2>1. ASSUME NEW k \in 1..MaxCopies
        PROVE  f[k] \in Ids(table) /\ table[f[k]].name = <<name, p, k>>
    <3>1. \E h \in Ids(table) : table[h].name = <<name, p, k>>
      BY <1>1
    <3> QED BY <3>1
  <2>2. f \in [1..MaxCopies -> GroupIds \ {g}]
    BY <2>1, GroupIdsOf
  <2>3. \A j, k \in 1..MaxCopies : f[j] = f[k] => j = k
    <3> HIDE DEF f
    <3> SUFFICES ASSUME NEW j \in 1..MaxCopies, NEW k \in 1..MaxCopies, f[j] = f[k] PROVE j = k
      OBVIOUS
    <3>1. <<name, p, j>> = <<name, p, k>>
      BY <2>1
    <3> QED BY <3>1
  <2> HIDE DEF f
  <2>4. IsFiniteSet(1..MaxCopies) /\ Cardinality(1..MaxCopies) = MaxCopies
    <3>1. MaxCopies \in Nat
      BY AccessAssumption
    <3> QED BY <3>1, FS_Interval
  <2>5. IsFiniteSet(GroupIds) /\ Cardinality(GroupIds) = MaxGroups /\ MaxGroups \in Nat
    <3>1. MaxGroups \in Nat
      BY AccessAssumption
    <3>2. IsFiniteSet(1..MaxGroups) /\ Cardinality(1..MaxGroups) = MaxGroups
      BY <3>1, FS_Interval
    <3> QED BY <3>1, <3>2 DEF GroupIds
  <2>6. IsFiniteSet(GroupIds \ {g}) /\ Cardinality(GroupIds \ {g}) = MaxGroups - 1
    BY <2>5, FS_RemoveElement
  <2>7. Cardinality(GroupIds \ {g}) < Cardinality(1..MaxCopies)
    BY <2>4, <2>5, <2>6, AccessAssumption
  <2>8. \E j, k \in 1..MaxCopies : j # k /\ f[j] = f[k]
    BY <2>2, <2>4, <2>6, <2>7, FS_PigeonHole
  <2> QED BY <2>3, <2>8
<1>2. CASE name \notin taken
  <2>1. FreeName(table, name, p) = name
    BY <1>2 DEF FreeName
  <2> QED BY <1>2, <2>1 DEF GroupNames
<1>3. CASE name \in taken
  <2>1. PICK k \in copies : \A j \in copies : k <= j
    <3>1. copies # {} /\ copies \subseteq Nat
      BY <1>1, <1>3
    <3> HIDE DEF copies
    <3> QED BY <3>1, Least
  <2> DEFINE c == CHOOSE i \in copies : \A j \in copies : i <= j
  <2>2. c \in copies
    BY <2>1
  <2>3. FreeName(table, name, p) = <<name, p, c>>
    BY <1>3 DEF FreeName
  <2> HIDE DEF c
  <2>4. c \in 1..MaxCopies /\ <<name, p, c>> \notin taken
    BY <2>2
  <2> QED BY <2>3, <2>4 DEF GroupNames
<1> QED BY <1>2, <1>3
-----------------------------------------------------------------------------
(* Tables of groups that grow                                              *)

OriginsDiffer(table) ==
  \A g, h \in Ids(table) :
    table[g].origin = table[h].origin /\ table[g].origin # Local => g = h

Whole(table) == GroupTable(table) /\ NamesDiffer(table) /\ OriginsDiffer(table)

(* From t to u groups are only added, with their origins in X, and only    *)
(* mirrors get another name.                                               *)
Grows(t, u, X) ==
  /\ Ids(t) \subseteq Ids(u)
  /\ \A g \in Ids(t) : /\ u[g].origin = t[g].origin
                       /\ t[g].origin = Local => u[g].name = t[g].name
  /\ \A g \in Ids(u) \ Ids(t) : u[g].origin \in X

(* A group is inserted.  Beyond the bound there is no row for it.          *)
LEMMA RowAdded ==
  ASSUME NEW t, Whole(t), NEW row,
         (\E g \in GroupIds : Follows(g, t)) =>
           /\ row \in GroupRow
           /\ \A h \in Ids(t) : t[h].name # row.name
           /\ row.origin # Local => \A h \in Ids(t) : t[h].origin # row.origin
  PROVE  Whole(WithGroup(t, row)) /\ Grows(t, WithGroup(t, row), {row.origin})
<1> DEFINE u == WithGroup(t, row)
<1>1. GroupTable(t) /\ NamesDiffer(t) /\ OriginsDiffer(t)
  BY DEF Whole
<1>2. Ids(t) \subseteq GroupIds /\ DOMAIN t = GroupIds /\ \A h \in Ids(t) : t[h] \in GroupRow
  BY <1>1, GroupIdsOf
<1>3. u = [h \in GroupIds |-> IF Follows(h, t) THEN row ELSE t[h]]
  BY DEF WithGroup
<1> HIDE DEF u
<1>4. CASE \A h \in GroupIds : ~Follows(h, t)
  <2>1. u = [h \in GroupIds |-> t[h]]
    BY <1>3, <1>4
  <2>2. u = t
    BY <1>1, <2>1 DEF GroupTable
  <2> QED BY <2>2 DEF Grows, u
<1>5. CASE \E g \in GroupIds : Follows(g, t)
  <2>1. PICK g \in GroupIds : Follows(g, t)
    BY <1>5
  <2>2. /\ row \in GroupRow
        /\ \A h \in Ids(t) : t[h].name # row.name
        /\ row.origin # Local => \A h \in Ids(t) : t[h].origin # row.origin
    BY <1>5
  <2>3. g \notin Ids(t) /\ \A h \in GroupIds : Follows(h, t) => h = g
    <3>1. MaxGroups \in Nat
      BY AccessAssumption
    <3>2. Ids(t) \subseteq 1..MaxGroups /\ g \in 1..MaxGroups
      BY <1>2 DEF GroupIds
    <3> QED BY <2>1, <3>1, <3>2, FollowsIs DEF GroupIds
  <2>4. DOMAIN u = GroupIds /\ \A h \in GroupIds : u[h] = IF h = g THEN row ELSE t[h]
    BY <1>3, <2>1, <2>3
  <2>5. row # Absent
    BY <2>2, AbsentAssumption
  <2>6. Ids(u) = Ids(t) \cup {g}
    <3>1. ASSUME NEW h \in Ids(u) PROVE h \in Ids(t) \cup {g}
      BY <1>2, <2>4 DEF Ids
    <3>2. ASSUME NEW h \in Ids(t) PROVE h \in Ids(u)
      <4>1. h # g /\ h \in GroupIds /\ t[h] # Absent
        BY <1>2, <2>3 DEF Ids
      <4> QED BY <2>4, <4>1 DEF Ids
    <3>3. g \in Ids(u)
      BY <2>4, <2>5 DEF Ids
    <3> QED BY <3>1, <3>2, <3>3
  <2>7. u[g] = row /\ \A h \in Ids(t) : u[h] = t[h]
    BY <1>2, <2>3, <2>4
  <2>8. GroupTable(u)
    <3>1. ASSUME NEW h \in GroupIds PROVE u[h] \in GroupRow \cup {Absent}
      BY <1>1, <2>2, <2>4 DEF GroupTable
    <3> QED BY <1>3, <3>1 DEF GroupTable
  <2>9. NamesDiffer(u)
    BY <1>1, <2>2, <2>6, <2>7 DEF NamesDiffer
  <2>10. OriginsDiffer(u)
    BY <1>1, <2>2, <2>6, <2>7 DEF OriginsDiffer
  <2>11. Grows(t, u, {row.origin})
    BY <2>6, <2>7 DEF Grows
  <2> QED BY <2>8, <2>9, <2>10, <2>11 DEF Whole, u
<1> QED BY <1>4, <1>5

(* A known mirror takes a free name; nothing else changes.                 *)
LEMMA NameFollows ==
  ASSUME NEW t, Whole(t), NEW x \in Externals, NEW name \in Names, NEW p,
         NEW k \in Ids(t), t[k].origin = x
  PROVE  Whole(Mirrored(t, x, name, p)) /\ Grows(t, Mirrored(t, x, name, p), {x})
<1> DEFINE known == {g \in Ids(t) : t[g].origin = x}
           others == {t[h].name : h \in Ids(t) \ known}
           u == Mirrored(t, x, name, p)
<1>1. GroupTable(t) /\ NamesDiffer(t) /\ OriginsDiffer(t)
  BY DEF Whole
<1>2. known = {k} /\ x # Local
  <2>1. x # Local
    BY AccessAssumption
  <2> QED BY <1>1, <2>1 DEF OriginsDiffer
<1>3. u = [g \in GroupIds |-> IF g \in known /\ name \notin others
                                THEN [t[g] EXCEPT !.name = name] ELSE t[g]]
  BY <1>2 DEF Mirrored
<1>4. others = {t[h].name : h \in Ids(t) \ {k}}
  BY <1>2
<1> HIDE DEF known, others, u
<1>5. u = [g \in GroupIds |-> IF g = k /\ name \notin others
                                THEN [t[g] EXCEPT !.name = name] ELSE t[g]]
  BY <1>2, <1>3
<1>6. Ids(t) \subseteq GroupIds /\ DOMAIN t = GroupIds /\ \A h \in Ids(t) : t[h] \in GroupRow
  BY <1>1, GroupIdsOf
<1>7. CASE name \in others
  <2>1. u = [g \in GroupIds |-> t[g]]
    BY <1>5, <1>7
  <2>2. u = t
    BY <1>1, <2>1 DEF GroupTable
  <2> QED BY <2>2 DEF Grows, u
<1>8. CASE name \notin others
  <2>1. DOMAIN u = GroupIds /\ \A g \in GroupIds : u[g] =
          IF g = k THEN [t[g] EXCEPT !.name = name] ELSE t[g]
    BY <1>5, <1>8
  <2>2. u[k] = [name |-> name, origin |-> x]
    <3>1. t[k] \in GroupRow /\ k \in GroupIds
      BY <1>6
    <3> QED BY <2>1, <3>1 DEF GroupRow
  <2>3. \A g \in GroupIds : g # k => u[g] = t[g]
    BY <2>1
  <2>4. u[k] \in GroupRow /\ u[k] # Absent
    <3>1. u[k] \in GroupRow
      BY <2>2 DEF GroupRow, GroupNames
    <3> QED BY <3>1, AbsentAssumption
  <2>5. GroupTable(u)
    <3>1. ASSUME NEW g \in GroupIds PROVE u[g] \in GroupRow \cup {Absent}
      BY <1>1, <2>3, <2>4 DEF GroupTable
    <3> QED BY <1>5, <3>1 DEF GroupTable
  <2>6. Ids(u) = Ids(t)
    <3>1. ASSUME NEW g \in Ids(u) PROVE g \in Ids(t)
      BY <1>6, <2>1, <2>3 DEF Ids
    <3>2. ASSUME NEW g \in Ids(t) PROVE g \in Ids(u)
      BY <1>6, <2>1, <2>3, <2>4 DEF Ids
    <3> QED BY <3>1, <3>2
  <2>7. \A g \in Ids(t) : u[g].origin = t[g].origin
    BY <1>6, <2>2, <2>3
  <2>8. \A g \in Ids(t) : g # k => u[g] = t[g] /\ t[g].name # name
    BY <1>4, <1>6, <1>8, <2>3
  <2>9. OriginsDiffer(u)
    BY <1>1, <2>6, <2>7 DEF OriginsDiffer
  <2>10. NamesDiffer(u)
    <3> SUFFICES ASSUME NEW i \in Ids(t), NEW h \in Ids(t), u[i].name = u[h].name PROVE i = h
      BY <2>6 DEF NamesDiffer
    <3>1. u[k].name = name
      BY <2>2
    <3>2. CASE i # k /\ h # k
      BY <1>1, <2>8, <3>2 DEF NamesDiffer
    <3>3. CASE i = k \/ h = k
      BY <2>8, <3>1, <3>3
    <3> QED BY <3>2, <3>3
  <2>11. Grows(t, u, {x})
    BY <1>2, <2>6, <2>7, <2>8 DEF Grows
  <2> QED BY <2>5, <2>9, <2>10, <2>11 DEF Whole, u
<1> QED BY <1>7, <1>8

LEMMA MirroredIs ==
  ASSUME NEW t, Whole(t), NEW x \in Externals, NEW name \in Names, NEW p \in Providers
  PROVE  Whole(Mirrored(t, x, name, p)) /\ Grows(t, Mirrored(t, x, name, p), {x})
<1>1. CASE \E k \in Ids(t) : t[k].origin = x
  BY <1>1, NameFollows
<1>2. CASE \A k \in Ids(t) : t[k].origin # x
  <2> DEFINE row == [name |-> FreeName(t, name, p), origin |-> x]
  <2>1. Mirrored(t, x, name, p) = WithGroup(t, row)
    BY <1>2 DEF Mirrored
  <2>2. (\E g \in GroupIds : Follows(g, t)) =>
          /\ row \in GroupRow
          /\ \A h \in Ids(t) : t[h].name # row.name
          /\ row.origin # Local => \A h \in Ids(t) : t[h].origin # row.origin
    <3> SUFFICES ASSUME NEW g \in GroupIds, Follows(g, t)
                 PROVE  /\ FreeName(t, name, p) \in GroupNames
                        /\ \A h \in Ids(t) : t[h].name # FreeName(t, name, p)
      BY <1>2 DEF GroupRow
    <3>1. GroupTable(t) /\ g \notin Ids(t)
      BY DEF Whole, Follows, GroupIds
    <3> QED BY <3>1, FreeNameIs
  <2>3. row.origin = x
    OBVIOUS
  <2> HIDE DEF row
  <2> QED BY <2>1, <2>2, <2>3, RowAdded
<1> QED BY <1>1, <1>2

-----------------------------------------------------------------------------
(* All the reported groups, one after the other                            *)

LEMMA GrowsOn ==
  ASSUME NEW t, NEW u, NEW w, NEW X, NEW Y, Grows(t, u, X), Grows(u, w, Y)
  PROVE  Grows(t, w, X \cup Y)
<1>1. \A g \in Ids(t) : /\ w[g].origin = t[g].origin
                        /\ t[g].origin = Local => w[g].name = t[g].name
  BY DEF Grows
<1>2. ASSUME NEW g \in Ids(w) \ Ids(t) PROVE w[g].origin \in X \cup Y
  <2>1. CASE g \in Ids(u)
    BY <2>1 DEF Grows
  <2>2. CASE g \notin Ids(u)
    BY <2>2 DEF Grows
  <2> QED BY <2>1, <2>2
<1> QED BY <1>1, <1>2 DEF Grows

LEMMA ReportIs ==
  ASSUME NEW fetched \in Reports
  PROVE  /\ Len(fetched) \in Nat /\ DOMAIN fetched = 1..Len(fetched)
         /\ \A i \in 1..Len(fetched) : fetched[i].id \in Externals /\ fetched[i].name \in Names
         /\ \A i, j \in 1..Len(fetched) : fetched[i].id = fetched[j].id => i = j
<1>1. PICK n \in 0..MaxFetched : fetched \in [1..n -> [id : Externals, name : Names]]
  BY DEF Reports
<1>2. n \in Nat
  BY AccessAssumption
<1>3. fetched \in Seq([id : Externals, name : Names])
  <2> DEFINE Item == [id : Externals, name : Names]
  <2> HIDE DEF Item
  <2>1. fetched \in [1..n -> Item]
    BY <1>1 DEF Item
  <2>2. fetched \in UNION {[1..m -> Item] : m \in Nat}
    BY <1>2, <2>1
  <2>3. Seq(Item) = UNION {[1..m -> Item] : m \in Nat}
    BY SeqDef, Zenon
  <2> QED BY <2>2, <2>3 DEF Item
<1>4. Len(fetched) \in Nat /\ DOMAIN fetched = 1..Len(fetched)
      /\ fetched \in [1..Len(fetched) -> [id : Externals, name : Names]]
  BY <1>3, LenProperties
<1>5. \A i, j \in DOMAIN fetched : fetched[i].id = fetched[j].id => i = j
  BY DEF Reports
<1>6. ASSUME NEW i \in 1..Len(fetched)
      PROVE  fetched[i].id \in Externals /\ fetched[i].name \in Names
  <2>1. fetched[i] \in [id : Externals, name : Names]
    BY <1>4
  <2> QED BY <2>1
<1> QED BY <1>4, <1>5, <1>6
(* The table as it is committed, and after each of the reported groups.    *)
After(f, fetched, p, n) ==
  IF n = 0 THEN group ELSE Mirrored(f[n - 1], fetched[n].id, fetched[n].name, p)
Steps(fetched, p) == CHOOSE f : f = [n \in 0..Len(fetched) |-> After(f, fetched, p, n)]

LEMMA ApplyIs ==
  ASSUME NEW fetched, NEW p PROVE Apply(fetched, p) = Steps(fetched, p)[Len(fetched)]
BY DEF Apply, Steps, After

LEMMA StepsAre ==
  ASSUME NEW fetched, NEW p, Len(fetched) \in Nat
  PROVE  /\ Steps(fetched, p)[0] = group
         /\ \A n \in 1..Len(fetched) :
              Steps(fetched, p)[n] =
                Mirrored(Steps(fetched, p)[n - 1], fetched[n].id, fetched[n].name, p)
<1> DEFINE Defined == {n \in Nat : \E f : f = [m \in 0..n |-> After(f, fetched, p, m)]}
<1>1. 0 \in Defined
  <2> DEFINE f == [m \in 0..0 |-> group]
  <2>1. f = [m \in 0..0 |-> After(f, fetched, p, m)]
    BY DEF After
  <2> QED BY <2>1
<1>2. ASSUME NEW n \in Defined PROVE n + 1 \in Defined
  <2>1. PICK f : f = [m \in 0..n |-> After(f, fetched, p, m)]
    OBVIOUS
  <2> DEFINE h == [m \in 0..n + 1 |-> After(f, fetched, p, m)]
  <2>2. \A m \in 0..n : f[m] = After(f, fetched, p, m)
    BY <2>1
  <2>3. \A m \in 0..n : h[m] = f[m]
    BY <2>2
  <2>4. ASSUME NEW m \in 0..n + 1 PROVE After(f, fetched, p, m) = After(h, fetched, p, m)
    <3>1. CASE m = 0
      BY <3>1 DEF After
    <3>2. CASE m # 0
      <4>1. m - 1 \in 0..n
        BY <3>2
      <4>2. h[m - 1] = f[m - 1]
        BY <2>3, <4>1
      <4> HIDE DEF h
      <4> QED BY <3>2, <4>2 DEF After
    <3> QED BY <3>1, <3>2
  <2>5. h = [m \in 0..n + 1 |-> After(h, fetched, p, m)]
    BY <2>4
  <2> HIDE DEF h
  <2>6. \E k : k = [m \in 0..n + 1 |-> After(k, fetched, p, m)]
    BY <2>5
  <2> QED BY <2>6
<1>3. Defined = Nat
  <2> HIDE DEF Defined
  <2>1. Defined \subseteq Nat
    BY DEF Defined
  <2> QED BY <1>1, <1>2, <2>1, Induction
<1>4. \E f : f = [n \in 0..Len(fetched) |-> After(f, fetched, p, n)]
  BY <1>3
<1> DEFINE s == Steps(fetched, p)
<1>5. s = [n \in 0..Len(fetched) |-> After(s, fetched, p, n)]
  BY <1>4 DEF Steps
<1> HIDE DEF s
<1>6. s[0] = group
  BY <1>5 DEF After
<1>7. ASSUME NEW n \in 1..Len(fetched)
      PROVE  s[n] = Mirrored(s[n - 1], fetched[n].id, fetched[n].name, p)
  <2>1. s[n] = After(s, fetched, p, n)
    BY <1>5
  <2> QED BY <2>1 DEF After
<1> QED BY <1>6, <1>7 DEF s

(* What a whole sync does to the groups.                                   *)
LEMMA ApplyGrows ==
  ASSUME NEW fetched \in Reports, NEW p \in Providers, Whole(group)
  PROVE  Whole(Apply(fetched, p)) /\ Grows(group, Apply(fetched, p), Reported(fetched))
<1> DEFINE s == Steps(fetched, p)
           N == Len(fetched)
           First(n) == {fetched[i].id : i \in 1..n}
           Good(n) == Whole(s[n]) /\ Grows(group, s[n], First(n))
           Done == {n \in Nat : n <= N => Good(n)}
<1>1. /\ N \in Nat /\ DOMAIN fetched = 1..N
      /\ \A i \in 1..N : fetched[i].id \in Externals /\ fetched[i].name \in Names
  BY ReportIs
<1>2. s[0] = group
      /\ \A n \in 1..N : s[n] = Mirrored(s[n - 1], fetched[n].id, fetched[n].name, p)
  BY <1>1, StepsAre
<1> HIDE DEF s, N
<1>3. 0 \in Done
  <2>1. Grows(group, group, First(0))
    BY DEF Grows
  <2>2. Good(0)
    <3> HIDE DEF First
    <3> QED BY <1>2, <2>1
  <2> QED BY <2>2
<1>4. ASSUME NEW n \in Done PROVE n + 1 \in Done
  <2> SUFFICES ASSUME n + 1 <= N PROVE Good(n + 1)
    OBVIOUS
  <2> DEFINE x == fetched[n + 1].id
  <2>1. Good(n) /\ n + 1 \in 1..N /\ n \in Nat
    BY SMTT(30), <1>1
  <2>2. s[n + 1] = Mirrored(s[n], x, fetched[n + 1].name, p)
    <3>1. (n + 1) - 1 = n
      BY <2>1
    <3> QED BY <1>2, <2>1, <3>1
  <2>3. x \in Externals /\ fetched[n + 1].name \in Names
    BY <1>1, <2>1
  <2>4. First(n + 1) = First(n) \cup {x}
    <3>1. 1..n + 1 = 1..n \cup {n + 1}
      BY <2>1
    <3> QED BY <3>1
  <2> HIDE DEF x, First
  <2>5. Whole(s[n + 1]) /\ Grows(s[n], s[n + 1], {x})
    BY <2>1, <2>2, <2>3, MirroredIs
  <2>6. Grows(group, s[n + 1], First(n + 1))
    BY <2>1, <2>4, <2>5, GrowsOn
  <2> QED BY <2>5, <2>6
<1>5. Done = Nat
  <2> HIDE DEF Done
  <2>1. Done \subseteq Nat
    BY DEF Done
  <2> QED BY <1>3, <1>4, <2>1, Induction
<1>6. Good(N)
  <2>1. N \in Done
    BY <1>1, <1>5
  <2> HIDE DEF Good
  <2> QED BY <1>1, <2>1
<1>7. Reported(fetched) = First(N)
  BY <1>1 DEF Reported
<1>8. Apply(fetched, p) = s[N]
  BY ApplyIs DEF s, N
<1> HIDE DEF First
<1> QED BY <1>6, <1>7, <1>8

-----------------------------------------------------------------------------
(* The invariant                                                           *)

PeopleOnce(table) ==
  \A u, k \in Ids(table) : table[u].who = table[k].who => u = k
Tables == TypeOK /\ Whole(group) /\ PeopleOnce(user)

(* The tables are parameters, to speak of them before and after a step: us *)
(* of the accounts, gs of the groups.                                      *)
Of(us, gs, kind) == IF kind = "user" THEN us ELSE gs
Meant(us, gs, kind, i) ==
  IF kind = "user" THEN <<"person", us[i].who>>
  ELSE IF gs[i].origin = Local THEN <<"local", gs[i].name>> ELSE <<"mirror", gs[i].origin>>

(* A share is for whom it was meant; an administrator's list is about      *)
(* groups that were made by hand; who returns has the account that was     *)
(* found: unless it was deleted meanwhile.                                 *)
Bears(us, gs, s) ==
  ~s.lost => s.id \in Ids(Of(us, gs, s.kind)) /\ s.whose = Meant(us, gs, s.kind, s.id)
ByHand(gs, g) == g \in Ids(gs) /\ gs[g].origin = Local
ReturnsTo(us, u, who) == u \in Ids(us) /\ us[u].who = who

Sound(us, gs, q) ==
  /\ q.op = "share" => \A s \in q.entries : Bears(us, gs, s)
  /\ q.op = "members" /\ ~q.lost => ByHand(gs, q.id)
  /\ q.op = "groupsOf" /\ ~q.lost => \A g \in q.removes \cup q.adds : ByHand(gs, g)
  /\ q.op = "signIn" /\ q.id # 0 /\ ~q.lost => ReturnsTo(us, q.id, q.who)

References ==
  /\ MembersExist
  /\ \A s \in shares : Bears(user, group, s)
  /\ \A r \in Reqs : Sound(user, group, req[r])

Safe == Tables /\ References

-----------------------------------------------------------------------------
(* Types                                                                   *)

LEMMA UserRows ==
  ASSUME TypeOK
  PROVE  /\ Ids(user) \subseteq UserIds /\ DOMAIN user = UserIds
         /\ \A u \in Ids(user) : user[u] \in UserRow /\ user[u].who \in Persons
                              /\ user[u].name \in Names
<1>1. user \in [UserIds -> UserRow \cup {Absent}]
  BY DEF TypeOK
<1>2. Ids(user) \subseteq UserIds /\ DOMAIN user = UserIds
      /\ \A u \in Ids(user) : user[u] \in UserRow
  BY <1>1 DEF Ids
<1> QED BY <1>2 DEF UserRow

LEMMA GroupRows ==
  ASSUME TypeOK
  PROVE  /\ Ids(group) \subseteq GroupIds /\ DOMAIN group = GroupIds /\ GroupTable(group)
         /\ \A g \in Ids(group) : group[g] \in GroupRow
                               /\ group[g].name \in GroupNames
                               /\ group[g].origin \in Externals \cup {Local}
<1>1. GroupTable(group)
  BY DEF TypeOK, GroupTable
<1> QED BY <1>1, GroupIdsOf

LEMMA RequestOf ==
  ASSUME NEW q \in Request \cup {Idle}
  PROVE  /\ q.op = "share" =>
              /\ q \in [op : {"share"}, vault : Vaults, entries : SUBSET Share]
              /\ q.vault \in Vaults /\ q.entries \subseteq Share
         /\ q.op = "createGroup" => q.name \in Names
         /\ q.op = "members" =>
              /\ q \in [op : {"members"}, id : GroupIds, removes : SUBSET UserIds,
                        adds : SUBSET UserIds, lost : BOOLEAN]
              /\ q.id \in GroupIds /\ q.removes \subseteq UserIds /\ q.adds \subseteq UserIds
         /\ q.op = "groupsOf" =>
              /\ q \in [op : {"groupsOf"}, id : UserIds, removes : SUBSET GroupIds,
                        adds : SUBSET GroupIds, lost : BOOLEAN]
              /\ q.id \in UserIds /\ q.removes \subseteq GroupIds /\ q.adds \subseteq GroupIds
         /\ q.op = "signIn" =>
              /\ \/ q \in [op : {"signIn"}, who : Persons, name : Names, id : {0},
                           lost : BOOLEAN]
                 \/ q \in [op : {"signIn"}, who : Persons, name : Names \cup {Absent},
                           id : UserIds, lost : BOOLEAN]
              /\ q.who \in Persons /\ q.id \in UserIds \cup {0}
              /\ q.name \in Names \/ (q.name = Absent /\ q.id \in UserIds)
<1>1. q.op = "share" => q \in [op : {"share"}, vault : Vaults, entries : SUBSET Share]
  BY DEF Request, Idle
<1>2. q.op = "createGroup" => q \in [op : {"createGroup"}, name : Names]
  BY DEF Request, Idle
<1>3. q.op = "members" =>
        q \in [op : {"members"}, id : GroupIds, removes : SUBSET UserIds,
               adds : SUBSET UserIds, lost : BOOLEAN]
  BY DEF Request, Idle
<1>4. q.op = "groupsOf" =>
        q \in [op : {"groupsOf"}, id : UserIds, removes : SUBSET GroupIds,
               adds : SUBSET GroupIds, lost : BOOLEAN]
  BY DEF Request, Idle
<1>5. q.op = "signIn" =>
        \/ q \in [op : {"signIn"}, who : Persons, name : Names, id : {0}, lost : BOOLEAN]
        \/ q \in [op : {"signIn"}, who : Persons, name : Names \cup {Absent},
                  id : UserIds, lost : BOOLEAN]
  BY DEF Request, Idle
<1>6. q.op = "share" => q.vault \in Vaults /\ q.entries \subseteq Share
  BY <1>1
<1>7. q.op = "createGroup" => q.name \in Names
  BY <1>2
<1>8. q.op = "members" =>
        q.id \in GroupIds /\ q.removes \subseteq UserIds /\ q.adds \subseteq UserIds
  BY <1>3
<1>9. q.op = "groupsOf" =>
        q.id \in UserIds /\ q.removes \subseteq GroupIds /\ q.adds \subseteq GroupIds
  BY <1>4
<1>10. q.op = "signIn" => /\ q.who \in Persons /\ q.id \in UserIds \cup {0}
                          /\ q.name \in Names \/ (q.name = Absent /\ q.id \in UserIds)
  BY <1>5
<1> QED BY <1>1, <1>3, <1>4, <1>5, <1>6, <1>7, <1>8, <1>9, <1>10

LEMMA GoesTo ==
  ASSUME TypeOK, NEW r \in Reqs, NEW q \in Request \cup {Idle}, Goes(r, q)
  PROVE  /\ req' \in [Reqs -> Request \cup {Idle}]
         /\ req'[r] = q /\ \A k \in Reqs : k # r => req'[k] = req[k]
BY DEF TypeOK, Goes

LEMMA IdleIs == Idle \in Request \cup {Idle} /\ Idle.op = "idle"
BY DEF Idle

LEMMA IdleSound == ASSUME NEW us, NEW gs PROVE Sound(us, gs, Idle)
BY IdleIs DEF Sound

-----------------------------------------------------------------------------
(* Steps that delete nothing                                               *)

(* Everybody and every group that is there stays who it is.                *)
UsersStay(us, ut) == Ids(us) \subseteq Ids(ut) /\ \A u \in Ids(us) : ut[u].who = us[u].who
GroupsStay(gs, gt) ==
  /\ Ids(gs) \subseteq Ids(gt)
  /\ \A g \in Ids(gs) : /\ gt[g].origin = gs[g].origin
                        /\ gs[g].origin = Local => gt[g].name = gs[g].name

LEMMA BearsOn ==
  ASSUME NEW us, NEW gs, NEW ut, NEW gt, UsersStay(us, ut), GroupsStay(gs, gt),
         NEW s, Bears(us, gs, s)
  PROVE  Bears(ut, gt, s)
<1>1. CASE s.lost
  BY <1>1 DEF Bears
<1>2. CASE ~s.lost /\ s.kind = "user"
  BY <1>2 DEF Bears, Of, Meant, UsersStay
<1>3. CASE ~s.lost /\ s.kind # "user"
  BY <1>3 DEF Bears, Of, Meant, GroupsStay
<1> QED BY <1>1, <1>2, <1>3

LEMMA SoundOn ==
  ASSUME NEW us, NEW gs, NEW ut, NEW gt, UsersStay(us, ut), GroupsStay(gs, gt),
         NEW q, Sound(us, gs, q)
  PROVE  Sound(ut, gt, q)
<1>1. q.op = "share" => \A s \in q.entries : Bears(ut, gt, s)
  BY BearsOn DEF Sound
<1>2. q.op = "members" /\ ~q.lost => ByHand(gt, q.id)
  BY DEF Sound, ByHand, GroupsStay
<1>3. q.op = "groupsOf" /\ ~q.lost => \A g \in q.removes \cup q.adds : ByHand(gt, g)
  BY DEF Sound, ByHand, GroupsStay
<1>4. q.op = "signIn" /\ q.id # 0 /\ ~q.lost => ReturnsTo(ut, q.id, q.who)
  BY DEF Sound, ReturnsTo, UsersStay
<1> QED BY <1>1, <1>2, <1>3, <1>4 DEF Sound

LEMMA NothingDeleted ==
  ASSUME Safe, UsersStay(user, user'), GroupsStay(group, group'),
         user' \in [UserIds -> UserRow \cup {Absent}], PeopleOnce(user'), Whole(group'),
         vaults' \subseteq used', used' \subseteq Vaults,
         members' \subseteq UserIds \X GroupIds,
         \A m \in members' : m \in members \/ (m[1] \in Ids(user') /\ m[2] \in Ids(group')),
         \A s \in shares' :
           s \in shares \/ \E r \in Reqs : Doing(r, "share") /\ s \in req[r].entries,
         req' \in [Reqs -> Request \cup {Idle}],
         \A r \in Reqs : req'[r] = req[r] \/ Sound(user, group, req'[r])
  PROVE  Safe'
<1>1. TypeOK /\ References
  BY DEF Safe, Tables
<1>2. \A r \in Reqs : Doing(r, "share") =>
        req[r].entries \subseteq Share /\ \A s \in req[r].entries : Bears(user, group, s)
  <2> SUFFICES ASSUME NEW r \in Reqs, Doing(r, "share")
               PROVE  req[r].entries \subseteq Share
                      /\ \A s \in req[r].entries : Bears(user, group, s)
    OBVIOUS
  <2>1. req[r] \in Request \cup {Idle} /\ req[r].op = "share"
    BY <1>1 DEF TypeOK, Doing
  <2>2. Sound(user, group, req[r])
    BY <1>1 DEF References
  <2> QED BY <2>1, <2>2, RequestOf DEF Sound
<1>3. shares' \subseteq Share
  BY <1>1, <1>2 DEF TypeOK
<1>4. TypeOK'
  BY <1>3 DEF TypeOK, Whole, GroupTable
<1>5. MembersExist'
  <2> SUFFICES ASSUME NEW m \in members' PROVE m[1] \in Ids(user') /\ m[2] \in Ids(group')
    BY DEF MembersExist, Ids
  <2> QED BY <1>1 DEF References, MembersExist, UsersStay, GroupsStay
<1>6. \A s \in shares' : Bears(user', group', s)
  BY <1>1, <1>2, BearsOn DEF References
<1>7. \A r \in Reqs : Sound(user', group', req'[r])
  BY <1>1, SoundOn DEF References
<1>8. References'
  BY <1>5, <1>6, <1>7 DEF References
<1>9. Tables'
  BY <1>4 DEF Tables
<1> QED BY <1>8, <1>9 DEF Safe

(* The tables of accounts and groups are left alone.                       *)
LEMMA TablesUntouched ==
  ASSUME Safe, UNCHANGED <<user, group>>, vaults' \subseteq used', used' \subseteq Vaults,
         members' \subseteq UserIds \X GroupIds,
         \A m \in members' : m \in members \/ (m[1] \in Ids(user') /\ m[2] \in Ids(group')),
         \A s \in shares' :
           s \in shares \/ \E r \in Reqs : Doing(r, "share") /\ s \in req[r].entries,
         req' \in [Reqs -> Request \cup {Idle}],
         \A r \in Reqs : req'[r] = req[r] \/ Sound(user, group, req'[r])
  PROVE  Safe'
<1>1. UsersStay(user, user') /\ GroupsStay(group, group')
  BY DEF UsersStay, GroupsStay
<1>2. user' \in [UserIds -> UserRow \cup {Absent}] /\ PeopleOnce(user') /\ Whole(group')
  <2>1. TypeOK /\ PeopleOnce(user) /\ Whole(group)
    BY DEF Safe, Tables
  <2> QED BY <2>1 DEF TypeOK
<1> QED BY <1>1, <1>2, NothingDeleted

-----------------------------------------------------------------------------
(* One lemma per action                                                    *)

(* A request that only reads, or ends without having written.              *)
LEMMA ReadOnlyStep ==
  ASSUME Safe, ReadsOnly, NEW r \in Reqs, NEW q \in Request \cup {Idle}, Goes(r, q),
         Sound(user, group, q)
  PROVE  Safe'
<1>1. TypeOK
  BY DEF Safe, Tables
<1>2. UNCHANGED <<vaults, used, user, group, members, shares>>
  BY DEF ReadsOnly
<1>3. /\ req' \in [Reqs -> Request \cup {Idle}] /\ req'[r] = q
      /\ \A k \in Reqs : k # r => req'[k] = req[k]
  BY <1>1, GoesTo
<1>4. \A k \in Reqs : req'[k] = req[k] \/ Sound(user, group, req'[k])
  BY <1>3
<1>5. vaults' \subseteq used' /\ used' \subseteq Vaults /\ members' \subseteq UserIds \X GroupIds
  BY <1>1, <1>2 DEF TypeOK
<1> QED BY <1>2, <1>3, <1>4, <1>5, TablesUntouched

LEMMA CreateVaultStep == ASSUME Safe, NEW v \in Vaults, CreateVault(v) PROVE Safe'
<1>1. TypeOK
  BY DEF Safe, Tables
<1>2. UNCHANGED <<user, group, members, shares, req>>
      /\ vaults' = vaults \cup {v} /\ used' = used \cup {v}
  BY DEF CreateVault
<1>3. vaults' \subseteq used' /\ used' \subseteq Vaults /\ members' \subseteq UserIds \X GroupIds
      /\ req' \in [Reqs -> Request \cup {Idle}]
  BY <1>1, <1>2 DEF TypeOK
<1> QED BY <1>2, <1>3, TablesUntouched

LEMMA DeleteVaultStep == ASSUME Safe, NEW v \in Vaults, DeleteVault(v) PROVE Safe'
<1>1. TypeOK
  BY DEF Safe, Tables
<1>2. UNCHANGED <<used, user, group, members, req>> /\ vaults' = vaults \ {v}
      /\ shares' \subseteq shares
  BY DEF DeleteVault
<1>3. vaults' \subseteq used' /\ used' \subseteq Vaults /\ members' \subseteq UserIds \X GroupIds
      /\ req' \in [Reqs -> Request \cup {Idle}]
  BY <1>1, <1>2 DEF TypeOK
<1> QED BY <1>2, <1>3, TablesUntouched

LEMMA WhoseIs ==
  ASSUME TypeOK, NEW kind \in Kinds, NEW i \in Ids(Subject(kind))
  PROVE  /\ Whose(kind, i) = Meant(user, group, kind, i) /\ Whose(kind, i) \in Someone
         /\ Subject(kind) = Of(user, group, kind) /\ i \in UserIds \cup GroupIds
<1>1. Whose(kind, i) = Meant(user, group, kind, i) /\ Subject(kind) = Of(user, group, kind)
  BY DEF Whose, Meant, Subject, Of
<1>2. CASE kind = "user"
  <2>1. i \in UserIds /\ user[i].who \in Persons
    BY <1>2, UserRows DEF Subject
  <2> QED BY <1>1, <1>2, <2>1 DEF Whose, Someone
<1>3. CASE kind # "user"
  <2>1. i \in GroupIds /\ group[i].name \in GroupNames /\ group[i].origin \in Externals \cup {Local}
    BY <1>3, GroupRows DEF Subject
  <2> QED BY <1>1, <1>3, <2>1 DEF Whose, Someone
<1> QED BY <1>2, <1>3

(* The shares that a request sets are resolved to subjects that exist.     *)
LEMMA Resolved ==
  ASSUME TypeOK, NEW v \in vaults, NEW payload \in Payloads,
         \A e \in payload : \E i \in UserIds \cup GroupIds : Named(e.kind, e.name) = {i},
         NEW s \in {[vault |-> v, kind |-> e.kind,
                     id |-> CHOOSE i \in Named(e.kind, e.name) : TRUE,
                     whose |-> Whose(e.kind, CHOOSE i \in Named(e.kind, e.name) : TRUE),
                     permission |-> e.permission, lost |-> FALSE] : e \in payload}
  PROVE  s \in Share /\ Bears(user, group, s)
<1>1. PICK e \in payload :
        s = [vault |-> v, kind |-> e.kind, id |-> CHOOSE i \in Named(e.kind, e.name) : TRUE,
             whose |-> Whose(e.kind, CHOOSE i \in Named(e.kind, e.name) : TRUE),
             permission |-> e.permission, lost |-> FALSE]
  OBVIOUS
<1>2. e.kind \in Kinds /\ e.permission \in Permissions
  <2>1. e \in Wish
    BY DEF Payloads
  <2> QED BY <2>1 DEF Wish
<1>3. PICK i \in UserIds \cup GroupIds : Named(e.kind, e.name) = {i}
  OBVIOUS
<1>4. i \in Ids(Subject(e.kind))
  BY <1>3 DEF Named
<1>5. s = [vault |-> v, kind |-> e.kind, id |-> i, whose |-> Whose(e.kind, i),
           permission |-> e.permission, lost |-> FALSE]
  BY <1>1, <1>3
<1>6. v \in Vaults
  BY DEF TypeOK
<1>7. /\ Whose(e.kind, i) = Meant(user, group, e.kind, i) /\ Whose(e.kind, i) \in Someone
      /\ Subject(e.kind) = Of(user, group, e.kind)
  BY <1>2, <1>4, WhoseIs
<1>8. s \in Share
  BY <1>2, <1>3, <1>5, <1>6, <1>7 DEF Share
<1>9. s.id \in Ids(Of(user, group, s.kind)) /\ s.whose = Meant(user, group, s.kind, s.id)
  BY <1>4, <1>5, <1>7
<1> QED BY <1>8, <1>9 DEF Bears

LEMMA BeginShareStep ==
  ASSUME Safe, NEW r \in Reqs, NEW v \in vaults, NEW payload \in Payloads,
         BeginShare(r, v, payload)
  PROVE  Safe'
<1> DEFINE entries == {[vault |-> v, kind |-> e.kind,
                        id |-> CHOOSE i \in Named(e.kind, e.name) : TRUE,
                        whose |-> Whose(e.kind, CHOOSE i \in Named(e.kind, e.name) : TRUE),
                        permission |-> e.permission, lost |-> FALSE] : e \in payload}
           q == [op |-> "share", vault |-> v, entries |-> entries]
<1>1. ReadsOnly /\ Goes(r, q)
      /\ \A e \in payload : \E i \in UserIds \cup GroupIds : Named(e.kind, e.name) = {i}
  BY DEF BeginShare
<1>2. TypeOK
  BY DEF Safe, Tables
<1>3. \A s \in entries : s \in Share /\ Bears(user, group, s)
  BY <1>1, <1>2, Resolved
<1>4. v \in Vaults
  BY <1>2 DEF TypeOK
<1> HIDE DEF entries
<1>5. q \in Request
  <2>1. entries \in SUBSET Share
    BY <1>3
  <2>2. q \in [op : {"share"}, vault : Vaults, entries : SUBSET Share]
    BY <1>4, <2>1
  <2> QED BY <2>2 DEF Request
<1>6. Sound(user, group, q)
  BY <1>3 DEF Sound
<1> HIDE DEF q
<1> QED BY <1>1, <1>5, <1>6, ReadOnlyStep

(* A request that has written, and ends.                                   *)
LEMMA Ends ==
  ASSUME Safe, NEW r \in Reqs, Goes(r, Idle)
  PROVE  /\ req' \in [Reqs -> Request \cup {Idle}] /\ req'[r] = Idle
         /\ \A k \in Reqs : req'[k] = req[k] \/ Sound(user, group, req'[k])
<1>1. TypeOK
  BY DEF Safe, Tables
<1>2. req' \in [Reqs -> Request \cup {Idle}] /\ req'[r] = Idle
      /\ \A k \in Reqs : k # r => req'[k] = req[k]
  BY <1>1, GoesTo, IdleIs
<1>3. Sound(user, group, Idle)
  BY IdleSound
<1> QED BY <1>2, <1>3

LEMMA CommitShareStep == ASSUME Safe, NEW r \in Reqs, CommitShare(r) PROVE Safe'
<1>1. TypeOK
  BY DEF Safe, Tables
<1>2. UNCHANGED <<vaults, used, user, group, members>> /\ Doing(r, "share")
      /\ shares' = {s \in shares : s.vault # req[r].vault} \cup req[r].entries
      /\ Goes(r, Idle)
  BY DEF CommitShare
<1>3. req' \in [Reqs -> Request \cup {Idle}]
      /\ \A k \in Reqs : req'[k] = req[k] \/ Sound(user, group, req'[k])
  BY <1>2, Ends
<1>4. vaults' \subseteq used' /\ used' \subseteq Vaults /\ members' \subseteq UserIds \X GroupIds
  BY <1>1, <1>2 DEF TypeOK
<1>5. \A s \in shares' : s \in shares \/ \E k \in Reqs : Doing(k, "share") /\ s \in req[k].entries
  BY <1>2
<1> QED BY <1>2, <1>3, <1>4, <1>5, TablesUntouched

(* A share for the deleted subject has lost it; the others are as before.  *)
LEMMA OrphanIs ==
  ASSUME NEW kind, NEW i, NEW S \in SUBSET Share, NEW s \in Orphaned(S, kind, i)
  PROVE  /\ s \in Share
         /\ s.lost \/ (s \in S /\ ~(s.kind = kind /\ s.id = i))
<1>1. PICK t \in S : s = [t EXCEPT !.lost = @ \/ (t.kind = kind /\ t.id = i)]
  BY DEF Orphaned
<1>2. t = [vault |-> t.vault, kind |-> t.kind, id |-> t.id, permission |-> t.permission,
           whose |-> t.whose, lost |-> t.lost] /\ t.lost \in BOOLEAN /\ t \in Share
  BY DEF Share
<1>3. CASE t.kind = kind /\ t.id = i
  <2>1. s = [t EXCEPT !.lost = TRUE]
    BY <1>1, <1>3
  <2>2. s \in Share /\ s.lost
    BY <1>2, <2>1 DEF Share
  <2> QED BY <2>2
<1>4. CASE ~(t.kind = kind /\ t.id = i)
  <2>1. s = t
    BY <1>1, <1>2, <1>4
  <2> QED BY <1>2, <1>4, <2>1
<1> QED BY <1>3, <1>4

(* The requests in flight when a subject is deleted: what they have read   *)
(* of it is marked, and nothing else is changed.                           *)
LEMMA Orphans ==
  ASSUME Safe, NEW kind, NEW i, req' = RequestsAfter(kind, i), NEW r \in Reqs
  PROVE  /\ req'[r] \in Request \cup {Idle} /\ req'[r].op = req[r].op
         /\ Doing(r, "share") => req'[r].entries = Orphaned(req[r].entries, kind, i)
         /\ ~Doing(r, "share") => \/ req'[r] = req[r] /\ ~Lists(req[r], kind, i)
                                  \/ req'[r].lost /\ req[r].op \in {"members", "groupsOf", "signIn"}
<1>1. req[r] \in Request \cup {Idle}
  BY DEF Safe, Tables, TypeOK
<1>2. CASE Doing(r, "share")
  <2>1. req[r] \in [op : {"share"}, vault : Vaults, entries : SUBSET Share]
    BY <1>1, <1>2, RequestOf DEF Doing
  <2>2. req'[r] = [req[r] EXCEPT !.entries = Orphaned(req[r].entries, kind, i)]
    BY <1>2 DEF RequestsAfter
  <2>3. Orphaned(req[r].entries, kind, i) \in SUBSET Share
    BY <2>1, OrphanIs
  <2>4. req'[r] \in [op : {"share"}, vault : Vaults, entries : SUBSET Share]
        /\ req'[r].entries = Orphaned(req[r].entries, kind, i)
    BY <2>1, <2>2, <2>3
  <2> QED BY <1>2, <2>1, <2>4 DEF Request
<1>3. CASE ~Doing(r, "share") /\ Lists(req[r], kind, i)
  <2>1. req'[r] = [req[r] EXCEPT !.lost = TRUE]
    BY <1>3 DEF RequestsAfter
  <2> DEFINE q == req[r]
             k == req'[r]
  <2>2. q \in Request \cup {Idle} /\ k = [q EXCEPT !.lost = TRUE]
        /\ q.op \in {"members", "groupsOf", "signIn"}
    BY <1>1, <1>3, <2>1 DEF Lists
  <2> HIDE DEF q, k
  <2>3. k \in Request /\ k.op = q.op /\ k.lost
    <3>1. CASE q.op = "members"
      <4>1. q \in [op : {"members"}, id : GroupIds, removes : SUBSET UserIds,
                   adds : SUBSET UserIds, lost : BOOLEAN]
        BY <2>2, <3>1, RequestOf
      <4>2. k \in [op : {"members"}, id : GroupIds, removes : SUBSET UserIds,
                   adds : SUBSET UserIds, lost : BOOLEAN] /\ k.lost
        BY <2>2, <4>1
      <4> QED BY <3>1, <4>2 DEF Request
    <3>2. CASE q.op = "groupsOf"
      <4>1. q \in [op : {"groupsOf"}, id : UserIds, removes : SUBSET GroupIds,
                   adds : SUBSET GroupIds, lost : BOOLEAN]
        BY <2>2, <3>2, RequestOf
      <4>2. k \in [op : {"groupsOf"}, id : UserIds, removes : SUBSET GroupIds,
                   adds : SUBSET GroupIds, lost : BOOLEAN] /\ k.lost
        BY <2>2, <4>1
      <4> QED BY <3>2, <4>2 DEF Request
    <3>3. CASE q.op = "signIn"
      <4>1. \/ q \in [op : {"signIn"}, who : Persons, name : Names, id : {0}, lost : BOOLEAN]
            \/ q \in [op : {"signIn"}, who : Persons, name : Names \cup {Absent},
                      id : UserIds, lost : BOOLEAN]
        BY <2>2, <3>3, RequestOf
      <4>2. k.lost /\
            \/ k \in [op : {"signIn"}, who : Persons, name : Names, id : {0}, lost : BOOLEAN]
            \/ k \in [op : {"signIn"}, who : Persons, name : Names \cup {Absent},
                      id : UserIds, lost : BOOLEAN]
        BY <2>2, <4>1
      <4> QED BY <3>3, <4>2 DEF Request
    <3> QED BY <2>2, <3>1, <3>2, <3>3
  <2> QED BY <1>3, <2>2, <2>3 DEF q, k
<1>4. CASE ~Doing(r, "share") /\ ~Lists(req[r], kind, i)
  <2>1. req'[r] = req[r]
    BY <1>4 DEF RequestsAfter
  <2> QED BY <1>1, <1>4, <2>1
<1> QED BY <1>2, <1>3, <1>4

(* One row is deleted.                                                     *)
Without(t, u, D) == Ids(u) = Ids(t) \ D /\ \A k \in Ids(u) : u[k] = t[k]
Gone(us, gs, ut, gt, kind, i) ==
  /\ Without(us, ut, IF kind = "user" THEN {i} ELSE {})
  /\ Without(gs, gt, IF kind = "group" THEN {i} ELSE {})

LEMMA BearsWithout ==
  ASSUME NEW us, NEW gs, NEW ut, NEW gt, NEW kind \in Kinds, NEW i, Gone(us, gs, ut, gt, kind, i),
         NEW s \in Share, ~(s.kind = kind /\ s.id = i), Bears(us, gs, s)
  PROVE  Bears(ut, gt, s)
<1>1. s.kind \in Kinds
  BY DEF Share
<1>2. CASE s.kind = "user"
  BY <1>2 DEF Bears, Of, Meant, Gone, Without
<1>3. CASE s.kind = "group"
  BY <1>3 DEF Bears, Of, Meant, Gone, Without
<1> QED BY <1>1, <1>2, <1>3 DEF Kinds

LEMMA SoundWithout ==
  ASSUME NEW us, NEW gs, NEW ut, NEW gt, NEW kind \in Kinds, NEW i, Gone(us, gs, ut, gt, kind, i),
         NEW q, q.op # "share", ~Lists(q, kind, i), Sound(us, gs, q)
  PROVE  Sound(ut, gt, q)
<1>1. CASE kind = "user"
  <2>1. q.op = "members" /\ ~q.lost => ByHand(gt, q.id)
    BY <1>1 DEF Sound, ByHand, Gone, Without
  <2>2. q.op = "groupsOf" /\ ~q.lost => \A g \in q.removes \cup q.adds : ByHand(gt, g)
    BY <1>1 DEF Sound, ByHand, Gone, Without
  <2>3. q.op = "signIn" /\ q.id # 0 /\ ~q.lost => ReturnsTo(ut, q.id, q.who)
    BY <1>1 DEF Sound, ReturnsTo, Gone, Without, Lists
  <2> QED BY <2>1, <2>2, <2>3 DEF Sound
<1>2. CASE kind = "group"
  <2>1. q.op = "members" /\ ~q.lost => ByHand(gt, q.id)
    BY <1>2 DEF Sound, ByHand, Gone, Without, Lists
  <2>2. q.op = "groupsOf" /\ ~q.lost => \A g \in q.removes \cup q.adds : ByHand(gt, g)
    BY <1>2 DEF Sound, ByHand, Gone, Without, Lists
  <2>3. q.op = "signIn" /\ q.id # 0 /\ ~q.lost => ReturnsTo(ut, q.id, q.who)
    BY <1>2 DEF Sound, ReturnsTo, Gone, Without
  <2> QED BY <2>1, <2>2, <2>3 DEF Sound
<1> QED BY <1>1, <1>2 DEF Kinds

LEMMA Deletes ==
  ASSUME Safe, NEW kind \in Kinds, NEW i, Gone(user, group, user', group', kind, i),
         user' \in [UserIds -> UserRow \cup {Absent}],
         group' \in [GroupIds -> GroupRow \cup {Absent}],
         UNCHANGED <<vaults, used>>, req' = RequestsAfter(kind, i),
         shares' = {s \in shares : ~(s.kind = kind /\ s.id = i)}, members' \subseteq members,
         \A m \in members' : (kind = "user" => m[1] # i) /\ (kind = "group" => m[2] # i)
  PROVE  Safe'
<1>1. TypeOK /\ References /\ PeopleOnce(user) /\ Whole(group)
  BY DEF Safe, Tables
<1>2. Ids(user') \subseteq Ids(user) /\ \A k \in Ids(user') : user'[k] = user[k]
  BY DEF Gone, Without
<1>3. Ids(group') \subseteq Ids(group) /\ \A k \in Ids(group') : group'[k] = group[k]
  BY DEF Gone, Without
<1>4. TypeOK'
  <2>1. \A r \in Reqs : req'[r] \in Request \cup {Idle}
    BY Orphans
  <2>2. req' \in [Reqs -> Request \cup {Idle}]
    BY <2>1 DEF RequestsAfter
  <2> QED BY <1>1, <2>2 DEF TypeOK
<1>5. PeopleOnce(user')
  BY <1>1, <1>2 DEF PeopleOnce
<1>6. Whole(group')
  <2>1. NamesDiffer(group')
    BY <1>1, <1>3 DEF Whole, NamesDiffer
  <2>2. OriginsDiffer(group')
    BY <1>1, <1>3 DEF Whole, OriginsDiffer
  <2> QED BY <2>1, <2>2 DEF Whole, GroupTable
<1>7. MembersExist'
  <2> SUFFICES ASSUME NEW m \in members' PROVE m[1] \in Ids(user') /\ m[2] \in Ids(group')
    BY DEF MembersExist, Ids
  <2>1. m[1] \in Ids(user) /\ m[2] \in Ids(group)
    BY <1>1 DEF References, MembersExist
  <2> QED BY <2>1 DEF Gone, Without
<1>8. \A s \in shares' : Bears(user', group', s)
  BY <1>1, BearsWithout DEF References, TypeOK
<1>9. ASSUME NEW r \in Reqs PROVE Sound(user', group', req'[r])
  <2>1. /\ req'[r].op = req[r].op
        /\ Doing(r, "share") => req'[r].entries = Orphaned(req[r].entries, kind, i)
        /\ ~Doing(r, "share") => \/ req'[r] = req[r] /\ ~Lists(req[r], kind, i)
                                 \/ req'[r].lost
    BY Orphans
  <2>2. Sound(user, group, req[r]) /\ req[r] \in Request \cup {Idle}
    BY <1>1 DEF References, TypeOK
  <2>3. CASE Doing(r, "share")
    <3>1. req[r].entries \subseteq Share /\ \A s \in req[r].entries : Bears(user, group, s)
      BY <2>2, <2>3, RequestOf DEF Doing, Sound
    <3>2. ASSUME NEW s \in Orphaned(req[r].entries, kind, i) PROVE Bears(user', group', s)
      <4>1. s \in Share /\ (s.lost \/ (s \in req[r].entries /\ ~(s.kind = kind /\ s.id = i)))
        BY <3>1, OrphanIs
      <4>2. CASE s.lost
        BY <4>2 DEF Bears
      <4>3. CASE s \in req[r].entries /\ ~(s.kind = kind /\ s.id = i)
        BY <3>1, <4>1, <4>3, BearsWithout
      <4> QED BY <4>1, <4>2, <4>3
    <3> QED BY <2>1, <2>3, <3>2 DEF Doing, Sound
  <2>4. CASE ~Doing(r, "share") /\ req'[r] = req[r] /\ ~Lists(req[r], kind, i)
    BY <2>2, <2>4, SoundWithout DEF Doing
  <2>5. CASE ~Doing(r, "share") /\ req'[r].lost
    BY <2>1, <2>5 DEF Doing, Sound
  <2> QED BY <2>1, <2>3, <2>4, <2>5
<1>10. References'
  BY <1>7, <1>8, <1>9 DEF References
<1>11. Tables'
  BY <1>4, <1>5, <1>6 DEF Tables
<1> QED BY <1>10, <1>11 DEF Safe

LEMMA DeleteUserStep == ASSUME Safe, NEW u \in UserIds, DeleteUser(u) PROVE Safe'
<1>1. TypeOK
  BY DEF Safe, Tables
<1>2. UNCHANGED <<vaults, used, group>> /\ user' = [user EXCEPT ![u] = Absent]
      /\ shares' = {s \in shares : ~(s.kind = "user" /\ s.id = u)}
      /\ members' = {m \in members : m[1] # u} /\ req' = RequestsAfter("user", u)
  BY DEF DeleteUser
<1>3. Ids(user) \subseteq UserIds /\ DOMAIN user = UserIds
  BY <1>1, UserRows
<1>4. Without(user, user', {u})
  BY <1>2, <1>3 DEF Without, Ids
<1>5. Without(group, group', {})
  BY <1>2 DEF Without
<1>6. Gone(user, group, user', group', "user", u) /\ "user" \in Kinds
  BY <1>4, <1>5 DEF Gone, Kinds
<1>7. /\ user' \in [UserIds -> UserRow \cup {Absent}]
      /\ group' \in [GroupIds -> GroupRow \cup {Absent}]
  BY <1>1, <1>2 DEF TypeOK
<1>8. members' \subseteq members /\ \A m \in members' : m[1] # u
  BY <1>2
<1> QED BY <1>2, <1>6, <1>7, <1>8, Deletes

LEMMA DeleteGroupStep == ASSUME Safe, NEW g \in GroupIds, DeleteGroup(g) PROVE Safe'
<1>1. TypeOK
  BY DEF Safe, Tables
<1>2. UNCHANGED <<vaults, used, user>> /\ group' = [group EXCEPT ![g] = Absent]
      /\ shares' = {s \in shares : ~(s.kind = "group" /\ s.id = g)}
      /\ members' = {m \in members : m[2] # g} /\ req' = RequestsAfter("group", g)
  BY DEF DeleteGroup
<1>3. Ids(group) \subseteq GroupIds /\ DOMAIN group = GroupIds
  BY <1>1, GroupRows
<1>4. Without(group, group', {g})
  BY <1>2, <1>3 DEF Without, Ids
<1>5. Without(user, user', {})
  BY <1>2 DEF Without
<1>6. Gone(user, group, user', group', "group", g) /\ "group" \in Kinds
  BY <1>4, <1>5 DEF Gone, Kinds
<1>7. /\ user' \in [UserIds -> UserRow \cup {Absent}]
      /\ group' \in [GroupIds -> GroupRow \cup {Absent}]
  BY <1>1, <1>2 DEF TypeOK
<1>8. members' \subseteq members /\ \A m \in members' : m[2] # g
  BY <1>2
<1> QED BY <1>2, <1>6, <1>7, <1>8, Deletes

LEMMA BeginCreateGroupStep ==
  ASSUME Safe, NEW r \in Reqs, NEW name \in Names, BeginCreateGroup(r, name) PROVE Safe'
<1> DEFINE q == [op |-> "createGroup", name |-> name]
<1>1. ReadsOnly /\ Goes(r, q)
  BY DEF BeginCreateGroup
<1>2. q \in Request /\ Sound(user, group, q)
  BY DEF Request, Sound
<1> HIDE DEF q
<1> QED BY <1>1, <1>2, ReadOnlyStep

LEMMA BeginMembersStep ==
  ASSUME Safe, NEW r \in Reqs, NEW g \in GroupIds, NEW names \in SUBSET Names,
         BeginMembers(r, g, names)
  PROVE  Safe'
<1> DEFINE wanted == UNION {Named("user", n) : n \in names}
           q == [op |-> "members", id |-> g, removes |-> MembersOf(g) \ wanted,
                 adds |-> wanted \ MembersOf(g), lost |-> FALSE]
<1>1. ReadsOnly /\ Goes(r, q) /\ ByHand(group, g)
  BY DEF BeginMembers, ByHand
<1>2. MembersOf(g) \ wanted \in SUBSET UserIds /\ wanted \ MembersOf(g) \in SUBSET UserIds
  <2>1. Ids(user) \subseteq UserIds
    BY UserRows DEF Safe, Tables
  <2> QED BY <2>1 DEF MembersOf, Named, Subject
<1> HIDE DEF wanted
<1>3. q \in Request /\ Sound(user, group, q)
  BY <1>1, <1>2 DEF Request, Sound
<1> HIDE DEF q
<1> QED BY <1>1, <1>3, ReadOnlyStep

LEMMA BeginGroupsOfStep ==
  ASSUME Safe, NEW r \in Reqs, NEW u \in UserIds, NEW names \in SUBSET Names,
         BeginGroupsOf(r, u, names)
  PROVE  Safe'
<1> DEFINE local == {g \in Ids(group) : group[g].origin = Local}
           wanted == UNION {Named("group", n) \cap local : n \in names}
           q == [op |-> "groupsOf", id |-> u, removes |-> (GroupsOf(u) \cap local) \ wanted,
                 adds |-> wanted \ GroupsOf(u), lost |-> FALSE]
<1>1. ReadsOnly /\ Goes(r, q)
  BY DEF BeginGroupsOf
<1>2. local \subseteq GroupIds /\ \A g \in local : ByHand(group, g)
  <2>1. Ids(group) \subseteq GroupIds
    BY GroupRows DEF Safe, Tables
  <2> QED BY <2>1 DEF ByHand
<1>3. wanted \subseteq local
  OBVIOUS
<1> HIDE DEF wanted, local
<1>4. (GroupsOf(u) \cap local) \ wanted \in SUBSET GroupIds
      /\ wanted \ GroupsOf(u) \in SUBSET GroupIds
  BY <1>2, <1>3
<1>5. q \in Request
  BY <1>4 DEF Request
<1>6. Sound(user, group, q)
  BY <1>2, <1>3 DEF Sound
<1> HIDE DEF q
<1> QED BY <1>1, <1>5, <1>6, ReadOnlyStep

LEMMA BeginSignInStep ==
  ASSUME Safe, NEW r \in Reqs, NEW who \in Persons, NEW name \in Names,
         BeginSignIn(r, who, name)
  PROVE  Safe'
<1>1. ReadsOnly
  BY DEF BeginSignIn
<1>2. CASE Goes(r, [op |-> "signIn", who |-> who, name |-> name, id |-> 0, lost |-> FALSE])
  <2> DEFINE q == [op |-> "signIn", who |-> who, name |-> name, id |-> 0, lost |-> FALSE]
  <2>1. q \in Request /\ Sound(user, group, q) /\ Goes(r, q)
    BY <1>2 DEF Request, Sound
  <2> HIDE DEF q
  <2> QED BY <1>1, <2>1, ReadOnlyStep
<1>3. ASSUME NEW u \in AccountsOf(who),
             Goes(r, [op |-> "signIn", who |-> who, id |-> u, lost |-> FALSE,
                      name |-> IF user[u].name = name THEN Absent ELSE name])
      PROVE  Safe'
  <2> DEFINE q == [op |-> "signIn", who |-> who, id |-> u, lost |-> FALSE,
                   name |-> IF user[u].name = name THEN Absent ELSE name]
  <2>1. u \in UserIds /\ ReturnsTo(user, u, who)
    BY UserRows DEF AccountsOf, ReturnsTo, Safe, Tables
  <2>2. q \in [op : {"signIn"}, who : Persons, name : Names \cup {Absent},
               id : UserIds, lost : BOOLEAN]
    BY <2>1
  <2>3. q \in Request /\ Sound(user, group, q) /\ Goes(r, q)
    BY <1>3, <2>1, <2>2 DEF Request, Sound
  <2> HIDE DEF q
  <2> QED BY <1>1, <2>3, ReadOnlyStep
<1> QED BY <1>2, <1>3 DEF BeginSignIn

LEMMA FailsStep == ASSUME Safe, NEW r \in Reqs, Fails(r) PROVE Safe'
<1>1. ReadsOnly /\ Goes(r, Idle) /\ Idle \in Request \cup {Idle} /\ Sound(user, group, Idle)
  BY IdleIs, IdleSound DEF Fails
<1> HIDE DEF Idle
<1> QED BY <1>1, ReadOnlyStep

(* A list of members is written: a row without its account or group is     *)
(* refused.                                                                *)
LEMMA RewriteStep ==
  ASSUME Safe, NEW r \in Reqs, NEW gone, NEW new, new \subseteq UserIds \X GroupIds,
         Rewrites(gone, new), Goes(r, Idle),
         UNCHANGED <<vaults, used, user, group, shares>>
  PROVE  Safe'
<1>1. TypeOK
  BY DEF Safe, Tables
<1>2. members' = (members \ gone) \cup new
      /\ \A m \in new : m[1] \in Ids(user) /\ m[2] \in Ids(group)
  BY DEF Rewrites
<1>3. req' \in [Reqs -> Request \cup {Idle}]
      /\ \A k \in Reqs : req'[k] = req[k] \/ Sound(user, group, req'[k])
  BY Ends
<1>4. vaults' \subseteq used' /\ used' \subseteq Vaults /\ members' \subseteq UserIds \X GroupIds
  BY <1>1, <1>2 DEF TypeOK
<1>5. Ids(user') = Ids(user) /\ Ids(group') = Ids(group)
  OBVIOUS
<1>6. \A m \in members' : m \in members \/ (m[1] \in Ids(user') /\ m[2] \in Ids(group'))
  BY <1>2, <1>5
<1> QED BY <1>3, <1>4, <1>6, TablesUntouched

LEMMA CommitMembersStep == ASSUME Safe, NEW r \in Reqs, CommitMembers(r) PROVE Safe'
<1>1. req[r] \in Request \cup {Idle} /\ req[r].op = "members"
  BY DEF Safe, Tables, TypeOK, CommitMembers, Doing
<1>2. req[r].id \in GroupIds /\ req[r].adds \subseteq UserIds
  BY <1>1, RequestOf
<1>3. req[r].adds \X {req[r].id} \subseteq UserIds \X GroupIds
  BY <1>2
<1> QED BY <1>3, RewriteStep DEF CommitMembers

LEMMA CommitGroupsOfStep == ASSUME Safe, NEW r \in Reqs, CommitGroupsOf(r) PROVE Safe'
<1>1. req[r] \in Request \cup {Idle} /\ req[r].op = "groupsOf"
  BY DEF Safe, Tables, TypeOK, CommitGroupsOf, Doing
<1>2. req[r].id \in UserIds /\ req[r].adds \subseteq GroupIds
  BY <1>1, RequestOf
<1>3. {req[r].id} \X req[r].adds \subseteq UserIds \X GroupIds
  BY <1>2
<1> QED BY <1>3, RewriteStep DEF CommitGroupsOf

LEMMA CommitCreateGroupStep == ASSUME Safe, NEW r \in Reqs, CommitCreateGroup(r) PROVE Safe'
<1> DEFINE row == [name |-> req[r].name, origin |-> Local]
<1>1. TypeOK /\ Whole(group) /\ PeopleOnce(user)
  BY DEF Safe, Tables
<1>2. /\ Doing(r, "createGroup") /\ Named("group", req[r].name) = {}
      /\ group' = WithGroup(group, row) /\ Goes(r, Idle)
      /\ UNCHANGED <<vaults, used, user, members, shares>>
  BY DEF CommitCreateGroup
<1>3. row \in GroupRow /\ row.origin = Local /\ row.name = req[r].name
  <2>1. req[r] \in Request \cup {Idle} /\ req[r].op = "createGroup"
    BY <1>1, <1>2 DEF TypeOK, Doing
  <2>2. req[r].name \in Names
    BY <2>1, RequestOf
  <2> QED BY <2>2 DEF GroupRow, GroupNames
<1> HIDE DEF row
<1>4. \A h \in Ids(group) : group[h].name # row.name
  BY <1>2, <1>3 DEF Named, Subject
<1>5. Whole(group') /\ Grows(group, group', {row.origin})
  BY <1>1, <1>2, <1>3, <1>4, RowAdded
<1>6. GroupsStay(group, group') /\ UsersStay(user, user')
  BY <1>2, <1>5 DEF Grows, GroupsStay, UsersStay
<1>7. req' \in [Reqs -> Request \cup {Idle}]
      /\ \A k \in Reqs : req'[k] = req[k] \/ Sound(user, group, req'[k])
  BY <1>2, Ends
<1>8. vaults' \subseteq used' /\ used' \subseteq Vaults /\ members' \subseteq UserIds \X GroupIds
      /\ user' \in [UserIds -> UserRow \cup {Absent}] /\ PeopleOnce(user')
  BY <1>1, <1>2 DEF TypeOK
<1> QED BY <1>2, <1>5, <1>6, <1>7, <1>8, NothingDeleted

(* A sign-in changes the name of one account, or makes it.                 *)
LEMMA SignsInIs ==
  ASSUME Safe, NEW r \in Reqs, Doing(r, "signIn"), NEW u \in UserIds, SignsIn(req[r], u)
  PROVE  /\ user' \in [UserIds -> UserRow \cup {Absent}] /\ PeopleOnce(user')
         /\ UsersStay(user, user') /\ u \in Ids(user')
         /\ IF req[r].id = 0 THEN u \notin Ids(user) ELSE u = req[r].id
<1> DEFINE q == req[r]
           row == IF q.id = 0 THEN [who |-> q.who, name |-> q.name]
                  ELSE IF q.name = Absent THEN user[u] ELSE [user[u] EXCEPT !.name = q.name]
<1>1. TypeOK /\ PeopleOnce(user)
  BY DEF Safe, Tables
<1>2. q.who \in Persons /\ (q.name \in Names \/ (q.name = Absent /\ q.id \in UserIds))
  <2>1. q \in Request \cup {Idle} /\ q.op = "signIn"
    BY <1>1 DEF TypeOK, Doing
  <2> HIDE DEF q
  <2> QED BY <2>1, RequestOf
<1>3. Ids(user) \subseteq UserIds /\ DOMAIN user = UserIds
      /\ \A k \in Ids(user) : user[k] \in UserRow /\ user[k].who \in Persons
  BY <1>1, UserRows
<1>4. /\ IF q.id = 0 THEN AccountsOf(q.who) = {} /\ Follows(u, user)
                     ELSE u = q.id /\ u \in Ids(user)
      /\ user' = [user EXCEPT ![u] = row]
  BY DEF SignsIn
<1>5. q.id = 0 => u \notin Ids(user)
  BY <1>4 DEF Follows, UserIds
<1>6. q.id # 0 => row \in UserRow /\ row.who = user[u].who
  BY <1>2, <1>3, <1>4 DEF UserRow
<1>7. q.id = 0 => row \in UserRow /\ row.who = q.who
  <2>1. 0 \notin UserIds
    BY DEF UserIds
  <2> QED BY <1>2, <2>1 DEF UserRow
<1>8. row \in UserRow /\ row # Absent
  BY <1>6, <1>7, AbsentAssumption
<1> HIDE DEF row, q
<1>9. user'[u] = row /\ DOMAIN user' = UserIds
      /\ \A k \in UserIds : k # u => user'[k] = user[k]
  BY <1>3, <1>4
<1>10. user' \in [UserIds -> UserRow \cup {Absent}]
  BY <1>1, <1>4, <1>8 DEF TypeOK
<1>11. Ids(user') = Ids(user) \cup {u}
  <2>1. ASSUME NEW k \in Ids(user') PROVE k \in Ids(user) \cup {u}
    BY <1>3, <1>9 DEF Ids
  <2>2. ASSUME NEW k \in Ids(user) \cup {u} PROVE k \in Ids(user')
    BY <1>3, <1>8, <1>9 DEF Ids
  <2> QED BY <2>1, <2>2
<1>12. \A k \in Ids(user) : user'[k].who = user[k].who
  BY <1>3, <1>5, <1>6, <1>9
<1>13. PeopleOnce(user')
  <2>1. CASE q.id = 0
    <3>1. \A k \in Ids(user) : user[k].who # q.who
      BY <1>4, <2>1 DEF AccountsOf
    <3>2. user'[u].who = q.who
      BY <1>7, <1>9, <2>1
    <3> QED BY <1>1, <1>11, <1>12, <3>1, <3>2 DEF PeopleOnce
  <2>2. CASE q.id # 0
    BY <1>1, <1>4, <1>11, <1>12, <2>2 DEF PeopleOnce
  <2> QED BY <2>1, <2>2
<1> QED BY <1>4, <1>5, <1>10, <1>11, <1>12, <1>13 DEF UsersStay, q

LEMMA SignInWithoutGroupsStep ==
  ASSUME Safe, NEW r \in Reqs, NEW u \in UserIds, SignInWithoutGroups(r, u) PROVE Safe'
<1>1. TypeOK /\ Whole(group)
  BY DEF Safe, Tables
<1>2. /\ Doing(r, "signIn") /\ SignsIn(req[r], u) /\ Goes(r, Idle)
      /\ UNCHANGED <<vaults, used, group, members, shares>>
  BY DEF SignInWithoutGroups
<1>3. user' \in [UserIds -> UserRow \cup {Absent}] /\ PeopleOnce(user') /\ UsersStay(user, user')
  BY <1>2, SignsInIs
<1>4. GroupsStay(group, group') /\ Whole(group')
  BY <1>1, <1>2 DEF GroupsStay
<1>5. req' \in [Reqs -> Request \cup {Idle}]
      /\ \A k \in Reqs : req'[k] = req[k] \/ Sound(user, group, req'[k])
  BY <1>2, Ends
<1>6. vaults' \subseteq used' /\ used' \subseteq Vaults /\ members' \subseteq UserIds \X GroupIds
  BY <1>1, <1>2 DEF TypeOK
<1> QED BY <1>2, <1>3, <1>4, <1>5, <1>6, NothingDeleted

(* What a sign-in with groups does to the groups.                          *)
LEMMA SyncIs ==
  ASSUME Safe, NEW r \in Reqs, Doing(r, "signIn"), NEW fetched \in Reports
  PROVE  LET p == ProviderOf[req[r].who]
         IN /\ p \in Providers /\ Whole(Apply(fetched, p))
            /\ Grows(group, Apply(fetched, p), Reported(fetched))
<1> DEFINE p == ProviderOf[req[r].who]
<1>1. Whole(group) /\ req[r] \in Request \cup {Idle} /\ req[r].op = "signIn"
  BY DEF Safe, Tables, TypeOK, Doing
<1>2. req[r].who \in Persons
  BY <1>1, RequestOf
<1>3. p \in Providers
  BY <1>2, AccessAssumption
<1> HIDE DEF p
<1>4. Whole(Apply(fetched, p)) /\ Grows(group, Apply(fetched, p), Reported(fetched))
  BY <1>1, <1>3, ApplyGrows, Zenon
<1> QED BY <1>3, <1>4 DEF p

LEMMA SignInWithGroupsStep ==
  ASSUME Safe, NEW r \in Reqs, NEW u \in UserIds, NEW fetched \in Reports,
         SignInWithGroups(r, u, fetched)
  PROVE  Safe'
<1> DEFINE p == ProviderOf[req[r].who]
           synced == Apply(fetched, p)
           now == {g \in Ids(synced) : synced[g].origin \in Reported(fetched)}
<1>1. TypeOK
  BY SMTT(30) DEF Safe, Tables
<1>2. /\ Doing(r, "signIn") /\ SignsIn(req[r], u) /\ Goes(r, Idle)
      /\ UNCHANGED <<vaults, used, shares>>
      /\ group' = synced /\ members' = Replaced(u, p, now)
  BY DEF SignInWithGroups
<1>3. Whole(synced) /\ Grows(group, synced, Reported(fetched))
  BY <1>2, SyncIs
<1> HIDE DEF synced, p
<1>4. user' \in [UserIds -> UserRow \cup {Absent}] /\ PeopleOnce(user')
      /\ UsersStay(user, user') /\ u \in Ids(user')
  BY <1>2, SignsInIs
<1>5. GroupsStay(group, group') /\ Whole(group')
  BY <1>2, <1>3 DEF GroupsStay, Grows
<1>6. now \subseteq Ids(group') /\ now \subseteq GroupIds
  <2>1. Ids(synced) \subseteq GroupIds
    BY <1>3, GroupIdsOf DEF Whole
  <2> QED BY <1>2, <2>1
<1> HIDE DEF now
<1>7. \A m \in members' : m \in members \/ (m[1] \in Ids(user') /\ m[2] \in Ids(group'))
  BY <1>2, <1>4, <1>6 DEF Replaced
<1>8. members' \subseteq UserIds \X GroupIds
  BY <1>1, <1>2, <1>6 DEF Replaced, TypeOK
<1>9. req' \in [Reqs -> Request \cup {Idle}]
      /\ \A k \in Reqs : req'[k] = req[k] \/ Sound(user, group, req'[k])
  BY <1>2, Ends
<1>10. vaults' \subseteq used' /\ used' \subseteq Vaults
  BY <1>1, <1>2 DEF TypeOK
<1> QED BY <1>2, <1>4, <1>5, <1>7, <1>8, <1>9, <1>10, NothingDeleted, SMTT(30)

LEMMA InitSafe == Init => Safe
<1> SUFFICES ASSUME Init PROVE Safe
  OBVIOUS
<1>1. Ids(user) = {} /\ Ids(group) = {}
  BY DEF Init, Ids
<1>2. user \in [UserIds -> UserRow \cup {Absent}] /\ GroupTable(group)
  BY DEF Init, GroupTable
<1>3. \A r \in Reqs : req[r] = Idle
  BY DEF Init
<1>4. TypeOK
  BY <1>2 DEF Init, TypeOK, GroupTable
<1>5. Whole(group) /\ PeopleOnce(user)
  BY <1>1, <1>2 DEF Whole, NamesDiffer, OriginsDiffer, PeopleOnce
<1>6. References
  BY <1>3, IdleSound DEF Init, References, MembersExist
<1> QED BY <1>4, <1>5, <1>6 DEF Safe, Tables

LEMMA NextSafe == Safe /\ [Next]_vars => Safe'
<1> SUFFICES ASSUME Safe, [Next]_vars PROVE Safe'
  OBVIOUS
<1>1. ASSUME NEW v \in Vaults, CreateVault(v) \/ DeleteVault(v) PROVE Safe'
  BY <1>1, CreateVaultStep, DeleteVaultStep
<1>2. ASSUME NEW u \in UserIds, DeleteUser(u) PROVE Safe'
  BY <1>2, DeleteUserStep
<1>3. ASSUME NEW g \in GroupIds, DeleteGroup(g) PROVE Safe'
  BY <1>3, DeleteGroupStep
<1>4. ASSUME NEW r \in Reqs, NEW v \in vaults, NEW payload \in Payloads, BeginShare(r, v, payload)
      PROVE  Safe'
  BY <1>4, BeginShareStep
<1>5. ASSUME NEW r \in Reqs, CommitShare(r) PROVE Safe'
  BY <1>5, CommitShareStep
<1>6. ASSUME NEW r \in Reqs, NEW name \in Names, BeginCreateGroup(r, name) PROVE Safe'
  BY <1>6, BeginCreateGroupStep
<1>7. ASSUME NEW r \in Reqs, CommitCreateGroup(r) PROVE Safe'
  BY <1>7, CommitCreateGroupStep
<1>8. ASSUME NEW r \in Reqs, NEW g \in GroupIds, NEW names \in SUBSET Names,
             BeginMembers(r, g, names)
      PROVE  Safe'
  BY <1>8, BeginMembersStep
<1>9. ASSUME NEW r \in Reqs, CommitMembers(r) PROVE Safe'
  BY <1>9, CommitMembersStep
<1>10. ASSUME NEW r \in Reqs, NEW u \in UserIds, NEW names \in SUBSET Names,
              BeginGroupsOf(r, u, names)
       PROVE  Safe'
  BY <1>10, BeginGroupsOfStep
<1>11. ASSUME NEW r \in Reqs, CommitGroupsOf(r) PROVE Safe'
  BY <1>11, CommitGroupsOfStep
<1>12. ASSUME NEW r \in Reqs, NEW who \in Persons, NEW name \in Names, BeginSignIn(r, who, name)
       PROVE  Safe'
  BY <1>12, BeginSignInStep
<1>13. ASSUME NEW r \in Reqs, NEW u \in UserIds, NEW fetched \in Reports,
              SignInWithGroups(r, u, fetched)
       PROVE  Safe'
  BY <1>13, SignInWithGroupsStep
<1>14. ASSUME NEW r \in Reqs, NEW u \in UserIds, SignInWithoutGroups(r, u) PROVE Safe'
  BY <1>14, SignInWithoutGroupsStep
<1>15. ASSUME NEW r \in Reqs, Fails(r) PROVE Safe'
  BY <1>15, FailsStep
<1>16. CASE UNCHANGED vars
  <2>1. TypeOK
    BY DEF Safe, Tables
  <2>2. UNCHANGED <<vaults, used, user, group, members, shares, req>>
    BY <1>16 DEF vars
  <2>3. vaults' \subseteq used' /\ used' \subseteq Vaults
        /\ members' \subseteq UserIds \X GroupIds /\ req' \in [Reqs -> Request \cup {Idle}]
    BY <2>1, <2>2 DEF TypeOK
  <2> QED BY <2>2, <2>3, TablesUntouched
<1> QED BY <1>1, <1>2, <1>3, <1>4, <1>5, <1>6, <1>7, <1>8, <1>9, <1>10, <1>11, <1>12, <1>13,
           <1>14, <1>15, <1>16 DEF Next

-----------------------------------------------------------------------------
(* The theorems                                                            *)

(* The variables of Access have their types: whatever the providers        *)
(* report, the groups that are made of it are numbered and named within    *)
(* the bounds.                                                             *)
THEOREM AccessTypes == Spec => []TypeOK
<1>1. Safe => TypeOK
  BY DEF Safe, Tables
<1> QED BY <1>1, InitSafe, NextSafe, PTL DEF Spec

(* No membership is left without its account and its group: the schema     *)
(* refuses to insert such a row and takes it away with either of the two.  *)
THEOREM NoDanglingMembers == Spec => []MembersExist
<1>1. Safe => MembersExist
  BY DEF Safe, References
<1> QED BY <1>1, InitSafe, NextSafe, PTL DEF Spec

(* A share names a subject that exists, unless that was deleted while the  *)
(* share was being set (set_access reads the names, then writes numbers).  *)
THEOREM SharesPointSomewhere == Spec => []SharesHaveSubjects
<1>1. Safe => SharesHaveSubjects
  BY DEF Safe, References, Bears, Of, SharesHaveSubjects, Subject
<1> QED BY <1>1, InitSafe, NextSafe, PTL DEF Spec

(* SEC-46, SEC-47: whatever groups a provider reports, under whatever      *)
(* names and in whatever order, sync.apply finds each of them a name, so   *)
(* that no sign-in fails for the names of groups.                          *)
THEOREM NamesAreFound == Spec => []MirrorsFindNames
<1>1. Safe => MirrorsFindNames
  <2> SUFFICES ASSUME Safe, NEW r \in Reqs, Doing(r, "signIn"), NEW fetched \in Reports
               PROVE  NamesDiffer(Apply(fetched, ProviderOf[req[r].who]))
    BY DEF MirrorsFindNames
  <2>1. Whole(Apply(fetched, ProviderOf[req[r].who]))
    BY SyncIs
  <2> QED BY <2>1 DEF Whole
<1> QED BY <1>1, InitSafe, NextSafe, PTL DEF Spec

(* FUN-88: ids come back, and requests and deletions interleave; still a   *)
(* share opens a vault to those for whom it was meant, and to nobody else, *)
(* unless its subject was deleted between its two parts.                   *)
THEOREM OnlyOwnShares == Spec => []NobodyInherits
<1>1. Safe => NobodyInherits
  <2> SUFFICES ASSUME Safe, NEW u \in Ids(user), NEW v \in Vaults
               PROVE  EntriesOf(u, v) = Granted(u, v)
    BY DEF NobodyInherits, EffectivePermission
  <2> DEFINE us == {Whose("user", u)} \cup {Whose("group", g) : g \in GroupsOf(u)}
  <2>1. TypeOK /\ PeopleOnce(user) /\ NamesDiffer(group) /\ OriginsDiffer(group)
    BY DEF Safe, Tables, Whole
  <2>2. \A g \in GroupsOf(u) : g \in Ids(group)
    BY DEF Safe, References, MembersExist, GroupsOf
  <2>3. ASSUME NEW s \in shares, ~s.lost
        PROVE  /\ s.kind = "user" => s.id \in Ids(user) /\ s.whose = <<"person", user[s.id].who>>
               /\ s.kind # "user" => s.kind = "group" /\ s.id \in Ids(group)
                                     /\ s.whose = Whose("group", s.id)
    <3>1. Bears(user, group, s) /\ s.kind \in Kinds
      BY <2>1 DEF Safe, References, TypeOK, Share
    <3> QED BY <2>3, <3>1 DEF Bears, Of, Meant, Whose, Kinds
  <2>4. ASSUME NEW s \in shares, ~s.lost, s.vault = v
        PROVE  s \in EntriesOf(u, v) <=> s.whose \in us
    <3>1. CASE s.kind = "user"
      <4>1. s \in EntriesOf(u, v) <=> s.id = u
        BY <2>4, <3>1 DEF EntriesOf
      <4>2. s.id \in Ids(user) /\ s.whose = <<"person", user[s.id].who>>
        BY <2>3, <2>4, <3>1
      <4>3. \A g \in GroupsOf(u) : Whose("group", g) # s.whose
        BY <4>2 DEF Whose
      <4>4. s.whose \in us <=> s.whose = Whose("user", u)
        BY <4>3
      <4>5. s.whose = Whose("user", u) <=> user[s.id].who = user[u].who
        BY <4>2 DEF Whose
      <4>6. user[s.id].who = user[u].who <=> s.id = u
        BY <2>1, <4>2 DEF PeopleOnce
      <4> QED BY <4>1, <4>4, <4>5, <4>6
    <3>2. CASE s.kind # "user"
      <4>1. s \in EntriesOf(u, v) <=> s.id \in GroupsOf(u)
        BY <2>3, <2>4, <3>2 DEF EntriesOf
      <4>2. s.id \in Ids(group) /\ s.whose = Whose("group", s.id)
        BY <2>3, <2>4, <3>2
      <4>3. s.whose # Whose("user", u)
        BY <4>2 DEF Whose
      <4>4. ASSUME NEW g \in GroupsOf(u), Whose("group", g) = Whose("group", s.id) PROVE g = s.id
        <5>1. g \in Ids(group)
          BY <2>2
        <5>2. CASE group[g].origin = Local
          BY <2>1, <4>2, <4>4, <5>1, <5>2 DEF Whose, NamesDiffer
        <5>3. CASE group[g].origin # Local
          BY <2>1, <4>2, <4>4, <5>1, <5>3 DEF Whose, OriginsDiffer
        <5> QED BY <5>2, <5>3
      <4> QED BY <4>1, <4>2, <4>3, <4>4
    <3> QED BY <3>1, <3>2
  <2>5. ASSUME NEW s \in shares, s.vault = v
        PROVE  s \in EntriesOf(u, v) <=> s \in Granted(u, v)
    <3> HIDE DEF us
    <3>1. CASE s.lost
      BY <2>5, <3>1 DEF Granted
    <3>2. CASE ~s.lost
      BY <2>4, <2>5, <3>2 DEF Granted, us
    <3> QED BY <3>1, <3>2
  <2> QED BY <2>5 DEF EntriesOf, Granted
<1> QED BY <1>1, InitSafe, NextSafe, PTL DEF Spec

(* What a step may do to the membership of an account in a mirror.         *)
MirrorsFollow ==
  \A u \in Ids(user) \cap Ids(user)', g \in Ids(group) \cap Ids(group)' :
    /\ group[g].origin # Local
    /\ (<<u, g>> \in members) # (<<u, g>> \in members')
    => \E r \in Reqs : \/ Strays(r, u, g)
                       \/ /\ SignsInNow(r, u)
                          /\ ProviderOf[req[r].who] = ProviderOf[group[g].origin]

LEMMA ListsMissMirrors ==
  ASSUME Safe, NEW r \in Reqs, CommitMembers(r) \/ CommitGroupsOf(r) PROVE MirrorsFollow
<1> SUFFICES ASSUME NEW u \in Ids(user), NEW g \in Ids(group), group[g].origin # Local,
                    (<<u, g>> \in members) # (<<u, g>> \in members')
             PROVE  Strays(r, u, g)
  BY DEF MirrorsFollow
<1>1. Sound(user, group, req[r])
  BY DEF Safe, References
<1>2. CASE CommitMembers(r)
  <2>1. members' = (members \ (req[r].removes \X {req[r].id})) \cup (req[r].adds \X {req[r].id})
        /\ req[r].op = "members" /\ Goes(r, Idle)
    BY <1>2 DEF CommitMembers, Rewrites, Doing
  <2>2. g = req[r].id
    BY <2>1
  <2>3. req[r].lost
    BY <1>1, <2>1, <2>2 DEF Sound, ByHand
  <2>4. req'[r] = Idle
    BY <2>1, Ends
  <2> QED BY <2>1, <2>2, <2>3, <2>4 DEF Strays, Doing
<1>3. CASE CommitGroupsOf(r)
  <2>1. members' = (members \ ({req[r].id} \X req[r].removes)) \cup ({req[r].id} \X req[r].adds)
        /\ req[r].op = "groupsOf" /\ Goes(r, Idle)
    BY <1>3 DEF CommitGroupsOf, Rewrites, Doing
  <2>2. u = req[r].id /\ g \in req[r].removes \cup req[r].adds
    BY <2>1
  <2>3. req[r].lost
    BY <1>1, <2>1, <2>2 DEF Sound, ByHand
  <2>4. req'[r] = Idle
    BY <2>1, Ends
  <2> QED BY <2>1, <2>2, <2>3, <2>4 DEF Strays, Doing
<1> QED BY <1>2, <1>3

LEMMA SyncsOwnMirrors ==
  ASSUME Safe, NEW r \in Reqs, NEW a \in UserIds, NEW fetched \in Reports,
         SignInWithGroups(r, a, fetched)
  PROVE  MirrorsFollow
<1> DEFINE p == ProviderOf[req[r].who]
           synced == Apply(fetched, p)
           now == {h \in Ids(synced) : synced[h].origin \in Reported(fetched)}
<1> SUFFICES ASSUME NEW u \in Ids(user), NEW g \in Ids(group), g \in Ids(group'),
                    group[g].origin # Local,
                    (<<u, g>> \in members) # (<<u, g>> \in members')
             PROVE  \/ Strays(r, u, g)
                    \/ /\ SignsInNow(r, u)
                       /\ ProviderOf[req[r].who] = ProviderOf[group[g].origin]
  BY DEF MirrorsFollow
<1>1. /\ Doing(r, "signIn") /\ SignsIn(req[r], a) /\ Goes(r, Idle)
      /\ \A x \in Reported(fetched) : ProviderOf[x] = p
      /\ group' = synced /\ members' = Replaced(a, p, now)
  BY DEF SignInWithGroups
<1>2. Grows(group, synced, Reported(fetched))
  BY <1>1, SyncIs
<1>3. u = a /\ (g \in MirrorsOf(group, p) \/ g \in now)
  <2> HIDE DEF now, p, synced
  <2> QED BY <1>1 DEF Replaced
<1>4. ProviderOf[group[g].origin] = p
  <2>1. CASE g \in MirrorsOf(group, p)
    BY <2>1 DEF MirrorsOf
  <2>2. CASE g \in now
    <3>1. synced[g].origin \in Reported(fetched)
      BY <2>2
    <3> HIDE DEF synced, p, now
    <3>2. synced[g].origin = group[g].origin
      BY <1>2 DEF Grows
    <3> QED BY <1>1, <3>1, <3>2
  <2> QED BY <1>3, <2>1, <2>2
<1> HIDE DEF synced, now, p
<1>5. req[r].id # 0 /\ u = req[r].id
  <2>1. IF req[r].id = 0 THEN a \notin Ids(user) ELSE a = req[r].id
    BY <1>1, SignsInIs
  <2> QED BY <1>3, <2>1
<1>6. Sound(user, group, req[r]) /\ req'[r] = Idle
  BY <1>1, Ends DEF Safe, References
<1>7. CASE req[r].lost
  BY <1>1, <1>5, <1>6, <1>7 DEF Strays, Doing
<1>8. CASE ~req[r].lost
  <2>1. user[u].who = req[r].who
    BY <1>1, <1>5, <1>6, <1>8 DEF Sound, ReturnsTo, Doing
  <2> QED BY <1>1, <1>4, <1>6, <2>1 DEF SignsInNow, p
<1> QED BY <1>7, <1>8

LEMMA MirrorsFollowNext == ASSUME Safe, [Next]_vars PROVE MirrorsFollow
<1>1. CASE members' = members
  BY <1>1 DEF MirrorsFollow
<1>2. ASSUME NEW x \in UserIds, DeleteUser(x) PROVE MirrorsFollow
  <2>1. members' = {m \in members : m[1] # x} /\ user' = [user EXCEPT ![x] = Absent]
    BY <1>2 DEF DeleteUser
  <2>2. x \notin Ids(user)'
    <3>1. DOMAIN user = UserIds
      BY UserRows DEF Safe, Tables
    <3> QED BY <2>1, <3>1 DEF Ids
  <2> QED BY <2>1, <2>2 DEF MirrorsFollow
<1>3. ASSUME NEW x \in GroupIds, DeleteGroup(x) PROVE MirrorsFollow
  <2>1. members' = {m \in members : m[2] # x} /\ group' = [group EXCEPT ![x] = Absent]
    BY <1>3 DEF DeleteGroup
  <2>2. x \notin Ids(group)'
    <3>1. DOMAIN group = GroupIds
      BY GroupRows DEF Safe, Tables
    <3> QED BY <2>1, <3>1 DEF Ids
  <2> QED BY <2>1, <2>2 DEF MirrorsFollow
<1>4. ASSUME NEW r \in Reqs, CommitMembers(r) \/ CommitGroupsOf(r) PROVE MirrorsFollow
  BY <1>4, ListsMissMirrors
<1>5. ASSUME NEW r \in Reqs, NEW u \in UserIds, NEW fetched \in Reports,
             SignInWithGroups(r, u, fetched)
      PROVE  MirrorsFollow
  BY <1>5, SyncsOwnMirrors
<1>6. ASSUME NEW v \in Vaults, CreateVault(v) \/ DeleteVault(v) PROVE members' = members
  BY <1>6 DEF CreateVault, DeleteVault
<1>7. ASSUME NEW r \in Reqs, NEW v \in vaults, NEW payload \in Payloads, BeginShare(r, v, payload)
      PROVE  members' = members
  BY <1>7 DEF BeginShare, ReadsOnly
<1>8. ASSUME NEW r \in Reqs, NEW name \in Names, BeginCreateGroup(r, name)
      PROVE  members' = members
  BY <1>8 DEF BeginCreateGroup, ReadsOnly
<1>9. ASSUME NEW r \in Reqs, NEW g \in GroupIds, NEW names \in SUBSET Names,
             BeginMembers(r, g, names)
      PROVE  members' = members
  BY <1>9 DEF BeginMembers, ReadsOnly
<1>10. ASSUME NEW r \in Reqs, NEW u \in UserIds, NEW names \in SUBSET Names,
              BeginGroupsOf(r, u, names)
       PROVE  members' = members
  BY <1>10 DEF BeginGroupsOf, ReadsOnly
<1>11. ASSUME NEW r \in Reqs, NEW who \in Persons, NEW name \in Names, BeginSignIn(r, who, name)
       PROVE  members' = members
  BY <1>11 DEF BeginSignIn, ReadsOnly
<1>12. ASSUME NEW r \in Reqs, CommitShare(r) \/ CommitCreateGroup(r)
                               \/ \E u \in UserIds : SignInWithoutGroups(r, u)
       PROVE  members' = members
  BY <1>12 DEF CommitShare, CommitCreateGroup, SignInWithoutGroups
<1>13. ASSUME NEW r \in Reqs, Fails(r) PROVE members' = members
  BY <1>13 DEF Fails, ReadsOnly
<1>14. CASE UNCHANGED vars
  BY <1>1, <1>14 DEF vars
<1> QED BY <1>1, <1>2, <1>3, <1>4, <1>5, <1>6, <1>7, <1>8, <1>9, <1>10, <1>11, <1>12, <1>13,
           <1>14 DEF Next

(* SEC-46, SEC-47: whose sign-in it is decides about a mirror.  A list of  *)
(* an administrator, or an account that was found, gets into another mirror*)
(* only if the group or the account was deleted under the request, and the *)
(* number has come back.                                                   *)
THEOREM MirrorsBelongToProviders == Spec => MirrorsFollowTheProvider
<1>1. Safe /\ [Next]_vars => [MirrorsFollow]_vars
  BY MirrorsFollowNext
<1>2. [MirrorsFollow]_vars =>
        [\A u \in Ids(user) \cap Ids(user)', g \in Ids(group) \cap Ids(group)' :
           /\ group[g].origin # Local
           /\ (<<u, g>> \in members) # (<<u, g>> \in members')
           => \E r \in Reqs :
                \/ Strays(r, u, g)
                \/ /\ SignsInNow(r, u)
                   /\ ProviderOf[req[r].who] = ProviderOf[group[g].origin]]_vars
  BY DEF MirrorsFollow
<1> QED BY <1>1, <1>2, InitSafe, NextSafe, PTL DEF Spec, MirrorsFollowTheProvider

-----------------------------------------------------------------------------
(* The groups of a person, fetched page by page                            *)

LEMMA FetchInitType == FetchInit => FetchTypeOK
<1> SUFFICES ASSUME FetchInit PROVE FetchTypeOK
  OBVIOUS
<1>1. page \in 0..Pages /\ round \in 0..MaxPages
  BY FetchAssumption DEF FetchInit
<1>2. before \subseteq Groups /\ mirror \subseteq Groups /\ got \subseteq Groups
  BY DEF FetchInit
<1> QED BY <1>1, <1>2 DEF FetchInit, FetchTypeOK

LEMMA FetchNextType == FetchTypeOK /\ [FetchNext]_fetchVars => FetchTypeOK'
<1> SUFFICES ASSUME FetchTypeOK, [FetchNext]_fetchVars PROVE FetchTypeOK'
  OBVIOUS
<1> USE FetchAssumption DEF FetchTypeOK
<1>1. CASE PageComes
  <2>1. content[page] \subseteq Groups
    BY <1>1 DEF PageComes, MoreToAsk
  <2>2. round' \in 0..MaxPages
    BY <1>1 DEF PageComes, MoreToAsk, NextRound
  <2>3. CASE page' = (IF page < Pages THEN page + 1 ELSE 0) /\ UNCHANGED looped
    <3>1. page' \in 0..Pages
      BY <2>3
    <3> QED BY <1>1, <2>1, <2>2, <2>3, <3>1 DEF PageComes
  <2>4. CASE page' \in 1..page /\ looped' = TRUE
    <3>1. page' \in 0..Pages
      BY <2>4
    <3> QED BY <1>1, <2>1, <2>2, <2>4, <3>1 DEF PageComes
  <2> QED BY <1>1, <2>3, <2>4 DEF PageComes
<1>2. CASE AllCollected     BY <1>2 DEF AllCollected
<1>3. CASE AnswerUnusable   BY <1>3 DEF AnswerUnusable
<1>4. CASE AnswerMalformed  BY <1>4 DEF AnswerMalformed
<1>5. CASE SignInGoesOn     BY <1>5 DEF SignInGoesOn
<1>6. CASE IsTurnedAway     BY <1>6 DEF IsTurnedAway
<1>7. CASE UNCHANGED fetchVars   BY <1>7 DEF fetchVars
<1> QED BY <1>1, <1>2, <1>3, <1>4, <1>5, <1>6, <1>7 DEF FetchNext

(* The variables of GroupFetch have their types.                           *)
THEOREM FetchTypes == FetchSpec => []FetchTypeOK
<1> QED BY FetchInitType, FetchNextType, PTL DEF FetchSpec

-----------------------------------------------------------------------------
(* What has been collected are the pages before the one to be asked for.   *)
Collected(n) == \A g \in Groups : g \in got <=> \E i \in 1..n : g \in content[i]

(* As long as the provider has only linked forwards, each round was one    *)
(* page further, and who stops asking has seen them all.                   *)
Progress ==
  ~looped =>
    /\ phase = "asks" /\ page # 0 => page = round + 1 /\ Collected(page - 1)
    /\ phase = "asks" /\ page = 0 => Collected(Pages)
    /\ phase = "ok" => Collected(Pages)

FetchInv == FetchTypeOK /\ Progress /\ (phase # "in" => mirror = before) /\ WholeOrNothing

LEMMA CollectedAll ==
  ASSUME FetchTypeOK, Collected(Pages) PROVE got = UNION {content[n] : n \in 1..Pages}
BY FetchAssumption DEF FetchTypeOK, Collected

LEMMA FetchInitInv == FetchInit => FetchInv
<1> SUFFICES ASSUME FetchInit PROVE FetchInv
  OBVIOUS
<1>1. Collected(page - 1)
  BY DEF FetchInit, Collected
<1> QED BY <1>1, FetchInitType DEF FetchInit, FetchInv, Progress, WholeOrNothing

LEMMA FetchInvInductive ==
  ASSUME Pages <= MaxPages, FetchInv, [FetchNext]_fetchVars PROVE FetchInv'
<1> USE FetchAssumption
<1>0. FetchTypeOK /\ FetchTypeOK'
  BY FetchNextType DEF FetchInv
<1>1. CASE PageComes
  <2>1. phase = "asks" /\ phase' = "asks" /\ mirror' = mirror /\ before' = before
        /\ content' = content
    BY <1>1 DEF PageComes
  <2>2. WholeOrNothing'
    BY <2>1 DEF FetchInv, WholeOrNothing
  <2>3. ASSUME ~looped' PROVE page' = (IF page < Pages THEN page + 1 ELSE 0) /\ ~looped
    BY <1>1, <2>3 DEF PageComes
  <2>4. ASSUME ~looped' PROVE page = round + 1 /\ page \in 1..Pages /\ Collected(page - 1)
    BY <1>0, <1>1, <2>1, <2>3, <2>4 DEF FetchInv, Progress, FetchTypeOK, PageComes, MoreToAsk
  <2>5. ASSUME ~looped' PROVE \A g \in Groups : g \in got' <=> \E i \in 1..page : g \in content[i]
    <3>1. got' = got \cup content[page]
      BY <1>1 DEF PageComes
    <3> QED BY <2>4, <2>5, <3>1 DEF Collected
  <2>6. Progress'
    <3>1. ASSUME ~looped', page' # 0 PROVE page' = round' + 1 /\ Collected(page - 1)'
      <4>1. page' = page + 1 /\ round' = round + 1
        BY <1>1, <2>3, <3>1 DEF PageComes, NextRound
      <4>2. page' = round' + 1 /\ page' - 1 = page
        BY <1>0, <2>4, <3>1, <4>1 DEF FetchTypeOK
      <4> QED BY <2>1, <2>5, <3>1, <4>2 DEF Collected
    <3>2. ASSUME ~looped', page' = 0 PROVE Collected(Pages)'
      <4>1. page = Pages
        BY <2>3, <2>4, <3>2
      <4> QED BY <2>1, <2>5, <3>2, <4>1 DEF Collected
    <3> QED BY <2>1, <3>1, <3>2 DEF Progress
  <2> QED BY <1>0, <2>1, <2>2, <2>6 DEF FetchInv
<1>2. CASE AllCollected
  <2>1. UNCHANGED <<content, mirror, before, page, round, got, looped>>
        /\ phase = "asks" /\ phase' = "ok"
    BY <1>2 DEF AllCollected
  <2>2. ASSUME ~looped PROVE Collected(Pages)
    <3>1. page = 0
      BY <1>0, <1>2, <2>2 DEF AllCollected, MoreToAsk, FetchInv, Progress, FetchTypeOK
    <3> QED BY <2>1, <2>2, <3>1 DEF FetchInv, Progress
  <2> QED BY <1>0, <2>1, <2>2 DEF FetchInv, Progress, WholeOrNothing, Collected
<1>3. CASE AnswerUnusable
  BY <1>0, <1>3 DEF AnswerUnusable, FetchInv, Progress, WholeOrNothing
<1>4. CASE AnswerMalformed
  BY <1>0, <1>4 DEF AnswerMalformed, FetchInv, Progress, WholeOrNothing
<1>5. CASE SignInGoesOn
  <2>1. UNCHANGED <<content, before, page, round, got, looped>> /\ phase' = "in"
    BY <1>5 DEF SignInGoesOn
  <2>2. WholeOrNothing'
    <3>1. CASE phase = "ok" /\ ~looped
      <4>1. got = UNION {content[n] : n \in 1..Pages}
        BY <1>0, <3>1, CollectedAll DEF FetchInv, Progress
      <4> QED BY <1>5, <2>1, <3>1, <4>1 DEF SignInGoesOn, WholeOrNothing
    <3>2. CASE phase = "ok" /\ looped
      BY <2>1, <3>2 DEF WholeOrNothing
    <3>3. CASE phase = "failed"
      BY <1>5, <2>1, <3>3 DEF SignInGoesOn, WholeOrNothing, FetchInv
    <3> QED BY <1>5, <3>1, <3>2, <3>3 DEF SignInGoesOn, FetchInv, FetchTypeOK
  <2> QED BY <1>0, <2>1, <2>2 DEF FetchInv, Progress
<1>6. CASE IsTurnedAway
  BY <1>0, <1>6 DEF IsTurnedAway, FetchInv, Progress, WholeOrNothing
<1>7. CASE UNCHANGED fetchVars
  BY <1>0, <1>7 DEF fetchVars, FetchInv, Progress, WholeOrNothing, Collected
<1> QED BY <1>1, <1>2, <1>3, <1>4, <1>5, <1>6, <1>7 DEF FetchNext

(* SEC-46: whatever number of pages the provider has, as long as it is not *)
(* more than MAX_PAGES, nobody leaves a group through a fetch that fails   *)
(* half way.                                                               *)
THEOREM WholeAnswers == ASSUME Pages <= MaxPages PROVE FetchSpec => []WholeOrNothing
<1>1. FetchInv /\ [FetchNext]_fetchVars => FetchInv'
  BY FetchInvInductive
<1>2. FetchInv => WholeOrNothing
  BY DEF FetchInv
<1> QED BY <1>1, <1>2, FetchInitInv, PTL DEF FetchSpec
=============================================================================

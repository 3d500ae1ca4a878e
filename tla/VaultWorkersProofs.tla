------------------------ MODULE VaultWorkersProofs ------------------------
(***************************************************************************)
(* Of two saves based on one content at most one is confirmed, in however  *)
(* many processes they run; and what has been confirmed stays.             *)
(***************************************************************************)
EXTENDS VaultWorkers, TLAPS

Active(r) == ~At(r, "idle")
NotYetWritten(r) == req[r].phase \in {"body", "compare", "replace"}
Written(r) == req[r].phase \in {"keep", "commit"}

(* The generations that are taken are those below the counter, and no save *)
(* has loaded a counter from beyond it.                                    *)
Counting ==
  /\ \A n \in Seqs : rows[n] # Nothing <=> n < vault.next
  /\ \A r \in Reqs : Active(r) => req[r].seen.next <= vault.next
  /\ \A r \in Reqs : Active(r) => req[r].seen.next \in Seqs

(* A content that has not been written yet is known to its save alone.     *)
Fresh ==
  /\ file <= sent
  /\ \A k \in kept : k.base <= sent
  /\ \A r \in Reqs : Active(r) =>
       req[r].body \in 1..sent /\ req[r].base <= sent
  /\ \A r, q \in Reqs : Active(r) /\ Active(q) /\ r # q => req[r].body # req[q].body
  /\ \A r \in Reqs : NotYetWritten(r) =>
       /\ req[r].body # file
       /\ \A q \in Reqs : Active(q) => req[r].body # req[q].base
       /\ \A k \in kept : req[r].body # k.base

(* What a written save was based on is not current any more.               *)
Gone ==
  /\ \A k \in kept : k.base # file
  /\ \A r \in Reqs : Written(r) => req[r].base # file

(* Who is still under way on the base of a confirmed save has loaded a     *)
(* counter that has been used up since.                                    *)
Beaten ==
  \A k \in kept, r \in Reqs :
    Active(r) /\ req[r].base = k.base => req[r].seen.next < vault.next

Inv == TypeOK /\ Counting /\ Fresh /\ Gone /\ Beaten /\ OneWinner

USE DEF At, Idle, Seqs, Contents, Nothing, VaultRow, Save

LEMMA InitInv == Init => Inv
  BY WorkersAssumption
     DEF Init, Inv, TypeOK, Counting, Fresh, Gone, Beaten, OneWinner, Active,
         NotYetWritten, Written

(* A save begins: its number is new among the contents, its base current.  *)
LEMMA BeginKeeps ==
  ASSUME Inv, NEW r \in Reqs, NEW w \in Workers, BeginSave(r, w) PROVE Inv'
<1> DEFINE new == [phase |-> "body", worker |-> w, base |-> file, body |-> sent + 1,
                   seen |-> vault]
<1> USE WorkersAssumption DEF Inv, Active, NotYetWritten, Written
<1>0. /\ req' = [req EXCEPT ![r] = new] /\ sent' = sent + 1 /\ sent \in Nat
      /\ file' = file /\ kept' = kept /\ vault' = vault /\ rows' = rows
  BY DEF BeginSave, TypeOK
<1>1. TypeOK'
  <2>1. new \in Save /\ sent + 1 \in 1..MaxSaves
    BY DEF BeginSave, TypeOK
  <2>2. req' \in [Reqs -> Save \cup {Idle}]
    BY <1>0, <2>1 DEF TypeOK
  <2>3. origin' \in [1..MaxSaves -> Workers \cup {NoReq}]
    BY <2>1 DEF BeginSave, TypeOK
  <2> QED BY ZenonT(60), <1>0, <2>1, <2>2, <2>3 DEF BeginSave, TypeOK
<1>2. Counting'
  <2>1. vault.next \in Seqs
    BY DEF BeginSave
  <2>2. \A q \in Reqs : q # r => req'[q] = req[q]
    BY <1>0 DEF TypeOK
  <2>3. req'[r].seen = vault
    BY <1>0 DEF TypeOK
  <2> QED BY SMTT(30), <1>0, <2>1, <2>2, <2>3 DEF TypeOK, Counting
<1>3. Fresh'
  <2>1. (file <= sent /\ \A k \in kept : k.base <= sent)'
    BY SMTT(30), <1>0 DEF TypeOK, Fresh
  <2>2. \A q \in Reqs : Active(q)' =>
          (q # r => Active(q) /\ req'[q] = req[q]) /\ (q = r => req'[q] = new)
    BY <1>0 DEF TypeOK
  <2>3. (\A q \in Reqs : Active(q) => req[q].body \in 1..sent /\ req[q].base <= sent)'
    BY SMTT(30), <1>0, <2>2 DEF TypeOK, Fresh
  <2>4. (\A p, q \in Reqs : Active(p) /\ Active(q) /\ p # q => req[p].body # req[q].body)'
    BY SMTT(30), <1>0, <2>2 DEF TypeOK, Fresh
  <2>5. \A p \in Reqs : NotYetWritten(p)' => (p # r => NotYetWritten(p))
    BY <1>0 DEF TypeOK
  <2>6. ASSUME NEW p \in Reqs, NotYetWritten(p)'
        PROVE  /\ req'[p].body # file
               /\ \A q \in Reqs : Active(q)' => req'[p].body # req'[q].base
               /\ \A k \in kept : req'[p].body # k.base
    <3>1. CASE p = r
      BY SMTT(30), <1>0, <2>2, <3>1 DEF TypeOK, Fresh
    <3>2. CASE p # r
      <4>1. NotYetWritten(p) /\ Active(p) /\ req'[p] = req[p]
        BY <1>0, <2>5, <2>6, <3>2 DEF TypeOK
      <4> QED BY SMTT(30), <1>0, <2>2, <4>1 DEF TypeOK, Fresh
    <3> QED BY <3>1, <3>2
  <2> QED BY <1>0, <2>1, <2>3, <2>4, <2>6 DEF Fresh
<1>4. Gone'      BY DEF BeginSave, TypeOK, Gone
<1>5. Beaten'    BY SMTT(30) DEF BeginSave, TypeOK, Beaten, Gone
<1>6. OneWinner' BY DEF BeginSave, OneWinner
<1> QED BY <1>1, <1>2, <1>3, <1>4, <1>5, <1>6

(* What is under way and not idle is a save, and stays one as it advances. *)
LEMMA ActiveSave ==
  ASSUME TypeOK, NEW r \in Reqs, Active(r) PROVE req[r] \in Save
BY DEF TypeOK, Active

LEMMA AdvanceType ==
  ASSUME TypeOK, NEW r \in Reqs, NEW from,
         NEW to \in {"compare", "replace", "keep", "commit"},
         Advance(r, from, to), from # "idle"
  PROVE  /\ req' \in [Reqs -> Save \cup {Idle}]
         /\ req[r] \in Save /\ Active(r)
         /\ req' = [req EXCEPT ![r] = [req[r] EXCEPT !.phase = to]]
<1>1. req[r] \in Save /\ Active(r)
  BY ActiveSave DEF Advance, Active
<1>2. [req[r] EXCEPT !.phase = to] \in Save
  BY <1>1
<1>3. req' = [req EXCEPT ![r] = [req[r] EXCEPT !.phase = to]]
  BY DEF Advance, TypeOK
<1> QED BY <1>1, <1>2, <1>3 DEF TypeOK

(* A save ends or goes on without changing what others know: of it, no     *)
(* more is left than there was.                                            *)
LEMMA QuietSteps ==
  ASSUME Inv, NEW r \in Reqs, TypeOK',
         UNCHANGED <<file, rows, vault, sent, kept, origin>>,
         \A q \in Reqs :
           \/ req'[q] = req[q] \/ req'[q] = Idle
           \/ /\ Active(q)
              /\ \E phase \in {"compare", "replace", "keep", "commit"} :
                   req'[q] = [req[q] EXCEPT !.phase = phase]
              /\ Written(q)' <=> Written(q)
  PROVE  Inv'
<1> USE DEF Active, NotYetWritten, Written, Inv
<1>1. \A q \in Reqs : Active(q)' =>
        /\ Active(q) /\ req'[q].body = req[q].body /\ req'[q].base = req[q].base
        /\ req'[q].seen = req[q].seen
        /\ NotYetWritten(q)' <=> NotYetWritten(q)
        /\ Written(q)' <=> Written(q)
  <2> SUFFICES ASSUME NEW q \in Reqs, Active(q)'
               PROVE  /\ Active(q) /\ req'[q].body = req[q].body
                      /\ req'[q].base = req[q].base /\ req'[q].seen = req[q].seen
                      /\ NotYetWritten(q)' <=> NotYetWritten(q)
                      /\ Written(q)' <=> Written(q)
    OBVIOUS
  <2>1. CASE req'[q] = req[q]
    BY <2>1
  <2>2. ASSUME NEW phase \in {"compare", "replace", "keep", "commit"}, Active(q),
               req'[q] = [req[q] EXCEPT !.phase = phase], Written(q)' <=> Written(q)
        PROVE  /\ req'[q].body = req[q].body /\ req'[q].base = req[q].base
               /\ req'[q].seen = req[q].seen /\ (NotYetWritten(q)' <=> NotYetWritten(q))
    <3>1. req[q] \in Save
      BY <2>2, ActiveSave
    <3> QED BY <2>2, <3>1
  <2> QED BY <2>1, <2>2
<1>2. Counting'
  <2>1. rows' = rows /\ vault' = vault
    OBVIOUS
  <2> QED BY <1>1, <2>1 DEF Counting
<1>3. Fresh'
  <2>1. (file <= sent /\ \A k \in kept : k.base <= sent)'
    BY DEF Fresh
  <2>2. (\A q \in Reqs : Active(q) => req[q].body \in 1..sent /\ req[q].base <= sent)'
    BY <1>1 DEF Fresh
  <2>3. (\A p, q \in Reqs : Active(p) /\ Active(q) /\ p # q => req[p].body # req[q].body)'
    BY <1>1 DEF Fresh
  <2>4. ASSUME NEW p \in Reqs, NotYetWritten(p)'
        PROVE  /\ req'[p].body # file
               /\ \A q \in Reqs : Active(q)' => req'[p].body # req'[q].base
               /\ \A k \in kept : req'[p].body # k.base
    <3>1. NotYetWritten(p) /\ req'[p].body = req[p].body
      BY <1>1, <2>4
    <3> QED BY <1>1, <3>1 DEF Fresh
  <2> QED BY <2>1, <2>2, <2>3, <2>4 DEF Fresh
<1>4. Gone'
  <2>1. file' = file /\ kept' = kept
    OBVIOUS
  <2>2. \A q \in Reqs : Written(q)' => Active(q)'
    OBVIOUS
  <2> QED BY <1>1, <2>1, <2>2 DEF Gone
<1>5. Beaten'
  <2>1. kept' = kept /\ vault' = vault
    OBVIOUS
  <2> QED BY <1>1, <2>1 DEF Beaten
<1>6. OneWinner' BY DEF OneWinner
<1> QED BY <1>2, <1>3, <1>4, <1>5, <1>6

LEMMA AdvanceQuietly ==
  ASSUME Inv, NEW r \in Reqs, NEW from, NEW to \in {"compare", "replace", "keep", "commit"},
         Advance(r, from, to), from # "idle",
         from \in {"keep", "commit"} <=> to \in {"keep", "commit"},
         TypeOK', UNCHANGED <<file, rows, vault, sent, kept, origin>>
  PROVE  Inv'
<1>1. /\ req[r] \in Save /\ Active(r)
      /\ req' = [req EXCEPT ![r] = [req[r] EXCEPT !.phase = to]]
  BY AdvanceType DEF Inv
<1>2. \A q \in Reqs : q # r => req'[q] = req[q]
  BY <1>1 DEF Inv, TypeOK
<1>3. req'[r] = [req[r] EXCEPT !.phase = to] /\ (Written(r)' <=> Written(r))
  BY <1>1 DEF Inv, TypeOK, Written, Advance
<1> QED BY <1>1, <1>2, <1>3, QuietSteps

(* The end of a save, whatever becomes of the loops.                       *)
LEMMA EndQuietly ==
  ASSUME Inv, NEW r \in Reqs, req' = [req EXCEPT ![r] = Idle],
         TypeOK', UNCHANGED <<file, rows, vault, sent, kept, origin>>
  PROVE  Inv'
<1>1. \A q \in Reqs : req'[q] = req[q] \/ req'[q] = Idle
  BY DEF Inv, TypeOK
<1> QED BY <1>1, QuietSteps

LEMMA QuietKeeps ==
  ASSUME Inv, NEW r \in Reqs,
         BodyComes(r) \/ Compare(r) \/ Keep(r) \/ Fails(r)
  PROVE  Inv'
<1> USE WorkersAssumption
<1>0. TypeOK
  BY DEF Inv
<1>1. CASE BodyComes(r)
  <2>1. req' \in [Reqs -> Save \cup {Idle}] /\ req[r] \in Save
    BY <1>0, <1>1, AdvanceType DEF BodyComes
  <2>2. TypeOK'  BY <1>0, <1>1, <2>1 DEF BodyComes, TypeOK
  <2> QED BY <1>1, <2>2, AdvanceQuietly DEF BodyComes
<1>2. CASE Compare(r) /\ req[r].base = file
  <2>1. Advance(r, "compare", "replace") /\ req' \in [Reqs -> Save \cup {Idle}]
    BY <1>0, <1>2, AdvanceType DEF Compare
  <2>2. TypeOK'  BY <1>0, <1>2, <2>1 DEF Compare, TypeOK
  <2> QED BY <1>2, <2>1, <2>2, AdvanceQuietly DEF Compare
<1>3. CASE Compare(r) /\ req[r].base # file
  <2>1. req' = [req EXCEPT ![r] = Idle] /\ loop' = [loop EXCEPT ![req[r].worker] = NoReq]
    BY <1>3 DEF Compare, Finish
  <2>2. req' \in [Reqs -> Save \cup {Idle}] /\ loop' \in [Workers -> Reqs \cup {NoReq}]
    BY <1>0, <2>1 DEF TypeOK
  <2>3. TypeOK'  BY <1>0, <1>3, <2>2 DEF Compare, TypeOK
  <2> QED BY <1>3, <2>1, <2>3, EndQuietly DEF Compare
<1>4. CASE Keep(r)
  <2>1. req' \in [Reqs -> Save \cup {Idle}] /\ req[r] \in Save
    BY <1>0, <1>4, AdvanceType DEF Keep
  <2>2. gen' \in [Seqs -> Contents]
    BY <1>0, <1>4, <2>1 DEF Keep, TypeOK
  <2>3. TypeOK'  BY <1>0, <1>4, <2>1, <2>2 DEF Keep, TypeOK
  <2> QED BY <1>4, <2>3, AdvanceQuietly DEF Keep
<1>5. CASE Fails(r)
  <2>1. TypeOK'  BY <1>0, <1>5 DEF Fails, TypeOK
  <2> QED BY <1>5, <2>1, EndQuietly DEF Fails
<1> QED BY <1>1, <1>2, <1>3, <1>4, <1>5

(* The file is replaced: by a content nobody knows yet.                    *)
LEMMA ReplaceKeeps ==
  ASSUME Inv, NEW r \in Reqs, Replace(r) PROVE Inv'
<1> USE WorkersAssumption
    DEF Replace, Advance, Inv, Active, NotYetWritten, Written
<1>1. TypeOK'
  <2>1. req' \in [Reqs -> Save \cup {Idle}] /\ req[r] \in Save
    BY AdvanceType
  <2> QED BY <2>1 DEF TypeOK
<1>2. Counting'  BY SMTT(30) DEF TypeOK, Counting
<1>3. Fresh'     BY SMTT(30) DEF TypeOK, Fresh
<1>4. Gone'      BY DEF TypeOK, Gone, Fresh
<1>5. Beaten'    BY SMTT(30) DEF TypeOK, Beaten
<1>6. OneWinner' BY DEF OneWinner
<1> QED BY <1>1, <1>2, <1>3, <1>4, <1>5, <1>6

(* A commit that applies has the counter as it is; it is nobody else's     *)
(* any more afterwards.                                                    *)
LEMMA CommitKeeps ==
  ASSUME Inv, NEW r \in Reqs, Commit(r) PROVE Inv'
<1> USE WorkersAssumption DEF Inv, Active, NotYetWritten, Written
<1>0. /\ req' = [req EXCEPT ![r] = Idle] /\ loop' = [loop EXCEPT ![req[r].worker] = NoReq]
      /\ UNCHANGED <<file, gen, sent, origin>>
      /\ At(r, "commit")
  BY DEF Commit, Finish
<1>a. req[r] \in Save
  BY <1>0, ActiveSave
<1>b. /\ req' \in [Reqs -> Save \cup {Idle}] /\ loop' \in [Workers -> Reqs \cup {NoReq}]
      /\ \A q \in Reqs : Active(q)' => q # r /\ Active(q) /\ req'[q] = req[q]
  BY <1>0 DEF TypeOK
<1>1. CASE ~FlushApplies(r)
  <2>1. UNCHANGED <<vault, rows, kept>>
    BY <1>1 DEF Commit
  <2>2. TypeOK'
    BY <1>0, <1>b, <2>1 DEF TypeOK
  <2> QED BY <1>0, <2>1, <2>2, EndQuietly
<1>2. CASE FlushApplies(r)
  <2> DEFINE k == [seq |-> req[r].seen.next, body |-> req[r].body, base |-> req[r].base]
  <2>1. req[r].seen.next = vault.next /\ vault.next \in Seqs
    <3>1. req[r].seen.next \in Seqs /\ req[r].seen.next <= vault.next
      BY <1>0 DEF Counting
    <3>2. ~(req[r].seen.next < vault.next)
      BY <1>2, <3>1 DEF Counting, FlushApplies
    <3>3. vault.next \in Nat
      BY DEF TypeOK
    <3> QED BY <3>1, <3>2, <3>3
  <2>2. \A l \in kept : l.base # k.base
    BY <1>0, <2>1 DEF Beaten
  <2>3. /\ kept' = kept \cup {k}
        /\ vault' = [etag |-> req[r].body, next |-> vault.next + 1]
        /\ rows' = [rows EXCEPT ![vault.next] = req[r].body]
    BY <1>2, <2>1 DEF Commit, VaultAfter
  <2>4. TypeOK'
    <3>1. k \in [seq : Seqs, body : Contents, base : Contents]
      BY <1>a, <2>1
    <3>2. req[r].body \in Contents /\ vault.next + 1 \in 1..MaxSeq + 1
      BY <1>a, <2>1
    <3>3. vault' \in VaultRow /\ rows' \in [Seqs -> Contents]
      BY <2>3, <3>2 DEF TypeOK
    <3> QED BY <1>0, <1>b, <2>3, <3>1, <3>3 DEF TypeOK
  <2>5. Counting'
    <3>1. vault'.next = vault.next + 1 /\ vault.next \in Nat /\ req[r].body # Nothing
      BY <1>0, <2>1, <2>3 DEF Fresh
    <3>2. \A n \in Seqs : rows'[n] = IF n = vault.next THEN req[r].body ELSE rows[n]
      BY <2>3 DEF TypeOK
    <3>3. (\A n \in Seqs : rows[n] # Nothing <=> n < vault.next)'
      BY <3>1, <3>2 DEF Counting
    <3>4. (\A q \in Reqs : Active(q) => req[q].seen.next <= vault.next)'
      <4> SUFFICES ASSUME NEW q \in Reqs, Active(q)' PROVE req'[q].seen.next <= vault'.next
        OBVIOUS
      <4>1. req[q].seen.next <= vault.next /\ req[q].seen.next \in Seqs
        BY <1>b DEF Counting
      <4> QED BY <1>b, <3>1, <4>1
    <3>5. (\A q \in Reqs : Active(q) => req[q].seen.next \in Seqs)'
      BY <1>b DEF Counting
    <3> QED BY <3>3, <3>4, <3>5 DEF Counting
  <2>6. Fresh'
    <3>1. \A q \in Reqs : NotYetWritten(q)' => NotYetWritten(q) /\ Active(q)'
      BY <1>b
    <3>2. \A q \in Reqs : NotYetWritten(q) => req[q].body # k.base
      BY <1>0 DEF Fresh
    <3>3. k.base <= sent
      BY <1>0 DEF Fresh
    <3> QED BY <1>0, <1>b, <2>3, <3>1, <3>2, <3>3 DEF Fresh
  <2>7. Gone'
    <3>1. k.base # file
      BY <1>0 DEF Gone
    <3>2. \A q \in Reqs : Written(q)' => Written(q) /\ req'[q] = req[q]
      BY <1>b
    <3> QED BY <1>0, <2>3, <3>1, <3>2 DEF Gone
  <2>8. Beaten'
    <3> SUFFICES ASSUME NEW l \in kept', NEW q \in Reqs, Active(q)', req'[q].base = l.base
                 PROVE  req'[q].seen.next < vault'.next
      BY DEF Beaten
    <3>1. Active(q) /\ req'[q] = req[q] /\ req[q].seen.next <= vault.next
      BY <1>b DEF Counting
    <3>2. vault'.next = vault.next + 1 /\ vault.next \in Nat /\ req[q].seen.next \in Nat
      BY <2>1, <2>3, <3>1 DEF Counting
    <3> QED BY <3>1, <3>2
  <2>9. OneWinner' BY <2>2, <2>3 DEF OneWinner
  <2> QED BY <2>4, <2>5, <2>6, <2>7, <2>8, <2>9
<1> QED BY <1>1, <1>2

LEMMA InvInductive == Inv /\ [Next]_vars => Inv'
<1> SUFFICES ASSUME Inv, [Next]_vars PROVE Inv'
  OBVIOUS
<1>1. CASE Next
  BY <1>1, BeginKeeps, QuietKeeps, ReplaceKeeps, CommitKeeps DEF Next
<1>2. CASE UNCHANGED vars
  BY <1>2 DEF vars, Inv, TypeOK, Counting, Fresh, Gone, Beaten, OneWinner, Active,
              NotYetWritten, Written
<1> QED BY <1>1, <1>2

(* The variables have their types.                                         *)
THEOREM TypeCorrect == Spec => []TypeOK
<1>1. Inv => TypeOK
  BY DEF Inv
<1> QED BY <1>1, InitInv, InvInductive, PTL DEF Spec

(* For any number of processes and saves: of two saves based on the same   *)
(* content at most one is confirmed.                                       *)
THEOREM OnlyOneWins == Spec => []OneWinner
<1>1. Inv => OneWinner
  BY DEF Inv
<1> QED BY <1>1, InitInv, InvInductive, PTL DEF Spec
-----------------------------------------------------------------------------
(* What is confirmed stays.  Within a process the loop does it: whoever    *)
(* has been waiting for it meanwhile finds another file than its base.     *)
InLoop(r) == req[r].phase \in {"compare", "replace", "keep", "commit"}
HasLoop == \A r \in Reqs : InLoop(r) => loop[req[r].worker] = r

(* To which process a content was sent, as far as it is written down.      *)
Origins ==
  /\ \A r \in Reqs : Active(r) => origin[req[r].body] = req[r].worker
  /\ \A n \in Seqs : gen[n] <= sent
  /\ \A k \in kept : k.body \in 1..sent

(* The generation file n has this content, or another process took n.      *)
HasFile(n, body, w) == gen[n] = body \/ (gen[n] # Nothing /\ origin[gen[n]] # w)
FilesKept ==
  /\ \A k \in kept : rows[k.seq] = k.body /\ HasFile(k.seq, k.body, origin[k.body])
  /\ \A r \in Reqs : At(r, "commit") =>
       HasFile(req[r].seen.next, req[r].body, req[r].worker)

(* Whoever has not begun to write when a save of its process has replaced  *)
(* the file will be refused; those with a number that is in use, too.      *)
Waiting(r) == req[r].phase \in {"body", "compare"}
Refused(r) == Waiting(r) /\ req[r].base # file
Late ==
  /\ \A r, q \in Reqs :
       Written(r) /\ Active(q) /\ q # r /\ req[q].worker = req[r].worker => Refused(q)
  /\ \A k \in kept, r \in Reqs :
       /\ Active(r) /\ ~At(r, "commit") /\ req[r].worker = origin[k.body]
       /\ req[r].seen.next <= k.seq
       => Refused(r)

KeptInv == Inv /\ HasLoop /\ Origins /\ FilesKept /\ Late

LEMMA KeptInit == Init => KeptInv
<1> SUFFICES ASSUME Init PROVE KeptInv
  OBVIOUS
<1>1. \A r \in Reqs : req[r].phase = "idle"
  BY DEF Init
<1>2. kept = {} /\ \A n \in Seqs : gen[n] = 0 /\ sent = 0
  BY DEF Init
<1> QED
  BY <1>1, <1>2, InitInv
     DEF KeptInv, HasLoop, Origins, FilesKept, Late, InLoop, Active, Written

(* A step in which saves come, end or advance, without writing anything.   *)
LEMMA QuietFiles ==
  ASSUME KeptInv, UNCHANGED <<file, gen, rows, kept, origin, sent>>, HasLoop',
         \A q \in Reqs : Active(q)' =>
           /\ Active(q) /\ req'[q].worker = req[q].worker
           /\ req'[q].body = req[q].body /\ req'[q].base = req[q].base
           /\ req'[q].seen = req[q].seen
           /\ Written(q)' => Written(q)
           /\ At(q, "commit")' => At(q, "commit")
           /\ ~At(q, "commit")' => ~At(q, "commit")
           /\ Refused(q) => Refused(q)'
  PROVE  HasLoop' /\ Origins' /\ FilesKept' /\ Late'
<1>1. Origins'
  BY DEF KeptInv, Origins
<1>2. FilesKept'
  BY DEF KeptInv, FilesKept, HasFile, Active
<1>3. Late'
  BY DEF KeptInv, Late, Active, Written
<1> QED BY <1>1, <1>2, <1>3

(* A save begins while nobody of its process has the loop, and with a      *)
(* number above those that are confirmed.                                  *)
LEMMA BeginFiles ==
  ASSUME KeptInv, NEW r \in Reqs, NEW w \in Workers, BeginSave(r, w)
  PROVE  HasLoop' /\ Origins' /\ FilesKept' /\ Late'
<1> DEFINE new == [phase |-> "body", worker |-> w, base |-> file, body |-> sent + 1,
                   seen |-> vault]
<1>0. /\ req' = [req EXCEPT ![r] = new] /\ sent' = sent + 1 /\ sent \in Nat
      /\ origin' = [origin EXCEPT ![sent + 1] = w] /\ sent + 1 \in 1..MaxSaves
      /\ UNCHANGED <<file, gen, rows, vault, loop, kept>>
      /\ loop[w] = NoReq /\ At(r, "idle")
  BY WorkersAssumption DEF BeginSave, KeptInv, Inv, TypeOK
<1>1. /\ req'[r] = new
      /\ \A q \in Reqs : q # r => req'[q] = req[q]
  BY <1>0 DEF KeptInv, Inv, TypeOK
<1>2. \A c : c # sent + 1 => origin'[c] = origin[c]
  BY <1>0 DEF KeptInv, Inv, TypeOK
<1>3. origin'[sent + 1] = w
  BY <1>0 DEF KeptInv, Inv, TypeOK
<1>4. HasLoop'
  BY <1>0, <1>1 DEF KeptInv, HasLoop, InLoop
<1>5. \A q \in Reqs : Active(q) => req[q].body # sent + 1
  BY <1>0 DEF KeptInv, Inv, Fresh
<1>6. \A k \in kept : k.body # sent + 1
  BY <1>0 DEF KeptInv, Origins
<1>7. \A n \in Seqs : gen[n] # sent + 1 /\ gen[n] \in Nat
  BY <1>0 DEF KeptInv, Inv, TypeOK, Origins
<1>8. Origins'
  <2>1. \A q \in Reqs : Active(q)' => origin'[req'[q].body] = req'[q].worker
    BY <1>1, <1>2, <1>3, <1>5 DEF KeptInv, Origins, Active
  <2>2. \A n \in Seqs : gen'[n] <= sent'
    BY <1>0, <1>7 DEF KeptInv, Origins
  <2>3. \A k \in kept' : k.body \in 1..sent'
    BY <1>0 DEF KeptInv, Origins
  <2> QED BY <2>1, <2>2, <2>3 DEF Origins
<1>9. FilesKept'
  <2>1. ASSUME NEW k \in kept PROVE rows[k.seq] = k.body /\ HasFile(k.seq, k.body, origin[k.body])'
    <3>1. k.seq \in Seqs
      BY DEF KeptInv, Inv, TypeOK
    <3> QED BY <1>0, <1>2, <1>6, <1>7, <3>1 DEF KeptInv, FilesKept, HasFile
  <2>2. ASSUME NEW q \in Reqs, At(q, "commit")'
        PROVE  HasFile(req[q].seen.next, req[q].body, req[q].worker)'
    <3>1. q # r /\ req'[q] = req[q] /\ Active(q) /\ At(q, "commit")
      BY <1>1, <2>2 DEF Active
    <3>2. req[q].seen.next \in Seqs
      BY <3>1 DEF KeptInv, Inv, Counting
    <3> QED BY <1>0, <1>2, <1>7, <3>1, <3>2 DEF KeptInv, FilesKept, HasFile
  <2> QED BY <1>0, <2>1, <2>2 DEF FilesKept
<1>10. Late'
  <2>1. \A p \in Reqs : Written(p)' => p # r /\ Written(p) /\ req[p].worker # w
    BY <1>0, <1>1, WorkersAssumption DEF Written, KeptInv, HasLoop, InLoop
  <2>2. ASSUME NEW p \in Reqs, NEW q \in Reqs, Written(p)', Active(q)', q # p,
               req'[q].worker = req'[p].worker
        PROVE  Refused(q)'
    BY <1>0, <1>1, <2>1, <2>2 DEF KeptInv, Late, Refused, Waiting, Active
  <2>3. \A k \in kept : k.seq \in Seqs /\ k.seq < vault.next
    <3> SUFFICES ASSUME NEW k \in kept PROVE k.seq \in Seqs /\ k.seq < vault.next
      OBVIOUS
    <3>1. k.seq \in Seqs
      BY DEF KeptInv, Inv, TypeOK
    <3>2. rows[k.seq] # Nothing
      BY DEF KeptInv, FilesKept, Origins
    <3> QED BY <3>1, <3>2 DEF KeptInv, Inv, Counting
  <2>4. ASSUME NEW k \in kept, NEW q \in Reqs, Active(q)', ~At(q, "commit")',
               req'[q].worker = origin'[k.body], req'[q].seen.next <= k.seq
        PROVE  Refused(q)'
    <3>1. q # r
      <4>1. vault.next \in Nat /\ k.seq \in Nat
        BY <2>3 DEF KeptInv, Inv, TypeOK
      <4> QED BY <1>1, <2>3, <2>4, <4>1
    <3>2. origin'[k.body] = origin[k.body]
      BY <1>2, <1>6
    <3> QED BY <1>0, <1>1, <2>4, <3>1, <3>2 DEF KeptInv, Late, Refused, Waiting, Active
  <2> QED BY <1>0, <2>2, <2>4 DEF Late
<1> QED BY <1>4, <1>8, <1>9, <1>10

(* A save advances: what is said of the saves is said of one more phase.   *)
LEMMA Advanced ==
  ASSUME KeptInv, NEW r \in Reqs, NEW from,
         NEW to \in {"compare", "replace", "keep", "commit"},
         Advance(r, from, to), from # "idle"
  PROVE  /\ req'[r] = [req[r] EXCEPT !.phase = to] /\ req[r] \in Save /\ Active(r)
         /\ \A q \in Reqs : q # r => req'[q] = req[q]
         /\ \A q \in Reqs : Active(q)' <=> Active(q)
<1>1. /\ req[r] \in Save /\ Active(r)
      /\ req' = [req EXCEPT ![r] = [req[r] EXCEPT !.phase = to]]
  BY AdvanceType DEF KeptInv, Inv
<1>2. /\ req'[r] = [req[r] EXCEPT !.phase = to]
      /\ \A q \in Reqs : q # r => req'[q] = req[q]
  BY <1>1 DEF KeptInv, Inv, TypeOK
<1>3. Active(r)'
  BY <1>1, <1>2 DEF Active
<1> QED BY <1>1, <1>2, <1>3 DEF Active

LEMMA Ended ==
  ASSUME KeptInv, NEW r \in Reqs, req' = [req EXCEPT ![r] = Idle]
  PROVE  \A q \in Reqs : Active(q)' => q # r /\ Active(q) /\ req'[q] = req[q]
BY DEF KeptInv, Inv, TypeOK, Active

LEMMA BodyComesFiles ==
  ASSUME KeptInv, NEW r \in Reqs, BodyComes(r)
  PROVE  HasLoop' /\ Origins' /\ FilesKept' /\ Late'
<1>0. /\ At(r, "body") /\ loop[req[r].worker] = NoReq
      /\ loop' = [loop EXCEPT ![req[r].worker] = r]
      /\ UNCHANGED <<file, gen, rows, vault, sent, kept, origin>>
  BY DEF BodyComes, Advance
<1>1. /\ req'[r] = [req[r] EXCEPT !.phase = "compare"] /\ req[r] \in Save
      /\ \A q \in Reqs : q # r => req'[q] = req[q]
      /\ \A q \in Reqs : Active(q)' <=> Active(q)
  BY Advanced DEF BodyComes
<1>2. HasLoop'
  <2>1. \A q \in Reqs : InLoop(q) => req[q].worker # req[r].worker
    BY <1>0, WorkersAssumption DEF KeptInv, HasLoop
  <2>2. \A v \in Workers : loop'[v] = IF v = req[r].worker THEN r ELSE loop[v]
    BY <1>0 DEF KeptInv, Inv, TypeOK
  <2>3. \A q \in Reqs : InLoop(q) => req[q].worker \in Workers
    BY ActiveSave DEF InLoop, Active, KeptInv, Inv
  <2> QED BY <1>1, <2>1, <2>2, <2>3 DEF KeptInv, HasLoop, InLoop
<1> QED BY <1>0, <1>1, <1>2, QuietFiles DEF Written, Refused, Waiting

(* A save ends, and what is left of it is its loop, given free.            *)
LEMMA EndFiles ==
  ASSUME KeptInv, NEW r \in Reqs, req' = [req EXCEPT ![r] = Idle],
         \A v \in Workers : loop'[v] = loop[v] \/ loop[v] = r
  PROVE  HasLoop'
<1>1. \A q \in Reqs : InLoop(q)' => q # r /\ InLoop(q) /\ req'[q] = req[q]
  BY Ended DEF InLoop, Active
<1>2. \A q \in Reqs : InLoop(q) => req[q].worker \in Workers
  BY ActiveSave DEF InLoop, Active, KeptInv, Inv
<1> QED BY <1>1, <1>2 DEF KeptInv, HasLoop

LEMMA FinishLoop ==
  ASSUME KeptInv, NEW r \in Reqs, InLoop(r), Finish(r)
  PROVE  HasLoop' /\ req' = [req EXCEPT ![r] = Idle]
<1>1. req' = [req EXCEPT ![r] = Idle] /\ loop' = [loop EXCEPT ![req[r].worker] = NoReq]
  BY DEF Finish
<1>2. \A v \in Workers : loop'[v] = loop[v] \/ loop[v] = r
  BY <1>1 DEF KeptInv, HasLoop, Inv, TypeOK
<1> QED BY <1>1, <1>2, EndFiles

LEMMA CompareFiles ==
  ASSUME KeptInv, NEW r \in Reqs, Compare(r)
  PROVE  HasLoop' /\ Origins' /\ FilesKept' /\ Late'
<1>0. At(r, "compare") /\ UNCHANGED <<file, gen, rows, vault, sent, kept, origin>>
  BY DEF Compare
<1>1. CASE req[r].base = file
  <2>1. Advance(r, "compare", "replace") /\ loop' = loop
    BY <1>1 DEF Compare
  <2>2. /\ req'[r] = [req[r] EXCEPT !.phase = "replace"] /\ req[r] \in Save
        /\ \A q \in Reqs : q # r => req'[q] = req[q]
        /\ \A q \in Reqs : Active(q)' <=> Active(q)
    BY <2>1, Advanced
  <2>3. HasLoop'
    BY <1>0, <2>1, <2>2 DEF KeptInv, HasLoop, InLoop
  <2> QED BY <1>0, <1>1, <2>2, <2>3, QuietFiles DEF Written, Refused, Waiting
<1>2. CASE req[r].base # file
  <2>1. HasLoop' /\ req' = [req EXCEPT ![r] = Idle]
    BY <1>0, <1>2, FinishLoop DEF Compare, InLoop
  <2>2. \A q \in Reqs : Active(q)' => q # r /\ Active(q) /\ req'[q] = req[q]
    BY <2>1, Ended
  <2> QED BY <1>0, <2>1, <2>2, QuietFiles DEF Written, Refused, Waiting
<1> QED BY <1>1, <1>2

LEMMA FailsFiles ==
  ASSUME KeptInv, NEW r \in Reqs, Fails(r)
  PROVE  HasLoop' /\ Origins' /\ FilesKept' /\ Late'
<1>0. /\ UNCHANGED <<file, gen, rows, vault, sent, kept, origin>>
      /\ req' = [req EXCEPT ![r] = Idle]
      /\ loop' = [w \in Workers |-> IF loop[w] = r THEN NoReq ELSE loop[w]]
  BY DEF Fails
<1>1. HasLoop'
  BY <1>0, EndFiles
<1>2. \A q \in Reqs : Active(q)' => q # r /\ Active(q) /\ req'[q] = req[q]
  BY <1>0, Ended
<1> QED BY <1>0, <1>1, <1>2, QuietFiles DEF Written, Refused, Waiting

(* The file is replaced: whoever was waiting for the loop has another base.*)
LEMMA ReplaceFiles ==
  ASSUME KeptInv, NEW r \in Reqs, Replace(r)
  PROVE  HasLoop' /\ Origins' /\ FilesKept' /\ Late'
<1>0. /\ At(r, "replace") /\ file' = req[r].body
      /\ UNCHANGED <<gen, rows, vault, loop, sent, kept, origin>>
  BY DEF Replace, Advance
<1>1. /\ req'[r] = [req[r] EXCEPT !.phase = "keep"] /\ req[r] \in Save
      /\ \A q \in Reqs : q # r => req'[q] = req[q]
      /\ \A q \in Reqs : Active(q)' <=> Active(q)
  BY Advanced DEF Replace
<1>2. HasLoop'
  BY <1>0, <1>1 DEF KeptInv, HasLoop, InLoop
<1>3. Origins'
  BY <1>0, <1>1 DEF KeptInv, Origins
<1>4. FilesKept'
  BY <1>0, <1>1 DEF KeptInv, FilesKept, HasFile
<1>5. \A q \in Reqs : Active(q) => req[q].base # file'
  BY <1>0 DEF KeptInv, Inv, Fresh, NotYetWritten
<1>6. \A q \in Reqs : Active(q) /\ q # r /\ req[q].worker = req[r].worker => Waiting(q)
  <2>1. \A q \in Reqs : Active(q) /\ ~InLoop(q) => Waiting(q)
    BY ActiveSave DEF InLoop, Active, Waiting, KeptInv, Inv
  <2> QED BY <1>0, <2>1 DEF KeptInv, HasLoop, InLoop
<1>7. Late'
  <2>1. ASSUME NEW p \in Reqs, NEW q \in Reqs, Written(p)', Active(q)', q # p,
               req'[q].worker = req'[p].worker
        PROVE  Refused(q)'
    <3>1. CASE p = r
      BY <1>1, <1>5, <1>6, <2>1, <3>1 DEF Refused, Waiting
    <3>2. CASE p # r
      <4>1. Written(p) /\ Active(q) /\ req[q].worker = req[p].worker
        BY <1>1, <2>1, <3>2 DEF Written
      <4>2. Refused(q) /\ q # r
        BY <1>0, <2>1, <4>1 DEF KeptInv, Late, Refused, Waiting
      <4> QED BY <1>1, <1>5, <4>1, <4>2 DEF Refused, Waiting
    <3> QED BY <3>1, <3>2
  <2>2. ASSUME NEW k \in kept, NEW q \in Reqs, Active(q)', ~At(q, "commit")',
               req'[q].worker = origin[k.body], req'[q].seen.next <= k.seq
        PROVE  Refused(q)'
    <3>1. /\ Active(q) /\ ~At(q, "commit") /\ req[q].worker = origin[k.body]
          /\ req[q].seen.next <= k.seq
      BY <1>0, <1>1, <2>2 DEF Active
    <3>2. Refused(q) /\ q # r
      BY <1>0, <3>1 DEF KeptInv, Late, Refused, Waiting
    <3> QED BY <1>1, <1>5, <3>1, <3>2 DEF Refused, Waiting
  <2> QED BY <1>0, <2>1, <2>2 DEF Late
<1> QED BY <1>2, <1>3, <1>4, <1>7

(* A generation file is written: over one of another process, or over one  *)
(* that no confirmed save stands for.                                      *)
LEMMA KeepFiles ==
  ASSUME KeptInv, NEW r \in Reqs, Keep(r)
  PROVE  HasLoop' /\ Origins' /\ FilesKept' /\ Late'
<1> DEFINE n == req[r].seen.next
<1>0. /\ At(r, "keep") /\ gen' = [gen EXCEPT ![n] = req[r].body]
      /\ UNCHANGED <<file, rows, vault, loop, sent, kept, origin>>
  BY DEF Keep, Advance
<1>1. /\ req'[r] = [req[r] EXCEPT !.phase = "commit"] /\ req[r] \in Save /\ Active(r)
      /\ \A q \in Reqs : q # r => req'[q] = req[q]
      /\ \A q \in Reqs : Active(q)' <=> Active(q)
  BY Advanced DEF Keep
<1>2. \A m \in Seqs : gen'[m] = IF m = n THEN req[r].body ELSE gen[m]
  BY <1>0 DEF KeptInv, Inv, TypeOK
<1>3. HasLoop'
  BY <1>0, <1>1 DEF KeptInv, HasLoop, InLoop
<1>4. /\ req[r].body \in 1..sent /\ n \in Seqs
      /\ origin[req[r].body] = req[r].worker
  BY <1>1 DEF KeptInv, Inv, Fresh, Origins, Counting
<1>5. Origins'
  BY <1>0, <1>1, <1>2, <1>4 DEF KeptInv, Origins
<1>6. FilesKept'
  <2>1. ASSUME NEW k \in kept PROVE rows[k.seq] = k.body /\ HasFile(k.seq, k.body, origin[k.body])'
    <3>1. k.seq \in Seqs
      BY DEF KeptInv, Inv, TypeOK
    <3>2. k.seq = n => req[r].worker # origin[k.body]
      <4> SUFFICES ASSUME k.seq = n, req[r].worker = origin[k.body] PROVE FALSE
        OBVIOUS
      <4>1. n <= k.seq
        BY <1>4
      <4>2. Refused(r)
        BY <1>0, <1>1, <4>1 DEF KeptInv, Late
      <4> QED BY <1>0, <4>2 DEF Refused, Waiting
    <3> QED BY <1>0, <1>2, <1>4, <3>1, <3>2 DEF KeptInv, FilesKept, HasFile
  <2>2. ASSUME NEW q \in Reqs, At(q, "commit")'
        PROVE  HasFile(req[q].seen.next, req[q].body, req[q].worker)'
    <3>1. CASE q = r
      BY <1>1, <1>2, <1>4, <3>1 DEF HasFile
    <3>2. CASE q # r
      <4>1. At(q, "commit") /\ req'[q] = req[q] /\ req[q].seen.next \in Seqs
        BY <1>1, <2>2, <3>2 DEF KeptInv, Inv, Counting, Active
      <4>2. req[q].worker # req[r].worker
        BY <1>0, <3>2, <4>1 DEF KeptInv, HasLoop, InLoop
      <4> QED BY <1>0, <1>2, <1>4, <4>1, <4>2 DEF KeptInv, FilesKept, HasFile
    <3> QED BY <3>1, <3>2
  <2> QED BY <1>0, <2>1, <2>2 DEF FilesKept
<1>7. Late'
  <2>1. \A q \in Reqs : q # r => (Refused(q)' <=> Refused(q))
    BY <1>0, <1>1 DEF Refused, Waiting
  <2>2. \A p \in Reqs : Written(p)' <=> Written(p)
    BY <1>0, <1>1 DEF Written
  <2>3. ~Refused(r) /\ ~Refused(r)' /\ Written(r)
    BY <1>0, <1>1 DEF Refused, Waiting, Written
  <2>4. ASSUME NEW p \in Reqs, NEW q \in Reqs, Written(p)', Active(q)', q # p,
               req'[q].worker = req'[p].worker
        PROVE  Refused(q)'
    <3>1. Written(p) /\ Active(q) /\ req[q].worker = req[p].worker
      BY <1>1, <2>2, <2>4
    <3> QED BY <2>1, <2>3, <2>4, <3>1 DEF KeptInv, Late
  <2>5. ASSUME NEW k \in kept, NEW q \in Reqs, Active(q)', ~At(q, "commit")',
               req'[q].worker = origin[k.body], req'[q].seen.next <= k.seq
        PROVE  Refused(q)'
    <3>1. q # r /\ req'[q] = req[q]
      BY <1>1, <2>5
    <3> QED BY <1>1, <2>1, <2>5, <3>1 DEF KeptInv, Late
  <2> QED BY <1>0, <2>4, <2>5 DEF Late
<1> QED BY <1>3, <1>5, <1>6, <1>7

LEMMA CommitFiles ==
  ASSUME KeptInv, NEW r \in Reqs, Commit(r)
  PROVE  HasLoop' /\ Origins' /\ FilesKept' /\ Late'
<1>0. At(r, "commit") /\ Finish(r) /\ UNCHANGED <<file, gen, sent, origin>>
  BY DEF Commit
<1>1. HasLoop' /\ req' = [req EXCEPT ![r] = Idle]
  BY <1>0, FinishLoop DEF InLoop
<1>2. \A q \in Reqs : Active(q)' => q # r /\ Active(q) /\ req'[q] = req[q]
  BY <1>1, Ended
<1>3. \A q \in Reqs : Active(q)' /\ Refused(q) => Refused(q)'
  BY <1>0, <1>2 DEF Refused, Waiting
<1>4. CASE ~FlushApplies(r)
  <2>1. UNCHANGED <<rows, kept>>
    BY <1>4 DEF Commit
  <2> QED BY <1>0, <1>1, <1>2, <1>3, <2>1, QuietFiles DEF Written
<1>5. CASE FlushApplies(r)
  <2> DEFINE new == [seq |-> req[r].seen.next, body |-> req[r].body, base |-> req[r].base]
  <2>1. rows' = [rows EXCEPT ![new.seq] = new.body] /\ kept' = kept \cup {new}
    BY <1>5 DEF Commit
  <2>2. /\ new.seq \in Seqs /\ new.body \in 1..sent /\ Active(r)
        /\ origin[new.body] = req[r].worker /\ rows[new.seq] = Nothing
    BY <1>0, <1>5 DEF KeptInv, Inv, Counting, Fresh, Origins, Active, FlushApplies
  <2>3. Origins'
    BY <1>0, <1>2, <2>1, <2>2 DEF KeptInv, Origins
  <2>4. \A m \in Seqs : rows'[m] = IF m = new.seq THEN new.body ELSE rows[m]
    BY <2>1 DEF KeptInv, Inv, TypeOK
  <2>5. \A k \in kept : k.seq \in Seqs /\ k.seq # new.seq
    <3>1. \A k \in kept : k.seq \in Seqs
      BY DEF KeptInv, Inv, TypeOK
    <3>2. \A k \in kept : rows[k.seq] # Nothing
      BY DEF KeptInv, FilesKept, Origins
    <3> QED BY <2>2, <3>1, <3>2
  <2>6. HasFile(new.seq, new.body, req[r].worker)
    BY <1>0 DEF KeptInv, FilesKept
  <2>7. FilesKept'
    <3>1. \A k \in kept' : rows'[k.seq] = k.body /\ HasFile(k.seq, k.body, origin[k.body])
      BY <2>1, <2>2, <2>4, <2>5, <2>6 DEF KeptInv, FilesKept
    <3>2. \A q \in Reqs : At(q, "commit")' =>
            /\ At(q, "commit") /\ req'[q] = req[q]
      BY <1>2 DEF Active
    <3> QED BY <1>0, <3>1, <3>2 DEF KeptInv, FilesKept, HasFile
  <2>8. Late'
    <3>1. ASSUME NEW p \in Reqs, NEW q \in Reqs, Written(p)', Active(q)', q # p,
                 req'[q].worker = req'[p].worker
          PROVE  Refused(q)'
      <4>1. Active(p)'
        BY <3>1 DEF Active, Written
      <4>2. Written(p) /\ Active(q) /\ req[q].worker = req[p].worker
        BY <1>2, <3>1, <4>1 DEF Written
      <4> QED BY <1>3, <3>1, <4>2 DEF KeptInv, Late
    <3>2. ASSUME NEW k \in kept', NEW q \in Reqs, Active(q)', ~At(q, "commit")',
                 req'[q].worker = origin[k.body], req'[q].seen.next <= k.seq
          PROVE  Refused(q)'
      <4>1. q # r /\ Active(q) /\ req'[q] = req[q]
        BY <1>2, <3>2
      <4>2. CASE k \in kept
        <5>1. Refused(q)
          BY <3>2, <4>1, <4>2 DEF KeptInv, Late
        <5> QED BY <1>3, <3>2, <5>1
      <4>3. CASE k = new
        <5>1. Written(r) /\ req[q].worker = req[r].worker
          BY <1>0, <2>2, <3>2, <4>1, <4>3 DEF Written
        <5>2. Refused(q)
          BY <4>1, <5>1 DEF KeptInv, Late
        <5> QED BY <1>3, <3>2, <5>2
      <4> QED BY <2>1, <4>2, <4>3
    <3> QED BY <1>0, <3>1, <3>2 DEF Late
  <2> QED BY <1>1, <2>3, <2>7, <2>8
<1> QED BY <1>4, <1>5

LEMMA KeptInductive == KeptInv /\ [Next]_vars => KeptInv'
<1> SUFFICES ASSUME KeptInv, [Next]_vars PROVE KeptInv'
  OBVIOUS
<1>1. Inv'
  BY InvInductive DEF KeptInv
<1>2. CASE Next
  <2>1. HasLoop' /\ Origins' /\ FilesKept' /\ Late'
    BY <1>2, BeginFiles, BodyComesFiles, CompareFiles, ReplaceFiles, KeepFiles, CommitFiles,
       FailsFiles DEF Next
  <2> QED BY <1>1, <2>1 DEF KeptInv
<1>3. CASE UNCHANGED vars
  <2>1. HasLoop' /\ Origins' /\ FilesKept' /\ Late'
    BY <1>3 DEF vars, KeptInv, HasLoop, Origins, FilesKept, Late, HasFile, InLoop, Active,
                Written, Waiting, Refused
  <2> QED BY <1>1, <2>1 DEF KeptInv
<1> QED BY <1>2, <1>3

(* For any number of processes and saves: a confirmed save stays in the    *)
(* history, and its content does, unless a save of another process takes   *)
(* the same number.                                                        *)
THEOREM ConfirmedStays == Spec => []ConfirmedIsKept
<1>1. KeptInv => ConfirmedIsKept
  BY DEF KeptInv, FilesKept, HasFile, ConfirmedIsKept
<1> QED BY <1>1, KeptInit, KeptInductive, PTL DEF Spec
=============================================================================

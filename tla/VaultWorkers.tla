---------------------------- MODULE VaultWorkers ----------------------------
(***************************************************************************)
(* Saves of one vault when the service runs in several worker processes,   *)
(* as the settings allow.  Each process has an event loop and a write      *)
(* mutex of its own; file and database are common to all.                  *)
(*                                                                         *)
(* VaultStore is about one process and everything that happens there; this *)
(* module keeps of it what a save does between its body and its answer.    *)
(* The saves come from tabs of one person, which share one lock token, so  *)
(* the lock refuses none of them.                                          *)
(***************************************************************************)
EXTENDS Naturals

CONSTANTS
  Workers,   \* the processes
  Reqs,      \* identities of saves that can overlap
  NoReq,     \* nobody
  MaxSaves,  \* bound: how many saves are sent
  MaxSeq     \* bound: the highest generation number

ASSUME WorkersAssumption == MaxSaves \in Nat /\ MaxSeq \in Nat /\ NoReq \notin Reqs

VARIABLES
  file,   \* the current file
  gen,    \* the generation files
  rows,   \* the committed generation rows
  vault,  \* the committed vault row: [etag, next]
  req,    \* the saves under way
  loop,   \* per process: the save that occupies its event loop
  sent,   \* how many saves were sent
  kept,   \* history: of each confirmed save its number, content and base
  origin  \* history: the process to which each content was sent

vars == <<file, gen, rows, vault, req, loop, sent, kept, origin>>

Nothing == 0
Contents == 0..MaxSaves
Seqs == 1..MaxSeq
VaultRow == [etag : Contents, next : 1..MaxSeq + 1]
Idle == [phase |-> "idle"]
Save == [phase : {"body", "compare", "replace", "keep", "commit"}, worker : Workers,
         base : Contents, body : Contents, seen : VaultRow]

TypeOK ==
  /\ file \in Contents
  /\ gen \in [Seqs -> Contents] /\ rows \in [Seqs -> Contents]
  /\ vault \in VaultRow
  /\ req \in [Reqs -> Save \cup {Idle}]
  /\ loop \in [Workers -> Reqs \cup {NoReq}]
  /\ sent \in Contents
  /\ kept \subseteq [seq : Seqs, body : Contents, base : Contents]
  /\ origin \in [1..MaxSaves -> Workers \cup {NoReq}]

Init ==
  /\ file = Nothing
  /\ gen = [n \in Seqs |-> Nothing] /\ rows = [n \in Seqs |-> Nothing]
  /\ vault = [etag |-> Nothing, next |-> 1]
  /\ req = [r \in Reqs |-> Idle]
  /\ loop = [w \in Workers |-> NoReq]
  /\ sent = 0 /\ kept = {}
  /\ origin = [c \in 1..MaxSaves |-> NoReq]

At(r, phase) == req[r].phase = phase
Advance(r, from, to) == At(r, from) /\ req' = [req EXCEPT ![r].phase = to]
Finish(r) ==
  /\ req' = [req EXCEPT ![r] = Idle]
  /\ loop' = [loop EXCEPT ![req[r].worker] = NoReq]

(* write_content, on the loop of process w: the vault row is loaded.  The  *)
(* tab sends the ETag of the file it has just read; an older one would     *)
(* only be refused.                                                        *)
BeginSave(r, w) ==
  /\ At(r, "idle") /\ loop[w] = NoReq
  /\ sent < MaxSaves /\ vault.next \in Seqs
  /\ sent' = sent + 1
  /\ req' = [req EXCEPT ![r] = [phase |-> "body", worker |-> w, base |-> file,
                                body |-> sent + 1, seen |-> vault]]
  /\ origin' = [origin EXCEPT ![sent + 1] = w]
  /\ UNCHANGED <<file, gen, rows, vault, loop, kept>>

(* Broken: an await between here and the commit, and no mutex.             *)
BodyComesBroken(r) ==
  /\ Advance(r, "body", "compare")
  /\ UNCHANGED <<file, gen, rows, vault, loop, sent, kept, origin>>

(* The body is there; from here on the save keeps its loop.                *)
BodyComes(r) ==
  /\ Advance(r, "body", "compare") /\ loop[req[r].worker] = NoReq
  /\ loop' = [loop EXCEPT ![req[r].worker] = r]
  /\ UNCHANGED <<file, gen, rows, vault, sent, kept, origin>>

(* The mutex of this process, and the comparison; 412.                     *)
Compare(r) ==
  /\ At(r, "compare")
  /\ IF req[r].base = file THEN Advance(r, "compare", "replace") /\ UNCHANGED loop
                           ELSE Finish(r)
  /\ UNCHANGED <<file, gen, rows, vault, sent, kept, origin>>

(* storage.write                                                           *)
Replace(r) ==
  /\ Advance(r, "replace", "keep")
  /\ file' = req[r].body
  /\ UNCHANGED <<gen, rows, vault, loop, sent, kept, origin>>

(* history.keep: the number is the loaded row's.                           *)
Keep(r) ==
  /\ Advance(r, "keep", "commit")
  /\ gen' = [gen EXCEPT ![req[r].seen.next] = req[r].body]
  /\ UNCHANGED <<file, rows, vault, loop, sent, kept, origin>>

(* Broken: the schema lets a number stand twice.                           *)
FlushAppliesBroken(r) == TRUE

(* uq_generation_seq                                                       *)
FlushApplies(r) == rows[req[r].seen.next] = Nothing

(* The vault row as this save leaves it.                                   *)
VaultAfter(q) == [etag |-> q.body, next |-> q.seen.next + 1]

(* The commit, and the answer; 500 if the number is taken.                 *)
Commit(r) ==
  /\ At(r, "commit")
  /\ IF FlushApplies(r)
       THEN /\ vault' = VaultAfter(req[r])
            /\ rows' = [rows EXCEPT ![req[r].seen.next] = req[r].body]
            /\ kept' = kept \cup {[seq |-> req[r].seen.next, body |-> req[r].body,
                                   base |-> req[r].base]}
       ELSE UNCHANGED <<vault, rows, kept>>
  /\ Finish(r)
  /\ UNCHANGED <<file, gen, sent, origin>>

(* The save ends before its commit, wherever it is: no body, a file that   *)
(* cannot be read or written, the database busy at the commit (503), or an *)
(* end of the whole process, which ends each save in it.  What has been    *)
(* written to files by then stays.                                         *)
Fails(r) ==
  /\ ~At(r, "idle")
  /\ req' = [req EXCEPT ![r] = Idle]
  /\ loop' = [w \in Workers |-> IF loop[w] = r THEN NoReq ELSE loop[w]]
  /\ UNCHANGED <<file, gen, rows, vault, sent, kept, origin>>

Next ==
  \E r \in Reqs :
    \/ \E w \in Workers : BeginSave(r, w)
    \/ BodyComes(r) \/ Compare(r) \/ Replace(r) \/ Keep(r) \/ Commit(r) \/ Fails(r)

Spec == Init /\ [][Next]_vars

-----------------------------------------------------------------------------
(* Properties                                                              *)

(* Of two saves based on the same content at most one is confirmed, also   *)
(* if they run in different processes: what the mutex cannot do there, the *)
(* generation counter and its constraint do.                               *)
OneWinner == \A k, l \in kept : k.base = l.base => k = l

(* The comment at the mutex: no write vanishes without a trace.  A         *)
(* confirmed save stays in the history; its content does, too, unless a    *)
(* save in another process, whose mutex is another one, has taken the same *)
(* number: the code does not exclude that, see the README, disagreements.  *)
ConfirmedIsKept ==
  \A k \in kept :
    /\ rows[k.seq] = k.body
    /\ gen[k.seq] = k.body \/ origin[gen[k.seq]] # origin[k.body]
=============================================================================

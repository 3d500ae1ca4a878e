----------------------------- MODULE BackupHooks -----------------------------
(***************************************************************************)
(* The backup scripts that run after a vault was saved or restored.        *)
(*                                                                         *)
(* A handler adds the run as a background task; the commit follows, then   *)
(* the answer, and then the task is given to the pool of worker threads.   *)
(* A run keeps its thread until its last script has ended.  Every request  *)
(* needs a thread of the same pool too, for its dependencies, before its   *)
(* handler begins, and a restore another one for its handler; saves are    *)
(* handled by the event loop.                                              *)
(***************************************************************************)
EXTENDS Naturals, FiniteSets

CONSTANTS
  Saves,       \* saves and restores of one vault, each sent once
  Restores,    \* those that are restores
  MaxScripts,  \* bound: how many scripts there are
  Threads,     \* how many threads the pool has
  MaxRestarts  \* bound: how often the service restarts

ASSUME HooksAssumption ==
  /\ IsFiniteSet(Saves) /\ Restores \subseteq Saves
  /\ MaxScripts \in Nat /\ Threads \in Nat \ {0} /\ MaxRestarts \in Nat

VARIABLES
  scripts,   \* how many scripts lie in the directory
  file,      \* which content the vault's file has: how often it was written
  next,      \* the committed counter of generations
  save,      \* where each save is
  number,    \* the generation a save has in its hand, 0 before
  wrote,     \* which content a save has written, 0 before
  script,    \* the script a run is at
  restarts,  \* how often the service has restarted
  ran,       \* history: <<save, script, content of the file then>>
  lost,      \* history: the saves whose run a restart has cut off
  raised     \* history: the saves whose run an exception has ended

kept == <<scripts, restarts, lost, raised>>
vars == <<file, next, save, number, wrote, script, ran, kept>>

Generations == Nat

(* "asks" and "task" wait for a thread; "deps" and "runs" have one, and so *)
(* has a restore that is "loaded".                                         *)
Phases == {"new", "asks", "deps", "ready", "loaded", "written", "task", "runs",
           "done", "failed"}
In(phase) == {s \in Saves : save[s] = phase}
Goes(s, phase) == save' = [save EXCEPT ![s] = phase]
Moves(s, from, to) == save[s] = from /\ Goes(s, to)

ThreadFree ==
  Cardinality(In("deps") \cup In("runs") \cup (In("loaded") \cap Restores)) < Threads

(* A save that has written keeps the event loop until its commit.          *)
LoopFree(s) == In("written") \subseteq Restores \cup {s}

TypeOK ==
  /\ scripts \in 0..MaxScripts
  /\ file \in Nat /\ next \in Generations \ {0}
  /\ save \in [Saves -> Phases]
  /\ number \in [Saves -> Generations] /\ wrote \in [Saves -> Nat]
  /\ script \in [Saves -> 0..(MaxScripts + 1)]
  /\ restarts \in 0..MaxRestarts
  /\ ran \subseteq Saves \X (1..MaxScripts) \X Nat
  /\ lost \subseteq Saves /\ raised \subseteq Saves

Init ==
  /\ scripts \in 0..MaxScripts
  /\ file = 0 /\ next = 1
  /\ save = [s \in Saves |-> "new"]
  /\ number = [s \in Saves |-> 0] /\ wrote = [s \in Saves |-> 0]
  /\ script = [s \in Saves |-> 0]
  /\ restarts = 0 /\ ran = {} /\ lost = {} /\ raised = {}

-----------------------------------------------------------------------------
(* The request                                                             *)

Send(s) ==
  /\ Moves(s, "new", "asks")
  /\ UNCHANGED <<file, next, number, wrote, script, ran, kept>>

(* get_db, the session, the account: functions that need a thread.         *)
Dependencies(s) ==
  /\ Moves(s, "asks", "deps") /\ ThreadFree
  /\ UNCHANGED <<file, next, number, wrote, script, ran, kept>>

Depends(s) ==
  /\ Moves(s, "deps", "ready")
  /\ UNCHANGED <<file, next, number, wrote, script, ran, kept>>

(* The handler begins: the vault row is loaded, and with it the number of  *)
(* the generation to be made.  A save waits for its body then.             *)
Load(s) ==
  /\ Moves(s, "ready", "loaded")
  /\ s \in Restores => ThreadFree
  /\ number' = [number EXCEPT ![s] = next]
  /\ UNCHANGED <<file, next, wrote, script, ran, kept>>

(* Broken: the generation is kept, the file itself is not replaced.        *)
WriteBroken(s) ==
  /\ Moves(s, "loaded", "written")
  /\ s \notin Restores => LoopFree(s)
  /\ wrote' = [wrote EXCEPT ![s] = file + 1]
  /\ UNCHANGED <<file, next, number, script, ran, kept>>

(* write_content, restore_generation: the file is replaced, the generation *)
(* kept, the task added.  The mutex and the loop are for saves; a restore  *)
(* writes in its thread, whatever the others do.                           *)
Write(s) ==
  /\ Moves(s, "loaded", "written")
  /\ s \notin Restores => LoopFree(s)
  /\ file' = file + 1 /\ wrote' = [wrote EXCEPT ![s] = file']
  /\ UNCHANGED <<next, number, script, ran, kept>>

(* The commit, of a number nobody has taken (uq_generation_seq), and the   *)
(* answer.                                                                 *)
Answer(s) ==
  /\ Moves(s, "written", "task") /\ LoopFree(s)
  /\ number[s] = next
  /\ next' = next + 1
  /\ UNCHANGED <<file, number, wrote, script, ran, kept>>

(* The handler or the commit fails: no answer, and no task.                *)
Refuse(s) ==
  /\ save[s] \in {"loaded", "written"} /\ Goes(s, "failed")
  /\ UNCHANGED <<file, next, number, wrote, script, ran, kept>>

(* Broken: the scripts start with the handler's end.                       *)
StartRunBroken(s) ==
  /\ save[s] \in {"written", "task"} /\ Goes(s, "runs") /\ ThreadFree
  /\ script' = [script EXCEPT ![s] = 1]
  /\ UNCHANGED <<file, next, number, wrote, ran, kept>>

(* run_all, in a thread: the scripts in name order.                        *)
StartRun(s) ==
  /\ Moves(s, "task", "runs") /\ ThreadFree
  /\ script' = [script EXCEPT ![s] = 1]
  /\ UNCHANGED <<file, next, number, wrote, ran, kept>>

(* Broken: a script that fails or is ended after its time ends the run.    *)
RunScriptBroken(s) ==
  /\ save[s] = "runs" /\ script[s] \in 1..scripts
  /\ ran' = ran \cup {<<s, script[s], file>>}
  /\ \/ script' = [script EXCEPT ![s] = @ + 1] /\ UNCHANGED save
     \/ Goes(s, "done") /\ UNCHANGED script
  /\ UNCHANGED <<file, next, number, wrote, kept>>

(* Broken: the run goes one script too far.                                *)
RunScriptPastBroken(s) ==
  /\ save[s] = "runs" /\ script[s] \in 1..(scripts + 1)
  /\ ran' = ran \cup {<<s, script[s], file>>}
  /\ script' = [script EXCEPT ![s] = @ + 1]
  /\ UNCHANGED <<file, next, save, number, wrote, kept>>

(* _run_one: the script finds the vault's file as it is now.  Whether it   *)
(* succeeds, fails, cannot be started or is ended after 120 seconds, the   *)
(* next one follows.                                                       *)
RunScript(s) ==
  /\ save[s] = "runs" /\ script[s] \in 1..scripts
  /\ ran' = ran \cup {<<s, script[s], file>>}
  /\ script' = [script EXCEPT ![s] = @ + 1]
  /\ UNCHANGED <<file, next, save, number, wrote, kept>>

(* It writes something that is not UTF-8 (text=True): UnicodeDecodeError,  *)
(* which nothing catches, and the scripts after it do not run.             *)
RunRaises(s) ==
  /\ save[s] = "runs" /\ script[s] \in 1..scripts
  /\ ran' = ran \cup {<<s, script[s], file>>}
  /\ Goes(s, "done") /\ script' = [script EXCEPT ![s] = 0]
  /\ raised' = raised \cup {s}
  /\ UNCHANGED <<scripts, file, next, number, wrote, restarts, lost>>

EndRun(s) ==
  /\ script[s] > scripts /\ Moves(s, "runs", "done")
  /\ script' = [script EXCEPT ![s] = 0]
  /\ UNCHANGED <<file, next, number, wrote, ran, kept>>

(* What is under way is gone; nothing remembers the runs.                  *)
Restart ==
  /\ restarts < MaxRestarts
  /\ restarts' = restarts + 1
  /\ save' = [s \in Saves |-> IF save[s] \in {"new", "done"} THEN save[s] ELSE "failed"]
  /\ script' = [s \in Saves |-> 0]
  /\ lost' = lost \cup In("task") \cup In("runs")
  /\ UNCHANGED <<scripts, file, next, number, wrote, ran, raised>>

Step(s) ==
  Dependencies(s) \/ Depends(s) \/ Load(s) \/ Write(s) \/ Answer(s)
    \/ StartRun(s) \/ RunScript(s) \/ RunRaises(s) \/ EndRun(s)

Next == Restart \/ \E s \in Saves : Send(s) \/ Step(s) \/ Refuse(s)

Spec == Init /\ [][Next]_vars

(* Every thread and the loop run on, and every script ends (TIMEOUT).      *)
FairSpec == Spec /\ \A s \in Saves : SF_vars(Step(s))

-----------------------------------------------------------------------------
(* Properties                                                              *)

(* Scripts run for saves that have been committed and answered, never for  *)
(* one that was refused, and each at most once.                            *)
OnlyAfterTheAnswer ==
  \A t \in ran :
    /\ number[t[1]] \in 1..(next - 1)
    /\ \A u \in ran : t[1] = u[1] /\ t[2] = u[2] => t = u

(* FUN-108: after every save every script runs, however slow the others    *)
(* are, whether they fail, and whoever else saves or restores; unless the  *)
(* service is stopped, or the output of one cannot be read: the code does  *)
(* not exclude these, see the README, disagreements.                       *)
RanFor(s) == \A i \in 1..scripts : \E t \in ran : t[1] = s /\ t[2] = i
EveryScriptRuns == \A s \in Saves : save[s] = "task" ~> RanFor(s) \/ s \in lost \cup raised

(* A script never finds an older content than the one its save has         *)
(* written, so no save goes without its backup - although by then the file *)
(* may be another's, even that of a restore that was refused.              *)
NothingOlder == \A t \in ran : t[3] >= wrote[t[1]]

(* The file a script is pointed at is the one just saved: what it finds is *)
(* the generation it is told (tests/test_hooks.py).  The code does not     *)
(* keep this: see the README, disagreements.                               *)
ScriptsFindTheirGeneration == \A t \in ran : t[3] = wrote[t[1]]

(* Nothing here may raise (hooks.py), a failing script concerns no other   *)
(* (FUN-110).  The code does not keep this.                                *)
NothingRaises == raised = {}

(* A slow script never delays a save (hooks.py): no save waits for a       *)
(* thread while all of them run scripts.  The code does not keep this.     *)
ScriptsDelayNoSave == ~(In("asks") # {} /\ Cardinality(In("runs")) = Threads)
=============================================================================

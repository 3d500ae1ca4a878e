------------------------- MODULE BackupHooksProofs -------------------------
(***************************************************************************)
(* Backup scripts run for committed and answered saves only, each at most  *)
(* once, and never find an older content, for every number of saves,       *)
(* scripts, threads and restarts.                                          *)
(***************************************************************************)
EXTENDS BackupHooks, TLAPS

USE DEF In, Goes, Moves, Generations, kept

LEMMA InitType == Init => TypeOK
  BY HooksAssumption DEF Init, TypeOK, Phases

(* A request goes on to where nothing but its place changes.               *)
Steps(s) == Send(s) \/ Dependencies(s) \/ Depends(s) \/ Refuse(s)

LEMMA NextType == TypeOK /\ [Next]_vars => TypeOK'
<1> SUFFICES ASSUME TypeOK, [Next]_vars PROVE TypeOK'
  OBVIOUS
<1> USE HooksAssumption DEF TypeOK, Phases
<1>1. ASSUME NEW s \in Saves, Steps(s) PROVE TypeOK'
  BY <1>1 DEF Steps, Send, Dependencies, Depends, Refuse
<1>2. ASSUME NEW s \in Saves, Write(s) PROVE TypeOK'
  BY <1>2 DEF Write
<1>9. ASSUME NEW s \in Saves, Load(s) PROVE TypeOK'
  BY <1>9 DEF Load
<1>3. ASSUME NEW s \in Saves, Answer(s) PROVE TypeOK'
  BY <1>3 DEF Answer
<1>4. ASSUME NEW s \in Saves, StartRun(s) PROVE TypeOK'
  BY <1>4 DEF StartRun
<1>5. ASSUME NEW s \in Saves, RunScript(s) PROVE TypeOK'
  <2>1. script[s] \in 1..MaxScripts /\ script[s] + 1 \in 0..(MaxScripts + 1)
    BY <1>5 DEF RunScript
  <2>2. <<s, script[s], file>> \in Saves \X (1..MaxScripts) \X Nat
    BY <2>1
  <2>3. script' \in [Saves -> 0..(MaxScripts + 1)]
    BY <1>5, <2>1 DEF RunScript
  <2> QED BY <1>5, <2>2, <2>3 DEF RunScript
<1>6. ASSUME NEW s \in Saves, EndRun(s) PROVE TypeOK'
  BY <1>6 DEF EndRun
<1>7. CASE Restart
  BY <1>7 DEF Restart
<1>8. CASE UNCHANGED vars
  BY <1>8 DEF vars
<1>10. ASSUME NEW s \in Saves, RunRaises(s) PROVE TypeOK'
  <2>1. <<s, script[s], file>> \in Saves \X (1..MaxScripts) \X Nat
    BY <1>10 DEF RunRaises
  <2>2. script' \in [Saves -> 0..(MaxScripts + 1)]
    BY <1>10 DEF RunRaises
  <2> QED BY <1>10, <2>1, <2>2 DEF RunRaises
<1> QED BY <1>1, <1>2, <1>3, <1>4, <1>5, <1>6, <1>7, <1>8, <1>9, <1>10
        DEF Next, Step, Steps

(* The variables have their types.                                         *)
THEOREM TypeCorrect == Spec => []TypeOK
<1> QED BY InitType, NextType, PTL DEF Spec

-----------------------------------------------------------------------------
(* From the answer on, the generation of a save is below the counter.      *)
Numbered ==
  \A s \in Saves :
    /\ save[s] \in {"loaded", "written"} => number[s] \in 1..next
    /\ save[s] \in {"task", "runs", "done"} => number[s] \in 1..(next - 1)

(* What has run belongs to a save that has been answered, and a run that   *)
(* is under way has its next script before it.                             *)
Behind ==
  \A t \in ran :
    /\ save[t[1]] \in {"runs", "done", "failed"}
    /\ save[t[1]] = "runs" => t[2] < script[t[1]]

(* The file only gets newer.                                               *)
Current == \A s \in Saves : wrote[s] <= file

Inv == TypeOK /\ Numbered /\ Behind /\ OnlyAfterTheAnswer /\ Current /\ NothingOlder

LEMMA InitInv == Init => Inv
  BY InitType DEF Init, Inv, Numbered, Behind, OnlyAfterTheAnswer, Current, NothingOlder

LEMMA RanSaves == ASSUME TypeOK, NEW t \in ran PROVE t[1] \in Saves /\ t[2] \in 1..MaxScripts
  BY DEF TypeOK

LEMMA InvInductive == Inv /\ [Next]_vars => Inv'
<1> SUFFICES ASSUME Inv, [Next]_vars PROVE Inv'
  OBVIOUS
<1> USE HooksAssumption
<1>0. TypeOK /\ TypeOK'
  BY NextType DEF Inv
<1>a. \A t \in ran : t[1] \in Saves
  BY <1>0, RanSaves
<1>1. ASSUME NEW s \in Saves, Steps(s) PROVE Inv'
  <2>1. UNCHANGED <<file, next, number, wrote, script, ran>>
    BY <1>1 DEF Steps, Send, Dependencies, Depends, Refuse
  <2>2. \A q \in Saves : q # s => save'[q] = save[q]
    BY <1>0, <1>1 DEF Steps, Send, Dependencies, Depends, Refuse, TypeOK
  <2>3. /\ save[s] \in {"new", "asks", "deps", "loaded", "written"}
        /\ save'[s] \in {"asks", "deps", "ready", "failed"}
    BY <1>0, <1>1 DEF Steps, Send, Dependencies, Depends, Refuse, TypeOK
  <2>4. Numbered'
    BY <2>1, <2>2, <2>3 DEF Inv, Numbered
  <2>5. Behind' /\ OnlyAfterTheAnswer'
    BY <1>a, <2>1, <2>2, <2>3 DEF Inv, Behind, OnlyAfterTheAnswer
  <2>6. Current' /\ NothingOlder'
    BY <2>1, <2>2, <2>3 DEF Inv, Current, NothingOlder
  <2> QED BY <1>0, <2>4, <2>5, <2>6 DEF Inv
<1>9. ASSUME NEW s \in Saves, Load(s) PROVE Inv'
  <2>1. UNCHANGED <<file, next, wrote, script, ran>> /\ save[s] = "ready"
        /\ save'[s] = "loaded" /\ number'[s] = next
    BY <1>0, <1>9 DEF Load, TypeOK
  <2>2. \A q \in Saves : q # s => save'[q] = save[q] /\ number'[q] = number[q]
    BY <1>0, <1>9 DEF Load, TypeOK
  <2>3. Numbered'
    BY <1>0, <2>1, <2>2 DEF Inv, Numbered, TypeOK
  <2>4. \A t \in ran : t[1] # s
    BY <2>1 DEF Inv, Behind
  <2>5. Behind' /\ OnlyAfterTheAnswer'
    BY <1>a, <2>1, <2>2, <2>4 DEF Inv, Behind, OnlyAfterTheAnswer
  <2>6. Current' /\ NothingOlder'
    BY <2>1 DEF Inv, Current, NothingOlder
  <2> QED BY <1>0, <2>3, <2>5, <2>6 DEF Inv
<1>2. ASSUME NEW s \in Saves, Write(s) PROVE Inv'
  <2>1. UNCHANGED <<next, number, script, ran>> /\ save[s] = "loaded" /\ save'[s] = "written"
        /\ wrote'[s] = file + 1 /\ file' = file + 1
    BY <1>0, <1>2 DEF Write, TypeOK
  <2>2. \A q \in Saves : q # s => save'[q] = save[q] /\ wrote'[q] = wrote[q]
    BY <1>0, <1>2 DEF Write, TypeOK
  <2>3. Numbered'
    BY <2>1, <2>2 DEF Inv, Numbered
  <2>4. \A t \in ran : t[1] # s
    BY <2>1 DEF Inv, Behind
  <2>5. Behind' /\ OnlyAfterTheAnswer'
    BY <1>a, <2>1, <2>2, <2>4 DEF Inv, Behind, OnlyAfterTheAnswer
  <2>6. Current'
    BY <1>0, <2>1, <2>2 DEF Inv, Current, TypeOK
  <2>7. NothingOlder'
    BY <1>a, <2>1, <2>2, <2>4 DEF Inv, NothingOlder
  <2> QED BY <1>0, <2>3, <2>5, <2>6, <2>7 DEF Inv
<1>3. ASSUME NEW s \in Saves, Answer(s) PROVE Inv'
  <2>1. UNCHANGED <<file, number, wrote, script, ran>> /\ save[s] = "written"
        /\ save'[s] = "task" /\ next' = next + 1
    BY <1>0, <1>3 DEF Answer, TypeOK
  <2>2. \A q \in Saves : q # s => save'[q] = save[q]
    BY <1>0, <1>3 DEF Answer, TypeOK
  <2>3. \A q \in Saves :
          /\ number[q] \in 1..next => number[q] \in 1..(next' - 1) /\ number[q] \in 1..next'
          /\ number[q] \in 1..(next - 1) => number[q] \in 1..(next' - 1)
    BY <1>0, <2>1 DEF TypeOK
  <2>4. Numbered'
    BY <2>1, <2>2, <2>3 DEF Inv, Numbered
  <2>5. \A t \in ran : t[1] # s
    BY <2>1 DEF Inv, Behind
  <2>6. Behind' /\ OnlyAfterTheAnswer'
    BY <1>a, <2>1, <2>2, <2>3, <2>5 DEF Inv, Behind, OnlyAfterTheAnswer
  <2>7. Current' /\ NothingOlder'
    BY <2>1 DEF Inv, Current, NothingOlder
  <2> QED BY <1>0, <2>4, <2>6, <2>7 DEF Inv
<1>4. ASSUME NEW s \in Saves, StartRun(s) PROVE Inv'
  <2>1. UNCHANGED <<file, next, number, wrote, ran>> /\ save[s] = "task" /\ save'[s] = "runs"
    BY <1>0, <1>4 DEF StartRun, TypeOK
  <2>2. \A q \in Saves : q # s => save'[q] = save[q] /\ script'[q] = script[q]
    BY <1>0, <1>4 DEF StartRun, TypeOK
  <2>3. Numbered'
    BY <2>1, <2>2 DEF Inv, Numbered
  <2>4. \A t \in ran : t[1] # s
    BY <2>1 DEF Inv, Behind
  <2>5. Behind' /\ OnlyAfterTheAnswer'
    BY <1>a, <2>1, <2>2, <2>4 DEF Inv, Behind, OnlyAfterTheAnswer
  <2>6. Current' /\ NothingOlder'
    BY <2>1, <2>2 DEF Inv, Current, NothingOlder
  <2> QED BY <1>0, <2>3, <2>5, <2>6 DEF Inv
<1>5. ASSUME NEW s \in Saves, RunScript(s) PROVE Inv'
  <2> DEFINE new == <<s, script[s], file>>
  <2>1. UNCHANGED <<file, next, number, wrote, save>> /\ save[s] = "runs" /\ ran' = ran \cup {new}
        /\ script'[s] = script[s] + 1 /\ script[s] \in Nat
    BY <1>0, <1>5 DEF RunScript, TypeOK
  <2>2. \A q \in Saves : q # s => script'[q] = script[q]
    BY <1>0, <1>5 DEF RunScript, TypeOK
  <2>3. \A t \in ran : t[2] \in Nat /\ (t[1] = s => t[2] < script[s])
    BY <1>0, <2>1, RanSaves DEF Inv, Behind
  <2>4. new[1] = s /\ new[2] = script[s] /\ new[3] = file
    OBVIOUS
  <2> HIDE DEF new
  <2>5. Numbered'
    BY <2>1 DEF Inv, Numbered
  <2>6. Behind'
    <3>1. ASSUME NEW t \in ran
          PROVE save[t[1]] \in {"runs", "done", "failed"}
                /\ (save[t[1]] = "runs" => t[2] < script'[t[1]])
      BY <1>a, <2>1, <2>2, <2>3 DEF Inv, Behind
    <3> QED BY <2>1, <2>4, <3>1 DEF Behind
  <2>7. OnlyAfterTheAnswer'
    BY <2>1, <2>3, <2>4 DEF Inv, OnlyAfterTheAnswer, Numbered
  <2>8. file >= wrote[s]
    BY <1>0 DEF Inv, Current, TypeOK
  <2>9. Current' /\ NothingOlder'
    BY <2>1, <2>4, <2>8 DEF Inv, Current, NothingOlder
  <2> QED BY <1>0, <2>5, <2>6, <2>7, <2>9 DEF Inv
<1>10. ASSUME NEW s \in Saves, RunRaises(s) PROVE Inv'
  <2> DEFINE new == <<s, script[s], file>>
  <2>1. UNCHANGED <<file, next, number, wrote>> /\ save[s] = "runs" /\ save'[s] = "done"
        /\ ran' = ran \cup {new} /\ script[s] \in Nat
    BY <1>0, <1>10 DEF RunRaises, TypeOK
  <2>2. \A q \in Saves : q # s => save'[q] = save[q] /\ script'[q] = script[q]
    BY <1>0, <1>10 DEF RunRaises, TypeOK
  <2>3. \A t \in ran : t[2] \in Nat /\ (t[1] = s => t[2] < script[s])
    BY <1>0, <2>1, RanSaves DEF Inv, Behind
  <2>4. new[1] = s /\ new[2] = script[s] /\ new[3] = file
    OBVIOUS
  <2> HIDE DEF new
  <2>5. Numbered'
    BY <2>1, <2>2 DEF Inv, Numbered
  <2>6. Behind'
    BY <1>a, <2>1, <2>2, <2>4 DEF Inv, Behind
  <2>7. OnlyAfterTheAnswer'
    BY <2>1, <2>3, <2>4 DEF Inv, OnlyAfterTheAnswer, Numbered
  <2>8. file >= wrote[s]
    BY <1>0 DEF Inv, Current, TypeOK
  <2>9. Current' /\ NothingOlder'
    BY <2>1, <2>4, <2>8 DEF Inv, Current, NothingOlder
  <2> QED BY <1>0, <2>5, <2>6, <2>7, <2>9 DEF Inv
<1>6. ASSUME NEW s \in Saves, EndRun(s) PROVE Inv'
  <2>1. UNCHANGED <<file, next, number, wrote, ran>> /\ save[s] = "runs" /\ save'[s] = "done"
    BY <1>0, <1>6 DEF EndRun, TypeOK
  <2>2. \A q \in Saves : q # s => save'[q] = save[q] /\ script'[q] = script[q]
    BY <1>0, <1>6 DEF EndRun, TypeOK
  <2>3. Numbered'
    BY <2>1, <2>2 DEF Inv, Numbered
  <2>4. Behind' /\ OnlyAfterTheAnswer'
    BY <1>a, <2>1, <2>2 DEF Inv, Behind, OnlyAfterTheAnswer
  <2>5. Current' /\ NothingOlder'
    BY <2>1, <2>2 DEF Inv, Current, NothingOlder
  <2> QED BY <1>0, <2>3, <2>4, <2>5 DEF Inv
<1>7. CASE Restart
  <2>1. UNCHANGED <<file, next, number, wrote, ran>>
    BY <1>7 DEF Restart
  <2>2. \A q \in Saves : \/ save'[q] = save[q] /\ save[q] \in {"new", "done"}
                         \/ save'[q] = "failed"
    BY <1>7 DEF Restart
  <2>3. Numbered'
    BY <2>1, <2>2 DEF Inv, Numbered
  <2>4. Behind' /\ OnlyAfterTheAnswer'
    BY <1>a, <2>1, <2>2 DEF Inv, Behind, OnlyAfterTheAnswer
  <2>5. Current' /\ NothingOlder'
    BY <2>1, <2>2 DEF Inv, Current, NothingOlder
  <2> QED BY <1>0, <2>3, <2>4, <2>5 DEF Inv
<1>8. CASE UNCHANGED vars
  BY <1>0, <1>8 DEF vars, Inv, Numbered, Behind, OnlyAfterTheAnswer, Current, NothingOlder
<1> QED BY <1>1, <1>2, <1>3, <1>4, <1>5, <1>6, <1>7, <1>8, <1>9, <1>10
        DEF Next, Step, Steps

(* Scripts run for committed and answered saves only, and each at most     *)
(* once for a save.                                                        *)
THEOREM ScriptsAfterAnswers == Spec => []OnlyAfterTheAnswer
<1>1. Inv => OnlyAfterTheAnswer
  BY DEF Inv
<1> QED BY <1>1, InitInv, InvInductive, PTL DEF Spec

(* A script never finds an older content than its save has written, with   *)
(* restores beside the saves, too.                                         *)
THEOREM BackupsAreCurrent == Spec => []NothingOlder
<1>1. Inv => NothingOlder
  BY DEF Inv
<1> QED BY <1>1, InitInv, InvInductive, PTL DEF Spec
=============================================================================

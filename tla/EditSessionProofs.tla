------------------------- MODULE EditSessionProofs -------------------------
(***************************************************************************)
(* No edit disappears from a vault through what a tab sends, however many  *)
(* saves are under way, answers lost and sources chosen, unless the edit   *)
(* was made in a hurry or the session is mixed; and what is shown as saved *)
(* has been saved.                                                         *)
(***************************************************************************)
EXTENDS EditSession, TLAPS

LEMMA SaveType ==
  ASSUME TypeOK, NEW i \in Saves
  PROVE  /\ Live(i) => save[i] \in Save
         /\ save[i].phase \in {"encrypting", "picking", "writing", "fallback"} => save[i] \in Unsent
         /\ save[i].phase \in {"sent", "ok"} => save[i] \in Sent
         /\ save[i] \in Save => Live(i)
BY DEF TypeOK, Live, Save, Unsent, Sent, NoSave

LEMMA Put ==
  ASSUME TypeOK, NEW i \in Saves, NEW q \in Save \cup NoSave, save' = [save EXCEPT ![i] = q]
  PROVE  /\ save' \in [Saves -> Save \cup NoSave]
         /\ save'[i] = q /\ \A j \in Saves : j # i => save'[j] = save[j]
<1>1. save \in [Saves -> Save \cup NoSave]
  BY DEF TypeOK
<1> QED BY <1>1

LEMMA EndsPut ==
  ASSUME TypeOK, NEW i \in Saves, Ends(i)
  PROVE  /\ save' \in [Saves -> Save \cup NoSave]
         /\ save'[i] = Ended /\ \A j \in Saves : j # i => save'[j] = save[j]
<1>1. Ended \in Save \cup NoSave
  BY DEF Ended, NoSave
<1> QED BY <1>1, Put DEF Ends

LEMMA BeginsPut ==
  ASSUME TypeOK, NEW i \in Saves, NEW back \in Sessions, Begins(i, back)
  PROVE  /\ save' \in [Saves -> Save \cup NoSave]
         /\ save'[i] \in Unsent /\ save'[i].phase = "encrypting"
         /\ save'[i].text = memory /\ save'[i].begun = loaded
         /\ \A j \in Saves : j # i => save'[j] = save[j]
<1> DEFINE q == [phase |-> "encrypting", text |-> memory, begun |-> loaded,
                 vault |-> NoVault, session |-> back, base |-> 0]
<1>1. q \in Unsent /\ q.phase = "encrypting" /\ q.text = memory /\ q.begun = loaded
  BY DEF TypeOK, Unsent
<1>2. save' = [save EXCEPT ![i] = q]
  BY DEF Begins
<1> HIDE DEF q
<1>3. q \in Save \cup NoSave
  BY <1>1 DEF Save
<1>4. /\ save' \in [Saves -> Save \cup NoSave]
      /\ save'[i] = q /\ \A j \in Saves : j # i => save'[j] = save[j]
  BY <1>2, <1>3, Put
<1> QED BY <1>1, <1>4

(* A save before it is sent goes on to another phase, with its text.       *)
Moves(i) ==
  /\ save' \in [Saves -> Save \cup NoSave]
  /\ save'[i] \in Unsent /\ save'[i].text = save[i].text
  /\ save'[i].begun \in {save[i].begun, 0}
  /\ \A j \in Saves : j # i => save'[j] = save[j]

LEMMA MovesPut ==
  ASSUME TypeOK, NEW i \in Saves, SaveLocally(i) \/ FilePicked(i) \/ FileFails(i)
  PROVE  Moves(i)
<1>0. save[i] \in Unsent
  BY SaveType DEF SaveLocally, FilePicked, FileFails, At
<1>1. ASSUME NEW q \in Unsent, save' = [save EXCEPT ![i] = q],
             q.text = save[i].text, q.begun \in {save[i].begun, 0}
      PROVE  Moves(i)
  <2>1. q \in Save \cup NoSave
    BY DEF Save
  <2>2. /\ save' \in [Saves -> Save \cup NoSave]
        /\ save'[i] = q /\ \A j \in Saves : j # i => save'[j] = save[j]
    BY <1>1, <2>1, Put
  <2> QED BY <1>1, <2>2 DEF Moves
<1>2. save \in [Saves -> Save \cup NoSave]
  BY DEF TypeOK
<1>3. 0 \in Sessions
  BY EditAssumption DEF Sessions
<1>4. CASE save' = [save EXCEPT ![i].phase = "picking", ![i].begun = 0]
  <2> DEFINE q == [save[i] EXCEPT !.phase = "picking", !.begun = 0]
  <2>1. q \in Unsent /\ q.text = save[i].text /\ q.begun = 0
    BY <1>0, <1>3 DEF Unsent
  <2>2. save' = [save EXCEPT ![i] = q]
    BY <1>2, <1>4
  <2> HIDE DEF q
  <2> QED BY <1>1, <2>1, <2>2
<1>5. CASE save' = [save EXCEPT ![i].phase = "writing", ![i].begun = 0, ![i].session = 0]
  <2> DEFINE q == [save[i] EXCEPT !.phase = "writing", !.begun = 0, !.session = 0]
  <2>1. q \in Unsent /\ q.text = save[i].text /\ q.begun = 0
    BY <1>0, <1>3 DEF Unsent
  <2>2. save' = [save EXCEPT ![i] = q]
    BY <1>2, <1>5
  <2> HIDE DEF q
  <2> QED BY <1>1, <2>1, <2>2
<1>6. CASE save' = [save EXCEPT ![i].phase = "writing", ![i].session = 0]
  <2> DEFINE q == [save[i] EXCEPT !.phase = "writing", !.session = 0]
  <2>1. q \in Unsent /\ q.text = save[i].text /\ q.begun = save[i].begun
    BY <1>0, <1>3 DEF Unsent
  <2>2. save' = [save EXCEPT ![i] = q]
    BY <1>2, <1>6
  <2> HIDE DEF q
  <2> QED BY <1>1, <2>1, <2>2
<1>7. CASE save' = [save EXCEPT ![i].phase = "fallback"]
  <2> DEFINE q == [save[i] EXCEPT !.phase = "fallback"]
  <2>1. q \in Unsent /\ q.text = save[i].text /\ q.begun = save[i].begun
    BY <1>0 DEF Unsent
  <2>2. save' = [save EXCEPT ![i] = q]
    BY <1>2, <1>7
  <2> HIDE DEF q
  <2> QED BY <1>1, <2>1, <2>2
<1> QED BY <1>4, <1>5, <1>6, <1>7 DEF SaveLocally, FilePicked, FileFails

LEMMA SentPut ==
  ASSUME TypeOK, NEW i \in Saves, SaveToServer(i)
  PROVE  /\ save' \in [Saves -> Save \cup NoSave]
         /\ save'[i] \in Sent /\ save'[i].phase = "sent"
         /\ save'[i].text = save[i].text /\ save'[i].begun = save[i].begun
         /\ save'[i].vault = source /\ save'[i].session = session /\ save'[i].base = seen.etag
         /\ \A j \in Saves : j # i => save'[j] = save[j]
<1> DEFINE q == [save[i] EXCEPT !.phase = "sent", !.vault = source,
                                !.session = session, !.base = seen.etag]
<1>1. save[i] \in Unsent
  BY SaveType DEF SaveToServer, At
<1>2. source \in Vaults /\ session \in Sessions /\ seen.etag \in ETags
  BY DEF SaveToServer, TypeOK, Places, Source
<1>3. /\ q \in Sent /\ q.phase = "sent" /\ q.text = save[i].text /\ q.begun = save[i].begun
      /\ q.vault = source /\ q.session = session /\ q.base = seen.etag
  BY <1>1, <1>2 DEF Unsent, Sent
<1>4. save' = [save EXCEPT ![i] = q]
  BY DEF SaveToServer, TypeOK
<1> HIDE DEF q
<1>5. q \in Save \cup NoSave
  BY <1>3 DEF Save
<1>6. /\ save' \in [Saves -> Save \cup NoSave]
      /\ save'[i] = q /\ \A j \in Saves : j # i => save'[j] = save[j]
  BY <1>4, <1>5, Put
<1> QED BY <1>3, <1>6

LEMMA OkPut ==
  ASSUME TypeOK, NEW i \in Saves, NEW v, v = save[i].vault, WriteContent(i)
  PROVE  /\ v \in Vaults /\ save[i].text \in SUBSET Edits
         /\ stored' \in [Vaults -> SUBSET Edits] /\ etag' \in [Vaults -> ETags]
         /\ stored'[v] = save[i].text /\ etag'[v] = etag[v] + 1
         /\ \A w \in Vaults : w # v => stored'[w] = stored[w] /\ etag'[w] = etag[w]
         /\ save' \in [Saves -> Save \cup NoSave]
         /\ save'[i] \in Sent /\ save'[i].phase = "ok" /\ save'[i].base = etag[v] + 1
         /\ save'[i].text = save[i].text /\ save'[i].begun = save[i].begun
         /\ save'[i].vault = v /\ save'[i].session = save[i].session
         /\ \A j \in Saves : j # i => save'[j] = save[j]
<1> DEFINE q == [save[i] EXCEPT !.phase = "ok", !.base = etag[v] + 1]
<1>1. save[i] \in Sent
  BY SaveType DEF WriteContent, At
<1>2. v \in Vaults /\ save[i].text \in SUBSET Edits
  BY <1>1 DEF Sent
<1>3. etag[v] \in ETags /\ etag[v] < MaxWrites /\ etag[v] + 1 \in ETags
  BY <1>2, EditAssumption DEF WriteContent, TypeOK, ETags
<1>4. /\ stored' \in [Vaults -> SUBSET Edits] /\ etag' \in [Vaults -> ETags]
      /\ stored'[v] = save[i].text /\ etag'[v] = etag[v] + 1
      /\ \A w \in Vaults : w # v => stored'[w] = stored[w] /\ etag'[w] = etag[w]
  BY <1>2, <1>3 DEF WriteContent, TypeOK
<1>5. /\ q \in Sent /\ q.phase = "ok" /\ q.text = save[i].text /\ q.begun = save[i].begun
      /\ q.vault = v /\ q.session = save[i].session /\ q.base = etag[v] + 1
  BY <1>1, <1>3 DEF Sent
<1>6. save' = [save EXCEPT ![i] = q]
  <2>1. save' = [save EXCEPT ![i].phase = "ok", ![i].base = etag[v] + 1]
    BY <1>4 DEF WriteContent
  <2>2. save \in [Saves -> Save \cup NoSave]
    BY DEF TypeOK
  <2> QED BY <2>1, <2>2
<1> HIDE DEF q
<1>7. q \in Save \cup NoSave
  BY <1>5 DEF Save
<1>8. /\ save' \in [Saves -> Save \cup NoSave]
      /\ save'[i] = q /\ \A j \in Saves : j # i => save'[j] = save[j]
  BY <1>6, <1>7, Put
<1> QED BY <1>2, <1>4, <1>5, <1>8

LEMMA LockPut ==
  ASSUME TypeOK, NEW gone \in SUBSET Saves, LockApp(gone)
  PROVE  /\ save' \in [Saves -> Save \cup NoSave]
         /\ \A j \in Saves : save'[j] \in {Ended, save[j]} /\ (j \in gone => save'[j] = Ended)
         /\ source' \in {seen.vault, NoVault} /\ source' \in Places
         /\ view' = "locked" /\ pending' = {} /\ memory' = {} /\ loaded' = 0 /\ dirty' = FALSE
<1>1. Ended \in Save \cup NoSave
  BY DEF Ended, NoSave
<1>2. save \in [Saves -> Save \cup NoSave] /\ seen.vault \in Places
  BY DEF TypeOK, Source
<1> QED BY <1>1, <1>2 DEF LockApp, Places

LEMMA UnsavedPut ==
  ASSUME TypeOK, NEW i \in Saves, Unsaved(i) \/ (Ends(i) /\ UNCHANGED source)
  PROVE  /\ save' \in [Saves -> Save \cup NoSave]
         /\ save'[i] = Ended /\ \A j \in Saves : j # i => save'[j] = save[j]
         /\ source' \in {source, seen.vault} /\ source' \in Places
<1>1. Ends(i)
  BY DEF Unsaved
<1>2. source \in Places /\ seen.vault \in Places
  BY DEF TypeOK, Source
<1>3. source' \in {source, seen.vault}
  BY DEF Unsaved
<1> QED BY <1>1, <1>2, <1>3, EndsPut

(* Answers that nothing is written with, and the dialog they may show.     *)
LEMMA ChosenPut ==
  ASSUME TypeOK, NEW i \in Saves, Chosen(i)
  PROVE  /\ save' \in [Saves -> Save \cup NoSave]
         /\ ~Live(i)' /\ \A j \in Saves : j # i => save'[j] \in {Ended, save[j]}
<1>1. Ended \in NoSave /\ [phase |-> "choice"] \in NoSave
  BY DEF Ended, NoSave
<1>2. save \in [Saves -> Save \cup NoSave]
  BY DEF TypeOK
<1> QED BY <1>1, <1>2 DEF Chosen, Live

LEMMA WrittenPut ==
  ASSUME TypeOK, NEW i \in Saves, Written(i)
  PROVE  /\ save' \in [Saves -> Save \cup NoSave]
         /\ save'[i] = Ended /\ \A j \in Saves : j # i => save'[j] \in {Ended, save[j]}
         /\ source' \in {source, seen.vault, NoVault} /\ source' \in Places
         /\ dirty' = FALSE
         /\ \/ UNCHANGED <<view, pending, memory, loaded>>
            \/ view' = "locked" /\ pending' = {} /\ memory' = {} /\ loaded' = 0
<1>1. CASE LockApp({i})
  BY <1>1, LockPut
<1>2. CASE dirty' = FALSE /\ Ends(i) /\ UNCHANGED <<source, view, pending, memory, loaded>>
  <2>1. source \in Places
    BY DEF TypeOK
  <2> QED BY <1>2, <2>1, EndsPut
<1> QED BY <1>1, <1>2 DEF Written

-----------------------------------------------------------------------------
(* Types.                                                                  *)
LEMMA InitType == Init => TypeOK
<1> SUFFICES ASSUME Init PROVE TypeOK
  OBVIOUS
<1>1. 0 \in ETags /\ 0 \in Sessions /\ 0 \in 0..MaxEdits
  BY EditAssumption DEF ETags, Sessions
<1>2. stored \in [Vaults -> SUBSET Edits] /\ etag \in [Vaults -> ETags]
  BY <1>1 DEF Init
<1>3. seen \in Source /\ source \in Places /\ session \in Sessions
  BY <1>1 DEF Init, Source, Places
<1>4. save \in [Saves -> Save \cup NoSave]
  BY DEF Init, NoSave
<1> QED BY <1>1, <1>2, <1>3, <1>4 DEF Init, TypeOK

(* What happens on the lock screen and in the open vault.                  *)
LEMMA ScreenType ==
  ASSUME TypeOK,
         \/ \E v \in Vaults : StartOpening(v) \/ OpenServerVault(v) \/ OpenFails(v)
         \/ OpenFile \/ ShowFileStep \/ TryUnlockPendingVault \/ CreateVault
         \/ \E p \in unlocking : Unlocked(p) \/ WrongPassword(p)
         \/ Edit \/ Lock
  PROVE  TypeOK'
<1> USE EditAssumption DEF server, history
<1>0. session < MaxSessions => session + 1 \in Sessions
  BY DEF TypeOK, Sessions
<1>1. ASSUME NEW v \in Vaults, StartOpening(v) \/ OpenFails(v) PROVE TypeOK'
  BY <1>1 DEF StartOpening, OpenFails, chosen, shown, TypeOK
<1>2. ASSUME NEW v \in Vaults, OpenServerVault(v) PROVE TypeOK'
  <2>1. source' \in Places /\ session' \in Sessions /\ seen' \in Source
    BY <1>2, <1>0 DEF OpenServerVault, TypeOK, Source, Places
  <2>2. pending' \subseteq Content /\ view' \in {"locked", "password", "open"}
    <3>1. [session |-> session', text |-> stored[v]] \in Content
      BY <1>2, <2>1 DEF TypeOK, Content
    <3>2. pending' = pending \/ pending' = {[session |-> session', text |-> stored[v]]}
      BY <1>2 DEF OpenServerVault
    <3>3. view' \in {"locked", "password", "open"}
      BY <1>2 DEF OpenServerVault, TypeOK
    <3> QED BY <3>1, <3>2, <3>3 DEF TypeOK
  <2> QED BY <1>2, <2>1, <2>2 DEF OpenServerVault, TypeOK
<1>3. CASE OpenFile
  <2>1. source' \in Places /\ session' \in Sessions /\ seen' \in Source
    BY <1>3, <1>0 DEF OpenFile, More, TypeOK, Source, Places, ETags
  <2>2. pending' \subseteq Content
    BY <1>3, <2>1 DEF OpenFile, Content
  <2> QED BY <1>3, <2>1, <2>2 DEF OpenFile, TypeOK
<1>4. CASE ShowFileStep
  BY <1>4 DEF ShowFileStep, chosen, TypeOK
<1>5. CASE TryUnlockPendingVault
  BY <1>5 DEF TryUnlockPendingVault, chosen, shown, TypeOK
<1>6. CASE CreateVault
  <2>1. [session |-> 0, text |-> {}] \in Content
    BY DEF Content, Sessions
  <2> QED BY <1>6, <2>1 DEF CreateVault, chosen, shown, TypeOK
<1>7. ASSUME NEW p \in unlocking, Unlocked(p) PROVE TypeOK'
  <2>1. p.session \in Sessions /\ p.text \subseteq Edits
    BY DEF TypeOK, Content
  <2> QED BY <1>7, <2>1 DEF Unlocked, chosen, TypeOK
<1>8. ASSUME NEW p \in unlocking, WrongPassword(p) PROVE TypeOK'
  BY <1>8 DEF WrongPassword, chosen, shown, TypeOK
<1>9. CASE Edit
  <2>1. edits' \in 0..MaxEdits /\ edits' \in Edits
    BY <1>9 DEF Edit, Edits, TypeOK
  <2>2. hurried' \subseteq Edits
    BY <1>9, <2>1 DEF Edit, TypeOK
  <2> QED BY <1>9, <2>1, <2>2 DEF Edit, chosen, TypeOK
<1>10. CASE Lock
  <2>1. LockApp({}) /\ UNCHANGED <<server, edits, opening, session, seen, unlocking, history>>
    BY <1>10 DEF Lock
  <2>2. /\ save' \in [Saves -> Save \cup NoSave] /\ source' \in Places
        /\ view' = "locked" /\ pending' = {} /\ memory' = {} /\ loaded' = 0 /\ dirty' = FALSE
    <3>1. LockApp({}) /\ {} \in SUBSET Saves
      BY <2>1
    <3> QED BY <3>1, LockPut
  <2>3. /\ UNCHANGED <<stored, etag, edits, opening, session, seen, unlocking>>
        /\ UNCHANGED <<saved, hurried, mixed>>
    BY <2>1
  <2>4. loaded' \in Sessions
    BY <2>2 DEF Sessions
  <2>5. dirty' \in BOOLEAN /\ memory' \subseteq Edits /\ pending' \subseteq Content
    BY <2>2
  <2> QED BY <2>2, <2>3, <2>4, <2>5 DEF TypeOK
<1> QED BY <1>1, <1>2, <1>3, <1>4, <1>5, <1>6, <1>7, <1>8, <1>9, <1>10

(* What happens to a save, and to the vaults.                              *)
LEMMA SaveTypes ==
  ASSUME TypeOK,
         \/ \E v \in Vaults : OthersWrite(v)
         \/ \E i \in Saves :
              \/ SaveToFile(i) \/ EncryptionFails(i) \/ SaveToServer(i) \/ SaveLocally(i)
              \/ FilePicked(i) \/ PickCancelled(i) \/ FileWritten(i) \/ FileFails(i)
              \/ FallbackPick(i) \/ FallbackCancel(i)
              \/ WriteContent(i) \/ AnswerOK(i) \/ AnswerConflict(i) \/ AnswerOtherwise(i)
              \/ ConflictCancel(i) \/ ConflictSaveAs(i)
  PROVE  TypeOK'
<1> USE EditAssumption DEF server, history
<1>1. ASSUME NEW v \in Vaults, OthersWrite(v) PROVE TypeOK'
  <2>1. edits' \in 0..MaxEdits /\ edits' \in Edits /\ etag[v] + 1 \in ETags
    BY <1>1 DEF OthersWrite, TypeOK, Edits, ETags
  <2>2. stored' \in [Vaults -> SUBSET Edits] /\ etag' \in [Vaults -> ETags]
    BY <1>1, <2>1 DEF OthersWrite, TypeOK
  <2>3. saved' \subseteq Edits
    BY <1>1, <2>1 DEF OthersWrite, TypeOK
  <2> QED BY <1>1, <2>1, <2>2, <2>3 DEF OthersWrite, chosen, shown, TypeOK
<1>2. ASSUME NEW i \in Saves, SaveToFile(i) PROVE TypeOK'
  <2>1. 0 \in Sessions /\ Begins(i, 0)
    BY <1>2 DEF SaveToFile, Sessions
  <2>2. save' \in [Saves -> Save \cup NoSave]
    BY <2>1, BeginsPut
  <2> QED BY <1>2, <2>2 DEF SaveToFile, chosen, shown, TypeOK
<1>3. ASSUME NEW i \in Saves, EncryptionFails(i) \/ PickCancelled(i) \/ FallbackCancel(i)
      PROVE  TypeOK'
  <2>1. /\ Unsaved(i) \/ (Ends(i) /\ UNCHANGED source)
        /\ UNCHANGED <<server, edits, opening, session, seen, unlocking, shown, history>>
    BY <1>3 DEF EncryptionFails, PickCancelled, FallbackCancel
  <2>2. save' \in [Saves -> Save \cup NoSave] /\ source' \in Places
    BY <2>1, UnsavedPut
  <2> QED BY <2>1, <2>2 DEF shown, TypeOK
<1>4. ASSUME NEW i \in Saves, SaveToServer(i) PROVE TypeOK'
  <2>1. save' \in [Saves -> Save \cup NoSave] /\ mixed' \subseteq Sessions
    BY <1>4, SentPut DEF SaveToServer, TypeOK
  <2> QED BY <1>4, <2>1 DEF SaveToServer, chosen, shown, TypeOK
<1>5. ASSUME NEW i \in Saves, SaveLocally(i) \/ FilePicked(i) \/ FileFails(i) PROVE TypeOK'
  <2>1. save' \in [Saves -> Save \cup NoSave]
    BY <1>5, MovesPut DEF Moves
  <2>2. source' \in Places
    BY <1>5 DEF SaveLocally, FilePicked, FileFails, chosen, TypeOK, Places
  <2>3. UNCHANGED <<server, edits, opening, session, seen, unlocking, shown, history>>
    BY <1>5 DEF SaveLocally, FilePicked, FileFails, chosen
  <2> QED BY <2>1, <2>2, <2>3 DEF shown, TypeOK
<1>6. ASSUME NEW i \in Saves, FallbackPick(i) PROVE TypeOK'
  <2>0. Live(i)
    BY <1>6 DEF FallbackPick, At, Live
  <2>1. save[i].session \in Sessions /\ session \in Sessions
    BY <2>0, SaveType DEF Save, Unsent, Sent, TypeOK
  <2>2. save' \in [Saves -> Save \cup NoSave]
    BY <1>6, <2>1, BeginsPut DEF FallbackPick
  <2> QED BY <1>6, <2>2 DEF FallbackPick, shown, TypeOK, Places
<1>7. ASSUME NEW i \in Saves, FileWritten(i) PROVE TypeOK'
  <2>0. Live(i)
    BY <1>7 DEF FileWritten, At, Live
  <2>1. saved' \subseteq Edits
    BY <1>7, <2>0, SaveType DEF FileWritten, Save, Unsent, Sent, TypeOK
  <2>2. /\ save' \in [Saves -> Save \cup NoSave] /\ source' \in Places /\ dirty' = FALSE
        /\ \/ UNCHANGED <<view, pending, memory, loaded>>
           \/ view' = "locked" /\ pending' = {} /\ memory' = {} /\ loaded' = 0
    BY <1>7, WrittenPut DEF FileWritten
  <2>3. /\ view' \in {"locked", "password", "open"} /\ pending' \subseteq Content
        /\ memory' \subseteq Edits /\ dirty' \in BOOLEAN
    BY <2>2 DEF TypeOK
  <2>4. loaded' \in Sessions
    BY <2>2 DEF TypeOK, Sessions
  <2> QED BY <1>7, <2>1, <2>2, <2>3, <2>4 DEF FileWritten, TypeOK
<1>8. ASSUME NEW i \in Saves, WriteContent(i) PROVE TypeOK'
  <2>1. /\ stored' \in [Vaults -> SUBSET Edits] /\ etag' \in [Vaults -> ETags]
        /\ save[i].text \in SUBSET Edits
        /\ save' \in [Saves -> Save \cup NoSave]
    BY <1>8, OkPut
  <2> QED BY <1>8, <2>1 DEF WriteContent, chosen, shown, TypeOK
<1>9. ASSUME NEW i \in Saves, AnswerOK(i) PROVE TypeOK'
  <2>0. save[i] \in Sent
    BY <1>9, SaveType DEF AnswerOK, At
  <2>1. seen' \in Source
    BY <1>9, <2>0 DEF AnswerOK, TypeOK, Source, Sent
  <2>2. /\ save' \in [Saves -> Save \cup NoSave] /\ source' \in Places /\ dirty' = FALSE
        /\ \/ UNCHANGED <<view, pending, memory, loaded>>
           \/ view' = "locked" /\ pending' = {} /\ memory' = {} /\ loaded' = 0
    BY <1>9, WrittenPut DEF AnswerOK
  <2>3. /\ view' \in {"locked", "password", "open"} /\ pending' \subseteq Content
        /\ memory' \subseteq Edits /\ dirty' \in BOOLEAN
    BY <2>2 DEF TypeOK
  <2>4. loaded' \in Sessions
    BY <2>2 DEF TypeOK, Sessions
  <2> QED BY <1>9, <2>1, <2>2, <2>3, <2>4 DEF AnswerOK, TypeOK
<1>10. ASSUME NEW i \in Saves, AnswerConflict(i) \/ AnswerOtherwise(i) \/ ConflictCancel(i)
       PROVE  TypeOK'
  <2>1. Chosen(i) \/ Ends(i)
    BY <1>10 DEF AnswerConflict, AnswerOtherwise, ConflictCancel
  <2>2. save' \in [Saves -> Save \cup NoSave]
    BY <2>1, ChosenPut, EndsPut
  <2> QED BY <1>10, <2>2 DEF AnswerConflict, AnswerOtherwise, ConflictCancel, chosen, shown, TypeOK
<1>11. ASSUME NEW i \in Saves, ConflictSaveAs(i) PROVE TypeOK'
  <2>1. Begins(i, 0) \/ Ends(i)
    BY <1>11 DEF ConflictSaveAs
  <2>2. save' \in [Saves -> Save \cup NoSave]
    <3>1. 0 \in Sessions
      BY DEF Sessions
    <3> QED BY <2>1, <3>1, BeginsPut, EndsPut
  <2> QED BY <1>11, <2>2 DEF ConflictSaveAs, shown, TypeOK, Places
<1> QED BY <1>1, <1>2, <1>3, <1>4, <1>5, <1>6, <1>7, <1>8, <1>9, <1>10, <1>11

LEMMA StepType == TypeOK /\ [Next]_vars => TypeOK'
<1> SUFFICES ASSUME TypeOK, [Next]_vars PROVE TypeOK'
  OBVIOUS
<1>1. CASE UNCHANGED vars
  BY <1>1 DEF vars, server, chosen, shown, history, TypeOK
<1>2. CASE Next
  BY <1>2, ScreenType, SaveTypes DEF Next
<1> QED BY <1>1, <1>2

(* Types: see EditSession.                                                 *)
THEOREM TypeCorrect == Spec => []TypeOK
BY InitType, StepType, PTL DEF Spec

-----------------------------------------------------------------------------
(* No silent overwriting.  The text t of the session s is somewhere in the *)
(* tab: in memory, in a save, or about to be unlocked.                     *)
Has(s, t) ==
  \/ \E p \in pending \cup unlocking : p.session = s /\ p.text = t
  \/ view = "open" /\ loaded = s /\ memory = t
  \/ \E i \in Saves : Live(i) /\ save[i].begun = s /\ save[i].text = t

(* Whoever sends t for the vault with the ETag n overwrites nothing.       *)
Knows(n, v, t) == n <= etag[v] /\ (n = etag[v] => stored[v] \subseteq t \cup hurried)

(* Every session's texts are from a source that has been chosen, and they  *)
(* differ by edits that were made in a hurry only.                         *)
Numbered == \A s \in Sessions, t \in SUBSET Edits : Has(s, t) => s <= session
Alike == \A s \in Sessions, t \in SUBSET Edits, u \in SUBSET Edits :
  s # 0 /\ Has(s, t) /\ Has(s, u) => t \subseteq u \cup hurried

(* The source is the last that was chosen, or none; its ETag is one that   *)
(* each text of its session may be sent with.                              *)
OneSource == source \in {seen.vault, NoVault} /\ (seen.vault # NoVault => session > 0)
SourceKnows ==
  seen.vault # NoVault /\ session \notin mixed =>
    \A t \in SUBSET Edits : Has(session, t) => Knows(seen.etag, seen.vault, t)

(* And so may each save that has been sent, unless its session is mixed.   *)
SaveKnows(i) ==
  save[i].phase \in {"sent", "ok"} =>
    /\ 0 < save[i].session /\ save[i].session <= session
    /\ save[i].session \notin mixed =>
         /\ save[i].begun = save[i].session
         /\ Knows(save[i].base, save[i].vault, save[i].text)
         /\ Own(i) => save[i].vault = seen.vault

Asked == pending # {} => view = "password"

Inv ==
  /\ TypeOK /\ Numbered /\ Alike /\ OneSource /\ SourceKnows /\ Asked
  /\ \A i \in Saves : SaveKnows(i)

LEMMA InitInv == Init => Inv
<1> SUFFICES ASSUME Init PROVE Inv
  OBVIOUS
<1>1. TypeOK
  BY InitType
<1>2. \A i \in Saves : save[i].phase = "none"
  BY DEF Init
<1>3. ASSUME NEW s, NEW t PROVE ~Has(s, t)
  BY <1>2 DEF Has, Live, Init
<1>4. OneSource /\ Asked /\ SourceKnows
  BY DEF Init, OneSource, Asked, SourceKnows
<1>5. \A i \in Saves : SaveKnows(i)
  BY <1>2 DEF SaveKnows
<1> QED BY <1>1, <1>3, <1>4, <1>5 DEF Inv, Numbered, Alike

(* No text comes to a session that it does not have already.               *)
Carries ==
  /\ \A p \in pending' \cup unlocking' : p.session = 0 \/ p \in pending \cup unlocking
  /\ view' = "open" => loaded' = 0 \/ Has(loaded', memory')
  /\ \A i \in Saves : Live(i)' => save'[i].begun = 0 \/ Has(save'[i].begun, save'[i].text)

LEMMA CarriesHas ==
  ASSUME Carries, NEW s \in Sessions, s # 0, NEW t, Has(s, t)' PROVE Has(s, t)
<1>1. CASE \E p \in pending' \cup unlocking' : p.session = s /\ p.text = t
  BY <1>1 DEF Carries, Has
<1>2. CASE view' = "open" /\ loaded' = s /\ memory' = t
  BY <1>2 DEF Carries
<1>3. CASE \E i \in Saves : Live(i)' /\ save'[i].begun = s /\ save'[i].text = t
  BY <1>3 DEF Carries
<1> QED BY <1>1, <1>2, <1>3 DEF Has

LEMMA CarriesKeeps ==
  ASSUME Inv, Carries, UNCHANGED <<session, hurried>>
  PROVE  Numbered' /\ Alike'
<1>1. Numbered'
  <2> SUFFICES ASSUME NEW s \in Sessions, NEW t \in SUBSET Edits, Has(s, t)' PROVE s <= session
    BY DEF Numbered
  <2>1. CASE s = 0
    BY <2>1, EditAssumption DEF Inv, TypeOK, Sessions
  <2>2. CASE s # 0
    BY <2>2, CarriesHas DEF Inv, Numbered
  <2> QED BY <2>1, <2>2
<1>2. Alike'
  BY CarriesHas DEF Inv, Alike
<1> QED BY <1>1, <1>2

(* Steps that neither send nor learn anything.                             *)
LEMMA QuietKeeps ==
  ASSUME Inv, TypeOK', Carries, UNCHANGED <<stored, etag, session, seen, hurried, mixed>>,
         source' \in {source, seen.vault, NoVault},
         \A i \in Saves : save'[i].phase \in {"sent", "ok"} => save'[i] = save[i],
         pending' # {} => view' = "password"
  PROVE  Inv' /\ UNCHANGED stored
<1>1. Numbered' /\ Alike'
  BY CarriesKeeps
<1>2. OneSource' /\ Asked'
  BY DEF Inv, OneSource, Asked
<1>3. SourceKnows'
  <2> SUFFICES ASSUME seen.vault # NoVault, session \notin mixed,
                      NEW t \in SUBSET Edits, Has(session, t)'
               PROVE  Knows(seen.etag, seen.vault, t)
    BY DEF SourceKnows, Knows
  <2>1. session # 0 /\ session \in Sessions
    BY DEF Inv, OneSource, TypeOK
  <2>2. (Has(session, t))' /\ session' = session
    OBVIOUS
  <2>3. Has(session, t)
    BY <2>1, <2>2, CarriesHas
  <2> QED BY <2>3 DEF Inv, SourceKnows
<1>4. ASSUME NEW i \in Saves PROVE SaveKnows(i)'
  BY DEF Inv, SaveKnows, Own, Knows
<1> QED BY <1>1, <1>2, <1>3, <1>4 DEF Inv

(* Where the texts of a step come from.                                    *)
LEMMA HasThese ==
  /\ \A p \in pending \cup unlocking : Has(p.session, p.text)
  /\ view = "open" => Has(loaded, memory)
  /\ \A i \in Saves : Live(i) => Has(save[i].begun, save[i].text)
BY DEF Has

(* Each save is as it was, at its end, or new; or it has gone on.          *)
Onward ==
  \A i \in Saves :
    \/ save'[i] = save[i]
    \/ ~Live(i)'
    \/ /\ save'[i] \in Unsent
       /\ \/ view = "open" /\ save'[i].begun = loaded /\ save'[i].text = memory
          \/ Live(i) /\ save'[i].text = save[i].text /\ save'[i].begun \in {save[i].begun, 0}

LEMMA OnwardKeeps ==
  ASSUME Inv, TypeOK', Onward,
         \A p \in pending' \cup unlocking' : p.session = 0 \/ p \in pending \cup unlocking,
         view' = "open" => \/ view = "open" /\ UNCHANGED <<memory, loaded>>
                           \/ \E p \in unlocking : memory' = p.text /\ loaded' = p.session,
         UNCHANGED <<stored, etag, session, seen, hurried, mixed>>,
         source' \in {source, seen.vault, NoVault},
         pending' # {} => view' = "password"
  PROVE  Inv' /\ UNCHANGED stored
<1>1. view' = "open" => Has(loaded', memory')
  <2>1. CASE view = "open" /\ UNCHANGED <<memory, loaded>>
    BY <2>1, HasThese
  <2>2. ASSUME NEW p \in unlocking, memory' = p.text, loaded' = p.session
        PROVE  Has(loaded', memory')
    <3>1. Has(p.session, p.text)
      BY HasThese
    <3> QED BY <2>2, <3>1
  <2> QED BY <2>1, <2>2
<1>2. ASSUME NEW i \in Saves, Live(i)'
      PROVE  save'[i].begun = 0 \/ Has(save'[i].begun, save'[i].text)
  <2>1. CASE save'[i] = save[i]
    <3>1. Live(i)
      BY <1>2, <2>1 DEF Live
    <3> QED BY <2>1, <3>1, HasThese
  <2>2. CASE view = "open" /\ save'[i].begun = loaded /\ save'[i].text = memory
    BY <2>2, HasThese
  <2>3. CASE Live(i) /\ save'[i].text = save[i].text /\ save'[i].begun \in {save[i].begun, 0}
    BY <2>3, HasThese
  <2> QED BY <1>2, <2>1, <2>2, <2>3 DEF Onward
<1>3. Carries
  BY <1>1, <1>2 DEF Carries
<1>4. \A i \in Saves : save'[i].phase \in {"sent", "ok"} => save'[i] = save[i]
  BY DEF Onward, Unsent, Live
<1> QED BY <1>3, <1>4, QuietKeeps

LEMMA ScreenKeeps ==
  ASSUME Inv, TypeOK',
         \/ \E v \in Vaults : StartOpening(v) \/ OpenFails(v)
         \/ ShowFileStep \/ TryUnlockPendingVault \/ CreateVault
         \/ \E p \in unlocking : Unlocked(p) \/ WrongPassword(p)
         \/ Lock
  PROVE  Inv' /\ UNCHANGED stored
<1> USE DEF server, chosen, shown, history
<1>0. TypeOK /\ Asked
  BY DEF Inv
<1>1. ASSUME NEW v \in Vaults, StartOpening(v) \/ OpenFails(v) PROVE Inv' /\ UNCHANGED stored
  BY <1>0, <1>1, OnwardKeeps DEF StartOpening, OpenFails, Onward, Asked
<1>2. CASE ShowFileStep
  BY <1>0, <1>2, OnwardKeeps DEF ShowFileStep, Onward, Asked
<1>3. CASE TryUnlockPendingVault
  BY <1>0, <1>3, OnwardKeeps DEF TryUnlockPendingVault, Onward, Asked
<1>4. CASE CreateVault
  <2>1. \A p \in pending' \cup unlocking' : p.session = 0 \/ p \in pending \cup unlocking
    BY <1>4 DEF CreateVault
  <2> QED BY <1>0, <1>4, <2>1, OnwardKeeps DEF CreateVault, Onward, Asked
<1>5. ASSUME NEW p \in unlocking, Unlocked(p) PROVE Inv' /\ UNCHANGED stored
  BY <1>0, <1>5, OnwardKeeps DEF Unlocked, Onward, Asked
<1>6. ASSUME NEW p \in unlocking, WrongPassword(p) PROVE Inv' /\ UNCHANGED stored
  BY <1>0, <1>6, OnwardKeeps DEF WrongPassword, Onward, Asked
<1>7. CASE Lock
  <2>1. LockApp({}) /\ {} \in SUBSET Saves
        /\ UNCHANGED <<stored, etag, edits, opening, session, seen, unlocking, hurried, mixed>>
    BY <1>7 DEF Lock
  <2>2. /\ \A j \in Saves : save'[j] \in {Ended, save[j]}
        /\ source' \in {seen.vault, NoVault} /\ view' = "locked" /\ pending' = {}
    BY <1>0, <2>1, LockPut
  <2>3. Onward
    BY <2>2 DEF Onward, Live, Ended
  <2> QED BY <2>1, <2>2, <2>3, OnwardKeeps
<1> QED BY <1>1, <1>2, <1>3, <1>4, <1>5, <1>6, <1>7

LEMMA SavesKeep ==
  ASSUME Inv, TypeOK', NEW i \in Saves,
         \/ SaveToFile(i) \/ EncryptionFails(i) \/ SaveLocally(i)
         \/ FilePicked(i) \/ PickCancelled(i) \/ FileWritten(i) \/ FileFails(i)
         \/ FallbackPick(i) \/ FallbackCancel(i)
         \/ AnswerConflict(i) \/ AnswerOtherwise(i)
         \/ ConflictCancel(i) \/ ConflictSaveAs(i)
  PROVE  Inv' /\ UNCHANGED stored
<1> USE DEF server, history
<1>0. TypeOK /\ Asked
  BY DEF Inv
<1>1. CASE SaveToFile(i)
  <2>1. 0 \in Sessions /\ Begins(i, 0) /\ view = "open"
    BY <1>1, EditAssumption DEF SaveToFile, Sessions
  <2>2. Onward
    BY <1>0, <2>1, BeginsPut DEF Onward
  <2> QED BY <1>0, <1>1, <2>2, OnwardKeeps DEF SaveToFile, chosen, shown, Asked
<1>2. CASE EncryptionFails(i) \/ PickCancelled(i) \/ FallbackCancel(i)
  <2>1. /\ Unsaved(i) \/ (Ends(i) /\ UNCHANGED source)
        /\ UNCHANGED <<server, edits, opening, session, seen, unlocking, shown, history>>
    BY <1>2 DEF EncryptionFails, PickCancelled, FallbackCancel
  <2>2. /\ save'[i] = Ended /\ \A j \in Saves : j # i => save'[j] = save[j]
        /\ source' \in {source, seen.vault}
    BY <1>0, <2>1, UnsavedPut
  <2>3. Onward
    BY <2>2 DEF Onward, Live, Ended
  <2> QED BY <1>0, <2>1, <2>2, <2>3, OnwardKeeps DEF shown, Asked
<1>3. CASE SaveLocally(i) \/ FilePicked(i) \/ FileFails(i)
  <2>1. Moves(i) /\ Live(i)
    BY <1>0, <1>3, MovesPut DEF SaveLocally, FilePicked, FileFails, At, Live
  <2>2. Onward
    BY <2>1 DEF Onward, Moves
  <2>3. /\ UNCHANGED <<server, edits, opening, session, seen, unlocking, shown, history>>
        /\ source' \in {source, NoVault}
    BY <1>3 DEF SaveLocally, FilePicked, FileFails, chosen
  <2> QED BY <1>0, <2>2, <2>3, OnwardKeeps DEF shown, Asked
<1>4. CASE FileWritten(i)
  <2>1. /\ save'[i] = Ended /\ \A j \in Saves : j # i => save'[j] \in {Ended, save[j]}
        /\ source' \in {source, seen.vault, NoVault}
        /\ \/ UNCHANGED <<view, pending, memory, loaded>>
           \/ view' = "locked" /\ pending' = {} /\ memory' = {} /\ loaded' = 0
    BY <1>0, <1>4, WrittenPut DEF FileWritten
  <2>2. Onward
    BY <2>1 DEF Onward, Live, Ended
  <2>3. UNCHANGED <<stored, etag, session, seen, unlocking, hurried, mixed>>
    BY <1>4 DEF FileWritten
  <2>4. /\ view' = "open" => view = "open" /\ UNCHANGED <<memory, loaded>>
        /\ \A p \in pending' \cup unlocking' : p.session = 0 \/ p \in pending \cup unlocking
        /\ pending' # {} => view' = "password"
    BY <1>0, <2>1, <2>3 DEF Asked
  <2> QED BY <2>1, <2>2, <2>3, <2>4, OnwardKeeps
<1>5. CASE FallbackPick(i)
  <2>0. Live(i) /\ view = "open"
    BY <1>5 DEF FallbackPick, At, Live
  <2>1. save[i].session \in Sessions /\ session \in Sessions
    BY <1>0, <2>0, SaveType DEF Save, Unsent, Sent, TypeOK
  <2>2. Onward
    BY <1>0, <1>5, <2>0, <2>1, BeginsPut DEF FallbackPick, Onward
  <2> QED BY <1>0, <1>5, <2>2, OnwardKeeps DEF FallbackPick, shown, Asked
<1>6. CASE AnswerConflict(i) \/ AnswerOtherwise(i) \/ ConflictCancel(i)
  <2>1. Chosen(i) \/ Ends(i)
    BY <1>6 DEF AnswerConflict, AnswerOtherwise, ConflictCancel
  <2>2. ~Live(i)' /\ \A j \in Saves : j # i => save'[j] \in {Ended, save[j]}
    BY <1>0, <2>1, ChosenPut, EndsPut DEF Live, Ended
  <2>3. Onward
    BY <2>2 DEF Onward, Live, Ended
  <2> QED BY <1>0, <1>6, <2>3, OnwardKeeps
          DEF AnswerConflict, AnswerOtherwise, ConflictCancel, chosen, shown, Asked
<1>7. CASE ConflictSaveAs(i)
  <2>1. Onward
    <3>1. CASE view = "open" /\ Begins(i, 0)
      <4>1. 0 \in Sessions
        BY EditAssumption DEF Sessions
      <4> QED BY <1>0, <3>1, <4>1, BeginsPut DEF Onward
    <3>2. CASE Ends(i)
      BY <1>0, <3>2, EndsPut DEF Onward, Live, Ended
    <3> QED BY <1>7, <3>1, <3>2 DEF ConflictSaveAs
  <2> QED BY <1>0, <1>7, <2>1, OnwardKeeps DEF ConflictSaveAs, shown, Asked
<1> QED BY <1>1, <1>2, <1>3, <1>4, <1>5, <1>6, <1>7

-----------------------------------------------------------------------------
(* A source is chosen: its session is new, and has one text.               *)
LEMMA FreshKeeps ==
  ASSUME Inv, TypeOK', NEW n, n = session + 1, session' = n, NEW t0,
         \A s \in Sessions, t \in SUBSET Edits : Has(s, t)' => Has(s, t) \/ (s = n /\ t = t0),
         UNCHANGED <<stored, etag, save, hurried, mixed>>,
         source' = seen'.vault,
         seen'.vault # NoVault => Knows(seen'.etag, seen'.vault, t0),
         pending' # {} => view' = "password"
  PROVE  Inv' /\ UNCHANGED stored
<1>0. session \in Nat /\ n \in Nat /\ n > session /\ n \in Sessions
  BY EditAssumption DEF Inv, TypeOK, Sessions
<1>1. ASSUME NEW s \in Sessions, NEW t \in SUBSET Edits, Has(s, t)' PROVE s <= n
  <2>1. Has(s, t) => s <= session
    BY DEF Inv, Numbered
  <2>2. s \in Nat
    BY EditAssumption DEF Sessions
  <2> QED BY <1>0, <1>1, <2>1, <2>2
<1>2. ASSUME NEW t \in SUBSET Edits, Has(n, t)' PROVE t = t0
  <2>1. Has(n, t) \/ t = t0
    BY <1>0, <1>2
  <2>2. Has(n, t) => n <= session
    BY <1>0 DEF Inv, Numbered
  <2> QED BY <1>0, <2>1, <2>2
<1>3. Alike'
  <2> SUFFICES ASSUME NEW s \in Sessions, NEW t \in SUBSET Edits, NEW u \in SUBSET Edits,
                      s # 0, Has(s, t)', Has(s, u)'
               PROVE  t \subseteq u \cup hurried
    BY DEF Alike
  <2>1. CASE s = n
    BY <1>2, <2>1
  <2>2. CASE s # n
    BY <2>2 DEF Inv, Alike
  <2> QED BY <2>1, <2>2
<1>4. OneSource' /\ Asked'
  BY <1>0 DEF OneSource, Asked
<1>5. SourceKnows'
  <2> SUFFICES ASSUME (seen.vault # NoVault)', NEW t \in SUBSET Edits, Has(session, t)'
               PROVE  Knows(seen.etag, seen.vault, t)'
    BY DEF SourceKnows
  <2>1. (Has(session, t))' /\ session' = n
    OBVIOUS
  <2>2. Has(n, t)'
    BY <2>1 DEF Has
  <2> QED BY <1>2, <2>2 DEF Knows
<1>6. ASSUME NEW i \in Saves PROVE SaveKnows(i)'
  <2>1. CASE save[i].phase \in {"sent", "ok"}
    <3>1. save[i].session \in Nat
      BY <2>1, SaveType, EditAssumption DEF Inv, Sent, Sessions
    <3>2. save[i].session <= session
      BY <2>1 DEF Inv, SaveKnows
    <3>3. save[i].session <= n /\ save[i].session # n
      BY <1>0, <3>1, <3>2
    <3> QED BY <2>1, <3>3 DEF Inv, SaveKnows, Own, Knows
  <2> QED BY <2>1 DEF SaveKnows
<1>7. Numbered'
  BY <1>1 DEF Numbered
<1> QED BY <1>3, <1>4, <1>5, <1>6, <1>7 DEF Inv

LEMMA OpenKeeps ==
  ASSUME Inv, TypeOK', (\E v \in Vaults : OpenServerVault(v)) \/ OpenFile
  PROVE  Inv' /\ UNCHANGED stored
<1> USE DEF server, history
<1> DEFINE n == session + 1
<1>0. TypeOK /\ Asked
  BY DEF Inv
<1>1. ASSUME NEW v \in Vaults, OpenServerVault(v) PROVE Inv' /\ UNCHANGED stored
  <2>1. ASSUME NEW s \in Sessions, NEW t \in SUBSET Edits, Has(s, t)'
        PROVE  Has(s, t) \/ (s = n /\ t = stored[v])
    <3>1. CASE \E p \in pending' \cup unlocking' : p.session = s /\ p.text = t
      BY <1>1, <3>1 DEF OpenServerVault, Has
    <3>2. CASE view' = "open" /\ loaded' = s /\ memory' = t
      BY <1>1, <3>2 DEF OpenServerVault, Has
    <3>3. CASE \E i \in Saves : Live(i)' /\ save'[i].begun = s /\ save'[i].text = t
      BY <1>1, <3>3 DEF OpenServerVault, Has, Live
    <3> QED BY <2>1, <3>1, <3>2, <3>3 DEF Has
  <2>2. etag[v] \in Nat
    BY <1>0, EditAssumption DEF TypeOK, ETags
  <2>3. seen' = [vault |-> v, etag |-> etag[v]] /\ source' = v
    BY <1>1 DEF OpenServerVault
  <2>4. Knows(seen'.etag, seen'.vault, stored[v])
    BY <2>2, <2>3 DEF Knows
  <2>5. pending' # {} => view' = "password"
    BY <1>0, <1>1 DEF OpenServerVault, Asked
  <2>6. session' = session + 1 /\ UNCHANGED <<stored, etag, save, hurried, mixed>>
    BY <1>1 DEF OpenServerVault
  <2>7. source' = seen'.vault
    BY <2>3
  <2> QED BY <2>1, <2>4, <2>5, <2>6, <2>7, FreshKeeps
<1>2. CASE OpenFile
  <2>1. ASSUME NEW s \in Sessions, NEW t \in SUBSET Edits, Has(s, t)'
        PROVE  Has(s, t) \/ (s = n /\ t = {})
    <3>1. CASE \E p \in pending' \cup unlocking' : p.session = s /\ p.text = t
      BY <1>2, <3>1 DEF OpenFile, Has
    <3>2. CASE view' = "open" /\ loaded' = s /\ memory' = t
      BY <1>2, <3>2 DEF OpenFile
    <3>3. CASE \E i \in Saves : Live(i)' /\ save'[i].begun = s /\ save'[i].text = t
      BY <1>2, <3>3 DEF OpenFile, Has, Live
    <3> QED BY <2>1, <3>1, <3>2, <3>3 DEF Has
  <2>2. session' = session + 1 /\ UNCHANGED <<stored, etag, save, hurried, mixed>>
    BY <1>2 DEF OpenFile
  <2>3. source' = seen'.vault /\ seen'.vault = NoVault /\ view' = "password"
    BY <1>2 DEF OpenFile
  <2> QED BY <2>1, <2>2, <2>3, FreshKeeps
<1> QED BY <1>1, <1>2

(* An edit: while other texts are about it is made in a hurry.             *)
LEMMA EditKeeps == ASSUME Inv, TypeOK', Edit PROVE Inv' /\ UNCHANGED stored
<1> USE DEF server, chosen
<1>0. TypeOK /\ Asked
  BY DEF Inv
<1>1. /\ UNCHANGED <<stored, etag, source, session, seen, unlocking, view, pending,
                     loaded, save, mixed>>
      /\ view = "open" /\ pending = {}
      /\ memory \subseteq memory' /\ memory' \subseteq memory \cup {edits'}
      /\ hurried \subseteq hurried' /\ (UnderWay => edits' \in hurried')
  BY <1>0 DEF Edit, Asked
<1>2. Has(loaded, memory) /\ memory \in SUBSET Edits /\ memory' \in SUBSET Edits
  BY <1>0, <1>1, HasThese DEF TypeOK
<1>3. ASSUME NEW s, NEW t, Has(s, t)'
      PROVE  (UnderWay /\ Has(s, t)) \/ (s = loaded /\ t = memory')
  <2>1. CASE \E p \in pending' \cup unlocking' : p.session = s /\ p.text = t
    BY <1>1, <2>1 DEF Has, UnderWay
  <2>2. CASE view' = "open" /\ loaded' = s /\ memory' = t
    BY <1>1, <2>2
  <2>3. CASE \E i \in Saves : Live(i)' /\ save'[i].begun = s /\ save'[i].text = t
    BY <1>1, <2>3 DEF Has, Live, UnderWay
  <2> QED BY <1>3, <2>1, <2>2, <2>3 DEF Has
<1>4. Numbered'
  BY <1>1, <1>2, <1>3 DEF Inv, Numbered
<1>5. Alike'
  <2> SUFFICES ASSUME NEW s \in Sessions, NEW t \in SUBSET Edits, NEW u \in SUBSET Edits,
                      s # 0, Has(s, t)', Has(s, u)'
               PROVE  t \subseteq u \cup hurried'
    BY DEF Alike
  <2>1. CASE UnderWay /\ Has(s, t) /\ Has(s, u)
    <3>1. t \subseteq u \cup hurried
      BY <2>1 DEF Inv, Alike
    <3> QED BY <1>1, <3>1
  <2>2. CASE UnderWay /\ Has(s, t) /\ s = loaded /\ u = memory'
    <3>1. t \subseteq memory \cup hurried
      BY <1>2, <2>2 DEF Inv, Alike
    <3> QED BY <1>1, <2>2, <3>1
  <2>3. CASE UnderWay /\ Has(s, u) /\ s = loaded /\ t = memory'
    <3>1. memory \subseteq u \cup hurried
      BY <1>2, <2>3 DEF Inv, Alike
    <3> QED BY <1>1, <2>3, <3>1
  <2>4. CASE t = memory' /\ u = memory'
    BY <2>4
  <2> QED BY <1>3, <2>1, <2>2, <2>3, <2>4
<1>6. OneSource' /\ Asked'
  BY <1>1 DEF Inv, OneSource, Asked
<1>7. SourceKnows'
  <2> SUFFICES ASSUME seen.vault # NoVault, session \notin mixed,
                      NEW t \in SUBSET Edits, Has(session, t)'
               PROVE  Knows(seen.etag, seen.vault, t)'
    BY <1>1 DEF SourceKnows
  <2>1. CASE Has(session, t)
    BY <1>1, <2>1 DEF Inv, SourceKnows, Knows
  <2>2. CASE session = loaded /\ t = memory'
    <3>1. Knows(seen.etag, seen.vault, memory)
      BY <1>2, <2>2 DEF Inv, SourceKnows
    <3> QED BY <1>1, <2>2, <3>1 DEF Knows
  <2>3. (Has(session, t))' /\ session' = session
    BY <1>1
  <2> QED BY <1>3, <2>1, <2>2, <2>3
<1>8. ASSUME NEW i \in Saves PROVE SaveKnows(i)'
  <2>1. Knows(save[i].base, save[i].vault, save[i].text)
        => Knows(save[i].base, save[i].vault, save[i].text)'
    BY <1>1 DEF Knows
  <2> QED BY <1>1, <2>1 DEF Inv, SaveKnows, Own
<1> QED BY <1>1, <1>4, <1>5, <1>6, <1>7, <1>8 DEF Inv

-----------------------------------------------------------------------------
(* A save is sent: with an ETag that its text may be sent with, if it is   *)
(* of the session that it is sent in.                                      *)
LEMMA SendKeeps ==
  ASSUME Inv, TypeOK', NEW i \in Saves, SaveToServer(i) PROVE Inv' /\ UNCHANGED stored
<1> USE DEF server, shown
<1>0. TypeOK /\ Asked /\ OneSource
  BY DEF Inv
<1>1. /\ UNCHANGED <<stored, etag, source, session, seen, unlocking, view, pending,
                     memory, loaded, hurried>>
      /\ At(i, "encrypting") /\ source # NoVault /\ source = seen.vault /\ session > 0
      /\ mixed \subseteq mixed'
      /\ session \notin mixed' => save[i].begun = session
  BY <1>0 DEF SaveToServer, chosen, OneSource
<1>2. /\ save'[i].phase = "sent"
      /\ save'[i].text = save[i].text /\ save'[i].begun = save[i].begun
      /\ save'[i].vault = source /\ save'[i].session = session /\ save'[i].base = seen.etag
      /\ \A j \in Saves : j # i => save'[j] = save[j]
  BY <1>0, SentPut
<1>3. Live(i) /\ save[i].text \in SUBSET Edits
  BY <1>0, <1>1, SaveType DEF At, Live, Unsent
<1>4. Carries
  <2>1. ASSUME NEW j \in Saves, Live(j)' PROVE Has(save'[j].begun, save'[j].text)
    <3>1. Live(j)
      BY <1>2, <1>3, <2>1 DEF Live
    <3>2. save'[j].begun = save[j].begun /\ save'[j].text = save[j].text
      BY <1>2
    <3> QED BY <3>1, <3>2, HasThese
  <2> QED BY <1>1, <2>1, HasThese DEF Carries
<1>5. Numbered' /\ Alike'
  BY <1>1, <1>4, CarriesKeeps
<1>6. OneSource' /\ Asked'
  BY <1>0, <1>1 DEF OneSource, Asked
<1>7. SourceKnows'
  <2> SUFFICES ASSUME seen.vault # NoVault, session \notin mixed',
                      NEW t \in SUBSET Edits, Has(session, t)'
               PROVE  Knows(seen.etag, seen.vault, t)'
    BY <1>1 DEF SourceKnows
  <2>1. (Has(session, t))' /\ session' = session /\ session # 0 /\ session \in Sessions
    BY <1>0, <1>1 DEF TypeOK
  <2>2. Has(session, t)
    BY <1>4, <2>1, CarriesHas
  <2> QED BY <1>1, <2>2 DEF Inv, SourceKnows, Knows
<1>8. SaveKnows(i)'
  <2> SUFFICES ASSUME session \notin mixed' PROVE Knows(seen.etag, source, save[i].text)
    <3>1. session <= session
      BY <1>0, EditAssumption DEF TypeOK, Sessions
    <3> QED BY <1>1, <1>2, <3>1 DEF SaveKnows, Knows, Own
  <2>1. Has(session, save[i].text)
    BY <1>1, <1>3, HasThese
  <2> QED BY <1>1, <1>3, <2>1 DEF Inv, SourceKnows
<1>9. ASSUME NEW j \in Saves, j # i PROVE SaveKnows(j)'
  BY <1>1, <1>2, <1>9 DEF Inv, SaveKnows, Own, Knows
<1> QED BY <1>1, <1>5, <1>6, <1>7, <1>8, <1>9 DEF Inv

(* The answer to an applied save: what it may be followed by, all texts of *)
(* its session may.                                                        *)
LEMMA AnswerKeeps ==
  ASSUME Inv, TypeOK', NEW i \in Saves, AnswerOK(i) PROVE Inv' /\ UNCHANGED stored
<1> USE DEF server, history
<1>0. TypeOK /\ Asked /\ OneSource
  BY DEF Inv
<1>1. /\ UNCHANGED <<stored, etag, session, unlocking, hurried, mixed>>
      /\ At(i, "ok") /\ Written(i)
      /\ seen'.vault = seen.vault
      /\ seen'.etag = IF Own(i) THEN save[i].base ELSE seen.etag
  BY <1>0 DEF AnswerOK, TypeOK, Source
<1>2. /\ save'[i] = Ended /\ \A j \in Saves : j # i => save'[j] \in {Ended, save[j]}
      /\ source' \in {source, seen.vault, NoVault}
      /\ \/ UNCHANGED <<view, pending, memory, loaded>>
         \/ view' = "locked" /\ pending' = {} /\ memory' = {} /\ loaded' = 0
  BY <1>0, <1>1, WrittenPut
<1>3. Carries
  <2>1. ASSUME NEW j \in Saves, Live(j)' PROVE Has(save'[j].begun, save'[j].text)
    <3>1. Live(j) /\ save'[j] = save[j]
      BY <1>2, <2>1 DEF Live, Ended
    <3> QED BY <3>1, HasThese
  <2> QED BY <1>1, <1>2, <2>1, HasThese DEF Carries
<1>4. Numbered' /\ Alike'
  BY <1>1, <1>3, CarriesKeeps
<1>5. OneSource' /\ Asked'
  BY <1>0, <1>1, <1>2 DEF OneSource, Asked
<1>6. SourceKnows'
  <2> SUFFICES ASSUME seen.vault # NoVault, session \notin mixed,
                      NEW t \in SUBSET Edits, Has(session, t)'
               PROVE  Knows(seen'.etag, seen.vault, t)
    BY <1>1 DEF SourceKnows, Knows
  <2>1. (Has(session, t))' /\ session' = session /\ session # 0 /\ session \in Sessions
    BY <1>0, <1>1 DEF TypeOK, OneSource
  <2>2. Has(session, t)
    BY <1>3, <2>1, CarriesHas
  <2>3. CASE Own(i)
    <3>1. /\ save[i].begun = session /\ save[i].vault = seen.vault
          /\ Knows(save[i].base, seen.vault, save[i].text)
      BY <1>1, <2>3 DEF Inv, SaveKnows, Own, At
    <3>2. Has(session, save[i].text) /\ save[i].text \in SUBSET Edits
      BY <1>0, <1>1, <3>1, HasThese, SaveType DEF At, Live, Sent
    <3>3. save[i].text \subseteq t \cup hurried
      BY <2>1, <2>2, <3>2 DEF Inv, Alike
    <3> QED BY <1>1, <2>3, <3>1, <3>3 DEF Knows
  <2>4. CASE ~Own(i)
    BY <1>1, <2>2, <2>4 DEF Inv, SourceKnows
  <2> QED BY <2>3, <2>4
<1>7. ASSUME NEW j \in Saves PROVE SaveKnows(j)'
  <2>1. save'[j] = save[j] \/ save'[j].phase = "ended"
    BY <1>2 DEF Ended
  <2> QED BY <1>1, <2>1 DEF Inv, SaveKnows, Own, Knows
<1> QED BY <1>1, <1>4, <1>5, <1>6, <1>7 DEF Inv

-----------------------------------------------------------------------------
(* The server: its contents change only as their ETags grow.               *)
Grows == \A v \in Vaults :
  \/ etag'[v] = etag[v] /\ stored'[v] = stored[v]
  \/ etag'[v] = etag[v] + 1

LEMMA KnowsStays ==
  ASSUME TypeOK, Grows, UNCHANGED hurried, NEW v \in Vaults, NEW n \in ETags, NEW t,
         Knows(n, v, t)
  PROVE  Knows(n, v, t)'
<1>1. etag[v] \in Nat /\ n \in Nat
  BY EditAssumption DEF TypeOK, ETags
<1>2. (etag'[v] = etag[v] /\ stored'[v] = stored[v]) \/ etag'[v] = etag[v] + 1
  BY DEF Grows
<1> QED BY <1>1, <1>2 DEF Knows

(* All texts, and all saves but perhaps one, are as they were.             *)
LEMMA GrowsKeeps ==
  ASSUME Inv, TypeOK', Grows, UNCHANGED <<source, session, seen, hurried, mixed, pending, view>>,
         Carries, NEW S \in SUBSET Saves,
         \A i \in S : save'[i] = save[i], \A i \in Saves \ S : SaveKnows(i)'
  PROVE  Inv'
<1>0. TypeOK
  BY DEF Inv
<1>1. Numbered' /\ Alike'
  BY CarriesKeeps
<1>2. OneSource' /\ Asked'
  BY DEF Inv, OneSource, Asked
<1>3. SourceKnows'
  <2> SUFFICES ASSUME seen.vault # NoVault, session \notin mixed,
                      NEW t \in SUBSET Edits, Has(session, t)'
               PROVE  Knows(seen.etag, seen.vault, t)'
    BY DEF SourceKnows
  <2>1. (Has(session, t))' /\ session' = session /\ session # 0 /\ session \in Sessions
    BY <1>0 DEF TypeOK, Inv, OneSource
  <2>2. Has(session, t)
    BY <2>1, CarriesHas
  <2>3. Knows(seen.etag, seen.vault, t)
    BY <2>2 DEF Inv, SourceKnows
  <2>4. seen.etag \in ETags /\ seen.vault \in Vaults
    BY <1>0 DEF TypeOK, Source, Places
  <2>5. ASSUME NEW n \in ETags, NEW v \in Vaults, Knows(n, v, t) PROVE Knows(n, v, t)'
    BY <1>0, <2>5, KnowsStays
  <2> DEFINE n == seen.etag
             v == seen.vault
  <2>6. n <= etag'[v] /\ (n = etag'[v] => stored'[v] \subseteq t \cup hurried')
    BY <2>3, <2>4, <2>5 DEF Knows
  <2> QED BY <2>6 DEF Knows
<1>4. ASSUME NEW i \in S PROVE SaveKnows(i)'
  <2>1. CASE save[i].phase \in {"sent", "ok"}
    <3>1. save[i].vault \in Vaults /\ save[i].base \in ETags
      BY <1>0, <2>1, SaveType DEF Sent
    <3>2. ASSUME NEW n \in ETags, NEW v \in Vaults, NEW t, Knows(n, v, t)
          PROVE  n <= etag'[v] /\ (n = etag'[v] => stored'[v] \subseteq t \cup hurried')
      BY <1>0, <3>2, KnowsStays DEF Knows
    <3>3. ASSUME Knows(save[i].base, save[i].vault, save[i].text)
          PROVE  Knows(save[i].base, save[i].vault, save[i].text)'
      BY <3>1, <3>2, <3>3 DEF Knows
    <3> QED BY <2>1, <3>3 DEF Inv, SaveKnows, Own
  <2> QED BY <2>1 DEF SaveKnows
<1> QED BY <1>1, <1>2, <1>3, <1>4 DEF Inv

LEMMA OthersKeep ==
  ASSUME Inv, TypeOK', NEW v \in Vaults, OthersWrite(v)
  PROVE  Inv' /\ \A w \in Vaults : stored[w] \subseteq stored'[w]
<1> USE DEF chosen, shown
<1>0. TypeOK
  BY DEF Inv
<1>1. Carries
  BY HasThese DEF OthersWrite, Carries, Live
<1>2. Grows /\ \A w \in Vaults : stored[w] \subseteq stored'[w]
  BY <1>0 DEF OthersWrite, TypeOK, Grows
<1>3. Inv'
  <2>1. \A i \in Saves : save'[i] = save[i]
    BY DEF OthersWrite
  <2>2. UNCHANGED <<source, session, seen, hurried, mixed, pending, view>>
    BY DEF OthersWrite
  <2>3. Saves \in SUBSET Saves /\ \A i \in Saves \ Saves : SaveKnows(i)'
    OBVIOUS
  <2> QED BY <1>1, <1>2, <2>1, <2>2, <2>3, GrowsKeeps
<1> QED BY <1>2, <1>3

LEMMA WriteKeeps ==
  ASSUME Inv, TypeOK', NEW i \in Saves, WriteContent(i)
  PROVE  /\ Inv'
         /\ \A w \in Vaults :
              \/ stored[w] \subseteq stored'[w] \cup hurried
              \/ save[i].vault = w /\ save[i].session \in mixed
<1> USE DEF chosen, shown
<1> DEFINE v == save[i].vault
<1>0. TypeOK /\ SaveKnows(i) /\ At(i, "sent")
  BY DEF Inv, WriteContent
<1>1. /\ v \in Vaults
      /\ stored'[v] = save[i].text /\ etag'[v] = etag[v] + 1
      /\ \A w \in Vaults : w # v => stored'[w] = stored[w] /\ etag'[w] = etag[w]
      /\ save'[i].phase = "ok" /\ save'[i].base = etag[v] + 1
      /\ save'[i].text = save[i].text /\ save'[i].begun = save[i].begun
      /\ save'[i].vault = v /\ save'[i].session = save[i].session
      /\ \A j \in Saves : j # i => save'[j] = save[j]
  BY <1>0, OkPut
<1>2. /\ save[i].base = etag[v]
      /\ UNCHANGED <<source, session, seen, unlocking, pending, view, memory, loaded,
                     hurried, mixed>>
  BY DEF WriteContent
<1>3. Grows
  BY <1>1 DEF Grows
<1>4. Carries
  <2>1. ASSUME NEW j \in Saves, Live(j)' PROVE Has(save'[j].begun, save'[j].text)
    <3>1. Live(j)
      BY <1>0, <1>1, <2>1 DEF Live, At
    <3>2. save'[j].begun = save[j].begun /\ save'[j].text = save[j].text
      BY <1>1
    <3> QED BY <3>1, <3>2, HasThese
  <2> QED BY <1>2, <2>1, HasThese DEF Carries
<1>5. SaveKnows(i)'
  <2>1. etag[v] \in Nat
    BY <1>0, <1>1, EditAssumption DEF TypeOK, ETags
  <2>2. Knows(save[i].base, save[i].vault, save[i].text)'
    BY <1>1, <2>1 DEF Knows
  <2> QED BY <1>0, <1>1, <1>2, <2>2 DEF SaveKnows, At, Own
<1>6. Inv'
  <2> DEFINE S == Saves \ {i}
  <2>1. S \in SUBSET Saves /\ \A j \in S : save'[j] = save[j]
    BY <1>1
  <2>2. \A j \in Saves \ S : SaveKnows(j)'
    BY <1>5
  <2> HIDE DEF S
  <2> QED BY <1>2, <1>3, <1>4, <2>1, <2>2, GrowsKeeps
<1>7. save[i].session \notin mixed => stored[v] \subseteq save[i].text \cup hurried
  BY <1>0, <1>2 DEF SaveKnows, At, Knows
<1> QED BY <1>1, <1>6, <1>7

-----------------------------------------------------------------------------
(* Each step keeps the invariant, and overwrites nothing but as stated.    *)
LEMMA NextInv ==
  ASSUME Inv, [Next]_vars
  PROVE  /\ Inv'
         /\ \A v \in Vaults :
              \/ stored[v] \subseteq stored'[v] \cup hurried
              \/ \E i \in Saves : Applied(i) /\ save[i].vault = v /\ save[i].session \in mixed
<1>0. TypeOK'
  BY StepType DEF Inv
<1>1. ASSUME Inv' /\ UNCHANGED stored
      PROVE  Inv' /\ \A v \in Vaults : stored[v] \subseteq stored'[v] \cup hurried
  BY <1>1
<1>2. CASE UNCHANGED vars
  <2>1. Inv' /\ UNCHANGED stored
    BY ZenonT(60), <1>0, <1>2
       DEF vars, server, chosen, shown, history, Inv, Numbered, Alike, OneSource, SourceKnows,
           SaveKnows, Asked, Has, Knows, Live, Own
  <2> QED BY <1>1, <2>1
<1>3. ASSUME NEW v \in Vaults, StartOpening(v) \/ OpenServerVault(v) \/ OpenFails(v)
      PROVE  Inv' /\ UNCHANGED stored
  BY <1>0, <1>3, ScreenKeeps, OpenKeeps
<1>4. CASE OpenFile \/ ShowFileStep \/ TryUnlockPendingVault \/ CreateVault \/ Edit \/ Lock
  BY <1>0, <1>1, <1>4, ScreenKeeps, OpenKeeps, EditKeeps
<1>5. ASSUME NEW p \in unlocking, Unlocked(p) \/ WrongPassword(p)
      PROVE  Inv' /\ UNCHANGED stored
  BY <1>0, <1>5, ScreenKeeps
<1>6. ASSUME NEW v \in Vaults, OthersWrite(v)
      PROVE  Inv' /\ \A w \in Vaults : stored[w] \subseteq stored'[w] \cup hurried
  BY <1>0, <1>6, OthersKeep
<1>7. ASSUME NEW i \in Saves, WriteContent(i)
      PROVE  /\ Inv'
             /\ \A w \in Vaults :
                  \/ stored[w] \subseteq stored'[w] \cup hurried
                  \/ Applied(i) /\ save[i].vault = w /\ save[i].session \in mixed
  <2>1. Applied(i)
    <3>1. save'[i].phase = "ok"
      BY <1>7, OkPut DEF Inv
    <3> QED BY <1>7, <3>1 DEF WriteContent, Applied, At
  <2> QED BY <1>0, <1>7, <2>1, WriteKeeps
<1>8. ASSUME NEW i \in Saves,
             \/ SaveToFile(i) \/ EncryptionFails(i) \/ SaveToServer(i) \/ SaveLocally(i)
             \/ FilePicked(i) \/ PickCancelled(i) \/ FileWritten(i) \/ FileFails(i)
             \/ FallbackPick(i) \/ FallbackCancel(i)
             \/ AnswerOK(i) \/ AnswerConflict(i) \/ AnswerOtherwise(i)
             \/ ConflictCancel(i) \/ ConflictSaveAs(i)
      PROVE  Inv' /\ UNCHANGED stored
  BY <1>0, <1>8, SavesKeep, SendKeeps, AnswerKeeps
<1> QED BY <1>1, <1>2, <1>3, <1>4, <1>5, <1>6, <1>7, <1>8 DEF Next

LEMMA Invariant == Spec => []Inv
<1>1. Inv /\ [Next]_vars => Inv'
  BY NextInv
<1> QED BY InitInv, <1>1, PTL DEF Spec

(* FUN-94: see EditSession.  However many saves overlap, whatever becomes  *)
(* of their answers and whatever is chosen meanwhile, no edit disappears   *)
(* from a vault but through a mixed session, or if made in a hurry.        *)
THEOREM NoSilentOverwriting == Spec => NothingIsOverwritten
<1>1. ASSUME Inv, [Next]_vars
      PROVE  [\A v \in Vaults :
                \/ stored[v] \subseteq stored'[v] \cup hurried
                \/ \E i \in Saves :
                     Applied(i) /\ save[i].vault = v /\ save[i].session \in mixed]_vars
  BY <1>1, NextInv
<1> QED BY Invariant, <1>1, PTL DEF Spec, NothingIsOverwritten

-----------------------------------------------------------------------------
(* What is shown as saved has been saved: whatever is under way has all of *)
(* what is in memory, other than what came in a hurry.                     *)
ReadIsSaved ==
  /\ \A v \in Vaults : stored[v] \subseteq saved
  /\ \A p \in pending \cup unlocking : p.text \subseteq saved
WrittenIsSaved == \A i \in Saves : At(i, "ok") => save[i].text \subseteq saved
SavesHaveAll ==
  view = "open" => \A i \in Saves : Live(i) => memory \ hurried \subseteq save[i].text \cup saved

CleanInv == TypeOK /\ ReadIsSaved /\ WrittenIsSaved /\ SavesHaveAll /\ CleanIsSaved

LEMMA InitClean == Init => CleanInv
<1> SUFFICES ASSUME Init PROVE CleanInv
  OBVIOUS
<1>1. \A i \in Saves : save[i].phase = "none"
  BY DEF Init
<1> QED BY <1>1, InitType
        DEF Init, CleanInv, ReadIsSaved, WrittenIsSaved, SavesHaveAll, CleanIsSaved, At

(* Steps that leave memory as it is, or clear it, and end saves or begin   *)
(* them or take them on.                                                   *)
LEMMA OnwardClean ==
  ASSUME CleanInv, TypeOK', Onward, saved \subseteq saved', hurried' = hurried,
         \A v \in Vaults : stored'[v] \subseteq saved',
         \A p \in pending' \cup unlocking' : p.text \subseteq saved',
         view' = "open" => \/ view = "open" /\ memory' = memory
                           \/ memory' \subseteq saved',
         view' = "open" /\ ~dirty' => \/ view = "open" /\ ~dirty
                                      \/ memory' \ hurried' \subseteq saved'
  PROVE  CleanInv'
<1>1. WrittenIsSaved'
  <2> SUFFICES ASSUME NEW i \in Saves, At(i, "ok")' PROVE save'[i].text \subseteq saved'
    BY DEF WrittenIsSaved
  <2>1. save'[i] = save[i]
    BY DEF At, Onward, Unsent, Live
  <2> QED BY <2>1 DEF CleanInv, WrittenIsSaved, At
<1>2. SavesHaveAll'
  <2> SUFFICES ASSUME view' = "open", view = "open", memory' = memory, NEW i \in Saves, Live(i)'
               PROVE  memory \ hurried \subseteq save'[i].text \cup saved'
    BY DEF SavesHaveAll
  <2>1. save'[i].text = memory \/ (Live(i) /\ save'[i].text = save[i].text)
    BY DEF Onward, Live
  <2> QED BY <2>1 DEF CleanInv, SavesHaveAll
<1>3. CleanIsSaved' /\ ReadIsSaved'
  BY DEF CleanInv, CleanIsSaved, ReadIsSaved
<1> QED BY <1>1, <1>2, <1>3 DEF CleanInv

LEMMA ScreenClean ==
  ASSUME CleanInv, TypeOK',
         \/ \E v \in Vaults : StartOpening(v) \/ OpenServerVault(v) \/ OpenFails(v)
         \/ OpenFile \/ ShowFileStep \/ TryUnlockPendingVault \/ CreateVault
         \/ \E p \in unlocking : Unlocked(p) \/ WrongPassword(p)
         \/ Lock
  PROVE  CleanInv'
<1> USE DEF server, chosen, shown, history
<1>0. TypeOK /\ ReadIsSaved
  BY DEF CleanInv
<1>1. ASSUME NEW v \in Vaults, StartOpening(v) \/ OpenFails(v) PROVE CleanInv'
  BY <1>0, <1>1, OnwardClean DEF StartOpening, OpenFails, Onward, ReadIsSaved
<1>2. ASSUME NEW v \in Vaults, OpenServerVault(v) PROVE CleanInv'
  <2>1. \A p \in pending' \cup unlocking' : p.text \subseteq saved'
    BY <1>0, <1>2 DEF OpenServerVault, ReadIsSaved
  <2> QED BY <1>0, <1>2, <2>1, OnwardClean DEF OpenServerVault, Onward, ReadIsSaved
<1>3. CASE OpenFile
  <2>1. \A p \in pending' \cup unlocking' : p.text \subseteq saved'
    BY <1>0, <1>3 DEF OpenFile, ReadIsSaved
  <2> QED BY <1>0, <1>3, <2>1, OnwardClean DEF OpenFile, Onward, ReadIsSaved
<1>4. CASE ShowFileStep
  BY <1>0, <1>4, OnwardClean DEF ShowFileStep, Onward, ReadIsSaved
<1>5. CASE TryUnlockPendingVault
  BY <1>0, <1>5, OnwardClean DEF TryUnlockPendingVault, Onward, ReadIsSaved
<1>6. CASE CreateVault
  <2>1. \A p \in pending' \cup unlocking' : p.text \subseteq saved'
    BY <1>0, <1>6 DEF CreateVault, ReadIsSaved
  <2> QED BY <1>0, <1>6, <2>1, OnwardClean DEF CreateVault, Onward, ReadIsSaved
<1>7. ASSUME NEW p \in unlocking, Unlocked(p) PROVE CleanInv'
  <2>1. memory' \subseteq saved'
    BY <1>0, <1>7 DEF Unlocked, ReadIsSaved
  <2> QED BY <1>0, <1>7, <2>1, OnwardClean DEF Unlocked, Onward, ReadIsSaved
<1>8. ASSUME NEW p \in unlocking, WrongPassword(p) PROVE CleanInv'
  BY <1>0, <1>8, OnwardClean DEF WrongPassword, Onward, ReadIsSaved
<1>9. CASE Lock
  <2>1. LockApp({}) /\ {} \in SUBSET Saves /\ UNCHANGED <<stored, unlocking, saved, hurried>>
    BY <1>9 DEF Lock
  <2>2. /\ \A j \in Saves : save'[j] \in {Ended, save[j]}
        /\ view' = "locked" /\ pending' = {}
    BY <1>0, <2>1, LockPut
  <2>3. Onward
    BY <2>2 DEF Onward, Live, Ended
  <2> QED BY <1>0, <2>1, <2>2, <2>3, OnwardClean DEF ReadIsSaved
<1> QED BY <1>1, <1>2, <1>3, <1>4, <1>5, <1>6, <1>7, <1>8, <1>9

LEMMA EditClean == ASSUME CleanInv, TypeOK', Edit PROVE CleanInv'
<1> USE DEF server, chosen
<1>1. /\ UNCHANGED <<stored, unlocking, view, pending, save, saved>>
      /\ dirty' = TRUE
      /\ memory' \subseteq memory \cup {edits'}
      /\ hurried \subseteq hurried' /\ (UnderWay => edits' \in hurried')
  BY DEF Edit
<1>2. SavesHaveAll'
  <2> SUFFICES ASSUME view = "open", NEW i \in Saves, Live(i)
               PROVE  memory' \ hurried' \subseteq save[i].text \cup saved
    BY <1>1 DEF SavesHaveAll, Live
  <2>1. UnderWay
    BY DEF UnderWay
  <2> QED BY <1>1, <2>1 DEF CleanInv, SavesHaveAll
<1>3. ReadIsSaved' /\ WrittenIsSaved' /\ CleanIsSaved'
  BY <1>1 DEF CleanInv, ReadIsSaved, WrittenIsSaved, CleanIsSaved, At
<1> QED BY <1>2, <1>3 DEF CleanInv

(* A save ends well: what it had has been saved.                           *)
LEMMA WrittenClean ==
  ASSUME CleanInv, TypeOK', NEW i \in Saves, Written(i), Live(i),
         saved' = saved \cup save[i].text, UNCHANGED <<stored, unlocking, hurried>>
  PROVE  CleanInv'
<1>0. TypeOK
  BY DEF CleanInv
<1>1. /\ save'[i] = Ended /\ \A j \in Saves : j # i => save'[j] \in {Ended, save[j]}
      /\ dirty' = FALSE
      /\ \/ UNCHANGED <<view, pending, memory, loaded>>
         \/ view' = "locked" /\ pending' = {} /\ memory' = {} /\ loaded' = 0
  BY <1>0, WrittenPut
<1>2. Onward
  BY <1>1 DEF Onward, Live, Ended
<1>3. view = "open" => memory \ hurried \subseteq saved'
  BY DEF CleanInv, SavesHaveAll
<1>4. \A p \in pending' \cup unlocking' : p.text \subseteq saved'
  BY <1>1 DEF CleanInv, ReadIsSaved
<1>5. \A v \in Vaults : stored'[v] \subseteq saved'
  BY DEF CleanInv, ReadIsSaved
<1> QED BY <1>1, <1>2, <1>3, <1>4, <1>5, OnwardClean

LEMMA SavesClean ==
  ASSUME CleanInv, TypeOK', NEW i \in Saves,
         \/ SaveToFile(i) \/ EncryptionFails(i) \/ SaveLocally(i)
         \/ FilePicked(i) \/ PickCancelled(i) \/ FileFails(i)
         \/ FallbackPick(i) \/ FallbackCancel(i)
         \/ AnswerConflict(i) \/ AnswerOtherwise(i)
         \/ ConflictCancel(i) \/ ConflictSaveAs(i)
  PROVE  CleanInv'
<1>0. TypeOK /\ ReadIsSaved
  BY DEF CleanInv
<1>1. UNCHANGED <<stored, unlocking, view, pending, memory, loaded, dirty, saved, hurried>>
  BY DEF SaveToFile, EncryptionFails, SaveLocally, FilePicked, PickCancelled, FileFails,
         FallbackPick, FallbackCancel, AnswerConflict, AnswerOtherwise, ConflictCancel,
         ConflictSaveAs, server, shown, history
<1>2. CASE Onward
  BY <1>0, <1>1, <1>2, OnwardClean DEF ReadIsSaved
<1>3. CASE SaveToFile(i) \/ FallbackPick(i) \/ (ConflictSaveAs(i) /\ view = "open")
  <2>1. view = "open" /\ \E back \in Sessions : Begins(i, back)
    <3>1. 0 \in Sessions
      BY EditAssumption DEF Sessions
    <3>2. CASE FallbackPick(i)
      <4>1. Live(i)
        BY <3>2 DEF FallbackPick, At, Live
      <4>2. save[i].session \in Sessions /\ session \in Sessions
        BY <1>0, <4>1, SaveType DEF Save, Unsent, Sent, TypeOK
      <4> QED BY <3>2, <4>2 DEF FallbackPick
    <3> QED BY <1>3, <3>1, <3>2 DEF SaveToFile, ConflictSaveAs
  <2>2. Onward
    BY <1>0, <2>1, BeginsPut DEF Onward
  <2> QED BY <1>2, <2>2
<1>4. CASE SaveLocally(i) \/ FilePicked(i) \/ FileFails(i)
  <2>1. Moves(i) /\ Live(i)
    BY <1>0, <1>4, MovesPut DEF SaveLocally, FilePicked, FileFails, At, Live
  <2>2. Onward
    BY <2>1 DEF Onward, Moves
  <2> QED BY <1>2, <2>2
<1>5. CASE \/ EncryptionFails(i) \/ PickCancelled(i) \/ FallbackCancel(i) \/ AnswerConflict(i)
           \/ AnswerOtherwise(i) \/ ConflictCancel(i) \/ (ConflictSaveAs(i) /\ view # "open")
  <2>1. Chosen(i) \/ Ends(i)
    BY <1>5 DEF EncryptionFails, PickCancelled, FallbackCancel, AnswerConflict,
                AnswerOtherwise, ConflictCancel, ConflictSaveAs, Unsaved
  <2>2. ~Live(i)' /\ \A j \in Saves : j # i => save'[j] \in {Ended, save[j]}
    BY <1>0, <2>1, ChosenPut, EndsPut DEF Live, Ended
  <2>3. Onward
    BY <2>2 DEF Onward, Live, Ended
  <2> QED BY <1>2, <2>3
<1> QED BY <1>3, <1>4, <1>5

(* A save is sent, or applied: its text is what it was.                    *)
LEMMA ServedClean ==
  ASSUME CleanInv, TypeOK', NEW i \in Saves, SaveToServer(i) \/ WriteContent(i)
  PROVE  CleanInv'
<1> USE DEF server, chosen, shown
<1>0. TypeOK /\ ReadIsSaved
  BY DEF CleanInv
<1>1. /\ UNCHANGED <<unlocking, view, pending, memory, dirty, hurried>>
      /\ saved \subseteq saved' /\ Live(i)
      /\ WriteContent(i) => save[i].text \subseteq saved'
  BY DEF SaveToServer, WriteContent, At, Live
<1>2. /\ save'[i].text = save[i].text
      /\ save'[i].phase = "ok" => WriteContent(i)
      /\ \A j \in Saves : j # i => save'[j] = save[j]
  <2>1. CASE SaveToServer(i)
    BY <1>0, <2>1, SentPut
  <2>2. CASE WriteContent(i)
    BY <1>0, <2>2, OkPut
  <2> QED BY <2>1, <2>2
<1>3. ASSUME NEW w \in Vaults PROVE stored'[w] \subseteq saved'
  <2>1. CASE SaveToServer(i)
    BY <1>0, <2>1 DEF SaveToServer, ReadIsSaved
  <2>2. CASE WriteContent(i)
    <3>1. stored'[w] \in {stored[w], save[i].text}
      BY <1>0, <2>2, OkPut
    <3> QED BY <1>0, <1>1, <2>2, <3>1 DEF ReadIsSaved
  <2> QED BY <2>1, <2>2
<1>4. ReadIsSaved' /\ CleanIsSaved'
  BY <1>1, <1>3 DEF CleanInv, ReadIsSaved, CleanIsSaved
<1>5. WrittenIsSaved'
  BY <1>1, <1>2 DEF CleanInv, WrittenIsSaved, At
<1>6. SavesHaveAll'
  <2> SUFFICES ASSUME view = "open", NEW j \in Saves, Live(j)'
               PROVE  memory \ hurried \subseteq save'[j].text \cup saved'
    BY <1>1 DEF SavesHaveAll
  <2>1. Live(j) /\ save'[j].text = save[j].text
    BY <1>1, <1>2 DEF Live
  <2> QED BY <1>1, <2>1 DEF CleanInv, SavesHaveAll
<1> QED BY <1>4, <1>5, <1>6 DEF CleanInv

LEMMA NextClean == CleanInv /\ [Next]_vars => CleanInv'
<1> SUFFICES ASSUME CleanInv, [Next]_vars PROVE CleanInv'
  OBVIOUS
<1>0. TypeOK' /\ TypeOK
  BY StepType DEF CleanInv
<1>1. CASE UNCHANGED vars
  BY ZenonT(60), <1>0, <1>1
     DEF vars, server, chosen, shown, history, CleanInv, ReadIsSaved, WrittenIsSaved,
         SavesHaveAll, CleanIsSaved, At, Live
<1>2. ASSUME NEW v \in Vaults,
             StartOpening(v) \/ OpenServerVault(v) \/ OpenFails(v) PROVE CleanInv'
  BY <1>0, <1>2, ScreenClean
<1>3. CASE OpenFile \/ ShowFileStep \/ TryUnlockPendingVault \/ CreateVault \/ Edit \/ Lock
  BY <1>0, <1>3, ScreenClean, EditClean
<1>4. ASSUME NEW p \in unlocking, Unlocked(p) \/ WrongPassword(p) PROVE CleanInv'
  BY <1>0, <1>4, ScreenClean
<1>5. ASSUME NEW v \in Vaults, OthersWrite(v) PROVE CleanInv'
  <2>1. UNCHANGED <<pending, unlocking, view, memory, dirty, hurried, save>>
        /\ saved' = saved \cup {edits'}
    BY <1>5 DEF OthersWrite, shown
  <2>2. ASSUME NEW w \in Vaults PROVE stored'[w] \subseteq saved'
    <3>1. stored'[w] \subseteq stored[w] \cup {edits'}
      BY <1>0, <1>5 DEF OthersWrite, TypeOK
    <3> QED BY <2>1, <3>1 DEF CleanInv, ReadIsSaved
  <2>3. Onward
    BY <2>1 DEF Onward
  <2>4. \A p \in pending' \cup unlocking' : p.text \subseteq saved'
    BY <2>1 DEF CleanInv, ReadIsSaved
  <2> QED BY <1>0, <2>1, <2>2, <2>3, <2>4, OnwardClean
<1>6. ASSUME NEW i \in Saves,
             \/ SaveToFile(i) \/ EncryptionFails(i) \/ SaveLocally(i)
             \/ FilePicked(i) \/ PickCancelled(i) \/ FileFails(i)
             \/ FallbackPick(i) \/ FallbackCancel(i)
             \/ AnswerConflict(i) \/ AnswerOtherwise(i)
             \/ ConflictCancel(i) \/ ConflictSaveAs(i)
      PROVE  CleanInv'
  BY <1>0, <1>6, SavesClean
<1>7. ASSUME NEW i \in Saves, SaveToServer(i) \/ WriteContent(i) PROVE CleanInv'
  BY <1>0, <1>7, ServedClean
<1>8. ASSUME NEW i \in Saves, FileWritten(i) PROVE CleanInv'
  <2>1. Live(i) /\ Written(i) /\ saved' = saved \cup save[i].text
        /\ UNCHANGED <<stored, unlocking, hurried>>
    BY <1>8 DEF FileWritten, At, Live, server
  <2> QED BY <1>0, <2>1, WrittenClean
<1>9. ASSUME NEW i \in Saves, AnswerOK(i) PROVE CleanInv'
  <2>1. Live(i) /\ Written(i) /\ saved' = saved /\ At(i, "ok")
        /\ UNCHANGED <<stored, unlocking, hurried>>
    BY <1>9 DEF AnswerOK, At, Live, server, history
  <2>2. saved' = saved \cup save[i].text
    BY <2>1 DEF CleanInv, WrittenIsSaved
  <2> QED BY <1>0, <2>1, <2>2, WrittenClean
<1> QED BY <1>1, <1>2, <1>3, <1>4, <1>5, <1>6, <1>7, <1>8, <1>9 DEF Next

(* FUN-38: see EditSession.  What is open and shown as saved has been      *)
(* saved, but for the edits that were made in a hurry.                     *)
THEOREM CleanMeansSaved == Spec => []CleanIsSaved
<1>1. CleanInv => CleanIsSaved
  BY DEF CleanInv
<1> QED BY InitClean, NextClean, <1>1, PTL DEF Spec
=============================================================================

---------------------------- MODULE EditSession ----------------------------
(***************************************************************************)
(* One browser tab that edits vaults of the server: what it has in memory, *)
(* whether it shows that as unsaved, the source it saves to, and the saves *)
(* that are under way.                                                     *)
(*                                                                         *)
(* The page awaits something in nearly every handler, and whatever it does *)
(* next it does to the one global state as that is by then.  So a vault is *)
(* opened in one step and unlocked in another, each some time after it was *)
(* asked for; and a save takes its text when it begins and looks for the   *)
(* source and its ETag only when the encryption is done.                   *)
(*                                                                         *)
(* The server is what VaultStore makes of it: a save is applied if its     *)
(* ETag is the stored one, and may be refused for the sake of its lock.    *)
(* A content is the set of edits it contains; other people add theirs.     *)
(***************************************************************************)
EXTENDS Naturals, FiniteSets

CONSTANTS
  Vaults, NoVault,  \* the server's vaults; no source, or a local file
  Saves,            \* bound: the saves that are ever begun
  MaxEdits,         \* bound: how many edits are ever made
  MaxWrites,        \* bound: how often a vault is written
  MaxSessions       \* bound: how often a source is chosen

ASSUME EditAssumption ==
  /\ NoVault \notin Vaults
  /\ MaxEdits \in Nat /\ MaxWrites \in Nat /\ MaxSessions \in Nat

VARIABLES
  stored,    \* server: the edits in the current content of each vault
  etag,      \* server: the ETag of that content
  edits,     \* how many edits have been made
  opening,   \* the vaults that are being opened
  source,    \* state.source: a vault, or none that is the server's
  session,   \* which source object that is, or was
  seen,      \* what this object knows: its vault and the ETag
  pending,   \* state.pendingVault: the content the password is asked for, if any
  view,      \* "locked", "password" (chosen, not yet unlocked) or "open"
  unlocking, \* the contents that are being unlocked, of which session
  memory,    \* the edits in state.entries
  loaded,    \* history: the session these were read in, 0 for a new vault
  dirty,     \* state.dirty
  save,      \* the saves
  saved,     \* history: the edits that have been written somewhere
  hurried,   \* history: the edits made while a save or unlock was under way
  mixed      \* history: sessions that were sent what was not read in them

server == <<stored, etag>>
chosen == <<source, session, seen>>
shown == <<view, pending, memory, loaded, dirty>>
history == <<saved, hurried, mixed>>
vars == <<server, edits, opening, chosen, unlocking, shown, save, history>>

Edits == 1..MaxEdits
ETags == 0..MaxWrites
Sessions == 0..MaxSessions
Places == Vaults \cup {NoVault}
Source == [vault : Places, etag : ETags]
Content == [session : Sessions, text : SUBSET Edits]

(* A save: its text and the session that is from; once it is sent, the     *)
(* vault, the session and the ETag it is sent with.  Before, session is    *)
(* the one whose source has been given up for a file, 0 for none.          *)
Unsent == [phase : {"encrypting", "picking", "writing", "fallback"},
           text : SUBSET Edits, begun : Sessions,
           vault : {NoVault}, session : Sessions, base : {0}]
Sent == [phase : {"sent", "ok"}, text : SUBSET Edits, begun : Sessions,
         vault : Vaults, session : Sessions, base : ETags]
Save == Unsent \cup Sent
NoSave == [phase : {"none", "choice", "ended"}]
Ended == [phase |-> "ended"]

TypeOK ==
  /\ stored \in [Vaults -> SUBSET Edits] /\ etag \in [Vaults -> ETags]
  /\ edits \in 0..MaxEdits
  /\ opening \subseteq Vaults
  /\ source \in Places /\ session \in Sessions /\ seen \in Source
  /\ view \in {"locked", "password", "open"} /\ pending \subseteq Content
  /\ unlocking \subseteq Content
  /\ memory \subseteq Edits /\ loaded \in Sessions
  /\ dirty \in BOOLEAN
  /\ save \in [Saves -> Save \cup NoSave]
  /\ saved \subseteq Edits /\ hurried \subseteq Edits /\ mixed \subseteq Sessions

Init ==
  /\ stored = [v \in Vaults |-> {}] /\ etag = [v \in Vaults |-> 0]
  /\ edits = 0 /\ opening = {}
  /\ source = NoVault /\ session = 0
  /\ seen = [vault |-> NoVault, etag |-> 0]
  /\ view = "locked" /\ pending = {} /\ unlocking = {}
  /\ memory = {} /\ loaded = 0
  /\ dirty = FALSE
  /\ save = [i \in Saves |-> [phase |-> "none"]]
  /\ saved = {} /\ hurried = {} /\ mixed = {}

More == session < MaxSessions /\ Cardinality(opening) < MaxSessions - session  \* the bound
At(i, phase) == save[i].phase = phase
Live(i) == save[i].phase \notin {"none", "choice", "ended"}
UnderWay == unlocking # {} \/ \E i \in Saves : Live(i)
Ends(i) == save' = [save EXCEPT ![i] = Ended]

-----------------------------------------------------------------------------
(* The lock screen                                                         *)

(* openServerVault is called: lock, then read.                             *)
StartOpening(v) ==
  /\ view = "locked" /\ v \notin opening /\ More
  /\ opening' = opening \cup {v}
  /\ UNCHANGED <<server, edits, chosen, unlocking, shown, save, history>>

(* The content is there: the source is set, whatever else has become of    *)
(* the page.                                                               *)
OpenServerVault(v) ==
  /\ v \in opening /\ session < MaxSessions
  /\ opening' = opening \ {v}
  /\ source' = v /\ session' = session + 1
  /\ seen' = [vault |-> v, etag |-> etag[v]]
  /\ IF view = "open" THEN UNCHANGED <<view, pending>>
     ELSE view' = "password" /\ pending' = {[session |-> session', text |-> stored[v]]}
  /\ UNCHANGED <<server, edits, unlocking, memory, loaded, dirty, save, history>>

(* It cannot be read: the source is not set.                               *)
OpenFails(v) ==
  /\ v \in opening /\ opening' = opening \ {v}
  /\ UNCHANGED <<server, edits, chosen, unlocking, view, pending, memory, loaded,
                 dirty, save, history>>

(* useRememberedFile, loadFileViaPicker: a local file.                     *)
OpenFile ==
  /\ view = "locked" /\ view' = "password"
  /\ More /\ session' = session + 1
  /\ source' = NoVault /\ seen' = [vault |-> NoVault, etag |-> 0]
  /\ pending' = {[session |-> session', text |-> {}]}
  /\ UNCHANGED <<server, edits, opening, unlocking, memory, loaded, dirty, save, history>>

(* showFileStep: another source is to be chosen; this one stays till then. *)
ShowFileStep ==
  /\ view = "password" /\ view' = "locked" /\ pending' = {}
  /\ UNCHANGED <<server, edits, opening, chosen, unlocking, memory, loaded, dirty, save, history>>

(* tryUnlockPendingVault is called: the key is derived, the text decrypted. *)
TryUnlockPendingVault ==
  /\ view = "password" /\ unlocking' = unlocking \cup pending
  /\ UNCHANGED <<server, edits, opening, chosen, shown, save, history>>

(* createForm: a new vault, of no session, while a source may be left over. *)
CreateVault ==
  /\ view = "locked"
  /\ unlocking' = unlocking \cup {[session |-> 0, text |-> {}]}
  /\ UNCHANGED <<server, edits, opening, chosen, shown, save, history>>

(* The key is there: enterApp, whatever the page shows by then.  What was  *)
(* in an empty slot or is new is unsaved, and so is an upgraded file.      *)
Unlocked(p) ==
  /\ p \in unlocking /\ unlocking' = unlocking \ {p}
  /\ view' = "open" /\ pending' = {} /\ memory' = p.text /\ loaded' = p.session
  /\ dirty' \in BOOLEAN /\ (p.session = 0 => dirty')
  /\ UNCHANGED <<server, edits, opening, chosen, save, history>>

WrongPassword(p) ==
  /\ p \in unlocking /\ unlocking' = unlocking \ {p}
  /\ UNCHANGED <<server, edits, opening, chosen, shown, save, history>>

-----------------------------------------------------------------------------
(* The open vault                                                          *)

Edit ==
  /\ view = "open" /\ edits < MaxEdits
  /\ edits' = edits + 1
  /\ memory' = memory \cup {edits'}
  /\ dirty' = TRUE
  /\ hurried' = IF UnderWay THEN hurried \cup {edits'} ELSE hurried
  /\ UNCHANGED <<server, opening, chosen, unlocking, view, pending, loaded, save, saved, mixed>>

(* The source that was given up for a file which is not to be, if it is    *)
(* still the last one to be chosen.                                        *)
GivenUp(i) == save[i].session = session /\ session > 0

(* lockApp: the dialogs are closed, which ends the saves that wait for one. *)
LockApp(gone) ==
  /\ view' = "locked" /\ pending' = {}
  /\ source' = IF \E i \in Saves \ gone : At(i, "fallback") /\ GivenUp(i)
                 THEN seen.vault ELSE NoVault
  /\ memory' = {} /\ loaded' = 0 /\ dirty' = FALSE
  /\ save' = [i \in Saves |-> IF i \in gone \/ save[i].phase \in {"fallback", "choice"}
                               THEN Ended ELSE save[i]]

(* The button, where the choice is to discard if there is anything unsaved; *)
(* the clock; the sign-out, and "reload" after a conflict, which are there  *)
(* on the lock screen too.                                                  *)
Lock ==
  /\ LockApp({})
  /\ UNCHANGED <<server, edits, opening, session, seen, unlocking, history>>

-----------------------------------------------------------------------------
(* A save                                                                  *)

(* buildVaultLines: the text is what memory has now.                       *)
Begins(i, back) ==
  save' = [save EXCEPT ![i] =
    [phase |-> "encrypting", text |-> memory, begun |-> loaded,
     vault |-> NoVault, session |-> back, base |-> 0]]

SaveToFile(i) ==
  /\ view = "open" /\ At(i, "none")
  /\ Begins(i, 0)
  /\ UNCHANGED <<server, edits, opening, chosen, unlocking, shown, history>>

(* Not saved: the source that was given up comes back, where there is none. *)
Unsaved(i) ==
  /\ Ends(i)
  /\ source' = IF source = NoVault /\ GivenUp(i) THEN seen.vault ELSE source

(* Encryption needs a key after each of its awaits; it may be gone.        *)
EncryptionFails(i) ==
  /\ At(i, "encrypting")
  /\ Unsaved(i) \/ (Ends(i) /\ UNCHANGED source)
  /\ UNCHANGED <<server, edits, opening, session, seen, unlocking, shown, history>>

(* Broken: the source is not looked at again after the encryption.         *)
SaveToServerBroken(i) ==
  /\ At(i, "encrypting")
  /\ save' = [save EXCEPT ![i].phase = "sent", ![i].vault = source,
                          ![i].session = session, ![i].base = seen.etag]
  /\ mixed' = IF save[i].begun = session THEN mixed ELSE mixed \cup {session}
  /\ UNCHANGED <<server, edits, opening, chosen, unlocking, shown, saved, hurried>>

(* saveToServer, write: sent to the source there is now, with its ETag.    *)
SaveToServer(i) ==
  /\ At(i, "encrypting") /\ source # NoVault
  /\ save' = [save EXCEPT ![i].phase = "sent", ![i].vault = source,
                          ![i].session = session, ![i].base = seen.etag]
  /\ mixed' = IF save[i].begun = session THEN mixed ELSE mixed \cup {session}
  /\ UNCHANGED <<server, edits, opening, chosen, unlocking, shown, saved, hurried>>

(* The source is not the server's: a file is to be picked, or written; the *)
(* session is not of interest any more.                                    *)
SaveLocally(i) ==
  /\ At(i, "encrypting") /\ source = NoVault
  /\ \/ save' = [save EXCEPT ![i].phase = "picking", ![i].begun = 0]
     \/ save' = [save EXCEPT ![i].phase = "writing", ![i].begun = 0, ![i].session = 0]
  /\ UNCHANGED <<server, edits, opening, chosen, unlocking, shown, history>>

FilePicked(i) ==
  /\ At(i, "picking")
  /\ save' = [save EXCEPT ![i].phase = "writing", ![i].session = 0]
  /\ source' = NoVault
  /\ UNCHANGED <<server, edits, opening, session, seen, unlocking, shown, history>>

PickCancelled(i) ==
  /\ At(i, "picking") /\ Unsaved(i)
  /\ UNCHANGED <<server, edits, opening, session, seen, unlocking, shown, history>>

(* It is written: the flag is that of whatever is open by now; or it was   *)
(* asked to save and lock.                                                 *)
Written(i) ==
  \/ dirty' = FALSE /\ Ends(i) /\ UNCHANGED <<source, view, pending, memory, loaded>>
  \/ LockApp({i})

(* To the file, which takes its time; or downloaded, where files cannot be *)
(* written or the person prefers it.                                       *)
FileWritten(i) ==
  /\ \/ save[i].phase \in {"picking", "writing", "fallback"}
     \/ At(i, "encrypting") /\ source = NoVault
  /\ saved' = saved \cup save[i].text
  /\ Written(i)
  /\ UNCHANGED <<server, edits, opening, session, seen, unlocking, hurried, mixed>>

(* askSaveFallback: a download, another file, or nothing.                  *)
FileFails(i) ==
  /\ save[i].phase \in {"picking", "writing"}
  /\ save' = [save EXCEPT ![i].phase = "fallback"]
  /\ UNCHANGED <<server, edits, opening, chosen, unlocking, shown, history>>

FallbackPick(i) ==
  /\ At(i, "fallback") /\ view = "open"
  /\ Begins(i, IF source = NoVault THEN save[i].session ELSE session)
  /\ source' = NoVault
  /\ UNCHANGED <<server, edits, opening, session, seen, unlocking, shown, history>>

FallbackCancel(i) ==
  /\ At(i, "fallback") /\ Unsaved(i)
  /\ UNCHANGED <<server, edits, opening, session, seen, unlocking, shown, history>>

-----------------------------------------------------------------------------
(* The server                                                              *)

(* write_content: the ETag decides.                                        *)
WriteContent(i) ==
  /\ At(i, "sent")
  /\ LET v == save[i].vault IN
     /\ save[i].base = etag[v] /\ etag[v] < MaxWrites
     /\ stored' = [stored EXCEPT ![v] = save[i].text]
     /\ etag' = [etag EXCEPT ![v] = @ + 1]
     /\ saved' = saved \cup save[i].text
     /\ save' = [save EXCEPT ![i].phase = "ok", ![i].base = etag'[v]]
  /\ UNCHANGED <<edits, opening, chosen, unlocking, shown, hurried, mixed>>

(* Somebody else saves, or another tab of the same person.                 *)
OthersWrite(v) ==
  /\ etag[v] < MaxWrites /\ edits < MaxEdits
  /\ edits' = edits + 1
  /\ stored' = [stored EXCEPT ![v] = @ \cup {edits'}]
  /\ etag' = [etag EXCEPT ![v] = @ + 1]
  /\ saved' = saved \cup {edits'}
  /\ UNCHANGED <<opening, chosen, unlocking, shown, save, hurried, mixed>>

-----------------------------------------------------------------------------
(* Answers                                                                 *)

(* The source object that has sent the save is still the one in use.       *)
Own(i) == save[i].session = session

(* Saved: the source, which may be an old one by now, keeps the new ETag;  *)
(* the flag is the one of whatever is open.                                *)
AnswerOK(i) ==
  /\ At(i, "ok")
  /\ seen' = IF Own(i) THEN [seen EXCEPT !.etag = save[i].base] ELSE seen
  /\ Written(i)
  /\ UNCHANGED <<server, edits, opening, session, unlocking, history>>

Chosen(i) ==
  save' = [j \in Saves |-> IF j = i THEN [phase |-> "choice"]
                           ELSE IF At(j, "choice") THEN Ended ELSE save[j]]

(* Refused: an ETag that is stale stays so until the answer is there.      *)
Refused(i) == At(i, "sent") /\ save[i].base # etag[save[i].vault]

(* Broken: the tab takes over the ETag that the server has by now.         *)
AnswerConflictBroken(i) ==
  /\ Refused(i) /\ Chosen(i)
  /\ seen' = IF source = NoVault THEN seen ELSE [seen EXCEPT !.etag = etag[source]]
  /\ UNCHANGED <<server, edits, opening, source, session, unlocking, shown, history>>

(* offerConflictChoice: there is one dialog, and it is the latest save's.  *)
AnswerConflict(i) ==
  /\ Refused(i) /\ Chosen(i)
  /\ UNCHANGED <<server, edits, opening, chosen, unlocking, shown, history>>

(* Broken: the flag is reset before the outcome is known.                  *)
AnswerOtherwiseBroken(i) ==
  /\ save[i].phase \in {"sent", "ok"} /\ Ends(i)
  /\ dirty' = FALSE
  /\ UNCHANGED <<server, edits, opening, chosen, unlocking, view, pending, memory,
                 loaded, history>>

(* The lock is lost, or the connection breaks before the server has got    *)
(* the save or after: a message, nothing else.                             *)
AnswerOtherwise(i) ==
  /\ save[i].phase \in {"sent", "ok"} /\ Ends(i)
  /\ UNCHANGED <<server, edits, opening, chosen, unlocking, shown, history>>

ConflictCancel(i) ==
  /\ At(i, "choice") /\ Ends(i)
  /\ UNCHANGED <<server, edits, opening, chosen, unlocking, shown, history>>

(* Away from the server: a local file, if there is anything to be saved    *)
(* any more.                                                               *)
ConflictSaveAs(i) ==
  /\ At(i, "choice")
  /\ source' = NoVault
  /\ IF view = "open" THEN Begins(i, 0) ELSE Ends(i)
  /\ UNCHANGED <<server, edits, opening, session, seen, unlocking, shown, history>>

Next ==
  \/ \E v \in Vaults :
       \/ StartOpening(v) \/ OpenServerVault(v) \/ OpenFails(v)
       \/ OthersWrite(v)
  \/ OpenFile \/ ShowFileStep \/ TryUnlockPendingVault \/ CreateVault
  \/ \E p \in unlocking : Unlocked(p) \/ WrongPassword(p)
  \/ Edit \/ Lock
  \/ \E i \in Saves :
       \/ SaveToFile(i) \/ EncryptionFails(i) \/ SaveToServer(i) \/ SaveLocally(i)
       \/ FilePicked(i) \/ PickCancelled(i) \/ FileWritten(i) \/ FileFails(i)
       \/ FallbackPick(i) \/ FallbackCancel(i)
       \/ WriteContent(i) \/ AnswerOK(i) \/ AnswerConflict(i) \/ AnswerOtherwise(i)
       \/ ConflictCancel(i) \/ ConflictSaveAs(i)

Spec == Init /\ [][Next]_vars

-----------------------------------------------------------------------------
(* Properties                                                              *)

(* FUN-38: what is open and shown as saved has been saved: each edit has   *)
(* been written to the server or to a file, however many saves overlapped, *)
(* whatever became of them, and whatever was opened meanwhile.  The code   *)
(* does not promise it of an edit made while a save or an unlock was under *)
(* way, as its end resets the flag for it, too: README, disagreements.     *)
CleanIsSaved == view = "open" /\ ~dirty => memory \ hurried \subseteq saved

(* The save i has just been applied.                                       *)
Applied(i) == At(i, "sent") /\ At(i, "ok")'

(* FUN-94: no silent overwriting.  Whatever this tab sends, with however   *)
(* many saves under way and answers lost, no edit disappears from a vault: *)
(* other than one made while a save or an unlock was under way, or through *)
(* a source that was sent what had not been read from it.  The code does   *)
(* not exclude these two: README, disagreements.                           *)
NothingIsOverwritten ==
  [][\A v \in Vaults :
       \/ stored[v] \subseteq stored'[v] \cup hurried
       \/ \E i \in Saves : Applied(i) /\ save[i].vault = v /\ save[i].session \in mixed]_vars

(* FUN-94 without exception: what is sent to a source is what was read     *)
(* from it, with edits.  The code does not keep this.                      *)
NothingIsMixed == mixed = {}
=============================================================================

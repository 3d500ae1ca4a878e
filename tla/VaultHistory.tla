---------------------------- MODULE VaultHistory ----------------------------
(***************************************************************************)
(* What the server promises about one vault, without its requests, files,  *)
(* rows and transactions: a current content, and a log of numbered         *)
(* contents that grows at its end and is only ever cut by somebody who     *)
(* asked for it.  VaultStore implements this (Promise in that module).     *)
(***************************************************************************)
EXTENDS Naturals

CONSTANTS
  Contents,   \* what the vault's file can hold
  Seqs,       \* generation numbers
  Nothing     \* the content of a vault nothing was ever written to

VARIABLES
  current,    \* what reading the vault returns
  history,    \* the generations that can be listed and fetched: [Seqs -> Contents]
  high,       \* no number up to this one will be given out again
  doomed,     \* the generations somebody asked to be deleted
  deleting    \* somebody asked for the whole vault to be deleted

historyVars == <<current, history, high, doomed, deleting>>

Init ==
  /\ current = Nothing
  /\ history = [n \in Seqs |-> Nothing]
  /\ high = 0
  /\ doomed = {}
  /\ deleting = FALSE

(* The vault gets new contents, which nothing in the history describes yet.*)
Put ==
  /\ current' \in Contents \ {Nothing}
  /\ UNCHANGED <<history, high, doomed, deleting>>

(* The current content enters the history under the next number.           *)
Record ==
  /\ high + 1 \in Seqs
  /\ high' = high + 1
  /\ history' = [history EXCEPT ![high + 1] = current]
  /\ UNCHANGED <<current, doomed, deleting>>

(* Deleting generations is asked for first and happens later, if at all.   *)
Condemn ==
  /\ doomed' \in SUBSET Seqs
  /\ doomed \subseteq doomed'
  /\ UNCHANGED <<current, history, high, deleting>>

Forget ==
  /\ \E S \in SUBSET doomed :
       history' = [n \in Seqs |-> IF n \in S THEN Nothing ELSE history[n]]
  /\ UNCHANGED <<current, high, doomed, deleting>>

Delete ==
  /\ deleting' = TRUE
  /\ UNCHANGED <<current, history, high, doomed>>

(* Once the vault itself is to be deleted, nothing is promised any more.   *)
BeyondPromise ==
  /\ deleting
  /\ deleting' = TRUE
  /\ current' \in Contents
  /\ history' \in [Seqs -> Contents]
  /\ high' \in {0} \cup Seqs
  /\ doomed' \in SUBSET Seqs

Next == Put \/ Record \/ Condemn \/ Forget \/ Delete \/ BeyondPromise

Spec == Init /\ [][Next]_historyVars
=============================================================================

----------------------------- MODULE GroupFetch -----------------------------
(***************************************************************************)
(* The groups of a person, fetched page by page from the provider in the   *)
(* middle of the sign-in (fetch_groups, sync_groups_on_login).             *)
(*                                                                         *)
(* The provider answers as it likes: with a page, which may link to any    *)
(* page; with an error or something that is not JSON; with JSON of another *)
(* shape; or not within the ten seconds.  What apply makes of the result   *)
(* is the subject of Access; here it replaces the mirror.                  *)
(*                                                                         *)
(* Names begin with Fetch where Access has one of its own: AccessProofs is *)
(* about both modules.                                                     *)
(***************************************************************************)
EXTENDS Naturals

CONSTANTS
  Groups,     \* groups at the provider
  Pages,      \* how many pages the provider has
  MaxPages    \* MAX_PAGES

ASSUME FetchAssumption == Pages \in Nat \ {0} /\ MaxPages \in Nat \ {0}

VARIABLES
  content,  \* the groups on each of the provider's pages
  mirror,   \* the groups the person is in, as the service knows
  before,   \* history: the mirror at the beginning
  page,     \* the page to be asked for, or 0: there is no further one
  round,    \* how many pages have been asked for
  got,      \* what has been collected
  looped,   \* history: the provider has linked back
  phase     \* "asks", then "ok", "failed" or "raised"; "in" or "out"

fetchVars == <<content, mirror, before, page, round, got, looped, phase>>

FetchTypeOK ==
  /\ content \in [1..Pages -> SUBSET Groups]
  /\ mirror \subseteq Groups /\ before \subseteq Groups /\ got \subseteq Groups
  /\ page \in 0..Pages /\ round \in 0..MaxPages
  /\ looped \in BOOLEAN
  /\ phase \in {"asks", "ok", "failed", "raised", "in", "out"}

FetchInit ==
  /\ content \in [1..Pages -> SUBSET Groups]
  /\ mirror \in SUBSET Groups /\ before = mirror
  /\ page = 1 /\ round = 0 /\ got = {} /\ looped = FALSE
  /\ phase = "asks"

MoreToAsk == page # 0 /\ round < MaxPages

(* Broken: the rounds are not counted.                                     *)
NextRoundBroken == 0

NextRound == round + 1

(* _get_json and one round of the loop: the groups of the page, which may  *)
(* be none, and the link to the next page, to an earlier one, or none.     *)
PageComes ==
  /\ phase = "asks" /\ MoreToAsk
  /\ round' = NextRound
  /\ got' = got \cup content[page]
  /\ \/ page' = (IF page < Pages THEN page + 1 ELSE 0) /\ UNCHANGED looped
     \/ page' \in 1..page /\ looped' = TRUE
  /\ UNCHANGED <<content, mirror, before, phase>>

(* The loop ends: no further link, or enough pages.                        *)
AllCollected ==
  /\ phase = "asks" /\ ~MoreToAsk
  /\ phase' = "ok"
  /\ UNCHANGED <<content, mirror, before, page, round, got, looped>>

(* Broken: what has been collected so far is good enough.                  *)
AnswerUnusableBroken ==
  /\ phase = "asks" /\ MoreToAsk
  /\ phase' = "ok"
  /\ UNCHANGED <<content, mirror, before, page, round, got, looped>>

(* HTTPError, another status than 200, no JSON, no object: SyncFailed.     *)
AnswerUnusable ==
  /\ phase = "asks" /\ MoreToAsk
  /\ phase' = "failed"
  /\ UNCHANGED <<content, mirror, before, page, round, got, looped>>

(* An object of another shape - a list that is null, an item that is no    *)
(* object, a link that is no text - raises something else.                 *)
AnswerMalformed ==
  /\ phase = "asks" /\ MoreToAsk
  /\ phase' = "raised"
  /\ UNCHANGED <<content, mirror, before, page, round, got, looped>>

(* sync_groups_on_login: the mirror follows, or nothing but a line in the  *)
(* log; then the session.                                                  *)
SignInGoesOn ==
  /\ phase \in {"ok", "failed"} /\ phase' = "in"
  /\ mirror' = IF phase = "ok" THEN got ELSE mirror
  /\ UNCHANGED <<content, before, page, round, got, looped>>

(* Nobody catches the other exceptions: 500, and no session.               *)
IsTurnedAway ==
  /\ phase = "raised" /\ phase' = "out"
  /\ UNCHANGED <<content, mirror, before, page, round, got, looped>>

FetchNext ==
  \/ PageComes \/ AllCollected \/ AnswerUnusable \/ AnswerMalformed
  \/ SignInGoesOn \/ IsTurnedAway

FetchSpec == FetchInit /\ [][FetchNext]_fetchVars

(* Each answer comes or times out, and the loop runs.                      *)
FairFetch == FetchSpec /\ WF_fetchVars(FetchNext)

-----------------------------------------------------------------------------
(* Properties                                                              *)

(* SEC-46: the mirror is the provider's whole answer or what it was; a     *)
(* fetch that fails half way takes nobody out of a group.  A provider that *)
(* links back is taken for what it has shown.                              *)
WholeOrNothing ==
  mirror = before \/ looped \/ mirror = UNION {content[n] : n \in 1..Pages}

(* Whatever the provider links to, the sign-in comes to an end.            *)
SignInEnds == <>(phase \in {"in", "out"})

(* oidc.py: "A provider that is slow or misconfigured must not turn into a *)
(* locked door".  The code does not keep this: see the README,             *)
(* disagreements.                                                          *)
NoLockedDoor == phase # "out"
=============================================================================

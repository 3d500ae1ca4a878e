----------------------------- MODULE MCAccounts -----------------------------
(* Small instances of Accounts.                                            *)
EXTENDS Accounts, TLC

MCSymmetry ==
  Permutations(Emails) \cup Permutations(Subjects)
    \cup Permutations(Sessions) \cup Permutations(Reqs)

(* Requests about providers, and what it takes to make them.               *)
MCProviders ==
  {"createProvider", "editProvider", "deleteProvider", "addEntry", "signIn"}

(* Requests about people.                                                  *)
MCPeople ==
  {"addEntry", "editEntry", "removeEntry", "editUser", "deleteUser", "revoke",
   "signIn", "setup"}

(* A behaviour is followed until an account or its rights are in doubt.    *)
MCUndoubted == raced \subseteq {"list"}
=============================================================================

---------------------------- MODULE MCGroupFetch ----------------------------
(* Small instances of GroupFetch.                                          *)
EXTENDS GroupFetch
=============================================================================

---------------------------- MODULE MCMigrations ----------------------------
(* Small instances of Migrations: two accounts, of which two addresses of  *)
(* one provider make every relation there is.                              *)
EXTENDS Migrations
=============================================================================

------------------------ MODULE MCFixturePublication ------------------------
(* Three runs, so that one may die holding the lock and two meet afterwards. *)
EXTENDS FixturePublication
=============================================================================

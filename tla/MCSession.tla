------------------------------ MODULE MCSession ------------------------------
(* Two accounts, each there already or to be created, for Session.         *)
EXTENDS Session

CONSTANTS ann, bob
=============================================================================

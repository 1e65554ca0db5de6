------------------------------ MODULE MCForms ------------------------------
(* Two passwords, one of them strong, and an email of each kind.           *)
EXTENDS FormValidation

CONSTANTS name, email, notEmail, strong, weak
=============================================================================

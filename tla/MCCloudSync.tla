----------------------------- MODULE MCCloudSync -----------------------------
(* One or two users and files, and a few saves, for CloudSync.             *)
EXTENDS CloudSync

CONSTANTS ann, bob, fX, fY
=============================================================================

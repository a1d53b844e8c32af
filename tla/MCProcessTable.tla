-------------------------- MODULE MCProcessTable --------------------------
(* Instances of ProcessTable for TLC; the other values are in the .cfg files. *)
EXTENDS ProcessTable

NoCodes == {}
=============================================================================

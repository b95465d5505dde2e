---------------------------- MODULE MCProcessList ---------------------------
(* Three handles that are opened, used and closed by their threads.        *)
EXTENDS ProcessList
=============================================================================

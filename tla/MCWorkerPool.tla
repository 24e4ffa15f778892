----------------------------- MODULE MCWorkerPool -----------------------------
(* Checks the pool inside the server; the configuration gives the sets     *)
(* their model values.                                                     *)
EXTENDS Server
=============================================================================

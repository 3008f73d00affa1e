------------------------------ MODULE MCIngest ------------------------------
(* Ingest with one client that has an address, those that have none, and   *)
(* two requests at once.                                                   *)
EXTENDS Ingest

CONSTANTS i1, h1, h2
=============================================================================

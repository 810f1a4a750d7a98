----------------------------- MODULE MCWorkers -----------------------------
(* Small instances of Workers for TLC. *)
EXTENDS Workers

MCReaders == {"analysis", "storage"}
MCMaxWords == [analysis |-> 4, storage |-> 4]
=============================================================================

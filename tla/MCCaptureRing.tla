--------------------------- MODULE MCCaptureRing ---------------------------
(* Small instances of CaptureRing for TLC. *)
EXTENDS CaptureRing

\* The two workers of cores.cpp; storage asks for more words than analysis.
MCReaders == {"analysis", "storage"}
MCMaxWords == [analysis |-> 2, storage |-> 3]
=============================================================================

--------------------------- MODULE MCIngestQueue ---------------------------
(* Instances of IngestQueue for TLC. *)
EXTENDS IngestQueue, TLC

\* Workers are interchangeable.
WorkerSymmetry == Permutations(Workers)
============================================================================

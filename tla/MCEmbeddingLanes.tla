-------------------------- MODULE MCEmbeddingLanes --------------------------
(***************************************************************************)
(* Small instances of EmbeddingLanes: a search, a job, and one of either.  *)
(***************************************************************************)
EXTENDS EmbeddingLanes, TLC

CONSTANTS search, either, job

SearchesAndJobs ==
    search :> {"query"} @@ either :> {"query", "document"} @@ job :> {"document"}
=============================================================================

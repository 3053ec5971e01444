--------------------------- MODULE MCAsyncWorker ---------------------------
(* Small instances of AsyncWorker for TLC. *)
EXTENDS AsyncWorker
=============================================================================

---------------------------- MODULE MCLoopThread ----------------------------
(* Small instances of LoopThread, and of the EventLoop in it, for TLC. *)
EXTENDS LoopThread
=============================================================================

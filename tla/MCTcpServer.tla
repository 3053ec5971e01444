---------------------------- MODULE MCTcpServer ----------------------------
(* Small instances of TcpServer for TLC. *)
EXTENDS TcpServer, TLC

(* Thread pools of no, one and two threads. *)
SingleReactor == <<>>
OneSubLoop    == <<"sub1">>
TwoSubLoops   == <<"sub1", "sub2">>
=============================================================================

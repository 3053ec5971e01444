----------------------------- MODULE MCLogFlush -----------------------------
(* A small instance of LogFlush for TLC. *)
EXTENDS LogFlush

File(p) == [kind |-> "file", path |-> p]
Roll(p) == [kind |-> "roll", path |-> p]

Sizes == [p \in Paths |-> 2]

(* Two files of any kinds, two sinks that share their files, or nothing,   *)
(* for which Build takes stdout.                                           *)
Loggers == {<<File("a"), Roll("r")>>, <<File("a"), File("b")>>,
            <<File("a"), File("a")>>, <<Roll("r"), Roll("r")>>, <<>>}

(* 11 January and 1 November: two seconds with one stamp. *)
TwoSeconds == <<<<1, 11>>, <<11, 1>>>>
=============================================================================

------------------------------- MODULE MCSala -------------------------------
(* Two clients, one of which calls twice: answers of its first call are    *)
(* still about while it makes the second and the other client books.       *)
EXTENDS Sala

CONSTANTS c1, c2

MCClient   == {c1, c2}
MCChiamate == [c \in Client |-> IF c = c1 THEN 2 ELSE 1]
=============================================================================

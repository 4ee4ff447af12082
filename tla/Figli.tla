------------------------------- MODULE Figli -------------------------------
(***************************************************************************)
(* The children of a forking server and its SIGCHLD handler.               *)
(*                                                                         *)
(* RemoteSort_server, the select servers and del_line-server fork a child  *)
(* per request and install the same handler, "gestore", which calls wait   *)
(* once.  The kernel keeps one pending bit for SIGCHLD, not a queue, and   *)
(* blocks the signal while the handler runs.                               *)
(***************************************************************************)
EXTENDS Integers, FiniteSets

VARIABLES vivi,       \* children running
          zombie,     \* children that have exited and were not waited for
          pendente,   \* SIGCHLD is pending
          inGestore   \* the server is inside gestore, before its wait

figliVars == <<vivi, zombie, pendente, inGestore>>

FigliInit ==
  /\ vivi = {} /\ zombie = {}
  /\ pendente = FALSE /\ inGestore = FALSE

fork(k) ==
  /\ vivi' = vivi \cup {k}
  /\ UNCHANGED <<zombie, pendente, inGestore>>

\* Child k calls exit.
exit(k) ==
  /\ k \in vivi
  /\ vivi' = vivi \ {k}
  /\ zombie' = zombie \cup {k}
  /\ pendente' = TRUE
  /\ UNCHANGED inGestore

\* The pending signal is delivered: the server is interrupted.
SIGCHLD ==
  /\ pendente /\ ~inGestore
  /\ pendente' = FALSE
  /\ inGestore' = TRUE
  /\ UNCHANGED <<vivi, zombie>>

\* Mutant: the handler calls wait in a loop until it is refused, and blocks.
gestore_in_ciclo ==
  /\ inGestore
  /\ \E z \in zombie : zombie' = zombie \ {z}
  /\ UNCHANGED <<vivi, pendente, inGestore>>

\* wait(&stato) takes one zombie, any, and the handler returns.  With none it
\* would block the server until some child exits.
gestore ==
  /\ inGestore
  /\ \E z \in zombie : zombie' = zombie \ {z}
  /\ inGestore' = FALSE
  /\ UNCHANGED <<vivi, pendente>>

-----------------------------------------------------------------------------
(* Properties. *)

FigliTypeOK(K) ==
  /\ vivi \subseteq K /\ zombie \subseteq K /\ vivi \cap zombie = {}
  /\ pendente \in BOOLEAN /\ inGestore \in BOOLEAN

\* The server never sleeps inside its signal handler: whenever gestore runs
\* its wait there is a child to collect, although signals are merged and
\* children exit at any moment (gestore calls wait without WNOHANG).
GestoreNonBlocca == inGestore => zombie # {}

\* The comment at the signal call: once nothing is running and no signal is
\* on its way, no child is left a zombie.
NienteZombie ==
  vivi = {} /\ ~pendente /\ ~inGestore => zombie = {}
=============================================================================

----------------------------- MODULE MCXFactor -----------------------------
(* The table of inizializza cut to one row in disuse, with few votes so that *)
(* the minimum is reached, and with Paperino, whom inizializza writes to a   *)
(* row it then overwrites: two candidates of one judge.                      *)
EXTENDS XFactor

MCRighe == <<[candidato |-> "Brasco",   giudice |-> "Bowie",     voto |-> 0],
             [candidato |-> "Viga",     giudice |-> "Winehouse", voto |-> 1],
             [candidato |-> "Paperino", giudice |-> "Bowie",     voto |-> 0],
             [candidato |-> "L",        giudice |-> "L",         voto |-> -1]>>

MCTre == [c \in Client |-> 3]
MCUna == [c \in Client |-> 1]
=============================================================================

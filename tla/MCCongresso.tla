---------------------------- MODULE MCCongresso ----------------------------
(* Two runs of the congress server, one after the other or together, and a  *)
(* server of another kind, whose tags may be refused.                       *)
EXTENDS Congresso, TLC

CONSTANTS c1, c2

MCServiceName == [s \in Server |-> IF s \in Congressi THEN "ServerCongresso" ELSE "Altro"]
MCTags == [s \in Server |->
  IF s \in Congressi THEN {<<"congresso", "registrazione", "programma">>}
                     ELSE {<<"sconosciuto">>, <<"ristorante">>}]
Simmetria == Permutations(Congressi)
MCMaxChiamate == [c \in Client |-> IF c = c1 THEN 2 ELSE 1]
=============================================================================

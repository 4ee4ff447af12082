-------------------------- MODULE MCSelectServer1 --------------------------
(* One file of two blocks and one name that is missing. *)
EXTENDS SelectServer1, TLC

MCBlocchi == "testo" :> 2
MCNomi    == {"testo", "manca"}
MCConteggi == {-1, 0}       \* no directory of that name, or an empty one
=============================================================================

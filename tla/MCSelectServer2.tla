-------------------------- MODULE MCSelectServer2 --------------------------
(* One file of one byte, one empty file and one name that is missing; one *)
(* client asks twice, the other only holds its connection for a while.     *)
EXTENDS SelectServer2, TLC

CONSTANTS s1, s2

MCClientS == {s1, s2}
MCRichieste == (s1 :> 2) @@ (s2 :> 0)
MCByte    == ("testo" :> 1) @@ ("vuoto" :> 0)
MCNomi    == {"testo", "vuoto", "manca"}
=============================================================================

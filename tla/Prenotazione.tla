---------------------------- MODULE Prenotazione ----------------------------
(***************************************************************************)
(* What the booking service of Esercitazione 8 promises, without RPC:      *)
(* every seat is given away at most once, a call gets at most one seat, a  *)
(* call is told "0" only if it holds the seat it asked for, and it is told *)
(* "-2" only about a seat that is taken.  Nothing is said of who holds a   *)
(* refused seat: that is all an at-least-once transport can offer.         *)
(***************************************************************************)
EXTENDS Integers

CONSTANTS Chi,         \* the calls
          Posti,       \* the seats
          Tipi,        \* the kinds of reservation
          Iniziale,    \* the hall as it opens
          Nessuno

VARIABLES stato,       \* stato[p]: "L", or the kind seat p is reserved as
          titolare,    \* titolare[p]: the call that reserved seat p
          detto        \* the answers given so far

pVars == <<stato, titolare, detto>>

PInit == /\ stato = Iniziale
         /\ titolare = [p \in Posti |-> Nessuno]
         /\ detto = {}

Assegna(k, p, t) ==
  /\ stato[p] = "L"
  /\ \A q \in Posti : titolare[q] # k
  /\ stato' = [stato EXCEPT ![p] = t]
  /\ titolare' = [titolare EXCEPT ![p] = k]
  /\ UNCHANGED detto

Conferma(k, p) ==
  /\ titolare[p] = k
  /\ detto' = detto \cup {[chi |-> k, posto |-> p, cod |-> 0]}
  /\ UNCHANGED <<stato, titolare>>

Rifiuta(k, p) ==
  /\ stato[p] # "L"
  /\ detto' = detto \cup {[chi |-> k, posto |-> p, cod |-> -2]}
  /\ UNCHANGED <<stato, titolare>>

PNext == \E k \in Chi, p \in Posti :
           \/ \E t \in Tipi : Assegna(k, p, t)
           \/ Conferma(k, p)
           \/ Rifiuta(k, p)

PSpec == PInit /\ [][PNext]_pVars
=============================================================================

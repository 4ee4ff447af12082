---------------------------- MODULE Interrogazioni ----------------------------
(***************************************************************************)
(* The exercises in which clients ask a server and wait for an answer:     *)
(* datagrams (Servizi), a multicast group (Multicast), RPC (ServiziRpc)    *)
(* and RMI (CongressoSemplice).  They share no state: a behaviour runs one *)
(* of them, which is chosen at the start, and the others stay as they are. *)
(***************************************************************************)
EXTENDS Servizi, Multicast, ServiziRpc, CongressoSemplice

VARIABLE attivo  \* the exercise that runs

interrogazioniVars == <<serviziVars, multicastVars, serviziRpcVars, congressoVars, attivo>>

Init ==
  /\ ServiziInit /\ MulticastInit /\ RpcServiziInit /\ CongressoInit
  /\ attivo = "nessuno"

\* Somebody starts an exercise.
Sceglie ==
  /\ attivo = "nessuno"
  /\ attivo' \in {"servizi", "multicast", "rpc", "congresso"}
  /\ UNCHANGED <<serviziVars, multicastVars, serviziRpcVars, congressoVars>>

Next ==
  \/ Sceglie
  \/ /\ attivo = "servizi" /\ ServiziNext
     /\ UNCHANGED <<multicastVars, serviziRpcVars, congressoVars, attivo>>
  \/ /\ attivo = "multicast" /\ MulticastNext
     /\ UNCHANGED <<serviziVars, serviziRpcVars, congressoVars, attivo>>
  \/ /\ attivo = "rpc" /\ RpcServiziNext
     /\ UNCHANGED <<serviziVars, multicastVars, congressoVars, attivo>>
  \/ /\ attivo = "congresso" /\ CongressoNext
     /\ UNCHANGED <<serviziVars, multicastVars, serviziRpcVars, attivo>>

Spec == Init /\ [][Next]_interrogazioniVars
=============================================================================

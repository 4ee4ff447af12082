------------------------------- MODULE RpcUdp -------------------------------
(***************************************************************************)
(* Sun RPC over UDP as the rpcgen programs of the repository use it.       *)
(*                                                                         *)
(* A client owns one handle (clnt_create(host, PROG, VERS, "udp")) and has *)
(* at most one call outstanding.  clnt_call sends a datagram, sends a      *)
(* fresh copy of it each time the retry timer expires, and gives up when   *)
(* the total TIMEOUT of the stubs has run out.  A reply is accepted only   *)
(* if it carries the identifier (xid) of the outstanding call.             *)
(*                                                                         *)
(* The server side is the loop of svc_run: one request is taken, executed  *)
(* and answered before the next one is looked at.  The generated main      *)
(* calls svcudp_create and never svcudp_enablecache, so a second copy of a *)
(* request is executed again.                                              *)
(*                                                                         *)
(* Datagrams are members of sets: they may overtake one another, stay in   *)
(* flight for ever (which is how a loss is modelled) and arrive after the  *)
(* call they belong to has returned.  "copia" tells the copies of one      *)
(* request apart; it is not on the wire and nobody's decision reads it.    *)
(***************************************************************************)
EXTENDS Integers

CONSTANTS Client,       \* the client processes
          Tentativi,    \* datagrams per call: total TIMEOUT / retry timer
          MaxChiamate,  \* bound: client -> calls it makes before it stops
          Nessuno       \* "no value yet"

ASSUME RpcAssumption == Tentativi \in Nat \ {0} /\ MaxChiamate \in [Client -> Nat]

VARIABLES fase,       \* fase[c]: at the menu, inside clnt_call, or exited
          xid,        \* xid[c]: identifier of the last call
          copie,      \* copie[c]: datagrams sent for the last call
          arg,        \* arg[c]: argument of the last call
          richieste,  \* requests in flight
          risposte    \* replies in flight, each with the request it answers

rpcVars == <<fase, xid, copie, arg, richieste, risposte>>

Richiesta(c, x, n, a) == [client |-> c, xid |-> x, copia |-> n, arg |-> a]

RichiestaRpc(A)   == [client : Client, xid : Nat, copia : Nat, arg : A]
RispostaRpc(A, R) == [req : RichiestaRpc(A), ris : R]

RpcInit ==
  /\ fase = [c \in Client |-> "menu"]
  /\ xid = [c \in Client |-> 0]
  /\ copie = [c \in Client |-> 0]
  /\ arg = [c \in Client |-> Nessuno]
  /\ richieste = {}
  /\ risposte = {}

-----------------------------------------------------------------------------
(* The client's side. *)

\* Mutant: the handle's identifier does not change from call to call.
clnt_call_stesso_xid(c, a) ==
  /\ fase[c] = "menu"
  /\ copie' = [copie EXCEPT ![c] = 1]
  /\ fase' = [fase EXCEPT ![c] = "attesa"]
  /\ xid' = [xid EXCEPT ![c] = 1]
  /\ arg' = [arg EXCEPT ![c] = a]
  /\ richieste' = richieste \cup {Richiesta(c, 1, 1, a)}
  /\ UNCHANGED risposte

\* The stub enters clnt_call: a new xid and the first datagram.
clnt_call(c, a) ==
  /\ fase[c] = "menu"
  /\ xid[c] < MaxChiamate[c]
  /\ fase' = [fase EXCEPT ![c] = "attesa"]
  /\ xid' = [xid EXCEPT ![c] = @ + 1]
  /\ copie' = [copie EXCEPT ![c] = 1]
  /\ arg' = [arg EXCEPT ![c] = a]
  /\ richieste' = richieste \cup {Richiesta(c, xid[c] + 1, 1, a)}
  /\ UNCHANGED risposte

\* The retry timer expires while the call waits: the same request goes again.
Ritrasmetti(c) ==
  /\ fase[c] = "attesa"
  /\ copie[c] < Tentativi
  /\ copie' = [copie EXCEPT ![c] = @ + 1]
  /\ richieste' = richieste \cup {Richiesta(c, xid[c], copie[c] + 1, arg[c])}
  /\ UNCHANGED <<fase, xid, arg, risposte>>

\* Mutant: any reply addressed to the client is taken as the answer.
Restituisci_senza_xid(c, r) ==
  /\ r \in risposte
  /\ r.req.client = c
  /\ fase[c] = "attesa"
  /\ fase' = [fase EXCEPT ![c] = "menu"]
  /\ risposte' = risposte \ {r}
  /\ UNCHANGED <<xid, copie, arg, richieste>>

\* A reply to the outstanding call arrives: clnt_call returns RPC_SUCCESS.
\* Replies with another xid are read and thrown away: they simply stay.
Restituisci(c, r) ==
  /\ r \in risposte
  /\ r.req.client = c
  /\ fase[c] = "attesa"
  /\ r.req.xid = xid[c]
  /\ fase' = [fase EXCEPT ![c] = "menu"]
  /\ risposte' = risposte \ {r}
  /\ UNCHANGED <<xid, copie, arg, richieste>>

\* TIMEOUT has run out: the stub returns NULL and the program calls exit(1).
Scaduto(c) ==
  /\ fase[c] = "attesa"
  /\ copie[c] = Tentativi
  /\ fase' = [fase EXCEPT ![c] = "fine"]
  /\ UNCHANGED <<xid, copie, arg, richieste, risposte>>

\* End of file at the menu: clnt_destroy and exit(0).
clnt_destroy(c) ==
  /\ fase[c] = "menu"
  /\ fase' = [fase EXCEPT ![c] = "fine"]
  /\ UNCHANGED <<xid, copie, arg, richieste, risposte>>

-----------------------------------------------------------------------------
(* The server's side: the dispatcher answers request m with result ris. *)

svc_sendreply(m, ris) ==
  /\ m \in richieste
  /\ richieste' = richieste \ {m}
  /\ risposte' = risposte \cup {[req |-> m, ris |-> ris]}
  /\ UNCHANGED <<fase, xid, copie, arg>>
=============================================================================

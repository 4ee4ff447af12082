------------------------------ MODULE Datagrammi ------------------------------
(***************************************************************************)
(* Question and answer over UDP, without RPC: LineClient (Java), and the   *)
(* C clients OpDatagram, longest-word and dgram_client.                    *)
(*                                                                         *)
(* A client sends its user's question in one datagram and waits on the     *)
(* same socket.  Nothing in a datagram numbers the question: "numero" is   *)
(* on the wire of no program, and no action decides by it.  The Java       *)
(* client waits 30 s; the C clients wait for ever.  The network loses and  *)
(* delays (a datagram that nobody takes stays where it is), and a socket   *)
(* keeps an answer that comes when nobody waits for it.                    *)
(***************************************************************************)
EXTENDS Integers

CONSTANTS Utente,      \* the client processes
          MaxDomande   \* bound: client -> questions it asks

ASSUME DatagrammiAssumption == MaxDomande \in [Utente -> Nat]

VARIABLES attende,   \* attende[c]: c is inside recvfrom / receive
          numero,    \* numero[c]: history, questions asked by c
          domande,   \* datagrams on their way to the server
          arrivi,    \* answers on their way to, or in, the clients' sockets
          scadute,   \* history: questions whose wait ended without an answer
          mostrate   \* history: answers shown, with the question they came after

udpVars == <<attende, numero, domande, arrivi, scadute, mostrate>>

UdpInit ==
  /\ attende = [c \in Utente |-> FALSE]
  /\ numero = [c \in Utente |-> 0]
  /\ domande = {} /\ arrivi = {} /\ scadute = {} /\ mostrate = {}

\* The user's question goes to the server.
sendto(c, q) ==
  /\ ~attende[c] /\ numero[c] < MaxDomande[c]
  /\ attende' = [attende EXCEPT ![c] = TRUE]
  /\ numero' = [numero EXCEPT ![c] = @ + 1]
  /\ domande' = domande \cup {[da |-> c, num |-> numero[c] + 1, chiede |-> q]}
  /\ UNCHANGED <<arrivi, scadute, mostrate>>

\* Mutant: the answer is left in the socket, as with MSG_PEEK.
recvfrom_senza_togliere(c) ==
  \E r \in arrivi :
    /\ attende[c] /\ r.dom.da = c
    /\ attende' = [attende EXCEPT ![c] = FALSE]
    /\ mostrate' = mostrate \cup {[dom |-> r.dom, ris |-> r.ris, dopo |-> numero[c]]}
    /\ UNCHANGED <<arrivi, numero, domande, scadute>>

\* Whatever answer is in the socket is shown as the answer to the question.
recvfrom(c) ==
  \E r \in arrivi :
    /\ attende[c] /\ r.dom.da = c
    /\ attende' = [attende EXCEPT ![c] = FALSE]
    /\ arrivi' = arrivi \ {r}
    /\ mostrate' = mostrate \cup {[dom |-> r.dom, ris |-> r.ris, dopo |-> numero[c]]}
    /\ UNCHANGED <<numero, domande, scadute>>

\* setSoTimeout: the wait ends and the client goes on with its next question.
SocketTimeout(c) ==
  /\ attende[c]
  /\ attende' = [attende EXCEPT ![c] = FALSE]
  /\ scadute' = scadute \cup {<<c, numero[c]>>}
  /\ UNCHANGED <<numero, domande, arrivi, mostrate>>

\* The server takes one datagram and answers its sender.
Risposta(d, ris) ==
  /\ d \in domande
  /\ domande' = domande \ {d}
  /\ arrivi' = arrivi \cup {[dom |-> d, ris |-> ris]}
  /\ UNCHANGED <<attende, numero, scadute, mostrate>>

\* The server takes a datagram it cannot make sense of and answers nothing.
Scarta(d) ==
  /\ d \in domande
  /\ domande' = domande \ {d}
  /\ UNCHANGED <<attende, numero, arrivi, scadute, mostrate>>

\* What a user is shown answers the question just asked, unless that question
\* or an earlier one of the same user was given up: from then on answers may
\* stay behind the questions for ever, also those whose own wait did not
\* expire.  No question is answered twice.  Without a timeout, as in the C
\* clients, every answer is to its question although nothing numbers them.
RispostaPertinente ==
  \A e, f \in mostrate :
    /\ e.dom.num = e.dopo \/ \E n \in 1 .. e.dom.num : <<e.dom.da, n>> \in scadute
    /\ e.dom.da = f.dom.da /\ e.dom.num = f.dom.num => e = f
=============================================================================

------------------------------- MODULE Scambio --------------------------------
(***************************************************************************)
(* Esercitazione 1 proposta: DiscoveryServer.java starts a SwapServer      *)
(* thread for a file at a port and tells clients the port of a file;       *)
(* SwapClient.java asks for it and then for exchanges of rows, over UDP    *)
(* with a timeout of 30 s.                                                 *)
(*                                                                         *)
(* A thread is named by the file it was started for, which is also what    *)
(* its port stands for: the ports of a command line are taken different,   *)
(* as the TODO of DiscoveryServer asks.                                    *)
(***************************************************************************)
EXTENDS Riscrittura, FiniteSets

CONSTANTS Cliente,    \* the SwapClient processes
          Comandi,    \* command lines: sequences of [file, esiste]
          Testo,      \* the rows of each file
          Coppie,     \* pairs of rows users ask for
          MaxScambi   \* bound: client -> exchanges it asks for

ASSUME ScambioAssumption ==
  /\ File \subseteq Lavoratori /\ \A f \in File : Sequenza(Testo[f])
  /\ \A a \in Comandi : Sequenza(a) /\ \A k \in DOMAIN a : a[k].file \in File

VARIABLES argomenti,  \* the command line
          vivi,       \* SwapServer threads that run
          cliente,    \* where each client is
          perFile,    \* the file it was given on its command line
          porta,      \* the thread whose port it was told
          pacchetto,  \* the bytes of its doStream, which only grow
          inRete      \* datagrams in flight or in a socket

scambioVars == <<riscritturaVars, argomenti, vivi, cliente, perFile, porta, pacchetto, inRete>>

ScambioInit ==
  /\ RiscritturaInit
  /\ argomenti = <<>> /\ vivi = {}
  /\ cliente = [c \in Cliente |-> "fuori"]
  /\ perFile = [c \in Cliente |-> CHOOSE f \in File : TRUE]
  /\ porta = [c \in Cliente |-> "nessuna"]
  /\ pacchetto = [c \in Cliente |-> <<>>]
  /\ inRete = {}

\* A pair that is not two numbers, as the user may type it.
Malformata == <<"x">>

validArgs(a) == Cardinality({k \in DOMAIN a : a[k].esiste})

\* for (i = 1; i <= validArgs; i += 2): of the pairs, which begin at the odd
\* places of args, only those that begin at most at validArgs, valid or not.
Visti(a) == {k \in DOMAIN a : 2 * k - 1 <= validArgs(a)}

\* The port of a file, by the same loop.
cercaPorta(f) ==
  IF \E k \in Visti(argomenti) : argomenti[k].file = f THEN f ELSE "non trovato"

\* DiscoveryServer.main: check the pairs, start the threads.
DiscoveryServer ==
  \E a \in Comandi :
    LET esistenti == {k \in DOMAIN a : a[k].esiste}
        nomi == SetToSeq({a[k].file : k \in esistenti})
    IN  /\ Prepara("swap", nomi, Testo)
        /\ argomenti' = a
        /\ vivi' = {a[k].file : k \in Visti(a)}
        /\ UNCHANGED <<cliente, perFile, porta, pacchetto, inRete>>

\* A client asks for the port of its file.
chiede_porta(c) ==
  /\ cliente[c] = "fuori" /\ programma = "swap"
  /\ \E f \in File : perFile' = [perFile EXCEPT ![c] = f]
  /\ cliente' = [cliente EXCEPT ![c] = "scopre"]
  /\ inRete' = inRete \cup {[a |-> "discovery", da |-> c, file |-> perFile'[c]]}
  /\ UNCHANGED <<riscritturaVars, argomenti, vivi, porta, pacchetto>>

\* DiscoveryServer answers with a port, or with a sentence.
risponde_porta(m) ==
  /\ m.a = "discovery"
  /\ inRete' = (inRete \ {m}) \cup {[a |-> m.da, da |-> "discovery", porta |-> cercaPorta(m.file)]}
  /\ UNCHANGED <<riscritturaVars, argomenti, vivi, cliente, perFile, porta, pacchetto>>

\* The client has its port.  The sentence is not the "File non trovato" it
\* compares with, parseInt throws, and it exits; so it does when the answer
\* does not come in time.
legge_porta(c) ==
  /\ cliente[c] = "scopre"
  /\ \/ \E m \in inRete :
          /\ m.a = c /\ m.da = "discovery"
          /\ porta' = [porta EXCEPT ![c] = m.porta]
          /\ cliente' = [cliente EXCEPT ![c] = IF m.porta \in File THEN "menu" ELSE "fine"]
          /\ inRete' = inRete \ {m}
     \/ /\ cliente' = [cliente EXCEPT ![c] = "fine"]
        /\ UNCHANGED <<porta, inRete>>
  /\ UNCHANGED <<riscritturaVars, argomenti, vivi, perFile, pacchetto>>

\* The user's pair is appended to what doStream already holds, and all of it
\* is sent.
chiede_scambio(c) ==
  /\ cliente[c] = "menu" /\ Len(pacchetto[c]) < MaxScambi[c]
  /\ \E p \in Coppie : pacchetto' = [pacchetto EXCEPT ![c] = Append(@, p)]
  /\ inRete' = inRete \cup {[a |-> porta[c], da |-> c, righe |-> pacchetto'[c]]}
  /\ cliente' = [cliente EXCEPT ![c] = "attende"]
  /\ UNCHANGED <<riscritturaVars, argomenti, vivi, perFile, porta>>

\* A thread takes a datagram and reads the first pair in it.  A pair that is
\* not two numbers ends the thread; a file that is gone, the request.
SwapServer(t) ==
  \E m \in inRete :
    /\ t \in vivi /\ lavoro[t] = Ozio /\ m.a = t
    /\ inRete' = inRete \ {m}
    /\ IF m.righe[1] = Malformata
       THEN vivi' = vivi \ {t} /\ UNCHANGED riscritturaVars
       ELSE /\ IF ~esiste(t) THEN UNCHANGED riscritturaVars ELSE apri(t, t, m.righe[1], m.da)
            /\ UNCHANGED vivi
    /\ UNCHANGED <<argomenti, cliente, perFile, porta, pacchetto>>

SwapServer_lavora(t) ==
  /\ Riscrive(t)
  /\ UNCHANGED <<argomenti, vivi, cliente, perFile, porta, pacchetto, inRete>>

\* Every answer is 0: the -1 of a missing row has been overwritten.
SwapServer_risponde(t) ==
  /\ lavoro[t].passo = "risponde"
  /\ inRete' = inRete \cup {[a |-> lavoro[t].chi, da |-> t, esito |-> 0]}
  /\ finito(t)
  /\ UNCHANGED <<argomenti, vivi, cliente, perFile, porta, pacchetto>>

\* The answer, or the timeout: the user may go on either way.
legge_esito(c) ==
  /\ cliente[c] = "attende"
  /\ \/ \E m \in inRete : m.a = c /\ m.da \in File /\ inRete' = inRete \ {m}
     \/ UNCHANGED inRete
  /\ cliente' = [cliente EXCEPT ![c] = "menu"]
  /\ UNCHANGED <<riscritturaVars, argomenti, vivi, perFile, porta, pacchetto>>

SwapClient(c) == chiede_porta(c) \/ legge_porta(c) \/ chiede_scambio(c) \/ legge_esito(c)

ScambioNext ==
  \/ DiscoveryServer
  \/ \E m \in inRete : risponde_porta(m)
  \/ \E t \in File : SwapServer(t) \/ SwapServer_lavora(t) \/ SwapServer_risponde(t)
  \/ \E c \in Cliente : SwapClient(c)

=============================================================================

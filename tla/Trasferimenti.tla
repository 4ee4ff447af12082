----------------------------- MODULE Trasferimenti -----------------------------
(***************************************************************************)
(* The exercises in which clients move or change files: over a connection  *)
(* (Filtri, Direttori, GetFile, PutFile, MPut), over datagrams with a      *)
(* thread for each file (Scambio), over RMI with a thread for each call    *)
(* (RemOp).  A behaviour runs one of them, chosen at the start, on the     *)
(* same model of connections (Tcp) and files (FileSystem).                 *)
(***************************************************************************)
EXTENDS Filtri, Direttori, GetFile, PutFile, MPut, Scambio, RemOp

VARIABLE attivo  \* the exercise that runs

filtriSoli    == <<filtro, manda, resta, giro, dest, scritti, figlio, coda>>
direttoriSoli == <<lettura, elenco, parziale, processo, dir, uscita>>
getSoli       == <<schermo, chiesti, serve, nome_file, daScrivere>>
putSoli       == <<modo, invio, nomeFile, inviati, thr>>
mputSoli      == <<avvii, acceso, partenza, mclient, elencoFile, mthr>>
scambioSoli   == <<argomenti, vivi, cliente, perFile, porta, pacchetto, inRete>>
remopSoli     == <<fatte, letture, incontri>>

trasferimentiVars ==
  <<tcpVars, riscritturaVars, filtriSoli, direttoriSoli, getSoli, putSoli, mputSoli,
    scambioSoli, remopSoli, attivo>>

Init ==
  /\ FiltriInit /\ DirettoriInit /\ GetInit /\ PutInit /\ MPutInit /\ ScambioInit /\ RemOpInit
  /\ attivo = "nessuno"

\* Somebody starts an exercise.
Sceglie ==
  /\ attivo = "nessuno"
  /\ attivo' \in {"filtri", "direttori", "get", "put", "mput", "scambio", "remop"}
  /\ UNCHANGED <<tcpVars, riscritturaVars, filtriSoli, direttoriSoli, getSoli, putSoli, mputSoli,
                 scambioSoli, remopSoli>>

\* What the exercises over a connection leave alone of those that rewrite.
SenzaRiscrittura == UNCHANGED <<programma, lavoro, scambioSoli, remopSoli, attivo>>

Next ==
  \/ Sceglie
  \/ /\ attivo = "filtri" /\ FiltriNext
     /\ UNCHANGED <<fileVars, direttoriSoli, getSoli, putSoli, mputSoli>> /\ SenzaRiscrittura
  \/ /\ attivo = "direttori" /\ DirettoriNext
     /\ UNCHANGED <<fileVars, filtriSoli, getSoli, putSoli, mputSoli>> /\ SenzaRiscrittura
  \/ /\ attivo = "get" /\ GetNext
     /\ UNCHANGED <<fileVars, filtriSoli, direttoriSoli, putSoli, mputSoli>> /\ SenzaRiscrittura
  \/ /\ attivo = "put" /\ PutNext
     /\ UNCHANGED <<filtriSoli, direttoriSoli, getSoli, mputSoli>> /\ SenzaRiscrittura
  \/ /\ attivo = "mput" /\ MPutNext
     /\ UNCHANGED <<filtriSoli, direttoriSoli, getSoli, putSoli>> /\ SenzaRiscrittura
  \/ /\ attivo = "scambio" /\ ScambioNext
     /\ UNCHANGED <<tcpVars, filtriSoli, direttoriSoli, getSoli, putSoli, mputSoli, remopSoli, attivo>>
  \/ /\ attivo = "remop" /\ RemOpNext
     /\ UNCHANGED <<tcpVars, filtriSoli, direttoriSoli, getSoli, putSoli, mputSoli, scambioSoli, attivo>>

Spec == Init /\ [][Next]_trasferimentiVars
=============================================================================

---------------------------------- MODULE MPut ---------------------------------
(***************************************************************************)
(* Esercitazione 2 proposta: MPutFileClient.java sends the files of its    *)
(* user's directories over one connection, MPutFileServerCon.java serves   *)
(* each connection with a thread.  For each file: its name, "attiva" or    *)
(* "salta file" back, and for "attiva" its length and its bytes.           *)
(*                                                                         *)
(* A read of the server's loop takes what there is, up to the size of its  *)
(* buffer.  The end of any connection ends the whole server, which its     *)
(* operator may start again.                                               *)
(***************************************************************************)
EXTENDS Tcp, FileSystem, SequencesExt, FiniteSets

CONSTANTS Cartelle,  \* directories users have: sequences of [nome, blocchi]
          Presenti,  \* what the server's directory may hold: functions name -> rows
          Buffer,    \* size of the server's buffer
          MinimoByte, \* minimum sizes on the clients' command lines
          MaxAvvii   \* bound: times the server is started

ASSUME MPutAssumption ==
  /\ \A d \in Cartelle : Sequenza(d) /\ \A i \in DOMAIN d : d[i].nome \in Nomi /\ Sequenza(d[i].blocchi)
  /\ Buffer \in Nat \ {0}
  /\ \A p \in Presenti : DOMAIN p \subseteq Nomi /\ IsFiniteSet(DOMAIN p) /\ \A n \in DOMAIN p : Sequenza(p[n])

VARIABLES avvii,     \* times the server has been started
          acceso,    \* it runs
          partenza,  \* history: directory and contents at its first start
          mclient,   \* mclient[k]: "prima", "file", "risposta", "dati", "fuori"
          elencoFile, \* elencoFile[k]: files still to be offered, by their place in the directory
          mthr       \* mthr[k]: the thread of connection k

mputVars == <<tcpVars, fileVars, avvii, acceso, partenza, mclient, elencoFile, mthr>>

Morto == [stato |-> "morto"]

MPutInit ==
  /\ TcpInit /\ FileSystemInit
  /\ avvii = 0 /\ acceso = FALSE /\ partenza = <<directory, contenuto>>
  /\ mclient = [k \in Conn |-> "prima"] /\ elencoFile = [k \in Conn |-> <<>>]
  /\ mthr = [k \in Conn |-> Morto]

\* The server is started, for the first time or again: its files are there.
MPutFileServerCon ==
  /\ ~acceso /\ avvii < MaxAvvii
  /\ acceso' = TRUE /\ avvii' = avvii + 1
  /\ IF avvii = 0
     THEN /\ \E p \in Presenti : Riempi(SetToSeq(DOMAIN p), p)
          /\ partenza' = <<directory', contenuto'>>
     ELSE UNCHANGED <<fileVars, partenza>>
  /\ UNCHANGED <<tcpVars, mclient, elencoFile, mthr>>

-----------------------------------------------------------------------------
(* MPutFileClient. *)

\* The connection, accepted at once and given to a thread, and a directory:
\* only its files of the minimum size are offered.
MPutFileClient(k) ==
  /\ acceso /\ mclient[k] = "prima"
  /\ connect(k)
  /\ \E d \in Cartelle, dim_min \in MinimoByte :
       elencoFile' = [elencoFile EXCEPT ![k] = Restrict(d, {i \in DOMAIN d : dim_min <= Len(d[i].blocchi)})]
  /\ mclient' = [mclient EXCEPT ![k] = "file"]
  /\ mthr' = [mthr EXCEPT ![k] = [stato |-> "nome", nome |-> <<>>, num |-> 0, cont |-> 0, ino |-> 0,
                                  insieme |-> FALSE]]
  /\ UNCHANGED <<fileVars, avvii, acceso, partenza>>

\* The file client k is at, and the step to the next one.
Primo(k) == Min(DOMAIN elencoFile[k])
Corrente(k) == elencoFile[k][Primo(k)]
avanti(k) == elencoFile' = [elencoFile EXCEPT ![k] = Restrict(@, DOMAIN @ \ {Primo(k)})]

\* The name of the next file; or, at the end of the last directory, the end.
offri(k) ==
  /\ mclient[k] = "file"
  /\ IF DOMAIN elencoFile[k] # {}
     THEN scriveSu(k, <<Corrente(k).nome>>) /\ mclient' = [mclient EXCEPT ![k] = "risposta"]
     ELSE chiudeSu(k) /\ mclient' = [mclient EXCEPT ![k] = "fuori"]
  /\ UNCHANGED <<fileVars, avvii, acceso, partenza, elencoFile, mthr>>

\* The server's answer.  Its end, or 30 s without it, is an exception that
\* ends the client.
leggi_risposta(k) ==
  /\ mclient[k] = "risposta"
  /\ \/ /\ giu[k] # <<>> /\ Head(giu[k]) = "attiva"
        /\ su' = [su EXCEPT ![k] = Append(@, <<"long", Len(Corrente(k).blocchi)>>)]
        /\ giu' = [giu EXCEPT ![k] = Tail(@)]
        /\ mclient' = [mclient EXCEPT ![k] = "dati"]
        /\ UNCHANGED <<fineSu, fineGiu, elencoFile>>
     \/ /\ giu[k] # <<>> /\ Head(giu[k]) = "salta file" /\ leggeGiu(k, 1)
        /\ mclient' = [mclient EXCEPT ![k] = "file"]
        /\ avanti(k)
     \/ /\ giu[k] = <<>> /\ chiudeSu(k)
        /\ mclient' = [mclient EXCEPT ![k] = "fuori"]
        /\ UNCHANGED elencoFile
  /\ UNCHANGED <<fileVars, avvii, acceso, partenza, mthr>>

\* All the bytes of the file, in one write here, and on to the next.  A write
\* to a server that is no more is an exception that ends the client.
manda_byte(k) ==
  /\ mclient[k] = "dati"
  /\ IF acceso /\ mthr[k] # Morto
     THEN /\ scriveSu(k, Corrente(k).blocchi)
          /\ mclient' = [mclient EXCEPT ![k] = "file"]
          /\ avanti(k)
     ELSE /\ chiudeSu(k)
          /\ mclient' = [mclient EXCEPT ![k] = "fuori"]
          /\ UNCHANGED elencoFile
  /\ UNCHANGED <<fileVars, avvii, acceso, partenza, mthr>>

-----------------------------------------------------------------------------
(* The thread. *)

Lavora(j, n) == mthr[j].stato \in {"lunghezza", "riceve"} /\ mthr[j].nome = n

\* Mutant: what exists is not looked at.
esistono_mai(n) == FALSE

esistono(n) == esiste(n)

\* readUTF and exists.
chiedi_file(k) ==
  /\ mthr[k].stato = "nome" /\ su[k] # <<>>
  /\ LET n == Head(su[k])
     IN  /\ su' = [su EXCEPT ![k] = Tail(@)]
         /\ giu' = [giu EXCEPT ![k] = Append(@, IF esistono(n) THEN "salta file" ELSE "attiva")]
         /\ mthr' = [j \in Conn |->
              IF j = k THEN [mthr[k] EXCEPT !.stato = IF esistono(n) THEN "nome" ELSE "lunghezza",
                                            !.nome = IF esistono(n) THEN <<>> ELSE n,
                                            !.num = 0, !.cont = 0,
                                            !.insieme = \E h \in Conn \ {k} : Lavora(h, n)]
              ELSE IF ~esistono(n) /\ Lavora(j, n) THEN [mthr[j] EXCEPT !.insieme = TRUE] ELSE mthr[j]]
  /\ UNCHANGED <<fineSu, fineGiu, fileVars, avvii, acceso, partenza, mclient, elencoFile>>

\* readLong and FileOutputStream.
leggi_lunghezza(k) ==
  /\ mthr[k].stato = "lunghezza" /\ leggeSu(k, 1)
  /\ crea(mthr[k].nome)
  /\ mthr' = [mthr EXCEPT ![k].stato = IF Head(su[k])[2] = 0 THEN "nome" ELSE "riceve",
                          ![k].num = Head(su[k])[2], ![k].ino = directory'[mthr[k].nome]]
  /\ UNCHANGED <<avvii, acceso, partenza, mclient, elencoFile>>

\* One read of the loop, of n bytes, all written to the file.
leggi_byte(k) ==
  LET t == mthr[k]
  IN  /\ t.stato = "riceve"
      /\ \E n \in 1 .. Buffer :
           /\ leggeSu(k, n)
           /\ scrivi(t.ino, t.cont + 1, SubSeq(su[k], 1, n))
           /\ mthr' = [mthr EXCEPT ![k].cont = t.cont + n,
                                   ![k].stato = IF t.cont + n < t.num THEN "riceve" ELSE "nome"]
      /\ UNCHANGED <<avvii, acceso, partenza, mclient, elencoFile>>

\* The end of the connection: an EOFException where a name should come, -1 in
\* the loop and an IndexOutOfBoundsException from the write of -1 bytes.
\* Either way System.exit: all the threads and all the connections end.
exit(k) ==
  /\ mthr[k].stato # "morto" /\ EofSu(k)
  /\ acceso' = FALSE
  /\ mthr' = [j \in Conn |-> Morto]
  /\ fineGiu' = [j \in Conn |-> TRUE]
  /\ UNCHANGED <<su, giu, fineSu, fileVars, avvii, partenza, mclient, elencoFile>>

MPutNext ==
  \/ MPutFileServerCon
  \/ \E k \in Conn : \/ MPutFileClient(k) \/ offri(k) \/ leggi_risposta(k) \/ manda_byte(k)
                     \/ chiedi_file(k) \/ leggi_lunghezza(k) \/ leggi_byte(k) \/ exit(k)

MPutSpec == MPutInit /\ [][MPutNext]_mputVars

-----------------------------------------------------------------------------
\* What thread k has just received: the loop is over.
Ricevuto(k) == mthr[k].stato = "nome" /\ mthr[k].nome # <<>>

\* The files that were on the server are what they were, and a file received
\* by a thread that read as many bytes as it was told, while nobody else was
\* receiving one of that name, is the bytes of one of the users' files.
MPutIntatto ==
  /\ \A n \in DOMAIN partenza[1] : partenza[1][n] # 0 =>
       directory[n] = partenza[1][n] /\ contenuto[directory[n]] = partenza[2][directory[n]]
  /\ \A k \in Conn : Ricevuto(k) /\ mthr[k].cont = mthr[k].num /\ ~mthr[k].insieme =>
       /\ directory[mthr[k].nome] = mthr[k].ino
       /\ \E d \in Cartelle : \E i \in DOMAIN d :
            d[i].nome = mthr[k].nome /\ contenuto[mthr[k].ino] = d[i].blocchi

\* The loop ends when the file's bytes have been read, as its comment says: no
\* byte of what the client sends next is among them.
LetturaEsatta == \A k \in Conn : Ricevuto(k) => mthr[k].cont = mthr[k].num
=============================================================================

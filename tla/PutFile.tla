-------------------------------- MODULE PutFile --------------------------------
(***************************************************************************)
(* Esercitazione 2 svolta: PutFileClient.java sends files to               *)
(* PutFileServerSeq.java, which serves one connection at a time, or to     *)
(* PutFileServerCon.java, a thread for each.  A connection carries a name, *)
(* the bytes of a file, and the end of the stream for the end of the file; *)
(* the answer says that the file has been saved.                           *)
(*                                                                         *)
(* A connection is one file of one client, who uses its own in order.      *)
(* Reads give up after 30 s: a timeout may come whenever a read waits.     *)
(***************************************************************************)
EXTENDS Tcp, FileSystem, SequencesExt

CONSTANTS ClienteDi, \* ClienteDi[k]: the client of connection k, a number
          Blocchi,   \* Blocchi[k]: the file it sends
          FileInviati, \* names users type
          Vecchio    \* what files of those names hold before

ASSUME PutFileAssumption ==
  /\ FileInviati \subseteq Nomi /\ IsFiniteSet(FileInviati)
  /\ Sequenza(Vecchio) /\ \A k \in Conn : Sequenza(Blocchi[k])

VARIABLES modo,      \* "seq", "con" or "spento"; "caduto": it has ended
          invio,     \* invio[k]: "prima", "nome", "dati", "esito", "finito"; "morto": killed
          nomeFile,  \* nomeFile[k]: the name typed
          inviati,   \* inviati[k]: blocks sent
          thr        \* thr[k]: what the server does with connection k

putVars == <<tcpVars, fileVars, modo, invio, nomeFile, inviati, thr>>
clientePut == <<invio, nomeFile, inviati>>

NessunThread == [stato |-> "nessuno"]

PutInit ==
  /\ TcpInit /\ FileSystemInit
  /\ modo = "spento"
  /\ invio = [k \in Conn |-> "prima"]
  /\ nomeFile = [k \in Conn |-> <<>>] /\ inviati = [k \in Conn |-> 0]
  /\ thr = [k \in Conn |-> NessunThread]

\* One of the two servers: its port, its server socket, its directory.
PutFileServer ==
  /\ modo = "spento" /\ modo' \in {"seq", "con"}
  /\ \E N \in SUBSET FileInviati : Riempi(SetToSeq(N), [n \in N |-> Vecchio])
  /\ UNCHANGED <<tcpVars, clientePut, thr>>

-----------------------------------------------------------------------------
(* PutFileClient. *)

\* A name is typed, the file is there: a socket for it, whose connection the
\* server's queue accepts.
Socket(k) ==
  /\ modo \in {"seq", "con"} /\ invio[k] = "prima"
  /\ \A j \in Conn : ClienteDi[j] = ClienteDi[k] /\ j < k => invio[j] = "finito"
  /\ connect(k)
  /\ \E n \in FileInviati : nomeFile' = [nomeFile EXCEPT ![k] = n]
  /\ invio' = [invio EXCEPT ![k] = "nome"]
  /\ thr' = [thr EXCEPT ![k] = [stato |-> "coda"]]
  /\ UNCHANGED <<fileVars, modo, inviati>>

writeUTF(k) ==
  /\ invio[k] = "nome"
  /\ scriveSu(k, <<nomeFile[k]>>)
  /\ invio' = [invio EXCEPT ![k] = "dati"]
  /\ UNCHANGED <<fileVars, modo, nomeFile, inviati, thr>>

\* The bytes of the file, then shutdownOutput.  If the server has given up,
\* a write fails and the client leaves this file.
trasferisce(k) ==
  /\ invio[k] = "dati"
  /\ \/ /\ ~fineGiu[k] /\ inviati[k] < Len(Blocchi[k])
        /\ scriveSu(k, <<Blocchi[k][inviati[k] + 1]>>)
        /\ inviati' = [inviati EXCEPT ![k] = @ + 1]
        /\ UNCHANGED invio
     \/ /\ inviati[k] = Len(Blocchi[k]) /\ chiudeSu(k)
        /\ invio' = [invio EXCEPT ![k] = "esito"]
        /\ UNCHANGED inviati
     \/ /\ fineGiu[k] /\ chiudeSu(k)
        /\ invio' = [invio EXCEPT ![k] = "finito"]
        /\ UNCHANGED inviati
  /\ UNCHANGED <<fileVars, modo, nomeFile, thr>>

\* The answer; or an exception, the timeout or the end of the stream.
readUTF(k) ==
  /\ invio[k] = "esito"
  /\ invio' = [invio EXCEPT ![k] = "finito"]
  /\ IF giu[k] # <<>> THEN leggeGiu(k, 1) ELSE UNCHANGED tcpVars
  /\ UNCHANGED <<fileVars, modo, nomeFile, inviati, thr>>

\* The client is killed: its side of the stream ends where it is.
ucciso(k) ==
  /\ invio[k] \in {"nome", "dati", "esito"}
  /\ invio' = [invio EXCEPT ![k] = "morto"]
  /\ chiudeSu(k)
  /\ UNCHANGED <<fileVars, modo, nomeFile, inviati, thr>>

-----------------------------------------------------------------------------
(* The servers. *)

InServizio == {j \in Conn : thr[j].stato \notin {"nessuno", "coda"}}

\* accept: PutFileServerSeq comes back to it when it is done with the last.
accetta(k) ==
  /\ thr[k].stato = "coda" /\ (modo = "seq" => InServizio = {})
  /\ thr' = [thr EXCEPT ![k] = [stato |-> "nome"]]
  /\ UNCHANGED <<tcpVars, fileVars, modo, clientePut>>

\* Some other thread works on the file called n.
Insieme(k, n) == \E j \in InServizio \ {k} : thr[j].stato # "nome" /\ thr[j].nome = n

\* The name is read and looked for: exists().
leggi_nome(k) ==
  /\ thr[k].stato = "nome" /\ leggeSu(k, 1)
  /\ LET n == Head(su[k])
     IN  thr' = [j \in Conn |->
           IF j = k THEN [stato |-> IF esiste(n) THEN "distrugge" ELSE "apre", nome |-> n,
                          scritti |-> 0, ino |-> 0, insieme |-> Insieme(k, n)]
           ELSE IF j \in InServizio /\ thr[j].stato # "nome"
                THEN [thr[j] EXCEPT !.insieme = @ \/ thr[j].nome = n] ELSE thr[j]]
  /\ UNCHANGED <<fileVars, modo, clientePut>>

distruggi(k) ==
  /\ thr[k].stato = "distrugge"
  /\ delete(thr[k].nome)
  /\ thr' = [thr EXCEPT ![k].stato = "apre"]
  /\ UNCHANGED <<tcpVars, modo, clientePut>>

FileOutputStream(k) ==
  /\ thr[k].stato = "apre"
  /\ crea(thr[k].nome)
  /\ thr' = [thr EXCEPT ![k].stato = "riceve", ![k].ino = directory'[thr[k].nome]]
  /\ UNCHANGED <<tcpVars, modo, clientePut>>

\* FileNotFoundException: the file cannot be made, and System.exit(3) ends the
\* server with every thread and connection it has; the files stay as they are.
non_crea(k) ==
  /\ thr[k].stato = "apre"
  /\ modo' = "caduto"
  /\ thr' = [j \in Conn |-> NessunThread]
  /\ fineGiu' = [j \in Conn |-> invio[j] # "prima" \/ fineGiu[j]]
  /\ UNCHANGED <<su, giu, fineSu, fileVars, clientePut>>

\* trasferisci_a_byte_file_binario: to the file, up to the end of the stream.
ricevi(k) ==
  LET t == thr[k]
  IN  /\ t.stato = "riceve"
      /\ \/ /\ su[k] # <<>> /\ leggeSu(k, 1)
            /\ scrivi(t.ino, t.scritti + 1, <<Head(su[k])>>)
            /\ thr' = [thr EXCEPT ![k].scritti = @ + 1]
         \/ /\ EofSu(k)
            /\ thr' = [thr EXCEPT ![k].stato = "risponde"]
            /\ UNCHANGED <<tcpVars, fileVars>>
      /\ UNCHANGED <<modo, clientePut>>

\* "File salvato lato server".
rispondi(k) ==
  /\ thr[k].stato = "risponde"
  /\ giu' = [giu EXCEPT ![k] = Append(@, "salvato")]
  /\ fineGiu' = [fineGiu EXCEPT ![k] = TRUE]
  /\ thr' = [thr EXCEPT ![k] = NessunThread]
  /\ UNCHANGED <<su, fineSu, fileVars, modo, clientePut>>

\* Mutant: a timeout while the file comes passes for its end.
scade_in_silenzio(k) ==
  /\ thr[k].stato \in {"nome", "riceve"} /\ su[k] = <<>>
  /\ IF thr[k].stato = "riceve"
     THEN thr' = [thr EXCEPT ![k].stato = "risponde"] /\ UNCHANGED tcpVars
     ELSE /\ thr' = [thr EXCEPT ![k] = NessunThread]
          /\ IF fineSu[k] THEN UNCHANGED tcpVars ELSE chiudeGiu(k)
  /\ UNCHANGED <<fileVars, modo, clientePut>>

\* SocketTimeoutException: the connection is closed, and what there is of the
\* file stays.  EOFException, for a name that does not come: it is left open.
scade(k) ==
  /\ thr[k].stato \in {"nome", "riceve"} /\ su[k] = <<>>
  /\ thr[k].stato = "riceve" => ~fineSu[k]
  /\ thr' = [thr EXCEPT ![k] = NessunThread]
  /\ IF fineSu[k] THEN UNCHANGED tcpVars ELSE chiudeGiu(k)
  /\ UNCHANGED <<fileVars, modo, clientePut>>

Serve(k) ==
  \/ leggi_nome(k) \/ distruggi(k) \/ FileOutputStream(k) \/ non_crea(k)
  \/ ricevi(k) \/ rispondi(k) \/ scade(k)

PutNext ==
  \/ PutFileServer
  \/ \E k \in Conn : \/ Socket(k) \/ writeUTF(k) \/ trasferisce(k) \/ readUTF(k) \/ ucciso(k)
                     \/ accetta(k) \/ Serve(k)

-----------------------------------------------------------------------------
\* When the server says a file is saved, to a client who is there to hear it,
\* the file it wrote has that name and all the client's bytes and no others,
\* unless two threads had one name in their hands: then both can find no file,
\* and write into one.
SalvatoIntero ==
  \A k \in Conn :
    (thr[k].stato = "risponde" /\ invio[k] # "morto" /\ ~thr[k].insieme) =>
      directory[thr[k].nome] = thr[k].ino /\ contenuto[thr[k].ino] = Blocchi[k]
=============================================================================

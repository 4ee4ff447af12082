--------------------------------- MODULE RemOp --------------------------------
(***************************************************************************)
(* Esercitazione 5 proposta: ServerImpl.java behind RMI.  A client's call  *)
(* is a thread of the server, so that the calls of several clients run     *)
(* together; a client waits for its call, with no timeout.                 *)
(*                                                                         *)
(* A row is a sequence of characters, without its end of line.             *)
(***************************************************************************)
EXTENDS Riscrittura, FiniteSets

CONSTANTS ClientiRmi,   \* the clients, each with at most one thread of the server
          FileRemoti,   \* the files of the server: functions from names to rows
          RigheChieste, \* numbers of rows users type
          Soglie,       \* thresholds of words users type
          MaxEliminate  \* bound: client -> calls it makes

ASSUME RemOpAssumption ==
  /\ ClientiRmi \subseteq Lavoratori
  /\ \A d \in FileRemoti : /\ DOMAIN d \subseteq File /\ IsFiniteSet(DOMAIN d)
                            /\ \A f \in DOMAIN d :
                                 Sequenza(d[f]) /\ \A k \in DOMAIN d[f] : Sequenza(d[f][k])

VARIABLES fatte,  \* calls made by each client
          letture, \* history: what conta_righe answered, and about which contents
          incontri \* history: files that two eliminations have worked on together

remopVars == <<riscritturaVars, fatte, letture, incontri>>

RemOpInit == RiscritturaInit /\ fatte = [c \in ClientiRmi |-> 0] /\ letture = {} /\ incontri = {}

\* Naming.rebind: the server is there.
ServerImpl_main ==
  /\ \E d \in FileRemoti : Prepara("remop", SetToSeq(DOMAIN d), d)
  /\ UNCHANGED <<fatte, letture, incontri>>

Spazio == " "

\* Mutant: a blank after a blank ends a word too.
ParoleDi_doppie(riga) == Cardinality({k \in DOMAIN riga : riga[k] = Spazio})

\* A blank ends a word, unless it follows another.
ContaParola(a, ch) == [prev |-> ch, n |-> a.n + (IF ch = Spazio /\ a.prev # Spazio THEN 1 ELSE 0)]

\* The words a row is counted for: those that a blank ends, so not its last.
ParoleDi(riga) == FoldLeft(ContaParola, [prev |-> Spazio, n |-> 0], riga).n

\* A call of client c begins: a file that cannot be opened is a RemoteException.
elimina_riga(c) ==
  /\ programma = "remop" /\ lavoro[c] = Ozio /\ fatte[c] < MaxEliminate[c]
  /\ fatte' = [fatte EXCEPT ![c] = @ + 1]
  /\ \E f \in File, n \in RigheChieste :
       IF esiste(f)
       THEN apri(c, f, n, c) /\ incontri' = incontri \cup {x \in {f} : Attivi(c, x) # {}}
       ELSE UNCHANGED <<riscritturaVars, incontri>>
  /\ UNCHANGED letture

conta_righe(c) ==
  /\ programma = "remop" /\ lavoro[c] = Ozio /\ fatte[c] < MaxEliminate[c]
  /\ fatte' = [fatte EXCEPT ![c] = @ + 1]
  /\ \E f \in File, w \in Soglie :
       lavoro' = [lavoro EXCEPT ![c] = IF esiste(f)
                    THEN [passo |-> "conta", file |-> f, soglia |-> w, sorgente |-> directory[f],
                          prima |-> Righe(f), insieme |-> FALSE]
                    ELSE Ozio]
  /\ UNCHANGED <<fileVars, programma, letture, incontri>>

\* The count, from the file that was opened.
conta(c) ==
  LET l == lavoro[c]
      ret == Cardinality({k \in DOMAIN contenuto[l.sorgente] : ParoleDi(contenuto[l.sorgente][k]) > l.soglia})
  IN  /\ l.passo = "conta"
      /\ letture' = letture \cup {[file |-> l.file, righe |-> l.prima, soglia |-> l.soglia, ret |-> ret]}
      /\ finito(c)
      /\ UNCHANGED <<fatte, incontri>>

ServerImpl_lavora(c) == Riscrive(c) /\ UNCHANGED <<fatte, letture, incontri>>

\* The rows left, or the exception of a row that is not there, thrown after
\* the file has been written again.
ServerImpl_risponde(c) ==
  /\ lavoro[c].passo = "risponde"
  /\ finito(c)
  /\ UNCHANGED <<fatte, letture, incontri>>

RemOpNext ==
  \/ ServerImpl_main
  \/ \E c \in ClientiRmi : \/ elimina_riga(c) \/ conta_righe(c) \/ conta(c)
                           \/ ServerImpl_lavora(c) \/ ServerImpl_risponde(c)

-----------------------------------------------------------------------------
\* conta_righe answers about the file as it was when the call opened it,
\* whatever deletion is under way: the rows with more than the threshold of
\* places where a word meets a blank.  Two deletions from one file can spoil
\* this too: one may give the file's name to what the other is writing.
ContoCoerente ==
  \A l \in letture : l.file \notin incontri =>
    l.ret = Cardinality({k \in DOMAIN l.righe :
              Cardinality({j \in 2 .. Len(l.righe[k]) : l.righe[k][j] = Spazio /\ l.righe[k][j - 1] # Spazio})
                > l.soglia})
=============================================================================

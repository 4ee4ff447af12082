----------------------------- MODULE Riscrittura ------------------------------
(***************************************************************************)
(* A thread of a Java server rewrites a file through a temporary one:      *)
(* SwapServer.java (exchange two rows, temporary file "temp") and          *)
(* ServerImpl.elimina_riga (drop a row, temporary <name>_modified.txt).    *)
(*                                                                         *)
(* FileWriter empties or creates the temporary at once; what is written to *)
(* it reaches it at close (files here are smaller than its buffer), from   *)
(* the start, over what is there.                                          *)
(***************************************************************************)
EXTENDS FileSystem, SequencesExt

CONSTANTS File,      \* the files clients name
          Lavoratori \* server threads: one per file (swap) or per call (RMI)

VARIABLES programma,  \* "swap" or "remop"
          lavoro      \* lavoro[t]: the rewriting thread t is in, or Ozio

riscritturaVars == <<fileVars, programma, lavoro>>

Ozio == [passo |-> "ozio"]

\* Mutant: elimina_riga takes one name for every file's temporary.
Temporaneo_unico(f) == <<"temp">>

Temporaneo(f) == IF programma = "swap" THEN <<"temp">> ELSE <<f, "modified">>

NomiFile == File \cup {<<"temp">>} \cup (File \X {"modified"})

\* No file of the clients has the name of a temporary.
ASSUME RiscritturaAssumption ==
  /\ NomiFile \subseteq Nomi
  /\ File \cap ({<<"temp">>} \cup (File \X {"modified"})) = {}

\* The rows of the second reading with two of those of the first (cache) in
\* the place of each other: one that is not there is written as "null", and
\* of two equal numbers only the first finds its row.
Scambia(righe, cache, chiede) ==
  LET Riga(n) == IF n \in DOMAIN cache THEN cache[n] ELSE "null"
      seconda == IF chiede[1] = chiede[2] THEN "null" ELSE Riga(chiede[2])
  IN  [k \in DOMAIN righe |-> IF k = chiede[1] THEN seconda
                              ELSE IF k = chiede[2] THEN Riga(chiede[1]) ELSE righe[k]]

\* What the rewriting of l puts in its temporary file.
Riscritte(l) ==
  IF programma = "swap" THEN Scambia(l.letto, l.cache, l.chiede)
  ELSE IF l.chiede \in DOMAIN l.letto THEN RemoveAt(l.letto, l.chiede) ELSE l.letto

RiscritturaInit ==
  /\ FileSystemInit
  /\ programma = "spento"
  /\ lavoro = [t \in Lavoratori |-> Ozio]

\* A server starts, and finds the files of d in its directory.
Prepara(p, nomi, d) ==
  /\ programma = "spento" /\ programma' = p
  /\ Riempi(nomi, d)
  /\ UNCHANGED lavoro

\* Who else is rewriting what thread t's work on f must not meet: the same file,
\* and for SwapServer any file, since "temp" is everybody's.
Attivi(t, f) ==
  {s \in Lavoratori \ {t} : /\ lavoro[s].passo \notin {"ozio", "conta"}
                            /\ programma = "swap" \/ lavoro[s].file = f}

\* The two opens: the source for reading, the temporary emptied or created.
\* "insieme" records that the work and that of another have met.
apri(t, f, chiede, chi) ==
  LET tmp == Temporaneo(f)
  IN  /\ lavoro[t] = Ozio /\ esiste(f)
      /\ crea(tmp)
      /\ lavoro' = [s \in Lavoratori |->
           IF s = t THEN [passo |-> "legge", file |-> f, chiede |-> chiede, chi |-> chi,
                          sorgente |-> directory[f], tmp |-> directory'[tmp], letto |-> <<>>,
                          cache |-> <<>>, prima |-> Righe(f), insieme |-> Attivi(t, f) # {}]
           ELSE IF s \in Attivi(t, f) THEN [lavoro[s] EXCEPT !.insieme = TRUE] ELSE lavoro[s]]
      /\ UNCHANGED programma

\* Thread t goes from one step of its rewriting to another.
Passo(t, da, verso) ==
  /\ lavoro[t].passo = da
  /\ lavoro' = [lavoro EXCEPT ![t].passo = verso]
  /\ UNCHANGED programma

\* The source is read to its end.
leggi(t) ==
  LET righe == contenuto[lavoro[t].sorgente]
  IN  /\ lavoro[t].passo = "legge"
      /\ lavoro' = [lavoro EXCEPT ![t].passo = IF programma = "swap" THEN "rilegge" ELSE "scrive",
                                  ![t].cache = righe, ![t].letto = righe]
      /\ UNCHANGED <<programma, fileVars>>

\* SwapServer opens the file once more, by name, and gives up if it is gone.
rileggi(t) ==
  LET l == lavoro[t]
  IN  /\ l.passo = "rilegge"
      /\ lavoro' = [lavoro EXCEPT ![t] = IF ~esiste(l.file) THEN Ozio
                                         ELSE [l EXCEPT !.passo = "scrive", !.letto = Righe(l.file)]]
      /\ UNCHANGED <<programma, fileVars>>

\* close() puts the new rows in the temporary.
chiudi(t) == Passo(t, "scrive", "cancella") /\ scrivi(lavoro[t].tmp, 1, Riscritte(lavoro[t]))

\* fileorig.delete().
cancella(t) == Passo(t, "cancella", "rinomina") /\ delete(lavoro[t].file)

\* The temporary is renamed, if another thread has not taken it.
rinomina(t) ==
  /\ Passo(t, "rinomina", IF programma = "swap" THEN "toglie" ELSE "risponde")
  /\ renameTo(Temporaneo(lavoro[t].file), lavoro[t].file)

\* tempFile.delete(), which SwapServer adds: there may be another's by now.
togli(t) == Passo(t, "toglie", "risponde") /\ delete(<<"temp">>)

Riscrive(t) == leggi(t) \/ rileggi(t) \/ chiudi(t) \/ cancella(t) \/ rinomina(t) \/ togli(t)

\* The answer has been given, or an exception has ended the work.
finito(t) == lavoro' = [lavoro EXCEPT ![t] = Ozio] /\ UNCHANGED <<programma, fileVars>>

-----------------------------------------------------------------------------
\* The rewriting of a file whose temporary nobody else uses meanwhile has, at
\* its end, put in the file the rows it had when it was opened with the
\* change asked for: two rows exchanged, if both are there, or one dropped.
EsitoDi(l) ==
  IF programma = "swap"
  THEN l.chiede[1] # l.chiede[2] /\ {l.chiede[1], l.chiede[2]} \subseteq DOMAIN l.prima =>
         Righe(l.file) = [l.prima EXCEPT ![l.chiede[1]] = l.prima[l.chiede[2]],
                                         ![l.chiede[2]] = l.prima[l.chiede[1]]]
  ELSE Righe(l.file) = [k \in 1 .. Len(l.prima) - (IF l.chiede \in DOMAIN l.prima THEN 1 ELSE 0) |->
                          l.prima[IF l.chiede \in 1 .. k THEN k + 1 ELSE k]]

Riscritto ==
  \A t \in Lavoratori :
    LET l == lavoro[t]
    IN  l.passo = "risponde" /\ ~l.insieme => esiste(l.file) /\ EsitoDi(l)
=============================================================================

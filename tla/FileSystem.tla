------------------------------ MODULE FileSystem ------------------------------
(***************************************************************************)
(* The directory a server works in: names, and the files they name.  An    *)
(* open file is an inode, so that it outlives its name and is shared by    *)
(* all who opened it.  A file's contents are a sequence of rows or blocks. *)
(***************************************************************************)
EXTENDS Integers, Sequences

CONSTANT Nomi  \* every name a program uses

VARIABLES directory,  \* name -> inode, 0 when there is no such file
          contenuto   \* inode -> rows

fileVars == <<directory, contenuto>>

\* What files hold.
Sequenza(s) == s \in Seq({s[i] : i \in DOMAIN s})

FileSystemInit ==
  /\ directory = [n \in Nomi |-> 0]
  /\ contenuto = <<>>

esiste(n) == directory[n] # 0
Righe(n) == contenuto[directory[n]]

\* The files found at the start: those of d, a function from names to rows,
\* in the order of the sequence nomi.
Riempi(nomi, d) ==
  /\ directory' = [n \in Nomi |-> IF \E k \in DOMAIN nomi : nomi[k] = n
                                  THEN CHOOSE k \in DOMAIN nomi : nomi[k] = n ELSE 0]
  /\ contenuto' = [k \in DOMAIN nomi |-> d[nomi[k]]]

\* FileWriter and FileOutputStream: the file is created, or emptied.
crea(n) ==
  IF esiste(n)
  THEN contenuto' = [contenuto EXCEPT ![directory[n]] = <<>>] /\ UNCHANGED directory
  ELSE contenuto' = Append(contenuto, <<>>) /\ directory' = [directory EXCEPT ![n] = Len(contenuto) + 1]

\* delete: the name goes, open files stay.
delete(n) == directory' = [directory EXCEPT ![n] = 0] /\ UNCHANGED contenuto

\* renameTo: nothing happens when there is nothing to rename.
renameTo(da, n) ==
  /\ directory' = IF esiste(da) THEN [directory EXCEPT ![n] = directory[da], ![da] = 0] ELSE directory
  /\ UNCHANGED contenuto

\* What inode i holds once nuove has been written over it from position k on.
Scritto(i, k, nuove) ==
  LET vecchie == contenuto[i]
      fine == k + Len(nuove) - 1
  IN  [j \in 1 .. (IF Len(vecchie) > fine THEN Len(vecchie) ELSE fine) |->
         IF j >= k /\ j <= fine THEN nuove[j - k + 1]
         ELSE IF j \in DOMAIN vecchie THEN vecchie[j] ELSE "buco"]

scrivi(i, k, nuove) == contenuto' = [contenuto EXCEPT ![i] = Scritto(i, k, nuove)] /\ UNCHANGED directory
=============================================================================

-------------------------------- MODULE Testi ---------------------------------
(***************************************************************************)
(* What the small services of the repository compute from a text: a line   *)
(* of it, its longest word, the text without a word, its counts.  A text   *)
(* is a sequence of characters; " ", "r" (carriage return) and "n" (new    *)
(* line) are the ones the programs look at.                                *)
(*                                                                         *)
(* Each loop over read() is a fold of its body over the characters.  The   *)
(* last part says the same things without a loop, by the positions of the  *)
(* separators: it is what the answers are compared with.                   *)
(***************************************************************************)
EXTENDS Integers, FiniteSets, SequencesExt

\* A text, a line, a list.
Lista(s) == s \in Seq({s[i] : i \in DOMAIN s})

Spazio == " "
Bianchi == {Spazio, "n"}
Separatori == {Spazio, "r", "n"}
NonTrovata == <<"Linea non trovata">>

-----------------------------------------------------------------------------
(* The loops. *)

LeggiCarattere(a, ch) ==
  IF ch = "n" THEN [linee |-> Append(a.linee, a.resto), resto |-> <<>>]
              ELSE [linee |-> a.linee, resto |-> Append(a.resto, ch)]

\* BufferedReader.readLine to the end: an unterminated last line counts.
LeggiLinee(testo) ==
  LET f == FoldLeft(LeggiCarattere, [linee |-> <<>>, resto |-> <<>>], testo)
  IN  IF f.resto = <<>> THEN f.linee ELSE Append(f.linee, f.resto)

\* Mutant: a number past the end of the file gets the last line.
getLine_senza_fine(testo, n) ==
  LET linee == LeggiLinee(testo)
  IN  IF n <= 0 \/ linee = <<>> THEN NonTrovata
      ELSE linee[IF n <= Len(linee) THEN n ELSE Len(linee)]

\* LineUtility.getLine on an existing file.
getLine(testo, n) ==
  LET linee == LeggiLinee(testo)
  IN  IF n <= 0 \/ n > Len(linee) THEN NonTrovata ELSE linee[n]

\* Mutant: the counter is not set back to 0 at a separator.
ParolaPiuLunga_senza_reset(testo) ==
  LET Passo(a, ch) ==
        IF ch \in Separatori
        THEN [a EXCEPT !.massimo = IF a.corrente > @ THEN a.corrente ELSE @]
        ELSE [a EXCEPT !.corrente = @ + 1]
  IN  FoldLeft(Passo, [massimo |-> -1, corrente |-> 0], testo).massimo

MisuraParola(a, ch) ==
  IF ch \in Separatori
  THEN [massimo |-> IF a.corrente > a.massimo THEN a.corrente ELSE a.massimo, corrente |-> 0]
  ELSE [massimo |-> a.massimo, corrente |-> a.corrente + 1]

\* The longest word: a word is over at its separator, so that a last word
\* without one does not count, and -1 is left when there is no separator.
ParolaPiuLunga(testo) == FoldLeft(MisuraParola, [massimo |-> -1, corrente |-> 0], testo).massimo

\* Mutant: the buffer is not emptied after a word that is kept.
EliminaParola_buffer_sporco(testo, parola) ==
  LET Passo(a, ch) ==
        IF ch \notin Separatori THEN [a EXCEPT !.buffer = Append(@, ch)]
        ELSE IF a.buffer = parola THEN [esce |-> Append(a.esce, ch), buffer |-> <<>>, ris |-> a.ris + 1]
        ELSE [a EXCEPT !.esce = @ \o a.buffer \o <<ch, ch>>]
  IN  FoldLeft(Passo, [esce |-> <<>>, buffer |-> <<>>, ris |-> 0], testo)

\* The text without a word: a word that differs is written with its
\* separator, and then the separator is written (again) in any case; what
\* follows the last separator stays in the buffer.
EliminaCarattere(a, ch, parola) ==
  IF ch \notin Separatori THEN [esce |-> a.esce, buffer |-> Append(a.buffer, ch), ris |-> a.ris]
  ELSE IF a.buffer = parola THEN [esce |-> Append(a.esce, ch), buffer |-> <<>>, ris |-> a.ris + 1]
  ELSE [esce |-> a.esce \o a.buffer \o <<ch, ch>>, buffer |-> <<>>, ris |-> a.ris]

EliminaParola(testo, parola) ==
  LET f == FoldLeft(LAMBDA a, ch : EliminaCarattere(a, ch, parola),
                    [esce |-> <<>>, buffer |-> <<>>, ris |-> 0], testo)
  IN  [esce |-> f.esce, ris |-> f.ris]

\* Mutant: a last word without a separator is lost.
elimina_parola_senza_coda(testo, parola) ==
  LET Passo(a, ch) ==
        IF ch \notin Bianchi THEN [a EXCEPT !.buffer = Append(@, ch)]
        ELSE IF a.buffer = parola THEN [esce |-> a.esce, buffer |-> <<>>, ris |-> a.ris + 1]
        ELSE [a EXCEPT !.esce = @ \o a.buffer \o <<ch>>, !.buffer = <<>>]
      f == FoldLeft(Passo, [esce |-> <<>>, buffer |-> <<>>, ris |-> 0], testo)
  IN  [esce |-> f.esce, ris |-> f.ris]

\* The older program: a word goes with its separator, and what follows the
\* last separator is a word too.
TogliCarattere(a, ch, parola) ==
  IF ch \notin Bianchi THEN [esce |-> a.esce, buffer |-> Append(a.buffer, ch), ris |-> a.ris]
  ELSE IF a.buffer = parola THEN [esce |-> a.esce, buffer |-> <<>>, ris |-> a.ris + 1]
  ELSE [esce |-> a.esce \o a.buffer \o <<ch>>, buffer |-> <<>>, ris |-> a.ris]

elimina_parola(testo, parola) ==
  LET f == FoldLeft(LAMBDA a, ch : TogliCarattere(a, ch, parola),
                    [esce |-> <<>>, buffer |-> <<>>, ris |-> 0], testo)
  IN  IF f.buffer = parola THEN [esce |-> f.esce, ris |-> f.ris + 1]
      ELSE [esce |-> f.esce \o f.buffer, ris |-> f.ris]

ContaCarattere(a, ch) ==
  [prev |-> ch, caratteri |-> a.caratteri + 1,
   linee  |-> a.linee + (IF ch = "n" THEN 1 ELSE 0),
   parole |-> a.parole + (IF ch \in Bianchi /\ a.prev \notin Bianchi THEN 1 ELSE 0)]

\* Characters, words and lines of a text (file_scan): here only " " and "n"
\* separate, and prev starts as a separator.
ContaTesto(testo) ==
  LET f == FoldLeft(ContaCarattere, [prev |-> Spazio, caratteri |-> 0, linee |-> 0, parole |-> 0], testo)
  IN  [caratteri |-> f.caratteri, parole |-> f.parole, linee |-> f.linee]

-----------------------------------------------------------------------------
(* The reference: words and lines by the positions of their ends. *)

\* The intervals <<i, j>> such that testo[i .. j - 1] has none of the
\* characters S, follows one of them (or the start) and is followed by one.
Intervalli(testo, S) ==
  {ij \in (1 .. Len(testo)) \X (1 .. Len(testo)) :
     /\ ij[1] <= ij[2] /\ testo[ij[2]] \in S
     /\ ij[1] = 1 \/ testo[ij[1] - 1] \in S
     /\ \A k \in ij[1] .. ij[2] - 1 : testo[k] \notin S}

\* In the order of their starts: the k-th is the one with k - 1 before it.
InOrdine(I) ==
  [k \in 1 .. Cardinality(I) |-> CHOOSE x \in I : Cardinality({y \in I : y[1] < x[1]}) = k - 1]

\* The words that a character of S ends, in their order, without the empty
\* ones and those of W.
ParoleSenza(testo, S, W) ==
  LET I == InOrdine({ij \in Intervalli(testo, S) : ij[1] < ij[2] /\ SubSeq(testo, ij[1], ij[2] - 1) \notin W})
  IN  [k \in DOMAIN I |-> SubSeq(testo, I[k][1], I[k][2] - 1)]

\* How often one of them is parola.
Volte(testo, S, parola) ==
  Cardinality({ij \in Intervalli(testo, S) : SubSeq(testo, ij[1], ij[2] - 1) = parola})

\* Line n, the last one terminated or not.
Linea(testo, n) ==
  LET t == IF testo # <<>> /\ Last(testo) # "n" THEN Append(testo, "n") ELSE testo
      I == InOrdine(Intervalli(t, {"n"}))
  IN  IF n \in DOMAIN I THEN SubSeq(t, I[n][1], I[n][2] - 1) ELSE NonTrovata
=============================================================================

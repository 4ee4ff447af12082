------------------------------ MODULE Registry ------------------------------
(***************************************************************************)
(* The remote registry of Esercitazione 6: RegistryRemotoImpl.java.        *)
(*                                                                         *)
(* Every remote method is synchronized, so each is one step.  The methods  *)
(* are given as actions on the table, or as operators when they only read. *)
(* No program of the repository passes null for a name or for a reference. *)
(***************************************************************************)
EXTENDS Integers, Sequences

CONSTANTS tableSize,   \* rows of the table
          VALID_TAGS,  \* tags the registry knows
          Nullo        \* null

ASSUME RegistryAssumption == tableSize \in Nat \ {0}

VARIABLE table         \* row -> logical name, reference, tags

Righe     == 1 .. tableSize
RigaVuota == [nome |-> Nullo, rif |-> Nullo, tags |-> Nullo]

RegistryInit == table = [i \in Righe |-> RigaVuota]

Libere    == {i \in Righe : table[i].nome = Nullo}
Con(nome) == {i \in Righe : table[i].nome = nome}

\* The row where a loop from the top stops: a set with at most one member.
Primo(S) == {i \in S : \A j \in S : i <= j}

\* Mutant: a full table loses its first row.
aggiungi_sovrascrive(nome, rif) ==
  \E i \in IF Libere # {} THEN Primo(Libere) ELSE Primo(Righe) :
    table' = [table EXCEPT ![i].nome = nome, ![i].rif = rif]

\* Mutant: any free row will do.
aggiungi_ovunque(nome, rif) ==
  \/ \E i \in Libere : table' = [table EXCEPT ![i].nome = nome, ![i].rif = rif]
  \/ Libere = {} /\ UNCHANGED table

\* The pair goes to the first free row, whose tags stay what they were; when
\* there is none the method returns false, which its callers ignore.
aggiungi(nome, rif) ==
  \/ \E i \in Primo(Libere) : table' = [table EXCEPT ![i].nome = nome, ![i].rif = rif]
  \/ Libere = {} /\ UNCHANGED table

\* The first reference with this name, or null.
cerca(nome) ==
  IF Con(nome) = {} THEN Nullo ELSE table[CHOOSE i \in Primo(Con(nome)) : TRUE].rif

\* Mutant: the reference stays.
Libera_solo_nome(S) ==
  table' = [i \in Righe |-> IF i \in S THEN [table[i] EXCEPT !.nome = Nullo] ELSE table[i]]

\* The row forgets name and reference, not its tags.
Libera(S) ==
  table' = [i \in Righe |-> IF i \in S THEN [table[i] EXCEPT !.nome = Nullo, !.rif = Nullo]
                                       ELSE table[i]]

eliminaPrimo(nome) == Libera(Primo(Con(nome)))
eliminaTutti(nome) == Libera(Con(nome))

\* The first tag, if it is valid, speaks for the rest: risultato is never reset.
Rifiutati(tags) == tags # <<>> /\ tags[1] \notin VALID_TAGS

\* All rows with the name get the tags.
associaTags(nome, tags) ==
  /\ ~ Rifiutati(tags)
  /\ table' = [i \in Righe |-> IF i \in Con(nome) THEN [table[i] EXCEPT !.tags = tags]
                                                  ELSE table[i]]

\* A service matches when, at some point of its list of tags, as many of them
\* are in tag as tag is long.
Corrisponde(tmp, tag) ==
  \E j \in 1 .. Len(tmp) :
    LET trovati == SelectSeq(SubSeq(tmp, 1, j), LAMBDA t : \E z \in 1 .. Len(tag) : tag[z] = t)
    IN  Len(trovati) = Len(tag)

\* The rows the search looks at: it stops at the first free one.
Viste == {i \in Righe : \A j \in 1 .. i : table[j].nome # Nullo}

\* A row without tags: "tmp.length" throws, and so does the call.
cercaTag_fallisce == \E i \in Viste : table[i].tags = Nullo

\* The rows whose names cercaTag returns, in the order of the table.
cercaTag(tag) == {i \in Viste : Corrisponde(table[i].tags, tag)}
=============================================================================

---------------------------- MODULE XFactorProofs ----------------------------
(***************************************************************************)
(* Proofs about XFactor for every table of candidates, every set of        *)
(* clients, and every number of calls and of copies of a datagram.         *)
(*                                                                         *)
(* VotiGiustificati compares votes with what was sent and what was         *)
(* confirmed: between a sending and its confirmation lies an execution the *)
(* property does not see.  The invariant counts executions instead.  A     *)
(* datagram sent and no longer in flight has been executed, exactly once,  *)
(* since no two sendings are the same datagram.                            *)
(*                                                                         *)
(* The ranking is computed by loops, the folds of SequencesExt.  A fold is *)
(* taken to be the last term of a sequence whose first term is the initial *)
(* value and each other comes of a step of the loop: what holds of every   *)
(* term is then an invariant of the loop.                                  *)
(***************************************************************************)
EXTENDS XFactor, TLAPS, FiniteSetTheorems, WellFoundedInduction

\* The datagrams executed, and those among them that asked op for row i.
Eseguite == spedite \ richieste
Richiede(op, i) == [nomeCandidato |-> Righe[i].candidato, tipoOp |-> op]
Fatte(op, i) == {m \in Eseguite : m.arg = Richiede(op, i)}

\* A call waits with a proper argument; a datagram sent was sent by a call
\* already made and, if it is the last, not later than its last copy.
DatagrammiInv ==
  /\ xid \in [Client -> Nat]
  /\ \A c \in Client : fase[c] = "attesa" => arg[c] \in Input
  /\ IsFiniteSet(spedite)
  /\ \A m \in spedite : /\ m.xid <= xid[m.client]
                        /\ m.xid = xid[m.client] => m.copia <= copie[m.client]

\* A reply comes from an execution and is of the kind its request asked for;
\* what a user was told is what a reply said.
RisposteInv ==
  /\ \A r \in risposte : /\ r.req \in Eseguite
                         /\ r.req.arg \in Classifica <=> DOMAIN r.ris = {"classifica"}
  /\ \A e \in esiti : \E m \in Eseguite : \E x : e = [chi |-> Autore(m), arg |-> m.arg, ris |-> x]

\* A row has gained no more votes than executions that add to it, and has lost
\* no more than executions that take away from it.
VotiInv ==
  \A i \in 1 .. N : Righe[i].candidato # "L" =>
    /\ VotiCorrenti[i] >= 0
    /\ VotiCorrenti[i] <= Righe[i].voto + Cardinality(Fatte("A", i))
    /\ VotiCorrenti[i] + Cardinality(Fatte("S", i))
         >= Righe[i].voto + Cardinality(Fatte("A", i))

Inv == TypeOK /\ DatagrammiInv /\ RisposteInv /\ VotiInv
-----------------------------------------------------------------------------
(* The table. *)

LEMMA TabellaTipata ==
  /\ N \in Nat
  /\ \A i \in 1 .. N : Righe[i] \in [candidato : STRING, giudice : STRING, voto : Int]
<1>1. PICK R : R = [candidato : STRING, giudice : STRING, voto : Int]
  OBVIOUS
<1>2. Righe \in Seq(R)
  BY <1>1, XFactorAssumption
<1>3. N \in Nat /\ \A i \in 1 .. N : Righe[i] \in R
  BY <1>2 DEF N
<1> QED
  BY <1>1, <1>3

\* The loops over the table stop at the first row they look for: if there is
\* such a row, one is the first.
LEMMA MinimoEsiste ==
  ASSUME NEW S, S \subseteq Nat, S # {}
  PROVE  \E i \in S : \A j \in S : i <= j
<1> DEFINE R == OpToRel(<, Nat)
<1>1. \A x, y \in Nat : y < x => <<y, x>> \in R
  BY DEF OpToRel
<1>2. IsWellFoundedOn(R, Nat)
  BY NatLessThanWellFounded
<1>3. \E x \in S : \A y \in S : ~ (<<y, x>> \in R)
  BY <1>2, WFMin
<1> HIDE DEF R
<1>4. PICK i \in S : \A y \in S : ~ (<<y, i>> \in R)
  BY <1>3
<1>5. \A y \in S : ~ (y < i)
  BY <1>1, <1>4
<1>6. \A y \in S : i <= y
  BY <1>5, SMT
<1> QED
  BY <1>6

\* The row a vote falls on has the name voted, and is the only one but for "L".
LEMMA RigaTrovata ==
  ASSUME NEW nome, Trovato(nome)
  PROVE  /\ Riga(nome) \in 1 .. N
         /\ Righe[Riga(nome)].candidato = nome
         /\ \A i \in 1 .. N : Righe[i].candidato = nome /\ nome # "L" => i = Riga(nome)
<1> DEFINE S == {i \in 1 .. N : Righe[i].candidato = nome}
<1>1. PICK i \in S : \A j \in S : i <= j
  <2>1. S \subseteq Nat /\ S # {}
    BY TabellaTipata DEF Trovato
  <2> QED
    BY <2>1, MinimoEsiste
<1>2. i \in 1 .. N /\ Righe[i].candidato = nome
  BY <1>1
<1>3. \A j \in 1 .. i - 1 : Righe[j].candidato # nome
  <2> SUFFICES ASSUME NEW j \in 1 .. i - 1, Righe[j].candidato = nome PROVE FALSE
    OBVIOUS
  <2>1. j \in 1 .. N /\ j < i
    BY <1>2, TabellaTipata
  <2>2. j \in S
    BY <2>1
  <2> QED
    BY <2>1, <2>2, <1>1, <1>2, TabellaTipata
<1>4. Riga(nome) \in 1 .. N /\ Righe[Riga(nome)].candidato = nome
  <2> HIDE DEF S
  <2> QED
    BY <1>2, <1>3 DEF Riga
<1>5. \A k \in 1 .. N : Righe[k].candidato = nome /\ nome # "L" => k = Riga(nome)
  BY <1>4, XFactorAssumption
<1> QED
  BY <1>4, <1>5

LEMMA VotiTipati == TypeOK => VotiCorrenti \in [1 .. N -> Int]
BY TabellaTipata DEF TypeOK, VotiCorrenti

\* A request for a ranking is not a request for a vote.
LEMMA ClassificaNonVoto ==
  /\ \A a \in Classifica : \A op, i : a # Richiede(op, i)
  /\ \A a \in Voti : a \notin Classifica
<1>1. \A a \in Classifica : DOMAIN a = {"op"}
  BY DEF Classifica
<1>2. \A op, i : DOMAIN Richiede(op, i) = {"nomeCandidato", "tipoOp"}
  BY DEF Richiede
<1>3. \A a \in Voti : DOMAIN a = {"nomeCandidato", "tipoOp"}
  BY DEF Voti
<1>4. {"op"} # {"nomeCandidato", "tipoOp"}
  OBVIOUS
<1> QED
  BY <1>1, <1>2, <1>3, <1>4

-----------------------------------------------------------------------------
(* Counting executions. *)

LEMMA FatteFinite ==
  ASSUME Inv, NEW op, NEW i
  PROVE  /\ IsFiniteSet(Fatte(op, i))
         /\ Cardinality(Fatte(op, i)) \in Nat
<1>1. Fatte(op, i) \in SUBSET spedite
  BY DEF Fatte, Eseguite
<1> QED
  BY <1>1, FS_Subset, FS_CardinalityType DEF Inv, DatagrammiInv

\* An execution counts once, for what it asked.
LEMMA EsecuzioneConta ==
  ASSUME Inv, NEW m \in richieste, Eseguite' = Eseguite \cup {m}, NEW op, NEW i
  PROVE  Cardinality(Fatte(op, i)') =
           Cardinality(Fatte(op, i)) + (IF m.arg = Richiede(op, i) THEN 1 ELSE 0)
<1>1. m \notin Fatte(op, i)
  BY DEF Fatte, Eseguite
<1>2. CASE m.arg = Richiede(op, i)
  <2>1. Fatte(op, i)' = Fatte(op, i) \cup {m}
    BY <1>2 DEF Fatte, Richiede
  <2> QED
    BY <1>1, <1>2, <2>1, FatteFinite, FS_AddElement
<1>3. CASE m.arg # Richiede(op, i)
  <2>1. Fatte(op, i)' = Fatte(op, i)
    BY <1>3 DEF Fatte, Richiede
  <2> QED
    BY <1>3, <2>1, FatteFinite
<1> QED
  BY <1>2, <1>3

LEMMA VotiFermi ==
  ASSUME Inv, Eseguite' = Eseguite, UNCHANGED <<voto, inizializzato>>
  PROVE  VotiInv'
<1>1. \A op, i : Fatte(op, i)' = Fatte(op, i)
  BY DEF Fatte, Richiede
<1>2. VotiCorrenti' = VotiCorrenti
  BY DEF VotiCorrenti
<1> QED
  BY <1>1, <1>2 DEF Inv, VotiInv

-----------------------------------------------------------------------------
(* The client's steps: they send at most one datagram, and a new one. *)

\* The datagrams of a client's step are sent for the first time.
LEMMA Invio ==
  ASSUME Inv, NEW d \in RichiestaRpc(Input), richieste' = richieste \cup {d}, d \notin spedite,
         spedite' = spedite \cup (richieste' \ richieste)
  PROVE  /\ spedite' = spedite \cup {d}
         /\ Eseguite' = Eseguite
         /\ IsFiniteSet(spedite')
<1>1. richieste \subseteq spedite
  BY DEF Inv, TypeOK
<1>2. spedite' = spedite \cup {d}
  BY <1>1
<1>3. IsFiniteSet(spedite')
  BY <1>2, FS_AddElement DEF Inv, DatagrammiInv
<1> QED
  BY <1>1, <1>2, <1>3 DEF Eseguite

\* A step that executes nothing and shows nothing leaves replies as they are.
LEMMA RisposteFerme ==
  ASSUME Inv, Eseguite' = Eseguite, risposte' \subseteq risposte, esiti' = esiti
  PROVE  RisposteInv'
BY DEF Inv, RisposteInv, Autore

LEMMA ChiamaInv ==
  ASSUME Inv, NEW c \in Client, Chiama(c)
  PROVE  Inv'
<1>1. PICK a \in Input : clnt_call(c, a)
  BY DEF Chiama
<1>2. PICK d : d = Richiesta(c, xid[c] + 1, 1, a)
  OBVIOUS
<1>3. /\ xid[c] \in Nat /\ xid[c] + 1 \in 0 .. MaxChiamate[c]
      /\ d = [client |-> c, xid |-> xid[c] + 1, copia |-> 1, arg |-> a]
      /\ d \in RichiestaRpc(Input)
  <2>1. xid[c] \in Nat /\ xid[c] < MaxChiamate[c] /\ MaxChiamate[c] \in Nat
    BY <1>1, RpcAssumption DEF Inv, DatagrammiInv, clnt_call
  <2>2. d = [client |-> c, xid |-> xid[c] + 1, copia |-> 1, arg |-> a]
    BY <1>2 DEF Richiesta
  <2> QED
    BY <2>1, <2>2 DEF RichiestaRpc
<1>4. d \notin spedite
  BY <1>3 DEF Inv, DatagrammiInv
<1>5. richieste' = richieste \cup {d} /\ spedite' = spedite \cup (richieste' \ richieste)
  BY <1>1, <1>2 DEF clnt_call, Chiama, Spedisce
<1>6. spedite' = spedite \cup {d} /\ Eseguite' = Eseguite /\ IsFiniteSet(spedite')
  BY <1>3, <1>4, <1>5, Invio
<1>7. /\ fase' = [fase EXCEPT ![c] = "attesa"]
      /\ xid' = [xid EXCEPT ![c] = xid[c] + 1]
      /\ copie' = [copie EXCEPT ![c] = 1]
      /\ arg' = [arg EXCEPT ![c] = a]
      /\ UNCHANGED <<risposte, voto, inizializzato, found, esiti>>
  BY <1>1 DEF clnt_call, Chiama, serverVars
<1>8. DatagrammiInv'
  <2>1. xid' \in [Client -> Nat]
    BY <1>3, <1>7 DEF Inv, DatagrammiInv
  <2>2. \A b \in Client : fase'[b] = "attesa" => arg'[b] \in Input
    BY <1>7 DEF Inv, TypeOK, DatagrammiInv
  <2>3. \A m \in spedite' : /\ m.xid <= xid'[m.client]
                            /\ m.xid = xid'[m.client] => m.copia <= copie'[m.client]
    <3> SUFFICES ASSUME NEW m \in spedite'
                 PROVE  /\ m.xid <= xid'[m.client]
                        /\ m.xid = xid'[m.client] => m.copia <= copie'[m.client]
      OBVIOUS
    <3>1. CASE m = d
      BY <3>1, <1>3, <1>7 DEF Inv, TypeOK, DatagrammiInv
    <3>2. CASE m \in spedite
      <4>1. m.client \in Client /\ m.xid \in Nat /\ m.copia \in Nat
        BY <3>2 DEF Inv, TypeOK, RichiestaRpc
      <4> QED
        BY <4>1, <3>2, <1>3, <1>7 DEF Inv, TypeOK, DatagrammiInv
    <3> QED
      BY <3>1, <3>2, <1>6
  <2> QED
    BY <2>1, <2>2, <2>3, <1>6 DEF DatagrammiInv
<1>9. TypeOK'
  BY <1>3, <1>5, <1>6, <1>7, RpcAssumption DEF Inv, TypeOK
<1> QED
  BY <1>6, <1>7, <1>8, <1>9, VotiFermi, RisposteFerme DEF Inv

LEMMA LeggiInv ==
  ASSUME Inv, NEW c \in Client, Leggi(c)
  PROVE  Inv'
<1>1. PICK r \in risposte : Restituisci(c, r) /\ esiti' = esiti \cup {Esito(r)}
  BY DEF Leggi
<1>2. /\ fase' = [fase EXCEPT ![c] = "menu"] /\ risposte' = risposte \ {r}
      /\ UNCHANGED <<xid, copie, arg, richieste, spedite, voto, inizializzato, found>>
  BY <1>1 DEF Leggi, Restituisci, serverVars
<1>3. Eseguite' = Eseguite
  BY <1>2 DEF Eseguite
<1>4. DatagrammiInv'
  BY <1>2 DEF Inv, TypeOK, DatagrammiInv
<1>5. PICK e : e = Esito(r)
  OBVIOUS
<1>6. /\ e = [chi |-> Autore(r.req), arg |-> r.req.arg, ris |-> r.ris]
      /\ e.arg \in Classifica <=> DOMAIN e.ris = {"classifica"}
  BY <1>5 DEF Esito, Inv, RisposteInv
<1>7. esiti' = esiti \cup {e}
  BY <1>1, <1>5
<1>8. TypeOK'
  BY <1>2, <1>6, <1>7 DEF Inv, TypeOK
<1>9. RisposteInv'
  BY <1>2, <1>3, <1>6, <1>7 DEF Inv, RisposteInv, Autore
<1> QED
  BY <1>2, <1>3, <1>4, <1>8, <1>9, VotiFermi DEF Inv

LEMMA AttesaInv ==
  ASSUME Inv, NEW c \in Client, Attesa(c)
  PROVE  Inv'
<1>1. UNCHANGED <<risposte, voto, inizializzato, found, esiti, xid, arg>>
  BY DEF Attesa, Ritrasmetti, Scaduto, serverVars
<1>2. CASE Ritrasmetti(c)
  <2>1. PICK d : d = Richiesta(c, xid[c], copie[c] + 1, arg[c])
    OBVIOUS
  <2>2. /\ xid[c] \in Nat /\ copie[c] \in Nat /\ copie[c] + 1 \in 0 .. Tentativi
        /\ d = [client |-> c, xid |-> xid[c], copia |-> copie[c] + 1, arg |-> arg[c]]
        /\ d \in RichiestaRpc(Input)
    BY <1>2, <2>1, RpcAssumption
       DEF Inv, TypeOK, DatagrammiInv, Ritrasmetti, Richiesta, RichiestaRpc
  <2>3. d \notin spedite
    BY <2>2 DEF Inv, DatagrammiInv
  <2>4. richieste' = richieste \cup {d} /\ spedite' = spedite \cup (richieste' \ richieste)
    BY <1>2, <2>1 DEF Ritrasmetti, Attesa, Spedisce
  <2>5. spedite' = spedite \cup {d} /\ Eseguite' = Eseguite /\ IsFiniteSet(spedite')
    BY <2>2, <2>3, <2>4, Invio
  <2>6. copie' = [copie EXCEPT ![c] = copie[c] + 1] /\ fase' = fase
    BY <1>2 DEF Ritrasmetti
  <2>7. DatagrammiInv'
    <3>1. \A m \in spedite' : /\ m.xid <= xid'[m.client]
                              /\ m.xid = xid'[m.client] => m.copia <= copie'[m.client]
      <4> SUFFICES ASSUME NEW m \in spedite'
                   PROVE  /\ m.xid <= xid'[m.client]
                          /\ m.xid = xid'[m.client] => m.copia <= copie'[m.client]
        OBVIOUS
      <4>1. CASE m = d
        BY <4>1, <2>2, <2>6, <1>1 DEF Inv, TypeOK, DatagrammiInv
      <4>2. CASE m \in spedite
        <5>1. m.client \in Client /\ m.xid \in Nat /\ m.copia \in Nat
          BY <4>2 DEF Inv, TypeOK, RichiestaRpc
        <5> QED
          BY <5>1, <4>2, <2>2, <2>6, <1>1 DEF Inv, TypeOK, DatagrammiInv
      <4> QED
        BY <4>1, <4>2, <2>5
    <3> QED
      BY <3>1, <1>1, <2>5, <2>6 DEF Inv, DatagrammiInv
  <2>8. TypeOK'
    BY <1>1, <2>2, <2>4, <2>5, <2>6 DEF Inv, TypeOK
  <2> QED
    BY <1>1, <2>5, <2>7, <2>8, VotiFermi, RisposteFerme DEF Inv
<1>3. CASE Scaduto(c)
  <2>1. fase' = [fase EXCEPT ![c] = "fine"] /\ UNCHANGED <<copie, richieste, spedite>>
    BY <1>3 DEF Scaduto, Attesa, Spedisce
  <2>2. Eseguite' = Eseguite
    BY <2>1 DEF Eseguite
  <2>3. DatagrammiInv'
    BY <1>1, <2>1 DEF Inv, TypeOK, DatagrammiInv
  <2>4. TypeOK'
    BY <1>1, <2>1 DEF Inv, TypeOK
  <2> QED
    BY <1>1, <2>2, <2>3, <2>4, VotiFermi, RisposteFerme DEF Inv
<1> QED
  BY <1>2, <1>3 DEF Attesa

LEMMA EsciInv ==
  ASSUME Inv, NEW c \in Client, Esci(c)
  PROVE  Inv'
<1>1. /\ fase' = [fase EXCEPT ![c] = "fine"]
      /\ UNCHANGED <<xid, copie, arg, richieste, risposte, spedite, esiti>>
      /\ UNCHANGED <<voto, inizializzato, found>>
  BY DEF Esci, clnt_destroy, serverVars
<1>2. Eseguite' = Eseguite
  BY <1>1 DEF Eseguite
<1>3. DatagrammiInv'
  BY <1>1 DEF Inv, TypeOK, DatagrammiInv
<1>4. TypeOK'
  BY <1>1 DEF Inv, TypeOK
<1> QED
  BY <1>1, <1>2, <1>3, <1>4, VotiFermi, RisposteFerme DEF Inv

-----------------------------------------------------------------------------
(* The server's procedures. *)

\* What every procedure does, but for the votes: it executes m and answers.
LEMMA ServiRpc ==
  ASSUME Inv, NEW m \in richieste, NEW ris, svc_sendreply(m, ris),
         UNCHANGED <<spedite, esiti>>, inizializzato' = TRUE,
         voto' \in [1 .. N -> Int], found' \in {0, -1},
         m.arg \in Classifica <=> DOMAIN ris = {"classifica"}
  PROVE  /\ TypeOK' /\ DatagrammiInv' /\ RisposteInv'
         /\ Eseguite' = Eseguite \cup {m}
         /\ VotiCorrenti' = voto'
<1>1. /\ richieste' = richieste \ {m}
      /\ UNCHANGED <<fase, xid, copie, arg>>
  BY DEF svc_sendreply
<1>2. PICK q : q = [req |-> m, ris |-> ris]
  OBVIOUS
<1>3. risposte' = risposte \cup {q} /\ q.req = m /\ q.ris = ris
  BY <1>2 DEF svc_sendreply
<1>4. richieste \subseteq spedite
  BY DEF Inv, TypeOK
<1>5. Eseguite' = Eseguite \cup {m}
  BY <1>1, <1>4 DEF Eseguite
<1>6. DatagrammiInv'
  BY <1>1 DEF Inv, DatagrammiInv
<1>7. TypeOK'
  BY <1>1, <1>3, <1>4 DEF Inv, TypeOK
<1>8. RisposteInv'
  BY <1>3, <1>5 DEF Inv, RisposteInv, Autore
<1>9. VotiCorrenti' = voto'
  BY DEF VotiCorrenti
<1> QED
  BY <1>5, <1>6, <1>7, <1>8, <1>9

LEMMA ClassificaGiudiciInv ==
  ASSUME Inv, NEW m \in richieste, classifica_giudici(m)
  PROVE  Inv'
<1>1. PICK ris : svc_sendreply(m, ris) /\ DOMAIN ris = {"classifica"}
  <2>1. svc_sendreply(m, [classifica |-> classificaGiudici])
    BY DEF classifica_giudici
  <2> QED
    BY <2>1
<1>2. /\ m.arg \in Classifica /\ voto' = VotiCorrenti /\ inizializzato' = TRUE
      /\ UNCHANGED <<found, spedite, esiti>>
  BY DEF classifica_giudici
<1>3. voto' \in [1 .. N -> Int] /\ found' \in {0, -1}
  BY <1>2, VotiTipati DEF Inv, TypeOK
<1>4. /\ TypeOK' /\ DatagrammiInv' /\ RisposteInv'
      /\ Eseguite' = Eseguite \cup {m} /\ VotiCorrenti' = VotiCorrenti
  BY <1>1, <1>2, <1>3, ServiRpc
<1>5. \A op, i : Cardinality(Fatte(op, i)') = Cardinality(Fatte(op, i))
  BY <1>2, <1>4, EsecuzioneConta, FatteFinite, ClassificaNonVoto
<1>6. VotiInv'
  BY <1>4, <1>5 DEF Inv, VotiInv
<1> QED
  BY <1>4, <1>6 DEF Inv

\* What the three outcomes of esprimi_voto have in common.
LEMMA EsprimiVoto ==
  ASSUME Inv, NEW m \in richieste, Rispondi(m),
         voto' \in [1 .. N -> Int], found' \in {0, -1}
  PROVE  /\ TypeOK' /\ DatagrammiInv' /\ RisposteInv'
         /\ Eseguite' = Eseguite \cup {m}
         /\ VotiCorrenti' = voto'
<1>1. PICK ris : svc_sendreply(m, ris) /\ DOMAIN ris # {"classifica"}
  <2>1. svc_sendreply(m, [found |-> found'])
    BY DEF Rispondi
  <2>2. DOMAIN [found |-> found'] = {"found"}
    OBVIOUS
  <2>3. {"found"} # {"classifica"}
    OBVIOUS
  <2> QED
    BY <2>1, <2>2, <2>3
<1>2. /\ m.arg \notin Classifica /\ inizializzato' = TRUE
      /\ UNCHANGED <<spedite, esiti>>
  BY ClassificaNonVoto DEF Rispondi
<1> QED
  BY <1>1, <1>2, ServiRpc

LEMMA AggiungeInv ==
  ASSUME Inv, NEW m \in richieste, esprimi_voto_aggiunge(m)
  PROVE  Inv'
<1>1. PICK k : k = Riga(m.arg.nomeCandidato)
  OBVIOUS
<1>2. /\ m.arg \in Voti /\ m.arg.tipoOp = "A" /\ Rispondi(m) /\ found' = 0
      /\ voto' = [VotiCorrenti EXCEPT ![k] = VotiCorrenti[k] + 1]
  BY <1>1 DEF esprimi_voto_aggiunge
<1>3. /\ k \in 1 .. N /\ Righe[k].candidato = m.arg.nomeCandidato
      /\ \A i \in 1 .. N : Righe[i].candidato = m.arg.nomeCandidato /\ Righe[i].candidato # "L" => i = k
  <2>1. Trovato(m.arg.nomeCandidato)
    BY DEF esprimi_voto_aggiunge
  <2> QED
    BY <1>1, <2>1, RigaTrovata
<1>4. VotiCorrenti \in [1 .. N -> Int]
  BY VotiTipati DEF Inv
<1>5. voto' \in [1 .. N -> Int]
  BY <1>2, <1>3, <1>4
<1>6. /\ TypeOK' /\ DatagrammiInv' /\ RisposteInv'
      /\ Eseguite' = Eseguite \cup {m} /\ VotiCorrenti' = voto'
  BY <1>2, <1>5, EsprimiVoto
<1>7. VotiInv'
  <2> SUFFICES ASSUME NEW i \in 1 .. N, Righe[i].candidato # "L"
               PROVE  /\ voto'[i] >= 0
                      /\ voto'[i] <= Righe[i].voto + Cardinality(Fatte("A", i)')
                      /\ voto'[i] + Cardinality(Fatte("S", i)')
                           >= Righe[i].voto + Cardinality(Fatte("A", i)')
    BY <1>6 DEF VotiInv
  <2>1. Cardinality(Fatte("S", i)') = Cardinality(Fatte("S", i))
    <3>1. m.arg # Richiede("S", i)
      BY <1>2 DEF Richiede
    <3> QED
      BY <3>1, <1>6, EsecuzioneConta, FatteFinite
  <2>2. Cardinality(Fatte("A", i)') = Cardinality(Fatte("A", i)) + (IF i = k THEN 1 ELSE 0)
    <3>1. m.arg = Richiede("A", i) <=> i = k
      BY <1>2, <1>3 DEF Richiede, Voti
    <3> QED
      BY <3>1, <1>6, EsecuzioneConta
  <2>3. /\ Cardinality(Fatte("A", i)) \in Nat /\ Cardinality(Fatte("S", i)) \in Nat
        /\ Righe[i].voto \in Int
    BY FatteFinite, TabellaTipata
  <2>4. /\ VotiCorrenti[i] >= 0
        /\ VotiCorrenti[i] <= Righe[i].voto + Cardinality(Fatte("A", i))
        /\ VotiCorrenti[i] + Cardinality(Fatte("S", i))
             >= Righe[i].voto + Cardinality(Fatte("A", i))
    BY DEF Inv, VotiInv
  <2>5. voto'[i] = VotiCorrenti[i] + (IF i = k THEN 1 ELSE 0) /\ VotiCorrenti[i] \in Int
    BY <1>2, <1>3, <1>4
  <2> QED
    BY <2>1, <2>2, <2>3, <2>4, <2>5
<1> QED
  BY <1>6, <1>7 DEF Inv

LEMMA ToglieInv ==
  ASSUME Inv, NEW m \in richieste, esprimi_voto_toglie(m)
  PROVE  Inv'
<1>1. PICK k : k = Riga(m.arg.nomeCandidato)
  OBVIOUS
<1>2. /\ m.arg \in Voti /\ m.arg.tipoOp = "S" /\ Rispondi(m) /\ found' = 0
      /\ VotiCorrenti[k] > 0
      /\ voto' = [VotiCorrenti EXCEPT ![k] = VotiCorrenti[k] - 1]
  BY <1>1 DEF esprimi_voto_toglie
<1>3. /\ k \in 1 .. N /\ Righe[k].candidato = m.arg.nomeCandidato
      /\ \A i \in 1 .. N : Righe[i].candidato = m.arg.nomeCandidato /\ Righe[i].candidato # "L" => i = k
  <2>1. Trovato(m.arg.nomeCandidato)
    BY DEF esprimi_voto_toglie
  <2> QED
    BY <1>1, <2>1, RigaTrovata
<1>4. VotiCorrenti \in [1 .. N -> Int]
  BY VotiTipati DEF Inv
<1>5. voto' \in [1 .. N -> Int]
  BY <1>2, <1>3, <1>4
<1>6. /\ TypeOK' /\ DatagrammiInv' /\ RisposteInv'
      /\ Eseguite' = Eseguite \cup {m} /\ VotiCorrenti' = voto'
  BY <1>2, <1>5, EsprimiVoto
<1>7. VotiInv'
  <2> SUFFICES ASSUME NEW i \in 1 .. N, Righe[i].candidato # "L"
               PROVE  /\ voto'[i] >= 0
                      /\ voto'[i] <= Righe[i].voto + Cardinality(Fatte("A", i)')
                      /\ voto'[i] + Cardinality(Fatte("S", i)')
                           >= Righe[i].voto + Cardinality(Fatte("A", i)')
    BY <1>6 DEF VotiInv
  <2>1. Cardinality(Fatte("A", i)') = Cardinality(Fatte("A", i))
    <3>1. m.arg # Richiede("A", i)
      BY <1>2 DEF Richiede
    <3> QED
      BY <3>1, <1>6, EsecuzioneConta, FatteFinite
  <2>2. Cardinality(Fatte("S", i)') = Cardinality(Fatte("S", i)) + (IF i = k THEN 1 ELSE 0)
    <3>1. m.arg = Richiede("S", i) <=> i = k
      BY <1>2, <1>3 DEF Richiede, Voti
    <3> QED
      BY <3>1, <1>6, EsecuzioneConta
  <2>3. /\ Cardinality(Fatte("A", i)) \in Nat /\ Cardinality(Fatte("S", i)) \in Nat
        /\ Righe[i].voto \in Int
    BY FatteFinite, TabellaTipata
  <2>4. /\ VotiCorrenti[i] >= 0
        /\ VotiCorrenti[i] <= Righe[i].voto + Cardinality(Fatte("A", i))
        /\ VotiCorrenti[i] + Cardinality(Fatte("S", i))
             >= Righe[i].voto + Cardinality(Fatte("A", i))
    BY DEF Inv, VotiInv
  <2>5. voto'[i] = VotiCorrenti[i] - (IF i = k THEN 1 ELSE 0) /\ VotiCorrenti[i] \in Int
    BY <1>2, <1>3, <1>4
  <2> QED
    BY <2>1, <2>2, <2>3, <2>4, <2>5, <1>2
<1> QED
  BY <1>6, <1>7 DEF Inv

LEMMA RifiutaInv ==
  ASSUME Inv, NEW m \in richieste, esprimi_voto_rifiuta(m)
  PROVE  Inv'
<1>1. /\ m.arg \in Voti /\ Rispondi(m) /\ found' \in {0, -1} /\ voto' = VotiCorrenti
      /\ Trovato(m.arg.nomeCandidato) => m.arg.tipoOp # "A"
  BY DEF esprimi_voto_rifiuta, Inv, TypeOK
<1>2. VotiCorrenti \in [1 .. N -> Int]
  BY VotiTipati DEF Inv
<1>3. /\ TypeOK' /\ DatagrammiInv' /\ RisposteInv'
      /\ Eseguite' = Eseguite \cup {m} /\ VotiCorrenti' = VotiCorrenti
  BY <1>1, <1>2, EsprimiVoto
<1>4. VotiInv'
  <2> SUFFICES ASSUME NEW i \in 1 .. N, Righe[i].candidato # "L"
               PROVE  /\ VotiCorrenti[i] >= 0
                      /\ VotiCorrenti[i] <= Righe[i].voto + Cardinality(Fatte("A", i)')
                      /\ VotiCorrenti[i] + Cardinality(Fatte("S", i)')
                           >= Righe[i].voto + Cardinality(Fatte("A", i)')
    BY <1>3 DEF VotiInv
  <2>1. Cardinality(Fatte("A", i)') = Cardinality(Fatte("A", i))
    <3>1. m.arg # Richiede("A", i)
      BY <1>1 DEF Richiede, Trovato
    <3> QED
      BY <3>1, <1>3, EsecuzioneConta, FatteFinite
  <2>2. Cardinality(Fatte("S", i)') >= Cardinality(Fatte("S", i))
    BY <1>3, EsecuzioneConta, FatteFinite
  <2>3. /\ Cardinality(Fatte("A", i)) \in Nat /\ Cardinality(Fatte("S", i)) \in Nat
        /\ Cardinality(Fatte("S", i)') \in Nat
        /\ Righe[i].voto \in Int
    BY <1>3, EsecuzioneConta, FatteFinite, TabellaTipata
  <2>4. /\ VotiCorrenti[i] >= 0
        /\ VotiCorrenti[i] <= Righe[i].voto + Cardinality(Fatte("A", i))
        /\ VotiCorrenti[i] + Cardinality(Fatte("S", i))
             >= Righe[i].voto + Cardinality(Fatte("A", i))
    BY DEF Inv, VotiInv
  <2> QED
    BY <2>1, <2>2, <2>3, <2>4, <1>2
<1> QED
  BY <1>3, <1>4 DEF Inv

-----------------------------------------------------------------------------
(* The invariant. *)

LEMMA InvInit == Init => Inv
<1> SUFFICES ASSUME Init PROVE Inv
  OBVIOUS
<1>1. /\ richieste = {} /\ risposte = {} /\ spedite = {} /\ esiti = {}
      /\ fase = [c \in Client |-> "menu"] /\ xid = [c \in Client |-> 0]
      /\ copie = [c \in Client |-> 0] /\ arg = [c \in Client |-> Nessuno]
      /\ voto = [i \in 1 .. N |-> 0] /\ inizializzato = FALSE /\ found = -1
  BY DEF Init, RpcInit
<1>2. TypeOK
  <2>1. 0 \in 0 .. Tentativi /\ \A c \in Client : 0 \in 0 .. MaxChiamate[c]
    BY RpcAssumption
  <2>2. \A c \in Client : xid[c] \in 0 .. MaxChiamate[c]
    BY <1>1, <2>1
  <2>3. voto \in [1 .. N -> Int] /\ found \in {0, -1}
    BY <1>1
  <2>4. /\ fase \in [Client -> {"menu", "attesa", "fine"}]
        /\ copie \in [Client -> 0 .. Tentativi]
        /\ arg \in [Client -> Input \cup {Nessuno}]
        /\ {r.req : r \in risposte} = {}
    BY <1>1, <2>1
  <2> QED
    BY <1>1, <2>2, <2>3, <2>4 DEF TypeOK
<1>3. DatagrammiInv
  BY <1>1, FS_EmptySet DEF DatagrammiInv
<1>4. RisposteInv
  BY <1>1 DEF RisposteInv
<1>5. VotiInv
  <2>1. \A op, i : Cardinality(Fatte(op, i)) = 0
    <3>1. \A op, i : Fatte(op, i) = {}
      BY <1>1 DEF Fatte, Eseguite
    <3> QED
      BY <3>1, FS_EmptySet
  <2>2. \A i \in 1 .. N : VotiCorrenti[i] = Righe[i].voto
    BY <1>1 DEF VotiCorrenti
  <2>3. \A i \in 1 .. N : Righe[i].voto \in Int
    BY TabellaTipata
  <2>4. \A i \in 1 .. N : Righe[i].candidato # "L" => Righe[i].voto >= 0
    BY XFactorAssumption
  <2> QED
    BY <2>1, <2>2, <2>3, <2>4 DEF VotiInv
<1> QED
  BY <1>2, <1>3, <1>4, <1>5 DEF Inv

LEMMA InvNext == Inv /\ [Next]_vars => Inv'
<1> SUFFICES ASSUME Inv, [Next]_vars PROVE Inv'
  OBVIOUS
<1>1. ASSUME NEW m \in richieste, Servi(m) PROVE Inv'
  BY <1>1, ClassificaGiudiciInv, AggiungeInv, ToglieInv, RifiutaInv DEF Servi
<1>2. ASSUME NEW c \in Client, Chiama(c) \/ Leggi(c) \/ Attesa(c) \/ Esci(c) PROVE Inv'
  BY <1>2, ChiamaInv, LeggiInv, AttesaInv, EsciInv
<1>3. CASE UNCHANGED vars
  <2>1. /\ UNCHANGED <<fase, xid, copie, arg, richieste, risposte>>
        /\ UNCHANGED <<voto, inizializzato, found, spedite, esiti>>
    BY <1>3 DEF vars, rpcVars, serverVars
  <2>2. Eseguite' = Eseguite
    BY <2>1 DEF Eseguite
  <2>3. TypeOK'
    BY <2>1 DEF Inv, TypeOK
  <2>4. DatagrammiInv'
    BY <2>1 DEF Inv, DatagrammiInv
  <2> QED
    BY <2>1, <2>2, <2>3, <2>4, VotiFermi, RisposteFerme DEF Inv
<1> QED
  BY <1>1, <1>2, <1>3 DEF Next

\* The inductive invariant holds of every behaviour of the service.
THEOREM InvInvariante == Spec => []Inv
BY InvInit, InvNext, PTL DEF Spec

-----------------------------------------------------------------------------
(* The properties. *)

\* Every variable of the service and of the transport keeps its type, and a
\* user who asked for a ranking is answered with a ranking.
THEOREM TypeOKInvariante == Spec => []TypeOK
<1>1. Inv => TypeOK
  BY DEF Inv
<1> QED
  BY <1>1, InvInvariante, PTL

\* "Voto min e' 0": no candidate falls below zero, whatever is repeated.
THEOREM VotoMinimoSempre == Spec => []VotoMinimo
<1>1. Inv => VotoMinimo
  BY DEF Inv, VotiInv, VotoMinimo
<1> QED
  BY <1>1, InvInvariante, PTL

\* A confirmed vote is told apart by its call, and each call confirmed was executed.
LEMMA ConfermatiFatti ==
  ASSUME Inv, NEW i
  PROVE  LET confermati == UNION {Confermati(c, MaxChiamate[c], i) : c \in Client}
         IN  /\ IsFiniteSet(confermati) /\ Cardinality(confermati) \in Nat
             /\ Cardinality(confermati) <= Cardinality(Fatte("A", i))
<1> DEFINE S == UNION {Confermati(c, MaxChiamate[c], i) : c \in Client}
           F == Fatte("A", i)
<1>1. \A e \in S : e \in esiti /\ e.arg = Richiede("A", i) /\ e.ris = [found |-> 0]
  BY DEF Confermati, Richiede
<1>2. \A e \in S : \E m \in F : e = [chi |-> Autore(m), arg |-> m.arg, ris |-> [found |-> 0]]
  <2> SUFFICES ASSUME NEW e \in S
               PROVE  \E m \in F : e = [chi |-> Autore(m), arg |-> m.arg, ris |-> [found |-> 0]]
    OBVIOUS
  <2>1. e \in esiti /\ e.arg = Richiede("A", i) /\ e.ris = [found |-> 0]
    BY <1>1
  <2>2. PICK m \in Eseguite : \E x : e = [chi |-> Autore(m), arg |-> m.arg, ris |-> x]
    BY <2>1 DEF Inv, RisposteInv
  <2>3. PICK x : e = [chi |-> Autore(m), arg |-> m.arg, ris |-> x]
    BY <2>2
  <2>4. m.arg = Richiede("A", i) /\ x = [found |-> 0]
    BY <2>1, <2>3
  <2>5. m \in F
    BY <2>4 DEF Fatte
  <2> QED
    BY <2>3, <2>4, <2>5
<1> HIDE DEF S, F
<1> DEFINE f == [e \in S |-> CHOOSE m \in F :
                   e = [chi |-> Autore(m), arg |-> m.arg, ris |-> [found |-> 0]]]
<1>3. \A e \in S : f[e] \in F
                  /\ e = [chi |-> Autore(f[e]), arg |-> f[e].arg, ris |-> [found |-> 0]]
  BY <1>2
<1>4. f \in [S -> F]
  BY <1>3
<1> HIDE DEF f
<1>5. \A d, e \in S : f[d] = f[e] => d = e
  BY <1>3
<1>6. f \in Injection(S, F)
  BY <1>4, <1>5 DEF Injection, IsInjective
<1>7. IsFiniteSet(F)
  BY FatteFinite DEF F
<1>8. IsFiniteSet(S) /\ Cardinality(S) <= Cardinality(F)
  BY <1>6, <1>7, FS_Injection
<1>9. Cardinality(S) \in Nat
  BY <1>8, FS_CardinalityType
<1> QED
  BY <1>8, <1>9 DEF S, F

\* Every execution was sent.
LEMMA FatteCopie ==
  ASSUME Inv, NEW op, NEW i
  PROVE  /\ Cardinality(Copie(op, i)) \in Nat
         /\ Cardinality(Fatte(op, i)) <= Cardinality(Copie(op, i))
<1>1. Copie(op, i) \in SUBSET spedite /\ IsFiniteSet(spedite)
  BY DEF Copie, Inv, DatagrammiInv
<1>2. Fatte(op, i) \in SUBSET Copie(op, i)
  BY DEF Fatte, Eseguite, Copie, Richiede
<1>3. IsFiniteSet(Copie(op, i))
  BY <1>1, FS_Subset
<1> QED
  BY <1>2, <1>3, FS_Subset, FS_CardinalityType

\* No vote is invented and none that was confirmed is lost, for any number of
\* clients, calls and repeated requests.
THEOREM VotiGiustificatiSempre == Spec => []VotiGiustificati
<1>1. Inv => VotiGiustificati
  <2> SUFFICES ASSUME Inv, NEW i \in 1 .. N, Righe[i].candidato # "L",
                      NEW K, K = Cardinality(UNION {Confermati(c, MaxChiamate[c], i) : c \in Client})
               PROVE  /\ VotiCorrenti[i] <= Righe[i].voto + Cardinality(Copie("A", i))
                      /\ VotiCorrenti[i] + Cardinality(Copie("S", i)) >= Righe[i].voto + K
    BY DEF VotiGiustificati
  <2>1. \A op : /\ Cardinality(Copie(op, i)) \in Nat
                /\ Cardinality(Fatte(op, i)) <= Cardinality(Copie(op, i))
    BY FatteCopie
  <2>2. K \in Nat /\ K <= Cardinality(Fatte("A", i))
    BY ConfermatiFatti
  <2>3. /\ VotiCorrenti[i] <= Righe[i].voto + Cardinality(Fatte("A", i))
        /\ VotiCorrenti[i] + Cardinality(Fatte("S", i))
             >= Righe[i].voto + Cardinality(Fatte("A", i))
    BY DEF Inv, VotiInv
  <2>4. VotiCorrenti[i] \in Int /\ Righe[i].voto \in Int
    BY VotiTipati, TabellaTipata DEF Inv
  <2>5. Cardinality(Fatte("A", i)) \in Nat /\ Cardinality(Fatte("S", i)) \in Nat
    BY FatteFinite
  <2> QED
    BY <2>1, <2>2, <2>3, <2>4, <2>5
<1> QED
  BY <1>1, InvInvariante, PTL

-----------------------------------------------------------------------------
(* Loops over an array.                                                    *)

\* Induction, with a set for the predicate.
LEMMA Induzione ==
  ASSUME NEW n \in Nat, NEW B, 0 \in B, \A k \in 1 .. n : k - 1 \in B => k \in B
  PROVE  \A k \in 0 .. n : k \in B
<1> DEFINE S == {k \in 0 .. n : k \notin B}
<1> SUFFICES ASSUME S # {} PROVE FALSE
  OBVIOUS
<1>1. S \subseteq Nat
  OBVIOUS
<1>2. PICK k \in S : \A j \in S : k <= j
  BY <1>1, MinimoEsiste
<1>3. k \in 1 .. n /\ k - 1 \in 0 .. n /\ k - 1 < k
  BY <1>2
<1> QED
  BY <1>2, <1>3

\* A set of numbers up to n has a greatest one, and the greatest of a prefix is
\* its last.
LEMMA MassimoDi ==
  ASSUME NEW n \in Nat, NEW s, s \subseteq 1 .. n, s # {}
  PROVE  Max(s) \in s /\ \A j \in s : Max(s) >= j
<1> DEFINE R == {n - k : k \in s}
<1>1. R \subseteq Nat /\ R # {}
  <2>1. \A k \in s : n - k \in Nat
    OBVIOUS
  <2> QED
    BY <2>1
<1>2. PICK d \in R : \A e \in R : d <= e
  BY <1>1, MinimoEsiste
<1>3. PICK k \in s : d = n - k
  BY <1>2
<1>4. \A j \in s : k >= j
  <2> SUFFICES ASSUME NEW j \in s PROVE k >= j
    OBVIOUS
  <2>1. n - j \in R
    OBVIOUS
  <2>2. n - k <= n - j
    BY <2>1, <1>2, <1>3
  <2> QED
    BY <2>2
<1> QED
  BY <1>4 DEF Max

LEMMA PrefissoDi ==
  ASSUME NEW n \in Nat, NEW k \in 1 .. n
  PROVE  /\ 1 .. k \in SUBSET (1 .. n) /\ 1 .. k # {}
         /\ Max(1 .. k) = k /\ (1 .. k) \ {k} = 1 .. (k - 1)
<1>1. 1 .. k \subseteq 1 .. n /\ k \in 1 .. k
  OBVIOUS
<1>2. Max(1 .. k) \in 1 .. k /\ Max(1 .. k) >= k
  BY <1>1, MassimoDi
<1> QED
  BY <1>1, <1>2

\* it folds g over the numbers up to n, and over every set of them.
Piega(it, A, base, n, g) ==
  /\ it[{}] = base
  /\ \A s \in SUBSET (1 .. n) : s # {} /\ it[s \ {Max(s)}] \in A =>
       it[s] = g[<<it[s \ {Max(s)}], Max(s)>>]

\* p is what the loop goes through, up to the value of the fold.
Passi(p, it, A, base, n, g) ==
  /\ p \in [0 .. n -> A] /\ p[0] = base /\ p[n] = it[1 .. n]
  /\ \A k \in 1 .. n : p[k] = g[<<p[k - 1], k>>]

\* A fold is defined: the function over the sets of indices that its
\* definition chooses exists.
LEMMA PiegaEsiste ==
  ASSUME NEW A, NEW base \in A, NEW n \in Nat, NEW g, g \in [A \X (1 .. n) -> A]
  PROVE  \E it \in [SUBSET (1 .. n) -> A] : Piega(it, A, base, n, g)
<1> DEFINE Vale(m) == \E it \in [SUBSET (1 .. m) -> A] : \A s \in SUBSET (1 .. m) :
                        it[s] = IF s = {} THEN base ELSE g[<<it[s \ {Max(s)}], Max(s)>>]
           B == {m \in 0 .. n : Vale(m)}
<1>1. Vale(0)
  <2> DEFINE it == [s \in SUBSET (1 .. 0) |-> base]
  <2>1. it \in [SUBSET (1 .. 0) -> A] /\ \A s \in SUBSET (1 .. 0) : s = {} /\ it[s] = base
    OBVIOUS
  <2> HIDE DEF it
  <2> QED
    BY <2>1
<1>2. ASSUME NEW m \in 0 .. n, m < n, Vale(m) PROVE Vale(m + 1)
  <2>1. PICK h \in [SUBSET (1 .. m) -> A] : \A s \in SUBSET (1 .. m) :
               h[s] = IF s = {} THEN base ELSE g[<<h[s \ {Max(s)}], Max(s)>>]
    BY <1>2
  <2> DEFINE it == [s \in SUBSET (1 .. (m + 1)) |->
                      IF m + 1 \in s THEN g[<<h[s \ {m + 1}], m + 1>>] ELSE h[s]]
  <2>2. \A s \in SUBSET (1 .. (m + 1)) : s \ {m + 1} \in SUBSET (1 .. m)
    BY <1>2
  <2>3. it \in [SUBSET (1 .. (m + 1)) -> A]
    <3>1. m + 1 \in 1 .. n
      BY <1>2
    <3>2. \A s \in SUBSET (1 .. (m + 1)) : m + 1 \notin s => s \in SUBSET (1 .. m)
      BY <1>2
    <3>3. \A s \in SUBSET (1 .. (m + 1)) : m + 1 \in s => g[<<h[s \ {m + 1}], m + 1>>] \in A
      BY <2>1, <2>2, <3>1
    <3> QED
      BY <2>1, <3>2, <3>3
  <2>4. ASSUME NEW s \in SUBSET (1 .. (m + 1))
        PROVE  it[s] = IF s = {} THEN base ELSE g[<<it[s \ {Max(s)}], Max(s)>>]
    <3>1. CASE m + 1 \in s
      <4>1. m + 1 \in Nat /\ s \subseteq 1 .. (m + 1)
        BY <1>2
      <4>2. Max(s) \in 1 .. (m + 1) /\ Max(s) >= m + 1
        BY <3>1, <4>1, MassimoDi
      <4>5. Max(s) = m + 1
        BY <4>1, <4>2
      <4>3. s \ {m + 1} \in SUBSET (1 .. (m + 1)) /\ m + 1 \notin s \ {m + 1}
        OBVIOUS
      <4>4. it[s \ {m + 1}] = h[s \ {m + 1}]
        BY <4>3
      <4> QED
        BY <3>1, <4>4, <4>5
    <3>2. CASE m + 1 \notin s
      <4>1. s \in SUBSET (1 .. m) /\ it[s] = h[s]
        BY <3>2, <1>2
      <4>2. s # {} => /\ s \ {Max(s)} \in SUBSET (1 .. (m + 1)) /\ m + 1 \notin s \ {Max(s)}
                      /\ it[s \ {Max(s)}] = h[s \ {Max(s)}]
        BY <3>2
      <4> HIDE DEF it
      <4> QED
        BY <2>1, <4>1, <4>2
    <3> QED
      BY <3>1, <3>2
  <2> HIDE DEF it
  <2> QED
    BY <2>3, <2>4
<1>3. \A k \in 1 .. n : k - 1 \in B => k \in B
  <2> HIDE DEF Vale
  <2> SUFFICES ASSUME NEW k \in 1 .. n, k - 1 \in B PROVE k \in B
    OBVIOUS
  <2>1. k - 1 \in 0 .. n /\ k - 1 < n /\ (k - 1) + 1 = k /\ Vale(k - 1)
    OBVIOUS
  <2>2. Vale((k - 1) + 1)
    BY <2>1, <1>2
  <2> QED
    BY <2>1, <2>2
<1> HIDE DEF Vale
<1>4. Vale(n)
  <2>1. 0 \in B
    BY <1>1
  <2> HIDE DEF B
  <2>2. n \in B
    BY <1>3, <2>1, Induzione
  <2> QED
    BY <2>2 DEF B
<1> QED
  BY <1>4 DEF Vale, Piega

\* Such a function goes through the prefixes step by step, and stays in A.
LEMMA PiegaPassi ==
  ASSUME NEW A, NEW base \in A, NEW n \in Nat, NEW g, g \in [A \X (1 .. n) -> A],
         NEW it, Piega(it, A, base, n, g)
  PROVE  \E p : Passi(p, it, A, base, n, g)
<1> DEFINE p == [k \in 0 .. n |-> it[1 .. k]]
           B == {k \in 0 .. n : p[k] \in A}
<1>1. p[0] = base
  <2>1. 1 .. 0 = {}
    OBVIOUS
  <2> QED
    BY <2>1 DEF Piega
<1>2. ASSUME NEW k \in 1 .. n, p[k - 1] \in A
      PROVE  p[k] = g[<<p[k - 1], k>>] /\ p[k] \in A
  <2>1. /\ 1 .. k \in SUBSET (1 .. n) /\ 1 .. k # {}
        /\ Max(1 .. k) = k /\ (1 .. k) \ {k} = 1 .. (k - 1)
    BY PrefissoDi
  <2>2. p[k - 1] = it[1 .. (k - 1)] /\ p[k] = it[1 .. k]
    OBVIOUS
  <2>3. p[k] = g[<<p[k - 1], k>>]
    <3> HIDE DEF p
    <3> QED
      BY <1>2, <2>1, <2>2 DEF Piega
  <2> QED
    BY <1>2, <2>3
<1>3. p[n] = it[1 .. n]
  OBVIOUS
<1> HIDE DEF p
<1>4. ASSUME NEW k \in 1 .. n, k - 1 \in B PROVE k \in B
  <2>1. p[k - 1] \in A /\ k \in 0 .. n
    BY <1>4
  <2>2. p[k] \in A
    BY <1>2, <2>1
  <2> QED
    BY <2>1, <2>2
<1>5. \A k \in 0 .. n : p[k] \in A
  <2>1. 0 \in B
    BY <1>1
  <2> HIDE DEF B
  <2>2. \A k \in 0 .. n : k \in B
    BY <1>4, <2>1, Induzione
  <2> QED
    BY <2>2 DEF B
<1>6. \A k \in 1 .. n : k - 1 \in 0 .. n
  OBVIOUS
<1>7. \A k \in 1 .. n : p[k] = g[<<p[k - 1], k>>]
  BY <1>2, <1>5, <1>6
<1>8. p \in [0 .. n -> A]
  BY <1>5 DEF p
<1> QED
  BY <1>1, <1>3, <1>7, <1>8 DEF Passi

-----------------------------------------------------------------------------
(* Sums over sets of indices.                                              *)

\* Induction over the subsets of 1 .. n, with a set for the predicate.
LEMMA InduzioneInsiemi ==
  ASSUME NEW n \in Nat, NEW B, {} \in B,
         \A s \in SUBSET (1 .. n) : s # {} /\ (\A x \in s : s \ {x} \in B) => s \in B
  PROVE  \A s \in SUBSET (1 .. n) : s \in B
<1> DEFINE S == {s \in SUBSET (1 .. n) : s \notin B}
           C == {Cardinality(s) : s \in S}
<1> SUFFICES ASSUME S # {} PROVE FALSE
  OBVIOUS
<1>1. \A s \in SUBSET (1 .. n) : IsFiniteSet(s) /\ Cardinality(s) \in Nat
  <2>1. IsFiniteSet(1 .. n)
    BY FS_Interval
  <2> QED
    BY <2>1, FS_Subset, FS_CardinalityType
<1>2. C \subseteq Nat /\ C # {}
  BY <1>1
<1>3. PICK c \in C : \A d \in C : c <= d
  <2> HIDE DEF C
  <2> QED
    BY <1>2, MinimoEsiste
<1>4. PICK s \in S : c = Cardinality(s)
  BY <1>3
<1>5. s # {}
  OBVIOUS
<1>6. ASSUME NEW x \in s PROVE s \ {x} \in B
  <2>1. Cardinality(s \ {x}) = Cardinality(s) - 1
    BY <1>1, FS_RemoveElement
  <2>2. s \ {x} \notin S
    <3> SUFFICES ASSUME s \ {x} \in S PROVE FALSE
      OBVIOUS
    <3>1. Cardinality(s \ {x}) \in C
      OBVIOUS
    <3>2. Cardinality(s) \in Nat /\ Cardinality(s) <= Cardinality(s \ {x})
      BY <3>1, <1>1, <1>3, <1>4
    <3> QED
      BY <2>1, <3>2
  <2> QED
    BY <2>2
<1> QED
  BY <1>5, <1>6

\* sigma sums f over every subset of 1 .. n.
Somme(sigma, f, n) ==
  /\ sigma \in [SUBSET (1 .. n) -> Int]
  /\ sigma[{}] = 0
  /\ \A s \in SUBSET (1 .. n) : \A x \in s : sigma[s] = f[x] + sigma[s \ {x}]

LEMMA SommeEsistono ==
  ASSUME NEW n \in Nat, NEW f, f \in [1 .. n -> Int]
  PROVE  \E sigma : Somme(sigma, f, n)
<1> DEFINE B == {k \in 0 .. n : \E sigma : Somme(sigma, f, k)}
<1>1. 0 \in B
  <2> DEFINE sigma == [s \in SUBSET (1 .. 0) |-> 0]
  <2>1. Somme(sigma, f, 0)
    BY DEF Somme
  <2> QED
    BY <2>1
<1>2. ASSUME NEW k \in 1 .. n, k - 1 \in B PROVE k \in B
  <2>1. PICK rho : Somme(rho, f, k - 1)
    BY <1>2
  <2> DEFINE sigma == [s \in SUBSET (1 .. k) |-> rho[s \ {k}] + (IF k \in s THEN f[k] ELSE 0)]
  <2>2. \A s \in SUBSET (1 .. k) : s \ {k} \in SUBSET (1 .. (k - 1))
    BY <1>2
  <2>3. \A s \in SUBSET (1 .. k) : rho[s \ {k}] \in Int /\ f[k] \in Int
    BY <2>1, <2>2 DEF Somme
  <2>4. sigma \in [SUBSET (1 .. k) -> Int]
    <3>1. ASSUME NEW s \in SUBSET (1 .. k)
          PROVE  rho[s \ {k}] + (IF k \in s THEN f[k] ELSE 0) \in Int
      <4>1. PICK r, d : r = rho[s \ {k}] /\ d = f[k] /\ r \in Int /\ d \in Int
        BY <2>3
      <4>2. r + (IF k \in s THEN d ELSE 0) \in Int
        BY <4>1
      <4> QED
        BY <4>1, <4>2
    <3> QED
      BY <3>1
  <2>5. sigma[{}] = 0
    <3>1. {} \in SUBSET (1 .. k) /\ {} \ {k} = {}
      OBVIOUS
    <3> QED
      BY <2>1, <3>1 DEF Somme
  <2>6. ASSUME NEW s \in SUBSET (1 .. k), NEW x \in s PROVE sigma[s] = f[x] + sigma[s \ {x}]
    <3>1. s \ {x} \in SUBSET (1 .. k) /\ f[x] \in Int
      BY <1>2
    <3>2. sigma[s] = rho[s \ {k}] + (IF k \in s THEN f[k] ELSE 0)
      OBVIOUS
    <3>3. sigma[s \ {x}] = rho[(s \ {x}) \ {k}] + (IF k \in s \ {x} THEN f[k] ELSE 0)
      BY <3>1
    <3> HIDE DEF sigma
    <3>4. CASE x = k
      <4>1. (s \ {x}) \ {k} = s \ {k} /\ k \notin s \ {x} /\ k \in s
        BY <3>4
      <4>2. sigma[s \ {x}] = rho[s \ {k}] + 0 /\ sigma[s] = rho[s \ {k}] + f[k]
        BY <3>2, <3>3, <4>1
      <4>3. rho[s \ {k}] \in Int /\ f[k] \in Int
        BY <2>3
      <4> QED
        BY <3>4, <4>2, <4>3
    <3>5. CASE x # k
      <4>1. (s \ {x}) \ {k} = (s \ {k}) \ {x} /\ (k \in s \ {x} <=> k \in s) /\ x \in s \ {k}
        BY <3>5
      <4>2. rho[s \ {k}] = f[x] + rho[(s \ {k}) \ {x}]
        BY <2>1, <2>2, <4>1 DEF Somme
      <4>3. rho[(s \ {k}) \ {x}] \in Int
        BY <2>3, <3>1, <4>1
      <4> DEFINE d == IF k \in s THEN f[k] ELSE 0
      <4>4. sigma[s] = rho[s \ {k}] + d /\ sigma[s \ {x}] = rho[(s \ {k}) \ {x}] + d
        BY <3>2, <3>3, <4>1
      <4>5. d \in Int
        BY <2>3
      <4> HIDE DEF d
      <4> QED
        BY <3>1, <4>2, <4>3, <4>4, <4>5
    <3> QED
      BY <3>4, <3>5
  <2> HIDE DEF sigma
  <2>7. Somme(sigma, f, k)
    BY <2>4, <2>5, <2>6 DEF Somme
  <2> QED
    BY <2>7
<1> HIDE DEF B
<1>3. \A k \in 0 .. n : k \in B
  BY <1>1, <1>2, Induzione
<1> QED
  BY <1>3 DEF B

\* The sum of the library takes the indices in some order: any gives this sum.
LEMMA SommaDi ==
  ASSUME NEW n \in Nat, NEW f, NEW sigma, Somme(sigma, f, n), NEW S \in SUBSET (1 .. n)
  PROVE  SumFunctionOnSet(f, S) = sigma[S]
<1> DEFINE D(h) == [s \in SUBSET S |->
                      IF s = {} THEN 0
                      ELSE f[CHOOSE x \in s : TRUE] + h[s \ {CHOOSE x \in s : TRUE}]]
           it == CHOOSE h : h = D(h)
           rho == [s \in SUBSET S |-> sigma[s]]
<1>1. rho = D(rho)
  <2> SUFFICES ASSUME NEW s \in SUBSET S, s # {}
               PROVE  rho[s] = f[CHOOSE x \in s : TRUE] + rho[s \ {CHOOSE x \in s : TRUE}]
    BY DEF Somme
  <2>1. PICK x : x = CHOOSE y \in s : TRUE
    OBVIOUS
  <2>2. x \in s
    BY <2>1
  <2>3. s \in SUBSET (1 .. n) /\ s \ {x} \in SUBSET S
    OBVIOUS
  <2>4. rho[s] = f[x] + rho[s \ {x}]
    BY <2>2, <2>3 DEF Somme
  <2> QED
    BY <2>1, <2>4
<1>2. it = D(it)
  <2> HIDE DEF D, rho
  <2> QED
    BY <1>1
<1>3. SumFunctionOnSet(f, S) = it[S]
  BY Zenon DEF SumFunctionOnSet, FoldFunctionOnSet, MapThenFoldSet
<1> HIDE DEF it, rho
<1> DEFINE B == {s \in SUBSET (1 .. n) : s \subseteq S => it[s] = sigma[s]}
<1>4. {} \in B
  BY <1>2 DEF Somme
<1>5. ASSUME NEW s \in SUBSET (1 .. n), s # {}, \A x \in s : s \ {x} \in B PROVE s \in B
  <2> SUFFICES ASSUME s \subseteq S PROVE it[s] = sigma[s]
    OBVIOUS
  <2>1. PICK x : x = CHOOSE y \in s : TRUE
    OBVIOUS
  <2>2. x \in s
    BY <2>1, <1>5
  <2>3. it[s] = f[x] + it[s \ {x}]
    BY <1>2, <1>5, <2>1
  <2>4. it[s \ {x}] = sigma[s \ {x}]
    BY <1>5, <2>2
  <2> QED
    BY <2>2, <2>3, <2>4 DEF Somme
<1> HIDE DEF B
<1>6. S \in B
  BY <1>4, <1>5, InduzioneInsiemi
<1> QED
  BY <1>3, <1>6 DEF B

LEMMA SommaIntera ==
  ASSUME NEW n \in Nat, NEW f, f \in [1 .. n -> Int], NEW S \in SUBSET (1 .. n)
  PROVE  /\ SumFunctionOnSet(f, S) \in Int
         /\ S = {} => SumFunctionOnSet(f, S) = 0
<1>1. PICK sigma : Somme(sigma, f, n)
  BY SommeEsistono
<1>2. SumFunctionOnSet(f, S) = sigma[S]
  BY <1>1, SommaDi
<1>3. sigma[S] \in Int /\ (S = {} => sigma[S] = 0)
  BY <1>1 DEF Somme
<1> QED
  BY <1>2, <1>3

\* Any term may be taken out of a sum.
Scomposta(f, n) == \A S \in SUBSET (1 .. n) : \A x \in S :
                     SumFunctionOnSet(f, S) = f[x] + SumFunctionOnSet(f, S \ {x})

LEMMA SommaTolto ==
  ASSUME NEW n \in Nat, NEW f, f \in [1 .. n -> Int]
  PROVE  Scomposta(f, n)
<1> SUFFICES ASSUME NEW S \in SUBSET (1 .. n), NEW x \in S
             PROVE  SumFunctionOnSet(f, S) = f[x] + SumFunctionOnSet(f, S \ {x})
  BY DEF Scomposta
<1>1. PICK sigma : Somme(sigma, f, n)
  BY SommeEsistono
<1>2. S \ {x} \in SUBSET (1 .. n)
  OBVIOUS
<1>3. SumFunctionOnSet(f, S) = sigma[S] /\ SumFunctionOnSet(f, S \ {x}) = sigma[S \ {x}]
  BY <1>1, <1>2, SommaDi
<1> QED
  BY <1>1, <1>3 DEF Somme

\* A sum is at most that of greater terms.
LEMMA SommaMonotona ==
  ASSUME NEW n \in Nat, NEW f, f \in [1 .. n -> Int], NEW h, h \in [1 .. n -> Int],
         NEW S \in SUBSET (1 .. n), \A x \in S : f[x] <= h[x]
  PROVE  SumFunctionOnSet(f, S) <= SumFunctionOnSet(h, S)
<1> DEFINE B == {s \in SUBSET (1 .. n) :
                   s \subseteq S => SumFunctionOnSet(f, s) <= SumFunctionOnSet(h, s)}
<1>4. Scomposta(f, n)
  BY SommaTolto
<1>5. Scomposta(h, n)
  BY SommaTolto
<1>1. {} \in B
  BY SommaIntera
<1>2. ASSUME NEW s \in SUBSET (1 .. n), s # {}, \A x \in s : s \ {x} \in B PROVE s \in B
  <2> SUFFICES ASSUME s \subseteq S PROVE SumFunctionOnSet(f, s) <= SumFunctionOnSet(h, s)
    OBVIOUS
  <2>1. PICK x \in s : TRUE
    BY <1>2
  <2>2. s \ {x} \in SUBSET (1 .. n) /\ f[x] <= h[x] /\ f[x] \in Int /\ h[x] \in Int
    BY <2>1
  <2>3. SumFunctionOnSet(f, s \ {x}) <= SumFunctionOnSet(h, s \ {x})
    BY <1>2, <2>1
  <2>4. SumFunctionOnSet(f, s) = f[x] + SumFunctionOnSet(f, s \ {x})
    BY <2>1, <1>4 DEF Scomposta
  <2>6. SumFunctionOnSet(h, s) = h[x] + SumFunctionOnSet(h, s \ {x})
    BY <2>1, <1>5 DEF Scomposta
  <2>5. SumFunctionOnSet(f, s \ {x}) \in Int /\ SumFunctionOnSet(h, s \ {x}) \in Int
    BY <2>2, SommaIntera
  <2> QED
    BY <2>2, <2>3, <2>4, <2>5, <2>6
<1> HIDE DEF B
<1>3. S \in B
  BY <1>1, <1>2, InduzioneInsiemi
<1> QED
  BY <1>3 DEF B

\* A sum without negative terms is not negative, and is at least each of them.
LEMMA SommaPositiva ==
  ASSUME NEW n \in Nat, NEW f, f \in [1 .. n -> Int], NEW S \in SUBSET (1 .. n),
         \A x \in S : f[x] >= 0
  PROVE  SumFunctionOnSet(f, S) >= 0
<1> DEFINE z == [x \in 1 .. n |-> 0]
           sigma == [s \in SUBSET (1 .. n) |-> 0]
<1>1. Somme(sigma, z, n)
  BY DEF Somme
<1>2. SumFunctionOnSet(z, S) = 0
  <2>1. sigma[S] = 0
    OBVIOUS
  <2>2. SumFunctionOnSet(z, S) = sigma[S]
    <3> HIDE DEF sigma, z
    <3> QED
      BY <1>1, SommaDi
  <2> QED
    BY <2>1, <2>2
<1>3. z \in [1 .. n -> Int] /\ \A x \in S : z[x] <= f[x]
  OBVIOUS
<1> HIDE DEF z, sigma
<1>4. SumFunctionOnSet(z, S) <= SumFunctionOnSet(f, S)
  BY <1>3, SommaMonotona
<1> QED
  BY <1>2, <1>4

LEMMA SommaTermine ==
  ASSUME NEW n \in Nat, NEW f, f \in [1 .. n -> Int], NEW S \in SUBSET (1 .. n),
         \A x \in S : f[x] >= 0, NEW k \in S
  PROVE  f[k] <= SumFunctionOnSet(f, S)
<1> DEFINE T == S \ {k}
<1>1. T \in SUBSET (1 .. n) /\ \A x \in T : f[x] >= 0
  OBVIOUS
<1>2. f[k] \in Int /\ SumFunctionOnSet(f, S) = f[k] + SumFunctionOnSet(f, T)
  <2>1. Scomposta(f, n)
    BY SommaTolto
  <2> QED
    BY <2>1 DEF Scomposta
<1> HIDE DEF T
<1>3. SumFunctionOnSet(f, T) >= 0 /\ SumFunctionOnSet(f, T) \in Int
  BY <1>1, SommaPositiva, SommaIntera
<1> QED
  BY <1>2, <1>3

\* A sum of sums.
Addizione(q, f, h, n) == \A S \in SUBSET (1 .. n) :
  SumFunctionOnSet(q, S) = SumFunctionOnSet(f, S) + SumFunctionOnSet(h, S)

LEMMA SommaSomme ==
  ASSUME NEW n \in Nat, NEW f, f \in [1 .. n -> Int], NEW h, h \in [1 .. n -> Int],
         NEW q, q \in [1 .. n -> Int], \A x \in 1 .. n : q[x] = f[x] + h[x]
  PROVE  Addizione(q, f, h, n)
<1> SUFFICES ASSUME NEW S \in SUBSET (1 .. n)
             PROVE  SumFunctionOnSet(q, S) = SumFunctionOnSet(f, S) + SumFunctionOnSet(h, S)
  BY DEF Addizione
<1> DEFINE B == {s \in SUBSET (1 .. n) :
                   SumFunctionOnSet(q, s) = SumFunctionOnSet(f, s) + SumFunctionOnSet(h, s)}
<1>2. Scomposta(f, n) /\ Scomposta(h, n) /\ Scomposta(q, n)
  BY SommaTolto
<1>3. {} \in B
  <2>1. {} \in SUBSET (1 .. n)
    OBVIOUS
  <2>2. SumFunctionOnSet(f, {}) = 0 /\ SumFunctionOnSet(h, {}) = 0 /\ SumFunctionOnSet(q, {}) = 0
    BY <2>1, SommaIntera
  <2> QED
    BY <2>1, <2>2
<1>4. ASSUME NEW s \in SUBSET (1 .. n), s # {}, \A x \in s : s \ {x} \in B PROVE s \in B
  <2>1. PICK x \in s : TRUE
    BY <1>4
  <2>2. q[x] = f[x] + h[x] /\ f[x] \in Int /\ h[x] \in Int /\ s \ {x} \in SUBSET (1 .. n)
    BY <2>1
  <2>3. SumFunctionOnSet(q, s \ {x}) = SumFunctionOnSet(f, s \ {x}) + SumFunctionOnSet(h, s \ {x})
    BY <1>4, <2>1
  <2>4. /\ SumFunctionOnSet(f, s \ {x}) \in Int /\ SumFunctionOnSet(h, s \ {x}) \in Int
    BY <2>2, SommaIntera
  <2>5. SumFunctionOnSet(f, s) = f[x] + SumFunctionOnSet(f, s \ {x})
    BY <1>2, <2>1 DEF Scomposta
  <2>6. SumFunctionOnSet(h, s) = h[x] + SumFunctionOnSet(h, s \ {x})
    BY <1>2, <2>1 DEF Scomposta
  <2>7. SumFunctionOnSet(q, s) = q[x] + SumFunctionOnSet(q, s \ {x})
    BY <1>2, <2>1 DEF Scomposta
  <2>8. SumFunctionOnSet(q, s) = SumFunctionOnSet(f, s) + SumFunctionOnSet(h, s)
    BY <2>2, <2>3, <2>4, <2>5, <2>6, <2>7
  <2> QED
    BY <2>8
<1> HIDE DEF B
<1>5. S \in B
  BY <1>3, <1>4, InduzioneInsiemi
<1> QED
  BY <1>5 DEF B

\* The sum over the first k indices, from the sum over the first k - 1.
APrefissi(f, n) == \A S \in SUBSET (1 .. n) : \A k \in 1 .. n :
  SumFunctionOnSet(f, S \cap (1 .. k)) =
    SumFunctionOnSet(f, S \cap (1 .. (k - 1))) + (IF k \in S THEN f[k] ELSE 0)

LEMMA SommaPrefisso ==
  ASSUME NEW n \in Nat, NEW f, f \in [1 .. n -> Int]
  PROVE  APrefissi(f, n)
<1> SUFFICES ASSUME NEW S \in SUBSET (1 .. n), NEW k \in 1 .. n
             PROVE  SumFunctionOnSet(f, S \cap (1 .. k)) =
                      SumFunctionOnSet(f, S \cap (1 .. (k - 1))) + (IF k \in S THEN f[k] ELSE 0)
  BY DEF APrefissi
<1>1. CASE k \in S
  <2>1. k \in S \cap (1 .. k) /\ (S \cap (1 .. k)) \ {k} = S \cap (1 .. (k - 1))
    BY <1>1
  <2>2. S \cap (1 .. k) \in SUBSET (1 .. n) /\ S \cap (1 .. (k - 1)) \in SUBSET (1 .. n)
    OBVIOUS
  <2>3. SumFunctionOnSet(f, S \cap (1 .. (k - 1))) \in Int /\ f[k] \in Int
    BY <2>2, SommaIntera
  <2>4. SumFunctionOnSet(f, S \cap (1 .. k)) = f[k] + SumFunctionOnSet(f, (S \cap (1 .. k)) \ {k})
    BY <2>1, <2>2, SommaTolto DEF Scomposta
  <2> DEFINE a == SumFunctionOnSet(f, S \cap (1 .. k))
             b == SumFunctionOnSet(f, S \cap (1 .. (k - 1)))
  <2>5. a = f[k] + b /\ b \in Int /\ f[k] \in Int
    BY <2>1, <2>3, <2>4
  <2> HIDE DEF a, b
  <2>6. a = b + (IF k \in S THEN f[k] ELSE 0)
    BY <1>1, <2>5
  <2> QED
    BY <2>6 DEF a, b
<1>2. CASE k \notin S
  <2>1. S \cap (1 .. k) = S \cap (1 .. (k - 1)) /\ S \cap (1 .. k) \in SUBSET (1 .. n)
    BY <1>2
  <2> DEFINE a == SumFunctionOnSet(f, S \cap (1 .. k))
             b == SumFunctionOnSet(f, S \cap (1 .. (k - 1)))
  <2>2. a \in Int /\ a = b
    BY <2>1, SommaIntera
  <2> HIDE DEF a, b
  <2>3. a = b + (IF k \in S THEN f[k] ELSE 0)
    BY <1>2, <2>2
  <2> QED
    BY <2>3 DEF a, b
<1> QED
  BY <1>1, <1>2

\* The passage over the rows of the table, step by step.
CicloAggiungiRiga(p, A, base, n, t) ==
  /\ p \in [0 .. n -> A] /\ p[0] = base /\ p[n] = FoldLeft(AggiungiRiga, base, t)
  /\ \A k \in 1 .. n : p[k] = AggiungiRiga(p[k - 1], t[k])

LEMMA PiegaAggiungi ==
  ASSUME NEW A, NEW base \in A, NEW n \in Nat, NEW t, DOMAIN t = 1 .. n,
         \A a \in A, k \in 1 .. n : AggiungiRiga(a, t[k]) \in A
  PROVE  \E p : CicloAggiungiRiga(p, A, base, n, t)
<1> DEFINE g == [x \in A \X (1 .. n) |-> AggiungiRiga(x[1], t[x[2]])]
           D(f) == [s \in SUBSET (1 .. n) |->
                      IF s = {} THEN base ELSE AggiungiRiga(f[s \ {Max(s)}], t[Max(s)])]
           it == CHOOSE f : f = D(f)
<1>1. \A a \in A, k \in 1 .. n : g[<<a, k>>] = AggiungiRiga(a, t[k])
  OBVIOUS
<1>2. g \in [A \X (1 .. n) -> A]
  OBVIOUS
<1> HIDE DEF g
<1>3. \A s \in SUBSET (1 .. n) : s # {} =>
        Max(s) \in 1 .. n /\ s \ {Max(s)} \in SUBSET (1 .. n)
  BY MassimoDi
<1>4. PICK h \in [SUBSET (1 .. n) -> A] : Piega(h, A, base, n, g)
  BY <1>2, PiegaEsiste
<1>5. h = D(h)
  BY <1>1, <1>3, <1>4 DEF Piega
<1>6. it = D(it)
  <2> HIDE DEF D
  <2> QED
    BY <1>5
<1>7. FoldLeft(AggiungiRiga, base, t) = it[1 .. n]
  BY Zenon DEF FoldLeft, MapThenFoldSet
<1> HIDE DEF it
<1>8. Piega(it, A, base, n, g)
  BY <1>1, <1>3, <1>6 DEF Piega
<1> HIDE DEF D
<1>9. PICK p : Passi(p, it, A, base, n, g)
  BY <1>2, <1>8, PiegaPassi
<1>10. ASSUME NEW k \in 1 .. n PROVE p[k] = AggiungiRiga(p[k - 1], t[k])
  <2>1. k - 1 \in 0 .. n
    OBVIOUS
  <2>2. p[k] = g[<<p[k - 1], k>>] /\ p[k - 1] \in A
    BY <1>9, <2>1 DEF Passi
  <2> QED
    BY <1>1, <2>2
<1> QED
  BY <1>7, <1>9, <1>10 DEF Passi, CicloAggiungiRiga

\* A passage of the bubble sort, step by step.
CicloScambia(p, A, base, n, t) ==
  /\ p \in [0 .. n -> A] /\ p[0] = base /\ p[n] = FoldLeft(Scambia, base, t)
  /\ \A k \in 1 .. n : p[k] = Scambia(p[k - 1], t[k])

LEMMA PiegaScambia ==
  ASSUME NEW A, NEW base \in A, NEW n \in Nat, NEW t, DOMAIN t = 1 .. n,
         \A a \in A, k \in 1 .. n : Scambia(a, t[k]) \in A
  PROVE  \E p : CicloScambia(p, A, base, n, t)
<1> DEFINE g == [x \in A \X (1 .. n) |-> Scambia(x[1], t[x[2]])]
           D(f) == [s \in SUBSET (1 .. n) |->
                      IF s = {} THEN base ELSE Scambia(f[s \ {Max(s)}], t[Max(s)])]
           it == CHOOSE f : f = D(f)
<1>1. \A a \in A, k \in 1 .. n : g[<<a, k>>] = Scambia(a, t[k])
  OBVIOUS
<1>2. g \in [A \X (1 .. n) -> A]
  OBVIOUS
<1> HIDE DEF g
<1>3. \A s \in SUBSET (1 .. n) : s # {} =>
        Max(s) \in 1 .. n /\ s \ {Max(s)} \in SUBSET (1 .. n)
  BY MassimoDi
<1>4. PICK h \in [SUBSET (1 .. n) -> A] : Piega(h, A, base, n, g)
  BY <1>2, PiegaEsiste
<1>5. h = D(h)
  BY <1>1, <1>3, <1>4 DEF Piega
<1>6. it = D(it)
  <2> HIDE DEF D
  <2> QED
    BY <1>5
<1>7. FoldLeft(Scambia, base, t) = it[1 .. n]
  BY Zenon DEF FoldLeft, MapThenFoldSet
<1> HIDE DEF it
<1>8. Piega(it, A, base, n, g)
  BY <1>1, <1>3, <1>6 DEF Piega
<1> HIDE DEF D
<1>9. PICK p : Passi(p, it, A, base, n, g)
  BY <1>2, <1>8, PiegaPassi
<1>10. ASSUME NEW k \in 1 .. n PROVE p[k] = Scambia(p[k - 1], t[k])
  <2>1. k - 1 \in 0 .. n
    OBVIOUS
  <2>2. p[k] = g[<<p[k - 1], k>>] /\ p[k - 1] \in A
    BY <1>9, <2>1 DEF Passi
  <2> QED
    BY <1>1, <2>2
<1> QED
  BY <1>7, <1>9, <1>10 DEF Passi, CicloScambia

\* The bubble sort, passage by passage.
CicloPassata(p, A, base, n, t) ==
  /\ p \in [0 .. n -> A] /\ p[0] = base /\ p[n] = FoldLeft(Passata, base, t)
  /\ \A k \in 1 .. n : p[k] = Passata(p[k - 1], t[k])

LEMMA PiegaPassata ==
  ASSUME NEW A, NEW base \in A, NEW n \in Nat, NEW t, DOMAIN t = 1 .. n,
         \A a \in A, k \in 1 .. n : Passata(a, t[k]) \in A
  PROVE  \E p : CicloPassata(p, A, base, n, t)
<1> DEFINE g == [x \in A \X (1 .. n) |-> Passata(x[1], t[x[2]])]
           D(f) == [s \in SUBSET (1 .. n) |->
                      IF s = {} THEN base ELSE Passata(f[s \ {Max(s)}], t[Max(s)])]
           it == CHOOSE f : f = D(f)
<1>1. \A a \in A, k \in 1 .. n : g[<<a, k>>] = Passata(a, t[k])
  OBVIOUS
<1>2. g \in [A \X (1 .. n) -> A]
  OBVIOUS
<1> HIDE DEF g
<1>3. \A s \in SUBSET (1 .. n) : s # {} =>
        Max(s) \in 1 .. n /\ s \ {Max(s)} \in SUBSET (1 .. n)
  BY MassimoDi
<1>4. PICK h \in [SUBSET (1 .. n) -> A] : Piega(h, A, base, n, g)
  BY <1>2, PiegaEsiste
<1>5. h = D(h)
  BY <1>1, <1>3, <1>4 DEF Piega
<1>6. it = D(it)
  <2> HIDE DEF D
  <2> QED
    BY <1>5
<1>7. FoldLeft(Passata, base, t) = it[1 .. n]
  BY Zenon DEF FoldLeft, MapThenFoldSet
<1> HIDE DEF it
<1>8. Piega(it, A, base, n, g)
  BY <1>1, <1>3, <1>6 DEF Piega
<1> HIDE DEF D
<1>9. PICK p : Passi(p, it, A, base, n, g)
  BY <1>2, <1>8, PiegaPassi
<1>10. ASSUME NEW k \in 1 .. n PROVE p[k] = Passata(p[k - 1], t[k])
  <2>1. k - 1 \in 0 .. n
    OBVIOUS
  <2>2. p[k] = g[<<p[k - 1], k>>] /\ p[k - 1] \in A
    BY <1>9, <2>1 DEF Passi
  <2> QED
    BY <1>1, <2>2
<1> QED
  BY <1>7, <1>9, <1>10 DEF Passi, CicloPassata

-----------------------------------------------------------------------------
(* The ranking: the passage over the rows.                                 *)

G == NUM_GIUDICI
NomiGiudici == {Righe[i].giudice : i \in 1 .. N} \cup {"L"}
Voci == [1 .. G -> [giudice : NomiGiudici, punti : Int]]
Tabellone == [voci : Voci, ind : Nat]

\* After the first k rows: every judge met has one entry, below ind, with the
\* votes of the judge's candidates met; the others still hold "L".
Lette(r, k) ==
  /\ r \in Tabellone
  /\ r.ind \in 1 .. k + 1
  /\ \A j \in 1 .. G : r.voci[j].giudice = "L" <=> j >= r.ind
  /\ \A i, j \in 1 .. G : r.voci[i].giudice = r.voci[j].giudice => i = j \/ i >= r.ind
  /\ \A i \in 1 .. k : Righe[i].giudice # "L" =>
       \E j \in 1 .. G : r.voci[j].giudice = Righe[i].giudice
  /\ \A j \in 1 .. G : j < r.ind =>
       r.voci[j].punti = SumFunctionOnSet(VotiCorrenti, Candidati(r.voci[j].giudice) \cap (1 .. k))

RigaLetta(k) == [giudice |-> Righe[k].giudice, voto |-> VotiCorrenti[k]]

LEMMA MassimoGiudici == G \in Nat /\ N <= G
BY XFactorAssumption DEF G

LEMMA AggiungiTipata ==
  ASSUME TypeOK, NEW r \in Tabellone, NEW k \in 1 .. N
  PROVE  AggiungiRiga(r, RigaLetta(k)) \in Tabellone
<1> DEFINE x == RigaLetta(k)
<1>1. x.giudice \in NomiGiudici /\ x.voto \in Int
  BY TabellaTipata, VotiTipati DEF RigaLetta, NomiGiudici
<1>2. r.voci \in Voci /\ r.ind \in Nat
  BY DEF Tabellone
<1> HIDE DEF x
<1>3. CASE \E j \in DOMAIN r.voci : r.voci[j].giudice = x.giudice
  <2> DEFINE v == [j \in DOMAIN r.voci |->
                     IF r.voci[j].giudice = x.giudice
                       THEN [r.voci[j] EXCEPT !.punti = @ + x.voto] ELSE r.voci[j]]
  <2>1. AggiungiRiga(r, x) = [r EXCEPT !.voci = v]
    BY <1>3, Zenon DEF AggiungiRiga
  <2>2. \A j \in 1 .. G : r.voci[j] \in [giudice : NomiGiudici, punti : Int]
    BY <1>2 DEF Voci
  <2>3. DOMAIN r.voci = 1 .. G
    BY <1>2 DEF Voci
  <2>4. \A j \in 1 .. G : [r.voci[j] EXCEPT !.punti = @ + x.voto] \in [giudice : NomiGiudici, punti : Int]
    BY <2>2, <1>1
  <2>5. v \in Voci
    BY <2>2, <2>3, <2>4 DEF Voci
  <2> HIDE DEF v
  <2> QED
    BY <2>1, <2>5, <1>2 DEF Tabellone, x
<1>4. CASE ~ \E j \in DOMAIN r.voci : r.voci[j].giudice = x.giudice
  <2> DEFINE y == [giudice |-> x.giudice, punti |-> x.voto]
             v == [r.voci EXCEPT ![r.ind] = y]
  <2>1. AggiungiRiga(r, x) = [voci |-> v, ind |-> r.ind + 1]
    BY <1>4 DEF AggiungiRiga
  <2>2. y \in [giudice : NomiGiudici, punti : Int]
    BY <1>1
  <2> HIDE DEF y
  <2>3. v \in Voci
    BY <1>2, <2>2 DEF Voci
  <2> HIDE DEF v
  <2>4. r.ind + 1 \in Nat
    BY <1>2
  <2> QED
    BY <2>1, <2>3, <2>4 DEF Tabellone, x
<1> QED
  BY <1>3, <1>4

\* The votes of a judge's candidates in the first k rows.
LEMMA CandidatiPrefisso ==
  ASSUME TypeOK, NEW k \in 1 .. N, NEW g
  PROVE  /\ SumFunctionOnSet(VotiCorrenti, Candidati(g) \cap (1 .. k)) =
              SumFunctionOnSet(VotiCorrenti, Candidati(g) \cap (1 .. (k - 1)))
                + (IF Righe[k].giudice = g THEN VotiCorrenti[k] ELSE 0)
         /\ SumFunctionOnSet(VotiCorrenti, Candidati(g) \cap (1 .. (k - 1))) \in Int
<1>1. Candidati(g) \in SUBSET (1 .. N) /\ (k \in Candidati(g) <=> Righe[k].giudice = g)
  BY DEF Candidati
<1>2. Candidati(g) \cap (1 .. (k - 1)) \in SUBSET (1 .. N)
  BY <1>1
<1>3. N \in Nat /\ VotiCorrenti \in [1 .. N -> Int]
  BY VotiTipati, TabellaTipata
<1>4. SumFunctionOnSet(VotiCorrenti, Candidati(g) \cap (1 .. (k - 1))) \in Int
  BY <1>2, <1>3, SommaIntera
<1>5. SumFunctionOnSet(VotiCorrenti, Candidati(g) \cap (1 .. k)) =
              SumFunctionOnSet(VotiCorrenti, Candidati(g) \cap (1 .. (k - 1)))
                + (IF k \in Candidati(g) THEN VotiCorrenti[k] ELSE 0)
  <2>1. PICK V, C : V = VotiCorrenti /\ C = Candidati(g)
    OBVIOUS
  <2>2. V \in [1 .. N -> Int] /\ C \in SUBSET (1 .. N) /\ N \in Nat
    BY <1>1, <1>3, <2>1
  <2>3. SumFunctionOnSet(V, C \cap (1 .. k)) =
          SumFunctionOnSet(V, C \cap (1 .. (k - 1))) + (IF k \in C THEN V[k] ELSE 0)
    <3>1. APrefissi(V, N)
      BY <2>2, SommaPrefisso
    <3> QED
      BY <2>2, <3>1 DEF APrefissi
  <2> QED
    BY <2>1, <2>3
<1> QED
  BY <1>1, <1>4, <1>5

LEMMA AggiungiVoce ==
  ASSUME TypeOK, NEW k \in 1 .. N, NEW r, Lette(r, k - 1)
  PROVE  Lette(AggiungiRiga(r, RigaLetta(k)), k)
<1> DEFINE x == RigaLetta(k)
           q == AggiungiRiga(r, x)
           a(g) == SumFunctionOnSet(VotiCorrenti, Candidati(g) \cap (1 .. (k - 1)))
           b(g) == SumFunctionOnSet(VotiCorrenti, Candidati(g) \cap (1 .. k))
<1> SUFFICES Lette(q, k)
  OBVIOUS
<1>1. x.giudice = Righe[k].giudice /\ x.giudice \in NomiGiudici /\ x.voto = VotiCorrenti[k] /\ x.voto \in Int
  BY TabellaTipata, VotiTipati DEF RigaLetta, NomiGiudici
<1>2. r \in Tabellone /\ r.voci \in Voci /\ r.ind \in Nat /\ DOMAIN r.voci = 1 .. G
  BY DEF Tabellone, Voci, Lette
<1>3. q \in Tabellone
  BY <1>2, AggiungiTipata
<1>4. \A g : a(g) \in Int /\ b(g) = a(g) + (IF x.giudice = g THEN x.voto ELSE 0)
  BY <1>1, CandidatiPrefisso
<1>5. /\ r.ind \in 1 .. (k - 1) + 1
      /\ \A j \in 1 .. G : r.voci[j].giudice = "L" <=> j >= r.ind
      /\ \A i, j \in 1 .. G : r.voci[i].giudice = r.voci[j].giudice => i = j \/ i >= r.ind
      /\ \A i \in 1 .. k - 1 : Righe[i].giudice # "L" =>
           \E j \in 1 .. G : r.voci[j].giudice = Righe[i].giudice
      /\ \A j \in 1 .. G : j < r.ind => r.voci[j].punti = a(r.voci[j].giudice)
  BY DEF Lette
<1>6. \A i \in 1 .. k : i = k \/ i \in 1 .. k - 1
  OBVIOUS
<1>7. \A j \in 1 .. G : r.voci[j] = [giudice |-> r.voci[j].giudice, punti |-> r.voci[j].punti]
                        /\ r.voci[j].punti \in Int
  BY <1>2 DEF Voci
<1>8. ASSUME /\ q.ind \in 1 .. k + 1
             /\ \A j \in 1 .. G : q.voci[j].giudice = "L" <=> j >= q.ind
             /\ \A i, j \in 1 .. G : q.voci[i].giudice = q.voci[j].giudice => i = j \/ i >= q.ind
             /\ \A i \in 1 .. k : Righe[i].giudice # "L" =>
                  \E j \in 1 .. G : q.voci[j].giudice = Righe[i].giudice
             /\ \A j \in 1 .. G : j < q.ind => q.voci[j].punti = b(q.voci[j].giudice)
      PROVE  Lette(q, k)
  BY <1>3, <1>8 DEF Lette
<1> HIDE DEF x
<1>9. CASE \E j \in 1 .. G : r.voci[j].giudice = x.giudice
  <2> DEFINE v == [j \in 1 .. G |->
                     IF r.voci[j].giudice = x.giudice
                       THEN [r.voci[j] EXCEPT !.punti = @ + x.voto] ELSE r.voci[j]]
  <2>1. q = [r EXCEPT !.voci = v]
    <3>1. q = [r EXCEPT !.voci = [j \in DOMAIN r.voci |->
                     IF r.voci[j].giudice = x.giudice
                       THEN [r.voci[j] EXCEPT !.punti = @ + x.voto] ELSE r.voci[j]]]
      BY <1>2, <1>9, Zenon DEF AggiungiRiga
    <3> QED
      BY <3>1, <1>2
  <2>2. \A j \in 1 .. G : /\ v[j].giudice = r.voci[j].giudice
                          /\ v[j].punti = r.voci[j].punti + (IF r.voci[j].giudice = x.giudice THEN x.voto ELSE 0)
    <3> SUFFICES ASSUME NEW j \in 1 .. G
                 PROVE  /\ v[j].giudice = r.voci[j].giudice
                        /\ v[j].punti = r.voci[j].punti + (IF r.voci[j].giudice = x.giudice THEN x.voto ELSE 0)
      OBVIOUS
    <3>1. v[j] = IF r.voci[j].giudice = x.giudice
                   THEN [r.voci[j] EXCEPT !.punti = @ + x.voto] ELSE r.voci[j]
      OBVIOUS
    <3>2. PICK y : y = r.voci[j]
      OBVIOUS
    <3>3. y = [giudice |-> y.giudice, punti |-> y.punti] /\ y.punti \in Int
      BY <1>7, <3>2
    <3>4. /\ [y EXCEPT !.punti = @ + x.voto].giudice = y.giudice
          /\ [y EXCEPT !.punti = @ + x.voto].punti = y.punti + x.voto
      BY <3>3
    <3> HIDE DEF v
    <3> QED
      BY <3>1, <3>2, <3>3, <3>4
  <2>3. q.voci = v /\ q.ind = r.ind
    <3> HIDE DEF v, q
    <3> QED
      BY <2>1, <1>2 DEF Tabellone
  <2> HIDE DEF v, q, a, b
  <2>4. \A j \in 1 .. G : j < q.ind => q.voci[j].punti = b(q.voci[j].giudice)
    BY <2>2, <2>3, <1>4, <1>5
  <2>5. \A i \in 1 .. k : Righe[i].giudice # "L" =>
                  \E j \in 1 .. G : q.voci[j].giudice = Righe[i].giudice
    BY <2>2, <2>3, <1>1, <1>5, <1>6, <1>9
  <2> QED
    BY <2>2, <2>3, <2>4, <2>5, <1>5, <1>8
<1>10. CASE ~ \E j \in 1 .. G : r.voci[j].giudice = x.giudice
  <2> DEFINE y == [giudice |-> x.giudice, punti |-> x.voto]
             v == [r.voci EXCEPT ![r.ind] = y]
  <2>1. q = [voci |-> v, ind |-> r.ind + 1]
    BY <1>2, <1>10 DEF AggiungiRiga
  <2>2. r.ind \in 1 .. G
    BY <1>5, TabellaTipata, MassimoGiudici
  <2>3. x.giudice # "L"
    BY <1>5, <1>10, <2>2
  <2>4. \A j \in 1 .. G : v[j] = IF j = r.ind THEN y ELSE r.voci[j]
    BY <1>2
  <2>5. y.giudice = x.giudice /\ y.punti = x.voto
    OBVIOUS
  <2>6. a(x.giudice) = 0
    <3>1. \A i \in 1 .. k - 1 : Righe[i].giudice # x.giudice
      BY <1>5, <1>10, <2>3
    <3>2. Candidati(x.giudice) \cap (1 .. (k - 1)) = {}
      BY <3>1 DEF Candidati
    <3>3. {} \in SUBSET (1 .. N)
      OBVIOUS
    <3> QED
      BY <3>2, <3>3, SommaIntera, VotiTipati, TabellaTipata
  <2>7. q.voci = v /\ q.ind = r.ind + 1
    BY <2>1
  <2> HIDE DEF v, q, a, b, y
  <2>8. \A j \in 1 .. G : j < q.ind => q.voci[j].punti = b(q.voci[j].giudice)
    <3> SUFFICES ASSUME NEW j \in 1 .. G, j < q.ind PROVE q.voci[j].punti = b(q.voci[j].giudice)
      OBVIOUS
    <3>1. CASE j = r.ind
      <4>1. b(x.giudice) = x.voto
        BY <1>1, <1>4, <2>6
      <4> QED
        BY <3>1, <4>1, <2>4, <2>5, <2>7
    <3>2. CASE j # r.ind
      <4>1. j < r.ind /\ q.voci[j] = r.voci[j] /\ r.voci[j].giudice # x.giudice
        BY <3>2, <1>2, <1>10, <2>4, <2>7
      <4>2. b(r.voci[j].giudice) = a(r.voci[j].giudice)
        BY <4>1, <1>4
      <4> QED
        BY <4>1, <4>2, <1>5
    <3> QED
      BY <3>1, <3>2
  <2>9. \A i \in 1 .. k : Righe[i].giudice # "L" =>
                  \E j \in 1 .. G : q.voci[j].giudice = Righe[i].giudice
    <3> SUFFICES ASSUME NEW i \in 1 .. k, Righe[i].giudice # "L"
                 PROVE  \E j \in 1 .. G : q.voci[j].giudice = Righe[i].giudice
      OBVIOUS
    <3>1. CASE i = k
      BY <3>1, <1>1, <2>2, <2>4, <2>5, <2>7
    <3>2. CASE i \in 1 .. k - 1
      <4>1. PICK j \in 1 .. G : r.voci[j].giudice = Righe[i].giudice
        BY <3>2, <1>5
      <4>2. j # r.ind
        BY <4>1, <1>5, <2>2, <1>2
      <4> QED
        BY <4>1, <4>2, <2>4, <2>7
    <3> QED
      BY <3>1, <3>2, <1>6
  <2>10. \A j \in 1 .. G : q.voci[j].giudice = "L" <=> j >= q.ind
    BY <1>2, <1>5, <2>3, <2>4, <2>5, <2>7
  <2>11. \A i, j \in 1 .. G : q.voci[i].giudice = q.voci[j].giudice => i = j \/ i >= q.ind
    BY <1>2, <1>5, <1>10, <2>3, <2>4, <2>5, <2>7
  <2>12. q.ind \in 1 .. k + 1
    BY <1>5, <2>7
  <2> QED
    BY <2>8, <2>9, <2>10, <2>11, <2>12, <1>8
<1> QED
  BY <1>9, <1>10

-----------------------------------------------------------------------------
(* The ranking: the bubble sort.                                           *)

\* The judge g has one entry, with x points.
VoceDi(v, g, x) == \E j \in 1 .. G : /\ v[j] = [giudice |-> g, punti |-> x]
                                     /\ \A i \in 1 .. G : v[i].giudice = g => i = j

\* The last i entries are in place; among the first m, none is above the next.
Coda(v, i)  == \A k \in 1 .. G : k > G - i => \A j \in 1 .. k - 1 : v[j].punti >= v[k].punti
Testa(v, m) == \A j \in 1 .. m : v[j].punti >= v[m + 1].punti

\* What a sort may do to the entries.
Riordina(v, w) == w \in Voci /\ \A g, x : VoceDi(v, g, x) => VoceDi(w, g, x)

LEMMA ScambiaVoci ==
  ASSUME NEW v \in Voci, NEW m \in 1 .. G, m + 1 <= G
  PROVE  /\ \A j \in 1 .. G : Scambia(v, m)[j] =
              IF v[m].punti < v[m + 1].punti /\ j = m THEN v[m + 1]
              ELSE IF v[m].punti < v[m + 1].punti /\ j = m + 1 THEN v[m] ELSE v[j]
         /\ Scambia(v, m) \in Voci
         /\ Riordina(v, Scambia(v, m))
<1> DEFINE w == Scambia(v, m)
<1>1. m + 1 \in 1 .. G /\ m # m + 1 /\ G \in Nat
  BY MassimoGiudici
<1>2. \A j \in 1 .. G : w[j] =
              IF v[m].punti < v[m + 1].punti /\ j = m THEN v[m + 1]
              ELSE IF v[m].punti < v[m + 1].punti /\ j = m + 1 THEN v[m] ELSE v[j]
  BY <1>1 DEF Scambia, Voci
<1>3. w \in Voci
  BY <1>1 DEF Scambia, Voci
<1> HIDE DEF w
<1>4. ASSUME NEW g, NEW x, VoceDi(v, g, x) PROVE VoceDi(w, g, x)
  <2>1. PICK j \in 1 .. G : /\ v[j] = [giudice |-> g, punti |-> x]
                            /\ \A i \in 1 .. G : v[i].giudice = g => i = j
    BY <1>4 DEF VoceDi
  <2>2. v[j].giudice = g
    BY <2>1
  <2>3. CASE v[m].punti < v[m + 1].punti
    <3>1. w[m] = v[m + 1] /\ w[m + 1] = v[m] /\ \A i \in 1 .. G : i # m /\ i # m + 1 => w[i] = v[i]
      BY <1>1, <1>2, <2>3
    <3>2. CASE j = m
      <4>1. w[m + 1] = [giudice |-> g, punti |-> x] /\ \A i \in 1 .. G : w[i].giudice = g => i = m + 1
        BY <1>1, <2>1, <3>1, <3>2
      <4> QED
        BY <1>1, <4>1 DEF VoceDi
    <3>3. CASE j = m + 1
      <4>1. w[m] = [giudice |-> g, punti |-> x] /\ \A i \in 1 .. G : w[i].giudice = g => i = m
        BY <1>1, <2>1, <3>1, <3>3
      <4> QED
        BY <1>1, <4>1 DEF VoceDi
    <3>4. CASE j # m /\ j # m + 1
      <4>1. w[j] = [giudice |-> g, punti |-> x] /\ \A i \in 1 .. G : w[i].giudice = g => i = j
        BY <1>1, <2>1, <3>1, <3>4
      <4> QED
        BY <1>1, <4>1 DEF VoceDi
    <3> QED
      BY <3>2, <3>3, <3>4
  <2>4. CASE ~ (v[m].punti < v[m + 1].punti)
    <3>1. \A i \in 1 .. G : w[i] = v[i]
      BY <1>2, <2>4
    <3> QED
      BY <2>1, <3>1 DEF VoceDi
  <2> QED
    BY <2>3, <2>4
<1>5. Riordina(v, w)
  BY <1>3, <1>4 DEF Riordina
<1> QED
  BY <1>2, <1>3, <1>5 DEF w

\* A step takes the smallest of the first entries one place further.
LEMMA ScambiaOrdine ==
  ASSUME NEW v \in Voci, NEW i \in Nat, NEW m \in 1 .. G - i - 1,
         Coda(v, i), Testa(v, m - 1)
  PROVE  Coda(Scambia(v, m), i) /\ Testa(Scambia(v, m), m)
<1> DEFINE w == Scambia(v, m)
<1> SUFFICES Coda(w, i) /\ Testa(w, m)
  OBVIOUS
<1>1. G \in Nat /\ m \in 1 .. G /\ m + 1 <= G /\ m + 1 \in 1 .. G /\ m + 1 <= G - i
  BY MassimoGiudici
<1>2. \A j \in 1 .. G : w[j] =
              IF v[m].punti < v[m + 1].punti /\ j = m THEN v[m + 1]
              ELSE IF v[m].punti < v[m + 1].punti /\ j = m + 1 THEN v[m] ELSE v[j]
  BY <1>1, ScambiaVoci
<1>3. \A j \in 1 .. G : v[j].punti \in Int
  BY DEF Voci
<1> HIDE DEF w
<1>4. Testa(w, m)
  <2> SUFFICES ASSUME NEW j \in 1 .. m PROVE w[j].punti >= w[m + 1].punti
    BY DEF Testa
  <2>1. j \in 1 .. G /\ (j = m \/ j \in 1 .. m - 1)
    BY <1>1
  <2>2. j # m => v[j].punti >= v[m].punti
    <3>1. (m - 1) + 1 = m
      OBVIOUS
    <3> QED
      BY <2>1, <3>1 DEF Testa
  <2>3. v[j].punti \in Int /\ v[m].punti \in Int /\ v[m + 1].punti \in Int /\ j # m + 1
    BY <1>1, <1>3, <2>1
  <2>4. CASE v[m].punti < v[m + 1].punti
    <3>1. w[m + 1] = v[m] /\ w[m] = v[m + 1] /\ (j # m => w[j] = v[j])
      BY <1>1, <1>2, <2>1, <2>3, <2>4
    <3> QED
      BY <2>2, <2>3, <2>4, <3>1
  <2>5. CASE ~ (v[m].punti < v[m + 1].punti)
    <3>1. w[m + 1] = v[m + 1] /\ w[j] = v[j]
      BY <1>1, <1>2, <2>1, <2>5
    <3> QED
      BY <2>2, <2>3, <2>5, <3>1
  <2> QED
    BY <2>4, <2>5
<1>5. Coda(w, i)
  <2> SUFFICES ASSUME NEW k \in 1 .. G, k > G - i, NEW j \in 1 .. k - 1
               PROVE  w[j].punti >= w[k].punti
    BY DEF Coda
  <2>1. \A l \in 1 .. k - 1 : v[l].punti >= v[k].punti
    BY DEF Coda
  <2>2. k # m /\ k # m + 1 /\ m \in 1 .. k - 1 /\ m + 1 \in 1 .. k - 1 /\ j \in 1 .. G
    BY <1>1
  <2>3. w[k] = v[k] /\ (w[j] = v[j] \/ w[j] = v[m] \/ w[j] = v[m + 1])
    BY <1>2, <2>2
  <2> QED
    BY <2>1, <2>2, <2>3
<1> QED
  BY <1>4, <1>5

LEMMA RiordinaTransitivo ==
  ASSUME NEW u, NEW v, NEW w, Riordina(u, v), Riordina(v, w)
  PROVE  Riordina(u, w)
BY DEF Riordina

\* A passage puts one more entry in place.
LEMMA PassataOrdine ==
  ASSUME NEW v \in Voci, NEW i \in 0 .. G - 2
  PROVE  /\ Passata(v, i) \in Voci
         /\ Coda(v, i) => Coda(Passata(v, i), i + 1) /\ Riordina(v, Passata(v, i))
<1> DEFINE n == G - i - 1
           t == [k \in 1 .. G - i - 1 |-> k]
<1>1. G \in Nat /\ n \in Nat /\ i \in Nat
  BY MassimoGiudici
<1>2. DOMAIN t = 1 .. n /\ \A k \in 1 .. n : t[k] = k
  OBVIOUS
<1>3. \A k \in 1 .. n : k \in 1 .. G /\ k + 1 <= G
  BY <1>1
<1>4. Passata(v, i) = FoldLeft(Scambia, v, t)
  BY DEF Passata, G
<1> HIDE DEF t
<1>5. \A a \in Voci, k \in 1 .. n : Scambia(a, t[k]) \in Voci
  BY <1>2, <1>3, ScambiaVoci
<1> HIDE DEF n
<1>12. PICK p : CicloScambia(p, Voci, v, n, t)
  BY <1>1, <1>2, <1>5, PiegaScambia
<1>6. /\ p \in [0 .. n -> Voci] /\ p[0] = v /\ p[n] = FoldLeft(Scambia, v, t)
      /\ \A k \in 1 .. n : p[k] = Scambia(p[k - 1], t[k])
  BY <1>12 DEF CicloScambia
<1>7. Passata(v, i) \in Voci /\ n \in 0 .. n
  BY <1>1, <1>4, <1>6
<1>8. ASSUME Coda(v, i)
      PROVE  Coda(Passata(v, i), i + 1) /\ Riordina(v, Passata(v, i))
  <2> DEFINE B == {m \in 0 .. n : Coda(p[m], i) /\ Testa(p[m], m) /\ Riordina(v, p[m])}
  <2>1. 0 \in B
    <3>1. Testa(p[0], 0) /\ Riordina(v, v)
      BY DEF Testa, Riordina
    <3> QED
      BY <1>1, <1>6, <1>8, <3>1
  <2>2. ASSUME NEW m \in 1 .. n, m - 1 \in B PROVE m \in B
    <3>1. p[m] = Scambia(p[m - 1], m) /\ p[m - 1] \in Voci /\ m \in 0 .. n
      BY <1>2, <1>6, <2>2
    <3>2. Coda(p[m - 1], i) /\ Testa(p[m - 1], m - 1) /\ Riordina(v, p[m - 1])
      BY <2>2
    <3>3. m \in 1 .. G - i - 1 /\ m \in 1 .. G /\ m + 1 <= G
      BY <1>3 DEF n
    <3>4. Riordina(p[m - 1], p[m])
      BY <3>1, <3>3, ScambiaVoci
    <3>5. Riordina(v, p[m])
      BY <3>2, <3>4, RiordinaTransitivo
    <3>6. Coda(p[m], i) /\ Testa(p[m], m)
      BY <1>1, <3>1, <3>2, <3>3, ScambiaOrdine
    <3> QED
      BY <3>1, <3>5, <3>6
  <2> HIDE DEF B
  <2>3. n \in B
    BY <1>1, <2>1, <2>2, Induzione
  <2>4. Coda(p[n], i) /\ Testa(p[n], n) /\ Riordina(v, p[n])
    BY <2>3 DEF B
  <2>5. Coda(p[n], i + 1)
    <3> SUFFICES ASSUME NEW k \in 1 .. G, k > G - (i + 1), NEW j \in 1 .. k - 1
                 PROVE  p[n][j].punti >= p[n][k].punti
      BY DEF Coda
    <3>1. k > G - i \/ (k = n + 1 /\ j \in 1 .. n)
      BY <1>1 DEF n
    <3> QED
      BY <2>4, <3>1 DEF Coda, Testa
  <2> QED
    BY <1>4, <1>6, <2>4, <2>5
<1> QED
  BY <1>7, <1>8

\* Ordina puts every entry in place and loses none.
LEMMA OrdinaOrdine ==
  ASSUME NEW v \in Voci
  PROVE  /\ Riordina(v, Ordina(v))
         /\ \A k \in 1 .. G : \A j \in 1 .. k - 1 : Ordina(v)[j].punti >= Ordina(v)[k].punti
<1> DEFINE n == IF G = 0 THEN 0 ELSE G - 1
           t == [i \in 1 .. G - 1 |-> i - 1]
<1>1. G \in Nat /\ n \in Nat
  BY MassimoGiudici
<1>2. DOMAIN t = 1 .. n /\ \A k \in 1 .. n : t[k] = k - 1 /\ t[k] \in 0 .. G - 2
  BY <1>1
<1>3. Ordina(v) = FoldLeft(Passata, v, t)
  BY DEF Ordina, G
<1>4. \A k \in 1 .. G : k > G - n => k \in 2 .. G
  BY <1>1
<1>9. \A k \in 1 .. G : k > G - n \/ 1 .. k - 1 = {}
  BY <1>1
<1> HIDE DEF t, n
<1>5. \A a \in Voci, k \in 1 .. n : Passata(a, t[k]) \in Voci
  BY <1>2, PassataOrdine
<1>12. PICK p : CicloPassata(p, Voci, v, n, t)
  BY <1>1, <1>2, <1>5, PiegaPassata
<1>6. /\ p \in [0 .. n -> Voci] /\ p[0] = v /\ p[n] = FoldLeft(Passata, v, t)
      /\ \A k \in 1 .. n : p[k] = Passata(p[k - 1], t[k])
  BY <1>12 DEF CicloPassata
<1> DEFINE B == {m \in 0 .. n : Coda(p[m], m) /\ Riordina(v, p[m])}
<1>7. 0 \in B
  <2>1. Riordina(v, v)
    BY DEF Riordina
  <2>2. Coda(v, 0)
    BY <1>1 DEF Coda
  <2> QED
    BY <1>1, <1>6, <2>1, <2>2
<1>8. ASSUME NEW m \in 1 .. n, m - 1 \in B PROVE m \in B
  <2>1. p[m] = Passata(p[m - 1], m - 1) /\ p[m - 1] \in Voci /\ m - 1 \in 0 .. G - 2 /\ m \in 0 .. n
    BY <1>2, <1>6, <1>8
  <2>2. Coda(p[m - 1], m - 1) /\ Riordina(v, p[m - 1])
    BY <1>8
  <2>3. Coda(p[m], (m - 1) + 1) /\ Riordina(p[m - 1], p[m])
    BY <2>1, <2>2, PassataOrdine
  <2>4. (m - 1) + 1 = m
    OBVIOUS
  <2>5. Riordina(v, p[m])
    BY <2>2, <2>3, RiordinaTransitivo
  <2> QED
    BY <2>1, <2>3, <2>4, <2>5
<1> HIDE DEF B
<1>10. n \in B
  BY <1>1, <1>7, <1>8, Induzione
<1>11. Coda(p[n], n) /\ Riordina(v, p[n])
  BY <1>10 DEF B
<1>13. \A k \in 1 .. G : \A j \in 1 .. k - 1 : p[n][j].punti >= p[n][k].punti
  BY <1>9, <1>11 DEF Coda
<1> QED
  BY <1>3, <1>6, <1>11, <1>13

LEMMA VoceVuotaTipata == VoceVuota \in [giudice : NomiGiudici, punti : Int] /\ VoceVuota.giudice = "L"
BY DEF VoceVuota, NomiGiudici

\* What classifica_giudici computes.
LEMMA ClassificaCalcolata ==
  ASSUME TypeOK
  PROVE  /\ classificaGiudici \in Voci
         /\ \A k \in 1 .. G : \A j \in 1 .. k - 1 :
              classificaGiudici[j].punti >= classificaGiudici[k].punti
         /\ \A g \in Giudici : VoceDi(classificaGiudici, g, Totale(g))
<1> DEFINE t == [i \in 1 .. N |-> [giudice |-> Righe[i].giudice, voto |-> VotiCorrenti[i]]]
           vuota == [voci |-> [k \in 1 .. NUM_GIUDICI |-> VoceVuota], ind |-> 1]
           r == FoldLeft(AggiungiRiga, vuota, t)
<1>1. classificaGiudici = Ordina(r.voci)
  BY DEF classificaGiudici
<1>2. DOMAIN t = 1 .. N /\ \A k \in 1 .. N : t[k] = RigaLetta(k)
  BY DEF RigaLetta
<1>3. Lette(vuota, 0)
  <2>1. VoceVuota \in [giudice : NomiGiudici, punti : Int] /\ VoceVuota.giudice = "L"
    BY VoceVuotaTipata
  <2>2. vuota \in Tabellone /\ vuota.ind = 1 /\ \A j \in 1 .. G : vuota.voci[j] = VoceVuota
    BY <2>1 DEF Tabellone, Voci, G
  <2> HIDE DEF vuota
  <2> QED
    BY <2>1, <2>2, MassimoGiudici DEF Lette
<1>4. vuota \in Tabellone
  BY <1>3 DEF Lette
<1> HIDE DEF t, vuota
<1>5. \A a \in Tabellone, k \in 1 .. N : AggiungiRiga(a, t[k]) \in Tabellone
  BY <1>2, AggiungiTipata
<1>6. PICK p : CicloAggiungiRiga(p, Tabellone, vuota, N, t)
  BY <1>2, <1>4, <1>5, PiegaAggiungi, TabellaTipata
<1>7. /\ p \in [0 .. N -> Tabellone] /\ p[0] = vuota /\ p[N] = r
      /\ \A k \in 1 .. N : p[k] = AggiungiRiga(p[k - 1], t[k])
  BY <1>6 DEF CicloAggiungiRiga
<1> DEFINE B == {k \in 0 .. N : Lette(p[k], k)}
<1>8. 0 \in B
  BY <1>3, <1>7, TabellaTipata
<1>9. ASSUME NEW k \in 1 .. N, k - 1 \in B PROVE k \in B
  <2>1. p[k] = AggiungiRiga(p[k - 1], RigaLetta(k)) /\ Lette(p[k - 1], k - 1) /\ k \in 0 .. N
    BY <1>2, <1>7, <1>9
  <2> QED
    BY <2>1, AggiungiVoce
<1> HIDE DEF B
<1>10. N \in B
  BY <1>8, <1>9, Induzione, TabellaTipata
<1>11. Lette(r, N)
  BY <1>7, <1>10 DEF B
<1> HIDE DEF r
<1>12. r.voci \in Voci
  BY <1>11 DEF Lette, Tabellone
<1>13. ASSUME NEW g \in Giudici PROVE VoceDi(r.voci, g, Totale(g))
  <2>1. PICK i \in 1 .. N : Righe[i].giudice = g /\ g # "L"
    BY DEF Giudici
  <2>2. PICK j \in 1 .. G : r.voci[j].giudice = g
    BY <1>11, <2>1 DEF Lette
  <2>3. j < r.ind
    <3>1. r.ind \in Nat /\ ~ (j >= r.ind)
      BY <1>11, <2>1, <2>2 DEF Lette
    <3> QED
      BY <3>1
  <2>4. Candidati(g) \cap (1 .. N) = Candidati(g)
    BY DEF Candidati
  <2>5. r.voci[j].punti = Totale(g)
    BY <1>11, <2>2, <2>3, <2>4 DEF Lette, Totale
  <2>6. r.voci[j] = [giudice |-> g, punti |-> Totale(g)]
    BY <1>12, <2>2, <2>5 DEF Voci
  <2>7. \A i1 \in 1 .. G : r.voci[i1].giudice = g => i1 = j
    <3> SUFFICES ASSUME NEW i1 \in 1 .. G, r.voci[i1].giudice = g PROVE i1 = j
      OBVIOUS
    <3>1. ~ (i1 >= r.ind)
      BY <1>11, <2>1 DEF Lette
    <3> QED
      BY <1>11, <2>2, <3>1 DEF Lette
  <2> QED
    BY <2>6, <2>7 DEF VoceDi
<1>14. /\ Riordina(r.voci, Ordina(r.voci))
       /\ \A k \in 1 .. G : \A j \in 1 .. k - 1 : Ordina(r.voci)[j].punti >= Ordina(r.voci)[k].punti
  BY <1>12, OrdinaOrdine
<1> QED
  BY <1>1, <1>13, <1>14 DEF Riordina

\* The ranking is in decreasing order and has each judge once, with the votes of
\* the judge's candidates, for every table and at every moment.
THEOREM ClassificaCorrettaSempre == Spec => []ClassificaCorretta
<1>1. TypeOK => ClassificaCorretta
  <2> SUFFICES ASSUME TypeOK PROVE ClassificaCorretta
    OBVIOUS
  <2> DEFINE v == classificaGiudici
  <2>1. /\ \A k \in 1 .. G : \A j \in 1 .. k - 1 : v[j].punti >= v[k].punti
        /\ \A g \in Giudici : VoceDi(v, g, Totale(g))
    BY ClassificaCalcolata
  <2> HIDE DEF v
  <2>2. \A k \in 1 .. NUM_GIUDICI - 1 : v[k].punti >= v[k + 1].punti
    <3> SUFFICES ASSUME NEW k \in 1 .. NUM_GIUDICI - 1 PROVE v[k].punti >= v[k + 1].punti
      OBVIOUS
    <3>1. k + 1 \in 1 .. G /\ k \in 1 .. (k + 1) - 1
      BY MassimoGiudici DEF G
    <3> QED
      BY <2>1, <3>1
  <2>3. ASSUME NEW g \in Giudici
        PROVE  /\ Cardinality({k \in 1 .. NUM_GIUDICI : v[k].giudice = g}) = 1
               /\ \E k \in 1 .. NUM_GIUDICI : v[k] = [giudice |-> g, punti |-> Totale(g)]
    <3>1. PICK j \in 1 .. NUM_GIUDICI : /\ v[j] = [giudice |-> g, punti |-> Totale(g)]
                                        /\ \A i \in 1 .. NUM_GIUDICI : v[i].giudice = g => i = j
      BY <2>1 DEF VoceDi, G
    <3>2. v[j].giudice = g
      BY <3>1
    <3>3. {k \in 1 .. NUM_GIUDICI : v[k].giudice = g} = {j}
      BY <3>1, <3>2
    <3>4. Cardinality({j}) = 1
      BY FS_Singleton
    <3> QED
      BY <3>1, <3>3, <3>4
  <2> QED
    BY <2>2, <2>3 DEF ClassificaCorretta, v
<1> QED
  BY <1>1, TypeOKInvariante, PTL

-----------------------------------------------------------------------------
(* The rankings shown.                                                     *)

\* The copies of a request, and those sent while its call waits, ask the same.
ChiamateInv ==
  /\ \A m \in spedite : fase[m.client] = "attesa" /\ m.xid = xid[m.client] => m.arg = arg[m.client]
  /\ \A m, n \in spedite : m.client = n.client /\ m.xid = n.xid => m.arg = n.arg

\* Executions that take votes away, from a row and from a judge's candidates.
Tolte == [i \in 1 .. N |-> Cardinality(Fatte("S", i))]
Tolti(g) == SumFunctionOnSet(Tolte, Candidati(g))

\* The rankings shown or on their way.
Letture == {e \in esiti \cup {Esito(r) : r \in risposte} : e.arg \in Classifica}

\* What is said of the rankings shown holds of those on their way too, with the
\* executions in the place of the datagrams, and what a judge's candidates have,
\* with what was taken from them, is never less than any ranking said.
LettureInv ==
  \A f \in Letture, g \in Giudici :
    /\ Punti(f, g) \in Int
    /\ Punti(f, g) <= Totale(g) + Tolti(g)
    /\ \A i \in Candidati(g) :
         Punti(f, g) + Tolti(g) >= Righe[i].voto + Cardinality(Confermati(f.chi[1], f.chi[2], i))
    /\ \A e \in esiti : e.arg \in Classifica /\ e.chi[1] = f.chi[1] /\ e.chi[2] < f.chi[2] =>
         Punti(f, g) + Tolti(g) >= Punti(e, g)

InvLetture == Inv /\ ChiamateInv /\ LettureInv

\* Judges, candidates and the points of a ranking are the same in any state.
LEMMA Costanti ==
  /\ Giudici' = Giudici
  /\ \A g : Candidati(g)' = Candidati(g)
  /\ \A f, g : Punti(f, g)' = Punti(f, g)
BY DEF Giudici, Candidati, Punti

LEMMA CandidatiDi ==
  ASSUME NEW g \in Giudici
  PROVE  /\ Candidati(g) \in SUBSET (1 .. N)
         /\ \A i \in Candidati(g) : i \in 1 .. N /\ Righe[i].candidato # "L"
<1>1. g # "L" /\ \A i \in Candidati(g) : i \in 1 .. N /\ Righe[i].giudice = g
  BY DEF Giudici, Candidati
<1> QED
  BY <1>1, XFactorAssumption

SommeIntere ==
  /\ Tolte \in [1 .. N -> Int]
  /\ \A i \in 1 .. N : Tolte[i] = Cardinality(Fatte("S", i)) /\ Tolte[i] >= 0
  /\ \A g : Totale(g) \in Int /\ Tolti(g) \in Int

LEMMA TolteTipate == Inv => SommeIntere
<1> SUFFICES ASSUME Inv PROVE SommeIntere
  OBVIOUS
<1>1. Tolte \in [1 .. N -> Int] /\ \A i \in 1 .. N : Tolte[i] = Cardinality(Fatte("S", i)) /\ Tolte[i] >= 0
  BY FatteFinite DEF Tolte
<1>2. VotiCorrenti \in [1 .. N -> Int] /\ N \in Nat
  BY VotiTipati, TabellaTipata DEF Inv
<1>3. \A g : Candidati(g) \in SUBSET (1 .. N)
  BY DEF Candidati
<1>4. \A g : Totale(g) \in Int
  BY <1>2, <1>3, SommaIntera DEF Totale
<1>5. \A g : Tolti(g) \in Int
  BY <1>1, <1>2, <1>3, SommaIntera DEF Tolti
<1> QED
  BY <1>1, <1>4, <1>5 DEF SommeIntere

\* Votes and votes taken away, counted together.
Lordi == [i \in 1 .. N |-> VotiCorrenti[i] + Tolte[i]]

SommeLorde ==
  /\ Lordi \in [1 .. N -> Int]
  /\ \A i \in 1 .. N : Lordi[i] = VotiCorrenti[i] + Cardinality(Fatte("S", i))
  /\ \A g : SumFunctionOnSet(Lordi, Candidati(g)) = Totale(g) + Tolti(g)

LEMMA LordiTotale == Inv => SommeLorde
<1> SUFFICES ASSUME Inv PROVE SommeLorde
  OBVIOUS
<1>1. Tolte \in [1 .. N -> Int] /\ \A i \in 1 .. N : Tolte[i] = Cardinality(Fatte("S", i))
  BY TolteTipate DEF SommeIntere
<1>2. VotiCorrenti \in [1 .. N -> Int] /\ N \in Nat
  BY VotiTipati, TabellaTipata DEF Inv
<1>3. Lordi \in [1 .. N -> Int] /\ \A i \in 1 .. N : Lordi[i] = VotiCorrenti[i] + Cardinality(Fatte("S", i))
  BY <1>1, <1>2 DEF Lordi
<1>4. \A g : SumFunctionOnSet(Lordi, Candidati(g)) = Totale(g) + Tolti(g)
  <2> SUFFICES ASSUME NEW g PROVE SumFunctionOnSet(Lordi, Candidati(g)) = Totale(g) + Tolti(g)
    OBVIOUS
  <2>1. PICK C, V, T, L : C = Candidati(g) /\ V = VotiCorrenti /\ T = Tolte /\ L = Lordi
    OBVIOUS
  <2>2. /\ C \in SUBSET (1 .. N) /\ V \in [1 .. N -> Int] /\ T \in [1 .. N -> Int]
        /\ L = [i \in 1 .. N |-> V[i] + T[i]]
    BY <1>1, <1>2, <2>1 DEF Candidati, Lordi
  <2>3. SumFunctionOnSet(L, C) = SumFunctionOnSet(V, C) + SumFunctionOnSet(T, C)
    <3>1. L \in [1 .. N -> Int] /\ \A i \in 1 .. N : L[i] = V[i] + T[i]
      BY <2>2
    <3>2. Addizione(L, V, T, N)
      BY <1>2, <2>2, <3>1, SommaSomme
    <3> QED
      BY <2>2, <3>2 DEF Addizione
  <2> QED
    BY <2>1, <2>3 DEF Totale, Tolti
<1> QED
  BY <1>3, <1>4 DEF SommeLorde

\* What a user was told by some of his calls was executed too.
LEMMA ConfermatiEseguiti ==
  ASSUME Inv, NEW c, NEW x, NEW i
  PROVE  /\ Cardinality(Confermati(c, x, i)) \in Nat
         /\ Cardinality(Confermati(c, x, i)) <= Cardinality(Fatte("A", i))
<1> DEFINE T == UNION {Confermati(b, MaxChiamate[b], i) : b \in Client}
<1>1. \A e \in Confermati(c, x, i) : e \in T
  <2> SUFFICES ASSUME NEW e \in Confermati(c, x, i) PROVE e \in T
    OBVIOUS
  <2>1. e \in esiti
    BY DEF Confermati
  <2>2. PICK m \in Eseguite : \E y : e = [chi |-> Autore(m), arg |-> m.arg, ris |-> y]
    BY <2>1 DEF Inv, RisposteInv
  <2>3. m \in spedite /\ e.chi[1] = m.client /\ e.chi[2] = m.xid
    BY <2>2 DEF Eseguite, Autore
  <2>4. m.client \in Client /\ m.xid \in Nat
    BY <2>3 DEF Inv, TypeOK, RichiestaRpc
  <2>5. m.xid <= MaxChiamate[m.client]
    <3>1. m.xid <= xid[m.client] /\ xid[m.client] \in 0 .. MaxChiamate[m.client]
      BY <2>3, <2>4 DEF Inv, TypeOK, DatagrammiInv
    <3>2. MaxChiamate[m.client] \in Nat
      BY <2>4, RpcAssumption
    <3> QED
      BY <2>4, <3>1, <3>2
  <2>6. e \in Confermati(m.client, MaxChiamate[m.client], i)
    BY <2>1, <2>3, <2>5 DEF Confermati
  <2> QED
    BY <2>4, <2>6
<1>2. /\ IsFiniteSet(T) /\ Cardinality(T) \in Nat
      /\ Cardinality(T) <= Cardinality(Fatte("A", i))
  BY ConfermatiFatti
<1>3. Cardinality(Fatte("A", i)) \in Nat
  BY FatteFinite
<1> HIDE DEF T
<1>4. Confermati(c, x, i) \in SUBSET T
  BY <1>1
<1>5. PICK S : S = Confermati(c, x, i)
  OBVIOUS
<1>6. Cardinality(S) <= Cardinality(T) /\ Cardinality(S) \in Nat
  BY <1>2, <1>4, <1>5, FS_Subset, FS_CardinalityType
<1> QED
  BY <1>2, <1>3, <1>5, <1>6

\* Votes only grow, but for those taken away.
LEMMA LettureCrescita ==
  ASSUME Inv, Inv', LettureInv, Letture' \subseteq Letture, esiti' = esiti,
         \A i \in 1 .. N : Righe[i].candidato # "L" =>
           /\ Tolte'[i] >= Tolte[i]
           /\ Lordi'[i] >= Lordi[i]
  PROVE  LettureInv'
<1>1. SommeIntere /\ SommeIntere'
  BY TolteTipate, PTL
<1>2. SommeLorde /\ SommeLorde'
  BY LordiTotale, PTL
<1>3. \A g \in Giudici : Tolti(g)' >= Tolti(g)
  <2> SUFFICES ASSUME NEW g \in Giudici PROVE Tolti(g)' >= Tolti(g)
    OBVIOUS
  <2>1. PICK C, S, T : C = Candidati(g) /\ S = Tolte /\ T = Tolte'
    OBVIOUS
  <2>2. Candidati(g)' = C
    BY <2>1, Costanti
  <2>3. S \in [1 .. N -> Int] /\ T \in [1 .. N -> Int]
    BY <1>1, <2>1 DEF SommeIntere
  <2>4. C \in SUBSET (1 .. N) /\ \A i \in C : S[i] <= T[i]
    <3>1. \A i \in 1 .. N : S[i] \in Int /\ T[i] \in Int
      BY <2>3
    <3> QED
      BY <2>1, <3>1, CandidatiDi
  <2>5. SumFunctionOnSet(S, C) <= SumFunctionOnSet(T, C)
    BY <2>3, <2>4, SommaMonotona, TabellaTipata
  <2>6. SumFunctionOnSet(S, C) \in Int /\ SumFunctionOnSet(T, C) \in Int
    BY <2>3, <2>4, SommaIntera, TabellaTipata
  <2>7. Tolti(g) = SumFunctionOnSet(S, C) /\ Tolti(g)' = SumFunctionOnSet(T, C)
    BY <2>1, <2>2 DEF Tolti
  <2> QED
    BY <2>5, <2>6, <2>7
<1>4. \A g \in Giudici : Totale(g)' + Tolti(g)' >= Totale(g) + Tolti(g)
  <2> SUFFICES ASSUME NEW g \in Giudici PROVE Totale(g)' + Tolti(g)' >= Totale(g) + Tolti(g)
    OBVIOUS
  <2>1. PICK C, S, T : C = Candidati(g) /\ S = Lordi /\ T = Lordi'
    OBVIOUS
  <2>2. Candidati(g)' = C
    BY <2>1, Costanti
  <2>3. S \in [1 .. N -> Int] /\ T \in [1 .. N -> Int]
    BY <1>2, <2>1 DEF SommeLorde
  <2>4. C \in SUBSET (1 .. N) /\ \A i \in C : S[i] <= T[i]
    <3>1. \A i \in 1 .. N : S[i] \in Int /\ T[i] \in Int
      BY <2>3
    <3> QED
      BY <2>1, <3>1, CandidatiDi
  <2>5. SumFunctionOnSet(S, C) <= SumFunctionOnSet(T, C)
    BY <2>3, <2>4, SommaMonotona, TabellaTipata
  <2>6. SumFunctionOnSet(S, C) \in Int /\ SumFunctionOnSet(T, C) \in Int
    BY <2>3, <2>4, SommaIntera, TabellaTipata
  <2>7. /\ Totale(g) + Tolti(g) = SumFunctionOnSet(S, C)
        /\ Totale(g)' + Tolti(g)' = SumFunctionOnSet(T, C)
    BY <1>2, <2>1, <2>2 DEF SommeLorde
  <2> QED
    BY <2>5, <2>6, <2>7
<1>5. \A c, x, i : Confermati(c, x, i)' = Confermati(c, x, i)
  BY DEF Confermati
<1>6. /\ Giudici' = Giudici /\ \A g : Candidati(g)' = Candidati(g)
      /\ \A f, g : Punti(f, g)' = Punti(f, g)
  BY Costanti
<1> SUFFICES ASSUME NEW f \in Letture', NEW g \in Giudici
             PROVE  /\ Punti(f, g) \in Int
                    /\ Punti(f, g) <= Totale(g)' + Tolti(g)'
                    /\ \A i \in Candidati(g) :
                         Punti(f, g) + Tolti(g)'
                           >= Righe[i].voto + Cardinality(Confermati(f.chi[1], f.chi[2], i))
                    /\ \A e \in esiti : e.arg \in Classifica /\ e.chi[1] = f.chi[1] /\ e.chi[2] < f.chi[2] =>
                         Punti(f, g) + Tolti(g)' >= Punti(e, g)
  BY <1>5, <1>6 DEF LettureInv, Classifica
<1>7. /\ f \in Letture /\ Punti(f, g) \in Int
      /\ Punti(f, g) <= Totale(g) + Tolti(g)
      /\ \A i \in Candidati(g) :
           Punti(f, g) + Tolti(g) >= Righe[i].voto + Cardinality(Confermati(f.chi[1], f.chi[2], i))
      /\ \A e \in esiti : e.arg \in Classifica /\ e.chi[1] = f.chi[1] /\ e.chi[2] < f.chi[2] =>
           Punti(f, g) + Tolti(g) >= Punti(e, g)
  BY DEF LettureInv
<1>8. /\ Tolti(g) \in Int /\ Tolti(g)' \in Int /\ Totale(g) \in Int /\ Totale(g)' \in Int
  BY <1>1 DEF SommeIntere
<1>9. \A i \in Candidati(g) : Righe[i].voto \in Int /\ Cardinality(Confermati(f.chi[1], f.chi[2], i)) \in Nat
  BY TabellaTipata, CandidatiDi, ConfermatiEseguiti
<1>10. \A e \in esiti : e.arg \in Classifica => Punti(e, g) \in Int
  BY DEF LettureInv, Letture
<1>11. PICK p, a, b : p = Punti(f, g) /\ a = Tolti(g) /\ b = Tolti(g)'
  OBVIOUS
<1>12. p \in Int /\ a \in Int /\ b \in Int /\ b >= a
  BY <1>3, <1>7, <1>8, <1>11
<1>13. \A z \in Int : p + a >= z => p + b >= z
  BY <1>12
<1>14. \A i \in Candidati(g) : Righe[i].voto + Cardinality(Confermati(f.chi[1], f.chi[2], i)) \in Int
  BY <1>9
<1>15. Punti(f, g) <= Totale(g)' + Tolti(g)'
  BY <1>4, <1>7, <1>8
<1> QED
  BY <1>7, <1>10, <1>11, <1>13, <1>14, <1>15

LEMMA VotoAvanti ==
  ASSUME Inv, Inv', NEW m \in richieste,
         esprimi_voto_aggiunge(m) \/ esprimi_voto_toglie(m) \/ esprimi_voto_rifiuta(m)
  PROVE  \A i \in 1 .. N : Righe[i].candidato # "L" =>
           /\ Tolte'[i] >= Tolte[i]
           /\ Lordi'[i] >= Lordi[i]
<1>1. SommeIntere /\ SommeIntere'
  BY TolteTipate, PTL
<1>2. SommeLorde /\ SommeLorde'
  BY LordiTotale, PTL
<1>3. Rispondi(m) /\ m.arg \in Voti
  BY DEF esprimi_voto_aggiunge, esprimi_voto_toglie, esprimi_voto_rifiuta
<1>4. Eseguite' = Eseguite \cup {m} /\ VotiCorrenti' = voto'
  BY <1>3, EsprimiVoto DEF Inv, TypeOK
<1>5. VotiCorrenti \in [1 .. N -> Int]
  BY VotiTipati DEF Inv
<1> SUFFICES ASSUME NEW i \in 1 .. N, Righe[i].candidato # "L"
             PROVE  Tolte'[i] >= Tolte[i] /\ Lordi'[i] >= Lordi[i]
  OBVIOUS
<1>6. /\ Tolte[i] = Cardinality(Fatte("S", i)) /\ Tolte'[i] = Cardinality(Fatte("S", i)')
      /\ Lordi[i] = VotiCorrenti[i] + Cardinality(Fatte("S", i))
      /\ Lordi'[i] = voto'[i] + Cardinality(Fatte("S", i)')
  BY <1>1, <1>2, <1>4 DEF SommeIntere, SommeLorde
<1>7. Cardinality(Fatte("S", i)') = Cardinality(Fatte("S", i))
                                      + (IF m.arg = Richiede("S", i) THEN 1 ELSE 0)
  BY <1>4, EsecuzioneConta
<1>8. Cardinality(Fatte("S", i)) \in Nat /\ VotiCorrenti[i] \in Int
  BY <1>5, FatteFinite
<1>9. voto'[i] \in Int /\ voto'[i] >= VotiCorrenti[i] - (IF m.arg = Richiede("S", i) THEN 1 ELSE 0)
  <2> DEFINE k == Riga(m.arg.nomeCandidato)
  <2>1. CASE esprimi_voto_aggiunge(m)
    <3>1. voto' = [VotiCorrenti EXCEPT ![k] = VotiCorrenti[k] + 1]
      BY <2>1 DEF esprimi_voto_aggiunge
    <3>2. voto'[i] = VotiCorrenti[i] \/ voto'[i] = VotiCorrenti[i] + 1
      BY <1>5, <3>1
    <3> QED
      BY <1>8, <3>2
  <2>2. CASE esprimi_voto_toglie(m)
    <3>1. /\ voto' = [VotiCorrenti EXCEPT ![k] = VotiCorrenti[k] - 1]
          /\ m.arg.tipoOp = "S" /\ Trovato(m.arg.nomeCandidato)
      BY <2>2 DEF esprimi_voto_toglie
    <3>2. Righe[k].candidato = m.arg.nomeCandidato
      BY <3>1, RigaTrovata
    <3>3. i = k => m.arg = Richiede("S", i)
      BY <1>3, <3>1, <3>2 DEF Richiede, Voti
    <3>4. voto'[i] = IF i = k THEN VotiCorrenti[i] - 1 ELSE VotiCorrenti[i]
      BY <1>5, <3>1
    <3> HIDE DEF k
    <3> QED
      BY <1>8, <3>3, <3>4
  <2>3. CASE esprimi_voto_rifiuta(m)
    <3>1. voto'[i] = VotiCorrenti[i]
      BY <2>3 DEF esprimi_voto_rifiuta
    <3> QED
      BY <1>8, <3>1
  <2> QED
    BY <2>1, <2>2, <2>3
<1> QED
  BY <1>6, <1>7, <1>8, <1>9

\* A vote is answered with no ranking.
LEMMA VotoLetture ==
  ASSUME InvLetture, Inv', NEW m \in richieste,
         esprimi_voto_aggiunge(m) \/ esprimi_voto_toglie(m) \/ esprimi_voto_rifiuta(m)
  PROVE  ChiamateInv' /\ LettureInv'
<1>1. m.arg \in Voti /\ svc_sendreply(m, [found |-> found']) /\ UNCHANGED <<spedite, esiti>>
  BY DEF esprimi_voto_aggiunge, esprimi_voto_toglie, esprimi_voto_rifiuta, Rispondi
<1>2. PICK q : q = [req |-> m, ris |-> [found |-> found']]
  OBVIOUS
<1>3. /\ risposte' = risposte \cup {q} /\ q.req = m
      /\ UNCHANGED <<fase, xid, arg, spedite, esiti>>
  BY <1>1, <1>2 DEF svc_sendreply
<1>4. ChiamateInv'
  BY <1>3 DEF InvLetture, ChiamateInv
<1>5. Esito(q).arg \notin Classifica
  BY <1>1, <1>3, ClassificaNonVoto DEF Esito
<1>6. Letture' \subseteq Letture
  BY <1>3, <1>5 DEF Letture, Esito, Autore, Classifica
<1>7. \A i \in 1 .. N : Righe[i].candidato # "L" =>
           /\ Tolte'[i] >= Tolte[i]
           /\ Lordi'[i] >= Lordi[i]
  BY VotoAvanti DEF InvLetture
<1>8. LettureInv'
  BY <1>3, <1>6, <1>7, LettureCrescita DEF InvLetture
<1> QED
  BY <1>4, <1>8

\* A step that executes nothing and shows nothing.
LEMMA LettureFerme ==
  ASSUME InvLetture, Inv', Eseguite' = Eseguite, UNCHANGED <<voto, inizializzato, esiti>>,
         risposte' \subseteq risposte
  PROVE  LettureInv'
<1>1. Letture' \subseteq Letture
  BY DEF Letture, Esito, Autore, Classifica
<1>2. Tolte' = Tolte /\ VotiCorrenti' = VotiCorrenti
  BY DEF Tolte, Fatte, Richiede, VotiCorrenti
<1>3. Lordi' = Lordi
  BY <1>2 DEF Lordi
<1>4. SommeIntere /\ SommeLorde
  BY TolteTipate, LordiTotale DEF InvLetture
<1>5. \A i \in 1 .. N : Tolte'[i] >= Tolte[i] /\ Lordi'[i] >= Lordi[i]
  <2>1. \A i \in 1 .. N : Tolte[i] \in Int /\ Lordi[i] \in Int
    BY <1>4 DEF SommeIntere, SommeLorde
  <2> QED
    BY <1>2, <1>3, <2>1
<1> QED
  BY <1>1, <1>5, LettureCrescita DEF InvLetture

LEMMA ChiamaLetture ==
  ASSUME InvLetture, Inv', NEW c \in Client, Chiama(c)
  PROVE  ChiamateInv' /\ LettureInv'
<1>1. PICK a \in Input : clnt_call(c, a)
  BY DEF Chiama
<1>2. PICK d : d = Richiesta(c, xid[c] + 1, 1, a)
  OBVIOUS
<1>3. /\ fase' = [fase EXCEPT ![c] = "attesa"]
      /\ xid' = [xid EXCEPT ![c] = xid[c] + 1]
      /\ arg' = [arg EXCEPT ![c] = a]
      /\ richieste' = richieste \cup {d}
      /\ UNCHANGED <<risposte, voto, inizializzato, esiti>>
      /\ spedite' = spedite \cup (richieste' \ richieste)
  BY <1>1, <1>2 DEF clnt_call, Chiama, Spedisce, serverVars
<1>4. d.client = c /\ d.xid = xid[c] + 1 /\ d.arg = a /\ xid[c] \in Nat
  BY <1>2 DEF Richiesta, InvLetture, Inv, DatagrammiInv
<1>5. \A m \in spedite : m.client \in Client /\ m.xid \in Nat /\ (m.client = c => m.xid <= xid[c])
  BY DEF InvLetture, Inv, TypeOK, DatagrammiInv, RichiestaRpc
<1>6. d \notin spedite
  BY <1>4, <1>5
<1>7. richieste \subseteq spedite
  BY DEF InvLetture, Inv, TypeOK
<1>8. spedite' = spedite \cup {d} /\ Eseguite' = Eseguite
  BY <1>3, <1>6, <1>7 DEF Eseguite
<1>9. ChiamateInv'
  <2>1. ASSUME NEW m \in spedite', fase'[m.client] = "attesa", m.xid = xid'[m.client]
        PROVE  m.arg = arg'[m.client]
    <3>1. fase \in [Client -> {"menu", "attesa", "fine"}] /\ xid \in [Client -> Nat]
          /\ arg \in [Client -> Input \cup {Nessuno}]
      BY DEF InvLetture, Inv, TypeOK, DatagrammiInv
    <3>2. CASE m = d
      BY <3>1, <3>2, <1>3, <1>4
    <3>3. CASE m \in spedite
      <4>1. m.client # c
        BY <3>1, <3>3, <1>3, <1>4, <1>5, <2>1
      <4> QED
        BY <3>1, <3>3, <4>1, <1>3, <1>5, <2>1 DEF InvLetture, ChiamateInv
    <3> QED
      BY <3>2, <3>3, <1>8
  <2>2. ASSUME NEW m \in spedite', NEW n \in spedite', m.client = n.client, m.xid = n.xid
        PROVE  m.arg = n.arg
    <3>1. \A s \in spedite : ~ (s.client = d.client /\ s.xid = d.xid)
      BY <1>4, <1>5
    <3> QED
      BY <3>1, <1>8, <2>2 DEF InvLetture, ChiamateInv
  <2> QED
    BY <2>1, <2>2 DEF ChiamateInv
<1> QED
  BY <1>3, <1>8, <1>9, LettureFerme

LEMMA AttesaLetture ==
  ASSUME InvLetture, Inv', NEW c \in Client, Attesa(c)
  PROVE  ChiamateInv' /\ LettureInv'
<1>1. /\ UNCHANGED <<risposte, voto, inizializzato, esiti, xid, arg>>
      /\ spedite' = spedite \cup (richieste' \ richieste)
  BY DEF Attesa, Ritrasmetti, Scaduto, serverVars, Spedisce
<1>2. fase \in [Client -> {"menu", "attesa", "fine"}]
  BY DEF InvLetture, Inv, TypeOK
<1>3. CASE Ritrasmetti(c)
  <2>1. PICK d : d = Richiesta(c, xid[c], copie[c] + 1, arg[c])
    OBVIOUS
  <2>2. /\ d.client = c /\ d.xid = xid[c] /\ d.arg = arg[c] /\ d.copia = copie[c] + 1
        /\ fase[c] = "attesa" /\ fase' = fase /\ richieste' = richieste \cup {d}
    BY <1>3, <2>1 DEF Ritrasmetti, Richiesta
  <2>3. d \notin spedite
    BY <2>2 DEF InvLetture, Inv, TypeOK, DatagrammiInv
  <2>4. richieste \subseteq spedite
    BY DEF InvLetture, Inv, TypeOK
  <2>5. spedite' = spedite \cup {d} /\ Eseguite' = Eseguite
    BY <1>1, <2>2, <2>3, <2>4 DEF Eseguite
  <2>6. ChiamateInv'
    BY <1>1, <2>2, <2>5 DEF InvLetture, ChiamateInv
  <2> QED
    BY <1>1, <2>5, <2>6, LettureFerme
<1>4. CASE Scaduto(c)
  <2>1. fase' = [fase EXCEPT ![c] = "fine"] /\ richieste' = richieste /\ spedite' = spedite
    BY <1>1, <1>4 DEF Scaduto
  <2>2. Eseguite' = Eseguite
    BY <2>1 DEF Eseguite
  <2>3. \A m \in spedite : m.client \in Client
    BY DEF InvLetture, Inv, TypeOK, RichiestaRpc
  <2>4. ChiamateInv'
    BY <1>1, <1>2, <2>1, <2>3 DEF InvLetture, ChiamateInv
  <2> QED
    BY <1>1, <2>2, <2>4, LettureFerme
<1> QED
  BY <1>3, <1>4 DEF Attesa

LEMMA EsciLetture ==
  ASSUME InvLetture, Inv', NEW c \in Client, Esci(c)
  PROVE  ChiamateInv' /\ LettureInv'
<1>1. /\ fase' = [fase EXCEPT ![c] = "fine"]
      /\ UNCHANGED <<xid, arg, richieste, risposte, spedite, esiti, voto, inizializzato>>
  BY DEF Esci, clnt_destroy, serverVars
<1>2. /\ fase \in [Client -> {"menu", "attesa", "fine"}] /\ Eseguite' = Eseguite
      /\ \A m \in spedite : m.client \in Client
  BY <1>1 DEF InvLetture, Inv, TypeOK, RichiestaRpc, Eseguite
<1>3. ChiamateInv'
  BY <1>1, <1>2 DEF InvLetture, ChiamateInv
<1> QED
  BY <1>1, <1>2, <1>3, LettureFerme

\* A ranking comes from an execution, and bears its call.
LEMMA LetturaChiamata ==
  ASSUME Inv, NEW f \in Letture
  PROVE  \E m \in Eseguite : f.chi = Autore(m) /\ f.arg = m.arg
<1>1. CASE f \in esiti
  BY <1>1 DEF Inv, RisposteInv
<1>2. CASE f \in {Esito(r) : r \in risposte}
  BY <1>2 DEF Inv, RisposteInv, Esito
<1> QED
  BY <1>1, <1>2 DEF Letture

\* What is read is of the last call: no ranking has seen a later one.
LEMMA LeggiLetture ==
  ASSUME InvLetture, Inv', NEW c \in Client, Leggi(c)
  PROVE  ChiamateInv' /\ LettureInv'
<1>1. PICK r \in risposte : Restituisci(c, r) /\ esiti' = esiti \cup {Esito(r)}
  BY DEF Leggi
<1>2. /\ fase' = [fase EXCEPT ![c] = "menu"] /\ risposte' \subseteq risposte
      /\ r.req.client = c /\ r.req.xid = xid[c]
      /\ UNCHANGED <<xid, arg, richieste, spedite, voto, inizializzato>>
  BY <1>1 DEF Leggi, Restituisci, serverVars
<1>3. PICK n, e : n = r.req /\ e = Esito(r)
  OBVIOUS
<1>4. /\ n \in spedite /\ n.client = c /\ n.xid = xid[c]
      /\ e.chi[1] = c /\ e.chi[2] = xid[c] /\ e.arg = n.arg
      /\ esiti' = esiti \cup {e}
  BY <1>1, <1>2, <1>3 DEF InvLetture, Inv, TypeOK, Esito, Autore
<1>5. ChiamateInv'
  <2>1. /\ fase \in [Client -> {"menu", "attesa", "fine"}]
        /\ \A m \in spedite : m.client \in Client
    BY DEF InvLetture, Inv, TypeOK, RichiestaRpc
  <2> QED
    BY <1>2, <2>1 DEF InvLetture, ChiamateInv
<1>6. Letture' \subseteq Letture
  BY <1>2, <1>3, <1>4 DEF Letture, Esito, Autore, Classifica
<1>7. /\ Eseguite' = Eseguite /\ Tolte' = Tolte /\ VotiCorrenti' = VotiCorrenti
  BY <1>2 DEF Eseguite, Tolte, Fatte, Richiede, VotiCorrenti
<1>8. /\ Giudici' = Giudici /\ \A g : Candidati(g)' = Candidati(g)
      /\ \A f, g : Punti(f, g)' = Punti(f, g)
  BY Costanti
<1>9. \A g : Totale(g)' = Totale(g) /\ Tolti(g)' = Tolti(g)
  BY <1>7, <1>8 DEF Totale, Tolti
<1>10. ASSUME NEW f \in Letture
       PROVE  f.chi[1] = c => f.chi[2] <= xid[c] /\ (f.chi[2] = xid[c] => f.arg = e.arg)
  <2>1. PICK m \in Eseguite : f.chi = Autore(m) /\ f.arg = m.arg
    BY LetturaChiamata DEF InvLetture
  <2>2. m \in spedite /\ f.chi[1] = m.client /\ f.chi[2] = m.xid
    BY <2>1 DEF Eseguite, Autore
  <2>3. m.xid <= xid[m.client] /\ (m.client = n.client /\ m.xid = n.xid => m.arg = n.arg)
    BY <1>4, <2>2 DEF InvLetture, Inv, DatagrammiInv, ChiamateInv
  <2> QED
    BY <1>4, <2>1, <2>2, <2>3
<1>11. \A f \in Letture : f.chi[2] \in Nat
  <2> SUFFICES ASSUME NEW f \in Letture PROVE f.chi[2] \in Nat
    OBVIOUS
  <2>1. PICK m \in Eseguite : f.chi = Autore(m)
    BY LetturaChiamata DEF InvLetture
  <2>2. m \in spedite /\ f.chi[2] = m.xid
    BY <2>1 DEF Eseguite, Autore
  <2> QED
    BY <2>2 DEF InvLetture, Inv, TypeOK, RichiestaRpc
<1>12. xid[c] \in Nat
  BY DEF InvLetture, Inv, DatagrammiInv
<1>13. ASSUME NEW f \in Letture, NEW i
       PROVE  Confermati(f.chi[1], f.chi[2], i)' = Confermati(f.chi[1], f.chi[2], i)
  <2>1. ~ (e.chi[1] = f.chi[1] /\ e.chi[2] <= f.chi[2] /\ e.arg = Richiede("A", i))
    <3>1. SUFFICES ASSUME e.chi[1] = f.chi[1], e.chi[2] <= f.chi[2], e.arg = Richiede("A", i)
                   PROVE  FALSE
      OBVIOUS
    <3>2. f.chi[2] = xid[c]
      BY <1>4, <1>10, <1>11, <1>12, <3>1
    <3>3. f.arg = Richiede("A", i)
      BY <1>4, <1>10, <3>1, <3>2
    <3>4. f.arg \in Classifica
      BY DEF Letture
    <3> QED
      BY <3>3, <3>4, ClassificaNonVoto
  <2> QED
    BY <1>4, <2>1 DEF Confermati, Richiede
<1>14. LettureInv'
  <2> SUFFICES ASSUME NEW f \in Letture, NEW g \in Giudici
               PROVE  /\ Punti(f, g) \in Int
                      /\ Punti(f, g) <= Totale(g) + Tolti(g)
                      /\ \A i \in Candidati(g) :
                           Punti(f, g) + Tolti(g)
                             >= Righe[i].voto + Cardinality(Confermati(f.chi[1], f.chi[2], i))
                      /\ \A d \in esiti' : d.arg \in Classifica /\ d.chi[1] = f.chi[1] /\ d.chi[2] < f.chi[2] =>
                           Punti(f, g) + Tolti(g) >= Punti(d, g)
    <3>1. \A f \in Letture' : \A i : Confermati(f.chi[1], f.chi[2], i)' = Confermati(f.chi[1], f.chi[2], i)
      BY <1>6, <1>13
    <3> QED
      BY <3>1, <1>6, <1>8, <1>9 DEF LettureInv, Classifica
  <2>1. ~ (e.chi[1] = f.chi[1] /\ e.chi[2] < f.chi[2])
    BY <1>4, <1>10, <1>11, <1>12
  <2> QED
    BY <1>4, <2>1 DEF InvLetture, LettureInv
<1> QED
  BY <1>5, <1>14

\* A ranking has what was confirmed before it, and what any ranking had.
LEMMA ClassificaLetture ==
  ASSUME InvLetture, Inv', NEW m \in richieste, classifica_giudici(m)
  PROVE  ChiamateInv' /\ LettureInv'
<1>1. PICK q : q = [req |-> m, ris |-> [classifica |-> classificaGiudici]]
  OBVIOUS
<1>2. /\ risposte' = risposte \cup {q} /\ q.req = m /\ q.ris.classifica = classificaGiudici
      /\ m.arg \in Classifica /\ voto' = VotiCorrenti /\ inizializzato' = TRUE
      /\ UNCHANGED <<fase, xid, arg, spedite, esiti>>
  BY <1>1 DEF classifica_giudici, svc_sendreply
<1>3. richieste' = richieste \ {m}
  BY DEF classifica_giudici, svc_sendreply
<1>4. ChiamateInv'
  BY <1>2 DEF InvLetture, ChiamateInv
<1>5. PICK n : n = Esito(q)
  OBVIOUS
<1>6. n.chi = Autore(m) /\ n.arg = m.arg /\ n.ris.classifica = classificaGiudici
  BY <1>2, <1>5 DEF Esito
<1>7. Letture' \subseteq Letture \cup {n}
  BY <1>2, <1>5 DEF Letture, Esito, Autore, Classifica
<1>8. /\ VotiCorrenti' = VotiCorrenti /\ Eseguite' = Eseguite \cup {m}
  BY <1>2, <1>3 DEF VotiCorrenti, Eseguite, InvLetture, Inv, TypeOK
<1>9. Tolte' = Tolte
  <2>1. \A i : Fatte("S", i)' = Fatte("S", i)
    BY <1>2, <1>8, ClassificaNonVoto DEF Fatte, Richiede
  <2> QED
    BY <2>1 DEF Tolte
<1>10. /\ Giudici' = Giudici /\ \A g : Candidati(g)' = Candidati(g)
       /\ \A f, g : Punti(f, g)' = Punti(f, g)
  BY Costanti
<1>11. \A g : Totale(g)' = Totale(g) /\ Tolti(g)' = Tolti(g)
  BY <1>8, <1>9, <1>10 DEF Totale, Tolti
<1>12. \A c, x, i : Confermati(c, x, i)' = Confermati(c, x, i)
  BY <1>2 DEF Confermati
<1>13. SommeIntere /\ SommeLorde
  BY TolteTipate, LordiTotale DEF InvLetture
<1>14. ASSUME NEW g \in Giudici
       PROVE  /\ Punti(n, g) = Totale(g) /\ Totale(g) \in Int /\ Tolti(g) \in Int
              /\ Totale(g) <= Totale(g) + Tolti(g)
              /\ \A i \in Candidati(g) :
                   Totale(g) + Tolti(g) >= Righe[i].voto + Cardinality(Fatte("A", i))
  <2>1. Totale(g) \in Int /\ Tolti(g) \in Int
    BY <1>13 DEF SommeIntere
  <2>2. VoceDi(classificaGiudici, g, Totale(g))
    BY ClassificaCalcolata DEF InvLetture, Inv
  <2>3. Punti(n, g) = Totale(g)
    <3>1. PICK j \in 1 .. NUM_GIUDICI :
                 /\ n.ris.classifica[j] = [giudice |-> g, punti |-> Totale(g)]
                 /\ \A i \in 1 .. NUM_GIUDICI : n.ris.classifica[i].giudice = g => i = j
      BY <1>6, <2>2 DEF VoceDi, G
    <3>2. n.ris.classifica[j].giudice = g /\ n.ris.classifica[j].punti = Totale(g)
      BY <3>1
    <3> DEFINE k == CHOOSE k \in 1 .. NUM_GIUDICI : n.ris.classifica[k].giudice = g
    <3>3. k = j
      BY <3>1, <3>2
    <3>4. Punti(n, g) = n.ris.classifica[k].punti
      BY DEF Punti
    <3> QED
      BY <3>2, <3>3, <3>4
  <2>4. PICK C, T, L : C = Candidati(g) /\ T = Tolte /\ L = Lordi
    OBVIOUS
  <2>5. /\ C \in SUBSET (1 .. N) /\ T \in [1 .. N -> Int] /\ L \in [1 .. N -> Int] /\ N \in Nat
        /\ \A i \in C : T[i] >= 0
    BY <1>13, <2>4, TabellaTipata, CandidatiDi DEF SommeIntere, SommeLorde
  <2>6. \A i \in C : /\ L[i] >= Righe[i].voto + Cardinality(Fatte("A", i)) /\ L[i] >= 0
                     /\ Righe[i].voto + Cardinality(Fatte("A", i)) \in Int
    <3> SUFFICES ASSUME NEW i \in C
                 PROVE  /\ L[i] >= Righe[i].voto + Cardinality(Fatte("A", i)) /\ L[i] >= 0
                        /\ Righe[i].voto + Cardinality(Fatte("A", i)) \in Int
      OBVIOUS
    <3>1. i \in 1 .. N /\ Righe[i].candidato # "L"
      BY <2>4, CandidatiDi
    <3>2. L[i] = VotiCorrenti[i] + Cardinality(Fatte("S", i))
      BY <1>13, <2>4, <3>1 DEF SommeLorde
    <3>3. /\ Cardinality(Fatte("S", i)) \in Nat /\ Cardinality(Fatte("A", i)) \in Nat
          /\ Righe[i].voto \in Int /\ VotiCorrenti[i] \in Int
      BY <3>1, FatteFinite, TabellaTipata, VotiTipati DEF InvLetture, Inv
    <3>4. /\ VotiCorrenti[i] >= 0
          /\ VotiCorrenti[i] + Cardinality(Fatte("S", i)) >= Righe[i].voto + Cardinality(Fatte("A", i))
      BY <3>1 DEF InvLetture, Inv, VotiInv
    <3> QED
      BY <3>2, <3>3, <3>4
  <2>7. Tolti(g) >= 0
    <3>1. SumFunctionOnSet(T, C) >= 0
      BY <2>5, SommaPositiva
    <3> QED
      BY <2>4, <3>1 DEF Tolti
  <2>8. \A i \in C : L[i] <= SumFunctionOnSet(L, C)
    BY <2>5, <2>6, SommaTermine
  <2>9. SumFunctionOnSet(L, C) = Totale(g) + Tolti(g)
    BY <1>13, <2>4 DEF SommeLorde
  <2>10. \A i \in C : L[i] \in Int
    BY <2>5
  <2> QED
    BY <2>1, <2>3, <2>4, <2>6, <2>7, <2>8, <2>9, <2>10
<1>15. LettureInv'
  <2> SUFFICES ASSUME NEW f \in Letture \cup {n}, NEW g \in Giudici
               PROVE  /\ Punti(f, g) \in Int
                      /\ Punti(f, g) <= Totale(g) + Tolti(g)
                      /\ \A i \in Candidati(g) :
                           Punti(f, g) + Tolti(g)
                             >= Righe[i].voto + Cardinality(Confermati(f.chi[1], f.chi[2], i))
                      /\ \A d \in esiti : d.arg \in Classifica /\ d.chi[1] = f.chi[1] /\ d.chi[2] < f.chi[2] =>
                           Punti(f, g) + Tolti(g) >= Punti(d, g)
    BY <1>2, <1>7, <1>10, <1>11, <1>12 DEF LettureInv, Classifica
  <2>1. CASE f \in Letture
    BY <2>1 DEF InvLetture, LettureInv
  <2>2. CASE f = n
    <3>1. \A d \in esiti : d.arg \in Classifica => Punti(d, g) <= Totale(g) + Tolti(g) /\ Punti(d, g) \in Int
      BY DEF InvLetture, LettureInv, Letture
    <3>2. ASSUME NEW i \in Candidati(g)
          PROVE  Totale(g) + Tolti(g) >= Righe[i].voto + Cardinality(Confermati(f.chi[1], f.chi[2], i))
      <4>1. /\ Cardinality(Confermati(f.chi[1], f.chi[2], i)) \in Nat
            /\ Cardinality(Confermati(f.chi[1], f.chi[2], i)) <= Cardinality(Fatte("A", i))
        BY ConfermatiEseguiti DEF InvLetture
      <4>2. Righe[i].voto \in Int /\ Cardinality(Fatte("A", i)) \in Nat
        BY CandidatiDi, TabellaTipata, FatteFinite DEF InvLetture
      <4> QED
        BY <4>1, <4>2, <1>14
    <3> QED
      BY <2>2, <3>1, <3>2, <1>14
  <2> QED
    BY <2>1, <2>2
<1> QED
  BY <1>4, <1>15

LEMMA InvLettureNext == InvLetture /\ [Next]_vars => InvLetture'
<1> SUFFICES ASSUME InvLetture, [Next]_vars PROVE ChiamateInv' /\ LettureInv' /\ Inv'
  BY DEF InvLetture
<1>1. Inv'
  BY InvNext DEF InvLetture
<1>2. ASSUME NEW m \in richieste, Servi(m) PROVE ChiamateInv' /\ LettureInv'
  BY <1>1, <1>2, ClassificaLetture, VotoLetture DEF Servi
<1>3. ASSUME NEW c \in Client, Chiama(c) \/ Leggi(c) \/ Attesa(c) \/ Esci(c)
      PROVE  ChiamateInv' /\ LettureInv'
  BY <1>1, <1>3, ChiamaLetture, LeggiLetture, AttesaLetture, EsciLetture
<1>4. CASE UNCHANGED vars
  <2>1. UNCHANGED <<fase, xid, arg, richieste, risposte, voto, inizializzato, spedite, esiti>>
    BY <1>4 DEF vars, rpcVars, serverVars
  <2>2. Eseguite' = Eseguite
    BY <2>1 DEF Eseguite
  <2>3. ChiamateInv'
    BY <2>1 DEF InvLetture, ChiamateInv
  <2> QED
    BY <1>1, <2>1, <2>2, <2>3, LettureFerme
<1> QED
  BY <1>1, <1>2, <1>3, <1>4 DEF Next

\* The rankings in flight and those shown, and what the next one will say.
THEOREM InvLettureInvariante == Spec => []InvLetture
<1>1. Init => InvLetture
  <2> SUFFICES ASSUME Init PROVE ChiamateInv /\ LettureInv
    BY InvInit DEF InvLetture
  <2>1. spedite = {} /\ risposte = {} /\ esiti = {}
    BY DEF Init, RpcInit
  <2> QED
    BY <2>1 DEF ChiamateInv, LettureInv, Letture
<1> QED
  BY <1>1, InvLettureNext, PTL DEF Spec

\* A ranking shown has the votes its user was told of before, and is not behind
\* one the user saw before, but for the votes taken away, for any table, any
\* clients and any number of calls, copies and late answers.
THEOREM ClassificheCoerentiSempre == Spec => []ClassificheCoerenti
<1>1. InvLetture => ClassificheCoerenti
  <2> SUFFICES ASSUME InvLetture, NEW f \in esiti, f.arg \in Classifica, NEW g \in Giudici,
                      NEW S, S = [i \in 1 .. N |-> Cardinality(Copie("S", i))]
               PROVE  /\ \A i \in Candidati(g) :
                           Punti(f, g) + SumFunctionOnSet(S, Candidati(g))
                             >= Righe[i].voto + Cardinality(Confermati(f.chi[1], f.chi[2], i))
                      /\ \A e \in esiti :
                           e.arg \in Classifica /\ e.chi[1] = f.chi[1] /\ e.chi[2] < f.chi[2] =>
                             Punti(f, g) + SumFunctionOnSet(S, Candidati(g)) >= Punti(e, g)
    BY DEF ClassificheCoerenti
  <2>1. /\ f \in Letture /\ Punti(f, g) \in Int
        /\ \A i \in Candidati(g) :
             Punti(f, g) + Tolti(g) >= Righe[i].voto + Cardinality(Confermati(f.chi[1], f.chi[2], i))
        /\ \A e \in esiti : e.arg \in Classifica /\ e.chi[1] = f.chi[1] /\ e.chi[2] < f.chi[2] =>
             Punti(f, g) + Tolti(g) >= Punti(e, g)
    BY DEF InvLetture, LettureInv, Letture
  <2>2. PICK C, T : C = Candidati(g) /\ T = Tolte
    OBVIOUS
  <2>3. /\ T \in [1 .. N -> Int] /\ C \in SUBSET (1 .. N) /\ N \in Nat
        /\ \A i \in C : T[i] = Cardinality(Fatte("S", i))
    BY <2>2, TolteTipate, CandidatiDi, TabellaTipata DEF InvLetture, SommeIntere
  <2>4. S \in [1 .. N -> Int] /\ \A i \in C : T[i] <= S[i]
    <3>1. \A i \in 1 .. N : S[i] = Cardinality(Copie("S", i)) /\ S[i] \in Nat
      BY FatteCopie DEF InvLetture
    <3>2. \A i : Cardinality(Fatte("S", i)) <= Cardinality(Copie("S", i))
      BY FatteCopie DEF InvLetture
    <3> QED
      BY <2>3, <3>1, <3>2
  <2>5. SumFunctionOnSet(T, C) <= SumFunctionOnSet(S, C)
    BY <2>3, <2>4, SommaMonotona
  <2>6. SumFunctionOnSet(T, C) \in Int /\ SumFunctionOnSet(S, C) \in Int
    BY <2>3, <2>4, SommaIntera
  <2>7. Tolti(g) = SumFunctionOnSet(T, C)
    BY <2>2 DEF Tolti
  <2>8. PICK p, a, b : p = Punti(f, g) /\ a = Tolti(g) /\ b = SumFunctionOnSet(S, Candidati(g))
    OBVIOUS
  <2>9. p \in Int /\ a \in Int /\ b \in Int /\ a <= b
    BY <2>1, <2>2, <2>5, <2>6, <2>7, <2>8
  <2>10. \A z \in Int : p + a >= z => p + b >= z
    BY <2>9
  <2>11. \A i \in Candidati(g) : Righe[i].voto + Cardinality(Confermati(f.chi[1], f.chi[2], i)) \in Int
    BY TabellaTipata, CandidatiDi, ConfermatiEseguiti DEF InvLetture
  <2>12. \A e \in esiti : e.arg \in Classifica => Punti(e, g) \in Int
    BY DEF InvLetture, LettureInv, Letture
  <2> QED
    BY <2>1, <2>8, <2>10, <2>11, <2>12
<1> QED
  BY <1>1, InvLettureInvariante, PTL
=============================================================================

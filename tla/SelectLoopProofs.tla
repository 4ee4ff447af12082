-------------------------- MODULE SelectLoopProofs --------------------------
(***************************************************************************)
(* Facts about the children of a forking server, about the loop of the     *)
(* select servers and about the bytes of a connection, on which the proofs *)
(* of both servers rest.  K is the set of connections, which also names    *)
(* the children.                                                           *)
(***************************************************************************)
EXTENDS SelectLoop, TLAPS

\* A signal on its way stands for a child to collect; when the handler is
\* running and one more signal is pending, there are two.
FigliInv ==
  /\ pendente \/ inGestore => zombie # {}
  /\ pendente /\ inGestore => \E y, z \in zombie : y # z

LEMMA FigliInitInv == ASSUME NEW K, FigliInit PROVE FigliTypeOK(K) /\ FigliInv
BY DEF FigliInit, FigliTypeOK, FigliInv

LEMMA ForkInv ==
  ASSUME NEW K, FigliTypeOK(K), FigliInv, NEW k \in K, k \notin zombie, fork(k)
  PROVE  FigliTypeOK(K)' /\ FigliInv'
BY DEF FigliTypeOK, FigliInv, fork

\* A child that exits while the handler runs is one more than the one the
\* handler will collect.
LEMMA ExitInv ==
  ASSUME NEW K, FigliTypeOK(K), FigliInv, NEW k, exit(k)
  PROVE  FigliTypeOK(K)' /\ FigliInv'
<1>1. FigliTypeOK(K)'
  BY DEF FigliTypeOK, exit
<1>2. k \notin zombie /\ zombie' = zombie \cup {k} /\ inGestore' = inGestore
  BY DEF FigliTypeOK, exit
<1>3. inGestore => \E y \in zombie : y # k
  BY <1>2 DEF FigliInv
<1> QED
  BY <1>1, <1>2, <1>3 DEF FigliInv

LEMMA GestoreInv ==
  ASSUME NEW K, FigliTypeOK(K), FigliInv, SIGCHLD \/ gestore
  PROVE  FigliTypeOK(K)' /\ FigliInv'
<1>1. CASE SIGCHLD
  BY <1>1 DEF FigliTypeOK, FigliInv, SIGCHLD
<1>2. CASE gestore
  <2>1. PICK z \in zombie : zombie' = zombie \ {z}
    BY <1>2 DEF gestore
  <2>2. inGestore /\ inGestore' = FALSE /\ UNCHANGED <<vivi, pendente>>
    BY <1>2 DEF gestore
  <2>3. pendente => zombie' # {}
    BY <2>1, <2>2 DEF FigliInv
  <2> QED
    BY <2>1, <2>2, <2>3 DEF FigliTypeOK, FigliInv
<1> QED
  BY <1>1, <1>2

LEMMA FigliFermi ==
  ASSUME NEW K, FigliTypeOK(K), FigliInv, UNCHANGED figliVars
  PROVE  FigliTypeOK(K)' /\ FigliInv'
BY DEF FigliTypeOK, FigliInv, figliVars

LEMMA GestoreMaiVuoto == FigliInv => GestoreNonBlocca
BY DEF FigliInv, GestoreNonBlocca
-----------------------------------------------------------------------------
(* Types of the loop and of the datagram clients. *)

\* LoopTypeOK without the children.
CicloTipato(K) ==
  /\ pc \in {"select", "tcp", "close", "udp", "morto"}
  /\ pronti \subseteq {"tcp", "udp"}
  /\ coda \in Seq(K) /\ aperti \subseteq K /\ limiteFd \in LimitiFd

DatagrammiTipati ==
  /\ faseU \in [ClientU -> {"menu", "recvfrom"}]
  /\ chiesti \in [ClientU -> 0 .. MaxConteggi]

LEMMA LoopTipato ==
  ASSUME NEW K PROVE LoopTypeOK(K) <=> FigliTypeOK(K) /\ CicloTipato(K) /\ DatagrammiTipati
BY DEF LoopTypeOK, CicloTipato, DatagrammiTipati

LEMMA LoopInitTipato ==
  ASSUME NEW K, LoopInit PROVE CicloTipato(K) /\ DatagrammiTipati
BY SelectAssumption DEF LoopInit, CicloTipato, DatagrammiTipati

LEMMA SelectTipato ==
  ASSUME NEW K, CicloTipato(K), select PROVE CicloTipato(K)'
BY DEF CicloTipato, select

\* Where the server goes after the TCP block.
LEMMA DopoTcpTipato == DopoTcp \in {"select", "udp"}
BY DEF DopoTcp

LEMMA AccettaFallitaTipato ==
  ASSUME NEW K, CicloTipato(K), accept_fallita PROVE CicloTipato(K)'
BY DEF CicloTipato, accept_fallita

LEMMA RecvfromTipato ==
  ASSUME NEW K, CicloTipato(K), NEW ris, NEW num, recvfrom_sendto(ris, num)
  PROVE  CicloTipato(K)'
BY DEF CicloTipato, recvfrom_sendto

LEMMA CicloFermo ==
  ASSUME NEW K, CicloTipato(K), UNCHANGED loopVars PROVE CicloTipato(K)'
BY DEF CicloTipato, loopVars

LEMMA ClienteUTipato ==
  ASSUME DatagrammiTipati, ClienteU PROVE DatagrammiTipati'
<1> USE SelectAssumption
<1>1. ASSUME NEW u \in ClientU, sendto(u) PROVE DatagrammiTipati'
  BY <1>1 DEF DatagrammiTipati, sendto
<1>2. ASSUME NEW u \in ClientU, recvfrom(u) PROVE DatagrammiTipati'
  BY <1>2 DEF DatagrammiTipati, recvfrom
<1>3. CASE Perdi
  BY <1>3 DEF DatagrammiTipati, Perdi
<1> QED
  BY <1>1, <1>2, <1>3 DEF ClienteU
-----------------------------------------------------------------------------
(* The backlog. *)

\* k is a connection established and not yet accepted.
InCoda(k) == \E i \in 1 .. Len(coda) : coda[i] = k

\* Nobody is in the backlog twice.
CodaSemplice == \A i, j \in 1 .. Len(coda) : coda[i] = coda[j] => i = j

\* accept takes k out of the backlog and leaves the others there.
LEMMA AccettaCoda ==
  ASSUME NEW K, CicloTipato(K), CodaSemplice, NEW k, accept(k)
  PROVE  /\ InCoda(k) /\ ~InCoda(k)' /\ CodaSemplice' /\ coda' \in Seq(K)
         /\ \A h : h # k => (InCoda(h)' <=> InCoda(h))
<1>1. coda \in Seq(K) /\ coda # <<>> /\ k = coda[1] /\ coda' = Tail(coda)
  BY DEF CicloTipato, accept
<1>2. /\ Len(coda) \in Nat /\ Len(coda) >= 1 /\ coda' \in Seq(K) /\ Len(coda') = Len(coda) - 1
      /\ \A i \in 1 .. Len(coda') : coda'[i] = coda[i + 1]
  BY <1>1
<1>3. InCoda(k)
  BY <1>1, <1>2 DEF InCoda
<1>4. ~InCoda(k)'
  BY <1>1, <1>2 DEF InCoda, CodaSemplice
<1>5. CodaSemplice'
  BY <1>2 DEF CodaSemplice
<1>6. ASSUME NEW h, h # k PROVE InCoda(h)' <=> InCoda(h)
  <2>1. InCoda(h)' => InCoda(h)
    BY <1>2 DEF InCoda
  <2>2. ASSUME NEW i \in 1 .. Len(coda), coda[i] = h PROVE InCoda(h)'
    <3>1. i # 1 /\ i - 1 \in 1 .. Len(coda')
      BY <1>1, <1>2, <1>6, <2>2
    <3>2. coda'[i - 1] = h
      BY <1>2, <2>2, <3>1
    <3> QED
      BY <3>1, <3>2 DEF InCoda
  <2> QED
    BY <2>1, <2>2 DEF InCoda
<1> QED
  BY <1>2, <1>3, <1>4, <1>5, <1>6

\* connect adds k, which was not there.
LEMMA ConnettiCoda ==
  ASSUME NEW K, coda \in Seq(K), CodaSemplice, NEW k \in K, ~InCoda(k), coda' = Append(coda, k)
  PROVE  /\ InCoda(k)' /\ CodaSemplice' /\ coda' \in Seq(K)
         /\ \A h : h # k => (InCoda(h)' <=> InCoda(h))
<1>1. /\ Len(coda) \in Nat /\ coda' \in Seq(K) /\ Len(coda') = Len(coda) + 1
      /\ \A i \in 1 .. Len(coda) : coda'[i] = coda[i]
      /\ coda'[Len(coda) + 1] = k
  OBVIOUS
<1>2. InCoda(k)'
  BY <1>1 DEF InCoda
<1>3. CodaSemplice'
  BY <1>1 DEF CodaSemplice, InCoda
<1>4. ASSUME NEW h, h # k PROVE InCoda(h)' <=> InCoda(h)
  BY <1>1, <1>4 DEF InCoda
<1> QED
  BY <1>1, <1>2, <1>3, <1>4

LEMMA CodaFerma ==
  ASSUME coda' = coda PROVE (CodaSemplice' <=> CodaSemplice) /\ \A h : InCoda(h)' <=> InCoda(h)
BY DEF CodaSemplice, InCoda

LEMMA CodaVuota ==
  ASSUME coda' = <<>> PROVE CodaSemplice' /\ \A h : ~InCoda(h)'
BY DEF CodaSemplice, InCoda
-----------------------------------------------------------------------------
(* The bytes in flight on a connection. *)

\* After p items, q has n times x and then, if z is 1, a terminating zero.
Flusso(q, p, n, x, z) ==
  /\ Len(q) = p + n + z
  /\ \A j \in 1 .. n : q[p + j] = x
  /\ z = 1 => q[p + n + 1] = "0"

LEMMA FlussoScrivi ==
  ASSUME NEW S, NEW q \in Seq(S), NEW x \in S, NEW p \in Nat, NEW n \in Nat, Flusso(q, p, n, x, 0)
  PROVE  Flusso(Append(q, x), p, n + 1, x, 0)
BY DEF Flusso

LEMMA FlussoTermina ==
  ASSUME NEW S, NEW q \in Seq(S), "0" \in S, NEW x, NEW p \in Nat, NEW n \in Nat,
         Flusso(q, p, n, x, 0)
  PROVE  Flusso(Append(q, "0"), p, n, x, 1)
BY DEF Flusso

\* The item before the flow is read.
LEMMA FlussoInizia ==
  ASSUME NEW S, NEW q \in Seq(S), NEW x, NEW n \in Nat, NEW z \in {0, 1}, Flusso(q, 1, n, x, z)
  PROVE  q # <<>> /\ Head(q) = q[1] /\ Flusso(Tail(q), 0, n, x, z)
BY DEF Flusso

\* One x is read.
LEMMA FlussoLeggi ==
  ASSUME NEW S, NEW q \in Seq(S), NEW x, NEW n \in Nat \ {0}, NEW z \in {0, 1},
         Flusso(q, 0, n, x, z)
  PROVE  q # <<>> /\ Head(q) = x /\ Flusso(Tail(q), 0, n - 1, x, z)
BY DEF Flusso

\* Nothing is left but the terminator, if there is one.
LEMMA FlussoFinito ==
  ASSUME NEW S, NEW q \in Seq(S), NEW x, NEW z \in {0, 1}, Flusso(q, 0, 0, x, z)
  PROVE  /\ z = 0 => q = <<>>
         /\ z = 1 => q # <<>> /\ Head(q) = "0" /\ Tail(q) = <<>>
BY DEF Flusso
=============================================================================

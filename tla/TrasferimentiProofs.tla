-------------------------- MODULE TrasferimentiProofs --------------------------
(***************************************************************************)
(* Proofs about Trasferimenti for every number of connections and threads, *)
(* whatever files users have and whatever they ask for.                    *)
(***************************************************************************)
EXTENDS Trasferimenti, TLAPS, SequenceTheorems, FiniteSetTheorems, WellFoundedInduction

-----------------------------------------------------------------------------
(* Sequences. *)

LEMMA SequenzaDi ==
  ASSUME NEW S, NEW s \in Seq(S)
  PROVE  Sequenza(s) /\ Len(s) \in Nat /\ DOMAIN s = 1 .. Len(s)
<1>1. Len(s) \in Nat /\ DOMAIN s = 1 .. Len(s) /\ s \in [1 .. Len(s) -> S]
  BY LenProperties
<1>2. s \in [1 .. Len(s) -> {s[i] : i \in DOMAIN s}]
  BY <1>1
<1>3. s \in Seq({s[i] : i \in DOMAIN s})
  BY <1>1, <1>2, IsASeq, SMTT(30)
<1> QED
  BY <1>1, <1>3 DEF Sequenza

LEMMA SequenzaTipo ==
  ASSUME NEW s, Sequenza(s)
  PROVE  Len(s) \in Nat /\ DOMAIN s = 1 .. Len(s)
BY LenProperties DEF Sequenza

LEMMA SequenzaFunzione ==
  ASSUME NEW n \in Nat, NEW s, DOMAIN s = 1 .. n, s = [i \in 1 .. n |-> s[i]]
  PROVE  Sequenza(s) /\ Len(s) = n
<1>1. s \in [1 .. n -> {s[i] : i \in 1 .. n}]
  OBVIOUS
<1>2. s \in Seq({s[i] : i \in 1 .. n}) 
  BY <1>1, IsASeq
<1> QED
  BY <1>2, LenProperties DEF Sequenza

LEMMA SequenzaVuota == Sequenza(<<>>) /\ Len(<<>>) = 0
BY EmptySeq DEF Sequenza

LEMMA SequenzaAppend ==
  ASSUME NEW s, Sequenza(s), NEW x
  PROVE  /\ Sequenza(Append(s, x)) /\ Len(Append(s, x)) = Len(s) + 1
         /\ Append(s, x)[Len(s) + 1] = x
         /\ \A i \in 1 .. Len(s) : Append(s, x)[i] = s[i]
<1> DEFINE S == {s[i] : i \in DOMAIN s} \cup {x}
<1>1. s \in Seq(S) /\ x \in S
  <2>1. s \in Seq({s[i] : i \in DOMAIN s})
    BY DEF Sequenza
  <2>2. Seq({s[i] : i \in DOMAIN s}) \subseteq Seq(S)
    BY SeqMonotonic
  <2> QED
    BY <2>1, <2>2
<1> HIDE DEF S
<1>2. /\ Append(s, x) \in Seq(S) /\ Len(Append(s, x)) = Len(s) + 1
      /\ \A i \in 1 .. Len(s) : Append(s, x)[i] = s[i]
      /\ Append(s, x)[Len(s) + 1] = x
  BY <1>1, AppendProperties
<1>3. Sequenza(Append(s, x))
  BY <1>2, SequenzaDi
<1> QED
  BY <1>2, <1>3

\* Equal lengths and equal elements.
LEMMA SequenzeUguali ==
  ASSUME NEW s, NEW t, Sequenza(s), Sequenza(t), Len(s) = Len(t),
         \A i \in 1 .. Len(s) : s[i] = t[i]
  PROVE  s = t
<1>1. s = [i \in DOMAIN s |-> s[i]] /\ t = [i \in DOMAIN t |-> t[i]]
  <2>1. s \in [1 .. Len(s) -> {s[i] : i \in DOMAIN s}] /\ t \in [1 .. Len(t) -> {t[i] : i \in DOMAIN t}]
    BY LenProperties DEF Sequenza
  <2> QED
    BY <2>1
<1>2. DOMAIN s = 1 .. Len(s) /\ DOMAIN t = 1 .. Len(s)
  BY SequenzaTipo
<1> QED
  BY <1>1, <1>2

-----------------------------------------------------------------------------
(* Files. *)

\* Inodes are numbered, a name has at most one and an inode at most one name.
FileOK ==
  /\ Sequenza(contenuto) /\ \A i \in 1 .. Len(contenuto) : Sequenza(contenuto[i])
  /\ directory \in [Nomi -> 0 .. Len(contenuto)]
  /\ \A m, n \in Nomi : directory[m] = directory[n] /\ directory[m] # 0 => m = n

LEMMA CreaFile ==
  ASSUME FileOK, NEW n \in Nomi, crea(n)
  PROVE  /\ FileOK' /\ directory'[n] \in 1 .. Len(contenuto') /\ contenuto'[directory'[n]] = <<>>
         /\ directory'[n] = IF directory[n] # 0 THEN directory[n] ELSE Len(contenuto) + 1
         /\ \A m \in Nomi \ {n} : directory'[m] = directory[m]
         /\ Len(contenuto') >= Len(contenuto)
         /\ \A i \in 1 .. Len(contenuto) : i # directory[n] => contenuto'[i] = contenuto[i]
<1>1. Len(contenuto) \in Nat /\ DOMAIN contenuto = 1 .. Len(contenuto)
  BY SequenzaTipo DEF FileOK
<1>2. CASE directory[n] # 0
  <2>1. contenuto' = [contenuto EXCEPT ![directory[n]] = <<>>] /\ directory' = directory
    BY <1>2 DEF crea, esiste
  <2>2. directory[n] \in 1 .. Len(contenuto)
    BY <1>1, <1>2 DEF FileOK
  <2>3. DOMAIN contenuto' = 1 .. Len(contenuto) /\ contenuto' = [i \in 1 .. Len(contenuto) |-> contenuto'[i]]
    BY <1>1, <2>1
  <2>4. Sequenza(contenuto') /\ Len(contenuto') = Len(contenuto)
    BY <1>1, <2>3, SequenzaFunzione
  <2>5. \A i \in 1 .. Len(contenuto) : contenuto'[i] = IF i = directory[n] THEN <<>> ELSE contenuto[i]
    BY <1>1, <2>1
  <2> QED
    BY <1>1, <1>2, <2>1, <2>2, <2>4, <2>5, SequenzaVuota DEF FileOK
<1>3. CASE directory[n] = 0
  <2>1. contenuto' = Append(contenuto, <<>>) /\ directory' = [directory EXCEPT ![n] = Len(contenuto) + 1]
    BY <1>3 DEF crea, esiste
  <2>2. /\ Sequenza(contenuto') /\ Len(contenuto') = Len(contenuto) + 1
        /\ contenuto'[Len(contenuto) + 1] = <<>>
        /\ \A i \in 1 .. Len(contenuto) : contenuto'[i] = contenuto[i]
    BY <2>1, SequenzaAppend DEF FileOK
  <2>3. \A m \in Nomi : directory'[m] = IF m = n THEN Len(contenuto) + 1 ELSE directory[m]
    BY <2>1 DEF FileOK
  <2>4. directory' \in [Nomi -> 0 .. Len(contenuto')]
    <3>1. \A m \in Nomi : directory[m] \in 0 .. Len(contenuto')
      BY <1>1, <2>2 DEF FileOK
    <3>2. Len(contenuto) + 1 \in 0 .. Len(contenuto')
      BY <1>1, <2>2
    <3> QED
      BY <2>1, <3>1, <3>2 DEF FileOK
  <2>5. \A i \in 1 .. Len(contenuto') : Sequenza(contenuto'[i])
    <3> SUFFICES ASSUME NEW i \in 1 .. Len(contenuto') PROVE Sequenza(contenuto'[i])
      OBVIOUS
    <3>1. i \in 1 .. Len(contenuto) \/ i = Len(contenuto) + 1
      BY <1>1, <2>2
    <3> QED
      BY <2>2, <3>1, SequenzaVuota DEF FileOK
  <2>6. \A m, q \in Nomi : directory'[m] = directory'[q] /\ directory'[m] # 0 => m = q
    <3>1. \A m \in Nomi : directory[m] # Len(contenuto) + 1
      BY <1>1 DEF FileOK
    <3> QED
      BY <2>3, <3>1 DEF FileOK
  <2> QED
    BY <1>1, <1>3, <2>2, <2>3, <2>4, <2>5, <2>6 DEF FileOK
<1> QED
  BY <1>2, <1>3

LEMMA CancellaFile ==
  ASSUME FileOK, NEW n \in Nomi, delete(n)
  PROVE  /\ FileOK' /\ contenuto' = contenuto
         /\ \A m \in Nomi : directory'[m] = IF m = n THEN 0 ELSE directory[m]
<1>1. Len(contenuto) \in Nat
  BY SequenzaTipo DEF FileOK
<1> QED
  BY <1>1 DEF FileOK, delete

LEMMA RinominaFile ==
  ASSUME FileOK, NEW m \in Nomi, NEW n \in Nomi, m # n, renameTo(m, n)
  PROVE  /\ FileOK' /\ contenuto' = contenuto
         /\ \A q \in Nomi : directory'[q] = IF directory[m] = 0 THEN directory[q]
                                            ELSE IF q = n THEN directory[m]
                                            ELSE IF q = m THEN 0 ELSE directory[q]
<1>1. Len(contenuto) \in Nat
  BY SequenzaTipo DEF FileOK
<1>2. CASE directory[m] = 0
  BY <1>2 DEF FileOK, renameTo, esiste
<1>3. CASE directory[m] # 0
  <2>1. directory' = [directory EXCEPT ![n] = directory[m], ![m] = 0] /\ contenuto' = contenuto
    BY <1>3 DEF renameTo, esiste
  <2>2. \A q \in Nomi : directory'[q] = IF q = m THEN 0 ELSE IF q = n THEN directory[m] ELSE directory[q]
    BY <2>1 DEF FileOK
  <2>3. directory' \in [Nomi -> 0 .. Len(contenuto')]
    BY <1>1, <2>1 DEF FileOK
  <2> QED
    BY <1>3, <2>1, <2>2, <2>3 DEF FileOK
<1> QED
  BY <1>2, <1>3

LEMMA ScriviFile ==
  ASSUME FileOK, NEW i \in 1 .. Len(contenuto), NEW k \in Nat \ {0}, NEW nuove, Sequenza(nuove),
         scrivi(i, k, nuove)
  PROVE  /\ FileOK' /\ directory' = directory /\ Len(contenuto') = Len(contenuto)
         /\ contenuto'[i] = Scritto(i, k, nuove)
         /\ \A j \in 1 .. Len(contenuto) \ {i} : contenuto'[j] = contenuto[j]
<1>1. Len(contenuto) \in Nat /\ DOMAIN contenuto = 1 .. Len(contenuto)
  BY SequenzaTipo DEF FileOK
<1>2. contenuto' = [contenuto EXCEPT ![i] = Scritto(i, k, nuove)] /\ directory' = directory
  BY DEF scrivi
<1>3. DOMAIN contenuto' = 1 .. Len(contenuto) /\ contenuto' = [j \in 1 .. Len(contenuto) |-> contenuto'[j]]
  BY <1>1, <1>2
<1>4. Sequenza(contenuto') /\ Len(contenuto') = Len(contenuto)
  BY <1>1, <1>3, SequenzaFunzione
<1>5. \A j \in 1 .. Len(contenuto) : contenuto'[j] = IF j = i THEN Scritto(i, k, nuove) ELSE contenuto[j]
  BY <1>1, <1>2
<1>6. Sequenza(Scritto(i, k, nuove))
  <2> DEFINE n == IF Len(contenuto[i]) > k + Len(nuove) - 1 THEN Len(contenuto[i]) ELSE k + Len(nuove) - 1
             s == Scritto(i, k, nuove)
  <2>1. n \in Nat
    <3>1. Len(contenuto[i]) \in Nat /\ Len(nuove) \in Nat
      BY SequenzaTipo DEF FileOK
    <3> QED
      BY <3>1
  <2>2. DOMAIN s = 1 .. n /\ s = [j \in 1 .. n |-> s[j]]
    BY DEF Scritto
  <2> HIDE DEF n, s
  <2>3. Sequenza(s)
    BY <2>1, <2>2, SequenzaFunzione
  <2> QED
    BY <2>3 DEF s
<1> QED
  BY <1>1, <1>2, <1>4, <1>5, <1>6 DEF FileOK

\* The names a server starts with, one after the other.
LEMMA PrimiNomi ==
  ASSUME NEW N, IsFiniteSet(N)
  PROVE  SetToSeq(N) \in [1 .. Cardinality(N) -> N] /\ Cardinality(N) \in Nat
<1>1. Cardinality(N) \in Nat /\ ExistsBijection(1 .. Cardinality(N), N)
  BY FS_CardinalityType
<1>2. \E f \in [1 .. Cardinality(N) -> N] : IsInjective(f)
  BY <1>1 DEF ExistsBijection, Bijection, Injection, IsInjective
<1> QED
  BY <1>1, <1>2 DEF SetToSeq

\* The files found when a server starts.
LEMMA RiempiFile ==
  ASSUME NEW N \in SUBSET Nomi, IsFiniteSet(N), NEW d, \A n \in N : Sequenza(d[n]),
         Riempi(SetToSeq(N), d)
  PROVE  /\ FileOK'
         /\ \A n \in Nomi : directory'[n] # 0 => n \in N /\ contenuto'[directory'[n]] = d[n]
<1> DEFINE s == SetToSeq(N)
<1>1. s \in [1 .. Cardinality(N) -> N] /\ Cardinality(N) \in Nat
  BY PrimiNomi
<1> DEFINE c == Cardinality(N)
<1> HIDE DEF s, c
<1>2. c \in Nat /\ s \in [1 .. c -> N] /\ DOMAIN s = 1 .. c
  BY <1>1 DEF s, c
<1>3. contenuto' = [k \in 1 .. c |-> d[s[k]]]
  BY <1>2 DEF Riempi, s
<1>4. Sequenza(contenuto') /\ Len(contenuto') = c
  BY <1>2, <1>3, SequenzaFunzione
<1>5. \A n \in Nomi : directory'[n] = IF \E k \in 1 .. c : s[k] = n THEN CHOOSE k \in 1 .. c : s[k] = n ELSE 0
  BY <1>2 DEF Riempi, s
<1>6. \A n \in Nomi : directory'[n] = 0 \/ (directory'[n] \in 1 .. c /\ s[directory'[n]] = n)
  BY <1>2, <1>5
<1>7. directory' = [n \in Nomi |-> directory'[n]]
  BY DEF Riempi
<1>8. directory' \in [Nomi -> 0 .. c]
  BY <1>2, <1>6, <1>7
<1> QED
  BY <1>2, <1>3, <1>4, <1>6, <1>8 DEF FileOK
-----------------------------------------------------------------------------
(* What is on its way on a stream: the items of s after the first a, up to   *)
(* number n.                                                                 *)

LEMMA PezzoScritto ==
  ASSUME NEW s, Sequenza(s), NEW a \in Nat, NEW n \in Nat, a <= n, n < Len(s)
  PROVE  SubSeq(s, a + 1, n) \o <<s[n + 1]>> = SubSeq(s, a + 1, n + 1)
<1> DEFINE S == {s[i] : i \in DOMAIN s}
           m == a + 1
           q == n + 1
<1>1. s \in Seq(S) /\ Len(s) \in Nat
  BY SequenzaTipo DEF Sequenza
<1> HIDE DEF S
<1>2. m \in 1 .. Len(s) /\ q \in m .. Len(s) /\ q - 1 = n
  BY <1>1
<1> HIDE DEF m, q
<1>3. SubSeq(s, m, q) = SubSeq(s, m, q - 1) \o <<s[q]>>
  BY <1>1, <1>2, SubSeqRecursiveSecond
<1> QED
  BY <1>2, <1>3 DEF m, q

\* There are n - a of them, and the first is taken by a read of one.
Pezzo(s, a, n) ==
  LET q == SubSeq(s, a + 1, n)
  IN  /\ Sequenza(q) /\ Len(q) = n - a /\ (q = <<>> <=> a = n)
      /\ a < n => Head(q) = s[a + 1] /\ SubSeq(q, 2, Len(q)) = SubSeq(s, a + 2, n)

LEMMA PezzoLetto ==
  ASSUME NEW s, Sequenza(s), NEW a \in Nat, NEW n \in Nat, a <= n, n <= Len(s)
  PROVE  Pezzo(s, a, n)
<1> DEFINE q == SubSeq(s, a + 1, n)
<1> DEFINE S == {s[i] : i \in DOMAIN s}
<1>1. s \in Seq(S) /\ Len(s) \in Nat /\ \A i \in a + 1 .. n : s[i] \in S
  BY SequenzaTipo DEF Sequenza
<1> HIDE DEF S
<1>2. q \in Seq(S) /\ Len(q) = n - a
  <2>1. a + 1 \in Int /\ n \in Int
    OBVIOUS
  <2>2. q \in Seq(S) /\ Len(q) = IF a + 1 <= n THEN n - (a + 1) + 1 ELSE 0
    BY <1>1, <2>1, SubSeqProperties
  <2> QED
    BY <2>2
<1>3. q = <<>> <=> a = n
  <2>1. ASSUME a = n PROVE q = <<>>
    BY <2>1, SubSeqEmpty
  <2>2. ASSUME q = <<>> PROVE a = n
    BY <1>2, <2>2
  <2> QED
    BY <2>1, <2>2
<1>4. ASSUME a < n PROVE Head(q) = s[a + 1] /\ SubSeq(q, 2, Len(q)) = SubSeq(s, a + 2, n)
  <2>1. a + 1 \in 1 .. Len(s) /\ n \in a + 1 .. Len(s)
    BY <1>1, <1>4
  <2>2. Head(q) = s[a + 1] /\ Tail(q) = SubSeq(s, a + 1 + 1, n)
    BY <1>1, <2>1, HeadTailOfSubSeq
  <2>3. Tail(q) = SubSeq(q, 2, Len(q))
    BY <1>2, <1>3, <1>4, TailIsSubSeq
  <2>4. a + 1 + 1 = a + 2
    OBVIOUS
  <2> QED
    BY <2>2, <2>3, <2>4
<1> QED
  BY <1>2, <1>3, <1>4, SequenzaDi DEF Pezzo

LEMMA TestaLetta ==
  ASSUME NEW s, Sequenza(s), NEW x, NEW q, q = <<x>> \o s
  PROVE  q # <<>> /\ Head(q) = x /\ SubSeq(q, 2, Len(q)) = s
<1> DEFINE S == {s[i] : i \in DOMAIN s} \cup {x}
<1>1. s \in Seq(S) /\ <<x>> \in Seq(S) /\ Len(<<x>>) = 1 /\ <<x>>[1] = x
  <2>1. s \in Seq({s[i] : i \in DOMAIN s})
    BY DEF Sequenza
  <2>2. Seq({s[i] : i \in DOMAIN s}) \subseteq Seq(S)
    BY SeqMonotonic
  <2> QED
    BY <2>1, <2>2
<1> HIDE DEF S
<1>2. /\ q \in Seq(S) /\ Len(q) = 1 + Len(s) /\ Len(s) \in Nat
      /\ \A i \in 1 .. 1 + Len(s) : q[i] = IF i <= 1 THEN <<x>>[i] ELSE s[i - 1]
  BY <1>1, ConcatProperties, LenProperties
<1>3. q # <<>>
  BY <1>2
<1>4. /\ Tail(q) \in Seq(S) /\ Len(Tail(q)) = Len(s)
      /\ \A i \in 1 .. Len(Tail(q)) : Tail(q)[i] = q[i + 1]
  BY <1>2, <1>3, HeadTailProperties
<1>5. Tail(q) = s
  BY <1>1, <1>2, <1>4, SeqEqual
<1>6. Head(q) = x
  BY <1>1, <1>2
<1> QED
  BY <1>2, <1>3, <1>5, <1>6, TailIsSubSeq

\* One more item at the end of a file that has the first n of s.
LEMMA UnoInPiu ==
  ASSUME NEW s, Sequenza(s), NEW n \in Nat, n < Len(s), NEW i, contenuto[i] = SubSeq(s, 1, n)
  PROVE  Scritto(i, n + 1, <<s[n + 1]>>) = SubSeq(s, 1, n + 1)
<1> DEFINE v == contenuto[i]
           w == SubSeq(s, 1, n + 1)
           t == Scritto(i, n + 1, <<s[n + 1]>>)
<1>1. Len(s) \in Nat /\ DOMAIN s = 1 .. Len(s)
  BY SequenzaTipo
<1>2. Len(v) = n /\ DOMAIN v = 1 .. n /\ \A j \in 1 .. n : v[j] = s[j]
  <2>1. /\ v \in Seq({s[j] : j \in DOMAIN s}) /\ Len(v) = IF 1 <= n THEN n - 1 + 1 ELSE 0
        /\ \A j \in 1 .. n - 1 + 1 : v[j] = s[1 + j - 1]
    BY <1>1, SubSeqProperties
  <2>2. DOMAIN v = 1 .. Len(v)
    BY <2>1, LenProperties
  <2> QED
    BY <2>1, <2>2
<1>3. Sequenza(w) /\ Len(w) = n + 1 /\ \A j \in 1 .. n + 1 : w[j] = s[j]
  <2>1. /\ w \in Seq({s[j] : j \in DOMAIN s}) /\ Len(w) = IF 1 <= n + 1 THEN n + 1 - 1 + 1 ELSE 0
        /\ \A j \in 1 .. n + 1 - 1 + 1 : w[j] = s[1 + j - 1]
    BY <1>1, SubSeqProperties
  <2>2. Sequenza(w)
    BY <2>1, SequenzaDi
  <2> HIDE DEF w
  <2>3. Len(w) = n + 1 /\ \A j \in 1 .. n + 1 : w[j] = s[j]
    BY <2>1
  <2> QED
    BY <2>2, <2>3
<1> DEFINE x == <<s[n + 1]>>
           fine == n + 1 + Len(x) - 1
           lung == IF Len(v) > fine THEN Len(v) ELSE fine
<1>4. t = [j \in 1 .. n + 1 |-> IF j >= n + 1 /\ j <= n + 1 THEN x[j - (n + 1) + 1]
                                ELSE IF j \in DOMAIN v THEN v[j] ELSE "buco"]
  <2>1. t = [j \in 1 .. lung |-> IF j >= n + 1 /\ j <= fine THEN x[j - (n + 1) + 1]
                                 ELSE IF j \in DOMAIN v THEN v[j] ELSE "buco"]
    BY DEF Scritto
  <2>2. Len(x) = 1
    OBVIOUS
  <2> HIDE DEF v, t, x
  <2>3. fine = n + 1 /\ lung = n + 1
    BY <1>2, <2>2
  <2> HIDE DEF fine, lung
  <2> QED
    BY <2>1, <2>3
<1> HIDE DEF v, w, t
<1>5. \A j \in 1 .. n + 1 : t[j] = s[j]
  <2> SUFFICES ASSUME NEW j \in 1 .. n + 1 PROVE t[j] = s[j]
    OBVIOUS
  <2>1. CASE j = n + 1
    BY <1>4, <2>1 DEF x
  <2>2. CASE j \in 1 .. n
    BY <1>2, <1>4, <2>2
  <2> QED
    BY <2>1, <2>2
<1>6. DOMAIN t = 1 .. n + 1 /\ t = [j \in 1 .. n + 1 |-> t[j]]
  BY <1>4
<1>7. Sequenza(t) /\ Len(t) = n + 1
  <2>1. n + 1 \in Nat
    OBVIOUS
  <2> QED
    BY <1>6, <2>1, SequenzaFunzione
<1>8. t = w
  BY <1>3, <1>5, <1>7, SequenzeUguali
<1> QED
  BY <1>8 DEF t, w

\* The same for the first n of s.
LEMMA Prefisso ==
  ASSUME NEW s, Sequenza(s), NEW n \in Nat, n <= Len(s)
  PROVE  /\ Sequenza(SubSeq(s, 1, n)) /\ Len(SubSeq(s, 1, n)) = n
         /\ n < Len(s) => SubSeq(s, 1, n) \o <<s[n + 1]>> = SubSeq(s, 1, n + 1)
         /\ n = Len(s) => SubSeq(s, 1, n) = s
<1> DEFINE a == 0
<1>1. a \in Nat /\ a + 1 = 1 /\ a <= n /\ n - a = n
  OBVIOUS
<1> HIDE DEF a
<1>2. Sequenza(SubSeq(s, a + 1, n)) /\ Len(SubSeq(s, a + 1, n)) = n - a
  BY <1>1, PezzoLetto DEF Pezzo
<1>3. n < Len(s) => SubSeq(s, a + 1, n) \o <<s[n + 1]>> = SubSeq(s, a + 1, n + 1)
  BY <1>1, PezzoScritto
<1>4. SubSeq(s, 1, Len(s)) = s
  BY SubSeqFull DEF Sequenza
<1> QED
  BY <1>1, <1>2, <1>3, <1>4

-----------------------------------------------------------------------------
(* PutFile. *)

StatiAttivi == {"distrugge", "apre", "riceve", "risponde"}
StatiAperti == {"riceve", "risponde"}
Thread == [stato : StatiAttivi, nome : FileInviati, scritti : Nat, ino : Nat, insieme : BOOLEAN]

PutTipi ==
  /\ modo \in {"spento", "seq", "con", "caduto"}
  /\ invio \in [Conn -> {"prima", "nome", "dati", "esito", "finito", "morto"}]
  /\ inviati \in [Conn -> Nat] /\ nomeFile \in [Conn -> FileInviati \cup {<<>>}]
  /\ thr \in [Conn -> {NessunThread, [stato |-> "coda"], [stato |-> "nome"]} \cup Thread]
  /\ DOMAIN su = Conn /\ DOMAIN giu = Conn
  /\ fineSu \in [Conn -> BOOLEAN] /\ fineGiu \in [Conn -> BOOLEAN]
  /\ modo = "spento" => thr = [k \in Conn |-> NessunThread] /\ invio = [k \in Conn |-> "prima"]
  /\ \A k \in Conn : invio[k] = "prima" => inviati[k] = 0

Servito(k) == thr[k].stato \in StatiAttivi
Aperto(k) == thr[k].stato \in StatiAperti

\* Between a client and its thread there is what has been sent and not yet
\* read; the end of the stream, but for a client that was killed, comes when
\* everything has been sent.
FlussoPut(k) ==
  /\ invio[k] # "prima" /\ nomeFile[k] \in FileInviati
  /\ inviati[k] <= Len(Blocchi[k])
  /\ invio[k] \in {"esito", "finito"} => inviati[k] = Len(Blocchi[k])
  /\ fineSu[k] => invio[k] \in {"esito", "finito", "morto"}
  /\ ~fineGiu[k]
  /\ ~Servito(k) =>
       \/ invio[k] \in {"nome", "morto"} /\ inviati[k] = 0 /\ su[k] = <<>>
       \/ invio[k] # "nome" /\ su[k] = <<nomeFile[k]>> \o SubSeq(Blocchi[k], 1, inviati[k])
  /\ Servito(k) =>
       /\ invio[k] # "nome" /\ thr[k].scritti <= inviati[k]
       /\ su[k] = SubSeq(Blocchi[k], thr[k].scritti + 1, inviati[k])
       /\ thr[k].stato \in {"distrugge", "apre"} => thr[k].scritti = 0
       /\ thr[k].stato = "risponde" /\ invio[k] # "morto" => thr[k].scritti = Len(Blocchi[k])

\* An open file keeps the name it was opened by, or has lost it, and is written
\* by its thread alone unless another worked on that name.
AperturaPut(k) ==
  /\ thr[k].ino \in 1 .. Len(contenuto)
  /\ \A n \in Nomi : directory[n] = thr[k].ino => n = thr[k].nome
  /\ ~thr[k].insieme => /\ directory[thr[k].nome] = thr[k].ino
                        /\ contenuto[thr[k].ino] = SubSeq(Blocchi[k], 1, thr[k].scritti)

IncontriPut ==
  \A j, k \in Conn : j # k /\ Servito(j) /\ Servito(k) /\ thr[j].nome = thr[k].nome => thr[k].insieme

PutInv ==
  /\ PutTipi /\ FileOK /\ IncontriPut
  /\ \A k \in Conn : thr[k] # NessunThread => FlussoPut(k)
  /\ \A k \in Conn : Aperto(k) => AperturaPut(k)

\* What a thread's record says of where it is.
LEMMA ThreadTipo ==
  ASSUME PutTipi, NEW k \in Conn
  PROVE  /\ thr[k] = NessunThread <=> thr[k].stato = "nessuno"
         /\ thr[k].stato \in {"nessuno", "coda", "nome"} \cup StatiAttivi
         /\ Servito(k) => thr[k] \in Thread
BY DEF PutTipi, NessunThread, Thread, Servito, StatiAttivi

\* A step that changes nothing of a connection keeps what is known of it.
LEMMA FlussoFermo ==
  ASSUME NEW j \in Conn, FlussoPut(j),
         invio'[j] = invio[j], nomeFile'[j] = nomeFile[j], inviati'[j] = inviati[j],
         su'[j] = su[j], fineSu'[j] = fineSu[j], fineGiu'[j] = fineGiu[j],
         thr'[j].stato = thr[j].stato, Servito(j) => thr'[j].scritti = thr[j].scritti
  PROVE  FlussoPut(j)'
BY DEF FlussoPut, Servito

\* Nor does one that touches another file, and does not forget who met whom.
LEMMA AperturaFerma ==
  ASSUME NEW j \in Conn, AperturaPut(j), Len(contenuto) \in Nat,
         Len(contenuto') \in Nat, Len(contenuto') >= Len(contenuto),
         thr'[j].ino = thr[j].ino, thr'[j].nome = thr[j].nome, thr'[j].scritti = thr[j].scritti,
         ~thr'[j].insieme => ~thr[j].insieme,
         \A n \in Nomi : directory'[n] = thr[j].ino => directory[n] = thr[j].ino,
         ~thr[j].insieme => /\ directory'[thr[j].nome] = directory[thr[j].nome]
                            /\ contenuto'[thr[j].ino] = contenuto[thr[j].ino]
  PROVE  AperturaPut(j)'
<1>1. thr'[j].ino \in 1 .. Len(contenuto')
  BY DEF AperturaPut
<1>2. \A n \in Nomi : directory'[n] = thr'[j].ino => n = thr'[j].nome
  BY DEF AperturaPut
<1>3. ASSUME ~thr'[j].insieme
      PROVE  directory'[thr'[j].nome] = thr'[j].ino /\ contenuto'[thr'[j].ino] = SubSeq(Blocchi[j], 1, thr'[j].scritti)
  BY <1>3 DEF AperturaPut
<1> QED
  BY <1>1, <1>2, <1>3 DEF AperturaPut

\* Connection k alone moves.
Sola(k) ==
  \A j \in Conn \ {k} : /\ invio'[j] = invio[j] /\ nomeFile'[j] = nomeFile[j]
                        /\ inviati'[j] = inviati[j] /\ su'[j] = su[j]
                        /\ fineSu'[j] = fineSu[j] /\ fineGiu'[j] = fineGiu[j]

\* The steps of a client leave threads and files alone.
LEMMA ClientePutStep ==
  ASSUME PutInv, NEW k \in Conn, UNCHANGED <<fileVars, modo, thr>>, PutTipi', Sola(k),
         thr[k] # NessunThread => FlussoPut(k)'
  PROVE  PutInv'
<1>1. FileOK' /\ IncontriPut'
  BY DEF PutInv, FileOK, IncontriPut, Servito, fileVars
<1>2. \A j \in Conn : thr'[j] # NessunThread => FlussoPut(j)'
  <2> SUFFICES ASSUME NEW j \in Conn, thr'[j] # NessunThread, j # k PROVE FlussoPut(j)'
    OBVIOUS
  <2>1. FlussoPut(j)
    BY DEF PutInv
  <2> QED
    BY <2>1, FlussoFermo DEF Sola
<1>3. \A j \in Conn : Aperto(j)' => AperturaPut(j)'
  BY DEF PutInv, Aperto, AperturaPut, fileVars
<1> QED
  BY <1>1, <1>2, <1>3 DEF PutInv

LEMMA SocketStep ==
  ASSUME PutInv, NEW k \in Conn, Socket(k)
  PROVE  PutInv'
<1>1. /\ modo # "spento" /\ invio[k] = "prima" /\ invio' = [invio EXCEPT ![k] = "nome"]
      /\ thr' = [thr EXCEPT ![k] = [stato |-> "coda"]] /\ UNCHANGED <<fileVars, modo, inviati>>
      /\ su' = [su EXCEPT ![k] = <<>>] /\ giu' = [giu EXCEPT ![k] = <<>>]
      /\ fineSu' = [fineSu EXCEPT ![k] = FALSE] /\ fineGiu' = [fineGiu EXCEPT ![k] = FALSE]
  BY DEF Socket, connect
<1>2. PICK n \in FileInviati : nomeFile' = [nomeFile EXCEPT ![k] = n]
  BY DEF Socket
<1>3. PutTipi
  BY DEF PutInv
<1>4. PutTipi'
  BY <1>1, <1>2, <1>3 DEF PutTipi
<1>5. FileOK'
  BY <1>1 DEF PutInv, FileOK, fileVars
<1>6. thr'[k] = [stato |-> "coda"] /\ \A j \in Conn \ {k} : thr'[j] = thr[j]
  BY <1>1, <1>3 DEF PutTipi
<1>7. ~Servito(k)' /\ ~Aperto(k)'
  BY <1>6 DEF Servito, StatiAttivi, Aperto, StatiAperti
<1>8. IncontriPut'
  BY <1>6, <1>7 DEF PutInv, IncontriPut, Servito
<1>9. FlussoPut(k)'
  <2>1. inviati[k] = 0
    BY <1>1, <1>3 DEF PutTipi
  <2>2. /\ invio'[k] = "nome" /\ nomeFile'[k] = n /\ su'[k] = <<>> /\ inviati'[k] = 0
        /\ fineSu'[k] = FALSE /\ fineGiu'[k] = FALSE
    BY <1>1, <1>2, <1>3, <2>1 DEF PutTipi
  <2>3. Len(Blocchi[k]) \in Nat
    BY PutFileAssumption, SequenzaTipo
  <2> QED
    BY <1>7, <2>2, <2>3 DEF FlussoPut
<1>10. \A j \in Conn : thr'[j] # NessunThread => FlussoPut(j)'
  <2> SUFFICES ASSUME NEW j \in Conn, thr'[j] # NessunThread, j # k PROVE FlussoPut(j)'
    BY <1>9
  <2>1. FlussoPut(j)
    BY <1>6 DEF PutInv
  <2>2. /\ invio'[j] = invio[j] /\ nomeFile'[j] = nomeFile[j] /\ inviati'[j] = inviati[j]
        /\ su'[j] = su[j] /\ fineSu'[j] = fineSu[j] /\ fineGiu'[j] = fineGiu[j] /\ thr'[j] = thr[j]
    BY <1>1, <1>2, <1>3, <1>6 DEF PutTipi
  <2> QED
    BY <2>1, <2>2, FlussoFermo
<1>11. \A j \in Conn : Aperto(j)' => AperturaPut(j)'
  BY <1>1, <1>6, <1>7 DEF PutInv, Aperto, AperturaPut, fileVars
<1> QED
  BY <1>4, <1>5, <1>8, <1>10, <1>11 DEF PutInv

LEMMA writeUTFStep ==
  ASSUME PutInv, NEW k \in Conn, writeUTF(k)
  PROVE  PutInv'
<1>1. /\ invio[k] = "nome" /\ su' = [su EXCEPT ![k] = @ \o <<nomeFile[k]>>]
      /\ invio' = [invio EXCEPT ![k] = "dati"]
      /\ UNCHANGED <<giu, fineSu, fineGiu, fileVars, modo, nomeFile, inviati, thr>>
  BY DEF writeUTF, scriveSu
<1>2. PutTipi
  BY DEF PutInv
<1>3. PutTipi'
  BY <1>1, <1>2 DEF PutTipi
<1>4. ASSUME thr[k] # NessunThread PROVE FlussoPut(k)'
  <2>1. FlussoPut(k)
    BY <1>4 DEF PutInv
  <2>2. ~Servito(k) /\ inviati[k] = 0 /\ su[k] = <<>>
    BY <1>1, <2>1 DEF FlussoPut
  <2>3. su'[k] = <<nomeFile[k]>> \o SubSeq(Blocchi[k], 1, inviati'[k]) /\ invio'[k] = "dati"
    <3>1. SubSeq(Blocchi[k], 1, 0) = <<>>
      BY SubSeqEmpty
    <3>2. <<>> \o <<nomeFile[k]>> = <<nomeFile[k]>> /\ <<nomeFile[k]>> \o <<>> = <<nomeFile[k]>>
      <4>1. <<nomeFile[k]>> \in Seq({nomeFile[k]})
        OBVIOUS
      <4> QED
        BY <4>1, ConcatEmptySeq
    <3> QED
      BY <1>1, <1>2, <2>2, <3>1, <3>2 DEF PutTipi
  <2>4. ~Servito(k)'
    BY <1>1, <2>2 DEF Servito
  <2> QED
    BY <1>1, <2>1, <2>3, <2>4 DEF FlussoPut
<1>9. Sola(k)
  BY <1>1, <1>2, <1>3, <1>4 DEF PutTipi, Sola
<1> QED
  BY <1>1, <1>2, <1>3, <1>4, <1>9, ClientePutStep

\* The client of a thread that is served goes on as long as it can.
LEMMA trasferisceStep ==
  ASSUME PutInv, NEW k \in Conn, trasferisce(k)
  PROVE  PutInv'
<1>1. PutTipi /\ Len(Blocchi[k]) \in Nat /\ Sequenza(Blocchi[k]) /\ inviati[k] \in Nat
  BY PutFileAssumption, SequenzaTipo DEF PutInv, PutTipi
<1>2. invio[k] = "dati" /\ UNCHANGED <<fileVars, modo, nomeFile, thr>>
  BY DEF trasferisce
<1>3. CASE /\ inviati[k] < Len(Blocchi[k])
           /\ scriveSu(k, <<Blocchi[k][inviati[k] + 1]>>)
           /\ inviati' = [inviati EXCEPT ![k] = @ + 1] /\ UNCHANGED invio
  <2>1. /\ su' = [su EXCEPT ![k] = @ \o <<Blocchi[k][inviati[k] + 1]>>]
        /\ UNCHANGED <<giu, fineSu, fineGiu>>
    BY <1>3 DEF scriveSu
  <2>2. PutTipi'
    BY <1>1, <1>2, <1>3, <2>1 DEF PutTipi
  <2>3. ASSUME thr[k] # NessunThread PROVE FlussoPut(k)'
    <3>1. FlussoPut(k)
      BY <2>3 DEF PutInv
    <3>2. su'[k] = su[k] \o <<Blocchi[k][inviati[k] + 1]>> /\ inviati'[k] = inviati[k] + 1 /\ invio'[k] = "dati"
      BY <1>1, <1>2, <1>3, <2>1 DEF PutTipi
    <3>3. ASSUME ~Servito(k)
          PROVE  su'[k] = <<nomeFile[k]>> \o SubSeq(Blocchi[k], 1, inviati'[k])
      <4> DEFINE q == SubSeq(Blocchi[k], 1, inviati[k])
                 S == {Blocchi[k][i] : i \in DOMAIN Blocchi[k]} \cup {nomeFile[k]}
      <4>1. su[k] = <<nomeFile[k]>> \o q
        BY <1>2, <3>1, <3>3 DEF FlussoPut
      <4>2. q \o <<Blocchi[k][inviati[k] + 1]>> = SubSeq(Blocchi[k], 1, inviati[k] + 1)
        <5>1. inviati[k] <= Len(Blocchi[k])
          BY <1>1, <1>3
        <5> QED
          BY <1>1, <1>3, <5>1, Prefisso
      <4>3. <<nomeFile[k]>> \in Seq(S) /\ q \in Seq(S) /\ <<Blocchi[k][inviati[k] + 1]>> \in Seq(S)
        <5>1. \A i \in 1 .. inviati[k] : Blocchi[k][i] \in S
          BY <1>1, <1>3, SequenzaTipo
        <5>2. Blocchi[k][inviati[k] + 1] \in S
          BY <1>1, <1>3, SequenzaTipo
        <5>3. nomeFile[k] \in S
          OBVIOUS
        <5> HIDE DEF S
        <5>4. q \in Seq(S)
          BY <1>1, <5>1, SubSeqProperties
        <5> QED
          BY <5>2, <5>3, <5>4
      <4> HIDE DEF S, q
      <4>4. (<<nomeFile[k]>> \o q) \o <<Blocchi[k][inviati[k] + 1]>>
              = <<nomeFile[k]>> \o (q \o <<Blocchi[k][inviati[k] + 1]>>)
        BY <4>3, ConcatAssociative
      <4> QED
        BY <3>2, <4>1, <4>2, <4>4
    <3>4. ASSUME Servito(k)
          PROVE  su'[k] = SubSeq(Blocchi[k], thr[k].scritti + 1, inviati'[k])
      <4>1. thr[k].scritti \in Nat /\ thr[k].scritti <= inviati[k]
        BY <1>1, <3>1, <3>4, ThreadTipo DEF FlussoPut, Thread
      <4>2. su[k] = SubSeq(Blocchi[k], thr[k].scritti + 1, inviati[k])
        BY <3>1, <3>4 DEF FlussoPut
      <4> QED
        BY <1>1, <1>3, <3>2, <4>1, <4>2, PezzoScritto, ZenonT(30)
    <3>5. thr[k].stato # "risponde"
      <4> SUFFICES ASSUME thr[k].stato = "risponde" PROVE FALSE
        OBVIOUS
      <4>1. Servito(k) /\ thr[k].scritti \in Nat
        BY <1>1, ThreadTipo DEF Servito, StatiAttivi, Thread
      <4> QED
        BY <1>1, <1>2, <1>3, <3>1, <4>1 DEF FlussoPut
    <3>6. Servito(k)' <=> Servito(k)
      BY <1>2 DEF Servito
    <3>7. fineSu'[k] = fineSu[k] /\ fineGiu'[k] = fineGiu[k] /\ thr'[k] = thr[k] /\ nomeFile'[k] = nomeFile[k]
      BY <1>2, <2>1
    <3>8. ~fineSu[k]
      BY <1>2, <3>1 DEF FlussoPut
    <3>9. Servito(k) => thr[k].scritti <= inviati'[k] /\ (thr[k].stato \in {"distrugge", "apre"} => thr[k].scritti = 0)
      <4>1. Servito(k) => thr[k].scritti \in Nat
        BY <1>1, ThreadTipo DEF Thread
      <4> QED
        BY <1>1, <3>1, <3>2, <4>1 DEF FlussoPut
    <3>10. ~Servito(k)' => su'[k] = <<nomeFile'[k]>> \o SubSeq(Blocchi[k], 1, inviati'[k])
      BY <3>3, <3>6, <3>7
    <3>11. Servito(k)' =>
             /\ thr'[k].scritti <= inviati'[k]
             /\ su'[k] = SubSeq(Blocchi[k], thr'[k].scritti + 1, inviati'[k])
             /\ thr'[k].stato \in {"distrugge", "apre"} => thr'[k].scritti = 0
             /\ thr'[k].stato # "risponde"
      BY <3>4, <3>5, <3>6, <3>7, <3>9
    <3>12. nomeFile'[k] \in FileInviati /\ inviati'[k] <= Len(Blocchi[k]) /\ ~fineSu'[k] /\ ~fineGiu'[k]
      BY <1>1, <1>3, <3>1, <3>2, <3>7, <3>8 DEF FlussoPut
    <3> QED
      BY <3>2, <3>10, <3>11, <3>12 DEF FlussoPut
  <2>9. Sola(k)
    BY <1>1, <1>2, <1>3, <2>1, <2>2, <2>3 DEF PutTipi, Sola
  <2> QED
    BY <1>1, <1>2, <1>3, <2>1, <2>2, <2>3, <2>9, ClientePutStep
<1>4. CASE inviati[k] = Len(Blocchi[k]) /\ chiudeSu(k) /\ invio' = [invio EXCEPT ![k] = "esito"] /\ UNCHANGED inviati
  <2>1. fineSu' = [fineSu EXCEPT ![k] = TRUE] /\ UNCHANGED <<su, giu, fineGiu>>
    BY <1>4 DEF chiudeSu
  <2>2. PutTipi'
    BY <1>1, <1>2, <1>4, <2>1 DEF PutTipi
  <2>3. ASSUME thr[k] # NessunThread PROVE FlussoPut(k)'
    <3>1. FlussoPut(k) /\ invio'[k] = "esito"
      BY <1>1, <1>4, <2>3 DEF PutInv, PutTipi
    <3> QED
      BY <1>1, <1>2, <1>4, <2>1, <3>1 DEF FlussoPut, Servito
  <2>9. Sola(k)
    BY <1>1, <1>2, <1>4, <2>1, <2>2, <2>3 DEF PutTipi, Sola
  <2> QED
    BY <1>1, <1>2, <1>4, <2>1, <2>2, <2>3, <2>9, ClientePutStep
<1>5. CASE fineGiu[k] /\ chiudeSu(k) /\ invio' = [invio EXCEPT ![k] = "finito"] /\ UNCHANGED inviati
  <2>1. fineSu' = [fineSu EXCEPT ![k] = TRUE] /\ UNCHANGED <<su, giu, fineGiu>>
    BY <1>5 DEF chiudeSu
  <2>2. PutTipi'
    BY <1>1, <1>2, <1>5, <2>1 DEF PutTipi
  <2>3. thr[k] = NessunThread
    BY <1>5 DEF PutInv, FlussoPut
  <2>9. Sola(k)
    BY <1>1, <1>2, <1>5, <2>1, <2>2, <2>3 DEF PutTipi, Sola
  <2> QED
    BY <1>1, <1>2, <1>5, <2>1, <2>2, <2>3, <2>9, ClientePutStep
<1> QED
  BY <1>3, <1>4, <1>5 DEF trasferisce

LEMMA readUTFStep ==
  ASSUME PutInv, NEW k \in Conn, readUTF(k)
  PROVE  PutInv'
<1>1. /\ invio[k] = "esito" /\ invio' = [invio EXCEPT ![k] = "finito"]
      /\ UNCHANGED <<su, fineSu, fineGiu, fileVars, modo, nomeFile, inviati, thr>>
      /\ (giu' = giu \/ giu' = [giu EXCEPT ![k] = SubSeq(@, 1 + 1, Len(@))])
  BY DEF readUTF, leggeGiu, tcpVars
<1>2. PutTipi
  BY DEF PutInv
<1>3. PutTipi'
  BY <1>1, <1>2 DEF PutTipi
<1>4. ASSUME thr[k] # NessunThread PROVE FlussoPut(k)'
  <2>1. FlussoPut(k) /\ invio'[k] = "finito"
    BY <1>1, <1>2, <1>4 DEF PutInv, PutTipi
  <2> QED
    BY <1>1, <2>1 DEF FlussoPut, Servito
<1>9. Sola(k)
  BY <1>1, <1>2, <1>3, <1>4 DEF PutTipi, Sola
<1> QED
  BY <1>1, <1>2, <1>3, <1>4, <1>9, ClientePutStep

LEMMA uccisoStep ==
  ASSUME PutInv, NEW k \in Conn, ucciso(k)
  PROVE  PutInv'
<1>1. /\ invio[k] \in {"nome", "dati", "esito"} /\ invio' = [invio EXCEPT ![k] = "morto"]
      /\ fineSu' = [fineSu EXCEPT ![k] = TRUE]
      /\ UNCHANGED <<su, giu, fineGiu, fileVars, modo, nomeFile, inviati, thr>>
  BY DEF ucciso, chiudeSu
<1>2. PutTipi
  BY DEF PutInv
<1>3. PutTipi'
  BY <1>1, <1>2 DEF PutTipi
<1>4. ASSUME thr[k] # NessunThread PROVE FlussoPut(k)'
  <2>1. FlussoPut(k) /\ invio'[k] = "morto"
    BY <1>1, <1>2, <1>4 DEF PutInv, PutTipi
  <2> QED
    BY <1>1, <2>1 DEF FlussoPut, Servito
<1>9. Sola(k)
  BY <1>1, <1>2, <1>3, <1>4 DEF PutTipi, Sola
<1> QED
  BY <1>1, <1>2, <1>3, <1>4, <1>9, ClientePutStep

-----------------------------------------------------------------------------
(* The steps of the servers. *)

\* What they share: the client's side stays, and so do the streams and threads
\* of the other connections.
ServerPut(k) ==
  /\ UNCHANGED <<modo, invio, nomeFile, inviati>> /\ modo # "spento"
  /\ DOMAIN su' = Conn /\ DOMAIN giu' = Conn
  /\ fineSu' \in [Conn -> BOOLEAN] /\ fineGiu' \in [Conn -> BOOLEAN]
  /\ thr' \in [Conn -> {NessunThread, [stato |-> "coda"], [stato |-> "nome"]} \cup Thread]
  /\ \A j \in Conn \ {k} : /\ su'[j] = su[j] /\ fineSu'[j] = fineSu[j] /\ fineGiu'[j] = fineGiu[j]
                           /\ thr'[j] = thr[j]

\* What is left to show of each: what becomes of its own connection, and that
\* the files others have open are theirs still.
LEMMA ServerPutStep ==
  ASSUME PutInv, NEW k \in Conn, ServerPut(k), FileOK', Len(contenuto') >= Len(contenuto),
         thr'[k] # NessunThread => FlussoPut(k)',
         Aperto(k)' => AperturaPut(k)',
         Servito(k)' => /\ Servito(k) /\ thr'[k].nome = thr[k].nome /\ thr'[k].insieme = thr[k].insieme,
         \A j \in Conn \ {k} : Aperto(j) =>
           /\ \A n \in Nomi : directory'[n] = thr[j].ino => directory[n] = thr[j].ino
           /\ ~thr[j].insieme => /\ directory'[thr[j].nome] = directory[thr[j].nome]
                                 /\ contenuto'[thr[j].ino] = contenuto[thr[j].ino]
  PROVE  PutInv'
<1>1. PutTipi'
  BY DEF PutInv, PutTipi, ServerPut
<1>2. \A j \in Conn : thr'[j] # NessunThread => FlussoPut(j)'
  <2> SUFFICES ASSUME NEW j \in Conn, thr'[j] # NessunThread, j # k PROVE FlussoPut(j)'
    OBVIOUS
  <2>1. FlussoPut(j)
    BY DEF PutInv, ServerPut
  <2>2. /\ invio'[j] = invio[j] /\ nomeFile'[j] = nomeFile[j] /\ inviati'[j] = inviati[j]
        /\ su'[j] = su[j] /\ fineSu'[j] = fineSu[j] /\ fineGiu'[j] = fineGiu[j] /\ thr'[j] = thr[j]
    BY DEF ServerPut
  <2> QED
    BY <2>1, <2>2, FlussoFermo
<1>3. \A j \in Conn : Aperto(j)' => AperturaPut(j)'
  <2> SUFFICES ASSUME NEW j \in Conn, Aperto(j)', j # k PROVE AperturaPut(j)'
    OBVIOUS
  <2>1. thr'[j] = thr[j]
    BY DEF ServerPut
  <2>2. Aperto(j)
    BY <2>1 DEF Aperto
  <2>3. AperturaPut(j)
    BY <2>2 DEF PutInv
  <2>4. Len(contenuto) \in Nat /\ Len(contenuto') \in Nat
    BY SequenzaTipo DEF PutInv, FileOK
  <2> QED
    BY <2>1, <2>2, <2>3, <2>4, AperturaFerma
<1>4. IncontriPut'
  <2> SUFFICES ASSUME NEW i \in Conn, NEW j \in Conn, i # j, Servito(i)', Servito(j)', thr'[i].nome = thr'[j].nome
               PROVE  thr'[j].insieme
    BY DEF IncontriPut
  <2>1. \A h \in Conn : Servito(h)' => Servito(h) /\ thr'[h].nome = thr[h].nome /\ thr'[h].insieme = thr[h].insieme
    BY DEF ServerPut, Servito
  <2> QED
    BY <2>1 DEF PutInv, IncontriPut
<1> QED
  BY <1>1, <1>2, <1>3, <1>4 DEF PutInv

\* A connection is accepted, or left.
LEMMA accettaStep ==
  ASSUME PutInv, NEW k \in Conn, accetta(k)
  PROVE  PutInv'
<1>1. /\ thr[k].stato = "coda" /\ thr' = [thr EXCEPT ![k] = [stato |-> "nome"]]
      /\ UNCHANGED <<tcpVars, fileVars, modo, clientePut>>
  BY DEF accetta
<1>2. PutTipi /\ thr[k] # NessunThread
  BY <1>1 DEF PutInv, NessunThread
<1>3. thr'[k] = [stato |-> "nome"]
  BY <1>1, <1>2 DEF PutTipi
<1>4. ServerPut(k)
  BY <1>1, <1>2 DEF ServerPut, PutTipi, tcpVars, clientePut
<1>5. ~Servito(k)' /\ ~Aperto(k)' /\ ~Servito(k)
  BY <1>1, <1>3 DEF Servito, StatiAttivi, Aperto, StatiAperti
<1>6. FlussoPut(k)'
  <2>1. FlussoPut(k)
    BY <1>2 DEF PutInv
  <2> QED
    BY <1>1, <1>5, <2>1 DEF FlussoPut, tcpVars, clientePut
<1>7. FileOK' /\ Len(contenuto') >= Len(contenuto)
  BY <1>1, SequenzaTipo DEF PutInv, FileOK, fileVars
<1> QED
  BY <1>1, <1>4, <1>5, <1>6, <1>7, ServerPutStep DEF fileVars

LEMMA lasciaStep ==
  ASSUME PutInv, NEW k \in Conn, rispondi(k) \/ scade(k)
  PROVE  PutInv'
<1>1. /\ thr[k].stato \in {"nome", "riceve", "risponde"} /\ thr' = [thr EXCEPT ![k] = NessunThread]
      /\ fineGiu' = fineGiu \/ fineGiu' = [fineGiu EXCEPT ![k] = TRUE]
      /\ giu' = giu \/ giu' = [giu EXCEPT ![k] = Append(@, "salvato")]
      /\ UNCHANGED <<su, fineSu, fileVars, modo, clientePut>>
  BY DEF rispondi, scade, chiudeGiu, tcpVars
<1>2. PutTipi /\ thr[k] # NessunThread
  BY <1>1 DEF PutInv, NessunThread
<1>3. thr'[k] = NessunThread
  BY <1>1, <1>2 DEF PutTipi
<1>4. ServerPut(k)
  BY <1>1, <1>2 DEF ServerPut, PutTipi, clientePut
<1>5. ~Servito(k)' /\ ~Aperto(k)'
  BY <1>3 DEF Servito, StatiAttivi, Aperto, StatiAperti, NessunThread
<1>7. FileOK' /\ Len(contenuto') >= Len(contenuto)
  BY <1>1, SequenzaTipo DEF PutInv, FileOK, fileVars
<1> QED
  BY <1>1, <1>3, <1>4, <1>5, <1>7, ServerPutStep DEF fileVars

\* The server ends: no thread is left, and the files are as they were.
LEMMA non_creaStep ==
  ASSUME PutInv, NEW k \in Conn, non_crea(k)
  PROVE  PutInv'
<1>1. /\ modo' = "caduto" /\ thr' = [j \in Conn |-> NessunThread]
      /\ fineGiu' = [j \in Conn |-> invio[j] # "prima" \/ fineGiu[j]]
      /\ UNCHANGED <<su, giu, fineSu, fileVars, clientePut>>
  BY DEF non_crea
<1>2. \A j \in Conn : thr'[j] = NessunThread
  BY <1>1
<1>3. \A j \in Conn : ~Servito(j)' /\ ~Aperto(j)'
  BY <1>2 DEF Servito, StatiAttivi, Aperto, StatiAperti, NessunThread
<1>4. fineGiu' \in [Conn -> BOOLEAN]
  BY <1>1, Zenon DEF PutInv, PutTipi
<1>5. PutTipi'
  BY <1>1, <1>4 DEF PutInv, PutTipi, clientePut
<1>6. FileOK'
  BY <1>1 DEF PutInv, FileOK, fileVars
<1> QED
  BY <1>2, <1>3, <1>5, <1>6 DEF PutInv, IncontriPut

\* A name is read: whoever works on that name has met this thread.
LEMMA leggi_nomeStep ==
  ASSUME PutInv, NEW k \in Conn, leggi_nome(k)
  PROVE  PutInv'
<1> DEFINE n == Head(su[k])
<1>1. /\ thr[k].stato = "nome" /\ 1 <= Len(su[k]) /\ su' = [su EXCEPT ![k] = SubSeq(@, 1 + 1, Len(@))]
      /\ UNCHANGED <<giu, fineSu, fineGiu, fileVars, modo, clientePut>>
      /\ thr' = [j \in Conn |->
           IF j = k THEN [stato |-> IF esiste(n) THEN "distrugge" ELSE "apre", nome |-> n,
                          scritti |-> 0, ino |-> 0, insieme |-> Insieme(k, n)]
           ELSE IF j \in InServizio /\ thr[j].stato # "nome"
                THEN [thr[j] EXCEPT !.insieme = @ \/ thr[j].nome = n] ELSE thr[j]]
  BY DEF leggi_nome, leggeSu
<1>2. PutTipi /\ thr[k] # NessunThread /\ ~Servito(k)
  BY <1>1 DEF PutInv, NessunThread, Servito, StatiAttivi
<1>3. FlussoPut(k)
  BY <1>2 DEF PutInv
<1>4. Len(Blocchi[k]) \in Nat /\ Sequenza(Blocchi[k]) /\ inviati[k] \in Nat /\ inviati[k] <= Len(Blocchi[k])
  BY <1>2, <1>3, PutFileAssumption, SequenzaTipo DEF PutTipi, FlussoPut
<1>5. /\ n = nomeFile[k] /\ n \in FileInviati /\ invio[k] # "nome"
      /\ SubSeq(su[k], 2, Len(su[k])) = SubSeq(Blocchi[k], 1, inviati[k])
  <2>1. su[k] # <<>>
    BY <1>1
  <2>2. invio[k] # "nome" /\ su[k] = <<nomeFile[k]>> \o SubSeq(Blocchi[k], 1, inviati[k])
    BY <1>2, <1>3, <2>1 DEF FlussoPut
  <2>3. Sequenza(SubSeq(Blocchi[k], 1, inviati[k]))
    BY <1>4, Prefisso
  <2>4. n = nomeFile[k] /\ SubSeq(su[k], 2, Len(su[k])) = SubSeq(Blocchi[k], 1, inviati[k])
    BY <2>2, <2>3, TestaLetta
  <2> QED
    BY <1>3, <2>2, <2>4 DEF FlussoPut
<1> HIDE DEF n
<1>6. \A j \in Conn : Servito(j) <=> j \in InServizio /\ thr[j].stato # "nome"
  BY <1>2, ThreadTipo DEF Servito, StatiAttivi, InServizio
<1>7. Insieme(k, n) \in BOOLEAN /\ (Insieme(k, n) <=> \E j \in Conn \ {k} : Servito(j) /\ thr[j].nome = n)
  <2>1. InServizio \subseteq Conn
    BY DEF InServizio
  <2> QED
    BY <1>6, <2>1 DEF Insieme
<1>8. /\ thr'[k].stato \in {"distrugge", "apre"} /\ thr'[k].nome = n /\ thr'[k].scritti = 0 /\ thr'[k].ino = 0
      /\ thr'[k].insieme = Insieme(k, n) /\ thr'[k] \in Thread
  BY <1>1, <1>5, <1>7 DEF Thread, StatiAttivi
<1>9. \A j \in Conn \ {k} : thr'[j] = IF Servito(j) THEN [thr[j] EXCEPT !.insieme = @ \/ thr[j].nome = n] ELSE thr[j]
  BY <1>1, <1>6
<1>10. \A j \in Conn \ {k} : Servito(j) =>
         /\ thr[j] \in Thread /\ thr'[j] \in Thread
         /\ thr'[j].stato = thr[j].stato /\ thr'[j].nome = thr[j].nome /\ thr'[j].scritti = thr[j].scritti
         /\ thr'[j].ino = thr[j].ino
         /\ thr'[j].insieme = (thr[j].insieme \/ thr[j].nome = n)
  <2> SUFFICES ASSUME NEW j \in Conn \ {k}, Servito(j)
               PROVE /\ thr[j] \in Thread /\ thr'[j] \in Thread
                     /\ thr'[j].stato = thr[j].stato /\ thr'[j].nome = thr[j].nome /\ thr'[j].scritti = thr[j].scritti
                     /\ thr'[j].ino = thr[j].ino
                     /\ thr'[j].insieme = (thr[j].insieme \/ thr[j].nome = n)
    OBVIOUS
  <2>1. thr[j] \in Thread
    BY <1>2, ThreadTipo
  <2> DEFINE b == thr[j].insieme \/ thr[j].nome = n
  <2>2. thr'[j] = [thr[j] EXCEPT !.insieme = b] /\ b \in BOOLEAN
    BY <1>9
  <2> QED
    BY <2>1, <2>2 DEF Thread
<1>11. PutTipi'
  <2>1. thr' \in [Conn -> {NessunThread, [stato |-> "coda"], [stato |-> "nome"]} \cup Thread]
    <3>1. DOMAIN thr' = Conn /\ thr' = [j \in Conn |-> thr'[j]]
      BY <1>1
    <3>2. \A j \in Conn : thr'[j] \in {NessunThread, [stato |-> "coda"], [stato |-> "nome"]} \cup Thread
      BY <1>2, <1>8, <1>9, <1>10, ZenonT(30) DEF PutTipi
    <3> QED
      BY <3>1, <3>2
  <2>2. modo # "spento"
    BY <1>1, <1>2 DEF PutTipi, NessunThread
  <2> QED
    BY <1>1, <1>2, <2>1, <2>2 DEF PutTipi, clientePut
<1>12. FileOK'
  BY <1>1 DEF PutInv, FileOK, fileVars
<1>13. \A j \in Conn \ {k} : thr'[j].stato = thr[j].stato
  BY <1>9, <1>10
<1>14. IncontriPut'
  <2> SUFFICES ASSUME NEW i \in Conn, NEW j \in Conn, i # j, Servito(i)', Servito(j)', thr'[i].nome = thr'[j].nome
               PROVE  thr'[j].insieme
    BY DEF IncontriPut
  <2>1. CASE j = k
    <3>1. Servito(i) /\ thr[i].nome = n
      BY <1>8, <1>10, <1>13, <2>1 DEF Servito
    <3> QED
      BY <1>7, <1>8, <2>1, <3>1
  <2>2. CASE i = k
    <3>1. Servito(j) /\ thr[j].nome = n
      BY <1>8, <1>10, <1>13, <2>2 DEF Servito
    <3> QED
      BY <1>10, <2>2, <3>1
  <2>3. CASE i # k /\ j # k
    <3>1. Servito(i) /\ Servito(j)
      BY <1>13, <2>3 DEF Servito
    <3> QED
      BY <1>10, <2>3, <3>1 DEF PutInv, IncontriPut
  <2> QED
    BY <2>1, <2>2, <2>3
<1>15. \A j \in Conn : thr'[j] # NessunThread => FlussoPut(j)'
  <2> SUFFICES ASSUME NEW j \in Conn, thr'[j] # NessunThread PROVE FlussoPut(j)'
    OBVIOUS
  <2>1. CASE j = k
    <3>1. su'[k] = SubSeq(Blocchi[k], thr'[k].scritti + 1, inviati'[k])
      <4>1. su'[k] = SubSeq(su[k], 2, Len(su[k]))
        BY <1>1, <1>2 DEF PutTipi
      <4>2. thr'[k].scritti + 1 = 1 /\ inviati'[k] = inviati[k]
        BY <1>1, <1>8 DEF clientePut
      <4> QED
        BY <1>5, <4>1, <4>2
    <3>2. Servito(k)' /\ thr'[k].stato # "risponde"
      BY <1>8 DEF Servito, StatiAttivi
    <3>3. /\ invio' = invio /\ nomeFile' = nomeFile /\ inviati' = inviati
          /\ fineSu' = fineSu /\ fineGiu' = fineGiu
      BY <1>1 DEF clientePut
    <3>4. thr'[k].scritti <= inviati'[k] /\ inviati'[k] <= Len(Blocchi[k])
      BY <1>4, <1>8, <3>3
    <3>5. /\ invio'[k] # "prima" /\ nomeFile'[k] \in FileInviati
          /\ invio'[k] \in {"esito", "finito"} => inviati'[k] = Len(Blocchi[k])
          /\ fineSu'[k] => invio'[k] \in {"esito", "finito", "morto"}
          /\ ~fineGiu'[k]
      BY <1>3, <3>3 DEF FlussoPut
    <3>6. invio'[k] # "nome"
      BY <1>5, <3>3
    <3> QED
      BY <1>8, <2>1, <3>1, <3>2, <3>4, <3>5, <3>6 DEF FlussoPut
  <2>2. CASE j # k
    <3>1. thr[j] # NessunThread
      BY <1>9, <2>2 DEF Servito, NessunThread, StatiAttivi
    <3>2. FlussoPut(j)
      BY <3>1 DEF PutInv
    <3>3. /\ invio'[j] = invio[j] /\ nomeFile'[j] = nomeFile[j] /\ inviati'[j] = inviati[j]
          /\ su'[j] = su[j] /\ fineSu'[j] = fineSu[j] /\ fineGiu'[j] = fineGiu[j]
      BY <1>1, <1>2, <2>2 DEF clientePut, PutTipi
    <3> QED
      BY <1>10, <1>13, <2>2, <3>2, <3>3, FlussoFermo
  <2> QED
    BY <2>1, <2>2
<1>16. \A j \in Conn : Aperto(j)' => AperturaPut(j)'
  <2> SUFFICES ASSUME NEW j \in Conn, Aperto(j)' PROVE AperturaPut(j)'
    OBVIOUS
  <2>1. j # k
    BY <1>8 DEF Aperto, StatiAperti
  <2>2. Aperto(j) /\ Servito(j)
    BY <1>13, <2>1 DEF Aperto, StatiAperti, Servito, StatiAttivi
  <2>3. AperturaPut(j)
    BY <2>2 DEF PutInv
  <2>4. Len(contenuto) \in Nat /\ directory' = directory /\ contenuto' = contenuto
    BY <1>1, SequenzaTipo DEF PutInv, FileOK, fileVars
  <2>5. ~thr'[j].insieme => ~thr[j].insieme
    BY <1>10, <2>1, <2>2
  <2> QED
    BY <1>10, <2>1, <2>2, <2>3, <2>4, <2>5, AperturaFerma
<1> QED
  BY <1>11, <1>12, <1>14, <1>15, <1>16 DEF PutInv

LEMMA distruggiStep ==
  ASSUME PutInv, NEW k \in Conn, distruggi(k)
  PROVE  PutInv'
<1>1. /\ thr[k].stato = "distrugge" /\ delete(thr[k].nome) /\ thr' = [thr EXCEPT ![k].stato = "apre"]
      /\ UNCHANGED <<tcpVars, modo, clientePut>>
  BY DEF distruggi
<1>2. PutTipi /\ FileOK /\ Servito(k) /\ thr[k] \in Thread /\ thr[k] # NessunThread
  BY <1>1, ThreadTipo DEF PutInv, Servito, StatiAttivi, NessunThread
<1>3. FlussoPut(k) /\ thr[k].nome \in Nomi
  BY <1>2, PutFileAssumption DEF PutInv, Thread
<1>4. /\ thr'[k] \in Thread /\ thr'[k].stato = "apre" /\ thr'[k].nome = thr[k].nome
      /\ thr'[k].scritti = thr[k].scritti /\ thr'[k].insieme = thr[k].insieme
  <2>1. thr'[k] = [thr[k] EXCEPT !.stato = "apre"]
    BY <1>1, <1>2 DEF PutTipi
  <2> QED
    BY <1>2, <2>1 DEF Thread, StatiAttivi
<1>5. ServerPut(k)
  BY <1>1, <1>2, <1>4 DEF ServerPut, PutTipi, tcpVars, clientePut
<1>6. ~Aperto(k)' /\ Servito(k)'
  BY <1>4 DEF Aperto, StatiAperti, Servito, StatiAttivi
<1>7. FlussoPut(k)'
  BY <1>1, <1>2, <1>3, <1>4, <1>6 DEF FlussoPut, tcpVars, clientePut
<1>8. /\ FileOK' /\ contenuto' = contenuto
      /\ \A m \in Nomi : directory'[m] = IF m = thr[k].nome THEN 0 ELSE directory[m]
  BY <1>1, <1>2, <1>3, CancellaFile
<1>9. ASSUME NEW j \in Conn \ {k}, Aperto(j)
      PROVE  /\ \A n \in Nomi : directory'[n] = thr[j].ino => directory[n] = thr[j].ino
             /\ ~thr[j].insieme => directory'[thr[j].nome] = directory[thr[j].nome]
  <2>1. AperturaPut(j) /\ Servito(j) /\ thr[j] \in Thread
    BY <1>2, <1>9, ThreadTipo DEF PutInv, Aperto, StatiAperti, Servito, StatiAttivi
  <2>2. thr[j].ino # 0
    BY <1>2, <2>1, SequenzaTipo DEF AperturaPut, FileOK
  <2>3. ~thr[j].insieme => thr[j].nome # thr[k].nome
    BY <1>2, <1>9, <2>1 DEF PutInv, IncontriPut
  <2>4. thr[j].nome \in Nomi
    BY <2>1, PutFileAssumption DEF Thread
  <2> QED
    BY <1>8, <2>2, <2>3, <2>4
<1>10. Len(contenuto') >= Len(contenuto)
  BY <1>2, <1>8, SequenzaTipo DEF FileOK
<1> QED
  BY <1>2, <1>4, <1>5, <1>6, <1>7, <1>8, <1>9, <1>10, ServerPutStep

\* The file is emptied or is new: no thread that worked alone has it.
LEMMA FileOutputStreamStep ==
  ASSUME PutInv, NEW k \in Conn, FileOutputStream(k)
  PROVE  PutInv'
<1> DEFINE n == thr[k].nome
<1>1. /\ thr[k].stato = "apre" /\ crea(n)
      /\ thr' = [thr EXCEPT ![k].stato = "riceve", ![k].ino = directory'[thr[k].nome]]
      /\ UNCHANGED <<tcpVars, modo, clientePut>>
  BY DEF FileOutputStream
<1>2. PutTipi /\ FileOK /\ Servito(k) /\ thr[k] \in Thread /\ thr[k] # NessunThread
  BY <1>1, ThreadTipo DEF PutInv, Servito, StatiAttivi, NessunThread
<1>3. FlussoPut(k) /\ n \in Nomi /\ thr[k].scritti = 0
  BY <1>1, <1>2, PutFileAssumption DEF PutInv, Thread, FlussoPut
<1>4. /\ FileOK' /\ directory'[n] \in 1 .. Len(contenuto') /\ contenuto'[directory'[n]] = <<>>
      /\ directory'[n] = IF directory[n] # 0 THEN directory[n] ELSE Len(contenuto) + 1
      /\ \A m \in Nomi \ {n} : directory'[m] = directory[m]
      /\ Len(contenuto') >= Len(contenuto)
      /\ \A i \in 1 .. Len(contenuto) : i # directory[n] => contenuto'[i] = contenuto[i]
  BY <1>1, <1>2, <1>3, CreaFile
<1>5. Len(contenuto) \in Nat /\ Len(contenuto') \in Nat
  BY <1>2, <1>4, SequenzaTipo DEF FileOK
<1>6. /\ thr'[k] \in Thread /\ thr'[k].stato = "riceve" /\ thr'[k].nome = n /\ thr'[k].ino = directory'[n]
      /\ thr'[k].scritti = 0 /\ thr'[k].insieme = thr[k].insieme
  <2>1. thr'[k] = [thr[k] EXCEPT !.stato = "riceve", !.ino = directory'[n]] /\ directory'[n] \in Nat
    BY <1>1, <1>2, <1>4, <1>5 DEF PutTipi
  <2> HIDE DEF n
  <2>2. n = thr[k].nome
    BY DEF n
  <2> QED
    BY <1>2, <1>3, <2>1, <2>2 DEF Thread, StatiAttivi
<1>7. ServerPut(k)
  <2>1. DOMAIN thr' = Conn /\ thr' = [j \in Conn |-> thr'[j]] /\ \A j \in Conn \ {k} : thr'[j] = thr[j]
    BY <1>1, <1>2 DEF PutTipi
  <2>2. thr' \in [Conn -> {NessunThread, [stato |-> "coda"], [stato |-> "nome"]} \cup Thread]
    <3> DEFINE S == {NessunThread, [stato |-> "coda"], [stato |-> "nome"]} \cup Thread
    <3>1. thr \in [Conn -> S] /\ thr'[k] \in S
      BY <1>2, <1>6 DEF PutTipi
    <3> HIDE DEF S
    <3>2. \A j \in Conn : thr'[j] \in S
      BY <2>1, <3>1
    <3>3. thr' \in [Conn -> S]
      BY <2>1, <3>2
    <3> QED
      BY <3>3 DEF S
  <2>3. modo # "spento"
    BY <1>2 DEF PutTipi
  <2>4. /\ UNCHANGED <<modo, invio, nomeFile, inviati, su, giu, fineSu, fineGiu>>
        /\ DOMAIN su = Conn /\ DOMAIN giu = Conn
        /\ fineSu \in [Conn -> BOOLEAN] /\ fineGiu \in [Conn -> BOOLEAN]
    BY <1>1, <1>2 DEF PutTipi, tcpVars, clientePut
  <2> QED
    BY <2>1, <2>2, <2>3, <2>4 DEF ServerPut
<1>8. Servito(k)'
  BY <1>6 DEF Servito, StatiAttivi
<1>9. FlussoPut(k)'
  BY <1>1, <1>2, <1>3, <1>6, <1>8 DEF FlussoPut, tcpVars, clientePut
<1>10. AperturaPut(k)'
  <2>1. SubSeq(Blocchi[k], 1, 0) = <<>>
    BY SubSeqEmpty
  <2>2. \A m \in Nomi : directory'[m] = directory'[n] => m = n
    BY <1>3, <1>4, <1>5 DEF FileOK
  <2> QED
    BY <1>4, <1>6, <2>1, <2>2 DEF AperturaPut
<1>11. ASSUME NEW j \in Conn \ {k}, Aperto(j)
       PROVE  /\ \A m \in Nomi : directory'[m] = thr[j].ino => directory[m] = thr[j].ino
              /\ ~thr[j].insieme => /\ directory'[thr[j].nome] = directory[thr[j].nome]
                                    /\ contenuto'[thr[j].ino] = contenuto[thr[j].ino]
  <2>1. AperturaPut(j) /\ Servito(j) /\ thr[j] \in Thread
    BY <1>2, <1>11, ThreadTipo DEF PutInv, Aperto, StatiAperti, Servito, StatiAttivi
  <2>2. thr[j].ino \in 1 .. Len(contenuto) /\ thr[j].nome \in Nomi
    BY <2>1, PutFileAssumption DEF AperturaPut, Thread
  <2>3. ~thr[j].insieme => thr[j].nome # n
    BY <1>2, <1>11, <2>1 DEF PutInv, IncontriPut
  <2>4. ~thr[j].insieme => directory[n] # thr[j].ino
    BY <1>3, <2>1, <2>3 DEF AperturaPut
  <2> HIDE DEF n
  <2> QED
    BY <1>3, <1>4, <1>5, <2>2, <2>3, <2>4
<1> QED
  BY <1>2, <1>4, <1>6, <1>7, <1>8, <1>9, <1>10, <1>11, ServerPutStep

\* A block goes to the file, after those that have come before it.
LEMMA riceviStep ==
  ASSUME PutInv, NEW k \in Conn, ricevi(k)
  PROVE  PutInv'
<1> DEFINE B == Blocchi[k]
           c == thr[k].scritti
<1>1. thr[k].stato = "riceve" /\ UNCHANGED <<modo, clientePut>>
  BY DEF ricevi
<1>2. PutTipi /\ FileOK /\ Servito(k) /\ Aperto(k) /\ thr[k] \in Thread /\ thr[k] # NessunThread
  BY <1>1, ThreadTipo DEF PutInv, Servito, StatiAttivi, NessunThread, Aperto, StatiAperti
<1>3. FlussoPut(k) /\ AperturaPut(k) /\ thr[k].nome \in Nomi
  BY <1>2, PutFileAssumption DEF PutInv, Thread
<1>4. /\ c \in Nat /\ inviati[k] \in Nat /\ c <= inviati[k] /\ inviati[k] <= Len(B) /\ Len(B) \in Nat
      /\ Sequenza(B) /\ su[k] = SubSeq(B, c + 1, inviati[k])
  BY <1>2, <1>3, PutFileAssumption, SequenzaTipo DEF FlussoPut, PutTipi, Thread
<1>7. Pezzo(B, c, inviati[k])
  <2> HIDE DEF B, c
  <2> QED
    BY <1>4, PezzoLetto
<1>5. CASE /\ su[k] # <<>> /\ leggeSu(k, 1)
           /\ scrivi(thr[k].ino, c + 1, <<Head(su[k])>>)
           /\ thr' = [thr EXCEPT ![k].scritti = @ + 1]
  <2>1. su' = [su EXCEPT ![k] = SubSeq(@, 1 + 1, Len(@))] /\ UNCHANGED <<giu, fineSu, fineGiu>>
    BY <1>5 DEF leggeSu
  <2>2. c < inviati[k] /\ Head(su[k]) = B[c + 1] /\ su'[k] = SubSeq(B, c + 2, inviati[k])
    <3>1. su[k] = <<>> <=> c = inviati[k]
      BY <1>4, <1>7 DEF Pezzo
    <3>2. c < inviati[k]
      BY <1>4, <1>5, <3>1
    <3>3. Head(su[k]) = B[c + 1] /\ SubSeq(su[k], 2, Len(su[k])) = SubSeq(B, c + 2, inviati[k])
      <4> HIDE DEF B, c
      <4> DEFINE q == SubSeq(B, c + 1, inviati[k])
      <4>1. Head(q) = B[c + 1] /\ SubSeq(q, 2, Len(q)) = SubSeq(B, c + 2, inviati[k])
        BY <1>7, <3>2 DEF Pezzo
      <4>2. su[k] = q
        BY <1>4
      <4> HIDE DEF q
      <4> QED
        BY <4>1, <4>2
    <3>4. su'[k] = SubSeq(su[k], 2, Len(su[k]))
      BY <1>2, <2>1 DEF PutTipi
    <3> QED
      BY <3>2, <3>3, <3>4
  <2>3. /\ thr'[k] \in Thread /\ thr'[k].stato = "riceve" /\ thr'[k].nome = thr[k].nome
        /\ thr'[k].ino = thr[k].ino /\ thr'[k].scritti = c + 1 /\ thr'[k].insieme = thr[k].insieme
    <3>1. thr'[k] = [thr[k] EXCEPT !.scritti = c + 1] /\ c + 1 \in Nat
      BY <1>2, <1>4, <1>5 DEF PutTipi
    <3> HIDE DEF c
    <3> QED
      BY <1>1, <1>2, <3>1 DEF Thread
  <2>4. ServerPut(k)
    BY <1>1, <1>2, <1>5, <2>1, <2>3 DEF ServerPut, PutTipi, clientePut
  <2>5. Servito(k)' /\ Aperto(k)'
    BY <2>3 DEF Servito, StatiAttivi, Aperto, StatiAperti
  <2>6. FlussoPut(k)'
    <3>1. c + 2 = thr'[k].scritti + 1 /\ thr'[k].scritti <= inviati[k]
      BY <1>4, <2>2, <2>3
    <3>2. su'[k] = SubSeq(Blocchi[k], thr'[k].scritti + 1, inviati[k])
      BY <2>2, <3>1
    <3>3. invio' = invio /\ nomeFile' = nomeFile /\ inviati' = inviati
      BY <1>1 DEF clientePut
    <3> HIDE DEF B, c
    <3> QED
      BY <1>2, <1>3, <2>1, <2>3, <2>5, <3>1, <3>2, <3>3 DEF FlussoPut
  <2>7. /\ FileOK' /\ directory' = directory /\ Len(contenuto') = Len(contenuto)
        /\ contenuto'[thr[k].ino] = Scritto(thr[k].ino, c + 1, <<B[c + 1]>>)
        /\ \A i \in 1 .. Len(contenuto) \ {thr[k].ino} : contenuto'[i] = contenuto[i]
    <3>1. Sequenza(<<B[c + 1]>>)
      <4>1. <<B[c + 1]>> \in Seq({B[c + 1]})
        OBVIOUS
      <4> QED
        BY <4>1, SequenzaDi
    <3>2. scrivi(thr[k].ino, c + 1, <<B[c + 1]>>) /\ c + 1 \in Nat \ {0} /\ thr[k].ino \in 1 .. Len(contenuto)
      <4>1. scrivi(thr[k].ino, c + 1, <<B[c + 1]>>)
        BY <1>5, <2>2
      <4>2. c + 1 \in Nat \ {0}
        BY <1>4
      <4> QED
        BY <1>3, <4>1, <4>2 DEF AperturaPut
    <3> HIDE DEF B, c
    <3> QED
      BY <1>2, <3>1, <3>2, ScriviFile
  <2>8. AperturaPut(k)'
    <3>1. ~thr[k].insieme => directory[thr[k].nome] = thr[k].ino /\ contenuto'[thr[k].ino] = SubSeq(B, 1, c + 1)
      <4>1. c < Len(B)
        BY <1>4, <2>2
      <4> QED
        BY <1>3, <1>4, <2>7, <4>1, UnoInPiu, ZenonT(30) DEF AperturaPut
    <3> QED
      BY <1>3, <2>3, <2>7, <3>1 DEF AperturaPut
  <2>9. ASSUME NEW j \in Conn \ {k}, Aperto(j)
        PROVE  ~thr[j].insieme => contenuto'[thr[j].ino] = contenuto[thr[j].ino]
    <3>1. AperturaPut(j) /\ Servito(j) /\ thr[j] \in Thread
      BY <1>2, <2>9, ThreadTipo DEF PutInv, Aperto, StatiAperti, Servito, StatiAttivi
    <3>2. ~thr[j].insieme => thr[j].nome # thr[k].nome
      BY <1>2, <2>9, <3>1 DEF PutInv, IncontriPut
    <3>3. thr[j].nome \in Nomi
      BY <3>1, PutFileAssumption DEF Thread
    <3>4. ~thr[j].insieme => thr[j].ino # thr[k].ino
      BY <1>3, <3>1, <3>2, <3>3 DEF AperturaPut
    <3> QED
      BY <2>7, <3>1, <3>4 DEF AperturaPut
  <2>10. Len(contenuto') >= Len(contenuto)
    BY <1>2, <2>7, SequenzaTipo DEF FileOK
  <2> QED
    BY <1>2, <2>3, <2>4, <2>6, <2>7, <2>8, <2>9, <2>10, ServerPutStep
<1>6. CASE /\ EofSu(k) /\ thr' = [thr EXCEPT ![k].stato = "risponde"]
           /\ UNCHANGED <<tcpVars, fileVars>>
  <2>1. /\ thr'[k] \in Thread /\ thr'[k].stato = "risponde" /\ thr'[k].nome = thr[k].nome
        /\ thr'[k].ino = thr[k].ino /\ thr'[k].scritti = thr[k].scritti /\ thr'[k].insieme = thr[k].insieme
    <3>1. thr'[k] = [thr[k] EXCEPT !.stato = "risponde"]
      BY <1>2, <1>6 DEF PutTipi
    <3> QED
      BY <1>2, <3>1 DEF Thread, StatiAttivi
  <2>2. ServerPut(k)
    BY <1>1, <1>2, <1>6, <2>1 DEF ServerPut, PutTipi, clientePut, tcpVars
  <2>3. Servito(k)' /\ Aperto(k)'
    BY <2>1 DEF Servito, StatiAttivi, Aperto, StatiAperti
  <2>4. invio[k] # "morto" => c = Len(B)
    <3>1. su[k] = <<>> <=> c = inviati[k]
      BY <1>4, <1>7 DEF Pezzo
    <3>2. fineSu[k] /\ c = inviati[k]
      BY <1>6, <3>1 DEF EofSu
    <3> QED
      BY <1>3, <3>2 DEF FlussoPut
  <2>5. FlussoPut(k)'
    BY <1>1, <1>2, <1>3, <1>6, <2>1, <2>3, <2>4 DEF FlussoPut, clientePut, tcpVars
  <2>6. FileOK' /\ directory' = directory /\ contenuto' = contenuto
    BY <1>2, <1>6 DEF FileOK, fileVars
  <2>7. AperturaPut(k)'
    BY <1>3, <2>1, <2>6 DEF AperturaPut
  <2>8. Len(contenuto') >= Len(contenuto)
    BY <1>2, <2>6, SequenzaTipo DEF FileOK
  <2> QED
    BY <1>2, <2>1, <2>2, <2>5, <2>6, <2>7, <2>8, ServerPutStep
<1> QED
  BY <1>5, <1>6 DEF ricevi

LEMMA PutFileServerStep ==
  ASSUME PutInv, PutFileServer
  PROVE  PutInv'
<1>1. modo = "spento" /\ modo' \in {"seq", "con"} /\ UNCHANGED <<tcpVars, clientePut, thr>>
  BY DEF PutFileServer
<1>2. PICK N \in SUBSET FileInviati : Riempi(SetToSeq(N), [n \in N |-> Vecchio])
  BY DEF PutFileServer
<1>3. FileOK'
  <2>1. N \in SUBSET Nomi /\ IsFiniteSet(N)
    BY PutFileAssumption, FS_Subset
  <2>2. \A n \in N : Sequenza([m \in N |-> Vecchio][n])
    BY PutFileAssumption
  <2> QED
    BY <1>2, <2>1, <2>2, RiempiFile
<1>4. \A k \in Conn : thr'[k] = NessunThread
  BY <1>1 DEF PutInv, PutTipi
<1>5. \A k \in Conn : ~Servito(k)' /\ ~Aperto(k)'
  BY <1>4 DEF Servito, StatiAttivi, Aperto, StatiAperti, NessunThread
<1>6. PutTipi'
  BY <1>1 DEF PutInv, PutTipi, tcpVars, clientePut
<1> QED
  BY <1>3, <1>4, <1>5, <1>6 DEF PutInv, IncontriPut

LEMMA PutNextStep ==
  ASSUME PutInv, PutNext
  PROVE  PutInv'
<1>1. CASE PutFileServer
  BY <1>1, PutFileServerStep
<1>2. CASE \E k \in Conn : \/ Socket(k) \/ writeUTF(k) \/ trasferisce(k) \/ readUTF(k) \/ ucciso(k)
                           \/ accetta(k) \/ Serve(k)
  <2>1. PICK k \in Conn : \/ Socket(k) \/ writeUTF(k) \/ trasferisce(k) \/ readUTF(k) \/ ucciso(k)
                          \/ accetta(k) \/ Serve(k)
    BY <1>2
  <2>2. ASSUME Serve(k) PROVE PutInv'
    BY <2>2, leggi_nomeStep, distruggiStep, FileOutputStreamStep, non_creaStep, riceviStep, lasciaStep DEF Serve
  <2> QED
    BY <2>1, <2>2, SocketStep, writeUTFStep, trasferisceStep, readUTFStep, uccisoStep, accettaStep
<1> QED
  BY <1>1, <1>2 DEF PutNext

LEMMA PutInitInv == PutInit => PutInv
<1> SUFFICES ASSUME PutInit PROVE PutInv
  OBVIOUS
<1>1. FileOK
  <2>1. directory = [n \in Nomi |-> 0] /\ contenuto = <<>>
    BY DEF PutInit, FileSystemInit
  <2> QED
    BY <2>1, SequenzaVuota DEF FileOK
<1>2. \A k \in Conn : thr[k] = NessunThread
  BY DEF PutInit
<1>3. \A k \in Conn : ~Servito(k) /\ ~Aperto(k)
  <2>1. NessunThread.stato \notin StatiAttivi /\ NessunThread.stato \notin StatiAperti
    BY DEF StatiAttivi, StatiAperti, NessunThread
  <2> QED
    BY <1>2, <2>1 DEF Servito, Aperto
<1>4. PutTipi
  BY DEF PutInit, PutTipi, TcpInit
<1> QED
  BY <1>1, <1>2, <1>3, <1>4 DEF PutInv, IncontriPut

-----------------------------------------------------------------------------
(* The specification. *)

InvPut ==
  /\ attivo = "nessuno" => PutInit
  /\ attivo # "put" => thr = [k \in Conn |-> NessunThread]
  /\ attivo = "put" => PutInv

LEMMA InvPutPasso == InvPut /\ [Next]_trasferimentiVars => InvPut'
<1> SUFFICES ASSUME InvPut, [Next]_trasferimentiVars PROVE InvPut'
  OBVIOUS
<1>1. CASE UNCHANGED trasferimentiVars
  <2>1. UNCHANGED <<tcpVars, fileVars, modo, invio, nomeFile, inviati, thr, attivo>>
    BY <1>1 DEF trasferimentiVars, riscritturaVars, putSoli
  <2>2. PutInit => PutInit'
    BY <2>1 DEF PutInit, TcpInit, FileSystemInit, tcpVars, fileVars
  <2>3. PutInv => PutInv'
    BY <2>1 DEF PutInv, PutTipi, FileOK, IncontriPut, FlussoPut, AperturaPut, Servito, Aperto, tcpVars, fileVars
  <2> QED
    BY <2>1, <2>2, <2>3 DEF InvPut
<1>2. CASE Sceglie
  <2>1. attivo = "nessuno" /\ attivo' # "nessuno"
    BY <1>2 DEF Sceglie
  <2>2. UNCHANGED <<tcpVars, fileVars, modo, invio, nomeFile, inviati, thr>>
    BY <1>2 DEF Sceglie, riscritturaVars, putSoli
  <2>3. PutInv
    BY <2>1, PutInitInv DEF InvPut
  <2>4. PutInv'
    BY <2>2, <2>3 DEF PutInv, PutTipi, FileOK, IncontriPut, FlussoPut, AperturaPut, Servito, Aperto, tcpVars, fileVars
  <2> QED
    BY <2>1, <2>2, <2>4 DEF InvPut
<1>3. CASE attivo = "put" /\ PutNext /\ attivo' = attivo
  BY <1>3, PutNextStep DEF InvPut
<1>4. CASE attivo \notin {"nessuno", "put"} /\ UNCHANGED <<attivo, thr>>
  BY <1>4 DEF InvPut
<1>5. \/ Sceglie
      \/ attivo = "put" /\ PutNext /\ attivo' = attivo
      \/ attivo \in {"filtri", "direttori", "get", "mput", "scambio", "remop"} /\ UNCHANGED <<attivo, thr>>
      \/ UNCHANGED trasferimentiVars
  BY DEF Next, SenzaRiscrittura, putSoli
<1> QED
  BY <1>1, <1>2, <1>3, <1>4, <1>5

-----------------------------------------------------------------------------
(* Riscrittura: SwapServer and ServerImpl.elimina_riga. *)

Fasi == {"legge", "rilegge", "scrive", "cancella", "rinomina", "toglie", "risponde"}
InLavoro(t) == lavoro[t].passo \in Fasi

\* The record of a rewriting.
Campi(l) == l = [passo |-> l.passo, file |-> l.file, chiede |-> l.chiede, chi |-> l.chi,
                 sorgente |-> l.sorgente, tmp |-> l.tmp, letto |-> l.letto, cache |-> l.cache,
                 prima |-> l.prima, insieme |-> l.insieme]

\* Every thread at work on a file has read, and writes, files that exist; what
\* it writes has the name of its file or of its temporary, or no name any more.
LavoroOK(t) ==
  LET l == lavoro[t]
  IN  /\ Campi(l)
      /\ l.file \in File /\ l.insieme \in BOOLEAN /\ programma # "spento"
      /\ l.passo \in {"rilegge", "toglie"} => programma = "swap"
      /\ l.sorgente \in 1 .. Len(contenuto) /\ l.tmp \in 1 .. Len(contenuto)
      /\ Sequenza(l.letto) /\ Sequenza(l.prima)
      /\ programma = "remop" => \A n \in Nomi : directory[n] = l.tmp => n \in {l.file, Temporaneo(l.file)}

\* A thread that has met nobody: the rows it found are those it read, those it
\* wrote are under the name of the temporary and then under that of the file.
SoloOK(t) ==
  LET l == lavoro[t]
  IN  /\ l.passo # "legge" => l.letto = l.prima /\ l.cache = l.prima
      /\ l.passo \in {"legge", "rilegge"} => directory[l.file] = l.sorgente /\ contenuto[l.sorgente] = l.prima
      /\ l.passo \in {"legge", "rilegge", "scrive"} => contenuto[l.tmp] = <<>>
      /\ l.passo \notin {"toglie", "risponde"} => directory[Temporaneo(l.file)] = l.tmp
      /\ l.passo \in {"cancella", "rinomina", "toglie", "risponde"} => contenuto[l.tmp] = Riscritte(l)
      /\ l.passo \in {"toglie", "risponde"} => directory[l.file] = l.tmp

IncontriRis ==
  \A s, t \in Lavoratori :
    s # t /\ InLavoro(s) /\ InLavoro(t) /\ (programma = "swap" \/ lavoro[s].file = lavoro[t].file) =>
      lavoro[t].insieme

RisInv ==
  /\ programma \in {"spento", "swap", "remop"} /\ FileOK
  /\ DOMAIN lavoro = Lavoratori
  /\ \A t \in Lavoratori : lavoro[t] = Ozio \/ lavoro[t].passo = "conta" \/ InLavoro(t)
  /\ IncontriRis
  /\ \A t \in Lavoratori : InLavoro(t) => LavoroOK(t) /\ (~lavoro[t].insieme => SoloOK(t))

\* A temporary is no user's file, and for RMI it is of one file.
LEMMA NomiTemporanei ==
  ASSUME NEW f \in File, NEW g \in File, programma \in {"swap", "remop"}
  PROVE  /\ f \in Nomi /\ Temporaneo(f) \in Nomi /\ f # Temporaneo(g)
         /\ programma = "remop" /\ Temporaneo(f) = Temporaneo(g) => f = g
<1>1. Temporaneo(f) \in {<<"temp">>} \cup (File \X {"modified"})
  BY DEF Temporaneo
<1>2. Temporaneo(g) \in {<<"temp">>} \cup (File \X {"modified"})
  BY DEF Temporaneo
<1>3. f \in Nomi /\ Temporaneo(f) \in Nomi
  BY <1>1, RiscritturaAssumption DEF NomiFile
<1>4. f # Temporaneo(g)
  BY <1>2, RiscritturaAssumption
<1>5. programma = "remop" /\ Temporaneo(f) = Temporaneo(g) => f = g
  BY DEF Temporaneo
<1> QED
  BY <1>3, <1>4, <1>5

\* What a rewriting puts in its temporary is a sequence of rows.
LEMMA RiscritteSequenza ==
  ASSUME NEW l, Sequenza(l.letto)
  PROVE  Sequenza(Riscritte(l))
<1> DEFINE r == l.letto
<1>1. Len(r) \in Nat /\ DOMAIN r = 1 .. Len(r)
  BY SequenzaTipo
<1>2. CASE programma = "swap"
  <2> DEFINE w == Riscritte(l)
  <2>1. w = Scambia(r, l.cache, l.chiede)
    BY <1>2 DEF Riscritte
  <2>2. DOMAIN w = 1 .. Len(r) /\ w = [k \in 1 .. Len(r) |-> w[k]]
    BY <1>1, <2>1 DEF Scambia
  <2> HIDE DEF w, r
  <2>3. Sequenza(w)
    BY <1>1, <2>2, SequenzaFunzione
  <2> QED
    BY <2>3 DEF w
<1>3. CASE programma # "swap" /\ l.chiede \in DOMAIN r
  <2> DEFINE S == {r[i] : i \in DOMAIN r}
             i == l.chiede
  <2>1. i \in 1 .. Len(r) /\ \A j \in 1 .. Len(r) : r[j] \in S
    BY <1>1, <1>3
  <2>2. Riscritte(l) = SubSeq(r, 1, i - 1) \o SubSeq(r, i + 1, Len(r))
    BY <1>3 DEF Riscritte, RemoveAt
  <2> HIDE DEF S, i, r
  <2>3. SubSeq(r, 1, i - 1) \in Seq(S) /\ SubSeq(r, i + 1, Len(r)) \in Seq(S)
    BY <1>1, <2>1, SubSeqProperties
  <2>4. Riscritte(l) \in Seq(S)
    BY <2>2, <2>3, ConcatProperties
  <2> QED
    BY <2>4, SequenzaDi
<1>4. CASE programma # "swap" /\ l.chiede \notin DOMAIN r
  BY <1>4 DEF Riscritte
<1> QED
  BY <1>2, <1>3, <1>4

\* What a step of thread s, on file g, does to the others': files change under
\* g and its temporary alone.
AltroRis(s, g) ==
  /\ programma' = programma /\ FileOK' /\ Len(contenuto') >= Len(contenuto)
  /\ \A n \in Nomi \ {g, Temporaneo(g)} : directory'[n] = directory[n]
  /\ \A n \in {g, Temporaneo(g)} : directory'[n] \in {0, directory[g], directory[Temporaneo(g)], Len(contenuto) + 1}
  /\ \A i \in 1 .. Len(contenuto) : contenuto'[i] # contenuto[i] =>
       i = directory[Temporaneo(g)] \/ (InLavoro(s) /\ i = lavoro[s].tmp)
  /\ InLavoro(s) => lavoro[s].file = g

LEMMA AltroLavoroOK ==
  ASSUME RisInv, NEW s \in Lavoratori, NEW t \in Lavoratori, s # t, NEW g \in File, AltroRis(s, g),
         InLavoro(t), lavoro'[t] = lavoro[t] \/ lavoro'[t] = [lavoro[t] EXCEPT !.insieme = TRUE]
  PROVE  LavoroOK(t)' /\ InLavoro(t)' /\ lavoro'[t].file = lavoro[t].file
<1> DEFINE l == lavoro[t]
<1>1. LavoroOK(t) /\ programma \in {"swap", "remop"} /\ FileOK
  BY DEF RisInv, LavoroOK
<1>2. Len(contenuto) \in Nat /\ Len(contenuto') \in Nat /\ Len(contenuto') >= Len(contenuto)
  BY <1>1, SequenzaTipo DEF AltroRis, FileOK
<1>3. /\ lavoro'[t] = [passo |-> lavoro'[t].passo, file |-> lavoro'[t].file, chiede |-> lavoro'[t].chiede,
                       chi |-> lavoro'[t].chi, sorgente |-> lavoro'[t].sorgente, tmp |-> lavoro'[t].tmp,
                       letto |-> lavoro'[t].letto, cache |-> lavoro'[t].cache,
                       prima |-> lavoro'[t].prima, insieme |-> lavoro'[t].insieme]
      /\ lavoro'[t].passo = l.passo /\ lavoro'[t].file = l.file /\ lavoro'[t].insieme \in BOOLEAN
      /\ lavoro'[t].sorgente = l.sorgente /\ lavoro'[t].tmp = l.tmp
      /\ lavoro'[t].letto = l.letto /\ lavoro'[t].prima = l.prima
  BY <1>1 DEF LavoroOK, Campi
<1>4. ASSUME programma = "remop", NEW n \in Nomi, directory'[n] = l.tmp
      PROVE  n \in {l.file, Temporaneo(l.file)}
  <2>1. l.tmp \in 1 .. Len(contenuto) /\ l.file \in File
    BY <1>1 DEF LavoroOK
  <2>2. CASE directory[n] = l.tmp
    BY <1>1, <1>4, <2>2 DEF LavoroOK
  <2>3. CASE directory[n] # l.tmp
    <3>1. n \in {g, Temporaneo(g)}
      BY <1>4, <2>3 DEF AltroRis
    <3>2. directory[g] = l.tmp \/ directory[Temporaneo(g)] = l.tmp
      BY <1>2, <1>4, <2>1, <3>1 DEF AltroRis
    <3>3. g \in Nomi /\ Temporaneo(g) \in Nomi /\ g # Temporaneo(l.file) /\ l.file # Temporaneo(g)
      BY <1>1, <2>1, NomiTemporanei
    <3>4. g \in {l.file, Temporaneo(l.file)} \/ Temporaneo(g) \in {l.file, Temporaneo(l.file)}
      BY <1>1, <1>4, <3>2, <3>3 DEF LavoroOK
    <3>5. g = l.file
      BY <1>1, <1>4, <2>1, <3>3, <3>4, NomiTemporanei
    <3> QED
      BY <3>1, <3>5
  <2> QED
    BY <2>2, <2>3
<1>5. programma' = programma /\ Temporaneo(lavoro[t].file)' = Temporaneo(l.file)
  BY <1>3 DEF AltroRis, Temporaneo
<1>6. InLavoro(t)'
  BY <1>3 DEF InLavoro
<1>7. /\ lavoro'[t].file \in File /\ programma' # "spento"
      /\ lavoro'[t].passo \in {"rilegge", "toglie"} => programma' = "swap"
      /\ lavoro'[t].sorgente \in 1 .. Len(contenuto') /\ lavoro'[t].tmp \in 1 .. Len(contenuto')
      /\ Sequenza(lavoro'[t].letto) /\ Sequenza(lavoro'[t].prima)
  BY <1>1, <1>2, <1>3, <1>5 DEF LavoroOK
<1>8. programma' = "remop" => \A n \in Nomi : directory'[n] = lavoro'[t].tmp =>
                                n \in {lavoro'[t].file, Temporaneo(lavoro[t].file)'}
  BY <1>3, <1>4, <1>5
<1> HIDE DEF l
<1> QED
  BY <1>3, <1>6, <1>7, <1>8 DEF LavoroOK, Campi, l

LEMMA AltroSoloOK ==
  ASSUME RisInv, NEW s \in Lavoratori, NEW t \in Lavoratori, s # t, NEW g \in File, AltroRis(s, g),
         InLavoro(t), lavoro'[t] = lavoro[t], ~lavoro[t].insieme, programma = "remop", lavoro[t].file # g
  PROVE  SoloOK(t)'
<1> DEFINE l == lavoro[t]
           f == lavoro[t].file
           T == Temporaneo(lavoro[t].file)
<1>1. LavoroOK(t) /\ SoloOK(t) /\ FileOK /\ f \in File
  BY DEF RisInv, LavoroOK
<1>2. f \in Nomi /\ T \in Nomi /\ f \notin {g, Temporaneo(g)} /\ T \notin {g, Temporaneo(g)} /\ Temporaneo(g) \in Nomi
  BY <1>1, NomiTemporanei
<1>3. directory'[f] = directory[f] /\ directory'[T] = directory[T]
  BY <1>2 DEF AltroRis
<1>4. ASSUME NEW i \in 1 .. Len(contenuto), i = directory[f] \/ i = directory[T]
      PROVE  contenuto'[i] = contenuto[i]
  <2>1. Len(contenuto) \in Nat /\ i # 0
    BY <1>1, SequenzaTipo DEF FileOK
  <2>2. i # directory[Temporaneo(g)]
    BY <1>1, <1>2, <1>4, <2>1 DEF FileOK
  <2>3. InLavoro(s) => i # lavoro[s].tmp
    <3> SUFFICES ASSUME InLavoro(s), i = lavoro[s].tmp PROVE FALSE
      OBVIOUS
    <3>1. LavoroOK(s) /\ lavoro[s].file = g
      BY DEF RisInv, AltroRis
    <3>2. \A n \in Nomi : directory[n] = i => n \in {g, Temporaneo(g)}
      BY <3>1 DEF LavoroOK
    <3> QED
      BY <1>2, <1>4, <3>2
  <2> QED
    BY <2>2, <2>3 DEF AltroRis
<1>5. Temporaneo(lavoro[t].file)' = T /\ programma' = programma
  BY DEF AltroRis, Temporaneo
<1>6. Riscritte(lavoro[t])' = Riscritte(l)
  BY <1>5 DEF Riscritte
<1>7. l.sorgente \in 1 .. Len(contenuto) /\ l.tmp \in 1 .. Len(contenuto)
  BY <1>1 DEF LavoroOK
<1>8. l.passo \in {"legge", "rilegge"} => directory'[f] = l.sorgente /\ contenuto'[l.sorgente] = l.prima
  BY <1>1, <1>3, <1>4, <1>7 DEF SoloOK
<1>9. l.passo \notin {"toglie", "risponde"} => directory'[T] = l.tmp /\ contenuto'[l.tmp] = contenuto[l.tmp]
  BY <1>1, <1>3, <1>4, <1>7 DEF SoloOK
<1>10. l.passo \in {"toglie", "risponde"} => directory'[f] = l.tmp /\ contenuto'[l.tmp] = contenuto[l.tmp]
  BY <1>1, <1>3, <1>4, <1>7 DEF SoloOK
<1>11. /\ l.passo \in {"legge", "rilegge", "scrive"} => contenuto'[l.tmp] = <<>>
       /\ l.passo \in {"cancella", "rinomina", "toglie", "risponde"} => contenuto'[l.tmp] = Riscritte(l)
  BY <1>1, <1>9, <1>10 DEF SoloOK
<1>12. l.passo # "legge" => l.letto = l.prima /\ l.cache = l.prima
  BY <1>1 DEF SoloOK
<1> HIDE DEF T, f
<1>13. lavoro'[t] = l /\ l.file = f
  BY DEF f
<1> QED
  BY <1>5, <1>6, <1>8, <1>9, <1>10, <1>11, <1>12, <1>13 DEF SoloOK, l

\* A step of a thread at work keeps the others' work.
LEMMA LavoroStep ==
  ASSUME RisInv, NEW s \in Lavoratori, InLavoro(s), NEW g \in File, AltroRis(s, g),
         DOMAIN lavoro' = Lavoratori, \A t \in Lavoratori \ {s} : lavoro'[t] = lavoro[t],
         InLavoro(s)', lavoro'[s].file = g, lavoro'[s].insieme = lavoro[s].insieme,
         LavoroOK(s)', ~lavoro[s].insieme => SoloOK(s)'
  PROVE  RisInv'
<1>1. programma' = programma /\ FileOK' /\ lavoro[s].file = g
  BY DEF AltroRis
<1>2. \A t \in Lavoratori : InLavoro(t)' <=> InLavoro(t)
  BY DEF InLavoro
<1>3. \A t \in Lavoratori : InLavoro(t) => lavoro'[t].file = lavoro[t].file /\ lavoro'[t].insieme = lavoro[t].insieme
  BY <1>1
<1>4. IncontriRis'
  BY <1>1, <1>2, <1>3 DEF RisInv, IncontriRis
<1>5. \A t \in Lavoratori : lavoro'[t] = Ozio \/ lavoro'[t].passo = "conta" \/ InLavoro(t)'
  BY <1>2 DEF RisInv
<1>6. ASSUME NEW t \in Lavoratori, InLavoro(t)' PROVE LavoroOK(t)' /\ (~lavoro'[t].insieme => SoloOK(t)')
  <2>1. CASE t = s
    BY <2>1
  <2>2. CASE t # s
    <3>1. InLavoro(t) /\ lavoro'[t] = lavoro[t] /\ programma \in {"swap", "remop"}
      BY <1>2, <1>6, <2>2 DEF RisInv, LavoroOK
    <3>2. LavoroOK(t)'
      BY <2>2, <3>1, AltroLavoroOK
    <3>3. ~lavoro[t].insieme => programma = "remop" /\ lavoro[t].file # g
      BY <1>1, <2>2, <3>1 DEF RisInv, IncontriRis
    <3>4. ~lavoro[t].insieme => SoloOK(t)'
      BY <2>2, <3>1, <3>3, AltroSoloOK
    <3> QED
      BY <3>1, <3>2, <3>4
  <2> QED
    BY <2>1, <2>2
<1> QED
  BY <1>1, <1>4, <1>5, <1>6 DEF RisInv

\* A thread that is not at work after a step that leaves files alone.
LEMMA FermoStep ==
  ASSUME RisInv, NEW s \in Lavoratori, UNCHANGED <<fileVars, programma>>,
         DOMAIN lavoro' = Lavoratori, \A t \in Lavoratori \ {s} : lavoro'[t] = lavoro[t],
         lavoro'[s] = Ozio \/ lavoro'[s].passo = "conta"
  PROVE  RisInv'
<1>1. ~InLavoro(s)' /\ \A t \in Lavoratori \ {s} : InLavoro(t)' <=> InLavoro(t)
  BY DEF InLavoro, Fasi, Ozio
<1>2. FileOK'
  BY DEF RisInv, FileOK, fileVars
<1>3. IncontriRis'
  BY <1>1 DEF RisInv, IncontriRis
<1>4. \A t \in Lavoratori : InLavoro(t)' => LavoroOK(t)' /\ (~lavoro'[t].insieme => SoloOK(t)')
  <2> SUFFICES ASSUME NEW t \in Lavoratori, InLavoro(t)' PROVE LavoroOK(t)' /\ (~lavoro'[t].insieme => SoloOK(t)')
    OBVIOUS
  <2>1. t # s /\ InLavoro(t) /\ lavoro'[t] = lavoro[t]
    BY <1>1
  <2>2. LavoroOK(t) /\ (~lavoro[t].insieme => SoloOK(t))
    BY <2>1 DEF RisInv
  <2>3. directory' = directory /\ contenuto' = contenuto /\ programma' = programma
    BY DEF fileVars
  <2> QED
    BY <2>1, <2>2, <2>3 DEF LavoroOK, SoloOK, Temporaneo, Riscritte
<1>5. \A t \in Lavoratori : lavoro'[t] = Ozio \/ lavoro'[t].passo = "conta" \/ InLavoro(t)'
  BY <1>1 DEF RisInv
<1> QED
  BY <1>2, <1>3, <1>4, <1>5 DEF RisInv

\* The two opens.
LEMMA apriStep ==
  ASSUME RisInv, NEW t \in Lavoratori, NEW f \in File, NEW chiede, NEW chi, programma # "spento", apri(t, f, chiede, chi)
  PROVE  RisInv'
<1> DEFINE T == Temporaneo(f)
           A == Attivi(t, f)
<1>1. /\ lavoro[t] = Ozio /\ esiste(f) /\ crea(T) /\ programma' = programma
      /\ lavoro' = [s \in Lavoratori |->
           IF s = t THEN [passo |-> "legge", file |-> f, chiede |-> chiede, chi |-> chi,
                          sorgente |-> directory[f], tmp |-> directory'[T], letto |-> <<>>,
                          cache |-> <<>>, prima |-> Righe(f), insieme |-> A # {}]
           ELSE IF s \in A THEN [lavoro[s] EXCEPT !.insieme = TRUE] ELSE lavoro[s]]
  BY DEF apri
<1>2. FileOK /\ programma \in {"swap", "remop"}
  BY DEF RisInv
<1>3. f \in Nomi /\ T \in Nomi /\ f # T
  BY <1>2, NomiTemporanei
<1>4. /\ FileOK' /\ directory'[T] \in 1 .. Len(contenuto') /\ contenuto'[directory'[T]] = <<>>
      /\ directory'[T] = IF directory[T] # 0 THEN directory[T] ELSE Len(contenuto) + 1
      /\ \A m \in Nomi \ {T} : directory'[m] = directory[m]
      /\ Len(contenuto') >= Len(contenuto)
      /\ \A i \in 1 .. Len(contenuto) : i # directory[T] => contenuto'[i] = contenuto[i]
  BY <1>1, <1>2, <1>3, CreaFile
<1>5. Len(contenuto) \in Nat /\ Len(contenuto') \in Nat
  BY <1>2, <1>4, SequenzaTipo DEF FileOK
<1>6. ~InLavoro(t)
  BY <1>1 DEF InLavoro, Fasi, Ozio
<1>7. \A s \in Lavoratori : s \in A <=> s # t /\ InLavoro(s) /\ (programma = "swap" \/ lavoro[s].file = f)
  BY DEF RisInv, Attivi, InLavoro, Fasi, Ozio
<1>8. \A s \in Lavoratori \ {t} : lavoro'[s] = IF s \in A THEN [lavoro[s] EXCEPT !.insieme = TRUE] ELSE lavoro[s]
  BY <1>1
<1>9. AltroRis(t, f)
  <2>1. \A n \in {f, T} : directory'[n] \in {0, directory[f], directory[T], Len(contenuto) + 1}
    BY <1>3, <1>4
  <2> QED
    BY <1>1, <1>4, <1>6, <2>1 DEF AltroRis
<1>10. ASSUME NEW s \in Lavoratori \ {t}, InLavoro(s)
       PROVE  /\ LavoroOK(s)' /\ InLavoro(s)' /\ lavoro'[s].file = lavoro[s].file
              /\ ~lavoro'[s].insieme => SoloOK(s)'
              /\ s \in A => lavoro'[s].insieme = TRUE
              /\ s \notin A => lavoro'[s] = lavoro[s]
  <2>1. LavoroOK(s)
    BY <1>10 DEF RisInv
  <2>2. LavoroOK(s)' /\ InLavoro(s)' /\ lavoro'[s].file = lavoro[s].file
    BY <1>8, <1>9, <1>10, AltroLavoroOK
  <2>3. s \in A => lavoro'[s].insieme = TRUE
    <3>1. s \in A => [lavoro[s] EXCEPT !.insieme = TRUE].insieme = TRUE
      BY <2>1 DEF LavoroOK, Campi
    <3> QED
      BY <1>8, <3>1
  <2>4. ASSUME ~lavoro'[s].insieme PROVE SoloOK(s)'
    <3>1. s \notin A /\ lavoro'[s] = lavoro[s]
      BY <1>8, <2>3, <2>4
    <3>2. programma = "remop" /\ lavoro[s].file # f
      BY <1>2, <1>7, <1>10, <3>1
    <3> QED
      BY <1>9, <1>10, <2>4, <3>1, <3>2, AltroSoloOK
  <2> QED
    BY <1>8, <2>2, <2>3, <2>4
<1>11. /\ lavoro'[t] = [passo |-> "legge", file |-> f, chiede |-> chiede, chi |-> chi,
                        sorgente |-> directory[f], tmp |-> directory'[T], letto |-> <<>>,
                        cache |-> <<>>, prima |-> Righe(f), insieme |-> A # {}]
       /\ InLavoro(t)'
  BY <1>1 DEF InLavoro, Fasi
<1>12. directory[f] \in 1 .. Len(contenuto) /\ directory'[f] = directory[f] /\ contenuto'[directory[f]] = contenuto[directory[f]]
  <2>1. directory[f] \in 1 .. Len(contenuto)
    BY <1>1, <1>2, <1>3, <1>5 DEF FileOK, esiste
  <2>2. directory[f] # directory[T]
    BY <1>2, <1>3, <1>5, <2>1 DEF FileOK
  <2> QED
    BY <1>3, <1>4, <2>1, <2>2
<1>13. Temporaneo(lavoro[t].file)' = T
  BY <1>1, <1>11 DEF Temporaneo
<1>14. LavoroOK(t)'
  <2>1. Sequenza(Righe(f))
    BY <1>2, <1>12 DEF Righe, FileOK
  <2>2. \A n \in Nomi : directory'[n] = directory'[T] => n = T
    BY <1>3, <1>4, <1>5 DEF FileOK
  <2>3. directory[f] \in 1 .. Len(contenuto')
    BY <1>4, <1>5, <1>12
  <2>4. (A # {}) \in BOOLEAN
    OBVIOUS
  <2> HIDE DEF A, T
  <2> QED
    BY <1>1, <1>4, <1>11, <1>13, <2>1, <2>2, <2>3, <2>4, SequenzaVuota DEF LavoroOK, Campi
<1>15. SoloOK(t)'
  <2> HIDE DEF A, T
  <2> QED
    BY <1>4, <1>11, <1>12, <1>13 DEF SoloOK, Righe
<1>16. IncontriRis'
  <2> SUFFICES ASSUME NEW r \in Lavoratori, NEW s \in Lavoratori, r # s, InLavoro(r)', InLavoro(s)',
                      programma' = "swap" \/ lavoro'[r].file = lavoro'[s].file
               PROVE  lavoro'[s].insieme
    BY DEF IncontriRis
  <2>1. \A q \in Lavoratori \ {t} : InLavoro(q)' => InLavoro(q)
    BY <1>8, <1>10, <1>7 DEF InLavoro
  <2>2. lavoro'[t].file = f /\ (A # {} => lavoro'[t].insieme)
    <3> DEFINE b == A # {}
    <3>1. b => b = TRUE
      BY DEF b
    <3>2. lavoro'[t].file = f /\ lavoro'[t].insieme = b
      <4> HIDE DEF A, b
      <4>1. lavoro'[t] = [passo |-> "legge", file |-> f, chiede |-> chiede, chi |-> chi,
                          sorgente |-> directory[f], tmp |-> directory'[T], letto |-> <<>>,
                          cache |-> <<>>, prima |-> Righe(f), insieme |-> b]
        BY <1>11 DEF b
      <4> QED
        BY <4>1
    <3> QED
      BY <3>1, <3>2
  <2>3. CASE s = t
    <3>1. InLavoro(r) /\ lavoro'[r].file = lavoro[r].file
      BY <1>10, <2>1, <2>3
    <3>2. r \in A
      BY <1>1, <1>7, <2>2, <2>3, <3>1
    <3> QED
      BY <2>2, <2>3, <3>2
  <2>4. CASE r = t
    <3>1. InLavoro(s) /\ lavoro'[s].file = lavoro[s].file
      BY <1>10, <2>1, <2>4
    <3>2. s \in A
      BY <1>1, <1>7, <2>2, <2>4, <3>1
    <3> QED
      BY <1>10, <2>4, <3>1, <3>2
  <2>5. CASE r # t /\ s # t
    <3>1. InLavoro(r) /\ InLavoro(s) /\ lavoro'[r].file = lavoro[r].file /\ lavoro'[s].file = lavoro[s].file
      BY <1>10, <2>1, <2>5
    <3>2. lavoro[s].insieme
      BY <1>1, <3>1 DEF RisInv, IncontriRis
    <3> QED
      BY <1>10, <2>5, <3>1, <3>2
  <2> QED
    BY <2>3, <2>4, <2>5
<1>17. \A s \in Lavoratori : InLavoro(s)' => LavoroOK(s)' /\ (~lavoro'[s].insieme => SoloOK(s)')
  <2> SUFFICES ASSUME NEW s \in Lavoratori, InLavoro(s)', s # t PROVE LavoroOK(s)' /\ (~lavoro'[s].insieme => SoloOK(s)')
    BY <1>14, <1>15
  <2>1. InLavoro(s)
    BY <1>7, <1>8 DEF InLavoro
  <2> QED
    BY <1>10, <2>1
<1>18. \A s \in Lavoratori : lavoro'[s] = Ozio \/ lavoro'[s].passo = "conta" \/ InLavoro(s)'
  BY <1>7, <1>8, <1>10, <1>11 DEF RisInv
<1>19. DOMAIN lavoro' = Lavoratori
  BY <1>1
<1> QED
  BY <1>1, <1>2, <1>4, <1>16, <1>17, <1>18, <1>19 DEF RisInv

\* What a thread at work is, and where the two names of its file are.
LEMMA AlLavoro ==
  ASSUME RisInv, NEW t \in Lavoratori, InLavoro(t)
  PROVE  /\ LavoroOK(t) /\ (~lavoro[t].insieme => SoloOK(t)) /\ FileOK
         /\ lavoro[t].file \in File /\ programma \in {"swap", "remop"}
         /\ lavoro[t].file \in Nomi /\ Temporaneo(lavoro[t].file) \in Nomi
         /\ lavoro[t].file # Temporaneo(lavoro[t].file)
         /\ Len(contenuto) \in Nat
<1>1. LavoroOK(t) /\ (~lavoro[t].insieme => SoloOK(t)) /\ FileOK
  BY DEF RisInv
<1>2. lavoro[t].file \in File /\ programma \in {"swap", "remop"}
  BY <1>1 DEF LavoroOK, RisInv
<1>3. Len(contenuto) \in Nat
  BY <1>1, SequenzaTipo DEF FileOK
<1> QED
  BY <1>1, <1>2, <1>3, NomiTemporanei

\* A thread's work goes on: its place, and what it has read.
Avanzato(l, m, p, c, r) ==
  /\ Campi(m) /\ m.passo = p /\ m.cache = c /\ m.letto = r
  /\ m.file = l.file /\ m.chiede = l.chiede /\ m.sorgente = l.sorgente /\ m.tmp = l.tmp
  /\ m.prima = l.prima /\ m.insieme = l.insieme

Avanza(t, p, c, r) ==
  lavoro' = [lavoro EXCEPT ![t] = [lavoro[t] EXCEPT !.passo = p, !.cache = c, !.letto = r]]

LEMMA TreCampi ==
  ASSUME NEW l, NEW m, NEW p, NEW c, NEW r, Campi(l), m = [l EXCEPT !.passo = p, !.cache = c, !.letto = r]
  PROVE  Avanzato(l, m, p, c, r)
<1>1. m.passo = p /\ m.cache = c /\ m.letto = r
  BY DEF Campi
<1>2. /\ m.file = l.file /\ m.chiede = l.chiede /\ m.sorgente = l.sorgente /\ m.tmp = l.tmp
      /\ m.prima = l.prima /\ m.insieme = l.insieme
  BY DEF Campi
<1>3. Campi(m)
  BY DEF Campi
<1> QED
  BY <1>1, <1>2, <1>3, Zenon DEF Avanzato

LEMMA AvanzaTipo ==
  ASSUME RisInv, NEW t \in Lavoratori, InLavoro(t), NEW p \in Fasi, NEW c, NEW r, Avanza(t, p, c, r)
  PROVE  /\ DOMAIN lavoro' = Lavoratori /\ \A s \in Lavoratori \ {t} : lavoro'[s] = lavoro[s]
         /\ InLavoro(t)' /\ Avanzato(lavoro[t], lavoro'[t], p, c, r)
<1> DEFINE l == lavoro[t]
           m == lavoro'[t]
<1>1. Campi(l)
  BY AlLavoro DEF LavoroOK
<1>2. DOMAIN lavoro = Lavoratori
  BY DEF RisInv
<1>3. DOMAIN lavoro' = Lavoratori /\ \A s \in Lavoratori \ {t} : lavoro'[s] = lavoro[s]
  BY <1>2 DEF Avanza
<1>4. m = [l EXCEPT !.passo = p, !.cache = c, !.letto = r]
  BY <1>2 DEF Avanza
<1> HIDE DEF l, m
<1>5. Avanzato(l, m, p, c, r)
  BY <1>1, <1>4, TreCampi, Zenon
<1>6. m.passo \in Fasi
  BY <1>5 DEF Avanzato
<1> QED
  BY <1>3, <1>5, <1>6 DEF InLavoro, l, m

\* The same step in the words of the actions.
LEMMA PassoAvanza ==
  ASSUME RisInv, NEW t \in Lavoratori, InLavoro(t), NEW p, lavoro' = [lavoro EXCEPT ![t].passo = p]
  PROVE  Avanza(t, p, lavoro[t].cache, lavoro[t].letto)
<1> DEFINE l == lavoro[t]
<1>1. Campi(l)
  BY AlLavoro DEF LavoroOK
<1>2. lavoro' = [lavoro EXCEPT ![t] = [l EXCEPT !.passo = p]]
  OBVIOUS
<1> HIDE DEF l
<1>3. [l EXCEPT !.passo = p] = [l EXCEPT !.passo = p, !.cache = l.cache, !.letto = l.letto]
  BY <1>1 DEF Campi
<1>4. lavoro' = [lavoro EXCEPT ![t] = [l EXCEPT !.passo = p, !.cache = l.cache, !.letto = l.letto]]
  BY <1>2, <1>3, Zenon
<1> QED
  BY <1>4 DEF l, Avanza

\* Reading leaves the files alone.
LEMMA leggiStep ==
  ASSUME RisInv, NEW t \in Lavoratori, leggi(t) \/ rileggi(t)
  PROVE  RisInv'
<1> DEFINE l == lavoro[t]
           f == lavoro[t].file
<1>1. InLavoro(t) /\ UNCHANGED <<programma, fileVars>>
  BY DEF leggi, rileggi, InLavoro, Fasi
<1>2. /\ LavoroOK(t) /\ (~l.insieme => SoloOK(t)) /\ FileOK /\ f \in File /\ programma \in {"swap", "remop"}
      /\ f \in Nomi /\ Temporaneo(f) \in Nomi /\ f # Temporaneo(f) /\ Len(contenuto) \in Nat
  BY <1>1, AlLavoro
<1>3. AltroRis(t, f)
  <2>1. directory' = directory /\ contenuto' = contenuto /\ programma' = programma
    BY <1>1 DEF fileVars
  <2>2. FileOK'
    BY <1>2, <2>1 DEF FileOK
  <2> QED
    BY <1>2, <2>1, <2>2 DEF AltroRis
<1>4. DOMAIN lavoro = Lavoratori
  BY DEF RisInv
<1>5. ASSUME NEW p \in Fasi, NEW c, NEW r, Sequenza(r),
             Avanza(t, p, c, r), p \in {"rilegge", "scrive"}, p = "rilegge" => programma = "swap",
             ~l.insieme => c = l.prima /\ r = l.prima /\ l.passo \in {"legge", "rilegge"}
      PROVE  RisInv'
  <2>1. /\ DOMAIN lavoro' = Lavoratori /\ \A s \in Lavoratori \ {t} : lavoro'[s] = lavoro[s]
        /\ InLavoro(t)' /\ Avanzato(l, lavoro'[t], p, c, r)
    BY <1>1, <1>5, AvanzaTipo
  <2>2. Temporaneo(lavoro[t].file)' = Temporaneo(f) /\ programma' = programma /\ directory' = directory /\ contenuto' = contenuto
    BY <1>1, <2>1 DEF Temporaneo, fileVars, Avanzato
  <2>3. LavoroOK(t)'
    BY <1>2, <1>5, <2>1, <2>2 DEF LavoroOK, Avanzato
  <2>4. ~lavoro[t].insieme => SoloOK(t)'
    BY <1>2, <1>5, <2>1, <2>2 DEF SoloOK, Avanzato
  <2> QED
    <3>1. lavoro'[t].file = f /\ lavoro'[t].insieme = lavoro[t].insieme
      BY <2>1 DEF Avanzato
    <3> QED
      BY <1>1, <1>2, <1>3, <2>1, <2>3, <2>4, <3>1, LavoroStep
<1>6. CASE leggi(t)
  <2> DEFINE r == contenuto[l.sorgente]
             p == IF programma = "swap" THEN "rilegge" ELSE "scrive"
  <2>1. l.passo = "legge" /\ lavoro' = [lavoro EXCEPT ![t].passo = p, ![t].cache = r, ![t].letto = r]
    BY <1>6 DEF leggi
  <2>2. Avanza(t, p, r, r)
    BY <1>4, <2>1 DEF Avanza
  <2>3. Sequenza(r) /\ (~l.insieme => r = l.prima)
    BY <1>2, <2>1 DEF LavoroOK, SoloOK, FileOK
  <2>4. p \in Fasi /\ p \in {"rilegge", "scrive"} /\ (p = "rilegge" => programma = "swap")
    BY DEF Fasi
  <2> HIDE DEF r, p
  <2> QED
    BY <1>5, <2>1, <2>2, <2>3, <2>4
<1>7. CASE rileggi(t)
  <2>1. l.passo = "rilegge"
    BY <1>7 DEF rileggi
  <2>2. CASE ~esiste(f)
    <3>1. lavoro' = [lavoro EXCEPT ![t] = Ozio]
      BY <1>7, <2>2 DEF rileggi
    <3>2. lavoro'[t] = Ozio /\ DOMAIN lavoro' = Lavoratori /\ \A s \in Lavoratori \ {t} : lavoro'[s] = lavoro[s]
      BY <1>4, <3>1
    <3> QED
      BY <1>1, <3>2, FermoStep
  <2>3. CASE esiste(f)
    <3>1. lavoro' = [lavoro EXCEPT ![t] = [l EXCEPT !.passo = "scrive", !.letto = Righe(f)]]
      BY <1>7, <2>3 DEF rileggi
    <3>2. [l EXCEPT !.passo = "scrive", !.letto = Righe(f)] = [l EXCEPT !.passo = "scrive", !.cache = l.cache, !.letto = Righe(f)]
      <4>1. Campi(l)
        BY <1>2 DEF LavoroOK
      <4> HIDE DEF l, f
      <4> QED
        BY <4>1 DEF Campi
    <3>3. Sequenza(Righe(f))
      BY <1>2, <2>3 DEF esiste, FileOK, Righe
    <3>4. ~l.insieme => Righe(f) = l.prima /\ l.cache = l.prima
      BY <1>2, <2>1 DEF SoloOK, Righe
    <3>5. "scrive" \in Fasi
      BY DEF Fasi
    <3>6. Avanza(t, "scrive", l.cache, Righe(f))
      BY <3>1, <3>2, Zenon DEF Avanza
    <3> QED
      BY <1>5, <2>1, <3>3, <3>4, <3>5, <3>6
  <2> QED
    BY <2>2, <2>3
<1> QED
  BY <1>6, <1>7

\* Steps that change files, with what is left to show of each.
LEMMA PassoStep ==
  ASSUME RisInv, NEW t \in Lavoratori, InLavoro(t), NEW p \in Fasi, lavoro' = [lavoro EXCEPT ![t].passo = p],
         p = "toglie" => programma = "swap", p # "rilegge", AltroRis(t, lavoro[t].file),
         ~lavoro[t].insieme =>
           /\ lavoro[t].letto = lavoro[t].prima /\ lavoro[t].cache = lavoro[t].prima
           /\ p \in {"cancella", "rinomina", "toglie", "risponde"}
           /\ p \notin {"toglie", "risponde"} => directory'[Temporaneo(lavoro[t].file)] = lavoro[t].tmp
           /\ contenuto'[lavoro[t].tmp] = Riscritte(lavoro[t])
           /\ p \in {"toglie", "risponde"} => directory'[lavoro[t].file] = lavoro[t].tmp,
         programma = "remop" => \A n \in Nomi : directory'[n] = lavoro[t].tmp =>
                                  n \in {lavoro[t].file, Temporaneo(lavoro[t].file)}
  PROVE  RisInv'
<1> DEFINE l == lavoro[t]
           f == lavoro[t].file
<1>1. LavoroOK(t) /\ FileOK /\ f \in File /\ programma \in {"swap", "remop"} /\ Len(contenuto) \in Nat
  BY AlLavoro
<1>2. /\ DOMAIN lavoro' = Lavoratori /\ \A s \in Lavoratori \ {t} : lavoro'[s] = lavoro[s]
      /\ InLavoro(t)' /\ Avanzato(l, lavoro'[t], p, l.cache, l.letto)
  BY PassoAvanza, AvanzaTipo
<1>3. /\ Temporaneo(lavoro[t].file)' = Temporaneo(f) /\ programma' = programma
      /\ Riscritte(lavoro[t])' = Riscritte(l)
  BY <1>2 DEF Temporaneo, AltroRis, Riscritte, Avanzato
<1>4. Len(contenuto') \in Nat /\ Len(contenuto') >= Len(contenuto)
  BY SequenzaTipo DEF AltroRis, FileOK
<1>5. LavoroOK(t)'
  BY <1>1, <1>2, <1>3, <1>4 DEF LavoroOK, Avanzato
<1>6. ~lavoro[t].insieme => SoloOK(t)'
  BY <1>2, <1>3 DEF SoloOK, Avanzato
<1>7. lavoro'[t].file = f /\ lavoro'[t].insieme = lavoro[t].insieme
  BY <1>2 DEF Avanzato
<1> QED
  BY <1>1, <1>2, <1>5, <1>6, <1>7, LavoroStep


\* What is written from the start of an empty file is what the file holds.
LEMMA ScrittoDaCapo ==
  ASSUME NEW i, contenuto[i] = <<>>, NEW w, Sequenza(w)
  PROVE  Scritto(i, 1, w) = w
<1> DEFINE s == Scritto(i, 1, w)
           n == Len(w)
<1>1. n \in Nat /\ DOMAIN w = 1 .. n /\ Len(contenuto[i]) = 0
  BY SequenzaTipo, SequenzaVuota
<1>2. 1 + n - 1 = n /\ (IF Len(contenuto[i]) > 1 + n - 1 THEN Len(contenuto[i]) ELSE 1 + n - 1) = n
  BY <1>1
<1>3. s = [j \in 1 .. n |-> IF j >= 1 /\ j <= n THEN w[j - 1 + 1]
                            ELSE IF j \in DOMAIN contenuto[i] THEN contenuto[i][j] ELSE "buco"]
  BY <1>2 DEF Scritto
<1> HIDE DEF s, n
<1>4. DOMAIN s = 1 .. n /\ s = [j \in 1 .. n |-> s[j]]
  BY <1>3
<1>5. \A j \in 1 .. n : s[j] = w[j]
  BY <1>1, <1>3
<1>6. Sequenza(s) /\ Len(s) = n
  BY <1>1, <1>4, SequenzaFunzione
<1>7. s = w
  BY <1>5, <1>6, SequenzeUguali DEF n
<1> QED
  BY <1>7 DEF s

\* close(): the rows reach the temporary.
LEMMA chiudiStep ==
  ASSUME RisInv, NEW t \in Lavoratori, chiudi(t)
  PROVE  RisInv'
<1> DEFINE l == lavoro[t]
           f == lavoro[t].file
           T == Temporaneo(lavoro[t].file)
           w == Riscritte(lavoro[t])
<1>1. /\ l.passo = "scrive" /\ InLavoro(t) /\ programma' = programma /\ "cancella" \in Fasi
      /\ lavoro' = [lavoro EXCEPT ![t].passo = "cancella"] /\ scrivi(l.tmp, 1, w)
  BY DEF chiudi, Passo, InLavoro, Fasi
<1>2. /\ LavoroOK(t) /\ (~l.insieme => SoloOK(t)) /\ FileOK /\ f \in File
      /\ f \in Nomi /\ T \in Nomi /\ f # T /\ Len(contenuto) \in Nat
  BY <1>1, AlLavoro
<1>3. l.tmp \in 1 .. Len(contenuto) /\ Sequenza(w)
  BY <1>2, RiscritteSequenza DEF LavoroOK
<1>4. /\ FileOK' /\ directory' = directory /\ Len(contenuto') = Len(contenuto)
      /\ contenuto'[l.tmp] = Scritto(l.tmp, 1, w)
      /\ \A j \in 1 .. Len(contenuto) \ {l.tmp} : contenuto'[j] = contenuto[j]
  <2> DEFINE a == 1
  <2>1. a \in Nat \ {0} /\ scrivi(l.tmp, a, w)
    BY <1>1
  <2> HIDE DEF l, w, a
  <2>2. /\ FileOK' /\ directory' = directory /\ Len(contenuto') = Len(contenuto)
        /\ contenuto'[l.tmp] = Scritto(l.tmp, a, w)
        /\ \A j \in 1 .. Len(contenuto) \ {l.tmp} : contenuto'[j] = contenuto[j]
    BY <1>2, <1>3, <2>1, ScriviFile
  <2> QED
    BY <2>2 DEF a
<1>5. AltroRis(t, f)
  BY <1>1, <1>2, <1>4 DEF AltroRis
<1>6. ASSUME ~l.insieme
      PROVE  /\ l.letto = l.prima /\ l.cache = l.prima
             /\ directory'[T] = l.tmp /\ contenuto'[l.tmp] = w
  <2>1. /\ l.letto = l.prima /\ l.cache = l.prima /\ contenuto[l.tmp] = <<>> /\ directory[T] = l.tmp
    BY <1>1, <1>2, <1>6 DEF SoloOK
  <2>2. Scritto(l.tmp, 1, w) = w
    BY <1>3, <2>1, ScrittoDaCapo
  <2> QED
    BY <1>4, <2>1, <2>2
<1>7. programma = "remop" => \A n \in Nomi : directory'[n] = l.tmp => n \in {f, T}
  BY <1>2, <1>4 DEF LavoroOK
<1> QED
  BY <1>1, <1>5, <1>6, <1>7, PassoStep

\* fileorig.delete().
LEMMA cancellaStep ==
  ASSUME RisInv, NEW t \in Lavoratori, cancella(t)
  PROVE  RisInv'
<1> DEFINE l == lavoro[t]
           f == lavoro[t].file
           T == Temporaneo(lavoro[t].file)
<1>1. /\ l.passo = "cancella" /\ InLavoro(t) /\ programma' = programma /\ "rinomina" \in Fasi
      /\ lavoro' = [lavoro EXCEPT ![t].passo = "rinomina"] /\ delete(f)
  BY DEF cancella, Passo, InLavoro, Fasi
<1>2. /\ LavoroOK(t) /\ (~l.insieme => SoloOK(t)) /\ FileOK /\ f \in File
      /\ f \in Nomi /\ T \in Nomi /\ f # T /\ Len(contenuto) \in Nat
  BY <1>1, AlLavoro
<1>3. /\ FileOK' /\ contenuto' = contenuto
      /\ \A m \in Nomi : directory'[m] = IF m = f THEN 0 ELSE directory[m]
  BY <1>1, <1>2, CancellaFile
<1>4. AltroRis(t, f)
  BY <1>1, <1>2, <1>3 DEF AltroRis
<1>5. ASSUME ~l.insieme
      PROVE  /\ l.letto = l.prima /\ l.cache = l.prima
             /\ directory'[T] = l.tmp /\ contenuto'[l.tmp] = Riscritte(l)
  BY <1>1, <1>2, <1>3, <1>5 DEF SoloOK
<1>6. programma = "remop" => \A n \in Nomi : directory'[n] = l.tmp => n \in {f, T}
  <2>1. l.tmp # 0
    BY <1>2 DEF LavoroOK
  <2> QED
    BY <1>2, <1>3, <2>1 DEF LavoroOK
<1> QED
  BY <1>1, <1>4, <1>5, <1>6, PassoStep

\* The renaming.
LEMMA rinominaStep ==
  ASSUME RisInv, NEW t \in Lavoratori, rinomina(t)
  PROVE  RisInv'
<1> DEFINE l == lavoro[t]
           f == lavoro[t].file
           T == Temporaneo(lavoro[t].file)
           p == IF programma = "swap" THEN "toglie" ELSE "risponde"
<1>1. /\ l.passo = "rinomina" /\ InLavoro(t) /\ programma' = programma
      /\ lavoro' = [lavoro EXCEPT ![t].passo = p] /\ renameTo(T, f)
  BY DEF rinomina, Passo, InLavoro, Fasi
<1>2. p \in Fasi /\ (p = "toglie" => programma = "swap") /\ p \in {"toglie", "risponde"} /\ p # "rilegge"
  BY DEF Fasi
<1>3. /\ LavoroOK(t) /\ (~l.insieme => SoloOK(t)) /\ FileOK /\ f \in File
      /\ f \in Nomi /\ T \in Nomi /\ f # T /\ Len(contenuto) \in Nat
  BY <1>1, AlLavoro
<1>4. /\ FileOK' /\ contenuto' = contenuto
      /\ \A q \in Nomi : directory'[q] = IF directory[T] = 0 THEN directory[q]
                                         ELSE IF q = f THEN directory[T]
                                         ELSE IF q = T THEN 0 ELSE directory[q]
  BY <1>1, <1>3, RinominaFile
<1>5. AltroRis(t, f)
  BY <1>1, <1>3, <1>4 DEF AltroRis
<1>6. l.tmp \in 1 .. Len(contenuto) /\ l.tmp # 0
  BY <1>3 DEF LavoroOK
<1>7. ASSUME ~l.insieme
      PROVE  /\ l.letto = l.prima /\ l.cache = l.prima
             /\ directory'[f] = l.tmp /\ contenuto'[l.tmp] = Riscritte(l)
  <2>1. /\ l.letto = l.prima /\ l.cache = l.prima
        /\ directory[T] = l.tmp /\ contenuto[l.tmp] = Riscritte(l)
    BY <1>1, <1>3, <1>7 DEF SoloOK
  <2> QED
    BY <1>3, <1>4, <1>6, <2>1
<1>8. programma = "remop" => \A n \in Nomi : directory'[n] = l.tmp => n \in {f, T}
  BY <1>3, <1>4, <1>6 DEF LavoroOK
<1> HIDE DEF p
<1> QED
  BY <1>1, <1>2, <1>5, <1>7, <1>8, PassoStep

\* tempFile.delete().
LEMMA togliStep ==
  ASSUME RisInv, NEW t \in Lavoratori, togli(t)
  PROVE  RisInv'
<1> DEFINE l == lavoro[t]
           f == lavoro[t].file
           T == Temporaneo(lavoro[t].file)
<1>1. /\ l.passo = "toglie" /\ InLavoro(t) /\ programma' = programma /\ "risponde" \in Fasi
      /\ lavoro' = [lavoro EXCEPT ![t].passo = "risponde"] /\ delete(<<"temp">>)
  BY DEF togli, Passo, InLavoro, Fasi
<1>2. /\ LavoroOK(t) /\ (~l.insieme => SoloOK(t)) /\ FileOK /\ f \in File
      /\ f \in Nomi /\ T \in Nomi /\ f # T /\ Len(contenuto) \in Nat
  BY <1>1, AlLavoro
<1>3. programma = "swap" /\ T = <<"temp">>
  BY <1>1, <1>2 DEF LavoroOK, Temporaneo
<1>4. /\ FileOK' /\ contenuto' = contenuto
      /\ \A m \in Nomi : directory'[m] = IF m = T THEN 0 ELSE directory[m]
  BY <1>1, <1>2, <1>3, CancellaFile
<1>5. AltroRis(t, f)
  BY <1>1, <1>2, <1>4 DEF AltroRis
<1>6. ASSUME ~l.insieme
      PROVE  /\ l.letto = l.prima /\ l.cache = l.prima
             /\ directory'[f] = l.tmp /\ contenuto'[l.tmp] = Riscritte(l)
  BY <1>1, <1>2, <1>4, <1>6 DEF SoloOK
<1> QED
  BY <1>1, <1>3, <1>5, <1>6, PassoStep

LEMMA RiscriveStep ==
  ASSUME RisInv, NEW t \in Lavoratori, Riscrive(t)
  PROVE  RisInv'
BY leggiStep, chiudiStep, cancellaStep, rinominaStep, togliStep DEF Riscrive

\* The end of a work.
LEMMA finitoStep ==
  ASSUME RisInv, NEW t \in Lavoratori, finito(t)
  PROVE  RisInv'
<1>1. UNCHANGED <<fileVars, programma>> /\ lavoro' = [lavoro EXCEPT ![t] = Ozio]
  BY DEF finito
<1>2. DOMAIN lavoro = Lavoratori
  BY DEF RisInv
<1>3. DOMAIN lavoro' = Lavoratori /\ lavoro'[t] = Ozio /\ \A s \in Lavoratori \ {t} : lavoro'[s] = lavoro[s]
  BY <1>1, <1>2
<1> QED
  BY <1>1, <1>3, FermoStep

\* A server starts: nobody is at work.
LEMMA PreparaStep ==
  ASSUME RisInv, NEW p \in {"swap", "remop"}, NEW N \in SUBSET File, IsFiniteSet(N), NEW d,
         \A n \in N : Sequenza(d[n]), Prepara(p, SetToSeq(N), d)
  PROVE  RisInv'
<1>1. programma = "spento" /\ programma' = p /\ Riempi(SetToSeq(N), d) /\ lavoro' = lavoro
  BY DEF Prepara
<1>2. N \subseteq Nomi
  BY RiscritturaAssumption DEF NomiFile
<1>3. FileOK'
  BY <1>1, <1>2, RiempiFile
<1>4. \A t \in Lavoratori : ~InLavoro(t)
  BY <1>1 DEF RisInv, LavoroOK
<1>5. \A t \in Lavoratori : ~InLavoro(t)'
  BY <1>1, <1>4 DEF InLavoro
<1> QED
  BY <1>1, <1>3, <1>4, <1>5 DEF RisInv, IncontriRis

\* DiscoveryServer, its threads and its clients.
LEMMA DiscoveryServerStep ==
  ASSUME RisInv, DiscoveryServer
  PROVE  RisInv' /\ programma' = "swap"
<1> PICK a \in Comandi :
      LET esistenti == {k \in DOMAIN a : a[k].esiste}
      IN  Prepara("swap", SetToSeq({a[k].file : k \in esistenti}), Testo)
  BY DEF DiscoveryServer
<1> DEFINE E == {k \in DOMAIN a : a[k].esiste}
           N == {a[k].file : k \in E}
           g == [k \in E |-> a[k].file]
<1>1. Len(a) \in Nat /\ DOMAIN a = 1 .. Len(a) /\ \A k \in DOMAIN a : a[k].file \in File
  BY ScambioAssumption, SequenzaTipo
<1>2. IsFiniteSet(E)
  <2>1. IsFiniteSet(1 .. Len(a))
    BY <1>1, FS_Interval
  <2> QED
    BY <1>1, <2>1, FS_Subset
<1>3. g \in Surjection(E, N)
  BY DEF Surjection
<1>4. IsFiniteSet(N)
  <2> HIDE DEF E, N, g
  <2> QED
    BY <1>2, <1>3, FS_Surjection
<1>5. N \in SUBSET File
  BY <1>1
<1>6. \A n \in N : Sequenza(Testo[n])
  BY <1>5, ScambioAssumption
<1>7. Prepara("swap", SetToSeq(N), Testo)
  OBVIOUS
<1>8. programma' = "swap"
  BY <1>7 DEF Prepara
<1> HIDE DEF N
<1> QED
  BY <1>4, <1>5, <1>6, <1>7, <1>8, PreparaStep

LEMMA ScambioStep ==
  ASSUME RisInv, programma = "spento" => vivi = {}, ScambioNext
  PROVE  RisInv' /\ (programma' = "spento" => vivi' = {})
<1>1. ASSUME UNCHANGED riscritturaVars PROVE RisInv' /\ programma' = programma
  <2>1. UNCHANGED <<programma, lavoro, directory, contenuto>>
    BY <1>1 DEF riscritturaVars, fileVars
  <2> QED
    BY <2>1 DEF RisInv, FileOK, IncontriRis, InLavoro, LavoroOK, SoloOK, Temporaneo, Riscritte
<1>2. CASE DiscoveryServer
  BY <1>2, DiscoveryServerStep
<1>3. CASE \E m \in inRete : risponde_porta(m)
  BY <1>1, <1>3 DEF risponde_porta
<1>4. CASE \E c \in Cliente : SwapClient(c)
  BY <1>1, <1>4 DEF SwapClient, chiede_porta, legge_porta, chiede_scambio, legge_esito
<1>5. ASSUME NEW t \in File, SwapServer(t) \/ SwapServer_lavora(t) \/ SwapServer_risponde(t)
      PROVE  RisInv' /\ (programma' = "spento" => vivi' = {})
  <2>1. t \in Lavoratori
    BY ScambioAssumption
  <2>2. CASE SwapServer(t)
    <3>1. PICK m \in inRete :
            /\ t \in vivi
            /\ \/ vivi' = vivi \ {t} /\ UNCHANGED riscritturaVars
               \/ UNCHANGED riscritturaVars /\ UNCHANGED vivi
               \/ apri(t, t, m.righe[1], m.da) /\ UNCHANGED vivi
      BY <2>2 DEF SwapServer
    <3>2. programma # "spento"
      BY <3>1
    <3>3. CASE UNCHANGED riscritturaVars
      BY <1>1, <3>2, <3>3
    <3>4. CASE apri(t, t, m.righe[1], m.da)
      <4>1. RisInv'
        BY <2>1, <3>2, <3>4, apriStep
      <4>2. programma' = programma
        BY <3>4 DEF apri
      <4> QED
        BY <3>2, <4>1, <4>2
    <3> QED
      BY <3>1, <3>3, <3>4
  <2>3. CASE SwapServer_lavora(t)
    <3>1. Riscrive(t) /\ vivi' = vivi
      BY <2>3 DEF SwapServer_lavora
    <3>2. programma' = programma
      BY <3>1 DEF Riscrive, leggi, rileggi, chiudi, cancella, rinomina, togli, Passo
    <3> QED
      BY <2>1, <3>1, <3>2, RiscriveStep
  <2>4. CASE SwapServer_risponde(t)
    <3>1. finito(t) /\ vivi' = vivi
      BY <2>4 DEF SwapServer_risponde
    <3>2. programma' = programma
      BY <3>1 DEF finito
    <3> QED
      BY <2>1, <3>1, <3>2, finitoStep
  <2> QED
    BY <1>5, <2>2, <2>3, <2>4
<1> QED
  BY <1>2, <1>3, <1>4, <1>5 DEF ScambioNext

\* The calls of ServerImpl.
LEMMA RemOpStep ==
  ASSUME RisInv, RemOpNext
  PROVE  RisInv'
<1>1. CASE ServerImpl_main
  <2> PICK d \in FileRemoti : Prepara("remop", SetToSeq(DOMAIN d), d)
    BY <1>1 DEF ServerImpl_main
  <2> DEFINE N == DOMAIN d
  <2>1. N \in SUBSET File /\ IsFiniteSet(N) /\ \A n \in N : Sequenza(d[n])
    BY RemOpAssumption
  <2>2. Prepara("remop", SetToSeq(N), d)
    OBVIOUS
  <2> HIDE DEF N
  <2> QED
    BY <2>1, <2>2, PreparaStep
<1>2. ASSUME NEW c \in ClientiRmi, elimina_riga(c) PROVE RisInv'
  <2>1. c \in Lavoratori /\ programma = "remop"
    BY <1>2, RemOpAssumption DEF elimina_riga
  <2>2. PICK f \in File, n \in RigheChieste : apri(c, f, n, c) \/ UNCHANGED riscritturaVars
    BY <1>2 DEF elimina_riga
  <2>3. CASE apri(c, f, n, c)
    BY <2>1, <2>3, apriStep
  <2>4. CASE UNCHANGED riscritturaVars
    <3>1. UNCHANGED <<programma, lavoro, directory, contenuto>>
      BY <2>4 DEF riscritturaVars, fileVars
    <3> QED
      BY <3>1 DEF RisInv, FileOK, IncontriRis, InLavoro, LavoroOK, SoloOK, Temporaneo, Riscritte
  <2> QED
    BY <2>2, <2>3, <2>4
<1>3. ASSUME NEW c \in ClientiRmi, conta_righe(c) PROVE RisInv'
  <2>1. c \in Lavoratori /\ DOMAIN lavoro = Lavoratori /\ UNCHANGED <<fileVars, programma>>
    BY <1>3, RemOpAssumption DEF conta_righe, RisInv
  <2>2. PICK f \in File, w \in Soglie :
          lavoro' = [lavoro EXCEPT ![c] = IF esiste(f)
                      THEN [passo |-> "conta", file |-> f, soglia |-> w, sorgente |-> directory[f],
                            prima |-> Righe(f), insieme |-> FALSE]
                      ELSE Ozio]
    BY <1>3 DEF conta_righe
  <2>3. DOMAIN lavoro' = Lavoratori /\ \A s \in Lavoratori \ {c} : lavoro'[s] = lavoro[s]
    BY <2>1, <2>2
  <2>4. lavoro'[c] = Ozio \/ lavoro'[c].passo = "conta"
    BY <2>1, <2>2
  <2> QED
    BY <2>1, <2>3, <2>4, FermoStep
<1>4. ASSUME NEW c \in ClientiRmi, conta(c) \/ ServerImpl_risponde(c) PROVE RisInv'
  <2>1. c \in Lavoratori /\ finito(c)
    BY <1>4, RemOpAssumption DEF conta, ServerImpl_risponde
  <2> QED
    BY <2>1, finitoStep
<1>5. ASSUME NEW c \in ClientiRmi, ServerImpl_lavora(c) PROVE RisInv'
  <2>1. c \in Lavoratori /\ Riscrive(c)
    BY <1>5, RemOpAssumption DEF ServerImpl_lavora
  <2> QED
    BY <2>1, RiscriveStep
<1> QED
  BY <1>1, <1>2, <1>3, <1>4, <1>5 DEF RemOpNext

LEMMA RisInit == RiscritturaInit => RisInv
<1> SUFFICES ASSUME RiscritturaInit PROVE RisInv
  OBVIOUS
<1>1. FileOK
  BY SequenzaVuota DEF RiscritturaInit, FileSystemInit, FileOK
<1>2. \A t \in Lavoratori : lavoro[t] = Ozio /\ ~InLavoro(t)
  BY DEF RiscritturaInit, InLavoro, Ozio, Fasi
<1> QED
  BY <1>1, <1>2 DEF RiscritturaInit, RisInv, IncontriRis

\* Two rows of a file in the place of each other.
LEMMA ScambiaGiusto ==
  ASSUME NEW s, Sequenza(s), NEW q, q[1] # q[2], q[1] \in DOMAIN s, q[2] \in DOMAIN s
  PROVE  Scambia(s, s, q) = [s EXCEPT ![q[1]] = s[q[2]], ![q[2]] = s[q[1]]]
<1> DEFINE D == DOMAIN s
           a == q[1]
           b == q[2]
<1>1. s = [k \in D |-> s[k]]
  BY LenProperties DEF Sequenza
<1>2. a \in D /\ b \in D /\ a # b
  OBVIOUS
<1>3. Scambia(s, s, q) = [k \in D |-> IF k = a THEN s[b] ELSE IF k = b THEN s[a] ELSE s[k]]
  BY <1>2 DEF Scambia
<1> DEFINE v == Scambia(s, s, q)
           w == [s EXCEPT ![a] = s[b], ![b] = s[a]]
<1>4. w = [k \in D |-> w[k]] /\ \A k \in D : w[k] = IF k = b THEN s[a] ELSE IF k = a THEN s[b] ELSE s[k]
  <2> HIDE DEF a, b
  <2> QED
    BY <1>1
<1> HIDE DEF D, v, a, b
<1>5. v = [k \in D |-> w[k]]
  <2> HIDE DEF w
  <2> QED
    BY <1>2, <1>3, <1>4 DEF v
<1>6. v = w
  BY <1>4, <1>5, Zenon
<1> QED
  BY <1>6 DEF v, w, a, b

\* A file without one of its rows.
LEMMA TogliGiusto ==
  ASSUME NEW s, Sequenza(s), NEW i \in DOMAIN s
  PROVE  RemoveAt(s, i) = [k \in 1 .. Len(s) - 1 |-> s[IF i \in 1 .. k THEN k + 1 ELSE k]]
<1> DEFINE n == Len(s)
           S == {s[j] : j \in DOMAIN s}
           p == SubSeq(s, 1, i - 1)
           q == SubSeq(s, i + 1, Len(s))
           r == RemoveAt(s, i)
           w == [k \in 1 .. n - 1 |-> s[IF i \in 1 .. k THEN k + 1 ELSE k]]
<1>1. n \in Nat /\ DOMAIN s = 1 .. n /\ i \in 1 .. n /\ n - 1 \in Nat
  BY SequenzaTipo
<1>2. \A j \in 1 .. n : s[j] \in S
  BY <1>1
<1>3. r = p \o q
  BY DEF RemoveAt
<1>4. DOMAIN w = 1 .. n - 1 /\ w = [k \in 1 .. n - 1 |-> w[k]]
  OBVIOUS
<1>5. \A k \in 1 .. n - 1 : w[k] = IF k < i THEN s[k] ELSE s[k + 1]
  BY <1>1
<1>6. p \in Seq(S) /\ Len(p) = i - 1 /\ \A k \in 1 .. i - 1 : p[k] = s[k]
  <2> DEFINE x == 1
             y == i - 1
  <2>1. x \in Int /\ y \in Int /\ \A k \in x .. y : s[k] \in S
    BY <1>1, <1>2
  <2> HIDE DEF x, y, S
  <2>2. /\ SubSeq(s, x, y) \in Seq(S)
        /\ Len(SubSeq(s, x, y)) = IF x <= y THEN y - x + 1 ELSE 0
        /\ \A k \in 1 .. y - x + 1 : SubSeq(s, x, y)[k] = s[x + k - 1]
    BY <2>1, SubSeqProperties
  <2> QED
    BY <1>1, <2>2 DEF x, y
<1>7. q \in Seq(S) /\ Len(q) = n - i /\ \A k \in 1 .. n - i : q[k] = s[i + k]
  <2> DEFINE x == i + 1
  <2>1. x \in Int /\ n \in Int /\ \A k \in x .. n : s[k] \in S
    BY <1>1, <1>2
  <2> HIDE DEF x, n, S
  <2>2. /\ SubSeq(s, x, n) \in Seq(S)
        /\ Len(SubSeq(s, x, n)) = IF x <= n THEN n - x + 1 ELSE 0
        /\ \A k \in 1 .. n - x + 1 : SubSeq(s, x, n)[k] = s[x + k - 1]
    BY <2>1, SubSeqProperties
  <2> QED
    BY <1>1, <2>2, SMTT(30) DEF x, n
<1> HIDE DEF n, S, p, q, r, w
<1>8. /\ r \in Seq(S) /\ Len(r) = Len(p) + Len(q)
      /\ \A k \in 1 .. Len(p) + Len(q) : r[k] = IF k <= Len(p) THEN p[k] ELSE q[k - Len(p)]
  BY <1>3, <1>6, <1>7, ConcatProperties
<1>9. Len(r) = n - 1
  BY <1>1, <1>6, <1>7, <1>8
<1>10. ASSUME NEW k \in 1 .. n - 1 PROVE r[k] = w[k]
  <2>1. CASE k < i
    BY <1>1, <1>5, <1>6, <1>7, <1>8, <2>1, SMTT(30)
  <2>2. CASE k >= i
    <3>1. r[k] = q[k - (i - 1)]
      BY <1>1, <1>6, <1>7, <1>8, <2>2, SMTT(30)
    <3>2. k - (i - 1) \in 1 .. n - i /\ i + (k - (i - 1)) = k + 1
      BY <1>1, <2>2
    <3>3. w[k] = s[k + 1]
      BY <1>1, <1>5, <2>2
    <3> QED
      BY <1>7, <3>1, <3>2, <3>3
  <2> QED
    BY <1>1, <2>1, <2>2
<1>11. Sequenza(w) /\ Len(w) = n - 1
  BY <1>1, <1>4, SequenzaFunzione
<1>12. r = w
  <2>1. Sequenza(r)
    BY <1>8, SequenzaDi
  <2> QED
    BY <1>9, <1>10, <1>11, <2>1, SequenzeUguali
<1> QED
  BY <1>12 DEF r, w, n

\* What has been answered for is done.
LEMMA RisRiscritto == RisInv => Riscritto
<1> SUFFICES ASSUME RisInv, NEW t \in Lavoratori, lavoro[t].passo = "risponde", ~lavoro[t].insieme
             PROVE  esiste(lavoro[t].file) /\ EsitoDi(lavoro[t])
  BY DEF Riscritto
<1> DEFINE l == lavoro[t]
<1>1. InLavoro(t)
  BY DEF InLavoro, Fasi
<1>2. LavoroOK(t) /\ SoloOK(t) /\ programma \in {"swap", "remop"}
  BY <1>1, AlLavoro
<1>3. /\ l.letto = l.prima /\ l.cache = l.prima
      /\ contenuto[l.tmp] = Riscritte(l) /\ directory[l.file] = l.tmp
  BY <1>2 DEF SoloOK
<1>4. l.tmp \in 1 .. Len(contenuto) /\ l.tmp # 0 /\ Sequenza(l.prima)
  BY <1>2 DEF LavoroOK
<1>5. esiste(l.file) /\ Righe(l.file) = Riscritte(l)
  BY <1>3, <1>4 DEF esiste, Righe
<1>6. CASE programma = "swap"
  <2>1. Riscritte(l) = Scambia(l.prima, l.prima, l.chiede)
    BY <1>3, <1>6 DEF Riscritte
  <2>2. l.chiede[1] # l.chiede[2] /\ {l.chiede[1], l.chiede[2]} \subseteq DOMAIN l.prima =>
          Scambia(l.prima, l.prima, l.chiede) = [l.prima EXCEPT ![l.chiede[1]] = l.prima[l.chiede[2]],
                                                                ![l.chiede[2]] = l.prima[l.chiede[1]]]
    BY <1>4, ScambiaGiusto
  <2> QED
    BY <1>5, <1>6, <2>1, <2>2 DEF EsitoDi
<1>7. CASE programma = "remop"
  <2> DEFINE s == l.prima
             i == l.chiede
  <2>1. Righe(l.file) = IF i \in DOMAIN s THEN RemoveAt(s, i) ELSE s
    BY <1>3, <1>5, <1>7 DEF Riscritte
  <2>2. Len(s) \in Nat /\ DOMAIN s = 1 .. Len(s) /\ s = [k \in 1 .. Len(s) |-> s[k]]
    BY <1>4, SequenzaTipo, LenProperties DEF Sequenza
  <2>3. EsitoDi(l) <=> Righe(l.file) = [k \in 1 .. Len(s) - (IF i \in DOMAIN s THEN 1 ELSE 0) |->
                                          s[IF i \in 1 .. k THEN k + 1 ELSE k]]
    BY <1>7 DEF EsitoDi
  <2>4. CASE i \in DOMAIN s
    <3>1. RemoveAt(s, i) = [k \in 1 .. Len(s) - 1 |-> s[IF i \in 1 .. k THEN k + 1 ELSE k]]
      BY <1>4, <2>4, TogliGiusto
    <3> QED
      BY <1>5, <2>1, <2>3, <2>4, <3>1
  <2>5. CASE i \notin DOMAIN s
    <3> HIDE DEF s, i
    <3>1. \A k \in 1 .. Len(s) : i \notin 1 .. k
      BY <2>2, <2>5
    <3>2. Len(s) - 0 = Len(s)
      BY <2>2
    <3>3. [k \in 1 .. Len(s) |-> s[IF i \in 1 .. k THEN k + 1 ELSE k]] = [k \in 1 .. Len(s) |-> s[k]]
      BY <3>1
    <3> QED
      BY <1>5, <2>1, <2>2, <2>3, <2>5, <3>2, <3>3 DEF s, i
  <2> QED
    BY <2>4, <2>5
<1> QED
  BY <1>2, <1>6, <1>7

-----------------------------------------------------------------------------
(* MPut. *)

\* The files users have.
Offerti == UNION {{d[i] : i \in DOMAIN d} : d \in Cartelle}
NomiOfferti == {x.nome : x \in Offerti}

StatiMPut == {"nome", "lunghezza", "riceve"}
Vivo(k) == mthr[k].stato \in StatiMPut
Riceve(k) == mthr[k].stato \in {"lunghezza", "riceve"}

MPutTipi ==
  /\ mclient \in [Conn -> {"prima", "file", "risposta", "dati", "fuori"}]
  /\ DOMAIN su = Conn /\ DOMAIN giu = Conn /\ DOMAIN elencoFile = Conn /\ DOMAIN mthr = Conn
  /\ \A k \in Conn : Vivo(k) \/ mthr[k] = Morto
  /\ \A k \in Conn : Vivo(k) =>
       /\ mthr[k] \in [stato : StatiMPut, nome : NomiOfferti \cup {<<>>}, num : Nat, cont : Nat, ino : Nat, insieme : BOOLEAN]
       /\ DOMAIN elencoFile[k] \subseteq Nat /\ \A i \in DOMAIN elencoFile[k] : elencoFile[k][i] \in Offerti
       /\ mclient[k] \in {"risposta", "dati"} => DOMAIN elencoFile[k] # {}
  /\ \A k \in Conn : Vivo(k) => acceso
  /\ avvii \in Nat /\ (acceso => avvii # 0)
  /\ avvii = 0 => directory = [n \in Nomi |-> 0] /\ mthr = [k \in Conn |-> Morto]

\* q is what is left of b from c on and, if z = 1, the name of a file.
Resta(q, b, c, z) ==
  /\ Sequenza(q) /\ Len(q) = Len(b) - c + z
  /\ \A i \in 1 .. Len(b) - c : q[i] = b[c + i]
  /\ z = 1 => q[Len(q)] \in NomiOfferti

\* Client k is past the file whose bytes, and z names, its stream q ends with.
Oltre(k, q, z) ==
  /\ z \in {0, 1}
  /\ mclient[k] \in {"file", "risposta", "fuori"}
  /\ mclient[k] = "file" => z = 0
  /\ mclient[k] = "risposta" => z = 1 /\ q[Len(q)] = Corrente(k).nome

\* What is between a client and its thread.
FlussoNome(k) ==
  \/ su[k] = <<>> /\ giu[k] = <<>> /\ (mclient[k] = "dati" => Len(Corrente(k).blocchi) = 0)
  \/ /\ \E n \in NomiOfferti : su[k] = <<n>> /\ (mclient[k] = "risposta" => n = Corrente(k).nome)
     /\ giu[k] = <<>> /\ mclient[k] \in {"risposta", "fuori"}
  \/ su[k] = <<>> /\ giu[k] = <<"salta file">> /\ mclient[k] \in {"risposta", "fuori"}

FlussoLunghezza(k) ==
  \/ /\ su[k] = <<>> /\ giu[k] = <<"attiva">> /\ mclient[k] \in {"risposta", "fuori"}
     /\ mclient[k] = "risposta" => mthr[k].nome = Corrente(k).nome
  \/ /\ mclient[k] = "dati" /\ giu[k] = <<>> /\ su[k] = << <<"long", Len(Corrente(k).blocchi)>> >>
     /\ mthr[k].nome = Corrente(k).nome
  \/ /\ giu[k] = <<>>
     /\ \E x \in Offerti, z \in {0, 1} :
          /\ x.nome = mthr[k].nome /\ Sequenza(su[k]) /\ su[k] # <<>> /\ Head(su[k]) = <<"long", Len(x.blocchi)>>
          /\ Resta(SubSeq(su[k], 2, Len(su[k])), x.blocchi, 0, z)
          /\ Oltre(k, su[k], z)

\* What thread k has written, of a file of which its client has this.
Scrive(k, b) == ~mthr[k].insieme => contenuto[mthr[k].ino] = SubSeq(b, 1, mthr[k].cont)

FlussoRiceve(k) ==
  /\ giu[k] = <<>>
  /\ \/ /\ su[k] = <<>> /\ mclient[k] = "dati" /\ mthr[k].nome = Corrente(k).nome
        /\ mthr[k].num = Len(Corrente(k).blocchi) /\ mthr[k].cont = 0 /\ mthr[k].num # 0
        /\ Scrive(k, Corrente(k).blocchi)
     \/ \E x \in Offerti, z \in {0, 1} :
          /\ x.nome = mthr[k].nome /\ mthr[k].num = Len(x.blocchi) /\ mthr[k].cont < mthr[k].num
          /\ Resta(su[k], x.blocchi, mthr[k].cont, z) /\ Oltre(k, su[k], z)
          /\ Scrive(k, x.blocchi)

\* The thread's file has its name since it was created, and is no old one.
FileMPut(k) ==
  /\ Riceve(k) => mthr[k].nome \in NomiOfferti /\ partenza[1][mthr[k].nome] = 0
  /\ mthr[k].stato = "lunghezza" => mthr[k].cont = 0
  /\ mthr[k].stato = "riceve" \/ Ricevuto(k) =>
       /\ mthr[k].nome \in NomiOfferti /\ directory[mthr[k].nome] = mthr[k].ino /\ mthr[k].ino # 0
       /\ partenza[1][mthr[k].nome] = 0
  /\ Ricevuto(k) /\ ~mthr[k].insieme /\ mthr[k].cont = mthr[k].num =>
       \E x \in Offerti : x.nome = mthr[k].nome /\ contenuto[mthr[k].ino] = x.blocchi

IncontriMPut ==
  \A j, k \in Conn : j # k /\ Riceve(j) /\ (Riceve(k) \/ Ricevuto(k)) /\ mthr[j].nome = mthr[k].nome => mthr[k].insieme

PartenzaMPut ==
  /\ DOMAIN partenza[1] = Nomi
  /\ \A n \in Nomi : partenza[1][n] # 0 => directory[n] = partenza[1][n] /\ contenuto[directory[n]] = partenza[2][directory[n]]

FlussoMPut(k) ==
  /\ mclient[k] # "prima"
  /\ mthr[k].stato = "nome" => FlussoNome(k)
  /\ mthr[k].stato = "lunghezza" => FlussoLunghezza(k)
  /\ mthr[k].stato = "riceve" => FlussoRiceve(k)

MPutInv ==
  /\ FileOK /\ MPutTipi /\ PartenzaMPut /\ IncontriMPut
  /\ \A k \in Conn : Vivo(k) => FlussoMPut(k) /\ FileMPut(k)

LEMMA SequenzaConcat ==
  ASSUME NEW s, Sequenza(s), NEW t, Sequenza(t)
  PROVE  /\ Sequenza(s \o t) /\ Len(s \o t) = Len(s) + Len(t)
         /\ \A i \in 1 .. Len(s) + Len(t) : (s \o t)[i] = IF i <= Len(s) THEN s[i] ELSE t[i - Len(s)]
<1> DEFINE A == {s[i] : i \in DOMAIN s}
           B == {t[i] : i \in DOMAIN t}
           S == A \cup B
<1>1. s \in Seq(A) /\ t \in Seq(B)
  BY DEF Sequenza
<1> HIDE DEF A, B
<1>2. s \in Seq(S) /\ t \in Seq(S)
  <2>1. Seq(A) \subseteq Seq(S) /\ Seq(B) \subseteq Seq(S)
    BY SeqMonotonic
  <2> QED
    BY <1>1, <2>1
<1> HIDE DEF S
<1>3. /\ s \o t \in Seq(S) /\ Len(s \o t) = Len(s) + Len(t)
      /\ \A i \in 1 .. Len(s) + Len(t) : (s \o t)[i] = IF i <= Len(s) THEN s[i] ELSE t[i - Len(s)]
  BY <1>2, ConcatProperties
<1> QED
  BY <1>3, SequenzaDi

LEMMA SequenzaUno ==
  ASSUME NEW x
  PROVE  Sequenza(<<x>>) /\ Len(<<x>>) = 1 /\ <<x>>[1] = x
<1>1. <<x>> \in Seq({x})
  OBVIOUS
<1> QED
  BY <1>1, SequenzaDi

\* The first n items of a sequence, and the others.
LEMMA Divisa ==
  ASSUME NEW q, Sequenza(q), NEW n \in Nat, n <= Len(q)
  PROVE  /\ Sequenza(SubSeq(q, 1, n)) /\ Len(SubSeq(q, 1, n)) = n
         /\ \A i \in 1 .. n : SubSeq(q, 1, n)[i] = q[i]
         /\ Sequenza(SubSeq(q, n + 1, Len(q))) /\ Len(SubSeq(q, n + 1, Len(q))) = Len(q) - n
         /\ \A i \in 1 .. Len(q) - n : SubSeq(q, n + 1, Len(q))[i] = q[n + i]
<1> DEFINE S == {q[i] : i \in DOMAIN q}
           a == 1
           b == n + 1
           m == Len(q)
<1>1. m \in Nat /\ \A i \in 1 .. m : q[i] \in S
  BY SequenzaTipo
<1>2. a \in Int /\ b \in Int /\ m \in Int /\ n \in Int
  BY <1>1
<1> HIDE DEF S
<1>3. (\A i \in a .. n : q[i] \in S) /\ (\A i \in b .. m : q[i] \in S)
  BY <1>1
<1> HIDE DEF a, b, m
<1>4. /\ SubSeq(q, a, n) \in Seq(S) /\ Len(SubSeq(q, a, n)) = (IF a <= n THEN n - a + 1 ELSE 0)
      /\ \A i \in 1 .. n - a + 1 : SubSeq(q, a, n)[i] = q[a + i - 1]
  BY <1>2, <1>3, SubSeqProperties
<1>5. /\ SubSeq(q, b, m) \in Seq(S) /\ Len(SubSeq(q, b, m)) = (IF b <= m THEN m - b + 1 ELSE 0)
      /\ \A i \in 1 .. m - b + 1 : SubSeq(q, b, m)[i] = q[b + i - 1]
  BY <1>2, <1>3, SubSeqProperties
<1>6. Sequenza(SubSeq(q, a, n)) /\ Sequenza(SubSeq(q, b, m))
  BY <1>4, <1>5, SequenzaDi
<1>7. Len(SubSeq(q, a, n)) = n /\ \A i \in 1 .. n : SubSeq(q, a, n)[i] = q[i]
  BY <1>4 DEF a
<1>8. Len(SubSeq(q, b, m)) = m - n /\ \A i \in 1 .. m - n : SubSeq(q, b, m)[i] = q[n + i]
  BY <1>1, <1>2, <1>5 DEF b, m
<1> QED
  BY <1>6, <1>7, <1>8 DEF a, b, m

\* What a write of p appends to a file that has the first c items of b.
Aggiunge(i, b, c, n, p) == Scritto(i, c + 1, p) = SubSeq(b, 1, c + n)

LEMMA PezzoInPiu ==
  ASSUME NEW b, Sequenza(b), NEW c \in Nat, NEW n \in Nat, c + n <= Len(b), NEW i,
         contenuto[i] = SubSeq(b, 1, c), NEW p, Sequenza(p), Len(p) = n, \A j \in 1 .. n : p[j] = b[c + j]
  PROVE  Aggiunge(i, b, c, n, p)
<1> DEFINE v == SubSeq(b, 1, c)
           m == c + n
           w == SubSeq(b, 1, m)
           s == Scritto(i, c + 1, p)
<1>1. Len(b) \in Nat /\ m \in Nat /\ m <= Len(b) /\ c <= Len(b)
  BY SequenzaTipo
<1> HIDE DEF m
<1>2. Sequenza(v) /\ Len(v) = c /\ \A j \in 1 .. c : v[j] = b[j]
  BY <1>1, Divisa
<1>3. Sequenza(w) /\ Len(w) = m /\ \A j \in 1 .. m : w[j] = b[j]
  BY <1>1, Divisa
<1>4. DOMAIN v = 1 .. c
  BY <1>2, SequenzaTipo
<1>5. c + 1 + n - 1 = m /\ (IF Len(v) > c + 1 + n - 1 THEN Len(v) ELSE c + 1 + n - 1) = m
  BY <1>2 DEF m
<1>6. s = [j \in 1 .. m |-> IF j >= c + 1 /\ j <= m THEN p[j - (c + 1) + 1]
                            ELSE IF j \in DOMAIN v THEN v[j] ELSE "buco"]
  <2> HIDE DEF v
  <2>1. contenuto[i] = v
    BY DEF v
  <2> QED
    BY <1>5, <2>1 DEF Scritto
<1> HIDE DEF v, w, s
<1>7. DOMAIN s = 1 .. m /\ s = [j \in 1 .. m |-> s[j]]
  BY <1>6
<1>8. Sequenza(s) /\ Len(s) = m
  BY <1>1, <1>7, SequenzaFunzione
<1>9. ASSUME NEW j \in 1 .. m PROVE s[j] = w[j]
  <2>1. CASE j <= c
    <3>1. s[j] = v[j]
      BY <1>1, <1>4, <1>6, <2>1
    <3> QED
      BY <1>1, <1>2, <1>3, <2>1, <3>1
  <2>2. CASE j > c
    <3>1. s[j] = p[j - (c + 1) + 1]
      BY <1>1, <1>6, <2>2
    <3>2. j - (c + 1) + 1 \in 1 .. n /\ c + (j - (c + 1) + 1) = j
      BY <1>1, <2>2 DEF m
    <3> QED
      BY <1>3, <3>1, <3>2
  <2> QED
    BY <1>1, <2>1, <2>2
<1>10. s = w
  BY <1>3, <1>8, <1>9, SequenzeUguali
<1> QED
  BY <1>10 DEF s, w, m, Aggiunge

\* The streams of MPut: what is left of a file, and a name after it.
LEMMA RestaTutto ==
  ASSUME NEW b, Sequenza(b)
  PROVE  Resta(b, b, 0, 0)
<1>1. Len(b) \in Nat /\ Len(b) - 0 + 0 = Len(b) /\ \A i \in 1 .. Len(b) - 0 : 0 + i = i
  BY SequenzaTipo
<1> QED
  BY <1>1 DEF Resta

LEMMA RestaNome ==
  ASSUME NEW b, Sequenza(b), NEW c \in Nat, c <= Len(b), NEW q, Resta(q, b, c, 0), NEW n \in NomiOfferti
  PROVE  Resta(q \o <<n>>, b, c, 1) /\ (q \o <<n>>)[Len(q \o <<n>>)] = n
<1> DEFINE r == q \o <<n>>
           u == <<n>>
<1>1. Len(b) \in Nat /\ Sequenza(q) /\ Len(q) = Len(b) - c /\ \A i \in 1 .. Len(b) - c : q[i] = b[c + i]
  BY SequenzaTipo DEF Resta
<1>2. Sequenza(u) /\ Len(u) = 1 /\ u[1] = n
  BY SequenzaUno
<1>3. /\ Sequenza(r) /\ Len(r) = Len(q) + 1
      /\ \A i \in 1 .. Len(q) + 1 : r[i] = IF i <= Len(q) THEN q[i] ELSE u[i - Len(q)]
  <2> HIDE DEF u
  <2> QED
    BY <1>1, <1>2, SequenzaConcat DEF u
<1> HIDE DEF r, u
<1>4. r[Len(r)] = n
  <2>1. Len(q) \in Nat /\ Len(r) \in 1 .. Len(q) + 1 /\ Len(r) - Len(q) = 1
    BY <1>1, <1>3
  <2>2. ~(Len(r) <= Len(q))
    BY <1>3, <2>1
  <2> QED
    BY <1>2, <1>3, <2>1, <2>2
<1>5. \A i \in 1 .. Len(b) - c : r[i] = b[c + i]
  BY <1>1, <1>3, SMTT(30)
<1> QED
  BY <1>1, <1>3, <1>4, <1>5 DEF Resta, r

\* What a read of n of them takes, and leaves.
Letta(b, c, z, q, n) ==
  LET r == SubSeq(q, n + 1, Len(q))
  IN  /\ c + n <= Len(b) =>
           /\ Resta(r, b, c + n, z) /\ (z = 1 => r[Len(r)] = q[Len(q)])
           /\ Sequenza(SubSeq(q, 1, n)) /\ Len(SubSeq(q, 1, n)) = n
           /\ \A i \in 1 .. n : SubSeq(q, 1, n)[i] = b[c + i]
      /\ c + n > Len(b) => z = 1 /\ r = <<>>

LEMMA RestaLetta ==
  ASSUME NEW b, Sequenza(b), NEW c \in Nat, c < Len(b), NEW z \in {0, 1}, NEW q, Resta(q, b, c, z),
         NEW n \in Nat, 1 <= n, n <= Len(q)
  PROVE  Letta(b, c, z, q, n)
<1> DEFINE r == SubSeq(q, n + 1, Len(q))
           p == SubSeq(q, 1, n)
<1>1. Len(b) \in Nat /\ Sequenza(q) /\ Len(q) = Len(b) - c + z /\ \A i \in 1 .. Len(b) - c : q[i] = b[c + i]
  BY SequenzaTipo DEF Resta
<1>2. /\ Sequenza(p) /\ Len(p) = n /\ \A i \in 1 .. n : p[i] = q[i]
      /\ Sequenza(r) /\ Len(r) = Len(q) - n /\ \A i \in 1 .. Len(q) - n : r[i] = q[n + i]
  BY <1>1, Divisa
<1> HIDE DEF r, p
<1>3. ASSUME c + n <= Len(b), z = 1 PROVE r[Len(r)] = q[Len(q)]
  <2>1. Len(r) \in 1 .. Len(q) - n /\ n + Len(r) = Len(q)
    BY <1>1, <1>2, <1>3
  <2> QED
    BY <1>2, <2>1
<1>4. c + n <= Len(b) => Resta(r, b, c + n, z)
  <2> SUFFICES ASSUME c + n <= Len(b) PROVE Resta(r, b, c + n, z)
    OBVIOUS
  <2>1. Len(r) = Len(b) - (c + n) + z
    BY <1>1, <1>2
  <2>2. ASSUME NEW i \in 1 .. Len(b) - (c + n) PROVE r[i] = b[c + n + i]
    <3>1. i \in 1 .. Len(q) - n /\ n + i \in 1 .. Len(b) - c /\ c + (n + i) = c + n + i
      BY <1>1
    <3>2. r[i] = q[n + i] /\ q[n + i] = b[c + (n + i)]
      BY <1>1, <1>2, <3>1
    <3> QED
      BY <3>1, <3>2
  <2>3. z = 1 => r[Len(r)] \in NomiOfferti
    BY <1>3 DEF Resta
  <2> QED
    BY <1>2, <2>1, <2>2, <2>3 DEF Resta
<1>5. ASSUME c + n <= Len(b) PROVE \A i \in 1 .. n : p[i] = b[c + i]
  <2> TAKE i \in 1 .. n
  <2>1. i \in 1 .. Len(b) - c
    BY <1>1, <1>5
  <2> QED
    BY <1>1, <1>2, <2>1
<1>6. ASSUME Len(r) = 0 PROVE r = <<>>
  BY <1>2, <1>6, SequenzaVuota, SequenzeUguali
<1>9. Len(b) \in Nat /\ Len(q) = Len(b) - c + z /\ Len(r) = Len(q) - n
  BY <1>1, <1>2
<1>7. c + n > Len(b) => z = 1 /\ r = <<>>
  <2>1. c + n > Len(b) => z = 1 /\ Len(r) = 0
    BY <1>9
  <2> QED
    BY <1>6, <2>1
<1> QED
  BY <1>2, <1>3, <1>4, <1>5, <1>7 DEF Letta, r, p

\* A name after what follows the length.
LEMMA CodaConcat ==
  ASSUME NEW q, Sequenza(q), q # <<>>, NEW n
  PROVE  /\ q \o <<n>> # <<>> /\ Head(q \o <<n>>) = Head(q) /\ Sequenza(q \o <<n>>)
         /\ SubSeq(q \o <<n>>, 2, Len(q \o <<n>>)) = SubSeq(q, 2, Len(q)) \o <<n>>
         /\ (q \o <<n>>)[Len(q \o <<n>>)] = n
<1> DEFINE u == <<n>>
           r == q \o u
           a == 1
           v == SubSeq(q, a + 1, Len(q))
           w == SubSeq(r, a + 1, Len(r))
<1>1. Sequenza(u) /\ Len(u) = 1 /\ u[1] = n
  BY SequenzaUno
<1>2. Len(q) \in Nat
  BY SequenzaTipo
<1>3. Len(q) # 0
  BY SequenzaVuota, SequenzeUguali
<1> HIDE DEF u
<1>4. /\ Sequenza(r) /\ Len(r) = Len(q) + 1
      /\ \A i \in 1 .. Len(q) + 1 : r[i] = IF i <= Len(q) THEN q[i] ELSE u[i - Len(q)]
  BY <1>1, SequenzaConcat
<1> HIDE DEF r
<1>5. a \in Nat /\ a <= Len(q) /\ a <= Len(r)
  BY <1>2, <1>3, <1>4
<1> HIDE DEF a
<1>6. Sequenza(v) /\ Len(v) = Len(q) - a /\ \A i \in 1 .. Len(q) - a : v[i] = q[a + i]
  BY <1>5, Divisa
<1>7. Sequenza(w) /\ Len(w) = Len(r) - a /\ \A i \in 1 .. Len(r) - a : w[i] = r[a + i]
  BY <1>4, <1>5, Divisa
<1> HIDE DEF v, w
<1>8. /\ Sequenza(v \o u) /\ Len(v \o u) = Len(v) + 1
      /\ \A i \in 1 .. Len(v) + 1 : (v \o u)[i] = IF i <= Len(v) THEN v[i] ELSE u[i - Len(v)]
  <2>1. Sequenza(v) /\ Sequenza(u) /\ Len(u) = 1
    BY <1>1, <1>6
  <2> QED
    BY <2>1, SequenzaConcat
<1>9. w = v \o u
  <2>1. Len(w) = Len(v \o u)
    BY <1>2, <1>4, <1>5, <1>6, <1>7, <1>8
  <2>2. ASSUME NEW i \in 1 .. Len(w) PROVE w[i] = (v \o u)[i]
    <3>1. /\ i \in 1 .. Len(r) - a /\ i \in 1 .. Len(v) + 1 /\ a + i \in 1 .. Len(q) + 1
          /\ (a + i <= Len(q) <=> i <= Len(v)) /\ a + i - Len(q) = i - Len(v)
          /\ (i <= Len(v) => i \in 1 .. Len(q) - a)
      BY <1>2, <1>4, <1>5, <1>6, <1>7, <2>2 DEF a
    <3> QED
      BY <1>4, <1>6, <1>7, <1>8, <3>1, SMTT(30)
  <2> QED
    BY <1>7, <1>8, <2>1, <2>2, SequenzeUguali
<1>10. r # <<>> /\ Head(r) = Head(q)
  BY <1>2, <1>3, <1>4, SequenzaVuota, SequenzaTipo
<1>11. r[Len(r)] = n
  <2>1. Len(r) \in 1 .. Len(q) + 1 /\ ~(Len(r) <= Len(q)) /\ Len(r) - Len(q) = 1
    BY <1>2, <1>4
  <2> QED
    BY <1>1, <1>4, <2>1
<1> QED
  BY <1>4, <1>9, <1>10, <1>11 DEF r, u, v, w, a

LEMMA MinimoEsiste ==
  ASSUME NEW S, S \subseteq Nat, S # {}
  PROVE  \E i \in S : \A j \in S : i <= j
<1> DEFINE R == OpToRel(<, Nat)
<1>1. \A x, y \in Nat : y < x => <<y, x>> \in R
  BY DEF OpToRel
<1>2. IsWellFoundedOn(R, Nat)
  BY NatLessThanWellFounded
<1>3. \E x \in S : \A y \in S : ~ (<<y, x>> \in R)
  BY <1>2, WFMin
<1> HIDE DEF R
<1>4. PICK i \in S : \A y \in S : ~ (<<y, i>> \in R)
  BY <1>3
<1>5. \A y \in S : ~ (y < i)
  BY <1>1, <1>4
<1>6. \A y \in S : i <= y
  BY <1>5, SMT
<1> QED
  BY <1>6

LEMMA OffertoTipo ==
  ASSUME NEW x \in Offerti
  PROVE  x.nome \in Nomi /\ x.nome \in NomiOfferti /\ Sequenza(x.blocchi) /\ Len(x.blocchi) \in Nat
<1>1. PICK d \in Cartelle : x \in {d[i] : i \in DOMAIN d}
  BY DEF Offerti
<1>2. x.nome \in Nomi /\ Sequenza(x.blocchi)
  BY <1>1, MPutAssumption
<1> QED
  BY <1>2, SequenzaTipo DEF NomiOfferti

LEMMA NomiOffertiTipo == NomiOfferti \subseteq Nomi
BY OffertoTipo DEF NomiOfferti

\* The file a client is at is one of the users'.
LEMMA CorrenteOfferto ==
  ASSUME MPutTipi, NEW k \in Conn, Vivo(k), DOMAIN elencoFile[k] # {}
  PROVE  Corrente(k) \in Offerti
<1> DEFINE D == DOMAIN elencoFile[k]
<1>1. D \subseteq Nat /\ D # {} /\ \A i \in D : elencoFile[k][i] \in Offerti
  BY DEF MPutTipi
<1> HIDE DEF D
<1>2. \E i \in D : \A j \in D : i <= j
  BY <1>1, MinimoEsiste
<1>3. Min(D) \in D
  BY <1>2 DEF Min
<1> QED
  BY <1>1, <1>3 DEF Corrente, Primo, D

\* What another thread's step leaves of the work of thread j.
LEMMA AltroFlusso ==
  ASSUME NEW j \in Conn, FlussoMPut(j), Vivo(j),
         su'[j] = su[j], giu'[j] = giu[j], mclient'[j] = mclient[j], elencoFile'[j] = elencoFile[j],
         mthr'[j].stato = mthr[j].stato, mthr'[j].nome = mthr[j].nome, mthr'[j].num = mthr[j].num,
         mthr'[j].cont = mthr[j].cont, mthr'[j].ino = mthr[j].ino,
         ~mthr'[j].insieme /\ mthr[j].stato = "riceve" =>
           ~mthr[j].insieme /\ contenuto'[mthr[j].ino] = contenuto[mthr[j].ino]
  PROVE  FlussoMPut(j)'
<1>1. Corrente(j)' = Corrente(j)
  BY DEF Corrente, Primo
<1>2. mthr[j].stato = "nome" => FlussoNome(j)'
  BY <1>1 DEF FlussoMPut, FlussoNome
<1>5. ASSUME mthr[j].stato = "lunghezza" PROVE FlussoLunghezza(j)'
  <2>1. FlussoLunghezza(j)
    BY <1>5 DEF FlussoMPut
  <2>2. CASE giu[j] = <<"attiva">> /\ su[j] = <<>>
    <3>1. /\ mclient[j] \in {"risposta", "fuori"}
          /\ mclient[j] = "risposta" => mthr[j].nome = Corrente(j).nome
      BY <2>1, <2>2 DEF FlussoLunghezza
    <3> QED
      BY <1>1, <2>2, <3>1 DEF FlussoLunghezza
  <2>3. CASE /\ mclient[j] = "dati" /\ giu[j] = <<>> /\ su[j] = << <<"long", Len(Corrente(j).blocchi)>> >>
             /\ mthr[j].nome = Corrente(j).nome
    BY <1>1, <2>3 DEF FlussoLunghezza
  <2>4. ASSUME giu[j] = <<>>, NEW x \in Offerti, NEW z \in {0, 1},
               x.nome = mthr[j].nome, Sequenza(su[j]), su[j] # <<>>, Head(su[j]) = <<"long", Len(x.blocchi)>>,
               Resta(SubSeq(su[j], 2, Len(su[j])), x.blocchi, 0, z), Oltre(j, su[j], z)
        PROVE  FlussoLunghezza(j)'
    <3>1. Resta(SubSeq(su[j], 2, Len(su[j])), x.blocchi, 0, z)' /\ Oltre(j, su[j], z)'
      <4> DEFINE q == SubSeq(su[j], 2, Len(su[j]))
      <4>1. q' = q /\ su'[j] = su[j]
        OBVIOUS
      <4>2. Resta(q, x.blocchi, 0, z)'
        BY <2>4, <4>1 DEF Resta
      <4>3. Oltre(j, su[j], z)'
        BY <1>1, <2>4 DEF Oltre
      <4> QED
        BY <4>2, <4>3
    <3> QED
      BY <2>4, <3>1 DEF FlussoLunghezza
  <2> QED
    BY <2>1, <2>2, <2>3, <2>4 DEF FlussoLunghezza
<1>6. ASSUME mthr[j].stato = "riceve" PROVE FlussoRiceve(j)'
  <2>1. FlussoRiceve(j)
    BY <1>6 DEF FlussoMPut
  <2>3. CASE /\ su[j] = <<>> /\ mclient[j] = "dati" /\ mthr[j].nome = Corrente(j).nome
             /\ mthr[j].num = Len(Corrente(j).blocchi) /\ mthr[j].cont = 0 /\ mthr[j].num # 0
             /\ Scrive(j, Corrente(j).blocchi)
    <3>1. Scrive(j, Corrente(j).blocchi)'
      BY <1>1, <1>6, <2>3 DEF Scrive
    <3> QED
      BY <1>1, <2>1, <2>3, <3>1 DEF FlussoRiceve
  <2>4. ASSUME NEW x \in Offerti, NEW z \in {0, 1},
               x.nome = mthr[j].nome, mthr[j].num = Len(x.blocchi), mthr[j].cont < mthr[j].num,
               Resta(su[j], x.blocchi, mthr[j].cont, z), Oltre(j, su[j], z), Scrive(j, x.blocchi)
        PROVE  FlussoRiceve(j)'
    <3>1. Resta(su[j], x.blocchi, mthr[j].cont, z)' /\ Oltre(j, su[j], z)'
      BY <1>1, <2>4 DEF Resta, Oltre
    <3>2. Scrive(j, x.blocchi)'
      BY <1>6, <2>4 DEF Scrive
    <3> QED
      BY <2>1, <2>4, <3>1, <3>2 DEF FlussoRiceve
  <2> QED
    BY <2>1, <2>3, <2>4 DEF FlussoRiceve
<1> QED
  BY <1>2, <1>5, <1>6 DEF FlussoMPut, Vivo, StatiMPut

\* A step of the client or of the thread of connection k keeps what the others do.
LEMMA PassoMPut ==
  ASSUME MPutInv, NEW k \in Conn,
         UNCHANGED <<avvii, acceso, partenza>>,
         avvii = 0 => UNCHANGED <<fileVars, mthr>>,
         mclient' \in [Conn -> {"prima", "file", "risposta", "dati", "fuori"}],
         DOMAIN su' = Conn, DOMAIN giu' = Conn, DOMAIN elencoFile' = Conn, DOMAIN mthr' = Conn,
         \A j \in Conn \ {k} : /\ su'[j] = su[j] /\ giu'[j] = giu[j]
                               /\ mclient'[j] = mclient[j] /\ elencoFile'[j] = elencoFile[j],
         \A j \in Conn \ {k} : mthr'[j] = mthr[j] \/ (Riceve(j) /\ mthr'[j] = [mthr[j] EXCEPT !.insieme = TRUE]),
         FileOK', Len(contenuto') >= Len(contenuto),
         \A n \in Nomi : directory[n] # 0 => directory'[n] = directory[n],
         \A i \in 1 .. Len(contenuto) : contenuto'[i] # contenuto[i] => Riceve(k) /\ i = directory[mthr[k].nome],
         mthr'[k] = Morto \/ Vivo(k)',
         Vivo(k)' =>
           /\ acceso
           /\ mthr'[k] \in [stato : StatiMPut, nome : NomiOfferti \cup {<<>>}, num : Nat, cont : Nat, ino : Nat, insieme : BOOLEAN]
           /\ DOMAIN elencoFile'[k] \subseteq Nat /\ \A i \in DOMAIN elencoFile'[k] : elencoFile'[k][i] \in Offerti
           /\ mclient'[k] \in {"risposta", "dati"} => DOMAIN elencoFile'[k] # {}
           /\ FlussoMPut(k)' /\ FileMPut(k)',
         \A j \in Conn \ {k} :
           /\ Riceve(j)' /\ (Riceve(k)' \/ Ricevuto(k)') /\ mthr'[j].nome = mthr'[k].nome => mthr'[k].insieme
           /\ Riceve(k)' /\ (Riceve(j)' \/ Ricevuto(j)') /\ mthr'[j].nome = mthr'[k].nome => mthr'[j].insieme
  PROVE  MPutInv'
<1> DEFINE Record == [stato : StatiMPut, nome : NomiOfferti \cup {<<>>}, num : Nat, cont : Nat, ino : Nat, insieme : BOOLEAN]
<1>1. FileOK /\ MPutTipi /\ PartenzaMPut /\ IncontriMPut /\ \A j \in Conn : Vivo(j) => FlussoMPut(j) /\ FileMPut(j)
  BY DEF MPutInv
<1>2. ASSUME NEW j \in Conn \ {k}, Vivo(j)
      PROVE  /\ mthr'[j] \in Record /\ mthr'[j].stato = mthr[j].stato /\ mthr'[j].nome = mthr[j].nome
             /\ mthr'[j].num = mthr[j].num /\ mthr'[j].cont = mthr[j].cont /\ mthr'[j].ino = mthr[j].ino
             /\ mthr[j].insieme => mthr'[j].insieme
             /\ mthr'[j] = mthr[j] \/ Riceve(j)
  <2>1. mthr[j] \in Record
    BY <1>1, <1>2 DEF MPutTipi
  <2>2. mthr'[j] = mthr[j] \/ (Riceve(j) /\ mthr'[j] = [mthr[j] EXCEPT !.insieme = TRUE])
    OBVIOUS
  <2> QED
    BY <2>1, <2>2, ZenonT(30)
<1>3. ASSUME NEW j \in Conn \ {k} PROVE (Vivo(j)' <=> Vivo(j)) /\ (Riceve(j)' <=> Riceve(j)) /\ (~Vivo(j) => mthr'[j] = mthr[j])
  <2>1. CASE Vivo(j)
    BY <1>2, <2>1 DEF Vivo, Riceve
  <2>2. CASE ~Vivo(j)
    <3>1. ~Riceve(j)
      BY <2>2 DEF Vivo, Riceve, StatiMPut
    <3> QED
      BY <2>2, <3>1 DEF Vivo, Riceve
  <2> QED
    BY <2>1, <2>2
<1>4. ASSUME NEW j \in Conn \ {k}, Vivo(j) PROVE (Ricevuto(j)' <=> Ricevuto(j))
  BY <1>2, <1>4 DEF Ricevuto
<1>5. Len(contenuto) \in Nat /\ \A n \in Nomi : directory[n] \in 0 .. Len(contenuto)
  BY <1>1, SequenzaTipo DEF FileOK
<1>6. ASSUME NEW j \in Conn \ {k}, Vivo(j), mthr[j].stato = "riceve" \/ Ricevuto(j), ~mthr'[j].insieme
      PROVE  contenuto'[mthr[j].ino] = contenuto[mthr[j].ino]
  <2>1. mthr[j].nome \in Nomi /\ directory[mthr[j].nome] = mthr[j].ino /\ mthr[j].ino # 0
    BY <1>1, <1>6, NomiOffertiTipo DEF FileMPut
  <2>2. mthr[j].ino \in 1 .. Len(contenuto)
    BY <1>5, <2>1
  <2> SUFFICES ASSUME contenuto'[mthr[j].ino] # contenuto[mthr[j].ino] PROVE FALSE
    OBVIOUS
  <2>3. Riceve(k) /\ mthr[j].ino = directory[mthr[k].nome]
    BY <2>2
  <2>4. mthr[k].nome \in Nomi
    <3>1. Vivo(k)
      BY <2>3 DEF Riceve, Vivo, StatiMPut
    <3> QED
      BY <1>1, <2>3, <3>1, NomiOffertiTipo DEF FileMPut
  <2>5. mthr[k].nome = mthr[j].nome
    BY <1>1, <2>1, <2>3, <2>4 DEF FileOK
  <2>6. mthr[j].insieme
    BY <1>1, <1>6, <2>3, <2>5 DEF IncontriMPut, Riceve
  <2> QED
    BY <1>2, <1>6, <2>6
<1>7. ASSUME NEW j \in Conn, Vivo(j)' PROVE FlussoMPut(j)' /\ FileMPut(j)'
  <2>1. CASE j = k
    BY <1>7, <2>1
  <2>2. CASE j # k
    <3>1. Vivo(j) /\ FlussoMPut(j) /\ FileMPut(j)
      BY <1>1, <1>3, <1>7, <2>2
    <3>2. ~mthr'[j].insieme => ~mthr[j].insieme
      BY <1>2, <2>2, <3>1
    <3>3. FlussoMPut(j)'
      <4>1. ~mthr'[j].insieme /\ mthr[j].stato = "riceve" => contenuto'[mthr[j].ino] = contenuto[mthr[j].ino]
        BY <1>6, <2>2, <3>1
      <4> QED
        BY <1>2, <2>2, <3>1, <3>2, <4>1, AltroFlusso
    <3>4. FileMPut(j)'
      <4>1. /\ mthr'[j].stato = mthr[j].stato /\ mthr'[j].nome = mthr[j].nome
            /\ mthr'[j].num = mthr[j].num /\ mthr'[j].cont = mthr[j].cont /\ mthr'[j].ino = mthr[j].ino
        BY <1>2, <2>2, <3>1
      <4>2. (Riceve(j)' <=> Riceve(j)) /\ (Ricevuto(j)' <=> Ricevuto(j)) /\ partenza' = partenza
        BY <1>3, <1>4, <2>2, <3>1
      <4>3. mthr[j].stato = "riceve" \/ Ricevuto(j) =>
              /\ mthr[j].nome \in NomiOfferti /\ directory'[mthr[j].nome] = mthr[j].ino /\ mthr[j].ino # 0
              /\ partenza[1][mthr[j].nome] = 0
        <5>1. mthr[j].stato = "riceve" \/ Ricevuto(j) =>
                /\ mthr[j].nome \in NomiOfferti /\ directory[mthr[j].nome] = mthr[j].ino /\ mthr[j].ino # 0
                /\ partenza[1][mthr[j].nome] = 0
          BY <3>1 DEF FileMPut
        <5> QED
          BY <5>1, NomiOffertiTipo
      <4>4. Ricevuto(j) /\ ~mthr'[j].insieme /\ mthr[j].cont = mthr[j].num =>
              \E x \in Offerti : x.nome = mthr[j].nome /\ contenuto'[mthr[j].ino] = x.blocchi
        <5>1. Ricevuto(j) /\ ~mthr'[j].insieme /\ mthr[j].cont = mthr[j].num =>
                \E x \in Offerti : x.nome = mthr[j].nome /\ contenuto[mthr[j].ino] = x.blocchi
          BY <3>1, <3>2 DEF FileMPut
        <5> QED
          BY <1>6, <2>2, <3>1, <5>1
      <4>5. /\ Riceve(j) => mthr[j].nome \in NomiOfferti /\ partenza[1][mthr[j].nome] = 0
            /\ mthr[j].stato = "lunghezza" => mthr[j].cont = 0
        BY <3>1 DEF FileMPut
      <4> QED
        BY <4>1, <4>2, <4>3, <4>4, <4>5 DEF FileMPut
    <3> QED
      BY <3>3, <3>4
  <2> QED
    BY <2>1, <2>2
<1>8. MPutTipi'
  <2>1. ASSUME NEW j \in Conn
        PROVE  /\ Vivo(j)' \/ mthr'[j] = Morto
               /\ Vivo(j)' =>
                    /\ acceso /\ mthr'[j] \in Record
                    /\ DOMAIN elencoFile'[j] \subseteq Nat
                    /\ \A i \in DOMAIN elencoFile'[j] : elencoFile'[j][i] \in Offerti
                    /\ mclient'[j] \in {"risposta", "dati"} => DOMAIN elencoFile'[j] # {}
    <3>1. CASE j = k
      BY <3>1
    <3>2. CASE j # k
      <4>1. CASE Vivo(j)
        BY <1>1, <1>2, <1>3, <3>2, <4>1 DEF MPutTipi
      <4>2. CASE ~Vivo(j)
        BY <1>1, <1>3, <3>2, <4>2 DEF MPutTipi
      <4> QED
        BY <4>1, <4>2
    <3> QED
      BY <3>1, <3>2
  <2>2. avvii' = 0 => directory' = [n \in Nomi |-> 0] /\ mthr' = [j \in Conn |-> Morto]
    BY <1>1 DEF MPutTipi, fileVars
  <2>3. avvii' \in Nat /\ (acceso' => avvii' # 0)
    BY <1>1 DEF MPutTipi
  <2> QED
    BY <2>1, <2>2, <2>3 DEF MPutTipi, Vivo
<1>9. PartenzaMPut'
  <2>1. \A n \in Nomi : partenza[1][n] # 0 =>
          directory'[n] = partenza[1][n] /\ contenuto'[directory'[n]] = partenza[2][directory'[n]]
    <3> SUFFICES ASSUME NEW n \in Nomi, partenza[1][n] # 0
                 PROVE  directory'[n] = partenza[1][n] /\ contenuto'[directory'[n]] = partenza[2][directory'[n]]
      OBVIOUS
    <3>1. directory[n] = partenza[1][n] /\ contenuto[directory[n]] = partenza[2][directory[n]]
      BY <1>1 DEF PartenzaMPut
    <3>2. directory'[n] = directory[n] /\ directory[n] \in 1 .. Len(contenuto)
      BY <1>5, <3>1
    <3>3. ASSUME contenuto'[directory[n]] # contenuto[directory[n]] PROVE FALSE
      <4>1. Riceve(k) /\ directory[n] = directory[mthr[k].nome]
        BY <3>2, <3>3
      <4>2. Vivo(k)
        BY <4>1 DEF Riceve, Vivo, StatiMPut
      <4>3. mthr[k].nome \in Nomi /\ partenza[1][mthr[k].nome] = 0
        BY <1>1, <4>1, <4>2, NomiOffertiTipo DEF FileMPut
      <4>4. n = mthr[k].nome
        BY <1>1, <3>1, <4>1, <4>3 DEF FileOK
      <4> QED
        BY <4>3, <4>4
    <3> QED
      BY <3>1, <3>2, <3>3
  <2> QED
    BY <1>1, <2>1 DEF PartenzaMPut
<1>10. IncontriMPut'
  <2> SUFFICES ASSUME NEW i \in Conn, NEW j \in Conn, i # j, Riceve(i)', Riceve(j)' \/ Ricevuto(j)', mthr'[i].nome = mthr'[j].nome
               PROVE  mthr'[j].insieme
    BY DEF IncontriMPut
  <2>1. CASE i = k \/ j = k
    BY <2>1
  <2>2. CASE i # k /\ j # k
    <3>1. Riceve(i) /\ Vivo(i)
      BY <1>3, <2>2 DEF Riceve, Vivo, StatiMPut
    <3>2. Vivo(j)
      <4>1. Vivo(j)'
        BY DEF Riceve, Ricevuto, Vivo, StatiMPut
      <4> QED
        BY <1>3, <2>2, <4>1
    <3>3. Riceve(j) \/ Ricevuto(j)
      BY <1>3, <1>4, <2>2, <3>2
    <3>4. mthr[i].nome = mthr[j].nome
      BY <1>2, <2>2, <3>1, <3>2
    <3>5. mthr[j].insieme
      BY <1>1, <3>1, <3>3, <3>4 DEF IncontriMPut
    <3> QED
      BY <1>2, <2>2, <3>2, <3>5
  <2> QED
    BY <2>1, <2>2
<1> QED
  BY <1>7, <1>8, <1>9, <1>10 DEF MPutInv

\* A step of the client of connection k, or the end of its thread's reading,
\* that leaves threads and files alone.
LEMMA PassoCliente ==
  ASSUME MPutInv, NEW k \in Conn,
         UNCHANGED <<fileVars, avvii, acceso, partenza, mthr>>,
         mclient' \in [Conn -> {"prima", "file", "risposta", "dati", "fuori"}],
         DOMAIN su' = Conn, DOMAIN giu' = Conn, DOMAIN elencoFile' = Conn,
         \A j \in Conn \ {k} : /\ su'[j] = su[j] /\ giu'[j] = giu[j]
                               /\ mclient'[j] = mclient[j] /\ elencoFile'[j] = elencoFile[j],
         Vivo(k) =>
           /\ DOMAIN elencoFile'[k] \subseteq Nat /\ \A i \in DOMAIN elencoFile'[k] : elencoFile'[k][i] \in Offerti
           /\ mclient'[k] \in {"risposta", "dati"} => DOMAIN elencoFile'[k] # {}
           /\ FlussoMPut(k)'
  PROVE  MPutInv'
<1>1. FileOK /\ MPutTipi /\ PartenzaMPut /\ IncontriMPut /\ \A j \in Conn : Vivo(j) => FlussoMPut(j) /\ FileMPut(j)
  BY DEF MPutInv
<1>2. UNCHANGED <<directory, contenuto, partenza, mthr>>
  BY DEF fileVars
<1>3. FileOK' /\ PartenzaMPut' /\ IncontriMPut'
  BY <1>1, <1>2 DEF FileOK, PartenzaMPut, IncontriMPut, Riceve, Ricevuto
<1>4. ASSUME NEW j \in Conn, Vivo(j)' PROVE Vivo(j) /\ FlussoMPut(j)' /\ FileMPut(j)'
  <2>1. Vivo(j)
    BY <1>4 DEF Vivo
  <2>2. FileMPut(j)'
    <3>1. FileMPut(j)
      BY <1>1, <2>1
    <3> QED
      BY <1>2, <3>1 DEF FileMPut, Riceve, Ricevuto
  <2>3. FlussoMPut(j)'
    <3>1. CASE j = k
      BY <2>1, <3>1
    <3>2. CASE j # k
      <4>1. FlussoMPut(j)
        BY <1>1, <2>1
      <4> QED
        BY <1>2, <2>1, <3>2, <4>1, AltroFlusso
    <3> QED
      BY <3>1, <3>2
  <2> QED
    BY <2>1, <2>2, <2>3
<1>5. MPutTipi'
  <2>1. ASSUME NEW j \in Conn, Vivo(j)
        PROVE  /\ DOMAIN elencoFile'[j] \subseteq Nat
               /\ \A i \in DOMAIN elencoFile'[j] : elencoFile'[j][i] \in Offerti
               /\ mclient'[j] \in {"risposta", "dati"} => DOMAIN elencoFile'[j] # {}
    <3>1. CASE j = k
      BY <2>1, <3>1
    <3>2. CASE j # k
      BY <1>1, <2>1, <3>2 DEF MPutTipi
    <3> QED
      BY <3>1, <3>2
  <2>2. acceso' = acceso /\ avvii' = avvii
    OBVIOUS
  <2> QED
    BY <1>1, <1>2, <2>1, <2>2 DEF MPutTipi, Vivo
<1> QED
  BY <1>3, <1>4, <1>5 DEF MPutInv

\* On to the next file.
LEMMA AvantiTipo ==
  ASSUME MPutTipi, NEW k \in Conn, avanti(k)
  PROVE  /\ DOMAIN elencoFile' = Conn /\ \A j \in Conn \ {k} : elencoFile'[j] = elencoFile[j]
         /\ Vivo(k) => /\ DOMAIN elencoFile'[k] \subseteq Nat
                       /\ \A i \in DOMAIN elencoFile'[k] : elencoFile'[k][i] \in Offerti
<1> DEFINE e == elencoFile[k]
           D == DOMAIN e \ {Primo(k)}
<1>1. elencoFile' = [elencoFile EXCEPT ![k] = Restrict(e, D)] /\ DOMAIN elencoFile = Conn
  BY DEF avanti, MPutTipi
<1>2. elencoFile'[k] = [i \in D |-> e[i]]
  BY <1>1 DEF Restrict
<1>3. Vivo(k) => DOMAIN e \subseteq Nat /\ \A i \in DOMAIN e : e[i] \in Offerti
  BY DEF MPutTipi
<1> HIDE DEF e
<1> QED
  BY <1>1, <1>2, <1>3

\* What the flow of a connection says of its client.
LEMMA FlussoDi ==
  ASSUME MPutInv, NEW k \in Conn, Vivo(k)
  PROVE  FlussoMPut(k) /\ FileMPut(k) /\ MPutTipi /\ mthr[k].stato \in StatiMPut
BY DEF MPutInv, Vivo

LEMMA offriStep ==
  ASSUME MPutInv, NEW k \in Conn, offri(k)
  PROVE  MPutInv'
<1> DEFINE n == Corrente(k).nome
<1>1. MPutTipi /\ mclient[k] = "file" /\ UNCHANGED <<fileVars, avvii, acceso, partenza, elencoFile, mthr>>
  BY DEF MPutInv, offri
<1>2. CASE DOMAIN elencoFile[k] = {}
  <2>1. su' = su /\ giu' = giu /\ mclient' = [mclient EXCEPT ![k] = "fuori"]
    BY <1>2 DEF offri, chiudeSu
  <2>2. mclient' \in [Conn -> {"prima", "file", "risposta", "dati", "fuori"}] /\ mclient'[k] = "fuori"
    BY <1>1, <2>1 DEF MPutTipi
  <2>3. ASSUME Vivo(k) PROVE FlussoMPut(k)'
    <3>1. FlussoMPut(k) /\ mthr[k].stato \in StatiMPut
      BY <2>3, FlussoDi
    <3>2. mthr[k].stato = "nome" => FlussoNome(k)'
      BY <1>1, <2>1, <2>2, <3>1 DEF FlussoMPut, FlussoNome
    <3>3. ASSUME mthr[k].stato = "lunghezza" PROVE FlussoLunghezza(k)'
      <4>1. PICK x \in Offerti, z \in {0, 1} :
              /\ giu[k] = <<>>
              /\ x.nome = mthr[k].nome /\ Sequenza(su[k]) /\ su[k] # <<>> /\ Head(su[k]) = <<"long", Len(x.blocchi)>>
              /\ Resta(SubSeq(su[k], 2, Len(su[k])), x.blocchi, 0, z) /\ Oltre(k, su[k], z)
        BY <1>1, <3>1, <3>3 DEF FlussoMPut, FlussoLunghezza
      <4>2. Resta(SubSeq(su[k], 2, Len(su[k])), x.blocchi, 0, z)' /\ Oltre(k, su[k], z)'
        BY <1>1, <2>1, <2>2, <4>1 DEF Resta, Oltre
      <4> QED
        BY <1>1, <2>1, <4>1, <4>2 DEF FlussoLunghezza
    <3>4. ASSUME mthr[k].stato = "riceve" PROVE FlussoRiceve(k)'
      <4>1. PICK x \in Offerti, z \in {0, 1} :
              /\ giu[k] = <<>>
              /\ x.nome = mthr[k].nome /\ mthr[k].num = Len(x.blocchi) /\ mthr[k].cont < mthr[k].num
              /\ Resta(su[k], x.blocchi, mthr[k].cont, z) /\ Oltre(k, su[k], z)
              /\ Scrive(k, x.blocchi)
        BY <1>1, <3>1, <3>4 DEF FlussoMPut, FlussoRiceve
      <4>2. Resta(su[k], x.blocchi, mthr[k].cont, z)' /\ Oltre(k, su[k], z)' /\ Scrive(k, x.blocchi)'
        BY <1>1, <2>1, <2>2, <4>1 DEF Resta, Oltre, Scrive, fileVars
      <4> QED
        BY <1>1, <2>1, <4>1, <4>2 DEF FlussoRiceve
    <3> QED
      BY <1>1, <2>2, <3>1, <3>2, <3>3, <3>4 DEF FlussoMPut, StatiMPut
  <2> QED
    BY <1>1, <2>1, <2>2, <2>3, PassoCliente DEF MPutTipi
<1>3. CASE DOMAIN elencoFile[k] # {}
  <2>1. su' = [su EXCEPT ![k] = su[k] \o <<n>>] /\ giu' = giu /\ mclient' = [mclient EXCEPT ![k] = "risposta"]
    BY <1>3 DEF offri, scriveSu
  <2>2. mclient' \in [Conn -> {"prima", "file", "risposta", "dati", "fuori"}] /\ mclient'[k] = "risposta"
    BY <1>1, <2>1 DEF MPutTipi
  <2>3. su'[k] = su[k] \o <<n>> /\ DOMAIN su' = Conn /\ \A j \in Conn \ {k} : su'[j] = su[j]
    BY <1>1, <2>1 DEF MPutTipi
  <2>4. ASSUME Vivo(k) PROVE FlussoMPut(k)'
    <3>1. FlussoMPut(k) /\ mthr[k].stato \in StatiMPut
      BY <2>4, FlussoDi
    <3>2. n \in NomiOfferti
      BY <1>1, <1>3, <2>4, CorrenteOfferto, OffertoTipo
    <3>3. Corrente(k)' = Corrente(k)
      BY <1>1 DEF Corrente, Primo
    <3>4. ASSUME mthr[k].stato = "nome" PROVE FlussoNome(k)'
      <4>1. su[k] = <<>> /\ giu[k] = <<>>
        BY <1>1, <3>1, <3>4 DEF FlussoMPut, FlussoNome
      <4>2. su'[k] = <<n>>
        BY <2>3, <4>1
      <4> QED
        BY <2>1, <2>2, <3>2, <3>3, <4>1, <4>2 DEF FlussoNome, NomiOfferti
    <3>5. ASSUME mthr[k].stato = "lunghezza" PROVE FlussoLunghezza(k)'
      <4>1. PICK x \in Offerti, z \in {0, 1} :
              /\ giu[k] = <<>>
              /\ x.nome = mthr[k].nome /\ Sequenza(su[k]) /\ su[k] # <<>> /\ Head(su[k]) = <<"long", Len(x.blocchi)>>
              /\ Resta(SubSeq(su[k], 2, Len(su[k])), x.blocchi, 0, z) /\ Oltre(k, su[k], z)
        BY <1>1, <3>1, <3>5 DEF FlussoMPut, FlussoLunghezza
      <4>2. z = 0
        BY <1>1, <4>1 DEF Oltre
      <4> DEFINE q == SubSeq(su[k], 2, Len(su[k]))
                 zero == 0
                 b == x.blocchi
      <4>3. Sequenza(b) /\ zero \in Nat /\ zero <= Len(b) /\ Resta(q, b, zero, 0)
        BY <4>1, <4>2, OffertoTipo
      <4>4. /\ su'[k] # <<>> /\ Head(su'[k]) = Head(su[k]) /\ Sequenza(su'[k])
            /\ SubSeq(su'[k], 2, Len(su'[k])) = q \o <<n>> /\ su'[k][Len(su'[k])] = n
        <5> DEFINE s == su[k]
                   m == n
        <5>1. Sequenza(s) /\ s # <<>>
          BY <4>1
        <5> HIDE DEF s, m
        <5>2. /\ s \o <<m>> # <<>> /\ Head(s \o <<m>>) = Head(s) /\ Sequenza(s \o <<m>>)
              /\ SubSeq(s \o <<m>>, 2, Len(s \o <<m>>)) = SubSeq(s, 2, Len(s)) \o <<m>>
              /\ (s \o <<m>>)[Len(s \o <<m>>)] = m
          BY <5>1, CodaConcat
        <5> QED
          BY <2>3, <5>2 DEF s, m
      <4> HIDE DEF q, zero, b
      <4>5. Resta(q \o <<n>>, b, zero, 1)
        BY <3>2, <4>3, RestaNome
      <4>6. Resta(SubSeq(su[k], 2, Len(su[k])), x.blocchi, 0, 1)'
        BY <4>4, <4>5 DEF Resta, zero, b
      <4>7. Oltre(k, su[k], 1)'
        BY <2>2, <3>3, <4>4 DEF Oltre
      <4> QED
        BY <1>1, <2>1, <4>1, <4>4, <4>6, <4>7 DEF FlussoLunghezza
    <3>6. ASSUME mthr[k].stato = "riceve" PROVE FlussoRiceve(k)'
      <4>1. PICK x \in Offerti, z \in {0, 1} :
              /\ giu[k] = <<>>
              /\ x.nome = mthr[k].nome /\ mthr[k].num = Len(x.blocchi) /\ mthr[k].cont < mthr[k].num
              /\ Resta(su[k], x.blocchi, mthr[k].cont, z) /\ Oltre(k, su[k], z)
              /\ Scrive(k, x.blocchi)
        BY <1>1, <3>1, <3>6 DEF FlussoMPut, FlussoRiceve
      <4>2. z = 0
        BY <1>1, <4>1 DEF Oltre
      <4>3. mthr[k].cont \in Nat /\ mthr[k].num \in Nat
        BY <1>1, <2>4 DEF MPutTipi
      <4>4. Resta(su'[k], x.blocchi, mthr[k].cont, 1) /\ su'[k][Len(su'[k])] = n
        BY <2>3, <3>2, <4>1, <4>2, <4>3, OffertoTipo, RestaNome
      <4>5. Resta(su[k], x.blocchi, mthr[k].cont, 1)' /\ Oltre(k, su[k], 1)' /\ Scrive(k, x.blocchi)'
        BY <1>1, <2>2, <3>3, <4>1, <4>4 DEF Resta, Oltre, Scrive, fileVars
      <4> QED
        BY <1>1, <2>1, <4>1, <4>5 DEF FlussoRiceve
    <3> QED
      BY <1>1, <2>2, <3>1, <3>4, <3>5, <3>6 DEF FlussoMPut, StatiMPut
  <2> QED
    BY <1>1, <1>3, <2>1, <2>2, <2>3, <2>4, PassoCliente DEF MPutTipi
<1> QED
  BY <1>2, <1>3

\* Sequences of one item.
LEMMA Uno ==
  ASSUME NEW x
  PROVE  Head(<<x>>) = x /\ Tail(<<x>>) = <<>> /\ Append(<<>>, x) = <<x>> /\ <<x>> # <<>> /\ Len(<<x>>) = 1
OBVIOUS

LEMMA UnoLetto ==
  ASSUME NEW x, NEW q, q = <<x>>
  PROVE  SubSeq(q, 2, Len(q)) = <<>>
<1> DEFINE a == 1
<1>1. Sequenza(q) /\ Len(q) = 1 /\ a \in Nat /\ a <= Len(q)
  BY SequenzaUno
<1> HIDE DEF a
<1>2. Sequenza(SubSeq(q, a + 1, Len(q))) /\ Len(SubSeq(q, a + 1, Len(q))) = Len(q) - a
  BY <1>1, Divisa
<1> DEFINE r == SubSeq(q, a + 1, Len(q))
           e == <<>>
<1>3. Sequenza(r) /\ Len(r) = 0 /\ Sequenza(e) /\ Len(e) = 0
  BY <1>1, <1>2, SequenzaVuota DEF a
<1>4. r = e
  <2> HIDE DEF r, e
  <2> QED
    BY <1>3, SequenzeUguali
<1> QED
  BY <1>4 DEF a

LEMMA leggi_rispostaStep ==
  ASSUME MPutInv, NEW k \in Conn, leggi_risposta(k)
  PROVE  MPutInv'
<1>1. MPutTipi /\ mclient[k] = "risposta" /\ UNCHANGED <<fileVars, avvii, acceso, partenza, mthr>>
  BY DEF MPutInv, leggi_risposta
<1>2. CASE /\ giu[k] # <<>> /\ Head(giu[k]) = "attiva"
           /\ su' = [su EXCEPT ![k] = Append(@, <<"long", Len(Corrente(k).blocchi)>>)]
           /\ giu' = [giu EXCEPT ![k] = Tail(@)]
           /\ mclient' = [mclient EXCEPT ![k] = "dati"]
           /\ UNCHANGED <<fineSu, fineGiu, elencoFile>>
  <2>1. mclient' \in [Conn -> {"prima", "file", "risposta", "dati", "fuori"}] /\ mclient'[k] = "dati"
    BY <1>1, <1>2 DEF MPutTipi
  <2>2. /\ DOMAIN su' = Conn /\ DOMAIN giu' = Conn
        /\ \A j \in Conn \ {k} : su'[j] = su[j] /\ giu'[j] = giu[j] /\ mclient'[j] = mclient[j]
        /\ su'[k] = Append(su[k], <<"long", Len(Corrente(k).blocchi)>>) /\ giu'[k] = Tail(giu[k])
    BY <1>1, <1>2 DEF MPutTipi
  <2>3. ASSUME Vivo(k) PROVE FlussoMPut(k)' /\ DOMAIN elencoFile[k] # {}
    <3>1. FlussoMPut(k) /\ mthr[k].stato \in StatiMPut
      BY <2>3, FlussoDi
    <3>2. Corrente(k)' = Corrente(k)
      BY <1>2 DEF Corrente, Primo
    <3>3. mthr[k].stato # "nome"
      BY <1>2, <3>1, Uno DEF FlussoMPut, FlussoNome
    <3>4. mthr[k].stato # "riceve"
      BY <1>2, <3>1 DEF FlussoMPut, FlussoRiceve
    <3>5. su[k] = <<>> /\ giu[k] = <<"attiva">> /\ mthr[k].stato = "lunghezza" /\ mthr[k].nome = Corrente(k).nome
      BY <1>1, <1>2, <3>1, <3>3, <3>4 DEF FlussoMPut, FlussoLunghezza, StatiMPut
    <3>6. su'[k] = << <<"long", Len(Corrente(k).blocchi)>> >> /\ giu'[k] = <<>>
      BY <2>2, <3>5, Uno
    <3>7. FlussoLunghezza(k)'
      BY <1>1, <2>1, <3>2, <3>5, <3>6 DEF FlussoLunghezza
    <3> QED
      BY <1>1, <2>1, <2>3, <3>5, <3>7 DEF FlussoMPut, MPutTipi
  <2>4. Vivo(k) => DOMAIN elencoFile'[k] \subseteq Nat /\ \A i \in DOMAIN elencoFile'[k] : elencoFile'[k][i] \in Offerti
    BY <1>1, <1>2 DEF MPutTipi
  <2> QED
    BY <1>1, <1>2, <2>1, <2>2, <2>3, <2>4, PassoCliente DEF MPutTipi
<1>3. CASE /\ giu[k] # <<>> /\ Head(giu[k]) = "salta file" /\ leggeGiu(k, 1)
           /\ mclient' = [mclient EXCEPT ![k] = "file"] /\ avanti(k)
  <2>1. mclient' \in [Conn -> {"prima", "file", "risposta", "dati", "fuori"}] /\ mclient'[k] = "file"
    BY <1>1, <1>3 DEF MPutTipi
  <2>2. giu' = [giu EXCEPT ![k] = SubSeq(giu[k], 2, Len(giu[k]))] /\ su' = su
    <3>1. 1 + 1 = 2
      OBVIOUS
    <3>2. giu' = [giu EXCEPT ![k] = SubSeq(giu[k], 1 + 1, Len(giu[k]))] /\ su' = su
      BY <1>3, Zenon DEF leggeGiu
    <3> QED
      BY <3>1, <3>2
  <2>3. /\ DOMAIN su' = Conn /\ DOMAIN giu' = Conn
        /\ \A j \in Conn \ {k} : su'[j] = su[j] /\ giu'[j] = giu[j] /\ mclient'[j] = mclient[j]
        /\ giu'[k] = SubSeq(giu[k], 2, Len(giu[k]))
    BY <1>1, <1>3, <2>2 DEF MPutTipi
  <2>4. /\ DOMAIN elencoFile' = Conn /\ \A j \in Conn \ {k} : elencoFile'[j] = elencoFile[j]
        /\ Vivo(k) => /\ DOMAIN elencoFile'[k] \subseteq Nat
                      /\ \A i \in DOMAIN elencoFile'[k] : elencoFile'[k][i] \in Offerti
    BY <1>1, <1>3, AvantiTipo
  <2>5. ASSUME Vivo(k) PROVE FlussoMPut(k)'
    <3>1. FlussoMPut(k) /\ mthr[k].stato \in StatiMPut
      BY <2>5, FlussoDi
    <3>2. mthr[k].stato # "lunghezza"
      BY <1>1, <1>3, <3>1, Uno DEF FlussoMPut, FlussoLunghezza
    <3>3. mthr[k].stato # "riceve"
      BY <1>3, <3>1 DEF FlussoMPut, FlussoRiceve
    <3>4. mthr[k].stato = "nome" /\ su[k] = <<>> /\ giu[k] = <<"salta file">>
      BY <1>3, <3>1, <3>2, <3>3 DEF FlussoMPut, FlussoNome, StatiMPut
    <3>5. su'[k] = <<>> /\ giu'[k] = <<>>
      BY <2>2, <2>3, <3>4, UnoLetto
    <3> QED
      BY <1>1, <2>1, <3>4, <3>5 DEF FlussoMPut, FlussoNome
  <2> QED
    BY <1>1, <2>1, <2>3, <2>4, <2>5, PassoCliente
<1>4. CASE giu[k] = <<>> /\ chiudeSu(k) /\ mclient' = [mclient EXCEPT ![k] = "fuori"] /\ UNCHANGED elencoFile
  <2>1. mclient' \in [Conn -> {"prima", "file", "risposta", "dati", "fuori"}] /\ mclient'[k] = "fuori"
    BY <1>1, <1>4 DEF MPutTipi
  <2>2. su' = su /\ giu' = giu
    BY <1>4 DEF chiudeSu
  <2>3. ASSUME Vivo(k) PROVE FlussoMPut(k)'
    <3>1. FlussoMPut(k) /\ mthr[k].stato \in StatiMPut
      BY <2>3, FlussoDi
    <3>2. mthr[k].stato = "nome" => FlussoNome(k)'
      BY <1>1, <1>4, <2>1, <2>2, <3>1 DEF FlussoMPut, FlussoNome
    <3>3. ASSUME mthr[k].stato = "lunghezza" PROVE FlussoLunghezza(k)'
      <4>1. FlussoLunghezza(k) /\ <<"attiva">> # <<>>
        BY <3>1, <3>3 DEF FlussoMPut
      <4>2. PICK x \in Offerti, z \in {0, 1} :
              /\ giu[k] = <<>>
              /\ x.nome = mthr[k].nome /\ Sequenza(su[k]) /\ su[k] # <<>> /\ Head(su[k]) = <<"long", Len(x.blocchi)>>
              /\ Resta(SubSeq(su[k], 2, Len(su[k])), x.blocchi, 0, z) /\ Oltre(k, su[k], z)
        BY <1>1, <1>4, <4>1 DEF FlussoLunghezza
      <4>3. Resta(SubSeq(su[k], 2, Len(su[k])), x.blocchi, 0, z)' /\ Oltre(k, su[k], z)'
        BY <1>4, <2>1, <2>2, <4>2 DEF Resta, Oltre
      <4> QED
        BY <1>1, <2>2, <4>2, <4>3 DEF FlussoLunghezza
    <3>4. ASSUME mthr[k].stato = "riceve" PROVE FlussoRiceve(k)'
      <4>1. PICK x \in Offerti, z \in {0, 1} :
              /\ giu[k] = <<>>
              /\ x.nome = mthr[k].nome /\ mthr[k].num = Len(x.blocchi) /\ mthr[k].cont < mthr[k].num
              /\ Resta(su[k], x.blocchi, mthr[k].cont, z) /\ Oltre(k, su[k], z)
              /\ Scrive(k, x.blocchi)
        BY <1>1, <3>1, <3>4 DEF FlussoMPut, FlussoRiceve
      <4>2. Resta(su[k], x.blocchi, mthr[k].cont, z)' /\ Oltre(k, su[k], z)' /\ Scrive(k, x.blocchi)'
        BY <1>1, <2>1, <2>2, <4>1 DEF Resta, Oltre, Scrive, fileVars
      <4> QED
        BY <1>1, <2>2, <4>1, <4>2 DEF FlussoRiceve
    <3> QED
      BY <1>1, <2>1, <3>1, <3>2, <3>3, <3>4 DEF FlussoMPut, StatiMPut
  <2>4. Vivo(k) => DOMAIN elencoFile'[k] \subseteq Nat /\ \A i \in DOMAIN elencoFile'[k] : elencoFile'[k][i] \in Offerti
    BY <1>1, <1>4 DEF MPutTipi
  <2> QED
    BY <1>1, <1>4, <2>1, <2>2, <2>3, <2>4, PassoCliente DEF MPutTipi
<1> QED
  BY <1>2, <1>3, <1>4 DEF leggi_risposta

LEMMA manda_byteStep ==
  ASSUME MPutInv, NEW k \in Conn, manda_byte(k)
  PROVE  MPutInv'
<1> DEFINE b == Corrente(k).blocchi
<1>1. MPutTipi /\ mclient[k] = "dati" /\ UNCHANGED <<fileVars, avvii, acceso, partenza, mthr>>
  BY DEF MPutInv, manda_byte
<1>2. CASE acceso /\ mthr[k] # Morto
  <2>1. su' = [su EXCEPT ![k] = su[k] \o b] /\ giu' = giu /\ mclient' = [mclient EXCEPT ![k] = "file"] /\ avanti(k)
    BY <1>2 DEF manda_byte, scriveSu
  <2>2. mclient' \in [Conn -> {"prima", "file", "risposta", "dati", "fuori"}] /\ mclient'[k] = "file"
    BY <1>1, <2>1 DEF MPutTipi
  <2>3. /\ DOMAIN su' = Conn /\ DOMAIN giu' = Conn
        /\ \A j \in Conn \ {k} : su'[j] = su[j] /\ giu'[j] = giu[j] /\ mclient'[j] = mclient[j]
        /\ su'[k] = su[k] \o b
    BY <1>1, <2>1 DEF MPutTipi
  <2>4. /\ DOMAIN elencoFile' = Conn /\ \A j \in Conn \ {k} : elencoFile'[j] = elencoFile[j]
        /\ Vivo(k) => /\ DOMAIN elencoFile'[k] \subseteq Nat
                      /\ \A i \in DOMAIN elencoFile'[k] : elencoFile'[k][i] \in Offerti
    BY <1>1, <2>1, AvantiTipo
  <2>5. ASSUME Vivo(k) PROVE FlussoMPut(k)'
    <3>1. FlussoMPut(k) /\ mthr[k].stato \in StatiMPut
      BY <2>5, FlussoDi
    <3>2. PICK x \in Offerti : x = Corrente(k)
      BY <1>1, <2>5, CorrenteOfferto DEF MPutTipi
    <3> DEFINE y == x.blocchi
    <3>3. Sequenza(y) /\ Len(y) \in Nat /\ y = b
      BY <3>2, OffertoTipo
    <3>4. <<>> \o y = y
      <4>1. y \in Seq({y[i] : i \in DOMAIN y})
        BY <3>3 DEF Sequenza
      <4> HIDE DEF y
      <4> QED
        BY <4>1, ConcatEmptySeq
    <3>5. Resta(y, y, 0, 0)
      <4> HIDE DEF y
      <4> QED
        BY <3>3, RestaTutto
    <3>6. ASSUME mthr[k].stato = "nome" PROVE FlussoNome(k)'
      <4>1. su[k] = <<>> /\ giu[k] = <<>> /\ Len(y) = 0
        BY <1>1, <3>1, <3>2, <3>6 DEF FlussoMPut, FlussoNome
      <4>2. y = <<>>
        BY <3>3, <4>1, SequenzaVuota, SequenzeUguali
      <4> QED
        BY <2>1, <2>2, <2>3, <3>3, <3>4, <4>1, <4>2 DEF FlussoNome
    <3>7. ASSUME mthr[k].stato = "lunghezza" PROVE FlussoLunghezza(k)'
      <4>1. su[k] = << <<"long", Len(y)>> >> /\ giu[k] = <<>> /\ mthr[k].nome = x.nome
        BY <1>1, <3>1, <3>2, <3>7 DEF FlussoMPut, FlussoLunghezza, Oltre
      <4> DEFINE L == <<"long", Len(y)>>
                 q == <<L>> \o y
      <4>2. su'[k] = q
        BY <2>3, <3>3, <4>1
      <4>3. q # <<>> /\ Head(q) = L /\ SubSeq(q, 2, Len(q)) = y /\ Sequenza(q)
        <5> HIDE DEF L, y
        <5>1. q # <<>> /\ Head(q) = L /\ SubSeq(q, 2, Len(q)) = y
          BY <3>3, TestaLetta
        <5>2. Sequenza(q)
          BY <3>3, SequenzaUno, SequenzaConcat
        <5> QED
          BY <5>1, <5>2
      <4>4. Oltre(k, su[k], 0)'
        BY <2>2 DEF Oltre
      <4>5. Resta(SubSeq(su[k], 2, Len(su[k])), x.blocchi, 0, 0)'
        <5> HIDE DEF q
        <5>1. SubSeq(su'[k], 2, Len(su'[k])) = y
          BY <4>2, <4>3
        <5> QED
          BY <3>5, <5>1 DEF Resta
      <4>6. /\ x \in Offerti /\ x.nome = mthr'[k].nome /\ Sequenza(su'[k]) /\ su'[k] # <<>>
            /\ Head(su'[k]) = <<"long", Len(x.blocchi)>>
            /\ Resta(SubSeq(su'[k], 2, Len(su'[k])), x.blocchi, 0, 0)
        <5> HIDE DEF q
        <5> QED
          BY <1>1, <3>2, <4>1, <4>2, <4>3, <4>5 DEF Resta
      <4>7. giu'[k] = <<>>
        BY <2>1, <4>1
      <4> QED
        BY <4>4, <4>6, <4>7 DEF FlussoLunghezza, Offerti, Resta, NomiOfferti
    <3>8. ASSUME mthr[k].stato = "riceve" PROVE FlussoRiceve(k)'
      <4>1. /\ su[k] = <<>> /\ giu[k] = <<>> /\ mthr[k].nome = x.nome /\ mthr[k].num = Len(y)
            /\ mthr[k].cont = 0 /\ mthr[k].num # 0 /\ Scrive(k, y)
        BY <1>1, <3>1, <3>2, <3>8 DEF FlussoMPut, FlussoRiceve, Oltre
      <4>2. su'[k] = y
        BY <2>3, <3>3, <3>4, <4>1
      <4>3. mthr[k].cont < mthr[k].num
        BY <3>3, <4>1
      <4>4. /\ x \in Offerti /\ x.nome = mthr[k].nome /\ mthr[k].num = Len(x.blocchi)
            /\ Resta(su'[k], x.blocchi, mthr[k].cont, 0) /\ Scrive(k, x.blocchi)
        BY <3>2, <3>5, <4>1, <4>2
      <4>5. Oltre(k, su[k], 0)'
        BY <2>2 DEF Oltre
      <4>6. Scrive(k, x.blocchi)'
        BY <1>1, <4>4 DEF Scrive, fileVars
      <4> QED
        BY <1>1, <2>1, <4>1, <4>3, <4>4, <4>5, <4>6 DEF FlussoRiceve, Resta, Offerti, NomiOfferti
    <3> QED
      BY <1>1, <2>2, <3>1, <3>6, <3>7, <3>8 DEF FlussoMPut, StatiMPut
  <2> QED
    BY <1>1, <2>2, <2>3, <2>4, <2>5, PassoCliente
<1>3. CASE ~(acceso /\ mthr[k] # Morto)
  <2>1. su' = su /\ giu' = giu /\ mclient' = [mclient EXCEPT ![k] = "fuori"] /\ elencoFile' = elencoFile
    BY <1>3 DEF manda_byte, chiudeSu
  <2>2. mclient' \in [Conn -> {"prima", "file", "risposta", "dati", "fuori"}]
    BY <1>1, <2>1 DEF MPutTipi
  <2>3. ~Vivo(k)
    BY <1>1, <1>3 DEF MPutTipi, Vivo, Morto, StatiMPut
  <2> QED
    BY <1>1, <2>1, <2>2, <2>3, PassoCliente DEF MPutTipi
<1> QED
  BY <1>2, <1>3

LEMMA MPutFileClientStep ==
  ASSUME MPutInv, NEW k \in Conn, MPutFileClient(k)
  PROVE  MPutInv'
<1>1. /\ MPutTipi /\ FileOK /\ acceso /\ mclient[k] = "prima" /\ UNCHANGED <<fileVars, avvii, acceso, partenza>>
      /\ connect(k) /\ mclient' = [mclient EXCEPT ![k] = "file"]
      /\ mthr' = [mthr EXCEPT ![k] = [stato |-> "nome", nome |-> <<>>, num |-> 0, cont |-> 0, ino |-> 0, insieme |-> FALSE]]
  BY DEF MPutInv, MPutFileClient
<1>2. PICK d \in Cartelle, m \in MinimoByte :
        elencoFile' = [elencoFile EXCEPT ![k] = Restrict(d, {i \in DOMAIN d : m <= Len(d[i].blocchi)})]
  BY DEF MPutFileClient
<1>3. /\ elencoFile'[k] = [i \in {i \in DOMAIN d : m <= Len(d[i].blocchi)} |-> d[i]]
      /\ DOMAIN elencoFile' = Conn /\ \A j \in Conn \ {k} : elencoFile'[j] = elencoFile[j]
  BY <1>1, <1>2 DEF MPutTipi, Restrict
<1>4. DOMAIN elencoFile'[k] \subseteq Nat /\ \A i \in DOMAIN elencoFile'[k] : elencoFile'[k][i] \in Offerti
  <2>1. DOMAIN d \subseteq Nat
    BY MPutAssumption, SequenzaTipo
  <2>2. \A i \in DOMAIN d : d[i] \in Offerti
    BY DEF Offerti
  <2> QED
    BY <1>3, <2>1, <2>2
<1>5. /\ su'[k] = <<>> /\ giu'[k] = <<>> /\ DOMAIN su' = Conn /\ DOMAIN giu' = Conn
      /\ \A j \in Conn \ {k} : su'[j] = su[j] /\ giu'[j] = giu[j]
  BY <1>1 DEF MPutTipi, connect
<1>6. /\ mclient' \in [Conn -> {"prima", "file", "risposta", "dati", "fuori"}] /\ mclient'[k] = "file"
      /\ \A j \in Conn \ {k} : mclient'[j] = mclient[j]
  BY <1>1 DEF MPutTipi
<1>7. /\ DOMAIN mthr' = Conn /\ \A j \in Conn \ {k} : mthr'[j] = mthr[j]
      /\ mthr'[k] = [stato |-> "nome", nome |-> <<>>, num |-> 0, cont |-> 0, ino |-> 0, insieme |-> FALSE]
  BY <1>1 DEF MPutTipi
<1>8. mthr'[k] \in [stato : StatiMPut, nome : NomiOfferti \cup {<<>>}, num : Nat, cont : Nat, ino : Nat, insieme : BOOLEAN]
  BY <1>7 DEF StatiMPut
<1>9. Vivo(k)' /\ ~Riceve(k)' /\ ~Ricevuto(k)'
  BY <1>7 DEF Vivo, StatiMPut, Riceve, Ricevuto
<1>10. FlussoMPut(k)'
  BY <1>5, <1>6, <1>7 DEF FlussoMPut, FlussoNome
<1>11. FileMPut(k)'
  BY <1>7, <1>9 DEF FileMPut
<1>12. FileOK' /\ UNCHANGED <<directory, contenuto>> /\ avvii # 0
  BY <1>1 DEF fileVars, FileOK, MPutTipi
<1>13. Len(contenuto') >= Len(contenuto)
  BY <1>12, SequenzaTipo DEF FileOK
<1>14. DOMAIN mthr' = Conn /\ (avvii = 0 => UNCHANGED <<fileVars, mthr>>)
  BY <1>7, <1>12
<1>15. \A n \in Nomi : directory[n] # 0 => directory'[n] = directory[n]
  BY <1>12
<1>16. \A i \in 1 .. Len(contenuto) : contenuto'[i] # contenuto[i] => Riceve(k) /\ i = directory[mthr[k].nome]
  BY <1>12
<1>17. UNCHANGED <<avvii, acceso, partenza>> /\ acceso
  BY <1>1
<1>18. mclient'[k] \in {"risposta", "dati"} => DOMAIN elencoFile'[k] # {}
  BY <1>6
<1>19. \A j \in Conn \ {k} : /\ su'[j] = su[j] /\ giu'[j] = giu[j]
                            /\ mclient'[j] = mclient[j] /\ elencoFile'[j] = elencoFile[j]
  BY <1>3, <1>5, <1>6
<1> QED
  BY <1>3, <1>4, <1>5, <1>6, <1>7, <1>8, <1>9, <1>10, <1>11, <1>12, <1>13, <1>14, <1>15, <1>16, <1>17, <1>18, <1>19, PassoMPut

\* The record of a thread, and what readUTF makes of it.
LEMMA NomeLetto ==
  ASSUME NEW t \in [stato : StatiMPut, nome : NomiOfferti \cup {<<>>}, num : Nat, cont : Nat, ino : Nat, insieme : BOOLEAN],
         NEW s \in StatiMPut, NEW n \in NomiOfferti \cup {<<>>}, NEW b \in BOOLEAN,
         NEW m, m = [t EXCEPT !.stato = s, !.nome = n, !.num = 0, !.cont = 0, !.insieme = b]
  PROVE  /\ m \in [stato : StatiMPut, nome : NomiOfferti \cup {<<>>}, num : Nat, cont : Nat, ino : Nat, insieme : BOOLEAN]
         /\ m.stato = s /\ m.nome = n /\ m.cont = 0 /\ m.insieme = b
OBVIOUS

LEMMA chiedi_fileStep ==
  ASSUME MPutInv, NEW k \in Conn, chiedi_file(k)
  PROVE  MPutInv'
<1> DEFINE n == Head(su[k])
           g == IF esistono(n) THEN "salta file" ELSE "attiva"
           Record == [stato : StatiMPut, nome : NomiOfferti \cup {<<>>}, num : Nat, cont : Nat, ino : Nat, insieme : BOOLEAN]
           Altro(j) == IF ~esistono(n) /\ Lavora(j, n) THEN [mthr[j] EXCEPT !.insieme = TRUE] ELSE mthr[j]
           Mio == [mthr[k] EXCEPT !.stato = IF esistono(n) THEN "nome" ELSE "lunghezza",
                                  !.nome = IF esistono(n) THEN <<>> ELSE n,
                                  !.num = 0, !.cont = 0, !.insieme = \E h \in Conn \ {k} : Lavora(h, n)]
<1>1. /\ MPutTipi /\ FileOK /\ PartenzaMPut /\ IncontriMPut
      /\ mthr[k].stato = "nome" /\ su[k] # <<>>
      /\ UNCHANGED <<fineSu, fineGiu, fileVars, avvii, acceso, partenza, mclient, elencoFile>>
  BY DEF MPutInv, chiedi_file
<1>2. /\ su' = [su EXCEPT ![k] = Tail(su[k])] /\ giu' = [giu EXCEPT ![k] = Append(giu[k], g)]
      /\ mthr' = [j \in Conn |-> IF j = k THEN Mio ELSE Altro(j)]
  BY DEF chiedi_file
<1>3. Vivo(k) /\ FlussoMPut(k) /\ FileMPut(k) /\ mthr[k] \in Record
  <2>1. Vivo(k)
    BY <1>1 DEF Vivo, StatiMPut
  <2> QED
    BY <1>1, <2>1, FlussoDi DEF MPutTipi
<1>4. PICK w \in NomiOfferti : su[k] = <<w>> /\ (mclient[k] = "risposta" => w = Corrente(k).nome)
  BY <1>1, <1>3 DEF FlussoMPut, FlussoNome
<1>5. giu[k] = <<>> /\ mclient[k] \in {"risposta", "fuori"}
  BY <1>1, <1>3 DEF FlussoMPut, FlussoNome
<1>6. n = w /\ n \in Nomi /\ n \in NomiOfferti
  BY <1>4, Uno, NomiOffertiTipo
<1>7. su'[k] = <<>> /\ giu'[k] = <<g>> /\ DOMAIN su' = Conn /\ DOMAIN giu' = Conn
  BY <1>1, <1>2, <1>4, <1>5, Uno DEF MPutTipi
<1>8. \A j \in Conn \ {k} : su'[j] = su[j] /\ giu'[j] = giu[j] /\ mthr'[j] = Altro(j)
  BY <1>1, <1>2 DEF MPutTipi
<1>9. DOMAIN mthr' = Conn /\ mthr'[k] = Mio
  BY <1>2
<1> HIDE DEF n
<1>10. /\ mthr'[k] \in Record /\ mthr'[k].stato = (IF directory[n] # 0 THEN "nome" ELSE "lunghezza")
       /\ mthr'[k].nome = (IF directory[n] # 0 THEN <<>> ELSE n)
       /\ mthr'[k].cont = 0 /\ mthr'[k].insieme = (\E h \in Conn \ {k} : Lavora(h, n))
  <2> DEFINE t == mthr[k]
             s == IF esistono(n) THEN "nome" ELSE "lunghezza"
             q == IF esistono(n) THEN <<>> ELSE n
             b == \E h \in Conn \ {k} : Lavora(h, n)
             m == mthr'[k]
  <2>1. t \in Record /\ s \in StatiMPut /\ q \in NomiOfferti \cup {<<>>} /\ b \in BOOLEAN
    BY <1>3, <1>6 DEF StatiMPut
  <2>2. m = [t EXCEPT !.stato = s, !.nome = q, !.num = 0, !.cont = 0, !.insieme = b]
    BY <1>9
  <2>3. s = (IF directory[n] # 0 THEN "nome" ELSE "lunghezza") /\ q = (IF directory[n] # 0 THEN <<>> ELSE n)
    BY DEF esistono, esiste
  <2> HIDE DEF t, s, q, b, m
  <2>4. m \in Record /\ m.stato = s /\ m.nome = q /\ m.cont = 0 /\ m.insieme = b
    BY <2>1, <2>2, NomeLetto
  <2> QED
    BY <2>3, <2>4 DEF m, b
<1>11. \A j \in Conn : Lavora(j, n) <=> Riceve(j) /\ mthr[j].nome = n
  BY DEF Lavora, Riceve
<1>12. ASSUME NEW j \in Conn \ {k}
       PROVE  mthr'[j] = mthr[j] \/ (Riceve(j) /\ mthr'[j] = [mthr[j] EXCEPT !.insieme = TRUE])
  BY <1>8, <1>11
<1>13. ASSUME NEW j \in Conn \ {k}, Riceve(j)' \/ Ricevuto(j)'
       PROVE  (Riceve(j)' <=> Riceve(j)) /\ (Ricevuto(j)' <=> Ricevuto(j)) /\ mthr'[j].nome = mthr[j].nome /\ Vivo(j)
  <2>1. CASE mthr'[j] = mthr[j]
    BY <1>13, <2>1 DEF Riceve, Ricevuto, Vivo, StatiMPut
  <2>2. CASE Riceve(j) /\ mthr'[j] = [mthr[j] EXCEPT !.insieme = TRUE]
    <3>1. Vivo(j)
      BY <2>2 DEF Riceve, Vivo, StatiMPut
    <3>2. mthr[j] \in Record
      BY <1>1, <3>1 DEF MPutTipi
    <3> QED
      BY <2>2, <3>1, <3>2 DEF Riceve, Ricevuto, Vivo, StatiMPut
  <2> QED
    BY <1>12, <2>1, <2>2
<1>14. directory[n] = 0 => Riceve(k)'
  BY <1>10 DEF Riceve
<1>15. directory[n] # 0 => ~Riceve(k)' /\ ~Ricevuto(k)'
  BY <1>10 DEF Riceve, Ricevuto
<1>16. ASSUME NEW j \in Conn \ {k}
       PROVE  /\ Riceve(j)' /\ (Riceve(k)' \/ Ricevuto(k)') /\ mthr'[j].nome = mthr'[k].nome => mthr'[k].insieme
              /\ Riceve(k)' /\ (Riceve(j)' \/ Ricevuto(j)') /\ mthr'[j].nome = mthr'[k].nome => mthr'[j].insieme
  <2>1. ASSUME Riceve(j)', Riceve(k)' \/ Ricevuto(k)', mthr'[j].nome = mthr'[k].nome
        PROVE  mthr'[k].insieme
    BY <1>10, <1>11, <1>13, <1>15, <2>1
  <2>2. ASSUME Riceve(k)', Riceve(j)' \/ Ricevuto(j)', mthr'[j].nome = mthr'[k].nome
        PROVE  mthr'[j].insieme
    <3>1. directory[n] = 0 /\ mthr[j].nome = n /\ Vivo(j)
      BY <1>10, <1>13, <1>15, <2>2
    <3>2. Riceve(j)
      <4> SUFFICES ASSUME Ricevuto(j) PROVE FALSE
        BY <1>13, <2>2
      <4>1. directory[mthr[j].nome] # 0
        BY <3>1 DEF MPutInv, FileMPut
      <4> QED
        BY <3>1, <4>1
    <3>3. Lavora(j, n) /\ mthr[j] \in Record
      BY <1>1, <1>11, <3>1, <3>2 DEF MPutTipi
    <3>4. mthr'[j] = [mthr[j] EXCEPT !.insieme = TRUE]
      BY <1>8, <3>1, <3>3 DEF esistono, esiste
    <3> QED
      BY <3>3, <3>4
  <2> QED
    BY <2>1, <2>2
<1>17. FlussoMPut(k)'
  <2>1. mclient'[k] = mclient[k] /\ Corrente(k)' = Corrente(k)
    BY <1>1 DEF Corrente, Primo
  <2>2. CASE directory[n] # 0
    <3>1. giu'[k] = <<"salta file">> /\ mthr'[k].stato = "nome"
      BY <1>7, <1>10, <2>2 DEF esistono, esiste
    <3> QED
      BY <1>5, <1>7, <2>1, <3>1 DEF FlussoMPut, FlussoNome
  <2>3. CASE directory[n] = 0
    <3>1. giu'[k] = <<"attiva">> /\ mthr'[k].stato = "lunghezza" /\ mthr'[k].nome = n
      BY <1>7, <1>10, <2>3 DEF esistono, esiste
    <3>2. FlussoLunghezza(k)'
      BY <1>4, <1>5, <1>6, <1>7, <2>1, <3>1 DEF FlussoLunghezza
    <3> QED
      BY <1>5, <2>1, <3>1, <3>2 DEF FlussoMPut
  <2> QED
    BY <2>2, <2>3
<1>18. FileMPut(k)'
  <2>1. CASE directory[n] # 0
    BY <1>10, <1>15, <2>1 DEF FileMPut
  <2>2. CASE directory[n] = 0
    <3>1. mthr'[k].stato = "lunghezza" /\ mthr'[k].nome = n /\ mthr'[k].cont = 0 /\ ~Ricevuto(k)'
      BY <1>10, <2>2 DEF Ricevuto
    <3>2. partenza'[1][n] = 0
      BY <1>1, <1>6, <2>2 DEF PartenzaMPut
    <3> QED
      BY <1>6, <3>1, <3>2 DEF FileMPut
  <2> QED
    BY <2>1, <2>2
<1>19. FileOK' /\ UNCHANGED <<directory, contenuto>>
  BY <1>1 DEF fileVars, FileOK
<1>20. Len(contenuto') >= Len(contenuto)
  BY <1>1, <1>19, SequenzaTipo DEF FileOK
<1>21. acceso /\ avvii # 0
  BY <1>1, <1>3 DEF MPutTipi
<1>22. Vivo(k)'
  BY <1>10 DEF Vivo, StatiMPut
<1>23. mclient' = mclient /\ elencoFile' = elencoFile /\ UNCHANGED <<avvii, acceso, partenza>>
  BY <1>1
<1>24. /\ mclient' \in [Conn -> {"prima", "file", "risposta", "dati", "fuori"}] /\ DOMAIN elencoFile' = Conn
       /\ DOMAIN elencoFile'[k] \subseteq Nat /\ \A i \in DOMAIN elencoFile'[k] : elencoFile'[k][i] \in Offerti
       /\ mclient'[k] \in {"risposta", "dati"} => DOMAIN elencoFile'[k] # {}
  BY <1>1, <1>3, <1>23 DEF MPutTipi
<1>25. \A j \in Conn \ {k} : mclient'[j] = mclient[j] /\ elencoFile'[j] = elencoFile[j]
  BY <1>23
<1> HIDE DEF Altro, Mio, g
<1> QED
  BY <1>7, <1>8, <1>9, <1>10, <1>12, <1>16, <1>17, <1>18, <1>19, <1>20, <1>21, <1>22, <1>23, <1>24, <1>25, PassoMPut

\* What is left of a file of which nothing is left.
LEMMA RestaVuota ==
  ASSUME NEW b, Sequenza(b), NEW z \in {0, 1}, NEW c, c = Len(b), NEW q, Resta(q, b, c, z)
  PROVE  IF z = 0 THEN q = <<>> ELSE q = <<q[Len(q)]>> /\ q[Len(q)] \in NomiOfferti
<1>1. Sequenza(q) /\ Len(q) = z
  BY SequenzaTipo DEF Resta
<1>2. CASE z = 0
  <2> DEFINE e == <<>>
  <2>1. Sequenza(e) /\ Len(e) = 0 /\ Len(q) = 0
    BY <1>1, <1>2, SequenzaVuota
  <2> HIDE DEF e
  <2>2. q = e
    BY <1>1, <2>1, SequenzeUguali
  <2> QED
    BY <1>2, <2>2 DEF e
<1>3. CASE z = 1
  <2> DEFINE u == <<q[Len(q)]>>
  <2>1. Sequenza(u) /\ Len(u) = 1 /\ u[1] = q[Len(q)]
    BY SequenzaUno
  <2> HIDE DEF u
  <2>2. q = u
    BY <1>1, <1>3, <2>1, SequenzeUguali
  <2> QED
    BY <1>3, <2>2 DEF u, Resta
<1> QED
  BY <1>2, <1>3

\* A step of a thread that receives: on its own file, with what its client sent.
LEMMA PassoThread ==
  ASSUME MPutInv, NEW k \in Conn, Riceve(k), NEW m, NEW r,
         UNCHANGED <<giu, avvii, acceso, partenza, mclient, elencoFile>>,
         su' = [su EXCEPT ![k] = r], mthr' = [mthr EXCEPT ![k] = m],
         m \in [stato : StatiMPut, nome : NomiOfferti \cup {<<>>}, num : Nat, cont : Nat, ino : Nat, insieme : BOOLEAN],
         m.nome = mthr[k].nome, m.insieme = mthr[k].insieme,
         FileOK', Len(contenuto') >= Len(contenuto),
         \A n \in Nomi : directory[n] # 0 => directory'[n] = directory[n],
         \A i \in 1 .. Len(contenuto) : contenuto'[i] # contenuto[i] => i = directory[mthr[k].nome],
         FlussoMPut(k)', FileMPut(k)'
  PROVE  MPutInv'
<1>1. MPutTipi /\ IncontriMPut /\ Vivo(k) /\ acceso /\ avvii # 0
  BY DEF MPutInv, MPutTipi, Riceve, Vivo, StatiMPut
<1>2. DOMAIN su' = Conn /\ \A j \in Conn \ {k} : su'[j] = su[j]
  BY <1>1 DEF MPutTipi
<1>3. DOMAIN mthr' = Conn /\ mthr'[k] = m /\ \A j \in Conn \ {k} : mthr'[j] = mthr[j]
  BY <1>1 DEF MPutTipi
<1>4. Vivo(k)'
  BY <1>3 DEF Vivo
<1>5. ASSUME NEW j \in Conn \ {k}
      PROVE  /\ Riceve(j)' /\ (Riceve(k)' \/ Ricevuto(k)') /\ mthr'[j].nome = mthr'[k].nome => mthr'[k].insieme
             /\ Riceve(k)' /\ (Riceve(j)' \/ Ricevuto(j)') /\ mthr'[j].nome = mthr'[k].nome => mthr'[j].insieme
  <2>1. /\ Riceve(j) /\ mthr[j].nome = mthr[k].nome => mthr[k].insieme
        /\ (Riceve(j) \/ Ricevuto(j)) /\ mthr[j].nome = mthr[k].nome => mthr[j].insieme
    BY <1>1 DEF IncontriMPut
  <2>2. (Riceve(j)' <=> Riceve(j)) /\ (Ricevuto(j)' <=> Ricevuto(j))
    BY <1>3 DEF Riceve, Ricevuto
  <2> QED
    BY <1>3, <2>1, <2>2
<1>6. /\ mclient' \in [Conn -> {"prima", "file", "risposta", "dati", "fuori"}]
      /\ DOMAIN giu' = Conn /\ DOMAIN elencoFile' = Conn
      /\ DOMAIN elencoFile'[k] \subseteq Nat /\ \A i \in DOMAIN elencoFile'[k] : elencoFile'[k][i] \in Offerti
      /\ mclient'[k] \in {"risposta", "dati"} => DOMAIN elencoFile'[k] # {}
  BY <1>1 DEF MPutTipi
<1>7. mthr'[k] \in [stato : StatiMPut, nome : NomiOfferti \cup {<<>>}, num : Nat, cont : Nat, ino : Nat, insieme : BOOLEAN]
  BY <1>3
<1> QED
  BY <1>1, <1>2, <1>3, <1>4, <1>5, <1>6, <1>7, PassoMPut

\* The file thread k works on, once opened, is an inode.
LEMMA InodeMPut ==
  ASSUME MPutInv, NEW k \in Conn, mthr[k].stato = "riceve"
  PROVE  /\ mthr[k].nome \in Nomi /\ directory[mthr[k].nome] = mthr[k].ino
         /\ mthr[k].ino \in 1 .. Len(contenuto)
<1>1. Vivo(k)
  BY DEF Vivo, StatiMPut
<1>2. mthr[k].nome \in NomiOfferti /\ directory[mthr[k].nome] = mthr[k].ino /\ mthr[k].ino # 0
  BY <1>1, FlussoDi DEF FileMPut
<1>3. Len(contenuto) \in Nat /\ directory[mthr[k].nome] \in 0 .. Len(contenuto)
  BY <1>2, NomiOffertiTipo, SequenzaTipo DEF MPutInv, FileOK
<1> QED
  BY <1>2, <1>3, NomiOffertiTipo

LEMMA leggi_byteStep ==
  ASSUME MPutInv, NEW k \in Conn, leggi_byte(k)
  PROVE  MPutInv'
<1> DEFINE t == mthr[k]
           Record == [stato : StatiMPut, nome : NomiOfferti \cup {<<>>}, num : Nat, cont : Nat, ino : Nat, insieme : BOOLEAN]
<1>1. PICK n \in 1 .. Buffer :
        /\ leggeSu(k, n) /\ scrivi(t.ino, t.cont + 1, SubSeq(su[k], 1, n))
        /\ mthr' = [mthr EXCEPT ![k].cont = t.cont + n, ![k].stato = IF t.cont + n < t.num THEN "riceve" ELSE "nome"]
  BY DEF leggi_byte
<1>2. t.stato = "riceve" /\ UNCHANGED <<avvii, acceso, partenza, mclient, elencoFile>>
  BY DEF leggi_byte
<1>3. n \in Nat /\ 1 <= n /\ n <= Len(su[k])
  BY <1>1, MPutAssumption DEF leggeSu
<1> DEFINE r == SubSeq(su[k], n + 1, Len(su[k]))
           p == SubSeq(su[k], 1, n)
<1>4. su' = [su EXCEPT ![k] = r] /\ giu' = giu
  BY <1>1 DEF leggeSu
<1>5. MPutTipi /\ FileOK /\ Vivo(k) /\ Riceve(k) /\ FlussoRiceve(k) /\ FileMPut(k) /\ t \in Record
  BY <1>2, FlussoDi DEF MPutInv, Vivo, StatiMPut, Riceve, FlussoMPut, MPutTipi
<1>6. t.nome \in Nomi /\ directory[t.nome] = t.ino /\ t.ino \in 1 .. Len(contenuto)
  BY <1>2, InodeMPut
<1>7. PICK x \in Offerti, z \in {0, 1} :
        /\ x.nome = t.nome /\ t.num = Len(x.blocchi) /\ t.cont < t.num
        /\ Resta(su[k], x.blocchi, t.cont, z) /\ Oltre(k, su[k], z) /\ Scrive(k, x.blocchi)
  BY <1>3, <1>5, SequenzaVuota DEF FlussoRiceve
<1> DEFINE b == x.blocchi
           c == t.cont
<1>8. Sequenza(b) /\ Len(b) \in Nat /\ c \in Nat /\ t.num \in Nat /\ t.num = Len(b) /\ c < Len(b)
  BY <1>5, <1>7, OffertoTipo
<1>9. /\ c + n <= Len(b) =>
           /\ Resta(r, b, c + n, z) /\ (z = 1 => r[Len(r)] = su[k][Len(su[k])])
           /\ Sequenza(p) /\ Len(p) = n /\ \A i \in 1 .. n : p[i] = b[c + i]
      /\ c + n > Len(b) => z = 1 /\ r = <<>>
  <2> DEFINE q == su[k]
  <2>1. Resta(q, b, c, z) /\ n \in Nat /\ 1 <= n /\ n <= Len(q)
    BY <1>3, <1>7
  <2>2. Sequenza(b) /\ c \in Nat /\ c < Len(b)
    BY <1>8
  <2> HIDE DEF q, b, c, r, p
  <2>3. Letta(b, c, z, q, n)
    BY <2>1, <2>2, RestaLetta
  <2> QED
    BY <2>3 DEF q, r, p, Letta
<1>10. Sequenza(p)
  BY <1>3, <1>7, Divisa DEF Resta
<1> DEFINE m == [t EXCEPT !.cont = c + n, !.stato = IF c + n < t.num THEN "riceve" ELSE "nome"]
<1>11. mthr' = [mthr EXCEPT ![k] = m]
  BY <1>1
<1>12. /\ m \in Record /\ m.nome = t.nome /\ m.insieme = t.insieme /\ m.num = t.num /\ m.ino = t.ino
       /\ m.cont = c + n /\ m.stato = IF c + n < t.num THEN "riceve" ELSE "nome"
  <2>1. c + n \in Nat
    BY <1>3, <1>8
  <2> QED
    BY <1>5, <2>1 DEF StatiMPut
<1>13. scrivi(t.ino, c + 1, p)
  BY <1>1
<1> HIDE DEF m, r, p
<1>14. /\ FileOK' /\ directory' = directory /\ Len(contenuto') = Len(contenuto)
       /\ contenuto'[t.ino] = Scritto(t.ino, c + 1, p)
       /\ \A j \in 1 .. Len(contenuto) \ {t.ino} : contenuto'[j] = contenuto[j]
  <2> DEFINE i == t.ino
             d == c + 1
  <2>1. i \in 1 .. Len(contenuto) /\ d \in Nat \ {0} /\ scrivi(i, d, p)
    BY <1>6, <1>8, <1>13
  <2> HIDE DEF i, d
  <2>2. /\ FileOK' /\ directory' = directory /\ Len(contenuto') = Len(contenuto)
        /\ contenuto'[i] = Scritto(i, d, p)
        /\ \A j \in 1 .. Len(contenuto) \ {i} : contenuto'[j] = contenuto[j]
    BY <1>5, <1>10, <2>1, ScriviFile
  <2> QED
    BY <2>2 DEF i, d
<1>15. mthr'[k] = m /\ su'[k] = r /\ giu'[k] = <<>>
  BY <1>4, <1>5, <1>11 DEF MPutTipi, FlussoRiceve
<1>16. ASSUME ~t.insieme, c + n <= Len(b) PROVE contenuto'[t.ino] = SubSeq(b, 1, c + n)
  <2> DEFINE i == t.ino
  <2>1. contenuto[i] = SubSeq(b, 1, c)
    BY <1>7, <1>16 DEF Scrive
  <2>2. Sequenza(p) /\ Len(p) = n /\ \A j \in 1 .. n : p[j] = b[c + j]
    BY <1>9, <1>16
  <2>3. Sequenza(b) /\ c \in Nat /\ n \in Nat /\ c + n <= Len(b)
    BY <1>3, <1>8, <1>16
  <2> HIDE DEF i, b, c
  <2>4. Aggiunge(i, b, c, n, p)
    BY <2>1, <2>2, <2>3, PezzoInPiu
  <2> QED
    BY <1>14, <2>4 DEF i, Aggiunge
<1>17. Corrente(k)' = Corrente(k)
  BY <1>2 DEF Corrente, Primo
<1>18. /\ mclient'[k] = mclient[k] /\ mclient[k] \in {"file", "risposta", "fuori"}
       /\ mclient[k] = "file" => z = 0
       /\ mclient[k] = "risposta" => z = 1 /\ su[k][Len(su[k])] = Corrente(k).nome
  BY <1>2, <1>7 DEF Oltre
<1>19. ASSUME c + n < t.num PROVE FlussoMPut(k)' /\ FileMPut(k)'
  <2>1. mthr'[k].stato = "riceve" /\ ~Ricevuto(k)'
    BY <1>12, <1>15, <1>19 DEF Ricevuto
  <2>2. Resta(su[k], x.blocchi, mthr[k].cont, z)'
    <3>1. Resta(r, x.blocchi, c + n, z)
      BY <1>3, <1>8, <1>9, <1>19
    <3>2. su'[k] = r /\ mthr'[k].cont = c + n
      BY <1>12, <1>15
    <3>3. Resta(su'[k], x.blocchi, mthr'[k].cont, z)
      BY <3>1, <3>2, Zenon
    <3> QED
      BY <3>3 DEF Resta
  <2>3. Oltre(k, su[k], z)'
    BY <1>8, <1>9, <1>15, <1>17, <1>18, <1>19 DEF Oltre
  <2>4. Scrive(k, x.blocchi)'
    BY <1>8, <1>12, <1>15, <1>16, <1>19, SMTT(30) DEF Scrive
  <2>5. FlussoRiceve(k)'
    BY <1>7, <1>12, <1>15, <1>19, <2>2, <2>3, <2>4 DEF FlussoRiceve
  <2>6. FlussoMPut(k)'
    BY <1>18, <2>1, <2>5 DEF FlussoMPut
  <2>7. FileMPut(k)'
    BY <1>2, <1>5, <1>12, <1>14, <1>15, <2>1 DEF FileMPut, Riceve
  <2> QED
    BY <2>6, <2>7
<1>20. ASSUME ~(c + n < t.num) PROVE FlussoMPut(k)' /\ FileMPut(k)'
  <2>1. mthr'[k].stato = "nome" /\ ~Riceve(k)'
    BY <1>12, <1>15, <1>20 DEF Riceve
  <2>2. FlussoNome(k)'
    <3>1. CASE c + n > Len(b)
      BY <1>9, <1>15, <1>18, <3>1 DEF FlussoNome
    <3>2. CASE c + n = Len(b)
      <4>1. Resta(r, b, c + n, z)
        BY <1>8, <1>9, <3>2
      <4> DEFINE e == c + n
      <4>2. e = Len(b) /\ Resta(r, b, e, z)
        BY <3>2, <4>1
      <4> HIDE DEF e, b
      <4>3. IF z = 0 THEN r = <<>> ELSE r = <<r[Len(r)]>> /\ r[Len(r)] \in NomiOfferti
        BY <1>8, <4>2, RestaVuota
      <4>4. z = 1 => r[Len(r)] = su[k][Len(su[k])]
        BY <1>9, <4>2 DEF e, b
      <4>5. CASE z = 0
        BY <1>15, <1>18, <4>3, <4>5 DEF FlussoNome
      <4>6. CASE z = 1
        BY <1>15, <1>17, <1>18, <4>3, <4>4, <4>6 DEF FlussoNome
      <4> QED
        BY <4>5, <4>6
    <3> QED
      BY <1>3, <1>8, <1>20, <3>1, <3>2
  <2>3. FlussoMPut(k)'
    BY <1>18, <2>1, <2>2 DEF FlussoMPut
  <2>4. FileMPut(k)'
    <3>1. ASSUME ~t.insieme, c + n = t.num PROVE contenuto'[t.ino] = b
      <4>1. b \in Seq({b[i] : i \in DOMAIN b})
        BY <1>8 DEF Sequenza
      <4>2. SubSeq(b, 1, Len(b)) = b
        <5> HIDE DEF b
        <5> QED
          BY <4>1, SubSeqFull
      <4>3. contenuto'[t.ino] = SubSeq(b, 1, c + n)
        BY <1>8, <1>16, <3>1
      <4> QED
        BY <1>8, <3>1, <4>2, <4>3
    <3>2. /\ t.nome \in NomiOfferti /\ directory[t.nome] = t.ino /\ t.ino # 0 /\ partenza[1][t.nome] = 0
      BY <1>2, <1>5 DEF FileMPut
    <3> QED
      BY <1>2, <1>7, <1>12, <1>14, <1>15, <2>1, <3>1, <3>2 DEF FileMPut
  <2> QED
    BY <2>3, <2>4
<1>21. FlussoMPut(k)' /\ FileMPut(k)'
  BY <1>19, <1>20
<1>22. /\ Len(contenuto') >= Len(contenuto) /\ \A q \in Nomi : directory[q] # 0 => directory'[q] = directory[q]
       /\ \A i \in 1 .. Len(contenuto) : contenuto'[i] # contenuto[i] => i = directory[mthr[k].nome]
  <2>1. Len(contenuto) \in Nat
    BY <1>5, SequenzaTipo DEF FileOK
  <2> QED
    BY <1>6, <1>14, <2>1
<1>23. UNCHANGED <<giu, avvii, acceso, partenza, mclient, elencoFile>>
  BY <1>2, <1>4
<1> QED
  BY <1>4, <1>5, <1>11, <1>12, <1>14, <1>21, <1>22, <1>23, PassoThread

\* What readLong and FileOutputStream make of a thread's record.
LEMMA LunghezzaLetta ==
  ASSUME NEW t \in [stato : StatiMPut, nome : NomiOfferti \cup {<<>>}, num : Nat, cont : Nat, ino : Nat, insieme : BOOLEAN],
         NEW s \in StatiMPut, NEW l \in Nat, NEW i \in Nat,
         NEW m, m = [t EXCEPT !.stato = s, !.num = l, !.ino = i]
  PROVE  /\ m \in [stato : StatiMPut, nome : NomiOfferti \cup {<<>>}, num : Nat, cont : Nat, ino : Nat, insieme : BOOLEAN]
         /\ m.stato = s /\ m.num = l /\ m.ino = i
         /\ m.nome = t.nome /\ m.cont = t.cont /\ m.insieme = t.insieme
OBVIOUS

\* The stream after the length: what is left of the file, and then a name.
LEMMA DopoLunghezza ==
  ASSUME MPutInv, NEW k \in Conn, mthr[k].stato = "lunghezza", 1 <= Len(su[k])
  PROVE  \E x \in Offerti :
           /\ x.nome = mthr[k].nome /\ giu[k] = <<>> /\ Head(su[k])[2] = Len(x.blocchi)
           /\ \/ /\ SubSeq(su[k], 2, Len(su[k])) = <<>> /\ mclient[k] = "dati" /\ x = Corrente(k)
              \/ \E z \in {0, 1} :
                   Resta(SubSeq(su[k], 2, Len(su[k])), x.blocchi, 0, z) /\ Oltre(k, SubSeq(su[k], 2, Len(su[k])), z)
<1>1. MPutTipi /\ Vivo(k) /\ FlussoLunghezza(k)
  BY FlussoDi DEF MPutInv, Vivo, StatiMPut, FlussoMPut
<1>2. ~(su[k] = <<>>)
  BY SequenzaVuota
<1>3. CASE /\ mclient[k] = "dati" /\ giu[k] = <<>> /\ su[k] = << <<"long", Len(Corrente(k).blocchi)>> >>
           /\ mthr[k].nome = Corrente(k).nome
  <2>1. PICK x \in Offerti : x = Corrente(k)
    BY <1>1, <1>3, CorrenteOfferto DEF MPutTipi
  <2> DEFINE l == <<"long", Len(x.blocchi)>>
  <2>2. su[k] = <<l>> /\ l[2] = Len(x.blocchi)
    BY <1>3, <2>1
  <2> HIDE DEF l
  <2>3. Head(su[k]) = l /\ SubSeq(su[k], 2, Len(su[k])) = <<>>
    BY <2>2, Uno, UnoLetto
  <2> QED
    BY <1>3, <2>1, <2>2, <2>3
<1>4. CASE /\ giu[k] = <<>>
           /\ \E x \in Offerti, z \in {0, 1} :
                /\ x.nome = mthr[k].nome /\ Sequenza(su[k]) /\ su[k] # <<>> /\ Head(su[k]) = <<"long", Len(x.blocchi)>>
                /\ Resta(SubSeq(su[k], 2, Len(su[k])), x.blocchi, 0, z)
                /\ Oltre(k, su[k], z)
  <2>1. PICK x \in Offerti, z \in {0, 1} :
          /\ x.nome = mthr[k].nome /\ Sequenza(su[k]) /\ su[k] # <<>> /\ Head(su[k]) = <<"long", Len(x.blocchi)>>
          /\ Resta(SubSeq(su[k], 2, Len(su[k])), x.blocchi, 0, z)
          /\ Oltre(k, su[k], z)
    BY <1>4
  <2> DEFINE q == su[k]
             a == 1
             r == SubSeq(q, a + 1, Len(q))
  <2>2. a \in Nat /\ a <= Len(q) /\ Sequenza(q) /\ Len(q) \in Nat
    BY <2>1, SequenzaTipo
  <2> HIDE DEF a, q
  <2>3. Len(r) = Len(q) - a /\ \A i \in 1 .. Len(q) - a : r[i] = q[a + i]
    BY <2>2, Divisa
  <2> HIDE DEF r
  <2>4. r = SubSeq(su[k], 2, Len(su[k]))
    BY DEF r, a, q
  <2>5. Resta(r, x.blocchi, 0, z)
    BY <2>1, <2>4
  <2>6. Len(r) = Len(x.blocchi) - 0 + z /\ Len(x.blocchi) \in Nat
    BY <2>5, OffertoTipo DEF Resta
  <2>7. z = 1 => r[Len(r)] = q[Len(q)]
    <3>1. z = 1 => Len(r) \in 1 .. Len(q) - a /\ a + Len(r) = Len(q)
      BY <2>2, <2>3, <2>6 DEF a
    <3> QED
      BY <2>3, <3>1
  <2>8. Oltre(k, r, z)
    BY <2>1, <2>7 DEF Oltre, q
  <2>9. Head(su[k])[2] = Len(x.blocchi)
    BY <2>1
  <2> QED
    BY <1>4, <2>1, <2>4, <2>5, <2>8, <2>9
<1> QED
  BY <1>1, <1>2, <1>3, <1>4 DEF FlussoLunghezza

LEMMA leggi_lunghezzaStep ==
  ASSUME MPutInv, NEW k \in Conn, leggi_lunghezza(k)
  PROVE  MPutInv'
<1> DEFINE t == mthr[k]
           Record == [stato : StatiMPut, nome : NomiOfferti \cup {<<>>}, num : Nat, cont : Nat, ino : Nat, insieme : BOOLEAN]
           r == SubSeq(su[k], 2, Len(su[k]))
           l == Head(su[k])[2]
           i == directory'[t.nome]
           m == [t EXCEPT !.stato = IF l = 0 THEN "nome" ELSE "riceve", !.num = l, !.ino = i]
<1>1. /\ t.stato = "lunghezza" /\ leggeSu(k, 1) /\ crea(t.nome)
      /\ mthr' = [mthr EXCEPT ![k].stato = IF Head(su[k])[2] = 0 THEN "nome" ELSE "riceve",
                              ![k].num = Head(su[k])[2], ![k].ino = directory'[mthr[k].nome]]
      /\ UNCHANGED <<avvii, acceso, partenza, mclient, elencoFile>>
  BY DEF leggi_lunghezza
<1>2. 1 <= Len(su[k]) /\ su' = [su EXCEPT ![k] = r] /\ giu' = giu
  <2>1. 1 + 1 = 2
    OBVIOUS
  <2>2. 1 <= Len(su[k]) /\ su' = [su EXCEPT ![k] = SubSeq(su[k], 1 + 1, Len(su[k]))] /\ giu' = giu
    BY <1>1, Zenon DEF leggeSu
  <2> QED
    BY <2>1, <2>2
<1>3. mthr' = [mthr EXCEPT ![k] = m]
  BY <1>1
<1>4. MPutTipi /\ FileOK /\ Vivo(k) /\ Riceve(k) /\ FileMPut(k) /\ t \in Record
  BY <1>1, FlussoDi DEF MPutInv, Vivo, StatiMPut, Riceve, MPutTipi
<1>5. t.nome \in NomiOfferti /\ t.nome \in Nomi /\ t.cont = 0 /\ partenza[1][t.nome] = 0
  BY <1>1, <1>4, NomiOffertiTipo DEF FileMPut
<1>6. /\ FileOK' /\ i \in 1 .. Len(contenuto') /\ contenuto'[i] = <<>>
      /\ i = IF directory[t.nome] # 0 THEN directory[t.nome] ELSE Len(contenuto) + 1
      /\ \A q \in Nomi \ {t.nome} : directory'[q] = directory[q]
      /\ Len(contenuto') >= Len(contenuto)
      /\ \A j \in 1 .. Len(contenuto) : j # directory[t.nome] => contenuto'[j] = contenuto[j]
  <2> DEFINE n == t.nome
  <2>1. n \in Nomi /\ crea(n)
    BY <1>1, <1>5
  <2> HIDE DEF n
  <2>2. /\ FileOK' /\ directory'[n] \in 1 .. Len(contenuto') /\ contenuto'[directory'[n]] = <<>>
        /\ directory'[n] = IF directory[n] # 0 THEN directory[n] ELSE Len(contenuto) + 1
        /\ \A q \in Nomi \ {n} : directory'[q] = directory[q]
        /\ Len(contenuto') >= Len(contenuto)
        /\ \A j \in 1 .. Len(contenuto) : j # directory[n] => contenuto'[j] = contenuto[j]
    BY <1>4, <2>1, CreaFile
  <2> QED
    BY <2>2 DEF n
<1>7. PICK x \in Offerti :
        /\ x.nome = t.nome /\ giu[k] = <<>> /\ l = Len(x.blocchi)
        /\ \/ r = <<>> /\ mclient[k] = "dati" /\ x = Corrente(k)
           \/ \E z \in {0, 1} : Resta(r, x.blocchi, 0, z) /\ Oltre(k, r, z)
  BY <1>1, <1>2, DopoLunghezza
<1>8. Sequenza(x.blocchi) /\ l \in Nat /\ i \in Nat /\ i # 0
  <2>1. Sequenza(x.blocchi) /\ l \in Nat
    BY <1>7, OffertoTipo, SequenzaTipo
  <2>2. Len(contenuto') \in Nat
    BY <1>6, SequenzaTipo DEF FileOK
  <2> QED
    BY <1>6, <2>1, <2>2
<1> DEFINE s == IF l = 0 THEN "nome" ELSE "riceve"
<1>9. s \in StatiMPut
  BY DEF StatiMPut
<1> HIDE DEF r, l
<1>10. /\ m \in Record /\ m.stato = s /\ m.num = l /\ m.ino = i
       /\ m.nome = t.nome /\ m.cont = t.cont /\ m.insieme = t.insieme
  <2>1. t \in Record /\ l \in Nat /\ i \in Nat /\ s \in StatiMPut
    BY <1>4, <1>8, <1>9
  <2>2. m = [t EXCEPT !.stato = s, !.num = l, !.ino = i]
    OBVIOUS
  <2> HIDE DEF m, t, i, s
  <2> QED
    BY <2>1, <2>2, LunghezzaLetta
<1> HIDE DEF m
<1>11. mthr'[k] = m /\ su'[k] = r /\ giu'[k] = <<>> /\ mclient'[k] = mclient[k] /\ Corrente(k)' = Corrente(k)
  BY <1>1, <1>2, <1>3, <1>4, <1>7 DEF MPutTipi, Corrente, Primo
<1>12. SubSeq(x.blocchi, 1, 0) = <<>>
  BY <1>8, SubSeqEmpty
<1>13. ASSUME l = 0 PROVE FlussoMPut(k)' /\ FileMPut(k)'
  <2>1. m.stato = "nome" /\ ~Riceve(k)'
    BY <1>10, <1>11, <1>13 DEF Riceve
  <2>2. x.blocchi = <<>>
    <3> DEFINE e == <<>>
               b == x.blocchi
    <3>1. Sequenza(e) /\ Len(e) = 0 /\ Sequenza(b) /\ Len(b) = 0
      BY <1>7, <1>8, <1>13, SequenzaVuota
    <3> HIDE DEF e, b
    <3>2. b = e
      BY <3>1, SequenzeUguali
    <3> QED
      BY <3>2 DEF b, e
  <2>3. FlussoNome(k)'
    <3>1. CASE r = <<>> /\ mclient[k] = "dati" /\ x = Corrente(k)
      BY <1>7, <1>11, <1>13, <3>1 DEF FlussoNome
    <3>2. ASSUME NEW z \in {0, 1}, Resta(r, x.blocchi, 0, z), Oltre(k, r, z) PROVE FlussoNome(k)'
      <4> DEFINE c == 0
                 b == x.blocchi
      <4>1. Sequenza(b) /\ c = Len(b) /\ Resta(r, b, c, z)
        BY <1>7, <1>8, <1>13, <3>2
      <4> HIDE DEF c, b
      <4>2. IF z = 0 THEN r = <<>> ELSE r = <<r[Len(r)]>> /\ r[Len(r)] \in NomiOfferti
        BY <4>1, RestaVuota
      <4>3. CASE z = 0
        BY <1>11, <3>2, <4>2, <4>3 DEF FlussoNome, Oltre
      <4>4. CASE z = 1
        BY <1>11, <3>2, <4>2, <4>4 DEF FlussoNome, Oltre
      <4> QED
        BY <4>3, <4>4
    <3> QED
      BY <1>7, <3>1, <3>2
  <2>4. FlussoMPut(k)'
    <3>1. mclient[k] # "prima"
      BY <1>4, FlussoDi DEF FlussoMPut
    <3> QED
      BY <1>10, <1>11, <2>1, <2>3, <3>1 DEF FlussoMPut
  <2>5. FileMPut(k)'
    BY <1>1, <1>5, <1>6, <1>7, <1>8, <1>10, <1>11, <2>1, <2>2, ZenonT(30) DEF FileMPut
  <2> QED
    BY <2>4, <2>5
<1>14. ASSUME l # 0 PROVE FlussoMPut(k)' /\ FileMPut(k)'
  <2>1. m.stato = "riceve" /\ ~Ricevuto(k)'
    BY <1>10, <1>11, <1>14 DEF Ricevuto
  <2>2. Scrive(k, x.blocchi)'
    BY <1>5, <1>6, <1>10, <1>11, <1>12 DEF Scrive
  <2>3. FlussoRiceve(k)'
    <3>1. CASE r = <<>> /\ mclient[k] = "dati" /\ x = Corrente(k)
      <4>1. Scrive(k, Corrente(k).blocchi)'
        BY <1>5, <1>6, <1>10, <1>11, <1>12, <3>1 DEF Scrive
      <4> QED
        BY <1>5, <1>7, <1>10, <1>11, <1>14, <3>1, <4>1 DEF FlussoRiceve
    <3>2. ASSUME NEW z \in {0, 1}, Resta(r, x.blocchi, 0, z), Oltre(k, r, z) PROVE FlussoRiceve(k)'
      <4>1. su'[k] = r /\ mthr'[k].cont = 0
        BY <1>5, <1>10, <1>11
      <4>2. Resta(su'[k], x.blocchi, mthr'[k].cont, z)
        BY <3>2, <4>1, Zenon
      <4>3. Resta(su[k], x.blocchi, mthr[k].cont, z)'
        BY <4>2 DEF Resta
      <4>4. Oltre(k, su[k], z)'
        BY <1>11, <3>2 DEF Oltre
      <4>5. 0 < l
        BY <1>8, <1>14
      <4> QED
        BY <1>5, <1>7, <1>10, <1>11, <2>2, <4>1, <4>3, <4>4, <4>5 DEF FlussoRiceve
    <3> QED
      BY <1>7, <3>1, <3>2
  <2>4. FlussoMPut(k)'
    <3>1. mclient[k] # "prima"
      BY <1>4, FlussoDi DEF FlussoMPut
    <3> QED
      BY <1>10, <1>11, <2>1, <2>3, <3>1 DEF FlussoMPut
  <2>5. FileMPut(k)'
    BY <1>1, <1>5, <1>8, <1>10, <1>11, <2>1 DEF FileMPut
  <2> QED
    BY <2>4, <2>5
<1>15. FlussoMPut(k)' /\ FileMPut(k)'
  BY <1>13, <1>14
<1>16. /\ \A q \in Nomi : directory[q] # 0 => directory'[q] = directory[q]
       /\ \A j \in 1 .. Len(contenuto) : contenuto'[j] # contenuto[j] => j = directory[mthr[k].nome]
  BY <1>6
<1>17. UNCHANGED <<giu, avvii, acceso, partenza, mclient, elencoFile>>
  BY <1>1, <1>2
<1> QED
  BY <1>2, <1>3, <1>4, <1>6, <1>10, <1>15, <1>16, <1>17, PassoThread

\* The end of the server and of its threads.
LEMMA exitStep ==
  ASSUME MPutInv, NEW k \in Conn, exit(k)
  PROVE  MPutInv'
<1>1. /\ MPutTipi /\ FileOK /\ PartenzaMPut
      /\ acceso' = FALSE /\ mthr' = [j \in Conn |-> Morto]
      /\ UNCHANGED <<su, giu, fineSu, fileVars, avvii, partenza, mclient, elencoFile>>
      /\ DOMAIN giu = Conn
  BY DEF MPutInv, MPutTipi, exit
<1>2. UNCHANGED <<directory, contenuto, partenza, avvii, su, giu, mclient, elencoFile>>
  BY <1>1 DEF fileVars
<1>3. \A j \in Conn : mthr'[j] = Morto /\ ~Vivo(j)' /\ ~Riceve(j)'
  BY <1>1 DEF Morto, Vivo, StatiMPut, Riceve
<1>4. FileOK' /\ PartenzaMPut'
  BY <1>1, <1>2 DEF FileOK, PartenzaMPut
<1>5. IncontriMPut'
  BY <1>3 DEF IncontriMPut
<1>6. MPutTipi'
  <2>1. /\ mclient' \in [Conn -> {"prima", "file", "risposta", "dati", "fuori"}]
        /\ DOMAIN su' = Conn /\ DOMAIN giu' = Conn /\ DOMAIN elencoFile' = Conn /\ DOMAIN mthr' = Conn
        /\ avvii' \in Nat
    BY <1>1, <1>2 DEF MPutTipi
  <2>2. avvii' = 0 => directory' = [n \in Nomi |-> 0] /\ mthr' = [j \in Conn |-> Morto]
    BY <1>1, <1>2 DEF MPutTipi
  <2> QED
    BY <1>1, <1>3, <2>1, <2>2 DEF MPutTipi
<1> QED
  BY <1>3, <1>4, <1>5, <1>6 DEF MPutInv

\* The start of the server: no thread is alive.
LEMMA MPutFileServerConStep ==
  ASSUME MPutInv, MPutFileServerCon
  PROVE  MPutInv'
<1>1. /\ MPutTipi /\ FileOK /\ PartenzaMPut
      /\ ~acceso /\ acceso' = TRUE /\ avvii' = avvii + 1
      /\ UNCHANGED <<tcpVars, mclient, elencoFile, mthr>>
  BY DEF MPutInv, MPutFileServerCon
<1>2. \A j \in Conn : mthr'[j] = Morto /\ ~Vivo(j)' /\ ~Riceve(j)'
  BY <1>1 DEF MPutTipi, Morto, Vivo, StatiMPut, Riceve
<1>3. FileOK' /\ PartenzaMPut'
  <2>1. CASE avvii = 0
    <3>1. PICK p \in Presenti : Riempi(SetToSeq(DOMAIN p), p)
      BY <2>1 DEF MPutFileServerCon
    <3>2. partenza' = <<directory', contenuto'>>
      BY <2>1 DEF MPutFileServerCon
    <3> DEFINE N == DOMAIN p
    <3>3. N \in SUBSET Nomi /\ IsFiniteSet(N) /\ \A n \in N : Sequenza(p[n])
      BY MPutAssumption
    <3>4. Riempi(SetToSeq(N), p)
      BY <3>1
    <3> HIDE DEF N
    <3>5. FileOK'
      BY <3>3, <3>4, RiempiFile
    <3>6. DOMAIN partenza'[1] = Nomi /\ partenza'[1] = directory' /\ partenza'[2] = contenuto'
      BY <3>2, <3>5 DEF FileOK
    <3> QED
      BY <3>5, <3>6 DEF PartenzaMPut
  <2>2. CASE avvii # 0
    <3>1. UNCHANGED <<directory, contenuto, partenza>>
      BY <2>2 DEF MPutFileServerCon, fileVars
    <3> QED
      BY <1>1, <3>1 DEF FileOK, PartenzaMPut
  <2> QED
    BY <2>1, <2>2
<1>4. IncontriMPut'
  BY <1>2 DEF IncontriMPut
<1>5. MPutTipi'
  <2>1. /\ mclient' \in [Conn -> {"prima", "file", "risposta", "dati", "fuori"}]
        /\ DOMAIN su' = Conn /\ DOMAIN giu' = Conn /\ DOMAIN elencoFile' = Conn /\ DOMAIN mthr' = Conn
    BY <1>1 DEF MPutTipi, tcpVars
  <2>2. avvii' \in Nat /\ avvii' # 0
    BY <1>1 DEF MPutTipi
  <2> QED
    BY <1>1, <1>2, <2>1, <2>2 DEF MPutTipi
<1> QED
  BY <1>2, <1>3, <1>4, <1>5 DEF MPutInv

LEMMA MPutNextStep == MPutInv /\ MPutNext => MPutInv'
<1> SUFFICES ASSUME MPutInv, MPutNext PROVE MPutInv'
  OBVIOUS
<1>1. CASE MPutFileServerCon
  BY <1>1, MPutFileServerConStep
<1>2. CASE \E k \in Conn : \/ MPutFileClient(k) \/ offri(k) \/ leggi_risposta(k) \/ manda_byte(k)
                           \/ chiedi_file(k) \/ leggi_lunghezza(k) \/ leggi_byte(k) \/ exit(k)
  BY <1>2, MPutFileClientStep, offriStep, leggi_rispostaStep, manda_byteStep, chiedi_fileStep,
     leggi_lunghezzaStep, leggi_byteStep, exitStep
<1> QED
  BY <1>1, <1>2 DEF MPutNext

LEMMA MPutInizio == MPutInit => MPutInv
<1> SUFFICES ASSUME MPutInit PROVE MPutInv
  OBVIOUS
<1>1. /\ directory = [n \in Nomi |-> 0] /\ contenuto = <<>> /\ partenza = <<directory, contenuto>>
      /\ avvii = 0 /\ acceso = FALSE /\ mthr = [k \in Conn |-> Morto]
      /\ mclient = [k \in Conn |-> "prima"] /\ elencoFile = [k \in Conn |-> <<>>]
      /\ DOMAIN su = Conn /\ DOMAIN giu = Conn
  BY DEF MPutInit, TcpInit, FileSystemInit
<1>2. \A j \in Conn : mthr[j] = Morto /\ ~Vivo(j) /\ ~Riceve(j)
  BY <1>1 DEF Morto, Vivo, StatiMPut, Riceve
<1>3. FileOK
  BY <1>1, SequenzaVuota DEF FileOK
<1>4. PartenzaMPut /\ IncontriMPut
  BY <1>1, <1>2 DEF PartenzaMPut, IncontriMPut
<1>5. MPutTipi
  BY <1>1, <1>2 DEF MPutTipi
<1> QED
  BY <1>2, <1>3, <1>4, <1>5 DEF MPutInv

\* The server's old files are untouched, and a file received by one thread is
\* a user's.
LEMMA MPutInvIntatto == MPutInv => MPutIntatto
<1> SUFFICES ASSUME MPutInv PROVE MPutIntatto
  OBVIOUS
<1>1. \A n \in DOMAIN partenza[1] : partenza[1][n] # 0 =>
        directory[n] = partenza[1][n] /\ contenuto[directory[n]] = partenza[2][directory[n]]
  BY DEF MPutInv, PartenzaMPut
<1>2. ASSUME NEW k \in Conn, Ricevuto(k), mthr[k].cont = mthr[k].num, ~mthr[k].insieme
      PROVE  /\ directory[mthr[k].nome] = mthr[k].ino
             /\ \E d \in Cartelle : \E i \in DOMAIN d :
                  d[i].nome = mthr[k].nome /\ contenuto[mthr[k].ino] = d[i].blocchi
  <2>1. Vivo(k)
    BY <1>2 DEF Ricevuto, Vivo, StatiMPut
  <2>2. FileMPut(k)
    BY <2>1 DEF MPutInv
  <2>3. PICK x \in Offerti : x.nome = mthr[k].nome /\ contenuto[mthr[k].ino] = x.blocchi
    BY <1>2, <2>2 DEF FileMPut
  <2>4. \E d \in Cartelle : \E i \in DOMAIN d : x = d[i]
    BY DEF Offerti
  <2> QED
    BY <1>2, <2>2, <2>3, <2>4 DEF FileMPut
<1> QED
  BY <1>1, <1>2 DEF MPutIntatto

-----------------------------------------------------------------------------
(* Loops over an array.                                                    *)

\* Induction, with a set for the predicate.
LEMMA Induzione ==
  ASSUME NEW n \in Nat, NEW B, 0 \in B, \A k \in 1 .. n : k - 1 \in B => k \in B
  PROVE  \A k \in 0 .. n : k \in B
<1> DEFINE S == {k \in 0 .. n : k \notin B}
<1> SUFFICES ASSUME S # {} PROVE FALSE
  OBVIOUS
<1>1. S \subseteq Nat
  OBVIOUS
<1>2. PICK k \in S : \A j \in S : k <= j
  BY <1>1, MinimoEsiste
<1>3. k \in 1 .. n /\ k - 1 \in 0 .. n /\ k - 1 < k
  BY <1>2
<1> QED
  BY <1>2, <1>3

\* A set of numbers up to n has a greatest one, and the greatest of a prefix is
\* its last.
LEMMA MassimoDi ==
  ASSUME NEW n \in Nat, NEW s, s \subseteq 1 .. n, s # {}
  PROVE  Max(s) \in s /\ \A j \in s : Max(s) >= j
<1> DEFINE R == {n - k : k \in s}
<1>1. R \subseteq Nat /\ R # {}
  <2>1. \A k \in s : n - k \in Nat
    OBVIOUS
  <2> QED
    BY <2>1
<1>2. PICK d \in R : \A e \in R : d <= e
  BY <1>1, MinimoEsiste
<1>3. PICK k \in s : d = n - k
  BY <1>2
<1>4. \A j \in s : k >= j
  <2> SUFFICES ASSUME NEW j \in s PROVE k >= j
    OBVIOUS
  <2>1. n - j \in R
    OBVIOUS
  <2>2. n - k <= n - j
    BY <2>1, <1>2, <1>3
  <2> QED
    BY <2>2
<1> QED
  BY <1>4 DEF Max

LEMMA PrefissoDi ==
  ASSUME NEW n \in Nat, NEW k \in 1 .. n
  PROVE  /\ 1 .. k \in SUBSET (1 .. n) /\ 1 .. k # {}
         /\ Max(1 .. k) = k /\ (1 .. k) \ {k} = 1 .. (k - 1)
<1>1. 1 .. k \subseteq 1 .. n /\ k \in 1 .. k
  OBVIOUS
<1>2. Max(1 .. k) \in 1 .. k /\ Max(1 .. k) >= k
  BY <1>1, MassimoDi
<1> QED
  BY <1>1, <1>2

\* it folds g over the numbers up to n, and over every set of them.
Piega(it, A, base, n, g) ==
  /\ it[{}] = base
  /\ \A s \in SUBSET (1 .. n) : s # {} /\ it[s \ {Max(s)}] \in A =>
       it[s] = g[<<it[s \ {Max(s)}], Max(s)>>]

\* p is what the loop goes through, up to the value of the fold.
Passi(p, it, A, base, n, g) ==
  /\ p \in [0 .. n -> A] /\ p[0] = base /\ p[n] = it[1 .. n]
  /\ \A k \in 1 .. n : p[k] = g[<<p[k - 1], k>>]

\* A fold is defined: the function over the sets of indices that its
\* definition chooses exists.
LEMMA PiegaEsiste ==
  ASSUME NEW A, NEW base \in A, NEW n \in Nat, NEW g, g \in [A \X (1 .. n) -> A]
  PROVE  \E it \in [SUBSET (1 .. n) -> A] : Piega(it, A, base, n, g)
<1> DEFINE Vale(m) == \E it \in [SUBSET (1 .. m) -> A] : \A s \in SUBSET (1 .. m) :
                        it[s] = IF s = {} THEN base ELSE g[<<it[s \ {Max(s)}], Max(s)>>]
           B == {m \in 0 .. n : Vale(m)}
<1>1. Vale(0)
  <2> DEFINE it == [s \in SUBSET (1 .. 0) |-> base]
  <2>1. it \in [SUBSET (1 .. 0) -> A] /\ \A s \in SUBSET (1 .. 0) : s = {} /\ it[s] = base
    OBVIOUS
  <2> HIDE DEF it
  <2> QED
    BY <2>1
<1>2. ASSUME NEW m \in 0 .. n, m < n, Vale(m) PROVE Vale(m + 1)
  <2>1. PICK h \in [SUBSET (1 .. m) -> A] : \A s \in SUBSET (1 .. m) :
               h[s] = IF s = {} THEN base ELSE g[<<h[s \ {Max(s)}], Max(s)>>]
    BY <1>2
  <2> DEFINE it == [s \in SUBSET (1 .. (m + 1)) |->
                      IF m + 1 \in s THEN g[<<h[s \ {m + 1}], m + 1>>] ELSE h[s]]
  <2>2. \A s \in SUBSET (1 .. (m + 1)) : s \ {m + 1} \in SUBSET (1 .. m)
    BY <1>2
  <2>3. it \in [SUBSET (1 .. (m + 1)) -> A]
    <3>1. m + 1 \in 1 .. n
      BY <1>2
    <3>2. \A s \in SUBSET (1 .. (m + 1)) : m + 1 \notin s => s \in SUBSET (1 .. m)
      BY <1>2
    <3>3. \A s \in SUBSET (1 .. (m + 1)) : m + 1 \in s => g[<<h[s \ {m + 1}], m + 1>>] \in A
      BY <2>1, <2>2, <3>1
    <3> QED
      BY <2>1, <3>2, <3>3
  <2>4. ASSUME NEW s \in SUBSET (1 .. (m + 1))
        PROVE  it[s] = IF s = {} THEN base ELSE g[<<it[s \ {Max(s)}], Max(s)>>]
    <3>1. CASE m + 1 \in s
      <4>1. m + 1 \in Nat /\ s \subseteq 1 .. (m + 1)
        BY <1>2
      <4>2. Max(s) \in 1 .. (m + 1) /\ Max(s) >= m + 1
        BY <3>1, <4>1, MassimoDi
      <4>5. Max(s) = m + 1
        BY <4>1, <4>2
      <4>3. s \ {m + 1} \in SUBSET (1 .. (m + 1)) /\ m + 1 \notin s \ {m + 1}
        OBVIOUS
      <4>4. it[s \ {m + 1}] = h[s \ {m + 1}]
        BY <4>3
      <4> QED
        BY <3>1, <4>4, <4>5
    <3>2. CASE m + 1 \notin s
      <4>1. s \in SUBSET (1 .. m) /\ it[s] = h[s]
        BY <3>2, <1>2
      <4>2. s # {} => /\ s \ {Max(s)} \in SUBSET (1 .. (m + 1)) /\ m + 1 \notin s \ {Max(s)}
                      /\ it[s \ {Max(s)}] = h[s \ {Max(s)}]
        BY <3>2
      <4> HIDE DEF it
      <4> QED
        BY <2>1, <4>1, <4>2
    <3> QED
      BY <3>1, <3>2
  <2> HIDE DEF it
  <2> QED
    BY <2>3, <2>4
<1>3. \A k \in 1 .. n : k - 1 \in B => k \in B
  <2> HIDE DEF Vale
  <2> SUFFICES ASSUME NEW k \in 1 .. n, k - 1 \in B PROVE k \in B
    OBVIOUS
  <2>1. k - 1 \in 0 .. n /\ k - 1 < n /\ (k - 1) + 1 = k /\ Vale(k - 1)
    OBVIOUS
  <2>2. Vale((k - 1) + 1)
    BY <2>1, <1>2
  <2> QED
    BY <2>1, <2>2
<1> HIDE DEF Vale
<1>4. Vale(n)
  <2>1. 0 \in B
    BY <1>1
  <2> HIDE DEF B
  <2>2. n \in B
    BY <1>3, <2>1, Induzione
  <2> QED
    BY <2>2 DEF B
<1> QED
  BY <1>4 DEF Vale, Piega

\* Such a function goes through the prefixes step by step, and stays in A.
LEMMA PiegaPassi ==
  ASSUME NEW A, NEW base \in A, NEW n \in Nat, NEW g, g \in [A \X (1 .. n) -> A],
         NEW it, Piega(it, A, base, n, g)
  PROVE  \E p : Passi(p, it, A, base, n, g)
<1> DEFINE p == [k \in 0 .. n |-> it[1 .. k]]
           B == {k \in 0 .. n : p[k] \in A}
<1>1. p[0] = base
  <2>1. 1 .. 0 = {}
    OBVIOUS
  <2> QED
    BY <2>1 DEF Piega
<1>2. ASSUME NEW k \in 1 .. n, p[k - 1] \in A
      PROVE  p[k] = g[<<p[k - 1], k>>] /\ p[k] \in A
  <2>1. /\ 1 .. k \in SUBSET (1 .. n) /\ 1 .. k # {}
        /\ Max(1 .. k) = k /\ (1 .. k) \ {k} = 1 .. (k - 1)
    BY PrefissoDi
  <2>2. p[k - 1] = it[1 .. (k - 1)] /\ p[k] = it[1 .. k]
    OBVIOUS
  <2>3. p[k] = g[<<p[k - 1], k>>]
    <3> HIDE DEF p
    <3> QED
      BY <1>2, <2>1, <2>2 DEF Piega
  <2> QED
    BY <1>2, <2>3
<1>3. p[n] = it[1 .. n]
  OBVIOUS
<1> HIDE DEF p
<1>4. ASSUME NEW k \in 1 .. n, k - 1 \in B PROVE k \in B
  <2>1. p[k - 1] \in A /\ k \in 0 .. n
    BY <1>4
  <2>2. p[k] \in A
    BY <1>2, <2>1
  <2> QED
    BY <2>1, <2>2
<1>5. \A k \in 0 .. n : p[k] \in A
  <2>1. 0 \in B
    BY <1>1
  <2> HIDE DEF B
  <2>2. \A k \in 0 .. n : k \in B
    BY <1>4, <2>1, Induzione
  <2> QED
    BY <2>2 DEF B
<1>6. \A k \in 1 .. n : k - 1 \in 0 .. n
  OBVIOUS
<1>7. \A k \in 1 .. n : p[k] = g[<<p[k - 1], k>>]
  BY <1>2, <1>5, <1>6
<1>8. p \in [0 .. n -> A]
  BY <1>5 DEF p
<1> QED
  BY <1>1, <1>3, <1>7, <1>8 DEF Passi

\* p is what the loop over a row goes through.
CicloContaParola(p, A, base, n, t) ==
  /\ p \in [0 .. n -> A] /\ p[0] = base /\ p[n] = FoldLeft(ContaParola, base, t)
  /\ \A k \in 1 .. n : p[k] = ContaParola(p[k - 1], t[k])

LEMMA PassiConta ==
  ASSUME NEW A, NEW base \in A, NEW n \in Nat, NEW t, DOMAIN t = 1 .. n,
         \A a \in A, k \in 1 .. n : ContaParola(a, t[k]) \in A
  PROVE  \E p : CicloContaParola(p, A, base, n, t)
<1> DEFINE g == [x \in A \X (1 .. n) |-> ContaParola(x[1], t[x[2]])]
           D(f) == [s \in SUBSET (1 .. n) |->
                      IF s = {} THEN base ELSE ContaParola(f[s \ {Max(s)}], t[Max(s)])]
           it == CHOOSE f : f = D(f)
<1>1. \A a \in A, k \in 1 .. n : g[<<a, k>>] = ContaParola(a, t[k])
  OBVIOUS
<1>2. g \in [A \X (1 .. n) -> A]
  OBVIOUS
<1> HIDE DEF g
<1>3. \A s \in SUBSET (1 .. n) : s # {} =>
        Max(s) \in 1 .. n /\ s \ {Max(s)} \in SUBSET (1 .. n)
  BY MassimoDi
<1>4. PICK h \in [SUBSET (1 .. n) -> A] : Piega(h, A, base, n, g)
  BY <1>2, PiegaEsiste
<1>5. h = D(h)
  BY <1>1, <1>3, <1>4 DEF Piega
<1>6. it = D(it)
  <2> HIDE DEF D
  <2> QED
    BY <1>5
<1>7. FoldLeft(ContaParola, base, t) = it[1 .. n]
  BY Zenon DEF FoldLeft, MapThenFoldSet
<1> HIDE DEF it
<1>8. Piega(it, A, base, n, g)
  BY <1>1, <1>3, <1>6 DEF Piega
<1> HIDE DEF D
<1>9. PICK p : Passi(p, it, A, base, n, g)
  BY <1>2, <1>8, PiegaPassi
<1>10. ASSUME NEW k \in 1 .. n PROVE p[k] = ContaParola(p[k - 1], t[k])
  <2>1. k - 1 \in 0 .. n
    OBVIOUS
  <2>2. p[k] = g[<<p[k - 1], k>>] /\ p[k - 1] \in A
    BY <1>9, <2>1 DEF Passi
  <2> QED
    BY <1>1, <2>2
<1> QED
  BY <1>7, <1>9, <1>10 DEF Passi, CicloContaParola

\* The places, up to the k-th, where a word of a row meets a blank.
Parole(riga, k) == {j \in 2 .. k : riga[j] = Spazio /\ riga[j - 1] # Spazio}

LEMMA ParoleFinite ==
  ASSUME NEW riga, NEW k \in Nat
  PROVE  IsFiniteSet(Parole(riga, k)) /\ Cardinality(Parole(riga, k)) \in Nat
<1>1. IsFiniteSet(2 .. k)
  BY FS_Interval
<1>2. Parole(riga, k) \subseteq 2 .. k
  BY DEF Parole
<1> QED
  BY <1>1, <1>2, FS_Subset, FS_CardinalityType

\* The next character adds its place, or none.
LEMMA ParoleAvanti ==
  ASSUME NEW riga, NEW k \in Nat, k >= 1
  PROVE  /\ Parole(riga, 1) = {}
         /\ Cardinality(Parole(riga, k + 1)) =
              Cardinality(Parole(riga, k)) + (IF riga[k + 1] = Spazio /\ riga[k] # Spazio THEN 1 ELSE 0)
<1>1. Parole(riga, 1) = {}
  BY DEF Parole
<1>2. IsFiniteSet(Parole(riga, k)) /\ Cardinality(Parole(riga, k)) \in Nat
  BY ParoleFinite
<1>3. k + 1 \notin Parole(riga, k)
  BY DEF Parole
<1>4. CASE riga[k + 1] = Spazio /\ riga[k] # Spazio
  <2>1. Parole(riga, k + 1) = Parole(riga, k) \cup {k + 1}
    <3>1. k + 1 \in 2 .. (k + 1) /\ (k + 1) - 1 = k
      OBVIOUS
    <3>2. \A j \in Int : j \in 2 .. (k + 1) <=> j \in 2 .. k \/ j = k + 1
      OBVIOUS
    <3> QED
      BY <1>4, <3>1, <3>2 DEF Parole
  <2>2. Cardinality(Parole(riga, k) \cup {k + 1}) = Cardinality(Parole(riga, k)) + 1
    BY <1>2, <1>3, FS_AddElement
  <2>3. Cardinality(Parole(riga, k + 1)) = Cardinality(Parole(riga, k)) + 1
    BY <2>1, <2>2
  <2> QED
    BY <1>1, <1>4, <2>3
<1>5. CASE ~(riga[k + 1] = Spazio /\ riga[k] # Spazio)
  <2>1. Parole(riga, k + 1) = Parole(riga, k)
    <3>1. (k + 1) - 1 = k
      OBVIOUS
    <3>2. \A j \in Int : j \in 2 .. (k + 1) <=> j \in 2 .. k \/ j = k + 1
      OBVIOUS
    <3> QED
      BY <1>5, <3>1, <3>2 DEF Parole
  <2>2. Cardinality(Parole(riga, k + 1)) = Cardinality(Parole(riga, k)) + 0
    BY <1>2, <2>1
  <2> QED
    BY <1>1, <1>5, <2>2
<1> QED
  BY <1>1, <1>4, <1>5

\* The loop counts them.
LEMMA ParoleContate ==
  ASSUME NEW riga, Sequenza(riga)
  PROVE  ParoleDi(riga) = Cardinality(Parole(riga, Len(riga)))
<1> DEFINE n == Len(riga)
           C == {riga[i] : i \in DOMAIN riga} \cup {Spazio}
           A == [prev : C, n : Nat]
           base == [prev |-> Spazio, n |-> 0]
<1>1. n \in Nat /\ DOMAIN riga = 1 .. n
  BY SequenzaTipo
<1>2. base \in A
  OBVIOUS
<1>3. \A a \in A, k \in 1 .. n : ContaParola(a, riga[k]) \in A
  BY <1>1 DEF ContaParola
<1> HIDE DEF A, base, n
<1>4. PICK p : CicloContaParola(p, A, base, n, riga)
  BY <1>1, <1>2, <1>3, PassiConta
<1>5. /\ p[0] = base /\ p[n] = FoldLeft(ContaParola, base, riga)
      /\ \A k \in 1 .. n : p[k] = ContaParola(p[k - 1], riga[k])
  BY <1>4 DEF CicloContaParola
<1> DEFINE B == {k \in 0 .. n : k = 0 \/ (p[k].prev = riga[k] /\ p[k].n = Cardinality(Parole(riga, k)))}
<1>6. p[0].prev = Spazio /\ p[0].n = 0
  BY <1>5 DEF base
<1>7. ASSUME NEW k \in 1 .. n, k - 1 \in B PROVE k \in B
  <2>1. /\ p[k].prev = riga[k]
        /\ p[k].n = p[k - 1].n + (IF riga[k] = Spazio /\ p[k - 1].prev # Spazio THEN 1 ELSE 0)
    <3> DEFINE w == p[k - 1].n + (IF riga[k] = Spazio /\ p[k - 1].prev # Spazio THEN 1 ELSE 0)
    <3>1. p[k] = [prev |-> riga[k], n |-> w]
      BY <1>5 DEF ContaParola
    <3> HIDE DEF w
    <3>2. p[k].prev = riga[k] /\ p[k].n = w
      BY <3>1
    <3> QED
      BY <3>2 DEF w
  <2>2. CASE k = 1
    <3>1. p[1].n = 0
      BY <1>6, <2>1, <2>2
    <3>2. Parole(riga, 1) = {}
      BY DEF Parole
    <3> QED
      BY <2>1, <2>2, <3>1, <3>2, FS_EmptySet
  <2>3. CASE k # 1
    <3> DEFINE h == k - 1
    <3>1. h \in Nat /\ h >= 1 /\ h + 1 = k /\ k \in 0 .. n /\ h # 0
      BY <1>1, <2>3
    <3>2. p[h].prev = riga[h] /\ p[h].n = Cardinality(Parole(riga, h))
      BY <1>7, <3>1
    <3>3. Cardinality(Parole(riga, h + 1)) =
            Cardinality(Parole(riga, h)) + (IF riga[h + 1] = Spazio /\ riga[h] # Spazio THEN 1 ELSE 0)
      BY <3>1, ParoleAvanti
    <3>4. p[k].n = Cardinality(Parole(riga, k))
      BY <2>1, <3>1, <3>2, <3>3
    <3> QED
      BY <2>1, <3>1, <3>4
  <2> QED
    BY <2>2, <2>3
<1>8. n \in B
  <2>1. 0 \in B
    BY <1>1
  <2> HIDE DEF B
  <2>2. \A k \in 0 .. n : k \in B
    BY <1>1, <1>7, <2>1, Induzione
  <2> QED
    BY <1>1, <2>2
<1>9. p[n].n = Cardinality(Parole(riga, n))
  <2>1. CASE n = 0
    <3>1. Parole(riga, 0) = {}
      BY DEF Parole
    <3> QED
      BY <1>6, <2>1, <3>1, FS_EmptySet
  <2>2. CASE n # 0
    BY <1>8, <2>2
  <2> QED
    BY <2>1, <2>2
<1> QED
  BY <1>5, <1>9 DEF ParoleDi, base, n

\* Hence what conta_righe answers about a file.
Conteggio(righe, soglia) ==
  Cardinality({k \in DOMAIN righe : ParoleDi(righe[k]) > soglia})

LEMMA ConteggioGiusto ==
  ASSUME NEW righe, \A k \in DOMAIN righe : Sequenza(righe[k]), NEW soglia
  PROVE  Conteggio(righe, soglia) =
           Cardinality({k \in DOMAIN righe : Cardinality(Parole(righe[k], Len(righe[k]))) > soglia})
<1>1. \A k \in DOMAIN righe : ParoleDi(righe[k]) = Cardinality(Parole(righe[k], Len(righe[k])))
  BY ParoleContate
<1>2. {k \in DOMAIN righe : ParoleDi(righe[k]) > soglia}
        = {k \in DOMAIN righe : Cardinality(Parole(righe[k], Len(righe[k]))) > soglia}
  BY <1>1
<1> QED
  BY <1>2 DEF Conteggio


-----------------------------------------------------------------------------
(* RemOp: conta_righe beside elimina_riga. *)

RigheTipate(s) == \A k \in DOMAIN s : Sequenza(s[k])

\* A file that is being counted is as the call found it, and nobody writes it:
\* no name of a temporary leads to it, and no rewriting is about to write it.
ContaOK(c) ==
  LET l == lavoro[c]
  IN  /\ l.sorgente \in 1 .. Len(contenuto) /\ contenuto[l.sorgente] = l.prima
      /\ \A g \in File : directory[Temporaneo(g)] # l.sorgente
      /\ \A t \in Lavoratori : lavoro[t].passo \in {"legge", "scrive"} => lavoro[t].tmp # l.sorgente

\* A rewriting that has met another is of a file on which two have met.
LavoroConto(t) == RigheTipate(lavoro[t].letto) /\ (lavoro[t].insieme => lavoro[t].file \in incontri)

ContoInv ==
  /\ programma # "swap"
  /\ \A i \in 1 .. Len(contenuto) : RigheTipate(contenuto[i])
  /\ \A t \in Lavoratori : InLavoro(t) => LavoroConto(t)
  /\ \A c \in Lavoratori : lavoro[c].passo = "conta" =>
       programma = "remop" /\ (lavoro[c].file \notin incontri => ContaOK(c))
  /\ ContoCoerente

\* What the others must leave alone for a count to go on.
LEMMA ContaResta ==
  ASSUME NEW c, ContaOK(c), lavoro'[c] = lavoro[c], programma' = programma,
         Len(contenuto) \in Nat, Len(contenuto') \in Nat, Len(contenuto') >= Len(contenuto),
         contenuto'[lavoro[c].sorgente] = contenuto[lavoro[c].sorgente],
         \A g \in File : directory'[Temporaneo(g)] # lavoro[c].sorgente,
         \A t \in Lavoratori : lavoro'[t].passo \in {"legge", "scrive"} => lavoro'[t].tmp # lavoro[c].sorgente
  PROVE  ContaOK(c)'
<1>1. \A g \in File : Temporaneo(g)' = Temporaneo(g)
  BY DEF Temporaneo
<1>2. lavoro[c].sorgente \in 1 .. Len(contenuto')
  BY DEF ContaOK
<1>3. contenuto'[lavoro[c].sorgente] = lavoro[c].prima
  BY DEF ContaOK
<1> QED
  BY <1>1, <1>2, <1>3 DEF ContaOK

\* A step of a rewriting: it writes its temporary, once it has read, and moves
\* no name to a temporary's.
PassoConto(t) ==
  /\ programma' = programma /\ incontri' = incontri /\ letture' = letture
  /\ InLavoro(t) /\ \A s \in Lavoratori \ {t} : lavoro'[s] = lavoro[s]
  /\ lavoro'[t].passo \in Fasi
  /\ lavoro'[t].file = lavoro[t].file /\ lavoro'[t].insieme = lavoro[t].insieme
  /\ lavoro'[t].passo \in {"legge", "scrive"} =>
       lavoro[t].passo \in {"legge", "scrive"} /\ lavoro'[t].tmp = lavoro[t].tmp
  /\ RigheTipate(lavoro'[t].letto)
  /\ Len(contenuto') = Len(contenuto)
  /\ \A i \in 1 .. Len(contenuto) : RigheTipate(contenuto'[i])
  /\ \A i \in 1 .. Len(contenuto) : contenuto'[i] # contenuto[i] => lavoro[t].passo = "scrive" /\ i = lavoro[t].tmp
  /\ \A g \in File : directory'[Temporaneo(g)] \in {0, directory[Temporaneo(g)]}

LEMMA PassoContoStep ==
  ASSUME RisInv, ContoInv, NEW t \in Lavoratori, PassoConto(t)
  PROVE  ContoInv'
<1>1. Len(contenuto) \in Nat
  BY SequenzaTipo DEF RisInv, FileOK
<1>2. programma' # "swap" /\ \A i \in 1 .. Len(contenuto') : RigheTipate(contenuto'[i])
  BY DEF ContoInv, PassoConto
<1>3. ASSUME NEW s \in Lavoratori, InLavoro(s)' PROVE LavoroConto(s)'
  <2>1. InLavoro(s)
    BY <1>3 DEF InLavoro, PassoConto
  <2>2. LavoroConto(s)
    BY <2>1 DEF ContoInv
  <2> QED
    BY <2>2 DEF LavoroConto, PassoConto, RigheTipate
<1>4. ASSUME NEW c \in Lavoratori, lavoro'[c].passo = "conta"
      PROVE  programma' = "remop" /\ (lavoro'[c].file \notin incontri' => ContaOK(c)')
  <2>1. c # t
    BY <1>4 DEF PassoConto, Fasi
  <2>2. lavoro'[c] = lavoro[c] /\ lavoro[c].passo = "conta"
    BY <1>4, <2>1 DEF PassoConto
  <2>3. programma' = "remop"
    BY <2>2 DEF ContoInv, PassoConto
  <2>4. ASSUME lavoro'[c].file \notin incontri' PROVE ContaOK(c)'
    <3>1. ContaOK(c)
      BY <2>2, <2>4 DEF ContoInv, PassoConto
    <3> DEFINE i == lavoro[c].sorgente
    <3>2. /\ i \in 1 .. Len(contenuto) /\ \A g \in File : directory[Temporaneo(g)] # i
          /\ \A s \in Lavoratori : lavoro[s].passo \in {"legge", "scrive"} => lavoro[s].tmp # i
      BY <3>1 DEF ContaOK
    <3>3. i # 0
      BY <1>1, <3>2
    <3> HIDE DEF i
    <3>4. contenuto'[i] = contenuto[i]
      BY <3>2 DEF PassoConto
    <3>5. \A g \in File : directory'[Temporaneo(g)] # i
      BY <3>2, <3>3 DEF PassoConto
    <3>6. \A s \in Lavoratori : lavoro'[s].passo \in {"legge", "scrive"} => lavoro'[s].tmp # i
      BY <3>2 DEF PassoConto
    <3>7. programma' = programma /\ Len(contenuto') = Len(contenuto)
      BY DEF PassoConto
    <3> QED
      BY <1>1, <2>2, <3>1, <3>4, <3>5, <3>6, <3>7, ContaResta DEF i
  <2> QED
    BY <2>3, <2>4
<1>5. ContoCoerente'
  BY DEF ContoInv, ContoCoerente, PassoConto
<1> QED
  BY <1>2, <1>3, <1>4, <1>5 DEF ContoInv

\* What elimina_riga writes are rows, and what is written over rows stays rows.
LEMMA RiscritteTipate ==
  ASSUME NEW l, programma = "remop", Sequenza(l.letto), RigheTipate(l.letto)
  PROVE  RigheTipate(Riscritte(l))
<1> DEFINE r == l.letto
<1>1. CASE l.chiede \in DOMAIN r
  <2> DEFINE i == l.chiede
  <2>1. Riscritte(l) = RemoveAt(r, i)
    BY <1>1 DEF Riscritte
  <2>2. RemoveAt(r, i) = [k \in 1 .. Len(r) - 1 |-> r[IF i \in 1 .. k THEN k + 1 ELSE k]]
    BY <1>1, TogliGiusto
  <2>3. Len(r) \in Nat /\ DOMAIN r = 1 .. Len(r)
    BY SequenzaTipo
  <2>4. \A k \in 1 .. Len(r) - 1 : (IF i \in 1 .. k THEN k + 1 ELSE k) \in DOMAIN r
    BY <2>3
  <2> HIDE DEF r, i
  <2>5. \A k \in 1 .. Len(r) - 1 : Sequenza(r[IF i \in 1 .. k THEN k + 1 ELSE k])
    BY <2>4 DEF RigheTipate, r
  <2> QED
    BY <2>1, <2>2, <2>5 DEF RigheTipate
<1>2. CASE l.chiede \notin DOMAIN r
  BY <1>2 DEF Riscritte
<1> QED
  BY <1>1, <1>2

LEMMA ScrittoTipate ==
  ASSUME NEW i, Sequenza(contenuto[i]), RigheTipate(contenuto[i]), NEW w, Sequenza(w), RigheTipate(w)
  PROVE  RigheTipate(Scritto(i, 1, w))
<1> DEFINE v == contenuto[i]
           n == Len(w)
           m == IF Len(v) > n THEN Len(v) ELSE n
<1>1. Len(v) \in Nat /\ DOMAIN v = 1 .. Len(v) /\ n \in Nat /\ DOMAIN w = 1 .. n
  BY SequenzaTipo
<1>2. 1 + n - 1 = n
  BY <1>1
<1>3. Scritto(i, 1, w) = [j \in 1 .. m |-> IF j >= 1 /\ j <= n THEN w[j - 1 + 1]
                                           ELSE IF j \in DOMAIN v THEN v[j] ELSE "buco"]
  BY <1>2 DEF Scritto
<1>4. ASSUME NEW j \in 1 .. m
      PROVE  Sequenza(IF j >= 1 /\ j <= n THEN w[j - 1 + 1] ELSE IF j \in DOMAIN v THEN v[j] ELSE "buco")
  <2>1. CASE j <= n
    <3>1. j - 1 + 1 = j /\ j \in DOMAIN w /\ j >= 1
      BY <1>1, <2>1
    <3> QED
      BY <2>1, <3>1 DEF RigheTipate
  <2>2. CASE ~(j <= n)
    <3>1. j \in DOMAIN v
      BY <1>1, <2>2
    <3> QED
      BY <2>2, <3>1 DEF RigheTipate
  <2> QED
    BY <2>1, <2>2
<1> HIDE DEF m, v, n
<1> QED
  BY <1>3, <1>4 DEF RigheTipate

\* Every step of a rewriting is one.
LEMMA RiscrivePasso ==
  ASSUME RisInv, ContoInv, NEW t \in Lavoratori, Riscrive(t), incontri' = incontri, letture' = letture
  PROVE  PassoConto(t)
<1> DEFINE l == lavoro[t]
           f == lavoro[t].file
           T == Temporaneo(lavoro[t].file)
<1>1. InLavoro(t) /\ programma' = programma
  BY DEF Riscrive, leggi, rileggi, chiudi, cancella, rinomina, togli, Passo, InLavoro, Fasi
<1>2. /\ LavoroOK(t) /\ FileOK /\ f \in File /\ f \in Nomi /\ T \in Nomi /\ f # T /\ Len(contenuto) \in Nat
      /\ programma = "remop" /\ LavoroConto(t)
  BY <1>1, AlLavoro DEF ContoInv
<1>3. /\ l.passo \notin {"rilegge", "toglie"} /\ l.sorgente \in 1 .. Len(contenuto) /\ l.tmp \in 1 .. Len(contenuto)
      /\ Sequenza(l.letto)
  BY <1>2 DEF LavoroOK
<1>4. \A g \in File : Temporaneo(g) \in Nomi /\ f # Temporaneo(g) /\ (Temporaneo(g) = T => g = f)
  BY <1>2, NomiTemporanei
\* What is left to show, once it is known where the thread goes.
<1>5. ASSUME NEW p \in Fasi, NEW c, NEW r, Avanza(t, p, c, r), RigheTipate(r), p # "legge",
             p = "scrive" => l.passo = "legge",
             Len(contenuto') = Len(contenuto),
             \A i \in 1 .. Len(contenuto) : RigheTipate(contenuto'[i]),
             \A i \in 1 .. Len(contenuto) : contenuto'[i] # contenuto[i] => l.passo = "scrive" /\ i = l.tmp,
             \A g \in File : directory'[Temporaneo(g)] \in {0, directory[Temporaneo(g)]}
      PROVE  PassoConto(t)
  <2>1. /\ \A s \in Lavoratori \ {t} : lavoro'[s] = lavoro[s]
        /\ Avanzato(l, lavoro'[t], p, c, r)
    BY <1>1, <1>5, AvanzaTipo
  <2>2. /\ lavoro'[t].passo = p /\ lavoro'[t].letto = r /\ lavoro'[t].tmp = l.tmp
        /\ lavoro'[t].file = l.file /\ lavoro'[t].insieme = l.insieme
    BY <2>1 DEF Avanzato
  <2> QED
    BY <1>1, <1>5, <2>1, <2>2 DEF PassoConto
<1>6. \A i \in 1 .. Len(contenuto) : RigheTipate(contenuto[i])
  BY DEF ContoInv
<1>7. CASE leggi(t)
  <2> DEFINE r == contenuto[l.sorgente]
  <2>1. /\ l.passo = "legge" /\ UNCHANGED <<directory, contenuto>>
        /\ lavoro' = [lavoro EXCEPT ![t].passo = "scrive", ![t].cache = r, ![t].letto = r]
    BY <1>2, <1>7 DEF leggi, fileVars
  <2>2. DOMAIN lavoro = Lavoratori
    BY DEF RisInv
  <2>3. Avanza(t, "scrive", r, r)
    BY <2>1, <2>2 DEF Avanza
  <2>4. RigheTipate(r)
    BY <1>3, <1>6
  <2>5. "scrive" \in Fasi
    BY DEF Fasi
  <2> HIDE DEF r
  <2> QED
    BY <1>5, <1>6, <2>1, <2>3, <2>4, <2>5
<1>8. ASSUME NEW p \in Fasi, lavoro' = [lavoro EXCEPT ![t].passo = p]
      PROVE  Avanza(t, p, l.cache, l.letto) /\ RigheTipate(l.letto)
  BY <1>1, <1>2, <1>8, PassoAvanza DEF LavoroConto
<1>9. CASE chiudi(t)
  <2> DEFINE w == Riscritte(lavoro[t])
  <2>1. /\ l.passo = "scrive" /\ lavoro' = [lavoro EXCEPT ![t].passo = "cancella"] /\ scrivi(l.tmp, 1, w)
        /\ "cancella" \in Fasi
    BY <1>9 DEF chiudi, Passo, Fasi
  <2>2. Sequenza(w) /\ RigheTipate(w)
    BY <1>2, <1>3, RiscritteSequenza, RiscritteTipate DEF LavoroConto
  <2>3. /\ directory' = directory /\ Len(contenuto') = Len(contenuto) /\ contenuto'[l.tmp] = Scritto(l.tmp, 1, w)
        /\ \A j \in 1 .. Len(contenuto) \ {l.tmp} : contenuto'[j] = contenuto[j]
    <3> DEFINE i == l.tmp
    <3>1. 1 \in Nat \ {0} /\ i \in 1 .. Len(contenuto) /\ FileOK /\ Sequenza(w) /\ scrivi(i, 1, w)
      BY <1>2, <1>3, <2>1, <2>2
    <3> HIDE DEF w, i
    <3>2. /\ directory' = directory /\ Len(contenuto') = Len(contenuto) /\ contenuto'[i] = Scritto(i, 1, w)
          /\ \A j \in 1 .. Len(contenuto) \ {i} : contenuto'[j] = contenuto[j]
      BY <3>1, ScriviFile
    <3> QED
      BY <3>2 DEF i
  <2>4. RigheTipate(Scritto(l.tmp, 1, w))
    BY <1>2, <1>3, <1>6, <2>2, ScrittoTipate DEF FileOK
  <2> QED
    BY <1>5, <1>6, <1>8, <2>1, <2>3, <2>4
<1>10. CASE cancella(t)
  <2>1. /\ l.passo = "cancella" /\ lavoro' = [lavoro EXCEPT ![t].passo = "rinomina"] /\ delete(f)
        /\ "rinomina" \in Fasi
    BY <1>10 DEF cancella, Passo, Fasi
  <2>2. contenuto' = contenuto /\ \A m \in Nomi : directory'[m] = IF m = f THEN 0 ELSE directory[m]
    BY <1>2, <2>1, CancellaFile
  <2>3. \A g \in File : directory'[Temporaneo(g)] \in {0, directory[Temporaneo(g)]}
    BY <1>4, <2>2
  <2> QED
    BY <1>5, <1>6, <1>8, <2>1, <2>2, <2>3
<1>11. CASE rinomina(t)
  <2>1. /\ l.passo = "rinomina" /\ lavoro' = [lavoro EXCEPT ![t].passo = "risponde"] /\ renameTo(T, f)
        /\ "risponde" \in Fasi
    BY <1>2, <1>11 DEF rinomina, Passo, Fasi
  <2>2. /\ contenuto' = contenuto
        /\ \A q \in Nomi : directory'[q] = IF directory[T] = 0 THEN directory[q]
                                           ELSE IF q = f THEN directory[T]
                                           ELSE IF q = T THEN 0 ELSE directory[q]
    BY <1>2, <2>1, RinominaFile
  <2>3. \A g \in File : directory'[Temporaneo(g)] \in {0, directory[Temporaneo(g)]}
    BY <1>4, <2>2
  <2> QED
    BY <1>5, <1>6, <1>8, <2>1, <2>2, <2>3
<1>12. ~rileggi(t) /\ ~togli(t)
  BY <1>3 DEF rileggi, togli, Passo
<1> QED
  BY <1>7, <1>9, <1>10, <1>11, <1>12 DEF Riscrive

\* A call that ends, or that begins to count.
LEMMA FermoConto ==
  ASSUME RisInv, ContoInv, NEW c \in Lavoratori, UNCHANGED <<fileVars, programma, incontri>>,
         \A s \in Lavoratori \ {c} : lavoro'[s] = lavoro[s], lavoro'[c].passo \in {"ozio", "conta"},
         lavoro'[c].passo = "conta" => programma = "remop" /\ (lavoro'[c].file \notin incontri => ContaOK(c)'),
         ContoCoerente'
  PROVE  ContoInv'
<1>1. Len(contenuto) \in Nat /\ directory' = directory /\ contenuto' = contenuto /\ programma' = programma
      /\ incontri' = incontri
  BY SequenzaTipo DEF RisInv, FileOK, fileVars
<1>2. ASSUME NEW s \in Lavoratori, InLavoro(s)' PROVE LavoroConto(s)'
  <2>1. s # c
    BY <1>2 DEF InLavoro, Fasi
  <2>2. lavoro'[s] = lavoro[s] /\ LavoroConto(s)
    BY <1>2, <2>1 DEF InLavoro, ContoInv
  <2> QED
    BY <1>1, <2>2 DEF LavoroConto, RigheTipate
<1>3. ASSUME NEW d \in Lavoratori, lavoro'[d].passo = "conta"
      PROVE  programma' = "remop" /\ (lavoro'[d].file \notin incontri' => ContaOK(d)')
  <2>1. CASE d = c
    BY <1>1, <1>3, <2>1
  <2>2. CASE d # c
    <3>1. lavoro'[d] = lavoro[d] /\ lavoro[d].passo = "conta"
      BY <1>3, <2>2
    <3>2. programma = "remop" /\ (lavoro[d].file \notin incontri => ContaOK(d))
      BY <3>1 DEF ContoInv
    <3>3. ASSUME ContaOK(d) PROVE ContaOK(d)'
      <4>1. \A g \in File : directory'[Temporaneo(g)] # lavoro[d].sorgente
        BY <1>1, <3>3 DEF ContaOK
      <4>2. \A t \in Lavoratori : lavoro'[t].passo \in {"legge", "scrive"} => lavoro'[t].tmp # lavoro[d].sorgente
        BY <3>3 DEF ContaOK
      <4>3. Len(contenuto') \in Nat /\ Len(contenuto') >= Len(contenuto)
        BY <1>1
      <4> QED
        BY <1>1, <3>1, <3>3, <4>1, <4>2, <4>3, ContaResta
    <3> QED
      BY <1>1, <3>1, <3>2, <3>3
  <2> QED
    BY <2>1, <2>2
<1>4. programma' # "swap" /\ \A i \in 1 .. Len(contenuto') : RigheTipate(contenuto'[i])
  BY <1>1 DEF ContoInv
<1> QED
  BY <1>2, <1>3, <1>4 DEF ContoInv

LEMMA conta_righeConto ==
  ASSUME RisInv, ContoInv, NEW c \in ClientiRmi, conta_righe(c)
  PROVE  ContoInv'
<1>1. /\ c \in Lavoratori /\ programma = "remop" /\ UNCHANGED <<fileVars, programma, letture, incontri>>
      /\ DOMAIN lavoro = Lavoratori /\ FileOK
  BY RemOpAssumption DEF conta_righe, RisInv
<1>2. PICK f \in File, w \in Soglie :
        lavoro' = [lavoro EXCEPT ![c] = IF esiste(f)
                    THEN [passo |-> "conta", file |-> f, soglia |-> w, sorgente |-> directory[f],
                          prima |-> Righe(f), insieme |-> FALSE]
                    ELSE Ozio]
  BY DEF conta_righe
<1>3. \A s \in Lavoratori \ {c} : lavoro'[s] = lavoro[s]
  BY <1>1, <1>2
<1>4. ContoCoerente'
  BY <1>1 DEF ContoInv, ContoCoerente
<1>5. CASE ~esiste(f)
  <2>1. lavoro'[c] = Ozio
    BY <1>1, <1>2, <1>5
  <2>2. lavoro'[c].passo = "ozio"
    BY <2>1 DEF Ozio
  <2> QED
    BY <1>1, <1>3, <1>4, <2>2, FermoConto
<1>6. CASE esiste(f)
  <2> DEFINE i == directory[f]
  <2>1. lavoro'[c] = [passo |-> "conta", file |-> f, soglia |-> w, sorgente |-> i,
                      prima |-> contenuto[i], insieme |-> FALSE]
    BY <1>1, <1>2, <1>6 DEF Righe
  <2>2. f \in Nomi /\ \A g \in File : Temporaneo(g) \in Nomi /\ f # Temporaneo(g)
    BY <1>1, NomiTemporanei
  <2>3. Len(contenuto) \in Nat /\ i \in 1 .. Len(contenuto) /\ i # 0
    BY <1>1, <1>6, <2>2, SequenzaTipo DEF FileOK, esiste
  <2>4. \A g \in File : directory[Temporaneo(g)] # i
    BY <1>1, <2>2, <2>3 DEF FileOK
  <2>5. ASSUME f \notin incontri, NEW t \in Lavoratori, lavoro[t].passo \in {"legge", "scrive"}
        PROVE  lavoro[t].tmp # i
    <3>1. InLavoro(t)
      BY <2>5 DEF InLavoro, Fasi
    <3>2. LavoroOK(t) /\ LavoroConto(t) /\ (~lavoro[t].insieme => SoloOK(t)) /\ lavoro[t].file \in File
      BY <3>1, AlLavoro DEF ContoInv
    <3>3. CASE lavoro[t].file = f
      <4>1. SoloOK(t)
        BY <2>5, <3>2, <3>3 DEF LavoroConto
      <4>2. directory[Temporaneo(f)] = lavoro[t].tmp
        BY <2>5, <3>3, <4>1 DEF SoloOK
      <4> QED
        BY <2>4, <4>2
    <3>4. CASE lavoro[t].file # f
      BY <1>1, <2>2, <3>2, <3>4 DEF LavoroOK
    <3> QED
      BY <3>3, <3>4
  <2>6. directory' = directory /\ contenuto' = contenuto /\ \A g \in File : Temporaneo(g)' = Temporaneo(g)
    BY <1>1 DEF fileVars, Temporaneo
  <2> HIDE DEF i
  <2>7. lavoro'[c].passo = "conta" /\ lavoro'[c].file = f /\ lavoro'[c].sorgente = i /\ lavoro'[c].prima = contenuto[i]
    BY <2>1
  <2>8. f \notin incontri => ContaOK(c)'
    <3> SUFFICES ASSUME f \notin incontri PROVE ContaOK(c)'
      OBVIOUS
    <3>1. \A t \in Lavoratori : lavoro'[t].passo \in {"legge", "scrive"} => lavoro'[t].tmp # i
      BY <1>3, <2>5, <2>7
    <3> QED
      BY <2>3, <2>4, <2>6, <2>7, <3>1 DEF ContaOK
  <2> QED
    BY <1>1, <1>3, <1>4, <2>7, <2>8, FermoConto
<1> QED
  BY <1>5, <1>6

\* The answer is the count of what was found.
LEMMA contaConto ==
  ASSUME RisInv, ContoInv, NEW c \in ClientiRmi, conta(c)
  PROVE  ContoInv'
<1> DEFINE l == lavoro[c]
           ret == Cardinality({k \in DOMAIN contenuto[l.sorgente] :
                                 ParoleDi(contenuto[l.sorgente][k]) > l.soglia})
           r == [file |-> l.file, righe |-> l.prima, soglia |-> l.soglia, ret |-> ret]
<1>1. /\ c \in Lavoratori /\ l.passo = "conta" /\ UNCHANGED <<fileVars, programma, incontri>>
      /\ lavoro' = [lavoro EXCEPT ![c] = Ozio] /\ letture' = letture \cup {r}
      /\ DOMAIN lavoro = Lavoratori
  BY RemOpAssumption DEF conta, finito, RisInv
<1>2. /\ \A s \in Lavoratori \ {c} : lavoro'[s] = lavoro[s]
      /\ lavoro'[c].passo = "ozio"
  BY <1>1 DEF Ozio
<1>3. ASSUME l.file \notin incontri
      PROVE  ret = Cardinality({k \in DOMAIN l.prima :
                     Cardinality(Parole(l.prima[k], Len(l.prima[k]))) > l.soglia})
  <2>1. ContaOK(c)
    BY <1>1, <1>3 DEF ContoInv
  <2>2. contenuto[l.sorgente] = l.prima /\ RigheTipate(l.prima)
    BY <2>1 DEF ContaOK, ContoInv
  <2>3. ret = Conteggio(l.prima, l.soglia)
    BY <2>2 DEF Conteggio
  <2> DEFINE p == l.prima
             g == l.soglia
  <2> HIDE DEF ret, l
  <2>4. Conteggio(p, g) = Cardinality({k \in DOMAIN p : Cardinality(Parole(p[k], Len(p[k]))) > g})
    <3>1. \A k \in DOMAIN p : Sequenza(p[k])
      BY <2>2 DEF RigheTipate
    <3> HIDE DEF p, g
    <3> QED
      BY <3>1, ConteggioGiusto
  <2> QED
    BY <2>3, <2>4
<1>4. r.file = l.file /\ r.righe = l.prima /\ r.soglia = l.soglia /\ r.ret = ret
  <2> HIDE DEF l, ret
  <2> QED
    OBVIOUS
<1> HIDE DEF r, ret, l
<1>5. ContoCoerente'
  <2> SUFFICES ASSUME NEW x \in letture', x.file \notin incontri
               PROVE  x.ret = Cardinality({k \in DOMAIN x.righe :
                                Cardinality(Parole(x.righe[k], Len(x.righe[k]))) > x.soglia})
    BY <1>1 DEF ContoCoerente, Parole
  <2>1. CASE x \in letture
    BY <2>1 DEF ContoInv, ContoCoerente, Parole
  <2>2. CASE x = r
    BY <1>3, <1>4, <2>2
  <2> QED
    BY <1>1, <2>1, <2>2
<1> QED
  BY <1>1, <1>2, <1>5, FermoConto

\* A deletion begins: its temporary is nobody's file, and whoever it meets is
\* recorded.
LEMMA elimina_rigaConto ==
  ASSUME RisInv, ContoInv, NEW c \in ClientiRmi, elimina_riga(c)
  PROVE  ContoInv'
<1>1. c \in Lavoratori /\ programma = "remop" /\ letture' = letture /\ FileOK /\ Len(contenuto) \in Nat
      /\ DOMAIN lavoro = Lavoratori
  BY RemOpAssumption, SequenzaTipo DEF elimina_riga, RisInv, FileOK
<1>2. PICK f \in File, n \in RigheChieste :
        IF esiste(f)
        THEN apri(c, f, n, c) /\ incontri' = incontri \cup {x \in {f} : Attivi(c, x) # {}}
        ELSE UNCHANGED <<riscritturaVars, incontri>>
  BY DEF elimina_riga
<1>3. CASE ~esiste(f)
  <2>1. UNCHANGED <<programma, lavoro, directory, contenuto, letture, incontri>>
    BY <1>1, <1>2, <1>3 DEF riscritturaVars, fileVars
  <2> QED
    BY <2>1 DEF ContoInv, ContoCoerente, InLavoro, LavoroConto, ContaOK, RigheTipate, Temporaneo
<1>4. CASE esiste(f)
  <2> DEFINE T == Temporaneo(f)
             A == Attivi(c, f)
  <2>1. /\ lavoro[c] = Ozio /\ crea(T) /\ programma' = programma
        /\ lavoro' = [s \in Lavoratori |->
             IF s = c THEN [passo |-> "legge", file |-> f, chiede |-> n, chi |-> c,
                            sorgente |-> directory[f], tmp |-> directory'[T], letto |-> <<>>,
                            cache |-> <<>>, prima |-> Righe(f), insieme |-> A # {}]
             ELSE IF s \in A THEN [lavoro[s] EXCEPT !.insieme = TRUE] ELSE lavoro[s]]
        /\ incontri' = incontri \cup {x \in {f} : Attivi(c, x) # {}}
    BY <1>2, <1>4 DEF apri
  <2>2. \A g \in File : Temporaneo(g) \in Nomi /\ (Temporaneo(g) = T => g = f)
    BY <1>1, NomiTemporanei
  <2>3. /\ FileOK' /\ directory'[T] \in 1 .. Len(contenuto') /\ contenuto'[directory'[T]] = <<>>
        /\ directory'[T] = IF directory[T] # 0 THEN directory[T] ELSE Len(contenuto) + 1
        /\ \A m \in Nomi \ {T} : directory'[m] = directory[m]
        /\ Len(contenuto') >= Len(contenuto)
        /\ \A i \in 1 .. Len(contenuto) : i # directory[T] => contenuto'[i] = contenuto[i]
    BY <1>1, <2>1, <2>2, CreaFile
  <2>4. Len(contenuto') \in Nat
    BY <2>3, SequenzaTipo DEF FileOK
  <2>5. incontri \subseteq incontri' /\ (A # {} => f \in incontri')
    BY <2>1
  <2>6. \A s \in A : InLavoro(s) /\ lavoro[s].file = f
    BY <1>1 DEF RisInv, Attivi, InLavoro, Fasi, Ozio
  <2> HIDE DEF A
  <2>7. ASSUME NEW i \in 1 .. Len(contenuto') PROVE RigheTipate(contenuto'[i])
    <3>1. RigheTipate(<<>>)
      BY DEF RigheTipate
    <3>2. CASE i = directory'[T]
      BY <2>3, <3>1, <3>2
    <3>3. CASE i # directory'[T]
      <4>1. i \in 1 .. Len(contenuto)
        <5>1. crea(T) /\ Sequenza(contenuto)
          BY <1>1, <2>1 DEF FileOK
        <5>2. Len(contenuto') <= Len(contenuto) + 1
          <6>1. CASE directory[T] # 0
            <7>1. contenuto' = [contenuto EXCEPT ![directory[T]] = <<>>]
              BY <5>1, <6>1 DEF crea, esiste
            <7>2. DOMAIN contenuto' = 1 .. Len(contenuto)
              BY <5>1, <7>1, SequenzaTipo
            <7>3. DOMAIN contenuto' = 1 .. Len(contenuto')
              BY <2>3, SequenzaTipo DEF FileOK
            <7> QED
              BY <1>1, <2>4, <7>2, <7>3
          <6>2. CASE directory[T] = 0
            <7>1. contenuto' = Append(contenuto, <<>>)
              BY <5>1, <6>2 DEF crea, esiste
            <7>2. Len(contenuto') = Len(contenuto) + 1
              BY <5>1, <7>1, SequenzaAppend
            <7> QED
              BY <1>1, <7>2
          <6> QED
            BY <6>1, <6>2
        <5>3. CASE directory[T] # 0
          <6>1. contenuto' = [contenuto EXCEPT ![directory[T]] = <<>>]
            BY <5>1, <5>3 DEF crea, esiste
          <6>2. DOMAIN contenuto' = 1 .. Len(contenuto)
            BY <5>1, <6>1, SequenzaTipo
          <6>3. DOMAIN contenuto' = 1 .. Len(contenuto')
            BY <2>3, SequenzaTipo DEF FileOK
          <6> QED
            BY <6>2, <6>3
        <5>4. CASE directory[T] = 0
          <6>1. directory'[T] = Len(contenuto) + 1
            BY <2>3, <5>4
          <6> QED
            BY <1>1, <2>4, <3>3, <5>2, <6>1
        <5> QED
          BY <5>3, <5>4
      <4>2. contenuto'[i] = contenuto[i]
        <5>1. i # directory[T]
          BY <1>1, <2>3, <3>3, <4>1
        <5> QED
          BY <2>3, <4>1, <5>1
      <4> QED
        BY <4>1, <4>2 DEF ContoInv
    <3> QED
      BY <3>2, <3>3
  <2>8. /\ lavoro'[c].passo = "legge" /\ lavoro'[c].letto = <<>> /\ lavoro'[c].file = f
        /\ lavoro'[c].tmp = directory'[T] /\ (lavoro'[c].insieme => A # {})
    <3> DEFINE b == A # {}
               a == directory[f]
               t == directory'[T]
               p == Righe(f)
    <3>1. lavoro'[c] = [passo |-> "legge", file |-> f, chiede |-> n, chi |-> c,
                        sorgente |-> a, tmp |-> t, letto |-> <<>>, cache |-> <<>>, prima |-> p, insieme |-> b]
      BY <1>1, <2>1
    <3> HIDE DEF b, a, t, p
    <3>2. /\ lavoro'[c].passo = "legge" /\ lavoro'[c].letto = <<>> /\ lavoro'[c].file = f
          /\ lavoro'[c].tmp = t /\ lavoro'[c].insieme = b
      BY <3>1
    <3> QED
      BY <3>2 DEF b, t
  <2>9. ASSUME NEW s \in Lavoratori, InLavoro(s)' PROVE LavoroConto(s)'
    <3>1. CASE s = c
      <4>1. RigheTipate(<<>>)
        BY DEF RigheTipate
      <4> QED
        BY <2>5, <2>8, <3>1, <4>1 DEF LavoroConto, RigheTipate
    <3>2. CASE s # c /\ s \in A
      <4>1. InLavoro(s) /\ lavoro[s].file = f /\ lavoro'[s] = [lavoro[s] EXCEPT !.insieme = TRUE]
        BY <2>1, <2>6, <3>2
      <4>2. LavoroOK(s) /\ LavoroConto(s)
        BY <4>1 DEF RisInv, ContoInv
      <4>3. lavoro'[s].file = f /\ lavoro'[s].letto = lavoro[s].letto
        BY <4>1, <4>2 DEF LavoroOK, Campi
      <4>4. f \in incontri'
        BY <2>5, <3>2
      <4> QED
        BY <4>2, <4>3, <4>4 DEF LavoroConto, RigheTipate
    <3>3. CASE s # c /\ s \notin A
      <4>1. lavoro'[s] = lavoro[s]
        BY <2>1, <3>3
      <4>2. LavoroConto(s)
        BY <2>9, <4>1 DEF InLavoro, ContoInv
      <4> QED
        BY <2>5, <4>1, <4>2 DEF LavoroConto, RigheTipate
    <3> QED
      BY <3>1, <3>2, <3>3
  <2>10. ASSUME NEW d \in Lavoratori, lavoro'[d].passo = "conta"
         PROVE  programma' = "remop" /\ (lavoro'[d].file \notin incontri' => ContaOK(d)')
    <3>1. d # c
      BY <2>8, <2>10
    <3>2. d \notin A
      <4> SUFFICES ASSUME d \in A PROVE FALSE
        OBVIOUS
      <4>1. InLavoro(d) /\ lavoro'[d] = [lavoro[d] EXCEPT !.insieme = TRUE]
        BY <2>1, <2>6, <3>1
      <4>2. LavoroOK(d)
        BY <4>1 DEF RisInv
      <4>3. lavoro'[d].passo = lavoro[d].passo
        BY <4>1, <4>2 DEF LavoroOK, Campi
      <4> QED
        BY <2>10, <4>1, <4>3 DEF InLavoro, Fasi
    <3>3. lavoro'[d] = lavoro[d] /\ lavoro[d].passo = "conta"
      BY <2>1, <2>10, <3>1, <3>2
    <3>4. ASSUME lavoro[d].file \notin incontri PROVE ContaOK(d)'
      <4> DEFINE i == lavoro[d].sorgente
      <4>1. ContaOK(d)
        BY <3>3, <3>4 DEF ContoInv
      <4>2. /\ i \in 1 .. Len(contenuto) /\ \A g \in File : directory[Temporaneo(g)] # i
            /\ \A s \in Lavoratori : lavoro[s].passo \in {"legge", "scrive"} => lavoro[s].tmp # i
        BY <4>1 DEF ContaOK
      <4> HIDE DEF i
      <4>3. contenuto'[i] = contenuto[i]
        BY <2>3, <4>2
      <4>4. directory'[T] # i
        BY <1>1, <2>3, <4>2
      <4>5. \A g \in File : directory'[Temporaneo(g)] # i
        BY <2>2, <2>3, <4>2, <4>4
      <4>6. ASSUME NEW s \in Lavoratori, lavoro'[s].passo \in {"legge", "scrive"} PROVE lavoro'[s].tmp # i
        <5>1. CASE s = c
          BY <2>8, <4>4, <5>1
        <5>2. CASE s # c /\ s \in A
          <6>1. InLavoro(s) /\ lavoro'[s] = [lavoro[s] EXCEPT !.insieme = TRUE]
            BY <2>1, <2>6, <5>2
          <6>2. LavoroOK(s)
            BY <6>1 DEF RisInv
          <6>3. lavoro'[s].passo = lavoro[s].passo /\ lavoro'[s].tmp = lavoro[s].tmp
            BY <6>1, <6>2 DEF LavoroOK, Campi
          <6> QED
            BY <4>2, <4>6, <6>3
        <5>3. CASE s # c /\ s \notin A
          <6>1. lavoro'[s] = lavoro[s]
            BY <2>1, <5>3
          <6> QED
            BY <4>2, <4>6, <6>1
        <5> QED
          BY <5>1, <5>2, <5>3
      <4> QED
        BY <1>1, <2>1, <2>3, <2>4, <3>3, <4>1, <4>3, <4>5, <4>6, ContaResta DEF i
    <3> QED
      BY <1>1, <2>1, <2>5, <3>3, <3>4
  <2>11. ContoCoerente'
    BY <1>1, <2>5 DEF ContoInv, ContoCoerente
  <2> QED
    BY <1>1, <2>1, <2>7, <2>9, <2>10, <2>11 DEF ContoInv
<1> QED
  BY <1>3, <1>4

\* The server starts: nobody has called yet.
LEMMA ServerImplConto ==
  ASSUME RisInv, ContoInv, ServerImpl_main
  PROVE  ContoInv'
<1> PICK d \in FileRemoti : Prepara("remop", SetToSeq(DOMAIN d), d)
  BY DEF ServerImpl_main
<1> DEFINE N == DOMAIN d
           q == SetToSeq(N)
<1>1. /\ programma = "spento" /\ programma' = "remop" /\ Riempi(q, d) /\ lavoro' = lavoro
      /\ letture' = letture /\ incontri' = incontri
  BY DEF Prepara, ServerImpl_main
<1>2. N \in SUBSET Nomi /\ IsFiniteSet(N) /\ \A n \in N : Sequenza(d[n]) /\ RigheTipate(d[n])
  BY RemOpAssumption, RiscritturaAssumption DEF NomiFile, RigheTipate
<1> HIDE DEF N
<1>3. DOMAIN q = 1 .. Cardinality(N) /\ \A k \in DOMAIN q : q[k] \in N
  <2>1. q \in [1 .. Cardinality(N) -> N]
    BY <1>2, PrimiNomi
  <2> HIDE DEF q
  <2> QED
    BY <2>1
<1>4. contenuto' = [k \in DOMAIN q |-> d[q[k]]]
  BY <1>1 DEF Riempi
<1>5. Len(contenuto') = Cardinality(N)
  <2>1. FileOK'
    BY <1>1, <1>2, RiempiFile
  <2>2. DOMAIN contenuto' = 1 .. Len(contenuto') /\ Len(contenuto') \in Nat
    BY <2>1, SequenzaTipo DEF FileOK
  <2>3. Cardinality(N) \in Nat
    BY <1>2, FS_CardinalityType
  <2> QED
    BY <1>3, <1>4, <2>2, <2>3
<1>6. \A i \in 1 .. Len(contenuto') : RigheTipate(contenuto'[i])
  BY <1>2, <1>3, <1>4, <1>5
<1>7. \A t \in Lavoratori : ~InLavoro(t) /\ lavoro[t].passo # "conta"
  BY <1>1 DEF RisInv, LavoroOK, ContoInv
<1>8. \A t \in Lavoratori : ~InLavoro(t)' /\ lavoro'[t].passo # "conta"
  BY <1>1, <1>7 DEF InLavoro
<1>9. ContoCoerente'
  BY <1>1 DEF ContoInv, ContoCoerente
<1> QED
  BY <1>1, <1>6, <1>8, <1>9 DEF ContoInv

LEMMA RemOpConto ==
  ASSUME RisInv, ContoInv, RemOpNext
  PROVE  ContoInv'
<1>1. ASSUME NEW c \in ClientiRmi, ServerImpl_lavora(c) PROVE ContoInv'
  <2>1. c \in Lavoratori /\ Riscrive(c) /\ incontri' = incontri /\ letture' = letture
    BY <1>1, RemOpAssumption DEF ServerImpl_lavora
  <2>2. PassoConto(c)
    BY <2>1, RiscrivePasso
  <2> QED
    BY <2>1, <2>2, PassoContoStep
<1>2. ASSUME NEW c \in ClientiRmi, ServerImpl_risponde(c) PROVE ContoInv'
  <2>1. /\ c \in Lavoratori /\ UNCHANGED <<fileVars, programma, incontri>> /\ letture' = letture
        /\ lavoro' = [lavoro EXCEPT ![c] = Ozio] /\ DOMAIN lavoro = Lavoratori /\ incontri' = incontri
    BY <1>2, RemOpAssumption DEF ServerImpl_risponde, finito, RisInv
  <2>2. lavoro'[c].passo = "ozio" /\ \A s \in Lavoratori \ {c} : lavoro'[s] = lavoro[s]
    BY <2>1 DEF Ozio
  <2>3. ContoCoerente'
    BY <2>1 DEF ContoInv, ContoCoerente
  <2> QED
    BY <2>1, <2>2, <2>3, FermoConto
<1> QED
  BY <1>1, <1>2, ServerImplConto, elimina_rigaConto, conta_righeConto, contaConto DEF RemOpNext

-----------------------------------------------------------------------------
(* GetFile: names up, files down.                                            *)

\* The child has written b characters of the answer for the string n, and a of
\* them are printed.
InStampa(c, q, n, a, b) ==
  LET w == Invio(n)
  IN  /\ a \in Nat /\ b \in Nat /\ a <= b /\ b <= Len(w)
      /\ su[c] = <<>> /\ giu[c] = SubSeq(w, a + 1, b) /\ daScrivere[c] = SubSeq(w, b + 1, Len(w))
      /\ q.stampa = SubSeq(w, 1, a) /\ \A i \in 1 .. a : w[i] # "0"
      /\ IsPrefix(q.nome, n) /\ (~q.residuo => n = q.nome)

\* The child has still to read the request.
InArrivo(c, q) ==
  /\ su[c] = q.nome /\ giu[c] = <<>> /\ daScrivere[c] = <<>> /\ q.stampa = <<>>
  /\ q.residuo = (Len(nome_file[c]) > Len(q.nome))

Richiesta(q) == q.nome \in NomiGet /\ q = [nome |-> q.nome, stampa |-> q.stampa, residuo |-> q.residuo]

\* A client and its child.  At the menu nothing is on its way.
GetOK(c) ==
  /\ schermo[c] \in {"menu", "stampa", "fuori"}
  /\ Sequenza(chiesti[c])
  /\ \A k \in 1 .. Len(chiesti[c]) :
       Richiesta(chiesti[c][k]) /\ (k < Len(chiesti[c]) \/ schermo[c] # "stampa" => Stampata(chiesti[c][k]))
  /\ schermo[c] = "fuori" /\ chiesti[c] = <<>> => ~serve[c] /\ daScrivere[c] = <<>>
  /\ schermo[c] # "fuori" => serve[c] /\ ~fineSu[c] /\ Sequenza(nome_file[c])
  /\ schermo[c] = "menu" => su[c] = <<>> /\ giu[c] = <<>> /\ daScrivere[c] = <<>>
  /\ schermo[c] = "stampa" =>
       LET q == chiesti[c][Len(chiesti[c])]
       IN  chiesti[c] # <<>> /\ (InArrivo(c, q) \/ \E n, a, b : InStampa(c, q, n, a, b))

GetTipi ==
  /\ su = [c \in Conn |-> su[c]] /\ giu = [c \in Conn |-> giu[c]] /\ fineSu = [c \in Conn |-> fineSu[c]]
  /\ schermo = [c \in Conn |-> schermo[c]] /\ chiesti = [c \in Conn |-> chiesti[c]]
  /\ serve = [c \in Conn |-> serve[c]] /\ nome_file = [c \in Conn |-> nome_file[c]]
  /\ daScrivere = [c \in Conn |-> daScrivere[c]]

GetInv == GetTipi /\ \A c \in ConnGet : GetOK(c)

LEMMA NomeGet ==
  ASSUME NEW n \in NomiGet \cup ResiduiGet
  PROVE  Sequenza(n)
BY GetAssumption DEF Sequenza, Range

\* The answer for a string that names a file, and for one that does not.
LEMMA InvioTipo ==
  ASSUME NEW n
  PROVE  LET w == Invio(n)
         IN  /\ Sequenza(w) /\ Len(w) \in Nat \ {0}
             /\ n \in DOMAIN FileGet =>
                  /\ w[Len(w)] = "0" /\ SubSeq(w, 1, Len(w) - 1) = <<"S">> \o FileGet[n]
                  /\ \A i \in 1 .. Len(w) - 1 : w[i] # "0"
             /\ n \notin DOMAIN FileGet => w = <<"N">> /\ Len(w) = 1 /\ w[1] # "0"
<1> DEFINE w == Invio(n)
<1>1. CASE n \notin DOMAIN FileGet
  <2>1. w = <<"N">>
    BY <1>1 DEF Invio
  <2>2. Sequenza(<<"N">>) /\ Len(<<"N">>) = 1 /\ <<"N">>[1] = "N"
    BY SequenzaUno
  <2>3. "N" # "0"
    OBVIOUS
  <2> HIDE DEF w
  <2>4. Sequenza(w) /\ Len(w) \in Nat \ {0} /\ w = <<"N">> /\ Len(w) = 1 /\ w[1] # "0"
    BY <2>1, <2>2, <2>3
  <2> QED
    BY <1>1, <2>4 DEF w
<1>2. CASE n \in DOMAIN FileGet
  <2> DEFINE f == FileGet[n]
             p == <<"S">> \o f
             S == Range(f) \ {"0"}
  <2>1. Sequenza(f) /\ Len(f) \in Nat /\ \A i \in 1 .. Len(f) : f[i] # "0"
    <3>1. f \in Seq(S)
      BY <1>2, GetAssumption
    <3>2. \A x \in S : x # "0"
      OBVIOUS
    <3> HIDE DEF f, S
    <3>3. Sequenza(f) /\ Len(f) \in Nat
      BY <3>1, SequenzaDi
    <3>4. \A i \in 1 .. Len(f) : f[i] \in S
      BY <3>1, LenProperties
    <3> QED
      BY <3>2, <3>3, <3>4
  <2> HIDE DEF f
  <2>2. Sequenza(<<"S">>) /\ Len(<<"S">>) = 1 /\ <<"S">>[1] = "S" /\ Sequenza(<<"0">>) /\ Len(<<"0">>) = 1 /\ <<"0">>[1] = "0"
    BY SequenzaUno
  <2>3. /\ Sequenza(p) /\ Len(p) = 1 + Len(f)
        /\ \A i \in 1 .. 1 + Len(f) : p[i] = IF i <= 1 THEN <<"S">>[i] ELSE f[i - 1]
    BY <2>1, <2>2, SequenzaConcat
  <2>4. \A i \in 1 .. Len(p) : p[i] # "0"
    BY <2>1, <2>2, <2>3
  <2>5. w = p \o <<"0">>
    BY <1>2 DEF Invio, f
  <2> HIDE DEF p, w
  <2>6. /\ Sequenza(w) /\ Len(w) = Len(p) + 1
        /\ \A i \in 1 .. Len(p) + 1 : w[i] = IF i <= Len(p) THEN p[i] ELSE <<"0">>[i - Len(p)]
    BY <2>2, <2>3, <2>5, SequenzaConcat
  <2>7. Len(p) \in Nat /\ Len(w) \in Nat \ {0} /\ Len(w) - 1 = Len(p) /\ Len(p) <= Len(w)
    BY <2>1, <2>3, <2>6
  <2>8. w[Len(w)] = "0" /\ \A i \in 1 .. Len(w) - 1 : w[i] # "0" /\ w[i] = p[i]
    BY <2>2, <2>4, <2>6, <2>7
  <2>9. /\ Sequenza(SubSeq(w, 1, Len(p))) /\ Len(SubSeq(w, 1, Len(p))) = Len(p)
        /\ \A i \in 1 .. Len(p) : SubSeq(w, 1, Len(p))[i] = w[i]
    BY <2>6, <2>7, Divisa
  <2> DEFINE v == SubSeq(w, 1, Len(p))
  <2>10. v = p
    <3>1. Sequenza(v) /\ Len(v) = Len(p) /\ \A i \in 1 .. Len(v) : v[i] = p[i]
      BY <2>7, <2>8, <2>9
    <3> HIDE DEF v
    <3> QED
      BY <2>3, <3>1, SequenzeUguali
  <2>11. SubSeq(w, 1, Len(w) - 1) = <<"S">> \o FileGet[n]
    BY <2>7, <2>10 DEF p, f
  <2> QED
    BY <1>2, <2>6, <2>7, <2>8, <2>11 DEF w
<1> QED
  BY <1>1, <1>2

\* What a name makes of the buffer it is read into.
LEMMA NomeSopra ==
  ASSUME NEW s, Sequenza(s), NEW v, Sequenza(v), NEW n, n = s \o SubSeq(v, Len(s) + 1, Len(v))
  PROVE  Sequenza(n) /\ IsPrefix(s, n) /\ (Len(v) <= Len(s) => n = s)
<1> DEFINE l == Len(s)
           r == SubSeq(v, l + 1, Len(v))
<1>1. l \in Nat /\ Len(v) \in Nat
  BY SequenzaTipo
<1>2. Sequenza(r) /\ (Len(v) <= l => r = <<>>)
  <2>1. CASE Len(v) <= l
    <3>1. r = <<>>
      BY <1>1, <2>1, SubSeqEmpty
    <3> QED
      BY <3>1, SequenzaVuota
  <2>2. CASE l < Len(v)
    BY <1>1, <2>2, Divisa
  <2> QED
    BY <1>1, <2>1, <2>2
<1> HIDE DEF r
<1>3. /\ Sequenza(s \o r) /\ Len(s \o r) = l + Len(r) /\ Len(r) \in Nat
      /\ \A i \in 1 .. l + Len(r) : (s \o r)[i] = IF i <= l THEN s[i] ELSE r[i - l]
  BY <1>2, SequenzaConcat, SequenzaTipo
<1>4. n = s \o r
  BY DEF r
<1>5. Sequenza(n) /\ l <= Len(n) /\ \A i \in 1 .. l : n[i] = s[i]
  <2> DEFINE t == s \o r
  <2>1. Sequenza(t) /\ Len(t) = l + Len(r) /\ n = t /\ \A i \in 1 .. l + Len(r) : t[i] = IF i <= l THEN s[i] ELSE r[i - l]
    BY <1>3, <1>4
  <2>2. l \in Nat /\ Len(r) \in Nat
    BY <1>1, <1>3
  <2> HIDE DEF t, l
  <2>3. \A i \in 1 .. l : t[i] = s[i]
    <3> SUFFICES ASSUME NEW i \in 1 .. l PROVE t[i] = s[i]
      OBVIOUS
    <3>1. i \in 1 .. l + Len(r) /\ i <= l
      BY <2>2
    <3> QED
      BY <2>1, <3>1
  <2>4. l <= Len(t)
    BY <2>1, <2>2
  <2> QED
    BY <2>1, <2>3, <2>4
<1>6. SubSeq(n, 1, l) = s
  <2> DEFINE t == SubSeq(n, 1, l)
  <2>1. Sequenza(t) /\ Len(t) = l /\ \A i \in 1 .. l : t[i] = s[i]
    BY <1>1, <1>5, Divisa
  <2> HIDE DEF t
  <2>2. t = s
    BY <2>1, SequenzeUguali
  <2> QED
    BY <2>2 DEF t
<1>7. SubSeq(s, 1, l) = s
  BY SubSeqFull DEF Sequenza
<1>8. IsPrefix(s, n)
  BY <1>5, <1>6, <1>7 DEF IsPrefix
<1>9. Len(v) <= l => n = s
  BY <1>2, <1>4, <1>6, ConcatEmptySeq DEF Sequenza
<1> QED
  BY <1>5, <1>8, <1>9

\* What remains of s after the first b items, and its own tail.
LEMMA CodaLetta ==
  ASSUME NEW s, Sequenza(s), NEW b \in Nat, b <= Len(s), NEW q, q = SubSeq(s, b + 1, Len(s)), q # <<>>
  PROVE  b < Len(s) /\ Head(q) = s[b + 1] /\ Tail(q) = SubSeq(s, b + 2, Len(s))
<1> DEFINE l == Len(s)
<1>1. l \in Nat
  BY SequenzaTipo
<1>2. l <= Len(s) /\ b <= l /\ q = SubSeq(s, b + 1, l)
  BY <1>1
<1> HIDE DEF l
<1>3. Pezzo(s, b, l)
  BY <1>1, <1>2, PezzoLetto
<1>4. b < l
  BY <1>1, <1>2, <1>3 DEF Pezzo
<1>5. Sequenza(q) /\ Head(q) = s[b + 1] /\ SubSeq(q, 2, Len(q)) = SubSeq(s, b + 2, l)
  BY <1>2, <1>3, <1>4 DEF Pezzo
<1>6. Tail(q) = SubSeq(q, 2, Len(q))
  BY <1>5, TailIsSubSeq DEF Sequenza
<1> QED
  BY <1>4, <1>5, <1>6 DEF l

LEMMA AppendConcat ==
  ASSUME NEW s, Sequenza(s), NEW x
  PROVE  Append(s, x) = s \o <<x>>
<1> DEFINE t == Append(s, x)
           v == s \o <<x>>
<1>1. Sequenza(<<x>>) /\ Len(<<x>>) = 1 /\ <<x>>[1] = x /\ Len(s) \in Nat
  BY SequenzaUno, SequenzaTipo
<1>2. Sequenza(t) /\ Len(t) = Len(s) + 1 /\ t[Len(s) + 1] = x /\ \A i \in 1 .. Len(s) : t[i] = s[i]
  BY SequenzaAppend
<1>3. /\ Sequenza(v) /\ Len(v) = Len(s) + 1
      /\ \A i \in 1 .. Len(s) + 1 : v[i] = IF i <= Len(s) THEN s[i] ELSE <<x>>[i - Len(s)]
  BY <1>1, SequenzaConcat
<1> HIDE DEF t, v
<1>4. \A i \in 1 .. Len(s) + 1 : t[i] = v[i]
  <2> SUFFICES ASSUME NEW i \in 1 .. Len(s) + 1 PROVE t[i] = v[i]
    OBVIOUS
  <2>1. CASE i = Len(s) + 1
    BY <1>1, <1>2, <1>3, <2>1
  <2>2. CASE i \in 1 .. Len(s)
    BY <1>1, <1>2, <1>3, <2>2
  <2> QED
    BY <1>1, <2>1, <2>2
<1>5. t = v
  BY <1>2, <1>3, <1>4, SequenzeUguali
<1> QED
  BY <1>5 DEF t, v

\* A step of client c or of its child touches nothing of the others.
PassoGet(c) ==
  /\ \A d \in Conn \ {c} :
       /\ su'[d] = su[d] /\ giu'[d] = giu[d] /\ fineSu'[d] = fineSu[d] /\ schermo'[d] = schermo[d]
       /\ chiesti'[d] = chiesti[d] /\ serve'[d] = serve[d] /\ nome_file'[d] = nome_file[d]
       /\ daScrivere'[d] = daScrivere[d]
  /\ GetTipi'

LEMMA AltroGet ==
  ASSUME GetInv, NEW c \in ConnGet, PassoGet(c), GetOK(c)'
  PROVE  GetInv'
<1>1. ASSUME NEW d \in ConnGet, d # c PROVE GetOK(d)'
  <2>1. d \in Conn \ {c}
    BY <1>1, GetAssumption
  <2>2. GetOK(d)
    BY DEF GetInv
  <2>3. /\ su'[d] = su[d] /\ giu'[d] = giu[d] /\ fineSu'[d] = fineSu[d] /\ schermo'[d] = schermo[d]
        /\ chiesti'[d] = chiesti[d] /\ serve'[d] = serve[d] /\ nome_file'[d] = nome_file[d]
        /\ daScrivere'[d] = daScrivere[d]
    BY <2>1 DEF PassoGet
  <2>4. \A q : InArrivo(d, q)' <=> InArrivo(d, q)
    BY <2>3 DEF InArrivo
  <2>5. \A q, n, a, b : InStampa(d, q, n, a, b)' <=> InStampa(d, q, n, a, b)
    BY <2>3 DEF InStampa
  <2> QED
    BY <2>2, <2>3, <2>4, <2>5 DEF GetOK
<1> QED
  BY <1>1 DEF GetInv, PassoGet

\* The requests of c are as they were, and it does not wait.
LEMMA GetFermo ==
  ASSUME NEW c, GetOK(c), chiesti'[c] = chiesti[c], schermo'[c] \in {"menu", "fuori"}, schermo[c] # "stampa",
         schermo'[c] = "fuori" => chiesti[c] # <<>>,
         schermo'[c] = "menu" => /\ serve'[c] /\ ~fineSu'[c] /\ Sequenza(nome_file'[c])
                                 /\ su'[c] = <<>> /\ giu'[c] = <<>> /\ daScrivere'[c] = <<>>
  PROVE  GetOK(c)'
BY DEF GetOK

LEMMA accept_getStep ==
  ASSUME GetInv, NEW c \in ConnGet, accept_get(c)
  PROVE  GetInv'
<1>1. c \in Conn
  BY GetAssumption
<1>2. PICK r \in ResiduiGet : nome_file' = [nome_file EXCEPT ![c] = r]
  BY DEF accept_get
<1>3. Sequenza(r)
  BY NomeGet
<1>4. schermo[c] = "fuori" /\ chiesti[c] = <<>> /\ chiesti' = chiesti /\ daScrivere' = daScrivere
  BY DEF accept_get
<1>5. schermo'[c] = "menu" /\ serve'[c] /\ ~fineSu'[c] /\ nome_file'[c] = r /\ su'[c] = <<>> /\ giu'[c] = <<>>
  BY <1>1, <1>2 DEF accept_get, connect, GetInv, GetTipi
<1>6. GetOK(c) /\ daScrivere[c] = <<>>
  BY <1>4 DEF GetInv, GetOK
<1>7. PassoGet(c)
  BY <1>2 DEF PassoGet, accept_get, connect, GetInv, GetTipi
<1>8. GetOK(c)'
  BY <1>3, <1>4, <1>5, <1>6, GetFermo
<1> QED
  BY <1>7, <1>8, AltroGet

LEMMA chiudi_getStep ==
  ASSUME GetInv, NEW c \in ConnGet, chiudi_get(c)
  PROVE  GetInv'
<1>1. c \in Conn /\ GetOK(c)
  BY GetAssumption DEF GetInv
<1>2. schermo[c] = "menu" /\ chiesti[c] # <<>> /\ chiesti' = chiesti /\ schermo'[c] = "fuori"
  BY <1>1 DEF chiudi_get, GetInv, GetTipi
<1>3. PassoGet(c)
  BY DEF PassoGet, chiudi_get, chiudeSu, GetInv, GetTipi
<1>4. GetOK(c)'
  BY <1>1, <1>2, GetFermo
<1> QED
  BY <1>3, <1>4, AltroGet

\* A new request, the last one of its client.
LEMMA chiede_fileStep ==
  ASSUME GetInv, NEW c \in ConnGet, chiede_file(c)
  PROVE  GetInv'
<1>1. c \in Conn /\ GetOK(c)
  BY GetAssumption DEF GetInv
<1>2. PICK n \in NomiGet :
        /\ scriveSu(c, n)
        /\ chiesti' = [chiesti EXCEPT ![c] = Append(@, [nome |-> n, stampa |-> <<>>,
                                                        residuo |-> Len(nome_file[c]) > Len(n)])]
  BY DEF chiede_file
<1>0. PICK q : q = [nome |-> n, stampa |-> <<>>, residuo |-> Len(nome_file[c]) > Len(n)]
  OBVIOUS
<1> DEFINE s == chiesti[c]
<1>3. q.nome = n /\ q.stampa = <<>> /\ q.residuo = (Len(nome_file[c]) > Len(n)) /\ Richiesta(q)
  BY <1>0 DEF Richiesta
<1>4. chiesti' = [chiesti EXCEPT ![c] = Append(s, q)]
  BY <1>0, <1>2
<1>5. /\ schermo[c] = "menu" /\ schermo' = [schermo EXCEPT ![c] = "stampa"]
      /\ UNCHANGED <<serve, nome_file, daScrivere, giu, fineSu, fineGiu>> /\ su' = [su EXCEPT ![c] = su[c] \o n]
  BY <1>2 DEF chiede_file, scriveSu
<1>6. /\ su[c] = <<>> /\ giu[c] = <<>> /\ daScrivere[c] = <<>> /\ serve[c] /\ ~fineSu[c] /\ Sequenza(nome_file[c])
      /\ Sequenza(s) /\ \A k \in 1 .. Len(s) : Richiesta(s[k]) /\ Stampata(s[k])
  BY <1>1, <1>5 DEF GetOK
<1>7. schermo'[c] = "stampa" /\ chiesti'[c] = Append(s, q) /\ su'[c] = n
  <2>1. Sequenza(n)
    BY NomeGet
  <2>2. <<>> \o n = n
    BY <2>1, ConcatEmptySeq DEF Sequenza
  <2> QED
    BY <1>1, <1>4, <1>5, <1>6, <2>2 DEF GetInv, GetTipi
<1>8. PassoGet(c)
  BY <1>4, <1>5 DEF PassoGet, GetInv, GetTipi
<1> DEFINE t == Append(s, q)
<1>9. /\ Sequenza(t) /\ Len(t) = Len(s) + 1 /\ Len(s) \in Nat /\ t[Len(t)] = q
      /\ \A k \in 1 .. Len(s) : t[k] = s[k]
  BY <1>6, SequenzaAppend, SequenzaTipo
<1> HIDE DEF t
<1>10. \A k \in 1 .. Len(t) : Richiesta(t[k]) /\ (k < Len(t) => Stampata(t[k]))
  <2> HIDE DEF s
  <2> SUFFICES ASSUME NEW k \in 1 .. Len(t) PROVE Richiesta(t[k]) /\ (k < Len(t) => Stampata(t[k]))
    OBVIOUS
  <2>1. CASE k = Len(t)
    BY <1>3, <1>9, <2>1
  <2>2. CASE k \in 1 .. Len(s)
    BY <1>6, <1>9, <2>2
  <2> QED
    BY <1>9, <2>1, <2>2
<1>11. t # <<>>
  <2>1. Len(<<>>) = 0
    BY SequenzaVuota
  <2> HIDE DEF s
  <2> QED
    BY <1>9, <2>1
<1>12. InArrivo(c, q)'
  BY <1>3, <1>5, <1>6, <1>7 DEF InArrivo
<1>13. chiesti'[c] = t
  BY <1>7 DEF t
<1>14. GetOK(c)'
  <2>1. chiesti'[c] # <<>> /\ (chiesti[c][Len(chiesti[c])])' = q
    BY <1>9, <1>11, <1>13
  <2> HIDE DEF s
  <2>2. serve'[c] /\ ~fineSu'[c] /\ Sequenza(nome_file'[c])
    BY <1>5, <1>6
  <2> QED
    BY <1>7, <1>9, <1>10, <1>12, <1>13, <2>1, <2>2 DEF GetOK
<1> QED
  BY <1>8, <1>14, AltroGet

\* The child reads a name over the last one, and has its whole answer to write.
LEMMA leggi_nome_fileStep ==
  ASSUME GetInv, NEW c \in ConnGet, leggi_nome_file(c)
  PROVE  GetInv'
<1>1. c \in Conn /\ GetOK(c)
  BY GetAssumption DEF GetInv
<1>2. /\ serve[c] /\ su[c] # <<>> /\ UNCHANGED <<schermo, chiesti, serve, giu, fineSu, fineGiu>>
      /\ su' = [su EXCEPT ![c] = SubSeq(su[c], Len(su[c]) + 1, Len(su[c]))]
      /\ nome_file' = [nome_file EXCEPT ![c] = su[c] \o SubSeq(@, Len(su[c]) + 1, Len(@))]
      /\ daScrivere' = [daScrivere EXCEPT ![c] = Invio(nome_file'[c])]
  BY DEF leggi_nome_file, leggeSu
<1>3. PassoGet(c)
  BY <1>2 DEF PassoGet, GetInv, GetTipi
<1>4. CASE schermo[c] = "fuori"
  <2>1. chiesti[c] # <<>>
    BY <1>1, <1>2, <1>4 DEF GetOK
  <2>2. GetOK(c)'
    BY <1>1, <1>2, <1>4, <2>1, GetFermo
  <2> QED
    BY <1>3, <2>2, AltroGet
<1>5. CASE schermo[c] = "stampa"
  <2>1. PICK q : q = chiesti[c][Len(chiesti[c])]
    OBVIOUS
  <2>2. chiesti[c] # <<>> /\ (InArrivo(c, q) \/ \E n, a, b : InStampa(c, q, n, a, b))
    BY <1>1, <1>5, <2>1 DEF GetOK
  <2>3. InArrivo(c, q)
    BY <1>2, <2>2 DEF InStampa
  <2>4. PICK s : s = su[c]
    OBVIOUS
  <2>5. PICK v : v = nome_file[c]
    OBVIOUS
  <2>6. Len(chiesti[c]) \in 1 .. Len(chiesti[c])
    <3> DEFINE t == chiesti[c]
    <3>1. Sequenza(t) /\ t # <<>>
      BY <1>1, <2>2 DEF GetOK
    <3> HIDE DEF t
    <3>2. Len(t) \in Nat /\ Len(t) # 0
      BY <3>1, EmptySeq DEF Sequenza
    <3> QED
      BY <3>2 DEF t
  <2>7. q.nome = s /\ Sequenza(s) /\ Sequenza(v) /\ q.residuo = (Len(v) > Len(s)) /\ q.stampa = <<>> /\ giu[c] = <<>>
    BY <1>1, <1>5, <2>1, <2>3, <2>4, <2>5, <2>6, NomeGet DEF InArrivo, GetOK, Richiesta
  <2>8. PICK n : n = s \o SubSeq(v, Len(s) + 1, Len(v))
    OBVIOUS
  <2>9. nome_file'[c] = n /\ daScrivere'[c] = Invio(n) /\ su'[c] = SubSeq(s, Len(s) + 1, Len(s)) /\ giu'[c] = <<>>
    BY <1>1, <1>2, <2>4, <2>5, <2>7, <2>8 DEF GetInv, GetTipi
  <2>10. Sequenza(n) /\ IsPrefix(s, n) /\ (Len(v) <= Len(s) => n = s) /\ Len(s) \in Nat /\ Len(v) \in Nat
    BY <2>7, <2>8, NomeSopra, SequenzaTipo
  <2>11. PICK w : w = Invio(n)
    OBVIOUS
  <2> DEFINE z == 0
  <2>12. Sequenza(w) /\ Len(w) \in Nat /\ z \in Nat /\ z <= Len(w) /\ z <= z /\ z + 1 = 1
    BY <2>11, InvioTipo
  <2>13. /\ SubSeq(s, Len(s) + 1, Len(s)) = <<>> /\ SubSeq(w, z + 1, z) = <<>> /\ SubSeq(w, 1, z) = <<>>
    BY <2>10, SubSeqEmpty
  <2>14. SubSeq(w, 1, Len(w)) = w
    BY <2>12, SubSeqFull DEF Sequenza
  <2>15. \A i \in 1 .. z : w[i] # "0"
    OBVIOUS
  <2> HIDE DEF z
  <2>16. InStampa(c, q, n, z, z)'
    <3>1. ~q.residuo => n = s
      <4> SUFFICES ASSUME ~q.residuo PROVE n = s
        OBVIOUS
      <4>1. ~(Len(v) > Len(s))
        BY <2>7, Zenon
      <4> DEFINE x == Len(v)
                 y == Len(s)
      <4>2. x \in Nat /\ y \in Nat /\ ~(x > y)
        BY <2>10, <4>1
      <4> HIDE DEF x, y
      <4>3. x <= y
        BY <4>2
      <4> QED
        BY <2>10, <4>3 DEF x, y
    <3> QED
      BY <2>7, <2>9, <2>10, <2>11, <2>12, <2>13, <2>14, <2>15, <3>1 DEF InStampa
  <2>17. GetOK(c)'
    BY <1>1, <1>2, <1>5, <2>1, <2>2, <2>9, <2>10, <2>16 DEF GetOK
  <2> QED
    BY <1>3, <2>17, AltroGet
<1>6. schermo[c] # "menu"
  BY <1>1, <1>2 DEF GetOK
<1> QED
  BY <1>1, <1>4, <1>5, <1>6 DEF GetOK

LEMMA scrivi_fileStep ==
  ASSUME GetInv, NEW c \in ConnGet, scrivi_file(c)
  PROVE  GetInv'
<1>1. c \in Conn /\ GetOK(c)
  BY GetAssumption DEF GetInv
<1>2. serve[c] /\ UNCHANGED <<schermo, chiesti, nome_file>>
  BY DEF scrivi_file
<1>3. PassoGet(c)
  BY DEF PassoGet, scrivi_file, scriveGiu, chiudeGiu, GetInv, GetTipi
<1>4. CASE schermo[c] = "fuori"
  <2>1. chiesti[c] # <<>>
    BY <1>1, <1>2, <1>4 DEF GetOK
  <2>2. GetOK(c)'
    BY <1>1, <1>2, <1>4, <2>1, GetFermo
  <2> QED
    BY <1>3, <2>2, AltroGet
<1>5. CASE schermo[c] # "fuori"
  <2>1. /\ daScrivere[c] # <<>> /\ scriveGiu(c, <<Head(daScrivere[c])>>)
        /\ daScrivere' = [daScrivere EXCEPT ![c] = Tail(@)] /\ UNCHANGED serve
    BY <1>1, <1>5 DEF scrivi_file, EofSu, GetOK
  <2>2. schermo[c] = "stampa"
    BY <1>1, <1>5, <2>1 DEF GetOK
  <2>3. PICK q : q = chiesti[c][Len(chiesti[c])]
    OBVIOUS
  <2>4. PICK n, a, b : InStampa(c, q, n, a, b)
    BY <1>1, <2>1, <2>2, <2>3 DEF GetOK, InArrivo
  <2>5. PICK w : w = Invio(n)
    OBVIOUS
  <2>6. Sequenza(w) /\ Len(w) \in Nat /\ a \in Nat /\ b \in Nat /\ a <= b /\ b <= Len(w)
    BY <2>4, <2>5, InvioTipo DEF InStampa
  <2>7. su[c] = <<>> /\ giu[c] = SubSeq(w, a + 1, b) /\ daScrivere[c] = SubSeq(w, b + 1, Len(w))
    BY <2>4, <2>5 DEF InStampa
  <2>8. b < Len(w) /\ Head(daScrivere[c]) = w[b + 1] /\ Tail(daScrivere[c]) = SubSeq(w, b + 2, Len(w))
    BY <2>1, <2>6, <2>7, CodaLetta
  <2>9. giu'[c] = SubSeq(w, a + 1, b + 1) /\ daScrivere'[c] = SubSeq(w, b + 2, Len(w)) /\ su'[c] = <<>>
    <3>1. SubSeq(w, a + 1, b) \o <<w[b + 1]>> = SubSeq(w, a + 1, b + 1)
      BY <2>6, <2>8, PezzoScritto
    <3> QED
      BY <1>1, <2>1, <2>7, <2>8, <3>1 DEF scriveGiu, GetInv, GetTipi
  <2>10. InStampa(c, q, n, a, b + 1)'
    <3>1. b + 1 \in Nat /\ a <= b + 1 /\ b + 1 <= Len(w) /\ b + 1 + 1 = b + 2
      BY <2>6, <2>8
    <3> QED
      BY <2>4, <2>5, <2>9, <3>1 DEF InStampa
  <2>11. serve'[c] /\ ~fineSu'[c] /\ chiesti[c] # <<>> /\ Sequenza(nome_file'[c])
    BY <1>1, <1>2, <2>1, <2>2 DEF GetOK, scriveGiu
  <2>12. GetOK(c)'
    BY <1>1, <1>2, <2>2, <2>3, <2>10, <2>11 DEF GetOK
  <2> QED
    BY <1>3, <2>12, AltroGet
<1> QED
  BY <1>4, <1>5

\* The client prints what comes, up to a zero: then the answer is over.
LEMMA stampaStep ==
  ASSUME GetInv, NEW c \in ConnGet, stampa(c)
  PROVE  GetInv'
<1>1. c \in Conn /\ GetOK(c)
  BY GetAssumption DEF GetInv
<1>2. /\ schermo[c] = "stampa" /\ 1 <= Len(giu[c]) /\ giu' = [giu EXCEPT ![c] = SubSeq(@, 2, Len(@))]
      /\ UNCHANGED <<serve, nome_file, daScrivere, su, fineSu>>
  BY DEF stampa, leggeGiu
<1>3. PICK q : q = chiesti[c][Len(chiesti[c])]
  OBVIOUS
<1>4. PICK s : s = chiesti[c]
  OBVIOUS
<1>5. Sequenza(s) /\ s # <<>> /\ Len(s) \in Nat \ {0} /\ \A k \in 1 .. Len(s) : Richiesta(s[k]) /\ (k < Len(s) => Stampata(s[k]))
  <2>1. Sequenza(s) /\ s # <<>> /\ \A k \in 1 .. Len(s) : Richiesta(s[k]) /\ (k < Len(s) => Stampata(s[k]))
    BY <1>1, <1>2, <1>4 DEF GetOK
  <2>2. Len(s) \in Nat \ {0}
    BY <2>1, EmptySeq, SequenzaTipo DEF Sequenza
  <2> QED
    BY <2>1, <2>2
<1>6. giu[c] # <<>>
  BY <1>2, SequenzaVuota
<1>7. PICK n, a, b : InStampa(c, q, n, a, b)
  BY <1>1, <1>2, <1>3, <1>6 DEF GetOK, InArrivo
<1>8. PICK w : w = Invio(n)
  OBVIOUS
<1>9. Sequenza(w) /\ Len(w) \in Nat /\ a \in Nat /\ b \in Nat /\ a <= b /\ b <= Len(w)
  BY <1>7, <1>8, InvioTipo DEF InStampa
<1>10. su[c] = <<>> /\ giu[c] = SubSeq(w, a + 1, b) /\ daScrivere[c] = SubSeq(w, b + 1, Len(w)) /\ q.stampa = SubSeq(w, 1, a)
  BY <1>7, <1>8 DEF InStampa
<1>11. a < b /\ Head(giu[c]) = w[a + 1] /\ giu'[c] = SubSeq(w, a + 2, b)
  <2>1. Pezzo(w, a, b)
    BY <1>9, PezzoLetto
  <2>2. a # b
    BY <1>6, <1>10, <2>1 DEF Pezzo
  <2>3. a < b
    BY <1>9, <2>2
  <2>4. Head(giu[c]) = w[a + 1] /\ SubSeq(giu[c], 2, Len(giu[c])) = SubSeq(w, a + 2, b)
    BY <1>10, <2>1, <2>3 DEF Pezzo
  <2> QED
    BY <1>1, <1>2, <2>3, <2>4 DEF GetInv, GetTipi
<1>12. CASE Head(giu[c]) = "0"
  <2>1. schermo' = [schermo EXCEPT ![c] = "menu"] /\ chiesti' = chiesti
    BY <1>12 DEF stampa
  <2>2. w[a + 1] = "0" /\ a + 1 \in 1 .. Len(w)
    BY <1>9, <1>11, <1>12
  <2>3. /\ n \in DOMAIN FileGet => /\ w[Len(w)] = "0" /\ SubSeq(w, 1, Len(w) - 1) = <<"S">> \o FileGet[n]
                                   /\ \A i \in 1 .. Len(w) - 1 : w[i] # "0"
        /\ n \notin DOMAIN FileGet => Len(w) = 1 /\ w[1] # "0"
    BY <1>8, InvioTipo
  <2>4. n \in DOMAIN FileGet /\ a + 1 = Len(w)
    <3>1. n \in DOMAIN FileGet
      BY <1>9, <2>2, <2>3
    <3>2. a + 1 \notin 1 .. Len(w) - 1
      BY <2>2, <2>3, <3>1
    <3> QED
      BY <1>9, <2>2, <3>1, <3>2
  <2>5. a = Len(w) - 1 /\ b = Len(w) /\ a + 2 > b /\ b + 1 > Len(w)
    BY <1>9, <1>11, <2>4
  <2>6. giu'[c] = <<>> /\ daScrivere'[c] = <<>> /\ su'[c] = <<>>
    <3>1. SubSeq(w, a + 2, b) = <<>> /\ SubSeq(w, b + 1, Len(w)) = <<>>
      <4> DEFINE x == a + 2
                 y == b + 1
                 l == Len(w)
      <4>1. x \in Int /\ y \in Int /\ l \in Int /\ b \in Int /\ x > b /\ y > l
        BY <1>9, <2>5
      <4> HIDE DEF x, y, l
      <4>2. SubSeq(w, x, b) = <<>> /\ SubSeq(w, y, l) = <<>>
        BY <4>1, SubSeqEmpty
      <4> QED
        BY <4>2 DEF x, y, l
    <3> QED
      BY <1>2, <1>10, <1>11, <3>1
  <2>7. Stampata(q)
    <3>1. q.stampa = <<"S">> \o FileGet[n]
      BY <1>10, <2>3, <2>4, <2>5
    <3> QED
      BY <1>7, <2>4, <3>1 DEF Stampata, InStampa
  <2>8. PassoGet(c)
    BY <1>2, <2>1 DEF PassoGet, GetInv, GetTipi
  <2>9. \A k \in 1 .. Len(s) : Stampata(s[k])
    BY <1>3, <1>4, <1>5, <2>7
  <2>10. serve'[c] /\ ~fineSu'[c] /\ Sequenza(nome_file'[c])
    BY <1>1, <1>2 DEF GetOK
  <2>11. schermo'[c] = "menu" /\ chiesti'[c] = s
    BY <1>1, <1>4, <2>1 DEF GetInv, GetTipi
  <2>12. GetOK(c)'
    BY <1>5, <2>6, <2>9, <2>10, <2>11 DEF GetOK
  <2> QED
    BY <2>8, <2>12, AltroGet
<1>13. CASE Head(giu[c]) # "0"
  <2>1. PICK l : l = Len(s)
    OBVIOUS
  <2>2. PICK r : r = [q EXCEPT !.stampa = Append(@, w[a + 1])]
    OBVIOUS
  <2>3. schermo' = schermo /\ chiesti'[c] = [s EXCEPT ![l] = r]
    <3>1. chiesti' = [chiesti EXCEPT ![c][Len(chiesti[c])].stampa = Append(@, Head(giu[c]))]
      BY <1>13 DEF stampa
    <3> QED
      BY <1>1, <1>3, <1>4, <1>11, <1>13, <2>1, <2>2, <3>1 DEF stampa, GetInv, GetTipi
  <2>4. q.nome \in NomiGet /\ q = [nome |-> q.nome, stampa |-> q.stampa, residuo |-> q.residuo]
    <3>1. q = s[Len(s)] /\ Len(s) \in 1 .. Len(s)
      BY <1>3, <1>4, <1>5
    <3>2. Richiesta(q)
      BY <1>5, <3>1
    <3> QED
      BY <3>2 DEF Richiesta
  <2>5. r.nome = q.nome /\ r.residuo = q.residuo /\ r.stampa = Append(q.stampa, w[a + 1]) /\ Richiesta(r)
    BY <2>2, <2>4 DEF Richiesta
  <2>6. r.stampa = SubSeq(w, 1, a + 1)
    <3>1. Sequenza(SubSeq(w, 1, a)) /\ SubSeq(w, 1, a) \o <<w[a + 1]>> = SubSeq(w, 1, a + 1)
      BY <1>9, <1>11, Prefisso
    <3>2. Append(q.stampa, w[a + 1]) = q.stampa \o <<w[a + 1]>>
      BY <1>10, <3>1, AppendConcat
    <3> QED
      BY <1>10, <2>5, <3>1, <3>2
  <2>7. InStampa(c, r, n, a + 1, b)'
    <3>1. a + 1 \in Nat /\ a + 1 <= b /\ a + 1 + 1 = a + 2 /\ \A i \in 1 .. a + 1 : i = a + 1 \/ i \in 1 .. a
      BY <1>9, <1>11
    <3>2. \A i \in 1 .. a + 1 : w[i] # "0"
      BY <1>7, <1>8, <1>11, <1>13, <3>1 DEF InStampa
    <3> QED
      BY <1>2, <1>7, <1>8, <1>10, <1>11, <2>5, <2>6, <3>1, <3>2 DEF InStampa
  <2>8. PICK t : t = [s EXCEPT ![l] = r]
    OBVIOUS
  <2>9. Sequenza(t) /\ Len(t) = Len(s) /\ t[Len(t)] = r /\ \A k \in 1 .. Len(s) : k # l => t[k] = s[k]
    <3>1. Len(s) \in Nat /\ DOMAIN s = 1 .. Len(s)
      BY <1>5, SequenzaTipo
    <3>2. l \in DOMAIN s
      BY <1>5, <2>1, <3>1
    <3>3. DOMAIN t = DOMAIN s /\ t = [i \in DOMAIN s |-> t[i]] /\ t[l] = r /\ \A k \in DOMAIN s : k # l => t[k] = s[k]
      BY <2>8, <3>2
    <3>4. DOMAIN t = 1 .. Len(s) /\ t = [i \in 1 .. Len(s) |-> t[i]] /\ t[l] = r /\ \A k \in 1 .. Len(s) : k # l => t[k] = s[k]
      BY <3>1, <3>3
    <3> QED
      BY <2>1, <3>1, <3>4, SequenzaFunzione
  <2>10. t # <<>>
    BY <1>5, <2>9, SequenzaVuota
  <2>11. \A k \in 1 .. Len(t) : Richiesta(t[k]) /\ (k < Len(t) => Stampata(t[k]))
    BY <1>5, <2>1, <2>5, <2>9
  <2>12. serve'[c] /\ ~fineSu'[c] /\ Sequenza(nome_file'[c])
    BY <1>1, <1>2 DEF GetOK
  <2>13. chiesti'[c] = t /\ schermo'[c] = "stampa"
    BY <1>2, <2>3, <2>8
  <2>14. GetOK(c)'
    BY <2>7, <2>9, <2>10, <2>11, <2>12, <2>13 DEF GetOK
  <2>15. PassoGet(c)
    <3>1. chiesti' = [chiesti EXCEPT ![c][Len(chiesti[c])].stampa = Append(@, Head(giu[c]))]
      BY <1>13 DEF stampa
    <3> QED
      BY <1>2, <2>3, <3>1 DEF PassoGet, GetInv, GetTipi
  <2> QED
    BY <2>14, <2>15, AltroGet
<1> QED
  BY <1>12, <1>13

LEMMA GetNextStep == GetInv /\ GetNext => GetInv'
BY accept_getStep, chiede_fileStep, stampaStep, chiudi_getStep, leggi_nome_fileStep, scrivi_fileStep DEF GetNext, Get

LEMMA GetInizio == GetInit => GetInv
BY GetAssumption, SequenzaVuota DEF GetInit, TcpInit, GetInv, GetTipi, GetOK

LEMMA GetGiusto == GetInv => FileStampato
<1> SUFFICES ASSUME GetInv, NEW c \in ConnGet, NEW k \in DOMAIN chiesti[c]
             PROVE  LET q == chiesti[c][k]
                    IN  IF k < Len(chiesti[c]) \/ schermo[c] # "stampa" THEN Stampata(q)
                        ELSE /\ serve[c]
                             /\ su[c] = <<>> /\ giu[c] = <<>> /\ daScrivere[c] = <<>> =>
                                  q.nome = <<>> \/ (q.stampa = <<"N">> /\ (q.residuo \/ q.nome \notin DOMAIN FileGet))
  BY DEF FileStampato
<1>1. GetOK(c)
  BY DEF GetInv
<1>2. Sequenza(chiesti[c]) /\ DOMAIN chiesti[c] = 1 .. Len(chiesti[c]) /\ Len(chiesti[c]) \in Nat
  BY <1>1, SequenzaTipo DEF GetOK
<1>3. k < Len(chiesti[c]) \/ schermo[c] # "stampa" => Stampata(chiesti[c][k])
  BY <1>1, <1>2 DEF GetOK
<1>4. ASSUME ~(k < Len(chiesti[c])), schermo[c] = "stampa", su[c] = <<>>, giu[c] = <<>>, daScrivere[c] = <<>>
      PROVE  LET q == chiesti[c][k] IN q.nome = <<>> \/ (q.stampa = <<"N">> /\ (q.residuo \/ q.nome \notin DOMAIN FileGet))
  <2>1. PICK q : q = chiesti[c][Len(chiesti[c])]
    OBVIOUS
  <2>2. k = Len(chiesti[c])
    BY <1>2, <1>4
  <2>3. CASE InArrivo(c, q)
    BY <1>4, <2>1, <2>2, <2>3 DEF InArrivo
  <2>4. CASE \E n, a, b : InStampa(c, q, n, a, b)
    <3>1. PICK n, a, b : InStampa(c, q, n, a, b)
      BY <2>4
    <3>2. PICK w : w = Invio(n)
      OBVIOUS
    <3>3. Sequenza(w) /\ Len(w) \in Nat \ {0} /\ a \in Nat /\ b \in Nat /\ a <= b /\ b <= Len(w)
      BY <3>1, <3>2, InvioTipo DEF InStampa
    <3>4. SubSeq(w, a + 1, b) = <<>> /\ SubSeq(w, b + 1, Len(w)) = <<>> /\ q.stampa = SubSeq(w, 1, a)
      BY <1>4, <3>1, <3>2 DEF InStampa
    <3>5. a = b
      BY <3>3, <3>4, PezzoLetto DEF Pezzo
    <3>6. b = Len(w)
      <4> DEFINE l == Len(w)
      <4>1. l \in Nat /\ b <= l /\ l <= Len(w) /\ SubSeq(w, b + 1, l) = <<>>
        BY <3>3, <3>4
      <4> HIDE DEF l
      <4>2. b = l
        BY <3>3, <4>1, PezzoLetto DEF Pezzo
      <4> QED
        BY <4>2 DEF l
    <3>7. a \in 1 .. a /\ w[a] # "0"
      BY <3>1, <3>2, <3>3, <3>5, <3>6 DEF InStampa
    <3>8. n \notin DOMAIN FileGet /\ w = <<"N">>
      BY <3>2, <3>5, <3>6, <3>7, InvioTipo
    <3>9. q.stampa = <<"N">>
      BY <3>3, <3>4, <3>5, <3>6, <3>8, SubSeqFull DEF Sequenza
    <3>10. ~q.residuo => n = q.nome
      BY <3>1 DEF InStampa
    <3> QED
      BY <2>1, <2>2, <3>8, <3>9, <3>10
  <2> QED
    BY <1>1, <1>4, <2>1, <2>3, <2>4 DEF GetOK
<1>5. schermo[c] = "stampa" => serve[c]
  BY <1>1 DEF GetOK
<1> QED
  BY <1>3, <1>4, <1>5

-----------------------------------------------------------------------------
(* Direttori: names up, lists of names down.                                 *)

LEMMA NomeDir ==
  ASSUME NEW n \in Domandate \cup Residui
  PROVE  Sequenza(n)
BY DirettoriAssumption DEF Sequenza, Range

\* A subdirectory: entries with finite names, none of which has a zero.
VoceOK(f) == Sequenza(f.nome) /\ \A i \in 1 .. Len(f.nome) : f.nome[i] # "0"
SubOK(sub) == Sequenza(sub) /\ \A j \in 1 .. Len(sub) : VoceOK(sub[j])

LEMMA AlberoTipo ==
  ASSUME NEW d \in DOMAIN Albero, Len(Albero[d]) = 1
  PROVE  SubOK(Albero[d][1]) /\ Sequenza(Albero[d]) /\ DOMAIN Albero[d] = 1 .. 1
<1> DEFINE sub == Albero[d][1]
<1>1. Albero[d] \in Seq(Range(Albero[d]))
  BY DirettoriAssumption
<1>2. DOMAIN Albero[d] = 1 .. 1 /\ sub \in Range(Albero[d]) /\ Sequenza(Albero[d])
  <2>1. DOMAIN Albero[d] = 1 .. 1
    BY <1>1, LenProperties
  <2>2. 1 \in DOMAIN Albero[d]
    BY <2>1
  <2> QED
    BY <1>1, <2>1, <2>2 DEF Range, Sequenza
<1>3. /\ sub \in Seq(Range(sub)) /\ \A f \in Range(sub) : f.nome \in Seq(Range(f.nome) \ {"0"})
  BY <1>2, DirettoriAssumption
<1> HIDE DEF sub
<1>4. Sequenza(sub) /\ DOMAIN sub = 1 .. Len(sub)
  BY <1>3, SequenzaDi
<1>5. ASSUME NEW j \in 1 .. Len(sub) PROVE VoceOK(sub[j])
  <2>1. sub[j] \in Range(sub)
    BY <1>4 DEF Range
  <2> DEFINE f == sub[j].nome
             S == Range(f) \ {"0"}
  <2>2. f \in Seq(S)
    BY <1>3, <2>1
  <2>3. \A x \in S : x # "0"
    OBVIOUS
  <2> HIDE DEF f, S
  <2>4. Sequenza(f)
    BY <2>2, SequenzaDi
  <2>5. \A i \in 1 .. Len(f) : f[i] \in S
    BY <2>2, LenProperties
  <2>6. Sequenza(f) /\ \A i \in 1 .. Len(f) : f[i] # "0"
    BY <2>3, <2>4, <2>5
  <2> QED
    BY <2>6 DEF VoceOK, f
<1>6. SubOK(sub)
  BY <1>4, <1>5 DEF SubOK
<1> QED
  BY <1>2, <1>6 DEF sub

\* p is what the loop over the entries goes through, A what its values are in.
CicloNomi(p, A, base, n, t) ==
  /\ p \in [0 .. n -> A] /\ p[0] = base /\ p[n] = FoldLeft(AccodaNome, base, t)
  /\ \A k \in 1 .. n : p[k] = AccodaNome(p[k - 1], t[k])

LEMMA PassiNomi ==
  ASSUME NEW A, NEW base \in A, NEW n \in Nat, NEW t, DOMAIN t = 1 .. n,
         \A a \in A, k \in 1 .. n : AccodaNome(a, t[k]) \in A
  PROVE  \E p : CicloNomi(p, A, base, n, t)
<1> DEFINE g == [x \in A \X (1 .. n) |-> AccodaNome(x[1], t[x[2]])]
           D(f) == [s \in SUBSET (1 .. n) |->
                      IF s = {} THEN base ELSE AccodaNome(f[s \ {Max(s)}], t[Max(s)])]
           it == CHOOSE f : f = D(f)
<1>1. \A a \in A, k \in 1 .. n : g[<<a, k>>] = AccodaNome(a, t[k])
  OBVIOUS
<1>2. g \in [A \X (1 .. n) -> A]
  OBVIOUS
<1> HIDE DEF g
<1>3. \A s \in SUBSET (1 .. n) : s # {} =>
        Max(s) \in 1 .. n /\ s \ {Max(s)} \in SUBSET (1 .. n)
  BY MassimoDi
<1>4. PICK h \in [SUBSET (1 .. n) -> A] : Piega(h, A, base, n, g)
  BY <1>2, PiegaEsiste
<1>5. h = D(h)
  BY <1>1, <1>3, <1>4 DEF Piega
<1>6. it = D(it)
  <2> HIDE DEF D
  <2> QED
    BY <1>5
<1>7. FoldLeft(AccodaNome, base, t) = it[1 .. n]
  BY Zenon DEF FoldLeft, MapThenFoldSet
<1> HIDE DEF it
<1>8. Piega(it, A, base, n, g)
  BY <1>1, <1>3, <1>6 DEF Piega
<1> HIDE DEF D
<1>9. PICK p : Passi(p, it, A, base, n, g)
  BY <1>2, <1>8, PiegaPassi
<1>10. ASSUME NEW k \in 1 .. n PROVE p[k] = AccodaNome(p[k - 1], t[k])
  <2>1. k - 1 \in 0 .. n
    OBVIOUS
  <2>2. p[k] = g[<<p[k - 1], k>>] /\ p[k - 1] \in A
    BY <1>9, <2>1 DEF Passi
  <2> QED
    BY <1>1, <2>2
<1> QED
  BY <1>7, <1>9, <1>10 DEF Passi, CicloNomi

\* Of one subdirectory, the loop over them makes one step.
LEMMA PassoSub ==
  ASSUME NEW base, NEW t, DOMAIN t = 1 .. 1
  PROVE  FoldLeft(AccodaSub, base, t) = AccodaSub(base, t[1])
<1> DEFINE n == 1
           A == {base, AccodaSub(base, t[1])}
           D(f) == [s \in SUBSET (1 .. n) |->
                      IF s = {} THEN base ELSE AccodaSub(f[s \ {Max(s)}], t[Max(s)])]
           it == CHOOSE f : f = D(f)
           h == [s \in SUBSET (1 .. n) |-> IF s = {} THEN base ELSE AccodaSub(base, t[1])]
<1>1. \A s \in SUBSET (1 .. n) : s # {} => s = {1} /\ Max(s) = 1 /\ s \ {Max(s)} = {}
  <2> SUFFICES ASSUME NEW s \in SUBSET (1 .. n), s # {} PROVE s = {1} /\ Max(s) = 1 /\ s \ {Max(s)} = {}
    OBVIOUS
  <2>1. s = {1}
    <3>1. \A x \in s : x = 1
      OBVIOUS
    <3> QED
      BY <3>1
  <2>2. Max(s) \in s
    BY MassimoDi
  <2> QED
    BY <2>1, <2>2
<1>2. {} \in SUBSET (1 .. n) /\ 1 .. n \in SUBSET (1 .. n) /\ 1 .. n # {}
  OBVIOUS
<1>3. h = D(h)
  BY <1>1, <1>2
<1>4. it = D(it)
  <2> HIDE DEF D, h
  <2> QED
    BY <1>3
<1>5. FoldLeft(AccodaSub, base, t) = it[1 .. n]
  BY Zenon DEF FoldLeft, MapThenFoldSet
<1> HIDE DEF it
<1>6. it[{}] = base /\ it[1 .. n] = AccodaSub(it[{}], t[1])
  BY <1>1, <1>2, <1>4
<1> QED
  BY <1>5, <1>6

\* The entries of sub that are left out, and where, in the answer w, each of the
\* others ends: the k-th just before the place P[k] + 1.
Salta(sub) == IF sub # <<>> /\ sub[1].dir THEN 1 ELSE 0

Scritta(w, sub, P, k) ==
  LET f == sub[k + 1].nome
  IN  /\ P[k + 1] = P[k] + Len(f) + 1 /\ w[P[k + 1]] = "0"
      /\ \A i \in 1 .. Len(f) : w[P[k] + i] = f[i]

Posizioni(w, sub, P) ==
  LET n == Len(sub)
  IN  /\ \A k \in Salta(sub) .. n : P[k] \in Nat \ {0} /\ P[k] <= P[n]
      /\ P[Salta(sub)] = 1
      /\ \A k \in Salta(sub) .. n - 1 : Scritta(w, sub, P, k)
      /\ Sequenza(w) /\ Len(w) = P[n] + 1 /\ w[P[n] + 1] = "#" /\ w[1] = "S"

\* What an entry adds.
Accodato(a, f, b) ==
  /\ Sequenza(b) /\ Len(b) = Len(a) + Len(f) + 1 /\ b[Len(b)] = "0"
  /\ \A i \in 1 .. Len(a) : b[i] = a[i]
  /\ \A i \in 1 .. Len(f) : b[Len(a) + i] = f[i]

LEMMA NomeAccodato ==
  ASSUME NEW a, Sequenza(a), NEW f, Sequenza(f)
  PROVE  Accodato(a, f, AccodaNome(a, [nome |-> f, file |-> TRUE]))
<1>13. PICK b : b = AccodaNome(a, [nome |-> f, file |-> TRUE])
  OBVIOUS
<1> DEFINE x == Len(a)
           y == Len(f)
           e == a \o f
<1>0. PICK u : u = <<"0">>
  OBVIOUS
<1>1. x \in Nat /\ y \in Nat /\ Sequenza(u) /\ Len(u) = 1 /\ u[1] = "0"
  BY <1>0, SequenzaTipo, SequenzaUno
<1>2. Sequenza(e) /\ Len(e) = x + y /\ \A i \in 1 .. x + y : e[i] = IF i <= x THEN a[i] ELSE f[i - x]
  BY SequenzaConcat
<1>3. b = e \o u
  BY <1>0, <1>13 DEF AccodaNome
<1> HIDE DEF e
<1> DEFINE z == Len(e)
<1>4. Sequenza(b) /\ Len(b) = z + 1 /\ \A i \in 1 .. z + 1 : b[i] = IF i <= z THEN e[i] ELSE u[i - z]
  <2>1. Sequenza(e) /\ Sequenza(u)
    BY <1>1, <1>2
  <2>2. /\ Sequenza(e \o u) /\ Len(e \o u) = Len(e) + Len(u)
        /\ \A i \in 1 .. Len(e) + Len(u) : (e \o u)[i] = IF i <= Len(e) THEN e[i] ELSE u[i - Len(e)]
    BY <2>1, SequenzaConcat
  <2> QED
    BY <1>1, <1>3, <2>2
<1>5. z = x + y
  BY <1>2
<1> HIDE DEF x, y, z
<1>6. Len(b) = x + y + 1 /\ b[Len(b)] = "0"
  <2>1. z + 1 \in 1 .. z + 1 /\ ~(z + 1 <= z) /\ z + 1 - z = 1 /\ z + 1 = x + y + 1
    BY <1>1, <1>5
  <2>2. b[z + 1] = u[1]
    <3>1. PICK i : i = z + 1
      OBVIOUS
    <3>2. i \in 1 .. z + 1 /\ ~(i <= z) /\ i - z = 1
      BY <1>1, <1>5, <3>1
    <3> QED
      BY <1>4, <3>1, <3>2
  <2> QED
    BY <1>1, <1>4, <2>1, <2>2
<1>7. \A i \in 1 .. x : b[i] = a[i]
  <2> SUFFICES ASSUME NEW i \in 1 .. x PROVE b[i] = a[i]
    OBVIOUS
  <2>1. i \in 1 .. z + 1 /\ i <= z /\ i \in 1 .. x + y /\ i <= x
    BY <1>1, <1>5
  <2> QED
    BY <1>2, <1>4, <2>1
<1>8. \A i \in 1 .. y : b[x + i] = f[i]
  <2> SUFFICES ASSUME NEW i \in 1 .. y PROVE b[x + i] = f[i]
    OBVIOUS
  <2>1. PICK j : j = x + i
    OBVIOUS
  <2>2. j \in 1 .. z + 1 /\ j <= z /\ j \in 1 .. x + y /\ ~(j <= x) /\ j - x = i
    BY <1>1, <1>5, <2>1
  <2>3. b[j] = e[j] /\ e[j] = f[i]
    BY <1>2, <1>4, <2>2
  <2> QED
    BY <2>1, <2>3
<1> QED
  BY <1>4, <1>6, <1>7, <1>8, <1>13 DEF Accodato, x, y

\* One sequence begins with another.
Inizia(a, b) == Len(a) <= Len(b) /\ \A i \in 1 .. Len(a) : b[i] = a[i]

\* The loop over the entries of sub.
PassoNomi(p, sub, k) ==
  LET f == sub[k + 1].nome
  IN  /\ Len(p[k + 1]) = Len(p[k]) + Len(f) + 1 /\ p[k + 1][Len(p[k + 1])] = "0"
      /\ Inizia(p[k], p[k + 1]) /\ \A i \in 1 .. Len(f) : p[k + 1][Len(p[k]) + i] = f[i]

GiroNomi(p, sub) ==
  LET n == Len(sub)
  IN  /\ \A k \in 0 .. n : Sequenza(p[k])
      /\ p[Salta(sub)] = <<>> /\ p[n] = Nomi2(sub)
      /\ \A k \in Salta(sub) .. n - 1 : PassoNomi(p, sub, k)

LEMMA NomiGiro ==
  ASSUME NEW sub, SubOK(sub)
  PROVE  \E p : GiroNomi(p, sub)
<1> DEFINE n == Len(sub)
           t == Voci(sub)
           S == (UNION {{sub[j].nome[i] : i \in DOMAIN sub[j].nome} : j \in DOMAIN sub}) \cup {"0"}
           A == Seq(S)
<1>1. n \in Nat /\ DOMAIN sub = 1 .. n /\ DOMAIN t = 1 .. n
  BY SequenzaTipo DEF SubOK, Voci
<1>2. <<>> \in A
  BY EmptySeq
<1>3. ASSUME NEW k \in 1 .. n PROVE t[k] = [nome |-> sub[k].nome, file |-> k > 1 \/ ~sub[k].dir]
  BY <1>1, <1>3 DEF Voci
<1>4. ASSUME NEW a \in A, NEW k \in 1 .. n PROVE AccodaNome(a, t[k]) \in A
  <2> DEFINE f == sub[k].nome
             T == {f[i] : i \in DOMAIN f}
  <2>1. f \in Seq(T)
    BY DEF SubOK, VoceOK, Sequenza
  <2>2. T \subseteq S
    BY <1>1
  <2>3. "0" \in S
    OBVIOUS
  <2> HIDE DEF T, f, S
  <2>4. f \in Seq(S)
    BY <2>1, <2>2, SeqMonotonic
  <2>5. <<"0">> \in Seq(S)
    BY <2>3
  <2>6. a \o f \in Seq(S)
    BY <2>4, ConcatProperties
  <2>7. a \o f \o <<"0">> \in Seq(S)
    BY <2>5, <2>6, ConcatProperties
  <2>8. t[k].nome = f
    <3>1. PICK r : r = t[k]
      OBVIOUS
    <3> HIDE DEF t
    <3>2. r = [nome |-> f, file |-> k > 1 \/ ~sub[k].dir]
      BY <1>3, <3>1 DEF f
    <3> QED
      BY <3>1, <3>2
  <2> QED
    BY <2>7, <2>8 DEF AccodaNome
<1> HIDE DEF S
<1>5. PICK p : CicloNomi(p, A, <<>>, n, t)
  <2> HIDE DEF A, n, t
  <2> QED
    BY <1>1, <1>2, <1>4, PassiNomi
<1>6. ASSUME NEW k \in 0 .. n PROVE Sequenza(p[k])
  <2>1. p[k] \in A
    BY <1>5, <1>6 DEF CicloNomi
  <2> QED
    BY <2>1, SequenzaDi
<1>7. p[0] = <<>> /\ p[n] = Nomi2(sub) /\ \A k \in 1 .. n : p[k] = AccodaNome(p[k - 1], t[k])
  BY <1>5 DEF CicloNomi, Nomi2
<1>8. p[Salta(sub)] = <<>> /\ Salta(sub) \in 0 .. n
  <2>1. CASE sub # <<>> /\ sub[1].dir
    <3>1. n # 0
      BY <1>1, <2>1, EmptySeq DEF SubOK, Sequenza
    <3>2. 1 \in 1 .. n /\ ~t[1].file
      <4>1. PICK r : r = t[1]
        OBVIOUS
      <4>2. 1 \in 1 .. n
        BY <1>1, <3>1
      <4> HIDE DEF t, n
      <4>3. r = [nome |-> sub[1].nome, file |-> 1 > 1 \/ ~sub[1].dir]
        BY <1>3, <4>1, <4>2
      <4>4. (1 > 1 \/ ~sub[1].dir) = FALSE
        BY <2>1
      <4>5. ~r.file
        BY <4>3, <4>4
      <4> QED
        BY <4>1, <4>2, <4>5
    <3>3. p[1] = <<>>
      <4>1. p[1] = AccodaNome(p[0], t[1])
        BY <1>7, <3>2
      <4> QED
        BY <1>7, <3>2, <4>1 DEF AccodaNome
    <3> QED
      BY <1>1, <2>1, <3>2, <3>3 DEF Salta
  <2>2. CASE ~(sub # <<>> /\ sub[1].dir)
    BY <1>1, <1>7, <2>2 DEF Salta
  <2> QED
    BY <2>1, <2>2
<1>9. ASSUME NEW k \in Salta(sub) .. n - 1 PROVE PassoNomi(p, sub, k)
  <2>1. k \in 0 .. n /\ k + 1 \in 1 .. n /\ k + 1 - 1 = k /\ k + 1 \in 0 .. n
    BY <1>1, <1>8
  <2>2. k + 1 > 1 \/ ~sub[k + 1].dir
    <3>1. CASE Salta(sub) = 1
      BY <2>1, <3>1
    <3>2. CASE Salta(sub) = 0 /\ k = 0
      <4>1. sub # <<>>
        BY <1>1, <2>1, EmptySeq
      <4> QED
        BY <3>2, <4>1 DEF Salta
    <3>3. CASE k # 0
      BY <2>1, <3>3
    <3> QED
      BY <3>1, <3>2, <3>3 DEF Salta
  <2> DEFINE f == sub[k + 1].nome
             a == p[k]
             b == p[k + 1]
  <2>3. Sequenza(f)
    BY <2>1 DEF SubOK, VoceOK
  <2>4. t[k + 1] = [nome |-> f, file |-> TRUE]
    <3> HIDE DEF t, n
    <3>1. t[k + 1] = [nome |-> f, file |-> k + 1 > 1 \/ ~sub[k + 1].dir]
      BY <1>3, <2>1 DEF f
    <3>2. (k + 1 > 1 \/ ~sub[k + 1].dir) = TRUE
      BY <2>2
    <3> QED
      BY <3>1, <3>2
  <2>5. b = AccodaNome(a, t[k + 1]) /\ Sequenza(a)
    BY <1>6, <1>7, <2>1
  <2> HIDE DEF f, a, b, t, n
  <2>9. b = AccodaNome(a, [nome |-> f, file |-> TRUE])
    BY <2>4, <2>5
  <2>6. Accodato(a, f, b)
    BY <2>3, <2>5, <2>9, NomeAccodato
  <2>7. Len(a) <= Len(b)
    <3>1. Len(a) \in Nat /\ Len(f) \in Nat
      BY <2>3, <2>5, SequenzaTipo
    <3> QED
      BY <2>6, <3>1 DEF Accodato
  <2> QED
    BY <2>6, <2>7 DEF Accodato, PassoNomi, Inizia, f, a, b
<1> QED
  BY <1>6, <1>7, <1>8, <1>9 DEF GiroNomi

\* What was added stays at the beginning.
LEMMA InizianoTutti ==
  ASSUME NEW sub, SubOK(sub), NEW p, GiroNomi(p, sub)
  PROVE  \A j \in Salta(sub) .. Len(sub) : Inizia(p[j], p[Len(sub)])
<1> DEFINE n == Len(sub)
           m == Salta(sub)
           B == {k \in 0 .. n : \A j \in m .. k : Inizia(p[j], p[k])}
<1>1. n \in Nat /\ m \in {0, 1}
  BY SequenzaTipo DEF SubOK, Salta
<1>2. \A k \in 0 .. n : Len(p[k]) \in Nat
  BY SequenzaTipo DEF GiroNomi
<1>3. \A k \in m .. n - 1 : Inizia(p[k], p[k + 1])
  BY DEF GiroNomi, PassoNomi
<1> HIDE DEF m, n
<1>4. \A k \in 0 .. n : Inizia(p[k], p[k])
  BY <1>2 DEF Inizia
<1>5. 0 \in B
  BY <1>1, <1>4
<1>6. ASSUME NEW k \in 1 .. n, k - 1 \in B PROVE k \in B
  <2> SUFFICES ASSUME NEW j \in m .. k PROVE Inizia(p[j], p[k])
    BY <1>1
  <2>1. CASE j = k
    BY <1>1, <1>4, <2>1
  <2>2. CASE j # k
    <3> DEFINE i == k - 1
    <3>1. i \in m .. n - 1 /\ i + 1 = k /\ j \in m .. i /\ j \in 0 .. n /\ i \in 0 .. n /\ k \in 0 .. n
      BY <1>1, <2>2
    <3>2. Inizia(p[j], p[i])
      BY <1>6, <3>1
    <3> HIDE DEF i
    <3>3. Inizia(p[i], p[k])
      BY <1>3, <3>1
    <3>4. Len(p[j]) \in Nat /\ Len(p[i]) \in Nat /\ Len(p[k]) \in Nat
      BY <1>2, <3>1
    <3> QED
      BY <3>2, <3>3, <3>4 DEF Inizia
  <2> QED
    BY <2>1, <2>2
<1> HIDE DEF B
<1>7. \A k \in 0 .. n : k \in B
  BY <1>1, <1>5, <1>6, Induzione
<1>8. n \in B
  BY <1>1, <1>7
<1> QED
  BY <1>8 DEF B, n, m

\* The answer for a directory of one subdirectory.
LEMMA ElencoTipo ==
  ASSUME NEW d \in DOMAIN Albero, Len(Albero[d]) = 1, NEW sub, sub = Albero[d][1], NEW w, w = Elenco(d)
  PROVE  SubOK(sub) /\ \E P : Posizioni(w, sub, P)
<1>1. SubOK(sub) /\ DOMAIN Albero[d] = 1 .. 1
  BY AlberoTipo
<1>2. PICK p : GiroNomi(p, sub)
  BY <1>1, NomiGiro
<1>3. PICK v : v = Nomi2(sub)
  OBVIOUS
<1>4. w = <<"S">> \o (<<>> \o v \o <<"#">>)
  BY <1>1, <1>3, PassoSub DEF Elenco, AccodaSub
<1>5. PICK n : n = Len(sub)
  OBVIOUS
<1>6. PICK m : m = Salta(sub)
  OBVIOUS
<1>7. n \in Nat /\ m \in {0, 1} /\ m <= n
  <2>1. n \in Nat /\ (sub # <<>> => n # 0)
    BY <1>1, <1>5, SequenzaTipo, EmptySeq DEF SubOK, Sequenza
  <2> QED
    BY <1>6, <2>1 DEF Salta
<1>8. \A k \in 0 .. n : Sequenza(p[k]) /\ Len(p[k]) \in Nat
  BY <1>2, <1>5, SequenzaTipo DEF GiroNomi
<1>9. Sequenza(v) /\ Len(v) \in Nat /\ v = p[n]
  BY <1>2, <1>3, <1>5, <1>7, <1>8 DEF GiroNomi
<1>10. /\ Sequenza(w) /\ Len(w) = Len(v) + 2 /\ w[1] = "S" /\ w[Len(v) + 2] = "#"
       /\ \A i \in 1 .. Len(v) : w[i + 1] = v[i]
  <2> DEFINE u == v \o <<"#">>
             l == Len(v)
  <2>0. PICK h : h = <<"#">>
    OBVIOUS
  <2>1. Sequenza(h) /\ Len(h) = 1 /\ h[1] = "#" /\ Sequenza(<<"S">>) /\ Len(<<"S">>) = 1 /\ <<"S">>[1] = "S"
    BY <2>0, SequenzaUno
  <2>2. w = <<"S">> \o u
    BY <1>4, <1>9, ConcatEmptySeq DEF Sequenza
  <2>3. Sequenza(u) /\ Len(u) = l + 1 /\ \A i \in 1 .. l + 1 : u[i] = IF i <= l THEN v[i] ELSE h[i - l]
    BY <1>9, <2>0, <2>1, SequenzaConcat
  <2> HIDE DEF u
  <2>4. /\ Sequenza(w) /\ Len(w) = 1 + Len(u)
        /\ \A i \in 1 .. 1 + Len(u) : w[i] = IF i <= 1 THEN <<"S">>[i] ELSE u[i - 1]
    BY <2>1, <2>2, <2>3, SequenzaConcat
  <2>5. l \in Nat
    BY <1>9
  <2> HIDE DEF l
  <2>6. Len(w) = l + 2 /\ w[1] = "S"
    BY <2>1, <2>3, <2>4, <2>5
  <2>7. \A i \in 1 .. l + 1 : w[i + 1] = u[i]
    BY <2>3, <2>4, <2>5
  <2>8. \A i \in 1 .. l : w[i + 1] = v[i]
    BY <2>3, <2>5, <2>7
  <2>9. w[l + 2] = "#"
    <3>1. l + 1 \in 1 .. l + 1 /\ l + 1 + 1 = l + 2 /\ ~(l + 1 <= l) /\ l + 1 - l = 1
      BY <2>5
    <3>2. u[l + 1] = h[1]
      <4>1. PICK i : i = l + 1
        OBVIOUS
      <4>2. i \in 1 .. l + 1 /\ ~(i <= l) /\ i - l = 1
        BY <2>5, <4>1
      <4> QED
        BY <2>3, <4>1, <4>2
    <3>3. w[l + 1 + 1] = u[l + 1]
      BY <2>7, <3>1
    <3> QED
      BY <2>1, <3>1, <3>2, <3>3
  <2> QED
    BY <2>4, <2>6, <2>8, <2>9 DEF l
<1> DEFINE P == [k \in 0 .. n |-> Len(p[k]) + 1]
<1>11. \A k \in 0 .. n : P[k] = Len(p[k]) + 1
  OBVIOUS
<1> HIDE DEF P
<1>12. \A k \in m .. n : P[k] \in Nat \ {0} /\ P[k] <= P[n]
  <2> SUFFICES ASSUME NEW k \in m .. n PROVE P[k] \in Nat \ {0} /\ P[k] <= P[n]
    OBVIOUS
  <2>1. k \in 0 .. n /\ n \in 0 .. n
    BY <1>7
  <2>2. Len(p[k]) <= Len(p[n])
    BY <1>1, <1>2, <1>5, <1>6, InizianoTutti DEF Inizia
  <2> QED
    BY <1>8, <1>11, <2>1, <2>2
<1>13. P[m] = 1
  <2>1. p[m] = <<>>
    BY <1>2, <1>6 DEF GiroNomi
  <2>2. Len(p[m]) = 0 /\ m \in 0 .. n
    BY <1>7, <2>1, SequenzaVuota
  <2> QED
    BY <1>11, <2>2
<1>14. P[n] = Len(v) + 1
  BY <1>7, <1>9, <1>11
<1>15. ASSUME NEW k \in m .. n - 1 PROVE Scritta(w, sub, P, k)
  <2>1. k \in 0 .. n /\ k + 1 \in 0 .. n /\ k + 1 \in m .. n
    BY <1>7
  <2>2. PassoNomi(p, sub, k)
    BY <1>2, <1>5, <1>6 DEF GiroNomi
  <2>3. Inizia(p[k + 1], v)
    BY <1>1, <1>2, <1>5, <1>6, <1>9, <2>1, InizianoTutti
  <2> DEFINE f == sub[k + 1].nome
             a == p[k]
             b == p[k + 1]
             x == Len(a)
             y == Len(f)
  <2>4. x \in Nat /\ Len(b) \in Nat /\ y \in Nat
    <3>1. k + 1 \in 1 .. Len(sub)
      BY <1>5, <1>7
    <3>2. Sequenza(f)
      BY <1>1, <3>1 DEF SubOK, VoceOK
    <3> QED
      BY <1>8, <2>1, <3>2, SequenzaTipo
  <2>5. Len(b) = x + y + 1 /\ b[Len(b)] = "0" /\ \A i \in 1 .. y : b[x + i] = f[i]
    BY <2>2 DEF PassoNomi
  <2>6. Len(b) <= Len(v) /\ \A i \in 1 .. Len(b) : v[i] = b[i]
    BY <2>3 DEF Inizia
  <2>7. P[k] = x + 1 /\ P[k + 1] = Len(b) + 1
    BY <1>11, <2>1
  <2> HIDE DEF f, a, b, x, y
  <2>8. P[k + 1] = P[k] + y + 1
    BY <2>4, <2>5, <2>7
  <2>9. w[P[k + 1]] = "0"
    <3>1. Len(b) \in 1 .. Len(b) /\ Len(b) \in 1 .. Len(v)
      BY <1>9, <2>4, <2>5, <2>6
    <3> QED
      BY <1>10, <2>5, <2>6, <2>7, <3>1
  <2>10. ASSUME NEW i \in 1 .. y PROVE w[P[k] + i] = f[i]
    <3>0. x + i \in 1 .. Len(b) /\ x + 1 + i = x + i + 1
      BY <2>4, <2>5
    <3>1. x + i \in 1 .. Len(b) /\ x + i \in 1 .. Len(v) /\ P[k] + i = x + i + 1
      BY <1>9, <2>4, <2>6, <2>7, <3>0
    <3> QED
      BY <1>10, <2>5, <2>6, <3>1
  <2> QED
    BY <2>8, <2>9, <2>10 DEF Scritta, f, y
<1>16. Len(w) = P[n] + 1 /\ w[P[n] + 1] = "#"
  <2>1. P[n] + 1 = Len(v) + 2
    BY <1>9, <1>14
  <2> QED
    BY <1>10, <2>1
<1>17. Posizioni(w, sub, P)
  BY <1>5, <1>6, <1>10, <1>12, <1>13, <1>15, <1>16 DEF Posizioni
<1> QED
  BY <1>1, <1>17

\* The names printed so far, t of the entries of sub being done, and p of the
\* next one: a characters of the answer.
Letti(q, sub, P, t, p, a) ==
  /\ t \in Salta(sub) .. Len(sub)
  /\ Sequenza(q.nomi) /\ Len(q.nomi) = t - Salta(sub)
  /\ \A j \in 1 .. t - Salta(sub) : q.nomi[j] = sub[Salta(sub) + j].nome
  /\ Sequenza(p) /\ a = P[t] + Len(p)
  /\ t = Len(sub) => p = <<>>
  /\ t < Len(sub) => LET f == sub[t + 1].nome IN Len(p) <= Len(f) /\ \A i \in 1 .. Len(p) : p[i] = f[i]

InNomi(q, w, p, a) ==
  /\ q.dir \in DOMAIN Albero /\ q.esito = "S"
  /\ \E P, t : Posizioni(w, Albero[q.dir][1], P) /\ Letti(q, Albero[q.dir][1], P, t, p, a)

\* The child has written b characters of the answer, and a of them are read.
InElenco(c, q, a, b) ==
  LET w == Elenco(q.dir)
  IN  /\ a \in Nat /\ b \in Nat /\ a <= b /\ b <= Len(w)
      /\ su[c] = <<>> /\ giu[c] = SubSeq(w, a + 1, b) /\ uscita[c] = SubSeq(w, b + 1, Len(w))
      /\ lettura[c] = "esito" => a = 0 /\ q.nomi = <<>> /\ parziale[c] = <<>>
      /\ lettura[c] = "elenco" => InNomi(q, w, parziale[c], a)

\* The child has still to read the request.
InArrivoDir(c, q) ==
  /\ lettura[c] = "esito"
  /\ su[c] = q.dir /\ giu[c] = <<>> /\ uscita[c] = <<>> /\ q.nomi = <<>> /\ parziale[c] = <<>>
  /\ q.residuo = (Len(dir[c]) > Len(q.dir))

Domanda(e) == e.dir \in Domandate /\ e = [dir |-> e.dir, nomi |-> e.nomi, esito |-> e.esito, residuo |-> e.residuo]

BaseDir(c) ==
  /\ lettura[c] \in {"menu", "esito", "elenco", "fuori"}
  /\ Sequenza(elenco[c]) /\ \A k \in 1 .. Len(elenco[c]) : Domanda(elenco[c][k])
  /\ lettura[c] \in {"esito", "elenco"} => elenco[c] # <<>>

\* A client of which Regolare holds, and its child.  At the menu nothing is on
\* its way.
BuonaDir(c) ==
  /\ \A k \in 1 .. Len(elenco[c]) :
       k < Len(elenco[c]) \/ lettura[c] \in {"menu", "fuori"} => Elencata(elenco[c][k])
  /\ lettura[c] = "fuori" /\ elenco[c] = <<>> => ~processo[c] /\ uscita[c] = <<>> /\ parziale[c] = <<>>
  /\ lettura[c] # "fuori" => processo[c] /\ ~fineSu[c] /\ Sequenza(dir[c])
  /\ lettura[c] = "menu" => su[c] = <<>> /\ giu[c] = <<>> /\ uscita[c] = <<>> /\ parziale[c] = <<>>
  /\ lettura[c] \in {"esito", "elenco"} =>
       LET q == elenco[c][Len(elenco[c])]
       IN  InArrivoDir(c, q) \/ \E a, b : InElenco(c, q, a, b)

DirOK(c) == BaseDir(c) /\ (Regolare(elenco[c]) => BuonaDir(c))

DirTipi ==
  /\ su = [c \in Conn |-> su[c]] /\ giu = [c \in Conn |-> giu[c]] /\ fineSu = [c \in Conn |-> fineSu[c]]
  /\ lettura = [c \in Conn |-> lettura[c]] /\ elenco = [c \in Conn |-> elenco[c]]
  /\ parziale = [c \in Conn |-> parziale[c]] /\ processo = [c \in Conn |-> processo[c]]
  /\ dir = [c \in Conn |-> dir[c]] /\ uscita = [c \in Conn |-> uscita[c]]

DirInv == DirTipi /\ \A c \in ConnDirettori : DirOK(c)

\* A step of client c or of its child touches nothing of the others.
PassoDir(c) ==
  /\ \A d \in Conn \ {c} :
       /\ su'[d] = su[d] /\ giu'[d] = giu[d] /\ fineSu'[d] = fineSu[d] /\ lettura'[d] = lettura[d]
       /\ elenco'[d] = elenco[d] /\ parziale'[d] = parziale[d] /\ processo'[d] = processo[d]
       /\ dir'[d] = dir[d] /\ uscita'[d] = uscita[d]
  /\ DirTipi'

\* What is said of c is of its own variables.
LEMMA DirUguale ==
  ASSUME NEW d, su'[d] = su[d], giu'[d] = giu[d], fineSu'[d] = fineSu[d], lettura'[d] = lettura[d],
         elenco'[d] = elenco[d], parziale'[d] = parziale[d], processo'[d] = processo[d],
         dir'[d] = dir[d], uscita'[d] = uscita[d]
  PROVE  DirOK(d)' <=> DirOK(d)
<1>1. \A q : InArrivoDir(d, q)' <=> InArrivoDir(d, q)
  BY DEF InArrivoDir
<1>2. \A q, a, b : InElenco(d, q, a, b)' <=> InElenco(d, q, a, b)
  BY DEF InElenco
<1>3. BuonaDir(d)' <=> BuonaDir(d)
  BY <1>1, <1>2 DEF BuonaDir
<1>4. BaseDir(d)' <=> BaseDir(d)
  BY DEF BaseDir
<1> QED
  BY <1>3, <1>4 DEF DirOK

LEMMA AltroDir ==
  ASSUME DirInv, NEW c \in ConnDirettori, PassoDir(c), BaseDir(c)', Regolare(elenco[c])' => BuonaDir(c)'
  PROVE  DirInv'
<1>1. ASSUME NEW d \in ConnDirettori, d # c PROVE DirOK(d)'
  <2>1. d \in Conn \ {c}
    BY <1>1, DirettoriAssumption
  <2>2. DirOK(d)
    BY DEF DirInv
  <2>3. /\ su'[d] = su[d] /\ giu'[d] = giu[d] /\ fineSu'[d] = fineSu[d] /\ lettura'[d] = lettura[d]
        /\ elenco'[d] = elenco[d] /\ parziale'[d] = parziale[d] /\ processo'[d] = processo[d]
        /\ dir'[d] = dir[d] /\ uscita'[d] = uscita[d]
    BY <2>1 DEF PassoDir
  <2> QED
    BY <2>2, <2>3, DirUguale
<1>2. DirOK(c)'
  BY DEF DirOK
<1> QED
  BY <1>1, <1>2 DEF DirInv, PassoDir

\* The requests of c are as they were, and it does not wait.
LEMMA DirFermo ==
  ASSUME NEW c, BaseDir(c), BuonaDir(c), elenco'[c] = elenco[c], lettura'[c] \in {"menu", "fuori"},
         lettura[c] \in {"menu", "fuori"}, lettura'[c] = "fuori" => elenco[c] # <<>>,
         lettura'[c] = "menu" => /\ processo'[c] /\ ~fineSu'[c] /\ Sequenza(dir'[c])
                                 /\ su'[c] = <<>> /\ giu'[c] = <<>> /\ uscita'[c] = <<>> /\ parziale'[c] = <<>>
  PROVE  BuonaDir(c)'
BY DEF BaseDir, BuonaDir

LEMMA BaseFerma ==
  ASSUME NEW c, BaseDir(c), elenco'[c] = elenco[c],
         lettura'[c] = lettura[c] \/ lettura'[c] \in {"menu", "fuori"}
  PROVE  BaseDir(c)'
BY DEF BaseDir

LEMMA RegolareVuoto == Regolare(<<>>)
<1>1. \A k \in DOMAIN <<>> : FALSE
  BY EmptySeq
<1> QED
  BY <1>1 DEF Regolare

LEMMA acceptDirStep ==
  ASSUME DirInv, NEW c \in ConnDirettori, accept(c)
  PROVE  DirInv'
<1>1. c \in Conn
  BY DirettoriAssumption
<1>2. PICK r \in Residui : dir' = [dir EXCEPT ![c] = r]
  BY DEF accept
<1>3. Sequenza(r)
  BY NomeDir
<1>4. lettura[c] = "fuori" /\ elenco[c] = <<>> /\ elenco' = elenco /\ parziale' = parziale /\ uscita' = uscita
  BY DEF accept
<1>5. lettura'[c] = "menu" /\ processo'[c] /\ ~fineSu'[c] /\ dir'[c] = r /\ su'[c] = <<>> /\ giu'[c] = <<>>
  BY <1>1, <1>2 DEF accept, connect, DirInv, DirTipi
<1>6. BaseDir(c) /\ BuonaDir(c) /\ uscita[c] = <<>> /\ parziale[c] = <<>>
  <2>1. BaseDir(c) /\ BuonaDir(c)
    BY <1>4, RegolareVuoto DEF DirInv, DirOK
  <2> QED
    BY <1>4, <2>1 DEF BuonaDir
<1>7. PassoDir(c)
  BY <1>2 DEF PassoDir, accept, connect, DirInv, DirTipi
<1>8. BuonaDir(c)' /\ BaseDir(c)'
  BY <1>3, <1>4, <1>5, <1>6, DirFermo, BaseFerma
<1> QED
  BY <1>7, <1>8, AltroDir

LEMMA chiudi_dirStep ==
  ASSUME DirInv, NEW c \in ConnDirettori, chiudi_dir(c)
  PROVE  DirInv'
<1>1. c \in Conn /\ DirOK(c)
  BY DirettoriAssumption DEF DirInv
<1>2. lettura[c] = "menu" /\ elenco[c] # <<>> /\ elenco' = elenco /\ lettura'[c] = "fuori"
  BY <1>1 DEF chiudi_dir, DirInv, DirTipi
<1>3. PassoDir(c)
  BY DEF PassoDir, chiudi_dir, chiudeSu, DirInv, DirTipi
<1>4. BaseDir(c)'
  BY <1>1, <1>2, BaseFerma DEF DirOK
<1>5. Regolare(elenco[c])' => BuonaDir(c)'
  BY <1>1, <1>2, DirFermo DEF DirOK
<1> QED
  BY <1>3, <1>4, <1>5, AltroDir

\* A request at the end of the others.
Accresciuta(s, q, t) ==
  /\ Sequenza(t) /\ Len(t) = Len(s) + 1 /\ Len(s) \in Nat /\ t[Len(t)] = q /\ t # <<>>
  /\ \A k \in 1 .. Len(s) : t[k] = s[k]
  /\ Regolare(t) => Regolare(s)

LEMMA DomandaNuova ==
  ASSUME NEW s, Sequenza(s), NEW q, NEW t, t = Append(s, q)
  PROVE  Accresciuta(s, q, t)
<1>1. /\ Sequenza(t) /\ Len(t) = Len(s) + 1 /\ Len(s) \in Nat /\ t[Len(t)] = q
      /\ \A k \in 1 .. Len(s) : t[k] = s[k]
  BY SequenzaAppend, SequenzaTipo
<1>2. DOMAIN s = 1 .. Len(s) /\ DOMAIN t = 1 .. Len(s) + 1
  BY <1>1, SequenzaTipo
<1>3. t # <<>>
  <2>1. Len(<<>>) = 0
    BY SequenzaVuota
  <2> QED
    BY <1>1, <2>1
<1>4. Regolare(t) => Regolare(s)
  <2>1. \A k \in DOMAIN s : k \in DOMAIN t /\ t[k] = s[k]
    BY <1>1, <1>2
  <2> QED
    BY <2>1 DEF Regolare
<1> QED
  BY <1>1, <1>3, <1>4 DEF Accresciuta

\* The last request changed, but for what was asked.
Cambiata(s, r, t) ==
  /\ Sequenza(t) /\ Len(t) = Len(s) /\ Len(s) \in Nat \ {0} /\ t[Len(t)] = r /\ t # <<>>
  /\ \A k \in 1 .. Len(s) : k # Len(s) => t[k] = s[k]
  /\ Regolare(t) => Regolare(s)

LEMMA DomandaCambiata ==
  ASSUME NEW s, Sequenza(s), s # <<>>, NEW q, q = s[Len(s)], NEW r, r.dir = q.dir, r.residuo = q.residuo,
         NEW t, t = [s EXCEPT ![Len(s)] = r]
  PROVE  Cambiata(s, r, t)
<1>1. PICK l : l = Len(s)
  OBVIOUS
<1>2. l \in Nat \ {0} /\ DOMAIN s = 1 .. l
  BY <1>1, SequenzaTipo, EmptySeq DEF Sequenza
<1>3. t = [s EXCEPT ![l] = r] /\ l \in DOMAIN s
  BY <1>1, <1>2
<1>4. DOMAIN t = DOMAIN s /\ t = [i \in DOMAIN s |-> t[i]] /\ t[l] = r /\ \A k \in DOMAIN s : k # l => t[k] = s[k]
  BY <1>3
<1>5. DOMAIN t = 1 .. l /\ t = [i \in 1 .. l |-> t[i]]
  BY <1>2, <1>4
<1>6. Sequenza(t) /\ Len(t) = l
  BY <1>2, <1>5, SequenzaFunzione
<1>7. t # <<>>
  <2>1. Len(<<>>) = 0
    BY SequenzaVuota
  <2> QED
    BY <1>2, <1>6, <2>1
<1>8. Regolare(t) => Regolare(s)
  <2>1. \A k \in DOMAIN s : k \in DOMAIN t /\ t[k].dir = s[k].dir /\ t[k].residuo = s[k].residuo
    BY <1>1, <1>4
  <2> QED
    BY <2>1 DEF Regolare
<1> QED
  BY <1>1, <1>2, <1>4, <1>6, <1>7, <1>8 DEF Cambiata

LEMMA chiede_elencoStep ==
  ASSUME DirInv, NEW c \in ConnDirettori, chiede_elenco(c)
  PROVE  DirInv'
<1>1. c \in Conn /\ DirOK(c)
  BY DirettoriAssumption DEF DirInv
<1>2. PICK d \in Domandate :
        /\ scriveSu(c, d)
        /\ elenco' = [elenco EXCEPT ![c] = Append(@, [dir |-> d, nomi |-> <<>>, esito |-> "?",
                                                      residuo |-> Len(dir[c]) > Len(d)])]
  BY DEF chiede_elenco
<1>3. PICK q : q = [dir |-> d, nomi |-> <<>>, esito |-> "?", residuo |-> Len(dir[c]) > Len(d)]
  OBVIOUS
<1>4. PICK s : s = elenco[c]
  OBVIOUS
<1>5. q.dir = d /\ q.nomi = <<>> /\ q.residuo = (Len(dir[c]) > Len(d)) /\ Domanda(q)
  BY <1>3 DEF Domanda
<1>6. elenco' = [elenco EXCEPT ![c] = Append(s, q)]
  BY <1>2, <1>3, <1>4
<1>7. /\ lettura[c] = "menu" /\ lettura' = [lettura EXCEPT ![c] = "esito"]
      /\ UNCHANGED <<parziale, processo, dir, uscita, giu, fineSu, fineGiu>> /\ su' = [su EXCEPT ![c] = su[c] \o d]
  BY <1>2 DEF chiede_elenco, scriveSu
<1>8. PICK t : t = Append(s, q)
  OBVIOUS
<1>9. lettura'[c] = "esito" /\ elenco'[c] = t /\ su'[c] = su[c] \o d
  BY <1>1, <1>6, <1>7, <1>8 DEF DirInv, DirTipi
<1>10. PassoDir(c)
  BY <1>6, <1>7 DEF PassoDir, DirInv, DirTipi
<1>11. Sequenza(s) /\ \A k \in 1 .. Len(s) : Domanda(s[k])
  BY <1>1, <1>4 DEF DirOK, BaseDir
<1>12. /\ Sequenza(t) /\ Len(t) = Len(s) + 1 /\ Len(s) \in Nat /\ t[Len(t)] = q /\ t # <<>>
       /\ \A k \in 1 .. Len(s) : t[k] = s[k]
       /\ Regolare(t) => Regolare(s)
  <2>1. Accresciuta(s, q, t)
    BY <1>8, <1>11, DomandaNuova
  <2> QED
    BY <2>1 DEF Accresciuta
<1>13. \A k \in 1 .. Len(t) : k = Len(t) \/ k \in 1 .. Len(s)
  BY <1>12
<1>14. BaseDir(c)'
  <2>1. \A k \in 1 .. Len(t) : Domanda(t[k])
    BY <1>5, <1>11, <1>12, <1>13
  <2> QED
    BY <1>9, <1>12, <2>1 DEF BaseDir
<1>15. ASSUME Regolare(t) PROVE BuonaDir(c)'
  <2>1. BuonaDir(c)
    BY <1>1, <1>4, <1>12, <1>15 DEF DirOK
  <2>2. /\ su[c] = <<>> /\ giu[c] = <<>> /\ uscita[c] = <<>> /\ parziale[c] = <<>> /\ processo[c] /\ ~fineSu[c]
        /\ Sequenza(dir[c]) /\ \A k \in 1 .. Len(s) : Elencata(s[k])
    BY <1>4, <1>7, <2>1 DEF BuonaDir
  <2>3. su'[c] = d
    <3>1. Sequenza(d)
      BY NomeDir
    <3> QED
      BY <1>9, <2>2, <3>1, ConcatEmptySeq DEF Sequenza
  <2>4. InArrivoDir(c, q)'
    BY <1>5, <1>7, <1>9, <2>2, <2>3 DEF InArrivoDir
  <2>5. \A k \in 1 .. Len(t) : k < Len(t) => Elencata(t[k])
    BY <1>12, <1>13, <2>2
  <2>6. (elenco[c][Len(elenco[c])])' = q
    BY <1>9, <1>12
  <2>7. processo'[c] /\ ~fineSu'[c] /\ Sequenza(dir'[c])
    BY <1>7, <2>2
  <2> QED
    BY <1>9, <2>4, <2>5, <2>6, <2>7 DEF BuonaDir
<1> QED
  BY <1>9, <1>10, <1>14, <1>15, AltroDir

\* What Regolare says of one request.
RegolareQ(q) ==
  /\ ~q.residuo /\ q.dir # <<>>
  /\ q.dir \in DOMAIN Albero =>
       LET sub == Albero[q.dir][1]
       IN  Len(Albero[q.dir]) = 1 /\ \A j \in 1 .. Len(sub) : \A i \in 1 .. Len(sub[j].nome) : sub[j].nome[i] # "#"

LEMMA RegolareUltima ==
  ASSUME NEW s, Sequenza(s), s # <<>>, Regolare(s)
  PROVE  RegolareQ(s[Len(s)])
<1>1. PICK q : q = s[Len(s)]
  OBVIOUS
<1>2. Len(s) \in DOMAIN s
  <2>1. Len(s) \in Nat \ {0} /\ DOMAIN s = 1 .. Len(s)
    BY SequenzaTipo, EmptySeq DEF Sequenza
  <2> QED
    BY <2>1
<1>3. /\ ~q.residuo /\ q.dir # <<>>
      /\ q.dir \in DOMAIN Albero =>
           /\ Len(Albero[q.dir]) = 1
           /\ \A j \in DOMAIN Albero[q.dir][1] : "#" \notin Range(Albero[q.dir][1][j].nome)
  BY <1>1, <1>2 DEF Regolare
<1>4. ASSUME q.dir \in DOMAIN Albero
      PROVE  LET sub == Albero[q.dir][1]
             IN  \A j \in 1 .. Len(sub) : \A i \in 1 .. Len(sub[j].nome) : sub[j].nome[i] # "#"
  <2>1. PICK sub : sub = Albero[q.dir][1]
    OBVIOUS
  <2>2. SubOK(sub)
    BY <1>3, <1>4, <2>1, AlberoTipo
  <2>3. ASSUME NEW j \in 1 .. Len(sub), NEW i \in 1 .. Len(sub[j].nome) PROVE sub[j].nome[i] # "#"
    <3>1. PICK f : f = sub[j].nome
      OBVIOUS
    <3>2. Sequenza(f) /\ j \in DOMAIN sub
      BY <2>2, <3>1, SequenzaTipo DEF SubOK, VoceOK
    <3>3. "#" \notin Range(f)
      BY <1>3, <1>4, <2>1, <3>1, <3>2
    <3>4. i \in DOMAIN f
      BY <3>1, <3>2, SequenzaTipo
    <3> QED
      BY <3>1, <3>3, <3>4 DEF Range
  <2> QED
    BY <2>1, <2>3
<1>5. RegolareQ(q)
  BY <1>3, <1>4 DEF RegolareQ
<1> QED
  BY <1>1, <1>5

\* The answer to such a request.
RispostaDir(q, w) ==
  /\ Sequenza(w) /\ Len(w) \in Nat \ {0}
  /\ q.dir \in DOMAIN Albero => w[1] = "S"
  /\ q.dir \notin DOMAIN Albero => Len(w) = 1 /\ w[1] = "N"

LEMMA RispostaTipo ==
  ASSUME NEW q, RegolareQ(q), NEW w, w = Elenco(q.dir)
  PROVE  RispostaDir(q, w)
<1>1. CASE q.dir \notin DOMAIN Albero
  <2>1. w = <<"N">>
    BY <1>1 DEF Elenco
  <2>2. Sequenza(<<"N">>) /\ Len(<<"N">>) = 1 /\ <<"N">>[1] = "N"
    BY SequenzaUno
  <2>3. Sequenza(w) /\ Len(w) = 1 /\ w[1] = "N"
    BY <2>1, <2>2
  <2> QED
    BY <1>1, <2>3 DEF RispostaDir
<1>2. CASE q.dir \in DOMAIN Albero
  <2>1. PICK sub : sub = Albero[q.dir][1]
    OBVIOUS
  <2>2. PICK P : SubOK(sub) /\ Posizioni(w, sub, P)
    BY <1>2, <2>1, ElencoTipo DEF RegolareQ
  <2>3. Sequenza(w) /\ w[1] = "S" /\ Len(w) = P[Len(sub)] + 1
    BY <2>2 DEF Posizioni
  <2>4. Len(sub) \in Nat /\ Salta(sub) <= Len(sub) /\ Salta(sub) \in {0, 1}
    BY <2>2, SequenzaTipo, EmptySeq DEF SubOK, Sequenza, Salta
  <2>5. P[Len(sub)] \in Nat
    BY <2>2, <2>4 DEF Posizioni
  <2> QED
    BY <1>2, <2>3, <2>5 DEF RispostaDir
<1> QED
  BY <1>1, <1>2

\* When all entries are done, the names are those expected.
LEMMA NomiTutti ==
  ASSUME NEW sub, SubOK(sub), NEW s, Sequenza(s), Len(s) = Len(sub) - Salta(sub),
         \A j \in 1 .. Len(sub) - Salta(sub) : s[j] = sub[Salta(sub) + j].nome
  PROVE  s = NomiAttesi(sub)
<1>1. PICK v : v = IF sub # <<>> /\ sub[1].dir THEN Tail(sub) ELSE sub
  OBVIOUS
<1>2. PICK n : n = Len(sub) - Salta(sub)
  OBVIOUS
<1>3. Len(sub) \in Nat /\ DOMAIN sub = 1 .. Len(sub)
  BY SequenzaTipo DEF SubOK
<1>4. n \in Nat /\ DOMAIN v = 1 .. n /\ \A j \in 1 .. n : v[j] = sub[Salta(sub) + j]
  <2>1. CASE sub # <<>> /\ sub[1].dir
    <3> DEFINE l == Len(sub)
    <3>1. v = Tail(sub) /\ Salta(sub) = 1 /\ n = l - 1
      BY <1>1, <1>2, <2>1 DEF Salta
    <3>2. l \in Nat \ {0}
      BY <1>3, <2>1, EmptySeq DEF SubOK, Sequenza
    <3>3. Sequenza(v) /\ Len(v) = l - 1 /\ \A j \in 1 .. l - 1 : v[j] = sub[j + 1]
      <4>1. sub \in Seq({sub[i] : i \in DOMAIN sub})
        BY DEF SubOK, Sequenza
      <4> DEFINE S == {sub[i] : i \in DOMAIN sub}
      <4> HIDE DEF S
      <4>2. Tail(sub) \in Seq(S) /\ Len(Tail(sub)) = Len(sub) - 1 /\ \A i \in 1 .. Len(sub) - 1 : Tail(sub)[i] = sub[i + 1]
        BY <2>1, <4>1, HeadTailProperties DEF S
      <4> QED
        BY <3>1, <4>2, SequenzaDi
    <3>4. DOMAIN v = 1 .. l - 1
      BY <3>3, SequenzaTipo
    <3> HIDE DEF l
    <3> QED
      BY <3>1, <3>2, <3>3, <3>4
  <2>2. CASE ~(sub # <<>> /\ sub[1].dir)
    <3>1. v = sub /\ Salta(sub) = 0
      BY <1>1, <2>2 DEF Salta
    <3> QED
      BY <1>2, <1>3, <3>1
  <2> QED
    BY <2>1, <2>2
<1>5. DOMAIN s = 1 .. n /\ s = [j \in DOMAIN s |-> s[j]]
  BY <1>2, <1>4, SequenzaTipo DEF Sequenza
<1>6. \A j \in 1 .. n : s[j] = v[j].nome
  BY <1>2, <1>4
<1>7. s = [j \in DOMAIN v |-> v[j].nome]
  <2>1. s = [j \in 1 .. n |-> s[j]]
    BY <1>5
  <2> QED
    BY <1>4, <1>6, <2>1
<1> QED
  BY <1>1, <1>7 DEF NomiAttesi

\* The child reads a name over the last one, and has its whole answer to write.
LEMMA leggi_dirStep ==
  ASSUME DirInv, NEW c \in ConnDirettori, leggi_dir(c)
  PROVE  DirInv'
<1>1. c \in Conn /\ DirOK(c)
  BY DirettoriAssumption DEF DirInv
<1>2. /\ processo[c] /\ su[c] # <<>>
      /\ UNCHANGED <<lettura, elenco, parziale, processo, giu, fineSu, fineGiu>>
      /\ su' = [su EXCEPT ![c] = SubSeq(su[c], Len(su[c]) + 1, Len(su[c]))]
      /\ dir' = [dir EXCEPT ![c] = su[c] \o SubSeq(@, Len(su[c]) + 1, Len(@))]
      /\ uscita' = [uscita EXCEPT ![c] = Elenco(dir'[c])]
  BY DEF leggi_dir, leggeSu
<1>3. PassoDir(c)
  BY <1>2 DEF PassoDir, DirInv, DirTipi
<1>4. BaseDir(c)'
  BY <1>1, <1>2, BaseFerma DEF DirOK
<1>5. ASSUME Regolare(elenco[c]) PROVE BuonaDir(c)'
  <2>0. BaseDir(c) /\ BuonaDir(c)
    BY <1>1, <1>5 DEF DirOK
  <2>1. CASE lettura[c] = "fuori"
    <3>1. elenco[c] # <<>>
      BY <1>2, <2>0, <2>1 DEF BuonaDir
    <3> QED
      BY <1>2, <2>0, <2>1, <3>1, DirFermo
  <2>2. CASE lettura[c] \in {"esito", "elenco"}
    <3>1. PICK q : q = elenco[c][Len(elenco[c])]
      OBVIOUS
    <3>2. elenco[c] # <<>> /\ (InArrivoDir(c, q) \/ \E a, b : InElenco(c, q, a, b))
      BY <2>0, <2>2, <3>1 DEF BaseDir, BuonaDir
    <3>3. InArrivoDir(c, q)
      BY <1>2, <3>2 DEF InElenco
    <3>4. RegolareQ(q)
      BY <1>5, <2>0, <3>1, <3>2, RegolareUltima DEF BaseDir
    <3>5. PICK s : s = su[c]
      OBVIOUS
    <3>6. PICK v : v = dir[c]
      OBVIOUS
    <3>7. /\ lettura[c] = "esito" /\ q.dir = s /\ Sequenza(v) /\ q.residuo = (Len(v) > Len(s)) /\ q.nomi = <<>>
          /\ giu[c] = <<>> /\ parziale[c] = <<>> /\ ~fineSu[c]
      BY <2>0, <2>2, <3>3, <3>5, <3>6 DEF InArrivoDir, BuonaDir
    <3>8. Sequenza(s)
      <4>1. Len(elenco[c]) \in 1 .. Len(elenco[c])
        <5> DEFINE t == elenco[c]
        <5>1. Sequenza(t) /\ t # <<>>
          BY <2>0, <3>2 DEF BaseDir
        <5> HIDE DEF t
        <5>2. Len(t) \in Nat /\ Len(t) # 0
          BY <5>1, EmptySeq DEF Sequenza
        <5> QED
          BY <5>2 DEF t
      <4>2. Domanda(q)
        BY <2>0, <3>1, <4>1 DEF BaseDir
      <4> QED
        BY <3>7, <4>2, NomeDir DEF Domanda
    <3>9. PICK n : n = s \o SubSeq(v, Len(s) + 1, Len(v))
      OBVIOUS
    <3>10. n = s
      <4>1. Len(v) \in Nat /\ Len(s) \in Nat
        BY <3>7, <3>8, SequenzaTipo
      <4>2. ~(Len(v) > Len(s))
        BY <3>4, <3>7, Zenon DEF RegolareQ
      <4> DEFINE x == Len(v)
                 y == Len(s)
      <4>3. x \in Nat /\ y \in Nat /\ ~(x > y)
        BY <4>1, <4>2
      <4> HIDE DEF x, y
      <4>4. x <= y
        BY <4>3
      <4> QED
        BY <3>7, <3>8, <3>9, <4>4, NomeSopra DEF x, y
    <3>11. PICK w : w = Elenco(s)
      OBVIOUS
    <3>12. dir'[c] = s /\ uscita'[c] = w /\ su'[c] = SubSeq(s, Len(s) + 1, Len(s)) /\ giu'[c] = <<>>
      BY <1>1, <1>2, <3>5, <3>6, <3>7, <3>9, <3>10, <3>11 DEF DirInv, DirTipi
    <3>13. Sequenza(w) /\ Len(w) \in Nat \ {0}
      BY <3>4, <3>7, <3>11, RispostaTipo DEF RispostaDir
    <3> DEFINE z == 0
    <3>14. z = 0 /\ z \in Nat /\ z <= Len(w) /\ z <= z /\ z + 1 = 1
      BY <3>13
    <3>15. SubSeq(s, Len(s) + 1, Len(s)) = <<>> /\ SubSeq(w, z + 1, z) = <<>>
      BY <3>8, SubSeqEmpty, SequenzaTipo
    <3>16. SubSeq(w, 1, Len(w)) = w
      BY <3>13, SubSeqFull DEF Sequenza
    <3> HIDE DEF z
    <3>17. InElenco(c, q, z, z)'
      BY <1>2, <3>7, <3>11, <3>12, <3>14, <3>15, <3>16 DEF InElenco
    <3>18. processo'[c] /\ ~fineSu'[c] /\ Sequenza(dir'[c])
      BY <1>2, <3>7, <3>8, <3>12
    <3>19. lettura'[c] = "esito" /\ elenco'[c] = elenco[c]
      BY <1>2, <3>7
    <3> QED
      BY <2>0, <2>2, <3>1, <3>17, <3>18, <3>19 DEF BuonaDir
  <2>3. lettura[c] # "menu"
    BY <1>2, <2>0 DEF BuonaDir
  <2> QED
    BY <2>0, <2>1, <2>2, <2>3 DEF BaseDir
<1> QED
  BY <1>2, <1>3, <1>4, <1>5, AltroDir

LEMMA scrivi_elencoStep ==
  ASSUME DirInv, NEW c \in ConnDirettori, scrivi_elenco(c)
  PROVE  DirInv'
<1>1. c \in Conn /\ DirOK(c)
  BY DirettoriAssumption DEF DirInv
<1>2. processo[c] /\ UNCHANGED <<lettura, elenco, parziale, dir>>
  BY DEF scrivi_elenco
<1>3. PassoDir(c)
  BY DEF PassoDir, scrivi_elenco, scriveGiu, chiudeGiu, DirInv, DirTipi
<1>4. BaseDir(c)'
  BY <1>1, <1>2, BaseFerma DEF DirOK
<1>5. ASSUME Regolare(elenco[c]) PROVE BuonaDir(c)'
  <2>0. BaseDir(c) /\ BuonaDir(c)
    BY <1>1, <1>5 DEF DirOK
  <2>1. CASE lettura[c] = "fuori"
    <3>1. elenco[c] # <<>>
      BY <1>2, <2>0, <2>1 DEF BuonaDir
    <3> QED
      BY <1>2, <2>0, <2>1, <3>1, DirFermo
  <2>2. CASE lettura[c] # "fuori"
    <3>1. /\ uscita[c] # <<>> /\ scriveGiu(c, <<Head(uscita[c])>>)
          /\ uscita' = [uscita EXCEPT ![c] = Tail(@)] /\ UNCHANGED processo
      BY <2>0, <2>2 DEF scrivi_elenco, EofSu, BuonaDir
    <3>2. lettura[c] \in {"esito", "elenco"}
      BY <2>0, <2>2, <3>1 DEF BaseDir, BuonaDir
    <3>3. PICK q : q = elenco[c][Len(elenco[c])]
      OBVIOUS
    <3>4. elenco[c] # <<>> /\ \E a, b : InElenco(c, q, a, b)
      BY <2>0, <3>1, <3>2, <3>3 DEF BaseDir, BuonaDir, InArrivoDir
    <3>5. PICK a, b : InElenco(c, q, a, b)
      BY <3>4
    <3>6. PICK w : w = Elenco(q.dir)
      OBVIOUS
    <3>7. RispostaDir(q, w)
      BY <1>5, <2>0, <3>3, <3>4, <3>6, RegolareUltima, RispostaTipo DEF BaseDir
    <3>8. Sequenza(w) /\ Len(w) \in Nat /\ a \in Nat /\ b \in Nat /\ a <= b /\ b <= Len(w)
      BY <3>5, <3>6, <3>7 DEF InElenco, RispostaDir
    <3>9. su[c] = <<>> /\ giu[c] = SubSeq(w, a + 1, b) /\ uscita[c] = SubSeq(w, b + 1, Len(w))
      BY <3>5, <3>6 DEF InElenco
    <3>10. b < Len(w) /\ Head(uscita[c]) = w[b + 1] /\ Tail(uscita[c]) = SubSeq(w, b + 2, Len(w))
      BY <3>1, <3>8, <3>9, CodaLetta
    <3>11. giu'[c] = SubSeq(w, a + 1, b + 1) /\ uscita'[c] = SubSeq(w, b + 2, Len(w)) /\ su'[c] = <<>>
      <4>1. SubSeq(w, a + 1, b) \o <<w[b + 1]>> = SubSeq(w, a + 1, b + 1)
        BY <3>8, <3>10, PezzoScritto
      <4> QED
        BY <1>1, <3>1, <3>9, <3>10, <4>1 DEF scriveGiu, DirInv, DirTipi
    <3>12. InElenco(c, q, a, b + 1)'
      <4>1. b + 1 \in Nat /\ a <= b + 1 /\ b + 1 <= Len(w) /\ b + 1 + 1 = b + 2
        BY <3>8, <3>10
      <4> QED
        BY <1>2, <3>5, <3>6, <3>11, <4>1 DEF InElenco
    <3>13. processo'[c] /\ ~fineSu'[c] /\ Sequenza(dir'[c])
      BY <1>2, <2>0, <2>2, <3>1 DEF BuonaDir, scriveGiu
    <3> QED
      BY <1>2, <2>0, <3>2, <3>3, <3>12, <3>13 DEF BuonaDir
  <2> QED
    BY <2>1, <2>2
<1> QED
  BY <1>2, <1>3, <1>4, <1>5, AltroDir

\* The next character of the answer is taken.
LEMMA GiuLetto ==
  ASSUME NEW w, Sequenza(w), NEW a \in Nat, NEW b \in Nat, a <= b, b <= Len(w), NEW g, g = SubSeq(w, a + 1, b), g # <<>>
  PROVE  a < b /\ Head(g) = w[a + 1] /\ SubSeq(g, 2, Len(g)) = SubSeq(w, a + 2, b)
<1>1. Pezzo(w, a, b)
  BY PezzoLetto
<1>2. a # b
  BY <1>1 DEF Pezzo
<1>3. a < b
  BY <1>2
<1> QED
  BY <1>1, <1>3 DEF Pezzo

\* A character read at the place a + 1 of the answer w to q.
LettoDir(c, q, w, a, b) ==
  /\ InElenco(c, q, a, b) /\ Sequenza(w) /\ Len(w) \in Nat
  /\ a \in Nat /\ b \in Nat /\ a < b /\ b <= Len(w) /\ a + 1 + 1 = a + 2
  /\ Head(giu[c]) = w[a + 1] /\ giu'[c] = SubSeq(w, a + 2, b)
  /\ su'[c] = <<>> /\ uscita[c] = SubSeq(w, b + 1, Len(w))

LEMMA LetturaDir ==
  ASSUME DirInv, NEW c \in ConnDirettori, Regolare(elenco[c]), lettura[c] \in {"esito", "elenco"}, leggeGiu(c, 1),
         NEW q, q = elenco[c][Len(elenco[c])], NEW w, w = Elenco(q.dir)
  PROVE  \E a, b : LettoDir(c, q, w, a, b)
<1>1. c \in Conn /\ BaseDir(c) /\ BuonaDir(c)
  BY DirettoriAssumption DEF DirInv, DirOK
<1>2. 1 <= Len(giu[c]) /\ giu' = [giu EXCEPT ![c] = SubSeq(@, 2, Len(@))] /\ su' = su
  BY DEF leggeGiu
<1>3. giu[c] # <<>>
  BY <1>2, SequenzaVuota
<1>4. PICK a, b : InElenco(c, q, a, b)
  BY <1>1, <1>3 DEF BuonaDir, InArrivoDir
<1>5. RispostaDir(q, w)
  BY <1>1, RegolareUltima, RispostaTipo DEF BaseDir
<1>6. Sequenza(w) /\ Len(w) \in Nat /\ a \in Nat /\ b \in Nat /\ a <= b /\ b <= Len(w)
  BY <1>4, <1>5 DEF InElenco, RispostaDir
<1>7. su[c] = <<>> /\ giu[c] = SubSeq(w, a + 1, b) /\ uscita[c] = SubSeq(w, b + 1, Len(w))
  BY <1>4 DEF InElenco
<1>10. PICK g : g = giu[c]
  OBVIOUS
<1>8. a < b /\ Head(g) = w[a + 1] /\ SubSeq(g, 2, Len(g)) = SubSeq(w, a + 2, b)
  <2>1. g = SubSeq(w, a + 1, b) /\ g # <<>>
    BY <1>3, <1>7, <1>10
  <2> QED
    BY <1>6, <2>1, GiuLetto
<1>9. giu'[c] = SubSeq(w, a + 2, b) /\ su'[c] = <<>>
  <2>1. giu'[c] = SubSeq(g, 2, Len(g)) /\ su'[c] = su[c]
    BY <1>1, <1>2, <1>10 DEF DirInv, DirTipi
  <2> QED
    BY <1>7, <1>8, <2>1
<1>11. a + 1 + 1 = a + 2
  BY <1>6
<1>12. LettoDir(c, q, w, a, b)
  BY <1>4, <1>6, <1>7, <1>8, <1>9, <1>10, <1>11 DEF LettoDir
<1> QED
  BY <1>12

\* The client has read the whole answer.
LEMMA TuttoLetto ==
  ASSUME NEW w, NEW a \in Nat, NEW b \in Nat, Len(w) = a + 1, a < b, b <= Len(w)
  PROVE  SubSeq(w, a + 2, b) = <<>> /\ SubSeq(w, b + 1, Len(w)) = <<>>
<1> DEFINE x == a + 2
           y == b + 1
           l == Len(w)
<1>1. x \in Int /\ y \in Int /\ l \in Int /\ b \in Int /\ x > b /\ y > l
  OBVIOUS
<1> HIDE DEF x, y, l
<1>2. SubSeq(w, x, b) = <<>> /\ SubSeq(w, y, l) = <<>>
  BY <1>1, SubSeqEmpty
<1> QED
  BY <1>2 DEF x, y, l

\* After S the names come; after anything else, nothing.
LEMMA leggi_esitoStep ==
  ASSUME DirInv, NEW c \in ConnDirettori, leggi_esito(c)
  PROVE  DirInv'
<1>1. c \in Conn /\ BaseDir(c)
  BY DirettoriAssumption DEF DirInv, DirOK
<1>2. PICK h : h = Head(giu[c])
  OBVIOUS
<1>3. /\ lettura[c] = "esito" /\ leggeGiu(c, 1)
      /\ lettura' = [lettura EXCEPT ![c] = IF h = "S" THEN "elenco" ELSE "menu"]
      /\ elenco' = [elenco EXCEPT ![c][Len(elenco[c])].esito = IF h = "S" THEN "S" ELSE "N"]
      /\ UNCHANGED <<parziale, processo, dir, uscita, fineSu>>
  BY <1>2 DEF leggi_esito, leggeGiu
<1>4. PICK s : s = elenco[c]
  OBVIOUS
<1>5. PICK q : q = s[Len(s)]
  OBVIOUS
<1>6. PICK r : r = [q EXCEPT !.esito = IF h = "S" THEN "S" ELSE "N"]
  OBVIOUS
<1>7. PICK t : t = [s EXCEPT ![Len(s)] = r]
  OBVIOUS
<1>8. lettura'[c] = (IF h = "S" THEN "elenco" ELSE "menu") /\ elenco'[c] = t
  <2>1. elenco'[c] = [s EXCEPT ![Len(s)] = r]
    BY <1>1, <1>3, <1>4, <1>5, <1>6 DEF DirInv, DirTipi
  <2> QED
    BY <1>1, <1>3, <1>7, <2>1 DEF DirInv, DirTipi
<1>9. PassoDir(c)
  BY <1>3 DEF PassoDir, leggeGiu, DirInv, DirTipi
<1>10. Sequenza(s) /\ s # <<>> /\ \A k \in 1 .. Len(s) : Domanda(s[k])
  BY <1>1, <1>3, <1>4 DEF BaseDir
<1>11. Len(s) \in Nat \ {0}
  BY <1>10, SequenzaTipo, EmptySeq DEF Sequenza
<1>12. Domanda(q)
  BY <1>5, <1>10, <1>11
<1>13. r.dir = q.dir /\ r.residuo = q.residuo /\ r.nomi = q.nomi /\ r.esito = (IF h = "S" THEN "S" ELSE "N") /\ Domanda(r)
  BY <1>6, <1>12 DEF Domanda
<1>14. Cambiata(s, r, t)
  BY <1>5, <1>7, <1>10, <1>13, DomandaCambiata
<1>15. BaseDir(c)'
  <2>1. \A k \in 1 .. Len(t) : Domanda(t[k])
    BY <1>10, <1>13, <1>14 DEF Cambiata
  <2> QED
    BY <1>8, <1>14, <2>1 DEF BaseDir, Cambiata
<1>16. ASSUME Regolare(t) PROVE BuonaDir(c)'
  <2>1. Regolare(s)
    BY <1>14, <1>16 DEF Cambiata
  <2>2. BuonaDir(c)
    BY <1>4, <2>1 DEF DirInv, DirOK
  <2>3. PICK w : w = Elenco(q.dir)
    OBVIOUS
  <2>0. PICK a, b : LettoDir(c, q, w, a, b)
    BY <1>3, <1>4, <1>5, <2>1, <2>3, LetturaDir
  <2>4. /\ InElenco(c, q, a, b) /\ Sequenza(w) /\ Len(w) \in Nat
        /\ a \in Nat /\ b \in Nat /\ a < b /\ b <= Len(w) /\ a + 1 + 1 = a + 2
        /\ h = w[a + 1] /\ giu'[c] = SubSeq(w, a + 2, b)
        /\ su'[c] = <<>> /\ uscita[c] = SubSeq(w, b + 1, Len(w))
    BY <1>2, <2>0 DEF LettoDir
  <2>5. RegolareQ(q) /\ RispostaDir(q, w)
    BY <1>5, <1>10, <2>1, <2>3, RegolareUltima, RispostaTipo
  <2>6. a = 0 /\ q.nomi = <<>> /\ parziale[c] = <<>>
    BY <1>3, <2>4 DEF InElenco
  <2>7. processo'[c] /\ ~fineSu'[c] /\ Sequenza(dir'[c]) /\ uscita'[c] = uscita[c] /\ parziale'[c] = <<>>
    BY <1>3, <2>2, <2>6 DEF BuonaDir
  <2>8. \A k \in 1 .. Len(s) : k # Len(s) => Elencata(s[k])
    BY <1>4, <1>11, <2>2 DEF BuonaDir
  <2>9. \A k \in 1 .. Len(t) : k # Len(t) => Elencata(t[k])
    BY <1>14, <2>8 DEF Cambiata
  <2>10. CASE q.dir \in DOMAIN Albero
    <3>1. h = "S"
      BY <2>4, <2>5, <2>6, <2>10 DEF RispostaDir
    <3>2. lettura'[c] = "elenco" /\ r.esito = "S"
      BY <1>8, <1>13, <3>1
    <3>3. PICK sub : sub = Albero[q.dir][1]
      OBVIOUS
    <3>4. PICK P : SubOK(sub) /\ Posizioni(w, sub, P)
      BY <2>3, <2>5, <2>10, <3>3, ElencoTipo DEF RegolareQ
    <3>5. PICK m : m = Salta(sub)
      OBVIOUS
    <3>6. Len(sub) \in Nat /\ m \in m .. Len(sub) /\ m - m = 0 /\ m \in Nat
      <4>1. Len(sub) \in Nat /\ (sub # <<>> => Len(sub) # 0)
        BY <3>4, SequenzaTipo, EmptySeq DEF SubOK, Sequenza
      <4> QED
        BY <3>5, <4>1 DEF Salta
    <3> DEFINE e == <<>>
    <3>7. Sequenza(e) /\ Len(e) = 0 /\ r.nomi = e
      BY <1>13, <2>6, SequenzaVuota
    <3> HIDE DEF e
    <3>8. P[m] = 1
      BY <3>4, <3>5 DEF Posizioni
    <3>9. Letti(r, sub, P, m, e, a + 1)
      <4>1. /\ \A j \in 1 .. m - m : r.nomi[j] = sub[m + j].nome
            /\ a + 1 = P[m] + Len(e)
        BY <2>6, <3>6, <3>7, <3>8
      <4>2. m < Len(sub) => LET f == sub[m + 1].nome IN Len(e) <= Len(f) /\ \A i \in 1 .. Len(e) : e[i] = f[i]
        <5> SUFFICES ASSUME m < Len(sub) PROVE LET f == sub[m + 1].nome IN Len(e) <= Len(f) /\ \A i \in 1 .. Len(e) : e[i] = f[i]
          OBVIOUS
        <5>1. m + 1 \in 1 .. Len(sub)
          BY <3>6
        <5>2. Len(sub[m + 1].nome) \in Nat
          BY <3>4, <5>1, SequenzaTipo DEF SubOK, VoceOK
        <5> QED
          BY <3>7, <5>2
      <4>3. Len(r.nomi) = m - m
        BY <3>6, <3>7
      <4>4. m = Len(sub) => e = <<>>
        BY DEF e
      <4> QED
        BY <3>5, <3>6, <3>7, <4>1, <4>2, <4>3, <4>4 DEF Letti
    <3>10. InNomi(r, w, e, a + 1)
      BY <1>13, <2>10, <3>2, <3>3, <3>4, <3>9 DEF InNomi
    <3>11. InElenco(c, r, a + 1, b)'
      <4>1. a + 1 \in Nat /\ a + 1 <= b /\ parziale'[c] = e
        BY <2>4, <2>7 DEF e
      <4>2. a + 1 + 1 = a + 2
        BY <2>4
      <4>3. w = Elenco(r.dir)
        BY <1>13, <2>3
      <4> QED
        BY <2>4, <2>7, <3>2, <3>10, <4>1, <4>2, <4>3 DEF InElenco
    <3>12. (elenco[c][Len(elenco[c])])' = r
      BY <1>8, <1>14 DEF Cambiata
    <3>13. lettura'[c] \in {"esito", "elenco"} /\ lettura'[c] \notin {"menu", "fuori"}
      BY <3>2
    <3>14. \A k \in 1 .. Len(t) : k < Len(t) => Elencata(t[k])
      BY <1>11, <1>14, <2>9 DEF Cambiata
    <3> QED
      BY <1>8, <2>7, <3>11, <3>12, <3>13, <3>14 DEF BuonaDir
  <2>11. CASE q.dir \notin DOMAIN Albero
    <3>1. h = "N" /\ Len(w) = a + 1
      BY <2>4, <2>5, <2>6, <2>11 DEF RispostaDir
    <3>2. lettura'[c] = "menu" /\ r.esito = "N"
      BY <1>8, <1>13, <3>1
    <3>3. Elencata(r)
      BY <1>13, <2>6, <2>11, <3>2 DEF Elencata
    <3>4. giu'[c] = <<>> /\ uscita'[c] = <<>>
      BY <2>4, <2>7, <3>1, TuttoLetto
    <3>5. \A k \in 1 .. Len(t) : Elencata(t[k])
      BY <1>14, <2>9, <3>3 DEF Cambiata
    <3> QED
      BY <1>8, <2>4, <2>7, <3>2, <3>4, <3>5 DEF BuonaDir
  <2> QED
    BY <2>10, <2>11
<1> QED
  BY <1>8, <1>9, <1>15, <1>16, AltroDir

\* The client takes one more character of the names.
AvantiNomi(q, w, sub, P, t, p, a) ==
  \/ /\ w[a + 1] = "#" /\ Len(w) = a + 1 /\ p = <<>> /\ q.nomi = NomiAttesi(sub)
  \/ /\ w[a + 1] \notin {"0", "#"} /\ Letti(q, sub, P, t, Append(p, w[a + 1]), a + 1)
  \/ /\ w[a + 1] = "0"
     /\ \A r : r.nomi = Append(q.nomi, p) => Letti(r, sub, P, t + 1, <<>>, a + 1)

LEMMA NomiAvanti ==
  ASSUME NEW q, RegolareQ(q), q.dir \in DOMAIN Albero, NEW sub, sub = Albero[q.dir][1], NEW w, NEW P,
         Posizioni(w, sub, P), NEW t, NEW p, NEW a \in Nat, Letti(q, sub, P, t, p, a)
  PROVE  AvantiNomi(q, w, sub, P, t, p, a)
<1>1. SubOK(sub)
  BY AlberoTipo DEF RegolareQ
<1>2. PICK n : n = Len(sub)
  OBVIOUS
<1>3. PICK m : m = Salta(sub)
  OBVIOUS
<1>4. n \in Nat /\ m \in {0, 1} /\ t \in m .. n /\ m <= n
  <2>1. n \in Nat /\ (sub # <<>> => n # 0)
    BY <1>1, <1>2, SequenzaTipo, EmptySeq DEF SubOK, Sequenza
  <2> QED
    BY <1>2, <1>3, <2>1 DEF Salta, Letti
<1>5. /\ Sequenza(q.nomi) /\ Len(q.nomi) = t - m /\ \A j \in 1 .. t - m : q.nomi[j] = sub[m + j].nome
      /\ Sequenza(p) /\ a = P[t] + Len(p) /\ P[t] \in Nat \ {0} /\ Len(p) \in Nat
  BY <1>2, <1>3, <1>4, SequenzaTipo DEF Letti, Posizioni
<1>6. CASE t = n
  <2>1. p = <<>> /\ a = P[n]
    <3>1. p = <<>>
      BY <1>2, <1>6 DEF Letti
    <3>2. Len(p) = 0
      BY <3>1, SequenzaVuota
    <3> QED
      BY <1>5, <1>6, <3>1, <3>2
  <2>2. w[a + 1] = "#" /\ Len(w) = a + 1
    BY <1>2, <2>1 DEF Posizioni
  <2>3. q.nomi = NomiAttesi(sub)
    BY <1>1, <1>2, <1>3, <1>5, <1>6, NomiTutti
  <2> QED
    BY <2>1, <2>2, <2>3 DEF AvantiNomi
<1>7. CASE t # n
  <2>1. t \in m .. n - 1 /\ t < n /\ t + 1 \in m .. n /\ t + 1 \in 1 .. n /\ t \in Nat
    BY <1>4, <1>7
  <2>2. PICK f : f = sub[t + 1].nome
    OBVIOUS
  <2>3. Sequenza(f) /\ Len(f) \in Nat /\ \A i \in 1 .. Len(f) : f[i] # "0" /\ f[i] # "#"
    <3>1. Sequenza(f) /\ \A i \in 1 .. Len(f) : f[i] # "0"
      BY <1>1, <1>2, <2>1, <2>2 DEF SubOK, VoceOK
    <3>2. \A i \in 1 .. Len(f) : f[i] # "#"
      BY <1>2, <2>1, <2>2 DEF RegolareQ
    <3> QED
      BY <3>1, <3>2, SequenzaTipo
  <2>4. Len(p) <= Len(f) /\ \A i \in 1 .. Len(p) : p[i] = f[i]
    BY <1>2, <2>1, <2>2 DEF Letti
  <2>5. P[t + 1] = P[t] + Len(f) + 1 /\ w[P[t + 1]] = "0" /\ \A i \in 1 .. Len(f) : w[P[t] + i] = f[i]
    BY <1>2, <1>3, <2>1, <2>2 DEF Posizioni, Scritta
  <2>6. CASE Len(p) < Len(f)
    <3>1. PICK l : l = Len(p) + 1
      OBVIOUS
    <3>2. l \in 1 .. Len(f) /\ P[t] + l = a + 1 /\ \A i \in 1 .. l : i \in 1 .. Len(p) \/ i = l
      <4> DEFINE x == Len(p)
                 y == Len(f)
                 z == P[t]
      <4>1. x \in Nat /\ y \in Nat /\ z \in Nat /\ a = z + x /\ l = x + 1 /\ x < y
        BY <1>5, <2>3, <2>6, <3>1
      <4> HIDE DEF x, y, z
      <4>2. l \in 1 .. y /\ z + l = a + 1 /\ \A i \in 1 .. l : i \in 1 .. x \/ i = l
        BY <4>1
      <4> QED
        BY <4>2 DEF x, y, z
    <3>3. w[a + 1] = f[l] /\ w[a + 1] \notin {"0", "#"}
      BY <2>3, <2>5, <3>2
    <3>4. PICK v : v = Append(p, f[l])
      OBVIOUS
    <3>5. Sequenza(v) /\ Len(v) = l /\ v[l] = f[l] /\ \A i \in 1 .. Len(p) : v[i] = p[i]
      BY <1>5, <3>1, <3>4, SequenzaAppend
    <3>6. \A i \in 1 .. Len(v) : v[i] = f[i]
      BY <2>4, <3>2, <3>5
    <3>7. a + 1 = P[t] + Len(v) /\ Len(v) <= Len(f)
      BY <3>2, <3>5
    <3>8. Letti(q, sub, P, t, v, a + 1)
      BY <1>2, <1>3, <1>4, <1>5, <1>7, <2>2, <3>5, <3>6, <3>7 DEF Letti
    <3> QED
      BY <3>3, <3>4, <3>8 DEF AvantiNomi
  <2>7. CASE Len(p) = Len(f)
    <3>1. p = f
      BY <1>5, <2>3, <2>4, <2>7, SequenzeUguali
    <3>2. a + 1 = P[t + 1] /\ w[a + 1] = "0"
      BY <1>5, <2>5, <2>7
    <3>3. ASSUME NEW r, r.nomi = Append(q.nomi, p) PROVE Letti(r, sub, P, t + 1, <<>>, a + 1)
      <4>1. PICK v : v = Append(q.nomi, p)
        OBVIOUS
      <4>2. PICK u : u = q.nomi
        OBVIOUS
      <4>3. Sequenza(v) /\ Len(v) = Len(u) + 1 /\ v[Len(u) + 1] = p /\ \A j \in 1 .. Len(u) : v[j] = u[j]
        BY <1>5, <4>1, <4>2, SequenzaAppend
      <4>4. Len(u) = t - m /\ \A j \in 1 .. t - m : u[j] = sub[m + j].nome
        BY <1>5, <4>2
      <4>5. t - m \in Nat /\ t - m + 1 = t + 1 - m /\ m + (t - m + 1) = t + 1
        BY <1>4
      <4>6. \A j \in 1 .. t + 1 - m : j \in 1 .. t - m \/ j = t - m + 1
        BY <4>5
      <4>7. \A j \in 1 .. t + 1 - m : v[j] = sub[m + j].nome
        <5> SUFFICES ASSUME NEW j \in 1 .. t + 1 - m PROVE v[j] = sub[m + j].nome
          OBVIOUS
        <5>1. CASE j \in 1 .. t - m
          BY <4>3, <4>4, <5>1
        <5>2. CASE j = t - m + 1
          <6>1. v[j] = p /\ m + j = t + 1
            BY <4>3, <4>4, <4>5, <5>2
          <6> QED
            BY <2>2, <3>1, <6>1
        <5> QED
          BY <4>6, <5>1, <5>2
      <4>8. Len(v) = t + 1 - m
        BY <4>3, <4>4, <4>5
      <4> DEFINE e == <<>>
      <4>9. Sequenza(e) /\ Len(e) = 0
        BY SequenzaVuota
      <4>10. t + 1 = n => e = <<>>
        OBVIOUS
      <4> HIDE DEF e
      <4>11. P[t + 1] \in Nat
        BY <1>2, <1>3, <2>1 DEF Posizioni
      <4>12. a + 1 = P[t + 1] + Len(e)
        BY <3>2, <4>9, <4>11
      <4>13. t + 1 < n => LET g == sub[t + 1 + 1].nome IN Len(e) <= Len(g) /\ \A i \in 1 .. Len(e) : e[i] = g[i]
        <5> SUFFICES ASSUME t + 1 < n PROVE LET g == sub[t + 1 + 1].nome IN Len(e) <= Len(g) /\ \A i \in 1 .. Len(e) : e[i] = g[i]
          OBVIOUS
        <5>1. t + 1 + 1 \in 1 .. n
          BY <1>4, <2>1
        <5>2. Len(sub[t + 1 + 1].nome) \in Nat
          BY <1>1, <1>2, <5>1, SequenzaTipo DEF SubOK, VoceOK
        <5> QED
          BY <4>9, <5>2
      <4>14. r.nomi = v
        BY <3>3, <4>1
      <4>15. Letti(r, sub, P, t + 1, e, a + 1)
        <5>1. PICK s : s = t + 1
          OBVIOUS
        <5>2. s \in Salta(sub) .. Len(sub)
          BY <1>2, <1>3, <2>1, <5>1
        <5>3. Sequenza(r.nomi) /\ Len(r.nomi) = s - Salta(sub)
          <6>1. Sequenza(r.nomi) /\ Len(r.nomi) = t + 1 - m
            BY <4>3, <4>8, <4>14
          <6> QED
            BY <1>3, <1>4, <2>1, <5>1, <6>1
        <5>4. \A j \in 1 .. s - Salta(sub) : r.nomi[j] = sub[Salta(sub) + j].nome
          <6>1. \A j \in 1 .. t + 1 - m : r.nomi[j] = sub[m + j].nome
            BY <4>7, <4>14
          <6> QED
            BY <1>3, <1>4, <2>1, <5>1, <6>1
        <5>5. a + 1 = P[s] + Len(e)
          BY <4>12, <5>1
        <5>6. s = Len(sub) => e = <<>>
          BY <1>2, <4>10, <5>1
        <5>7. s < Len(sub) => LET g == sub[s + 1].nome IN Len(e) <= Len(g) /\ \A i \in 1 .. Len(e) : e[i] = g[i]
          BY <1>2, <4>13, <5>1
        <5>8. Letti(r, sub, P, s, e, a + 1)
          BY <4>9, <5>2, <5>3, <5>4, <5>5, <5>6, <5>7, Zenon DEF Letti
        <5> QED
          BY <5>1, <5>8
      <4> QED
        BY <4>15 DEF e
    <3> QED
      BY <3>2, <3>3 DEF AvantiNomi
  <2> QED
    BY <1>5, <2>3, <2>4, <2>6, <2>7
<1> QED
  BY <1>6, <1>7

\* The client prints names up to a #: then the answer is over.
LEMMA leggi_nomiStep ==
  ASSUME DirInv, NEW c \in ConnDirettori, leggi_nomi(c)
  PROVE  DirInv'
<1>1. c \in Conn /\ BaseDir(c)
  BY DirettoriAssumption DEF DirInv, DirOK
<1>2. PICK h : h = Head(giu[c])
  OBVIOUS
<1>3. PICK p : p = parziale[c]
  OBVIOUS
<1>4. PICK s : s = elenco[c]
  OBVIOUS
<1>5. PICK q : q = s[Len(s)]
  OBVIOUS
<1>6. /\ lettura[c] = "elenco" /\ leggeGiu(c, 1)
      /\ lettura' = [lettura EXCEPT ![c] = IF h = "#" THEN "menu" ELSE @]
      /\ parziale' = [parziale EXCEPT ![c] = IF h \in {"#", "0"} THEN <<>> ELSE Append(@, h)]
      /\ h = "0" => elenco' = [elenco EXCEPT ![c][Len(elenco[c])].nomi = Append(@, p)]
      /\ h # "0" => elenco' = elenco
      /\ UNCHANGED <<processo, dir, uscita, fineSu>>
  BY <1>2, <1>3 DEF leggi_nomi, leggeGiu
<1>7. /\ h = "#" => lettura'[c] = "menu" /\ parziale'[c] = <<>>
      /\ h = "0" => lettura'[c] = "elenco" /\ parziale'[c] = <<>>
      /\ h \notin {"0", "#"} => lettura'[c] = "elenco" /\ parziale'[c] = Append(p, h)
  BY <1>1, <1>3, <1>6 DEF DirInv, DirTipi
<1>8. Sequenza(s) /\ s # <<>> /\ \A k \in 1 .. Len(s) : Domanda(s[k])
  BY <1>1, <1>4, <1>6 DEF BaseDir
<1>9. Len(s) \in Nat \ {0}
  BY <1>8, SequenzaTipo, EmptySeq DEF Sequenza
<1>10. PassoDir(c)
  BY <1>6 DEF PassoDir, leggeGiu, DirInv, DirTipi
<1>11. PICK w : w = Elenco(q.dir)
  OBVIOUS
<1>12. ASSUME Regolare(s)
       PROVE  \E a, b : LettoDir(c, q, w, a, b) /\ InNomi(q, w, p, a)
  <2>1. PICK a, b : LettoDir(c, q, w, a, b)
    BY <1>4, <1>5, <1>6, <1>11, <1>12, LetturaDir
  <2>2. InNomi(q, w, p, a)
    BY <1>3, <1>6, <1>11, <2>1 DEF LettoDir, InElenco
  <2> QED
    BY <2>1, <2>2
<1>13. ASSUME Regolare(s)
       PROVE  /\ BuonaDir(c) /\ RegolareQ(q) /\ \A k \in 1 .. Len(s) : k # Len(s) => Elencata(s[k])
              /\ processo'[c] /\ ~fineSu'[c] /\ Sequenza(dir'[c]) /\ uscita'[c] = uscita[c]
  <2>1. BuonaDir(c)
    BY <1>4, <1>13 DEF DirInv, DirOK
  <2>2. \A k \in 1 .. Len(s) : k # Len(s) => Elencata(s[k])
    BY <1>4, <1>9, <2>1 DEF BuonaDir
  <2>3. processo'[c] /\ ~fineSu'[c] /\ Sequenza(dir'[c]) /\ uscita'[c] = uscita[c]
    BY <1>6, <2>1 DEF BuonaDir
  <2>4. RegolareQ(q)
    BY <1>5, <1>8, <1>13, RegolareUltima
  <2> QED
    BY <2>1, <2>2, <2>3, <2>4
<1>14. CASE h # "0"
  <2>1. elenco'[c] = s
    BY <1>4, <1>6, <1>14
  <2>2. BaseDir(c)'
    BY <1>1, <1>4, <1>6, <1>7, <1>14, <2>1, BaseFerma
  <2>3. ASSUME Regolare(s) PROVE BuonaDir(c)'
    <3>1. PICK a, b : LettoDir(c, q, w, a, b) /\ InNomi(q, w, p, a)
      BY <1>12, <2>3
    <3>2. /\ Sequenza(w) /\ Len(w) \in Nat /\ a \in Nat /\ b \in Nat /\ a < b /\ b <= Len(w) /\ a + 1 + 1 = a + 2
          /\ h = w[a + 1] /\ giu'[c] = SubSeq(w, a + 2, b) /\ su'[c] = <<>> /\ uscita[c] = SubSeq(w, b + 1, Len(w))
      BY <1>2, <3>1 DEF LettoDir
    <3>3. PICK sub : sub = Albero[q.dir][1]
      OBVIOUS
    <3>4. PICK P, t : Posizioni(w, sub, P) /\ Letti(q, sub, P, t, p, a)
      BY <3>1, <3>3 DEF InNomi
    <3>5. q.dir \in DOMAIN Albero /\ q.esito = "S"
      BY <3>1 DEF InNomi
    <3>6. AvantiNomi(q, w, sub, P, t, p, a)
      BY <1>13, <2>3, <3>2, <3>3, <3>4, <3>5, NomiAvanti
    <3>7. (elenco[c][Len(elenco[c])])' = q
      BY <1>5, <2>1
    <3>8. CASE h = "#"
      <4>1. Len(w) = a + 1 /\ q.nomi = NomiAttesi(sub)
        BY <3>2, <3>6, <3>8 DEF AvantiNomi
      <4>2. Elencata(q)
        BY <3>3, <3>5, <4>1 DEF Elencata
      <4>3. giu'[c] = <<>> /\ uscita'[c] = <<>>
        BY <1>13, <2>3, <3>2, <4>1, TuttoLetto
      <4>4. \A k \in 1 .. Len(s) : Elencata(s[k])
        BY <1>5, <1>13, <2>3, <4>2
      <4> QED
        BY <1>7, <1>13, <2>1, <2>3, <3>2, <3>8, <4>3, <4>4 DEF BuonaDir
    <3>9. CASE h # "#"
      <4>1. Letti(q, sub, P, t, Append(p, h), a + 1)
        BY <1>14, <3>2, <3>6, <3>9 DEF AvantiNomi
      <4>2. InNomi(q, w, Append(p, h), a + 1)
        BY <3>3, <3>4, <3>5, <4>1 DEF InNomi
      <4>3. lettura'[c] = "elenco" /\ parziale'[c] = Append(p, h)
        BY <1>7, <1>14, <3>9
      <4>4. InElenco(c, q, a + 1, b)'
        <5>1. a + 1 \in Nat /\ a + 1 <= b
          BY <3>2
        <5> QED
          BY <1>11, <1>13, <2>3, <3>2, <4>2, <4>3, <5>1 DEF InElenco
      <4>5. \A k \in 1 .. Len(s) : k < Len(s) => Elencata(s[k])
        BY <1>9, <1>13, <2>3
      <4>6. lettura'[c] \notin {"menu", "fuori"} /\ lettura'[c] \in {"esito", "elenco"}
        BY <4>3
      <4> QED
        BY <1>13, <2>1, <2>3, <3>7, <4>4, <4>5, <4>6 DEF BuonaDir
    <3> QED
      BY <3>8, <3>9
  <2> QED
    BY <1>10, <2>1, <2>2, <2>3, AltroDir
<1>15. CASE h = "0"
  <2>1. PICK r : r = [q EXCEPT !.nomi = Append(@, p)]
    OBVIOUS
  <2>2. PICK u : u = [s EXCEPT ![Len(s)] = r]
    OBVIOUS
  <2>3. elenco'[c] = u
    <3>1. elenco' = [elenco EXCEPT ![c][Len(elenco[c])].nomi = Append(@, p)]
      BY <1>6, <1>15
    <3> QED
      BY <1>1, <1>4, <1>5, <2>1, <2>2, <3>1 DEF DirInv, DirTipi
  <2>4. Domanda(q)
    BY <1>5, <1>8, <1>9
  <2>5. r.dir = q.dir /\ r.residuo = q.residuo /\ r.nomi = Append(q.nomi, p) /\ r.esito = q.esito /\ Domanda(r)
    BY <2>1, <2>4 DEF Domanda
  <2>6. Cambiata(s, r, u)
    BY <1>5, <1>8, <2>2, <2>5, DomandaCambiata
  <2>7. lettura'[c] = "elenco" /\ parziale'[c] = <<>>
    BY <1>7, <1>15
  <2>8. BaseDir(c)'
    <3>1. \A k \in 1 .. Len(u) : Domanda(u[k])
      BY <1>8, <2>5, <2>6 DEF Cambiata
    <3> QED
      BY <2>3, <2>6, <2>7, <3>1 DEF BaseDir, Cambiata
  <2>9. ASSUME Regolare(u) PROVE BuonaDir(c)'
    <3>0. Regolare(s)
      BY <2>6, <2>9 DEF Cambiata
    <3>1. PICK a, b : LettoDir(c, q, w, a, b) /\ InNomi(q, w, p, a)
      BY <1>12, <3>0
    <3>2. /\ a \in Nat /\ b \in Nat /\ a < b /\ b <= Len(w) /\ a + 1 + 1 = a + 2
          /\ h = w[a + 1] /\ giu'[c] = SubSeq(w, a + 2, b) /\ su'[c] = <<>> /\ uscita[c] = SubSeq(w, b + 1, Len(w))
      BY <1>2, <3>1 DEF LettoDir
    <3>3. PICK sub : sub = Albero[q.dir][1]
      OBVIOUS
    <3>4. PICK P, t : Posizioni(w, sub, P) /\ Letti(q, sub, P, t, p, a)
      BY <3>1, <3>3 DEF InNomi
    <3>5. q.dir \in DOMAIN Albero /\ q.esito = "S"
      BY <3>1 DEF InNomi
    <3>6. AvantiNomi(q, w, sub, P, t, p, a)
      BY <1>13, <3>0, <3>2, <3>3, <3>4, <3>5, NomiAvanti
    <3>7. Letti(r, sub, P, t + 1, <<>>, a + 1)
      BY <1>15, <2>5, <3>2, <3>6 DEF AvantiNomi
    <3>8. InNomi(r, w, <<>>, a + 1)
      BY <2>5, <3>3, <3>4, <3>5, <3>7 DEF InNomi
    <3>9. InElenco(c, r, a + 1, b)'
      <4>1. a + 1 \in Nat /\ a + 1 <= b
        BY <3>2
      <4>2. w = Elenco(r.dir)
        BY <1>11, <2>5
      <4>3. uscita'[c] = SubSeq(w, b + 1, Len(w))
        BY <1>13, <3>0, <3>2
      <4> QED
        BY <2>7, <3>2, <3>8, <4>1, <4>2, <4>3 DEF InElenco
    <3>10. (elenco[c][Len(elenco[c])])' = r
      BY <2>3, <2>6 DEF Cambiata
    <3>11. \A k \in 1 .. Len(u) : k < Len(u) => Elencata(u[k])
      BY <1>9, <1>13, <2>6, <3>0 DEF Cambiata
    <3>12. lettura'[c] \notin {"menu", "fuori"} /\ lettura'[c] \in {"esito", "elenco"}
      BY <2>7
    <3> QED
      BY <1>13, <2>3, <3>0, <3>9, <3>10, <3>11, <3>12 DEF BuonaDir
  <2> QED
    BY <1>10, <2>3, <2>8, <2>9, AltroDir
<1> QED
  BY <1>14, <1>15

LEMMA DirettoriNextStep == DirInv /\ DirettoriNext => DirInv'
BY acceptDirStep, chiede_elencoStep, leggi_esitoStep, leggi_nomiStep, chiudi_dirStep, leggi_dirStep, scrivi_elencoStep
   DEF DirettoriNext, Direttorio

LEMMA DirettoriInizio == DirettoriInit => DirInv
BY DirettoriAssumption, SequenzaVuota DEF DirettoriInit, TcpInit, DirInv, DirTipi, DirOK, BaseDir, BuonaDir

LEMMA DirettoriGiusto == DirInv => ElencoGiusto
<1> SUFFICES ASSUME DirInv, NEW c \in ConnDirettori, Regolare(elenco[c])
             PROVE  /\ \A k \in DOMAIN elenco[c] :
                         k < Len(elenco[c]) \/ lettura[c] \in {"menu", "fuori"} => Elencata(elenco[c][k])
                    /\ lettura[c] \in {"esito", "elenco"} =>
                         processo[c] /\ (su[c] # <<>> \/ giu[c] # <<>> \/ uscita[c] # <<>>)
  BY DEF ElencoGiusto
<1>1. BaseDir(c) /\ BuonaDir(c)
  BY DEF DirInv, DirOK
<1>2. DOMAIN elenco[c] = 1 .. Len(elenco[c])
  BY <1>1, SequenzaTipo DEF BaseDir
<1>3. ASSUME lettura[c] \in {"esito", "elenco"}, su[c] = <<>>, giu[c] = <<>>, uscita[c] = <<>>
      PROVE  FALSE
  <2>1. PICK q : q = elenco[c][Len(elenco[c])]
    OBVIOUS
  <2>2. RegolareQ(q)
    BY <1>1, <1>3, <2>1, RegolareUltima DEF BaseDir
  <2>3. PICK a, b : InElenco(c, q, a, b)
    BY <1>1, <1>3, <2>1, <2>2 DEF BuonaDir, InArrivoDir, RegolareQ
  <2>4. PICK w : w = Elenco(q.dir)
    OBVIOUS
  <2>5. RispostaDir(q, w)
    BY <2>2, <2>4, RispostaTipo
  <2>6. Sequenza(w) /\ Len(w) \in Nat \ {0} /\ a \in Nat /\ b \in Nat /\ a <= b /\ b <= Len(w)
    BY <2>3, <2>4, <2>5 DEF InElenco, RispostaDir
  <2>7. SubSeq(w, a + 1, b) = <<>> /\ SubSeq(w, b + 1, Len(w)) = <<>>
    BY <1>3, <2>3, <2>4 DEF InElenco
  <2>8. a = b
    BY <2>6, <2>7, PezzoLetto DEF Pezzo
  <2>9. b = Len(w)
    <3> DEFINE l == Len(w)
    <3>1. l \in Nat /\ b <= l /\ l <= Len(w) /\ SubSeq(w, b + 1, l) = <<>>
      BY <2>6, <2>7
    <3> HIDE DEF l
    <3>2. b = l
      BY <2>6, <3>1, PezzoLetto DEF Pezzo
    <3> QED
      BY <3>2 DEF l
  <2>10. lettura[c] = "elenco"
    BY <1>3, <2>3, <2>6, <2>8, <2>9 DEF InElenco
  <2>11. PICK p : p = parziale[c]
    OBVIOUS
  <2>12. PICK sub : sub = Albero[q.dir][1]
    OBVIOUS
  <2>13. InNomi(q, w, p, a)
    BY <2>3, <2>4, <2>10, <2>11 DEF InElenco
  <2>14. PICK P, t : Posizioni(w, sub, P) /\ Letti(q, sub, P, t, p, a)
    BY <2>12, <2>13 DEF InNomi
  <2>15. q.dir \in DOMAIN Albero
    BY <2>13 DEF InNomi
  <2>16. PICK n : n = Len(sub)
    OBVIOUS
  <2>17. n \in Nat /\ Salta(sub) \in {0, 1}
    <3>1. SubOK(sub)
      BY <2>2, <2>12, <2>15, AlberoTipo DEF RegolareQ
    <3> QED
      BY <2>16, <3>1, SequenzaTipo DEF SubOK, Salta
  <2>18. /\ t \in Salta(sub) .. n /\ Len(p) \in Nat /\ a = P[t] + Len(p) /\ P[t] \in Nat
         /\ P[n] \in Nat /\ Len(w) = P[n] + 1
    BY <2>14, <2>16, <2>17, SequenzaTipo DEF Letti, Posizioni
  <2>19. CASE t = n
    <3>1. Len(p) = 0
      BY <2>14, <2>16, <2>19, SequenzaVuota DEF Letti
    <3> QED
      BY <2>8, <2>9, <2>18, <2>19, <3>1
  <2>20. CASE t # n
    <3> DEFINE y == Len(sub[t + 1].nome)
    <3>1. t < n /\ t \in Salta(sub) .. n - 1 /\ t + 1 \in Salta(sub) .. n
      BY <2>17, <2>18, <2>20
    <3>2. P[t + 1] = P[t] + y + 1 /\ P[t + 1] <= P[n] /\ P[t + 1] \in Nat
      BY <2>14, <2>16, <3>1 DEF Posizioni, Scritta
    <3>3. Len(p) <= y
      BY <2>14, <2>16, <3>1 DEF Letti
    <3>4. y \in Nat
      <4>1. VoceOK(sub[t + 1])
        <5>1. SubOK(sub) /\ t + 1 \in 1 .. n
          BY <2>2, <2>12, <2>15, <2>17, <3>1, AlberoTipo DEF RegolareQ
        <5> QED
          BY <2>16, <5>1 DEF SubOK
      <4> QED
        BY <4>1, SequenzaTipo DEF VoceOK
    <3> HIDE DEF y
    <3> DEFINE x == Len(p)
               z == P[t]
               u == P[n]
    <3>5. x \in Nat /\ z \in Nat /\ u \in Nat /\ a = z + x /\ a = u + 1 /\ z + y + 1 <= u /\ x <= y
      BY <2>8, <2>9, <2>18, <3>2, <3>3
    <3> HIDE DEF x, z, u
    <3> QED
      BY <3>4, <3>5
  <2> QED
    BY <2>19, <2>20
<1>4. lettura[c] \in {"esito", "elenco"} => processo[c]
  BY <1>1 DEF BuonaDir
<1> QED
  BY <1>1, <1>2, <1>3, <1>4 DEF BuonaDir

-----------------------------------------------------------------------------
(* The specification. *)

\* Who rewrites files is idle in the other exercises; SwapServer threads are
\* started by DiscoveryServer alone.
InvRis ==
  /\ attivo = "nessuno" => RiscritturaInit
  /\ attivo # "scambio" => vivi = {}
  /\ attivo \notin {"scambio", "remop"} => lavoro = [t \in Lavoratori |-> Ozio]
  /\ attivo \in {"scambio", "remop"} => RisInv /\ (programma = "spento" => vivi = {})

LEMMA InvRisPasso == InvRis /\ [Next]_trasferimentiVars => InvRis'
<1> SUFFICES ASSUME InvRis, [Next]_trasferimentiVars PROVE InvRis'
  OBVIOUS
<1>1. ASSUME UNCHANGED riscritturaVars
      PROVE  RisInv <=> RisInv'
  <2>1. UNCHANGED <<programma, lavoro, directory, contenuto>>
    BY <1>1 DEF riscritturaVars, fileVars
  <2> QED
    BY <2>1 DEF RisInv, FileOK, IncontriRis, InLavoro, LavoroOK, SoloOK, Temporaneo, Riscritte
<1>2. CASE UNCHANGED trasferimentiVars
  <2>1. UNCHANGED <<riscritturaVars, programma, lavoro, vivi, attivo>>
    BY <1>2 DEF trasferimentiVars, riscritturaVars, scambioSoli
  <2>2. RiscritturaInit => RiscritturaInit'
    BY <2>1 DEF RiscritturaInit, FileSystemInit, riscritturaVars, fileVars
  <2> QED
    BY <1>1, <2>1, <2>2 DEF InvRis
<1>3. CASE Sceglie
  <2>1. attivo = "nessuno" /\ attivo' # "nessuno" /\ UNCHANGED <<riscritturaVars, lavoro, vivi>>
    BY <1>3 DEF Sceglie, riscritturaVars, scambioSoli
  <2>2. RisInv /\ vivi = {} /\ lavoro = [t \in Lavoratori |-> Ozio]
    BY <2>1, RisInit DEF InvRis
  <2> QED
    BY <1>1, <2>1, <2>2 DEF InvRis
<1>4. CASE attivo = "scambio" /\ ScambioNext /\ attivo' = attivo
  BY <1>4, ScambioStep DEF InvRis
<1>5. CASE attivo = "remop" /\ RemOpNext /\ attivo' = attivo /\ vivi' = vivi
  BY <1>5, RemOpStep DEF InvRis
<1>6. CASE attivo \in {"filtri", "direttori", "get", "put", "mput"} /\ UNCHANGED <<attivo, vivi, lavoro>>
  BY <1>6 DEF InvRis
<1>7. \/ Sceglie
      \/ attivo = "scambio" /\ ScambioNext /\ attivo' = attivo
      \/ attivo = "remop" /\ RemOpNext /\ attivo' = attivo /\ vivi' = vivi
      \/ attivo \in {"filtri", "direttori", "get", "put", "mput"} /\ UNCHANGED <<attivo, vivi, lavoro>>
      \/ UNCHANGED trasferimentiVars
  BY DEF Next, SenzaRiscrittura, scambioSoli
<1> QED
  BY <1>2, <1>3, <1>4, <1>5, <1>6, <1>7

\* Nobody counts in the other exercises.
InvConto ==
  /\ attivo # "remop" => letture = {}
  /\ attivo = "remop" => ContoInv

LEMMA ContoInizio ==
  ASSUME RiscritturaInit, letture = {}
  PROVE  ContoInv
<1>1. \A t \in Lavoratori : lavoro[t].passo = "ozio" /\ ~InLavoro(t)
  BY DEF RiscritturaInit, InLavoro, Ozio, Fasi
<1>2. Len(contenuto) = 0 /\ programma = "spento"
  BY SequenzaVuota DEF RiscritturaInit, FileSystemInit
<1>3. \A i \in 1 .. Len(contenuto) : FALSE
  BY <1>2
<1> QED
  BY <1>1, <1>2, <1>3 DEF ContoInv, ContoCoerente

LEMMA InvContoPasso == InvRis /\ InvConto /\ [Next]_trasferimentiVars => InvConto'
<1> SUFFICES ASSUME InvRis, InvConto, [Next]_trasferimentiVars PROVE InvConto'
  OBVIOUS
<1>1. ASSUME UNCHANGED <<riscritturaVars, letture, incontri>>
      PROVE  ContoInv => ContoInv'
  <2>1. UNCHANGED <<programma, lavoro, directory, contenuto, letture, incontri>>
    BY <1>1 DEF riscritturaVars, fileVars
  <2> QED
    BY <2>1 DEF ContoInv, ContoCoerente, InLavoro, LavoroConto, ContaOK, RigheTipate, Temporaneo
<1>2. CASE UNCHANGED trasferimentiVars
  BY <1>1, <1>2 DEF trasferimentiVars, remopSoli, InvConto
<1>3. CASE Sceglie
  <2>1. attivo = "nessuno" /\ UNCHANGED <<riscritturaVars, letture, incontri>>
    BY <1>3 DEF Sceglie, remopSoli
  <2>2. ContoInv /\ letture = {}
    BY <2>1, ContoInizio DEF InvRis, InvConto
  <2> QED
    BY <1>1, <2>1, <2>2 DEF InvConto
<1>4. CASE attivo = "remop" /\ RemOpNext /\ attivo' = attivo
  BY <1>4, RemOpConto DEF InvRis, InvConto
<1>5. CASE attivo \notin {"nessuno", "remop"} /\ UNCHANGED <<attivo, letture>>
  BY <1>5 DEF InvConto
<1>6. \/ Sceglie
      \/ attivo = "remop" /\ RemOpNext /\ attivo' = attivo
      \/ attivo \notin {"nessuno", "remop"} /\ UNCHANGED <<attivo, letture>>
      \/ UNCHANGED trasferimentiVars
  BY DEF Next, SenzaRiscrittura, remopSoli
<1> QED
  BY <1>2, <1>3, <1>4, <1>5, <1>6

\* MPut's threads and its server's first files, when another exercise runs.
InvMPut ==
  /\ attivo = "nessuno" => MPutInit
  /\ attivo = "mput" => MPutInv
  /\ attivo # "mput" => mthr = [k \in Conn |-> Morto] /\ partenza[1] = [n \in Nomi |-> 0]

LEMMA InvMPutPasso == InvMPut /\ [Next]_trasferimentiVars => InvMPut'
<1> SUFFICES ASSUME InvMPut, [Next]_trasferimentiVars PROVE InvMPut'
  OBVIOUS
<1>1. ASSUME UNCHANGED <<tcpVars, fileVars, mputSoli>>
      PROVE  (MPutInit => MPutInit') /\ (MPutInv => MPutInv')
  <2>1. UNCHANGED <<tcpVars, su, giu, directory, contenuto, avvii, acceso, partenza, mclient, elencoFile, mthr>>
    BY <1>1 DEF tcpVars, fileVars, mputSoli
  <2>2. MPutInit => MPutInit'
    BY <2>1 DEF MPutInit, TcpInit, FileSystemInit, tcpVars
  <2>3. ASSUME MPutInv PROVE MPutInv'
    <3>1. ASSUME NEW k \in Conn PROVE (Vivo(k)' <=> Vivo(k)) /\ Corrente(k)' = Corrente(k)
      BY <2>1 DEF Vivo, Corrente, Primo
    <3>2. MPutTipi' /\ FileOK' /\ PartenzaMPut' /\ IncontriMPut'
      BY <2>1, <2>3 DEF MPutInv, MPutTipi, FileOK, PartenzaMPut, IncontriMPut, Vivo, Riceve, Ricevuto
    <3>3. ASSUME NEW k \in Conn, Vivo(k) PROVE FlussoMPut(k)' /\ FileMPut(k)'
      <4>1. FlussoMPut(k) /\ FileMPut(k)
        BY <2>3, <3>3 DEF MPutInv
      <4>2. FileMPut(k)'
        BY <2>1, <4>1 DEF FileMPut, Riceve, Ricevuto
      <4> QED
        BY <2>1, <3>3, <4>1, <4>2, AltroFlusso
    <3> QED
      BY <3>1, <3>2, <3>3 DEF MPutInv
  <2> QED
    BY <2>2, <2>3
<1>2. CASE UNCHANGED trasferimentiVars
  <2>1. UNCHANGED <<tcpVars, fileVars, mputSoli, mthr, partenza, attivo>>
    BY <1>2 DEF trasferimentiVars, riscritturaVars, mputSoli
  <2> QED
    BY <1>1, <2>1 DEF InvMPut
<1>3. CASE Sceglie
  <2>1. attivo = "nessuno" /\ attivo' # "nessuno" /\ UNCHANGED <<tcpVars, fileVars, mputSoli, mthr, partenza>>
    BY <1>3 DEF Sceglie, riscritturaVars, mputSoli
  <2>2. MPutInv /\ mthr = [k \in Conn |-> Morto] /\ partenza[1] = [n \in Nomi |-> 0]
    BY <2>1, MPutInizio DEF InvMPut
  <2> QED
    BY <1>1, <2>1, <2>2 DEF InvMPut
<1>4. CASE attivo = "mput" /\ MPutNext /\ attivo' = attivo
  BY <1>4, MPutNextStep DEF InvMPut
<1>5. CASE attivo \notin {"nessuno", "mput"} /\ UNCHANGED <<attivo, mthr, partenza>>
  BY <1>5 DEF InvMPut
<1>6. \/ Sceglie
      \/ attivo = "mput" /\ MPutNext /\ attivo' = attivo
      \/ attivo \notin {"nessuno", "mput"} /\ UNCHANGED <<attivo, mthr, partenza>>
      \/ UNCHANGED trasferimentiVars
  BY DEF Next, SenzaRiscrittura, mputSoli
<1> QED
  BY <1>2, <1>3, <1>4, <1>5, <1>6

\* Nobody asks for files when another exercise runs.
InvGet ==
  /\ attivo = "nessuno" => GetInit
  /\ attivo # "get" => chiesti = [c \in Conn |-> <<>>]
  /\ attivo = "get" => GetInv

LEMMA InvGetPasso == InvGet /\ [Next]_trasferimentiVars => InvGet'
<1> SUFFICES ASSUME InvGet, [Next]_trasferimentiVars PROVE InvGet'
  OBVIOUS
<1>1. ASSUME UNCHANGED <<tcpVars, getSoli>>
      PROVE  (GetInit => GetInit') /\ (GetInv => GetInv')
  <2>1. UNCHANGED <<su, giu, fineSu, fineGiu, schermo, chiesti, serve, nome_file, daScrivere>>
    BY <1>1 DEF tcpVars, getSoli
  <2>2. GetInit => GetInit'
    BY <2>1 DEF GetInit, TcpInit
  <2>3. ASSUME NEW c \in ConnGet PROVE GetOK(c)' <=> GetOK(c)
    <3>1. ASSUME NEW q PROVE InArrivo(c, q)' <=> InArrivo(c, q)
      BY <2>1 DEF InArrivo
    <3>2. ASSUME NEW q, NEW n, NEW a, NEW b PROVE InStampa(c, q, n, a, b)' <=> InStampa(c, q, n, a, b)
      BY <2>1 DEF InStampa
    <3> QED
      BY <2>1, <3>1, <3>2 DEF GetOK
  <2> QED
    BY <2>1, <2>2, <2>3 DEF GetInv, GetTipi
<1>2. CASE UNCHANGED trasferimentiVars
  <2>1. UNCHANGED <<tcpVars, getSoli, chiesti, attivo>>
    BY <1>2 DEF trasferimentiVars, getSoli
  <2> QED
    BY <1>1, <2>1 DEF InvGet
<1>3. CASE Sceglie
  <2>1. attivo = "nessuno" /\ attivo' # "nessuno" /\ UNCHANGED <<tcpVars, getSoli, chiesti>>
    BY <1>3 DEF Sceglie, getSoli
  <2>2. GetInv
    BY <2>1, GetInizio DEF InvGet
  <2> QED
    BY <1>1, <2>1, <2>2 DEF InvGet
<1>4. CASE attivo = "get" /\ GetNext /\ attivo' = attivo
  BY <1>4, GetNextStep DEF InvGet
<1>5. CASE attivo \notin {"nessuno", "get"} /\ UNCHANGED <<attivo, chiesti>>
  BY <1>5 DEF InvGet
<1>6. \/ Sceglie
      \/ attivo = "get" /\ GetNext /\ attivo' = attivo
      \/ attivo \notin {"nessuno", "get"} /\ UNCHANGED <<attivo, chiesti>>
      \/ UNCHANGED trasferimentiVars
  BY DEF Next, SenzaRiscrittura, getSoli
<1> QED
  BY <1>2, <1>3, <1>4, <1>5, <1>6

\* Nobody asks for lists when another exercise runs.
InvDir ==
  /\ attivo = "nessuno" => DirettoriInit
  /\ attivo # "direttori" => elenco = [c \in Conn |-> <<>>] /\ lettura = [c \in Conn |-> "fuori"]
  /\ attivo = "direttori" => DirInv

LEMMA InvDirPasso == InvDir /\ [Next]_trasferimentiVars => InvDir'
<1> SUFFICES ASSUME InvDir, [Next]_trasferimentiVars PROVE InvDir'
  OBVIOUS
<1>1. ASSUME UNCHANGED <<tcpVars, direttoriSoli>>
      PROVE  (DirettoriInit => DirettoriInit') /\ (DirInv => DirInv')
  <2>1. UNCHANGED <<su, giu, fineSu, fineGiu, lettura, elenco, parziale, processo, dir, uscita>>
    BY <1>1 DEF tcpVars, direttoriSoli
  <2>2. DirettoriInit => DirettoriInit'
    BY <2>1 DEF DirettoriInit, TcpInit
  <2>3. ASSUME NEW c \in ConnDirettori PROVE DirOK(c)' <=> DirOK(c)
    BY <2>1, DirUguale
  <2>4. DirTipi' <=> DirTipi
    BY <2>1 DEF DirTipi
  <2> QED
    BY <2>2, <2>3, <2>4 DEF DirInv
<1>2. CASE UNCHANGED trasferimentiVars
  <2>1. UNCHANGED <<tcpVars, direttoriSoli, elenco, lettura, attivo>>
    BY <1>2 DEF trasferimentiVars, direttoriSoli
  <2> QED
    BY <1>1, <2>1 DEF InvDir
<1>3. CASE Sceglie
  <2>1. attivo = "nessuno" /\ attivo' # "nessuno" /\ UNCHANGED <<tcpVars, direttoriSoli, elenco, lettura>>
    BY <1>3 DEF Sceglie, direttoriSoli
  <2>2. DirInv
    BY <2>1, DirettoriInizio DEF InvDir
  <2> QED
    BY <1>1, <2>1, <2>2 DEF InvDir
<1>4. CASE attivo = "direttori" /\ DirettoriNext /\ attivo' = attivo
  BY <1>4, DirettoriNextStep DEF InvDir
<1>5. CASE attivo \notin {"nessuno", "direttori"} /\ UNCHANGED <<attivo, elenco, lettura>>
  BY <1>5 DEF InvDir
<1>6. \/ Sceglie
      \/ attivo = "direttori" /\ DirettoriNext /\ attivo' = attivo
      \/ attivo \notin {"nessuno", "direttori"} /\ UNCHANGED <<attivo, elenco, lettura>>
      \/ UNCHANGED trasferimentiVars
  BY DEF Next, SenzaRiscrittura, direttoriSoli
<1> QED
  BY <1>2, <1>3, <1>4, <1>5, <1>6

Inv == InvPut /\ InvRis /\ InvConto /\ InvMPut /\ InvGet /\ InvDir

\* The inductive invariant holds of every behaviour.
THEOREM InvInvariante == Spec => []Inv
<1>1. Init => Inv
  <2>1. Init => PutInit /\ MPutInit /\ RiscritturaInit /\ GetInit /\ DirettoriInit /\ vivi = {} /\ letture = {} /\ attivo = "nessuno"
    BY DEF Init, ScambioInit, RemOpInit
  <2>2. PutInit => thr = [k \in Conn |-> NessunThread]
    BY DEF PutInit
  <2>3. RiscritturaInit => lavoro = [t \in Lavoratori |-> Ozio]
    BY DEF RiscritturaInit
  <2>4. MPutInit => mthr = [k \in Conn |-> Morto] /\ partenza[1] = [n \in Nomi |-> 0]
    BY DEF MPutInit, FileSystemInit
  <2>5. GetInit => chiesti = [c \in Conn |-> <<>>]
    BY DEF GetInit
  <2>6. DirettoriInit => elenco = [c \in Conn |-> <<>>] /\ lettura = [c \in Conn |-> "fuori"]
    BY DEF DirettoriInit
  <2> QED
    BY <2>1, <2>2, <2>3, <2>4, <2>5, <2>6 DEF Inv, InvPut, InvRis, InvConto, InvMPut, InvGet, InvDir
<1>2. Inv /\ [Next]_trasferimentiVars => Inv'
  BY InvPutPasso, InvRisPasso, InvContoPasso, InvMPutPasso, InvGetPasso, InvDirPasso DEF Inv
<1> QED
  BY <1>1, <1>2, PTL DEF Spec

\* "File salvato" is said of a file that is all there, and is the client's
\* (PutFileServerSeq, PutFileServerCon).
THEOREM SalvatoSempre == Spec => []SalvatoIntero
<1>1. Inv => SalvatoIntero
  <2> SUFFICES ASSUME Inv, NEW k \in Conn, thr[k].stato = "risponde", invio[k] # "morto", ~thr[k].insieme
               PROVE  directory[thr[k].nome] = thr[k].ino /\ contenuto[thr[k].ino] = Blocchi[k]
    BY DEF SalvatoIntero
  <2>1. thr[k] # NessunThread /\ Servito(k) /\ Aperto(k)
    BY DEF NessunThread, Servito, StatiAttivi, Aperto, StatiAperti
  <2>2. PutInv
    BY <2>1 DEF Inv, InvPut
  <2>3. FlussoPut(k) /\ AperturaPut(k)
    BY <2>1, <2>2 DEF PutInv
  <2>4. SubSeq(Blocchi[k], 1, Len(Blocchi[k])) = Blocchi[k]
    BY PutFileAssumption, SubSeqFull DEF Sequenza
  <2>5. thr[k].scritti = Len(Blocchi[k])
    BY <2>1, <2>3 DEF FlussoPut
  <2> QED
    BY <2>3, <2>4, <2>5 DEF AperturaPut
<1> QED
  BY <1>1, InvInvariante, PTL

\* An answered exchange of rows, or elimination of one, that met no other is
\* done: the file is there and holds its old rows, with that change
\* (SwapServer.run, ServerImpl.elimina_riga).
THEOREM RiscrittoSempre == Spec => []Riscritto
<1>1. Inv => Riscritto
  <2>1. CASE RisInv
    BY <2>1, RisRiscritto
  <2>2. CASE lavoro = [t \in Lavoratori |-> Ozio]
    BY <2>2 DEF Riscritto, Ozio
  <2> QED
    BY <2>1, <2>2 DEF Inv, InvRis
<1> QED
  BY <1>1, InvInvariante, PTL

\* What conta_righe answers of a file that no two deletions have worked on
\* together is the count of the rows it had when the call opened it, whatever
\* deletion was under way (ServerImpl.conta_righe, ServerImpl.elimina_riga).
THEOREM ContoCoerenteSempre == Spec => []ContoCoerente
<1>1. Inv => ContoCoerente
  <2> SUFFICES ASSUME Inv PROVE ContoCoerente
    OBVIOUS
  <2>1. CASE attivo = "remop"
    BY <2>1 DEF Inv, InvConto, ContoInv
  <2>2. CASE attivo # "remop"
    BY <2>2 DEF Inv, InvConto, ContoCoerente
  <2> QED
    BY <2>1, <2>2
<1> QED
  BY <1>1, InvInvariante, PTL

\* The files the server started with are never touched, and a file received by
\* one thread alone, as long as it was said to be, is one of the users'
\* (MPutFileServerCon, MPutFileClient).
THEOREM MPutIntattoSempre == Spec => []MPutIntatto
<1>1. Inv => MPutIntatto
  <2>1. CASE MPutInv
    BY <2>1, MPutInvIntatto
  <2>2. CASE mthr = [k \in Conn |-> Morto] /\ partenza[1] = [n \in Nomi |-> 0]
    <3>1. \A k \in Conn : ~Ricevuto(k)
      BY <2>2 DEF Ricevuto, Morto
    <3>2. \A n \in DOMAIN partenza[1] : partenza[1][n] = 0
      BY <2>2
    <3> QED
      BY <3>1, <3>2 DEF MPutIntatto
  <2> QED
    BY <2>1, <2>2 DEF Inv, InvMPut
<1> QED
  BY <1>1, InvInvariante, PTL
\* A client that asks for another file was printed the whole of one, the one
\* named or one that a longer, earlier name left in the buffer; one that waits
\* with nothing on its way asked for no file, or for one that is not there
\* (select_server.c, stream_client.c of the older Esercitazione 4).
THEOREM FileStampatoSempre == Spec => []FileStampato
<1>1. Inv => FileStampato
  <2>1. CASE GetInv
    BY <2>1, GetGiusto
  <2>2. CASE chiesti = [c \in Conn |-> <<>>]
    <3>1. \A c \in ConnGet : chiesti[c] = <<>>
      BY <2>2, GetAssumption
    <3>2. \A c \in ConnGet : \A k \in DOMAIN chiesti[c] : FALSE
      BY <3>1
    <3> QED
      BY <3>2 DEF FileStampato
  <2> QED
    BY <2>1, <2>2 DEF Inv, InvGet
<1> QED
  BY <1>1, InvInvariante, PTL


\* Where every directory asked for has one subdirectory, of names without a #,
\* or is not there, each answer printed is that of its own request and is
\* complete, and nobody waits with nothing on its way, whatever the
\* directories (server_select.c, stream_client.c of the Esercitazione 4
\* proposta).
THEOREM ElencoGiustoSempre == Spec => []ElencoGiusto
<1>1. Inv => ElencoGiusto
  <2>1. CASE DirInv
    BY <2>1, DirettoriGiusto
  <2>2. CASE elenco = [c \in Conn |-> <<>>] /\ lettura = [c \in Conn |-> "fuori"]
    <3>1. \A c \in ConnDirettori : elenco[c] = <<>> /\ lettura[c] = "fuori"
      BY <2>2, DirettoriAssumption
    <3>2. \A c \in ConnDirettori : \A k \in DOMAIN elenco[c] : FALSE
      BY <3>1
    <3> QED
      BY <3>1, <3>2 DEF ElencoGiusto
  <2> QED
    BY <2>1, <2>2 DEF Inv, InvDir
<1> QED
  BY <1>1, InvInvariante, PTL
=============================================================================

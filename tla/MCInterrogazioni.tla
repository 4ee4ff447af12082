--------------------------- MODULE MCInterrogazioni ---------------------------
EXTENDS Interrogazioni
CONSTANTS u1, u2, asc1, asc2, c1, c2, s1, s2, k1, k2

\* Servizi
Servite == {"linea", "operazione", "parola", "elimina", "datagram", "togli"}
MCDischi ==
  [s \in Servite |->
     CASE s \in {"operazione", "datagram"} -> {<<>>}
       [] s = "linea" -> {[f |-> t, g |-> Assente] : t \in {<<"a", "n", "n", "b">>, <<"n", "a", "n">>}}
       [] s = "parola" -> {[f |-> t, g |-> Assente] : t \in BoundedSeq({"a", " "}, 4)}
       [] s = "elimina" -> {[f |-> t, g |-> Assente] :
            t \in BoundedSeq({"a", "b", " "}, 3) \cup {<<x, " ", y, " ">> : x, y \in {"a", "b"}}}
       [] s = "togli" -> {[f |-> t, g |-> Assente, tempFile |-> Assente] :
            t \in {<<>>, <<"a">>, <<"a", " ", "b">>, <<"b", "n", "a", " ", "a">>, <<" ", "a", " ">>}}
            \cup {[f |-> <<"b", " ", "a", " ", "b">>, g |-> Assente,
                   tempFile |-> <<"x", "x", "x", "a", " ", "a">>]}]
MCRichieste ==
  [s \in Servite |->
     CASE s \in {"operazione", "datagram"} -> [op : {"+", "-", "*", "/"}, op1 : {7}, op2 : {3}]
                         \cup {[op |-> "/", op1 |-> 7, op2 |-> 0], [op |-> "/", op1 |-> 8, op2 |-> 15]}
       [] s = "linea" -> [malformata : {FALSE}, nome : {"f"}, linea : {0, 2, 3}]
                         \cup {[malformata |-> TRUE, nome |-> "f", linea |-> 1],
                               [malformata |-> FALSE, nome |-> "g", linea |-> 1]}
       [] s = "parola" -> {"f", "g"}
       [] s = "elimina" -> [nome : {"f"}, parola : {<<"a">>, <<"b">>}] \cup {[nome |-> "g", parola |-> <<"a">>]}
       [] s = "togli" -> [nome : {"f"}, parola : {<<"a">>, <<"b">>}]
                         \cup [nome : {"g", "tempFile"}, parola : {<<"a">>}]]
MCDomande == [c \in Utente |-> IF c = u1 THEN 3 ELSE 1]

\* Multicast
MCProgrammi == {<<"a">>, <<"a", "b">>, <<"a", "b", "c">>, <<"a", "b", Fine, "c">>, <<Fine, "a">>}

\* ServiziRpc
MCFileConta == ("f" :> <<"a", "b", " ", " ", "n", "c">>)
Voci(n, r, d) == [nome |-> n, legge |-> n # "v", reg |-> r, dim |-> d]
MCDirConta == ("d" :> <<Voci(".", FALSE, 9), Voci("x", TRUE, 1), Voci("y", TRUE, 2), Voci("z", TRUE, 2),
                        Voci("w", TRUE, 3)>>)
              @@ ("e" :> <<Voci("x", TRUE, 2), Voci("v", TRUE, 2)>>)
MCChiamate ==
  [s \in {"conta", "operazioni", "echo"} |->
     CASE s = "conta" -> {[proc |-> "FILE_SCAN", nome |-> "f"]}
                         \cup [proc : {"DIR_SCAN"}, nome : {"d", "e", "q"}, soglia : {2}]
       [] s = "operazioni" -> [proc : {"SOMMA", "MOLTIPLICAZIONE"}, op1 : {7}, op2 : {3}]
       [] s = "echo" -> [proc : {"ECHO"}, msg : {"x", "y"}]]
MCMaxChiamate == [c \in Client |-> IF c = c1 THEN 2 ELSE 1]

\* CongressoSemplice
MCMaxCongresso == [c \in Congressista |-> IF c = k1 THEN 2 ELSE 1]
=============================================================================

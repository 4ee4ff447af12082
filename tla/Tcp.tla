---------------------------------- MODULE Tcp ----------------------------------
(***************************************************************************)
(* A TCP connection for each client: two streams that keep the order of    *)
(* what is written and nothing of its boundaries.  Each holds as much as   *)
(* the buffers of the two hosts: a write blocks when there is no room, a   *)
(* read when there is nothing and the other side has not closed.           *)
(***************************************************************************)
EXTENDS Integers, Sequences

CONSTANTS Conn,     \* connections, by their client
          Capienza  \* what a stream holds

ASSUME TcpAssumption == Capienza \in Nat \ {0}

VARIABLES su,      \* su[c]: from the client to the server
          giu,     \* giu[c]: from the server to the client
          fineSu,  \* the client has closed its direction
          fineGiu  \* the server has closed its direction

tcpVars == <<su, giu, fineSu, fineGiu>>

TcpInit ==
  /\ su = [c \in Conn |-> <<>>] /\ giu = [c \in Conn |-> <<>>]
  /\ fineSu = [c \in Conn |-> FALSE] /\ fineGiu = [c \in Conn |-> FALSE]

\* socket and connect: two new streams.
connect(c) ==
  /\ su' = [su EXCEPT ![c] = <<>>] /\ giu' = [giu EXCEPT ![c] = <<>>]
  /\ fineSu' = [fineSu EXCEPT ![c] = FALSE] /\ fineGiu' = [fineGiu EXCEPT ![c] = FALSE]

\* The client writes all of x: there is room for it.
scriveSu(c, x) ==
  /\ Len(su[c]) + Len(x) <= Capienza
  /\ su' = [su EXCEPT ![c] = @ \o x]
  /\ UNCHANGED <<giu, fineSu, fineGiu>>

scriveGiu(c, x) ==
  /\ Len(giu[c]) + Len(x) <= Capienza
  /\ giu' = [giu EXCEPT ![c] = @ \o x]
  /\ UNCHANGED <<su, fineSu, fineGiu>>

\* n items are taken from a stream that has them.
leggeSu(c, n) ==
  /\ n <= Len(su[c])
  /\ su' = [su EXCEPT ![c] = SubSeq(@, n + 1, Len(@))]
  /\ UNCHANGED <<giu, fineSu, fineGiu>>

leggeGiu(c, n) ==
  /\ n <= Len(giu[c])
  /\ giu' = [giu EXCEPT ![c] = SubSeq(@, n + 1, Len(@))]
  /\ UNCHANGED <<su, fineSu, fineGiu>>

\* What a read returns 0 (or -1, or EOFException) for.
EofSu(c) == su[c] = <<>> /\ fineSu[c]
EofGiu(c) == giu[c] = <<>> /\ fineGiu[c]

\* shutdown(sd, 1), shutdownOutput.
chiudeSu(c) == fineSu' = [fineSu EXCEPT ![c] = TRUE] /\ UNCHANGED <<su, giu, fineGiu>>
chiudeGiu(c) == fineGiu' = [fineGiu EXCEPT ![c] = TRUE] /\ UNCHANGED <<su, giu, fineSu>>
=============================================================================

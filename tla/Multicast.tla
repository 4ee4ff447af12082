------------------------------- MODULE Multicast ------------------------------
(***************************************************************************)
(* Esercitazione 1 svolta: MulticastServer.java sends the lines of a file, *)
(* over and over, to a group; MulticastClient.java joins the group,        *)
(* receives a fixed number of lines and leaves.                            *)
(*                                                                         *)
(* The server knows nothing of its clients: a line reaches the sockets     *)
(* that are in the group when it is sent, less the ones it is lost for.    *)
(***************************************************************************)
EXTENDS Integers, Sequences

CONSTANTS Ascoltatore, \* the MulticastClient processes
          Programmi,   \* contents the server's file may have: sequences of lines
          Ricezioni,   \* receives of a client (20 in the code)
          MaxInvii     \* bound: lines sent by the server

\* What readLine returns.
Linee == STRING

ASSUME MulticastAssumption == Programmi \subseteq Seq(Linee) /\ Ricezioni \in Nat

\* What getNextLine answers at the end of the file, and what a line may say.
Fine == "Nessuna linea disponibile"

VARIABLES file,      \* the file, or <<>> before the server starts
          lettore,   \* lines read by the open BufferedReader, -1 when there is none
          invii,     \* lines sent
          gruppo,    \* sockets in the group
          socket,    \* socket[a]: datagrams in it
          resta,     \* resta[a]: receives to do, -1 before the start
          viste,     \* viste[a]: lines shown
          perse      \* history: clients a line was lost for

multicastVars == <<file, lettore, invii, gruppo, socket, resta, viste, perse>>

MulticastInit ==
  /\ file = <<>> /\ lettore = -1 /\ invii = 0 /\ gruppo = {} /\ perse = {}
  /\ socket = [a \in Ascoltatore |-> <<>>]
  /\ resta = [a \in Ascoltatore |-> -1]
  /\ viste = [a \in Ascoltatore |-> <<>>]

getNextLine == IF lettore < Len(file) THEN file[lettore + 1] ELSE Fine

\* MulticastServer is started and joins the group.
MulticastServer ==
  /\ file = <<>>
  /\ file' \in Programmi
  /\ UNCHANGED <<lettore, invii, gruppo, socket, resta, viste, perse>>

\* A pass over the file begins: a new reader.
FileReader ==
  /\ file # <<>> /\ lettore = -1
  /\ lettore' = 0
  /\ UNCHANGED <<file, invii, gruppo, socket, resta, viste, perse>>

\* Mutant: the reader is rebuilt one line too far, the one just tried.
FinePassata_salta ==
  /\ lettore # -1 /\ getNextLine = Fine
  /\ lettore' = 1
  /\ UNCHANGED <<file, invii, gruppo, socket, resta, viste, perse>>

\* No more lines, or a line that says so: the pass is over.
FinePassata ==
  /\ lettore # -1 /\ getNextLine = Fine
  /\ lettore' = -1
  /\ UNCHANGED <<file, invii, gruppo, socket, resta, viste, perse>>

\* A line goes to the group; a subset of the members does not get it.
send ==
  /\ lettore # -1 /\ getNextLine # Fine /\ invii < MaxInvii
  /\ \E persi \in SUBSET gruppo :
       /\ socket' = [a \in Ascoltatore |-> IF a \in gruppo \ persi THEN Append(socket[a], getNextLine)
                                           ELSE socket[a]]
       /\ perse' = perse \cup persi
  /\ lettore' = lettore + 1 /\ invii' = invii + 1
  /\ UNCHANGED <<file, gruppo, resta, viste>>

\* A client starts: its socket, with a timeout of 20 s, joins the group.
joinGroup(a) ==
  /\ file # <<>> /\ resta[a] = -1
  /\ resta' = [resta EXCEPT ![a] = Ricezioni]
  /\ gruppo' = gruppo \cup {a}
  /\ UNCHANGED <<file, lettore, invii, socket, viste, perse>>

\* One of the receives: a line is shown.
receive(a) ==
  /\ resta[a] > 0 /\ socket[a] # <<>>
  /\ viste' = [viste EXCEPT ![a] = Append(@, Head(socket[a]))]
  /\ socket' = [socket EXCEPT ![a] = Tail(@)]
  /\ resta' = [resta EXCEPT ![a] = @ - 1]
  /\ UNCHANGED <<file, lettore, invii, gruppo, perse>>

\* The last receive is done, or 20 s have passed without a line: the client
\* leaves the group and its socket is closed.
leaveGroup(a) ==
  /\ a \in gruppo /\ (resta[a] = 0 \/ socket[a] = <<>>)
  /\ gruppo' = gruppo \ {a}
  /\ resta' = [resta EXCEPT ![a] = 0]
  /\ socket' = [socket EXCEPT ![a] = <<>>]
  /\ UNCHANGED <<file, lettore, invii, viste, perse>>

MulticastNext ==
  \/ MulticastServer \/ FileReader \/ FinePassata \/ send
  \/ \E a \in Ascoltatore : joinGroup(a) \/ receive(a) \/ leaveGroup(a)

-----------------------------------------------------------------------------
\* The lines of a pass: those before one that reads like the end.
Passata == IF \E k \in DOMAIN file : file[k] = Fine
           THEN SubSeq(file, 1, (CHOOSE k \in DOMAIN file : file[k] = Fine
                                   /\ \A j \in 1 .. k - 1 : file[j] # Fine) - 1)
           ELSE file

\* A client that lost no line has seen a stretch of the endless repetition of
\* the file from where it joined, with no line skipped or doubled where one
\* pass ends and the next begins.
AscoltoContinuo ==
  \A a \in Ascoltatore \ perse : viste[a] # <<>> =>
    \E inizio \in 0 .. Len(Passata) - 1 : \A k \in DOMAIN viste[a] :
      viste[a][k] = Passata[((inizio + k - 1) % Len(Passata)) + 1]
=============================================================================

# Reti di Calcolatori: models, checks and proofs

The repository collects the exercises of a computer-networks course: small
client/server systems in C (UDP and TCP sockets, `fork`, `select`, Sun RPC) and
in Java (datagram and stream sockets, threads, RMI).  There is no single
program: each exercise is a system of its own, and several systems share an
idiom (the `SIGCHLD` handler, the `select` loop, the request/answer datagram).
The models follow that structure: one module per idiom, one per system built on
it.

## 1. Inventory

`E` stands for `src/Esercitazioni_NEW`, `V` for `src/Esercitazioni`, which holds
older solutions of the same exercises: copies, earlier versions, and some programs
of their own.

### 1.1 Systems

**Sala** (`E/Esercitazione8/Codice/Svolta`).  Sun RPC over UDP.  A hall of
10 x 7 seats; `prenota_postazione_1_svc` books a seat with a kind (D, P or B)
and returns 0 or -2 (taken); `visualizza_stato_1_svc`
returns the hall.  State: the table `sala` and the flag `inizializzato`, both
in the server's memory, both laid out by whichever procedure runs first.
Clients are menu loops over `clnt_call`.  Hard: a datagram transport that loses,
delays and repeats requests, a server that executes a repeated request again, a
client that gives up and goes on.  Correct when a seat has one winner, its
booking never changes, and what a user is told is true of the hall.

**XFactor** (`E/Esercitazione8/Codice/Proposta`).  Sun RPC over UDP.  A table of
12 candidates with judge, category, file and votes; `classifica_giudici` sums
and sorts the votes by judge, `esprimi_voto` adds a vote.  Same transport, but
`esprimi_voto` is not idempotent and its `static int found` is never reset.
Correct when no vote is invented, the ranking is the sum of the votes, and the
answer says whether the candidate exists.

**select servers** (`E/Esercitazione4/Codice/Svolta`).  `select_server1` sends
one file per TCP connection, `select_server2` any number of files over one
connection, separated by a zero byte; both answer on a UDP socket with the
number of files of a directory.  State: the descriptors of the father, the
children it has forked, the zombies not waited for, the datagrams in flight.
Interactions: the father shares each connection with a child, is interrupted by
`SIGCHLD`, and serves two sockets in turn.  Hard: merged signals, a descriptor
leak, `fork` and `accept` that fail, the alignment of answers on a stream.
Correct when every file shown is whole, every request ends, the handler never
blocks the server and the descriptors come back.
`E/Esercitazione4/Codice/Proposta/server_select.c` is a third server of the
family (delete the vowels of a file; list of a directory).

**Remote sort and del_line** (`E/Esercitazione3/Codice/Svolta/RemoteSort_*.c`,
`.../Proposta/del_line-*.c`).  A child per connection; the client sends a whole
file and then reads the answer.  Same handler as the select servers.  Hard: two
bounded socket buffers filled from both ends; `del_line-client` reuses one
connection for several files and the server treats it as one.
`V/Esercitazione3/Proposta` solves `del_line` with one process that serves its
clients in turn (`serverStream.c`, `clientStream.c`).  Hard: lines cut by blocks,
and one client that can stop all the others.

**OpDatagram, longest word** (`E/Esercitazione3/Codice/{Svolta,Proposta}`).
Stateless UDP servers; the client waits without a timeout.  Hard: a result
variable that keeps the value of the previous request.
`V/Esercitazione3/Svolta/datagram` is the operation once more, with its integers
converted both ways.  Hard: two hosts of different byte orders.

**get and delete word** (`V/Esercitazione4/Proposta`: `server.c`,
`stream_client.c`, `datagram_client.c`).  A select server: files over a connection,
a word deleted from a file by datagram.  Hard: a terminator that only some answers
have, a buffer not initialised, descriptors not closed, a temporary file not emptied.

**Line and Multicast** (`E/Esercitazione1/Codice/Svolta`).  UDP in Java: a line
of a file by number, and a file read aloud to a multicast group.  The client
times out after 30 s and asks again on the same socket without numbering its
requests.  Hard: a late answer is taken for the answer to the next question.

**Discovery and Swap** (`E/Esercitazione1/Codice/Proposta`).  A discovery server
maps a file name to the port of a swap server, which exchanges two lines of the
file through one fixed temporary file.  Hard: several swap servers share the
temporary file's name.

**PutFile** (`E/Esercitazione2/Codice/Svolta`).  TCP in Java: upload of a file,
in the place of the one of that name the server may have; a sequential server and
one with a thread per connection.  Hard: two uploads of one name between `exists`
and the creation of the file; a client that dies half-way; a file that cannot be
created, which ends the server.

**MPut** (`E/Esercitazione2/Codice/Proposta`).  TCP in Java, a thread per
client: every file of a directory over one connection, each preceded by its
name and length.  Hard: framing, and a thread that ends the whole server.

**Congresso** (`E/Esercitazione6/Codice/{Svolta,Proposta}` behind the registry,
`E/Esercitazione5/Codice/Svolta` behind `rmiregistry`).  RMI: `registrazione` in
a programme of 3 days x 12 sessions x 5 speakers (`synchronized`), `programma`
(not synchronized: the object is serialised while others register).  State: one
`Programma` per day, in the memory of the server.  Correct when a confirmed
speaker keeps one place, a session fills in order, a refusal is true and a
programme shown misses nobody it should have.

**RemOp** (`E/Esercitazione5/Codice/Proposta`).  RMI: count the long lines of a
file, remove a line of it by rewriting the file.

**Registry** (`E/Esercitazione6/Codice/{Svolta,Proposta}`).  RMI: a remote
registry of names and references in a fixed table, with the bootstrap lookups
of clients and servers; the second version adds tags.  Hard: two calls where one
is needed (name, then tags; search, then lookup), holes left by removal, tags
that outlive the entry they described, a table at its limit, a server that dies
and leaves its entry.

**conta, operazioni, echo** (`E/Esercitazione7/Codice`).  Sun RPC: count the
characters, words and lines of a file; count the long files of a directory; two
introductory services.

**Filters** (`E/Esercitazione0`).  `produttore` and `consumatore`: one process,
one file.

**Exams** (`src/Prove Esame`, `src/EsameScaricato`, `src/soluzioniEsempio`).
Programs written under exam conditions, on the same idioms (select servers, a
thread per client, RMI, RPC); some are fragments that do not compile.

**Templates, tips, single files** (`src/Templates`, `src/Tips&Tricks_*`,
`src/File.c`, `src/rpc_prova1.c`): material to copy from.

### 1.2 What is hard to test

`PROJECT.json`, under `hazards`, lists these at their lines with the properties
that would catch them.  In short: repeated execution of an RPC; a late answer
taken for a fresh one; two children and one signal; a stream whose framing
slips; a failed `fork` or `accept`; a table laid out by whoever comes first;
byte order; an object read by one thread while others change it; a registry
used with two calls where another process may come between.

## 2. Plan

The order is by how much concurrency and failure a system has, and by how many
others reuse its model.

1. `RpcUdp`, `Sala`, `Prenotazione`, `SalaProofs` (written).
2. `Figli`, `SelectLoop`, `SelectServer1`, `SelectServer2`, with
   `SelectLoopProofs`, `SelectServer1Proofs`, `SelectServer2Proofs` (written).
3. `XFactor`, on `RpcUdp`, and `XFactorProofs` (written).
4. `Registry`, `Congresso`, `CongressoProofs` (written); `CongressoSemplice`, the
   congress of one name of Esercitazioni 5 and 6 svolte (written).
5. `Filtri`, `Direttori` and `GetFile`, on `Tcp`: streams with bounded buffers
   (written).
6. `Datagrammi`, `Servizi`, `Multicast`: datagrams that nothing numbers;
   `ServiziRpc`: the small RPC services (written).
7. `FileSystem`, with `PutFile`, `MPut` (on `Tcp`) and `Riscrittura`, `Scambio`,
   `RemOp`: threads and files; `TrasferimentiProofs` (written).

What a run checks and no theorem states is listed at the end of section 5, with
the reason.  Still to be written: a timetable as the abstract specification of
`Congresso`, as `Prenotazione` is of `Sala`, and the proof that it is implemented.

## 3. Modules

| module | models | on top of |
|---|---|---|
| `RpcUdp` | `clnt_call` over UDP: transaction numbers, retransmission, timeout, replies matched by number; `svc_sendreply` | - |
| `Prenotazione` | what the hall promises: a seat is assigned once, and answers agree with the assignment | - |
| `Sala` | `sala_s.c`, the client's menu, the stubs | `RpcUdp`; refines `Prenotazione` |
| `XFactor` | `xfactor_s.c`, the client's menu, the stubs | `RpcUdp` |
| `ServiziRpc` | `conta`, `operazioni` and `echo`: procedures, stubs, clients | `RpcUdp`, `Testi` |
| `Figli` | `fork`, `exit`, the pending bit of `SIGCHLD`, the handler | - |
| `SelectLoop` | the father's `select`/`accept`/UDP loop and `datagram_client` | `Figli` |
| `SelectServer1` | `select_server1.c` with `stream_client1.c` | `SelectLoop` |
| `SelectServer2` | `select_server2.c` with `stream_client2.c` | `SelectLoop` |
| `Registry` | `RegistryRemotoImpl.java` of Esercitazione 6 with tags, its methods as actions and operators on the table | - |
| `Congresso` | the servers that register, `ServerCongressoImpl.java`, `Programma.java`, `ClientCongresso.java` | `Registry` |
| `CongressoSemplice` | the congress behind `rmiregistry`, and behind the registry without tags | - |
| `Datagrammi` | question and answer over UDP: `sendto`, `recvfrom`, the socket timeout | - |
| `Testi` | the loops over the characters of a text (lines, words, counts), and what they should compute | - |
| `Servizi` | `LineServer.java`, `OpDatagram_server.c`, `serverDatagram.c`, `longest-word-server.c`, the UDP parts of `server_select.c` and of `server.c` | `Datagrammi`, `Testi` |
| `Multicast` | `MulticastServer.java`, `MulticastClient.java` | - |
| `Interrogazioni` | one of `Servizi`, `Multicast`, `ServiziRpc`, `CongressoSemplice` runs | those four |
| `Tcp` | a connection: two bounded streams and their ends | - |
| `FileSystem` | names, inodes, contents; create, write, delete, rename | - |
| `Filtri` | `RemoteSort` and `del_line`, clients and children; `serverStream.c` with `clientStream.c` | `Tcp` |
| `Direttori` | the TCP part of `server_select.c`, with `stream_client.c` | `Tcp` |
| `GetFile` | the TCP part of `server.c`, with its `stream_client.c` | `Tcp` |
| `PutFile` | `PutFileClient.java` with both servers | `Tcp`, `FileSystem` |
| `MPut` | `MPutFileClient.java`, `MPutFileServerCon.java` | `Tcp`, `FileSystem` |
| `Riscrittura` | a thread that rewrites a file through a temporary one | `FileSystem` |
| `Scambio` | `DiscoveryServer.java`, `SwapServer.java`, `SwapClient.java` | `Riscrittura` |
| `RemOp` | `ServerImpl.java`, `Client.java` | `Riscrittura` |
| `Trasferimenti` | one of `Filtri`, `Direttori`, `GetFile`, `PutFile`, `MPut`, `Scambio`, `RemOp` runs | those seven |
| `SelectLoopProofs` | lemmas about the father's loop, the children, the backlog and a stream of equal items | `SelectLoop`, `TLAPS` |
| `SalaProofs`, `SelectServer1Proofs`, `SelectServer2Proofs`, `XFactorProofs`, `CongressoProofs`, `InterrogazioniProofs`, `TrasferimentiProofs` | theorems | the module they name, `TLAPS` |
| `MCSala`, `MCSelectServer1`, `MCSelectServer2`, `MCXFactor`, `MCCongresso`, `MCInterrogazioni`, `MCTrasferimenti` | constants for TLC | |

`Interrogazioni` and `Trasferimenti` put side by side exercises that share no
state.  Their variable `attivo` says which one runs; it is chosen by the first
step (`Sceglie`) and never changes, and every action of the others is then
disabled.  A behaviour is thus a behaviour of one exercise, and each property
speaks of the one it belongs to; it holds of the others because their variables
stay as in `Init`.  What is gained is a single description of what several
exercises do use alike: `Tcp`, `FileSystem`, `RpcUdp`, `Testi`.

### 3.1 RpcUdp and Sala

`richieste` and `risposte` are sets of datagrams: a set, because a datagram may
be delivered again (`Ritrasmetti` puts a copy on the network, bounded by
`Tentativi`), overtake another or never be delivered.  A request is
named by its client and its transaction number `xid`; `clnt_call` takes a fresh
number, `Restituisci` accepts only the reply with the number of the call that
waits, `Scaduto` is the 25 s total timeout after which the stub returns `NULL`
and the client prints an error.  These rules are those of the RPC library, which
is not in the repository: the map marks them external.

`Sala` has the table `sala` and the flag `inizializzato`.  `SalaCorrente` is the
table a procedure works on: `inizializza`'s layout the first time, the stored
one afterwards.  One action per procedure outcome; the server is a single
thread, so a procedure is one step.  `Chiama`, `Leggi`, `Attesa`, `Esci` are the
client's menu.  Two history variables serve the properties: `titolare`, the call
a seat was given to, and `esiti`, what each user was told.

A retransmitted booking is executed twice and its second execution answers
"occupata": a user may be told that the seat just won is taken.  The
specification `Prenotazione` allows that answer, since the code promises no
more; it forbids a confirmation to two calls and a seat that changes.

### 3.2 Figli, SelectLoop and the select servers

`Figli` is the kernel's side: children running, zombies, a pending bit and
whether the server is inside `gestore`.  An `exit` while the bit is set is
merged with the earlier one.  `SIGCHLD` may interrupt the father at every step;
while the handler runs, none of the father's actions is enabled (`Attivo`).

`SelectLoop` holds the father's program counter: after `select` it goes through
the TCP block, then the UDP block if `select` saw both, as the two successive
`if`s do.  Descriptors are counted in `aperti` (at most `limiteFd`).  A failed `accept`
exits the server.  `fork` may fail at any time, for want of memory or of
processes: a failed `fork` returns -1, which the code takes for the father's branch.

`SelectServer1` and `SelectServer2` add the child and the stream client.  A TCP
connection is a reliable sequence each way, an end of file once every holder of
the server's side has closed it (or the child has called `shutdown`), and a
reset for connections still in the backlog of a server that exits.  A file is a
number of blocks (server 1) or bytes (server 2), and a name is a member of
`Nomi`.  `ok`, the status byte, keeps its old value when `read` returns 0, as
the variable in the program does.

The datagram client prints `ntohl` of what it receives; `ntohl` is modelled as
it computes on a little-endian host, which is where the course's binaries run.

### 3.3 XFactor

The transport and the shape of the server are those of `Sala`.  `voto` is the
column of votes of the table that `inizializza` writes whole at the first call;
the other columns are the constant `Righe`.  `found`,
the static result of `esprimi_voto`, is a variable of the server.  The ranking is
computed as the code does, row by row into a table of judges and then by the
bubble sort, with its bounds.  `esprimi_voto` has three outcomes: it adds a vote,
takes one away unless the row has none, or finds no such name.  The server runs
every copy of a request, so that one vote may count as many times as its request
was delivered: `VotiGiustificati` allows that and no more.

### 3.4 Registry and Congresso

Every method of the registry is `synchronized`, so each is one step on `table`;
methods that only read are operators.  Rows are searched from the top: `Primo` is
where a loop stops.  `Viste` is how far `cercaTag` looks, which is the first free
row and not the end of the table.

A call to a congress server is three steps of the model: the client's request
(`chiede_...`), its execution by a thread of the server (`registra`,
`registra_piena`), the reading of the answer (`legge_...`, `stampa`).  `registra`
is synchronized, one step.  `programma` returns a reference to the live object,
which RMI serialises after the method has returned; each cell read is a step, in
the order of the array.  A speaker is named by the call that registers it: the
code compares speakers with nothing but the initial `""`, and by reference, so
that not even an empty name typed by a user counts as free.

A server may die in any step (`Muore`); its memory goes, and with it the
programme, while its entry in the registry stays.  A call to a dead server, a null
reference, or a search that throws ends the client: `main` catches the exception
around its whole loop.  `Elimina` stands for other users of the registry's
interface, bounded by `MaxEliminazioni`: no program of the repository calls it.
The history variables are `confermate` and `piene`, what users were told, and
`dopo` in a request, who had been confirmed when it was made.

### 3.5 Interrogazioni: Datagrammi, Servizi, Multicast, ServiziRpc, CongressoSemplice

**Datagrammi.**  `attende[c]` is a client inside `recvfrom` (or `receive`),
`domande` and `arrivi` the datagrams under way or in a socket's buffer.  `sendto`,
`recvfrom` and `SocketTimeout` are the client; `Risposta` and `Scarta` are the
server's end, given their result by `Servizi`.  A question carries its ordinal
`num` as a history: it is on the wire of no program, and `recvfrom` takes any
answer there is.  A loss is a datagram that nobody takes.  Only `LineClient` has
a timeout; the C clients wait for ever.

**Servizi.**  `servizio` is the server that runs and `disco` its directory.  The
six servers are single processes which read, compute and answer before the next
`recvfrom`, hence one step each.  What they compute is in `Testi`: each loop over
`read` is a fold of its body over the characters, and the comparison used by the
properties is made by positions of separators, without a loop.  Integers have two
"bytes" of base `B`, so that byte order and overflow both matter.  A datagram
carries bytes, read as a number: `Byte` is how a host keeps an integer, `ntohl` its
conversion (the identity on a big-endian host, a swap on a little-endian one), and
`ordine` gives each of the two hosts an order of its own.  Where nothing is
converted on the way the two hosts are alike: for `server.c`, whose client applies
`ntohl` to a count sent as it is, and for `longest-word-server` and `server_select`,
which send an `int` as it is (longest-word-server.c:126, server_select.c:222).  The one
division of two integers that has no result, the least by -1, traps on x86 and ends
the process (`Trappola`, `divisione_impossibile`); overflows wrap.  `server_select` writes the text
without a word to a temporary file which takes the file's place.  So does
`server.c`, but over what a file called `tempFile` held before (`Rinomina`), and it
does not close the file it read: `lasciati` counts those descriptors, of
`FdLiberi`.  When they are used up a deletion answers -1, and a client of the other
service makes `accept` fail and the server exit (`accept_senza_fd`, `caduto`).

**Multicast.**  The server's pass over the file (`FileReader`, `send`,
`FinePassata`) reads a line and sends it to whoever is in `gruppo`; each member
may lose it (`perse` remembers who did).  A client joins, receives `Ricezioni`
lines, leaves; or leaves at the timeout.

**ServiziRpc.**  The transport is `RpcUdp`, as for `Sala`.  `aperti` counts the
descriptors that `dir_scan` opens on the directory and its entries and never
closes; at `MaxFd` every `open` and `opendir` fails.  An entry that may not be read
(`legge`) ends `dir_scan` with the same -1.  `int` wraps as the C type
does.

**CongressoSemplice.**  The two congresses with one logical name: `rebind` (row
1 of the table is replaced) and `aggiungi` (the first free row; no effect when
there is none).  Processes of the server die and others are started; `collega` is
the client's one lookup, whose reference it keeps.  `registra` and `programma` are
one step each here: `Congresso` has their concurrency.  What differs from
`Congresso` is what a name leads to when servers succeed one another, and the null
speaker of a user who ends the input: `programma` shows it, the next `registra`
that meets it throws.  `digita_male` is the end of the input, or a day that is no
number, where a day or a session is asked for: `parseInt`, or `equals` on a null,
throws, and the catch around the whole of `main` ends the client without a call.  A
day or a session out of range is asked for again, which changes nothing.

### 3.6 Trasferimenti: Tcp, FileSystem and what uses them

**Tcp.**  `su` and `giu` are the two directions of a connection, each at most
`Capienza` long: a write needs room.  Nothing marks where one write ends.

**FileSystem.**  `directory` maps names to inodes and `contenuto` inodes to rows.
`crea` empties an existing file and keeps its inode, `delete` takes the name away
from those who have the file open, `renameTo` fails silently without a source.

**Filtri.**  `manda[c]` is the client's place: it sends everything (`invia`), then
reads (`legge`) over the destination file, which `open` does not truncate.  `sort`
is `/usr/bin/sort` on the connection: it reads to the end of the stream, then
writes.  `del_line` sends back as it reads.  With `riga`, `serverStream.c`, there are no
children: `coda` is the queue of `listen`, and the next connection is accepted when
the one before is over.  A block read is whatever has come; `TagliaRighe` cuts it
into lines, which it keeps over the blocks, and takes the character 255 for the end
of a line (on the course's hosts it compares equal to `EOF` once it is a `char`).
When `gethostbyaddr` does not know the client, the process goes on to another and never closes the
connection (`"dimenticato"`).

**Direttori.**  The child of `server_select`: `dir[c]` is its buffer, which
`read` fills without a terminator and which holds at first what the stack held
(`Residui`).  `Elenco` is the answer, with the path that the code keeps appending
to.  The client stops at the first `#`: `ElencoGiusto` is about the connections where
that is the end of the answer (`Regolare`: one subdirectory, no `#` in a name).

**GetFile.**  The child of `server.c`: `nome_file[c]` is its buffer, which `read`
fills without a terminator, over the name before (`ResiduiGet` at first).  `Invio`
is the answer: S, the file and a zero, or N alone.  The client prints whatever comes
up to a zero, the S included.

**PutFile.**  `thr[k]` is what the server does with connection `k`: waiting in
the queue, reading the name, deleting the old file, creating, receiving,
answering.  `modo` is the sequential server, which serves one `k` at a time, or
the one with a thread each.  `scade` is the 30 s timeout of a read, or the end of
the stream where a name should be, which leaves the socket open; `non_crea` is the
`FileNotFoundException` that ends the server with whatever its other threads are
receiving; `ucciso` kills a client at any point after it has connected.  `insieme` is a history: another
thread had the same name in its hands.

**MPut.**  `mclient[k]` and `mthr[k]` follow the protocol: name, "attiva" or
"salta file", length, bytes.  `leggi_byte` is one `read(buffer)` of what has
arrived up to the buffer's size: it does not stop where the file ends.
`exit` is `System.exit` when any connection ends, which ends every thread;
the server may be started again on the same directory (`MaxAvvii`).

**Riscrittura.**  The steps `apri`, `leggi`, `rileggi`, `chiudi`, `cancella`,
`rinomina`, `togli` are the file operations of `SwapServer.java` and of
`ServerImpl.elimina_riga`, in their order, any of them interleaved with those of
other threads.  `Temporaneo` is `temp` for every swap thread and a name of the
file's own for RMI.  `insieme` says that two rewritings through one temporary (or
of one file) have met.

**Scambio** adds the discovery server (with its loop over the arguments, which
stops at the number of valid pairs), the ports and the clients' datagrams;
**RemOp** the RMI calls, one thread each.

## 4. Runs

| run | question | answer |
|---|---|---|
| `sala` | one winner per seat, refinement of `Prenotazione`, what one user is told never goes back in time, every call ends, under loss and repetition | holds |
| `select1` | every file shown is whole and every "File inesistente" true, the handler never waits for a child that is not there, every request ends, while `fork` and `accept` fail | holds |
| `select2` | answers stay aligned over a connection; one descriptor is enough; every request and every count question ends, with `fork` failing for one client | holds |
| `select1_zombie` | no zombie stays, as the comment at the `signal` call says | violated: two children, one signal |
| `select1_ris` | the count shown is the count made | violated: an unassigned variable is sent |
| `xfactor` | votes are those asked for, at most once for each delivery; totals never negative; every ranking is the sorted sum of the votes; what one user is shown never goes back | holds |
| `xfactor_esito` | a vote reported as a success is for a name in the table | violated: `found` is never reset |
| `congresso` | confirmations, refusals and programmes are true while servers die and a removal falls anywhere; searches see every service and find what they saw, unless something was removed | holds |
| `interrogazioni` | an answer is shown for the question it was made for, unless a wait has run out, and is the right one, on hosts of any byte order and until the descriptors are used up; deletions of words add up; a listener misses between two lines only what it lost; RPC services answer right until they run out of descriptors or meet an entry they may not read; a client of the simple congress ends with an exception only because of what its user typed, a null speaker, a dead or missing process, a removed entry | holds |
| `trasferimenti` | sorted and shortened files come back right, and a connection stops only where both streams are full or the client waits for a file the child took for part of the one before; listings are exact; a file printed is one of the server's, whole, and a client waits for ever only after a refusal or an empty name; a file said to be saved is whole; files that were there are untouched; rewritings that do not meet do what was asked; a count is of one version of the file | holds |
| `mput_lettura` | the bytes written to a file are those of the file | violated: `read(buffer)` takes bytes of what follows |
| `congresso_tag` | a search by tag ends without an exception | violated: a server between its two calls to the registry |

In `select1` a request whose `fork` failed is set apart by name (`Orfana`): the
father keeps its connection open, its client waits as long as the server lives
and then shows the status of an earlier request.  In `select2` the father closes
such a connection and the client comes back to its user.  Two further
disagreements are in the models without a run of their own: the father of
`select_server1` keeps every descriptor (its close, lines 202-204, is commented
out under the words "padre chiude la socket dell'operazione"), which is how
`select1` makes `accept` fail; and `datagram_client` applies `ntohl` to a count
that `select_server2` sends without `htonl`, so that 7 files are shown as
117440512.

Others, in the models of sections 3.5 and 3.6, are visible in their operators and
are allowed for by the properties that meet them:

- `OpDatagram_server` converts the operands but not the result;
- `serverStream` drops a last line that no newline ends, leaves the connection of a
  client whose host it does not know open, and stops for all when the streams of
  one are full;
- `server.c` leaves a descriptor open after each deletion, sends the count without
  `htonl`, does not empty `tempFile`, and ends a file with a zero but not a refusal,
  so that its client waits for ever after an N;
- `longest-word-server` answers -1 for a file without separators, and ignores a
  last word that nothing ends;
- `server_select` leaves an empty file under a name it has just answered -1 for;
- `del_line` serves one file: the number of a second one is read as its text;
- `dir_scan` never closes a descriptor;
- `SwapServer` writes the word "null" for a row the file does not have, always
  answers 0, and shares `temp` among its threads;
- `SwapClient` never resets the stream it packs its requests in, so that a second
  request repeats the first;
- the operation servers divide the least integer by -1, which ends them;
- a file that `PutFileServer` cannot create ends it, and a name that does not come
  leaves its socket open;
- a speaker left null makes the next `registra` that meets it throw;
- a day that is no number, or the end of the input where a day or a session is asked
  for, ends the clients of the congress with an exception ("TODO: check
  NumberFormatException" at line 90 of `ClientCongresso.java` of Esercitazione 5,
  "intercettare la NumberFormatException" at line 108 of that of Esercitazione 6).

**Bounds.**  Two clients, because every hazard listed involves at most two
actors and the server; two requests per client of `select_server1`, and of one
client of `select_server2`, so that a connection carries a second request and a
client keeps the status of a first, while the other client of the second server
holds its child idle.  `MaxChiamate` says how many calls each RPC client makes:
two for one client of `sala` and one for the other, so that the answer to a first
call is still about when the second is made and the other client books.  Two seats and two kinds tell bookings apart.  Files of two
blocks, of one byte and of none: the loop body runs, is repeated and is skipped.
`limiteFd`, the descriptors a server may hold, is chosen at the
start from `LimitiFd`: less than the number of requests, and none at all.
Counts of -1 and 0 are a missing and an empty directory.
`xfactor` has one client with three calls because one client's late answers and
repeated requests already meet its later calls.  `MCXFactor` cuts the table to
three candidates of two judges and a row in disuse, with few votes so that the
minimum is reached; users name two of the candidates and one nobody knows.  `congresso` has a table of
two rows for three servers, so that it fills; a session of two places for three
calls, so that it fills too; two congress servers of one name, so that the second
may follow the death of the first; one removal.  One session of one day is enough
for TLC since the proofs are for any number of them.  The two congress servers are
interchangeable, hence the symmetry set.

In `interrogazioni` one UDP client asks three questions, because an answer that is
late once may be late again, and makes the answers after it late too; texts have
up to four characters, which is a word between two separators and one more;
integers are two digits of base 4, so that the swapped ones differ and overflow.
Three descriptors are left to `server.c`: two deletions take place, and the next does
not.
Two listeners take three lines each of five sendings, of programmes of up to
four rows, one of which may be the word that ends the reading: the pass over the
file begins again while somebody listens.  A `dir_scan` that succeeds opens five
descriptors and nine are left, so that a second one runs out.  The simple
congress has two processes, a table of two rows, two places in a session, one
removal.

In `trasferimenti` a stream holds three items and the files are longer, so that
both directions fill; two files per connection for `del_line`; two clients for
`serverStream`, one of which may wait behind the other; two connections,
each of a client of its own, for `PutFile` and `MPut`, with a
buffer of three bytes that reaches over the end of a file of two; two starts of the
`MPut` server.  Two swap threads and two RMI clients are the two that meet.

The larger state spaces are those of `interrogazioni` (1.7 million states) and
`trasferimenti` (1.2 million); each is the sum of those of its exercises.

**Fairness.**  `FairSpec` of the select servers is weak fairness of each
process, father, handler, child, and client once it has asked: the operating
system schedules a process that can run and delivers a pending signal.  Nothing
is assumed of users, who may stop typing, nor of the network.  `Sala` assumes
only that a client's own timer expires; no datagram is assumed to arrive.

Deadlock is not checked: in every system clients may stop, and a client of a
UDP service whose datagram is lost waits for ever, as in the code.

## 5. Proofs

`SalaProofs` proves, for any number of clients, seats, kinds, calls and copies:

- `TypeOKInvariante` and `UnSoloVincitoreSempre`, the invariants of `sala`;
- `PrenotazioneRaffinata`: the service implements `Prenotazione`;
- `InvInvariante`, from which the three follow.

`UnSoloVincitore` speaks of answers users have read.  It is not inductive: a
reply in flight could confirm a seat that is someone else's, and a repeated
request could carry another argument.  `Inv` therefore adds that every reply in
flight agrees with the hall and with `titolare`, that all copies of a call carry
the same argument, that a datagram belongs to a call already made, and that an
uninitialised hall has no holder.  The proof takes each action in turn; the
refinement then maps the execution of a booking to `Assegna`, the reading of an
answer to `Conferma` or `Rifiuta`, and everything else to a stutter.  The
assumptions are `RpcAssumption` and `SalaAssumption`, which TLC evaluates on
every run.  The invariant of these proofs, and of the others, is stated with them.

`VisteCoerenti` (`VisteCoerentiSempre`) compares two answers to one user and
needs an invariant of its own, `VisteInv`: the hall contains every answer, read or
in flight, and an answer already read is contained in every view of a later call
of the same client, even one still in flight.  The step that matters is a
late view made before the user's last answer was read: it belongs to an earlier
transaction, and `Restituisci` drops it.  The hall itself only grows
(`SalaCresce`).

The proofs about the select servers share `SelectLoopProofs`, about what the two
have alike.  `FigliInv` says that a signal on its way stands for a zombie, and
that when the handler runs and another signal is pending there are two: that is
what `GestoreNonBlocca` (`GestoreNonBloccaSempre`, for both servers) needs, since
the handler's `wait` takes one of them.  `Flusso` is a stream of equal items with
its terminator, and has a lemma for each end of it.

`SelectServer1Proofs` proves `TypeOK` (`TypeOKInvariante`) and `RispostaFedele`
(`RispostaFedeleSempre`), for any number of clients, requests, files, descriptors
and failures of `fork` and `accept`.  `RispostaFedele` speaks of answers shown; `Inv`
describes the request a client waits for (`Allineata`): the child has written
nothing yet, or has answered "N" for a name that does not exist, or has sent so many blocks,
which are those read and those in flight, and has finished only when they are all
of the file.  `CodaInv` ties the backlog to the clients' phases, and `FutureInv`
says that a request not yet made has left no trace.  `SelectServer2Proofs` proves `TypeOK`,
`RisposteAllineate` (`RisposteAllineateSempre`) and `ServerVivo`
(`ServerVivoSempre`).  Its `Allineata` is about a connection with many requests: at the menu both
directions are empty; after a question, either it is on its way, or the
answer is, and the bytes in flight are exactly those written and not read,
followed by the zero once the child has gone back to `read`.  That is why a status
is never a byte of the file before.  `ServerVivo` rests on `ApertiInv`: the
father holds a connection only between `accept` and its `close`.  The assumptions are
`SelectAssumption`, `Server1Assumption` (with at least one name to ask for) and
`Server2Assumption`.

`CongressoProofs` proves, for any number of clients, servers, days, sessions,
places, rows and calls, `TypeOK` (`TypeOKInvariante`), `IscrizioneRispettata`
(`Iscrizione`), `PienaVera` (`Piena`), `OrdineDiArrivo` (`Arrivo`),
`ProgrammaAggiornato` (`Programma`), and of the registry `RicercaSenzaBuchi`
(`RicercaCompleta`) and `RiferimentoTrovato` (`Riferimento`).  The four about the
programme are not inductive, since
they speak of answers read.  `Inv` adds: a server someone refers to was started
(`Avviati`: a dead one never comes back, so a place is only ever lost together
with the whole programme); a registration under way has a number nobody has used,
and knows of nobody who was not confirmed (`Numeri`); no speaker has two places
in a day and places fill from the first (`Ordinati`); a registration carried out
has its place and a refused one finds none, before their users know (`Collocati`);
the part of a programme received so far has whoever the user may expect, or has
their cell still to come (`Ricevuti`); later requests have later places
(`InOrdine`).  The pivot is `PostoStabile`: a place taken stays as it is while the
server lives.  So a cell serialised early cannot lose a speaker confirmed before
the call, and that is why the unsynchronised `programma` is harmless here.  The
two about the registry follow from `RegistroInv`: as long as nothing is removed the
rows in use come first (`SenzaBuchi`), and a name a client has found is a name and is
still in the table when its lookup comes (`Trovato`).  The
assumptions are `RegistryAssumption` and `CongressoAssumption`.

`XFactorProofs` proves, for any table, clients, calls and copies, `TypeOK`
(`TypeOKInvariante`), `VotoMinimo` (`VotoMinimoSempre`) and `VotiGiustificati`
(`VotiGiustificatiSempre`).  The last one bounds the votes of a row by the requests sent and
by the confirmations read, with the copies counted.  The number of executions is
not in the state, but a request datagram that has left the network was executed:
`Eseguite` is `spedite` without `richieste`.  A datagram put on the network is
always a new one, so it is executed once; `VotiInv` then bounds each row
by the executions that concern it, and confirmed votes inject into them.

Two more are about the ranking, and so about loops.  A loop over an array is a fold,
and a fold is the last term of a sequence of steps (`PiegaEsiste`, `PiegaPassi`),
whose values are then known by induction over a number, with a set of numbers in
the place of the predicate.  `ClassificaCorretta` (`ClassificaCorrettaSempre`) says
what the sums and the bubble sort compute: sums over sets (`Somme`) are what the
loop over the candidates adds up, a pass carries the least entry to the end,
and swaps change neither the judges nor their sums.  `ClassificheCoerenti`
(`ClassificheCoerentiSempre`) compares two answers to one user.  Votes may also be
taken away, so a sum alone may fall; `InvLetture` (`InvLettureInvariante`)
follows, for each judge, the votes plus those taken away, which only grow, and
says that copies of a request ask the same and that a client accepts the answer
to its last transaction only.  The assumptions are `RpcAssumption` and
`XFactorAssumption`.

`InterrogazioniProofs` proves `RispostaPertinente` (`RispostaPertinenteSempre`),
`EccezioneSpiegata` (`EccezioneSpiegataSempre`), `AscoltoContinuo`
(`AscoltoContinuoSempre`), `RispostaGiusta` (`RispostaGiustaSempre`),
`RispostaRpcGiusta` (`RispostaRpcGiustaSempre`) and `ParoleRimaste`
(`ParoleRimasteSempre`), for any number of clients,
questions, processes and lines.  The first does not depend on what the servers compute:
`UdpInv` says that a question has one datagram, on its way there or back, and
that one which is not the client's current question belongs to a wait that has
expired.  For the second, `CongressoInv` says that whatever the registry or a
client refers to was started, and gives each exception its cause: what
the user typed, a process that is dead or was not there, a null name, a removed
entry.  For the third, `MulticastInv` says that
what a listener has shown and received is a stretch of the endless repetition of the
file (`Tratto`), and that as long as it is in the group the line to be sent next is
the one that follows (`Posto`, a place modulo the length of a pass); a pass ends with the
file or with a line that reads like its end (`PassataFatti`).

`RispostaGiusta` and `RispostaRpcGiusta` say what the servers compute, from texts of any
length, and that the answer still holds when it is shown.  The loops over `read()` are folds
again, and what a loop has done so far is compared with the intervals between the
separators that the reference in `Testi` is made of: the lines read so far are the
intervals that end before the current character (`LineaGiusta`), the longest
word is the longest interval (`ParolaGiusta`), and the words of `file_scan` are
as many as the intervals since each has one end.  The byte orders are arithmetic
in any base (`DueVolte`: converting twice gives the number back; `StampaDi`: what
the client prints for the bytes that came).  `ServiziInv` says that every answer, in
flight or shown, is the one its question is owed *now* (`Esatta`).  For the servers that
only read, that is because the files stay as they are.  `server.c` writes, and there the
promise must not age: a file that is gone stays gone, deletions are
only added, and `TogliOK` ties the descriptors left open to the deletions, one each, so that
"-1" and the exit have their reason for good.  `RpcInv` does the same for RPC: every
answer in flight, original or repeated, is right for its request and stays so since
the descriptors `dir_scan` leaves open only grow in number, and a client that waits
has sent nothing but its own arguments under its last transaction.

`ParoleRimaste` is about texts rewritten again and again.  A character appended to a text
either goes to the word that has no end yet, or ends it (`DopoLettera`,
`DopoSeparatore`), so that the words of what a loop has written are, after each character
read, the words read so far without the one to delete (`Levata`), with as many deletions
counted; hence what one deletion does (`EliminaGiusta`, `TogliGiusta`).
`RimasteInv` adds deletions up: the words of a file are those of the text it
had at the start without all that were deleted from it (`Rimaste`), and of the deletions so
far the first of each word was told its number (`Risposte`).  It is inductive for
`server_select` because a file that is there keeps to the characters it had, so that no
text is ever taken for a missing file, and for `server.c` because without a `tempFile` at
the start none is there later.  With one, only `Sporcata` is inductive: the words that had
an end are still at the beginning of the file.

The assumptions are `DatagrammiAssumption`, `CongressoSempliceAssumption`,
`MulticastAssumption`, `RpcAssumption`, `FdAssumption`, `ServiziRpcAssumption` and
`ServiziAssumption`: texts are finite sequences, operands fit in their type, the files
users ask for are among those a directory tells of, there or not (what stands for a
missing file is not a text of the characters of another), and a
file of `server.c` has fewer characters than an `int` can count.

`TrasferimentiProofs` proves `SalvatoIntero` (`SalvatoSempre`), `MPutIntatto`
(`MPutIntattoSempre`), `Riscritto` (`RiscrittoSempre`), `ContoCoerente`
(`ContoCoerenteSempre`), `FileStampato` (`FileStampatoSempre`) and `ElencoGiusto`
(`ElencoGiustoSempre`), for any number of
connections and threads and for files and directories of any length.  Its `Inv` is a
conjunction of six invariants, each of the exercise that runs.  Those about files that
change rest on `FileOK`: two names never lead to one inode.

- *PutFile* (`PutInv`).  `FlussoPut`: between a client and its thread there is
  what was sent and not yet read, and the end of the stream only after everything,
  unless the client was killed.  `AperturaPut`: an open file has kept the name it was opened by
  or has lost it, and, if no other thread had that name in its hands, contains what its
  thread has written.  `IncontriPut`: of two threads with one name, both know it.
  Without the last the `exists` of one thread and the creation by another
  leave two writers of one inode.
- *Rewriting* (`RisInv`).  `LavoroOK`: a thread's two inodes exist, and for RMI no name
  but the file's and its temporary's leads to the temporary's inode.  `SoloOK`: a thread
  that has met nobody reads the rows it found, has written the ones it should
  under the temporary's name, and then has them under the file's.  `IncontriRis` says who has met
  whom: with swap any two threads at work, since `temp` is one, with RMI two on
  one file.  The proof needs that a temporary is no user's file.
- *Counting* (`ContoInv`).  The inode a call of `conta_righe` reads holds the rows the
  call found: no temporary's name leads to it, and no rewriting is about to write to it,
  because a rewriting writes only to the inode it created.  A rewriting that met another is of
  a file in `incontri`, of which nothing is promised.  The words of a row are a fold
  over its characters.
- *MPut* (`MPutInv`).  What is between a client and its thread depends on where the thread
  is (`FlussoNome`, `FlussoLunghezza`, `FlussoRiceve`).  When the client has gone past the file the
  thread receives, its stream ends with the bytes of that file and, possibly, the next name
  (`Resta`, `Oltre`): since the client waits for an answer to each name, never
  with more.  `leggi_byte` may take that name as a byte
  of the file; then `cont` passes `num`, and `MPutIntatto` promises nothing of the
  file.  When `cont` is `num`, the bytes are those of a user's file.  `FileMPut`
  keeps the file that is being received apart from those the server
  started with, whose names are answered "salta file".
- *GetFile* (`GetInv`).  A request is either on its way to the child, with a buffer
  that says whether an older, longer name will show through it (`InArrivo`), or
  answered: of one and the same answer, `a` characters are printed, those up to `b` are
  in the stream and the others are still to be written (`InStampa`).  No character
  printed so far was a zero, so a zero is the end of the answer, the stream is empty at
  the menu, and no request begins behind the rest of another.
- *Lists* (`DirInv`).  The same of the answers of `server_select` (`InArrivoDir`,
  `InElenco`), on the connections where `Regolare` holds, and besides what the client has
  made of the `a` characters it took: whole names in `nomi`, the first characters of the
  next one in `parziale` (`InNomi`).  `Posizioni` says where each name of the answer ends.
  Since no name has a zero or a `#`, a zero ends the name that was sent and the `#` comes
  after the last one.

The assumptions are `PutFileAssumption`, `MPutAssumption`, `RiscritturaAssumption`,
`ScambioAssumption`, `RemOpAssumption`, `GetAssumption` and `DirettoriAssumption`: files are sequences of bytes or
rows, directories are finite, a read has room for at least a byte, rows are sequences, no
file of a user is called as a temporary is, and the files `server.c` sends have no
zero in them: of a file with one, a client of that exercise would print a part and take the
rest for the next answer.  A name that `readdir` gives is a string, which has no zero.

That a set of rows or inodes has a first one (`MinimoEsiste`), and what a fold is, are
proved in each module that needs them.

Only model-checked, and why:

- `EsitoFiltro`, which compares the filters with `SelectSeq` and
  `SortSeq` of the standard modules: the provers know nothing of what they compute;
- `StalloSpiegato`, which uses ENABLED;
- liveness under fairness.

## 6. Not modelled, and why

Argument checking at start-up, DNS and socket creation are initial states.
Buffer lengths (`gets`, file names of 20 characters) and text encodings are
abstracted: names are values.  Signals other than `SIGCHLD`, and a crash of the
machine, are left out of the C servers: they keep no state that survives one, and
nothing else refers to them.  The death of a server process is modelled where
something does, in `Congresso`: its entry in the registry outlives it.  The
registry's own process does not die.  The datagram
network loses and delays but, outside `RpcUdp`, does not duplicate.

Three components are modelled in part.  Of `server_select` (Esercitazione 4
proposta), of the older `server.c` and of the servers of Esercitazione 3 the models have what is theirs,
the services, the streams and the clients; the loop around `select`, the children
and the handler are the same lines as in `select_server1` and `select_server2`,
whose models answer for them.  `accept` and `fork` are therefore one step there.

Steps that are coarser than the code, or outcomes it has and the models do not; none
changes what the properties tell apart:

- *select_server1*: a client's `connect`, `write` and `shutdown` are one step, and so are
  the `shutdown`, `close` and `exit` of a child; a child whose `read` of the name gives
  nothing (lines 169-172) does not occur, since its client has always written;
  when the father exits, the connections it never closed end at once, although children
  forked after them hold the same descriptors (lines 202-204) until they exit.
- *select loop*: `accept` fails only for want of descriptors; any other error of it leads to the
  same exit.
- *server_select*: `<name>_temp` is opened without `O_TRUNC` (line 177), and no leftover of
  that name is there at the start; what such a leftover does is modelled for `tempFile` of
  `server.c`, opened by the same call.
- *del_line and RemoteSort*: a child that does not know its client's host closes and ends
  (del_line-server.c:114-117, RemoteSort_server.c:112-114), and the client reads an end of
  file; DNS answers there, and its failure is modelled for `serverStream` only, where it
  keeps a connection.
- *DiscoveryServer*: a port that is no number, or that cannot be bound, among the pairs it
  looks at ends the program before any client is told a port (line 64).
- *dir_scan, file_scan*: apart from unreadable entries of a directory, an `open` fails
  only for want of descriptors.

Left out for good:

- **Filters**: one process and one file, with nothing to interleave.
- **Templates, tips, single files**: material to copy from, which no program uses.
- **Older copies** (`src/Esercitazioni`): of the C programs, those with a protocol
  or a service of their own are modelled (`serverStream`, `serverDatagram`, `server.c` of
  Esercitazione 4 and their clients); the others are copies of those of `E`, with a
  few lines changed at most, or earlier versions (`serverConnesso` of RemoteSort).
  The Java ones are copies too, or earlier versions of Swap (`SwapRowServer`), of PutFile and of
  MPut (`MultiplePutServer`).  A client killed while
  `serverStream` writes to it, which would end the server by `SIGPIPE`, is left out.
- **Directories both ways** (`V/Altro/codice`): a sequential server that also sends
  directories; the way to the server repeats the exchange of MPut, "attiva" and "salta file".
- **Exams that do not compile**: `06-05-2019` (C: `client_stream.c` adds two
  pointers; Java: `RMI_Server` has a statement after its return), `10-01-2023` (C:
  the select server and both clients use undeclared names), `21-12-2005` (Java:
  `setStato` uses a parameter it does not have, `ServerStreamThread` has a `try`
  without `catch`).
- **Exams that compile and do nothing**: in `23-01-2019` (C and Java) and in the
  select server of `21-12-2005` the table is filled with "L" at the start, and no
  operation puts anything else in it.
- **Exams whose answers are undefined**: the RPC servers of `21-12-2005` and
  `23-01-2019` return addresses of their own locals, or compare a `char **` as a
  string; whatever one may say of them is about a compiler.
- **Exams that repeat what is modelled**: `RMI_Server` of `10-01-2023` rewrites a
  file as `Riscrittura` does; `src/EsameScaricato` has bookings fixed at the start,
  which synchronized methods can only delete, and in C the select loop once
  more, with a `return 0` that ends the server after the first deletion by UDP.
  `src/soluzioniEsempio` holds PDF files only.

CONSTANTS
  ClientS = {s1}
  ClientU = {u1}
  LimitiFd = {4}
  Backlog = 2
  MaxRichieste = 1
  MaxConteggi = 1
  Conteggi <- MCConteggi
  Nomi <- MCNomi
  Blocchi <- MCBlocchi
SPECIFICATION Spec
INVARIANT ConteggioRestituito
CHECK_DEADLOCK FALSE

CONSTANTS
  ClientS = {s1, s2}
  ClientU = {}
  LimitiFd = {4}
  Backlog = 2
  MaxRichieste = 1
  MaxConteggi = 0
  Conteggi = {}
  Nomi <- MCNomi
  Blocchi <- MCBlocchi
SPECIFICATION Spec
INVARIANT NienteZombie
CHECK_DEADLOCK FALSE

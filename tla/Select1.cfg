CONSTANTS
  ClientS = {s1, s2}
  ClientU = {u1}
  LimitiFd = {2}
  Backlog = 2
  MaxRichieste = 2
  MaxConteggi = 1
  Conteggi = {0}
  Nomi <- MCNomi
  Blocchi <- MCBlocchi
SPECIFICATION FairSpec
INVARIANTS TypeOK RispostaFedele GestoreNonBlocca
PROPERTIES RichiestaServita
CHECK_DEADLOCK FALSE

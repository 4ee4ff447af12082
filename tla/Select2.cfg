CONSTANTS
  s1 = s1
  s2 = s2
  ClientS <- MCClientS
  ClientU = {u1}
  LimitiFd = {0, 1}
  Backlog = 2
  MaxRichieste <- MCRichieste
  MaxConteggi = 1
  Conteggi = {0}
  Nomi <- MCNomi
  Byte <- MCByte
SPECIFICATION FairSpec
INVARIANTS TypeOK RisposteAllineate ServerVivo
PROPERTIES RichiestaServita DomandaServita
CHECK_DEADLOCK FALSE

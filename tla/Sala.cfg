CONSTANTS
  c1 = c1
  c2 = c2
  Client <- MCClient
  Tentativi = 2
  MaxChiamate <- MCChiamate
  Nessuno = Nessuno
  NUMFILE = 2
  LUNGHFILA = 1
  Scelte = {"P", "B"}
SPECIFICATION FairSpec
INVARIANTS TypeOK UnSoloVincitore VisteCoerenti
PROPERTIES PrenotazioneRispettata ChiamataTermina
CHECK_DEADLOCK FALSE

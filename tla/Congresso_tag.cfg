CONSTANTS
  Client = {c1}
  Server = {s1}
  Congressi = {s1}
  serviceName <- MCServiceName
  tags <- MCTags
  TagUtente = {"congresso", "ristorante"}
  TagCongresso = {"congresso", "registrazione"}
  VALID_TAGS = {"congresso", "registrazione", "ristorante"}
  tableSize = 2
  Giorni = {1}
  Sessioni = 1
  Posti = 2
  Libero = Libero
  NonLetto = NonLetto
  Nullo = Nullo
  MaxChiamate <- MCMaxChiamate
  c1 = c1
  c2 = c2
  MaxEliminazioni = 0
SPECIFICATION Spec
INVARIANT RicercaRisponde
CHECK_DEADLOCK FALSE

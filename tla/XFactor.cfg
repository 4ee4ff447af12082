CONSTANTS
  Client = {c1}
  Tentativi = 2
  MaxChiamate <- MCTre
  Nessuno = Nessuno
  Righe <- MCRighe
  NUM_GIUDICI = 4
  Nomi = {"Paperino", "Viga", "Pippo"}
  Operazioni = {"A", "S"}
SPECIFICATION Spec
INVARIANTS TypeOK VotoMinimo VotiGiustificati ClassificaCorretta ClassificheCoerenti
CHECK_DEADLOCK FALSE

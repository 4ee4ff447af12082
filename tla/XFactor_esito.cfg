CONSTANTS
  Client = {c1, c2}
  Tentativi = 2
  MaxChiamate <- MCUna
  Nessuno = Nessuno
  Righe <- MCRighe
  NUM_GIUDICI = 4
  Nomi = {"Paperino", "Pippo"}
  Operazioni = {"A"}
SPECIFICATION Spec
INVARIANT EsitoVeritiero
CHECK_DEADLOCK FALSE

SPECIFICATION Spec
CONSTANTS
  u1 = u1
  u2 = u2
  Utente = {u1, u2}
  MaxDomande <- MCDomande
  B = 4
  Assente = Assente
  FdLiberi = 3
  Dischi <- MCDischi
  Richieste <- MCRichieste
  asc1 = asc1
  asc2 = asc2
  Ascoltatore = {asc1, asc2}
  Programmi <- MCProgrammi
  Ricezioni = 3
  MaxInvii = 5
  c1 = c1
  c2 = c2
  Client = {c1, c2}
  Tentativi = 2
  MaxChiamate <- MCMaxChiamate
  Nessuno = Nessuno
  FileConta <- MCFileConta
  DirConta <- MCDirConta
  Chiamate <- MCChiamate
  MaxNomi = 2
  MaxFd = 9
  MetaInt = 8
  s1 = s1
  s2 = s2
  Processo = {s1, s2}
  k1 = k1
  k2 = k2
  Congressista = {k1, k2}
  Sessione = {"S1"}
  Nomini = {"anna", "", Null}
  Null = Null
  Interventi = 2
  RigheTabella = 2
  MaxCongresso <- MCMaxCongresso
  MaxTolti = 1
INVARIANTS RispostaPertinente RispostaGiusta ParoleRimaste AscoltoContinuo RispostaRpcGiusta EccezioneSpiegata
CHECK_DEADLOCK FALSE

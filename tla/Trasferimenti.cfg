SPECIFICATION Spec
CONSTANTS
  fa = fa
  fb = fb
  fc = fc
  c1 = c1
  c2 = c2
  Conn = {1, 2}
  Capienza = 3
  ConnFiltri <- MCConnFiltri
  Sorgenti <- MCSorgenti
  Destinazioni <- MCDestinazioni
  LineeTolte <- MCLinee
  MaxFile = 2
  ConnDirettori = {1}
  Albero <- MCAlbero
  Domandate <- MCDomandate
  Residui <- MCResidui
  MaxElenchi = 3
  ConnGet = {1}
  FileGet <- MCFileGet
  NomiGet <- MCNomiGet
  ResiduiGet <- MCResidui
  MaxGet = 3
  ClienteDi <- MCClienteDi
  Blocchi <- MCBlocchi
  FileInviati = {fa, fb}
  Vecchio <- MCVecchio
  Cartelle <- MCCartelle
  Presenti <- MCPresenti
  Buffer = 3
  MinimoByte = {0, 2}
  MaxAvvii = 2
  File = {fa, fb, fc}
  Nomi <- NomiFile
  Lavoratori <- MCLavoratori
  Cliente = {c1, c2}
  Comandi <- MCComandi
  Testo <- MCTesto
  Coppie <- MCCoppie
  MaxScambi <- MCMaxScambi
  ClientiRmi = {c1, c2}
  FileRemoti <- MCFileRemoti
  RigheChieste = {0, 1, 2}
  Soglie = {0, 1}
  MaxEliminate <- MCMaxEliminate
INVARIANTS EsitoFiltro StalloSpiegato ElencoGiusto FileStampato SalvatoIntero MPutIntatto Riscritto ContoCoerente
CHECK_DEADLOCK FALSE

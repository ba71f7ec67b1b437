SPECIFICATION PatientSpec
CONSTANTS
  Python <- MCOne
  Ver <- MCOne
  Dist <- MCOne
  Bin <- MCOne
  Verbs <- OnlyInstall
  Edits <- NoEdits
  MaxEdits = 0
  MaxBootFailures = 1
  Supported = TRUE
PROPERTIES
  RerunConverges

\* The three flags the proxy needs, with up to three others.
SPECIFICATION Spec
CONSTANTS
  Arguments <- MCArguments
  CommandLines <- MCCommandLines
  Surroundings <- MCSurroundings
INVARIANTS
  TypeOK
  StartedAsGiven
  LegalConfiguration
  ExitExplained

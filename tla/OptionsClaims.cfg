\* The help text of --oidc-required-claim.
SPECIFICATION Spec
CONSTANTS
  Arguments <- MCArguments
  CommandLines <- MCCommandLinesFew
  Surroundings <- MCSurroundings
INVARIANT RequiredClaimsVerified

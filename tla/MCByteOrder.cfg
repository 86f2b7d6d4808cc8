SPECIFICATION OrderSpec
CONSTANTS
  Hosts <- MCHosts
  Order <- MCOrder
  Build <- MCBuild
  Values <- MCValues
INVARIANT Portable

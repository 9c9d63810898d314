SPECIFICATION CallerSpec
CONSTANTS
  MaxArguments = 3
  Scopes <- MCScopes
  Roles <- MCRoles
  Arguments <- MCArguments
  ScopeClaim <- MCScopeClaim
  RolesClaim <- MCRolesClaim
  Values <- MCValues
  Issued <- MCIssued
INVARIANTS
  TypeOK
  AllOfIsConjunction
  DocumentUnderstates
  UnsatisfiableRefusesAll
  ServedAsGranted

CONSTANTS
  Fact = {1, 2, 3}
  NamespaceOf <- MCNamespaceOf
  Principal <- MCPrincipal
  PermissionsOf <- MCPermissionsOf
  PageSizes = {1, 2}
  Tiers = {"PUBLIC", "RESTRICTED"}
  MaxWrites = 2
  NoRow = NoRow
  Segment <- MCSegment
  Star <- MCStar
  Blank <- MCBlank
SPECIFICATION Spec
INVARIANTS ListingsTypeOK ReadsAgree EveryFactIsListedOnce WalkIsComplete WalkRepeatsNothing
CHECK_DEADLOCK FALSE

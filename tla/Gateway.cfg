CONSTANTS
  r1 = r1
  r2 = r2
  r3 = r3
  Req = {r1, r2, r3}
  Agent = {a1}
  Offered <- OfferedMC
  CapValues = {1}
  Quotas <- QuotasMC
  Bodies <- BodiesMC
  MaxDay = 2
  MaxFaults = 1
  NoAgent = NoAgent
  NoCap = NoCap
  NoRequest = NoRequest
SPECIFICATION Spec
INVARIANTS GatewayTypeOK QuotaHolds Accountable CapsAreKept
CHECK_DEADLOCK FALSE

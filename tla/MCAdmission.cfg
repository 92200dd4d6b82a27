SPECIFICATION Spec
CONSTANTS
  Requests <- MCRequests
  Tenants <- MCTenants
  CostOf <- MCCostOf
  TenantOf <- MCTenantOf
  MaxSkips = 2
  Configs <- MCConfigs
  FirstConfig <- MCFirst
  DefaultTenant = "_default"
  StepUp = 1
  MaxLate = 1
INVARIANTS TypeOK NoFittingHeadWaits
PROPERTIES AdmissionsRespectBudget ReservedHeadIsServedFirst
CHECK_DEADLOCK FALSE

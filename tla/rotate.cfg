SPECIFICATION Spec
CONSTANTS
  c1 = c1
  c2 = c2
  c3 = c3
  Pipelines <- MCPipelines
  Validity = 10
  Year = 11
  Threshold = 5
  Lead = 3
  Delay = 2
  Patience = 2
INVARIANTS
  CredentialsDoNotExpire
  VariableHoldsActiveToken

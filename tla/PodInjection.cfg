SPECIFICATION Spec
CONSTANTS
    Text <- MCText
    Pods = {p1}
    Policies <- MCPolicies
    Templates <- MCTemplates
    MaxPolicies = 3
    MaxUpdates = 1
    Setups <- MCSetups
    None = None
    NotMounted = NotMounted
    BuiltIn = BuiltIn
INVARIANTS NoSilentBypass WellFormed 
PROPERTIES RulesArrive
CHECK_DEADLOCK FALSE

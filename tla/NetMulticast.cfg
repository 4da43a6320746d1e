SPECIFICATION Spec
CONSTANTS
    Groups <- MCGroups
    Interfaces <- MCInterfaces
    DefaultIf <- MCDefaultIf
INVARIANT TypeOK
INVARIANT MembershipsMatchRequests

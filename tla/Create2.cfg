\* Three calls, one of a contract that needs more gas, and a chain that is reset.
SPECIFICATION FairSpec
CONSTANTS
    Clients = {1, 2}
    Calls = {1, 2, 3}
    Estimated = {3}
    Heavy = {"b"}
    MaxFunds = 2
    MaxResets = 1
    ClientOf <- MCClientOf
    Contract <- MCContract
INVARIANTS
    Create2TypeOK
    FactoryComesFirst
    ReturnedIsDeployed
PROPERTIES
    RetriesSucceed
CHECK_DEADLOCK FALSE

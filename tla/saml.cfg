CONSTANTS
    idp1 = idp1
    idp2 = idp2
    IdPs = {idp1, idp2}
    Configs <- SomeConfigs
    URIs <- SomeURIs
    States = {"/home", "/mail"}
    RelayStates = {given_relay}
    given_relay = given_relay
    LogoutBinding <- SoapAndRedirect
    None = None
    MaxQueries = 2
    MaxRestarts = 1
    MaxChanges = 1
SPECIFICATION Spec
INVARIANTS ServiceProviderInvariant RelayLeadsBack RefusedOnce LoggedOutEverywhere
PROPERTY BestServiceSelected
CHECK_DEADLOCK FALSE

\* Every order of what happens to three access points, two modems, two VPN connections and two activations.
SPECIFICATION Spec
CONSTANTS
    Aps <- MCAps
    KeyOf <- MCKeyOf
    SecuredKeys <- MCSecured
    EnterpriseKeys <- MCEnterprise
    Strengths = {0, 50}
    HasWifi = TRUE
    Modems = {1, 2}
    Vpns = {1, 2}
    MaxEvents = 3
    MaxConnects = 2
INVARIANTS
    GroupSound
    MenuSound
    LinkAgrees
CHECK_DEADLOCK FALSE

CONSTANTS
    a = a
    b = b
    Account = {a, b}
    Singleton = Singleton
    Setup <- MCSetup
    Configs <- MCConfigs
    Salt = {1}
    None = None
    Other = Other
    MaxProxies = 2
    MaxDepth = 4
SPECIFICATION Spec
INVARIANTS SetupOnce BornAsPromised SetUpWhole

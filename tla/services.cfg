SPECIFICATION PartsSpec
CONSTANTS
    Parts = {"installs", "updates", "streams", "files", "screen", "breaks", "agent", "agents", "config", "creates", "serial", "torn", "links", "access", "catalogs", "rates"}
    Claimants = {"c1", "c2"}
    Users = {"u1", "u2"}
    Global = "all"
    Unit = 2
    BurstOf <- MCBurstOf
    RefillOf <- MCRefillOf
    MaxBuckets = 3
    Ttl = 2
    MaxTime = 6
    MaxLate = 2
INVARIANTS UpdatesAreWhole BridgeIsWhole AgentTurnIsWhole SettingsAreWhole RatesHold
PROPERTIES SettingsStay
CHECK_DEADLOCK FALSE

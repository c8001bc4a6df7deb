SPECIFICATION Spec
CONSTANTS
    ability = ability
    Templates = {t, u}
    AbilityOf <- OneAbility
    Singleton = {t, u}
    AutoStart = {t}
    KeepAlive = {t}
    MaxIds = 3
    MaxRetry = 2
    BootMax = 1
    MaxEvents = 2
INVARIANT AbilitySingleton
CHECK_DEADLOCK FALSE

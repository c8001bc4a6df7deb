SPECIFICATION FairSpec
CONSTANTS
    ability = ability
    Templates = {t, once}
    AbilityOf <- OneAbility
    Singleton = {t, once}
    AutoStart = {t, once}
    KeepAlive = {t}
    MaxIds = 5
    MaxRetry = 2
    BootMax = 1
    MaxEvents = 1
INVARIANTS TypeOK TemplateSingleton AutoOnce
PROPERTIES KeptAlive

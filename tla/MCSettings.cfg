CONSTANTS
  Ip = Ip
  Ttl = Ttl
  NoTtl = NoTtl
  MaxSaves = 3
  Configs <- MCConfigs
SPECIFICATION SettingsSpec
INVARIANTS
  OldOrNew
  NextSessionSame

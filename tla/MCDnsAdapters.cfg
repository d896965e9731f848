SPECIFICATION AdapterSpec
CONSTANTS
    Platforms = {"linux", "darwin", "windows"}
    DnsConfigs <- MCConfigs
    Bytes <- MCBytes
    MaxDomains = 2
    MaxBytes = 5
    MaxFaults = 2
INVARIANTS AppliedIsServed RestoreLeavesNothing

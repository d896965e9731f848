SPECIFICATION AdapterSpec
CONSTANTS
    Platforms = {"linux"}
    DnsConfigs <- MCConfigs
    Bytes <- MCBytes
    MaxDomains = 2
    MaxBytes = 5
    MaxFaults = 1
INVARIANT RestoreRemovesAll

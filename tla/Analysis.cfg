SPECIFICATION Spec
CONSTANTS
    Remote = {"a", "b", "c"}
    Port = {123, 443}
    IpBlacklist = {"c"}
    PortBlacklist = {123}
    MaxPackets = 3
INVARIANTS
    TraceRight
    ResultsRight

CONSTANTS
    None = None
    s1 = s1
    s2 = s2
    s3 = s3
    home = home
    away = away
    Sessions = {s1, s2, s3}
    Ips = {home, away}
    ip <- MCIp
    MaxPerIp = 1
    MaxSize = 1
    MaxEvents = 2
    Mute = {}
SPECIFICATION Spec
CHECK_DEADLOCK FALSE
INVARIANTS CountersBalanced PerIpLimit ProfileComplete
PROPERTIES Finalizes

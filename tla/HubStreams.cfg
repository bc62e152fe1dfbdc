\* Bounded calls and connections: the run ends when they are used up.
SPECIFICATION Spec
CHECK_DEADLOCK FALSE
CONSTANTS
    h1 = h1  h2 = h2
    s1 = s1  s2 = s2  s3 = s3
    Hosts = {h1, h2}
    Enrolled = {h1, h2}
    Streams = {s1, s2, s3}
    HostOf <- MCHostOf
    Senders = {p1}
    Admins = {p1}
    Cfgs = {c0, c1}
    DefaultCfg = c0
    NoStream = NoStream
    QueueCap = 2
    MaxCalls = 1
    MaxRestarts = 1
INVARIANTS
    HelloAckFirst
    OneOpenChannel
    OnlineHasStream
    ConfigDelivered
PROPERTIES
    OnlyOwnerUnlists

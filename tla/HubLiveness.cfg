\* Bounded calls and connections: the run ends when they are used up.
SPECIFICATION Spec
CHECK_DEADLOCK FALSE
CONSTANTS
    h1 = h1  h2 = h2
    s1 = s1  s2 = s2  s3 = s3
    Hosts = {h1}
    Enrolled = {}
    Streams = {s1, s2}
    HostOf <- MCHostOf
    Senders = {p1, p2}
    Admins = {p1}
    Cfgs = {c0}
    DefaultCfg = c0
    NoStream = NoStream
    QueueCap = 2
    MaxCalls = 1
    MaxRestarts = 0
INVARIANT
    TypeOK
PROPERTIES
    HandshakeCompletes
    CallsReturn

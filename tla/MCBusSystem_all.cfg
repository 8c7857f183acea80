\* One agent and mbus_cli; either may start again while its old connection is
\* not closed.
SPECIFICATION Spec
CONSTANTS
    agent = agent
    cli = cli
    umesh = umesh
    ucli = ucli
    other = other
    Program = {agent, cli}
    Member = {agent}
    User = {umesh, ucli}
    name <- Names
    Conn = {s1, s2}
    Group = {mesh, other}
    Mesh = mesh
    Unnamed = empty
    Nobody = nobody
    NoConn = noConn
    NotGiven = notGiven
    CommandLine <- CommandLines
    MaxMessages = 1
INVARIANTS TypeOK RegisteredJoins OutlivesQuickReaders
PROPERTIES GhostsFreed EventuallyMember

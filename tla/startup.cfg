SPECIFICATION StartupSpec
CONSTANTS
    api = api  imap = imap  conn = conn  a = a  b = b
    Starters = {api, imap}
    Connections = {conn}
    Agents = {a, b}
    MaxFaults = 1
    MaxCommands = 3
    MaxNotes = 1
    MaxKeys = 3
    MaxRefs = 2
INVARIANTS
    RowsSurvive MigratedWhole LoginIsTrue SecretsAreReadable
PROPERTIES
    AgentsAreServed
CHECK_DEADLOCK FALSE

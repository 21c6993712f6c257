\* Two calls, each to any tool; nothing to do is left when both are over.
SPECIFICATION FairSpec
CONSTANTS
    Calls = {c1, c2}
    Commands = {bash, dig}
    Shells = {bash}
    Readers = {read_file}
    Writers = {write_file}
    Fetchers = {web_fetch}
    Unknown = unknown
    ListTools = list
INVARIANTS
    TypeOK
    OneReplyPerRequest
    WriteStands
PROPERTY CallsEnd
CHECK_DEADLOCK FALSE

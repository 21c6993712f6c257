\* One fetch of a URL whose site redirects: it is answered with the redirect.
SPECIFICATION FairSpec
CONSTANTS
    Calls = {c1}
    Commands = {}
    Shells = {}
    Readers = {}
    Writers = {}
    Fetchers = {web_fetch}
    Unknown = unknown
    ListTools = list
INVARIANT RedirectsFollowed
CHECK_DEADLOCK FALSE

SPECIFICATION Spec
CONSTANTS
    Videos = {0}
    MaxNbr = 1
    NoRec = NoRec
    is_master_server = TRUE
    require_web_password = TRUE
    use_mobile = TRUE
    WebUsers = {owner, guest}
    web_user = owner
    NoCookie = NoCookie
    NoGet = NoGet
    WebCmds <- MCWebCmds
    Conns = {c1, c2, c3}
    NoConn = NoConn
    Browsers = {c2}
    Slow = {c1}
    Sockets = {1, 2, 3}
    max_clients = 2
    require_password = TRUE
    TermCmds <- MCTermCmds
    Tries = 2
    MaxCmds = 1
    MaxFaults = 1
INVARIANTS SlotsMatch EncodedForBrowsers ListedAlive CommandsNeedLogin
PROPERTIES SlotsFreed
CHECK_DEADLOCK FALSE

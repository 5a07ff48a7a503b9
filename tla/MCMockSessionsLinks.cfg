SPECIFICATION SessionsSpec
CONSTANTS
    Clients = {1, 2}
    Delays = {1}
    client_heartbeat_timeout = 2
    server_heartbeat_timeout = 1
    MaxRequests <- MCMaxRequests
    MaxBeats = 1
INVARIANT OpenHasLink
CHECK_DEADLOCK FALSE

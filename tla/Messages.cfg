SPECIFICATION Spec
CONSTANTS
    Client = Client
    Server = Server
    NIL = NIL
PROPERTY SendSyncReturns
\* The demonstration ends.
CHECK_DEADLOCK FALSE

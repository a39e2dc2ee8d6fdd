\* One connection, its upstream TCP or a websocket; a peer that sends nothing for
\* two ping intervals has passed the read deadline.
SPECIFICATION LiveSpec
CONSTANT PongWait = 2
INVARIANT OneWriter
PROPERTY AliveSessionStays
PROPERTY ClientGoneEnds
CHECK_DEADLOCK FALSE

SPECIFICATION FairSpec
CONSTANTS
    q1 = q1
    q2 = q2
    Requests = {q1}
    Readers = {g1}
    Deletes = {d1}
    NoSession = NoSession
    Sizes = {1, 2}
    MaxBytes = 2
    Marker <- DoneMarker
    Streamed = {q1}
    Offsets = {0}
    Cap = 1
PROPERTIES CancelStops ReadersReleased
CHECK_DEADLOCK FALSE

CONSTANTS
 A = A B = B v1 = v1 c1 = c1 c2 = c2 c3 = c3
 Names = {A, B}
 Clients = {c1, c2, c3}
 Requests <- Reqs
 Versions = {v1}
 Cached = {A, B}
 Startup = {A}
 OnDisk <- Disk
 ModelsMax = 1
 Editable = {B}
 MaxEdits = 1
 Sleepers = {A}
 DownloadsCrash = FALSE
SPECIFICATION FairSpec
INVARIANTS LimitOnProcesses NoGhost NoOrphan
PROPERTIES RouterEnds
CHECK_DEADLOCK FALSE

SPECIFICATION FairSpec
CONSTANTS
    r1 = r1
    r2 = r2
    i1 = i1
    i2 = i2
    i3 = i3
    Readers = {r1, r2}
    Ids = {i1, i2, i3}
    Owner <- TwoAndOne
    MaxPartials <- OnePartial
    NoTask = NoTask
    N = 1
INVARIANTS NothingLost CancelOnItsWay
PROPERTIES KeepsPromise EveryReaderCloses GoneReaderCloses NoZombieTask
CHECK_DEADLOCK FALSE

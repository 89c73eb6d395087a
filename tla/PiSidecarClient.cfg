SPECIFICATION Spec
CONSTANTS
    Callers = {f1, f2}
    f1 = f1
    f2 = f2
    MaxStarts = 2
    MaxEvents = 2
INVARIANTS
    OneProcess
    ToldOfTheEnd
    EventsInOrder
PROPERTY OpenEnds
CHECK_DEADLOCK FALSE

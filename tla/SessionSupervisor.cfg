\* LinuxCNC and three more processes on three pids, one failing call. The
\* owner of a session that is over stops.
CONSTANTS
    Pids = {p1, p2, p3}
    MaxProcesses = 4
    MaxFaults = 1
    None = None
SPECIFICATION Spec
INVARIANT NothingIsLeftBehind EvidenceIsOfTheProcess
PROPERTY SessionEnds
CHECK_DEADLOCK FALSE

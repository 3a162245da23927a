\* A process sweeps while the handlers of another one run.
SPECIFICATION LifeSpec
CONSTANTS
    Processes = {a, b}
    Ports = {port1}
    Uploads = {u1}
    Last = 1
    NoProcess = NoProcess
INVARIANT NothingInFlightAtSweep

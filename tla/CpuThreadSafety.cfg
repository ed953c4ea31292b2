\* A key thread and an interface thread, as on the desktop, without the stepping debugger.
SPECIFICATION Spec
CONSTANTS
    Cpu = Cpu
    Main = main
    NoThread = NoThread
    KeyThreads = {main}
    MenuThreads = {menu}
    Ops = {"speed", "audio", "disk", "reset", "autospeed"}
    BacklogMax = 2
    WedgedMax = 2
INVARIANTS
    CpuStoppedWhilePaused
    FlushAssertion
    EjectAssertion

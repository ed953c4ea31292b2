\* What the comment on cpu_pause() promises.
SPECIFICATION Spec
CONSTANTS
    Cpu = Cpu
    Main = main
    NoThread = NoThread
    KeyThreads = {main}
    MenuThreads = {main}
    Ops = {"speed", "autospeed"}
    BacklogMax = 2
    WedgedMax = 1
PROPERTY
    CpuBlockedOnReturn

\* One UI thread that presses speed keys, steps in the debugger, opens menus and stops.
SPECIFICATION FairSpec
CONSTANTS
    Cpu = Cpu
    Main = main
    NoThread = NoThread
    KeyThreads = {main}
    MenuThreads = {main}
    Ops = {"debug"}
    BacklogMax = 2
    WedgedMax = 2
PROPERTIES
    ShutdownCompletes
    PauseCompletes
    AudioRecovers
    DebuggerReturns

\* The assertion of disk6_eject() with a key thread and an interface thread.
SPECIFICATION Spec
CONSTANTS
    Cpu = Cpu
    Main = main
    NoThread = NoThread
    KeyThreads = {main}
    MenuThreads = {menu}
    Ops = {"disk"}
    BacklogMax = 2
    WedgedMax = 1
INVARIANT
    EjectAssertionAlways

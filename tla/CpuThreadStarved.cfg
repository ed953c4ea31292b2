\* The speaker's feedback after the sound device is lost.
SPECIFICATION FairSpec
CONSTANTS
    Cpu = Cpu
    Main = main
    NoThread = NoThread
    KeyThreads = {main}
    MenuThreads = {main}
    Ops = {}
    BacklogMax = 2
    WedgedMax = 1
PROPERTY
    StarvationEnds

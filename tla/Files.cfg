SPECIFICATION Spec
CONSTANTS
    MaxTask = 2
    MaxHandle = 6
    MaxPipe = 1
    MaxFd = 3
    MaxDup = 1
    VFS_FILE_HANDLE_REALLOC_SIZE = 1
    PIPE_BUF_SIZE = 2
    NewFd = {1, 3}
    InitiallyClosed = {0, 1, 2}
    OneReader = TRUE
INVARIANTS TypeOK RefcountExact TableExact PipeEndsExact NoStuckReader EofIsFinal
CHECK_DEADLOCK FALSE

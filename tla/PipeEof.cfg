SPECIFICATION Spec
CONSTANTS
    MaxTask = 2
    MaxHandle = 6
    MaxPipe = 1
    MaxFd = 3
    MaxDup = 0
    VFS_FILE_HANDLE_REALLOC_SIZE = 1
    PIPE_BUF_SIZE = 2
    NewFd = {}
    InitiallyClosed = {0, 2}
    OneReader = FALSE
INVARIANT EofIsFinal
CHECK_DEADLOCK FALSE

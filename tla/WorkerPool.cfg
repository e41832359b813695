CONSTANTS
    NumWorkers = 2
    BufferSize = 1
    NumTasks = 3
SPECIFICATION WPSpec
PROPERTIES DropWaitsForThreads
CHECK_DEADLOCK FALSE

\* A tool that failed, with its end of the pipe closed.
SPECIFICATION ClipSpec
CONSTANTS
    Clicks = {c1, c2}
    Installed = 3
PROPERTY UnfinishedMeansRunning
CHECK_DEADLOCK FALSE

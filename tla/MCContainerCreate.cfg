CONSTANTS
    ga = ga
    gb = gb
    Main = Main
    Components = 5
    MaxSteps = 1
    Startable <- MCStartable
    Task <- MCTask
    Steps <- MCSteps
SPECIFICATION FairContainerSpec
PROPERTY StopReturns
CHECK_DEADLOCK FALSE

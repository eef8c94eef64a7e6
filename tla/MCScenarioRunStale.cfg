SPECIFICATION Spec
CONSTANTS
    Page <- Pages
    Image = {1, 2}
    MaxAttempts = 2
    VisionCap = 1
    Ref = {e1, e2}
    MaxSteps = 3
    MaxRetries = 2
    Scenarios <- CaptchaFlows
    Steps <- AllSteps
CHECK_DEADLOCK FALSE
INVARIANT SubmitsLooked

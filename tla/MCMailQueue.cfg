SPECIFICATION Spec
CONSTANTS
    Mails = {1, 2}
    Partners = {1, 2}
    To <- MCTo
    Notified = {2}
    AutoDelete = {2}
    Runs = {queue, user}
    Queue = {queue}
    BatchSize = 1
    MaxRetries = 1
INVARIANTS OneDeliveryKept StatusIsTrue
PROPERTIES UndeliveredIsKept
CHECK_DEADLOCK FALSE

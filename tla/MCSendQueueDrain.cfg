SPECIFICATION Spec
CONSTANTS
    Thread = {t1, t2}
    NULL = NULL
    MaxSize = 3
    MaxMessages = 3
    Capacity = 2
PROPERTY QueueDrains

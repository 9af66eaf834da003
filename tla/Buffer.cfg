SPECIFICATION Spec
CONSTANTS
    Byte = {0, 1}
    Zero = 0
    kCheapPrepend = 2
    kInitialSize = 2
    MaxLen = 2
    MaxReadable = 3
INVARIANT IndicesOrdered
PROPERTY ImplementsByteQueue
CHECK_DEADLOCK FALSE

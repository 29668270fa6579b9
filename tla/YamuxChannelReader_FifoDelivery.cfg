\* Messages can reach the protocol handlers out of order.
CONSTANTS
    t1 = t1
    t2 = t2
    t3 = t3
    Threads <- MCThreads
    MaxMsgs = 3
SPECIFICATION Spec
PROPERTY FifoDelivery
\* the channel goes idle once the decoder has delivered every payload
CHECK_DEADLOCK FALSE

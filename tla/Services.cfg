\* Three calls for the same quotes; two connections with queues of one message
\* and two senders of one message each; two processes that refresh the ETF files; a
\* breaker of two failures with three batches in flight.
CONSTANTS
    Askers = {"a1", "a2", "a3"}
    Sockets = {"c1", "c2"}
    Senders = {"b1", "b2"}
    QueueSize = 1
    MaxSent = 1
    Observed = {0, 1}
    Threshold = 2
    Cooldown = 3
    MaxBatches = 3
SPECIFICATION Spec
CHECK_DEADLOCK FALSE
INVARIANTS
    ServicesTypeOK
    QuotesTrusted
    NoSilentGap
    EtfFilesTrue
PROPERTIES BreakerSpared NothingWaitsForever

\* Two data blocks and a fragment on a pool of two threads.  The program ends, so
\* deadlock is not checked.
SPECIFICATION Spec
CONSTANTS
    BlockCount = 3
    HasFragment = TRUE
    Workers = 2
CHECK_DEADLOCK FALSE
INVARIANTS TasksUseLiveMt FinalCallbackLast NoErrorLost CounterExact
PROPERTIES PromiseKept

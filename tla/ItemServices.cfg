\* One call of one service: three repositories, buffers of three items, two
\* threads, one or two specs of a move, a push beside the LFS clean, any failure.
CONSTANTS
    Slash = 2
    BufferSize = 3
    Limit = 0
    Threads = 2
    MayLose = TRUE
    Trees <- MCTrees
    SpecLists <- MCSpecLists
    Repositories <- MCRepositories
    Garbage <- MCGarbage
    Push <- MCPush
SPECIFICATION Spec
INVARIANTS ProtectedKept NilMeansGone TasksFindTheirItem NilMeansPlaced PropsFollowReader ReferencedKept
CHECK_DEADLOCK FALSE

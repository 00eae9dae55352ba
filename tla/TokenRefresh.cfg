\* Two threads that send two requests each around the end of a token's life.
CONSTANTS
    Threads = {t1, t2}
    Nobody = nobody
    MaxRequests = 2
    Lifetime = 9
    Minute = 2
    Margin = 1
    Wait = 2
    MaxDelay = 1
    MaxClock = 10
    MaxTokens = 3
SPECIFICATION TokenSpec
PROPERTIES FreshTokenKept SentTokenValid RequestsEnd
CHECK_DEADLOCK FALSE

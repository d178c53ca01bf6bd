SPECIFICATION FairSpec
CONSTANTS
    Conns = {c1, c2}
    Senders = {ticker, reader}
    Ticker = ticker
    MaxTime = 2
    MaxVersion = 2
    MaxQuestions = 1
    MaxEvents = 2
    Capacity = 1
    NoConn = NoConn
INVARIANTS
    IInv
    PageNotBehind

    

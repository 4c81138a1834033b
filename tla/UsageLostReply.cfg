SPECIFICATION Spec
CONSTANTS
    c1 = c1
    c2 = c2
    t1 = t1
    t2 = t2
    r1 = r1
    k1 = k1
    k2 = k2
    k3 = k3
    Client <- TwoClients
    Thread <- TwoThreads
    ClientOf <- OwnCoordinators
    Review <- OneReview
    Call <- TwoCalls
    Transactional = TRUE
    LostReplies = TRUE
    MaxFaults = 1
    MaxDeaths = 0
INVARIANTS
    BilledOnce

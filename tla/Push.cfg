SPECIFICATION FairSpec
CONSTANTS
    NoPush = NoPush
    NoCall = NoCall
    Pushes = {p1, p2}
    Senders = {w1, w2}
    Reconcilers = {r1}
    StaleTicks = 1
CHECK_DEADLOCK FALSE
INVARIANTS TypeOK AtMostOnePost OneOrderPerCode SucceededIsTrue BlockedLeftNothing
PROPERTIES SettledIsFinal ReplacedCallIsHarmless ImplementsExternalCreation EveryPushIsAnswered

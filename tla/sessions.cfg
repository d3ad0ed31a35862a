CONSTANTS
    anna = anna  ben = ben
    NoUser = NoUser
    Users = {anna, ben}
    MaxOrders = 1
    MaxLogins = 2
    MaxExpiries = 2
    MaxTroubles = 2
SPECIFICATION FairSpec
INVARIANTS TypeOK OwnTokens RecordedForTaker
PROPERTIES StaysLoggedIn QueueDelivered
CHECK_DEADLOCK FALSE

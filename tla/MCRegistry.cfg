\* Registration, status changes, deregistration, strikes, deposits and stars.
CONSTANTS
    alice = alice
    bob = bob
    d1 = d1
    d2 = d2
    Account <- MCAccount
    Endowment <- MCEndowment
    ExistentialDeposit = 1
    Did <- MCDid
    Authorized <- SharedKey
    CapabilityBitmap = {0, 1}
    StatusInput <- AllStatus
    StarPair <- OneStar
    MaxAgents = 2
    REPLAY_WINDOW = 1
    StarCooldown = 1
    RegistrationDeposit = 2
    StrikeThreshold = 2
    DepositSlashPerStrike = 1
    GuiltySlash = 2
    FalseSlash = 1
    Horizon = 3
SPECIFICATION Spec
INVARIANTS
    TypeOK
    IndexConsistent
    AgentCountExact
    ControllerAuthorized
    StrikesBelowThreshold
    DepositsBacked
    ReputationBounded
PROPERTIES
    RevokedIsTerminal

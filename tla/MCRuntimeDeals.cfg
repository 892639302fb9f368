\* Two commitments in flight on one consumer; agents keep their status.
CONSTANTS
    alice = alice
    bob = bob
    d1 = d1
    d2 = d2
    r1 = r1
    zero = zero
    Account <- MCAccount
    Endowment <- MCEndowment
    ExistentialDeposit = 1
    Did <- MCDid
    Authorized <- OwnKeys
    CapabilityBitmap = {0}
    StatusInput <- NoStatus
    StarPair <- NoStars
    MaxAgents = 2
    REPLAY_WINDOW = 0
    StarCooldown = 1
    RegistrationDeposit = 2
    StrikeThreshold = 1
    DepositSlashPerStrike = 1
    ProviderGuiltySlash = 1
    FalseDisputeSlash = 1
    MerkleRoot = {r1}
    ZeroRoot = zero
    Offer <- AllOffers
    Provable <- FirstChunk
    ChunkIndex = {0, 1, 2}
    ChunkCount = {2}
    DisputeWindow = 1
    DisputeWindowOverride <- Fixed
    MaxCommitmentLifetime = 3
    MaxCommitments = 2
    Horizon = 4
SPECIFICATION Spec
INVARIANTS
    TypeOK
    EscrowBacksDeal
    NoIdReuse
    CommitmentCountExact
PROPERTIES
    DecidedIsFinal

\* The runtime implements Deal; disputes are resolved and commitments end.
CONSTANTS
    alice = alice
    bob = bob
    d1 = d1
    d2 = d2
    r1 = r1
    zero = zero
    Account <- MCAccount
    Endowment <- MCEndowment
    ExistentialDeposit = 1
    Did <- MCDid
    Authorized <- OwnKeys
    CapabilityBitmap = {0}
    StatusInput <- SuspendOnly
    StarPair <- NoStars
    MaxAgents = 2
    REPLAY_WINDOW = 0
    StarCooldown = 1
    RegistrationDeposit = 2
    StrikeThreshold = 1
    DepositSlashPerStrike = 1
    ProviderGuiltySlash = 1
    FalseDisputeSlash = 1
    MerkleRoot = {r1}
    ZeroRoot = zero
    Offer <- OneOffer
    Provable <- FirstChunk
    ChunkIndex = {0}
    ChunkCount = {2}
    DisputeWindow = 1
    DisputeWindowOverride <- Fixed
    MaxCommitmentLifetime = 3
    MaxCommitments = 1
    Horizon = 4
SPECIFICATION FairSpec
PROPERTIES
    ImplementsDeal
    DisputesResolve
    OpenDealsEnd

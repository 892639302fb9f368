# ArthNeura core in TLA+

A model of the ArthNeura chain: agents register identities and earn reputation
(`pallet-agent-registry`), sell data to each other under Merkle-root commitments
(`pallet-vector-db`), and pay through funds held in the middle
(`pallet-escrow`). The modules here model the three pallets, the runtime that
wires them, and off-chain the clients that keep state on disk, the registration
door and the Merkle tree. TLC checks them on small instances. TLAPS proves the
safety properties of the escrow, the registry, the runtime and the clients for
every value of the constants; the Merkle tree and liveness are left to TLC.

## The system

| Part | State | Operations | Talks to |
|---|---|---|---|
| pallet-escrow | `Escrows` | `lock`, `release`, `refund` (internal) | balances |
| pallet-agent-registry | `AgentProfiles`, `ControllerAgents`, `ActiveAgentCount`, `StarGivers`, `DisputeStrikes` | `register_agent`, `update_profile`, `set_agent_status`, `give_star`, `remove_star`, `deregister_agent`; internal `slash_reputation`, `slash_reputation_for_guilty_delivery` | balances |
| pallet-vector-db | `VectorCommitments`, `ActiveCommitmentCount`, `StreamReceipts`, `DisputeRecords`, `DisputeWindowOverride` | `register_commitment`, `acknowledge_commitment`, `close_commitment`, `raise_dispute`, `counter_dispute`, `finalize_dispute`, `expire_commitment` | the registry and the escrow, through traits |
| runtime | none of its own | three adapters that answer vector-db's traits | all three pallets |
| pallet_balances (external) | free and reserved balance per account | `reserve`, `unreserve`, `slash_reserved`, `repatriate_reserved`, transfers | |
| off-chain vector-db client | chunk store on disk | stage chunks, register, re-key, counter a dispute; the clients of the other extrinsics | the chain |
| off-chain Merkle tree | none | build a tree, make an inclusion proof | verified by pallet-vector-db |
| off-chain registration client and keystore | encrypted key files | `register_or_load_agent`, `bootstrap_new_agent`, `deregister_agent`, save and load keys | the chain |
| registration door and `register-me` | table of prepared extrinsics, in memory; two copies per directory | `fund`, `prepare`, `finish`, `register`; `challenge`, `submit` | the chain, the keystore |
| node, template pallet, runtime APIs | | stock Substrate code | |

What makes the chain hard to get right:

- one deal is kept by two pallets: its status in vector-db, its money in escrow;
- an account has ONE anonymous reserve, in which registration deposits and
  escrows lie together, and slashes burn from it;
- agents are suspended, revoked, deregistered and registered again, possibly
  under another controller, while deals are in flight;
- four different calls, two of them open to anybody, may end the same deal, and
  their time windows meet at block boundaries;
- strikes, stars and escrow records outlive what they are about;
- counters are saturating, so a miscount would show nowhere;
- the clients write files before and after they submit an extrinsic, and may be
  killed anywhere in between;
- a key file is checked for and written in two steps, and two invocations may run
  over the same directory;
- `register-me` writes a seed and a DID in the clear, one after the other, over
  those of every other label of the directory;
- the door numbers its tokens by the size of a table that shrinks, and forgets the
  table when it restarts;
- the tree is built by one program and verified by another, on any number of
  leaves.

## Modules

| Module | Models |
|---|---|
| `FrameSystem` | block number, storage maps, saturating subtraction (external) |
| `Balances` | the ledger, as functions from ledger to ledger (external) |
| `Escrow` | pallet-escrow |
| `EscrowAlone` | pallet-escrow under an arbitrary caller |
| `AgentRegistry` | pallet-agent-registry |
| `RegistryAlone` | the registry under arbitrary penalties |
| `Adapters` | the runtime's adapters |
| `VectorDb` | pallet-vector-db over the adapters |
| `Runtime` | all of it on one ledger, with the properties of a deal |
| `RuntimeMoney` | the properties that add up what the runtime owes and holds |
| `Deal` | what the runtime promises of a deal, as one small machine |
| `ChunkClient` | the clients of vector-db over the provider's chunk store |
| `MerkleDispute` | the Merkle tree, its proofs and their verification on chain |
| `Keystore` | key files, and the steps in which they are saved |
| `AgentBootstrap` | the registration client over its keystore |
| `RegisterDoor` | the door and `register-me`, over the same keystore |
| `Registration` | all registration clients together, with their properties |
| `MCEscrow`, `MCRegistry`, `MCRuntime`, `MCChunkClient`, `MCRegistration` | instances for TLC |
| `EscrowProofs` | lemmas about sums over finite sets, storage maps, the ledger and the handlers of the escrow |
| `EscrowAloneProofs` | theorems about the escrow under an arbitrary caller |
| `AgentRegistryProofs` | lemmas about the handlers of the registry: types, index, deposits, money, scores |
| `RegistryAloneProofs` | theorems about the registry under arbitrary penalties |
| `RuntimeDealProofs` | theorems about types, deals, records, ids and counts in the runtime |
| `RuntimeProofs` | theorems that need more than one pallet: refinement of `Deal`, the registry in the runtime, money, punishment, reputation |
| `RegistrationProofs`, `ChunkClientProofs` | theorems about the off-chain clients |

**Steps.** A block executes its extrinsics one after the other, and an extrinsic
that returns an error is rolled back. So one extrinsic is one step, all writes of
a handler and of the pallets it calls are in that step, and an error is a
conjunct of the guard (each is named in a comment). Two steps in a row are two
extrinsics of any two accounts; `NewBlock` may come in between.

**Data.** A storage map is a function on the keys that are present. A DID stands
for its key pair. A signature is the challenge it was made over, and the constant
`Authorized` says which controllers a key has signed for. A commitment id is the
tuple that the code hashes, so two ids are equal exactly when their preimages
are. In `VectorDb`, verification of a Merkle proof is membership in `Provable`: what
the committed root allows to be proved does not change. That the proofs of the
client pass, and no others, is the subject of `MerkleDispute`, whose hash is an
injective constructor. Metadata, labels of agents, the received chunk hash and all
events are left out; the amounts of `DepositSlashed` events are kept in the history
variable `slashed`.

**Off-chain steps.** An invocation of a client is a process whose steps are what a
kill can separate: one look at a file, one file written, one extrinsic submitted,
one finalised, one directory renamed. A crash ends it at any of them and may leave
the file it was writing torn; a lost connection ends it with an error. Its
extrinsic lives on without it, and is included later or never. Keys are fresh in
every invocation, so the process names them. The door serves one request at a time;
`Restart` empties its table and fails the request it was serving.

**Homes and directories.** A home is a keystore directory with a key label: the files
`{label}.json` and `{label}-account.json`, which are looked for before they are
written. The copies `controller.seed` and `owner.did` that `register-me` makes with
its own controller belong to the directory: all labels share them, and each run
writes over them, one after the other. `files` is therefore indexed by home and
`copies` by directory, and `WriteSeed` and `WriteDid` are two steps.

**Overlapping invocations.** Nothing stops two invocations from using one staging
directory or one key label at the same time, and the modules let them. What the
code promises then is little: `persist` leaves it to its caller ("caller guarantees
id uniqueness upstream", offchain-vector-db `lib.rs:67`), and `save_identity` checks
and then writes. So the history variables `overlapped` (and `disturbed`, for the
door's table, and `raced`, for the copies) record who has met whom, and most
properties speak of the others, in behaviours where overlaps do happen elsewhere.
`CounterableStays` and `SavedIsSubmitted` need no such condition.

**Handlers that call handlers.** `finalize_dispute` refunds and then slashes the
same ledger, so `RefundLedger` gives the ledger after the refund and
`penalize_provider` takes it as an argument.

**Mutants.** An operator marked `Mutant` is a plausible mistake in the definition
that follows it. For each property there is one that TLC catches when it takes
the definition's place; `PROJECT.json` pairs them.

## Runs

| Run | Instance | Checks |
|---|---|---|
| `escrow` | 2 accounts, 3 escrows, 2 blocks | `ReservedIsLocked`, `EscrowRecordLife`, `EscrowSettlesInFull` |
| `registry` | 2 DIDs, one of which moves between 2 controllers and gives stars, threshold 2, 3 blocks | `IndexConsistent`, `AgentCountExact`, `ControllerAuthorized`, `StrikesBelowThreshold`, `DepositsBacked`, `ReputationBounded`, `RevokedIsTerminal` |
| `runtime_deals` | 2 commitments, good and refused offers, 4 blocks | `EscrowBacksDeal`, `NoIdReuse`, `CommitmentCountExact`, `DecidedIsFinal` |
| `runtime_money` | agents that sell to each other, threshold 1, 3 blocks | `ReserveCoversClaims`, `MoneyConserved`, `PunishedOnlyForGuilt`, `UnslashedSettlesInFull` |
| `runtime_agents` | 1 commitment, all statuses, a DID shared by both controllers, 4 blocks | `RecordsMatchStatus`, `UnslashedPayeeAlive` |
| `runtime_live` | 1 commitment, suspensions, 4 blocks, `FairSpec` | `ImplementsDeal`, `DisputesResolve`, `OpenDealsEnd` |
| `chunk_client` | 3 registrations of a payload in 2 chunk modes, in a row or overlapping, 2 blocks | `ReportedIsCounterable`, `ChunksNotLost`, `CounterableStays` |
| `registration` | 3 invocations of any client on one label, or 2 on two labels, of a directory, 1 door | `FilesMatch`, `ReturnedIsSaved`, `CopiesMatch`, `SavedIsSubmitted`, `LoneClientServed`, `Idempotent` |
| `merkle` | every list of 1 to 6 chunks, every disputed index, every list loaded for the answer | `HonestAnswerAccepted`, `OnlyCommittedChunk`, `PartialSetUseless` |

`TypeOK` is an invariant of `escrow`, `registry` and `runtime_deals`.

What they show, in short: a deal's status, money, records and count agree through
every path, and decisions are final; reserves cover what is claimed of them but
for what was slashed; only guilt is punished; reputation cannot be farmed past the
cooldown; a provider whose client reported success can answer a dispute; keys on
disk belong together and to the agent that was returned, and were never saved
without a registration; and in a dispute the answer made from the committed chunks
is accepted, and no other chunk is.

**Bounds.** `Horizon` is the last block, `MaxCommitments` the commitments in
storage at once, `MaxAgents` the length of the reverse index (64 in the code).
With a lifetime of two blocks and a window of one, four blocks are enough for a
commitment to be acknowledged, disputed, countered in the last block of the
window or finalised after it, and expired; two commitments are enough for one
deal's money to be taken for another's. The endowments just cover a deposit and
the prices, so that reservations also fail. In `registry` a cooldown of one block
and three blocks let a star be given, removed and given again.

Three registrations of a payload are enough for an interrupted attempt, its retry
in the other chunk mode and one that overlaps either; two blocks give the same
payload two ids. Other payloads have directories of their own. `MaxUnderway` lets
one commitment at a time be acknowledged, disputed and resolved. Three invocations
of the registration clients cover an attempt that failed, one that succeeds and one
that repeats or overlaps it, and at the door a token that is handed out twice. Homes
meet in the door's table and, within a directory, in the copies; for the latter two
invocations on two labels are enough (one is cut off or overtaken, the other writes
over it), so `MaxMixed` is two when not all invocations use `DefaultLabel`.
Directories share nothing but the table, and one is enough. The proofs lift all of
these bounds, and hold for every `MaxMixed`. Up to six leaves (`MaxLeaves`) give
trees of up to three levels of hashing, with a node left over on the first level, on
the second, or on both. In these three runs everything ends at last, so deadlock is
not an error.

**Fairness.** `FairSpec` assumes that blocks keep coming, and that somebody
submits `finalize_dispute` and `expire_commitment` while they would succeed: both
are open to every account, and the chain includes valid extrinsics. Nothing is
assumed of the parties. The liveness properties speak of deadlines within
`Horizon`. The off-chain clients promise no progress: each may be killed or lose
its connection, and none of them retries by itself.

### Where the code and its documentation differ

Each of these runs has TLC find a counterexample to what the documentation says.

| Run | The documentation says | The code |
|---|---|---|
| `bootstrap_wedged` | bootstrapping registers the agent and persists both keys (offchain-agent-registry `lib.rs:508-513`) | if one of the two files is there, left by an attempt killed between the saves or by another client, every call funds and registers a new agent and then cannot save its keys |
| `stranded_escrow` | the price is released or refunded (vector-db `lib.rs:200`) | expiring an Active commitment leaves it Locked for ever |
| `release_shortfall` | released funds have moved (escrow `lib.rs:148`) | after a slash and a deregistration, less than the amount moves, and the record says Released |

Three smaller differences have no run. `update_profile` refuses only Revoked agents,
while the documentation says writes to suspended agents are blocked (registry
`lib.rs:90`, `README.md:124`). `remove_star` resets the cooldown, which
`lib.rs:562` denies and `lib.rs:532` calls intended; `ReputationBounded` shows
that nothing is gained by it. And the score of a Revoked profile still changes
(`README.md:124` calls it immutable), so `RevokedIsTerminal` leaves the score out.

`ReserveCoversClaims` puts a bound on `release_shortfall`: a reserve falls short of the
claims on it by at most what was slashed from that account. `UnslashedSettlesInFull`
says what is left of the documented promise: the escrows of a payer that was never
slashed move in full.

## Proofs

They assume only what the `ASSUME`s of the modules say: amounts, windows and bounds
are natural numbers, `StrikeThreshold`, `StarCooldown`, `ExistentialDeposit` and, for
one theorem, `RegistrationDeposit` are positive (100 UNIT in the runtime,
`configs/mod.rs:177`), the sets of accounts, of DIDs and of the invocations of the
vector-db client are finite, names that stand for different things differ, and
inputs have their types.

**Sums.** Several properties add up a function over a set (`SumFunctionOnSet`, a
recursion over finite sets). The induction theorems of the library take an operator
and are of no use to the provers, so `EscrowProofs` does the induction by sets:
`SubsetInduction` says that a family of subsets of a finite `S` that contains every
subset whose smaller subsets it contains, contains `S`. The family of the subsets on
which a claim about the sum holds is then an ordinary set. From it come what the
other proofs use: the sum unfolds at any element, and changes as one of its
elements does (`SumAdd`, `SumDrop`, `SumChange`, `SumMove`, `SumBound`).

**Cover.** `Covers(ledger, burned, claims)` says that every reserve is at most the claims
on it, and short of them by at most what was burned. Three lemmas carry it through
the three things a handler does to a reserve: reserve with a new claim, take out
with a claim that ends (`unreserve` and `repatriate_reserved` both take what there is,
up to what is asked), and slash. The three results about reserves
(`ReservedIsLocked`, `DepositsBacked`, `ReserveCoversClaims`) are the cases where the
claims are the escrows, the deposits, and both.

**The runtime** (`Runtime!Spec`, any accounts, DIDs, offers, windows, thresholds
and horizon):

- `TypeCorrect`: `TypeOK` is inductive; one lemma per handler. Its content is
  that no balance, score or count goes below zero.
- `DealInvariant`: `DealInv` is `EscrowBacksDeal /\ RecordsMatchStatus /\
  NoIdReuse`, and none of the three is inductive alone. That acknowledging a
  commitment finds no old escrow needs `NoIdReuse`; that `NoIdReuse` survives an
  expiry needs that a commitment expires in a later block than that of its id;
  that a resolved deal has the money of its verdict needs the dispute record to
  exist and to have no verdict before.
- `DecisionsAreFinal` and `CommitmentCountCorrect` follow from that invariant:
  every handler requires an open status, and opens or closes exactly one.
- `RuntimeImplementsDeal`: under the mapping that reads the phase from vector-db
  and the money from escrow, every handler of vector-db is one move of `Deal` and
  everything else is a stutter. It needs `DealInv`.
- `RegistryInvariant`: index, count, controllers and strikes together, carried
  through the composed runtime, since disputes also write the registry.
- `RevocationIsTerminal`: an action property of the same steps.
- `EscrowLedgerIsAudit`: of the steps of the runtime only lock, release and refund
  write escrow records, and the last two only Locked ones.
- `ReservesCoverClaims`: `MoneyInv` adds to the property that there are finitely many
  escrow records; it rests on the reverse index, by which the deposits are counted.
  `finalize_dispute` is two steps of the argument, with `RefundLedger` in between.
- `UnslashedSettlements` follows: a Locked escrow is one of the claims, so with nothing
  burned the reserve holds its amount, and neither a release nor a refund is cut
  short. So does `PayeesStayAlive`: the deposit of the provider is one of the claims
  on the payee. This is where the deposit has to be positive.
- `MoneyAlwaysConserved`: every operation of the ledger keeps the sum of all balances,
  but for the slash, which moves its amount into `slashed`.
- `PunishmentNeedsGuilt`: a finalisation adds one guilty verdict, to a record that had
  none (`RecordsMatchStatus`). If its strike burns, it takes `StrikeThreshold - 1`
  earlier strikes off the counter, which is exactly what there were by
  `StrikesBelowThreshold`; the inequality of the property keeps the balance.
- `ReputationStaysBounded`: see the registry below.

**The escrow under an arbitrary caller** (`EscrowAlone!Spec`): `EscrowTypeCorrect`,
`ReserveIsExact`, `SettlementsInFull`, `EscrowAloneIsAudit`. `ReservedIsLocked` is
inductive with the types and the finiteness of the records, and is what
`SettlementsInFull` needs.

**The registry under arbitrary penalties** (`RegistryAlone!Spec`): `RegistryTypeCorrect`
and

- `DepositsAlwaysBacked`: `DepositsBacked` with `TypeOK` and the registry's
  invariant. The index is needed because the deposits owed are counted by it: a
  deregistration must remove exactly one entry, a registration add one.
- `ReputationAlwaysBounded`: the bound alone is not inductive, since it does not say
  what a giver has left. `ScoreInv` gives every giver an allowance: after a star in
  block `b`, the cooldowns that had passed by `b` and one more; after a removal, the
  cooldowns that have passed by now. The score is at most the sum of the allowances.
  A star needs a full cooldown, or a cleared entry, and either raises the allowance
  by one; a removal takes a point and at most one from the allowance. Scores that
  are slashed, or start again at zero with a new registration, only help.

**The registration clients** (`Registration!Spec`, any invocations, directories and
labels):

- `KeysMatch`, `ReturnedKeysSaved`, `BootstrapIdempotent`, `LoneClientFinishes`
  follow from one invariant. None of the four is inductive: that a write does not
  pair two agents needs to know what the file held when it was looked for
  (`WriterInv`), that nobody has written it since (`OneAtATime`), whose keys a file
  holds and what that process has done on chain (`FileInv`, `CallInv`), and that
  what a finished call returned is there (`DoneInv`). For the door, two clients
  that were in the table together are both marked (`TableInv`). `ReturnedKeysSaved`
  is about the keystore only: the copies are not kept.
- `CopiesOfLastRun` and `SavedKeysSubmitted` add `DiskInv`. Unless two runs have raced
  for the copies of a directory, the last to write its seed is the only one that
  may still write its DID (`CopierInv`). A key in the copies is in the keystore too,
  because `register-me` copies after it has saved, and a file of its home is not
  written again (`CopiedInv`, from `WriterInv`). A file is written only by a
  process that is saving, and such a process has submitted (`SavedInv`, from
  `CallInv`).

**The vector-db client** (`ChunkClient!Spec`, any invocations, payloads and modes):

- `ReportedCanBeDefended`, `ChunksStayOnDisk`, `DefenceStays` rest on two facts. An
  id is given once, because the pallet refuses one that is taken and its block
  number keeps it from coming back after an expiry (`TxInv`, `IdInv`); so a
  directory under a commitment id is written by one rekey only. And a staging
  directory holds what its one running invocation has written so far (`StageInv`,
  `MeetInv`).

Only model-checked: liveness (`DisputesResolve`, `OpenDealsEnd`), which the prover does
not do, and the three properties of `MerkleDispute`, whose tree, proofs and
verification are recursive operators.

## Not modelled

- Transaction fees and weights; `sudo`, which can do anything; Aura and GRANDPA
  (blocks come one after the other and are final).
- The cryptography, and the encryption, label checks and permissions of key files.
  Key labels of which one is another with `-account` after it: the account of the
  first and the identity of the second would be one file.
- The 32-bit limits of scores, strikes and counters, which are out of reach of the
  number of blocks a chain can have.
- Of the balance calls made by accounts, all but `transfer_all`, which stands for
  them: it is the one that can end an account.
- Of the door: the parsing of requests, the challenge, and `/v1/submit`, which
  forwards an extrinsic that was made elsewhere. Of the vector-db binary: reading
  balances and plain transfers. `slice_file_into_chunks`, which no client calls.
- The off-chain clients of `update_profile`, `set_agent_status`, `give_star` and
  `remove_star`: each submits one extrinsic and keeps nothing, and the extrinsics
  are in `AgentRegistry`.
- The node, the template pallet and the runtime APIs, weights and benchmarks: stock
  or generated code without a protocol of its own.

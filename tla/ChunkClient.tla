---------------------------- MODULE ChunkClient ----------------------------
(***************************************************************************)
(* offchain-vector-db: register_commitment, which stages the chunks of a   *)
(* payload on disk, submits the extrinsic and moves the chunks to the id   *)
(* the chain has chosen; counter_dispute, which rebuilds the Merkle tree   *)
(* from what the disk holds; and the clients of the other extrinsics.      *)
(*                                                                         *)
(* Every invocation is an operating system process of its own over one     *)
(* FsChunkStore.  A process may be killed between any two steps and in the *)
(* middle of a write; its extrinsic may be included all the same.          *)
(*                                                                         *)
(* Provider and consumer are fixed.  A Merkle root is modelled by the      *)
(* chunks it commits to; the tree itself is in MerkleDispute.  Of the chain*)
(* only what the clients see is here: the deadlines, and who may call, are *)
(* in VectorDb.                                                            *)
(***************************************************************************)
EXTENDS FrameSystem, Sequences, FiniteSets

CONSTANTS Process,          \* the invocations of the register client
          Payload,
          Mode,             \* CHUNK_MODE, read from the environment
          ChunksOf,         \* <<payload, mode>> -> its chunks; none: EmptyPayload
          Torn,             \* a file whose write was cut short
          MaxUnderway       \* bound: the acknowledged commitments

ASSUME ClientAssumption ==
    /\ ChunksOf \in [Payload \X Mode -> Seq(STRING)]
    /\ IsFiniteSet(Process)

VARIABLES store,            \* directory -> (chunk number -> file)
          proc,             \* Process -> the invocation
          tx,               \* Process -> its extrinsic
          commitments,      \* on chain: commitment id -> its commitment
          overlapped        \* history: the invocations that were running while
                            \* another registered the same payload

clientVars == <<store, proc, tx, commitments, overlapped>>

vars == <<block, clientVars>>

Root(chunks) == <<"root", chunks>>

StagingDir(payload) == <<"staging", payload>>

CommitmentDir(root, at) == <<"commitment", root, at>>

NoDir == <<"none">>

Init ==
    /\ SystemInit
    /\ store = EmptyMap
    /\ proc = [p \in Process |-> [pc |-> "idle"]]
    /\ tx = [p \in Process |-> [state |-> "none", id |-> NoDir]]
    /\ commitments = EmptyMap
    /\ overlapped = {}

-----------------------------------------------------------------------------
(***************************************************************************)
(* register_commitment of the client.                                      *)
(***************************************************************************)
Chunks(p) == ChunksOf[<<proc[p].payload, proc[p].mode>>]

Staging(p) == StagingDir(proc[p].payload)

Live(p) == proc[p].pc \in {"staging", "submitted", "finalized"}

Started == {p \in Process : proc[p].pc # "idle"}

Registering(payload) == {q \in Process : Live(q) /\ proc[q].payload = payload}

Join(p, payload) ==
    overlapped' = IF Registering(payload) = {} THEN overlapped
                  ELSE overlapped \cup Registering(payload) \cup {p}

\* Mutant: directories left by earlier registrations are cleared.
Start_clears(p, payload, mode) ==
    /\ proc[p].pc = "idle"
    /\ ChunksOf[<<payload, mode>>] # <<>>
    /\ proc' = [proc EXCEPT ![p] = [pc |-> "staging", payload |-> payload, mode |-> mode,
                                    next |-> 1, began |-> Cardinality(Started)]]
    /\ store' = Put([d \in DOMAIN store \cap {StagingDir(x) : x \in Payload} |-> store[d]],
                    StagingDir(payload), EmptyMap)
    /\ Join(p, payload)
    /\ UNCHANGED <<tx, commitments>>

\* The checks, and create_dir_all of the staging directory, which keeps what an
\* earlier invocation has left there.
Start(p, payload, mode) ==
    /\ proc[p].pc = "idle"
    /\ ChunksOf[<<payload, mode>>] # <<>>                      \* EmptyPayload
    /\ proc' = [proc EXCEPT ![p] = [pc |-> "staging", payload |-> payload, mode |-> mode,
                                    next |-> 1, began |-> Cardinality(Started)]]
    /\ store' = IF StagingDir(payload) \in DOMAIN store THEN store
                ELSE Put(store, StagingDir(payload), EmptyMap)
    /\ Join(p, payload)
    /\ UNCHANGED <<tx, commitments>>

\* One fs::write of persist's loop.
PersistChunk(p) ==
    /\ proc[p].pc = "staging"
    /\ proc[p].next <= Len(Chunks(p))
    /\ Staging(p) \in DOMAIN store
    /\ store' = [store EXCEPT ![Staging(p)] = Put(@, proc[p].next, Chunks(p)[proc[p].next])]
    /\ proc' = [proc EXCEPT ![p].next = @ + 1]
    /\ UNCHANGED <<tx, commitments, overlapped>>

\* An invocation that ends without an Ok, by an error or a kill: what it knew of
\* its progress is gone with it.
Ends(p) == proc' = [proc EXCEPT ![p].pc = "ended", ![p].next = 1]

\* Storage, from persist or rekey: another registration of the payload has moved
\* the staging directory.
StorageError(p) ==
    /\ \/ proc[p].pc = "staging" /\ proc[p].next <= Len(Chunks(p))
       \/ proc[p].pc = "finalized"
    /\ Staging(p) \notin DOMAIN store
    /\ Ends(p)
    /\ UNCHANGED <<store, tx, commitments, overlapped>>

Submit(p) ==
    /\ proc[p].pc = "staging"
    /\ proc[p].next > Len(Chunks(p))
    /\ proc' = [proc EXCEPT ![p].pc = "submitted"]
    /\ tx' = [tx EXCEPT ![p].state = "pending"]
    /\ UNCHANGED <<store, commitments, overlapped>>

\* wait_for_finalized_success and the CommitmentRegistered event.
Finalized(p) ==
    /\ proc[p].pc = "submitted"
    /\ tx[p].state = "included"
    /\ proc' = [proc EXCEPT ![p].pc = "finalized"]
    /\ UNCHANGED <<store, tx, commitments, overlapped>>

\* Mutant: an error removes the staged chunks.
SubmitError_cleans(p) ==
    /\ proc[p].pc = "submitted"
    /\ Ends(p)
    /\ store' = Drop(store, Staging(p))
    /\ UNCHANGED <<tx, commitments, overlapped>>

\* Subxt, EventMissing: the extrinsic failed, or the connection did while the
\* extrinsic is on its way.
SubmitError(p) ==
    /\ proc[p].pc = "submitted"
    /\ Ends(p)
    /\ UNCHANGED <<store, tx, commitments, overlapped>>

Renamed(from, to) == Put(Drop(store, from), to, store[from])

\* Mutant: the id is computed by the client, from the block it sees now.
Rekey_computed(p) ==
    /\ proc[p].pc = "finalized"
    /\ Staging(p) \in DOMAIN store
    /\ store' = Renamed(Staging(p), CommitmentDir(Root(Chunks(p)), block))
    /\ proc' = [proc EXCEPT ![p].pc = "done"]
    /\ UNCHANGED <<tx, commitments, overlapped>>

\* fs::rename of the staging directory, and the Ok of the invocation.
Rekey(p) ==
    /\ proc[p].pc = "finalized"
    /\ Staging(p) \in DOMAIN store
    /\ store' = Renamed(Staging(p), tx[p].id)
    /\ proc' = [proc EXCEPT ![p].pc = "done"]
    /\ UNCHANGED <<tx, commitments, overlapped>>

\* The process is killed, or the disk fails it; a write in progress leaves
\* a torn file.
Crash(p) ==
    /\ Live(p)
    /\ Ends(p)
    /\ \/ UNCHANGED store
       \/ /\ proc[p].pc = "staging" /\ proc[p].next <= Len(Chunks(p))
          /\ Staging(p) \in DOMAIN store
          /\ store' = [store EXCEPT ![Staging(p)] = Put(@, proc[p].next, Torn)]
    /\ UNCHANGED <<tx, commitments, overlapped>>

-----------------------------------------------------------------------------
(***************************************************************************)
(* The chain, as the clients see it: register_commitment of the pallet     *)
(* takes the id from the block that includes the extrinsic.                *)
(***************************************************************************)
Include(p) ==
    /\ tx[p].state = "pending"
    /\ LET id == CommitmentDir(Root(Chunks(p)), block)
       IN  /\ id \notin DOMAIN commitments                 \* CommitmentAlreadyExists
           /\ tx' = [tx EXCEPT ![p] = [state |-> "included", id |-> id]]
           /\ commitments' = Put(commitments, id,
                                 [merkle_root |-> Root(Chunks(p)),
                                  total_chunks |-> Len(Chunks(p)),
                                  status |-> "Pending", disputed |-> 0])
    /\ UNCHANGED <<store, proc, overlapped>>

\* Any error of the pallet, and an extrinsic that is never included.
Reject(p) ==
    /\ tx[p].state = "pending"
    /\ tx' = [tx EXCEPT ![p].state = "rejected"]
    /\ UNCHANGED <<store, proc, commitments, overlapped>>

(***************************************************************************)
(* The clients that submit one extrinsic and wait for its event.  A client *)
(* that is killed or loses its connection leaves the extrinsic behind or   *)
(* does not, so the extrinsic is the whole step.                           *)
(***************************************************************************)
MovesTo(id, from, to) ==
    /\ commitments[id].status = from                     \* NotPending, NotActive, ...
    /\ commitments' = [commitments EXCEPT ![id].status = to]
    /\ UNCHANGED <<store, proc, tx, overlapped>>

acknowledge_commitment(id) == MovesTo(id, "Pending", "Active")

\* The hash comes from the operator: StreamHashMismatch.
close_commitment(id, final_stream_hash) ==
    /\ final_stream_hash = commitments[id].merkle_root
    /\ MovesTo(id, "Active", "Settled")

raise_dispute(id, i) ==
    /\ commitments[id].status = "Active"
    /\ i \in 1..commitments[id].total_chunks             \* ChunkIndexOutOfBounds
    /\ commitments' = [commitments EXCEPT ![id].status = "Disputed", ![id].disputed = i]
    /\ UNCHANGED <<store, proc, tx, overlapped>>

finalize_dispute(id) == MovesTo(id, "Disputed", "ProviderGuilty")

\* A commitment lives for one block at least.
expire_commitment(id) ==
    /\ commitments[id].status \in {"Pending", "Active"}  \* AlreadyFinalized
    /\ block > id[3]                                     \* NotYetExpired
    /\ commitments' = Drop(commitments, id)
    /\ UNCHANGED <<store, proc, tx, overlapped>>

-----------------------------------------------------------------------------
(***************************************************************************)
(* counter_dispute of the client.  The arguments come from the operator;   *)
(* chunks are numbered from 1.                                             *)
(***************************************************************************)
Loads(id, total) == id \in DOMAIN store /\ 1..total \subseteq DOMAIN store[id]

load_all_chunks(id, total) == [i \in 1..total |-> store[id][i]]

\* The chunk and its proof, made from the stored chunks, verify on chain.
Refutes(id, i, total) ==
    /\ i <= total                                        \* ChunkIndexOutOfBounds
    /\ Loads(id, total)                                  \* Storage
    /\ Root(load_all_chunks(id, total)) = commitments[id].merkle_root

\* With a total that is too large the proof has hashes to spare, which the chain
\* does not look at: whether it verifies is left open, if the chunk is right.
MayRefute(id, i, total) ==
    /\ total > commitments[id].total_chunks
    /\ i <= commitments[id].total_chunks
    /\ Loads(id, total)
    /\ store[id][i] = commitments[id].merkle_root[2][i]

counter_dispute(id, i, total) ==
    /\ commitments[id].disputed = i                      \* InvalidMerkleProof
    /\ Refutes(id, i, total) \/ MayRefute(id, i, total)
    /\ MovesTo(id, "Disputed", "ClaimantUnsubstantiated")

MaxChunks == CHOOSE n \in {Len(ChunksOf[x]) : x \in Payload \X Mode} :
                 \A x \in Payload \X Mode : Len(ChunksOf[x]) <= n

\* The commands of the binary, with arguments from the environment.
Register(p) == \E payload \in Payload, mode \in Mode : Start(p, payload, mode)

Underway == {id \in DOMAIN commitments : commitments[id].status # "Pending"}

Acknowledge(id) == Cardinality(Underway) < MaxUnderway /\ acknowledge_commitment(id)

Close(id) == \E x \in Payload \X Mode : close_commitment(id, Root(ChunksOf[x]))

Raise(id) == \E i \in 1..MaxChunks : raise_dispute(id, i)

Counter(id) == \E i, total \in 1..MaxChunks : counter_dispute(id, i, total)

ClientStep(p) ==
    \/ Register(p) \/ PersistChunk(p) \/ Submit(p) \/ Finalized(p) \/ SubmitError(p)
    \/ Rekey(p) \/ StorageError(p) \/ Crash(p)
    \/ Include(p) \/ Reject(p)

Command(id) ==
    \/ Acknowledge(id) \/ Close(id) \/ Raise(id) \/ Counter(id)
    \/ finalize_dispute(id) \/ expire_commitment(id)

Next ==
    \/ UNCHANGED block /\ \E p \in Process : ClientStep(p)
    \/ UNCHANGED block /\ \E id \in DOMAIN commitments : Command(id)
    \/ AdvanceBlock /\ UNCHANGED clientVars

Spec == Init /\ [][Next]_vars

-----------------------------------------------------------------------------
(***************************************************************************)
(* Properties                                                              *)
(***************************************************************************)
\* The provider can refute a dispute about any chunk of this commitment.
Counterable(id) ==
    \A i \in 1..commitments[id].total_chunks : Refutes(id, i, commitments[id].total_chunks)

\* When register_commitment has returned Ok, the directory named by the returned
\* commitment_id holds the chunks of the committed root as long as there is a
\* commitment to defend, whatever crashes, torn files, leftovers of another
\* CHUNK_MODE and retries came before and after.  Only registrations of one payload
\* that overlap, whose staging directory is the same, may spoil each other's chunks:
\* "caller guarantees id uniqueness upstream" (lib.rs:67).
ReportedIsCounterable ==
    \A p \in Process \ overlapped :
        proc[p].pc = "done" /\ tx[p].id \in DOMAIN commitments => Counterable(tx[p].id)

\* No later registration, crash, rekey or overlap spoils the chunks of a commitment
\* that could be defended: persist and rekey write to other directories.
CounterableStays ==
    [][\A id \in DOMAIN commitments :
           id \in DOMAIN commitments' /\ Counterable(id) => Counterable(id)']_vars

\* The chunks of the payload that p has registered are complete in staging.
StagedFor(p) ==
    /\ Loads(Staging(p), Len(Chunks(p)))
    /\ load_all_chunks(Staging(p), Len(Chunks(p))) = Chunks(p)

\* A commitment whose client was killed or lost its connection before rekey has
\* not lost its chunks: they are under the staging id until the same payload is
\* registered again.
ChunksNotLost ==
    \A p \in Process \ overlapped :
        tx[p].state = "included" /\ tx[p].id \in DOMAIN commitments =>
            \/ Counterable(tx[p].id)
            \/ StagedFor(p)
            \/ \E q \in Started : proc[q].payload = proc[p].payload
                                  /\ proc[q].began > proc[p].began
=============================================================================

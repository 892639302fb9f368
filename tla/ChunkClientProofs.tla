------------------------- MODULE ChunkClientProofs -------------------------
(***************************************************************************)
(* Proofs about the register client of offchain-vector-db, for any number  *)
(* of invocations, payloads and modes.                                     *)
(*                                                                         *)
(* Two facts carry them.  An id is given once: the pallet refuses one that *)
(* is taken, and the block number in it keeps it from coming back after the*)
(* commitment has expired (IdInv).  So no rekey finds its target in place, *)
(* and a directory under a commitment id is written once.  And the staging *)
(* directory of a payload belongs to the one invocation that is registering*)
(* it, unless two overlap (StageInv).                                      *)
(***************************************************************************)
EXTENDS ChunkClient, SequenceTheorems, FiniteSetTheorems, TLAPS

Idle == [pc |-> "idle"]

Invocation == [pc : {"staging", "submitted", "finalized", "done", "ended"},
               payload : Payload, mode : Mode, next : Nat \ {0}, began : Nat]

Extrinsic(p) == tx[p] = [state |-> tx[p].state, id |-> tx[p].id]

Status == {"Pending", "Active", "Settled", "Disputed", "ProviderGuilty", "ClaimantUnsubstantiated"}

Commitment == [merkle_root : {Root(ChunksOf[x]) : x \in Payload \X Mode}, total_chunks : Nat,
               status : Status, disputed : Nat]

TypeInv ==
    /\ block \in Nat
    /\ proc \in [Process -> Invocation \cup {Idle}]
    /\ DOMAIN tx = Process /\ \A p \in Process : Extrinsic(p)
    /\ \A id \in DOMAIN commitments : commitments[id] \in Commitment

Included(p) == tx[p].state = "included"

\* The extrinsic of an invocation, and its commitment.
TxInv ==
    \A p \in Process :
        /\ proc[p].pc \in {"idle", "staging"} => tx[p].state = "none"
        /\ proc[p].pc \in {"finalized", "done"} => Included(p)
        /\ Included(p) =>
              /\ tx[p].id[3] \in 0..block
              /\ tx[p].id = CommitmentDir(Root(Chunks(p)), tx[p].id[3])
              /\ tx[p].id[3] = block => tx[p].id \in DOMAIN commitments
              /\ tx[p].id \in DOMAIN commitments =>
                    /\ commitments[tx[p].id].merkle_root = Root(Chunks(p))
                    /\ commitments[tx[p].id].total_chunks = Len(Chunks(p))

\* An id is given once, and a directory is a staging directory or one that a
\* finished invocation has named.
IdInv ==
    /\ \A p, q \in Process : Included(p) /\ Included(q) /\ tx[p].id = tx[q].id => p = q
    /\ \A id \in DOMAIN commitments : \E p \in Process : Included(p) /\ id = tx[p].id
    /\ \A d \in DOMAIN store :
          \/ \E x \in Payload : d = StagingDir(x)
          \/ \E p \in Process : proc[p].pc = "done" /\ d = tx[p].id

\* The first n chunks are in directory d.
Holds(d, chunks, n) ==
    /\ d \in DOMAIN store
    /\ \A i \in 1..n : i \in DOMAIN store[d] /\ store[d][i] = chunks[i]

\* The same payload was registered again after p began.
Retried(p) ==
    \E q \in Started : proc[q].payload = proc[p].payload /\ proc[q].began > proc[p].began

\* What p has staged, and what has become of it, if no other registration of the
\* payload was running beside it.
StageAt(p) ==
    /\ proc[p].pc = "staging" =>
          /\ proc[p].next <= Len(Chunks(p)) + 1
          /\ Holds(Staging(p), Chunks(p), proc[p].next - 1)
    /\ proc[p].pc \in {"submitted", "finalized"} => Holds(Staging(p), Chunks(p), Len(Chunks(p)))
    /\ proc[p].pc = "done" => Holds(tx[p].id, Chunks(p), Len(Chunks(p)))
    /\ proc[p].pc = "ended" /\ tx[p].state # "none" =>
          Holds(Staging(p), Chunks(p), Len(Chunks(p))) \/ Retried(p)

StageInv == \A p \in Started \ overlapped : StageAt(p)

\* Who meets whom.
MeetInv ==
    /\ \A p \in Started : proc[p].began < Cardinality(Started)
    /\ \A p, q \in Started :
          p # q /\ proc[p].payload = proc[q].payload /\ Live(q) /\ p \notin overlapped =>
              ~Live(p) /\ proc[q].began > proc[p].began

IInv == TypeInv /\ TxInv /\ IdInv /\ StageInv /\ MeetInv

-----------------------------------------------------------------------------
(***************************************************************************)
(* Directories and chunks.                                                 *)
(***************************************************************************)
LEMMA DirFacts ==
    /\ \A x, y : StagingDir(x) = StagingDir(y) => x = y
    /\ \A x, r, a : StagingDir(x) # CommitmentDir(r, a)
    /\ \A r, a : CommitmentDir(r, a)[3] = a
    /\ \A r, s, a : CommitmentDir(Root(r), a) = CommitmentDir(Root(s), a) => r = s
BY Zenon DEF StagingDir, CommitmentDir, Root

LEMMA ChunksType ==
    ASSUME TypeInv, NEW p \in Started
    PROVE  /\ proc[p] \in Invocation /\ p \in Process
           /\ Chunks(p) \in Seq(STRING) /\ Len(Chunks(p)) \in Nat
           /\ Chunks(p) \in {ChunksOf[x] : x \in Payload \X Mode}
<1>1. proc[p] \in Invocation /\ p \in Process
  BY DEF Started, TypeInv, Idle
<1>2. <<proc[p].payload, proc[p].mode>> \in Payload \X Mode
  BY <1>1, Zenon DEF Invocation
<1>3. Chunks(p) \in Seq(STRING) /\ Chunks(p) \in {ChunksOf[x] : x \in Payload \X Mode}
  BY <1>2, ClientAssumption, Zenon DEF Chunks
<1>4. QED
  BY <1>1, <1>3, LenProperties, Zenon

\* Chunks that are all there are what load_all_chunks returns.
LEMMA HoldsAll ==
    ASSUME NEW d, NEW c \in Seq(STRING), Holds(d, c, Len(c))
    PROVE  Loads(d, Len(c)) /\ load_all_chunks(d, Len(c)) = c
<1>1. Len(c) \in Nat /\ c \in [1..Len(c) -> STRING]
  BY LenProperties, Zenon
<1>2. load_all_chunks(d, Len(c)) = [i \in 1..Len(c) |-> c[i]]
  BY <1>1, Zenon DEF Holds, load_all_chunks
<1>3. QED
  BY <1>1, <1>2, Zenon DEF Holds, Loads

-----------------------------------------------------------------------------
(***************************************************************************)
(* What a step leaves alone.                                               *)
(***************************************************************************)
\* No invocation begins.
Same ==
    /\ Started' = Started /\ overlapped' = overlapped
    /\ \A q \in Process : /\ Chunks(q)' = Chunks(q) /\ Staging(q)' = Staging(q)
                          /\ proc'[q].payload = proc[q].payload
                          /\ proc'[q].began = proc[q].began

LEMMA PhaseFacts ==
    ASSUME TypeInv, NEW p \in Process, Live(p), overlapped' = overlapped,
           NEW to \in {"submitted", "finalized", "done", "ended"},
           proc' = [proc EXCEPT ![p].pc = to] \/ (to = "ended" /\ Ends(p))
    PROVE  /\ proc' \in [Process -> Invocation \cup {Idle}]
           /\ proc'[p].pc = to
           /\ \A q \in Process : q # p => proc'[q] = proc[q]
           /\ \A q \in Process : Live(q)' => Live(q)
           /\ Same
<1>1. proc[p] \in Invocation
  BY DEF TypeInv, Live, Idle
<1>2. /\ proc'[p] \in Invocation /\ proc'[p].pc = to
      /\ proc'[p].payload = proc[p].payload /\ proc'[p].mode = proc[p].mode
      /\ proc'[p].began = proc[p].began
      /\ \A q \in Process : q # p => proc'[q] = proc[q]
      /\ proc' \in [Process -> Invocation \cup {Idle}]
  <2>1. CASE proc' = [proc EXCEPT ![p].pc = to]
    BY <1>1, <2>1, Zenon DEF TypeInv, Invocation
  <2>2. CASE to = "ended" /\ Ends(p)
    <3>1. 1 \in Nat \ {0}
      OBVIOUS
    <3>2. PICK r : r = [[proc[p] EXCEPT !.pc = "ended"] EXCEPT !.next = 1]
      BY Zenon
    <3>3. /\ r \in Invocation /\ r.pc = "ended" /\ r.payload = proc[p].payload
          /\ r.mode = proc[p].mode /\ r.began = proc[p].began
      BY <1>1, <3>1, <3>2, Zenon DEF Invocation
    <3>4. proc' = [proc EXCEPT ![p] = r]
      BY <2>2, <3>2, Zenon DEF TypeInv, Ends
    <3>5. QED
      BY <2>2, <3>3, <3>4, Zenon DEF TypeInv
  <2>3. QED
    BY <2>1, <2>2, Zenon
<1>3. QED
  BY <1>2, Zenon DEF Same, Started, Live, Chunks, Staging

LEMMA MeetKept ==
    ASSUME IInv, Same, \A q \in Process : Live(q)' => Live(q)
    PROVE  MeetInv'
BY Zenon DEF IInv, MeetInv, Same, Started

LEMMA TxKept ==
    ASSUME IInv, Same, UNCHANGED <<block, tx, commitments>>,
           \A q \in Process :
               /\ proc'[q].pc \in {"idle", "staging"} => proc[q].pc \in {"idle", "staging"}
               /\ proc'[q].pc \in {"finalized", "done"} => Included(q)
    PROVE  TxInv'
BY Zenon DEF IInv, TxInv, Same, Included

\* A live invocation that changes no directory but its staging directory leaves
\* the others what they have staged.
LEMMA OthersStaged ==
    ASSUME IInv, NEW p \in Process, Live(p), Same,
           \A q \in Process : q # p => proc'[q] = proc[q] /\ tx'[q] = tx[q],
           \A d \in DOMAIN store : d # Staging(p) => d \in DOMAIN store' /\ store'[d] = store[d],
           NEW q \in Started \ overlapped, q # p
    PROVE  StageAt(q)'
<1>1. q \in Process /\ p \in Started /\ proc'[q] = proc[q] /\ tx'[q] = tx[q] /\ StageAt(q)
  BY Zenon DEF Started, Live, IInv, StageInv
<1>2. Chunks(q)' = Chunks(q) /\ Staging(q)' = Staging(q) /\ (Retried(q) => Retried(q)')
  BY <1>1, Zenon DEF Same, Retried, Started
<1>3. CASE proc[p].payload = proc[q].payload
  <2>1. ~Live(q) /\ proc[p].began > proc[q].began
    BY <1>1, <1>3, Zenon DEF IInv, MeetInv
  <2>2. Retried(q)
    BY <1>1, <1>3, <2>1, Zenon DEF Retried
  <2>3. proc[q].pc = "done" => /\ Staging(p) # tx[q].id
    BY <1>1, DirFacts DEF IInv, TxInv, Staging
  <2>4. proc[q].pc = "done" => Holds(tx[q].id, Chunks(q), Len(Chunks(q)))'
    BY <1>1, <1>2, <2>3 DEF StageAt, Holds
  <2>5. QED
    BY <1>1, <1>2, <2>1, <2>2, <2>4, Zenon DEF StageAt, Live
<1>4. CASE proc[p].payload # proc[q].payload
  <2>1. Staging(p) # Staging(q) /\ (proc[q].pc = "done" => Staging(p) # tx[q].id)
    BY <1>1, <1>4, DirFacts DEF IInv, TxInv, Staging
  <2>2. ASSUME NEW d, NEW n, d # Staging(p), Holds(d, Chunks(q), n)
        PROVE  Holds(d, Chunks(q), n)'
    BY <1>1, <1>2, <2>2, Zenon DEF Holds
  <2>3. QED
    BY <1>1, <1>2, <2>1, <2>2, Zenon DEF StageAt
<1>5. QED
  BY <1>3, <1>4, Zenon

-----------------------------------------------------------------------------
(***************************************************************************)
(* The steps of the client.                                                *)
(***************************************************************************)
\* Steps that leave the disk alone.
LEMMA PhaseInv ==
    ASSUME IInv, NEW p \in Process, UNCHANGED block,
           Submit(p) \/ Finalized(p) \/ SubmitError(p) \/ StorageError(p)
             \/ (Crash(p) /\ UNCHANGED store)
    PROVE  IInv'
<1>1. /\ Live(p) /\ UNCHANGED <<block, store, commitments, overlapped>>
      /\ tx' \in {tx, [tx EXCEPT ![p].state = "pending"]}
      /\ \A q \in Process : q # p => tx'[q] = tx[q]
  BY Zenon DEF Submit, Finalized, SubmitError, StorageError, Crash, Live, IInv, TypeInv
<1>2. PICK to \in {"submitted", "finalized", "done", "ended"} :
        /\ proc' = [proc EXCEPT ![p].pc = to] \/ (to = "ended" /\ Ends(p))
        /\ to = "submitted" => Submit(p)
        /\ to # "submitted" => tx' = tx
        /\ to = "finalized" => proc[p].pc = "submitted" /\ Included(p)
        /\ to # "done"
  BY Zenon DEF Submit, Finalized, SubmitError, StorageError, Crash, Included
<1>3. /\ proc' \in [Process -> Invocation \cup {Idle}]
      /\ proc'[p].pc = to
      /\ \A q \in Process : q # p => proc'[q] = proc[q]
      /\ \A q \in Process : Live(q)' => Live(q)
      /\ Same
  BY <1>1, <1>2, PhaseFacts, ZenonT(30) DEF IInv
<1>4. /\ tx'[p].id = tx[p].id /\ Extrinsic(p)' /\ DOMAIN tx' = Process
      /\ to = "submitted" => tx'[p].state = "pending" /\ tx[p].state = "none"
  BY <1>1, <1>2, Zenon DEF IInv, TypeInv, TxInv, Extrinsic, Submit
<1>5. TypeInv'
  BY <1>1, <1>3, <1>4 DEF IInv, TypeInv, Extrinsic
<1>6. TxInv'
  <2>1. CASE to = "submitted"
    BY <1>1, <1>3, <1>4, <2>1 DEF IInv, TxInv, Same, Included
  <2>2. CASE to # "submitted"
    BY <1>1, <1>2, <1>3, <2>2, TxKept, Zenon DEF Live, IInv, TxInv
  <2>3. QED
    BY <2>1, <2>2, Zenon
<1>7. IdInv'
  <2>1. \A q \in Process : /\ Included(q)' <=> Included(q)
                           /\ tx'[q].id = tx[q].id
                           /\ proc[q].pc = "done" => proc'[q].pc = "done"
    BY <1>1, <1>2, <1>3, <1>4, Zenon DEF Included, Live
  <2>2. QED
    BY <1>1, <2>1 DEF IInv, IdInv
<1>8. StageInv'
  <2> SUFFICES ASSUME NEW q \in Started \ overlapped PROVE StageAt(q)'
    BY <1>3, Zenon DEF StageInv, Same
  <2>1. CASE q # p
    BY <1>1, <1>3, <2>1, OthersStaged, Zenon
  <2>2. CASE q = p
    <3>1. StageAt(p) /\ Chunks(p)' = Chunks(p) /\ Staging(p)' = Staging(p)
      BY <1>3, <2>2, Zenon DEF IInv, StageInv, Same
    <3>2. \A d, n : Holds(d, Chunks(p), n) => Holds(d, Chunks(p), n)'
      BY <1>1, <3>1, Zenon DEF Holds
    <3>3. CASE to = "submitted"
      <4>1. proc[p].pc = "staging" /\ proc[p].next > Len(Chunks(p))
        BY <1>2, <3>3, Zenon DEF Submit
      <4>2. Len(Chunks(p)) \in Nat /\ proc[p].next \in Nat
        BY <2>2, ChunksType, Zenon DEF IInv, Invocation
      <4>3. Holds(Staging(p), Chunks(p), Len(Chunks(p)))
        BY <3>1, <4>1, <4>2 DEF StageAt, Holds
      <4>4. QED
        BY <1>3, <2>2, <3>1, <3>2, <3>3, <4>3, Zenon DEF StageAt
    <3>4. CASE to = "finalized"
      BY <1>2, <1>3, <2>2, <3>1, <3>2, <3>4, Zenon DEF StageAt
    <3>5. CASE to = "ended"
      <4>1. tx[p].state # "none" => Holds(Staging(p), Chunks(p), Len(Chunks(p)))
        BY <1>1, <3>1, Zenon DEF Live, StageAt, IInv, TxInv
      <4>2. QED
        BY <1>2, <1>3, <2>2, <3>1, <3>2, <3>5, <4>1, Zenon DEF StageAt
    <3>6. QED
      BY <1>2, <3>3, <3>4, <3>5, Zenon
  <2>3. QED
    BY <2>1, <2>2, Zenon
<1>9. QED
  BY <1>3, <1>5, <1>6, <1>7, <1>8, MeetKept, Zenon DEF IInv

\* A write to a file of the staging directory.
LEMMA PersistInv ==
    ASSUME IInv, NEW p \in Process, UNCHANGED block, PersistChunk(p)
    PROVE  IInv'
<1>0. PICK n : n = proc[p].next
  BY Zenon
<1>1. /\ proc[p].pc = "staging" /\ n <= Len(Chunks(p)) /\ Staging(p) \in DOMAIN store
      /\ store' = [store EXCEPT ![Staging(p)] = Put(@, n, Chunks(p)[n])]
      /\ proc' = [proc EXCEPT ![p].next = @ + 1]
      /\ UNCHANGED <<block, tx, commitments, overlapped>>
  BY <1>0, Zenon DEF PersistChunk
<1>2. proc[p] \in Invocation /\ p \in Started /\ Live(p)
  BY <1>1 DEF IInv, TypeInv, Idle, Started, Live
<1>3. /\ proc'[p] \in Invocation /\ proc'[p].pc = "staging" /\ proc'[p].next = n + 1
      /\ proc'[p].payload = proc[p].payload /\ proc'[p].mode = proc[p].mode
      /\ proc'[p].began = proc[p].began
      /\ \A q \in Process : q # p => proc'[q] = proc[q]
      /\ proc' \in [Process -> Invocation \cup {Idle}]
  BY <1>0, <1>1, <1>2 DEF IInv, TypeInv, Invocation
<1>4. /\ \A q \in Process : proc'[q].pc = proc[q].pc
      /\ \A q \in Process : Live(q)' => Live(q)
      /\ Same
  BY <1>1, <1>3, Zenon DEF Same, Started, Live, Chunks, Staging
<1>5. /\ DOMAIN store' = DOMAIN store
      /\ \A e \in DOMAIN store : e # Staging(p) => store'[e] = store[e]
      /\ DOMAIN store'[Staging(p)] = DOMAIN store[Staging(p)] \cup {n}
      /\ store'[Staging(p)][n] = Chunks(p)[n]
      /\ \A i \in DOMAIN store[Staging(p)] : i # n =>
             store'[Staging(p)][i] = store[Staging(p)][i]
  BY <1>1, Zenon DEF Put
<1>6. TypeInv'
  BY <1>1, <1>3, Zenon DEF IInv, TypeInv, Extrinsic
<1>7. TxInv'
  BY <1>1, <1>4, TxKept, Zenon DEF IInv, TxInv
<1>8. IdInv'
  BY <1>1, <1>4, <1>5 DEF IInv, IdInv, Included
<1>9. StageInv'
  <2> SUFFICES ASSUME NEW q \in Started \ overlapped PROVE StageAt(q)'
    BY <1>4, Zenon DEF StageInv, Same
  <2>1. CASE q # p
    BY <1>1, <1>2, <1>3, <1>4, <1>5, <2>1, OthersStaged, Zenon
  <2>2. CASE q = p
    <3>1. /\ Holds(Staging(p), Chunks(p), n - 1) /\ n \in Nat \ {0} /\ Len(Chunks(p)) \in Nat
          /\ Chunks(p)' = Chunks(p) /\ Staging(p)' = Staging(p)
      BY <1>0, <1>1, <1>2, <1>4, <2>2, ChunksType, Zenon
         DEF IInv, StageInv, StageAt, Invocation, Same
    <3>2. Holds(Staging(p), Chunks(p), n)'
      BY <1>1, <1>5, <3>1 DEF Holds
    <3>3. QED
      BY <1>1, <1>3, <2>2, <3>1, <3>2 DEF StageAt, Holds
  <2>3. QED
    BY <2>1, <2>2, Zenon
<1>10. QED
  BY <1>4, <1>6, <1>7, <1>8, <1>9, MeetKept, Zenon DEF IInv

\* A kill in the middle of a write.
LEMMA TornInv ==
    ASSUME IInv, NEW p \in Process, UNCHANGED block, Crash(p), store' # store
    PROVE  IInv'
<1>1. PICK n : /\ proc[p].pc = "staging" /\ Staging(p) \in DOMAIN store
               /\ store' = [store EXCEPT ![Staging(p)] = Put(@, n, Torn)]
  BY Zenon DEF Crash
<1>2. /\ Live(p) /\ Ends(p)
      /\ UNCHANGED <<block, tx, commitments, overlapped>>
  BY Zenon DEF Crash
<1>3. /\ proc' \in [Process -> Invocation \cup {Idle}]
      /\ proc'[p].pc = "ended"
      /\ \A q \in Process : q # p => proc'[q] = proc[q]
      /\ \A q \in Process : Live(q)' => Live(q)
      /\ Same
  BY <1>2, PhaseFacts, ZenonT(30) DEF IInv
<1>4. /\ DOMAIN store' = DOMAIN store
      /\ \A e \in DOMAIN store : e # Staging(p) => store'[e] = store[e]
  BY <1>1, Zenon
<1>5. TypeInv'
  BY <1>2, <1>3, Zenon DEF IInv, TypeInv, Extrinsic
<1>6. TxInv'
  BY <1>2, <1>3, TxKept, Zenon DEF IInv, TxInv
<1>7. IdInv'
  BY <1>1, <1>2, <1>3, <1>4 DEF IInv, IdInv, Included
<1>8. StageInv'
  <2> SUFFICES ASSUME NEW q \in Started \ overlapped PROVE StageAt(q)'
    BY <1>3, Zenon DEF StageInv, Same
  <2>1. CASE q # p
    BY <1>2, <1>3, <1>4, <2>1, OthersStaged, Zenon
  <2>2. CASE q = p
    BY <1>1, <1>2, <1>3, <2>2, Zenon DEF IInv, TxInv, StageAt
  <2>3. QED
    BY <2>1, <2>2, Zenon
<1>9. QED
  BY <1>3, <1>5, <1>6, <1>7, <1>8, MeetKept, Zenon DEF IInv

\* The target of a rekey is not there yet.
LEMMA FreshTarget ==
    ASSUME IInv, NEW p \in Process, Included(p), proc[p].pc # "done"
    PROVE  tx[p].id \notin DOMAIN store
<1>1. \A x : tx[p].id # StagingDir(x)
  BY DirFacts DEF IInv, TxInv
<1>2. \A q \in Process : proc[q].pc = "done" => Included(q)
  BY Zenon DEF IInv, TxInv
<1>3. QED
  BY <1>1, <1>2, Zenon DEF IInv, IdInv

LEMMA RekeyInv ==
    ASSUME IInv, NEW p \in Process, UNCHANGED block, Rekey(p)
    PROVE  IInv'
<1>1. /\ proc[p].pc = "finalized" /\ Live(p) /\ Staging(p) \in DOMAIN store
      /\ proc' = [proc EXCEPT ![p].pc = "done"]
      /\ UNCHANGED <<block, tx, commitments, overlapped>>
  BY Zenon DEF Rekey, Live
<1>2. Included(p) /\ tx[p].id \notin DOMAIN store
  BY <1>1, FreshTarget, Zenon DEF IInv, TxInv
<1>3. /\ DOMAIN store' = (DOMAIN store \ {Staging(p)}) \cup {tx[p].id}
      /\ store'[tx[p].id] = store[Staging(p)]
      /\ \A e \in DOMAIN store : e # Staging(p) => e \in DOMAIN store' /\ store'[e] = store[e]
  BY <1>2, Zenon DEF Rekey, Renamed, Put, Drop
<1>4. /\ proc' \in [Process -> Invocation \cup {Idle}]
      /\ proc'[p].pc = "done"
      /\ \A q \in Process : q # p => proc'[q] = proc[q]
      /\ \A q \in Process : Live(q)' => Live(q)
      /\ Same
  BY <1>1, PhaseFacts, ZenonT(30) DEF IInv
<1>5. TypeInv'
  BY <1>1, <1>4, Zenon DEF IInv, TypeInv, Extrinsic
<1>6. TxInv'
  BY <1>1, <1>2, <1>4, TxKept, Zenon DEF IInv, TxInv
<1>7. IdInv'
  <2>1. \A q \in Process : proc[q].pc = "done" => proc'[q].pc = "done"
    BY <1>4, Zenon
  <2>2. QED
    BY <1>1, <1>3, <1>4, <2>1 DEF IInv, IdInv, Included
<1>8. StageInv'
  <2> SUFFICES ASSUME NEW q \in Started \ overlapped PROVE StageAt(q)'
    BY <1>4, Zenon DEF StageInv, Same
  <2>1. CASE q # p
    BY <1>1, <1>3, <1>4, <2>1, OthersStaged, Zenon
  <2>2. CASE q = p
    <3>1. Holds(Staging(p), Chunks(p), Len(Chunks(p))) /\ Chunks(p)' = Chunks(p)
      BY <1>1, <1>4, <2>2, Zenon DEF IInv, StageInv, StageAt, Same
    <3>2. Holds(tx[p].id, Chunks(p), Len(Chunks(p)))'
      BY <1>1, <1>3, <3>1, Zenon DEF Holds
    <3>3. QED
      BY <1>4, <2>2, <3>2, Zenon DEF StageAt
  <2>3. QED
    BY <2>1, <2>2
<1>9. QED
  BY <1>4, <1>5, <1>6, <1>7, <1>8, MeetKept, Zenon DEF IInv

LEMMA StartInv ==
    ASSUME IInv, NEW p \in Process, UNCHANGED block,
           NEW payload \in Payload, NEW mode \in Mode, Start(p, payload, mode)
    PROVE  IInv'
<1> DEFINE new == [pc |-> "staging", payload |-> payload, mode |-> mode,
                   next |-> 1, began |-> Cardinality(Started)]
<1>1. /\ proc[p].pc = "idle" /\ proc' = [proc EXCEPT ![p] = new]
      /\ Join(p, payload) /\ UNCHANGED <<block, tx, commitments>>
  BY Zenon DEF Start
<1>2. /\ StagingDir(payload) \in DOMAIN store'
      /\ DOMAIN store' = DOMAIN store \cup {StagingDir(payload)}
      /\ \A e \in DOMAIN store : store'[e] = store[e]
  BY Zenon DEF Start, Put
<1>3. /\ IsFiniteSet(Started) /\ Cardinality(Started) \in Nat
      /\ Cardinality(Started \cup {p}) = Cardinality(Started) + 1
  <2>1. Started \in SUBSET Process /\ p \notin Started
    BY <1>1, Zenon DEF Started
  <2>2. IsFiniteSet(Started)
    BY <2>1, ClientAssumption, FS_Subset, Zenon
  <2>3. QED
    BY <2>1, <2>2, FS_CardinalityType, FS_AddElement, Zenon
<1>4. /\ proc'[p] = new /\ new \in Invocation
      /\ \A q \in Process : q # p => proc'[q] = proc[q]
      /\ proc' \in [Process -> Invocation \cup {Idle}]
  BY <1>1, <1>3 DEF IInv, TypeInv, Invocation
<1>5. /\ proc'[p].pc = "staging" /\ proc'[p].payload = payload /\ proc'[p].next = 1
      /\ proc'[p].began = Cardinality(Started)
      /\ Chunks(p)' = ChunksOf[<<payload, mode>>] /\ Staging(p)' = StagingDir(payload)
  BY <1>4 DEF Chunks, Staging
<1> HIDE DEF new
<1>6. /\ Started' = Started \cup {p} /\ p \notin Started /\ ~Live(p) /\ Live(p)'
      /\ \A q \in Started : /\ q # p /\ q \in Process /\ proc'[q] = proc[q]
                            /\ Chunks(q)' = Chunks(q) /\ Staging(q)' = Staging(q)
                            /\ Live(q)' <=> Live(q)
  BY <1>1, <1>4, <1>5, Zenon DEF Started, Live, Chunks, Staging
<1>7. /\ overlapped \subseteq overlapped'
      /\ \A q \in Started : Live(q) /\ proc[q].payload = payload =>
             q \in overlapped' /\ p \in overlapped'
  BY <1>1, <1>6, Zenon DEF Join, Registering
<1>8. TypeInv'
  BY <1>1, <1>4, Zenon DEF IInv, TypeInv, Extrinsic
<1>9. TxInv'
  <2>1. tx[p].state = "none" /\ ~Included(p)
    BY <1>1, Zenon DEF IInv, TxInv, Included
  <2>2. \A q \in Process : Included(q) => q \in Started
    BY Zenon DEF IInv, TxInv, Included, Started
  <2>3. QED
    BY <1>1, <1>4, <1>5, <1>6, <2>1, <2>2 DEF IInv, TxInv, Included
<1>10. IdInv'
  <2>1. \A q \in Process : proc[q].pc = "done" => proc'[q].pc = "done"
    BY <1>1, <1>4, Zenon
  <2>2. QED
    BY <1>1, <1>2, <2>1, Zenon DEF IInv, IdInv, Included
<1>11. StageInv'
  <2> SUFFICES ASSUME NEW q \in (Started \cup {p}) \ overlapped' PROVE StageAt(q)'
    BY <1>6, Zenon DEF StageInv
  <2>1. CASE q = p
    <3>1. Len(Chunks(p)') \in Nat
      BY <1>5, ClientAssumption, LenProperties, Zenon
    <3>2. QED
      BY <1>2, <1>5, <2>1, <3>1 DEF StageAt, Holds
  <2>2. CASE q # p
    <3>1. q \in Started /\ StageAt(q)
      BY <1>7, <2>2, Zenon DEF IInv, StageInv
    <3>2. \A d, n : Holds(d, Chunks(q), n) => Holds(d, Chunks(q), n)'
      BY <1>2, <1>6, <3>1, Zenon DEF Holds
    <3>3. Retried(q) => Retried(q)'
      BY <1>6, <3>1, Zenon DEF Retried
    <3>4. QED
      BY <1>1, <1>6, <3>1, <3>2, <3>3, Zenon DEF StageAt
  <2>3. QED
    BY <2>1, <2>2, Zenon
<1>12. MeetInv'
  <2>1. \A q \in Started : proc[q].began < Cardinality(Started) /\ proc[q].began \in Nat
    BY ChunksType, Zenon DEF IInv, MeetInv, Invocation
  <2>2. \A q \in Started' : proc'[q].began < Cardinality(Started')
    BY <1>3, <1>5, <1>6, <2>1
  <2>3. ASSUME NEW q \in Started', NEW r \in Started', q # r,
               proc'[q].payload = proc'[r].payload, Live(r)', q \notin overlapped'
        PROVE  ~Live(q)' /\ proc'[r].began > proc'[q].began
    <3>1. CASE r = p
      BY <1>5, <1>6, <1>7, <2>1, <2>3, <3>1, Zenon
    <3>2. CASE q = p
      BY <1>5, <1>6, <1>7, <2>3, <3>2, Zenon
    <3>3. CASE q # p /\ r # p
      BY <1>6, <1>7, <2>3, <3>3, Zenon DEF IInv, MeetInv
    <3>4. QED
      BY <3>1, <3>2, <3>3, Zenon
  <2>4. QED
    BY <2>2, <2>3, Zenon DEF MeetInv
<1>13. QED
  BY <1>8, <1>9, <1>10, <1>11, <1>12, Zenon DEF IInv

-----------------------------------------------------------------------------
(***************************************************************************)
(* The chain.                                                              *)
(***************************************************************************)
\* A step that leaves clients and disk alone, and has no extrinsic forgotten.
LEMMA ChainKeeps ==
    ASSUME IInv, UNCHANGED <<store, proc, overlapped>>,
           \A q \in Process : /\ tx[q].state = "none" => tx'[q].state = "none"
                              /\ proc[q].pc = "done" => tx'[q].id = tx[q].id
    PROVE  StageInv' /\ MeetInv' /\ Same
<1>1. Same
  BY Zenon DEF Same, Started, Chunks, Staging
<1>2. MeetInv'
  BY <1>1, MeetKept, Zenon DEF Live
<1>3. StageInv'
  <2> SUFFICES ASSUME NEW q \in Started \ overlapped PROVE StageAt(q)'
    BY <1>1, Zenon DEF StageInv, Same
  <2>1. StageAt(q) /\ q \in Process /\ Chunks(q)' = Chunks(q) /\ Staging(q)' = Staging(q)
    BY <1>1, Zenon DEF IInv, StageInv, Started, Same
  <2>2. \A d, n : Holds(d, Chunks(q), n) => Holds(d, Chunks(q), n)'
    BY <2>1, Zenon DEF Holds
  <2>3. Retried(q) => Retried(q)'
    BY Zenon DEF Retried, Started
  <2>4. QED
    BY <2>1, <2>2, <2>3, Zenon DEF StageAt
<1>4. QED
  BY <1>1, <1>2, <1>3, Zenon

LEMMA RejectInv ==
    ASSUME IInv, NEW p \in Process, UNCHANGED block, Reject(p)
    PROVE  IInv'
<1>1. /\ tx[p].state = "pending" /\ UNCHANGED <<block, store, proc, commitments, overlapped>>
      /\ tx'[p].state = "rejected" /\ tx'[p].id = tx[p].id
      /\ \A q \in Process : q # p => tx'[q] = tx[q]
      /\ DOMAIN tx' = Process /\ Extrinsic(p)'
  BY DEF Reject, IInv, TypeInv, Extrinsic
<1>2. StageInv' /\ MeetInv' /\ Same
  BY <1>1, ChainKeeps, Zenon
<1>3. TypeInv'
  BY <1>1, Zenon DEF IInv, TypeInv, Extrinsic
<1>4. TxInv'
  BY <1>1, <1>2 DEF IInv, TxInv, Included, Same
<1>5. IdInv'
  <2>1. \A q \in Process : (Included(q)' <=> Included(q)) /\ tx'[q].id = tx[q].id
    BY <1>1, Zenon DEF Included
  <2>2. QED
    BY <1>1, <2>1 DEF IInv, IdInv
<1>6. QED
  BY <1>2, <1>3, <1>4, <1>5, Zenon DEF IInv

LEMMA IncludeInv ==
    ASSUME IInv, NEW p \in Process, UNCHANGED block, Include(p)
    PROVE  IInv'
<1>1. PICK id : id = CommitmentDir(Root(Chunks(p)), block)
  BY Zenon
<1>2. PICK row : row = [merkle_root |-> Root(Chunks(p)), total_chunks |-> Len(Chunks(p)),
                        status |-> "Pending", disputed |-> 0]
  BY Zenon
<1>3. /\ tx[p].state = "pending" /\ id \notin DOMAIN commitments
      /\ tx' = [tx EXCEPT ![p] = [state |-> "included", id |-> id]]
      /\ commitments' = Put(commitments, id, row)
      /\ UNCHANGED <<block, store, proc, overlapped>>
  BY <1>1, <1>2, ZenonT(30) DEF Include
<1>4. p \in Started /\ proc[p].pc \notin {"idle", "staging", "finalized", "done"}
  BY <1>3, Zenon DEF IInv, TxInv, Included, Started
<1>5. /\ tx'[p].state = "included" /\ tx'[p].id = id /\ Extrinsic(p)' /\ DOMAIN tx' = Process
      /\ \A q \in Process : q # p => tx'[q] = tx[q]
  BY <1>3, Zenon DEF IInv, TypeInv, Extrinsic
<1>6. /\ DOMAIN commitments' = DOMAIN commitments \cup {id} /\ commitments'[id] = row
      /\ \A x \in DOMAIN commitments : commitments'[x] = commitments[x]
  BY <1>3, Zenon DEF Put
<1>7. StageInv' /\ MeetInv' /\ Same
  BY <1>3, <1>4, <1>5, ChainKeeps, Zenon
<1>8. TypeInv'
  <2>1. row \in Commitment
    <3>1. Len(Chunks(p)) \in Nat /\ Chunks(p) \in {ChunksOf[x] : x \in Payload \X Mode}
      BY <1>4, ChunksType, Zenon DEF IInv
    <3>2. Root(Chunks(p)) \in {Root(ChunksOf[x]) : x \in Payload \X Mode}
      BY <3>1, Zenon
    <3>3. QED
      BY <1>2, <3>1, <3>2, Zenon DEF Commitment, Status
  <2>2. QED
    BY <1>3, <1>5, <1>6, <2>1 DEF IInv, TypeInv, Extrinsic
<1>9. \A q \in Process : q # p /\ Included(q) => tx[q].id # id
  <2> SUFFICES ASSUME NEW q \in Process, q # p, Included(q), tx[q].id = id PROVE FALSE
    BY Zenon
  <2>1. tx[q].id[3] = block
    BY <1>1, DirFacts
  <2>2. QED
    BY <1>3, <2>1, Zenon DEF IInv, TxInv
<1>10. TxInv'
  <2>1. id[3] = block /\ block \in Nat /\ Chunks(p)' = Chunks(p)
    BY <1>1, <1>7, DirFacts, Zenon DEF IInv, TypeInv, Same
  <2>2. row.merkle_root = Root(Chunks(p)) /\ row.total_chunks = Len(Chunks(p))
    BY <1>2, Zenon
  <2>3. QED
    BY <1>1, <1>3, <1>4, <1>5, <1>6, <1>7, <1>9, <2>1, <2>2
       DEF IInv, TxInv, Included, Same
<1>11. IdInv'
  <2>1. \A q \in Process : proc[q].pc = "done" => q # p
    BY <1>4, Zenon
  <2>2. \A q, r \in Process : Included(q)' /\ Included(r)' /\ tx'[q].id = tx'[r].id => q = r
    BY <1>5, <1>9 DEF IInv, IdInv, Included
  <2>3. \A x \in DOMAIN commitments' : \E q \in Process : Included(q)' /\ x = tx'[q].id
    <3> SUFFICES ASSUME NEW x \in DOMAIN commitments'
                 PROVE  \E q \in Process : Included(q)' /\ x = tx'[q].id
      BY Zenon
    <3>1. CASE x = id
      BY <1>5, <3>1, Zenon DEF Included
    <3>2. CASE x # id
      <4>1. PICK q \in Process : Included(q) /\ x = tx[q].id
        BY <1>6, <3>2, Zenon DEF IInv, IdInv
      <4>2. q # p
        BY <1>3, <4>1, Zenon DEF Included
      <4>3. QED
        BY <1>5, <4>1, <4>2, Zenon DEF Included
    <3>3. QED
      BY <3>1, <3>2, Zenon
  <2>4. QED
    BY <1>3, <1>5, <2>1, <2>2, <2>3 DEF IInv, IdInv
<1>12. QED
  BY <1>7, <1>8, <1>10, <1>11 DEF IInv

\* What the commands leave of the commitments.
LEMMA CommandFacts ==
    ASSUME IInv, NEW id \in DOMAIN commitments, UNCHANGED block, Command(id)
    PROVE  /\ UNCHANGED <<block, store, proc, tx, overlapped>>
           /\ DOMAIN commitments' \subseteq DOMAIN commitments
           /\ \A x \in DOMAIN commitments : x \notin DOMAIN commitments' => block > x[3]
           /\ \A x \in DOMAIN commitments' :
                 /\ commitments'[x] \in Commitment
                 /\ commitments'[x].merkle_root = commitments[x].merkle_root
                 /\ commitments'[x].total_chunks = commitments[x].total_chunks
<1>1. \A x \in DOMAIN commitments : commitments[x] \in Commitment
  BY Zenon DEF IInv, TypeInv
<1>2. ASSUME NEW to \in Status, NEW from, MovesTo(id, from, to)
      PROVE  /\ UNCHANGED <<store, proc, tx, overlapped>>
             /\ DOMAIN commitments' = DOMAIN commitments
             /\ \A x \in DOMAIN commitments :
                   /\ commitments'[x] \in Commitment
                   /\ commitments'[x].merkle_root = commitments[x].merkle_root
                   /\ commitments'[x].total_chunks = commitments[x].total_chunks
  BY <1>1, <1>2, Zenon DEF MovesTo, Commitment
<1>3. CASE Acknowledge(id) \/ Close(id) \/ Counter(id) \/ finalize_dispute(id)
  <2>1. PICK to \in Status, from \in Status : MovesTo(id, from, to)
    BY <1>3, Zenon DEF Acknowledge, acknowledge_commitment, Close, close_commitment, Counter,
                counter_dispute, finalize_dispute, Status
  <2>2. QED
    BY <1>2, <2>1, Zenon
<1>4. CASE Raise(id)
  <2>1. PICK i : raise_dispute(id, i)
    BY <1>4, Zenon DEF Raise
  <2>2. i \in Nat
    BY <1>1, <2>1 DEF raise_dispute, Commitment
  <2>3. commitments' = [commitments EXCEPT ![id].status = "Disputed", ![id].disputed = i]
    BY <2>1, Zenon DEF raise_dispute
  <2>4. /\ DOMAIN commitments' = DOMAIN commitments
        /\ \A x \in DOMAIN commitments :
              /\ commitments'[x] \in Commitment
              /\ commitments'[x].merkle_root = commitments[x].merkle_root
              /\ commitments'[x].total_chunks = commitments[x].total_chunks
    <3>1. /\ DOMAIN commitments' = DOMAIN commitments
          /\ \A x \in DOMAIN commitments : x # id => commitments'[x] = commitments[x]
          /\ commitments'[id] = [commitments[id] EXCEPT !.status = "Disputed", !.disputed = i]
      BY <2>3, Zenon
    <3>2. commitments[id] \in Commitment
      BY <1>1, Zenon
    <3>3. /\ commitments'[id] \in Commitment
          /\ commitments'[id].merkle_root = commitments[id].merkle_root
          /\ commitments'[id].total_chunks = commitments[id].total_chunks
      BY <2>2, <3>1, <3>2, ZenonT(30) DEF Commitment, Status
    <3>4. QED
      BY <1>1, <3>1, <3>3, ZenonT(30)
  <2>5. QED
    BY <2>1, <2>4, Zenon DEF raise_dispute
<1>5. CASE expire_commitment(id)
  BY <1>1, <1>5, Zenon DEF expire_commitment, Drop
<1>6. QED
  BY <1>3, <1>4, <1>5, Zenon DEF Command

LEMMA CommandInv ==
    ASSUME IInv, NEW id \in DOMAIN commitments, UNCHANGED block, Command(id)
    PROVE  IInv'
<1>1. /\ UNCHANGED <<block, store, proc, tx, overlapped>>
      /\ DOMAIN commitments' \subseteq DOMAIN commitments
      /\ \A x \in DOMAIN commitments : x \notin DOMAIN commitments' => block > x[3]
      /\ \A x \in DOMAIN commitments' :
            /\ commitments'[x] \in Commitment
            /\ commitments'[x].merkle_root = commitments[x].merkle_root
            /\ commitments'[x].total_chunks = commitments[x].total_chunks
  BY CommandFacts, Zenon
<1>2. StageInv' /\ MeetInv' /\ Same
  BY <1>1, ChainKeeps, Zenon
<1>3. TypeInv'
  BY <1>1, Zenon DEF IInv, TypeInv, Extrinsic
<1>4. TxInv'
  <2>1. block \in Nat
    BY Zenon DEF IInv, TypeInv
  <2>2. QED
    BY <1>1, <1>2, <2>1 DEF IInv, TxInv, Included, Same
<1>5. IdInv'
  BY <1>1, Zenon DEF IInv, IdInv, Included
<1>6. QED
  BY <1>2, <1>3, <1>4, <1>5, Zenon DEF IInv

LEMMA BlockInv ==
    ASSUME IInv, AdvanceBlock, UNCHANGED clientVars
    PROVE  IInv'
<1>1. UNCHANGED <<store, proc, tx, commitments, overlapped>> /\ block' = block + 1 /\ block \in Nat
  BY Zenon DEF clientVars, AdvanceBlock, IInv, TypeInv
<1>2. StageInv' /\ MeetInv' /\ Same
  BY <1>1, ChainKeeps, Zenon
<1>3. TypeInv'
  BY <1>1 DEF IInv, TypeInv, Extrinsic
<1>4. TxInv'
  BY <1>1, <1>2 DEF IInv, TxInv, Included, Same
<1>5. IdInv'
  BY <1>1 DEF IInv, IdInv, Included
<1>6. QED
  BY <1>2, <1>3, <1>4, <1>5, Zenon DEF IInv

-----------------------------------------------------------------------------
(***************************************************************************)
(* Every step.                                                             *)
(***************************************************************************)
LEMMA InitInv == Init => IInv
<1> SUFFICES ASSUME Init PROVE IInv
  BY Zenon
<1> USE DEF Init, SystemInit, EmptyMap
<1>1. TypeInv
  BY Zenon DEF TypeInv, Idle, Extrinsic
<1>2. TxInv /\ IdInv
  BY Zenon DEF TxInv, IdInv, Included
<1>3. StageInv /\ MeetInv
  BY Zenon DEF StageInv, MeetInv, Started
<1>4. QED
  BY <1>1, <1>2, <1>3, Zenon DEF IInv

LEMMA ClientInv ==
    ASSUME IInv, NEW p \in Process, UNCHANGED block, ClientStep(p)
    PROVE  IInv'
<1>1. CASE Register(p)
  BY <1>1, StartInv, Zenon DEF Register
<1>2. CASE PersistChunk(p) \/ Rekey(p)
  BY <1>2, PersistInv, RekeyInv, Zenon
<1>3. CASE Submit(p) \/ Finalized(p) \/ SubmitError(p) \/ StorageError(p) \/ Crash(p)
  BY <1>3, PhaseInv, TornInv, Zenon
<1>4. CASE Include(p) \/ Reject(p)
  BY <1>4, IncludeInv, RejectInv, Zenon
<1>5. QED
  BY <1>1, <1>2, <1>3, <1>4, Zenon DEF ClientStep

LEMMA StepInv == IInv /\ [Next]_vars => IInv'
<1>1. ASSUME IInv, Next PROVE IInv'
  BY <1>1, ClientInv, CommandInv, BlockInv, Zenon DEF Next
<1>2. ASSUME IInv, UNCHANGED vars PROVE IInv'
  <2>1. UNCHANGED <<block, store, proc, tx, commitments, overlapped>>
    BY <1>2, Zenon DEF vars, clientVars
  <2>2. StageInv' /\ MeetInv' /\ Same
    BY <1>2, <2>1, ChainKeeps, Zenon
  <2>3. TypeInv' /\ TxInv' /\ IdInv'
    BY <1>2, <2>1, <2>2 DEF IInv, TypeInv, Extrinsic, TxInv, IdInv, Included, Same
  <2>4. QED
    BY <2>2, <2>3, Zenon DEF IInv
<1>3. QED
  BY <1>1, <1>2, Zenon

\* The inductive invariant holds in every run of the clients over one store.
THEOREM ChunkClientInvariant == Spec => []IInv
BY InitInv, StepInv, PTL DEF Spec

-----------------------------------------------------------------------------
(***************************************************************************)
(* What follows.                                                           *)
(***************************************************************************)
LEMMA HoldsIsCounterable ==
    ASSUME IInv, NEW p \in Started, Included(p), tx[p].id \in DOMAIN commitments,
           Holds(tx[p].id, Chunks(p), Len(Chunks(p)))
    PROVE  Counterable(tx[p].id)
<1>1. p \in Process /\ Chunks(p) \in Seq(STRING)
  BY ChunksType, Zenon DEF IInv
<1>2. /\ commitments[tx[p].id].merkle_root = Root(Chunks(p))
      /\ commitments[tx[p].id].total_chunks = Len(Chunks(p))
  BY <1>1, Zenon DEF IInv, TxInv
<1>3. Loads(tx[p].id, Len(Chunks(p))) /\ load_all_chunks(tx[p].id, Len(Chunks(p))) = Chunks(p)
  BY <1>1, HoldsAll, Zenon
<1>4. QED
  BY <1>2, <1>3 DEF Counterable, Refutes

\* For any number of invocations, payloads and modes: the directory that
\* register_commitment has reported holds the chunks of the commitment, so that
\* counter_dispute refutes any dispute, if no other registration of the payload
\* was running beside it.
THEOREM ReportedCanBeDefended == Spec => []ReportedIsCounterable
<1>1. IInv => ReportedIsCounterable
  <2> SUFFICES ASSUME IInv, NEW p \in Process \ overlapped, proc[p].pc = "done",
                      tx[p].id \in DOMAIN commitments
               PROVE  Counterable(tx[p].id)
    BY Zenon DEF ReportedIsCounterable
  <2>1. p \in Started /\ Included(p) /\ Holds(tx[p].id, Chunks(p), Len(Chunks(p)))
    BY Zenon DEF Started, IInv, TxInv, StageInv, StageAt
  <2>2. QED
    BY <2>1, HoldsIsCounterable, Zenon
<1>2. QED
  BY <1>1, ChunkClientInvariant, PTL

\* For any number of invocations, payloads and modes: the chunks of a commitment
\* whose client was killed or lost its connection before rekey are in staging
\* until the payload is registered again.
THEOREM ChunksStayOnDisk == Spec => []ChunksNotLost
<1>1. IInv => ChunksNotLost
  <2> SUFFICES ASSUME IInv, NEW p \in Process \ overlapped, Included(p),
                      tx[p].id \in DOMAIN commitments
               PROVE  Counterable(tx[p].id) \/ StagedFor(p) \/ Retried(p)
    BY Zenon DEF ChunksNotLost, Included, Retried
  <2>1. p \in Started /\ StageAt(p) /\ proc[p].pc # "staging" /\ tx[p].state # "none"
    BY Zenon DEF Started, IInv, TxInv, StageInv, Included
  <2>2. Chunks(p) \in Seq(STRING) /\ proc[p] \in Invocation
    BY <2>1, ChunksType, Zenon DEF IInv
  <2>3. CASE proc[p].pc = "done"
    BY <2>1, <2>3, HoldsIsCounterable, Zenon DEF StageAt
  <2>4. CASE proc[p].pc # "done"
    <3>1. Holds(Staging(p), Chunks(p), Len(Chunks(p))) \/ Retried(p)
      BY <2>1, <2>2, <2>4, Zenon DEF StageAt, Invocation
    <3>2. QED
      BY <2>2, <3>1, HoldsAll, Zenon DEF StagedFor
  <2>5. QED
    BY <2>3, <2>4, Zenon
<1>2. QED
  BY <1>1, ChunkClientInvariant, PTL

\* No step changes what is in the directory of a commitment.
LEMMA DirectoryStays ==
    ASSUME IInv, [Next]_vars, NEW id \in DOMAIN commitments, id \in DOMAIN commitments'
    PROVE  /\ commitments'[id].merkle_root = commitments[id].merkle_root
           /\ commitments'[id].total_chunks = commitments[id].total_chunks
           /\ id \in DOMAIN store => id \in DOMAIN store' /\ store'[id] = store[id]
<1>1. \A x : id # StagingDir(x)
  BY DirFacts DEF IInv, IdInv, TxInv
<1>2. ASSUME NEW p \in Process, ClientStep(p)
      PROVE  /\ commitments'[id] = commitments[id]
             /\ id \in DOMAIN store => id \in DOMAIN store' /\ store'[id] = store[id]
  <2>1. CASE Register(p)
    BY <1>1, <2>1, Zenon DEF Register, Start, Put
  <2>2. CASE PersistChunk(p)
    BY <1>1, <2>2, Zenon DEF PersistChunk, Staging
  <2>3. CASE Rekey(p)
    <3>1. proc[p].pc = "finalized" /\ commitments' = commitments
      BY <2>3, Zenon DEF Rekey
    <3>2. tx[p].id \notin DOMAIN store
      BY <3>1, FreshTarget, Zenon DEF IInv, TxInv
    <3>3. QED
      BY <1>1, <2>3, <3>1, <3>2, Zenon DEF Rekey, Renamed, Put, Drop, Staging
  <2>4. CASE Crash(p)
    BY <1>1, <2>4, Zenon DEF Crash, Staging
  <2>5. CASE Submit(p) \/ Finalized(p) \/ SubmitError(p) \/ StorageError(p) \/ Reject(p)
    BY <2>5, Zenon DEF Submit, Finalized, SubmitError, StorageError, Reject
  <2>6. CASE Include(p)
    BY <2>6, Zenon DEF Include, Put
  <2>7. QED
    BY <1>2, <2>1, <2>2, <2>3, <2>4, <2>5, <2>6, Zenon DEF ClientStep
<1>3. ASSUME NEW x \in DOMAIN commitments, UNCHANGED block, Command(x)
      PROVE  /\ commitments'[id].merkle_root = commitments[id].merkle_root
             /\ commitments'[id].total_chunks = commitments[id].total_chunks
             /\ store' = store
  BY <1>3, CommandFacts, Zenon
<1>4. CASE UNCHANGED clientVars
  BY <1>4, Zenon DEF clientVars
<1>5. QED
  BY <1>2, <1>3, <1>4, Zenon DEF Next, vars

\* For any number of invocations, payloads and modes: once a commitment can be
\* defended from disk, no later registration, crash, rekey or overlap changes that.
THEOREM DefenceStays == Spec => CounterableStays
<1> DEFINE Stays == \A id \in DOMAIN commitments :
                        id \in DOMAIN commitments' /\ Counterable(id) => Counterable(id)'
<1>1. IInv /\ [Next]_vars => Stays
  <2> SUFFICES ASSUME IInv, [Next]_vars, NEW id \in DOMAIN commitments,
                      id \in DOMAIN commitments', Counterable(id)
               PROVE  Counterable(id)'
    BY Zenon
  <2>1. /\ commitments'[id].merkle_root = commitments[id].merkle_root
        /\ commitments'[id].total_chunks = commitments[id].total_chunks
        /\ id \in DOMAIN store => id \in DOMAIN store' /\ store'[id] = store[id]
    BY DirectoryStays, Zenon
  <2>2. QED
    BY <2>1, ZenonT(30) DEF Counterable, Refutes, Loads, load_all_chunks
<1>2. QED
  BY <1>1, ChunkClientInvariant, PTL DEF Spec, CounterableStays

=============================================================================

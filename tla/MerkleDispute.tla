--------------------------- MODULE MerkleDispute ---------------------------
(***************************************************************************)
(* The Merkle tree of offchain-vector-db and the verification of its proofs*)
(* by counter_dispute on chain.  A provider commits to a list of chunks, a *)
(* consumer disputes one of them, and the answer is a chunk with a proof   *)
(* taken from some list of chunks: the committed one, or what an operator  *)
(* with a wrong index, a wrong total or spoilt files makes the client load.*)
(*                                                                         *)
(* blake2_256 is an injective constructor.                                 *)
(***************************************************************************)
EXTENDS Integers, Sequences

CONSTANTS Data,         \* plain contents of a chunk
          MaxLeaves     \* bound: the chunks of a commitment

VARIABLES committed,    \* the chunks behind the merkle_root on chain
          disputed,     \* disputed_chunk_index, from 0; -1: no dispute
          answer        \* the last answer: who made it from what, and the verdict

vars == <<committed, disputed, answer>>

-----------------------------------------------------------------------------
(***************************************************************************)
(* Blake2bHasher, and the tree that rs_merkle builds with it.              *)
(***************************************************************************)
blake2_256(x) == <<"hash", x>>

concat_and_hash(left, right) == blake2_256(<<left, right>>)

Leaves(chunks) == [i \in 1..Len(chunks) |-> blake2_256(chunks[i])]

\* Mutant: an odd last node is hashed with itself.
ParentLayer_doubled(layer) ==
    [k \in 1..((Len(layer) + 1) \div 2) |->
        IF 2 * k <= Len(layer) THEN concat_and_hash(layer[2 * k - 1], layer[2 * k])
        ELSE concat_and_hash(layer[2 * k - 1], layer[2 * k - 1])]

\* An odd last node is passed up as it is.
ParentLayer(layer) ==
    [k \in 1..((Len(layer) + 1) \div 2) |->
        IF 2 * k <= Len(layer) THEN concat_and_hash(layer[2 * k - 1], layer[2 * k])
        ELSE layer[2 * k - 1]]

RECURSIVE RootOf(_)
RootOf(layer) == IF Len(layer) = 1 THEN layer[1] ELSE RootOf(ParentLayer(layer))

build_merkle_tree(chunks) == RootOf(Leaves(chunks))

\* Positions are counted from 0.
Sibling(i) == IF i % 2 = 0 THEN i + 1 ELSE i - 1

\* Mutant: the neighbour on the right, also of a right node.
Helper_right(layer, i) == IF i + 1 < Len(layer) THEN <<layer[i + 2]>> ELSE <<>>

\* The sibling of position i in a layer, if there is one.
Helper(layer, i) == IF Sibling(i) < Len(layer) THEN <<layer[Sibling(i) + 1]>> ELSE <<>>

RECURSIVE Helpers(_, _)
Helpers(layer, i) ==
    IF Len(layer) = 1 THEN <<>>
    ELSE Helper(layer, i) \o Helpers(ParentLayer(layer), i \div 2)

generate_inclusion_proof(chunks, i) == Helpers(Leaves(chunks), i)

(***************************************************************************)
(* MerkleProof::verify, for one leaf: the shape of the path follows from   *)
(* the index and the number of leaves.  A proof with too few hashes is an  *)
(* error; hashes that are left over are not looked at.                     *)
(***************************************************************************)
RECURSIVE Needs(_, _)
Needs(i, n) == IF n = 1 THEN 0
               ELSE (IF Sibling(i) < n THEN 1 ELSE 0) + Needs(i \div 2, (n + 1) \div 2)

RECURSIVE Climb(_, _, _, _)
Climb(node, i, n, proof) ==
    IF n = 1 THEN node
    ELSE IF Sibling(i) >= n THEN Climb(node, i \div 2, (n + 1) \div 2, proof)
    ELSE Climb(IF i % 2 = 0 THEN concat_and_hash(node, Head(proof))
               ELSE concat_and_hash(Head(proof), node),
               i \div 2, (n + 1) \div 2, Tail(proof))

\* Mutant: the proof may be one for any position.
verify_anywhere(root, i, chunk, n, proof) ==
    \E j \in 0..(n - 1) : /\ Len(proof) >= Needs(j, n)
                          /\ Climb(blake2_256(chunk), j, n, proof) = root

verify(root, i, chunk, n, proof) ==
    /\ Len(proof) >= Needs(i, n)
    /\ Climb(blake2_256(chunk), i, n, proof) = root

-----------------------------------------------------------------------------
Lists == UNION {[1..n -> Data] : n \in 1..MaxLeaves}

NoAnswer == [verdict |-> "none"]

Init == committed \in Lists /\ disputed = -1 /\ answer = NoAnswer

raise_dispute ==
    /\ disputed = -1
    /\ disputed' \in 0..(Len(committed) - 1)
    /\ UNCHANGED <<committed, answer>>

Verdict(chunk, proof) ==
    IF verify(build_merkle_tree(committed), disputed, chunk, Len(committed), proof)
    THEN "DisputeCountered" ELSE "InvalidMerkleProof"

\* A refused answer changes nothing on chain, so one answer is enough to see.
Unanswered == disputed # -1 /\ answer = NoAnswer

\* counter_dispute of the client, which has loaded these chunks and was given
\* this index.
counter_dispute ==
    /\ Unanswered
    /\ \E chunks \in Lists : \E i \in 0..(Len(chunks) - 1) :
          answer' = [chunk |-> chunks[i + 1], chunks |-> chunks, index |-> i,
                     verdict |-> Verdict(chunks[i + 1], generate_inclusion_proof(chunks, i))]
    /\ UNCHANGED <<committed, disputed>>

Next == raise_dispute \/ counter_dispute

Spec == Init /\ [][Next]_vars

-----------------------------------------------------------------------------
Answered == answer # NoAnswer

Accepted == answer.verdict = "DisputeCountered"

\* The answer that the client makes from the committed chunks for the disputed
\* index is accepted, for every number of chunks and every position: the tree
\* of merkle.rs and the verification on chain agree on odd nodes and on the
\* order of siblings (merkle.rs:29-41, 61-78; pallet lib.rs:820-836).
HonestAnswerAccepted ==
    Answered /\ answer.chunks = committed /\ answer.index = disputed => Accepted

\* Whatever list of chunks the client has loaded, and whatever index it was given,
\* no chunk but the committed one is accepted for the disputed position: the pallet
\* takes the index from its dispute record (pallet lib.rs:814-836).
OnlyCommittedChunk == Answered /\ Accepted => answer.chunk = committed[disputed + 1]

\* "A partial or misordered set produces a structurally different (and useless)
\* tree" (offchain-vector-db lib.rs:525): an answer for the disputed index from a
\* shorter list, or from one with another chunk changed or moved, is refused, right
\* as its own chunk may be.
PartialSetUseless ==
    /\ Answered /\ answer.index = disputed
    /\ Len(answer.chunks) <= Len(committed) /\ answer.chunks # committed
    => ~Accepted
=============================================================================

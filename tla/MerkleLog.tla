------------------------------ MODULE MerkleLog -----------------------------
(***************************************************************************)
(* The Merkle commitments: the padded tree with inclusion proofs and the   *)
(* RFC 6962 forest with consistency proofs of antiforgery/src/merkle.rs,   *)
(* and the catalog's transparency log built on the same construction       *)
(* (transparency.rs), which appends commitments and gossips signed tree    *)
(* heads.  SHA-256 is symbolic: a hash is the term that was hashed, so two *)
(* hashes are equal exactly when their inputs are.                         *)
(* Indices are the source's, from 0; a range is [first, last).             *)
(***************************************************************************)
EXTENDS Integers, Sequences, SequencesExt, FiniteSets, FiniteSetsExt, Folds

CONSTANTS Commitments, MaxEntries, Channels

ASSUME MerkleAssumption == MaxEntries \in Nat

VARIABLES
  entries,   \* the log's leaves
  posted     \* endpoint -> the tree heads it has accepted: [size, root]

merkleVars == <<entries, posted>>

ZeroHash == <<"zero">>

LeafHash(d) == <<"leaf", d>>

\* Mutant of ParentHash: the order of the children is not hashed.
ParentHashUnordered(l, r) == <<"node", {l, r}>>

ParentHash(l, r) == <<"node", l, r>>

LeafHashes(data) == [i \in DOMAIN data |-> LeafHash(data[i])]

-----------------------------------------------------------------------------
(* The padded tree: odd levels repeat their last node.                     *)

Padded(level) ==
  IF Len(level) > 1 /\ Len(level) % 2 = 1 THEN Append(level, Last(level)) ELSE level

Pairs(level) ==
  [i \in 1..(Len(level) \div 2) |-> ParentHash(level[2 * i - 1], level[2 * i])]

RECURSIVE Levels(_)
Levels(level) ==
  IF Len(level) <= 1 THEN <<level>> ELSE <<Padded(level)>> \o Levels(Pairs(Padded(level)))

MerkleRoot(data) ==
  IF data = <<>> THEN ZeroHash ELSE Last(Levels(LeafHashes(data)))[1]

\* Mutant of Sibling: the node itself.
SiblingSame(idx) == idx

Sibling(idx) == IF idx % 2 = 0 THEN idx + 1 ELSE idx - 1

\* proof(index): the sibling of every level but the root's.
InclusionProof(data, index) ==
  LET levels == Levels(LeafHashes(data))
      At(l) == index \div 2 ^ (l - 1)
  IN [l \in 1..(Len(levels) - 1) |->
        [sibling |-> levels[l][Sibling(At(l)) + 1], right |-> At(l) % 2 = 0]]

VerifyProof(root, d, proof) ==
  FoldLeft(LAMBDA node, step : IF step.right THEN ParentHash(node, step.sibling)
                               ELSE ParentHash(step.sibling, node),
           LeafHash(d), proof) = root

-----------------------------------------------------------------------------
(* The forest: every node splits at the largest power of two below it.     *)

LargestPow2Lt(x) == Max({1} \cup {2 ^ k : k \in {j \in 0..x : 2 ^ j < x}})

RECURSIVE SubtreeHash(_, _, _)
SubtreeHash(hashes, first, last) ==
  IF last - first = 1 THEN hashes[first + 1]
  ELSE LET k == LargestPow2Lt(last - first) IN
       ParentHash(SubtreeHash(hashes, first, first + k),
                  SubtreeHash(hashes, first + k, last))

ForestRoot(data) ==
  IF data = <<>> THEN ZeroHash ELSE SubtreeHash(LeafHashes(data), 0, Len(data))

ForestNode(hashes, first, last) ==
  [start |-> first, size |-> last - first, hash |-> SubtreeHash(hashes, first, last)]

\* subproof and its copy collect_consistency_nodes.
RECURSIVE Subproof(_, _, _, _, _)
Subproof(hashes, m, first, last, known) ==
  LET size == last - first
      k == LargestPow2Lt(size)
  IN IF m = size THEN IF known THEN <<>> ELSE <<ForestNode(hashes, first, last)>>
     ELSE IF m <= k
     THEN Append(Subproof(hashes, m, first, first + k, known),
                 ForestNode(hashes, first + k, last))
     ELSE Append(Subproof(hashes, m - k, first + k, last, FALSE),
                 ForestNode(hashes, first, first + k))

\* consistency_proof(m), for 0 < m < size.
ConsistencyProof(data, m) == Subproof(LeafHashes(data), m, 0, Len(data), TRUE)

\* reconstruct: {} when a leaf the proof does not give would be needed.
RECURSIVE Reconstruct(_, _, _)
Reconstruct(first, last, nodes) ==
  LET given == {i \in DOMAIN nodes : nodes[i].start = first /\ nodes[i].size = last - first}
      k == LargestPow2Lt(last - first)
  IN IF given # {} THEN {nodes[Min(given)].hash}
     ELSE IF last - first <= 1 THEN {}
     ELSE {ParentHash(l, r) : l \in Reconstruct(first, first + k, nodes),
                              r \in Reconstruct(first + k, last, nodes)}

IsPow2(m) == \E k \in 0..m : 2 ^ k = m

\* verify_consistency of the crate: after an empty old tree only what the nodes
\* give is compared; a power-of-two old tree is trusted as a node, any other is
\* rebuilt from the proof and compared.
VerifyConsistency(oldRoot, newRoot, m, n, proof) ==
  LET nodes == IF IsPow2(m) THEN Append(proof, [start |-> 0, size |-> m, hash |-> oldRoot])
               ELSE proof
  IN CASE m = 0 -> Reconstruct(0, n, proof) \subseteq {newRoot}
       [] m > 0 /\ m >= n -> m = n /\ proof = <<>> /\ oldRoot = newRoot
       [] OTHER -> /\ IsPow2(m) \/ Reconstruct(0, m, nodes) = {oldRoot}
                   /\ Reconstruct(0, n, nodes) = {newRoot}

(* The transparency log has its own copies of the forest (MerkleLog in     *)
(* transparency.rs): its root, its nodes, its proofs and its verifiers.    *)

CatalogParent(l, r) == ParentHash(l, r)

CatalogSplit(x) == LargestPow2Lt(x)

CatalogRoot(data) == IF data = <<>> THEN ZeroHash ELSE SubtreeHash(LeafHashes(data), 0, Len(data))

\* collect_consistency_nodes is subproof, with the hashes as its argument.
CatalogNodes(hashes, m, first, last, known) == Subproof(hashes, m, first, last, known)

\* {} unless 0 < m < size; the proof carries the two roots it speaks of.
CatalogConsistencyProof(data, m) ==
  IF m = 0 \/ m >= Len(data) THEN {}
  ELSE {[oldSize |-> m, newSize |-> Len(data),
         oldRoot |-> SubtreeHash(LeafHashes(data), 0, m), newRoot |-> CatalogRoot(data),
         nodes |-> CatalogNodes(LeafHashes(data), m, 0, Len(data), TRUE)]}

CatalogVerifyInclusion(root, d, proof) ==
  FoldLeft(LAMBDA node, step : IF step.right THEN CatalogParent(node, step.sibling)
                               ELSE CatalogParent(step.sibling, node),
           LeafHash(d), proof) = root

\* The inclusion proof follows the forest's splits ...
RECURSIVE CatalogInclusion(_, _, _, _)
CatalogInclusion(hashes, first, last, index) ==
  LET split == first + CatalogSplit(last - first) IN
  IF last - first = 1 THEN <<>>
  ELSE IF index < split
  THEN Append(CatalogInclusion(hashes, first, split, index),
              [sibling |-> SubtreeHash(hashes, split, last), right |-> TRUE])
  ELSE Append(CatalogInclusion(hashes, split, last, index),
              [sibling |-> SubtreeHash(hashes, first, split), right |-> FALSE])

\* ... and its verify_consistency looks at the sizes and counts the nodes.
CatalogVerifyConsistency(p) ==
  \/ p.oldSize = 0
  \/ IF p.oldSize = p.newSize THEN p.oldRoot = p.newRoot /\ p.nodes = <<>> ELSE p.nodes # <<>>

-----------------------------------------------------------------------------
(* The log as a service.                                                   *)

MerkleInit == entries = <<>> /\ posted = [e \in Channels |-> {}]

AppendEntry(d) ==
  /\ Len(entries) < MaxEntries
  /\ entries' = Append(entries, d)
  /\ UNCHANGED posted

\* gossip_tree_head posts the current head to every endpoint; any may refuse.
GossipTreeHead(accepting) ==
  /\ posted' = [e \in Channels |->
        IF e \in accepting
        THEN posted[e] \cup {[size |-> Len(entries), root |-> CatalogRoot(entries)]}
        ELSE posted[e]]
  /\ UNCHANGED entries

MerkleNext ==
  \/ \E d \in Commitments : AppendEntry(d)
  \/ \E accepting \in SUBSET Channels : GossipTreeHead(accepting)

MerkleTypeOK ==
  /\ entries \in Seq(Commitments) /\ Len(entries) <= MaxEntries
  /\ DOMAIN posted = Channels
  /\ \A e \in Channels : \A h \in posted[e] : h.size \in 0..Len(entries)

-----------------------------------------------------------------------------
Heads == UNION {posted[e] : e \in Channels}

Rewrites(m) == {d \in [1..m -> Commitments] : d # SubSeq(entries, 1, m)}

\* Every entry has an inclusion proof that the verifiers accept for that entry
\* and for no other value, in the padded tree (odd sizes included) and in the
\* forest whose root the signed tree head carries.
InclusionExact ==
  \A i \in 0..(Len(entries) - 1), d \in Commitments :
    /\ VerifyProof(MerkleRoot(entries), d, InclusionProof(entries, i))
         <=> d = entries[i + 1]
    /\ CatalogVerifyInclusion(CatalogRoot(entries), d,
                              CatalogInclusion(LeafHashes(entries), 0, Len(entries), i))
         <=> d = entries[i + 1]

\* Whatever was appended since a head was gossiped, the crate's consistency
\* proof for the current log is accepted against that head, and the same proof
\* is refused against the root of any other history of that length. After the
\* head of an empty log, a proof that covers the log is accepted for the log's
\* root alone. The log's own consistency proof carries exactly the roots and
\* nodes of the crate's.
ConsistencyExact ==
  \A h \in Heads :
    LET n == Len(entries)
        proof == IF h.size \in 1..(n - 1) THEN ConsistencyProof(entries, h.size) ELSE <<>>
        Accepts(root) == VerifyConsistency(root, ForestRoot(entries), h.size, n, proof)
        whole == <<ForestNode(LeafHashes(entries), 0, n)>>
    IN /\ Accepts(h.root) /\ \A d \in Rewrites(h.size) : ~Accepts(ForestRoot(d))
       /\ h.size = 0 /\ n > 0 =>
            /\ VerifyConsistency(h.root, ForestRoot(entries), 0, n, whole)
            /\ \A d \in Rewrites(n) : ~VerifyConsistency(h.root, ForestRoot(d), 0, n, whole)
       /\ \A p \in CatalogConsistencyProof(entries, h.size) :
            p.oldRoot = h.root /\ VerifyConsistency(p.oldRoot, p.newRoot, p.oldSize, p.newSize, p.nodes)

\* transparency.rs, verify_consistency: "the old tree must be a prefix of the
\* new".
CatalogProofMeansPrefix ==
  \A h \in Heads : \A p \in CatalogConsistencyProof(entries, h.size) :
    \A d \in Rewrites(h.size) :
      ~CatalogVerifyConsistency([p EXCEPT !.oldRoot = CatalogRoot(d)])

\* audit.rs, merkle_root: "commitment to the ENTIRE log": two logs with the
\* same padded root are the same log.
RootCommitsToLog ==
  \A d \in Commitments : MerkleRoot(Append(entries, d)) # MerkleRoot(entries)
=============================================================================

----------------------------- MODULE ZkpVerifier ----------------------------
(***************************************************************************)
(* The verifier of subscription proofs (core-supervisor/src/zkp_auth.rs)   *)
(* and the engine that wraps it (zk_auth.rs). verify_proof takes one lock  *)
(* per check, so verifications, updates of the root, new commitments and   *)
(* revocations interleave between its checks. A hash is the tuple of what  *)
(* it is computed from.                                                    *)
(***************************************************************************)
EXTENDS Naturals, FiniteSets

CONSTANTS
  Tokens, Blindings, Roots,
  Verifiers,          \* concurrent calls of verify_proof
  MaxVerifications,   \* bound on the calls begun
  MaxCommitmentEdits  \* bound on additions, revocations and root updates

VARIABLES
  validCommitments, usedNullifiers, zkRoot,
  verifying,      \* verifier -> its call: step, proof, and the history below
  verifiedCount,
  acceptedNullifiers,  \* nullifiers of the calls that have returned Ok
  verifications, commitmentEdits

zkStore == <<validCommitments, usedNullifiers, zkRoot>>
zkVars == <<validCommitments, usedNullifiers, zkRoot, verifying, verifiedCount,
            acceptedNullifiers, verifications, commitmentEdits>>

FromToken(token, blinding) == <<"commitment", token, blinding>>
Nullifier(token) == <<"nullifier", token>>
ZkResponse(c, n, r) == <<"response", c, n, r>>

\* create_proof, on the client.
CreateProof(token, blinding, root) ==
  LET c == FromToken(token, blinding)  n == Nullifier(token)
  IN [commitment |-> c, nullifier |-> n, root |-> root, response |-> ZkResponse(c, n, root)]

\* Proofs offered: those clients create, and those with the response of another root.
OfferedProofs ==
  LET made == {CreateProof(t, b, r) : t \in Tokens, b \in Blindings, r \in Roots}
  IN made \cup {[p EXCEPT !.root = r] : p \in made, r \in Roots}

ZkCommitments == {FromToken(t, b) : t \in Tokens, b \in Blindings}
NotVerifying == [step |-> "none"]

ZkInit ==
  /\ validCommitments = {} /\ usedNullifiers = {} /\ zkRoot \in Roots
  /\ verifying = [v \in Verifiers |-> NotVerifying] /\ verifiedCount = 0
  /\ acceptedNullifiers = {} /\ verifications = 0 /\ commitmentEdits = 0

Edits(valid, root) ==
  /\ commitmentEdits < MaxCommitmentEdits /\ commitmentEdits' = commitmentEdits + 1
  /\ validCommitments' = valid /\ zkRoot' = root
  /\ verifying' = [v \in Verifiers |->
       IF verifying[v].step \in {"none", "Ok", "Err"} THEN verifying[v]
       ELSE [verifying[v] EXCEPT !.valid = @ \cup valid, !.roots = @ \cup {root}]]
  /\ UNCHANGED <<usedNullifiers, verifiedCount, acceptedNullifiers, verifications>>

AddCommitment(c) == Edits(validCommitments \cup {c}, zkRoot)
RevokeCommitment(c) == c \in validCommitments /\ Edits(validCommitments \ {c}, zkRoot)
UpdateRoot(r) == r # zkRoot /\ Edits(validCommitments, r)

\* A call begins. History: what was accepted before it, and the commitments
\* and roots that were valid at some moment of it.
BeginVerify(v, p) ==
  /\ verifying[v].step = "none" /\ verifications < MaxVerifications
  /\ verifications' = verifications + 1
  /\ verifying' = [verifying EXCEPT ![v] =
       [step |-> "root", proof |-> p, before |-> acceptedNullifiers,
        valid |-> validCommitments, roots |-> {zkRoot}]]
  /\ UNCHANGED <<zkStore, verifiedCount, acceptedNullifiers, commitmentEdits>>

GoesOn(v, ok, step) ==
  /\ verifying' = [verifying EXCEPT ![v].step = IF ok THEN step ELSE "Err"]
  /\ UNCHANGED <<zkStore, verifiedCount, acceptedNullifiers, verifications, commitmentEdits>>

\* Mutant of CheckRoot: the root is not compared.
CheckRootNot(v) == verifying[v].step = "root" /\ GoesOn(v, TRUE, "commitment")

CheckRoot(v) ==
  verifying[v].step = "root" /\ GoesOn(v, verifying[v].proof.root = zkRoot, "commitment")

CheckCommitment(v) ==
  /\ verifying[v].step = "commitment"
  /\ GoesOn(v, verifying[v].proof.commitment \in validCommitments, "nullifier")

\* The nullifier under its own lock, then the response, which needs none.
CheckNullifier(v) ==
  LET p == verifying[v].proof
  IN /\ verifying[v].step = "nullifier"
     /\ GoesOn(v, p.nullifier \notin usedNullifiers
                    /\ p.response = ZkResponse(p.commitment, p.nullifier, p.root), "mark")

\* Mutant of SpendKey: what is spent is the commitment.
SpendKeyCommitment(p) == p.commitment

SpendKey(p) == p.nullifier

MarkUsed(v) ==
  /\ verifying[v].step = "mark"
  /\ usedNullifiers' = usedNullifiers \cup {SpendKey(verifying[v].proof)}
  /\ verifiedCount' = verifiedCount + 1
  /\ verifying' = [verifying EXCEPT ![v].step = "Ok"]
  /\ acceptedNullifiers' = acceptedNullifiers \cup {verifying[v].proof.nullifier}
  /\ UNCHANGED <<validCommitments, zkRoot, verifications, commitmentEdits>>

\* The result is handed to the caller.
ReturnVerify(v) ==
  /\ verifying[v].step \in {"Ok", "Err"}
  /\ verifying' = [verifying EXCEPT ![v] = NotVerifying]
  /\ UNCHANGED <<zkStore, verifiedCount, acceptedNullifiers, verifications, commitmentEdits>>

\* ZkAuthEngine.verify_groth16 is the verifier's own call.
VerifyGroth16(v) == \E p \in OfferedProofs : BeginVerify(v, p)

ZkNext ==
  \/ \E v \in Verifiers :
       \/ VerifyGroth16(v) \/ CheckRoot(v) \/ CheckCommitment(v) \/ CheckNullifier(v)
       \/ MarkUsed(v) \/ ReturnVerify(v)
  \/ \E c \in ZkCommitments : AddCommitment(c) \/ RevokeCommitment(c)
  \/ \E r \in Roots : UpdateRoot(r)

ZkSpec == ZkInit /\ [][ZkNext]_zkVars

ZkTypeOK ==
  /\ validCommitments \subseteq ZkCommitments /\ zkRoot \in Roots
  /\ verifiedCount \in 0..verifications /\ commitmentEdits \in 0..MaxCommitmentEdits
  /\ \A v \in Verifiers :
       verifying[v].step \in {"none", "root", "commitment", "nullifier", "mark", "Ok", "Err"}

-----------------------------------------------------------------------------
AcceptedCalls == {v \in Verifiers : verifying[v].step = "Ok"}

\* A token accepted once stays spent: no call that begins after a proof of the
\* token was accepted is accepted, whichever blinding or root its proof uses
\* (verify_proof's third check and the insertion at its end).
SpentStaysSpent ==
  \A v \in AcceptedCalls : verifying[v].proof.nullifier \notin verifying[v].before

\* An accepted proof was good while it was checked: its commitment was valid and
\* its root current at some moment of the call, and its response is for exactly
\* that commitment, nullifier and root, whatever was revoked or rolled meanwhile.
AcceptedWasGood ==
  \A v \in AcceptedCalls :
    LET p == verifying[v].proof
    IN /\ p.commitment \in verifying[v].valid /\ p.root \in verifying[v].roots
       /\ \E t \in Tokens, b \in Blindings : p = CreateProof(t, b, p.root)

\* What verify_proof keeps, however calls, edits and revocations interleave
\* between its locks: acceptance is earned, and a nullifier is spent for every
\* call that begins after one that accepted it has returned.  Calls that overlap
\* may both accept it, see NullifierOnce.
VerifierDiscipline == SpentStaysSpent /\ AcceptedWasGood

\* "Nullifier not used before (prevent double use of same token proof)": the
\* verifier accepts as many calls as there are nullifiers it has spent.
NullifierOnce == verifiedCount = Cardinality(usedNullifiers)
=============================================================================

---------------------------- MODULE ServiceProofs ----------------------------
(***************************************************************************)
(* Proofs about the services that keep something on behalf of their        *)
(* callers: the verifier of subscription proofs, the panic wipe, the       *)
(* session manager of the control plane and the model registry.            *)
(***************************************************************************)
EXTENDS SessionManager, ModelRegistry, ZkpVerifier, PanicWipe, TLAPS

USE ZenonT(40)

(***************************************************************************)
(* The verifier of subscription proofs                                     *)
(***************************************************************************)

VerifySteps == {"root", "commitment", "nullifier", "mark", "Ok", "Err"}
InProgress == {"root", "commitment", "nullifier", "mark"}

Verifications ==
  [step : VerifySteps, proof : OfferedProofs, before : SUBSET {Nullifier(t) : t \in Tokens},
   valid : SUBSET ZkCommitments, roots : SUBSET Roots]

\* The response of p is for p's own commitment, nullifier and root.
Answers(p) == p.response = ZkResponse(p.commitment, p.nullifier, p.root)

\* What a verification has established at each of its checks.
Established(w) ==
  /\ w.before \subseteq usedNullifiers
  /\ w.step \in InProgress => validCommitments \subseteq w.valid /\ zkRoot \in w.roots
  /\ w.step \in {"commitment", "nullifier", "mark", "Ok"} => w.proof.root \in w.roots
  /\ w.step \in {"nullifier", "mark", "Ok"} => w.proof.commitment \in w.valid
  /\ w.step \in {"mark", "Ok"} => w.proof.nullifier \notin w.before /\ Answers(w.proof)

ZkInv ==
  /\ validCommitments \subseteq ZkCommitments /\ zkRoot \in Roots
  /\ acceptedNullifiers \subseteq usedNullifiers
  /\ acceptedNullifiers \subseteq {Nullifier(t) : t \in Tokens}
  /\ DOMAIN verifying = Verifiers
  /\ \A v \in Verifiers :
       \/ verifying[v] = NotVerifying
       \/ verifying[v] \in Verifications /\ Established(verifying[v])

\* Every offered proof is one that a client made, perhaps under another root.
LEMMA OfferedShape ==
  ASSUME NEW p \in OfferedProofs
  PROVE  \E t \in Tokens, b \in Blindings, r, q \in Roots : p = [CreateProof(t, b, r) EXCEPT !.root = q]
<1> DEFINE made == {CreateProof(t, b, r) : t \in Tokens, b \in Blindings, r \in Roots}
<1>1. ASSUME NEW m \in made PROVE \E t \in Tokens, b \in Blindings, r \in Roots : m = CreateProof(t, b, r)
  BY <1>1, SMTT(40)
<1>2. \A t, b, r : CreateProof(t, b, r) = [CreateProof(t, b, r) EXCEPT !.root = r]
  BY SMTT(40) DEF CreateProof
<1>3. CASE p \in made
  <2>1. PICK t \in Tokens, b \in Blindings, r \in Roots : p = CreateProof(t, b, r)
    BY <1>1, <1>3, SMTT(40)
  <2> QED
    BY <1>2, <2>1, SMTT(40)
<1>4. CASE p \in {[m EXCEPT !.root = q] : m \in made, q \in Roots}
  <2>1. PICK m \in made, q \in Roots : p = [m EXCEPT !.root = q]
    BY <1>4, SMTT(40)
  <2> QED
    BY <1>1, <2>1, SMTT(40)
<1> QED
  BY <1>3, <1>4, SMTT(40) DEF OfferedProofs

\* The response binds the root: a proof that answers is one made for its root.
LEMMA AnsweringIsMade ==
  ASSUME NEW p \in OfferedProofs, Answers(p)
  PROVE  \E t \in Tokens, b \in Blindings : p = CreateProof(t, b, p.root)
<1>1. PICK t \in Tokens, b \in Blindings, r \in Roots, q \in Roots : p = [CreateProof(t, b, r) EXCEPT !.root = q]
  BY OfferedShape
<1> DEFINE c == FromToken(t, b)
           n == Nullifier(t)
<1> HIDE DEF c, n
<1>2. p = [commitment |-> c, nullifier |-> n, root |-> q, response |-> ZkResponse(c, n, r)]
  BY <1>1 DEF CreateProof, c, n
<1>3. ZkResponse(c, n, r) = ZkResponse(c, n, q)
  BY <1>2 DEF Answers
<1>4. r = q
  BY <1>3 DEF ZkResponse
<1> QED
  BY <1>2, <1>4 DEF CreateProof, c, n

LEMMA OfferedFields ==
  ASSUME NEW p \in OfferedProofs
  PROVE  p.nullifier \in {Nullifier(t) : t \in Tokens}
<1>1. PICK t \in Tokens, b \in Blindings, r \in Roots, q \in Roots : p = [CreateProof(t, b, r) EXCEPT !.root = q]
  BY OfferedShape
<1> QED
  BY <1>1 DEF CreateProof

\* A check that only moves the verification v to another step.
LEMMA ZkGoesOn ==
  ASSUME ZkInv, NEW v \in Verifiers, verifying[v] \in Verifications, NEW step \in VerifySteps,
         verifying' = [verifying EXCEPT ![v].step = step],
         UNCHANGED <<zkStore, acceptedNullifiers>>,
         Established([verifying[v] EXCEPT !.step = step])
  PROVE  ZkInv'
<1>1. /\ DOMAIN verifying' = Verifiers /\ \A u \in Verifiers \ {v} : verifying'[u] = verifying[u]
      /\ verifying'[v] = [verifying[v] EXCEPT !.step = step]
  BY DEF ZkInv
<1>2. verifying'[v] \in Verifications
  BY <1>1 DEF Verifications
<1> QED
  BY <1>1, <1>2, SMTT(40) DEF ZkInv, zkStore, Established

\* The three checks of verify_proof, each under its own lock.
LEMMA ZkChecks ==
  ASSUME ZkInv, NEW v \in Verifiers, CheckRoot(v) \/ CheckCommitment(v) \/ CheckNullifier(v)
  PROVE  ZkInv'
<1> DEFINE w == verifying[v]
<1>1. w.step \in {"root", "commitment", "nullifier"}
  BY DEF CheckRoot, CheckCommitment, CheckNullifier
<1>2. w \in Verifications /\ Established(w)
  BY <1>1, SMTT(40) DEF ZkInv, NotVerifying
<1>3. ASSUME NEW step \in VerifySteps
      PROVE  /\ [w EXCEPT !.step = step].step = step /\ [w EXCEPT !.step = step].proof = w.proof
             /\ [w EXCEPT !.step = step].before = w.before /\ [w EXCEPT !.step = step].valid = w.valid
             /\ [w EXCEPT !.step = step].roots = w.roots
  BY <1>2 DEF Verifications
<1>4. ASSUME NEW step \in VerifySteps, NEW ok \in BOOLEAN, GoesOn(v, ok, step),
             ok => Established([w EXCEPT !.step = step])
      PROVE  ZkInv'
  <2>1. CASE ok
    BY <1>2, <1>4, <2>1, ZkGoesOn DEF GoesOn
  <2>2. CASE ~ok
    <3>1. Established([w EXCEPT !.step = "Err"])
      BY <1>2, <1>3 DEF Established, InProgress, VerifySteps
    <3> QED
      BY <1>2, <1>4, <2>2, <3>1, ZkGoesOn DEF GoesOn, VerifySteps
  <2> QED
    BY <2>1, <2>2
<1>5. CASE CheckRoot(v)
  <2>1. w.step = "root" /\ GoesOn(v, w.proof.root = zkRoot, "commitment")
    BY <1>5 DEF CheckRoot
  <2>2. w.proof.root = zkRoot => Established([w EXCEPT !.step = "commitment"])
    BY <1>2, <1>3, <2>1, SMTT(40) DEF Established, InProgress, VerifySteps
  <2> QED
    BY <1>4, <2>1, <2>2 DEF VerifySteps
<1>6. CASE CheckCommitment(v)
  <2>1. w.step = "commitment" /\ GoesOn(v, w.proof.commitment \in validCommitments, "nullifier")
    BY <1>6 DEF CheckCommitment
  <2>2. w.proof.commitment \in validCommitments => Established([w EXCEPT !.step = "nullifier"])
    BY <1>2, <1>3, <2>1 DEF Established, InProgress, VerifySteps
  <2>3. "nullifier" \in VerifySteps /\ (w.proof.commitment \in validCommitments) \in BOOLEAN
    BY SMTT(40) DEF VerifySteps
  <2> QED
    BY <1>4, <2>1, <2>2, <2>3
<1>7. CASE CheckNullifier(v)
  <2>1. w.step = "nullifier" /\ GoesOn(v, w.proof.nullifier \notin usedNullifiers /\ Answers(w.proof), "mark")
    BY <1>7 DEF CheckNullifier, Answers
  <2>2. w.proof.nullifier \notin usedNullifiers /\ Answers(w.proof) => Established([w EXCEPT !.step = "mark"])
    BY <1>2, <1>3, <2>1 DEF Established, InProgress, VerifySteps
  <2> QED
    BY <1>4, <2>1, <2>2 DEF VerifySteps, Answers
<1> QED
  BY <1>5, <1>6, <1>7

\* The nullifier is spent and the proof accepted under one lock.
LEMMA ZkMarks ==
  ASSUME ZkInv, NEW v \in Verifiers, MarkUsed(v)
  PROVE  ZkInv'
<1> DEFINE w == verifying[v]
<1>1. /\ w.step = "mark" /\ UNCHANGED <<validCommitments, zkRoot>>
      /\ usedNullifiers' = usedNullifiers \cup {w.proof.nullifier}
      /\ acceptedNullifiers' = acceptedNullifiers \cup {w.proof.nullifier}
      /\ verifying' = [verifying EXCEPT ![v].step = "Ok"]
  BY DEF MarkUsed, SpendKey
<1>2. w \in Verifications /\ Established(w)
  BY <1>1, SMTT(40) DEF ZkInv, NotVerifying
<1>3. /\ DOMAIN verifying' = Verifiers /\ \A u \in Verifiers \ {v} : verifying'[u] = verifying[u]
      /\ verifying'[v] = [w EXCEPT !.step = "Ok"]
  BY <1>1 DEF ZkInv
<1>4. verifying'[v] \in Verifications /\ verifying'[v].step = "Ok" /\ verifying'[v].proof = w.proof
      /\ verifying'[v].before = w.before /\ verifying'[v].valid = w.valid /\ verifying'[v].roots = w.roots
  BY <1>2, <1>3 DEF Verifications, VerifySteps
<1>5. w.proof.nullifier \in {Nullifier(t) : t \in Tokens}
  BY <1>2, OfferedFields DEF Verifications
<1>6. Established(verifying[v])'
  BY <1>1, <1>2, <1>4 DEF Established, InProgress
<1>7. \A u \in Verifiers \ {v} : Established(verifying[u]) => Established(verifying[u])'
  BY <1>1, <1>3, SMTT(40) DEF Established
<1> QED
  BY <1>1, <1>3, <1>4, <1>5, <1>6, <1>7 DEF ZkInv

\* Commitments and roots may change between the checks of a call.
LEMMA ZkEdits ==
  ASSUME ZkInv, NEW valid \in SUBSET ZkCommitments, NEW root \in Roots, Edits(valid, root)
  PROVE  ZkInv'
<1>1. /\ validCommitments' = valid /\ zkRoot' = root
      /\ UNCHANGED <<usedNullifiers, acceptedNullifiers>>
      /\ verifying' = [v \in Verifiers |->
           IF verifying[v].step \in {"none", "Ok", "Err"} THEN verifying[v]
           ELSE [verifying[v] EXCEPT !.valid = @ \cup valid, !.roots = @ \cup {root}]]
  BY DEF Edits
<1>2. ASSUME NEW v \in Verifiers
      PROVE  \/ verifying'[v] = NotVerifying
             \/ verifying'[v] \in Verifications /\ Established(verifying[v])'
  <2>1. CASE verifying[v] = NotVerifying
    BY <1>1, <2>1 DEF NotVerifying
  <2>2. CASE verifying[v] \in Verifications /\ Established(verifying[v]) /\ verifying[v].step \in {"Ok", "Err"}
    BY <1>1, <2>2 DEF Established, InProgress
  <2>3. CASE verifying[v] \in Verifications /\ Established(verifying[v]) /\ verifying[v].step \notin {"Ok", "Err"}
    <3>1. verifying[v].step \in InProgress
      BY <2>3 DEF Verifications, VerifySteps, InProgress
    <3>2. verifying'[v] = [verifying[v] EXCEPT !.valid = @ \cup valid, !.roots = @ \cup {root}]
      BY <1>1, <3>1 DEF InProgress
    <3>3. /\ verifying'[v] \in Verifications /\ verifying'[v].step = verifying[v].step
          /\ verifying'[v].proof = verifying[v].proof /\ verifying'[v].before = verifying[v].before
          /\ verifying'[v].valid = verifying[v].valid \cup valid
          /\ verifying'[v].roots = verifying[v].roots \cup {root}
      BY <2>3, <3>2 DEF Verifications
    <3>4. Established(verifying[v])'
      BY <1>1, <2>3, <3>3 DEF Established
    <3> QED
      BY <3>3, <3>4
  <2> QED
    BY <2>1, <2>2, <2>3 DEF ZkInv
<1> QED
  BY <1>1, <1>2 DEF ZkInv

\* A call begins with what was accepted before it, and ends.
LEMMA ZkCalls ==
  ASSUME ZkInv, NEW v \in Verifiers, VerifyGroth16(v) \/ ReturnVerify(v)
  PROVE  ZkInv'
<1>1. CASE VerifyGroth16(v)
  <2>1. PICK p \in OfferedProofs : BeginVerify(v, p)
    BY <1>1 DEF VerifyGroth16
  <2> DEFINE w == [step |-> "root", proof |-> p, before |-> acceptedNullifiers,
                   valid |-> validCommitments, roots |-> {zkRoot}]
  <2>2. w \in Verifications
    BY <2>1 DEF ZkInv, Verifications, VerifySteps
  <2>3. Established(w)
    BY DEF ZkInv, Established, InProgress
  <2> HIDE DEF w
  <2>4. verifying' = [verifying EXCEPT ![v] = w] /\ UNCHANGED <<zkStore, acceptedNullifiers>>
    BY <2>1 DEF BeginVerify, w
  <2>5. /\ DOMAIN verifying' = Verifiers /\ \A u \in Verifiers \ {v} : verifying'[u] = verifying[u]
        /\ verifying'[v] = w
    BY <2>4 DEF ZkInv
  <2> QED
    BY <2>2, <2>3, <2>4, <2>5, SMTT(40) DEF ZkInv, zkStore, Established
<1>2. CASE ReturnVerify(v)
  <2>1. verifying' = [verifying EXCEPT ![v] = NotVerifying] /\ UNCHANGED <<zkStore, acceptedNullifiers>>
    BY <1>2 DEF ReturnVerify
  <2>2. /\ DOMAIN verifying' = Verifiers /\ \A u \in Verifiers \ {v} : verifying'[u] = verifying[u]
        /\ verifying'[v] = NotVerifying
    BY <2>1 DEF ZkInv
  <2> QED
    BY <2>1, <2>2 DEF ZkInv, zkStore, Established
<1> QED
  BY <1>1, <1>2

\* Every step of the verifier keeps what the calls have established.
LEMMA ZkKeeps == ZkInv /\ [ZkNext]_zkVars => ZkInv'
<1> SUFFICES ASSUME ZkInv, [ZkNext]_zkVars PROVE ZkInv'
  OBVIOUS
<1>1. CASE UNCHANGED zkVars
  BY <1>1 DEF ZkInv, zkVars, Established
<1>2. ASSUME NEW c \in ZkCommitments, AddCommitment(c) \/ RevokeCommitment(c) PROVE ZkInv'
  <2>1. zkRoot \in Roots /\ validCommitments \cup {c} \in SUBSET ZkCommitments
        /\ validCommitments \ {c} \in SUBSET ZkCommitments
    BY DEF ZkInv
  <2> QED
    BY <1>2, <2>1, ZkEdits DEF AddCommitment, RevokeCommitment
<1>3. ASSUME NEW r \in Roots, UpdateRoot(r) PROVE ZkInv'
  <2>1. validCommitments \in SUBSET ZkCommitments
    BY DEF ZkInv
  <2> QED
    BY <1>3, <2>1, ZkEdits DEF UpdateRoot
<1> QED
  BY <1>1, <1>2, <1>3, ZkChecks, ZkMarks, ZkCalls DEF ZkNext

\* For any tokens, blindings, roots and concurrent calls: whatever is added,
\* revoked or rolled between its locks, verify_proof accepts no proof of a token
\* that was accepted before the call began, and none whose commitment, root and
\* response were not good during the call.
THEOREM ProofsStaySpent == ZkSpec => []VerifierDiscipline
<1>1. ZkInit => ZkInv
  BY DEF ZkInit, ZkInv
<1>2. ZkInv => VerifierDiscipline
  <2> SUFFICES ASSUME ZkInv, NEW v \in AcceptedCalls
               PROVE  LET p == verifying[v].proof
                      IN /\ p.nullifier \notin verifying[v].before
                         /\ p.commitment \in verifying[v].valid /\ p.root \in verifying[v].roots
                         /\ \E t \in Tokens, b \in Blindings : p = CreateProof(t, b, p.root)
    BY DEF VerifierDiscipline, SpentStaysSpent, AcceptedWasGood
  <2>1. v \in Verifiers /\ verifying[v].step = "Ok"
    BY DEF AcceptedCalls
  <2>2. verifying[v] \in Verifications /\ Established(verifying[v])
    BY <2>1, SMTT(40) DEF ZkInv, NotVerifying
  <2>3. verifying[v].proof \in OfferedProofs /\ Answers(verifying[v].proof)
    BY <2>1, <2>2 DEF Verifications, Established
  <2> QED
    BY <2>1, <2>2, <2>3, AnsweringIsMade DEF Established
<1> QED
  BY <1>1, <1>2, ZkKeeps, PTL DEF ZkSpec

(***************************************************************************)
(* The panic wipe                                                          *)
(***************************************************************************)

Counts == {Cardinality(S) : S \in SUBSET Items}

Wipers == [pc : {"idle", "checked", "entered", "wiping", "ok", "AlreadyTriggered", "InvalidPin"},
           next : Nat, found : SUBSET Items, results : Seq(Counts)]

WipeTyped ==
  /\ stores \in [WipeTargets -> SUBSET Items] /\ stored \in SUBSET Items
  /\ targets \in Seq(WipeTargets)
  /\ wiper \in [Callers -> Wipers]

\* An item is in one place, and only if it was stored.
StoredOnce ==
  /\ \A t \in WipeTargets : stores[t] \subseteq stored
  /\ \A t, u \in WipeTargets : t # u => stores[t] \cap stores[u] = {}
  /\ \A c \in Callers : wiper[c].found \subseteq stored

\* What a wiper found is still held only where the wiper has yet to come.
FoundAhead(c) ==
  /\ wiper[c].pc = "wiping" =>
       wiper[c].next >= 1 /\ \A t \in WipeTargets : stores[t] \cap wiper[c].found # {} =>
         \E i \in DOMAIN targets : i >= wiper[c].next /\ targets[i] = t
  /\ wiper[c].pc = "ok" => \A t \in WipeTargets : stores[t] \cap wiper[c].found = {}

WipeInv == WipeTyped /\ StoredOnce /\ \A c \in Callers : FoundAhead(c)

\* A new item was found by nobody.
LEMMA StoreStep ==
  ASSUME WipeInv, NEW t \in WipeTargets, NEW x \in Items, StoreItem(t, x)
  PROVE  WipeInv'
<1>1. /\ x \notin stored /\ stored' = stored \cup {x} /\ stores' = [stores EXCEPT ![t] = @ \cup {x}]
      /\ UNCHANGED <<targets, wiper>>
  BY DEF StoreItem
<1>2. WipeTyped'
  BY <1>1 DEF WipeInv, WipeTyped
<1>3. \A u \in WipeTargets : stores'[u] = IF u = t THEN stores[u] \cup {x} ELSE stores[u]
  BY <1>1 DEF WipeInv, WipeTyped
<1>4. \A u \in WipeTargets : x \notin stores[u]
  BY <1>1 DEF WipeInv, StoredOnce
<1>5. StoredOnce'
  BY <1>1, <1>3, <1>4, SMTT(40) DEF WipeInv, StoredOnce
<1>6. ASSUME NEW c \in Callers PROVE FoundAhead(c)'
  <2>1. \A u \in WipeTargets : stores'[u] \cap wiper[c].found = stores[u] \cap wiper[c].found
    BY <1>1, <1>3, SMTT(40) DEF WipeInv, StoredOnce
  <2> QED
    BY <1>1, <2>1, SMTT(40) DEF WipeInv, FoundAhead
<1> QED
  BY <1>2, <1>5, <1>6 DEF WipeInv

\* No target is registered while a wiper goes through them.
LEMMA RegisterStep ==
  ASSUME WipeInv, NEW t \in WipeTargets, RegisterTarget(t)
  PROVE  WipeInv'
<1>1. targets' = Append(targets, t) /\ UNCHANGED <<stores, stored, wiper>>
      /\ \A c \in Callers : wiper[c].pc # "wiping"
  BY DEF RegisterTarget
<1>2. WipeTyped'
  BY <1>1, SMTT(40) DEF WipeInv, WipeTyped
<1>3. StoredOnce'
  BY <1>1 DEF WipeInv, StoredOnce
<1>4. \A c \in Callers : FoundAhead(c)'
  BY <1>1 DEF WipeInv, FoundAhead
<1> QED
  BY <1>2, <1>3, <1>4 DEF WipeInv

\* The caller c goes on, and the targets keep what they hold.
LEMMA WiperStep ==
  ASSUME WipeInv, NEW c \in Callers, UNCHANGED <<stores, stored, targets>>,
         NEW w, wiper' = [wiper EXCEPT ![c] = w],
         w \in Wipers,
         w.found \subseteq stored, FoundAhead(c)'
  PROVE  WipeInv'
<1>1. wiper'[c] = w /\ \A d \in Callers \ {c} : wiper'[d] = wiper[d]
  BY DEF WipeInv, WipeTyped
<1>2. WipeTyped'
  BY DEF WipeInv, WipeTyped
<1>3. StoredOnce'
  BY <1>1 DEF WipeInv, StoredOnce
<1>4. \A d \in Callers \ {c} : FoundAhead(d)'
  BY <1>1, SMTT(40) DEF WipeInv, FoundAhead
<1> QED
  BY <1>2, <1>3, <1>4 DEF WipeInv

\* The PIN and the flag: a caller that is not yet at the targets.
LEMMA TriggerSteps ==
  ASSUME WipeInv, NEW c \in Callers, SetTriggered(c) \/ \E p \in BOOLEAN : CheckTrigger(c, p)
  PROVE  WipeInv'
<1>1. PICK v \in {"checked", "entered", "AlreadyTriggered", "InvalidPin"} :
        wiper' = [wiper EXCEPT ![c].pc = v]
  BY DEF SetTriggered, CheckTrigger
<1>2. UNCHANGED <<stores, stored, targets>>
  BY DEF SetTriggered, CheckTrigger
<1> DEFINE w == [wiper[c] EXCEPT !.pc = v]
<1>3. wiper' = [wiper EXCEPT ![c] = w]
  BY <1>1
<1>4. /\ w \in Wipers
      /\ w.found = wiper[c].found /\ w.pc = v
  BY DEF WipeInv, WipeTyped, Wipers
<1> HIDE DEF w
<1>5. wiper'[c] = w
  BY <1>3 DEF WipeInv, WipeTyped
<1>6. FoundAhead(c)'
  BY <1>4, <1>5 DEF FoundAhead
<1>7. w.found \subseteq stored
  BY <1>4 DEF WipeInv, StoredOnce
<1> QED
  BY <1>2, <1>3, <1>4, <1>6, <1>7, WiperStep

\* The read lock: everything found is in a registered target, all still ahead.
LEMMA LockTargetsStep ==
  ASSUME WipeInv, NEW c \in Callers, LockTargets(c)
  PROVE  WipeInv'
<1> DEFINE held == UNION {stores[targets[i]] : i \in DOMAIN targets}
           w == [wiper[c] EXCEPT !.pc = "wiping", !.next = 1, !.found = held]
<1>1. UNCHANGED <<stores, stored, targets>>
      /\ wiper' = [wiper EXCEPT ![c].pc = "wiping", ![c].next = 1, ![c].found = held]
  BY DEF LockTargets
<1>2. wiper' = [wiper EXCEPT ![c] = w]
  BY <1>1
<1>3. \A i \in DOMAIN targets : targets[i] \in WipeTargets /\ i >= 1
  BY SMTT(40) DEF WipeInv, WipeTyped
<1>4. held \in SUBSET Items /\ held \subseteq stored
  BY <1>3 DEF WipeInv, WipeTyped, StoredOnce
<1>5. \A t \in WipeTargets : stores[t] \cap held # {} => \E i \in DOMAIN targets : targets[i] = t
  BY <1>3 DEF WipeInv, StoredOnce
<1> HIDE DEF held
<1>6. /\ w \in Wipers
      /\ w.found = held /\ w.pc = "wiping" /\ w.next = 1
  BY <1>4 DEF WipeInv, WipeTyped, Wipers
<1> HIDE DEF w
<1>7. wiper'[c] = w
  BY <1>2 DEF WipeInv, WipeTyped
<1>8. \A t \in WipeTargets : stores'[t] \cap wiper'[c].found # {} =>
        \E i \in DOMAIN targets' : i >= wiper'[c].next /\ targets'[i] = t
  <2>1. stores' = stores /\ targets' = targets /\ wiper'[c].found = held /\ wiper'[c].next = 1
    BY <1>1, <1>6, <1>7
  <2> QED
    BY <1>3, <1>5, <2>1
<1>9. FoundAhead(c)'
  BY <1>6, <1>7, <1>8, SMTT(40) DEF FoundAhead
<1> QED
  BY <1>1, <1>2, <1>4, <1>6, <1>9, WiperStep

\* One target is emptied: for its wiper it is behind now, for the others empty.
LEMMA WipeOneStep ==
  ASSUME WipeInv, NEW c \in Callers, WipeOne(c)
  PROVE  WipeInv'
<1> DEFINE t == targets[wiper[c].next]
           n == ItemsDestroyed(t)
           w == [wiper[c] EXCEPT !.next = @ + 1, !.results = Append(@, n)]
<1>1. /\ wiper[c].pc = "wiping" /\ ~AllWiped(c) /\ stores' = [stores EXCEPT ![t] = {}]
      /\ wiper' = [wiper EXCEPT ![c].next = @ + 1, ![c].results = Append(@, n)]
      /\ UNCHANGED <<stored, targets>>
  BY DEF WipeOne
<1>2. wiper' = [wiper EXCEPT ![c] = w]
  BY <1>1
<1>3. /\ wiper[c] \in Wipers /\ wiper[c].next \in DOMAIN targets /\ wiper[c].next \in Nat
      /\ \A i \in DOMAIN targets : i \in Nat
  BY <1>1, SMTT(40) DEF WipeInv, WipeTyped, FoundAhead, AllWiped, Wipers
<1>4. t \in WipeTargets
  BY <1>3, SMTT(40) DEF WipeInv, WipeTyped
<1>5. n \in Counts
  BY <1>4 DEF WipeInv, WipeTyped, ItemsDestroyed, Counts
<1> HIDE DEF n
<1>6. /\ w \in Wipers /\ w.next = wiper[c].next + 1
      /\ w.pc = wiper[c].pc /\ w.found = wiper[c].found
  <2>1. Append(wiper[c].results, n) \in Seq(Counts) /\ wiper[c].next + 1 \in Nat
    BY <1>3, <1>5, SMTT(40) DEF Wipers
  <2> QED
    BY <1>3, <2>1 DEF Wipers
<1> HIDE DEF w
<1>7. wiper' \in [Callers -> Wipers] /\ wiper'[c] = w /\ \A d \in Callers \ {c} : wiper'[d] = wiper[d]
  BY <1>2, <1>6 DEF WipeInv, WipeTyped
<1>8. /\ stores' \in [WipeTargets -> SUBSET Items]
      /\ \A u \in WipeTargets : stores'[u] = IF u = t THEN {} ELSE stores[u]
  BY <1>1 DEF WipeInv, WipeTyped
<1>9. StoredOnce'
  BY <1>1, <1>6, <1>7, <1>8, SMTT(40) DEF WipeInv, StoredOnce
<1>10. ASSUME NEW d \in Callers \ {c} PROVE FoundAhead(d)'
  BY <1>1, <1>7, <1>8, SMTT(40) DEF WipeInv, FoundAhead
<1>11. FoundAhead(c)'
  <2>1. ASSUME NEW u \in WipeTargets, stores'[u] \cap wiper[c].found # {}
        PROVE  \E i \in DOMAIN targets : i >= w.next /\ targets[i] = u
    <3>1. u # t /\ stores[u] \cap wiper[c].found # {}
      BY <1>8, <2>1
    <3>2. PICK i \in DOMAIN targets : i >= wiper[c].next /\ targets[i] = u
      BY <1>1, <3>1 DEF WipeInv, FoundAhead
    <3> QED
      BY <1>3, <1>6, <3>1, <3>2, SMTT(40)
  <2>2. w.next >= 1 /\ w.pc = "wiping"
    BY <1>1, <1>3, <1>6, SMTT(40)
  <2> QED
    BY <1>1, <1>6, <1>7, <2>1, <2>2 DEF FoundAhead
<1> QED
  BY <1>1, <1>7, <1>8, <1>9, <1>10, <1>11 DEF WipeInv, WipeTyped

\* The loop has ended: no target is ahead.
LEMMA FinishStep ==
  ASSUME WipeInv, NEW c \in Callers, FinishWipe(c)
  PROVE  WipeInv'
<1> DEFINE w == [wiper[c] EXCEPT !.pc = "ok"]
<1>1. /\ wiper[c].pc = "wiping" /\ AllWiped(c) /\ wiper' = [wiper EXCEPT ![c].pc = "ok"]
      /\ UNCHANGED <<stores, stored, targets>>
  BY DEF FinishWipe
<1>2. wiper' = [wiper EXCEPT ![c] = w]
  BY <1>1
<1>3. w \in Wipers /\ w.pc = "ok" /\ w.found = wiper[c].found
  BY DEF WipeInv, WipeTyped, Wipers
<1> HIDE DEF w
<1>4. wiper'[c] = w
  BY <1>2 DEF WipeInv, WipeTyped
<1>5. \A i \in DOMAIN targets : ~(i >= wiper[c].next)
  BY <1>1, SMTT(40) DEF AllWiped, WipeInv, WipeTyped, Wipers
<1>6. \A t \in WipeTargets : stores[t] \cap wiper[c].found = {}
  BY <1>1, <1>5 DEF WipeInv, FoundAhead
<1>7. FoundAhead(c)'
  BY <1>1, <1>3, <1>4, <1>6 DEF FoundAhead
<1>8. w.found \subseteq stored
  BY <1>3 DEF WipeInv, StoredOnce
<1> QED
  BY <1>1, <1>2, <1>3, <1>7, <1>8, WiperStep

\* For any callers, targets and items: once trigger has returned its report,
\* nothing that the registered targets held when it took their lock is stored
\* anywhere, whoever stores, registers or wipes at the same time (trigger).
THEOREM WipesAreComplete == WipeSpec => []WipedIsGone
<1>1. WipeInit => WipeInv
  BY SMTT(40) DEF WipeInit, WipeInv, WipeTyped, Wipers, IdleWiper, StoredOnce, FoundAhead
<1>2. WipeInv /\ [WipeNext]_wipeVars => WipeInv'
  <2> SUFFICES ASSUME WipeInv, [WipeNext]_wipeVars PROVE WipeInv'
    OBVIOUS
  <2>1. CASE UNCHANGED wipeVars
    BY <2>1 DEF wipeVars, WipeInv, WipeTyped, StoredOnce, FoundAhead
  <2> QED
    BY <2>1, StoreStep, RegisterStep, TriggerSteps, LockTargetsStep, WipeOneStep, FinishStep
       DEF WipeNext
<1>3. WipeInv => WipedIsGone
  BY DEF WipeInv, FoundAhead, WipedIsGone
<1> QED
  BY <1>1, <1>2, <1>3, PTL DEF WipeSpec

(***************************************************************************)
(* The session manager                                                     *)
(***************************************************************************)

RowOrNone == Row \cup {NoRow}
SessionOps == {"none", "get", "create", "heartbeat", "migrate", "close"}
SessionPcs == {"idle", "lock", "lookup", "read", "fill", "have", "save", "cache", "enlist",
               "uncache", "delist", "delete"}

SessionCalls == [op : SessionOps, pc : SessionPcs, id : SessionIds, node : SessionNodes \cup {""},
                 bytes : 0..MaxSessionBytes, s : RowOrNone, todo : SUBSET (SessionIds \X SessionNodes)]

\* A call in progress and what it carries at each point.
CallTyped(c) ==
  /\ c \in SessionCalls
  /\ c.todo # {} => c.op = "migrate"
  /\ c.op = "get" => c.pc \in {"lookup", "read", "fill"}
  /\ c.op \in {"create", "migrate"} => c.node \in SessionNodes
  /\ c.pc \in {"fill", "have", "cache", "uncache", "delist", "delete"} => c.s \in Row
  /\ c.pc = "save" => c.op \in {"create", "migrate"} /\ (c.op = "migrate" => c.s \in Row)

Resting(c) == c = NoSessionCall

SessionTyped ==
  /\ rows \in [SessionIds -> RowOrNone] /\ cached \in [SessionIds -> RowOrNone]
  /\ DOMAIN calls = SessionCallers
  /\ \A t \in SessionCallers : Resting(calls[t]) \/ (CallTyped(calls[t]) /\ calls[t].pc # "idle")
  /\ stripes \in [SessionIds -> SUBSET SessionCallers]

\* The call c is between Lock and Unlock.
Inside(c) == c.op # "get" /\ c.pc \notin {"idle", "lock"}

\* A session's mutex is held by the call that is inside, and by no other.
MutexHeld ==
  /\ \A id \in SessionIds : \A t \in stripes[id] :
        t \in SessionCallers /\ Inside(calls[t]) /\ calls[t].id = id
  /\ \A t \in SessionCallers : Inside(calls[t]) => stripes[calls[t].id] = {t}

Agrees(id) == cached[id] \in {NoRow, rows[id]}

\* What the call inside may rely on, at each point of it.
Relies(c) ==
  /\ (c.pc \in {"lookup", "read", "fill", "have", "enlist"} \/ (c.pc = "save" /\ c.op = "create"))
       => Agrees(c.id)
  /\ (c.pc \in {"fill", "have", "cache", "uncache"} \/ (c.pc = "save" /\ c.op = "migrate"))
       => c.s = rows[c.id]
  /\ c.pc \in {"delist", "delete"} => cached[c.id] = NoRow

InsideRelies ==
  \A t \in SessionCallers : Inside(calls[t]) /\ calls[t].id \notin behind => Relies(calls[t])

SessionInv == SessionTyped /\ MutexHeld /\ InsideRelies /\ CacheAgreesWithTable

\* A goroutine without a call.
LEMMA IdleCall ==
  /\ NoSessionCall.op = "none" /\ NoSessionCall.pc = "idle" /\ NoSessionCall.id = ""
  /\ NoSessionCall.node = "" /\ NoSessionCall.bytes = 0 /\ NoSessionCall.s = NoRow
  /\ NoSessionCall.todo = {}
<1> DEFINE n(row) == [op |-> "none", pc |-> "idle", id |-> "", node |-> "", bytes |-> 0, s |-> row, todo |-> {}]
<1>1. \A row : /\ n(row).op = "none" /\ n(row).pc = "idle" /\ n(row).id = "" /\ n(row).node = ""
               /\ n(row).bytes = 0 /\ n(row).s = row /\ n(row).todo = {}
  OBVIOUS
<1>2. NoSessionCall = n(NoRow)
  BY DEF NoSessionCall
<1> HIDE DEF n
<1> QED
  BY <1>1, <1>2

\* A new call, before its arguments are filled in.
LEMMA CallMade ==
  ASSUME NEW op \in SessionOps, NEW pc \in SessionPcs, NEW id \in SessionIds, NEW c, c = Call(op, pc, id)
  PROVE  c \in SessionCalls /\ c.op = op /\ c.pc = pc /\ c.id = id /\ c.todo = {}
<1> DEFINE Wide == [op : SessionOps, pc : SessionPcs, id : SessionIds \cup {""}, node : SessionNodes \cup {""},
                    bytes : 0..MaxSessionBytes, s : RowOrNone, todo : SUBSET (SessionIds \X SessionNodes)]
<1>1. NoSessionCall \in Wide /\ NoSessionCall.todo = {}
  <2>1. ASSUME NEW row \in RowOrNone
        PROVE  [op |-> "none", pc |-> "idle", id |-> "", node |-> "", bytes |-> 0, s |-> row, todo |-> {}] \in Wide
    BY SessionAssumption, SMTT(40) DEF SessionOps, SessionPcs
  <2>2. NoRow \in RowOrNone
    BY DEF RowOrNone
  <2> QED
    BY <2>1, <2>2, IdleCall DEF NoSessionCall
<1>2. c = [NoSessionCall EXCEPT !.op = op, !.pc = pc, !.id = id]
  BY DEF Call
<1>3. c \in Wide /\ c.op = op /\ c.pc = pc /\ c.id = id /\ c.todo = {}
  BY <1>1, <1>2
<1> QED
  BY <1>3 DEF SessionCalls

\* The start: no row, no call, every mutex free.
LEMMA SessionStarts == SessionInit => SessionInv
<1> SUFFICES ASSUME SessionInit PROVE SessionInv
  OBVIOUS
<1>1. \A t \in SessionCallers : calls[t] = NoSessionCall /\ ~Inside(calls[t])
  BY IdleCall DEF SessionInit, Inside
<1>2. SessionTyped
  BY <1>1 DEF SessionInit, SessionTyped, Resting, RowOrNone
<1>3. MutexHeld /\ InsideRelies
  BY <1>1 DEF SessionInit, MutexHeld, InsideRelies
<1>4. CacheAgreesWithTable
  BY DEF SessionInit, CacheAgreesWithTable
<1> QED
  BY <1>2, <1>3, <1>4 DEF SessionInv

\* NoRow is no row of the table.
LEMMA NoRowIsNone == NoRow \notin Row
BY SMTT(40) DEF NoRow, Row

\* A call that is not resting is typed and its session exists.
LEMMA AtWork ==
  ASSUME SessionTyped, NEW t \in SessionCallers, calls[t].pc # "idle"
  PROVE  CallTyped(calls[t]) /\ calls[t].id \in SessionIds
<1>1. ~Resting(calls[t])
  BY IdleCall DEF Resting
<1>2. CallTyped(calls[t])
  BY <1>1 DEF SessionTyped
<1> QED
  BY <1>2 DEF CallTyped, SessionCalls

\* What every return of a call does, the step to AutoFailover's next row included.
LEMMA Returns ==
  ASSUME SessionTyped, MutexHeld, NEW t \in SessionCallers, calls[t].pc # "idle", Return(t)
  PROVE  /\ DOMAIN calls' = SessionCallers /\ \A u \in SessionCallers \ {t} : calls'[u] = calls[u]
         /\ Resting(calls'[t]) \/ (CallTyped(calls'[t]) /\ calls'[t].pc = "lock")
         /\ ~Inside(calls'[t])
         /\ stripes' \in [SessionIds -> SUBSET SessionCallers]
         /\ \A id \in SessionIds : stripes'[id] = IF id = calls[t].id THEN stripes[id] \ {t} ELSE stripes[id]
         /\ MutexHeld'
<1> DEFINE c == calls[t]
           next == CHOOSE x \in c.todo : TRUE
           after == IF c.todo = {} THEN NoSessionCall
                    ELSE [c EXCEPT !.pc = "lock", !.id = next[1], !.node = next[2],
                                   !.s = NoRow, !.todo = @ \ {next}]
<1>1. CallTyped(c) /\ c.id \in SessionIds
  BY AtWork
<1>2. calls' = [calls EXCEPT ![t] = after] /\ stripes' = [stripes EXCEPT ![c.id] = @ \ {t}]
  BY DEF Return
<1>3. /\ DOMAIN calls' = SessionCallers /\ \A u \in SessionCallers \ {t} : calls'[u] = calls[u]
      /\ calls'[t] = after
  BY <1>2 DEF SessionTyped
<1>4. Resting(after) \/ (CallTyped(after) /\ after.pc = "lock")
  <2>1. CASE c.todo = {}
    BY <2>1 DEF Resting
  <2>2. CASE c.todo # {}
    <3>1. next \in c.todo
      BY <2>2
    <3>2. next \in SessionIds \X SessionNodes
      BY <1>1, <3>1 DEF CallTyped, SessionCalls
    <3> HIDE DEF next
    <3>3. after = [c EXCEPT !.pc = "lock", !.id = next[1], !.node = next[2], !.s = NoRow, !.todo = @ \ {next}]
      BY <2>2
    <3> HIDE DEF after, c
    <3>4. CallTyped(after) /\ after.pc = "lock"
      BY <1>1, <2>2, <3>2, <3>3 DEF CallTyped, SessionCalls, SessionPcs, RowOrNone
    <3> QED
      BY <3>4
  <2> QED
    BY <2>1, <2>2
<1>5. ~Inside(after)
  BY <1>4 DEF Inside, Resting, NoSessionCall
<1> HIDE DEF after
<1>6. /\ stripes' \in [SessionIds -> SUBSET SessionCallers]
      /\ \A id \in SessionIds : stripes'[id] = IF id = c.id THEN stripes[id] \ {t} ELSE stripes[id]
  BY <1>1, <1>2 DEF SessionTyped
<1>7. ASSUME NEW id \in SessionIds, NEW u \in stripes'[id]
      PROVE  u \in SessionCallers /\ Inside(calls'[u]) /\ calls'[u].id = id
  <2>1. u \in stripes[id] /\ (id = c.id => u # t)
    BY <1>6, <1>7
  <2>2. u \in SessionCallers /\ Inside(calls[u]) /\ calls[u].id = id
    BY <2>1 DEF MutexHeld
  <2> QED
    BY <1>3, <2>1, <2>2
<1>8. ASSUME NEW u \in SessionCallers, Inside(calls'[u]) PROVE stripes'[calls'[u].id] = {u}
  <2>1. u # t /\ calls'[u] = calls[u]
    BY <1>3, <1>5, <1>8
  <2>2. stripes[calls[u].id] = {u} /\ calls[u].id \in SessionIds
    BY <1>8, <2>1, AtWork DEF MutexHeld, Inside
  <2> QED
    BY <1>6, <2>1, <2>2
<1>9. MutexHeld'
  BY <1>7, <1>8 DEF MutexHeld
<1> QED
  BY <1>3, <1>4, <1>5, <1>6, <1>9

\* What going on to another point of the same call does.
LEMMA Continues ==
  ASSUME SessionTyped, MutexHeld, NEW t \in SessionCallers, calls[t].pc \notin {"idle", "lock"},
         NEW pc \in SessionPcs \ {"idle", "lock"}, NEW s \in RowOrNone, Continue(t, pc, s)
  PROVE  /\ DOMAIN calls' = SessionCallers /\ \A u \in SessionCallers \ {t} : calls'[u] = calls[u]
         /\ calls'[t] = [calls[t] EXCEPT !.pc = pc, !.s = s]
         /\ (Inside(calls'[t]) <=> Inside(calls[t]))
         /\ stripes' = stripes
         /\ MutexHeld'
<1>1. CallTyped(calls[t])
  BY AtWork
<1>2. /\ DOMAIN calls' = SessionCallers /\ \A u \in SessionCallers \ {t} : calls'[u] = calls[u]
      /\ calls'[t] = [calls[t] EXCEPT !.pc = pc, !.s = s] /\ stripes' = stripes
  BY <1>1 DEF Continue, SessionTyped, CallTyped, SessionCalls
<1>3. calls'[t].pc = pc /\ calls'[t].op = calls[t].op /\ calls'[t].id = calls[t].id
  BY <1>1, <1>2 DEF CallTyped, SessionCalls
<1>4. Inside(calls'[t]) <=> Inside(calls[t])
  BY <1>3 DEF Inside
<1>5. MutexHeld'
  <2>1. \A u \in SessionCallers : (Inside(calls'[u]) <=> Inside(calls[u])) /\ calls'[u].id = calls[u].id
    BY <1>2, <1>3, <1>4
  <2> QED
    BY <1>2, <2>1 DEF MutexHeld
<1> QED
  BY <1>2, <1>4, <1>5

\* A step of the call inside a session disturbs no other session, so what is
\* left to show of it is the call's own position and, when it leaves, its session.
LEMMA InsideStep ==
  ASSUME SessionInv, NEW t \in SessionCallers, Inside(calls[t]), SessionTyped', MutexHeld',
         \A u \in SessionCallers \ {t} : calls'[u] = calls[u],
         \A k \in SessionIds \ {calls[t].id} :
           rows'[k] = rows[k] /\ cached'[k] = cached[k] /\ stripes'[k] = stripes[k],
         behind \subseteq behind',
         Inside(calls'[t]) /\ calls'[t].id \notin behind' => Relies(calls[t])',
         stripes'[calls[t].id] = {} /\ calls[t].id \notin behind'
           => cached'[calls[t].id] \in {NoRow, rows'[calls[t].id]}
  PROVE  SessionInv'
<1>1. calls[t].id \in SessionIds /\ stripes[calls[t].id] = {t}
  BY AtWork DEF SessionInv, MutexHeld, Inside
<1>2. ASSUME NEW u \in SessionCallers, Inside(calls'[u]), calls'[u].id \notin behind'
      PROVE  Relies(calls[u])'
  <2>1. CASE u = t
    BY <1>2, <2>1
  <2>2. CASE u # t
    <3>1. calls'[u] = calls[u] /\ Inside(calls[u]) /\ calls[u].id \notin behind
      BY <1>2, <2>2
    <3>2. calls[u].id \in SessionIds /\ calls[u].id # calls[t].id /\ Relies(calls[u])
      BY <1>1, <2>2, <3>1, AtWork, SMTT(40) DEF SessionInv, MutexHeld, InsideRelies, Inside
    <3>3. rows'[calls[u].id] = rows[calls[u].id] /\ cached'[calls[u].id] = cached[calls[u].id]
      BY <3>2
    <3> QED
      BY <3>1, <3>2, <3>3, SMTT(40) DEF Relies, Agrees
  <2> QED
    BY <2>1, <2>2
<1>3. InsideRelies'
  BY <1>2 DEF InsideRelies
<1>4. CacheAgreesWithTable'
  BY DEF SessionInv, CacheAgreesWithTable
<1> QED
  BY <1>3, <1>4 DEF SessionInv

\* A step that holds no mutex writes into Redis nothing, or what is in the table
\* while nobody has emptied the cache for a close.
LEMMA OutsideStep ==
  ASSUME SessionInv, SessionTyped', MutexHeld', UNCHANGED <<rows, stripes>>, behind \subseteq behind',
         \A u \in SessionCallers : calls'[u] = calls[u] \/ ~Inside(calls'[u]),
         \A k \in SessionIds \ behind' :
           \/ cached'[k] \in {cached[k], NoRow}
           \/ /\ cached'[k] = rows[k]
              /\ \A u \in SessionCallers : calls[u].id = k => calls[u].pc \notin {"delist", "delete"}
  PROVE  SessionInv'
<1>1. ASSUME NEW u \in SessionCallers, Inside(calls'[u]), calls'[u].id \notin behind'
      PROVE  Relies(calls[u])'
  <2>1. calls'[u] = calls[u] /\ Inside(calls[u]) /\ calls[u].id \in SessionIds \ behind'
    BY <1>1, AtWork DEF SessionInv, Inside
  <2>2. Relies(calls[u])
    BY <2>1 DEF SessionInv, InsideRelies
  <2> QED
    BY <2>1, <2>2, SMTT(40) DEF Relies, Agrees
<1>2. InsideRelies'
  BY <1>1 DEF InsideRelies
<1>3. CacheAgreesWithTable'
  BY DEF SessionInv, CacheAgreesWithTable
<1> QED
  BY <1>2, <1>3 DEF SessionInv

\* A call begins.
LEMMA BeginStep ==
  ASSUME SessionInv, NEW t \in SessionCallers, NEW c, CallTyped(c), c.pc # "idle", ~Inside(c),
         Begin(t, c)
  PROVE  SessionInv'
<1>1. /\ calls' = [calls EXCEPT ![t] = c] /\ calls[t].pc = "idle"
      /\ UNCHANGED <<rows, cached, stripes, behind>>
  BY DEF Begin
<1>2. (\A u \in SessionCallers \ {t} : calls'[u] = calls[u]) /\ calls'[t] = c
      /\ DOMAIN calls' = SessionCallers
  BY <1>1 DEF SessionInv, SessionTyped
<1>3. SessionTyped'
  BY <1>1, <1>2 DEF SessionInv, SessionTyped
<1>4. ~Inside(calls[t])
  BY <1>1 DEF Inside
<1>5. MutexHeld'
  BY <1>1, <1>2, <1>4, SMTT(40) DEF SessionInv, MutexHeld
<1> QED
  BY <1>1, <1>2, <1>3, <1>5, OutsideStep

\* GetSession, CreateSession, Heartbeat, MigrateSession, CloseSession and
\* AutoFailover before their first statement.
LEMMA BeginSteps ==
  ASSUME SessionInv, NEW t \in SessionCallers,
         \/ \E id \in SessionIds :
              \/ BeginGet(t, id) \/ BeginClose(t, id)
              \/ \E n \in SessionNodes : BeginCreate(t, id, n) \/ BeginMigrate(t, id, n)
              \/ \E b \in 0..MaxSessionBytes : BeginHeartbeat(t, id, b)
         \/ BeginFailover(t)
  PROVE  SessionInv'
<1> USE SessionAssumption
<1>1. ASSUME NEW c, c \in SessionCalls, c.pc = "lock", c.op \in {"create", "heartbeat", "migrate", "close"},
             c.todo # {} => c.op = "migrate", c.op \in {"create", "migrate"} => c.node \in SessionNodes,
             Begin(t, c)
      PROVE  SessionInv'
  <2>1. CallTyped(c) /\ c.pc # "idle" /\ ~Inside(c)
    BY <1>1 DEF CallTyped, Inside
  <2> QED
    BY <1>1, <2>1, BeginStep
<1>2. ASSUME NEW id \in SessionIds, BeginGet(t, id) PROVE SessionInv'
  <2>1. PICK c : c = Call("get", "lookup", id)
    OBVIOUS
  <2>o. "get" \in SessionOps /\ "lookup" \in SessionPcs
    BY DEF SessionOps, SessionPcs
  <2>2. c \in SessionCalls /\ c.op = "get" /\ c.pc = "lookup" /\ c.todo = {}
    BY <2>1, <2>o, CallMade, SMTT(40)
  <2>3. CallTyped(c) /\ c.pc # "idle" /\ ~Inside(c)
    BY <2>2 DEF CallTyped, Inside
  <2>4. Begin(t, c)
    BY <1>2, <2>1 DEF BeginGet
  <2> QED
    BY <2>3, <2>4, BeginStep
<1>3. ASSUME NEW id \in SessionIds, BeginClose(t, id) PROVE SessionInv'
  <2>1. PICK c : c = Call("close", "lock", id)
    OBVIOUS
  <2>o. "close" \in SessionOps /\ "lock" \in SessionPcs
    BY DEF SessionOps, SessionPcs
  <2>2. c \in SessionCalls /\ c.op = "close" /\ c.pc = "lock" /\ c.todo = {}
    BY <2>1, <2>o, CallMade, SMTT(40)
  <2>3. Begin(t, c)
    BY <1>3, <2>1 DEF BeginClose
  <2> QED
    BY <1>1, <2>2, <2>3
<1>4. ASSUME NEW id \in SessionIds, NEW n \in SessionNodes, BeginCreate(t, id, n) PROVE SessionInv'
  <2>1. PICK c : c = Call("create", "lock", id)
    OBVIOUS
  <2>o. "create" \in SessionOps /\ "lock" \in SessionPcs
    BY DEF SessionOps, SessionPcs
  <2>2. c \in SessionCalls /\ c.op = "create" /\ c.pc = "lock" /\ c.todo = {}
    BY <2>1, <2>o, CallMade, SMTT(40)
  <2>3. PICK d : d = [c EXCEPT !.node = n]
    OBVIOUS
  <2>4. d \in SessionCalls /\ d.op = "create" /\ d.pc = "lock" /\ d.todo = {} /\ d.node = n
    BY <2>2, <2>3 DEF SessionCalls
  <2>5. Begin(t, d)
    BY <1>4, <2>1, <2>3 DEF BeginCreate
  <2> QED
    BY <1>1, <2>4, <2>5
<1>5. ASSUME NEW id \in SessionIds, NEW n \in SessionNodes, BeginMigrate(t, id, n) PROVE SessionInv'
  <2>1. PICK c : c = Call("migrate", "lock", id)
    OBVIOUS
  <2>o. "migrate" \in SessionOps /\ "lock" \in SessionPcs
    BY DEF SessionOps, SessionPcs
  <2>2. c \in SessionCalls /\ c.op = "migrate" /\ c.pc = "lock" /\ c.todo = {}
    BY <2>1, <2>o, CallMade, SMTT(40)
  <2>3. PICK d : d = [c EXCEPT !.node = n]
    OBVIOUS
  <2>4. d \in SessionCalls /\ d.op = "migrate" /\ d.pc = "lock" /\ d.todo = {} /\ d.node = n
    BY <2>2, <2>3 DEF SessionCalls
  <2>5. Begin(t, d)
    BY <1>5, <2>1, <2>3 DEF BeginMigrate
  <2> QED
    BY <1>1, <2>4, <2>5
<1>6. ASSUME NEW id \in SessionIds, NEW b \in 0..MaxSessionBytes, BeginHeartbeat(t, id, b) PROVE SessionInv'
  <2>1. PICK c : c = Call("heartbeat", "lock", id)
    OBVIOUS
  <2>o. "heartbeat" \in SessionOps /\ "lock" \in SessionPcs
    BY DEF SessionOps, SessionPcs
  <2>2. c \in SessionCalls /\ c.op = "heartbeat" /\ c.pc = "lock" /\ c.todo = {}
    BY <2>1, <2>o, CallMade, SMTT(40)
  <2>3. PICK d : d = [c EXCEPT !.bytes = b]
    OBVIOUS
  <2>4. d \in SessionCalls /\ d.op = "heartbeat" /\ d.pc = "lock" /\ d.todo = {} /\ d.bytes = b
    BY <2>2, <2>3 DEF SessionCalls
  <2>5. Begin(t, d)
    BY <1>6, <2>1, <2>3 DEF BeginHeartbeat
  <2> QED
    BY <1>1, <2>4, <2>5
<1>7. CASE BeginFailover(t)
  <2> DEFINE movable == {id \in QuicSessions : rows[id].active}
             first(old) == CHOOSE id \in old : TRUE
             rest(old, to) == {<<id, to[id]>> : id \in old \ {first(old)}}
  <2>0. PICK old \in (SUBSET movable) \ {{}} : \E to \in [old -> SessionNodes] :
          Begin(t, [Call("migrate", "lock", first(old)) EXCEPT !.node = to[first(old)], !.todo = rest(old, to)])
    BY <1>7 DEF BeginFailover
  <2>1. PICK to \in [old -> SessionNodes] :
          Begin(t, [Call("migrate", "lock", first(old)) EXCEPT !.node = to[first(old)], !.todo = rest(old, to)])
    BY <2>0
  <2>2. first(old) \in old
    BY <2>1
  <2>3. first(old) \in SessionIds /\ to[first(old)] \in SessionNodes
    BY <2>1, <2>2
  <2>4. rest(old, to) \in SUBSET (SessionIds \X SessionNodes)
    BY <2>1, SMTT(40)
  <2> HIDE DEF first, rest
  <2>5. PICK c : c = Call("migrate", "lock", first(old))
    OBVIOUS
  <2>o. "migrate" \in SessionOps /\ "lock" \in SessionPcs
    BY DEF SessionOps, SessionPcs
  <2>6. c \in SessionCalls /\ c.op = "migrate" /\ c.pc = "lock"
    BY <2>3, <2>5, <2>o, CallMade, SMTT(40)
  <2>7. PICK d : d = [c EXCEPT !.node = to[first(old)], !.todo = rest(old, to)]
    OBVIOUS
  <2>8. d \in SessionCalls /\ d.op = "migrate" /\ d.pc = "lock" /\ d.node \in SessionNodes
    BY <2>3, <2>4, <2>6, <2>7 DEF SessionCalls
  <2>9. Begin(t, d)
    BY <2>1, <2>5, <2>7
  <2> QED
    BY <1>1, <2>8, <2>9
<1> QED
  BY <1>2, <1>3, <1>4, <1>5, <1>6, <1>7

\* The session's mutex is free, so Redis agrees with Postgres when it is taken.
LEMMA LockStep ==
  ASSUME SessionInv, NEW t \in SessionCallers, Lock(t)
  PROVE  SessionInv'
<1> DEFINE c == calls[t]
           id == calls[t].id
<1>1. CallTyped(c) /\ id \in SessionIds /\ c.op # "get" /\ c.pc = "lock"
  BY AtWork DEF SessionInv, Lock, CallTyped, SessionCalls
<1>2. /\ stripes[id] = {} /\ stripes' = [stripes EXCEPT ![id] = {t}]
      /\ calls' = [calls EXCEPT ![t].pc = IF c.op = "create" THEN "save" ELSE "lookup"]
      /\ UNCHANGED <<rows, cached, behind>>
  BY DEF Lock, StripeFree
<1>3. /\ \A u \in SessionCallers \ {t} : calls'[u] = calls[u]
      /\ calls'[t] = [c EXCEPT !.pc = IF c.op = "create" THEN "save" ELSE "lookup"]
      /\ DOMAIN calls' = SessionCallers
      /\ stripes'[id] = {t} /\ stripes' \in [SessionIds -> SUBSET SessionCallers]
      /\ \A k \in SessionIds \ {id} : stripes'[k] = stripes[k]
  BY <1>1, <1>2 DEF SessionInv, SessionTyped
<1>4. CallTyped(calls'[t]) /\ calls'[t].pc # "idle" /\ Inside(calls'[t]) /\ calls'[t].id = id
  BY <1>1, <1>3 DEF CallTyped, SessionCalls, SessionPcs, Inside
<1>5. SessionTyped'
  BY <1>2, <1>3, <1>4 DEF SessionInv, SessionTyped
<1> HIDE DEF c, id
<1>6. ASSUME NEW u \in SessionCallers \ {t}, Inside(calls'[u])
      PROVE  calls[u].id \in SessionIds /\ calls[u].id # id /\ Inside(calls[u]) /\ stripes'[calls[u].id] = {u}
  <2>1. calls'[u] = calls[u] /\ Inside(calls[u]) /\ calls[u].id \in SessionIds
    BY <1>3, <1>6, AtWork DEF SessionInv, Inside
  <2> QED
    BY <1>2, <1>3, <2>1, SMTT(40) DEF SessionInv, MutexHeld
<1>7. MutexHeld'
  <2>1. ASSUME NEW k \in SessionIds, NEW u \in stripes'[k]
        PROVE  u \in SessionCallers /\ Inside(calls'[u]) /\ calls'[u].id = k
    <3>1. CASE k = id
      BY <1>3, <1>4, <2>1, <3>1
    <3>2. CASE k # id
      <4>1. u \in stripes[k]
        BY <1>3, <2>1, <3>2
      <4>2. u \in SessionCallers /\ Inside(calls[u]) /\ calls[u].id = k
        BY <4>1 DEF SessionInv, MutexHeld
      <4>3. u # t
        BY <1>1, <4>2 DEF Inside, c
      <4> QED
        BY <1>3, <4>2, <4>3
    <3> QED
      BY <3>1, <3>2
  <2> QED
    BY <1>3, <1>4, <1>6, <2>1 DEF MutexHeld
<1>8. ASSUME NEW u \in SessionCallers, Inside(calls'[u]), calls'[u].id \notin behind'
      PROVE  Relies(calls[u])'
  <2>1. CASE u = t
    <3>1. id \in SessionIds \ behind /\ Agrees(id)
      BY <1>1, <1>2, <1>4, <1>8, <2>1, SMTT(40) DEF SessionInv, CacheAgreesWithTable, Agrees
    <3>2. calls'[t].pc \in {"save", "lookup"} /\ (calls'[t].pc = "save" => calls'[t].op = "create")
      BY <1>1, <1>3 DEF CallTyped, SessionCalls
    <3> QED
      BY <1>2, <1>4, <2>1, <3>1, <3>2 DEF Relies, Agrees
  <2>2. CASE u # t
    <3>1. Relies(calls[u]) /\ calls'[u] = calls[u]
      BY <1>2, <1>3, <1>6, <1>8, <2>2 DEF SessionInv, InsideRelies
    <3> QED
      BY <1>2, <3>1 DEF Relies, Agrees
  <2> QED
    BY <2>1, <2>2
<1>9. InsideRelies' /\ CacheAgreesWithTable'
  BY <1>2, <1>3, <1>8, SMTT(40) DEF SessionInv, InsideRelies, CacheAgreesWithTable
<1> QED
  BY <1>5, <1>7, <1>9 DEF SessionInv

\* A step after which the call goes on, at pc with s, in the same session.
LEMMA InsideGoesOn ==
  ASSUME SessionInv, NEW t \in SessionCallers, Inside(calls[t]),
         NEW pc \in SessionPcs \ {"idle", "lock"}, NEW s \in RowOrNone, Continue(t, pc, s),
         CallTyped([calls[t] EXCEPT !.pc = pc, !.s = s]),
         rows' \in [SessionIds -> RowOrNone], cached' \in [SessionIds -> RowOrNone],
         \A k \in SessionIds \ {calls[t].id} : rows'[k] = rows[k] /\ cached'[k] = cached[k],
         behind \subseteq behind',
         calls[t].id \notin behind' =>
           /\ pc \in {"lookup", "read", "fill", "have", "enlist"} \/ (pc = "save" /\ calls[t].op = "create")
                => cached'[calls[t].id] \in {NoRow, rows'[calls[t].id]}
           /\ pc \in {"fill", "have", "cache", "uncache"} \/ (pc = "save" /\ calls[t].op = "migrate")
                => s = rows'[calls[t].id]
           /\ pc \in {"delist", "delete"} => cached'[calls[t].id] = NoRow
  PROVE  SessionInv'
<1>1. calls[t].pc \notin {"idle", "lock"} /\ SessionTyped /\ MutexHeld
  BY DEF Inside, SessionInv
<1>2. CallTyped(calls[t]) /\ calls[t].id \in SessionIds
  BY <1>1, AtWork
<1>3. /\ DOMAIN calls' = SessionCallers /\ \A u \in SessionCallers \ {t} : calls'[u] = calls[u]
      /\ calls'[t] = [calls[t] EXCEPT !.pc = pc, !.s = s]
      /\ Inside(calls'[t])
      /\ stripes' = stripes /\ MutexHeld'
  <2>1. /\ DOMAIN calls' = SessionCallers /\ \A u \in SessionCallers \ {t} : calls'[u] = calls[u]
        /\ calls'[t] = [calls[t] EXCEPT !.pc = pc, !.s = s]
        /\ (Inside(calls'[t]) <=> Inside(calls[t]))
        /\ stripes' = stripes /\ MutexHeld'
    BY <1>1, Continues
  <2> QED
    BY <2>1
<1>4. calls'[t].pc = pc /\ calls'[t].s = s /\ calls'[t].op = calls[t].op /\ calls'[t].id = calls[t].id
  BY <1>2, <1>3 DEF CallTyped, SessionCalls
<1>5. SessionTyped'
  <2>1. CallTyped(calls'[t]) /\ calls'[t].pc # "idle"
    BY <1>3, <1>4
  <2> QED
    BY <1>1, <1>3, <2>1 DEF SessionTyped
<1>6. calls'[t].id \notin behind' => Relies(calls[t])'
  BY <1>4 DEF Relies, Agrees
<1>7. stripes'[calls[t].id] # {}
  BY <1>1, <1>3, SMTT(40) DEF MutexHeld
<1>8. \A k \in SessionIds \ {calls[t].id} : stripes'[k] = stripes[k]
  BY <1>3
<1> QED
  BY <1>3, <1>5, <1>6, <1>7, <1>8, InsideStep

\* A step after which the call returns: Redis holds nothing or the row.
LEMMA InsideReturns ==
  ASSUME SessionInv, NEW t \in SessionCallers, Inside(calls[t]), Return(t),
         rows' \in [SessionIds -> RowOrNone], cached' \in [SessionIds -> RowOrNone],
         \A k \in SessionIds \ {calls[t].id} : rows'[k] = rows[k] /\ cached'[k] = cached[k],
         behind \subseteq behind',
         calls[t].id \notin behind' => cached'[calls[t].id] \in {NoRow, rows'[calls[t].id]}
  PROVE  SessionInv'
<1>1. calls[t].pc # "idle" /\ SessionTyped /\ MutexHeld
  BY DEF Inside, SessionInv
<1>2. /\ DOMAIN calls' = SessionCallers /\ \A u \in SessionCallers \ {t} : calls'[u] = calls[u]
      /\ Resting(calls'[t]) \/ (CallTyped(calls'[t]) /\ calls'[t].pc = "lock")
      /\ ~Inside(calls'[t])
      /\ stripes' \in [SessionIds -> SUBSET SessionCallers]
      /\ \A id \in SessionIds : stripes'[id] = IF id = calls[t].id THEN stripes[id] \ {t} ELSE stripes[id]
      /\ MutexHeld'
  BY <1>1, Returns
<1>3. SessionTyped'
  BY <1>1, <1>2, SMTT(40) DEF SessionTyped
<1>4. \A k \in SessionIds \ {calls[t].id} : stripes'[k] = stripes[k]
  BY <1>2
<1> QED
  BY <1>2, <1>3, <1>4, InsideStep

\* A GetSession of its own: Redis, Postgres and Redis again, without the mutex.
LEMMA GetStep ==
  ASSUME SessionInv, NEW t \in SessionCallers, calls[t].op = "get", calls[t].pc # "idle",
         \/ Return(t)
         \/ \E pc \in {"read", "fill"}, s \in RowOrNone : Continue(t, pc, s) /\ (pc = "fill" => s \in Row),
         rows' = rows, cached' \in [SessionIds -> RowOrNone], behind \subseteq behind',
         \A k \in SessionIds \ behind' :
           \/ cached'[k] = cached[k]
           \/ /\ cached'[k] = rows[k]
              /\ \A u \in SessionCallers : calls[u].id = k => calls[u].pc \notin {"delist", "delete"}
  PROVE  SessionInv'
<1>1. SessionTyped /\ MutexHeld /\ ~Inside(calls[t])
  BY DEF SessionInv, Inside
<1>2. CallTyped(calls[t]) /\ calls[t].id \in SessionIds /\ calls[t].pc \in {"lookup", "read", "fill"}
  BY <1>1, AtWork DEF CallTyped, SessionCalls
<1>3. CASE Return(t)
  <2>1. /\ DOMAIN calls' = SessionCallers /\ \A u \in SessionCallers \ {t} : calls'[u] = calls[u]
        /\ Resting(calls'[t]) \/ (CallTyped(calls'[t]) /\ calls'[t].pc = "lock")
        /\ ~Inside(calls'[t])
        /\ stripes' \in [SessionIds -> SUBSET SessionCallers]
        /\ \A id \in SessionIds : stripes'[id] = IF id = calls[t].id THEN stripes[id] \ {t} ELSE stripes[id]
        /\ MutexHeld'
    BY <1>1, <1>3, Returns
  <2>2. \A id \in SessionIds : t \notin stripes[id]
    BY <1>1 DEF MutexHeld
  <2>3. \A id \in SessionIds : stripes'[id] = stripes[id]
    BY <2>1, <2>2
  <2>4. stripes' = stripes
    <3>1. stripes' = [stripes EXCEPT ![calls[t].id] = @ \ {t}]
      BY <1>3 DEF Return
    <3>2. stripes[calls[t].id] \ {t} = stripes[calls[t].id]
      BY <1>2, <2>2
    <3>3. stripes = [k \in SessionIds |-> stripes[k]]
      BY <1>1 DEF SessionTyped
    <3> QED
      BY <1>1, <2>3, <3>1, <3>2, <3>3 DEF SessionTyped
  <2>5. SessionTyped'
    BY <1>1, <2>1, SMTT(40) DEF SessionTyped
  <2> QED
    BY <2>1, <2>4, <2>5, OutsideStep
<1>4. ASSUME NEW pc \in {"read", "fill"}, NEW s \in RowOrNone, Continue(t, pc, s), pc = "fill" => s \in Row
      PROVE  SessionInv'
  <2>1. pc \in SessionPcs \ {"idle", "lock"}
    BY <1>4 DEF SessionPcs
  <2>2. /\ DOMAIN calls' = SessionCallers /\ \A u \in SessionCallers \ {t} : calls'[u] = calls[u]
        /\ calls'[t] = [calls[t] EXCEPT !.pc = pc, !.s = s]
        /\ (Inside(calls'[t]) <=> Inside(calls[t]))
        /\ stripes' = stripes /\ MutexHeld'
    BY <1>1, <1>2, <1>4, <2>1, Continues
  <2>3. CallTyped(calls'[t]) /\ calls'[t].pc # "idle"
    BY <1>2, <1>4, <2>2 DEF CallTyped, SessionCalls, SessionPcs
  <2>4. SessionTyped'
    BY <1>1, <2>2, <2>3 DEF SessionTyped
  <2> QED
    BY <1>1, <2>2, <2>4, OutsideStep
<1> QED
  BY <1>3, <1>4

\* GetSession asks Redis.
LEMMA LookupStep ==
  ASSUME SessionInv, NEW t \in SessionCallers, NEW failed \in BOOLEAN, LookupCache(t, failed)
  PROVE  SessionInv'
<1> DEFINE c == calls[t]
<1>1. /\ c.pc = "lookup" /\ UNCHANGED <<rows, cached, behind>>
      /\ IF failed \/ cached[c.id] = NoRow THEN Continue(t, "read", NoRow) ELSE GotSession(t, cached[c.id])
  BY DEF LookupCache
<1>2. CallTyped(c) /\ c.id \in SessionIds /\ rows \in [SessionIds -> RowOrNone]
      /\ cached \in [SessionIds -> RowOrNone] /\ NoRow \in RowOrNone
  BY <1>1, AtWork DEF SessionInv, SessionTyped, RowOrNone
<1>3. CASE c.op = "get"
  <2>1. Return(t) \/ Continue(t, "read", NoRow)
    BY <1>1, <1>3 DEF GotSession
  <2> QED
    BY <1>1, <1>2, <1>3, <2>1, GetStep
<1>4. CASE c.op # "get" /\ Continue(t, "read", NoRow)
  <2>1. Inside(c)
    BY <1>1, <1>4 DEF Inside
  <2>2. c.id \notin behind => Agrees(c.id)
    BY <1>1, <2>1 DEF SessionInv, InsideRelies, Relies
  <2>3. CallTyped([c EXCEPT !.pc = "read", !.s = NoRow])
    BY <1>2, <1>4 DEF CallTyped, SessionCalls, SessionPcs
  <2> QED
    BY <1>1, <1>2, <1>4, <2>1, <2>2, <2>3, InsideGoesOn DEF Agrees, SessionPcs
<1>5. CASE c.op # "get" /\ cached[c.id] # NoRow /\ Continue(t, "have", cached[c.id])
  <2>1. Inside(c)
    BY <1>1, <1>5 DEF Inside
  <2>2. c.id \notin behind => Agrees(c.id)
    BY <1>1, <2>1 DEF SessionInv, InsideRelies, Relies
  <2>3. cached[c.id] \in Row
    BY <1>2, <1>5 DEF RowOrNone
  <2>4. CallTyped([c EXCEPT !.pc = "have", !.s = cached[c.id]])
    BY <1>2, <1>5, <2>3 DEF CallTyped, SessionCalls, SessionPcs, RowOrNone
  <2> QED
    BY <1>1, <1>2, <1>5, <2>1, <2>2, <2>3, <2>4, InsideGoesOn DEF Agrees, SessionPcs
<1> QED
  BY <1>1, <1>3, <1>4, <1>5 DEF GotSession

\* GetSession asks Postgres.
LEMMA RowReadStep ==
  ASSUME SessionInv, NEW t \in SessionCallers, NEW failed \in BOOLEAN, ReadRow(t, failed)
  PROVE  SessionInv'
<1> DEFINE c == calls[t]
<1>1. /\ c.pc = "read" /\ UNCHANGED <<rows, cached, behind>>
      /\ IF failed \/ rows[c.id] = NoRow THEN Return(t) ELSE Continue(t, "fill", rows[c.id])
  BY DEF ReadRow
<1>2. CallTyped(c) /\ c.id \in SessionIds /\ rows \in [SessionIds -> RowOrNone]
      /\ cached \in [SessionIds -> RowOrNone]
  BY <1>1, AtWork DEF SessionInv, SessionTyped
<1>3. Return(t) \/ (rows[c.id] \in Row /\ Continue(t, "fill", rows[c.id]))
  BY <1>1, <1>2 DEF RowOrNone
<1>4. rows[c.id] \in RowOrNone
  BY <1>2
<1>5. CASE c.op = "get"
  BY <1>1, <1>2, <1>3, <1>4, <1>5, GetStep
<1>6. CASE c.op # "get"
  <2>1. Inside(c)
    BY <1>1, <1>6 DEF Inside
  <2>2. c.id \notin behind => Agrees(c.id)
    BY <1>1, <2>1 DEF SessionInv, InsideRelies, Relies
  <2>3. CASE Return(t)
    BY <1>1, <1>2, <2>1, <2>2, <2>3, InsideReturns DEF Agrees
  <2>4. CASE rows[c.id] \in Row /\ Continue(t, "fill", rows[c.id])
    <3>1. CallTyped([c EXCEPT !.pc = "fill", !.s = rows[c.id]])
      BY <1>2, <1>6, <2>4 DEF CallTyped, SessionCalls, SessionPcs, RowOrNone
    <3> QED
      BY <1>1, <1>2, <1>4, <2>1, <2>2, <2>4, <3>1, InsideGoesOn DEF Agrees, SessionPcs
  <2> QED
    BY <1>3, <2>3, <2>4
<1> QED
  BY <1>5, <1>6

\* GetSession fills Redis; when it was overtaken, the session is behind from then on.
LEMMA FillStep ==
  ASSUME SessionInv, NEW t \in SessionCallers, NEW failed \in BOOLEAN, FillCache(t, failed)
  PROVE  SessionInv'
<1> DEFINE c == calls[t]
<1>1. /\ c.pc = "fill" /\ UNCHANGED rows
      /\ cached' = IF failed THEN cached ELSE [cached EXCEPT ![c.id] = c.s]
      /\ behind' = IF ~failed /\ Overtaken(t) THEN behind \cup {c.id} ELSE behind
      /\ GotSession(t, c.s)
  BY DEF FillCache
<1>2. CallTyped(c) /\ c.id \in SessionIds /\ rows \in [SessionIds -> RowOrNone]
      /\ cached \in [SessionIds -> RowOrNone] /\ c.s \in Row /\ c.s \in RowOrNone
  BY <1>1, AtWork DEF SessionInv, SessionTyped, CallTyped, SessionCalls, RowOrNone
<1>3. /\ cached' \in [SessionIds -> RowOrNone] /\ behind \subseteq behind'
      /\ \A k \in SessionIds \ {c.id} : cached'[k] = cached[k]
      /\ cached'[c.id] = cached[c.id] \/ (~failed /\ cached'[c.id] = c.s)
  BY <1>1, <1>2
<1>4. ~failed /\ c.id \notin behind' =>
        /\ c.s = rows[c.id]
        /\ \A u \in SessionCallers : calls[u].id = c.id => calls[u].pc \notin {"delist", "delete"}
  BY <1>1 DEF Overtaken
<1>5. CASE c.op = "get"
  <2>1. Return(t)
    BY <1>1, <1>5 DEF GotSession
  <2> QED
    BY <1>1, <1>3, <1>4, <1>5, <2>1, GetStep, SMTT(40)
<1>6. CASE c.op # "get"
  <2>1. Inside(c) /\ Continue(t, "have", c.s)
    BY <1>1, <1>6 DEF Inside, GotSession
  <2>2. c.id \notin behind => Agrees(c.id) /\ c.s = rows[c.id]
    BY <1>1, <2>1 DEF SessionInv, InsideRelies, Relies
  <2>3. CallTyped([c EXCEPT !.pc = "have", !.s = c.s])
    BY <1>2, <1>6 DEF CallTyped, SessionCalls, SessionPcs
  <2>4. c.id \notin behind' => cached'[c.id] \in {NoRow, rows'[c.id]} /\ c.s = rows'[c.id]
    BY <1>1, <1>3, <2>2 DEF Agrees
  <2> QED
    BY <1>1, <1>2, <1>3, <2>1, <2>3, <2>4, InsideGoesOn DEF SessionPcs
<1> QED
  BY <1>5, <1>6

\* SaveSession writes the row s; unless it fails the call goes on with s.
LEMMA SaveStep ==
  ASSUME SessionInv, NEW t \in SessionCallers, Inside(calls[t]), NEW s \in Row,
         NEW pc \in {"cache", "uncache"}, NEW failed \in BOOLEAN, SaveRow(t, s, pc, failed),
         calls[t].id \notin behind => Agrees(calls[t].id)
  PROVE  SessionInv'
<1> DEFINE c == calls[t]
<1>1. CallTyped(c) /\ c.id \in SessionIds /\ rows \in [SessionIds -> RowOrNone]
      /\ cached \in [SessionIds -> RowOrNone] /\ s \in RowOrNone
  BY AtWork DEF Inside, SessionInv, SessionTyped, RowOrNone
<1>2. CASE failed
  BY <1>1, <1>2, InsideReturns DEF SaveRow, Agrees
<1>3. CASE ~failed
  <2>1. /\ Continue(t, pc, s) /\ UNCHANGED <<cached, behind>>
        /\ rows' = [rows EXCEPT ![c.id] = s]
    BY <1>3 DEF SaveRow
  <2>2. /\ rows' \in [SessionIds -> RowOrNone] /\ rows'[c.id] = s
        /\ \A k \in SessionIds \ {c.id} : rows'[k] = rows[k]
    BY <1>1, <2>1
  <2>3. CallTyped([c EXCEPT !.pc = pc, !.s = s])
    BY <1>1 DEF CallTyped, SessionCalls, SessionPcs, Inside
  <2>4. pc \in SessionPcs \ {"idle", "lock"}
    BY DEF SessionPcs
  <2> QED
    BY <1>1, <2>1, <2>2, <2>3, <2>4, InsideGoesOn
<1> QED
  BY <1>2, <1>3

\* The statements of CreateSession, Heartbeat and CloseSession that save the row.
LEMMA SaveSteps ==
  ASSUME SessionInv, NEW t \in SessionCallers, NEW failed \in BOOLEAN,
         CreateSave(t, failed) \/ HeartbeatSave(t, failed) \/ CloseSave(t, failed)
  PROVE  SessionInv'
<1> DEFINE c == calls[t]
<1>1. CASE CreateSave(t, failed)
  <2>1. c.pc = "save" /\ c.op = "create" /\ Inside(c)
    BY <1>1 DEF CreateSave, Inside
  <2>2. c.node \in SessionNodes
    BY <2>1, AtWork DEF SessionInv, CallTyped, SessionCalls
  <2>3. [node |-> c.node, bytes |-> 0, active |-> TRUE, migrated |-> 0] \in Row
    BY <2>2, SessionAssumption, SMTT(40) DEF Row
  <2>4. c.id \notin behind => Agrees(c.id)
    BY <2>1 DEF SessionInv, InsideRelies, Relies
  <2> QED
    BY <1>1, <2>1, <2>3, <2>4, SaveStep DEF CreateSave
<1>2. CASE HeartbeatSave(t, failed) \/ CloseSave(t, failed)
  <2>1. c.pc = "have" /\ c.op \in {"heartbeat", "close"} /\ Inside(c)
    BY <1>2 DEF HeartbeatSave, CloseSave, Inside
  <2>2. c.s \in Row /\ c.bytes \in 0..MaxSessionBytes
    BY <2>1, AtWork DEF SessionInv, CallTyped, SessionCalls
  <2>3. [c.s EXCEPT !.bytes = c.bytes] \in Row /\ [c.s EXCEPT !.active = FALSE] \in Row
    BY <2>2 DEF Row
  <2>4. c.id \notin behind => Agrees(c.id)
    BY <2>1 DEF SessionInv, InsideRelies, Relies
  <2>5. CASE Refuse(t)
    <3>1. Return(t) /\ UNCHANGED <<rows, cached, behind>>
      BY <2>5 DEF Refuse
    <3>2. rows \in [SessionIds -> RowOrNone] /\ cached \in [SessionIds -> RowOrNone]
      BY DEF SessionInv, SessionTyped
    <3> QED
      BY <2>1, <2>4, <3>1, <3>2, InsideReturns DEF Agrees
  <2>6. CASE SaveRow(t, [c.s EXCEPT !.bytes = c.bytes], "cache", failed)
    BY <2>1, <2>3, <2>4, <2>6, SaveStep
  <2>7. CASE SaveRow(t, [c.s EXCEPT !.active = FALSE], "uncache", failed)
    BY <2>1, <2>3, <2>4, <2>7, SaveStep
  <2> QED
    BY <1>2, <2>5, <2>6, <2>7 DEF HeartbeatSave, CloseSave
<1> QED
  BY <1>1, <1>2

\* MigrateSession: RecordMigration moves the row as it moves the copy in hand.
LEMMA MigrateRecordStep ==
  ASSUME SessionInv, NEW t \in SessionCallers, NEW failed \in BOOLEAN, MigrateRecord(t, failed)
  PROVE  SessionInv'
<1> DEFINE c == calls[t]
           moved == [c.s EXCEPT !.node = c.node, !.migrated = @ + 1]
<1>1. c.pc = "have" /\ c.op = "migrate" /\ Inside(c)
  BY DEF MigrateRecord, Inside
<1>2. CallTyped(c) /\ c.id \in SessionIds /\ rows \in [SessionIds -> RowOrNone]
      /\ cached \in [SessionIds -> RowOrNone] /\ c.s \in Row /\ c.node \in SessionNodes
  BY <1>1, AtWork DEF SessionInv, SessionTyped, CallTyped, SessionCalls
<1>3. c.id \notin behind => Agrees(c.id) /\ c.s = rows[c.id]
  BY <1>1 DEF SessionInv, InsideRelies, Relies
<1>4. CASE Return(t) /\ UNCHANGED <<rows, cached, behind>>
  BY <1>1, <1>2, <1>3, <1>4, InsideReturns DEF Agrees
<1>5. CASE /\ rows[c.id] # NoRow /\ UNCHANGED <<cached, behind>>
           /\ rows' = [rows EXCEPT ![c.id].node = c.node, ![c.id].migrated = @ + 1]
           /\ Continue(t, "save", moved)
  <2>1. rows[c.id] \in Row
    BY <1>2, <1>5 DEF RowOrNone
  <2>2. [rows[c.id] EXCEPT !.node = c.node, !.migrated = @ + 1] \in Row /\ moved \in Row
    <3>1. \A r \in Row, n \in SessionNodes : [r EXCEPT !.node = n, !.migrated = @ + 1] \in Row
      <4> SUFFICES ASSUME NEW r \in Row, NEW n \in SessionNodes
                   PROVE  [r EXCEPT !.node = n, !.migrated = @ + 1] \in Row
        OBVIOUS
      <4>1. r.migrated + 1 \in Nat
        BY SMTT(40) DEF Row
      <4> QED
        BY <4>1 DEF Row
    <3> QED
      BY <1>2, <2>1, <3>1
  <2>3. /\ rows'[c.id] = [rows[c.id] EXCEPT !.node = c.node, !.migrated = @ + 1]
        /\ \A k \in SessionIds \ {c.id} : rows'[k] = rows[k]
        /\ rows' \in [SessionIds -> RowOrNone]
    BY <1>2, <1>5, <2>1, <2>2 DEF RowOrNone
  <2>4. c.id \notin behind' => moved = rows'[c.id]
    BY <1>3, <1>5, <2>3
  <2>5. moved \in RowOrNone
    BY <2>2 DEF RowOrNone
  <2> HIDE DEF moved
  <2>6. CallTyped([c EXCEPT !.pc = "save", !.s = moved])
    BY <1>1, <1>2, <2>2, <2>5 DEF CallTyped, SessionCalls, SessionPcs
  <2> QED
    BY <1>1, <1>2, <1>5, <2>3, <2>4, <2>5, <2>6, InsideGoesOn DEF SessionPcs
<1> QED
  BY <1>4, <1>5 DEF MigrateRecord, Refuse

\* MigrateSession saves once more what RecordMigration has written.
LEMMA MigrateSaveStep ==
  ASSUME SessionInv, NEW t \in SessionCallers, NEW failed \in BOOLEAN, MigrateSave(t, failed)
  PROVE  SessionInv'
<1> DEFINE c == calls[t]
<1>1. /\ c.pc = "save" /\ c.op = "migrate" /\ Inside(c) /\ UNCHANGED cached
      /\ rows' = IF failed THEN rows ELSE [rows EXCEPT ![c.id] = c.s]
      /\ behind' = IF failed /\ cached[c.id] # NoRow THEN behind \cup {c.id} ELSE behind
      /\ IF failed THEN Return(t) ELSE Continue(t, "cache", c.s)
  BY SMTT(40) DEF MigrateSave, Inside
<1>2. CallTyped(c) /\ c.id \in SessionIds /\ rows \in [SessionIds -> RowOrNone]
      /\ cached \in [SessionIds -> RowOrNone] /\ c.s \in Row /\ c.s \in RowOrNone
  BY <1>1, AtWork DEF SessionInv, SessionTyped, CallTyped, SessionCalls, RowOrNone
<1>3. /\ rows' \in [SessionIds -> RowOrNone] /\ behind \subseteq behind'
      /\ \A k \in SessionIds \ {c.id} : rows'[k] = rows[k]
      /\ ~failed => rows'[c.id] = c.s
  BY <1>1, <1>2
<1>4. CASE failed
  <2>1. c.id \notin behind' => cached'[c.id] = NoRow
    BY <1>1, <1>4
  <2> QED
    BY <1>1, <1>2, <1>3, <1>4, <2>1, InsideReturns
<1>5. CASE ~failed
  <2>1. CallTyped([c EXCEPT !.pc = "cache", !.s = c.s])
    BY <1>1, <1>2 DEF CallTyped, SessionCalls, SessionPcs
  <2> QED
    BY <1>1, <1>2, <1>3, <1>5, <2>1, InsideGoesOn DEF SessionPcs
<1> QED
  BY <1>4, <1>5

\* The best-effort write into Redis at the end of a call.
LEMMA CacheStep ==
  ASSUME SessionInv, NEW t \in SessionCallers, NEW failed \in BOOLEAN, CacheSession(t, failed)
  PROVE  SessionInv'
<1> DEFINE c == calls[t]
<1>1. /\ c.pc = "cache" /\ UNCHANGED rows
      /\ cached' = IF failed THEN cached ELSE [cached EXCEPT ![c.id] = c.s]
      /\ behind' = IF failed /\ cached[c.id] \notin {NoRow, c.s} THEN behind \cup {c.id} ELSE behind
      /\ IF c.op = "create" THEN Continue(t, "enlist", c.s) ELSE Return(t)
  BY DEF CacheSession
<1>2. CallTyped(c) /\ c.id \in SessionIds /\ rows \in [SessionIds -> RowOrNone]
      /\ cached \in [SessionIds -> RowOrNone] /\ c.s \in RowOrNone /\ Inside(c)
  BY <1>1, AtWork DEF SessionInv, SessionTyped, CallTyped, SessionCalls, RowOrNone, Inside
<1>3. c.id \notin behind => c.s = rows[c.id]
  BY <1>1, <1>2 DEF SessionInv, InsideRelies, Relies
<1>4. /\ cached' \in [SessionIds -> RowOrNone] /\ behind \subseteq behind'
      /\ \A k \in SessionIds \ {c.id} : cached'[k] = cached[k]
  BY <1>1, <1>2
<1>5. c.id \notin behind' => cached'[c.id] \in {NoRow, rows'[c.id]}
  BY <1>1, <1>2, <1>3
<1>6. CASE c.op = "create"
  <2>1. CallTyped([c EXCEPT !.pc = "enlist", !.s = c.s])
    BY <1>2, <1>6 DEF CallTyped, SessionCalls, SessionPcs
  <2> QED
    BY <1>1, <1>2, <1>4, <1>5, <1>6, <2>1, InsideGoesOn DEF SessionPcs
<1>7. CASE c.op # "create"
  BY <1>1, <1>2, <1>4, <1>5, <1>7, InsideReturns
<1> QED
  BY <1>6, <1>7

\* SAdd at the end of CreateSession; SRem and the deletion of the row at the end
\* of CloseSession, whose cached copy is gone.
LEMMA ListSteps ==
  ASSUME SessionInv, NEW t \in SessionCallers, NEW failed \in BOOLEAN,
         EnlistSession(t, failed) \/ DelistSession(t, failed) \/ DeleteRow(t, failed)
  PROVE  SessionInv'
<1> DEFINE c == calls[t]
<1>1. c.pc \in {"enlist", "delist", "delete"}
  BY DEF EnlistSession, DelistSession, DeleteRow
<1>2. CallTyped(c) /\ c.id \in SessionIds /\ rows \in [SessionIds -> RowOrNone]
      /\ cached \in [SessionIds -> RowOrNone] /\ c.s \in RowOrNone /\ Inside(c) /\ NoRow \in RowOrNone
  BY <1>1, AtWork DEF SessionInv, SessionTyped, CallTyped, SessionCalls, RowOrNone, Inside
<1>3. c.id \notin behind => Relies(c)
  BY <1>2 DEF SessionInv, InsideRelies
<1>4. CASE EnlistSession(t, failed)
  <2>1. c.pc = "enlist" /\ Return(t) /\ UNCHANGED <<rows, cached, behind>>
    BY <1>4 DEF EnlistSession
  <2> QED
    BY <1>2, <1>3, <2>1, InsideReturns DEF Relies, Agrees
<1>5. CASE DelistSession(t, failed)
  <2>1. c.pc = "delist" /\ Continue(t, "delete", c.s) /\ UNCHANGED <<rows, cached, behind>>
    BY <1>5 DEF DelistSession
  <2>2. CallTyped([c EXCEPT !.pc = "delete", !.s = c.s])
    BY <1>2, <2>1 DEF CallTyped, SessionCalls, SessionPcs
  <2> QED
    BY <1>2, <1>3, <2>1, <2>2, InsideGoesOn DEF Relies, SessionPcs
<1>6. CASE DeleteRow(t, failed)
  <2>1. /\ c.pc = "delete" /\ Return(t) /\ UNCHANGED <<cached, behind>>
        /\ rows' = IF failed THEN rows ELSE [rows EXCEPT ![c.id] = NoRow]
    BY <1>6 DEF DeleteRow
  <2>2. rows' \in [SessionIds -> RowOrNone] /\ \A k \in SessionIds \ {c.id} : rows'[k] = rows[k]
    BY <1>2, <2>1
  <2>3. c.id \notin behind => cached[c.id] = NoRow
    BY <1>3, <2>1 DEF Relies
  <2> QED
    BY <1>2, <2>1, <2>2, <2>3, InsideReturns
<1> QED
  BY <1>4, <1>5, <1>6, SMTT(40)

\* CloseSession takes the copy out of Redis before it deletes the row.
LEMMA UncacheStep ==
  ASSUME SessionInv, NEW t \in SessionCallers, NEW failed \in BOOLEAN, UncacheSession(t, failed)
  PROVE  SessionInv'
<1> DEFINE c == calls[t]
<1>1. /\ c.pc = "uncache" /\ UNCHANGED rows /\ Continue(t, "delist", c.s)
      /\ cached' = IF failed THEN cached ELSE [cached EXCEPT ![c.id] = NoRow]
      /\ behind' = IF failed /\ cached[c.id] # NoRow THEN behind \cup {c.id} ELSE behind
  BY DEF UncacheSession
<1>2. CallTyped(c) /\ c.id \in SessionIds /\ rows \in [SessionIds -> RowOrNone]
      /\ cached \in [SessionIds -> RowOrNone] /\ c.s \in RowOrNone /\ Inside(c) /\ NoRow \in RowOrNone
  BY <1>1, AtWork DEF SessionInv, SessionTyped, CallTyped, SessionCalls, RowOrNone, Inside
<1>3. /\ cached' \in [SessionIds -> RowOrNone] /\ behind \subseteq behind'
      /\ \A k \in SessionIds \ {c.id} : cached'[k] = cached[k]
      /\ c.id \notin behind' => cached'[c.id] = NoRow
  BY <1>1, <1>2
<1>4. CallTyped([c EXCEPT !.pc = "delist", !.s = c.s])
  BY <1>1, <1>2 DEF CallTyped, SessionCalls, SessionPcs
<1> QED
  BY <1>1, <1>2, <1>3, <1>4, InsideGoesOn DEF SessionPcs

\* An entry of Redis expires.
LEMMA ExpireStep ==
  ASSUME SessionInv, NEW id \in SessionIds, ExpireCache(id)
  PROVE  SessionInv'
<1>1. /\ cached' = [cached EXCEPT ![id] = NoRow]
      /\ UNCHANGED <<rows, stripes, calls, behind>>
  BY DEF ExpireCache
<1>2. SessionTyped'
  BY <1>1 DEF SessionInv, SessionTyped, RowOrNone
<1>3. MutexHeld'
  BY <1>1 DEF SessionInv, MutexHeld
<1>4. \A k \in SessionIds : cached'[k] \in {cached[k], NoRow}
  BY <1>1 DEF SessionInv, SessionTyped
<1> QED
  BY <1>1, <1>2, <1>3, <1>4, OutsideStep

\* Every step keeps the invariant.
LEMMA SessionKeeps == SessionInv /\ [SessionNext]_sessionVars => SessionInv'
<1> SUFFICES ASSUME SessionInv, [SessionNext]_sessionVars PROVE SessionInv'
  OBVIOUS
<1>1. CASE UNCHANGED sessionVars
  BY <1>1, SMTT(40) DEF sessionVars, SessionInv, SessionTyped, MutexHeld, InsideRelies, CacheAgreesWithTable,
              Relies, Agrees
<1>2. ASSUME NEW t \in SessionCallers, NEW failed \in BOOLEAN, SessionStep(t, failed)
      PROVE  SessionInv'
  BY <1>2, LookupStep, RowReadStep, FillStep, SaveSteps, MigrateRecordStep, MigrateSaveStep,
     CacheStep, ListSteps, UncacheStep DEF SessionStep
<1> QED
  BY <1>1, <1>2, BeginSteps, LockStep, ExpireStep DEF SessionNext

\* A statement that changes a row whose copy was never left behind: which call
\* it belongs to and what it may change.
LEMMA RowMoves ==
  ASSUME SessionInv, [SessionNext]_sessionVars, NEW id \in SessionIds \ behind, rows'[id] # rows[id],
         ~StepOf({"create"})
  PROVE  /\ rows[id] # NoRow
         /\ rows'[id] # NoRow =>
              /\ rows'[id].bytes >= rows[id].bytes
              /\ rows'[id].node # rows[id].node => StepOf({"migrate"})
<1> DEFINE Goal == /\ rows[id] # NoRow
                   /\ rows'[id] # NoRow =>
                        /\ rows'[id].bytes >= rows[id].bytes
                        /\ rows'[id].node # rows[id].node => StepOf({"migrate"})
<1>1. ASSUME NEW t \in SessionCallers, NEW failed \in BOOLEAN,
             CreateSave(t, failed) \/ HeartbeatSave(t, failed) \/ MigrateRecord(t, failed)
               \/ MigrateSave(t, failed) \/ CloseSave(t, failed) \/ DeleteRow(t, failed)
      PROVE  Goal
  <2> DEFINE c == calls[t]
  <2>1. c.pc \in {"save", "have", "delete"} /\ c.op # "get" /\ Inside(c)
    <3>1. c.pc \in {"save", "have", "delete"}
      BY <1>1 DEF CreateSave, HeartbeatSave, MigrateRecord, MigrateSave, CloseSave, DeleteRow
    <3>2. c.op # "get"
      BY <3>1, AtWork DEF SessionInv, CallTyped, SessionCalls
    <3> QED
      BY <3>1, <3>2 DEF Inside
  <2>2. CallTyped(c) /\ c.id \in SessionIds /\ rows \in [SessionIds -> RowOrNone]
    BY <2>1, AtWork DEF SessionInv, SessionTyped
  <2>3. DOMAIN calls = SessionCallers
    BY DEF SessionInv, SessionTyped
  <2>4. \A pc, s : Continue(t, pc, s) => calls'[t].pc = pc
    BY <2>2, <2>3 DEF Continue, CallTyped, SessionCalls
  <2>5. c.id # id => rows'[id] = rows[id]
    BY <1>1, <2>2 DEF CreateSave, HeartbeatSave, MigrateRecord, MigrateSave, CloseSave, DeleteRow, SaveRow, Refuse
  <2>6. c.id = id /\ Relies(c)
    BY <2>1, <2>5 DEF SessionInv, InsideRelies
  <2>7. CASE CreateSave(t, failed)
    <3>1. c.op = "create" /\ c.pc = "save" /\ Continue(t, "cache", [node |-> c.node, bytes |-> 0, active |-> TRUE, migrated |-> 0])
      BY <2>6, <2>7 DEF CreateSave, SaveRow
    <3>2. calls'[t] # c
      BY <2>4, <3>1
    <3> QED
      BY <3>1, <3>2, SMTT(40) DEF StepOf
  <2>8. CASE HeartbeatSave(t, failed)
    <3>1. c.pc = "have" /\ c.bytes >= c.s.bytes /\ rows' = [rows EXCEPT ![c.id] = [c.s EXCEPT !.bytes = c.bytes]]
      BY <2>6, <2>8 DEF HeartbeatSave, SaveRow, Refuse, MayReport
    <3>2. c.s = rows[id] /\ c.s \in Row /\ c.bytes \in Int
      <4>1. c.s = rows[id]
        BY <2>6, <3>1 DEF Relies
      <4>2. c.s \in Row
        BY <2>2, <3>1 DEF CallTyped
      <4>3. c.bytes \in Int
        <5>1. c.bytes \in 0..MaxSessionBytes
          BY <2>2 DEF CallTyped, SessionCalls
        <5> QED
          BY <5>1, SessionAssumption, SMTT(40)
      <4> QED
        BY <4>1, <4>2, <4>3
    <3>3. rows'[id] = [c.s EXCEPT !.bytes = c.bytes]
      BY <2>2, <2>6, <3>1
    <3> QED
      BY <3>1, <3>2, <3>3, NoRowIsNone, SMTT(40) DEF Row
  <2>9. CASE MigrateRecord(t, failed)
    <3>1. /\ c.pc = "have" /\ c.op = "migrate" /\ rows[c.id] # NoRow
          /\ rows' = [rows EXCEPT ![c.id].node = c.node, ![c.id].migrated = @ + 1]
          /\ Continue(t, "save", [c.s EXCEPT !.node = c.node, !.migrated = @ + 1])
      BY <2>6, <2>9, SMTT(40) DEF MigrateRecord, Refuse
    <3>2. calls'[t] # c
      BY <2>4, <3>1
    <3>3. StepOf({"migrate"})
      BY <3>1, <3>2 DEF StepOf
    <3>4. rows[id] \in Row
      BY <2>2, <2>6, <3>1 DEF RowOrNone
    <3>5. rows'[id].bytes = rows[id].bytes /\ rows[id].bytes \in Int
      BY <2>2, <2>6, <3>1, <3>4, SMTT(40) DEF Row
    <3> QED
      BY <2>6, <3>1, <3>3, <3>5, SMTT(40)
  <2>10. CASE MigrateSave(t, failed)
    <3>1. c.pc = "save" /\ c.op = "migrate" /\ rows' = [rows EXCEPT ![c.id] = c.s]
      BY <2>6, <2>10 DEF MigrateSave
    <3>2. c.s = rows[id]
      BY <2>6, <3>1 DEF Relies
    <3> QED
      BY <2>2, <2>6, <3>1, <3>2
  <2>11. CASE CloseSave(t, failed)
    <3>1. c.pc = "have" /\ rows' = [rows EXCEPT ![c.id] = [c.s EXCEPT !.active = FALSE]]
      BY <2>6, <2>11 DEF CloseSave, SaveRow
    <3>2. c.s = rows[id] /\ c.s \in Row
      BY <2>2, <2>6, <3>1 DEF Relies, CallTyped, SessionCalls
    <3>3. rows'[id] = [c.s EXCEPT !.active = FALSE]
      BY <2>2, <2>6, <3>1
    <3> QED
      BY <3>2, <3>3, NoRowIsNone, SMTT(40) DEF Row
  <2>12. CASE DeleteRow(t, failed)
    <3>1. rows' = [rows EXCEPT ![c.id] = NoRow]
      BY <2>6, <2>12 DEF DeleteRow
    <3> QED
      BY <2>2, <2>6, <3>1
  <2> QED
    BY <1>1, <2>7, <2>8, <2>9, <2>10, <2>11, <2>12
<1> HIDE DEF Goal
<1>2. rows' # rows
  OBVIOUS
<1>3. ASSUME NEW t \in SessionCallers, NEW failed \in BOOLEAN, SessionStep(t, failed) PROVE Goal
  BY <1>1, <1>2, <1>3 DEF SessionStep, LookupCache, ReadRow, FillCache, CacheSession, EnlistSession,
                          UncacheSession, DelistSession
<1>4. \A t, c : Begin(t, c) => rows' = rows
  BY DEF Begin
<1>5. ASSUME NEW t \in SessionCallers, BeginFailover(t) PROVE FALSE
  BY <1>2, <1>4, <1>5 DEF BeginFailover
<1>6. \E t \in SessionCallers, failed \in BOOLEAN : SessionStep(t, failed)
  BY <1>2, <1>4, <1>5 DEF SessionNext, sessionVars, Lock, ExpireCache, BeginGet, BeginClose, BeginCreate,
                          BeginMigrate, BeginHeartbeat
<1>7. Goal
  BY <1>3, <1>6
<1> QED
  BY <1>7 DEF Goal

\* For any sessions, nodes, goroutines and any number of failures: outside the
\* three events the model names, Redis never holds anything but what Postgres
\* holds of a session nobody works on, and no row is moved back, decreased or
\* brought back by a call that read it before (session_manager.go).
THEOREM SessionsStayDisciplined == SessionSpec => SessionDiscipline
<1>1. SessionInit => SessionInv
  BY SessionStarts
<1>2. SessionInv /\ [SessionNext]_sessionVars => SessionInv'
  BY SessionKeeps
<1>3. SessionInv => CacheAgreesWithTable
  BY DEF SessionInv
<1>4. SessionInv /\ [SessionNext]_sessionVars
        => [\A id \in SessionIds \ behind : rows'[id] # rows[id] /\ ~StepOf({"create"}) =>
              /\ rows[id] # NoRow
              /\ rows'[id] # NoRow =>
                   /\ rows'[id].bytes >= rows[id].bytes
                   /\ rows'[id].node # rows[id].node => StepOf({"migrate"})]_sessionVars
  BY RowMoves
<1> QED
  BY <1>1, <1>2, <1>3, <1>4, PTL DEF SessionSpec, SessionDiscipline, TableMovesForward

(***************************************************************************)
(* The model registry                                                      *)
(***************************************************************************)

Artifacts == [mode : {"None", "Shadow", "Promoted", "RolledBack"}, generation : Nat,
              decisions : Nat, aged : BOOLEAN]
RegistryPcs == {"idle", "forget", "decision", "outcome", "ready", "promote"}

RegistryTyped ==
  /\ models \in [ModelKinds -> Artifacts]
  /\ evaluations \in [ModelKinds -> [samples : Nat, model : Nat, fsm : Nat]]
  /\ evidence \in [ModelKinds -> Nat]
  /\ call \in [ModelThreads -> [pc : RegistryPcs, kind : ModelKinds, ok : BOOLEAN]]

\* t is inside a call on kind k; inside a load, between its locks.
WorksOn(t, k) == call[t].pc # "idle" /\ call[t].kind = k
Loads(t, k) == call[t].pc = "forget" /\ call[t].kind = k

\* The artifact of kind k has been in shadow mode long enough.
Aged(k) == models[k].aged /\ models[k].decisions >= MinDecisions

\* A load that nothing overlaps has its kind for itself.
LoadsAlone ==
  \A k \in ModelKinds \ mixed, t, u \in ModelThreads : Loads(t, k) /\ WorksOn(u, k) => u = t

\* Outside a load, the evaluation counts outcomes of the artifact loaded.
OwnOutcomes ==
  \A k \in ModelKinds \ mixed :
    (\A t \in ModelThreads : ~Loads(t, k)) => evaluations[k].samples <= evidence[k]

\* What a call of promote has seen still holds, unless a load overlapped it.
SeenHolds ==
  \A t \in ModelThreads : call[t].pc \in {"ready", "promote"} =>
    /\ call[t].kind = Routing
    /\ Routing \notin mixed =>
         /\ Aged(Routing)
         /\ call[t].pc = "promote" => Routing \in passed /\ evidence[Routing] >= MinOutcomes

RegistryInv == RegistryTyped /\ LoadsAlone /\ OwnOutcomes /\ SeenHolds /\ PromotedEarned

\* A registry starts empty and nobody calls it.
LEMMA RegistryStarts == ModelsInit => RegistryInv
BY RegistryAssumption, SMTT(40)
   DEF ModelsInit, RegistryInv, RegistryTyped, LoadsAlone, OwnOutcomes, SeenHolds, PromotedEarned, ShadowPeriodServed,
       NoArtifact, NoCall, NoEvaluation, Artifacts, RegistryPcs, Loads, WorksOn

\* load_artifact, first lock: what the artifact before it had earned goes, and
\* calls in progress on the kind mark the load as overlapped.
LEMMA LoadInsertStep ==
  ASSUME RegistryInv, NEW t \in ModelThreads, NEW kind \in ModelKinds,
         NEW signed \in BOOLEAN, NEW verifies \in BOOLEAN, LoadInsert(t, kind, signed, verifies)
  PROVE  RegistryInv'
<1>1. /\ models' = [models EXCEPT ![kind] = [mode |-> "Shadow", generation |-> @.generation + 1,
                                             decisions |-> 0, aged |-> FALSE]]
      /\ evidence' = [evidence EXCEPT ![kind] = 0]
      /\ call' = [call EXCEPT ![t] = [pc |-> "forget", kind |-> kind, ok |-> TRUE]]
      /\ mixed' = IF \E u \in ModelThreads : ~Rests(u) /\ call[u].kind = kind
                    THEN mixed \union {kind} ELSE mixed \ {kind}
      /\ passed' = passed \ {kind} /\ evaluations' = evaluations /\ call[t].pc = "idle"
  BY DEF LoadInsert, Enter, Rests
<1>2. RegistryTyped'
  BY <1>1, SMTT(40) DEF RegistryInv, RegistryTyped, Artifacts, RegistryPcs
<1>3. \A k \in ModelKinds \ mixed' : k # kind => k \notin mixed
  BY <1>1
<1>4. kind \notin mixed' => \A u \in ModelThreads : ~WorksOn(u, kind)
  BY <1>1 DEF Rests, WorksOn
<1>5. /\ \A u \in ModelThreads \ {t} : call'[u] = call[u]
      /\ call'[t].pc = "forget" /\ call'[t].kind = kind
      /\ \A k \in ModelKinds \ {kind} : models'[k] = models[k] /\ evidence'[k] = evidence[k]
      /\ models'[kind].mode = "Shadow"
  BY <1>1 DEF RegistryInv, RegistryTyped
<1>6. LoadsAlone'
  BY <1>3, <1>4, <1>5, SMTT(40) DEF RegistryInv, LoadsAlone, Loads, WorksOn
<1>7. OwnOutcomes'
  BY <1>1, <1>3, <1>5, SMTT(40) DEF RegistryInv, OwnOutcomes, Loads
<1>8. SeenHolds'
  <2> SUFFICES ASSUME NEW u \in ModelThreads, call'[u].pc \in {"ready", "promote"}
               PROVE  /\ call'[u].kind = Routing
                      /\ Routing \notin mixed' =>
                           /\ Aged(Routing)'
                           /\ call'[u].pc = "promote" => Routing \in passed' /\ evidence'[Routing] >= MinOutcomes
    BY DEF SeenHolds
  <2>1. u # t /\ call'[u] = call[u]
    BY <1>5
  <2>2. CASE kind = Routing
    BY <1>4, <2>1, <2>2 DEF RegistryInv, SeenHolds, WorksOn
  <2>3. CASE kind # Routing
    BY <1>1, <1>3, <1>5, <2>1, <2>3, RegistryAssumption, SMTT(40) DEF RegistryInv, SeenHolds, Aged
  <2> QED
    BY <2>2, <2>3
<1>9. PromotedEarned'
  BY <1>1, <1>3, <1>5, SMTT(40) DEF RegistryInv, PromotedEarned, ShadowPeriodServed
<1> QED
  BY <1>2, <1>6, <1>7, <1>8, <1>9 DEF RegistryInv

\* load_artifact, second lock: the evaluation starts again.
LEMMA LoadForgetStep ==
  ASSUME RegistryInv, NEW t \in ModelThreads, LoadForget(t)
  PROVE  RegistryInv'
<1> DEFINE kind == call[t].kind
<1>1. /\ evaluations' = [evaluations EXCEPT ![kind] = NoEvaluation]
      /\ call' = [call EXCEPT ![t] = NoCall] /\ call[t].pc = "forget" /\ kind \in ModelKinds
      /\ UNCHANGED <<models, evidence, passed, mixed>>
  BY DEF LoadForget, Leave, RegistryInv, RegistryTyped
<1> HIDE DEF kind
<1>2. RegistryTyped'
  BY <1>1, RegistryAssumption DEF RegistryInv, RegistryTyped, RegistryPcs, NoCall, NoEvaluation
<1>3. /\ \A u \in ModelThreads \ {t} : call'[u] = call[u]
      /\ call'[t].pc = "idle"
      /\ evaluations'[kind].samples = 0 /\ evidence[kind] \in Nat
      /\ \A k \in ModelKinds \ {kind} : evaluations'[k] = evaluations[k]
  BY <1>1 DEF RegistryInv, RegistryTyped, NoCall, NoEvaluation
<1>4. LoadsAlone'
  BY <1>1, <1>3, SMTT(40) DEF RegistryInv, LoadsAlone, Loads, WorksOn
<1>5. OwnOutcomes'
  BY <1>1, <1>3, SMTT(40) DEF RegistryInv, OwnOutcomes, Loads, kind
<1>6. SeenHolds'
  BY <1>1, <1>3, SMTT(40) DEF RegistryInv, SeenHolds, Aged
<1>7. PromotedEarned'
  BY <1>1 DEF RegistryInv, PromotedEarned, ShadowPeriodServed
<1> QED
  BY <1>2, <1>4, <1>5, <1>6, <1>7 DEF RegistryInv

\* The first lock of a call other than a load (record_shadow_decision,
\* record_shadow_outcome, promote): the call is noted, nothing else changes.
LEMMA RegistryReadStep ==
  ASSUME RegistryInv, NEW t \in ModelThreads, NEW kind \in ModelKinds,
         NEW pc \in {"decision", "outcome", "ready"}, pc = "ready" => Seasoned(kind),
         Rests(t), Enter(t, pc, kind, TRUE), Begins(kind),
         UNCHANGED <<models, evaluations, evidence, passed>>
  PROVE  RegistryInv'
<1>1. /\ call' = [call EXCEPT ![t] = [pc |-> pc, kind |-> kind, ok |-> TRUE]] /\ call[t].pc = "idle"
      /\ mixed' = IF \E u \in ModelThreads : Loads(u, kind) THEN mixed \union {kind} ELSE mixed
  BY DEF Enter, Rests, Begins, Loads
<1>2. RegistryTyped'
  BY <1>1 DEF RegistryInv, RegistryTyped, RegistryPcs
<1>3. /\ \A u \in ModelThreads \ {t} : call'[u] = call[u]
      /\ call'[t].pc = pc /\ call'[t].kind = kind
      /\ mixed \subseteq mixed'
  BY <1>1 DEF RegistryInv, RegistryTyped
<1>4. kind \notin mixed' => \A u \in ModelThreads : ~Loads(u, kind)
  BY <1>1
<1>5. LoadsAlone'
  BY <1>3, <1>4, SMTT(40) DEF RegistryInv, LoadsAlone, Loads, WorksOn
<1>6. OwnOutcomes'
  BY <1>1, <1>3, <1>4, SMTT(40) DEF RegistryInv, OwnOutcomes, Loads
<1>7. SeenHolds'
  <2> SUFFICES ASSUME NEW u \in ModelThreads, call'[u].pc \in {"ready", "promote"}
               PROVE  /\ call'[u].kind = Routing
                      /\ Routing \notin mixed' =>
                           /\ Aged(Routing)'
                           /\ call'[u].pc = "promote" => Routing \in passed' /\ evidence'[Routing] >= MinOutcomes
    BY DEF SeenHolds
  <2>1. CASE u = t
    BY <1>3, <2>1 DEF Seasoned, Aged
  <2>2. CASE u # t
    BY <1>3, <2>2 DEF RegistryInv, SeenHolds, Aged
  <2> QED
    BY <2>1, <2>2
<1>8. PromotedEarned'
  BY <1>3 DEF RegistryInv, PromotedEarned, ShadowPeriodServed
<1> QED
  BY <1>2, <1>5, <1>6, <1>7, <1>8 DEF RegistryInv

\* record_shadow_decision, second lock: the counter only rises.
LEMMA DecisionCountStep ==
  ASSUME RegistryInv, NEW t \in ModelThreads, DecisionCount(t)
  PROVE  RegistryInv'
<1> DEFINE kind == call[t].kind
<1>1. /\ models' = [models EXCEPT ![kind].decisions = IF @ < MaxDecisions THEN @ + 1 ELSE @]
      /\ call' = [call EXCEPT ![t] = NoCall] /\ call[t].pc = "decision" /\ kind \in ModelKinds
      /\ UNCHANGED <<evaluations, evidence, passed, mixed>>
  BY DEF DecisionCount, Leave, RegistryInv, RegistryTyped
<1> HIDE DEF kind
<1>c. [models[kind] EXCEPT !.decisions = IF @ < MaxDecisions THEN @ + 1 ELSE @] \in Artifacts
  <2>1. \A d \in Nat : (IF d < MaxDecisions THEN d + 1 ELSE d) \in Nat
    BY RegistryAssumption, SMTT(40)
  <2>2. models[kind] \in Artifacts
    BY <1>1 DEF RegistryInv, RegistryTyped
  <2>3. \A m \in Artifacts, d \in Nat : m.decisions \in Nat /\ [m EXCEPT !.decisions = d] \in Artifacts
    BY DEF Artifacts
  <2> QED
    BY <2>1, <2>2, <2>3
<1>n. NoCall \in [pc : RegistryPcs, kind : ModelKinds, ok : BOOLEAN]
  BY RegistryAssumption DEF NoCall, RegistryPcs
<1>2. RegistryTyped'
  BY <1>1, <1>c, <1>n DEF RegistryInv, RegistryTyped
<1>3. /\ \A u \in ModelThreads \ {t} : call'[u] = call[u]
      /\ call'[t].pc = "idle"
      /\ \A k \in ModelKinds : /\ models'[k].mode = models[k].mode /\ models'[k].aged = models[k].aged
                               /\ models'[k].decisions >= models[k].decisions
                               /\ models[k].decisions \in Nat /\ models'[k].decisions \in Nat
  BY <1>1, RegistryAssumption, SMTT(40) DEF RegistryInv, RegistryTyped, NoCall, Artifacts
<1>4. LoadsAlone'
  BY <1>1, <1>3, SMTT(40) DEF RegistryInv, LoadsAlone, Loads, WorksOn
<1>5. OwnOutcomes'
  BY <1>1, <1>3, SMTT(40) DEF RegistryInv, OwnOutcomes, Loads
<1>6. \A k \in ModelKinds : Aged(k) => Aged(k)'
  BY <1>3, RegistryAssumption, SMTT(40) DEF Aged
<1>7. SeenHolds'
  BY <1>1, <1>3, <1>6, RegistryAssumption, SMTT(40) DEF RegistryInv, SeenHolds
<1>8. PromotedEarned'
  BY <1>1, <1>3, <1>6, SMTT(40) DEF RegistryInv, PromotedEarned, ShadowPeriodServed, Aged
<1> QED
  BY <1>2, <1>4, <1>5, <1>7, <1>8 DEF RegistryInv

\* record_shadow_outcome, second lock: one more outcome, of this artifact.
LEMMA OutcomeObserveStep ==
  ASSUME RegistryInv, NEW t \in ModelThreads, NEW modelWon \in BOOLEAN, NEW fsmWon \in BOOLEAN,
         OutcomeObserve(t, modelWon, fsmWon)
  PROVE  RegistryInv'
<1> DEFINE kind == call[t].kind
           after(e) == [samples |-> e.samples + 1,
                        model |-> IF modelWon THEN e.model + 1 ELSE e.model,
                        fsm |-> IF fsmWon THEN e.fsm + 1 ELSE e.fsm]
<1>1. /\ evaluations' = [evaluations EXCEPT ![kind] = after(evaluations[kind])]
      /\ evidence' = [evidence EXCEPT ![kind] = evidence[kind] + 1]
      /\ call' = [call EXCEPT ![t] = NoCall] /\ call[t].pc = "outcome" /\ kind \in ModelKinds
      /\ UNCHANGED <<models, passed, mixed>>
  BY DEF OutcomeObserve, Leave, RegistryInv, RegistryTyped
<1>2. \A e \in [samples : Nat, model : Nat, fsm : Nat] :
        after(e) \in [samples : Nat, model : Nat, fsm : Nat] /\ after(e).samples = e.samples + 1
  BY SMTT(40)
<1> HIDE DEF kind, after
<1>3. RegistryTyped'
  BY <1>1, <1>2, RegistryAssumption, SMTT(40) DEF RegistryInv, RegistryTyped, RegistryPcs, NoCall
<1>4. /\ \A u \in ModelThreads \ {t} : call'[u] = call[u]
      /\ call'[t].pc = "idle"
      /\ \A k \in ModelKinds : /\ evidence[k] \in Nat /\ evidence'[k] \in Nat /\ evidence'[k] >= evidence[k]
                               /\ evaluations[k].samples \in Nat
                               /\ k # kind => evaluations'[k] = evaluations[k]
      /\ evidence'[kind] = evidence[kind] + 1
      /\ evaluations'[kind].samples = evaluations[kind].samples + 1
  BY <1>1, <1>2, SMTT(40) DEF RegistryInv, RegistryTyped, NoCall
<1>5. LoadsAlone'
  BY <1>1, <1>4, SMTT(40) DEF RegistryInv, LoadsAlone, Loads, WorksOn
<1>6. OwnOutcomes'
  <2> SUFFICES ASSUME NEW k \in ModelKinds \ mixed, \A u \in ModelThreads : ~Loads(u, k)'
               PROVE  evaluations'[k].samples <= evidence'[k]
    BY <1>1 DEF OwnOutcomes
  <2>1. \A u \in ModelThreads : ~Loads(u, k)
    BY <1>1, <1>4, SMTT(40) DEF Loads
  <2>2. evaluations[k].samples <= evidence[k]
    BY <2>1 DEF RegistryInv, OwnOutcomes
  <2> QED
    BY <1>4, <2>2, SMTT(40)
<1>7. SeenHolds'
  BY <1>1, <1>4, RegistryAssumption, SMTT(40) DEF RegistryInv, SeenHolds, Aged
<1>8. PromotedEarned'
  BY <1>1, <1>4, RegistryAssumption, SMTT(40) DEF RegistryInv, PromotedEarned, ShadowPeriodServed
<1> QED
  BY <1>3, <1>5, <1>6, <1>7, <1>8 DEF RegistryInv

\* SHADOW_MIN_DURATION passes.
LEMMA SevenDaysStep ==
  ASSUME RegistryInv, NEW kind \in ModelKinds, SevenDays(kind)
  PROVE  RegistryInv'
<1>1. /\ models' = [models EXCEPT ![kind].aged = TRUE]
      /\ UNCHANGED <<evaluations, call, evidence, passed, mixed>>
  BY DEF SevenDays
<1>2. RegistryTyped'
  BY <1>1 DEF RegistryInv, RegistryTyped, Artifacts
<1>3. \A k \in ModelKinds : /\ models'[k].mode = models[k].mode /\ models'[k].decisions = models[k].decisions
                            /\ models[k].aged => models'[k].aged
  BY <1>1, SMTT(40) DEF RegistryInv, RegistryTyped, Artifacts
<1>4. LoadsAlone' /\ OwnOutcomes'
  BY <1>1, SMTT(40) DEF RegistryInv, LoadsAlone, OwnOutcomes, Loads, WorksOn
<1>5. SeenHolds'
  BY <1>1, <1>3, RegistryAssumption DEF RegistryInv, SeenHolds, Aged
<1>6. PromotedEarned'
  BY <1>1, <1>3 DEF RegistryInv, PromotedEarned, ShadowPeriodServed
<1> QED
  BY <1>2, <1>4, <1>5, <1>6 DEF RegistryInv

\* promotion_readiness, second lock: the gate is met on outcomes of the artifact
\* loaded, because no load is between its locks when nothing overlaps it.
LEMMA PromoteCheckStep ==
  ASSUME RegistryInv, NEW t \in ModelThreads, PromoteCheck(t)
  PROVE  RegistryInv'
<1>1. /\ call[t].pc = "ready" /\ call[t].kind = Routing
      /\ UNCHANGED <<models, evaluations, evidence, mixed>>
  BY DEF PromoteCheck, RegistryInv, SeenHolds
<1>2. CASE QualityGate(evaluations[Routing])
  <2>1. call' = [call EXCEPT ![t].pc = "promote"] /\ passed' = passed \union {Routing}
    BY <1>1, <1>2 DEF PromoteCheck
  <2>2. RegistryTyped'
    BY <1>1, <2>1, SMTT(40) DEF RegistryInv, RegistryTyped, RegistryPcs
  <2>3. /\ \A u \in ModelThreads \ {t} : call'[u] = call[u]
        /\ call'[t].pc = "promote" /\ call'[t].kind = Routing
    BY <1>1, <2>1 DEF RegistryInv, RegistryTyped
  <2>4. LoadsAlone' /\ OwnOutcomes'
    BY <1>1, <2>3, SMTT(40) DEF RegistryInv, LoadsAlone, OwnOutcomes, Loads, WorksOn
  <2>5. Routing \notin mixed => evidence[Routing] >= MinOutcomes
    <3> SUFFICES ASSUME Routing \notin mixed PROVE evidence[Routing] >= MinOutcomes
      OBVIOUS
    <3>1. \A u \in ModelThreads : ~Loads(u, Routing)
      BY <1>1, RegistryAssumption DEF RegistryInv, LoadsAlone, Loads, WorksOn
    <3>2. evaluations[Routing].samples <= evidence[Routing]
      BY <3>1, RegistryAssumption DEF RegistryInv, OwnOutcomes
    <3>3. evaluations[Routing].samples \in Nat /\ evidence[Routing] \in Nat
      BY RegistryAssumption DEF RegistryInv, RegistryTyped
    <3> QED
      BY <1>2, <3>2, <3>3, RegistryAssumption, SMTT(40) DEF QualityGate
  <2>6. SeenHolds'
    BY <1>1, <2>1, <2>3, <2>5 DEF RegistryInv, SeenHolds, Aged
  <2>7. PromotedEarned'
    BY <1>1, <2>1 DEF RegistryInv, PromotedEarned, ShadowPeriodServed
  <2> QED
    BY <2>2, <2>4, <2>6, <2>7 DEF RegistryInv
<1>3. CASE ~QualityGate(evaluations[Routing])
  <2>1. call' = [call EXCEPT ![t] = NoCall] /\ passed' = passed
    BY <1>1, <1>3 DEF PromoteCheck, Leave
  <2>2. RegistryTyped'
    BY <1>1, <2>1, RegistryAssumption DEF RegistryInv, RegistryTyped, RegistryPcs, NoCall
  <2>3. (\A u \in ModelThreads \ {t} : call'[u] = call[u]) /\ call'[t].pc = "idle"
    BY <2>1 DEF RegistryInv, RegistryTyped, NoCall
  <2>4. LoadsAlone' /\ OwnOutcomes'
    BY <1>1, <2>3, SMTT(40) DEF RegistryInv, LoadsAlone, OwnOutcomes, Loads, WorksOn
  <2>5. SeenHolds'
    BY <1>1, <2>1, <2>3, SMTT(40) DEF RegistryInv, SeenHolds, Aged
  <2>6. PromotedEarned'
    BY <1>1, <2>1 DEF RegistryInv, PromotedEarned, ShadowPeriodServed
  <2> QED
    BY <2>2, <2>4, <2>5, <2>6 DEF RegistryInv
<1> QED
  BY <1>2, <1>3

\* promote, under the write lock: what it saw still holds.
LEMMA PromoteCommitStep ==
  ASSUME RegistryInv, NEW t \in ModelThreads, PromoteCommit(t)
  PROVE  RegistryInv'
<1>1. /\ call[t].pc = "promote" /\ call[t].kind = Routing
      /\ call' = [call EXCEPT ![t] = NoCall]
      /\ models' = IF models[Routing].mode = "Shadow"
                     THEN [models EXCEPT ![Routing].mode = "Promoted"] ELSE models
      /\ UNCHANGED <<evaluations, evidence, passed, mixed>>
  BY DEF PromoteCommit, Leave, RegistryInv, SeenHolds
<1>c. Routing \in ModelKinds /\ [models[Routing] EXCEPT !.mode = "Promoted"] \in Artifacts
  BY RegistryAssumption, SMTT(40) DEF RegistryInv, RegistryTyped, Artifacts
<1>n. NoCall \in [pc : RegistryPcs, kind : ModelKinds, ok : BOOLEAN]
  BY RegistryAssumption DEF NoCall, RegistryPcs
<1>2. RegistryTyped'
  BY <1>1, <1>c, <1>n DEF RegistryInv, RegistryTyped
<1>3. /\ (\A u \in ModelThreads \ {t} : call'[u] = call[u]) /\ call'[t].pc = "idle"
      /\ \A k \in ModelKinds : /\ models'[k].aged = models[k].aged
                               /\ models'[k].decisions = models[k].decisions
                               /\ k # Routing => models'[k].mode = models[k].mode
  BY <1>1, RegistryAssumption, SMTT(40) DEF RegistryInv, RegistryTyped, Artifacts, NoCall
<1>4. LoadsAlone' /\ OwnOutcomes'
  BY <1>1, <1>3, SMTT(40) DEF RegistryInv, LoadsAlone, OwnOutcomes, Loads, WorksOn
<1>5. SeenHolds'
  BY <1>1, <1>3, RegistryAssumption, SMTT(40) DEF RegistryInv, SeenHolds, Aged
<1>6. PromotedEarned'
  BY <1>1, <1>3, SMTT(40) DEF RegistryInv, PromotedEarned, ShadowPeriodServed, SeenHolds, Aged
<1> QED
  BY <1>2, <1>4, <1>5, <1>6 DEF RegistryInv

\* rollback takes a model out of force and leaves the rest of it alone.
LEMMA RollbackStep ==
  ASSUME RegistryInv, NEW kind \in ModelKinds, Rollback(kind)
  PROVE  RegistryInv'
<1>1. /\ models' = [models EXCEPT ![kind].mode = "RolledBack"]
      /\ UNCHANGED <<evaluations, call, evidence, passed, mixed>>
  BY DEF Rollback
<1>2. RegistryTyped'
  BY <1>1, SMTT(40) DEF RegistryInv, RegistryTyped, Artifacts
<1>3. \A k \in ModelKinds : /\ models'[k].aged = models[k].aged
                            /\ models'[k].decisions = models[k].decisions
                            /\ models'[k].mode \in {models[k].mode, "RolledBack"}
  BY <1>1, SMTT(40) DEF RegistryInv, RegistryTyped, Artifacts
<1>4. LoadsAlone' /\ OwnOutcomes'
  BY <1>1, SMTT(40) DEF RegistryInv, LoadsAlone, OwnOutcomes, Loads, WorksOn
<1>5. SeenHolds'
  BY <1>1, <1>3, RegistryAssumption DEF RegistryInv, SeenHolds, Aged
<1>6. PromotedEarned'
  BY <1>1, <1>3, SMTT(40) DEF RegistryInv, PromotedEarned, ShadowPeriodServed
<1> QED
  BY <1>2, <1>4, <1>5, <1>6 DEF RegistryInv

\* Every step of the registry, the bookkeeping steps included, keeps the invariant.
LEMMA RegistryStep == RegistryInv /\ [ModelsNext]_modelVars => RegistryInv'
<1> SUFFICES ASSUME RegistryInv, [ModelsNext]_modelVars PROVE RegistryInv'
  OBVIOUS
<1>1. CASE UNCHANGED <<models, evaluations, call, evidence, passed, mixed>>
  BY <1>1 DEF RegistryInv, RegistryTyped, LoadsAlone, OwnOutcomes, SeenHolds, PromotedEarned, ShadowPeriodServed,
              Loads, WorksOn, Aged
<1>2. ASSUME NEW t \in ModelThreads, NEW kind \in ModelKinds,
             DecisionRead(t, kind) \/ OutcomeRead(t, kind) \/ PromoteRead(t, kind)
      PROVE  RegistryInv'
  <2>1. CASE DecisionRead(t, kind)
    BY <2>1, RegistryReadStep DEF DecisionRead
  <2>2. CASE OutcomeRead(t, kind)
    BY <2>2, RegistryReadStep DEF OutcomeRead
  <2>3. CASE PromoteRead(t, kind)
    BY <2>3, RegistryReadStep DEF PromoteRead
  <2> QED
    BY <1>2, <2>1, <2>2, <2>3
<1>3. CASE UNCHANGED modelVars
  BY <1>1, <1>3 DEF modelVars
<1>4. CASE AddTrustedKey
  BY <1>1, <1>4 DEF AddTrustedKey
<1> QED
  BY <1>2, <1>3, <1>4, LoadInsertStep, LoadForgetStep, DecisionCountStep, OutcomeObserveStep,
     SevenDaysStep, PromoteCheckStep, PromoteCommitStep, RollbackStep DEF ModelsNext

\* A rolled-back artifact leaves that mode only for a new generation.
LEMMA RolledBackStep ==
  ASSUME RegistryInv, [ModelsNext]_modelVars, NEW k \in ModelKinds, models[k].mode = "RolledBack",
         models'[k].generation = models[k].generation
  PROVE  models'[k].mode = "RolledBack"
<1> USE DEF RegistryInv, RegistryTyped, Artifacts
<1>1. ASSUME NEW t \in ModelThreads, NEW kind \in ModelKinds, NEW signed \in BOOLEAN,
             NEW verifies \in BOOLEAN, LoadInsert(t, kind, signed, verifies)
      PROVE  models'[k].mode = "RolledBack"
  BY <1>1, SMTT(40) DEF LoadInsert
<1>2. ASSUME NEW t \in ModelThreads, DecisionCount(t) PROVE models'[k].mode = "RolledBack"
  BY <1>2, SMTT(40) DEF DecisionCount
<1>3. ASSUME NEW t \in ModelThreads, PromoteCommit(t) PROVE models'[k].mode = "RolledBack"
  BY <1>3 DEF PromoteCommit
<1>4. ASSUME NEW kind \in ModelKinds, SevenDays(kind) \/ Rollback(kind)
      PROVE  models'[k].mode = "RolledBack"
  BY <1>4, SMTT(40) DEF SevenDays, Rollback
<1>5. CASE UNCHANGED modelVars \/ AddTrustedKey
  BY <1>5 DEF modelVars, AddTrustedKey
<1>6. ASSUME NEW t \in ModelThreads, NEW kind \in ModelKinds,
             DecisionRead(t, kind) \/ OutcomeRead(t, kind) \/ PromoteRead(t, kind)
      PROVE  models'[k].mode = "RolledBack"
  BY <1>6 DEF DecisionRead, OutcomeRead, PromoteRead
<1>7. ASSUME NEW t \in ModelThreads,
             LoadForget(t) \/ PromoteCheck(t) \/ \E m, f \in BOOLEAN : OutcomeObserve(t, m, f)
      PROVE  models'[k].mode = "RolledBack"
  BY <1>7 DEF LoadForget, PromoteCheck, OutcomeObserve
<1> HIDE DEF RegistryInv, RegistryTyped, Artifacts
<1> QED
  BY <1>1, <1>2, <1>3, <1>4, <1>5, <1>6, <1>7 DEF ModelsNext

\* Whatever kinds, threads and bounds there are, a model in force has gone
\* through its own shadow period and met the gate on its own outcomes, unless a
\* call overlapped its load, and a rollback stands until the next load
\* (promotion_readiness, promote, rollback).
THEOREM PromotionsAreEarned == ModelsSpec => PromotionDiscipline
<1>1. ModelsInit => RegistryInv
  BY RegistryStarts
<1>2. RegistryInv /\ [ModelsNext]_modelVars => RegistryInv'
  BY RegistryStep
<1>3. RegistryInv => PromotedEarned
  BY DEF RegistryInv
<1>4. RegistryInv /\ [ModelsNext]_modelVars
        => [\A k \in ModelKinds :
              (models[k].mode = "RolledBack" /\ models'[k].generation = models[k].generation)
                => models'[k].mode = "RolledBack"]_modelVars
  BY RolledBackStep
<1> QED
  BY <1>1, <1>2, <1>3, <1>4, PTL DEF ModelsSpec, PromotionDiscipline, RolledBackStaysOut
==============================================================================

---------------------------- MODULE TokenService ----------------------------
(***************************************************************************)
(* The anti-forgery service: antiforgery-server's gRPC handlers issue      *)
(* subscription tokens and chain every issuance into the audit log         *)
(* (server.rs, audit.rs, token.rs), and the zero-knowledge registry        *)
(* registers live tokens and checks proofs that they have not expired      *)
(* (zkp.rs).  Signatures, commitments and hashes are symbolic: a token or  *)
(* commitment verifies exactly if its issuer made it.  The service keeps   *)
(* its log in memory; the database copy of from_records may be edited.     *)
(* Below, sharing no state with it, the library's replay protection.       *)
(***************************************************************************)
EXTENDS Filters, FiniteSets

CONSTANTS Handlers, Quotas, MaxExpiry, MaxIssued

ASSUME TokenAssumption == /\ Quotas \subseteq Int
                          /\ MaxExpiry \in Nat /\ MaxIssued \in Nat

VARIABLES
  records,     \* AuditLog: [seq, payload, prev, hash]
  handling,    \* handler -> the claims it has signed and not yet logged, or {}
  receipts,    \* what callers were told: [claims, seq, hash]
  registered,  \* EligibilityRegistry.active: commitments, one per claims
  now,         \* unix seconds
  nonces       \* uuids drawn

tokenVars == <<records, handling, receipts, registered, now, nonces>>

NoHash == <<"none">>

RecordHash(seq, prev, payload) == <<"record", seq, prev, payload>>

\* Claims as data: only the fields the checks look at.
IsExpired(c, t) == t >= c.expires

BytesRemaining(c) == IF c.total > c.used THEN c.total - c.used ELSE 0

\* Mutant of IsLive: either condition is enough.
IsLiveEither(c, t) == ~IsExpired(c, t) \/ BytesRemaining(c) > 0

IsLive(c, t) == ~IsExpired(c, t) /\ BytesRemaining(c) > 0

RootHash(log) == IF log = <<>> THEN NoHash ELSE log[Len(log)].hash

AppendRecord(log, payload) ==
  LET seq == Len(log) IN
  Append(log, [seq |-> seq, payload |-> payload, prev |-> RootHash(log),
               hash |-> RecordHash(seq, RootHash(log), payload)])

\* Mutant of ChainVerifies: the links are checked, the hashes are not.
LinksOnly(log) ==
  \A i \in DOMAIN log : log[i].prev = (IF i = 1 THEN NoHash ELSE log[i - 1].hash)

\* AuditLog::verify.
ChainVerifies(log) ==
  \A i \in DOMAIN log :
    /\ log[i].prev = (IF i = 1 THEN NoHash ELSE log[i - 1].hash)
    /\ log[i].hash = RecordHash(log[i].seq, log[i].prev, log[i].payload)

-----------------------------------------------------------------------------
TokenInit ==
  /\ records = <<>> /\ receipts = {} /\ registered = {} /\ now = 0 /\ nonces = 0
  /\ handling = [h \in Handlers |-> {}]

\* issue_token: the claims are built, with a fresh nonce, and signed ...
SignToken(h, quota, expires) ==
  /\ handling[h] = {}
  /\ nonces < MaxIssued
  /\ handling' = [handling EXCEPT ![h] =
        {[total |-> quota, used |-> 1, expires |-> expires, nonce |-> nonces]}]
  /\ nonces' = nonces + 1
  /\ UNCHANGED <<records, receipts, registered, now>>

\* Mutant of ReceiptHash: the root when the handler answers, not the record appended.
ReceiptFromRoot(log, seq) == RootHash(records)

ReceiptHash(log, seq) == log[seq + 1].hash

\* ... then, under the audit lock, appended and the record's hash read back.
LogToken(h) ==
  /\ \E c \in handling[h] :
        /\ records' = AppendRecord(records, c)
        /\ receipts' = receipts \cup {[claims |-> c, seq |-> Len(records),
                                       hash |-> ReceiptHash(records', Len(records))]}
  /\ handling' = [handling EXCEPT ![h] = {}]
  /\ UNCHANGED <<registered, now, nonces>>

\* register_verified_paseto accepts a token that verifies and is live now.
RegisterCredential(c) ==
  /\ IsLive(c, now)
  /\ registered' = registered \cup {c}
  /\ UNCHANGED <<records, handling, receipts, now, nonces>>

RevokeCredential(c) ==
  /\ registered' = registered \ {c}
  /\ UNCHANGED <<records, handling, receipts, now, nonces>>

ClockTick ==
  /\ now <= MaxExpiry
  /\ now' = now + 1
  /\ UNCHANGED <<records, handling, receipts, registered, nonces>>

Issued == {r.claims : r \in receipts}

TokenNext ==
  \/ \E h \in Handlers, q \in Quotas, e \in 0..MaxExpiry : SignToken(h, q, e)
  \/ \E h \in Handlers : LogToken(h)
  \/ \E c \in Issued : RegisterCredential(c) \/ RevokeCredential(c)
  \/ ClockTick

TokenSpec == TokenInit /\ [][TokenNext]_tokenVars

-----------------------------------------------------------------------------
(* Expiry proofs.  prove_unexpired(t) exists iff expires - (t + 1) does not *)
(* underflow; verify_unexpired wants the time to match, the commitment to   *)
(* be registered and the range proof to hold for the shifted commitment.    *)

ExpiryDelta(c, t) == c.expires - (t + 1)

Provable(c, t) == ExpiryDelta(c, t) >= 0

VerifyUnexpired(c, provedAt, t) ==
  /\ provedAt = t
  /\ c \in registered
  /\ Provable(c, provedAt)

\* verify_token: what the service answers about a token at a time.
VerifyToken(c, t) ==
  IF c \in Issued
  THEN [signatureValid |-> TRUE, expired |-> IsExpired(c, t),
        quotaExhausted |-> BytesRemaining(c) <= 0, live |-> IsLive(c, t)]
  ELSE [signatureValid |-> FALSE, expired |-> FALSE, quotaExhausted |-> FALSE, live |-> FALSE]

TokenTypeOK ==
  /\ \A i \in DOMAIN records : records[i].seq = i - 1
  /\ registered \subseteq Issued
  /\ now \in 0..(MaxExpiry + 1) /\ nonces \in 0..MaxIssued

\* The answer of issue_token identifies the caller's own record, however many
\* handlers run: at the returned sequence number the log holds the caller's
\* claims under the returned hash, and the chain as a whole verifies.
ReceiptsHold ==
  /\ ChainVerifies(records)
  /\ \A r \in receipts : /\ records[r.seq + 1].payload = r.claims
                         /\ records[r.seq + 1].hash = r.hash

\* A registered credential verifies as unexpired exactly while verify_token
\* calls its token live, to the second, and never for one without bytes left:
\* the zero-knowledge check and the service's own answer do not disagree.
ProofMatchesToken ==
  \A c \in registered, t \in 0..(MaxExpiry + 1) :
    LET answer == VerifyToken(c, t)
    IN /\ VerifyUnexpired(c, t, t) <=> answer.live
       /\ answer.signatureValid /\ ~answer.quotaExhausted
       /\ answer.live <=> ~answer.expired

\* Every single edit of a stored record's payload or number, and every swap of
\* two records or removal of one that another follows, is reported by verify.
EditSurfaces ==
  \A i \in DOMAIN records :
    /\ \A n \in 0..Len(records) \ {records[i].seq} :
         ~ChainVerifies([records EXCEPT ![i].seq = n])
    /\ \A c \in Issued \ {records[i].payload} :
         ~ChainVerifies([records EXCEPT ![i].payload = c])
    /\ \A j \in DOMAIN records \ {i} :
         ~ChainVerifies([records EXCEPT ![i] = records[j], ![j] = records[i]])
    /\ i < Len(records) => ~ChainVerifies(Without(records, i))

\* The service's records can be relied on, however many handlers append to them:
\* a receipt finds its record, no edit passes verify unnoticed, and a registered
\* credential is good exactly as long as its token (issue_token, verify).
LedgerHolds == ReceiptsHold /\ ProofMatchesToken /\ EditSurfaces

\* audit.rs, verify: "a deleted record all surface here": whichever record is
\* deleted from the stored log, verify reports it.
DeletionSurfaces ==
  \A i \in DOMAIN records : ~ChainVerifies(Without(records, i))

------------------------------------------------------------------------------
(* Replay protection of privileged requests (antiforgery/src/replay.rs)    *)
(* and the device registry that limits concurrent devices (device.rs), in  *)
(* the order the crate's scenario test uses them: a refresh is verified    *)
(* against the rotating keys and the clock, its nonce is recorded, then    *)
(* the device is registered.  The three are calls of their own on three    *)
(* objects, so handlers interleave and time passes between them.  The      *)
(* network may deliver a captured refresh again at any later time.  An     *)
(* HMAC tag is the key it was made with.                                   *)

CONSTANTS Nonces, Devices, Ttl, Skew, MaxDevices, MaxTime, MaxKeys

ASSUME ReplayAssumption ==
  /\ Ttl \in Nat \ {0} /\ Skew \in Nat /\ MaxTime \in Nat /\ MaxKeys \in Nat
  /\ MaxDevices \in Nat

VARIABLES
  seen,       \* nonce -> expiry (a partial function)
  keys,       \* <<current, previous>>, key generations; 0 is "no previous key"
  requests,   \* refreshes ever sent: [nonce, stamp, key, device]
  refreshing, \* handler -> its refresh: [step, request, verified]
  passes,     \* nonces let through: [nonce, stamp, verified, at], in order
  devices,    \* active fingerprints of the subscription
  clock

replayVars == <<seen, keys, requests, refreshing, passes, devices, clock>>

NoRefresh == [step |-> "idle"]

ReplayInit ==
  /\ seen = [n \in {} |-> 0] /\ keys = <<1, 0>>
  /\ requests = {} /\ refreshing = [h \in Handlers |-> NoRefresh] /\ passes = <<>>
  /\ devices = {} /\ clock = 0

\* A client whose clock is off by at most Skew tags and sends a refresh; each
\* refresh has a nonce of its own.
SendRefresh(n, stamp, device) ==
  /\ \A r \in requests : r.nonce # n
  /\ stamp \in (clock - Skew)..(clock + Skew)
  /\ requests' = requests \cup
       {[nonce |-> n, stamp |-> stamp, key |-> keys[1], device |-> device]}
  /\ UNCHANGED <<seen, keys, refreshing, passes, devices, clock>>

StampFresh(stamp) == (IF clock > stamp THEN clock - stamp ELSE stamp - clock) <= Skew

\* RefreshVerifier::verify.
VerifyRefresh(r) == StampFresh(r.stamp) /\ r.key \in {keys[1], keys[2]}

\* A refresh that verifies goes on; another one leaves nothing behind.
BeginRefresh(h, r) ==
  /\ refreshing[h].step = "idle" /\ VerifyRefresh(r)
  /\ refreshing' = [refreshing EXCEPT ![h] = [step |-> "record", request |-> r, verified |-> clock]]
  /\ UNCHANGED <<seen, keys, requests, passes, devices, clock>>

Live == {n \in DOMAIN seen : seen[n] > clock}

\* Mutant of Remember: the nonces seen before are dropped.
RememberOnly(n) == [m \in {n} |-> clock + Ttl]

\* check_and_record prunes, refuses a live nonce, and remembers it otherwise.
Remember(n) == [m \in Live \cup {n} |-> IF m = n THEN clock + Ttl ELSE seen[m]]

RecordNonce(h) ==
  LET r == refreshing[h].request
  IN /\ refreshing[h].step = "record" /\ r.nonce \notin Live
     /\ seen' = Remember(r.nonce)
     /\ passes' = Append(passes, [nonce |-> r.nonce, stamp |-> r.stamp,
                                  verified |-> refreshing[h].verified, at |-> clock])
     /\ refreshing' = [refreshing EXCEPT ![h].step = "register"]
     /\ UNCHANGED <<keys, requests, devices, clock>>

\* A live nonce is refused; the others are pruned all the same.
RefuseReplay(h) ==
  /\ refreshing[h].step = "record" /\ refreshing[h].request.nonce \in Live
  /\ seen' = [m \in Live |-> seen[m]]
  /\ refreshing' = [refreshing EXCEPT ![h] = NoRefresh]
  /\ UNCHANGED <<keys, requests, passes, devices, clock>>

\* Mutant of RegisterDevice: the limit is not checked.
RegisterDeviceLoose(d) == devices \cup {d}

\* DeviceRegistry::register, a no-op for an active device, refused at the limit.
RegisterDevice(d) ==
  IF d \in devices \/ Cardinality(devices) < MaxDevices THEN devices \cup {d} ELSE devices

AdmitDevice(h) ==
  /\ refreshing[h].step = "register"
  /\ devices' = RegisterDevice(refreshing[h].request.device)
  /\ refreshing' = [refreshing EXCEPT ![h] = NoRefresh]
  /\ UNCHANGED <<seen, keys, requests, passes, clock>>

\* Mutant of RotatedKeys: the previous key is not kept.
RotatedKeysDrop == <<keys[1] + 1, 0>>

RotatedKeys == <<keys[1] + 1, keys[1]>>

RotateKey ==
  /\ keys[1] < MaxKeys
  /\ keys' = RotatedKeys
  /\ UNCHANGED <<seen, requests, refreshing, passes, devices, clock>>

ReleaseDevice(d) ==
  /\ devices' = devices \ {d}
  /\ UNCHANGED <<seen, keys, requests, refreshing, passes, clock>>

Advance ==
  /\ clock < MaxTime
  /\ clock' = clock + 1
  /\ UNCHANGED <<seen, keys, requests, refreshing, passes, devices>>

ReplayNext ==
  \/ \E n \in Nonces, t \in 0..(MaxTime + Skew), d \in Devices : SendRefresh(n, t, d)
  \/ \E h \in Handlers : \/ \E r \in requests : BeginRefresh(h, r)
                          \/ RecordNonce(h) \/ RefuseReplay(h) \/ AdmitDevice(h)
  \/ \E d \in Devices : ReleaseDevice(d)
  \/ RotateKey \/ Advance

ReplaySpec == ReplayInit /\ [][ReplayNext]_replayVars

ReplayTypeOK ==
  /\ DOMAIN seen \subseteq Nonces
  /\ keys[1] \in 1..MaxKeys /\ keys[2] \in 0..(MaxKeys - 1)
  /\ \A h \in Handlers : refreshing[h].step \in {"idle", "record", "register"}
  /\ devices \subseteq Devices /\ clock \in 0..MaxTime

-----------------------------------------------------------------------------
\* "so a captured request cannot be replayed": a refresh goes through at most
\* once.  It does not hold: a call that verified in time and comes to
\* check_and_record after the nonce has expired lets it through again, at once
\* if the ttl is no longer than the two skews, which nothing relates.
AcceptedOnce == \A i, j \in DOMAIN passes : passes[i].nonce = passes[j].nonce => i = j

\* What the guard and the verifier keep of it, for any ttl and skew: the passes of
\* one nonce lie a ttl apart ("rejects a nonce that has already been seen within
\* its TTL window"), and a captured refresh passes again only in a call that took
\* at least the ttl less twice the skew from verify to check_and_record (50 s
\* with the scenario's 60 000 ms and 5 000 ms).
ReplayNeedsStall ==
  \A i, j \in DOMAIN passes : i < j /\ passes[i].nonce = passes[j].nonce =>
    /\ passes[j].at >= passes[i].at + Ttl
    /\ passes[j].at - passes[j].verified >= Ttl - 2 * Skew

\* A rotation invalidates no refresh in flight: one rotation after it was
\* tagged, a refresh with a fresh stamp still verifies ("Both remain accepted
\* until the next rotation").
RotationKeepsInFlight ==
  \A r \in requests : keys[1] - r.key <= 1 /\ StampFresh(r.stamp) => VerifyRefresh(r)

\* No sequence of refreshes and releases leaves more devices active than the
\* subscription's limit.
DeviceLimitHolds == Cardinality(devices) <= MaxDevices

\* A refresh passes again only after a ttl and in a stalled call, is not lost to
\* a rotation and buys no device above the limit (check_and_record,
\* RefreshVerifier::rotate, DeviceRegistry::register).
RefreshDiscipline == ReplayNeedsStall /\ RotationKeepsInFlight /\ DeviceLimitHolds
==============================================================================

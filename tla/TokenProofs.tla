----------------------------- MODULE TokenProofs -----------------------------
(***************************************************************************)
(* Proofs about the antiforgery service: issuance and the audit log, then  *)
(* refreshes, their nonces and the devices they register.                  *)
(***************************************************************************)
EXTENDS TokenService, FiniteSetTheorems, TLAPS

USE ZenonT(40)

(***************************************************************************)
(* The token service: issuance and the audit log                           *)
(***************************************************************************)

Claims == [total : Quotas, used : {1}, expires : 0..MaxExpiry, nonce : Nat]

\* The log is a sequence; hashes nest without a bound, so its elements have no
\* set of their own.
IsLog(log) == \E S : log \in Seq(S)

PrevOf(log, i) == IF i = 1 THEN NoHash ELSE log[i - 1].hash

\* A record is chained to the one before it and carries its own number.
Chained(log) ==
  \A i \in 1..Len(log) :
    /\ DOMAIN log[i] = {"seq", "payload", "prev", "hash"}
    /\ log[i].seq = i - 1 /\ log[i].payload \in Claims /\ log[i].prev = PrevOf(log, i)
    /\ log[i].hash = RecordHash(i - 1, PrevOf(log, i), log[i].payload)

Found(r) ==
  /\ r.claims \in Claims /\ r.seq \in Nat /\ r.seq < Len(records)
  /\ records[r.seq + 1].payload = r.claims /\ records[r.seq + 1].hash = r.hash

TokenInv ==
  /\ IsLog(records) /\ Chained(records)
  /\ handling \in [Handlers -> SUBSET Claims]
  /\ \A r \in receipts : Found(r)
  /\ \A c \in registered : c \in Issued /\ c.total > c.used
  /\ now \in Nat /\ nonces \in Nat

\* Appending to a log.
LEMMA LogAppends ==
  ASSUME NEW log, IsLog(log), NEW x
  PROVE  /\ IsLog(Append(log, x)) /\ Len(log) \in Nat /\ Len(Append(log, x)) = Len(log) + 1
         /\ \A i \in 1..Len(log) : Append(log, x)[i] = log[i]
         /\ Append(log, x)[Len(log) + 1] = x
<1>1. PICK S : log \in Seq(S)
  BY DEF IsLog
<1>2. log \in Seq(S \cup {x})
  BY <1>1, SMTT(40)
<1>3. Append(log, x) \in Seq(S \cup {x})
  BY <1>2, SMTT(40)
<1> QED
  BY <1>2, <1>3, SMTT(40) DEF IsLog

\* The root is the hash of the last record.
LEMMA RootIsPrev ==
  ASSUME NEW log, IsLog(log)
  PROVE  RootHash(log) = PrevOf(log, Len(log) + 1)
<1>1. PICK S : log \in Seq(S)
  BY DEF IsLog
<1>2. CASE log = <<>>
  BY <1>2, SMTT(40) DEF RootHash, PrevOf
<1>3. CASE log # <<>>
  <2>1. Len(log) \in Nat /\ Len(log) # 0
    BY <1>1, <1>3, SMTT(40)
  <2> QED
    BY <1>3, <2>1, SMTT(40) DEF RootHash, PrevOf
<1> QED
  BY <1>2, <1>3

\* AuditLog::append keeps the chain.
LEMMA AppendChains ==
  ASSUME NEW log, IsLog(log), Chained(log), NEW c \in Claims
  PROVE  /\ IsLog(AppendRecord(log, c)) /\ Chained(AppendRecord(log, c))
         /\ Len(log) \in Nat /\ Len(AppendRecord(log, c)) = Len(log) + 1
         /\ \A i \in 1..Len(log) : AppendRecord(log, c)[i] = log[i]
         /\ AppendRecord(log, c)[Len(log) + 1].payload = c
<1> DEFINE x == [seq |-> Len(log), payload |-> c, prev |-> RootHash(log),
                 hash |-> RecordHash(Len(log), RootHash(log), c)]
           longer == Append(log, x)
<1>1. AppendRecord(log, c) = longer
  BY DEF AppendRecord
<1>2. /\ DOMAIN x = {"seq", "payload", "prev", "hash"} /\ x.seq = Len(log) /\ x.payload = c
      /\ x.prev = RootHash(log) /\ x.hash = RecordHash(Len(log), RootHash(log), c)
  OBVIOUS
<1>3. /\ DOMAIN x = {"seq", "payload", "prev", "hash"} /\ x.seq = Len(log) /\ x.payload \in Claims
      /\ x.prev = PrevOf(log, Len(log) + 1)
      /\ x.hash = RecordHash(Len(log), PrevOf(log, Len(log) + 1), x.payload)
  BY <1>2, RootIsPrev
<1> HIDE DEF x
<1>4. /\ IsLog(longer) /\ Len(log) \in Nat /\ Len(longer) = Len(log) + 1
      /\ \A i \in 1..Len(log) : longer[i] = log[i]
      /\ longer[Len(log) + 1] = x
  BY LogAppends
<1> HIDE DEF longer
<1>5. \A i \in 1..(Len(log) + 1) : PrevOf(longer, i) = PrevOf(log, i)
  BY <1>4, SMTT(40) DEF PrevOf
<1>6. ASSUME NEW i \in 1..Len(longer)
      PROVE  /\ DOMAIN longer[i] = {"seq", "payload", "prev", "hash"}
             /\ longer[i].seq = i - 1 /\ longer[i].payload \in Claims /\ longer[i].prev = PrevOf(longer, i)
             /\ longer[i].hash = RecordHash(i - 1, PrevOf(longer, i), longer[i].payload)
  <2>1. CASE i \in 1..Len(log)
    <3>1. longer[i] = log[i] /\ PrevOf(longer, i) = PrevOf(log, i)
      BY <1>4, <1>5, <2>1
    <3> QED
      BY <2>1, <3>1 DEF Chained
  <2>2. CASE i = Len(log) + 1
    <3>1. longer[i] = x /\ PrevOf(longer, i) = PrevOf(log, Len(log) + 1) /\ i - 1 = Len(log)
      BY <1>4, <1>5, <2>2, SMTT(40)
    <3> QED
      BY <1>3, <3>1
  <2> QED
    BY <1>4, <1>6, <2>1, <2>2, SMTT(40)
<1>7. Chained(longer)
  BY <1>6 DEF Chained
<1> QED
  BY <1>1, <1>2, <1>4, <1>7

\* issue_token under the audit lock.
LEMMA LogTokenStep ==
  ASSUME TokenInv, NEW h \in Handlers, LogToken(h)
  PROVE  TokenInv'
<1>1. PICK c \in handling[h] :
        /\ records' = AppendRecord(records, c)
        /\ receipts' = receipts \cup {[claims |-> c, seq |-> Len(records),
                                       hash |-> ReceiptHash(records', Len(records))]}
  BY DEF LogToken
<1>2. handling' = [handling EXCEPT ![h] = {}] /\ UNCHANGED <<registered, now, nonces>>
  BY DEF LogToken
<1>3. c \in Claims /\ IsLog(records) /\ Chained(records)
  BY DEF TokenInv
<1>4. /\ IsLog(records') /\ Chained(records')
      /\ Len(records) \in Nat /\ Len(records') = Len(records) + 1
      /\ \A i \in 1..Len(records) : records'[i] = records[i]
      /\ records'[Len(records) + 1].payload = c
  BY <1>1, <1>3, AppendChains
<1>5. ASSUME NEW r \in receipts' PROVE Found(r)'
  <2>1. CASE r \in receipts
    <3>1. Found(r) /\ r.seq + 1 \in 1..Len(records)
      BY <1>4, <2>1, SMTT(40) DEF TokenInv, Found
    <3>2. records'[r.seq + 1] = records[r.seq + 1]
      BY <1>4, <3>1
    <3> QED
      BY <1>4, <3>1, <3>2, SMTT(40) DEF Found
  <2>2. CASE r = [claims |-> c, seq |-> Len(records), hash |-> ReceiptHash(records', Len(records))]
    BY <1>3, <1>4, <2>2, SMTT(40) DEF Found, ReceiptHash
  <2> QED
    BY <1>1, <1>5, <2>1, <2>2
<1>6. Issued \subseteq Issued'
  BY <1>1 DEF Issued
<1>7. handling' \in [Handlers -> SUBSET Claims]
  BY <1>2 DEF TokenInv
<1> QED
  BY <1>2, <1>4, <1>5, <1>6, <1>7 DEF TokenInv

\* Handlers, registrations, revocations and time.
LEMMA TokenKeeps == TokenInv /\ [TokenNext]_tokenVars => TokenInv'
<1> SUFFICES ASSUME TokenInv, [TokenNext]_tokenVars PROVE TokenInv'
  OBVIOUS
<1> USE TokenAssumption
<1>1. CASE UNCHANGED tokenVars
  BY <1>1 DEF TokenInv, tokenVars, Found, Issued
<1>2. ASSUME NEW h \in Handlers, NEW q \in Quotas, NEW e \in 0..MaxExpiry, SignToken(h, q, e)
      PROVE  TokenInv'
  <2>1. /\ handling' = [handling EXCEPT ![h] = {[total |-> q, used |-> 1, expires |-> e, nonce |-> nonces]}]
        /\ nonces' = nonces + 1 /\ UNCHANGED <<records, receipts, registered, now>>
    BY <1>2 DEF SignToken
  <2>2. [total |-> q, used |-> 1, expires |-> e, nonce |-> nonces] \in Claims
    BY DEF Claims, TokenInv
  <2>3. handling' \in [Handlers -> SUBSET Claims] /\ nonces' \in Nat
    BY <2>1, <2>2, SMTT(40) DEF TokenInv
  <2> QED
    BY <2>1, <2>3 DEF TokenInv, Found, Issued
<1>3. ASSUME NEW c \in Issued, RegisterCredential(c) PROVE TokenInv'
  <2>1. registered' = registered \cup {c} /\ UNCHANGED <<records, handling, receipts, now, nonces>>
    BY <1>3 DEF RegisterCredential
  <2>2. PICK r \in receipts : c = r.claims
    BY DEF Issued
  <2>c. c \in Claims
    BY <2>2 DEF TokenInv, Found
  <2>d. c.total \in Quotas /\ c.used = 1
    BY <2>c DEF Claims
  <2>e. Quotas \subseteq Int
    BY TokenAssumption
  <2>f. c.total \in Int
    BY <2>d, <2>e
  <2>3. c.total \in Int /\ c.used \in Int
    BY <2>d, <2>f, SMTT(40)
  <2>4. c.total > c.used
    BY <1>3, <2>3, SMTT(40) DEF RegisterCredential, IsLive, BytesRemaining
  <2> QED
    BY <2>1, <2>4 DEF TokenInv, Found, Issued
<1>4. ASSUME NEW c \in Issued, RevokeCredential(c) PROVE TokenInv'
  BY <1>4 DEF RevokeCredential, TokenInv, Found, Issued
<1>5. CASE ClockTick
  <2>1. now' = now + 1 /\ UNCHANGED <<records, handling, receipts, registered, nonces>>
    BY <1>5 DEF ClockTick
  <2> QED
    BY <2>1, SMTT(40) DEF TokenInv, Found, Issued
<1> QED
  BY <1>1, <1>2, <1>3, <1>4, <1>5, LogTokenStep DEF TokenNext

\* Two records of a chain have different hashes, and none the hash of no record.
LEMMA HashesDiffer ==
  ASSUME NEW log, Chained(log), NEW i \in 1..Len(log)
  PROVE  /\ log[i].hash # NoHash
         /\ \A j \in 1..Len(log) : log[j].hash = log[i].hash => j = i
<1>1. \A k \in 1..Len(log) : log[k].hash = RecordHash(k - 1, PrevOf(log, k), log[k].payload)
  BY DEF Chained
<1>2. \A k \in 1..Len(log) : log[k].hash[1] = "record" /\ log[k].hash[2] = k - 1
  BY <1>1, SMTT(40) DEF RecordHash
<1>3. NoHash[1] = "none"
  BY DEF NoHash
<1>4. log[i].hash # NoHash
  BY <1>2, <1>3
<1>5. ASSUME NEW j \in 1..Len(log), log[j].hash = log[i].hash PROVE j = i
  <2>1. j - 1 = i - 1
    BY <1>2, <1>5
  <2> QED
    BY <2>1, SMTT(40)
<1> QED
  BY <1>4, <1>5

\* A record that is not where it was appended does not follow the record before
\* it: this is what a swap and a removal both run into.
LEMMA MovedSurfaces ==
  ASSUME NEW log, Chained(log), NEW other, NEW to \in Nat \ {0}, NEW from \in 1..Len(log), to < from,
         to \in DOMAIN other, other[to] = log[from],
         to > 1 => other[to - 1] = log[to - 1]
  PROVE  ~ChainVerifies(other)
<1> SUFFICES ASSUME ChainVerifies(other) PROVE FALSE
  OBVIOUS
<1>1. from - 1 \in 1..Len(log) /\ from # 1
  BY SMTT(40)
<1>2. log[from].prev = log[from - 1].hash
  <2>1. log[from].prev = PrevOf(log, from)
    BY DEF Chained
  <2> QED
    BY <1>1, <2>1 DEF PrevOf
<1>3. other[to].prev = IF to = 1 THEN NoHash ELSE other[to - 1].hash
  BY DEF ChainVerifies
<1>4. CASE to = 1
  BY <1>1, <1>2, <1>3, <1>4, HashesDiffer
<1>5. CASE to # 1
  <2>1. to - 1 \in 1..Len(log) /\ to - 1 # from - 1
    BY <1>5, SMTT(40)
  <2>2. log[to - 1].hash = log[from - 1].hash
    BY <1>2, <1>3, <1>5, SMTT(40)
  <2> QED
    BY <1>1, <2>1, <2>2, HashesDiffer
<1> QED
  BY <1>4, <1>5

\* Without moves the next record one place down.
LEMMA RemovedMoves ==
  ASSUME NEW log, IsLog(log), NEW i \in 1..Len(log), i < Len(log)
  PROVE  /\ i \in DOMAIN Without(log, i) /\ Without(log, i)[i] = log[i + 1]
         /\ i > 1 => Without(log, i)[i - 1] = log[i - 1]
<1>1. PICK S : log \in Seq(S)
  BY DEF IsLog
<1>2. Len(log) \in Nat /\ \A k \in 1..Len(log) : log[k] \in S
  BY <1>1, SMTT(40)
<1> QED
  BY <1>2, SMTT(40) DEF Without

\* An edited payload or number, two records swapped, a record removed before the end.
LEMMA EditsSurface == TokenInv => EditSurfaces
<1> SUFFICES ASSUME TokenInv, NEW i \in DOMAIN records
             PROVE  /\ \A n \in 0..Len(records) \ {records[i].seq} :
                         ~ChainVerifies([records EXCEPT ![i].seq = n])
                    /\ \A c \in Issued \ {records[i].payload} :
                         ~ChainVerifies([records EXCEPT ![i].payload = c])
                    /\ \A j \in DOMAIN records \ {i} :
                         ~ChainVerifies([records EXCEPT ![i] = records[j], ![j] = records[i]])
                    /\ i < Len(records) => ~ChainVerifies(Without(records, i))
  BY DEF EditSurfaces
<1>1. IsLog(records) /\ Chained(records)
  BY DEF TokenInv
<1>2. DOMAIN records = 1..Len(records) /\ Len(records) \in Nat
  BY <1>1, SMTT(40) DEF IsLog
<1>3. ASSUME NEW c, c # records[i].payload PROVE ~ChainVerifies([records EXCEPT ![i].payload = c])
  <2> DEFINE other == [records EXCEPT ![i].payload = c]
  <2>1. /\ records[i].hash = RecordHash(i - 1, PrevOf(records, i), records[i].payload)
        /\ records[i].seq = i - 1 /\ records[i].prev = PrevOf(records, i)
        /\ DOMAIN records[i] = {"seq", "payload", "prev", "hash"}
    BY <1>1, <1>2 DEF Chained
  <2>2. other[i] = [records[i] EXCEPT !.payload = c] /\ i \in DOMAIN other
    OBVIOUS
  <2>3. other[i].hash = records[i].hash /\ other[i].seq = records[i].seq /\ other[i].prev = records[i].prev
        /\ other[i].payload = c
    BY <2>1, <2>2
  <2> HIDE DEF other
  <2>4. RecordHash(i - 1, PrevOf(records, i), records[i].payload) # RecordHash(i - 1, PrevOf(records, i), c)
    BY <1>3 DEF RecordHash
  <2>5. ~ChainVerifies(other)
    BY <2>1, <2>2, <2>3, <2>4, SMTT(40) DEF ChainVerifies
  <2> QED
    BY <2>5 DEF other
<1>6. ASSUME NEW n, n # records[i].seq PROVE ~ChainVerifies([records EXCEPT ![i].seq = n])
  <2> DEFINE other == [records EXCEPT ![i].seq = n]
  <2>1. /\ records[i].hash = RecordHash(i - 1, PrevOf(records, i), records[i].payload)
        /\ records[i].seq = i - 1 /\ records[i].prev = PrevOf(records, i)
        /\ DOMAIN records[i] = {"seq", "payload", "prev", "hash"}
    BY <1>1, <1>2 DEF Chained
  <2>2. other[i] = [records[i] EXCEPT !.seq = n] /\ i \in DOMAIN other
    OBVIOUS
  <2>3. other[i].hash = records[i].hash /\ other[i].payload = records[i].payload /\ other[i].prev = records[i].prev
        /\ other[i].seq = n
    BY <2>1, <2>2
  <2> HIDE DEF other
  <2>4. RecordHash(i - 1, PrevOf(records, i), records[i].payload)
          # RecordHash(n, PrevOf(records, i), records[i].payload)
    BY <1>6, <2>1 DEF RecordHash
  <2>5. ~ChainVerifies(other)
    BY <2>1, <2>2, <2>3, <2>4, SMTT(40) DEF ChainVerifies
  <2> QED
    BY <2>5 DEF other
<1>4. ASSUME NEW j \in DOMAIN records \ {i}
      PROVE  ~ChainVerifies([records EXCEPT ![i] = records[j], ![j] = records[i]])
  <2> DEFINE other == [records EXCEPT ![i] = records[j], ![j] = records[i]]
  <2>1. /\ other[i] = records[j] /\ other[j] = records[i] /\ DOMAIN other = DOMAIN records
        /\ \A k \in DOMAIN records \ {i, j} : other[k] = records[k]
    BY <1>4
  <2> HIDE DEF other
  <2>2. CASE i < j
    <3>1. i > 1 => i - 1 \in DOMAIN records \ {i, j}
      BY <1>2, <2>2, SMTT(40)
    <3>2. i > 1 => other[i - 1] = records[i - 1]
      BY <2>1, <3>1
    <3>3. i \in Nat \ {0} /\ j \in 1..Len(records) /\ i \in DOMAIN other
      BY <1>2, <1>4, <2>1, SMTT(40)
    <3>4. ~ChainVerifies(other)
      BY <1>1, <2>1, <2>2, <3>2, <3>3, MovedSurfaces
    <3> QED
      BY <3>4 DEF other
  <2>3. CASE j < i
    <3>1. j > 1 => j - 1 \in DOMAIN records \ {i, j}
      BY <1>2, <1>4, <2>3, SMTT(40)
    <3>2. j > 1 => other[j - 1] = records[j - 1]
      BY <2>1, <3>1
    <3>3. j \in Nat \ {0} /\ i \in 1..Len(records) /\ j \in DOMAIN other
      BY <1>2, <1>4, <2>1, SMTT(40)
    <3>4. ~ChainVerifies(other)
      BY <1>1, <2>1, <2>3, <3>2, <3>3, MovedSurfaces
    <3> QED
      BY <3>4 DEF other
  <2> QED
    BY <1>2, <1>4, <2>2, <2>3, SMTT(40)
<1>5. ASSUME i < Len(records) PROVE ~ChainVerifies(Without(records, i))
  <2>1. /\ i \in DOMAIN Without(records, i) /\ Without(records, i)[i] = records[i + 1]
        /\ i > 1 => Without(records, i)[i - 1] = records[i - 1]
    BY <1>1, <1>2, <1>5, RemovedMoves
  <2>2. i + 1 \in 1..Len(records) /\ i < i + 1 /\ i \in Nat \ {0}
    BY <1>2, <1>5, SMTT(40)
  <2> QED
    BY <1>1, <2>1, <2>2, MovedSurfaces
<1> QED
  BY <1>3, <1>4, <1>5, <1>6

\* For any handlers, quotas and expiry times: every receipt identifies its own
\* record in a log that verifies, every edit that is not the removal of the last
\* record is reported, and a registered credential proves unexpired exactly
\* while its token is live (server.rs, audit.rs, zkp.rs).
THEOREM LedgerStaysTrue == TokenSpec => []LedgerHolds
<1>1. TokenInit => TokenInv
  <2> SUFFICES ASSUME TokenInit PROVE TokenInv
    OBVIOUS
  <2>1. records \in Seq({}) /\ Len(records) = 0
    BY SMTT(40) DEF TokenInit
  <2>2. IsLog(records)
    BY <2>1 DEF IsLog
  <2> QED
    BY <2>1, <2>2, SMTT(40) DEF TokenInit, TokenInv, Chained
<1>2. TokenInv => ReceiptsHold
  <2> SUFFICES ASSUME TokenInv PROVE ReceiptsHold
    OBVIOUS
  <2>1. IsLog(records) /\ Chained(records)
    BY DEF TokenInv
  <2>2. DOMAIN records = 1..Len(records)
    BY <2>1, SMTT(40) DEF IsLog
  <2>3. ASSUME NEW i \in DOMAIN records
        PROVE  /\ records[i].prev = (IF i = 1 THEN NoHash ELSE records[i - 1].hash)
               /\ records[i].hash = RecordHash(records[i].seq, records[i].prev, records[i].payload)
    <3>2. records[i].seq = i - 1 /\ records[i].prev = PrevOf(records, i)
          /\ records[i].hash = RecordHash(i - 1, PrevOf(records, i), records[i].payload)
      BY <2>1, <2>2 DEF Chained
    <3> QED
      BY <3>2 DEF PrevOf
  <2> QED
    BY <2>3 DEF ReceiptsHold, ChainVerifies, TokenInv, Found
<1>3. TokenInv => ProofMatchesToken
  <2> SUFFICES ASSUME TokenInv, NEW c \in registered, NEW t \in 0..(MaxExpiry + 1)
               PROVE  /\ VerifyUnexpired(c, t, t) <=> VerifyToken(c, t).live
                      /\ VerifyToken(c, t).signatureValid /\ ~VerifyToken(c, t).quotaExhausted
                      /\ VerifyToken(c, t).live <=> ~VerifyToken(c, t).expired
    BY DEF ProofMatchesToken
  <2>1. c \in Issued /\ c.total > c.used
    BY DEF TokenInv
  <2>2. PICK r \in receipts : c = r.claims
    BY <2>1 DEF Issued
  <2>c. c \in Claims
    BY <2>2 DEF TokenInv, Found
  <2>d. c.total \in Quotas /\ c.used = 1 /\ c.expires \in 0..MaxExpiry
    BY <2>c DEF Claims
  <2>e. Quotas \subseteq Int /\ MaxExpiry \in Nat
    BY TokenAssumption
  <2>f. c.total \in Int
    BY <2>d, <2>e
  <2>3. c.total \in Int /\ c.used \in Int /\ c.expires \in Int /\ t \in Int
    BY <2>d, <2>e, <2>f, SMTT(40)
  <2>4. VerifyToken(c, t) = [signatureValid |-> TRUE, expired |-> IsExpired(c, t),
                             quotaExhausted |-> BytesRemaining(c) <= 0, live |-> IsLive(c, t)]
    BY <2>1 DEF VerifyToken
  <2>5. BytesRemaining(c) > 0 /\ ~(BytesRemaining(c) <= 0)
    BY <2>1, <2>3, SMTT(40) DEF BytesRemaining
  <2>6. IsLive(c, t) <=> ~IsExpired(c, t)
    BY <2>5 DEF IsLive
  <2>7. VerifyUnexpired(c, t, t) <=> ~IsExpired(c, t)
    BY <2>3, SMTT(40) DEF VerifyUnexpired, Provable, ExpiryDelta, IsExpired
  <2> DEFINE answer(v, e, q, l) == [signatureValid |-> v, expired |-> e, quotaExhausted |-> q, live |-> l]
  <2>a. \A v, e, q, l : /\ answer(v, e, q, l).signatureValid = v /\ answer(v, e, q, l).expired = e
                        /\ answer(v, e, q, l).quotaExhausted = q /\ answer(v, e, q, l).live = l
    OBVIOUS
  <2>b. PICK e \in BOOLEAN : e = IsExpired(c, t)
    <3>1. IsExpired(c, t) \in BOOLEAN
      BY SMTT(40) DEF IsExpired
    <3> QED
      BY <3>1
  <2>g. PICK l \in BOOLEAN : l = IsLive(c, t)
    BY DEF IsLive
  <2>h. PICK q \in BOOLEAN : q = (BytesRemaining(c) <= 0)
    <3>1. (BytesRemaining(c) <= 0) \in BOOLEAN
      BY SMTT(40)
    <3> QED
      BY <3>1
  <2>j. PICK v \in BOOLEAN : v = TRUE
    OBVIOUS
  <2>i. VerifyToken(c, t) = answer(v, e, q, l)
    BY <2>4, <2>b, <2>g, <2>h, <2>j
  <2> HIDE DEF answer
  <2>8. /\ VerifyToken(c, t).signatureValid = v /\ VerifyToken(c, t).quotaExhausted = q
        /\ VerifyToken(c, t).live = l /\ VerifyToken(c, t).expired = e
    BY <2>a, <2>i, SMTT(40)
  <2>k. v /\ ~q
    BY <2>5, <2>h, <2>j
  <2>9. l <=> ~e
    BY <2>6, <2>b, <2>g
  <2>10. VerifyUnexpired(c, t, t) <=> l
    BY <2>6, <2>7, <2>g
  <2> QED
    BY <2>8, <2>9, <2>10, <2>k
<1> QED
  BY <1>1, <1>2, <1>3, TokenKeeps, EditsSurface, PTL DEF TokenSpec, LedgerHolds

(***************************************************************************)
(* Replay protection and the device limit                                  *)
(***************************************************************************)

Refreshes == [nonce : Nonces, stamp : Nat, key : Nat, device : Devices]

InHand == [step : {"record", "register"}, request : Refreshes, verified : Nat]

Passes == [nonce : Nonces, stamp : Nat, verified : Nat, at : Nat]

\* verify accepted a stamp at time v.
Near(v, stamp) == v <= stamp + Skew /\ stamp <= v + Skew

\* A pass is one of a refresh that was sent, verified in time, and its nonce is
\* remembered until a ttl after it.
PassHolds(p) ==
  /\ \E r \in requests : r.nonce = p.nonce /\ r.stamp = p.stamp
  /\ Near(p.verified, p.stamp) /\ p.verified <= p.at /\ p.at <= clock
  /\ clock < p.at + Ttl => p.nonce \in DOMAIN seen /\ seen[p.nonce] >= p.at + Ttl

\* What a handler is working on was sent, and verified in time and before now.
Held(x) == x.request \in requests /\ Near(x.verified, x.request.stamp) /\ x.verified <= clock

PassesApart ==
  \A i, j \in DOMAIN passes :
    i < j /\ passes[i].nonce = passes[j].nonce => passes[j].at >= passes[i].at + Ttl

\* Each refresh has a nonce of its own.
NoncesDiffer == \A r, q \in requests : r.nonce = q.nonce => r = q

\* The keys, the clock and the devices.
KeysInv ==
  /\ keys = <<keys[1], keys[2]>> /\ keys[1] \in Nat /\ keys[2] \in Nat /\ keys[1] = keys[2] + 1
  /\ \A r \in requests : r.key <= keys[1]
  /\ IsFiniteSet(devices) /\ Cardinality(devices) <= MaxDevices

\* The refreshes and how far they have come.
ReplayInv ==
  /\ clock \in Nat /\ requests \subseteq Refreshes /\ NoncesDiffer
  /\ \A n \in DOMAIN seen : seen[n] \in Nat
  /\ refreshing \in [Handlers -> {NoRefresh} \cup InHand]
  /\ \A h \in Handlers : refreshing[h] # NoRefresh => Held(refreshing[h])
  /\ passes \in Seq(Passes) /\ (\A i \in DOMAIN passes : PassHolds(passes[i])) /\ PassesApart

\* The device limit holds in any finite set to which register adds.
LEMMA RegisterKeepsLimit ==
  ASSUME IsFiniteSet(devices), Cardinality(devices) <= MaxDevices, NEW d
  PROVE  IsFiniteSet(RegisterDevice(d)) /\ Cardinality(RegisterDevice(d)) <= MaxDevices
<1>1. Cardinality(devices) \in Nat
  BY FS_CardinalityType
<1>2. CASE d \in devices
  <2>1. RegisterDevice(d) = devices
    BY <1>2 DEF RegisterDevice
  <2> QED
    BY <2>1
<1>3. CASE d \notin devices /\ Cardinality(devices) < MaxDevices
  <2>1. RegisterDevice(d) = devices \cup {d}
    BY <1>3 DEF RegisterDevice
  <2>2. IsFiniteSet(devices \cup {d}) /\ Cardinality(devices \cup {d}) = Cardinality(devices) + 1
    BY <1>3, FS_AddElement
  <2> QED
    BY <1>1, <1>3, <2>1, <2>2, ReplayAssumption, SMTT(40)
<1>4. CASE d \notin devices /\ ~(Cardinality(devices) < MaxDevices)
  <2>1. RegisterDevice(d) = devices
    BY <1>4 DEF RegisterDevice
  <2> QED
    BY <2>1
<1> QED
  BY <1>2, <1>3, <1>4

\* Keys only move on by rotation, and every registration looks at the limit.
LEMMA KeysKeep ==
  ASSUME KeysInv, requests \subseteq Refreshes, [ReplayNext]_replayVars
  PROVE  KeysInv'
<1>k. /\ keys = <<keys[1], keys[2]>> /\ keys[1] \in Nat /\ keys[2] \in Nat /\ keys[1] = keys[2] + 1
      /\ \A r \in requests : r.key <= keys[1]
  BY DEF KeysInv
<1>d. IsFiniteSet(devices) /\ Cardinality(devices) <= MaxDevices
  BY DEF KeysInv
<1>1. CASE UNCHANGED <<keys, requests, devices>>
  BY <1>1 DEF KeysInv
<1>2. ASSUME NEW n \in Nonces, NEW t \in 0..(MaxTime + Skew), NEW d \in Devices, SendRefresh(n, t, d)
      PROVE  KeysInv'
  <2>q. PICK q : q = [nonce |-> n, stamp |-> t, key |-> keys[1], device |-> d]
    OBVIOUS
  <2>1. requests' = requests \cup {q} /\ UNCHANGED <<keys, devices>>
    BY <1>2, <2>q DEF SendRefresh
  <2>2. q.key = keys[1]
    BY <2>q
  <2>3. q.key <= keys[1]
    BY <1>k, <2>2, SMTT(40)
  <2> QED
    BY <1>k, <1>d, <2>1, <2>3 DEF KeysInv
<1>3. ASSUME NEW h \in Handlers, AdmitDevice(h) PROVE KeysInv'
  <2>1. PICK d : devices' = RegisterDevice(d) /\ UNCHANGED <<keys, requests>>
    BY <1>3 DEF AdmitDevice
  <2>2. IsFiniteSet(devices') /\ Cardinality(devices') <= MaxDevices
    BY <1>d, <2>1, RegisterKeepsLimit
  <2> QED
    BY <1>k, <2>1, <2>2 DEF KeysInv
<1>4. ASSUME NEW d \in Devices, ReleaseDevice(d) PROVE KeysInv'
  <2>1. devices' = devices \ {d} /\ UNCHANGED <<keys, requests>>
    BY <1>4 DEF ReleaseDevice
  <2>2. IsFiniteSet(devices') /\ Cardinality(devices') <= Cardinality(devices)
    BY <1>d, <2>1, FS_Subset
  <2>3. Cardinality(devices') <= MaxDevices
    BY <1>d, <2>2, FS_CardinalityType, ReplayAssumption, SMTT(40)
  <2> QED
    BY <1>k, <2>1, <2>2, <2>3 DEF KeysInv
<1>5. CASE RotateKey
  <2>1. keys' = <<keys[1] + 1, keys[1]>> /\ UNCHANGED <<requests, devices>>
    BY <1>5 DEF RotateKey, RotatedKeys
  <2>2. keys'[1] = keys[1] + 1 /\ keys'[2] = keys[1]
    BY <2>1
  <2>3. \A q \in requests : q.key \in Nat
    BY DEF Refreshes
  <2>4. \A q \in requests' : q.key <= keys'[1]
    BY <1>k, <2>1, <2>2, <2>3, SMTT(40)
  <2>5. keys' = <<keys'[1], keys'[2]>> /\ keys'[1] \in Nat /\ keys'[2] \in Nat /\ keys'[1] = keys'[2] + 1
    BY <1>k, <2>1, <2>2, SMTT(40)
  <2> QED
    BY <1>d, <2>1, <2>4, <2>5 DEF KeysInv
<1> QED
  BY <1>1, <1>2, <1>3, <1>4, <1>5
     DEF ReplayNext, replayVars, BeginRefresh, RecordNonce, RefuseReplay, Advance

\* While only a pass's own time passes, or nonces are pruned that have expired,
\* what is said of the pass stays true.
LEMMA PassKeeps ==
  ASSUME clock \in Nat, clock' \in Nat, clock <= clock', requests \subseteq requests',
         \A n \in DOMAIN seen : seen[n] \in Nat,
         \A n \in Live : n \in DOMAIN seen' /\ seen'[n] = seen[n],
         NEW p \in Passes, PassHolds(p)
  PROVE  PassHolds(p)'
<1>1. p.at \in Nat /\ Ttl \in Nat
  BY ReplayAssumption DEF Passes
<1>2. /\ \E r \in requests : r.nonce = p.nonce /\ r.stamp = p.stamp
      /\ Near(p.verified, p.stamp) /\ p.verified <= p.at /\ p.at <= clock
      /\ clock < p.at + Ttl => p.nonce \in DOMAIN seen /\ seen[p.nonce] >= p.at + Ttl
  BY DEF PassHolds
<1>3. p.at <= clock'
  BY <1>1, <1>2, SMTT(40)
<1>4. ASSUME clock' < p.at + Ttl PROVE p.nonce \in DOMAIN seen' /\ seen'[p.nonce] >= p.at + Ttl
  <2>1. clock < p.at + Ttl
    BY <1>1, <1>4, SMTT(40)
  <2>2. p.nonce \in DOMAIN seen /\ seen[p.nonce] >= p.at + Ttl /\ seen[p.nonce] \in Nat
    BY <1>2, <2>1
  <2>3. seen[p.nonce] > clock
    BY <1>1, <2>1, <2>2, SMTT(40)
  <2>4. p.nonce \in Live
    BY <2>2, <2>3 DEF Live
  <2> QED
    BY <2>2, <2>4
<1> QED
  BY <1>2, <1>3, <1>4 DEF PassHolds, Near

\* Every step but RecordNonce leaves the passes as they are.
LEMMA PassesKeep ==
  ASSUME ReplayInv, clock' \in Nat, clock <= clock', requests \subseteq requests', UNCHANGED passes,
         \A n \in Live : n \in DOMAIN seen' /\ seen'[n] = seen[n]
  PROVE  passes' \in Seq(Passes) /\ (\A i \in DOMAIN passes' : PassHolds(passes[i])') /\ PassesApart'
<1>1. /\ clock \in Nat /\ passes \in Seq(Passes) /\ PassesApart
      /\ \A n \in DOMAIN seen : seen[n] \in Nat
      /\ \A i \in DOMAIN passes : PassHolds(passes[i])
  BY DEF ReplayInv
<1>2. \A i \in DOMAIN passes : passes[i] \in Passes
  BY <1>1, SMTT(40)
<1>3. ASSUME NEW i \in DOMAIN passes PROVE PassHolds(passes[i])'
  <2>1. PICK p \in Passes : p = passes[i]
    BY <1>2
  <2>2. PassHolds(p)
    BY <1>1, <2>1
  <2>3. PassHolds(p)'
    BY <1>1, <2>2, PassKeeps
  <2>4. p = passes'[i]
    BY <2>1
  <2> QED
    BY <2>3, <2>4 DEF PassHolds
<1>4. PassesApart'
  BY <1>1 DEF PassesApart
<1> QED
  BY <1>1, <1>3, <1>4

\* Nothing live is forgotten by a step that leaves seen alone.
LEMMA LiveStays ==
  ASSUME UNCHANGED seen
  PROVE  \A n \in Live : n \in DOMAIN seen' /\ seen'[n] = seen[n]
BY DEF Live

\* A client sends a refresh with a nonce of its own.
LEMMA SendStep ==
  ASSUME ReplayInv, KeysInv,
         NEW n \in Nonces, NEW t \in 0..(MaxTime + Skew), NEW d \in Devices, SendRefresh(n, t, d)
  PROVE  ReplayInv'
<1>q. PICK q : q = [nonce |-> n, stamp |-> t, key |-> keys[1], device |-> d]
  OBVIOUS
<1>1. /\ requests' = requests \cup {q} /\ UNCHANGED <<seen, refreshing, passes, clock>>
      /\ \A r \in requests : r.nonce # n
  BY <1>q DEF SendRefresh
<1>2. t \in Nat /\ keys[1] \in Nat
  BY ReplayAssumption, SMTT(40) DEF KeysInv
<1>3. q \in Refreshes /\ q.nonce = n
  BY <1>q, <1>2 DEF Refreshes
<1>4. NoncesDiffer'
  BY <1>1, <1>3 DEF NoncesDiffer, ReplayInv
<1>5. requests' \subseteq Refreshes /\ clock' \in Nat /\ clock <= clock'
  BY <1>1, <1>3, SMTT(40) DEF ReplayInv
<1>6. passes' \in Seq(Passes) /\ (\A i \in DOMAIN passes' : PassHolds(passes[i])') /\ PassesApart'
  BY <1>1, <1>5, PassesKeep, LiveStays
<1>7. \A h \in Handlers : refreshing'[h] # NoRefresh => Held(refreshing[h])'
  BY <1>1 DEF ReplayInv, Held, Near
<1> QED
  BY <1>1, <1>4, <1>5, <1>6, <1>7 DEF ReplayInv

\* verify: the stamp is within the skew of the clock.
LEMMA FreshIsNear ==
  ASSUME clock \in Nat, NEW stamp \in Nat, StampFresh(stamp)
  PROVE  Near(clock, stamp)
BY ReplayAssumption, SMTT(40) DEF StampFresh, Near

\* A handler takes up a refresh, refuses it or is done with it.
LEMMA HandlerStep ==
  ASSUME ReplayInv, NEW h \in Handlers, NEW to, refreshing' = [refreshing EXCEPT ![h] = to],
         to \in {NoRefresh} \cup InHand,
         to # NoRefresh => Held(to),
         \A n \in Live : n \in DOMAIN seen' /\ seen'[n] = seen[n],
         \A n \in DOMAIN seen' : seen'[n] \in Nat, UNCHANGED <<requests, passes, clock>>
  PROVE  ReplayInv'
<1>1. refreshing \in [Handlers -> {NoRefresh} \cup InHand]
  BY DEF ReplayInv
<1>2. /\ refreshing' \in [Handlers -> {NoRefresh} \cup InHand] /\ refreshing'[h] = to
      /\ \A g \in Handlers \ {h} : refreshing'[g] = refreshing[g]
  BY <1>1
<1>3. \A g \in Handlers : refreshing'[g] # NoRefresh => Held(refreshing[g])'
  BY <1>2 DEF ReplayInv, Held, Near
<1>4. clock' \in Nat /\ clock <= clock' /\ requests \subseteq requests'
  BY SMTT(40) DEF ReplayInv
<1>5. passes' \in Seq(Passes) /\ (\A i \in DOMAIN passes' : PassHolds(passes[i])') /\ PassesApart'
  BY <1>4, PassesKeep
<1>6. NoncesDiffer' /\ requests' \subseteq Refreshes
  BY DEF ReplayInv, NoncesDiffer
<1> QED
  BY <1>2, <1>3, <1>4, <1>5, <1>6 DEF ReplayInv

\* A refresh whose step is not idle is in hand.
LEMMA BusyInHand ==
  ASSUME ReplayInv, NEW h \in Handlers, refreshing[h].step \in {"record", "register"}
  PROVE  refreshing[h] \in InHand /\ refreshing[h] # NoRefresh /\ Held(refreshing[h])
<1>1. NoRefresh.step = "idle"
  BY DEF NoRefresh
<1> QED
  BY <1>1 DEF ReplayInv

\* check_and_record lets the nonce through.
LEMMA RecordStep ==
  ASSUME ReplayInv, NEW h \in Handlers, RecordNonce(h)
  PROVE  ReplayInv'
<1>r. PICK r : r = refreshing[h].request
  OBVIOUS
<1>p. PICK p : p = [nonce |-> r.nonce, stamp |-> r.stamp, verified |-> refreshing[h].verified, at |-> clock]
  OBVIOUS
<1>1. /\ refreshing[h].step = "record" /\ r.nonce \notin Live
      /\ seen' = Remember(r.nonce) /\ passes' = Append(passes, p)
      /\ refreshing' = [refreshing EXCEPT ![h].step = "register"] /\ UNCHANGED <<requests, clock>>
  BY <1>r, <1>p DEF RecordNonce
<1>2. /\ refreshing[h] \in InHand /\ refreshing[h] # NoRefresh /\ r \in requests
      /\ Near(refreshing[h].verified, r.stamp) /\ refreshing[h].verified <= clock
  BY <1>1, <1>r, BusyInHand DEF Held
<1>3. /\ clock \in Nat /\ requests \subseteq Refreshes /\ passes \in Seq(Passes) /\ PassesApart
      /\ \A n \in DOMAIN seen : seen[n] \in Nat
      /\ \A i \in DOMAIN passes : PassHolds(passes[i])
  BY DEF ReplayInv
<1>4. r \in Refreshes /\ refreshing[h].verified \in Nat
  BY <1>2, <1>3 DEF InHand
<1>5. r.nonce \in Nonces /\ r.stamp \in Nat
  BY <1>4 DEF Refreshes
<1>6. p \in Passes /\ p.nonce = r.nonce /\ p.stamp = r.stamp /\ p.verified = refreshing[h].verified /\ p.at = clock
  BY <1>3, <1>4, <1>5, <1>p DEF Passes
<1>7. /\ DOMAIN seen' = Live \cup {r.nonce} /\ seen'[r.nonce] = clock + Ttl
      /\ \A m \in Live : seen'[m] = seen[m]
  BY <1>1 DEF Remember
<1>8. Ttl \in Nat \ {0}
  BY ReplayAssumption
<1>9. \A m \in DOMAIN seen' : seen'[m] \in Nat
  <2>1. \A m \in Live : seen[m] \in Nat
    BY <1>3 DEF Live
  <2>2. clock + Ttl \in Nat
    BY <1>3, <1>8, SMTT(40)
  <2> QED
    BY <1>7, <2>1, <2>2
<1>10. /\ passes' \in Seq(Passes) /\ DOMAIN passes = 1..Len(passes) /\ DOMAIN passes' = 1..(Len(passes) + 1)
       /\ Len(passes) \in Nat /\ passes'[Len(passes) + 1] = p
       /\ \A i \in DOMAIN passes : passes'[i] = passes[i] /\ passes[i] \in Passes
  BY <1>1, <1>3, <1>6, SMTT(40)
<1>11. PassHolds(p)'
  <2>1. clock <= clock /\ clock + Ttl >= clock + Ttl
    BY <1>3, <1>8, SMTT(40)
  <2> QED
    BY <1>1, <1>2, <1>6, <1>7, <2>1 DEF PassHolds, Near
<1>12. ASSUME NEW i \in DOMAIN passes PROVE PassHolds(passes[i])'
  <2>1. PICK q \in Passes : q = passes[i] /\ q = passes'[i]
    BY <1>10
  <2>2. clock' \in Nat /\ clock <= clock' /\ requests \subseteq requests'
    BY <1>1, <1>3, SMTT(40)
  <2>3. \A n \in Live : n \in DOMAIN seen' /\ seen'[n] = seen[n]
    BY <1>7
  <2>4. PassHolds(q)
    BY <1>3, <2>1
  <2>5. PassHolds(q)'
    BY <1>3, <2>2, <2>3, <2>4, PassKeeps
  <2> QED
    BY <2>1, <2>5 DEF PassHolds
<1>13. \A i \in DOMAIN passes' : PassHolds(passes[i])'
  <2>1. \A i \in DOMAIN passes' : i \in DOMAIN passes \/ i = Len(passes) + 1
    BY <1>10, SMTT(40)
  <2>2. ASSUME NEW i, passes'[i] = p PROVE PassHolds(passes[i])'
    BY <1>11, <2>2 DEF PassHolds
  <2> QED
    BY <1>10, <1>12, <2>1, <2>2
<1>14. ASSUME NEW i \in DOMAIN passes, passes[i].nonce = r.nonce PROVE clock >= passes[i].at + Ttl
  <2>1. PICK q \in Passes : q = passes[i]
    BY <1>10
  <2>2. clock < q.at + Ttl => q.nonce \in DOMAIN seen /\ seen[q.nonce] >= q.at + Ttl
    BY <1>3, <2>1 DEF PassHolds
  <2>3. q.at \in Nat
    BY DEF Passes
  <2>4. q.nonce \in DOMAIN seen => seen[q.nonce] \in Nat /\ ~(seen[q.nonce] > clock)
    BY <1>1, <1>3, <1>14, <2>1 DEF Live
  <2>5. ~(clock < q.at + Ttl)
    BY <1>3, <1>8, <2>2, <2>3, <2>4, SMTT(40)
  <2> QED
    BY <1>3, <1>8, <2>1, <2>3, <2>5, SMTT(40)
<1>15. PassesApart'
  <2> SUFFICES ASSUME NEW i \in DOMAIN passes', NEW j \in DOMAIN passes', i < j,
                      passes'[i].nonce = passes'[j].nonce
               PROVE  passes'[j].at >= passes'[i].at + Ttl
    BY DEF PassesApart
  <2>1. i \in DOMAIN passes /\ (j \in DOMAIN passes \/ j = Len(passes) + 1)
    BY <1>10, SMTT(40)
  <2>2. CASE j \in DOMAIN passes
    BY <1>3, <1>10, <2>1, <2>2 DEF PassesApart
  <2>3. CASE j = Len(passes) + 1
    <3>1. passes'[j] = p /\ passes'[i] = passes[i]
      BY <1>10, <2>1, <2>3
    <3> QED
      BY <1>6, <1>14, <2>1, <3>1
  <2> QED
    BY <2>1, <2>2, <2>3
<1>16. PICK to \in InHand : refreshing' = [refreshing EXCEPT ![h] = to]
                            /\ to.request = r /\ to.verified = refreshing[h].verified
  <2>1. PICK x \in InHand : x = refreshing[h]
    BY <1>2
  <2>2. [x EXCEPT !.step = "register"] \in InHand
    BY <2>1 DEF InHand
  <2>3. [x EXCEPT !.step = "register"].request = x.request
        /\ [x EXCEPT !.step = "register"].verified = x.verified
    BY <2>1 DEF InHand
  <2>4. refreshing' = [refreshing EXCEPT ![h] = [x EXCEPT !.step = "register"]]
    BY <1>1, <2>1
  <2> QED
    BY <1>r, <2>1, <2>2, <2>3, <2>4
<1>17. /\ refreshing' \in [Handlers -> {NoRefresh} \cup InHand] /\ refreshing'[h] = to
       /\ \A g \in Handlers \ {h} : refreshing'[g] = refreshing[g]
  BY <1>16 DEF ReplayInv
<1>18. \A g \in Handlers : refreshing'[g] # NoRefresh => Held(refreshing[g])'
  BY <1>1, <1>2, <1>16, <1>17 DEF ReplayInv, Held, Near
<1>19. NoncesDiffer' /\ requests' \subseteq Refreshes /\ clock' \in Nat
  BY <1>1 DEF ReplayInv, NoncesDiffer
<1> QED
  BY <1>9, <1>10, <1>13, <1>15, <1>17, <1>18, <1>19 DEF ReplayInv

\* The other steps of a handler, and time.
LEMMA ReplayKeeps ==
  ASSUME ReplayInv, KeysInv, [ReplayNext]_replayVars
  PROVE  ReplayInv'
<1>1. CASE UNCHANGED <<seen, requests, refreshing, passes, clock>>
  <2>1. clock' \in Nat /\ clock <= clock' /\ requests \subseteq requests'
    BY <1>1, SMTT(40) DEF ReplayInv
  <2>2. passes' \in Seq(Passes) /\ (\A i \in DOMAIN passes' : PassHolds(passes[i])') /\ PassesApart'
    BY <1>1, <2>1, PassesKeep, LiveStays
  <2> QED
    BY <1>1, <2>1, <2>2 DEF ReplayInv, NoncesDiffer, Held, Near
<1>2. ASSUME NEW h \in Handlers, NEW r \in requests, BeginRefresh(h, r) PROVE ReplayInv'
  <2>t. PICK to : to = [step |-> "record", request |-> r, verified |-> clock]
    OBVIOUS
  <2>1. refreshing' = [refreshing EXCEPT ![h] = to] /\ UNCHANGED <<seen, requests, passes, clock>>
    BY <1>2, <2>t DEF BeginRefresh
  <2>2. clock \in Nat /\ r \in Refreshes /\ r.stamp \in Nat
    BY DEF ReplayInv, Refreshes
  <2>3. Near(clock, r.stamp)
    BY <1>2, <2>2, FreshIsNear DEF BeginRefresh, VerifyRefresh
  <2>4. to \in InHand /\ to.request = r /\ to.verified = clock
    BY <2>2, <2>t DEF InHand
  <2>5. \A n \in DOMAIN seen' : seen'[n] \in Nat
    BY <2>1 DEF ReplayInv
  <2>6. Held(to)
    BY <2>2, <2>3, <2>4, SMTT(40) DEF Held
  <2> QED
    BY <2>1, <2>4, <2>5, <2>6, HandlerStep, LiveStays
<1>3. ASSUME NEW h \in Handlers, RefuseReplay(h) PROVE ReplayInv'
  <2>1. /\ refreshing' = [refreshing EXCEPT ![h] = NoRefresh] /\ seen' = [m \in Live |-> seen[m]]
        /\ UNCHANGED <<requests, passes, clock>>
    BY <1>3 DEF RefuseReplay
  <2>2. \A n \in Live : n \in DOMAIN seen' /\ seen'[n] = seen[n]
    BY <2>1
  <2>3. \A n \in DOMAIN seen' : seen'[n] \in Nat
    BY <2>1 DEF ReplayInv, Live
  <2> QED
    BY <2>1, <2>2, <2>3, HandlerStep
<1>4. ASSUME NEW h \in Handlers, AdmitDevice(h) PROVE ReplayInv'
  <2>1. refreshing' = [refreshing EXCEPT ![h] = NoRefresh] /\ UNCHANGED <<seen, requests, passes, clock>>
    BY <1>4 DEF AdmitDevice
  <2>2. \A n \in DOMAIN seen' : seen'[n] \in Nat
    BY <2>1 DEF ReplayInv
  <2> QED
    BY <2>1, <2>2, HandlerStep, LiveStays
<1>5. CASE Advance
  <2>1. clock' = clock + 1 /\ UNCHANGED <<seen, requests, refreshing, passes>>
    BY <1>5 DEF Advance
  <2>2. clock' \in Nat /\ clock <= clock' /\ requests \subseteq requests'
    BY <2>1, SMTT(40) DEF ReplayInv
  <2>3. passes' \in Seq(Passes) /\ (\A i \in DOMAIN passes' : PassHolds(passes[i])') /\ PassesApart'
    BY <2>1, <2>2, PassesKeep, LiveStays
  <2>4. \A h \in Handlers : refreshing'[h] # NoRefresh => Held(refreshing[h])'
    <3>1. ASSUME NEW h \in Handlers, refreshing[h] # NoRefresh PROVE refreshing[h].verified <= clock'
      <4>1. Held(refreshing[h]) /\ refreshing[h] \in InHand /\ clock \in Nat
        BY <3>1 DEF ReplayInv
      <4>2. refreshing[h].verified \in Nat /\ refreshing[h].verified <= clock
        BY <4>1 DEF Held, InHand
      <4> QED
        BY <2>1, <4>1, <4>2, SMTT(40)
    <3> QED
      BY <2>1, <3>1 DEF ReplayInv, Held, Near
  <2> QED
    BY <2>1, <2>2, <2>3, <2>4 DEF ReplayInv, NoncesDiffer
<1> QED
  BY <1>1, <1>2, <1>3, <1>4, <1>5, SendStep, RecordStep
     DEF ReplayNext, replayVars, ReleaseDevice, RotateKey

\* Of two passes of one nonce the later one waited: the stamp they share was near
\* the clock when each was verified.
LEMMA LatePassStalled ==
  ASSUME ReplayInv, NEW i \in DOMAIN passes, NEW j \in DOMAIN passes, i < j,
         passes[i].nonce = passes[j].nonce
  PROVE  /\ passes[j].at >= passes[i].at + Ttl
         /\ passes[j].at - passes[j].verified >= Ttl - 2 * Skew
<1>1. PICK p \in Passes, q \in Passes : p = passes[i] /\ q = passes[j]
  <2>1. passes \in Seq(Passes)
    BY DEF ReplayInv
  <2>2. passes[i] \in Passes /\ passes[j] \in Passes
    BY <2>1, SMTT(40)
  <2> QED
    BY <2>2
<1>2. p.stamp \in Nat /\ p.verified \in Nat /\ p.at \in Nat /\ q.verified \in Nat /\ q.at \in Nat
  BY DEF Passes
<1>3. PassHolds(p) /\ PassHolds(q) /\ p.nonce = q.nonce
  BY <1>1 DEF ReplayInv
<1>4. p.stamp = q.stamp
  <2>1. PICK r \in requests : r.nonce = p.nonce /\ r.stamp = p.stamp
    BY <1>3 DEF PassHolds
  <2>2. PICK s \in requests : s.nonce = q.nonce /\ s.stamp = q.stamp
    BY <1>3 DEF PassHolds
  <2>3. r = s
    BY <1>3, <2>1, <2>2 DEF ReplayInv, NoncesDiffer
  <2> QED
    BY <2>1, <2>2, <2>3
<1>5. Near(p.verified, p.stamp) /\ Near(q.verified, p.stamp) /\ p.verified <= p.at
  BY <1>3, <1>4 DEF PassHolds
<1>6. q.at >= p.at + Ttl
  BY <1>1 DEF ReplayInv, PassesApart
<1>7. q.at - q.verified >= Ttl - 2 * Skew
  BY <1>2, <1>5, <1>6, ReplayAssumption, SMTT(40) DEF Near
<1> QED
  BY <1>1, <1>6, <1>7

\* For any handlers, nonces, devices and rotations and any ttl and skew: the
\* passes of one nonce lie a ttl apart and the later one took at least the ttl
\* less twice the skew from verify to check_and_record, a refresh survives one
\* rotation, and the devices never exceed the limit (replay.rs, device.rs).
THEOREM RefreshesStayDisciplined == ReplaySpec => []RefreshDiscipline
<1>1. ReplayInit => ReplayInv /\ KeysInv
  <2> SUFFICES ASSUME ReplayInit PROVE ReplayInv /\ KeysInv
    OBVIOUS
  <2>1. IsFiniteSet(devices) /\ Cardinality(devices) = 0
    BY FS_EmptySet DEF ReplayInit
  <2>2. KeysInv
    BY <2>1, ReplayAssumption, SMTT(40) DEF ReplayInit, KeysInv
  <2>3. passes \in Seq(Passes) /\ DOMAIN passes = {} /\ clock \in Nat
    BY SMTT(40) DEF ReplayInit
  <2>4. /\ refreshing \in [Handlers -> {NoRefresh} \cup InHand]
        /\ \A h \in Handlers : refreshing[h] = NoRefresh
    BY DEF ReplayInit
  <2>5. DOMAIN seen = {} /\ requests = {}
    BY DEF ReplayInit
  <2> QED
    BY <2>2, <2>3, <2>4, <2>5 DEF ReplayInv, NoncesDiffer, PassesApart
<1>2. ReplayInv /\ KeysInv /\ [ReplayNext]_replayVars => (ReplayInv /\ KeysInv)'
  <2>1. ReplayInv => requests \subseteq Refreshes
    BY DEF ReplayInv
  <2> QED
    BY <2>1, ReplayKeeps, KeysKeep
<1>3. ReplayInv /\ KeysInv => RefreshDiscipline
  <2> SUFFICES ASSUME ReplayInv, KeysInv PROVE ReplayNeedsStall /\ RotationKeepsInFlight /\ DeviceLimitHolds
    BY DEF RefreshDiscipline
  <2>1. ASSUME NEW r \in requests, keys[1] - r.key <= 1, StampFresh(r.stamp) PROVE VerifyRefresh(r)
    <3>1. r.key \in Nat /\ r.key <= keys[1] /\ keys[1] \in Nat /\ keys[2] \in Nat /\ keys[1] = keys[2] + 1
      BY DEF ReplayInv, KeysInv, Refreshes
    <3>2. r.key = keys[1] \/ r.key = keys[2]
      BY <2>1, <3>1, SMTT(40)
    <3> QED
      BY <2>1, <3>2 DEF VerifyRefresh
  <2>2. ReplayNeedsStall
    BY LatePassStalled DEF ReplayNeedsStall
  <2> QED
    BY <2>1, <2>2 DEF RotationKeepsInFlight, DeviceLimitHolds, KeysInv
<1> QED
  BY <1>1, <1>2, <1>3, PTL DEF ReplaySpec
==============================================================================

----------------------------- MODULE FecEngine -----------------------------
(***************************************************************************)
(* Adaptive forward error correction (fec_engine.rs): the arithmetic of    *)
(* GF(2^8), the Cauchy parity rows, the encoder, the decoder that inverts  *)
(* the rows of the surviving shards, and the controller that adds parity   *)
(* as it observes loss.  A batch is decoded with the configuration it was  *)
(* encoded with, whatever the controller has chosen since.                 *)
(***************************************************************************)
EXTENDS Integers, Sequences, SequencesExt, FiniteSetsExt, Bitwise

CONSTANTS
  DataShards,     \* values of k
  ShardSize,
  Payloads,       \* byte sequences given to encode
  Losses,         \* observed loss, in millionths
  MaxLossReports,
  MaxCode         \* batches are sent with codes of at most this many shards

Unit == 1000000            \* one, in millionths
MaxTotalShards == 255

VARIABLES
  fecConfig,      \* AdaptiveFec.config: [k, m, target]
  lossEwma,
  observed,       \* the losses observe_loss was given, in order
  batch,          \* the batch in flight: [k, m, data, shards], or NoBatch
  arrived,        \* indices of the shards received
  decoded         \* what decode returned, or NoBatch

fecVars == <<fecConfig, lossEwma, observed, batch, arrived, decoded>>

NoBatch == [k |-> 0]
Refused == [ok |-> FALSE, data |-> <<>>]

----------------------------------------------------------------------------
(* GF(2^8) with the polynomial 0x11d: the tables, product and quotient.    *)
GfDouble(x) == IF 2 * x >= 256 THEN (2 * x) ^^ 285 ELSE 2 * x
RECURSIVE GfPowers(_, _)
GfPowers(t, n) == IF Len(t) >= n THEN t ELSE GfPowers(Append(t, GfDouble(Last(t))), n)
GfExp == GfPowers(GfPowers(GfPowers(GfPowers(<<1>>, 64), 128), 192), 255)
GfLog == LET powers == GfExp IN [x \in 1..255 |-> CHOOSE i \in 0..254 : powers[i + 1] = x]

GfMul(a, b) ==
  IF a = 0 \/ b = 0 THEN 0 ELSE GfExp[((GfLog[a] + GfLog[b]) % 255) + 1]

GfDiv(a, b) ==
  IF a = 0 THEN 0 ELSE GfExp[((255 + GfLog[a] - GfLog[b]) % 255) + 1]

\* Sum over i of coefs[i] * bytes[i].
Combine(coefs, bytes) ==
  FoldLeft(LAMBDA s, i : s ^^ GfMul(coefs[i], bytes[i]), 0, [i \in 1..Len(coefs) |-> i])

----------------------------------------------------------------------------
\* Mutant of CauchyRow: a parity row of equal coefficients: the plain XOR of the data.
CauchyRowFlat(k, m, p) == [i \in 1..k |-> 1]

(* Parity row p (from 0) of a code with k data and m parity shards.        *)
CauchyRow(k, m, p) == [i \in 1..k |-> GfDiv(1, p ^^ (m + i - 1))]

UnitRow(k, i) == [j \in 1..k |-> IF j = i THEN 1 ELSE 0]

\* Shard i (from 0) as a combination of the data shards.
ShardRow(k, m, i) == IF i < k THEN UnitRow(k, i + 1) ELSE CauchyRow(k, m, i - k)

\* One column of the elimination, on rows that carry the identity beside them.
EliminateColumn(rows, col) ==
  LET n == Len(rows)
      found == {r \in col..n : rows[r][col] # 0}
  IN IF found = {} THEN <<>>
     ELSE LET p == Min(found)
              swapped == [rows EXCEPT ![col] = rows[p], ![p] = rows[col]]
              lead == [j \in 1..(2 * n) |-> GfDiv(swapped[col][j], swapped[col][col])]
          IN [r \in 1..n |->
                IF r = col THEN lead
                ELSE [j \in 1..(2 * n) |-> swapped[r][j] ^^ GfMul(swapped[r][col], lead[j])]]

\* The inverse, or the empty sequence of a singular matrix.
InvertMatrix(a) ==
  LET n == Len(a)
      beside == [i \in 1..n |-> a[i] \o UnitRow(n, i)]
      done == FoldLeft(LAMBDA rows, col : IF rows = <<>> THEN <<>> ELSE EliminateColumn(rows, col),
                       beside, [i \in 1..n |-> i])
  IN [i \in DOMAIN done |-> SubSeq(done[i], n + 1, 2 * n)]

----------------------------------------------------------------------------
CeilDiv(a, b) == (a + b - 1) \div b

\* Mutant of ParityFor: rounds up once more than the loss needs.
ParityForOver(k, loss) == Max({1, CeilDiv(k * loss, Unit - loss) + 1})

\* ceil(k * loss / (1 - loss)), at least one.
ParityFor(k, loss) == Max({1, CeilDiv(k * loss, Unit - loss)})

ForLoss(k, loss) == [k |-> k, m |-> ParityFor(k, loss), target |-> loss]

IsSupported(c) == c.k > 0 /\ c.m > 0 /\ c.k + c.m <= MaxTotalShards

ShardLen(k, data) == CeilDiv(Len(data), k)

\* Data shard i (from 0): its slice of the payload, padded with zeroes.
DataShard(k, data, i) ==
  LET len == ShardLen(k, data)
  IN [b \in 1..len |-> IF (i * len) + b <= Len(data) THEN data[(i * len) + b] ELSE 0]

\* What encode accepts.
Encodable(c, data) == data # <<>> /\ IsSupported(c) /\ ShardLen(c.k, data) <= ShardSize

Encode(c, data) ==
  [i \in 0..(c.k + c.m - 1) |->
     [b \in 1..ShardLen(c.k, data) |->
        Combine(ShardRow(c.k, c.m, i), [s \in 1..c.k |-> DataShard(c.k, data, s - 1)[b]])]]

\* The shards the decoder solves with: the first k that arrived, data first.
\* It keys them by index, so neither order nor copies matter.
Selected(k, got) == SubSeq(SetToSortSeq(got, <), 1, k)

\* Data shard i, taken as it came or recovered from the selected shards.
RecoveredShard(k, shards, got, sel, inverse, i) ==
  IF i \in got THEN shards[i]
  ELSE [b \in DOMAIN shards[sel[1]] |->
          Combine(inverse[i + 1], [j \in 1..k |-> shards[sel[j]][b]])]

Decode(c, shards, got, length) ==
  IF Cardinality(got) < c.k THEN Refused
  ELSE LET sel == Selected(c.k, got)
           inverse == InvertMatrix([j \in 1..c.k |-> ShardRow(c.k, c.m, sel[j])])
       IN IF inverse = <<>> THEN Refused
          ELSE [ok |-> TRUE,
                data |-> SubSeq(FlattenSeq([i \in 1..c.k |->
                           RecoveredShard(c.k, shards, got, sel, inverse, i - 1)]), 1, length)]

----------------------------------------------------------------------------
FecTypeOK ==
  /\ fecConfig.k \in DataShards /\ fecConfig.m \in 1..fecConfig.k
  /\ fecConfig.target \in 0..Unit /\ lossEwma \in 0..Unit
  /\ observed \in Seq(Losses) /\ Len(observed) <= MaxLossReports
  /\ batch # NoBatch => arrived \subseteq DOMAIN batch.shards

FecInit ==
  /\ \E k \in DataShards : fecConfig = ForLoss(k, 300000)
  /\ lossEwma = 50000 /\ observed = <<>>
  /\ batch = NoBatch /\ arrived = {} /\ decoded = NoBatch

Clamp(x, lo, hi) == Max({lo, Min({x, hi})})

\* Mutant of AdaptTarget: the target of the smoothed loss alone.
AdaptTargetSmoothed(ewma, loss, target) ==
  Clamp(Max({(ewma * 6) \div 5, target}), 50000, Unit \div 2)

\* The loss the controller plans for: never less than it planned for before.
AdaptTarget(ewma, loss, target) ==
  Clamp(Max({(ewma * 6) \div 5, Clamp(loss, 0, Unit \div 2), target}), 50000, Unit \div 2)

ObserveLoss(loss) ==
  LET ewma == ((lossEwma * 4) + loss) \div 5
      target == AdaptTarget(ewma, loss, fecConfig.target)
      m == Min({ParityFor(fecConfig.k, target), MaxTotalShards - fecConfig.k})
  IN /\ Len(observed) < MaxLossReports
     /\ observed' = Append(observed, loss) /\ lossEwma' = ewma
     /\ fecConfig' = IF m # fecConfig.m /\ m > 0
                     THEN [fecConfig EXCEPT !.m = m, !.target = target] ELSE fecConfig
     /\ UNCHANGED <<batch, arrived, decoded>>

SendBatch(data) ==
  /\ batch = NoBatch /\ Encodable(fecConfig, data)
  /\ fecConfig.k + fecConfig.m <= MaxCode
  /\ batch' = [k |-> fecConfig.k, m |-> fecConfig.m, data |-> data,
               shards |-> Encode(fecConfig, data)]
  /\ UNCHANGED <<fecConfig, lossEwma, observed, arrived, decoded>>

\* The network delivers some of the shards; the others are lost.
DeliverShards ==
  /\ batch # NoBatch /\ arrived = {} /\ decoded = NoBatch
  /\ arrived' \in SUBSET DOMAIN batch.shards \ {{}}
  /\ UNCHANGED <<fecConfig, lossEwma, observed, batch, decoded>>

DecodeBatch ==
  /\ arrived # {} /\ decoded = NoBatch
  /\ decoded' = Decode(batch, batch.shards, arrived, Len(batch.data))
  /\ UNCHANGED <<fecConfig, lossEwma, observed, batch, arrived>>

FecNext ==
  \/ \E l \in Losses : ObserveLoss(l)
  \/ \E d \in Payloads : SendBatch(d)
  \/ DeliverShards
  \/ DecodeBatch

----------------------------------------------------------------------------
(* decode returns exactly the payload when at least k distinct shards      *)
(* arrived, whichever they are, and refuses when fewer did: a parity code  *)
(* built on a matrix with a singular selection of rows would fail here.    *)
AnyKShardsDecode ==
  decoded # NoBatch =>
    decoded = IF Cardinality(arrived) >= batch.k THEN [ok |-> TRUE, data |-> batch.data] ELSE Refused

(* The parity in force covers every loss observed so far, up to the half   *)
(* the controller plans for, unless the 255 shards of the field are used   *)
(* up: observe_loss never gives redundancy back, and a single bad sample   *)
(* is not hidden by the smoothed average.                                  *)
LossCovered ==
  \A i \in DOMAIN observed :
     \/ fecConfig.k + fecConfig.m = MaxTotalShards
     \/ fecConfig.m * Unit >= Min({observed[i], Unit \div 2}) * (fecConfig.k + fecConfig.m)

(* What doc and comments of observe_loss promise of the configuration it   *)
(* leaves: "never emit a config the encoder must reject".                  *)
AdaptiveSupported == observed # <<>> => IsSupported(fecConfig)
=============================================================================

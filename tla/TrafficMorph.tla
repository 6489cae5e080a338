---------------------------- MODULE TrafficMorph ----------------------------
(***************************************************************************)
(* Shaping of packets to a traffic profile: the profile morpher            *)
(* (core-supervisor/src/ai_dpi.rs), the model morpher (ai_morph.rs) and    *)
(* the chaff engine (chaff.rs). A pseudo-random draw is a choice over the  *)
(* values it can take: the Gaussian and Poisson draws over a set that      *)
(* reaches past both clamps, the state of a linear congruence modulo what  *)
(* the code reduces it by.  Below, sharing no state with it, the profile   *)
(* of the operating system that packet headers imitate.                    *)
(***************************************************************************)
EXTENDS Integers, Sequences, SequencesExt, FiniteSets, FiniteSetsExt, Functions

CONSTANTS
  PacketLengths,    \* lengths of the packets shaped
  Draws,            \* sizes, delays and paddings drawn before they are clamped
  LcgStates,        \* last states of the congruence, as residues
  MaxShaped         \* bound on the packets shaped and profiles switched

VARIABLES
  activeProfile,   \* TrafficMorpher.active: index of a profile
  activeModel,     \* OnnxMorphEngine.active_model: the kind
  packetsChaffed,
  shaped           \* what the last call returned, with what it was given

morphVars == <<activeProfile, activeModel, packetsChaffed, shaped>>

Profile(name, targets, jitter, extensions, grease) ==
  [name |-> name, targets |-> targets, jitter |-> jitter, extensions |-> extensions, grease |-> grease]

AparatVod == Profile("aparat-vod", <<1316, 1380, 1400, 1420>>, <<8, 22>>,
               <<0, 11, 10, 16, 43, 51, 13>>, <<2570, 6682, 15730, 56032>>)
ShaparakBanking == Profile("shaparak-banking", <<512, 640, 768, 896>>, <<30, 120>>,
                     <<0, 23, 65281, 10, 11, 16, 5>>, <<1027, 9474, 47802, 36612>>)
HttpsBrowsing == Profile("https-browsing", <<517, 1200, 1400>>, <<15, 80>>,
                   <<0, 11, 10, 16, 43, 51>>, <<2570, 6682, 15730>>)

DefaultProfiles == <<AparatVod, ShaparakBanking, HttpsBrowsing>>

\* The bounds of the models: sizes in bytes, inter-arrival times in microseconds.
Model(size, iat) == [size |-> size, iat |-> iat]
ZoomRtp == Model(<<200, 1400>>, <<2000, 20000>>)
YouTubeHls == Model(<<1200, 1420>>, <<5000, 40000>>)
TlsWebSocket == Model(<<200, 1400>>, <<1000, 100000>>)
AparatModel == Model(<<1316, 1420>>, <<5000, 25000>>)
ShaparakModel == Model(<<512, 896>>, <<30000, 150000>>)

Models ==
  [k \in {"zoom-rtp", "youtube-hls", "tls-websocket", "aparat-vod", "shaparak-banking"} |->
    CASE k = "zoom-rtp" -> ZoomRtp [] k = "youtube-hls" -> YouTubeHls [] k = "tls-websocket" -> TlsWebSocket
      [] k = "aparat-vod" -> AparatModel [] k = "shaparak-banking" -> ShaparakModel]

ModelForIsolation(level) ==
  CASE level = 1 -> "aparat-vod" [] level \in {2, 3} -> "shaparak-banking" [] OTHER -> "tls-websocket"

ClampTo(x, bounds) == Max({bounds[1], Min({x, bounds[2]})})

NothingShaped == [by |-> "none"]

MorphInit ==
  /\ activeProfile = 1 /\ activeModel = "tls-websocket" /\ packetsChaffed = 0
  /\ shaped = NothingShaped

SelectProfile(name) ==
  \E i \in DOMAIN DefaultProfiles :
    /\ DefaultProfiles[i].name = name /\ activeProfile' = i
    /\ UNCHANGED <<activeModel, packetsChaffed>> /\ shaped' = NothingShaped

RotateProfile ==
  /\ activeProfile' = (activeProfile % Len(DefaultProfiles)) + 1
  /\ UNCHANGED <<activeModel, packetsChaffed>> /\ shaped' = NothingShaped

SelectModelForIsolation(level) ==
  /\ activeModel' = ModelForIsolation(level)
  /\ UNCHANGED <<activeProfile, packetsChaffed>> /\ shaped' = NothingShaped

SelectModel(kind) ==
  /\ activeModel' = kind
  /\ UNCHANGED <<activeProfile, packetsChaffed>> /\ shaped' = NothingShaped

\* The smallest target that holds the packet, else the largest target.
PadTo(targets, len) ==
  LET fits == SelectSeq(targets, LAMBDA t : t >= len)
  IN IF fits # <<>> THEN Head(fits) ELSE Last(targets)

PadPacket(len) ==
  /\ shaped' = [by |-> "pad", from |-> len, len |-> PadTo(DefaultProfiles[activeProfile].targets, len)]
  /\ UNCHANGED <<activeProfile, activeModel, packetsChaffed>>

\* iat_jitter_ms, of a seed whose congruence is s modulo the range.
IatJitter(s) ==
  LET j == DefaultProfiles[activeProfile].jitter
  IN /\ shaped' = [by |-> "jitter", delay |-> j[1] + (s % (j[2] - j[1])), bounds |-> j]
     /\ UNCHANGED <<activeProfile, activeModel, packetsChaffed>>

\* Mutant of MorphedSize: the drawn size is sent as it is.
MorphedSizeClamped(drawn, bounds, len) == ClampTo(drawn, bounds)

MorphedSize(drawn, bounds, len) == Max({ClampTo(drawn, bounds), len})

\* OnnxMorphEngine.morph_packet.
MorphBy(len, size, iat) ==
  LET m == Models[activeModel]
      padded == MorphedSize(size, m.size, len)
  IN /\ shaped' = [by |-> "morph", from |-> len, len |-> padded, padding |-> padded - len,
                   delay |-> ClampTo(iat, m.iat), bounds |-> m.iat, sizes |-> m.size]
     /\ UNCHANGED <<activeProfile, activeModel, packetsChaffed>>

\* ChaffEngine.chaff_packet with the default configuration: 0 to 512 bytes.
ChaffPacket(len, draw) ==
  LET padding == ClampTo(draw, <<0, 512>>)
  IN /\ packetsChaffed < MaxShaped /\ packetsChaffed' = packetsChaffed + 1
     /\ shaped' = [by |-> "chaff", from |-> len, len |-> len + padding, padding |-> padding,
                   sizes |-> <<len, len + 512>>, delay |-> Max({0, draw}), bounds |-> <<0, draw>>]
     /\ UNCHANGED <<activeProfile, activeModel>>

Swapped(s, i, j) == [s EXCEPT ![i] = s[j], ![j] = s[i]]

\* One run of Fisher-Yates from the last element down, picks[i] the element
\* swapped with i.
Shuffled(s, picks) ==
  FoldLeft(LAMBDA acc, k : Swapped(acc, Len(s) + 1 - k, picks[Len(s) + 1 - k]),
           s, [k \in 1..(Len(s) - 1) |-> k])

\* Mutant of WithGrease: the GREASE value takes the place of an extension.
WithGreaseOver(s, pos, grease) == [i \in DOMAIN s |-> IF i = Min({pos + 1, Len(s)}) THEN grease ELSE s[i]]

WithGrease(s, pos, grease) == InsertAt(s, Min({pos + 1, Len(s) + 1}), grease)

\* ja4_fingerprint: the earlier swaps are with the first element (the positions
\* far) or with the element itself; the state after the last swap also picks the
\* GREASE value and its place.
Ja4Fingerprint(state, far) ==
  LET p == DefaultProfiles[activeProfile]
      n == Len(p.extensions)
      picks == [i \in 2..n |-> IF i = 2 THEN (state % 2) + 1 ELSE IF i \in far THEN 1 ELSE i]
      grease == p.grease[(state % Len(p.grease)) + 1]
  IN /\ shaped' = [by |-> "ja4", profile |-> activeProfile,
                   extensions |-> WithGrease(Shuffled(p.extensions, picks), state % (n + 1), grease)]
     /\ UNCHANGED <<activeProfile, activeModel, packetsChaffed>>

\* The caller takes the result.
TakeShaped ==
  shaped # NothingShaped /\ shaped' = NothingShaped /\ UNCHANGED <<activeProfile, activeModel, packetsChaffed>>

ShapePacket ==
  \/ \E len \in PacketLengths, draw \in Draws :
       \/ ChaffPacket(len, draw)
       \/ \E iat \in Draws : MorphBy(len, draw, iat)
  \/ \E len \in PacketLengths : PadPacket(len)
  \/ \E s \in LcgStates : IatJitter(s) \/ \E far \in SUBSET (3..7) : Ja4Fingerprint(s, far)

MorphNext ==
  \/ \E i \in DOMAIN DefaultProfiles : SelectProfile(DefaultProfiles[i].name)
  \/ RotateProfile
  \/ \E level \in 0..4 : SelectModelForIsolation(level)
  \/ \E kind \in DOMAIN Models : SelectModel(kind)
  \/ shaped = NothingShaped /\ ShapePacket
  \/ TakeShaped

MorphTypeOK ==
  /\ activeProfile \in DOMAIN DefaultProfiles /\ activeModel \in DOMAIN Models
  /\ packetsChaffed \in 0..MaxShaped

-----------------------------------------------------------------------------
\* A morphed or chaffed packet keeps every byte it was given and stays within
\* the sizes and delays of the model in force, growing past them only for a
\* packet that was larger already ("padding, not truncating", morph_packet).
MorphKeepsBytes ==
  shaped.by \in {"morph", "chaff"} =>
    /\ shaped.len >= shaped.from /\ shaped.padding = shaped.len - shaped.from
    /\ shaped.len <= Max({shaped.sizes[2], shaped.from})

\* A fingerprint lists every extension of the profile in force exactly once, and
\* exactly one of its GREASE values, wherever the shuffle and the insertion put
\* them (ja4_fingerprint).
FingerprintComplete ==
  shaped.by = "ja4" =>
    LET p == DefaultProfiles[shaped.profile]
        grease == {i \in DOMAIN shaped.extensions : shaped.extensions[i] \in ToSet(p.grease)}
    IN /\ Cardinality(grease) = 1
       /\ Len(shaped.extensions) = Len(p.extensions) + 1
       /\ ToSet(p.extensions) \subseteq ToSet(shaped.extensions)

\* "Returns the padded length (>= original)": pad_packet never shrinks a packet.
PadNeverShrinks == shaped.by = "pad" => shaped.len >= shaped.from
------------------------------------------------------------------------------
(* The operating-system profile written into packet headers                *)
(* (core-supervisor/src/os_polymorphism.rs) and the TCP stack profile kept *)
(* above it (tcp_polymorphism.rs). Setting a profile writes the two active *)
(* names one after the other, under two locks.                             *)

CONSTANTS
  Setters,          \* callers of TcpPolymorphismEngine.set_active
  IpIdModulus,      \* 2^16 in the code: the width of the shared IP-id counter
  Seeds,            \* seeds of random IP ids
  MaxMorphed,       \* bound on the packets morphed
  MaxActivations    \* bound on the changes of the active profile

ASSUME StackAssumption ==
  IpIdModulus \in Nat \ {0} /\ MaxMorphed \in Nat /\ Seeds \subseteq Nat

VARIABLES
  activeOs, activeTcp,   \* the active names, or NoProfile
  setter,                \* setter -> the name whose second write is due, or NoProfile
  ipIdCounter,
  morphed,               \* the packets morphed: [profile, fields]
  activatedOs,           \* names activated so far, in order (history)
  crossed                \* a set_active began inside another since one ran alone (history)

stackVars == <<activeOs, activeTcp, setter, ipIdCounter, morphed, activatedOs, crossed>>

NoProfile == "none"
WithTimestamp == <<"Mss", "SackPermitted", "Timestamp", "Nop", "WindowScale">>

OsProfile(ttl, window, ids, options, mss) ==
  [ttl |-> ttl, window |-> window, ids |-> ids, options |-> options, mss |-> mss]

Ios == OsProfile(64, 65535, "Zero",
         <<"Mss", "Nop", "WindowScale", "Nop", "Nop", "Timestamp", "SackPermitted">>, 1460)
Windows11 == OsProfile(128, 64240, "Random",
               <<"Mss", "Nop", "WindowScale", "Nop", "Nop", "SackPermitted">>, 1460)
Android == OsProfile(64, 65535, "Incremental", WithTimestamp, 1420)
Linux == OsProfile(64, 29200, "Incremental", WithTimestamp, 1460)

OsProfiles ==
  [n \in {"ios-17", "windows-11", "android-14", "linux-6"} |->
    CASE n = "ios-17" -> Ios [] n = "windows-11" -> Windows11
      [] n = "android-14" -> Android [] n = "linux-6" -> Linux]

TcpStack(os, cwnd, rtoMin, rtoMax, timestamps, congestion, pacing) ==
  [os |-> os, cwnd |-> cwnd, rto |-> <<rtoMin, rtoMax>>, timestamps |-> timestamps,
   congestion |-> congestion, pacing |-> pacing]

TcpIos == TcpStack(Ios, 10, 200, 3000, TRUE, "cubic", 100000)
TcpWindows11 == TcpStack(Windows11, 4, 300, 5000, FALSE, "cubic", 50000)
TcpAndroid == TcpStack(Android, 10, 200, 4000, TRUE, "bbr", 80000)
TcpLinuxBbr == TcpStack(Linux, 10, 200, 3000, TRUE, "bbr", 200000)

TcpProfiles ==
  [n \in {"ios-17", "windows-11", "android-14", "linux-bbr"} |->
    CASE n = "ios-17" -> TcpIos [] n = "windows-11" -> TcpWindows11
      [] n = "android-14" -> TcpAndroid [] n = "linux-bbr" -> TcpLinuxBbr]

Names == DOMAIN OsProfiles \cup DOMAIN TcpProfiles

StackInit ==
  /\ activeOs = NoProfile /\ activeTcp = NoProfile /\ ipIdCounter = 0
  /\ setter = [s \in Setters |-> NoProfile] /\ morphed = <<>> /\ activatedOs = <<NoProfile>>
  /\ crossed = FALSE

\* OsPolymorphismEngine.set_active; an unknown name is refused and changes nothing.
SetActiveOs(n) == n \in DOMAIN OsProfiles /\ activeOs' = n

\* Mutant of SetActive: the TCP layer's name is never written.
SetActiveOsOnly(s, n) ==
  /\ setter[s] = NoProfile /\ crossed' = (\E t \in Setters : setter[t] # NoProfile)
  /\ SetActiveOs(n)
  /\ activatedOs' = IF activeOs = n THEN activatedOs ELSE Append(activatedOs, n)
  /\ UNCHANGED <<setter, activeTcp, ipIdCounter, morphed>>

\* set_active's first half: the OS layer takes the name, or the call returns its error.
SetActive(s, n) ==
  /\ setter[s] = NoProfile /\ crossed' = (\E t \in Setters : setter[t] # NoProfile)
  /\ SetActiveOs(n)
  /\ activatedOs' = IF activeOs = n THEN activatedOs ELSE Append(activatedOs, n)
  /\ setter' = [setter EXCEPT ![s] = n]
  /\ UNCHANGED <<activeTcp, ipIdCounter, morphed>>

\* Its second half: the TCP layer's own name.
SetActiveTcp(s) ==
  /\ setter[s] # NoProfile
  /\ activeTcp' = setter[s] /\ setter' = [setter EXCEPT ![s] = NoProfile]
  /\ UNCHANGED <<activeOs, ipIdCounter, morphed, activatedOs, crossed>>

ActiveTcpProfile == IF activeTcp \in DOMAIN TcpProfiles THEN {TcpProfiles[activeTcp]} ELSE {}

\* Mutant of IpIdAfter: the counter stops at its largest value.
IpIdAfterSaturating(id) == IF id = IpIdModulus - 1 THEN id ELSE id + 1

\* fetch_add of the 16-bit counter wraps.
IpIdAfter(id) == (id + 1) % IpIdModulus

IpId(profile, seed) ==
  CASE profile.ids = "Zero" -> 0
    [] profile.ids = "Incremental" -> ipIdCounter
    [] profile.ids = "Random" -> seed % (IpIdModulus - 1)

\* OsPolymorphismEngine.morph_packet; with no profile the packet is left alone.
MorphPacket(seed) ==
  /\ Len(morphed) < MaxMorphed /\ activeOs # NoProfile
  /\ LET p == OsProfiles[activeOs]
     IN /\ morphed' = Append(morphed, [by |-> activeOs, id |-> IpId(p, seed), ttl |-> p.ttl,
                                       window |-> p.window, options |-> p.options])
        /\ ipIdCounter' = IF p.ids = "Incremental" THEN IpIdAfter(ipIdCounter) ELSE ipIdCounter
  /\ UNCHANGED <<activeOs, activeTcp, setter, activatedOs, crossed>>

\* What morph_with_tcp writes into a packet that had the fields ttl and window.
MorphWithTcp(ttl, window) ==
  IF ActiveTcpProfile = {}
  THEN <<ttl, window, <<"Mss">>, "cubic">>
  ELSE LET p == CHOOSE q \in ActiveTcpProfile : TRUE
       IN <<p.os.ttl, p.os.window, p.os.options, p.congestion>>

StackNext ==
  \/ \E s \in Setters : (\E n \in Names : Len(activatedOs) <= MaxActivations /\ SetActive(s, n)) \/ SetActiveTcp(s)
  \/ \E seed \in Seeds : MorphPacket(seed)

StackTypeOK ==
  /\ activeOs \in DOMAIN OsProfiles \cup {NoProfile} /\ activeTcp \in DOMAIN OsProfiles \cup {NoProfile}
  /\ ipIdCounter \in 0..(IpIdModulus - 1) /\ setter \in [Setters -> DOMAIN OsProfiles \cup {NoProfile}]

-----------------------------------------------------------------------------
\* The two layers name one profile whenever no set_active is under way.  It does
\* not hold: two calls that overlap may write the two names in opposite order.
LayersAlwaysAgree == (\A s \in Setters : setter[s] = NoProfile) => activeTcp = activeOs

\* What set_active's two writes keep: the layers name one profile, and a packet
\* morphed by either carries the same TTL, window and options wherever the TCP
\* layer knows the profile, unless a set_active is under way or the last one to
\* begin did so inside another; the next call that runs alone mends that.
LayersAgree ==
  ~crossed /\ (\A s \in Setters : setter[s] = NoProfile) =>
    /\ activeTcp = activeOs
    /\ activeTcp \in DOMAIN TcpProfiles =>
         MorphWithTcp(0, 0) = <<OsProfiles[activeOs].ttl, OsProfiles[activeOs].window,
                                OsProfiles[activeOs].options, TcpProfiles[activeOs].congestion>>

\* Packets under incremental profiles never repeat an IP id within one turn of
\* the counter, also when profiles are switched in between (morph_packet).
IncrementalIdsDistinct ==
  LET inc == {i \in DOMAIN morphed : OsProfiles[morphed[i].by].ids = "Incremental"}
  IN \A i, j \in inc :
       i < j /\ Cardinality({k \in inc : i <= k /\ k < j}) < IpIdModulus => morphed[i].id # morphed[j].id
==============================================================================

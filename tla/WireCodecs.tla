----------------------------- MODULE WireCodecs -----------------------------
(***************************************************************************)
(* The byte formats: cutting and framing on the way out, the packets and   *)
(* hellos read back, the DNS messages of the live probes, and the token of *)
(* the anti-forgery service. The four parts share no state.                *)
(***************************************************************************)
EXTENDS Integers, Sequences, SequencesExt, FiniteSets, FiniteSetsExt, Bitwise

(* How bytes are cut up and wrapped on their way out: the split plan for a *)
(* ClientHello (core-supervisor/src/fragmentation.rs), the fragments the   *)
(* morph engine makes of it (ebpf.rs), the MTU slices of the userspace     *)
(* path (xdp_engine.rs) and the nested tunnel frames (multi_tunnel.rs).    *)
(* The jitter generator is a free choice of its outputs.                   *)

CONSTANTS
  Hellos,         \* ClientHellos, sequences of bytes
  OffsetLists,    \* split_offsets an entry or a policy may carry
  MaxSegments,    \* max_segments values
  Region,         \* the high-value region at the head of a ClientHello (64)
  Mtus,
  Cascades,       \* tunnel layers, outermost first: [role, name, overhead]
  CascadePayloads

VARIABLES
  codecPart,      \* which of the three independent codecs a behaviour exercises
  splitPlan,      \* the last plan: [len, offsets, cap]
  fragMap,        \* the fragmentation entry of the flow: set of [offsets, enabled]
  fragments,      \* [of, parts] last fragmented
  cascade,        \* layers in use
  framed,         \* [payload, wire, whole]: bytes on the wire and whether uncut
  unframed        \* result of the last decapsulation

codecVars == <<codecPart, splitPlan, fragMap, fragments, cascade, framed, unframed>>

Ascending(S) == SetToSortSeq(S, <)
InRange(offsets, n) == {o \in ToSet(offsets) : o > 0 /\ o < n}

\* Mutant of SegmentCounts: up to max_seg + 1 segments.
SegmentCountsOver(maxSeg) == 2..(Max({maxSeg, 2}) + 1)

\* n = 2 + next() % (max_seg - 1)
SegmentCounts(maxSeg) == 2..Max({maxSeg, 2})

\* plan: an override that leaves an offset in range wins; else n - 1 draws from the
\* region, those in range kept, sorted and deduplicated.
Plans(n, enabled, offsets, maxSeg) ==
  LET fixed == InRange(offsets, n)
      region == Max({1, Min({n, Region})})
      draws == UNION {[1..(k - 1) -> 1..region] : k \in SegmentCounts(maxSeg)}
  IN CASE ~enabled -> {<<>>}
       [] fixed # {} -> {Ascending(fixed)}
       [] OTHER -> {Ascending(InRange(d, n)) : d \in draws}

\* Mutant of KeptOffsets: an offset at the end is kept and cuts off nothing.
KeptOffsetsLoose(entry, n) == {o \in ToSet(entry.offsets) : o > 0 /\ o <= n}

KeptOffsets(entry, n) == InRange(entry.offsets, n)

\* fragment_clienthello
FragmentClientHello(entries, ch) ==
  IF \A e \in entries : ~e.enabled \/ e.offsets = <<>> THEN <<ch>>
  ELSE LET cuts == <<0>> \o Ascending(KeptOffsets(CHOOSE e \in entries : TRUE, Len(ch))) \o <<Len(ch)>>
       IN [i \in 1..(Len(cuts) - 1) |-> SubSeq(ch, cuts[i] + 1, cuts[i + 1])]

\* af_packet_fragment: chunks of the MTU.
AfPacketFragment(data, mtu) ==
  IF Len(data) <= mtu THEN <<data>>
  ELSE [i \in 1..((Len(data) + mtu - 1) \div mtu) |->
          SubSeq(data, (i - 1) * mtu + 1, Min({i * mtu, Len(data)}))]

----------------------------------------------------------------------------
(* The tunnel cascade.                                                     *)

TagOuter == 79
TagInner == 73
RoleTag(role) == IF role = "Outer" THEN TagOuter ELSE TagInner

U32Bytes(n) == <<n \div 16777216, (n \div 65536) % 256, (n \div 256) % 256, n % 256>>
U32Of(b, i) == ((b[i] * 256 + b[i + 1]) * 256 + b[i + 2]) * 256 + b[i + 3]

FrameLayer(layer, inner) ==
  <<RoleTag(layer.role), Len(layer.name) % 256>> \o layer.name \o U32Bytes(layer.overhead)
    \o U32Bytes(Len(inner)) \o inner \o [i \in 1..layer.overhead |-> 0]

FrameError == [ok |-> FALSE, data |-> <<>>]

\* Mutant of BodyPresent: the body's length is checked, the padding's is not.
BodyPresentLoose(buf, start, n, overhead) == Len(buf) >= start + n

BodyPresent(buf, start, n, overhead) == Len(buf) >= start + n + overhead

\* unframe_layer; positions are one more than the code's.
UnframeLayer(buf) ==
  IF Len(buf) < 10 \/ buf[1] \notin {TagOuter, TagInner} THEN FrameError
  ELSE LET header == 6 + buf[2]
       IN IF Len(buf) < header + 4 THEN FrameError
          ELSE LET n == U32Of(buf, header + 1)
                   overhead == U32Of(buf, header - 3)
               IN IF BodyPresent(buf, header + 4, n, overhead)
                  THEN [ok |-> TRUE, data |-> SubSeq(buf, header + 5, header + 4 + n)]
                  ELSE FrameError

Encapsulate(layers, payload) ==
  FoldRight(LAMBDA layer, buf : FrameLayer(layer, buf), layers, payload)

Decapsulate(layers, wire) ==
  FoldLeft(LAMBDA r, layer : IF r.ok THEN UnframeLayer(r.data) ELSE r, [ok |-> TRUE, data |-> wire], layers)

----------------------------------------------------------------------------
CodecTypeOK ==
  /\ fragMap \subseteq [offsets : OffsetLists, enabled : BOOLEAN] /\ Cardinality(fragMap) <= 1
  /\ cascade \in Cascades /\ unframed.ok \in BOOLEAN

CodecInit ==
  /\ codecPart \in {"plan", "fragment", "frame"}
  /\ splitPlan = [len |-> 0, offsets |-> <<>>, cap |-> 2] /\ fragMap = {}
  /\ fragments = [of |-> <<>>, parts |-> <<<<>>>>]
  /\ cascade \in Cascades
  /\ framed = [payload |-> <<>>, wire |-> Encapsulate(cascade, <<>>), whole |-> TRUE]
  /\ unframed = [ok |-> TRUE, data |-> <<>>]

PlanSplits(ch, enabled, offsets, maxSeg) ==
  /\ \E p \in Plans(Len(ch), enabled, offsets, maxSeg) :
       splitPlan' = [len |-> Len(ch), offsets |-> p,
                     cap |-> IF InRange(offsets, Len(ch)) = {} THEN Max({maxSeg, 2}) ELSE 5]
  /\ UNCHANGED <<fragMap, fragments, cascade, framed, unframed>>

SetFragmentation(offsets, enabled) ==
  /\ fragMap' = {[offsets |-> offsets, enabled |-> enabled]}
  /\ UNCHANGED <<splitPlan, fragments, cascade, framed, unframed>>

RemoveFragmentation ==
  /\ fragMap # {} /\ fragMap' = {}
  /\ UNCHANGED <<splitPlan, fragments, cascade, framed, unframed>>

FragmentHello(ch) ==
  /\ fragments' = [of |-> ch, parts |-> FragmentClientHello(fragMap, ch)]
  /\ UNCHANGED <<splitPlan, fragMap, cascade, framed, unframed>>

SlicePacket(data, mtu) ==
  /\ fragments' = [of |-> data, parts |-> AfPacketFragment(data, mtu)]
  /\ UNCHANGED <<splitPlan, fragMap, cascade, framed, unframed>>

SendThroughCascade(p) ==
  /\ framed' = [payload |-> p, wire |-> Encapsulate(cascade, p), whole |-> TRUE]
  /\ unframed' = Decapsulate(cascade, framed'.wire)
  /\ UNCHANGED <<splitPlan, fragMap, fragments, cascade>>

\* The stream ends before the frame does.
CutFrame(n) ==
  /\ framed.whole /\ n < Len(framed.wire)
  /\ framed' = [framed EXCEPT !.wire = SubSeq(@, 1, n), !.whole = FALSE]
  /\ unframed' = Decapsulate(cascade, framed'.wire)
  /\ UNCHANGED <<splitPlan, fragMap, fragments, cascade>>

Planning ==
  \E ch \in Hellos, o \in OffsetLists, b \in BOOLEAN, m \in MaxSegments : PlanSplits(ch, b, o, m)
Fragmenting ==
  \/ \E o \in OffsetLists, b \in BOOLEAN : SetFragmentation(o, b)
  \/ RemoveFragmentation
  \/ \E ch \in Hellos : FragmentHello(ch) \/ \E mtu \in Mtus : SlicePacket(ch, mtu)
Framing ==
  \/ \E p \in CascadePayloads : SendThroughCascade(p)
  \/ \E n \in 0..(Len(framed.wire) - 1) : CutFrame(n)

CodecNext ==
  /\ \/ codecPart = "plan" /\ Planning
     \/ codecPart = "fragment" /\ Fragmenting
     \/ codecPart = "frame" /\ Framing
  /\ UNCHANGED codecPart

----------------------------------------------------------------------------
(* A plan closes segments at strictly ascending offsets inside the         *)
(* ClientHello, and an adaptive plan never makes more than max_segments of *)
(* it (two at least).                                                      *)
PlanWithinHello ==
  LET o == splitPlan.offsets
  IN /\ \A i \in DOMAIN o : 0 < o[i] /\ o[i] < splitPlan.len /\ (i > 1 => o[i - 1] < o[i])
     /\ Len(o) + 1 <= splitPlan.cap

(* Fragmenting loses, duplicates and reorders nothing: the parts put back  *)
(* together are the data they were made from and, unless that is empty,    *)
(* none of them is, whatever offsets the entry holds.                      *)
FragmentsRebuild ==
  /\ FlattenSeq(fragments.parts) = fragments.of
  /\ fragments.of # <<>> => \A i \in DOMAIN fragments.parts : fragments.parts[i] # <<>>

(* The cascade is a codec: a frame that arrives whole gives the payload    *)
(* back through all its layers, and one cut anywhere is refused, even when *)
(* only the padding of a layer is missing.                                 *)
CascadeExact ==
  /\ framed.whole => unframed = [ok |-> TRUE, data |-> framed.payload]
  /\ ~framed.whole /\ cascade # <<>> => ~unframed.ok

-----------------------------------------------------------------------------
(* Byte formats read and written by the last-resort tunnels and the TLS    *)
(* inspector: ICMP echo payloads (core-supervisor/src/icmp_tunnel.rs), DNS *)
(* labels (doh_tunnel.rs) and the extensions of a ClientHello (tls.rs).    *)
(* The network may cut a packet or damage one byte of it.                  *)

CONSTANTS
  PacketData,     \* payloads, sequences of bytes
  SeqNumbers,     \* sequence numbers a frame is sent under: some near the u16 limit
  ChunkSize,      \* bytes per DNS query (150)
  ExtensionLists, \* extensions a client sends: sequences of [ty, names | body]
  Damages         \* what a damaged byte is xor-ed with

VARIABLES
  icmpNext,       \* next_seq
  icmpFrame,      \* [seq, data, wire, harm]: the last frame and what the network did to it
  icmpReceived,   \* recv_buffer: seq -> data
  dnsQueries,     \* [data, chunks] of the last tunnel_data
  helloBytes,     \* [exts, bytes, harm] of the last ClientHello's extensions
  helloInfo       \* what parse_extensions made of it

packetVars == <<icmpNext, icmpFrame, icmpReceived, dnsQueries, helloBytes, helloInfo>>

U16Bytes(n) == <<n \div 256, n % 256>>
U16At(b, i) == b[i] * 256 + b[i + 1]
Magic == 44561   \* 0xAE11

----------------------------------------------------------------------------
(* icmp_tunnel.rs                                                          *)

\* Mutant of CrcBit: a shift register without the polynomial.
CrcBitPlain(crc) == (crc * 2) % 65536

CrcBit(crc) == IF crc >= 32768 THEN ((crc * 2) % 65536) ^^ 4129 ELSE crc * 2

RECURSIVE CrcBits(_, _)
CrcBits(crc, k) == IF crc >= 0 /\ k = 0 THEN crc ELSE CrcBits(CrcBit(crc), k - 1)

RECURSIVE CrcFrom(_, _)
CrcFrom(crc, data) ==
  IF crc >= 0 /\ data = <<>> THEN crc ELSE CrcFrom(CrcBits(crc ^^ (Head(data) * 256), 8), Tail(data))

Crc16(data) == CrcFrom(65535, data)

EncodeIcmp(seq, data) ==
  U16Bytes(Magic) \o U16Bytes(seq) \o U16Bytes(Len(data)) \o data \o U16Bytes(Crc16(data))

BadFrame == [ok |-> FALSE, seq |-> 0, data |-> <<>>]

DecodeIcmp(p) ==
  IF Len(p) < 8 \/ U16At(p, 1) # Magic THEN BadFrame
  ELSE LET n == U16At(p, 5)
       IN IF Len(p) < 6 + n + 2 THEN BadFrame
          ELSE LET data == SubSeq(p, 7, 6 + n)
               IN IF U16At(p, 7 + n) # Crc16(data) THEN BadFrame
                  ELSE [ok |-> TRUE, seq |-> U16At(p, 3), data |-> data]

----------------------------------------------------------------------------
(* doh_tunnel.rs: base32 over five-bit groups.  The 32-bit buffer keeps    *)
(* bits nothing reads; its low sixteen are enough.                         *)

Base32Groups(buffer, bits) ==
  LET n == bits \div 5
  IN [i \in 1..n |-> (buffer \div 2 ^ (bits - 5 * i)) % 32]

\* Mutant of Base32Tail: the bits after the last whole group, dropped.
Base32TailNone(st) == <<>>

Base32Tail(st) == IF st.bits > 0 THEN <<(st.buffer * 2 ^ (5 - st.bits)) % 32>> ELSE <<>>

Base32Encode(data) ==
  LET step(st, b) ==
        LET buffer == (st.buffer * 256 + b) % 65536
            bits == st.bits + 8
        IN [buffer |-> buffer, bits |-> bits % 5, out |-> st.out \o Base32Groups(buffer, bits)]
      end == FoldLeft(step, [buffer |-> 0, bits |-> 0, out |-> <<>>], data)
  IN end.out \o Base32Tail(end)

\* tunnel_data: one label per chunk, numbered from 0.
TunnelData(data) ==
  [i \in 1..((Len(data) + ChunkSize - 1) \div ChunkSize) |->
     [index |-> i - 1,
      label |-> Base32Encode(SubSeq(data, (i - 1) * ChunkSize + 1, Min({i * ChunkSize, Len(data)})))]]

----------------------------------------------------------------------------
(* tls.rs.  Positions are one more than the code's; a name whose first     *)
(* byte is 255 stands for one that is not UTF-8.                           *)

ExtSni == 0
ExtEch == 65037   \* 0xfe0d
NoInfo == [ok |-> TRUE, sni |-> {}, ech |-> FALSE]
ParseFailed == [ok |-> FALSE, sni |-> {}, ech |-> FALSE]
Utf8(raw) == raw = <<>> \/ raw[1] # 255

\* parse_sni's loop over the name list.
RECURSIVE SniNames(_, _, _)
SniNames(d, pos, end) ==
  IF pos + 2 > end THEN [ok |-> TRUE, sni |-> {}]
  ELSE LET n == U16At(d, pos + 1)
           raw == SubSeq(d, pos + 3, pos + 2 + n)
       IN CASE pos + 2 + n > end -> [ok |-> FALSE, sni |-> {}]
            [] d[pos] = 0 -> IF Utf8(raw) THEN [ok |-> TRUE, sni |-> {raw}] ELSE [ok |-> FALSE, sni |-> {}]
            [] OTHER -> SniNames(d, pos + 3 + n, end)

ParseSni(d) ==
  IF Len(d) < 2 \/ 2 + U16At(d, 1) > Len(d) THEN [ok |-> FALSE, sni |-> {}]
  ELSE SniNames(d, 3, 2 + U16At(d, 1))

\* Mutant of ExtensionFits: the extension's length is trusted.
ExtensionFitsAlways(d, pos, n) == TRUE

ExtensionFits(d, pos, n) == pos + 3 + n <= Len(d)

RECURSIVE ParseFrom(_, _, _)
ParseFrom(d, pos, info) ==
  IF pos + 3 > Len(d) THEN info
  ELSE LET ty == U16At(d, pos)
           n == U16At(d, pos + 2)
           body == SubSeq(d, pos + 4, Min({pos + 3 + n, Len(d)}))
           sni == ParseSni(body)
       IN CASE ~ExtensionFits(d, pos, n) -> ParseFailed
            [] ty = ExtSni /\ ~sni.ok -> ParseFailed
            [] ty = ExtSni -> ParseFrom(d, pos + 4 + n, [info EXCEPT !.sni = sni.sni])
            [] ty = ExtEch -> ParseFrom(d, pos + 4 + n, [info EXCEPT !.ech = TRUE])
            [] OTHER -> ParseFrom(d, pos + 4 + n, info)

ParseExtensions(d) == ParseFrom(d, 1, NoInfo)

\* What a client puts on the wire.
NameBytes(nm) == <<nm.ty>> \o U16Bytes(Len(nm.host)) \o nm.host
SniBody(names) ==
  LET bytes == FlattenSeq([i \in DOMAIN names |-> NameBytes(names[i])])
  IN U16Bytes(Len(bytes)) \o bytes
Body(e) == IF e.ty = ExtSni THEN SniBody(e.names) ELSE e.body
ExtensionBytes(exts) ==
  FlattenSeq([i \in DOMAIN exts |-> U16Bytes(exts[i].ty) \o U16Bytes(Len(Body(exts[i]))) \o Body(exts[i])])

----------------------------------------------------------------------------
PacketTypeOK ==
  /\ icmpNext \in 0..65535 /\ DOMAIN icmpReceived \subseteq 0..65535
  /\ helloInfo.ok \in BOOLEAN

NoFrame == [seq |-> 0, data |-> <<>>, wire |-> EncodeIcmp(0, <<>>), harm |-> "none"]
NoHello == [exts |-> <<>>, bytes |-> <<>>, harm |-> "none"]

PacketInit ==
  /\ icmpNext \in SeqNumbers /\ icmpFrame = NoFrame /\ icmpReceived = <<>>
  /\ dnsQueries = [data |-> <<>>, chunks |-> <<>>] /\ helloBytes = NoHello /\ helloInfo = NoInfo

EncapsulateIcmp(data) ==
  /\ icmpNext \in SeqNumbers
  /\ icmpFrame' = [seq |-> icmpNext, data |-> data, wire |-> EncodeIcmp(icmpNext, data), harm |-> "none"]
  /\ icmpNext' = (icmpNext + 1) % 65536
  /\ UNCHANGED <<icmpReceived, dnsQueries, helloBytes, helloInfo>>

\* The network: a cut packet, or one damaged byte.
CutIcmp(n) ==
  /\ icmpFrame.harm = "none" /\ n < Len(icmpFrame.wire)
  /\ icmpFrame' = [icmpFrame EXCEPT !.wire = SubSeq(@, 1, n), !.harm = "cut"]
  /\ UNCHANGED <<icmpNext, icmpReceived, dnsQueries, helloBytes, helloInfo>>

\* The field of a frame that byte i belongs to.
IcmpField(i) == CASE i \in 1..2 -> "magic" [] i \in 3..4 -> "seq" [] i \in 5..6 -> "len"
                  [] OTHER -> "body"

DamageIcmp(i, x) ==
  /\ icmpFrame.harm = "none"
  /\ icmpFrame' = [icmpFrame EXCEPT !.wire[i] = @ ^^ x, !.harm = IcmpField(i)]
  /\ UNCHANGED <<icmpNext, icmpReceived, dnsQueries, helloBytes, helloInfo>>

DecapsulateIcmp ==
  LET d == DecodeIcmp(icmpFrame.wire)
  IN /\ icmpReceived' = IF d.ok
                        THEN [s \in DOMAIN icmpReceived \cup {d.seq} |->
                                IF s = d.seq THEN d.data ELSE icmpReceived[s]]
                        ELSE icmpReceived
     /\ UNCHANGED <<icmpNext, icmpFrame, dnsQueries, helloBytes, helloInfo>>

SendDns(data) ==
  /\ dnsQueries' = [data |-> data, chunks |-> TunnelData(data)]
  /\ UNCHANGED <<icmpNext, icmpFrame, icmpReceived, helloBytes, helloInfo>>

InspectHello(exts, cut) ==
  LET bytes == ExtensionBytes(exts)
  IN /\ cut <= Len(bytes)
     /\ helloBytes' = [exts |-> exts, bytes |-> SubSeq(bytes, 1, cut),
                       harm |-> IF cut = Len(bytes) THEN "none" ELSE "cut"]
     /\ helloInfo' = ParseExtensions(helloBytes'.bytes)
     /\ UNCHANGED <<icmpNext, icmpFrame, icmpReceived, dnsQueries>>

InspectDamagedHello(exts, i, x) ==
  /\ helloBytes' = [exts |-> exts, bytes |-> [ExtensionBytes(exts) EXCEPT ![i] = @ ^^ x],
                    harm |-> "byte"]
  /\ helloInfo' = ParseExtensions(helloBytes'.bytes)
  /\ UNCHANGED <<icmpNext, icmpFrame, icmpReceived, dnsQueries>>

IcmpSteps ==
  \/ \E d \in PacketData : EncapsulateIcmp(d)
  \/ \E n \in 0..(Len(icmpFrame.wire) - 1) : CutIcmp(n)
  \/ \E i \in DOMAIN icmpFrame.wire, x \in Damages : DamageIcmp(i, x)
  \/ DecapsulateIcmp

PacketNext ==
  \/ helloBytes = NoHello /\ dnsQueries.chunks = <<>> /\ Cardinality(DOMAIN icmpReceived) < 2 /\ IcmpSteps
  \/ icmpFrame = NoFrame /\ icmpReceived = <<>> /\ helloBytes = NoHello /\ \E d \in PacketData : SendDns(d)
  \/ icmpFrame = NoFrame /\ icmpReceived = <<>> /\ dnsQueries.chunks = <<>>
       /\ \E e \in ExtensionLists :
            \/ \E c \in 0..Len(ExtensionBytes(e)) : InspectHello(e, c)
            \/ \E i \in DOMAIN ExtensionBytes(e), x \in Damages : InspectDamagedHello(e, i, x)

----------------------------------------------------------------------------
(* A frame is accepted only as it was sent.  It does not hold: the CRC     *)
(* covers the data only, so a frame damaged in its number is filed in      *)
(* recv_buffer under another one, and a length damaged to a smaller one is *)
(* believed where the next two bytes happen to be the CRC of what remains. *)
IcmpAcceptedAsSent ==
  LET d == DecodeIcmp(icmpFrame.wire)
  IN d.ok => d.seq = icmpFrame.seq /\ d.data = icmpFrame.data

(* An ICMP frame gives back what was sent in it: a whole one its number    *)
(* and its data, one with a byte of its number damaged still its data; one *)
(* that was cut, or damaged in a byte of its magic, data or CRC, is        *)
(* refused, and one with a damaged length is refused or gives a beginning  *)
(* of its data, never a byte that is not of it.                            *)
IcmpExact ==
  LET d == DecodeIcmp(icmpFrame.wire)
  IN CASE icmpFrame.harm = "none" -> d = [ok |-> TRUE, seq |-> icmpFrame.seq, data |-> icmpFrame.data]
       [] icmpFrame.harm = "seq" -> d.ok /\ d.data = icmpFrame.data
       [] icmpFrame.harm = "len" -> d.ok => IsStrictPrefix(d.data, icmpFrame.data)
       [] OTHER -> ~d.ok

\* The bytes a label stands for: its bits in groups of eight, the last few being fill.
LabelBytes(label) ==
  LET bit(i) == (label[(i - 1) \div 5 + 1] \div 2 ^ (4 - ((i - 1) % 5))) % 2
  IN [k \in 1..((5 * Len(label)) \div 8) |->
        FoldLeft(LAMBDA v, j : 2 * v + bit(8 * (k - 1) + j), 0, <<1, 2, 3, 4, 5, 6, 7, 8>>)]

(* The DNS labels carry the data: put back in the order of their numbers,  *)
(* the bytes they stand for are the bytes tunnel_data was given.           *)
DohExact ==
  LET q == dnsQueries
  IN FlattenSeq([i \in DOMAIN q.chunks |->
       LabelBytes((CHOOSE c \in ToSet(q.chunks) : c.index = i - 1).label)]) = q.data

\* What the extensions say: the first host name of the last SNI extension, and ECH.
SaidBy(exts) ==
  LET snis == {i \in DOMAIN exts : exts[i].ty = ExtSni}
      hosts(i) == {j \in DOMAIN exts[i].names : exts[i].names[j].ty = 0}
      host(i) == IF hosts(i) = {} THEN {} ELSE {exts[i].names[Min(hosts(i))].host}
  IN [ok |-> \A i \in snis : \A h \in host(i) : Utf8(h),
      sni |-> IF snis = {} THEN {} ELSE host(Max(snis)),
      ech |-> \E i \in DOMAIN exts : exts[i].ty = ExtEch]

\* The bytes the first n extensions take.
BytesOfFirst(n) == Len(ExtensionBytes(SubSeq(helloBytes.exts, 1, n)))

(* tls.rs: "malformed/truncated input returns TlsParseError": a ClientHello *)
(* cut inside an extension is refused.  It does not hold: the loop ends     *)
(* quietly when fewer than four bytes of an extension's header are left.    *)
CutHelloRefused ==
  helloBytes.harm = "cut" /\ helloInfo.ok =>
    \E n \in 0..Len(helloBytes.exts) : BytesOfFirst(n) = Len(helloBytes.bytes)

(* parse_extensions reads a ClientHello as the client wrote it.  One cut    *)
(* short is refused, unless the cut is at an extension's end or less than   *)
(* four bytes past it: then the extensions before the cut are reported.     *)
(* Whatever a damaged length says, a name reported is bytes of the hello.   *)
HelloReadExactly ==
  LET said(n) == SaidBy(SubSeq(helloBytes.exts, 1, n))
      all == said(Len(helloBytes.exts))
      got == Len(helloBytes.bytes)
  IN CASE helloBytes.harm = "none" -> IF all.ok THEN helloInfo = all ELSE ~helloInfo.ok
       [] helloBytes.harm = "cut" -> helloInfo.ok =>
            \E n \in 0..Len(helloBytes.exts) :
               helloInfo = said(n) /\ BytesOfFirst(n) \in (got - 3)..got
       [] OTHER -> \A name \in helloInfo.sni :
            \E i \in 0..(got - Len(name)) : SubSeq(helloBytes.bytes, i + 1, i + Len(name)) = name
------------------------------------------------------------------------------
(* The DNS codec of the live signal probes (live_signals.rs): the question *)
(* dns_question writes, and parse_dns_answers over the bytes a resolver    *)
(* returns.  A resolver answers the question it got; the datagram may      *)
(* arrive cut, or damaged in one byte.  Offsets are the code's, from 0.    *)

CONSTANTS
  Names,          \* names: sequences of labels, a label a sequence of bytes
  Records,        \* [owner, type, class, data]; owner "pointer" or "name"
  MaxAnswers,
  QueryId

TypeA == 1
TypeAaaa == 28
ClassIn == 1
HeaderLen == 12

U16(n) == <<n \div 256, n % 256>>

\* encode_dns_name: each label behind its length, and the root.
EncodeName(name) == FlattenSeq([i \in DOMAIN name |-> <<Len(name[i])>> \o name[i]]) \o <<0>>

NameAccepted(name) ==
  /\ name # <<>> /\ \A i \in DOMAIN name : Len(name[i]) \in 1..63
  /\ Len(EncodeName(name)) - 2 <= 253

\* dns_question: recursion desired, one question.
DnsQuestion(id, name, type) ==
  U16(id) \o U16(256) \o U16(1) \o U16(0) \o U16(0) \o U16(0)
    \o EncodeName(name) \o U16(type) \o U16(ClassIn)

VARIABLES
  asked,       \* [name, type] of the query
  answers,     \* the records the resolver returns
  flags,
  cutBytes,    \* bytes cut off the end of its datagram
  damagedByte  \* [at, x]: a byte of it and what that is xor-ed with; none or one

dnsVars == <<asked, answers, flags, cutBytes, damagedByte>>

\* What a resolver sends: the question back, then its records.  External.
Response ==
  LET record(r) == (IF r.owner = "pointer" THEN <<192, HeaderLen>> ELSE EncodeName(asked.name))
                     \o U16(r.type) \o U16(r.class) \o <<0, 0, 0, 60>> \o U16(Len(r.data)) \o r.data
      question == DnsQuestion(QueryId, asked.name, asked.type)
  IN U16(QueryId) \o U16(flags) \o U16(1) \o U16(Len(answers)) \o U16(0) \o U16(0)
       \o SubSeq(question, HeaderLen + 1, Len(question))
       \o FlattenSeq([i \in DOMAIN answers |-> record(answers[i])])

----------------------------------------------------------------------------
Failed == -1      \* Err(()) of a read or a skip

\* read_u16 at an offset.
ReadU16(b, at) == IF at + 2 <= Len(b) THEN (256 * b[at + 1]) + b[at + 2] ELSE Failed

\* A skip that steps over a label without its length byte.
RECURSIVE SkipNameShort(_, _)
\* Mutant of SkipName: a label is skipped without its length byte.
SkipNameShort(b, at) ==
  IF at >= Len(b) THEN Failed
  ELSE LET n == b[at + 1]
       IN CASE n = 0 -> at + 1
            [] n >= 192 -> IF at + 2 <= Len(b) THEN at + 2 ELSE Failed
            [] n \in 64..191 -> Failed
            [] OTHER -> SkipNameShort(b, at + n)

\* skip_dns_name: the offset behind the name that starts at an offset.
RECURSIVE SkipName(_, _)
SkipName(b, at) ==
  IF at >= Len(b) THEN Failed
  ELSE LET n == b[at + 1]
       IN CASE n = 0 -> at + 1
            [] n >= 192 -> IF at + 2 <= Len(b) THEN at + 2 ELSE Failed
            [] n \in 64..191 -> Failed
            [] OTHER -> IF at + 1 + n > Len(b) THEN Failed ELSE SkipName(b, at + 1 + n)

RECURSIVE SkipQuestions(_, _, _)
SkipQuestions(b, at, n) ==
  IF n = 0 \/ at = Failed THEN at
  ELSE LET name == SkipName(b, at)
       IN SkipQuestions(b, IF name = Failed \/ name + 4 > Len(b) THEN Failed ELSE name + 4, n - 1)

Unparsed == [ok |-> FALSE, addresses |-> <<>>]

RECURSIVE ReadAnswers(_, _, _, _, _)
ReadAnswers(b, at, n, type, found) ==
  IF n = 0 THEN [ok |-> TRUE, addresses |-> found]
  ELSE LET c == SkipName(b, at)
           rtype == ReadU16(b, c)
           class == ReadU16(b, c + 2)
           len == ReadU16(b, c + 8)
           end == c + 10 + len
           wanted == class = ClassIn /\ rtype = type
           fits == (rtype = TypeA /\ len = 4) \/ (rtype = TypeAaaa /\ len = 16)
       IN IF c = Failed \/ Failed \in {rtype, class, len} \/ end > Len(b) \/ (wanted /\ ~fits)
          THEN Unparsed
          ELSE ReadAnswers(b, end, n - 1, type,
                 IF wanted THEN Append(found, SubSeq(b, c + 11, end)) ELSE found)

ParseDnsAnswers(b, id, type) ==
  LET f == ReadU16(b, 2)
      start == SkipQuestions(b, HeaderLen, ReadU16(b, 4))
  IN IF \/ Len(b) < HeaderLen \/ ReadU16(b, 0) # id
        \/ f \div 32768 = 0 \/ (f \div 512) % 2 = 1 \/ f % 16 # 0
        \/ start = Failed
     THEN Unparsed
     ELSE ReadAnswers(b, start, ReadU16(b, 6), type, <<>>)

----------------------------------------------------------------------------
DnsTypeOK ==
  /\ asked.name \in Names /\ asked.type \in {TypeA, TypeAaaa}
  /\ answers \in Seq(Records) /\ Len(answers) <= MaxAnswers
  /\ flags \in 0..65535 /\ cutBytes \in 0..Len(Response)

DnsInit ==
  /\ asked \in [name : {n \in Names : NameAccepted(n)}, type : {TypeA, TypeAaaa}]
  /\ answers = <<>> /\ flags = 33152 /\ cutBytes = 0 /\ damagedByte = {}

Unharmed == cutBytes = 0 /\ damagedByte = {}

\* The resolver adds a record to its answer, or answers with an error code.
AnswerMore(r) ==
  /\ Len(answers) < MaxAnswers /\ Unharmed
  /\ answers' = Append(answers, r)
  /\ UNCHANGED <<asked, flags, cutBytes, damagedByte>>

AnswerFailure ==
  /\ flags = 33152 /\ Unharmed
  /\ flags' \in {flags + 3, flags + 512}
  /\ UNCHANGED <<asked, answers, cutBytes, damagedByte>>

\* Only a part of the datagram arrives.
CutShort ==
  /\ Unharmed /\ cutBytes' \in 1..Len(Response)
  /\ UNCHANGED <<asked, answers, flags, damagedByte>>

\* One byte arrives as another: a length, a count, a pointer or anything else.
DamageDatagram(at, x) ==
  /\ Unharmed /\ damagedByte' = {[at |-> at, x |-> x]}
  /\ UNCHANGED <<asked, answers, flags, cutBytes>>

DnsNext ==
  \/ \E r \in Records : AnswerMore(r)
  \/ AnswerFailure \/ CutShort
  \/ \E at \in DOMAIN Response, x \in Damages : DamageDatagram(at, x)

----------------------------------------------------------------------------
Datagram ==
  LET arrived == SubSeq(Response, 1, Len(Response) - cutBytes)
      Damaged(i) == {d \in damagedByte : d.at = i}
  IN [i \in DOMAIN arrived |->
        IF Damaged(i) = {} THEN arrived[i] ELSE arrived[i] ^^ (CHOOSE d \in damagedByte : TRUE).x]

Parsed == ParseDnsAnswers(Datagram, QueryId, asked.type)

WantedRecords == SelectSeq(answers, LAMBDA r : r.type = asked.type /\ r.class = ClassIn)

WellSized == \A i \in DOMAIN WantedRecords :
               Len(WantedRecords[i].data) = IF asked.type = TypeA THEN 4 ELSE 16

(* A whole, successful answer parses to exactly the addresses of the asked *)
(* type and class, in the resolver's order, over compressed and spelled    *)
(* out owner names alike; a failed one and any strict prefix are refused.  *)
(* With one byte damaged, be it a length, a count or a pointer, what is    *)
(* accepted are addresses of the asked type's size, bytes of the datagram  *)
(* all of them, and no more than have room in it with their headers.       *)
ParsedExactly ==
  LET size == IF asked.type = TypeA THEN 4 ELSE 16
      parsed == Parsed
      bytes == Datagram
  IN IF damagedByte = {}
     THEN parsed = IF cutBytes = 0 /\ flags = 33152 /\ WellSized
                   THEN [ok |-> TRUE, addresses |-> [i \in DOMAIN WantedRecords |-> WantedRecords[i].data]]
                   ELSE Unparsed
     ELSE /\ HeaderLen + Len(parsed.addresses) * (11 + size) <= Len(bytes)
          /\ \A a \in ToSet(parsed.addresses) :
               \E at \in HeaderLen..(Len(bytes) - size) : a = SubSeq(bytes, at + 1, at + size)

-----------------------------------------------------------------------------
(* The v4.public token format (antiforgery/src/token.rs): how payload,     *)
(* footer and implicit assertion are framed for signing, assembled into    *)
(* the fields of a token and taken apart again. A signature is symbolic,   *)
(* byte i of the signature of a message; a field holds bytes,             *)
(* encoded, or text that does not decode.                                  *)

CONSTANTS
  Payloads, Footers, Assertions,  \* byte sequences
  SignatureBytes,                 \* Signature::BYTE_SIZE
  MaxPublicTokens                       \* bound on the tokens issued

VARIABLES
  issuedTokens,  \* [payload, footer, assertion, token]
  presented      \* the last token verified, with the answer

publicTokenVars == <<issuedTokens, presented>>

Encoded(bytes) == [bytes |-> bytes, text |-> FALSE]
Text(code) == [bytes |-> <<<<code>>>>, text |-> TRUE]
VersionFour == Text(4)
PublicPurpose == Text(0)
PublicHeader == <<<<4>>, <<0>>>>   \* "v4.public."

\* A length as eight bytes, the low one first; a byte is a tuple of its value.
Le64(n) == <<<<n % 256>>, <<n \div 256>>>> \o [i \in 1..6 |-> <<0>>]

\* Mutant of PreAuthEncode: the pieces are joined without their lengths.
PreAuthEncodeJoined(pieces) == Le64(Len(pieces)) \o FlattenSeq(pieces)

PreAuthEncode(pieces) ==
  Le64(Len(pieces)) \o FlattenSeq([i \in DOMAIN pieces |-> Le64(Len(pieces[i])) \o pieces[i]])

Signature(message) == [i \in 1..SignatureBytes |-> <<message, i>>]

\* Mutant of PublicTokenOf: the footer is not signed.
PublicTokenOfUnsigned(payload, footer, assertion) ==
  LET pae == PreAuthEncode(<<PublicHeader, payload, <<>>, assertion>>)
  IN <<VersionFour, PublicPurpose, Encoded(payload \o Signature(pae))>>
       \o (IF footer = <<>> THEN <<>> ELSE <<Encoded(footer)>>)

\* issue_public_payload, for a payload that is not empty.
PublicTokenOf(payload, footer, assertion) ==
  LET pae == PreAuthEncode(<<PublicHeader, payload, footer, assertion>>)
  IN <<VersionFour, PublicPurpose, Encoded(payload \o Signature(pae))>>
       \o (IF footer = <<>> THEN <<>> ELSE <<Encoded(footer)>>)

\* Mutant of SplitPublicToken: fields after the footer are ignored.
SplitPublicTokenLoose(token) ==
  IF Len(token) >= 3 /\ token[1] = VersionFour /\ token[2] = PublicPurpose /\ ~token[3].text
  THEN {[message |-> token[3].bytes, footer |-> IF Len(token) > 3 THEN token[4].bytes ELSE <<>>]}
  ELSE {}

\* split_public_token: {} for a malformed token.
SplitPublicToken(token) ==
  IF /\ Len(token) \in {3, 4} /\ token[1] = VersionFour /\ token[2] = PublicPurpose /\ ~token[3].text
     /\ Len(token) = 4 => ~token[4].text /\ token[4].bytes # <<>>
  THEN {[message |-> token[3].bytes, footer |-> IF Len(token) = 4 THEN token[4].bytes ELSE <<>>]}
  ELSE {}

\* verify_public_payload: {} for an error, else the payload. No footer is
\* expected when expected is {}.
VerifyPublicPayload(token, expected, assertion) ==
  {p \in {SubSeq(s.message, 1, Len(s.message) - SignatureBytes) :
            s \in {t \in SplitPublicToken(token) : Len(t.message) >= SignatureBytes}} :
     \E s \in SplitPublicToken(token) :
       /\ \A f \in expected : s.footer = f
       /\ SubSeq(s.message, Len(p) + 1, Len(s.message))
            = Signature(PreAuthEncode(<<PublicHeader, p, s.footer, assertion>>))}

NothingPresented == [token |-> <<>>, expected |-> {}, assertion |-> <<>>, answer |-> {}]

PublicTokenInit == issuedTokens = {} /\ presented = NothingPresented

Issue(payload, footer, assertion) ==
  /\ payload # <<>> /\ Cardinality(issuedTokens) < MaxPublicTokens
  /\ issuedTokens' = issuedTokens \cup
       {[payload |-> payload, footer |-> footer, assertion |-> assertion,
         token |-> PublicTokenOf(payload, footer, assertion)]}
  /\ presented' = NothingPresented

\* Tokens as they come back: whole, cut short, with a field too many, another
\* version, an undecodable field, or the parts of one under another's.
Returned(t) ==
  LET signed == t[3].bytes
      sig == SubSeq(signed, Len(signed) - SignatureBytes + 1, Len(signed))
      tail(f) == IF f = <<>> THEN <<>> ELSE <<Encoded(f)>>
  IN {t, SubSeq(t, 1, 2), Append(t, Encoded(<<<<1>>>>)), [t EXCEPT ![1] = Text(3)], [t EXCEPT ![3] = Text(9)],
      [t EXCEPT ![3] = Encoded(Tail(sig))], SubSeq(t, 1, 3) \o <<Encoded(<<>>)>>}
     \cup {SubSeq(t, 1, 2) \o <<Encoded(p \o sig)>> \o tail(f) : p \in Payloads, f \in Footers}

Present(i, token, expected, assertion) ==
  /\ presented' = [token |-> token, expected |-> expected, assertion |-> assertion,
                   answer |-> VerifyPublicPayload(token, expected, assertion)]
  /\ UNCHANGED issuedTokens

PublicTokenNext ==
  \/ \E p \in Payloads, f \in Footers, a \in Assertions : Issue(p, f, a)
  \/ /\ presented = NothingPresented
     /\ \E i \in issuedTokens, expected \in {{}} \cup {{f} : f \in Footers}, a \in Assertions :
          \E token \in Returned(i.token) : Present(i, token, expected, a)

PublicTokenTypeOK == Cardinality(issuedTokens) <= MaxPublicTokens /\ Cardinality(presented.answer) <= 1

-----------------------------------------------------------------------------
\* A verified payload was issued under exactly the footer and the assertion it
\* is verified with, by a token with the same fields: no byte moves between the
\* pieces and no field is added (pre_auth_encode, split_public_token).
VerifiedWasIssued ==
  \A p \in presented.answer :
    \E i \in issuedTokens :
      /\ i.payload = p /\ i.assertion = presented.assertion /\ i.token = presented.token
      /\ \A f \in presented.expected : i.footer = f

\* An issued token verifies to its payload under its own footer and assertion,
\* and under no other assertion.
IssuedVerifies ==
  \A i \in issuedTokens : \A a \in Assertions :
    VerifyPublicPayload(i.token, {i.footer}, a) = IF a = i.assertion THEN {i.payload} ELSE {}
==============================================================================

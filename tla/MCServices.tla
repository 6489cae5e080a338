----------------------------- MODULE MCServices -----------------------------
(***************************************************************************)
(* The services, the records they keep and the formats they exchange, for  *)
(* TLC.  As in MCTransports, `focus` picks the component a behaviour       *)
(* exercises.                                                              *)
(***************************************************************************)
EXTENDS
  TelemetryStream, Startup, MockService, ModelRegistry, PanicWipe, RouteRules,
  TokenService, MerkleLog, WireCodecs, ZkpVerifier, SessionManager, TLC

CONSTANTS
  Focus,    \* the components to exercise
  a1, a2, b1, b2, i1, i2, routing, advisory, c1, c2, t1

VARIABLE focus

vars == <<focus,
  streamVars, bootVars, mockVars, modelVars, wipeVars, routeVars, replayVars,
  merkleVars, tokenVars, publicTokenVars, zkVars, dnsVars, codecVars,
  packetVars, sessionVars>>

Symmetry == Permutations({a1, a2}) \cup Permutations({b1, b2}) \cup Permutations({c1, c2})

OfferedStarts ==
  {[config |-> TRUE, kind |-> 1, protocol |-> TRUE, json |-> TRUE], [config |-> TRUE, kind |-> 0, protocol |-> TRUE, json |-> TRUE],
   [config |-> TRUE, kind |-> 6, protocol |-> TRUE, json |-> TRUE], [config |-> TRUE, kind |-> 2, protocol |-> TRUE, json |-> FALSE]}
OfferedPolicies == {[revision |-> r, offsets |-> <<1, 2, 3, 4, 5>>, segments |-> 260] : r \in 0..2}

RouteCategories == {
  [action |-> "Block", priority |-> 5, domains |-> <<[ty |-> "keyword", value |-> <<"g">>]>>, cidrs |-> <<>>],
  [action |-> "Direct", priority |-> 5, domains |-> <<[ty |-> "suffix", value |-> <<"g", ".", "c">>]>>, cidrs |-> <<{1, 2}>>],
  [action |-> "Proxy", priority |-> 9, domains |-> <<[ty |-> "full", value |-> <<"e", "g", ".", "c">>], [ty |-> "suffix", value |-> <<"c">>]>>, cidrs |-> <<{2, 3}>>]}
RouteSets == {[version |-> 1, default |-> "Proxy", categories |-> <<a, b, c>>] : a, b, c \in RouteCategories}
RouteDomains == {<<"g", ".", "c">>, <<"e", "g", ".", "c">>, <<"m", ".", "g", ".", "c">>, <<"m", ".", "d">>}

SomePayloads == {<<<<1>>>>, <<<<1>>, <<0>>>>}
SomeFooters == {<<>>, <<<<0>>>>}
SomeAssertions == {<<>>, <<<<1>>>>, <<<<0>>, <<1>>>>}

DnsNames == {<<<<97, 98>>, <<99>>>>, <<>>}
DnsRecords == [owner : {"pointer", "name"}, type : {1}, class : {1}, data : {<<1, 2, 3, 4>>}]
  \cup [owner : {"pointer"}, type : {1, 28}, class : {1, 3}, data : {[i \in 1..16 |-> i]}]
  \cup [owner : {"pointer"}, type : {1}, class : {1}, data : {<<0, 0, 0>>}]

CodecHellos == {<<>>, <<1>>, <<1, 2, 3, 4, 5>>}
CodecOffsets == {<<>>, <<2, 0, 2>>, <<4, 1>>, <<5, 9>>}
CodecCascades == {<<>>, <<[role |-> "Inner", name |-> <<>>, overhead |-> 0]>>,
  <<[role |-> "Outer", name |-> <<7, 7>>, overhead |-> 2], [role |-> "Inner", name |-> <<9>>, overhead |-> 1]>>}
CodecPayloads == {<<>>, <<79, 0, 3>>}

PacketPayloads == {<<>>, <<255>>, <<7, 129>>, <<0, 17, 33, 174, 200>>}
PacketSni(names) == [ty |-> 0, names |-> names, body |-> <<>>]
PacketOther(t, b) == [ty |-> t, names |-> <<>>, body |-> b]
PacketHellos == {<<>>,
  <<PacketOther(10, <<0, 1>>), PacketSni(<<[ty |-> 0, host |-> <<97, 98>>]>>)>>,
  <<PacketSni(<<[ty |-> 3, host |-> <<1>>], [ty |-> 0, host |-> <<97>>]>>), PacketOther(65037, <<>>)>>,
  <<PacketOther(65037, <<0, 0>>), PacketSni(<<>>), PacketSni(<<[ty |-> 0, host |-> <<255, 1>>]>>)>>}

Init ==
  /\ focus \in Focus
  /\ StreamInit
  /\ BootInit /\ (focus # "boot" => serviceEnv = Undeployed)
  /\ MockInit
  /\ ModelsInit
  /\ WipeInit
  /\ RouteInit /\ (focus # "route" => written = CHOOSE rs \in RuleSets : rs.version > 0)
  /\ ReplayInit
  /\ MerkleInit
  /\ TokenInit
  /\ PublicTokenInit
  /\ ZkInit /\ (focus # "zkp" => zkRoot = CHOOSE r \in Roots : TRUE)
  /\ DnsInit /\ (focus # "dns" => asked = [name |-> <<<<97, 98>>, <<99>>>>, type |-> TypeA])
  /\ CodecInit /\ (focus # "codec" => codecPart = "plan" /\ cascade = <<>>)
  /\ PacketInit /\ (focus # "packet" => icmpNext = 0)
  /\ SessionInit

\* Every component but f keeps its state.
OthersRest(f) ==
  /\ IF f = "stream" THEN TRUE ELSE UNCHANGED streamVars
  /\ IF f = "boot" THEN TRUE ELSE UNCHANGED bootVars
  /\ IF f = "mock" THEN TRUE ELSE UNCHANGED mockVars
  /\ IF f = "models" THEN TRUE ELSE UNCHANGED modelVars
  /\ IF f = "wipe" THEN TRUE ELSE UNCHANGED wipeVars
  /\ IF f = "route" THEN TRUE ELSE UNCHANGED routeVars
  /\ IF f = "replay" THEN TRUE ELSE UNCHANGED replayVars
  /\ IF f = "merkle" THEN TRUE ELSE UNCHANGED merkleVars
  /\ IF f = "token" THEN TRUE ELSE UNCHANGED tokenVars
  /\ IF f = "ptoken" THEN TRUE ELSE UNCHANGED publicTokenVars
  /\ IF f = "zkp" THEN TRUE ELSE UNCHANGED zkVars
  /\ IF f = "dns" THEN TRUE ELSE UNCHANGED dnsVars
  /\ IF f = "codec" THEN TRUE ELSE UNCHANGED codecVars
  /\ IF f = "packet" THEN TRUE ELSE UNCHANGED packetVars
  /\ IF f = "session" THEN TRUE ELSE UNCHANGED sessionVars

Next ==
  /\ UNCHANGED focus
  /\ \/ focus = "stream" /\ StreamNext /\ OthersRest("stream")
     \/ focus = "boot" /\ BootNext /\ OthersRest("boot")
     \/ focus = "mock" /\ MockNext /\ OthersRest("mock")
     \/ focus = "models" /\ ModelsNext /\ OthersRest("models")
     \/ focus = "wipe" /\ WipeNext /\ OthersRest("wipe")
     \/ focus = "route" /\ RouteNext /\ OthersRest("route")
     \/ focus = "replay" /\ ReplayNext /\ OthersRest("replay")
     \/ focus = "merkle" /\ MerkleNext /\ OthersRest("merkle")
     \/ focus = "token" /\ TokenNext /\ OthersRest("token")
     \/ focus = "ptoken" /\ PublicTokenNext /\ OthersRest("ptoken")
     \/ focus = "zkp" /\ ZkNext /\ OthersRest("zkp")
     \/ focus = "dns" /\ DnsNext /\ OthersRest("dns")
     \/ focus = "codec" /\ CodecNext /\ OthersRest("codec")
     \/ focus = "packet" /\ PacketNext /\ OthersRest("packet")
     \/ focus = "session" /\ SessionNext /\ OthersRest("session")

Spec == Init /\ [][Next]_vars

\* Every component's state is well typed.
TypeOK ==
  /\ StreamTypeOK
  /\ BootTypeOK
  /\ MockTypeOK
  /\ ModelsTypeOK
  /\ WipeTypeOK
  /\ RouteTypeOK
  /\ ReplayTypeOK
  /\ MerkleTypeOK
  /\ TokenTypeOK
  /\ PublicTokenTypeOK
  /\ ZkTypeOK
  /\ DnsTypeOK
  /\ CodecTypeOK
  /\ PacketTypeOK
  /\ SessionTypeOK

(* What the services say of themselves is so: a listener is up only behind *)
(* the checks of main, a refused start leaves nothing running, a fallback  *)
(* is explained, the signer survives a restart, a listed core runs, is     *)
(* started once and its revisions increase, and what a panic wipe reports  *)
(* destroyed is gone and counted once.                                     *)
ServicesTruthful ==
  /\ ListenerGuarded
  /\ RefusedRunsNothing
  /\ FallbackExplained
  /\ SignerSurvivesRestart
  /\ ListedRuns
  /\ StartedOnce
  /\ RevisionsIncrease
  /\ WipedIsGone
  /\ DestroyedOnce

(* Every reader gives back what its writer wrote, and of what was cut or   *)
(* damaged on the way exactly as much as the conjunct says: DNS answers,   *)
(* split plans, fragments, tunnel frames, ICMP frames, DNS labels and      *)
(* ClientHellos. Inclusion and consistency proofs verify for what is in    *)
(* the log and nothing else, and a token verifies exactly as it was        *)
(* issued. A routing rule matches on whole labels and by priority.         *)
CodecsExact ==
  /\ ParsedExactly
  /\ PlanWithinHello
  /\ FragmentsRebuild
  /\ CascadeExact
  /\ IcmpExact
  /\ DohExact
  /\ HelloReadExactly
  /\ InclusionExact
  /\ ConsistencyExact
  /\ IssuedVerifies
  /\ VerifiedWasIssued
  /\ SuffixOnLabels
  /\ RouteByPriority
=============================================================================

----------------------------- MODULE RouteRules -----------------------------
(***************************************************************************)
(* The routing rules (routing/src) and the resolver the data plane asks    *)
(* (core-supervisor/src/routing.rs).  A domain is a sequence of characters *)
(* in lower case, a network the set of its addresses.  Rule sets read from *)
(* JSON and the preset are sorted by priority; reload installs the set it  *)
(* is given.                                                               *)
(***************************************************************************)
EXTENDS Integers, Sequences, SequencesExt, FiniteSetsExt

CONSTANTS
  RuleSets,       \* [version, default, categories] as written in a file
  Domains,        \* requested domains
  Addresses,      \* requested addresses
  NoName          \* the request carries no domain, or no address

VARIABLES
  engine,         \* the rule set in force, in evaluation order
  written,        \* the same set as it was written
  routed          \* the last decision: [domain, ip, action]

routeVars == <<engine, written, routed>>

\* sort_by of priorities, descending; equal priorities keep their order.
SortedCategories(cs) ==
  LET before(i, j) == cs[i].priority > cs[j].priority \/ (cs[i].priority = cs[j].priority /\ i < j)
      order == SetToSortSeq(DOMAIN cs, before)
  IN [i \in DOMAIN cs |-> cs[order[i]]]

Sorted(rs) == [rs EXCEPT !.categories = SortedCategories(@)]

Dot == "."

\* Mutant of SuffixMatches: a suffix rule that forgets the dot before the value.
SuffixMatchesLoose(dom, v) == IsSuffix(v, dom)

SuffixMatches(dom, v) == dom = v \/ IsSuffix(<<Dot>> \o v, dom)

KeywordMatches(dom, v) ==
  \E i \in 0..(Len(dom) - Len(v)) : SubSeq(dom, i + 1, i + Len(v)) = v

DomainMatches(dom, rules) ==
  \E i \in DOMAIN rules :
    LET r == rules[i]
    IN CASE r.ty = "full" -> dom = r.value
         [] r.ty = "suffix" -> SuffixMatches(dom, r.value)
         [] r.ty = "keyword" -> KeywordMatches(dom, r.value)

IpMatches(ip, cidrs) == \E i \in DOMAIN cidrs : ip \in cidrs[i]

CategoryMatches(c, dom, ip) ==
  (dom # NoName /\ DomainMatches(dom, c.domains)) \/ (ip # NoName /\ IpMatches(ip, c.cidrs))

\* Mutant of Decide: the last matching category wins.
DecideLast(rs, dom, ip) ==
  LET hits == {i \in DOMAIN rs.categories : CategoryMatches(rs.categories[i], dom, ip)}
  IN IF hits = {} THEN rs.default ELSE rs.categories[Max(hits)].action

\* Engine.decide: the first category that matches, else the default.
Decide(rs, dom, ip) ==
  LET hits == {i \in DOMAIN rs.categories : CategoryMatches(rs.categories[i], dom, ip)}
  IN IF hits = {} THEN rs.default ELSE rs.categories[Min(hits)].action

----------------------------------------------------------------------------
NoRoute == [domain |-> NoName, ip |-> NoName, action |-> "none"]

RouteTypeOK ==
  /\ written \in RuleSets /\ Len(engine.categories) = Len(written.categories)
  /\ routed.action \in {"none", "Direct", "Proxy", "Block"}

\* from_preset and from_file: RuleSet::from_json refuses version 0.
RouteInit ==
  /\ written \in {rs \in RuleSets : rs.version > 0}
  /\ engine = Sorted(written) /\ routed = NoRoute

\* reload takes the set as it is given: sorted by the loader, or as it was built.
Reload(rs, sorted) ==
  /\ rs.version > 0
  /\ written' = rs /\ engine' = IF sorted THEN Sorted(rs) ELSE rs
  /\ routed' = NoRoute

Route(dom, ip) ==
  /\ routed' = [domain |-> dom, ip |-> ip, action |-> Decide(engine, dom, ip)]
  /\ UNCHANGED <<engine, written>>

RouteNext ==
  \/ \E rs \in RuleSets, b \in BOOLEAN : Reload(rs, b)
  \/ \E d \in Domains \cup {NoName}, a \in Addresses \cup {NoName} : Route(d, a)

----------------------------------------------------------------------------
\* The labels of a domain, written without the resolver's string tests.
LabelEnds(dom) == {i \in 1..(Len(dom) + 1) : i = Len(dom) + 1 \/ dom[i] = Dot}
Label(dom, stop) ==
  SubSeq(dom, Max({0} \cup {i \in LabelEnds(dom) : i < stop}) + 1, stop - 1)
Labels(dom) == LET ends == SetToSortSeq(LabelEnds(dom), <) IN [i \in DOMAIN ends |-> Label(dom, ends[i])]

(* A suffix rule matches whole labels of the name routed: its labels are   *)
(* the last of the name ("google.com" matches mail.google.com but NOT      *)
(* evilgoogle.com, as domain_matches documents).                           *)
SuffixOnLabels ==
  routed.domain # NoName =>
    \A i \in DOMAIN engine.categories : \A j \in DOMAIN engine.categories[i].domains :
      LET r == engine.categories[i].domains[j]
      IN r.ty = "suffix" =>
           (DomainMatches(routed.domain, <<r>>) <=> IsSuffix(Labels(r.value), Labels(routed.domain)))

(* Categories are "evaluated in priority order (higher first); first match *)
(* wins": for a set the loader ordered, no matching category of the set as *)
(* it was written outranks the one whose action was taken, and among equals*)
(* the one written first has it. A set handed to reload as it was built is *)
(* evaluated in the order it has.                                          *)
RouteByPriority ==
  routed.action # "none" =>
    LET cs == written.categories
        hits == {i \in DOMAIN cs : CategoryMatches(cs[i], routed.domain, routed.ip)}
        outranks(i, j) == engine = Sorted(written) /\ cs[i].priority # cs[j].priority
        best == CHOOSE i \in hits : \A j \in hits :
                  IF outranks(i, j) THEN cs[i].priority > cs[j].priority ELSE i <= j
    IN routed.action = IF hits = {} THEN written.default ELSE cs[best].action
=============================================================================

----------------------------- MODULE SavedScope -----------------------------
(***************************************************************************)
(* Saved scope: whether the targets of an Action lie in the rules of the   *)
(* active revision, and how many concrete addresses they stand for.  An    *)
(* address of a family is a number below 2^Bits, a hostname a sequence of  *)
(* labels, a target what normalizeTarget returns for it.                   *)
(***************************************************************************)
EXTENDS Integers, Sequences, SequencesExt, FiniteSets, FiniteSetsExt, Folds

CONSTANTS
    Bits,        \* the width of an address: 32 and 128 in the code
    MaxPort,     \* 65535
    Threshold,   \* CARDINALITY_WARNING_THRESHOLD
    Anywhere,    \* a rule without portRanges
    Unspecified  \* a subject whose declaredPorts are null

ASSUME ScopeAssumption ==
    /\ Bits \in Nat /\ MaxPort \in Nat /\ Threshold \in Nat
    /\ Anywhere \notin Seq([from : Int, to : Int])

(***************************************************************************)
(* Port restrictions.                                                      *)
(***************************************************************************)
ValidRange(r) == 1 <= r.from /\ r.from <= r.to /\ r.to <= MaxPort
Earlier(r, q) == r.from < q.from \/ (r.from = q.from /\ r.to <= q.to)
Latest(ranges) == CHOOSE r \in ranges : \A q \in ranges : Earlier(q, r)
MaxOf(a, b) == IF a < b THEN b ELSE a

(* Intervals in order, each one that overlaps or touches the last joined   *)
(* to it.                                                                  *)
JoinSlip(merged, r) ==   \* a slip: the later interval taken to end last
    IF merged = <<>> \/ r.from > Last(merged).to + 1 THEN Append(merged, r)
    ELSE [merged EXCEPT ![Len(merged)].to = r.to]
Join(merged, r) ==
    IF merged = <<>> \/ r.from > Last(merged).to + 1 THEN Append(merged, r)
    ELSE [merged EXCEPT ![Len(merged)].to = MaxOf(@, r.to)]
Merge(ranges) ==
    MapThenFoldSet(LAMBDA r, merged : Join(merged, r), <<>>, LAMBDA r : r, Latest, ranges)

NormalizePorts(rule) ==
    IF rule.ports = Anywhere THEN rule
    ELSE [rule EXCEPT !.ports = Merge(ToSet(rule.ports))]

(***************************************************************************)
(* Host predicates.                                                        *)
(***************************************************************************)
TwoTo[n \in Nat] == IF n = 0 THEN 1 ELSE 2 * TwoTo[n - 1]
Shift(address, prefix) == address \div TwoTo[Bits - prefix]
NoHost == [kind |-> "none"]
IpOf(t) == IF t.kind = "url" THEN t.host ELSE t
HostnameOf(s) ==
    IF s.target.kind = "hostname" THEN s.target
    ELSE IF s.target.kind = "url" /\ s.target.host.kind = "hostname" THEN s.target.host
    ELSE IF s.provenance.kind = "hostname_resolution" THEN s.provenance.source
    ELSE NoHost

CidrContains(cidr, family, address, prefix) ==
    /\ family = cidr.family /\ cidr.prefix <= prefix
    /\ Shift(address, cidr.prefix) = Shift(cidr.network, cidr.prefix)

HostMatches(rule, s) ==
    LET t == s.target
        ip == IpOf(t)
        h == HostnameOf(s)
    IN  CASE rule.kind = "ip" -> ip.kind = "ip" /\ ip = rule.target
          [] rule.kind = "cidr" ->
               IF t.kind = "cidr"
                 THEN CidrContains(rule.target, t.family, t.network, t.prefix)
                 ELSE ip.kind = "ip" /\ CidrContains(rule.target, ip.family, ip.address, Bits)
          [] rule.kind = "domain" ->
               /\ h # NoHost
               /\ \/ h.name = rule.target.name
                  \/ rule.subdomains /\ IsStrictSuffix(rule.target.name, h.name)
          [] rule.kind = "url-origin" ->
               t.kind = "url" /\ [scheme |-> t.scheme, host |-> t.host, port |-> t.port] = rule.origin

Within(port, ranges) == \E i \in DOMAIN ranges : ranges[i].from <= port /\ port <= ranges[i].to

Uncovered(ports, ranges) ==
    IF ranges = Anywhere THEN {} ELSE {p \in ports : ~Within(p, ranges)}
Unbounded(s, rule) == rule.ports # Anywhere /\ s.ports = Unspecified

(***************************************************************************)
(* compareSubject: the rules whose host predicate holds are matched, miss  *)
(* some of the ports, or restrict ports the subject does not bound.        *)
(***************************************************************************)
HostRules(s, rules) == {i \in DOMAIN rules : HostMatches(rules[i], s)}
MatchedRules(s, rules) ==
    {i \in HostRules(s, rules) : ~Unbounded(s, rules[i]) /\ Uncovered(s.ports, rules[i].ports) = {}}

OutsideReason(s, rules) ==
    LET hosts == HostRules(s, rules)
    IN  IF rules = <<>> THEN "active_scope_empty"
        ELSE IF \E i \in hosts : Unbounded(s, rules[i]) THEN "ports_unspecified"
        ELSE IF hosts # {} THEN "ports_uncovered"
        ELSE IF s.provenance.kind = "redirect" THEN "redirect_origin_outside_scope"
        ELSE IF s.target.kind = "url" /\ (\E i \in DOMAIN rules : rules[i].kind = "url-origin")
          THEN "origin_mismatch"
        ELSE IF s.target.kind = "ip" /\ s.provenance.kind = "direct" THEN "no_exact_ip_rule"
        ELSE "host_outside_scope"

(* What the comparison refuses, in the order it looks.                     *)
Duplicate(rules, i) == \E j \in 1..(i - 1) : rules[j].id = rules[i].id
Faulty(rules) == {i \in DOMAIN rules : Duplicate(rules, i) \/ rules[i].ports = <<>>}
Refusal(q) ==
    IF ~q.active /\ q.rules # <<>> THEN "invalid_scope_revision"
    ELSE IF Faulty(q.rules) # {}
      THEN IF Duplicate(q.rules, Min(Faulty(q.rules)))
             THEN "duplicate_scope_rule_id" ELSE "empty_port_restriction"
    ELSE IF q.subject.provenance.kind # "direct" /\ ~q.subject.provenance.current
      THEN "invalid_current_action_provenance"
    ELSE IF \E i \in DOMAIN q.rules : /\ q.rules[i].ports # Anywhere
                                      /\ \E r \in ToSet(q.rules[i].ports) : ~ValidRange(r)
      THEN "invalid_scope_input"
    ELSE "none"

Comparison(q) ==
    LET rules == [i \in DOMAIN q.rules |-> NormalizePorts(q.rules[i])]
        matched == MatchedRules(q.subject, rules)
    IN  IF Refusal(q) # "none" THEN [error |-> Refusal(q)]
        ELSE [error |-> "none",
              outside |-> q.active /\ matched = {},
              matched |-> IF q.active THEN matched ELSE {},
              reason |-> IF q.active /\ matched = {}
                           THEN OutsideReason(q.subject, rules) ELSE "none"]

(***************************************************************************)
(* estimateConcreteTargetCardinality: the CIDRs of each family are merged, *)
(* the exact addresses outside them counted once for every zone, and the   *)
(* sum stops at one more than the threshold.                               *)
(***************************************************************************)
Interval(cidr) == [from |-> cidr.network, to |-> cidr.network + TwoTo[Bits - cidr.prefix] - 1]
MergedIntervals(targets, family) ==
    Merge({Interval(t) : t \in {u \in targets : u.kind = "cidr" /\ u.family = family}})
LoneIpsSlip(targets) ==   \* a slip: any family's CIDR takes the address in
    {t \in targets : t.kind = "ip" /\ ~Within(t.address, MergedIntervals(targets, 4))}
LoneIps(targets) ==
    {t \in targets : t.kind = "ip" /\ ~Within(t.address, MergedIntervals(targets, t.family))}
Length(total, r) == total + r.to - r.from + 1
Total(ranges) == FoldLeft(Length, 0, ranges)
Estimate(targets) ==
    LET count == Total(MergedIntervals(targets, 4)) + Total(MergedIntervals(targets, 6))
                   + Cardinality(LoneIps(targets))
    IN  IF count > Threshold THEN [count |-> Threshold + 1, large |-> TRUE]
        ELSE [count |-> count, large |-> FALSE]

-----------------------------------------------------------------------------
(***************************************************************************)
(* What the two functions are for, said with sets.                         *)
(***************************************************************************)
Addresses(cidr) == {a \in 0..(TwoTo[Bits] - 1) :
                       cidr.network <= a /\ a < cidr.network + TwoTo[Bits - cidr.prefix]}

(* The rule stands for every host of the subject.                          *)
Covers(rule, s) ==
    LET t == s.target
        ip == IpOf(t)
    IN  IF rule.kind # "cidr" THEN HostMatches(rule, s)
        ELSE IF t.kind = "cidr"
        THEN t.family = rule.target.family /\ Addresses(t) \subseteq Addresses(rule.target)
        ELSE /\ ip.kind = "ip" /\ ip.family = rule.target.family
             /\ ip.address \in Addresses(rule.target)

PortsOf(rule) ==
    IF rule.ports = Anywhere THEN 1..MaxPort
    ELSE UNION {r.from..r.to : r \in ToSet(rule.ports)}

(***************************************************************************)
(* A subject is in scope exactly if one rule, and not several together,    *)
(* covers all its hosts and all the ports it may reach, any port if it     *)
(* declares none; and a subject outside is told the ports are the reason   *)
(* exactly if some rule has its hosts.  So neither a mask comparison, nor  *)
(* the order, overlap or adjacency of port ranges, can hide a target that  *)
(* is outside, or report one that is inside.                               *)
(***************************************************************************)
InScope(q) ==
    \E i \in DOMAIN q.rules :
        /\ Covers(q.rules[i], q.subject)
        /\ IF q.subject.ports = Unspecified THEN q.rules[i].ports = Anywhere
           ELSE q.subject.ports \subseteq PortsOf(q.rules[i])

ContainmentHolds(q, a) ==
    a.error = "none" =>
        /\ a.outside <=> (q.active /\ ~InScope(q))
        /\ a.outside => (a.reason \in {"ports_unspecified", "ports_uncovered"}
                           <=> \E i \in DOMAIN q.rules : Covers(q.rules[i], q.subject))

(***************************************************************************)
(* The large-target warning counts every address once: in a CIDR whatever  *)
(* its zone, however the CIDRs overlap, touch or repeat, and outside the   *)
(* CIDRs once for each zone.                                               *)
(***************************************************************************)
Identities(t, cidrs) ==
    IF t.kind = "cidr" THEN {<<t.family, a, "any">> : a \in Addresses(t)}
    ELSE IF \E c \in cidrs : c.family = t.family /\ t.address \in Addresses(c)
      THEN {<<t.family, t.address, "any">>}
    ELSE {<<t.family, t.address, t.zone>>}
CardinalityHolds(targets, a) ==
    LET cidrs == {t \in targets : t.kind = "cidr"}
        n == Cardinality(UNION {Identities(t, cidrs) : t \in targets})
    IN  a = IF n > Threshold THEN [count |-> Threshold + 1, large |-> TRUE]
            ELSE [count |-> n, large |-> FALSE]
=============================================================================

----------------------------- MODULE MCStorage -----------------------------
(***************************************************************************)
(* The data directory with its backups, and the two algorithms, for TLC.   *)
(* They share no state: a behaviour moves the directory, feeds a stream to *)
(* the redactor, or asks one question of saved scope and takes the answer. *)
(***************************************************************************)
EXTENDS BackupRestore, Redaction, SavedScope, TLC

CONSTANTS u1, u2, i1, Families, Zones, Names, Schemes, MaxRanges

VARIABLES part, question, answer

ASSUME QuestionAssumption ==
    /\ MaxPort > 1 /\ MaxRanges \in Nat /\ Names # {}
    /\ Families \subseteq {4, 6} /\ "any" \notin Zones

MCMark == <<"[", "]">>
MCPrefixes == {<<"t", "=">>, <<"a", "_">>}
MCSecrets == {<<"a", "a", "=">>, <<"=", "t">>}
MCNames == {<<"b">>, <<"a", "b">>, <<"c", "a", "b">>}

Ips == [kind : {"ip"}, family : {4} \cap Families, address : 0..(TwoTo[Bits] - 1), zone : {"none"}]
         \cup [kind : {"ip"}, family : {6} \cap Families, address : 0..(TwoTo[Bits] - 1),
               zone : Zones \cup {"none"}]
Cidrs == {c \in [kind : {"cidr"}, family : Families, network : 0..(TwoTo[Bits] - 1), prefix : 0..Bits] :
             c.network % TwoTo[Bits - c.prefix] = 0}
Hostnames == [kind : {"hostname"}, name : Names]
Origins == [scheme : Schemes, host : Hostnames \cup Ips, port : {1, 2}]
Urls == {[kind |-> "url", scheme |-> o.scheme, host |-> o.host, port |-> o.port] : o \in Origins}

Direct == [kind |-> "direct"]
Provenances(t) ==
    {Direct}
      \cup (IF t.kind = "ip" THEN [kind : {"hostname_resolution"}, source : Hostnames, current : BOOLEAN]
            ELSE {})
      \cup (IF t.kind = "url" THEN [kind : {"redirect"}, current : BOOLEAN] ELSE {})
Subjects(ports) ==
    UNION {[target : {t}, ports : ports, provenance : Provenances(t)] :
              t \in Ips \cup Cidrs \cup Hostnames \cup Urls}

PortRange == [from : 0..(MaxPort + 1), to : 0..(MaxPort + 1)]
RangeSeqs == UNION {[1..n -> PortRange] : n \in 0..MaxRanges}
FewPorts == {Anywhere, <<[from |-> 1, to |-> 1]>>}
Targets(ports) ==
    [kind : {"ip"}, target : Ips, ports : ports]
      \cup [kind : {"cidr"}, target : Cidrs, ports : ports]
      \cup [kind : {"domain"}, target : Hostnames, subdomains : BOOLEAN, ports : ports]
      \cup [kind : {"url-origin"}, origin : Origins, ports : ports]
WithId(rule, id) == [f \in DOMAIN rule \cup {"id"} |-> IF f = "id" THEN id ELSE rule[f]]

(***************************************************************************)
(* The rules asked about: every list of ranges over one host, every host   *)
(* over few lists, pairs of CIDRs and addresses, and no rule at all.  The  *)
(* subjects each of them is compared with.                                 *)
(***************************************************************************)
AHost == CHOOSE n \in Hostnames : TRUE
PortRules(r) == <<[kind |-> "domain", target |-> AHost, subdomains |-> FALSE, ports |-> r, id |-> 1]>>
PortSubjects == [target : {AHost}, provenance : {Direct},
                 ports : {Unspecified} \cup (SUBSET (1..MaxPort) \ {{}})]
HostSubjects == Subjects({Unspecified, {1}, {1, 2}})
Blocks(ports) == {r \in Targets(ports) : r.kind \in {"ip", "cidr"}}
PairSubjects == [target : Ips \cup Cidrs, ports : {Unspecified, {1, 2}}, provenance : {Direct}]

Asked(rules, subject, active) ==
    question = [rules |-> rules, subject |-> subject, active |-> active]
Questions ==
    \/ \E r \in RangeSeqs, a \in BOOLEAN, s \in PortSubjects : Asked(PortRules(r), s, a)
    \/ \E r \in Targets(FewPorts), s \in HostSubjects : Asked(<<WithId(r, 1)>>, s, TRUE)
    \/ \E r \in Blocks(FewPorts), q \in Blocks({Anywhere, <<[from |-> 2, to |-> 2]>>}),
          i \in {1, 2}, s \in PairSubjects : Asked(<<WithId(r, 1), WithId(q, i)>>, s, TRUE)
    \/ \E a \in BOOLEAN, s \in HostSubjects : Asked(<<>>, s, a)

Exact == Ips \cup Cidrs
Widest == CHOOSE l \in Limits : \A m \in Limits : m <= l
MCInit ==
    /\ Init /\ StreamInit
    /\ answer = [error |-> "none"]
    /\ \/ part = "stream" /\ question = [active |-> FALSE]
       \/ part = "directory" /\ limit = Widest /\ question = [active |-> FALSE]
       \/ part = "compare" /\ limit = Widest /\ Questions
       \/ part = "estimate" /\ limit = Widest
            /\ \E t \in Exact, u \in Exact, v \in Exact : question = {t, u, v}

Directory == part = "directory" /\ Next /\ UNCHANGED <<streamVars, part, question, answer>>
Stream == part = "stream" /\ StreamNext /\ UNCHANGED <<vars, part, question, answer>>
Compare ==
    /\ part = "compare"
    /\ part' = "compared" /\ answer' = Comparison(question)
    /\ UNCHANGED <<vars, streamVars, question>>
Count ==
    /\ part = "estimate"
    /\ part' = "counted" /\ answer' = Estimate(question)
    /\ UNCHANGED <<vars, streamVars, question>>
MCNext == Directory \/ Stream \/ Compare \/ Count
MCSpec == MCInit /\ [][MCNext]_<<vars, streamVars, part, question, answer>>

UploadSymmetry == Permutations(Uploads)

(* ContainmentHolds of every question asked.                               *)
ComparisonMeansContainment == part = "compared" => ContainmentHolds(question, answer)

(* CardinalityHolds of every set of targets counted.                       *)
CardinalityIsUnion == part = "counted" => CardinalityHolds(question, answer)
=============================================================================

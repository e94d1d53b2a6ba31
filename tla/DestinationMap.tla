--------------------------- MODULE DestinationMap ---------------------------
(***************************************************************************)
(* mapping.py: what a rule of a destination map matches and what it makes  *)
(* of the destinations.                                                    *)
(*                                                                         *)
(* A domain name or pattern is the sequence of its labels, as split(".")   *)
(* gives them: a leading or trailing dot shows as an empty label.          *)
(* A destination is a record with its scheme and host (of a directory: its *)
(* path); what urllib finds no host in has NoHost, what urlparse raises a  *)
(* ValueError for, as for `a@[x', has BadHost.  A regular expression to    *)
(* match is the set of all it matches.  A regular expression to replace,   *)
(* with its substitution, is the function re.subn computes with them: it   *)
(* may build any destination from parts of the one it finds itself in.     *)
(***************************************************************************)
EXTENDS Integers, Sequences, SequencesExt

CONSTANTS NoHost, BadHost

\* The name ".", which as a pattern matches every domain.
Root == <<"", "">>

RemoveTrailingDot(name) ==
    IF Len(name) > 1 /\ Last(name) = "" THEN Front(name) ELSE name

\* _domain_match.  The dot is removed from the domain, not from the pattern.
DomainMatch(domain, pattern) ==
    LET name == RemoveTrailingDot(domain)
    IN  \/ pattern = Root
        \/ /\ Len(pattern) > 1
           /\ Head(pattern) = ""
           /\ Len(name) >= Len(pattern)
           /\ IsSuffix(Tail(pattern), name)
        \/ name = pattern

IsList(s) == s \in Seq(ToSet(s))

\* What _parse_map_entry makes of a line: the type of the match, its pattern (`name' for
\* a domain, `subjects' for a regular expression), the action and its parameters (`args'
\* are destinations, `subst' is defined for those that REGEXP changes).
IsRule(m) ==
    /\ IsList(m.args)
    /\ m.type \in {"domain", "regexp"}
    /\ \/ m.action \in {"ACCEPT", "DISCARD"} /\ m.args = <<>>
       \/ m.action \in {"REPLACE", "APPEND"} /\ m.args # <<>>
       \/ m.action = "REGEXP" /\ m.args = <<>>
    /\ m.action # "REGEXP" => DOMAIN m.subst = {}

IsMap(map) == IsList(map) /\ \A i \in DOMAIN map : IsRule(map[i])

----------------------------------------------------------------------------
(* The matchers: a rule of the record map looks at the domain reported     *)
(* about, one of the other maps at the destination.                        *)

RecordRuleMatches(m, domain) ==
    \/ m.type = "regexp" /\ domain \in m.subjects
    \/ m.type = "domain" /\ DomainMatch(domain, m.name)

RuleMatches(m, d) ==
    \/ m.type = "regexp" /\ d \in m.subjects
    \/ m.type = "domain" /\ d.host \notin {NoHost, BadHost} /\ DomainMatch(d.host, m.name)

\* Without a host _domain_match raises an AttributeError.  The matcher for mail
\* addresses takes that for no match, the one for URLs lets it pass.  What urlparse itself
\* raises passes both.
RuleRaises(m, d) ==
    /\ m.type = "domain"
    /\ \/ d.host = BadHost
       \/ d.host = NoHost /\ d.scheme = "https"

Rewrite(m, d) == IF d \in DOMAIN m.subst THEN m.subst[d] ELSE d

\* The actions.
Result(m, ds) ==
    CASE m.action = "ACCEPT"  -> ds
      [] m.action = "DISCARD" -> <<>>
      [] m.action = "REPLACE" -> m.args
      [] m.action = "APPEND"  -> ds \o m.args
      [] m.action = "REGEXP"  -> [k \in DOMAIN ds |-> Rewrite(m, ds[k])]

\* Mutant: only the first destination is looked at.
PreFlightCheckFirst(ds) == ds # <<>> => ds[1].scheme \in {"https", "mailto"}

\* Only these may come from a DNS record.
PreFlightCheck(ds) == \A k \in DOMAIN ds : ds[k].scheme \in {"https", "mailto"}
=============================================================================

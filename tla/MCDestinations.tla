--------------------------- MODULE MCDestinations ---------------------------
(* Instances of Destinations for TLC. *)
EXTENDS Destinations

\* The names a, b.a and xa, and what a record or a rule may name.
A == <<"a">>
BA == <<"b", "a">>
XA == <<"xa">>

Mail(host) == [scheme |-> "mailto", host |-> host]
Web(host) == [scheme |-> "https", host |-> host]
Dir == [scheme |-> "directory", host |-> NoHost]
Other == [scheme |-> "other", host |-> NoHost]

Domain(name, action, args) ==
    [type |-> "domain", name |-> name, subjects |-> {}, action |-> action, args |-> args,
     subst |-> <<>>]
Regexp(subjects, subst) ==
    [type |-> "regexp", name |-> <<>>, subjects |-> subjects, action |-> "REGEXP", args |-> <<>>,
     subst |-> subst]

\* A part of the address replaced, of whatever scheme; and the host captured and put behind
\* another scheme.
Renamed == [d \in {Mail(A), Web(A)} |-> [d EXCEPT !.host = XA]]
Captured(scheme) == [d \in {Mail(A), Mail(BA), Mail(XA)} |-> [d EXCEPT !.scheme = scheme]]

\* At most two of a set of rules, in any order.
UpToTwo(rules) == {<<>>} \cup {<<m>> : m \in rules} \cup {<<m, n>> : m, n \in rules}

SomeRecordMaps == UpToTwo(
    {Domain(<<"", "a">>, "ACCEPT", <<>>),
     Domain(A, "REPLACE", <<Mail(BA), Mail(A), Dir>>),
     Domain(BA, "APPEND", <<Other>>),
     Domain(Root, "APPEND", <<Dir>>),
     Regexp({A, BA}, Renamed),
     Regexp({XA}, Captured("directory"))})

SomeMailMaps == {<<>>, <<Domain(BA, "DISCARD", <<>>), Domain(Root, "REPLACE", <<Web(XA)>>)>>,
                 <<Domain(<<"", "a">>, "APPEND", <<Dir, Web(BA)>>), Regexp({Mail(XA)}, Captured("https"))>>}

SomeHttpMaps == {<<>>, <<Domain(A, "ACCEPT", <<>>), Domain(<<"", "">>, "APPEND", <<Other>>)>>,
                 <<Regexp({Web(A)}, Web(A) :> Mail(A))>>}

SomeRequests ==
    [domain : {A, BA, <<"b", "a", "">>, XA},
     ruas : {<<Mail(A)>>, <<Web(A), Mail(BA)>>, <<Mail(A), Dir>>, <<Web(NoHost), Mail(NoHost)>>,
             <<Mail(BadHost)>>,
             <<Mail(<<"x", "a">>), Web(XA), Web(A)>>}]

\* Patterns with and without a trailing dot.
DottedRecordMaps == UpToTwo(
    {Domain(<<"", "a", "">>, "DISCARD", <<>>), Domain(<<"a", "">>, "APPEND", <<Dir>>),
     Domain(Root, "APPEND", <<Mail(A)>>)})
NoMaps == {<<>>}
============================================================================

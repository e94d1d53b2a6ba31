---------------------------- MODULE Destinations ----------------------------
(***************************************************************************)
(* From the destinations a TLSRPT record names to the rows of the table    *)
(* destinations: the second half of render_report with map_destination.    *)
(*                                                                         *)
(* The record map is gone through first, for the whole list, then the mail *)
(* or the http map for each destination of the result, each map rule by    *)
(* rule.  What comes out is stored row by row with a delay from the pool.  *)
(* Reportd takes the outcome as its constant Ruas; here is how it is made. *)
(***************************************************************************)
EXTENDS DestinationMap, FiniteSets

CONSTANTS
    RecordMaps, MailMaps, HttpMaps,     \* contents the three map files may have
    Requests,           \* what render_report may be called with: a domain and its ruas
    SpreadOutDelivery   \* option spread_out_delivery

\* A bound of the environment, not of the code.
CONSTANT MaxRecords     \* how many records one process handles

ASSUME DestinationsAssumption ==
    /\ \A map \in RecordMaps : IsMap(map)
    /\ \A map \in MailMaps : IsMap(map)
    /\ \A map \in HttpMaps : IsMap(map)
    /\ \A r \in Requests : IsList(r.ruas)
    /\ SpreadOutDelivery \in Nat \ {0}      \* _config_check
    /\ MaxRecords \in Nat

VARIABLES
    maps,       \* the contents of the map files
    pc,         \* the step of render_report
    request,    \* the domain and the ruas it was called with
    dests,      \* destinations still to be mapped
    idx,        \* the rule looked at
    result,     \* destinations mapped, and not stored yet
    rows,       \* destinations stored for this record
    records,    \* history: how many records this process has handled
    pool, given     \* the pool of delays

vars == <<maps, pc, request, dests, idx, result, rows, records, pool, given>>

Pool == INSTANCE RandPool WITH Size <- SpreadOutDelivery

NoRequest == [domain |-> <<"">>, ruas |-> <<>>]

----------------------------------------------------------------------------
Init ==
    /\ maps \in [record : RecordMaps, mail : MailMaps, http : HttpMaps]
    /\ pc = "idle"
    /\ request = NoRequest
    /\ dests = <<>>
    /\ idx = 1
    /\ result = <<>>
    /\ rows = {}
    /\ records = 0
    /\ Pool!Init

\* An invalid scheme in the record is caught: the report goes nowhere.
Begin ==
    /\ pc = "idle"
    /\ records < MaxRecords
    /\ records' = records + 1
    /\ request' \in Requests
    /\ dests' = request'.ruas
    /\ idx' = 1
    /\ rows' = {}
    /\ pc' = IF PreFlightCheck(request'.ruas) THEN "record" ELSE "store"
    /\ UNCHANGED <<maps, result, pool, given>>

\* One iteration over the record map.  Mutant: a match does not end the loop.
TryRecordRuleGoesOn ==
    /\ pc = "record"
    /\ IF idx \in DOMAIN maps.record
       THEN /\ dests' = IF RecordRuleMatches(maps.record[idx], request.domain)
                        THEN Result(maps.record[idx], dests) ELSE dests
            /\ idx' = idx + 1
            /\ pc' = pc
       ELSE pc' = "each" /\ UNCHANGED <<dests, idx>>
    /\ UNCHANGED <<maps, request, result, rows, records, pool, given>>

TryRecordRule ==
    /\ pc = "record"
    /\ \/ /\ idx \notin DOMAIN maps.record
          /\ pc' = "each"
          /\ UNCHANGED <<dests, idx>>
       \/ /\ idx \in DOMAIN maps.record
          /\ RecordRuleMatches(maps.record[idx], request.domain)
          /\ dests' = Result(maps.record[idx], dests)
          /\ pc' = "each"
          /\ idx' = idx
       \/ /\ idx \in DOMAIN maps.record
          /\ ~RecordRuleMatches(maps.record[idx], request.domain)
          /\ idx' = idx + 1
          /\ UNCHANGED <<pc, dests>>
    /\ UNCHANGED <<maps, request, result, rows, records, pool, given>>

\* The next destination.  A scheme no map is for is caught: the whole report goes nowhere.
NextDestination ==
    /\ pc = "each"
    /\ idx' = 1
    /\ \/ /\ dests = <<>>
          /\ pc' = "store"
          /\ UNCHANGED <<dests, result>>
       \/ /\ dests # <<>>
          /\ Head(dests).scheme = "directory"
          /\ result' = Append(result, Head(dests))
          /\ dests' = Tail(dests)
          /\ pc' = pc
       \/ /\ dests # <<>>
          /\ Head(dests).scheme \in {"https", "mailto"}
          /\ pc' = "map"
          /\ UNCHANGED <<dests, result>>
       \/ /\ dests # <<>>
          /\ Head(dests).scheme \notin {"directory", "https", "mailto"}
          /\ result' = <<>>
          /\ dests' = <<>>
          /\ pc' = "store"
    /\ UNCHANGED <<maps, request, rows, records, pool, given>>

\* The end of the process: what is not committed is gone, and so is the pool.
Die ==
    /\ pc' = "down"
    /\ request' = NoRequest
    /\ dests' = <<>>
    /\ idx' = 1
    /\ result' = <<>>
    /\ rows' = {}
    /\ records' = 0
    /\ Pool!New
    /\ UNCHANGED maps

\* DestinationMap._map: one iteration over the map for the scheme of the destination.
MapFor(ms, d) == IF d.scheme = "https" THEN ms.http ELSE ms.mail

TryRule ==
    LET d == Head(dests)
        map == MapFor(maps, d)
        Becomes(ds) ==
            /\ result' = result \o ds
            /\ dests' = Tail(dests)
            /\ pc' = "each"
            /\ idx' = idx
    IN  /\ pc = "map"
        /\ \/ idx \notin DOMAIN map /\ Becomes(<<d>>)
           \/ /\ idx \in DOMAIN map
              /\ RuleMatches(map[idx], d)
              /\ Becomes(Result(map[idx], <<d>>))
           \/ /\ idx \in DOMAIN map
              /\ ~RuleMatches(map[idx], d) /\ ~RuleRaises(map[idx], d)
              /\ idx' = idx + 1
              /\ UNCHANGED <<pc, dests, result>>
        /\ UNCHANGED <<maps, request, rows, records, pool, given>>

\* The exception of a matcher is not caught.
TryRuleDies ==
    /\ pc = "map"
    /\ idx \in DOMAIN MapFor(maps, Head(dests))
    /\ RuleRaises(MapFor(maps, Head(dests))[idx], Head(dests))
    /\ Die

\* One INSERT.
Store ==
    /\ pc = "store"
    /\ result # <<>>
    /\ Head(result) \notin rows
    /\ \E v \in Pool!Values : Pool!Get(v)
    /\ rows' = rows \cup {Head(result)}
    /\ result' = Tail(result)
    /\ UNCHANGED <<maps, pc, request, dests, idx, records>>

\* A destination is there twice: an IntegrityError, which is not caught.
StoreDies ==
    /\ pc = "store"
    /\ result # <<>>
    /\ Head(result) \in rows
    /\ Die

\* All are stored; the commit is create_report_for's.
Stored ==
    /\ pc = "store"
    /\ result = <<>>
    /\ pc' = "idle"
    /\ UNCHANGED <<maps, request, dests, idx, result, rows, records, pool, given>>

Restart ==
    /\ pc = "down"
    /\ pc' = "idle"
    /\ UNCHANGED <<maps, request, dests, idx, result, rows, records, pool, given>>

Next ==
    \/ Begin \/ TryRecordRule \/ NextDestination
    \/ TryRule \/ TryRuleDies
    \/ Store \/ StoreDies \/ Stored
    \/ Restart

Spec == Init /\ [][Next]_vars
----------------------------------------------------------------------------
(* Properties.                                                             *)

TypeOK ==
    /\ maps \in [record : RecordMaps, mail : MailMaps, http : HttpMaps]
    /\ pc \in {"idle", "record", "each", "map", "store", "down"}
    /\ request \in Requests \cup {NoRequest}
    /\ idx \in Nat \ {0}
    /\ records \in 0 .. MaxRecords
    /\ pool \subseteq Pool!Values
    /\ given \in [Pool!Values -> Nat]

(***************************************************************************)
(* The reference: the rule that decides is the first that matches, and the *)
(* result is that of the record map's rule, each destination of it         *)
(* replaced by what its own map makes of it, once.                         *)
(***************************************************************************)
Decide(map, hits, ds) == IF hits = {} THEN ds ELSE Result(map[Min(hits)], ds)

RecordHits(ms, r) == {i \in DOMAIN ms.record : RecordRuleMatches(ms.record[i], r.domain)}
Invited(ms, r) == Decide(ms.record, RecordHits(ms, r), r.ruas)

Hits(ms, d) == {i \in DOMAIN MapFor(ms, d) : RuleMatches(MapFor(ms, d)[i], d)}
Mapped(ms, d) ==
    IF d.scheme = "directory" THEN <<d>> ELSE Decide(MapFor(ms, d), Hits(ms, d), <<d>>)

Mappable(d) == d.scheme \in {"directory", "https", "mailto"}

Expected(ms, r) ==
    LET invited == ToSet(Invited(ms, r))
    IN  IF PreFlightCheck(r.ruas) /\ \A d \in invited : Mappable(d)
        THEN UNION {ToSet(Mapped(ms, d)) : d \in invited}
        ELSE {}

Handled == pc = "idle" /\ request # NoRequest

\* doc/tlsrpt-reportd.adoc: "All maps are processed on a "first match wins" manner.  No
\* further rules are processed after a rule has matched", and what a rule of the mail or the
\* http map brings in is not mapped again.  The loops of map_destination, together with
\* the INSERTs, come to what this says, all of it or nothing.
FirstMatchWins == Handled => rows = Expected(maps, request)

\* Where the rules of a map can send destinations out of S: they leave them alone, they name
\* others, or they rewrite them.
Reached(map, S) ==
    S \cup UNION {ToSet(map[i].args) \cup {Rewrite(map[i], d) : d \in S} : i \in DOMAIN map}

\* After the record map, and after the map of each scheme.
Accepted == {d \in ToSet(request.ruas) : d.scheme \in {"https", "mailto"}}
AfterRecordMap == Reached(maps.record, Accepted)
Reachable ==
    AfterRecordMap
        \cup Reached(maps.mail, {d \in AfterRecordMap : d.scheme = "mailto"})
        \cup Reached(maps.http, {d \in AfterRecordMap : d.scheme = "https"})

\* "We need to avoid a smuggled in `directory:'" (pre_flight_check): a report goes to the mail
\* and web addresses of its record, to what a rule names, and to what the substitution of a
\* rule makes of one of these, once per level.  A record gets at any other scheme only by a
\* rule that writes or makes it.
OnlyRulesBringSchemes == rows \subseteq Reachable

\* Docstring of RandPool: "Counts over the returned values are flat after each multiple of
\* the pool size and differ at most by one otherwise."  Over the life of a process, however
\* many destinations its records have.
SpreadEvenly ==
    /\ \A v, w \in Pool!Values : given[v] <= given[w] + 1
    /\ pool = {} => \A v, w \in Pool!Values : given[v] = given[w]

\* doc/tlsrpt-reportd.adoc: "A trailing "." after a domain name is ignored", of patterns.
Dotless(map) == [i \in DOMAIN map |-> [map[i] EXCEPT !.name = IF @ = Root THEN @ ELSE RemoveTrailingDot(@)]]
DotlessMaps == [record |-> Dotless(maps.record), mail |-> Dotless(maps.mail), http |-> Dotless(maps.http)]
TrailingDotIgnored == Handled => rows = Expected(DotlessMaps, request)
=============================================================================

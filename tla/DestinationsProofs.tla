------------------------- MODULE DestinationsProofs -------------------------
(***************************************************************************)
(* Theorems about Destinations, for all maps, requests and pool sizes.     *)
(*                                                                         *)
(* The inductive invariant IInv adds two things to what the theorems say.  *)
(* The pool: the values left were given once less often than the others.   *)
(* The destinations: the list still to be mapped is within reach of the    *)
(* record map's rules, the results are within reach of the rules of both   *)
(* levels.                                                                 *)
(* That the first match wins takes a second invariant, Progress: how far   *)
(* the loops have come.                                                    *)
(***************************************************************************)
EXTENDS Destinations, TLAPS

PoolType ==
    /\ pool \subseteq Pool!Values
    /\ given \in [Pool!Values -> Nat]

\* In each round every value left is one behind.
Rounds == \E n \in Int : \A v \in Pool!Values : given[v] = IF v \in pool THEN n - 1 ELSE n

OnTheWay ==
    /\ pc = "record" => dests \in Seq(Accepted)
    /\ pc \in {"each", "map"} => dests \in Seq(AfterRecordMap)
    /\ result \in Seq(Reachable)
    /\ OnlyRulesBringSchemes
    /\ pc \in {"idle", "record", "down"} => result = <<>>
    /\ pc = "map" => dests # <<>> /\ Head(dests).scheme \in {"https", "mailto"}

IInv == TypeOK /\ Rounds /\ OnTheWay

----------------------------------------------------------------------------
(* The pool.                                                               *)

USE DEF Pool!Values

\* Taking a value keeps the rounds.
LEMMA GetKeepsRounds ==
    ASSUME PoolType, Rounds, NEW v \in Pool!Values, Pool!Get(v)
    PROVE  PoolType' /\ Rounds'
<1> DEFINE left == IF pool = {} THEN Pool!Values ELSE pool
<1>1. /\ v \in left
      /\ pool' = left \ {v}
      /\ given' = [given EXCEPT ![v] = @ + 1]
  BY DEF Pool!Get
<1>2. PoolType'
  <2>1. left \subseteq Pool!Values
    BY DEF PoolType
  <2>2. pool' \subseteq Pool!Values
    BY <1>1, <2>1
  <2>3. given' \in [Pool!Values -> Nat]
    BY <1>1 DEF PoolType
  <2> QED BY <2>2, <2>3 DEF PoolType
<1>3. PICK n \in Int : \A w \in Pool!Values : given[w] = IF w \in pool THEN n - 1 ELSE n
  BY DEF Rounds
<1>4. CASE pool = {}
  <2>1. \A w \in Pool!Values : given'[w] = IF w \in pool' THEN (n + 1) - 1 ELSE n + 1
    BY <1>1, <1>3, <1>4 DEF PoolType
  <2> QED BY <1>2, <2>1 DEF Rounds
<1>5. CASE pool # {}
  <2>0. v \in pool /\ pool' = pool \ {v} /\ given' = [given EXCEPT ![v] = @ + 1]
    BY <1>1, <1>5
  <2>1. \A w \in Pool!Values : given'[w] = IF w \in pool' THEN n - 1 ELSE n
    <3>1. given'[v] = n /\ v \notin pool'
      BY <1>3, <2>0 DEF PoolType
    <3>2. \A w \in Pool!Values \ {v} : given'[w] = given[w] /\ (w \in pool' <=> w \in pool)
      BY <2>0 DEF PoolType
    <3> QED BY <1>3, <3>1, <3>2
  <2> QED BY <1>2, <2>1 DEF Rounds
<1> QED BY <1>4, <1>5

\* A new pool starts a round.
LEMMA NewStartsRounds ==
    ASSUME Pool!New
    PROVE  PoolType' /\ Rounds'
<1>1. pool' = {} /\ given' = [v \in Pool!Values |-> 0]
  BY DEF Pool!New
<1>2. \A v \in Pool!Values : given'[v] = IF v \in pool' THEN 0 - 1 ELSE 0
  BY <1>1
<1> QED BY <1>1, <1>2 DEF PoolType, Rounds

----------------------------------------------------------------------------
(* The rules.                                                              *)

\* A rule whose parameters and substitutes lie in a set takes a list of destinations of
\* that set to a list of that set.
LEMMA ResultWithin ==
    ASSUME NEW m, IsRule(m), NEW R, ToSet(m.args) \subseteq R,
           NEW S, S \subseteq R, \A d \in S : Rewrite(m, d) \in R, NEW ds \in Seq(S)
    PROVE  Result(m, ds) \in Seq(R)
<1>1. m.args \in Seq(R)
  <2>1. m.args \in Seq(ToSet(m.args))
    BY DEF IsRule, IsList
  <2> QED BY <2>1
<1>2. ds \in Seq(R)
  OBVIOUS
<1>3. CASE m.action = "ACCEPT"
  BY <1>2, <1>3 DEF Result
<1>4. CASE m.action = "DISCARD"
  BY <1>4 DEF Result
<1>5. CASE m.action = "REPLACE"
  BY <1>1, <1>5 DEF Result
<1>6. CASE m.action = "APPEND"
  BY <1>1, <1>2, <1>6 DEF Result
<1>7. CASE m.action = "REGEXP"
  <2>1. Result(m, ds) = [k \in 1 .. Len(ds) |-> Rewrite(m, ds[k])]
    BY <1>7 DEF Result
  <2>2. \A k \in 1 .. Len(ds) : Rewrite(m, ds[k]) \in R
    OBVIOUS
  <2> QED BY <2>1, <2>2
<1> QED BY <1>3, <1>4, <1>5, <1>6, <1>7 DEF IsRule

\* A rule of a map sends destinations no further than the map reaches.
LEMMA ResultReached ==
    ASSUME NEW map, NEW i \in DOMAIN map, IsRule(map[i]), NEW S, NEW ds \in Seq(S)
    PROVE  Result(map[i], ds) \in Seq(Reached(map, S))
<1>1. S \subseteq Reached(map, S)
  BY DEF Reached
<1>2. ToSet(map[i].args) \subseteq Reached(map, S)
  BY DEF Reached
<1>3. \A d \in S : Rewrite(map[i], d) \in Reached(map, S)
  BY DEF Reached
<1> QED BY <1>1, <1>2, <1>3, ResultWithin

\* The three maps hold rules.
LEMMA MapsHoldRules ==
    ASSUME DestinationsAssumption, TypeOK
    PROVE  IsMap(maps.record) /\ IsMap(maps.mail) /\ IsMap(maps.http)
BY DEF TypeOK, DestinationsAssumption

\* What the map of its scheme makes of a destination is within reach.
LEMMA MappedReachable ==
    ASSUME DestinationsAssumption, TypeOK, NEW d \in AfterRecordMap, d.scheme \in {"https", "mailto"}
    PROVE  /\ <<d>> \in Seq(Reachable)
           /\ \A i \in DOMAIN MapFor(maps, d) : Result(MapFor(maps, d)[i], <<d>>) \in Seq(Reachable)
<1> DEFINE map == MapFor(maps, d)
           S == {e \in AfterRecordMap : e.scheme = d.scheme}
<1>1. map = (IF d.scheme = "https" THEN maps.http ELSE maps.mail) /\ IsMap(map)
  BY MapsHoldRules DEF MapFor
<1>2. Reached(map, S) \subseteq Reachable
  BY <1>1 DEF Reachable
<1>3. d \in S /\ d \in Reachable
  BY DEF Reachable
<1> HIDE DEF map, S
<1>4. <<d>> \in Seq(S) /\ <<d>> \in Seq(Reachable)
  BY <1>3
<1>5. ASSUME NEW i \in DOMAIN map PROVE Result(map[i], <<d>>) \in Seq(Reachable)
  <2>1. IsRule(map[i])
    BY <1>1 DEF IsMap
  <2>2. Result(map[i], <<d>>) \in Seq(Reached(map, S))
    BY <1>4, <2>1, ResultReached
  <2> QED BY <1>2, <2>2
<1> QED BY <1>4, <1>5 DEF map

----------------------------------------------------------------------------
(* The steps.                                                              *)

\* The steps that leave the pool alone.
LEMMA RoundsUnchanged ==
    ASSUME Rounds, UNCHANGED <<pool, given>>
    PROVE  Rounds'
BY DEF Rounds

\* What is within reach stays so as long as the request and the maps stay.
LEMMA ReachUnchanged ==
    ASSUME UNCHANGED <<maps, request>>
    PROVE  Accepted' = Accepted /\ AfterRecordMap' = AfterRecordMap /\ Reachable' = Reachable
BY DEF Accepted, AfterRecordMap, Reachable

\* The pool and the table are empty.
LEMMA InitIInv ==
    ASSUME DestinationsAssumption, Init
    PROVE  IInv
<1>1. TypeOK
  BY DEF Init, TypeOK, Pool!Init, DestinationsAssumption
<1>2. Rounds
  <2>1. \A v \in Pool!Values : given[v] = IF v \in pool THEN 0 - 1 ELSE 0
    BY DEF Init, Pool!Init
  <2> QED BY <2>1 DEF Rounds
<1>3. OnTheWay
  BY DEF Init, OnTheWay, OnlyRulesBringSchemes
<1> QED BY <1>1, <1>2, <1>3 DEF IInv

\* Pre-flight lets nothing through that is not accepted.
LEMMA BeginStep ==
    ASSUME DestinationsAssumption, IInv, Begin
    PROVE  IInv'
<1>1. TypeOK'
  BY DEF IInv, TypeOK, Begin, DestinationsAssumption
<1>2. Rounds'
  BY RoundsUnchanged DEF IInv, Begin
<1>3. OnTheWay'
  <2>1. result = <<>> /\ result' = <<>> /\ rows' = {}
    BY DEF IInv, OnTheWay, Begin
  <2>2. ASSUME pc' = "record"
        PROVE  dests' \in Seq(Accepted)'
    <3>1. dests' = request'.ruas /\ IsList(request'.ruas) /\ PreFlightCheck(request'.ruas)
      BY <2>2 DEF Begin, DestinationsAssumption
    <3>2. ToSet(request'.ruas) \subseteq Accepted'
      BY <3>1 DEF PreFlightCheck, Accepted, ToSet
    <3> QED BY <3>1, <3>2 DEF IsList
  <2>3. pc' \in {"record", "store"}
    BY DEF Begin
  <2> QED BY <2>1, <2>2, <2>3 DEF OnTheWay, OnlyRulesBringSchemes
<1> QED BY <1>1, <1>2, <1>3 DEF IInv

\* A rule of the record map goes no further than that map reaches.
LEMMA TryRecordRuleStep ==
    ASSUME DestinationsAssumption, IInv, TryRecordRule
    PROVE  IInv'
<1>1. TypeOK'
  BY DEF IInv, TypeOK, TryRecordRule
<1>2. Rounds'
  BY RoundsUnchanged DEF IInv, TryRecordRule
<1>3. OnTheWay'
  <2>1. Accepted' = Accepted /\ AfterRecordMap' = AfterRecordMap /\ Reachable' = Reachable
    BY ReachUnchanged DEF TryRecordRule
  <2>2. dests \in Seq(Accepted) /\ Accepted \subseteq AfterRecordMap
    BY DEF IInv, OnTheWay, TryRecordRule, AfterRecordMap, Reached
  <2>3. /\ dests' \in Seq(AfterRecordMap)
        /\ pc' = "record" => dests' \in Seq(Accepted)
    <3>1. CASE dests' = dests
      BY <2>2, <3>1
    <3>2. CASE idx \in DOMAIN maps.record /\ dests' = Result(maps.record[idx], dests) /\ pc' = "each"
      <4>1. IsRule(maps.record[idx])
        BY <3>2, MapsHoldRules DEF IInv, IsMap
      <4> QED BY <2>2, <3>2, <4>1, ResultReached DEF AfterRecordMap
    <3> QED BY <3>1, <3>2 DEF TryRecordRule
  <2>4. pc' \in {"record", "each"} /\ UNCHANGED <<result, rows>>
    BY DEF TryRecordRule
  <2> QED BY <2>1, <2>3, <2>4 DEF IInv, OnTheWay, OnlyRulesBringSchemes, TryRecordRule
<1> QED BY <1>1, <1>2, <1>3 DEF IInv

\* A directory goes straight to the results.
LEMMA NextDestinationStep ==
    ASSUME DestinationsAssumption, IInv, NextDestination
    PROVE  IInv'
<1>1. TypeOK'
  BY DEF IInv, TypeOK, NextDestination
<1>2. Rounds'
  BY RoundsUnchanged DEF IInv, NextDestination
<1>3. OnTheWay'
  <2>1. AfterRecordMap' = AfterRecordMap /\ Reachable' = Reachable
    BY ReachUnchanged DEF NextDestination
  <2>2. /\ dests \in Seq(AfterRecordMap) /\ result \in Seq(Reachable) /\ rows \subseteq Reachable
        /\ AfterRecordMap \subseteq Reachable
    BY DEF IInv, OnTheWay, OnlyRulesBringSchemes, NextDestination, Reachable
  <2>3. dests' \in Seq(AfterRecordMap)
    <3>1. dests' = dests \/ dests' = <<>> \/ (dests # <<>> /\ dests' = Tail(dests))
      BY DEF NextDestination
    <3>2. CASE dests' = dests \/ dests' = <<>>
      <4>1. <<>> \in Seq(AfterRecordMap)
        OBVIOUS
      <4> QED BY <2>2, <3>2, <4>1, Zenon
    <3>3. CASE dests # <<>> /\ dests' = Tail(dests)
      BY <2>2, <3>3
    <3> QED BY <3>1, <3>2, <3>3
  <2>5. result' \in Seq(Reachable)
    <3>1. result' = result \/ result' = <<>> \/ (dests # <<>> /\ result' = Append(result, Head(dests)))
      BY DEF NextDestination
    <3>2. CASE result' = result \/ result' = <<>>
      <4>1. <<>> \in Seq(Reachable)
        OBVIOUS
      <4> QED BY <2>2, <3>2, <4>1, Zenon
    <3>3. CASE dests # <<>> /\ result' = Append(result, Head(dests))
      <4>1. Head(dests) \in Reachable
        BY <2>2, <3>3
      <4> QED BY <2>2, <3>3, <4>1
    <3> QED BY <3>1, <3>2, <3>3
  <2>4. /\ rows' = rows /\ pc' \in {"each", "store", "map"}
        /\ (pc' = "map" => dests' # <<>> /\ Head(dests').scheme \in {"https", "mailto"})
    BY DEF NextDestination
  <2> QED BY <2>1, <2>2, <2>3, <2>4, <2>5 DEF OnTheWay, OnlyRulesBringSchemes
<1> QED BY <1>1, <1>2, <1>3 DEF IInv

\* The pool goes with the process.
LEMMA DieStep ==
    ASSUME DestinationsAssumption, IInv, Die
    PROVE  IInv'
<1>1. PoolType' /\ Rounds'
  BY NewStartsRounds DEF Die
<1>2. TypeOK'
  BY <1>1 DEF IInv, TypeOK, Die, PoolType, DestinationsAssumption
<1>3. OnTheWay'
  BY DEF OnTheWay, OnlyRulesBringSchemes, Die
<1> QED BY <1>1, <1>2, <1>3 DEF IInv

\* A rule of the other maps goes no further than its map reaches.
LEMMA TryRuleStep ==
    ASSUME DestinationsAssumption, IInv, TryRule
    PROVE  IInv'
<1> DEFINE d == Head(dests)
           map == MapFor(maps, d)
<1>1. TypeOK'
  BY DEF IInv, TypeOK, TryRule
<1>2. Rounds'
  BY RoundsUnchanged DEF IInv, TryRule
<1>3. OnTheWay'
  <2>1. AfterRecordMap' = AfterRecordMap /\ Reachable' = Reachable
    BY ReachUnchanged DEF TryRule
  <2>2. /\ dests \in Seq(AfterRecordMap) /\ dests # <<>> /\ d.scheme \in {"https", "mailto"}
        /\ result \in Seq(Reachable)
        /\ rows' = rows /\ rows \subseteq Reachable
    BY DEF IInv, OnTheWay, OnlyRulesBringSchemes, TryRule
  <2>3. d \in AfterRecordMap /\ Tail(dests) \in Seq(AfterRecordMap)
    BY <2>2
  <2>4. <<d>> \in Seq(Reachable) /\ \A i \in DOMAIN map : Result(map[i], <<d>>) \in Seq(Reachable)
    <3> HIDE DEF d
    <3> QED BY <2>2, <2>3, MappedReachable DEF IInv
  <2>5. \/ /\ pc' = "map"
           /\ UNCHANGED <<dests, result>>
        \/ /\ dests' = Tail(dests)
           /\ pc' = "each"
           /\ \/ result' = result \o <<d>>
              \/ idx \in DOMAIN map /\ result' = result \o Result(map[idx], <<d>>)
    BY DEF TryRule
  <2>6. dests' \in Seq(AfterRecordMap)
    BY <2>2, <2>3, <2>5
  <2>7. result' \in Seq(Reachable)
    <3> HIDE DEF d, map
    <3>1. CASE result' = result
      BY <2>2, <3>1
    <3>2. CASE result' = result \o <<d>>
      BY <2>2, <2>4, <3>2
    <3>3. CASE idx \in DOMAIN map /\ result' = result \o Result(map[idx], <<d>>)
      <4>1. Result(map[idx], <<d>>) \in Seq(Reachable)
        BY <2>4, <3>3
      <4> QED BY <2>2, <3>3, <4>1
    <3> QED BY <2>5, <3>1, <3>2, <3>3
  <2>8. pc' = "each" \/ (pc' = "map" /\ dests' = dests)
    BY <2>2, <2>5
  <2> QED BY <2>1, <2>2, <2>6, <2>7, <2>8 DEF OnTheWay, OnlyRulesBringSchemes
<1> QED BY <1>1, <1>2, <1>3 DEF IInv

\* A row is stored with a delay from the pool.
LEMMA StoreStep ==
    ASSUME DestinationsAssumption, IInv, Store
    PROVE  IInv'
<1>1. PoolType' /\ Rounds'
  <2>1. PICK v \in Pool!Values : Pool!Get(v)
    BY DEF Store
  <2> QED BY <2>1, GetKeepsRounds DEF IInv, TypeOK, PoolType
<1>2. TypeOK'
  BY <1>1 DEF IInv, TypeOK, Store, PoolType
<1>3. OnTheWay'
  <2>1. Reachable' = Reachable
    BY ReachUnchanged DEF Store
  <2>2. result' \in Seq(Reachable) /\ rows' \subseteq Reachable
    BY DEF IInv, OnTheWay, OnlyRulesBringSchemes, Store
  <2>3. pc' = "store"
    BY DEF Store
  <2> QED BY <2>1, <2>2, <2>3 DEF OnTheWay, OnlyRulesBringSchemes
<1> QED BY <1>1, <1>2, <1>3 DEF IInv

\* Stored and Restart change nothing but pc.
LEMMA OtherSteps ==
    ASSUME IInv, Stored \/ Restart \/ UNCHANGED vars
    PROVE  IInv'
<1>1. TypeOK'
  BY DEF IInv, TypeOK, Stored, Restart, vars
<1>2. Rounds'
  BY RoundsUnchanged DEF IInv, Stored, Restart, vars
<1>3. Accepted' = Accepted /\ AfterRecordMap' = AfterRecordMap /\ Reachable' = Reachable
  BY ReachUnchanged DEF Stored, Restart, vars
<1>4. OnTheWay'
  BY <1>3 DEF IInv, OnTheWay, OnlyRulesBringSchemes, Stored, Restart, vars
<1> QED BY <1>1, <1>2, <1>4 DEF IInv

\* The invariant holds.
LEMMA IInvCorrect == Spec => []IInv
<1>1. Init => IInv
  BY InitIInv, DestinationsAssumption
<1>2. IInv /\ [Next]_vars => IInv'
  BY DestinationsAssumption, BeginStep, TryRecordRuleStep, NextDestinationStep, DieStep,
     TryRuleStep, StoreStep, OtherSteps DEF Next, TryRuleDies, StoreDies
<1> QED BY <1>1, <1>2, PTL DEF Spec

----------------------------------------------------------------------------
(* The first match.  Before idx no rule matched, so the rule that decides  *)
(* is the one that is looked at, or there is none.  What has been mapped   *)
(* and what is still to be mapped make up what the record map left.        *)

\* No rule that matches has been passed over.
Ahead(hits) == \A i \in hits : idx <= i

\* Of what the rule of the record map made of the ruas, `done' has gone where its own
\* maps send it, to `made', and the others are left.
Done(done, ms, r, left, made) ==
    /\ ToSet(Invited(ms, r)) = done \cup ToSet(left)
    /\ \A d \in done : Mappable(d)
    /\ \A x : x \in ToSet(made) <=> \E d \in done : x \in ToSet(Mapped(ms, d))

HalfDone(ms, r, left, made) == \E done : Done(done, ms, r, left, made)
HalfMapped == HalfDone(maps, request, dests, result)

\* How far render_report has come, in each of its steps.
Progress ==
    /\ pc \in {"record", "each", "map"} => PreFlightCheck(request.ruas) /\ rows = {}
    /\ pc = "record" => dests = request.ruas /\ Ahead(RecordHits(maps, request))
    /\ pc \in {"each", "map"} => HalfMapped
    /\ pc = "map" => Head(dests).scheme \in {"https", "mailto"} /\ Ahead(Hits(maps, Head(dests)))
    /\ pc = "store" => rows \cup ToSet(result) = Expected(maps, request)
    /\ pc = "down" => request = NoRequest
    /\ FirstMatchWins

\* The elements of a sequence that is shortened or prolonged.
LEMMA SetOfTail ==
    ASSUME NEW S, NEW s \in Seq(S), s # <<>>
    PROVE  ToSet(s) = {Head(s)} \cup ToSet(Tail(s))
<1>1. Len(s) \in Nat \ {0} /\ Head(s) = s[1] /\ DOMAIN s = 1 .. Len(s)
  OBVIOUS
<1>2. DOMAIN Tail(s) = 1 .. Len(s) - 1 /\ \A i \in 1 .. Len(s) - 1 : Tail(s)[i] = s[i + 1]
  OBVIOUS
<1>3. ASSUME NEW i \in 1 .. Len(s), i # 1 PROVE s[i] \in ToSet(Tail(s))
  <2>1. i - 1 \in DOMAIN Tail(s) /\ Tail(s)[i - 1] = s[i]
    BY <1>1, <1>2, <1>3
  <2> QED BY <2>1 DEF ToSet
<1>4. ASSUME NEW i \in DOMAIN Tail(s) PROVE Tail(s)[i] \in ToSet(s)
  <2>1. i + 1 \in DOMAIN s /\ Tail(s)[i] = s[i + 1]
    BY <1>1, <1>2
  <2> QED BY <2>1 DEF ToSet
<1>5. ToSet(s) \subseteq {Head(s)} \cup ToSet(Tail(s))
  BY <1>1, <1>3 DEF ToSet
<1>6. {Head(s)} \cup ToSet(Tail(s)) \subseteq ToSet(s)
  BY <1>1, <1>4 DEF ToSet
<1> QED BY <1>5, <1>6

\* And of two that are joined.
LEMMA SetOfConcat ==
    ASSUME NEW S, NEW s \in Seq(S), NEW t \in Seq(S)
    PROVE  ToSet(s \o t) = ToSet(s) \cup ToSet(t)
<1>1. /\ DOMAIN s = 1 .. Len(s) /\ DOMAIN t = 1 .. Len(t) /\ Len(s) \in Nat /\ Len(t) \in Nat
      /\ DOMAIN (s \o t) = 1 .. Len(s) + Len(t)
      /\ \A i \in 1 .. Len(s) + Len(t) : (s \o t)[i] = IF i <= Len(s) THEN s[i] ELSE t[i - Len(s)]
  OBVIOUS
<1>2. ASSUME NEW i \in DOMAIN (s \o t) PROVE (s \o t)[i] \in ToSet(s) \cup ToSet(t)
  <2>1. CASE i <= Len(s)
    BY <1>1, <2>1 DEF ToSet
  <2>2. CASE ~(i <= Len(s))
    <3>1. i - Len(s) \in DOMAIN t /\ (s \o t)[i] = t[i - Len(s)]
      BY <1>1, <2>2
    <3> QED BY <3>1 DEF ToSet
  <2> QED BY <2>1, <2>2
<1>3. ASSUME NEW i \in DOMAIN s PROVE s[i] \in ToSet(s \o t)
  <2>1. i \in DOMAIN (s \o t) /\ (s \o t)[i] = s[i]
    BY <1>1
  <2> QED BY <2>1 DEF ToSet
<1>4. ASSUME NEW i \in DOMAIN t PROVE t[i] \in ToSet(s \o t)
  <2>1. Len(s) + i \in DOMAIN (s \o t) /\ (s \o t)[Len(s) + i] = t[i]
    BY <1>1
  <2> QED BY <2>1 DEF ToSet
<1>5. ToSet(s \o t) \subseteq ToSet(s) \cup ToSet(t)
  BY <1>2 DEF ToSet
<1>6. ToSet(s) \subseteq ToSet(s \o t) /\ ToSet(t) \subseteq ToSet(s \o t)
  BY <1>3, <1>4 DEF ToSet
<1> QED BY <1>5, <1>6

\* One destination.
LEMMA SetOfOne == ASSUME NEW d PROVE ToSet(<<d>>) = {d} /\ ToSet(<<>>) = {}
BY DEF ToSet

\* The rule that is looked at decides if it matches.
LEMMA FirstDecides ==
    ASSUME NEW map, NEW hits \in SUBSET Nat, NEW ds, idx \in hits, Ahead(hits)
    PROVE  Decide(map, hits, ds) = Result(map[idx], ds)
<1>1. Min(hits) = idx
  <2>1. \A i \in hits : (\A j \in hits : i =< j) => i = idx
    BY DEF Ahead
  <2>2. idx \in hits /\ \A j \in hits : idx =< j
    BY DEF Ahead
  <2> QED BY <2>1, <2>2 DEF Min
<1> QED BY <1>1 DEF Decide

\* Past the end of the map there is none.
LEMMA NoneDecides ==
    ASSUME NEW map, IsList(map), NEW hits \in SUBSET DOMAIN map, NEW ds,
           idx \in Nat \ {0}, idx \notin DOMAIN map, Ahead(hits)
    PROVE  Decide(map, hits, ds) = ds
<1>1. DOMAIN map = 1 .. Len(map) /\ Len(map) \in Nat
  BY DEF IsList
<1>2. \A i \in 1 .. Len(map) : ~(idx <= i)
  BY <1>1
<1>3. hits = {}
  BY <1>1, <1>2 DEF Ahead
<1> QED BY <1>3 DEF Decide

\* The rules that match are in the map, and the first is at hand when idx is 1.
LEMMA HitsType ==
    ASSUME DestinationsAssumption, TypeOK, NEW r, NEW d
    PROVE  /\ RecordHits(maps, r) \in SUBSET DOMAIN maps.record
           /\ Hits(maps, d) \in SUBSET DOMAIN MapFor(maps, d)
           /\ IsList(maps.record) /\ IsList(MapFor(maps, d))
           /\ DOMAIN maps.record \subseteq Nat \ {0}
           /\ DOMAIN MapFor(maps, d) \subseteq Nat \ {0}
<1>1. IsList(maps.record) /\ IsList(MapFor(maps, d))
  BY MapsHoldRules DEF MapFor, IsMap
<1>2. \A map : IsList(map) => DOMAIN map \subseteq Nat \ {0}
  BY DEF IsList
<1> QED BY <1>1, <1>2 DEF RecordHits, Hits

\* Without a match idx goes on.
LEMMA AheadGoesOn ==
    ASSUME NEW hits \in SUBSET Nat, idx \in Nat, Ahead(hits), idx \notin hits, idx' = idx + 1
    PROVE  \A i \in hits : idx' <= i
BY DEF Ahead

\* From the beginning nothing is behind.
LEMMA AheadAtFirst ==
    ASSUME NEW hits \in SUBSET (Nat \ {0}), idx' = 1
    PROVE  \A i \in hits : idx' <= i
OBVIOUS

\* No request is in hand.
LEMMA InitProgress == Init => Progress
BY DEF Init, Progress, FirstMatchWins, Handled

\* render_report starts with the ruas of the record, or with none.
LEMMA BeginProgress ==
    ASSUME DestinationsAssumption, IInv, Progress, Begin
    PROVE  Progress'
<1>1. /\ dests' = request'.ruas /\ idx' = 1 /\ rows' = {} /\ result' = <<>> /\ maps' = maps
      /\ pc' = IF PreFlightCheck(request'.ruas) THEN "record" ELSE "store"
  BY DEF Begin, IInv, OnTheWay
<1>2. CASE PreFlightCheck(request'.ruas)
  <2>1. RecordHits(maps, request)' \in SUBSET (Nat \ {0})
    BY <1>1, HitsType DEF IInv, RecordHits
  <2>2. Ahead(RecordHits(maps, request))'
    BY <1>1, <2>1, AheadAtFirst DEF Ahead
  <2> QED BY <1>1, <1>2, <2>2 DEF Progress, FirstMatchWins, Handled
<1>3. CASE ~PreFlightCheck(request'.ruas)
  <2>1. Expected(maps, request)' = {}
    BY <1>3 DEF Expected
  <2> QED BY <1>1, <1>3, <2>1, SetOfOne DEF Progress, FirstMatchWins, Handled
<1> QED BY <1>2, <1>3

\* An iteration over the record map: the end of the map, a match, or the next rule.
LEMMA TryRecordRuleProgress ==
    ASSUME DestinationsAssumption, IInv, Progress, TryRecordRule
    PROVE  Progress'
<1> DEFINE hits == RecordHits(maps, request)
<1>1. /\ UNCHANGED <<maps, request, result, rows>>
      /\ pc = "record" /\ PreFlightCheck(request.ruas) /\ rows = {} /\ dests = request.ruas
      /\ Ahead(hits) /\ idx \in Nat \ {0} /\ result = <<>>
  BY DEF TryRecordRule, Progress, IInv, TypeOK, OnTheWay
<1>2. hits \in SUBSET DOMAIN maps.record /\ IsList(maps.record) /\ DOMAIN maps.record \subseteq Nat \ {0}
  BY HitsType DEF IInv
<1>3. ASSUME dests' = Invited(maps, request), pc' = "each" PROVE Progress'
  <2>1. ToSet(Invited(maps, request)) = {} \cup ToSet(dests') /\ ToSet(result') = {}
    BY <1>1, <1>3, SetOfOne
  <2>2. HalfMapped'
    BY <1>1, <2>1 DEF HalfMapped, HalfDone, Done
  <2> QED BY <1>1, <1>3, <2>2 DEF Progress, FirstMatchWins, Handled
<1>4. CASE idx \notin DOMAIN maps.record
  <2>1. Invited(maps, request) = request.ruas
    BY <1>1, <1>2, <1>4, NoneDecides DEF Invited
  <2> QED BY <1>1, <1>3, <1>4, <2>1 DEF TryRecordRule
<1>5. CASE idx \in DOMAIN maps.record /\ RecordRuleMatches(maps.record[idx], request.domain)
  <2>1. idx \in hits
    BY <1>5 DEF RecordHits
  <2>2. Invited(maps, request) = Result(maps.record[idx], dests)
    BY <1>1, <1>2, <2>1, FirstDecides DEF Invited
  <2> QED BY <1>3, <1>5, <2>2 DEF TryRecordRule
<1>6. CASE idx \in DOMAIN maps.record /\ ~RecordRuleMatches(maps.record[idx], request.domain)
  <2>1. idx' = idx + 1 /\ pc' = pc /\ dests' = dests
    BY <1>6 DEF TryRecordRule
  <2>2. idx \notin hits
    BY <1>6 DEF RecordHits
  <2>3. \A i \in hits : idx' <= i
    BY <1>1, <1>2, <2>1, <2>2, AheadGoesOn
  <2>4. Ahead(RecordHits(maps, request))'
    BY <1>1, <2>3 DEF Ahead, RecordHits
  <2> QED BY <1>1, <2>1, <2>4 DEF Progress, FirstMatchWins, Handled
<1> QED BY <1>4, <1>5, <1>6

\* One destination more is done.
LEMMA OneMoreDone ==
    ASSUME IInv, HalfMapped, dests # <<>>, dests \in Seq(AfterRecordMap), Mappable(Head(dests)),
           UNCHANGED <<maps, request>>, dests' = Tail(dests),
           ToSet(result') = ToSet(result) \cup ToSet(Mapped(maps, Head(dests)))
    PROVE  HalfMapped'
<1> DEFINE d == Head(dests)
<1>1. PICK done : Done(done, maps, request, dests, result)
  BY DEF HalfMapped, HalfDone
<1> DEFINE more == done \cup {d}
           F(e) == ToSet(Mapped(maps, e))
<1>2. ToSet(dests) = {d} \cup ToSet(Tail(dests))
  BY SetOfTail
<1>3. ToSet(Invited(maps, request)) = more \cup ToSet(dests')
  BY <1>1, <1>2 DEF Done
<1>4. \A e \in more : Mappable(e)
  BY <1>1 DEF Done
<1>5. \A x : x \in ToSet(result') <=> \E e \in more : x \in F(e)
  <2>1. \A x : x \in ToSet(result') <=> (x \in F(d) \/ \E e \in done : x \in F(e))
    BY <1>1 DEF Done
  <2> HIDE DEF d, F
  <2> QED BY <2>1
<1>6. Done(more, maps, request, dests', result')
  BY <1>3, <1>4, <1>5 DEF Done
<1> HIDE DEF more
<1> QED BY <1>6 DEF HalfMapped, HalfDone

\* The next destination: none, a directory, one to be mapped, or one no map is for.
LEMMA NextDestinationProgress ==
    ASSUME DestinationsAssumption, IInv, Progress, NextDestination
    PROVE  Progress'
<1> DEFINE d == Head(dests)
<1>1. /\ UNCHANGED <<maps, request, rows>>
      /\ pc = "each" /\ PreFlightCheck(request.ruas) /\ rows = {} /\ HalfMapped
      /\ idx' = 1 /\ dests \in Seq(AfterRecordMap) /\ result \in Seq(Reachable)
  BY DEF NextDestination, Progress, IInv, OnTheWay
<1>2. PICK done : Done(done, maps, request, dests, result)
  BY <1>1 DEF HalfMapped, HalfDone
<1>e. Expected(maps, request)' = Expected(maps, request)
  BY <1>1 DEF Expected, Invited, RecordHits, Mapped, Hits
<1>3. CASE dests = <<>> /\ pc' = "store" /\ UNCHANGED <<dests, result>>
  <2>1. ToSet(Invited(maps, request)) = done
    BY <1>2, <1>3, SetOfOne DEF Done
  <2>2. Expected(maps, request) = ToSet(result)
    BY <1>1, <1>2, <2>1 DEF Expected, Done
  <2> QED BY <1>1, <1>3, <1>e, <2>2 DEF Progress, FirstMatchWins, Handled
<1>4. CASE /\ dests # <<>> /\ d.scheme = "directory"
           /\ result' = Append(result, d) /\ dests' = Tail(dests) /\ pc' = pc
  <2>1. Mapped(maps, d) = <<d>> /\ Mappable(d)
    BY <1>4 DEF Mapped, Mappable
  <2>2. Mapped(maps, d) \in Seq(Reachable) /\ result' = result \o Mapped(maps, d)
    <3>1. d \in Reachable
      BY <1>1, <1>4 DEF Reachable
    <3>2. <<d>> \in Seq(Reachable) /\ Append(result, d) = result \o <<d>>
      <4> HIDE DEF d
      <4> QED BY <1>1, <3>1
    <3> QED BY <1>4, <2>1, <3>2
  <2>3. ToSet(result') = ToSet(result) \cup ToSet(Mapped(maps, d))
    BY <1>1, <2>2, SetOfConcat
  <2>4. HalfMapped'
    BY <1>1, <1>4, <2>1, <2>3, OneMoreDone
  <2> QED BY <1>1, <1>4, <2>4 DEF Progress, FirstMatchWins, Handled
<1>5. CASE /\ dests # <<>> /\ d.scheme \in {"https", "mailto"} /\ pc' = "map"
           /\ UNCHANGED <<dests, result>>
  <2>1. Hits(maps, d) \in SUBSET (Nat \ {0})
    BY HitsType DEF IInv
  <2>2. \A i \in Hits(maps, d) : idx' <= i
    BY <1>1, <2>1, AheadAtFirst
  <2>3. Ahead(Hits(maps, Head(dests)))'
    BY <1>1, <1>5, <2>2 DEF Ahead, Hits, MapFor
  <2>4. HalfMapped'
    BY <1>1, <1>5 DEF HalfMapped
  <2> QED BY <1>1, <1>5, <2>3, <2>4 DEF Progress, FirstMatchWins, Handled
<1>6. CASE /\ dests # <<>> /\ d.scheme \notin {"directory", "https", "mailto"}
           /\ result' = <<>> /\ pc' = "store"
  <2>1. d \in ToSet(dests)
    BY <1>1, <1>6, SetOfTail
  <2>2. d \in ToSet(Invited(maps, request)) /\ ~Mappable(d)
    BY <1>2, <1>6, <2>1 DEF Mappable, Done
  <2>3. Expected(maps, request) = {}
    BY <2>2 DEF Expected
  <2> QED BY <1>1, <1>6, <1>e, <2>3, SetOfOne DEF Progress, FirstMatchWins, Handled
<1> QED BY <1>3, <1>4, <1>5, <1>6 DEF NextDestination

\* An iteration over the map of the destination's scheme.
LEMMA TryRuleProgress ==
    ASSUME DestinationsAssumption, IInv, Progress, TryRule
    PROVE  Progress'
<1> DEFINE d == Head(dests)
           map == MapFor(maps, d)
           hits == Hits(maps, d)
<1>1. /\ UNCHANGED <<maps, request, rows>>
      /\ pc = "map" /\ PreFlightCheck(request.ruas) /\ rows = {} /\ HalfMapped
      /\ d.scheme \in {"https", "mailto"} /\ Ahead(hits) /\ idx \in Nat \ {0}
      /\ dests # <<>> /\ dests \in Seq(AfterRecordMap) /\ result \in Seq(Reachable)
  BY DEF TryRule, Progress, IInv, TypeOK, OnTheWay
<1>2. hits \in SUBSET DOMAIN map /\ IsList(map) /\ DOMAIN map \subseteq Nat \ {0}
  BY HitsType DEF IInv
<1>3. Mapped(maps, d) = Decide(map, hits, <<d>>) /\ Mappable(d)
  BY <1>1 DEF Mapped, Mappable
<1>r. <<d>> \in Seq(Reachable) /\ \A i \in DOMAIN map : Result(map[i], <<d>>) \in Seq(Reachable)
  <2>1. d \in AfterRecordMap
    BY <1>1
  <2> HIDE DEF d
  <2> QED BY <1>1, <2>1, MappedReachable DEF IInv
<1>4. ASSUME Mapped(maps, d) \in Seq(Reachable), result' = result \o Mapped(maps, d),
             dests' = Tail(dests), pc' = "each"
      PROVE  Progress'
  <2>1. ToSet(result') = ToSet(result) \cup ToSet(Mapped(maps, d))
    BY <1>1, <1>4, SetOfConcat
  <2>2. HalfMapped'
    BY <1>1, <1>3, <1>4, <2>1, OneMoreDone
  <2> QED BY <1>1, <1>4, <2>2 DEF Progress, FirstMatchWins, Handled
<1>5. CASE /\ idx \notin DOMAIN map
           /\ result' = result \o <<d>> /\ dests' = Tail(dests) /\ pc' = "each"
  <2>1. Mapped(maps, d) = <<d>>
    BY <1>1, <1>2, <1>3, <1>5, NoneDecides
  <2> QED BY <1>4, <1>5, <1>r, <2>1
<1>6. CASE /\ idx \in DOMAIN map /\ RuleMatches(map[idx], d)
           /\ result' = result \o Result(map[idx], <<d>>) /\ dests' = Tail(dests) /\ pc' = "each"
  <2>1. idx \in hits
    BY <1>6 DEF Hits
  <2>2. Mapped(maps, d) = Result(map[idx], <<d>>)
    BY <1>1, <1>2, <1>3, <2>1, FirstDecides
  <2> QED BY <1>4, <1>6, <1>r, <2>2
<1>7. CASE /\ idx \in DOMAIN map /\ ~RuleMatches(map[idx], d)
           /\ idx' = idx + 1 /\ UNCHANGED <<pc, dests, result>>
  <2>1. idx \notin hits
    BY <1>7 DEF Hits
  <2>2. \A i \in hits : idx' <= i
    BY <1>1, <1>2, <1>7, <2>1, AheadGoesOn
  <2>3. Ahead(Hits(maps, Head(dests)))'
    BY <1>1, <1>7, <2>2 DEF Ahead, Hits, MapFor
  <2>4. HalfMapped'
    BY <1>1, <1>7 DEF HalfMapped
  <2> QED BY <1>1, <1>7, <2>3, <2>4 DEF Progress, FirstMatchWins, Handled
<1> QED BY <1>5, <1>6, <1>7 DEF TryRule

\* The INSERTs.
LEMMA StoreProgress ==
    ASSUME DestinationsAssumption, IInv, Progress, Store \/ Stored
    PROVE  Progress'
<1>1. UNCHANGED <<maps, request>> /\ rows \cup ToSet(result) = Expected(maps, request)
  BY DEF Store, Stored, Progress
<1>2. Expected(maps, request)' = Expected(maps, request)
  BY <1>1 DEF Expected, Invited, RecordHits, Mapped, Hits
<1>3. CASE Store
  <2>1. ToSet(result) = {Head(result)} \cup ToSet(Tail(result))
    BY <1>3, SetOfTail DEF Store, IInv, OnTheWay
  <2>2. rows' \cup ToSet(result') = Expected(maps, request)
    BY <1>1, <1>3, <2>1 DEF Store
  <2>3. pc' = "store"
    BY <1>3 DEF Store
  <2> QED BY <1>2, <2>2, <2>3 DEF Progress, FirstMatchWins, Handled
<1>4. CASE Stored
  <2>1. rows' = Expected(maps, request) /\ pc' = "idle"
    BY <1>1, <1>4, SetOfOne DEF Stored
  <2> QED BY <1>2, <2>1 DEF Progress, FirstMatchWins, Handled
<1> QED BY <1>3, <1>4

\* The end of the process, its restart, and no step at all.
LEMMA OtherProgress ==
    ASSUME Progress, Die \/ Restart \/ UNCHANGED vars
    PROVE  Progress'
<1>1. CASE Die \/ Restart
  BY <1>1 DEF Die, Restart, Progress, FirstMatchWins, Handled
<1>2. CASE UNCHANGED vars
  <2>1. UNCHANGED <<maps, pc, request, dests, idx, result, rows>>
    BY <1>2 DEF vars
  <2>2. Expected(maps, request)' = Expected(maps, request)
    BY <2>1 DEF Expected, Invited, RecordHits, Mapped, Hits
  <2>3. HalfMapped => HalfMapped'
    BY <2>1 DEF HalfMapped
  <2>4. /\ Ahead(RecordHits(maps, request)) => Ahead(RecordHits(maps, request))'
        /\ Ahead(Hits(maps, Head(dests))) => Ahead(Hits(maps, Head(dests)))'
    BY <2>1 DEF Ahead, RecordHits, Hits
  <2> QED BY <2>1, <2>2, <2>3, <2>4 DEF Progress, FirstMatchWins, Handled
<1> QED BY <1>1, <1>2

----------------------------------------------------------------------------
(* The theorems.                                                           *)

\* Type correctness of the second half of render_report.
THEOREM TypeCorrect == Spec => []TypeOK
BY IInvCorrect, PTL DEF IInv

\* The delays RandPool hands out differ in number by one at most, and not at all when a
\* round is over, for every value of spread_out_delivery.
THEOREM PoolSpreads == Spec => []SpreadEvenly
<1>1. IInv => SpreadEvenly
  <2> SUFFICES ASSUME IInv PROVE SpreadEvenly
    OBVIOUS
  <2>1. PICK n \in Int : \A v \in Pool!Values : given[v] = IF v \in pool THEN n - 1 ELSE n
    BY DEF IInv, Rounds
  <2>2. \A v \in Pool!Values : given[v] <= n /\ n - 1 <= given[v]
    BY <2>1
  <2>3. \A v, w \in Pool!Values : given[v] <= given[w] + 1
    BY <2>2 DEF IInv, TypeOK
  <2>4. pool = {} => \A v, w \in Pool!Values : given[v] = given[w]
    BY <2>1
  <2> QED BY <2>3, <2>4 DEF SpreadEvenly
<1> QED BY <1>1, IInvCorrect, PTL

\* Whatever the maps say and whatever their regular expressions take over from a record, a
\* destination stems from a mail or web address of the record or from what a rule names, by one
\* rule of the record map and one of the map of its scheme: pre_flight_check is enough.
THEOREM SchemesComeFromRules == Spec => []OnlyRulesBringSchemes
<1>1. IInv => OnlyRulesBringSchemes
  BY DEF IInv, OnTheWay
<1> QED BY <1>1, IInvCorrect, PTL

\* "First match wins": what a record's destinations become, row for row, is what the first
\* rule of each map that matches makes of them, all of it or nothing.
THEOREM FirstRuleDecides == Spec => []FirstMatchWins
<1>1. Init => Progress
  BY InitProgress
<1>2. IInv /\ Progress /\ [Next]_vars => Progress'
  BY DestinationsAssumption, BeginProgress, TryRecordRuleProgress, NextDestinationProgress,
     TryRuleProgress, StoreProgress, OtherProgress DEF Next, TryRuleDies, StoreDies
<1>3. Progress => FirstMatchWins
  BY DEF Progress
<1> QED BY <1>1, <1>2, <1>3, IInvCorrect, PTL DEF Spec
=============================================================================

----------------------- MODULE CollectdDaemonProofs -----------------------
(***************************************************************************)
(* Proofs about CollectdDaemon, for any list of storages and datagrams.    *)
(*                                                                         *)
(* The loops over the storages start with the first, whatever ended the    *)
(* iteration before: an exception caught outside the loops puts the        *)
(* position and the datagram back.  So a shutdown has called all before    *)
(* the position, where it stays when a rollover ends the process, and the  *)
(* first storage gets the datagram as it was read.                         *)
(***************************************************************************)
EXTENDS CollectdDaemon, TLAPS

LoopInv ==
    /\ TypeOK
    /\ pc \in {"select", "serve"} => at = 1
    /\ pc = "datagram" /\ at = 1 => datagram = sent
    /\ \A i \in Positions \ Sqlite : tx[i] = "clean"
    /\ pc = "shutdown" => \A i \in Positions : i < at => tx[i] # "open"
    /\ ShutdownCommitsAll
    /\ FirstCollectsAll

\* The positions of the list of storages.
LEMMA PositionsType ==
    /\ Len(Storages) \in Nat \ {0}
    /\ Positions = 1 .. Len(Storages)
    /\ \A i \in Positions : Storages[i] \in {"sqlite", "dummy"}
BY DaemonAssumption DEF Positions

\* Taking keys out leaves a datagram.
LEMMA PoppedType ==
    ASSUME datagram \in Seq(BOOLEAN), NEW n
    PROVE  Popped(n) \in Seq(BOOLEAN)
<1>1. DOMAIN datagram = 1 .. Len(datagram) /\ Len(datagram) \in Nat
  OBVIOUS
<1>2. \A k \in DOMAIN datagram : (k > n /\ datagram[k]) \in BOOLEAN
  OBVIOUS
<1> QED BY <1>1, <1>2 DEF Popped

\* What a storage is left with after a commit is tried.
LEMMA AttemptedType ==
    ASSUME TypeOK, at \in Positions
    PROVE  /\ Attempted \subseteq Transactions
           /\ \A t \in Attempted : t # "open"
BY DEF TypeOK, Attempted, Transactions

\* Nothing is open before the start.
LEMMA InitLoop == Init => LoopInv
<1> SUFFICES ASSUME Init PROVE LoopInv
  OBVIOUS
<1>1. /\ socket = <<>> /\ signals = <<>> /\ ready = {} /\ datagram = <<>> /\ sent = <<>>
      /\ pc = "stopped" /\ hadData = FALSE /\ at = 1 /\ short = {}
      /\ tx = [i \in Positions |-> "clean"]
  BY DEF Init
<1>2. tx \in [Positions -> Transactions]
  BY <1>1 DEF Transactions
<1>3. socket \in Seq(Datagrams) /\ signals \in Seq({"SIGTERM", "SIGUSR2"})
  BY <1>1
<1>4. Len(socket) <= MaxQueue /\ Len(signals) <= MaxSignals
  BY <1>1, DaemonAssumption
<1>5. datagram \in Seq(BOOLEAN) /\ sent \in Seq(BOOLEAN)
  BY <1>1
<1>6. at \in 1 .. Len(Storages) + 1 /\ ready \subseteq Readable /\ short \subseteq Sqlite
  BY <1>1, PositionsType
<1>7. hadData \in BOOLEAN
  BY DEF Init
<1>8. TypeOK
  BY <1>1, <1>2, <1>3, <1>4, <1>5, <1>6, <1>7 DEF TypeOK, Ended
<1> QED BY <1>8 DEF Init, LoopInv, ShutdownCommitsAll, FirstCollectsAll

\* A start begins with nothing.
LEMMA StartLoop == LoopInv /\ Start => LoopInv'
<1> SUFFICES ASSUME LoopInv, Start PROVE LoopInv'
  OBVIOUS
<1>1. TypeOK'
  BY PositionsType, DaemonAssumption DEF Start, LoopInv, TypeOK, Transactions, Readable
<1> QED BY <1>1 DEF Start, LoopInv, ShutdownCommitsAll, FirstCollectsAll

\* select() and the files it found.
LEMMA ServeLoop ==
    ASSUME LoopInv, Select \/ ServeInterrupt \/ ServeSocket \/ Served
    PROVE  LoopInv'
<1> USE DEF LoopInv, ShutdownCommitsAll, Ended
<1>1. CASE Select
  BY <1>1 DEF Select, TypeOK, Readable, FirstCollectsAll
<1>2. CASE ServeInterrupt
  <2>1. signals # <<>> /\ ready' = ready \ {"interrupt"} /\ signals' = Tail(signals) /\ socket' = socket
    BY <1>2 DEF ServeInterrupt, TypeOK, Readable
  <2>2. signals' \in Seq({"SIGTERM", "SIGUSR2"}) /\ Len(signals') <= MaxSignals
    BY <2>1, DaemonAssumption DEF TypeOK
  <2>3. ready' \subseteq Readable'
    BY <2>1 DEF TypeOK, Readable
  <2>4. TypeOK'
    BY <1>2, <2>2, <2>3 DEF ServeInterrupt, TypeOK
  <2> QED BY <1>2, <2>4, PositionsType DEF ServeInterrupt, FirstCollectsAll
<1>3. CASE ServeSocket
  <2>1. socket # <<>> /\ socket' = Tail(socket) /\ signals' = signals /\ at = 1
    BY <1>3 DEF ServeSocket, TypeOK, Readable
  <2>2. Head(socket) \in Datagrams /\ socket' \in Seq(Datagrams) /\ Len(socket') <= MaxQueue
    BY <2>1, DaemonAssumption DEF TypeOK
  <2>3. CASE Head(socket) = Malformed
    <3>1. /\ pc' \in {"select", "dead"} /\ ready' = {} /\ datagram' = <<>> /\ at' = 1
          /\ sent' = <<>>
      BY <1>3, <2>3 DEF ServeSocket, EndIteration, Leave
    <3>2. TypeOK'
      BY <1>3, <2>1, <2>2, <3>1, PositionsType DEF ServeSocket, TypeOK
    <3> QED BY <1>3, <3>1, <3>2 DEF ServeSocket, FirstCollectsAll
  <2>4. CASE Head(socket) # Malformed
    <3>1. /\ pc' = "datagram" /\ ready' = ready \ {"socket"} /\ at' = at
          /\ datagram' = Head(socket) /\ sent' = Head(socket)
      BY <1>3, <2>4 DEF ServeSocket
    <3>2. Head(socket) \in Seq(BOOLEAN)
      BY <2>2, <2>4, DaemonAssumption
    <3>3. ready' \subseteq Readable'
      BY <2>1, <3>1 DEF TypeOK, Readable
    <3>4. TypeOK'
      BY <1>3, <2>1, <2>2, <3>1, <3>2, <3>3 DEF ServeSocket, TypeOK
    <3> QED BY <1>3, <3>1, <3>4 DEF ServeSocket, FirstCollectsAll
  <2> QED BY <2>3, <2>4
<1>4. CASE Served
  BY <1>4 DEF Served, TypeOK, Readable, FirstCollectsAll
<1> QED BY <1>1, <1>2, <1>3, <1>4

\* A loop over the storages ends when the last was called.
LEMMA LoopEndsLoop == LoopInv /\ LoopEnds => LoopInv'
<1> SUFFICES ASSUME LoopInv, LoopEnds PROVE LoopInv'
  OBVIOUS
<1> USE DEF LoopInv, ShutdownCommitsAll, Ended
<1>1. /\ pc' \in {"serve", "select", "stopped"} /\ (pc' = "stopped" => pc = "shutdown")
      /\ datagram' = <<>> /\ at' = 1 /\ tx' = tx
  BY DEF LoopEnds
<1>2. TypeOK'
  BY <1>1, PositionsType DEF LoopEnds, TypeOK, Readable
<1>3. pc' = "stopped" => \A i \in Positions : tx'[i] # "open"
  BY <1>1, PositionsType DEF LoopEnds, TypeOK
<1> QED BY <1>1, <1>2, <1>3 DEF LoopEnds, FirstCollectsAll

\* The call of a storage that is not the last of an iteration.
LEMMA CallLoop ==
    ASSUME LoopInv, NextStorage, at \in Positions,
           pc \in {"datagram", "rollover", "timeout", "shutdown"},
           datagram' \in Seq(BOOLEAN), short' \subseteq Sqlite,
           Storages[1] = "sqlite" => 1 \notin short',
           \/ tx' = tx /\ at \notin Sqlite
           \/ \E t \in Transactions : /\ tx' = [tx EXCEPT ![at] = t]
                                      /\ at \in Sqlite
                                      /\ pc = "shutdown" => t # "open"
    PROVE  LoopInv'
<1> USE DEF LoopInv, ShutdownCommitsAll, Ended
<1>1. at' = at + 1 /\ pc' = pc /\ at \in Nat /\ at >= 1
  BY PositionsType DEF NextStorage
<1>2. tx' \in [Positions -> Transactions]
  BY DEF TypeOK
<1>3. TypeOK'
  BY <1>1, <1>2, PositionsType DEF NextStorage, TypeOK, Readable
<1>4. \A i \in Positions \ Sqlite : tx'[i] = "clean"
  BY DEF TypeOK
<1>5. pc = "shutdown" => \A i \in Positions : i < at' => tx'[i] # "open"
  <2> SUFFICES ASSUME pc = "shutdown", NEW i \in Positions, i < at + 1
               PROVE  tx'[i] # "open"
    BY <1>1
  <2>1. CASE i = at
    BY <2>1 DEF TypeOK
  <2>2. CASE i < at
    BY <2>2 DEF TypeOK
  <2> QED BY <1>1, <2>1, <2>2, PositionsType
<1> QED BY <1>1, <1>3, <1>4, <1>5 DEF FirstCollectsAll

\* The exception of a storage that ends the iteration.
LEMMA RaiseLoop ==
    ASSUME LoopInv, EndIteration, at \in Sqlite,
           UNCHANGED <<socket, signals, hadData, sent>>,
           short' \subseteq Sqlite, Storages[1] = "sqlite" => 1 \notin short',
           \E t \in Transactions : tx' = [tx EXCEPT ![at] = t]
    PROVE  LoopInv'
<1> USE DEF LoopInv, ShutdownCommitsAll, Ended
<1>1. tx' \in [Positions -> Transactions]
  BY DEF TypeOK
<1>2. TypeOK'
  BY <1>1, PositionsType DEF EndIteration, Leave, TypeOK
<1>3. \A i \in Positions \ Sqlite : tx'[i] = "clean"
  BY DEF TypeOK
<1> QED BY <1>2, <1>3 DEF EndIteration, Leave, FirstCollectsAll

\* A rollover that ends the process in a shutdown has tried its own storage, and those before
\* it had been.
LEMMA ExitLoop == LoopInv /\ RolloverExits => LoopInv'
<1> SUFFICES ASSUME LoopInv, RolloverExits PROVE LoopInv'
  OBVIOUS
<1> USE DEF LoopInv, ShutdownCommitsAll, Ended
<1>1. /\ at \in Sqlite /\ at \in Nat /\ at' = at
      /\ tx' = [tx EXCEPT ![at] = "clean"]
      /\ pc' = IF pc = "shutdown" THEN "exited" ELSE "dead"
  BY PositionsType DEF RolloverExits, Calling, Sqlite
<1>2. tx' \in [Positions -> Transactions]
  BY <1>1 DEF TypeOK, Transactions
<1>3. TypeOK'
  BY <1>1, <1>2 DEF RolloverExits, TypeOK, Readable
<1>4. pc' = "exited" => \A i \in Positions : i <= at => tx'[i] # "open"
  <2> SUFFICES ASSUME pc = "shutdown", NEW i \in Positions, i <= at
               PROVE  tx'[i] # "open"
    BY <1>1
  <2>1. CASE i = at
    BY <1>1, <2>1 DEF TypeOK
  <2>2. CASE i < at
    BY <1>1, <2>2 DEF TypeOK
  <2> QED BY <1>1, <2>1, <2>2, PositionsType
<1>5. \A i \in Positions \ Sqlite : tx'[i] = "clean"
  BY <1>1 DEF TypeOK
<1> QED BY <1>1, <1>3, <1>4, <1>5 DEF RolloverExits, FirstCollectsAll

\* What each storage does with the call.
LEMMA CallsLoop ==
    ASSUME LoopInv,
           \/ CallDummy \/ AddDatagram \/ AddDatagramKeyError \/ AddDatagramRefused
           \/ Commit \/ CommitRaises \/ Shutdown
    PROVE  LoopInv'
<1> USE DEF LoopInv, ShutdownCommitsAll, Ended
<1>1. TypeOK /\ datagram \in Seq(BOOLEAN) /\ short \subseteq Sqlite
      /\ (Storages[1] = "sqlite" => 1 \notin short)
  BY DEF TypeOK, FirstCollectsAll
<1>2. at \in Positions /\ pc \in {"datagram", "rollover", "timeout", "shutdown"}
  BY DEF CallDummy, AddDatagram, AddDatagramKeyError, AddDatagramRefused, Commit, CommitRaises,
         Shutdown, Calling
<1>3. /\ Attempted \subseteq Transactions
      /\ \A t \in Attempted : t # "open"
      /\ tx[at] \in Transactions
  BY <1>1, <1>2, AttemptedType DEF TypeOK
<1>4. CASE CallDummy
  <2>1. at \notin Sqlite
    BY <1>4 DEF CallDummy, Calling, Sqlite
  <2> QED BY <1>1, <1>2, <1>4, <2>1, CallLoop DEF CallDummy
<1>5. CASE AddDatagram
  <2>1. at \in Sqlite /\ pc = "datagram"
    BY <1>2, <1>5 DEF AddDatagram, Calling, Sqlite
  <2>2. \E t \in Transactions : tx' = [tx EXCEPT ![at] = t]
    BY <1>5 DEF AddDatagram, Transactions
  <2>3. datagram' \in Seq(BOOLEAN)
    BY <1>1, <1>5, PoppedType DEF AddDatagram
  <2> QED BY <1>1, <1>2, <1>5, <2>1, <2>2, <2>3, CallLoop DEF AddDatagram
<1>6. CASE AddDatagramKeyError
  <2>1. at \in Sqlite /\ pc = "datagram"
    BY <1>2, <1>6 DEF AddDatagramKeyError, Calling, Sqlite
  <2>2. \E t \in Transactions : tx' = [tx EXCEPT ![at] = t]
    BY <1>3, <1>6 DEF AddDatagramKeyError, Transactions
  <2>3. PICK k \in DOMAIN datagram :
          /\ ~datagram[k]
          /\ datagram' = Popped(k)
          /\ short' = IF sent[k] THEN short \cup {at} ELSE short
    BY <1>6 DEF AddDatagramKeyError
  <2>4. datagram' \in Seq(BOOLEAN)
    BY <1>1, <2>3, PoppedType
  <2>5. short' \subseteq Sqlite /\ (Storages[1] = "sqlite" => 1 \notin short')
    BY <1>1, <2>1, <2>3
  <2> QED BY <1>1, <1>2, <1>6, <2>1, <2>2, <2>4, <2>5, CallLoop DEF AddDatagramKeyError
<1>7. CASE AddDatagramRefused
  <2>1. at \in Sqlite
    BY <1>2, <1>7 DEF AddDatagramRefused, Calling, Sqlite
  <2>2. \E t \in Transactions : tx' = [tx EXCEPT ![at] = t]
    BY <1>3, <1>7 DEF AddDatagramRefused
  <2>3. short' \subseteq Sqlite /\ (Storages[1] = "sqlite" => 1 \notin short')
    BY <1>1, <1>2, <1>7, PositionsType DEF AddDatagramRefused
  <2> QED BY <1>7, <2>1, <2>2, <2>3, RaiseLoop DEF AddDatagramRefused
<1>8. CASE Commit \/ Shutdown
  <2>1. at \in Sqlite
    BY <1>2, <1>8 DEF Commit, Shutdown, Calling, Sqlite
  <2>2. \E t \in Transactions : tx' = [tx EXCEPT ![at] = t] /\ t # "open"
    BY <1>3, <1>8 DEF Commit, Shutdown
  <2> QED BY <1>1, <1>2, <1>8, <2>1, <2>2, CallLoop DEF Commit, Shutdown
<1>9. CASE CommitRaises
  <2>1. at \in Sqlite
    BY <1>2, <1>9 DEF CommitRaises, Calling, Sqlite
  <2>2. \E t \in Transactions : tx' = [tx EXCEPT ![at] = t]
    BY <1>3, <1>9 DEF CommitRaises
  <2> QED BY <1>1, <1>9, <2>1, <2>2, RaiseLoop DEF CommitRaises
<1> QED BY <1>4, <1>5, <1>6, <1>7, <1>8, <1>9

\* Datagrams and signals arrive; the process may be killed.
LEMMA EnvironmentLoop ==
    ASSUME LoopInv,
           \/ Die \/ UNCHANGED vars
           \/ \E d \in Datagrams : Send(d)
           \/ \E s \in {"SIGTERM", "SIGUSR2"} : Signal(s)
    PROVE  LoopInv'
<1> USE DEF LoopInv, ShutdownCommitsAll, Ended
<1>1. CASE Die
  BY <1>1 DEF Die, Up, TypeOK, Readable, FirstCollectsAll
<1>2. CASE UNCHANGED vars
  BY <1>2 DEF vars, daemonVars, TypeOK, Readable, FirstCollectsAll
<1>3. ASSUME NEW d \in Datagrams, Send(d) PROVE LoopInv'
  <2>1. socket' \in Seq(Datagrams) /\ Len(socket') <= MaxQueue /\ socket' # <<>>
    <3>1. socket \in Seq(Datagrams) /\ Len(socket) < MaxQueue /\ socket' = Append(socket, d)
      BY <1>3 DEF Send, TypeOK
    <3>2. Len(socket') = Len(socket) + 1
      BY <3>1
    <3>3. socket' \in Seq(Datagrams)
      BY <3>1
    <3>4. socket' # <<>>
      BY <3>1, <3>2
    <3> QED BY <3>1, <3>2, <3>3, <3>4, DaemonAssumption
  <2>2. TypeOK'
    BY <1>3, <2>1 DEF Send, daemonVars, TypeOK, Readable
  <2> QED BY <1>3, <2>2 DEF Send, daemonVars, FirstCollectsAll
<1>4. ASSUME NEW s \in {"SIGTERM", "SIGUSR2"}, Signal(s) PROVE LoopInv'
  <2>1. signals' \in Seq({"SIGTERM", "SIGUSR2"}) /\ Len(signals') <= MaxSignals /\ signals' # <<>>
    BY <1>4, DaemonAssumption DEF Signal, TypeOK
  <2>2. TypeOK'
    BY <1>4, <2>1 DEF Signal, daemonVars, TypeOK, Readable
  <2> QED BY <1>4, <2>2 DEF Signal, daemonVars, FirstCollectsAll
<1> QED BY <1>1, <1>2, <1>3, <1>4

\* Every step keeps the invariant.
LEMMA NextLoop == LoopInv /\ [Next]_vars => LoopInv'
BY StartLoop, ServeLoop, LoopEndsLoop, CallsLoop, ExitLoop, EnvironmentLoop DEF Next, Loop

\* The inductive invariant.
LEMMA LoopAlways == Spec => []LoopInv
BY InitLoop, NextLoop, PTL DEF Spec

\* The variables of the main loop keep their types, for any storages and datagrams.
THEOREM TypeCorrect == Spec => []TypeOK
<1>1. LoopInv => TypeOK
  BY DEF LoopInv
<1> QED BY <1>1, LoopAlways, PTL

\* However many storages there are and whichever refuses or raises, none is stopped with
\* datagrams it has not tried to commit; and when a rollover ends the process in the middle of
\* a shutdown, none up to the one that did.
THEOREM ShutdownTriesAll == Spec => []ShutdownCommitsAll
<1>1. LoopInv => ShutdownCommitsAll
  BY DEF LoopInv
<1> QED BY <1>1, LoopAlways, PTL

\* While the daemon runs, the storage that fetchers read gets every datagram as it was sent,
\* whatever the others take out of it or raise for a handler to catch.
THEOREM FirstUndisturbed == Spec => []FirstCollectsAll
<1>1. LoopInv => FirstCollectsAll
  BY DEF LoopInv
<1> QED BY <1>1, LoopAlways, PTL
============================================================================

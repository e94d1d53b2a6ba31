--------------------------- MODULE CollectdDaemon ---------------------------
(***************************************************************************)
(* The main loop of tlsrpt-collectd, function tlsrpt_collectd_daemon, over *)
(* all the storages of its option `storage': select, the datagram that is  *)
(* handed from one to the next, signals, and which exception ends what.    *)
(*                                                                         *)
(* A storage is reduced to what became of the datagrams it has counted     *)
(* since its last commit.  A rollover (see CollectdStorage) is here a      *)
(* commit that may raise.  A datagram is reduced to its policies: whether  *)
(* each has the key "f", which a storage takes out when it counts the      *)
(* policy.                                                                 *)
(***************************************************************************)
EXTENDS Integers, Sequences, SequencesExt

CONSTANTS
    Storages,       \* option storage: a sequence of "sqlite" and "dummy"
    Datagrams,      \* what senders send: a sequence of BOOLEAN, or Malformed
    Malformed       \* anything that is not UTF-8 or not JSON

\* Bounds of the environment, not of the code.
CONSTANTS
    MaxQueue,       \* how many datagrams the socket holds; senders wait
    MaxSignals,     \* how many signals wait in the wake-up pipe
    Refusals        \* whether databases may refuse what they are asked, or to be set up

ASSUME DaemonAssumption ==
    /\ Storages \in Seq({"sqlite", "dummy"}) /\ Storages # <<>>
    /\ Datagrams \ {Malformed} \subseteq Seq(BOOLEAN)
    /\ MaxQueue \in Nat \ {0}
    /\ MaxSignals \in Nat \ {0}
    /\ Refusals \in BOOLEAN

VARIABLES
    socket,     \* datagrams sent and not read
    signals,    \* bytes in the wake-up pipe
    pc,         \* what the loop is at
    ready,      \* files select() reported, not yet served
    hadData,    \* had_data: a datagram was read in this iteration
    datagram,   \* j, as the storages before have left it
    at,         \* position in `collectds'
    tx,         \* per storage, what became of the datagrams it counted
    \* History variables: they record what happened and guard nothing.
    sent,       \* j, as it was read
    short       \* storages that missed a policy for which their own database is not to blame

daemonVars == <<pc, ready, hadData, datagram, at, sent>>
vars == <<socket, signals, daemonVars, tx, short>>

Positions == DOMAIN Storages
Sqlite == {i \in Positions : Storages[i] = "sqlite"}

\* "open": some are not committed; "refused": and the last attempt to commit them failed.
Transactions == {"clean", "open", "refused"}

Ended == {"stopped", "exited", "dead"}
Up == pc \notin Ended

Init ==
    /\ socket = <<>>
    /\ signals = <<>>
    /\ pc = "stopped"
    /\ ready = {}
    /\ hadData = FALSE
    /\ datagram = <<>>
    /\ at = 1
    /\ tx = [i \in Positions |-> "clean"]
    /\ sent = <<>>
    /\ short = {}

\* A new socket, and every storage set up: a constructor that raises ends the process.
Start ==
    /\ ~Up
    /\ pc' = "select"
    /\ socket' = <<>>
    /\ signals' = <<>>
    /\ tx' = [i \in Positions |-> "clean"]
    /\ ready' = {}
    /\ datagram' = <<>>
    /\ at' = 1
    /\ short' = {}
    /\ UNCHANGED <<hadData, sent>>

\* An exception that is caught outside the loops leaves what select() reported for the
\* next iteration, one that is not ends the process.
Leave(p) ==
    /\ pc' = p
    /\ ready' = {}
    /\ datagram' = <<>>
    /\ at' = 1

EndIteration == Leave("select")

Readable == {f \in {"interrupt", "socket"} :
                 \/ f = "interrupt" /\ signals # <<>>
                 \/ f = "socket" /\ socket # <<>>}

\* Mutant: signals are looked at when there is no datagram.
SelectData ==
    /\ pc = "select"
    /\ ready' = IF "socket" \in Readable THEN {"socket"} ELSE Readable
    /\ hadData' = FALSE
    /\ pc' = "serve"
    /\ UNCHANGED <<socket, signals, datagram, at, tx, sent, short>>

\* select() returns what is readable, after the timeout nothing.
Select ==
    /\ pc = "select"
    /\ ready' = Readable
    /\ hadData' = FALSE
    /\ pc' = "serve"
    /\ UNCHANGED <<socket, signals, datagram, at, tx, sent, short>>

\* Mutant: the file stays in the list.
ServeInterruptAgain ==
    /\ pc = "serve"
    /\ "interrupt" \in ready
    /\ signals' = Tail(signals)
    /\ pc' = IF Head(signals) = "SIGUSR2" THEN "rollover" ELSE "shutdown"
    /\ UNCHANGED <<socket, ready, hadData, datagram, at, tx, sent, short>>

\* The order in which the ready files are served is up to the selector.
ServeInterrupt ==
    /\ pc = "serve"
    /\ "interrupt" \in ready
    /\ ready' = ready \ {"interrupt"}
    /\ signals' = Tail(signals)
    /\ pc' = IF Head(signals) = "SIGUSR2" THEN "rollover" ELSE "shutdown"
    /\ UNCHANGED <<socket, hadData, datagram, at, tx, sent, short>>

\* A malformed datagram is dumped to a file.  Nothing catches what goes wrong with that
\* file, and with the default, an empty path, it always does.
ServeSocket ==
    /\ pc = "serve"
    /\ "socket" \in ready
    /\ socket' = Tail(socket)
    /\ hadData' = TRUE
    /\ \/ /\ Head(socket) = Malformed
          /\ EndIteration \/ Leave("dead")
          /\ sent' = <<>>
       \/ /\ Head(socket) # Malformed
          /\ pc' = "datagram"
          /\ ready' = ready \ {"socket"}
          /\ datagram' = Head(socket)
          /\ sent' = Head(socket)
          /\ at' = at
    /\ UNCHANGED <<signals, tx, short>>

Served ==
    /\ pc = "serve"
    /\ ready = {}
    /\ pc' = IF hadData THEN "select" ELSE "timeout"
    /\ UNCHANGED <<socket, signals, ready, hadData, datagram, at, tx, sent, short>>

\* The loops over `collectds', when the last has been called.
LoopEnds ==
    /\ pc \in {"datagram", "rollover", "timeout", "shutdown"}
    /\ at > Len(Storages)
    /\ pc' = CASE pc \in {"datagram", "rollover"} -> "serve" [] pc = "timeout" -> "select" [] OTHER -> "stopped"
    /\ datagram' = <<>>
    /\ at' = 1
    /\ UNCHANGED <<socket, signals, ready, hadData, tx, sent, short>>

Calling(loops, class) ==
    /\ pc \in loops
    /\ at \in Positions
    /\ Storages[at] = class

NextStorage ==
    /\ at' = at + 1
    /\ UNCHANGED <<socket, signals, pc, ready, hadData, sent>>

CallDummy ==
    /\ Calling({"datagram", "rollover", "timeout", "shutdown"}, "dummy")
    /\ NextStorage
    /\ UNCHANGED <<datagram, tx, short>>

(***************************************************************************)
(* _add_policies_from_datagram takes "f" out of each policy.  The commit   *)
(* that follows when enough are counted may fail, which is not raised.     *)
(***************************************************************************)
Popped(n) == [k \in DOMAIN datagram |-> k > n /\ datagram[k]]

AddDatagram ==
    /\ Calling({"datagram"}, "sqlite")
    /\ \A k \in DOMAIN datagram : datagram[k]
    /\ datagram' = Popped(Len(datagram))
    /\ \E t \in {"clean", "open"} \cup IF Refusals THEN {"refused"} ELSE {} : tx' = [tx EXCEPT ![at] = t]
    /\ NextStorage
    /\ UNCHANGED short

\* The KeyError of a policy without "f" is caught here, for this storage alone.
AddDatagramKeyError ==
    /\ Calling({"datagram"}, "sqlite")
    /\ \E k \in DOMAIN datagram :
          /\ ~datagram[k]
          /\ \A l \in 1 .. k - 1 : datagram[l]
          /\ datagram' = Popped(k)
          /\ short' = IF sent[k] THEN short \cup {at} ELSE short
    /\ \E t \in {"clean", tx[at]} : tx' = [tx EXCEPT ![at] = t]
    /\ NextStorage

\* After an attempt to commit: done, or refused unless there was nothing to do.
Attempted == {"clean", IF tx[at] # "clean" /\ Refusals THEN "refused" ELSE "clean"}

\* Mutant: after an error the datagram goes round again.
AddDatagramRetried ==
    /\ Refusals
    /\ Calling({"datagram"}, "sqlite")
    /\ \E t \in Attempted \cup {tx[at]} : tx' = [tx EXCEPT ![at] = t]
    /\ datagram' = Popped(Len(datagram))
    /\ at' = 1
    /\ UNCHANGED <<socket, signals, pc, ready, hadData, sent, short>>

\* An OperationalError of an INSERT, or of a rollover before the first, is caught outside
\* the loops: the storages that follow are not called.
AddDatagramRefused ==
    /\ Refusals
    /\ Calling({"datagram"}, "sqlite")
    /\ \E t \in Attempted \cup {tx[at]} : tx' = [tx EXCEPT ![at] = t]
    /\ short' = short \cup {i \in Sqlite : i > at}
    /\ EndIteration
    /\ UNCHANGED <<socket, signals, hadData, sent>>

\* switch_to_next_day by SIGUSR2, or socket_timeout: what the transaction holds is
\* committed, or the commit is refused and that is logged.
Commit ==
    /\ Calling({"rollover", "timeout"}, "sqlite")
    /\ \E t \in Attempted : tx' = [tx EXCEPT ![at] = t]
    /\ NextStorage
    /\ UNCHANGED <<datagram, short>>

CommitRaises ==
    /\ Refusals
    /\ Calling({"rollover", "timeout"}, "sqlite")
    /\ \E t \in Attempted : tx' = [tx EXCEPT ![at] = t]
    /\ EndIteration
    /\ UNCHANGED <<socket, signals, hadData, sent, short>>

\* Mutant: a storage that raises ends the shutdown.
ShutdownOrRaise ==
    /\ Calling({"shutdown"}, "sqlite")
    /\ \/ /\ tx' = [tx EXCEPT ![at] = "clean"]
          /\ pc' = pc
       \/ /\ tx' = [tx EXCEPT ![at] = IF @ = "clean" THEN @ ELSE "refused"]
          /\ pc' = "stopped"
    /\ at' = at + 1
    /\ UNCHANGED <<socket, signals, ready, hadData, datagram, sent, short>>

\* Any Exception is caught here, so that every storage gets its chance.
Shutdown ==
    /\ Calling({"shutdown"}, "sqlite")
    /\ \E t \in Attempted : tx' = [tx EXCEPT ![at] = t]
    /\ NextStorage
    /\ UNCHANGED <<datagram, short>>

\* A rollover that cannot set up the new day's file calls sys.exit: a SystemExit is not an
\* Exception and passes every handler, so the storages that follow are not called, not even
\* in a shutdown.  The rollover has committed the old day by then.
RolloverExits ==
    /\ Refusals
    /\ Calling({"datagram", "rollover", "timeout", "shutdown"}, "sqlite")
    /\ tx' = [tx EXCEPT ![at] = "clean"]
    /\ pc' = IF pc = "shutdown" THEN "exited" ELSE "dead"
    /\ UNCHANGED <<socket, signals, ready, hadData, datagram, at, sent, short>>

(***************************************************************************)
(* The environment.                                                        *)
(***************************************************************************)
\* An exception that nothing catches, or a kill.
Die ==
    /\ Up
    /\ pc' = "dead"
    /\ UNCHANGED <<socket, signals, ready, hadData, datagram, at, tx, sent, short>>

Send(d) ==
    /\ Up
    /\ Len(socket) < MaxQueue
    /\ socket' = Append(socket, d)
    /\ UNCHANGED <<signals, daemonVars, tx, short>>

Signal(s) ==
    /\ Up
    /\ Len(signals) < MaxSignals
    /\ signals' = Append(signals, s)
    /\ UNCHANGED <<socket, daemonVars, tx, short>>

----------------------------------------------------------------------------
Loop ==
    \/ Select \/ ServeInterrupt \/ ServeSocket \/ Served
    \/ LoopEnds \/ CallDummy
    \/ AddDatagram \/ AddDatagramKeyError \/ AddDatagramRefused
    \/ Commit \/ CommitRaises \/ Shutdown \/ RolloverExits

Next ==
    \/ Start
    \/ Loop
    \/ Die
    \/ \E d \in Datagrams : Send(d)
    \/ \E s \in {"SIGTERM", "SIGUSR2"} : Signal(s)

Spec == Init /\ [][Next]_vars

\* Fairness: the loop runs.  Nothing is assumed of the order in which files are served, nor
\* of how often an exception skips the rest of an iteration.
FairSpec == Spec /\ WF_vars(Loop)

----------------------------------------------------------------------------
(* Properties.                                                             *)

TypeOK ==
    /\ socket \in Seq(Datagrams) /\ Len(socket) <= MaxQueue
    /\ signals \in Seq({"SIGTERM", "SIGUSR2"}) /\ Len(signals) <= MaxSignals
    /\ pc \in Ended \cup {"select", "serve", "datagram", "rollover", "timeout", "shutdown"}
    /\ ready \subseteq Readable
    /\ hadData \in BOOLEAN
    /\ datagram \in Seq(BOOLEAN)
    /\ sent \in Seq(BOOLEAN)
    /\ at \in 1 .. Len(Storages) + 1
    /\ tx \in [Positions -> Transactions]
    /\ short \subseteq Sqlite

\* A shutdown leaves no storage with counted datagrams that it has not even tried to commit,
\* whatever refusals and exceptions the others meet.  Only a rollover whose set-up fails ends
\* it early, although its handlers are there "to avoid interrupting shutdown", and then the
\* storages up to that one were tried.
ShutdownCommitsAll ==
    /\ pc = "stopped" => \A i \in Positions : tx[i] # "open"
    /\ pc = "exited" => \A i \in Positions : i <= at => tx[i] # "open"

\* While the daemon runs, the first storage, the one fetchers read, misses nothing because of
\* the others: neither the exceptions of theirs that are caught nor what they take out of the
\* datagram reach it.  One that ends the process costs it what it has not committed.
FirstCollectsAll == Storages[1] = "sqlite" => 1 \notin short

\* An exception ends an iteration in which a signal was waiting to be served.
SkipsSignal == "interrupt" \in ready /\ pc' = "select"

\* A daemon told to stop stops, however many datagrams and other signals there are, unless
\* exceptions skip the signal again and again: malformed datagrams, or INSERTs a database
\* refuses, each served first in its iteration.
StopIsHeard ==
    []<><<SkipsSignal>>_vars \/ ("SIGTERM" \in ToSet(signals) ~> pc \in Ended)

\* doc/tlsrpt-collectd.adoc, --storage: "This can be a comma-separated list of multiple
\* storage backends."
EveryStorageCollects == short = {}
=============================================================================

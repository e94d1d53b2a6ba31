-------------------------- MODULE CollectdStorage --------------------------
(***************************************************************************)
(* The SQLite storage of tlsrpt-collectd: class TLSRPTCollectdSQLite of    *)
(* tlsrpt.py under the main loop of tlsrpt_collectd_main, and what a       *)
(* tlsrpt-fetcher reads from it.                                           *)
(*                                                                         *)
(* Datagrams are counted per day into today's database file.  The first    *)
(* datagram or timeout after UTC midnight labels the file with the day it  *)
(* completes, moves it to <name>.yesterday, where fetchers find it, and    *)
(* starts a new one: a sequence of commits and file operations that a      *)
(* crash may cut anywhere.                                                 *)
(*                                                                         *)
(* Domains, records and policies are abstracted: `rows' counts, per day,   *)
(* the policies added to the tables finalresults and failures.             *)
(***************************************************************************)
EXTENDS Integers

CONSTANTS
    CommitEveryN,   \* option max_uncommited_datagrams
    RetryCount,     \* option retry_commit_datagram_count
    NULL            \* no day

\* Bounds of the environment, not of the code.
CONSTANTS
    FirstDay,       \* the day before whose end the daemon is started first
    MaxDay,         \* the last day the clock reaches
    MaxPolicies,    \* how many policies the datagrams of one day hold
    MaxCrashes,     \* how often the process may be killed
    MaxFails        \* how many attempts to commit may fail in a row

ASSUME CollectdAssumption ==
    /\ CommitEveryN \in Nat \ {0}
    /\ RetryCount \in Nat \ {0}
    /\ MaxDay \in Nat
    /\ FirstDay \in 0 .. MaxDay
    /\ MaxPolicies \in Nat
    /\ MaxCrashes \in Nat
    /\ MaxFails \in Nat
    /\ NULL \notin Int \cup {"create", "init", "datagram", "timeout", "stop"}

VARIABLES
    today,      \* the UTC date, as a number of days
    day,        \* self.today, the day the open database is for
    cur,        \* today's database file, as committed
    view,       \* the same file as the daemon's open transaction sees it
    yest,       \* the file <name>.yesterday
    uncommitted,    \* self.uncommitted_datagrams
    pc,         \* what the storage does
    op,         \* the call in progress and the dates it has read
    \* History variables: they record what happened and guard nothing.
    crashes,    \* number of crashes so far
    fails,      \* failed attempts to commit since the last good one
    added,      \* policies ever added, per day
    lost,       \* of these, the ones a crash or a shutdown took back, per day
    late        \* days the storage was not there to close when they ended

histVars == <<crashes, fails, added, lost, late>>
vars == <<today, day, cur, view, yest, uncommitted, pc, op, histVars>>

----------------------------------------------------------------------------
(* Database files.                                                         *)

Days == 0 .. MaxDay

\* DDL statements commit one by one: a file has no tables, some, or all of them
\* and the row in dbversion that _check_database looks for.
NoFile == [schema |-> "none", label |-> NULL, rows |-> [d \in Days |-> 0]]
EmptyFile == [NoFile EXCEPT !.schema = "complete"]

NoOp == [kind |-> NULL, date |-> NULL, yesterday |-> NULL]

\* What a fetcher prints for a file: the day it announces, and the details of a day.
AvailableDay(file) == file.label
DomainDetails(file, d) == file.rows[d]

----------------------------------------------------------------------------
Init ==
    /\ today = FirstDay
    /\ day = FirstDay
    /\ cur = NoFile
    /\ view = NoFile
    /\ yest = NoFile
    /\ uncommitted = 0
    /\ pc = "down"
    /\ op = NoOp
    /\ crashes = 0
    /\ fails = 0
    /\ added = [d \in Days |-> 0]
    /\ lost = [d \in Days |-> 0]
    /\ late = -1 .. FirstDay - 1

(***************************************************************************)
(* _db_commit: nothing to do when no datagram is counted; an               *)
(* OperationalError is logged and leaves the transaction open.  A state is *)
(* [n, fails, file], `whole' the contents of the open transaction.         *)
(***************************************************************************)
DbCommit(s, whole) ==
    IF s.n = 0 THEN {s}
    ELSE {[n |-> 0, fails |-> 0, file |-> whole]} \cup
         {t \in {[s EXCEPT !.fails = @ + 1]} : t.fails <= MaxFails}

Uncommitted == [n |-> uncommitted, fails |-> fails, file |-> cur]

BecomesCommitted(s) ==
    /\ uncommitted' = s.n
    /\ fails' = s.fails
    /\ cur' = s.file

\* Mutant: the first attempt is made one datagram later.
CommitDueLater(n) == n > CommitEveryN /\ (n - CommitEveryN) % RetryCount = 0

CommitDue(n) == n >= CommitEveryN /\ (n - CommitEveryN) % RetryCount = 0

\* commit_after_n_datagrams: a commit that is overdue first, then the one by count.
CommitAfterNDatagrams(s, whole, overdue) ==
    UNION {IF CommitDue(t.n) THEN DbCommit(t, whole) ELSE {t} :
            t \in IF overdue THEN DbCommit(s, whole) ELSE {s}}

(***************************************************************************)
(* The end of the process.  What was not committed is gone.  If midnight   *)
(* had passed and the new day was not set up, yesterday may be gone too,   *)
(* and the days before it that were still open.                            *)
(***************************************************************************)
GoDown ==
    /\ pc' = "down"
    /\ op' = NoOp
    /\ view' = NoFile
    /\ uncommitted' = 0
    /\ fails' = 0
    /\ lost' = [d \in Days |-> lost[d] + view.rows[d] - cur'.rows[d]]
    /\ late' = IF day = today /\ pc \in {"idle", "resume"} THEN late
               ELSE late \cup {today - 1} \cup day .. today - 1

\* Mutant: a fresh database is not set up.
StartExisting ==
    /\ pc = "down"
    /\ cur.schema = "complete"
    /\ day' = today
    /\ view' = cur
    /\ pc' = "idle"
    /\ UNCHANGED <<today, cur, yest, uncommitted, op, histVars>>

\* The constructor.  A file with only some of the tables fails _check_database and
\* then the CREATE TABLE of what it has: the process exits, and does so at every start.
Start ==
    /\ pc = "down"
    /\ day' = today
    /\ \/ /\ cur.schema = "complete"
          /\ view' = cur
          /\ pc' = "idle"
          /\ op' = op
       \/ /\ cur.schema = "none"
          /\ view' = view
          /\ pc' = "setup"
          /\ op' = [NoOp EXCEPT !.kind = "create"]
    /\ UNCHANGED <<today, cur, yest, uncommitted, histVars>>

(***************************************************************************)
(* add_datagram and socket_timeout read the clock and start with the       *)
(* rollover if the day has changed.  The main loop calls socket_timeout    *)
(* also when it shuts down.                                                *)
(***************************************************************************)
\* Mutant: only a timeout looks at the clock.
ReceiveUnchecked(kind) ==
    /\ pc = "idle"
    /\ op' = [NoOp EXCEPT !.kind = kind, !.date = today]
    /\ pc' = IF day # today /\ kind # "datagram" THEN "commit" ELSE "resume"
    /\ UNCHANGED <<today, day, cur, view, yest, uncommitted, histVars>>

Receive(kind) ==
    /\ pc = "idle"
    /\ op' = [NoOp EXCEPT !.kind = kind, !.date = today]
    /\ pc' = IF day # today THEN "commit" ELSE "resume"
    /\ UNCHANGED <<today, day, cur, view, yest, uncommitted, histVars>>

\* Mutant: the rows are dated by the clock at the time they are stored.
CountDatedAgain(k) ==
    /\ pc = "resume"
    /\ op.kind = "datagram"
    /\ added[today] + k <= MaxPolicies
    /\ added' = [added EXCEPT ![today] = @ + k]
    /\ view' = [view EXCEPT !.rows[today] = @ + k]
    /\ pc' = "idle"
    /\ op' = NoOp
    /\ UNCHANGED <<today, day, yest, crashes, lost, late>>

\* The rest of add_datagram, for a datagram of k policies (none if it has no such key).
Count(k) ==
    /\ pc = "resume"
    /\ op.kind = "datagram"
    /\ added[op.date] + k <= MaxPolicies
    /\ added' = [added EXCEPT ![op.date] = @ + k]
    /\ view' = [view EXCEPT !.rows[op.date] = @ + k]
    /\ pc' = "idle"
    /\ op' = NoOp
    /\ UNCHANGED <<today, day, yest, crashes, lost, late>>

AddDatagram(k, overdue) ==
    /\ Count(k)
    /\ \E s \in CommitAfterNDatagrams([Uncommitted EXCEPT !.n = @ + 1], view', overdue) :
          BecomesCommitted(s)

\* A key is missing in a policy, or the database refuses a row: the main loop logs
\* the exception.  The k policies before it stay in the transaction, uncounted.
AddDatagramFails(k) ==
    /\ Count(k)
    /\ UNCHANGED <<cur, uncommitted, fails>>

\* Mutant: nothing is committed while no datagrams arrive.
TimeoutIdles ==
    /\ pc = "resume"
    /\ op.kind = "timeout"
    /\ pc' = "idle"
    /\ op' = NoOp
    /\ UNCHANGED <<today, day, cur, view, yest, uncommitted, histVars>>

TimedCommit ==
    /\ pc = "resume"
    /\ op.kind = "timeout"
    /\ \E s \in DbCommit(Uncommitted, view) : BecomesCommitted(s)
    /\ pc' = "idle"
    /\ op' = NoOp
    /\ UNCHANGED <<today, day, view, yest, crashes, added, lost, late>>

Shutdown ==
    /\ pc = "resume"
    /\ op.kind = "stop"
    /\ \E s \in DbCommit(Uncommitted, view) : cur' = s.file
    /\ GoDown
    /\ UNCHANGED <<today, day, yest, crashes, added>>

Started ==
    /\ pc = "resume"
    /\ op.kind = "init"
    /\ pc' = "idle"
    /\ op' = NoOp
    /\ UNCHANGED <<today, day, cur, view, yest, uncommitted, histVars>>

(***************************************************************************)
(* switch_to_next_day, one action per commit and per file operation.       *)
(***************************************************************************)
\* tlsrpt_utc_date_yesterday.  Mutant: the current day.
NotYesterday(now) == now

Yesterday(now) == now - 1

RolloverCommit ==
    /\ pc = "commit"
    /\ op' = [op EXCEPT !.yesterday = Yesterday(today)]
    /\ \E s \in DbCommit(Uncommitted, view) : BecomesCommitted(s)
    /\ pc' = "label"
    /\ UNCHANGED <<today, day, view, yest, crashes, added, lost, late>>

\* Mutant: only the label is committed, as if _db_commit had never to be made up for.
LabelDayOnly ==
    /\ pc = "label"
    /\ cur' = [cur EXCEPT !.label = op.yesterday]
    /\ view' = cur'
    /\ pc' = "remove"
    /\ UNCHANGED <<today, day, yest, uncommitted, op, histVars>>

\* A stale label is deleted, the new one inserted; this commit makes up for a failed
\* _db_commit.
LabelDay ==
    /\ pc = "label"
    /\ view' = [view EXCEPT !.label = op.yesterday]
    /\ cur' = view'
    /\ pc' = "remove"
    /\ UNCHANGED <<today, day, yest, uncommitted, op, histVars>>

\* One of the statements or the commit fails.  The main loop logs that and drops the
\* datagram; the constructor and the shutdown end the process.
LabelDayFails ==
    /\ pc = "label"
    /\ cur' = cur
    /\ \/ /\ op.kind \in {"datagram", "timeout"}
          /\ \E l \in {view.label, NULL, op.yesterday} : view' = [view EXCEPT !.label = l]
          /\ pc' = "idle"
          /\ op' = NoOp
          /\ UNCHANGED <<uncommitted, histVars>>
       \/ /\ op.kind \in {"init", "stop"}
          /\ GoDown
          /\ UNCHANGED <<crashes, added>>
    /\ UNCHANGED <<today, day, yest>>

RemoveYesterday ==
    /\ pc = "remove"
    /\ yest' = NoFile
    /\ pc' = "rename"
    /\ UNCHANGED <<today, day, cur, view, uncommitted, op, histVars>>

RenameToday ==
    /\ pc = "rename"
    /\ yest' = cur
    /\ cur' = NoFile
    /\ view' = NoFile
    /\ pc' = "open"
    /\ UNCHANGED <<today, day, uncommitted, op, histVars>>

OpenNewDay ==
    /\ pc = "open"
    /\ day' = today
    /\ uncommitted' = 0
    /\ fails' = 0
    /\ pc' = "setup"
    /\ UNCHANGED <<today, cur, view, yest, op, crashes, added, lost, late>>

\* _setup_database: the first statement, and the commit after the last.  A failure in
\* between ends the process, as a crash does.
SetupBegins ==
    /\ pc = "setup"
    /\ cur.schema = "none"
    /\ cur' = [cur EXCEPT !.schema = "partial"]
    /\ UNCHANGED <<today, day, view, yest, uncommitted, pc, op, histVars>>

\* The constructor goes on with a rollover, to have a file for yesterday as well.
SetupEnds ==
    /\ pc = "setup"
    /\ cur.schema = "partial"
    /\ cur' = EmptyFile
    /\ view' = EmptyFile
    /\ \/ op.kind = "create" /\ pc' = "commit" /\ op' = [op EXCEPT !.kind = "init"]
       \/ op.kind # "create" /\ pc' = "resume" /\ op' = op
    /\ UNCHANGED <<today, day, yest, uncommitted, histVars>>

(***************************************************************************)
(* The environment.                                                        *)
(***************************************************************************)
Crash ==
    /\ pc # "down"
    /\ crashes < MaxCrashes
    /\ crashes' = crashes + 1
    /\ cur' = cur
    /\ GoDown
    /\ UNCHANGED <<today, day, yest, added>>

NextDay ==
    /\ today < MaxDay
    /\ today' = today + 1
    /\ late' = IF pc \in {"idle", "resume", "setup"} /\ day = today THEN late
               ELSE late \cup day .. today
    /\ UNCHANGED <<day, cur, view, yest, uncommitted, pc, op, crashes, fails, added, lost>>

----------------------------------------------------------------------------
Rollover ==
    \/ RolloverCommit
    \/ LabelDay \/ LabelDayFails
    \/ RemoveYesterday \/ RenameToday \/ OpenNewDay
    \/ SetupBegins \/ SetupEnds

Resume ==
    \/ \E k \in 0 .. MaxPolicies :
          \/ \E overdue \in BOOLEAN : AddDatagram(k, overdue)
          \/ AddDatagramFails(k)
    \/ TimedCommit \/ Shutdown \/ Started

Next ==
    \/ Start
    \/ \E kind \in {"datagram", "timeout", "stop"} : Receive(kind)
    \/ Rollover
    \/ Resume
    \/ Crash
    \/ NextDay

Spec == Init /\ [][Next]_vars

(***************************************************************************)
(* Fairness.  A call that has begun goes on, and the service manager       *)
(* starts the process again.  select() returns at least every              *)
(* `sockettimeout' seconds, with a datagram or without; so, unless all     *)
(* that ever arrives is malformed, a commit is tried again and again: by   *)
(* socket_timeout, or as overdue.  That a database which refused its label *)
(* accepts it some day is an assumption about the file system.             *)
(***************************************************************************)
Selects == Receive("datagram") \/ Receive("timeout")
PeriodicCommit == TimedCommit \/ \E k \in 0 .. MaxPolicies : AddDatagram(k, TRUE)

Fairness ==
    /\ WF_vars(Start)
    /\ WF_vars(Selects)
    /\ WF_vars(Rollover)
    /\ WF_vars(Resume)
    /\ SF_vars(PeriodicCommit)
    /\ SF_vars(LabelDay)

FairSpec == Spec /\ Fairness

----------------------------------------------------------------------------
(* Properties.                                                             *)

Labels == -1 .. MaxDay - 1

File == [schema : {"none", "partial", "complete"}, label : Labels \cup {NULL},
         rows : [Days -> Nat]]

Call == [kind : {NULL, "create", "init", "datagram", "timeout", "stop"},
         date : Days \cup {NULL}, yesterday : Labels \cup {NULL}]

\* Every variable has its type.
TypeOK ==
    /\ today \in Days
    /\ day \in Days
    /\ cur \in File
    /\ view \in File
    /\ yest \in File
    /\ uncommitted \in Nat
    /\ pc \in {"down", "idle", "commit", "label", "remove", "rename", "open", "setup", "resume"}
    /\ op \in Call
    /\ op.kind = "datagram" => op.date \in Days
    /\ crashes \in 0 .. MaxCrashes
    /\ fails \in 0 .. MaxFails
    /\ added \in [Days -> Nat]
    /\ lost \in [Days -> Int]
    /\ late \subseteq Labels \cup Days

\* What a crash can cost: the datagrams counted since the last commit stay below
\* max_uncommited_datagrams plus retry_commit_datagram_count for each failed attempt.
UncommittedBounded == uncommitted < CommitEveryN + RetryCount * fails

\* Today's rows are in the open database, all of them and none twice, less what a
\* crash took back: no rollover, interrupted or not, carries rows of the new day away.
TodayAccounted ==
    pc = "idle" /\ day = today => view.rows[today] = added[today] - lost[today]

\* What fetchers find under a label is the whole of that day, at every instant and
\* not only when the rollover is over; and once it is over, the label is yesterday.
\* Days in `late' are excepted: the code loses them (see CollectedIsFetchable).
PublishedComplete ==
    /\ \A d \in Days \ late :
          AvailableDay(yest) = d => DomainDetails(yest, d) = added[d] - lost[d]
    /\ pc = "idle" /\ day = today /\ today > 0 /\ today - 1 \notin late =>
          AvailableDay(yest) = today - 1

\* Counted datagrams are committed in the end, also when no more arrive.
CommitsEventually == uncommitted > 0 ~> uncommitted = 0

\* After midnight the daemon gets to the new day, or it went down.
RolloverEnds == pc # "down" /\ day # today ~> day = today \/ pc = "down"

\* The daemon comes up again unless it was killed between two CREATE TABLEs.
StartsAgain == pc = "down" ~> pc = "idle" \/ cur.schema = "partial"

(***************************************************************************)
(* What the storage promises is the specification DayBox: a box for each   *)
(* day, open until the next, then shown, complete and unchanging.  Days in *)
(* `late' are the spoiled ones; what is shown of them is left open.        *)
(***************************************************************************)
ShownDay ==
    IF AvailableDay(yest) \in Days \ late
    THEN [day |-> AvailableDay(yest), rows |-> DomainDetails(yest, AvailableDay(yest))]
    ELSE [day |-> NULL, rows |-> 0]

Box == INSTANCE DayBox WITH
    open <- day, rows <- [d \in Days |-> added[d] - lost[d]], spoiled <- late, shown <- ShownDay

\* Each step of the storage is a step of the day box or changes nothing one can see.
ImplementsDayBox == Box!Spec

\* doc/tlsrpt-collectd.adoc: "The data is pre-aggregated and will be retrieved by
\* matching tlsrpt-fetchers."  Without exceptions for restarts around midnight.
CollectedIsFetchable ==
    pc = "idle" /\ day = today /\ today > 0 /\ added[today - 1] > lost[today - 1] =>
        /\ AvailableDay(yest) = today - 1
        /\ DomainDetails(yest, today - 1) = added[today - 1] - lost[today - 1]
============================================================================

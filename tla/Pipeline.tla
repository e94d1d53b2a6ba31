------------------------------ MODULE Pipeline ------------------------------
(***************************************************************************)
(* One collectd storage and a reportd, composed through the fetcher.       *)
(*                                                                         *)
(* For each list and for each domain's details reportd starts a new        *)
(* tlsrpt-fetcher, which opens <name>.yesterday and prints what it reads.  *)
(* The collectd may roll over at any time: before the fetcher opens the    *)
(* file, while it reads (it keeps the file it opened), or between a list   *)
(* and the details of its domains.  Both daemons read the same clock; the  *)
(* code handles no difference, it only logs one.                           *)
(***************************************************************************)
EXTENDS Integers, FiniteSets, Functions

CONSTANTS
    Domain,         \* the one recipient domain
    Record,         \* its TLSRPT DNS record
    Command,        \* the fetcher reportd is configured with
    CommitEveryN, RetryCount,               \* options of the collectd
    KeepDays, MaxRetriesDomainlist,         \* options of reportd
    NULL

\* Bounds of the environment, not of the code.
CONSTANTS
    MaxDay,             \* the last day the clock reaches
    MaxPolicies,        \* how many policies the datagrams of one day hold
    MaxCrashes,         \* how often one of the two may be killed
    MaxFails            \* how many attempts to commit may fail in a row

VARIABLES
    today,              \* the UTC date, for both
    day, cur, view, yest, uncommitted, cpc, op,             \* the collectd
    ccrashes, fails, added, lost, late,                     \* its history
    db, disk, rpc, todo, answer,                            \* reportd
    rcrashes, history, accepted, copies, excused,   \* its history
    fetcher             \* the fetcher that runs: its job or row and the file it opened

collectdVars == <<day, cur, view, yest, uncommitted, cpc, op, ccrashes, fails, added, lost, late>>
reportdVars == <<db, disk, rpc, todo, answer, rcrashes, history, accepted, copies, excused>>
vars == <<today, collectdVars, reportdVars, fetcher>>

----------------------------------------------------------------------------
(* What reportd gets from the fetcher.                                     *)

\* The details printed for n policies of the domain: none, or n under its record.
Details(n) == [r \in IF n > 0 THEN {Record} ELSE {} |-> n]

C == INSTANCE CollectdStorage WITH
    pc <- cpc, crashes <- ccrashes, FirstDay <- 1

R == INSTANCE Reportd WITH
    pc <- rpc, crashes <- rcrashes,
    Domains <- {Domain}, Records <- {Record}, Dests <- {}, Fetchers <- <<Command>>,
    Ruas <- [r \in {Record} |-> <<>>], UnknownRuas <- {}, RaisingDests <- {},
    UnknownPolicies <- {},
    Payloads <- {Details(n) : n \in 0 .. MaxPolicies},
    FetchersHang <- FALSE, ScriptsHang <- FALSE, MaxRetriesDelivery <- 0

NoFetcher == [row |-> NULL, file |-> C!NoFile]

ASSUME PipelineAssumption ==
    /\ Command \in STRING
    /\ CommitEveryN \in Nat \ {0}
    /\ RetryCount \in Nat \ {0}
    /\ KeepDays \in Nat
    /\ MaxRetriesDomainlist \in Nat
    /\ MaxDay \in Nat \ {0}
    /\ MaxPolicies \in Nat
    /\ MaxCrashes \in Nat
    /\ MaxFails \in Nat
    /\ NULL \notin Int \cup {Details(n) : n \in 0 .. MaxPolicies}
    /\ NULL \notin {"create", "init", "datagram", "timeout", "stop"}
    /\ NULL \notin {"ok", "timedout", "sent", "succeeded", "failed", "late", "unknownrua"}

\* The fetcher ends at once when it finds no database, or an empty one.
Readable(file) == file.schema = "complete"

\* `available_day < day' is the only thing reportd holds against a list.
\* Mutant: the comparison is one day off.
ReadyDayEarly(file, d) == Readable(file) /\ C!AvailableDay(file) >= d - 1

Ready(file, d) == Readable(file) /\ C!AvailableDay(file) >= d

List(file, d) == IF C!DomainDetails(file, d) > 0 THEN {Domain} ELSE {}

----------------------------------------------------------------------------
Init == C!Init /\ R!Init /\ fetcher = NoFetcher

\* reportd starts a fetcher for the job or the row it handles next.
StartFetcher ==
    /\ rpc \in {"collect", "fetch"}
    /\ fetcher = NoFetcher
    /\ \E x \in todo : fetcher' = [row |-> x, file |-> yest]
    /\ UNCHANGED <<today, collectdVars, reportdVars>>

\* A list is read: to its end, in part, or not at all, because the day is not there
\* yet or something went wrong on the way.
ReadList ==
    LET j == fetcher.row
    IN  /\ rpc = "collect"
        /\ fetcher # NoFetcher
        /\ \/ R!CollectFails(j)
           \/ Ready(fetcher.file, j.day) /\ R!CollectTruncated(j)
           \/ Ready(fetcher.file, j.day) /\ R!CollectOk(j, List(fetcher.file, j.day))
        /\ fetcher' = NoFetcher
        /\ UNCHANGED collectdVars

\* Details are read, or not.  The label of the file is not printed with them.
\* Mutant: the fetcher leaves the day out of its query.
ReadDetailsOfAnyDay ==
    LET x == fetcher.row
    IN  /\ rpc = "fetch"
        /\ fetcher # NoFetcher
        /\ \/ R!FetchFails(x)
           \/ /\ Readable(fetcher.file)
              /\ R!FetchOk(x, Details(FoldFunction(+, 0, fetcher.file.rows)))
        /\ fetcher' = NoFetcher
        /\ UNCHANGED collectdVars

ReadDetails ==
    LET x == fetcher.row
    IN  /\ rpc = "fetch"
        /\ fetcher # NoFetcher
        /\ \/ R!FetchFails(x)
           \/ Readable(fetcher.file) /\ R!FetchOk(x, Details(C!DomainDetails(fetcher.file, x.day)))
        /\ fetcher' = NoFetcher
        /\ UNCHANGED collectdVars

\* The steps of reportd that need no fetcher; the one that ran goes with a crash.
\* The record names no valid destination: deliveries do not concern the pipeline.
ReportdAlone ==
    /\ \/ R!CheckDay(today) \/ R!EndCollect \/ R!EndFetch
       \/ R!Create \/ R!EndCreate
       \/ R!EndSend
       \/ R!WakeUp \/ R!Restart \/ R!Shutdown
    /\ UNCHANGED <<collectdVars, fetcher>>

ReportdCrash ==
    /\ R!Crash
    /\ ccrashes + rcrashes < MaxCrashes
    /\ fetcher' = NoFetcher
    /\ UNCHANGED collectdVars

\* The steps of the collectd.
CollectdCalls ==
    /\ C!Start \/ C!Selects \/ C!Receive("stop") \/ C!Rollover \/ C!Resume
    /\ UNCHANGED <<reportdVars, fetcher>>

CollectdCrash ==
    /\ C!Crash
    /\ ccrashes + rcrashes < MaxCrashes
    /\ UNCHANGED <<reportdVars, fetcher>>

\* Midnight, also between the two readings of the clock in check_day.
NextDay ==
    /\ C!NextDay
    /\ R!NextDay \/ R!CheckDay(today + 1)
    /\ UNCHANGED fetcher

Next ==
    \/ StartFetcher \/ ReadList \/ ReadDetails
    \/ ReportdAlone \/ ReportdCrash
    \/ CollectdCalls \/ CollectdCrash
    \/ NextDay

Spec == Init /\ [][Next]_vars

----------------------------------------------------------------------------
(* Properties.                                                             *)

\* What the collectd counted for a day and no crash took back.
Counted(d) == added[d] - lost[d]

\* The numbers that leave the house: a report of a day whose end the collectd was
\* there for names exactly what was counted on that day, and no report ever more
\* than was added - whichever crash, rollover or late fetcher lies between the datagrams
\* and create_report_for.
ReportsAreTrue ==
    \A r \in db.reports \cup disk.reports : \A s \in r.shares :
        /\ s.count <= added[r.day]
        /\ r.day \notin late => s.count = Counted(r.day)

\* An answer that reportd accepts on the day after the one it asked for is the whole
\* truth about a day the collectd closed: a list misses no domain, and details are
\* complete.  The collectd labels its file before it gives it away, reportd compares
\* labels, and this is what the two are for.  (Later answers may be empty: the
\* file has moved on, and reportd does not notice.)
PunctualAnswersAreTrue ==
    [][\A d \in R!Days \ late' : today' = d + 1 =>
        /\ \A j \in db'.jobs \ db.jobs : j.day = d /\ j.status = "ok" =>
              (Counted(d) > 0 <=> R!Rows(db', d, Domain) # {})
        /\ \A x \in db'.data \ db.data : x.day = d /\ x.data # NULL => x.data = Details(Counted(d))]_vars
============================================================================

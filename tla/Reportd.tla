------------------------------ MODULE Reportd ------------------------------
(***************************************************************************)
(* The tlsrpt-reportd daemon: class TLSRPTReportd of tlsrpt.py.            *)
(*                                                                         *)
(* One thread runs the main loop: check_day, collect_domains, fetch_data,  *)
(* create_reports, send_out_reports, sleep.  All state that survives a     *)
(* crash is in one SQLite database.  The model keeps two copies of it:     *)
(* `db' is what the daemon's connection sees, `disk' what the last commit  *)
(* made durable.  A crash throws away the difference.                      *)
(*                                                                         *)
(* Tables are sets of rows.  A time is abstracted to the day, and a        *)
(* `nexttry' to a choice: a row that was tried before may or may not be    *)
(* due when a phase selects its rows.                                      *)
(***************************************************************************)
EXTENDS Integers, Sequences, FiniteSets, Functions

CONSTANTS
    Domains,        \* recipient domains
    Records,        \* TLSRPT DNS records, keys of the detail data
    Dests,          \* report destinations after the destination map
    Fetchers,       \* configured fetchers: a sequence of commands
    Payloads,       \* details one fetcher may return: functions record -> count
    Ruas,           \* record -> sequence of destinations (empty: malformed)
    UnknownRuas,    \* destinations with a scheme send_out_report does not know
    RaisingDests,   \* destinations whose delivery may raise what nobody catches
    UnknownPolicies,        \* details with a policy type render_report does not know
    KeepDays,               \* option keep_days
    MaxRetriesDomainlist,   \* option max_retries_domainlist
    MaxRetriesDelivery,     \* option max_retries_delivery
    FetchersHang,   \* TRUE when a fetcher may keep its pipe open for ever
    ScriptsHang,    \* TRUE when a delivery script may leave its input unread for ever
    NULL            \* SQL NULL

\* Bounds of the environment, not of the code.
CONSTANTS
    MaxDay,         \* the last day the clock reaches
    MaxCrashes      \* how often the process may be killed

ASSUME ReportdAssumption ==
    /\ IsFiniteSet(Records)
    /\ Fetchers \in Seq(STRING)
    /\ \A p \in Payloads : DOMAIN p \subseteq Records /\ p \in [DOMAIN p -> Nat]
    /\ Ruas \in [Records -> Seq(Dests)]
    /\ UnknownRuas \subseteq Dests
    /\ RaisingDests \subseteq Dests
    /\ UnknownPolicies \subseteq Payloads
    /\ KeepDays \in Nat
    /\ MaxRetriesDomainlist \in Nat
    /\ MaxRetriesDelivery \in Nat
    /\ FetchersHang \in BOOLEAN
    /\ ScriptsHang \in BOOLEAN
    /\ MaxDay \in Nat \ {0}
    /\ MaxCrashes \in Nat
    /\ NULL \notin Payloads
    /\ NULL \notin {"ok", "timedout", "sent", "succeeded", "failed", "late", "unknownrua"}

VARIABLES
    today,      \* the UTC date, as a number of days
    db,         \* the database as the daemon's connection sees it
    disk,       \* the database as of the last commit
    pc,         \* the step of run_loop the daemon is in
    todo,       \* rows of the phase's SELECT that are still to be processed
    answer,     \* outcome of a delivery script not recorded in the database yet
    \* History variables: they record what happened and guard nothing.
    crashes,    \* number of crashes so far
    history,    \* <<day, domain>> for which a report was ever created
    accepted,   \* <<day, domain, fetcher>> of every list read to its end
    copies,     \* reports handed over, per <<day, domain, record, destination>>
    excused     \* hand-overs the daemon could not know of, per the same key

dbVars == <<db, disk>>
histVars == <<history, accepted, copies, excused>>
vars == <<today, db, disk, pc, todo, answer, crashes, histVars>>

----------------------------------------------------------------------------
(* The database.                                                           *)

\* The days that can have rows: reports are about yesterday.
Days == 0 .. MaxDay - 1
Key == Days \X Domains \X Records \X Dests
Commands == Range(Fetchers)

EmptyDb == [jobs |-> {}, data |-> {}, reports |-> {}, dests |-> {}]

NoAnswer == [row |-> NULL, outcome |-> NULL]

Pending(rows) == {x \in rows : x.status = NULL}
PendingDays(D) == {j.day : j \in Pending(D.jobs)}

\* Rows of reportdata for a domain on a day; `data' is NULL until it is fetched,
\* and `status' becomes 'fetched' in the same UPDATE, so one column stands for both.
Rows(D, day, dom) == {x \in D.data : x.day = day /\ x.domain = dom}
Fetched(D, day, dom) == {x \in Rows(D, day, dom) : x.data # NULL}
HasReport(D, day, dom) == \E r \in D.reports : r.day = day /\ r.domain = dom

\* A row is kept while julianday(now) - julianday(day) <= keep_days.  Any instant of
\* day `now' after its midnight is more than now - day days after the row's day began.
Kept(day, now) == now - day < KeepDays

\* Mutant: the destinations are forgotten, as if SQLite enforced the foreign key.
CleanUpKeepsDests(D, now) ==
    [jobs    |-> {j \in D.jobs : Kept(j.day, now)},
     data    |-> {x \in D.data : Kept(x.day, now)},
     dests   |-> D.dests,
     reports |-> {r \in D.reports : Kept(r.day, now)}]

\* Mutant: reports go a day before the data they were made from.
CleanUpReportsEarly(D, now) ==
    [jobs    |-> {j \in D.jobs : Kept(j.day, now)},
     data    |-> {x \in D.data : Kept(x.day, now)},
     dests   |-> {},
     reports |-> {r \in D.reports : Kept(r.day, now + 1)}]

\* Mutant: reportdata goes a day before the jobs it was listed by.
CleanUpDataEarly(D, now) ==
    [jobs    |-> {j \in D.jobs : Kept(j.day, now)},
     data    |-> {x \in D.data : Kept(x.day, now + 1)},
     dests   |-> {},
     reports |-> {r \in D.reports : Kept(r.day, now)}]

CleanUp(D, now) ==
    [jobs    |-> {j \in D.jobs : Kept(j.day, now)},
     data    |-> {x \in D.data : Kept(x.day, now)},
     dests   |-> {x \in D.dests :
                    x.rid \notin {r.rid : r \in {s \in D.reports : ~Kept(s.day, now)}}},
     reports |-> {r \in D.reports : Kept(r.day, now)}]

\* Mutant: the index is not counted up before its first use.
NewJobsFromZero(day) ==
    {[day |-> day, idx |-> i - 1, retries |-> 0, status |-> NULL] : i \in DOMAIN Fetchers}

NewJobs(day) ==
    {[day |-> day, idx |-> i, retries |-> 0, status |-> NULL] : i \in DOMAIN Fetchers}

\* Mutant: the primary key is (day, domain, fetcherindex).
NewRowsByIndex(D, j, list) ==
    {[day |-> j.day, domain |-> dom, fetcher |-> Fetchers[j.idx], idx |-> j.idx, data |-> NULL] :
        dom \in {m \in list : \A x \in Rows(D, j.day, m) : x.idx # j.idx}}

\* An INSERT that meets the primary key (day, domain, fetcher) is swallowed.
NewRows(D, j, list) ==
    {[day |-> j.day, domain |-> dom, fetcher |-> Fetchers[j.idx], idx |-> j.idx, data |-> NULL] :
        dom \in {m \in list : \A x \in Rows(D, j.day, m) : x.fetcher # Fetchers[j.idx]}}

\* Mutant: the retry is scheduled but not counted.
RetryUncounted(row, max) == row

RetryOrTimeout(row, max) ==
    IF row.retries < max THEN [row EXCEPT !.retries = @ + 1]
                         ELSE [row EXCEPT !.status = "timedout"]

Replace(rows, old, new) == (rows \ {old}) \cup {new}

\* What a SELECT ... WHERE status IS NULL AND nexttry < now may return: every row
\* of `surely', and any of the other pending rows.
Due(rows, surely) == {S \in SUBSET Pending(rows) : surely \cap Pending(rows) \subseteq S}

----------------------------------------------------------------------------
Init ==
    /\ today = 1
    /\ db = EmptyDb
    /\ disk = EmptyDb
    /\ pc = "check"
    /\ todo = {}
    /\ answer = NoAnswer
    /\ crashes = 0
    /\ history = {}
    /\ accepted = {}
    /\ copies = [k \in Key |-> 0]
    /\ excused = [k \in Key |-> 0]

(***************************************************************************)
(* check_day reads the clock twice: `yesterday' first, then `now' for the  *)
(* clean-up, so midnight may pass between the two.                         *)
(***************************************************************************)
SelectJobs(D) ==
    \E due \in Due(D.jobs, {j \in D.jobs : j.retries = 0}) : todo' = due

CheckDay(now) ==
    LET yesterday == today - 1
        D == CleanUp(db, now)
    IN  /\ pc = "check"
        /\ now <= MaxDay
        /\ today' = now
        /\ \/ /\ \E j \in D.jobs : j.day = yesterday
              /\ db' = D
              /\ disk' = disk
           \/ /\ \A j \in D.jobs : j.day # yesterday
              /\ db' = [D EXCEPT !.jobs = @ \cup NewJobs(yesterday)]
              /\ disk' = db'
        /\ SelectJobs(db')
        /\ pc' = "collect"
        /\ UNCHANGED <<answer, crashes, histVars>>

(***************************************************************************)
(* collect_domains.  collect_domains_from commits when it has read the     *)
(* list or undone a partial one; the UPDATE of the job that follows is     *)
(* durable only with the next commit.                                      *)
(***************************************************************************)
Collecting(j) == pc = "collect" /\ j \in todo

\* The fetcher did not start, speaks another protocol or has not completed the day.
CollectFails(j) ==
    /\ Collecting(j)
    /\ todo' = todo \ {j}
    /\ db' = [db EXCEPT !.jobs = Replace(@, j, RetryOrTimeout(j, MaxRetriesDomainlist))]
    /\ UNCHANGED <<today, disk, pc, answer, crashes, histVars>>

\* Mutant: the rows read so far are released instead of rolled back.
CollectTruncatedKeeps(j) ==
    \E part \in SUBSET Domains :
        /\ Collecting(j)
        /\ todo' = todo \ {j}
        /\ disk' = [db EXCEPT !.data = @ \cup NewRows(db, j, part)]
        /\ db' = [disk' EXCEPT !.jobs = Replace(@, j, RetryOrTimeout(j, MaxRetriesDomainlist))]
        /\ UNCHANGED <<today, pc, answer, crashes, histVars>>

\* The list ended without its dot: back to the savepoint, and commit.
CollectTruncated(j) ==
    /\ Collecting(j)
    /\ todo' = todo \ {j}
    /\ disk' = db
    /\ db' = [db EXCEPT !.jobs = Replace(@, j, RetryOrTimeout(j, MaxRetriesDomainlist))]
    /\ UNCHANGED <<today, pc, answer, crashes, histVars>>

CollectOk(j, list) ==
    LET D == [db EXCEPT !.data = @ \cup NewRows(db, j, list)]
    IN  /\ Collecting(j)
        /\ todo' = todo \ {j}
        /\ disk' = D
        /\ db' = [D EXCEPT !.jobs = Replace(@, j, [j EXCEPT !.status = "ok"])]
        /\ accepted' = accepted \cup {<<j.day, dom, Fetchers[j.idx]>> : dom \in list}
        /\ UNCHANGED <<today, pc, answer, crashes, history, copies, excused>>

\* The commit at the end of collect_domains, and the SELECT of fetch_data.
\* Mutant: days whose lists are still being collected are not left out.
FetchableAnyDay(D) == {x \in D.data : x.data = NULL}

\* Mutant: `data IS NULL' is left out.
FetchableAgain(D) == {x \in D.data : x.day \notin PendingDays(D)}

\* Mutant: a fetcher that timed out holds the day back.
FetchableAllOk(D) ==
    {x \in D.data : x.data = NULL /\ \A j \in D.jobs : j.day = x.day => j.status = "ok"}

Fetchable(D) == {x \in D.data : x.data = NULL /\ x.day \notin PendingDays(D)}

EndCollect ==
    /\ pc = "collect"
    /\ todo = {}
    /\ disk' = db
    /\ pc' = "fetch"
    /\ todo' = Fetchable(db)
    /\ UNCHANGED <<today, db, answer, crashes, histVars>>

(***************************************************************************)
(* fetch_data: one commit per row.  A failure changes nothing: the row is  *)
(* asked for again by the next loop, for as long as it is kept.            *)
(***************************************************************************)
FetchOk(x, payload) ==
    /\ pc = "fetch"
    /\ x \in todo
    /\ todo' = todo \ {x}
    /\ db' = [db EXCEPT !.data = Replace(@, x, [x EXCEPT !.data = payload])]
    /\ disk' = db'
    /\ UNCHANGED <<today, pc, answer, crashes, histVars>>

FetchFails(x) ==
    /\ pc = "fetch"
    /\ x \in todo
    /\ todo' = todo \ {x}
    /\ UNCHANGED <<today, dbVars, pc, answer, crashes, histVars>>

\* A fetcher that neither answers nor closes its pipe; no timeout guards the read.
FetcherHangs ==
    /\ FetchersHang
    /\ pc \in {"collect", "fetch"}
    /\ todo # {}
    /\ pc' = "hung"
    /\ UNCHANGED <<today, dbVars, todo, answer, crashes, histVars>>

\* The SELECT of create_reports: something fetched, nothing outstanding, no report yet.
\* Mutant: one fetcher's details are enough.
ReportableEarly(D) ==
    {p \in {<<x.day, x.domain>> : x \in D.data} :
        Fetched(D, p[1], p[2]) # {} /\ ~HasReport(D, p[1], p[2])}

Reportable(D) ==
    {p \in {<<x.day, x.domain>> : x \in D.data} :
        /\ Fetched(D, p[1], p[2]) # {}
        /\ Fetched(D, p[1], p[2]) = Rows(D, p[1], p[2])
        /\ ~HasReport(D, p[1], p[2])}

EndFetch ==
    /\ pc = "fetch"
    /\ todo = {}
    /\ pc' = "create"
    /\ todo' = Reportable(db)
    /\ UNCHANGED <<today, dbVars, answer, crashes, histVars>>

(***************************************************************************)
(* create_report_for: all reports of a domain and their destinations in    *)
(* one transaction.  A number of the aggregated report is a sum over rows; *)
(* the model keeps the summands, each with the row it comes from: two rows *)
(* of one fetcher are two shares.  render_report does not store the        *)
(* record, `record' is history.                                            *)
(***************************************************************************)
RecordsOf(D, day, dom) == UNION {DOMAIN x.data : x \in Fetched(D, day, dom)}

Shares(D, day, dom, rec) ==
    {[fetcher |-> x.fetcher, idx |-> x.idx, count |-> x.data[rec]] :
        x \in {y \in Fetched(D, day, dom) : rec \in DOMAIN y.data}}

\* Mutant: the reports are counted once, before the first is stored.
NewReportsSameId(D, day, dom, num, last) ==
    {[rid |-> last + num[rec], day |-> day, domain |-> dom, uniqid |-> 1,
      record |-> rec, shares |-> Shares(D, day, dom, rec)] : rec \in DOMAIN num}

\* num orders the records; last is the largest r_id in the table, 0 if there is none.
NewReports(D, day, dom, num, last) ==
    LET count == Cardinality({r \in D.reports : r.day = day /\ r.domain = dom})
    IN  {[rid |-> last + num[rec], day |-> day, domain |-> dom, uniqid |-> count + num[rec],
          record |-> rec, shares |-> Shares(D, day, dom, rec)] : rec \in DOMAIN num}

NewDests(num, last) ==
    UNION {{[dest |-> d, rid |-> last + num[rec], retries |-> 0, status |-> NULL] :
                d \in Range(Ruas[rec])} : rec \in DOMAIN num}

\* No exception ends the reports of the domain: every policy type has a name, and no
\* record names a destination twice, which the primary key of destinations forbids.
Renderable(D, day, dom) ==
    /\ \A x \in Fetched(D, day, dom) : x.data \notin UnknownPolicies
    /\ \A rec \in RecordsOf(D, day, dom) : IsInjective(Ruas[rec])

CreateReportFor(day, dom) ==
    LET recs == RecordsOf(db, day, dom)
    IN  /\ pc = "create"
        /\ <<day, dom>> \in todo
        /\ Renderable(db, day, dom)
        /\ todo' = todo \ {<<day, dom>>}
        /\ \E num \in Bijection(recs, 1 .. Cardinality(recs)),
              last \in {0} \cup {r.rid : r \in db.reports} :
                /\ \A r \in db.reports : r.rid <= last
                /\ db' = [db EXCEPT !.reports = @ \cup NewReports(db, day, dom, num, last),
                                    !.dests = @ \cup NewDests(num, last)]
        /\ disk' = db'
        /\ history' = IF recs = {} THEN history ELSE history \cup {<<day, dom>>}
        /\ UNCHANGED <<today, pc, answer, crashes, accepted, copies, excused>>

\* The KeyError of an unknown policy type, the IntegrityError of a destination named
\* twice: nothing catches them and the process ends.
CreateReportDies(day, dom) ==
    /\ pc = "create"
    /\ <<day, dom>> \in todo
    /\ ~Renderable(db, day, dom)
    /\ pc' = "down"
    /\ todo' = {}
    /\ db' = disk
    /\ UNCHANGED <<today, disk, answer, crashes, histVars>>

\* The delivery times are spread out at random: any pending row may be due.
EndCreate ==
    /\ pc = "create"
    /\ todo = {}
    /\ pc' = "send"
    /\ \E due \in Due(db.dests, {}) : todo' = due
    /\ UNCHANGED <<today, dbVars, answer, crashes, histVars>>

(***************************************************************************)
(* send_out_reports: the hand-over and the UPDATE that records it are two  *)
(* steps.  A script that runs into its timeout is left running: its report *)
(* may still arrive, and the daemon counts a failure.                      *)
(***************************************************************************)
KeysOf(x) ==
    {<<r.day, r.domain, r.record, x.dest>> : r \in {s \in db.reports : s.rid = x.rid}}

Bump(f, keys) == [k \in DOMAIN f |-> IF k \in keys THEN f[k] + 1 ELSE f[k]]

Deliver(x, outcome) ==
    /\ pc = "send"
    /\ answer = NoAnswer
    /\ x \in todo
    /\ todo' = todo \ {x}
    /\ \/ outcome = "unknownrua" /\ x.dest \in UnknownRuas
       \/ outcome \in {"succeeded", "failed", "late"} /\ x.dest \notin UnknownRuas
    /\ answer' = [row |-> x, outcome |-> outcome]
    /\ copies' = IF outcome \in {"succeeded", "late"} THEN Bump(copies, KeysOf(x)) ELSE copies
    /\ excused' = IF outcome = "late" THEN Bump(excused, KeysOf(x)) ELSE excused
    /\ UNCHANGED <<today, dbVars, pc, crashes, history, accepted>>

\* A directory that cannot be written, an address the mail library refuses before the
\* script is called: nothing catches the exception, and nothing counts the attempt.
DeliverDies(x) ==
    /\ pc = "send"
    /\ answer = NoAnswer
    /\ x \in todo
    /\ x.dest \in RaisingDests
    /\ pc' = "down"
    /\ todo' = {}
    /\ db' = disk
    /\ UNCHANGED <<today, disk, answer, crashes, histVars>>

\* The report is written to the script's input before its timeout is armed: a script
\* that reads less than the pipe cannot hold blocks the daemon.
ScriptHangs ==
    /\ ScriptsHang
    /\ pc = "send"
    /\ answer = NoAnswer
    /\ \E x \in todo : x.dest \notin UnknownRuas
    /\ pc' = "hung"
    /\ UNCHANGED <<today, dbVars, todo, answer, crashes, histVars>>

\* Mutant: an unknown scheme is passed over and its row left as it is.
RecordedKnown(x, outcome) ==
    CASE outcome = "succeeded"  -> [x EXCEPT !.status = "sent"]
      [] outcome = "unknownrua" -> x
      [] OTHER                  -> RetryOrTimeout(x, MaxRetriesDelivery)

Recorded(x, outcome) ==
    CASE outcome = "succeeded"  -> [x EXCEPT !.status = "sent"]
      [] outcome = "unknownrua" -> [x EXCEPT !.status = "unknownrua"]
      [] OTHER                  -> RetryOrTimeout(x, MaxRetriesDelivery)

\* Mutant: the commit is left to the next phase.
RecordDeliveryLater ==
    LET x == answer.row
    IN  /\ answer # NoAnswer
        /\ db' = [db EXCEPT !.dests = Replace(@, x, Recorded(x, answer.outcome))]
        /\ disk' = disk
        /\ answer' = NoAnswer
        /\ UNCHANGED <<today, pc, todo, crashes, histVars>>

RecordDelivery ==
    LET x == answer.row
    IN  /\ answer # NoAnswer
        /\ db' = [db EXCEPT !.dests = Replace(@, x, Recorded(x, answer.outcome))]
        /\ disk' = db'
        /\ answer' = NoAnswer
        /\ UNCHANGED <<today, pc, todo, crashes, histVars>>

EndSend ==
    /\ pc = "send"
    /\ answer = NoAnswer
    /\ todo = {}
    /\ pc' = "sleep"
    /\ UNCHANGED <<today, dbVars, todo, answer, crashes, histVars>>

WakeUp ==
    /\ pc = "sleep"
    /\ pc' = "check"
    /\ UNCHANGED <<today, dbVars, todo, answer, crashes, histVars>>

(***************************************************************************)
(* The environment: signals, crashes, restarts and the clock.              *)
(***************************************************************************)
\* A signal is only looked at while the loop sleeps.
Shutdown ==
    /\ pc = "sleep"
    /\ pc' = "down"
    /\ disk' = db
    /\ UNCHANGED <<today, db, todo, answer, crashes, histVars>>

\* Killed, or ended by an exception nobody catches, anywhere in the loop.
Crash ==
    /\ pc # "down"
    /\ crashes < MaxCrashes
    /\ crashes' = crashes + 1
    /\ pc' = "down"
    /\ db' = disk
    /\ todo' = {}
    /\ answer' = NoAnswer
    /\ excused' = IF answer.outcome = "succeeded" THEN Bump(excused, KeysOf(answer.row)) ELSE excused
    /\ UNCHANGED <<today, disk, history, accepted, copies>>

Restart ==
    /\ pc = "down"
    /\ pc' = "check"
    /\ UNCHANGED <<today, dbVars, todo, answer, crashes, histVars>>

NextDay ==
    /\ today < MaxDay
    /\ today' = today + 1
    /\ UNCHANGED <<dbVars, pc, todo, answer, crashes, histVars>>

----------------------------------------------------------------------------
Collect == \E j \in todo :
    \/ CollectFails(j)
    \/ CollectTruncated(j)
    \/ \E list \in SUBSET Domains : CollectOk(j, list)

Fetch == \E x \in todo :
    \/ FetchFails(x)
    \/ \E payload \in Payloads : FetchOk(x, payload)

Create == \E day \in Days, dom \in Domains :
    CreateReportFor(day, dom) \/ CreateReportDies(day, dom)

Send == \E x \in todo :
    \/ \E outcome \in {"succeeded", "failed", "late", "unknownrua"} : Deliver(x, outcome)
    \/ DeliverDies(x)

\* Every step the daemon takes by itself while its fetchers and scripts do not block it.
Step ==
    \/ \E now \in {today, today + 1} : CheckDay(now)
    \/ Collect \/ EndCollect
    \/ Fetch \/ EndFetch
    \/ Create \/ EndCreate
    \/ Send \/ RecordDelivery \/ EndSend
    \/ WakeUp
    \/ Restart

Next == Step \/ FetcherHangs \/ ScriptHangs \/ Shutdown \/ Crash \/ NextDay

Spec == Init /\ [][Next]_vars
----------------------------------------------------------------------------
(* Fairness.  While no fetcher and no script blocks it (then the step to   *)
(* `hung' was taken) the loop goes on: timers end, and the service manager *)
(* restarts a process that ended.  A retry is put off by a bounded random  *)
(* wait and the loop wakes at least every 300 seconds, so a row that stays *)
(* pending is selected again and again, if the loop gets that far.         *)

SelectsJob(day, i) ==
    /\ \E now \in {today, today + 1} : CheckDay(now)
    /\ \E j \in todo' : j.day = day /\ j.idx = i

SelectsDest(dest, day, dom) ==
    /\ EndCreate
    /\ \E x \in todo' : x.dest = dest /\ \E k \in KeysOf(x) : k[1] = day /\ k[2] = dom

LoopFairness ==
    /\ WF_vars(Step)
    /\ \A day \in Days, i \in DOMAIN Fetchers : SF_vars(SelectsJob(day, i))
    /\ \A dest \in Dests, day \in Days, dom \in Domains : SF_vars(SelectsDest(dest, day, dom))

FairSpec == Spec /\ LoopFairness

\* A fetcher that is asked again and again answers in the end.  The code gives no
\* such guarantee: it is an assumption about the fetchers.
FetchAnswered(day, dom, cmd) ==
    \E x \in todo, payload \in Payloads :
        /\ FetchOk(x, payload)
        /\ x.day = day /\ x.domain = dom /\ x.fetcher = cmd

AnsweringFetchers ==
    \A day \in Days, dom \in Domains, cmd \in Commands : SF_vars(FetchAnswered(day, dom, cmd))

AnsweredSpec == FairSpec /\ AnsweringFetchers

----------------------------------------------------------------------------
(* Properties.                                                             *)

JobRow == [day : Days, idx : DOMAIN Fetchers, retries : Nat, status : {NULL, "ok", "timedout"}]

DataRow == [day : Days, domain : Domains, fetcher : Commands, idx : DOMAIN Fetchers,
            data : Payloads \cup {NULL}]

ReportRow == [rid : Nat, day : Days, domain : Domains, uniqid : Nat, record : Records,
              shares : SUBSET [fetcher : Commands, idx : DOMAIN Fetchers, count : Nat]]

DestRow == [dest : Dests, rid : Nat, retries : Nat,
            status : {NULL, "sent", "timedout", "unknownrua"}]

Database == [jobs : SUBSET JobRow, data : SUBSET DataRow,
             reports : SUBSET ReportRow, dests : SUBSET DestRow]

\* Every variable has its type; what `todo' holds depends on the phase.
TypeOK ==
    /\ today \in 1 .. MaxDay
    /\ db \in Database
    /\ disk \in Database
    /\ pc \in {"check", "collect", "fetch", "create", "send", "sleep", "hung", "down"}
    /\ pc = "collect" => todo \subseteq JobRow
    /\ pc = "fetch" => todo \subseteq DataRow
    /\ pc = "create" => todo \subseteq Days \X Domains
    /\ pc = "send" => todo \subseteq DestRow
    /\ \/ answer = NoAnswer
       \/ answer \in [row : DestRow, outcome : {"succeeded", "failed", "late", "unknownrua"}]
    /\ crashes \in 0 .. MaxCrashes
    /\ history \subseteq Days \X Domains
    /\ accepted \subseteq Days \X Domains \X Commands
    /\ copies \in [Key -> Nat]
    /\ excused \in [Key -> Nat]

\* A report exists only for a day whose fetch jobs are all finished, and only when
\* no fetcher's details for its domain are outstanding: create_reports never runs
\* ahead of collect_domains and fetch_data, not even across a crash.
ReportsComplete(D) ==
    \A r \in D.reports :
        /\ r.day \notin PendingDays(D)
        /\ \A x \in Rows(D, r.day, r.domain) : x.data # NULL

NoReportBeforeData == ReportsComplete(db) /\ ReportsComplete(disk)

\* The reports of a domain and day account for all that the fetchers delivered for
\* it: each record has one report, whose numbers add up one share of every command
\* that has details for the record.  A row that arrives after the report, a command
\* listed twice whose rows are both added, a share of another record, a second report
\* of a record would break it.
SharesExact(D) ==
    \A r \in D.reports :
        LET delivered == {x \in Fetched(D, r.day, r.domain) : r.record \in DOMAIN x.data}
            siblings == {q \in D.reports : q.day = r.day /\ q.domain = r.domain}
        IN  /\ \A x \in delivered :
                 \E s \in r.shares : s.fetcher = x.fetcher /\ s.count = x.data[r.record]
            /\ \A s \in r.shares : \E x \in delivered : s.fetcher = x.fetcher
            /\ \A s, t \in r.shares : s.fetcher = t.fetcher => s = t
            /\ \A q \in siblings : q.record = r.record => q = r
            /\ \A rec \in RecordsOf(D, r.day, r.domain) : \E q \in siblings : q.record = rec

ReportsAccountForData == SharesExact(db) /\ SharesExact(disk)

\* Row ids and report ids identify a report, and every destination belongs to a
\* report: create_report_for and db_clean_up keep the two tables together although
\* SQLite does not enforce the foreign key and reuses row ids.
ReportIds(D) ==
    /\ \A r, q \in D.reports :
          r.rid = q.rid \/ <<r.day, r.domain, r.uniqid>> = <<q.day, q.domain, q.uniqid>> => r = q
    /\ \A x \in D.dests : \E r \in D.reports : r.rid = x.rid

ReportIdsUnique == ReportIds(db) /\ ReportIds(disk)

\* For every job still in the database the stored rows are exactly the domains of
\* the lists that were read to their end: a truncated list leaves nothing behind, a
\* list read again after a crash adds nothing twice.
ListsAreAtomic ==
    \A j \in disk.jobs, dom \in Domains :
        LET cmd == Fetchers[j.idx]
            rows == {x \in Rows(disk, j.day, dom) : x.fetcher = cmd}
        IN  /\ rows # {} <=> <<j.day, dom, cmd>> \in accepted
            /\ Cardinality(rows) <= 1

\* Details that were stored are never fetched again nor replaced while their row
\* exists: an answer costs the fetcher once, and a report cannot go stale.
FetchedIsFinal ==
    [][\A x \in disk.data : x.data # NULL =>
        \/ x \in disk'.data
        \/ ~ \E y \in disk'.data : y.day = x.day /\ y.domain = x.domain /\ y.fetcher = x.fetcher]_vars

\* No domain is reported twice for the same day, whatever crashes and however long
\* the daemon runs: the clean-up never deletes a day that check_day would set up again.
ReportedOnce ==
    [][\A r \in disk'.reports \ disk.reports : <<r.day, r.domain>> \notin history]_vars

\* A destination receives a report a second time only if the daemon could not know
\* of the first: a script that outlived its timeout or a crash before the UPDATE.
\* A destination marked `sent' did receive it.
DeliveriesAccountedFor ==
    /\ \A k \in Key : copies[k] <= 1 + excused[k]
    /\ \A x \in disk.dests, r \in disk.reports :
          x.status = "sent" /\ x.rid = r.rid => copies[<<r.day, r.domain, r.record, x.dest>>] > 0

\* Every fetch job ends as `ok' or `timedout'.
JobPending(day, i) == \E j \in Pending(db.jobs) : j.day = day /\ j.idx = i
JobsEnd == \A day \in Days, i \in DOMAIN Fetchers : JobPending(day, i) ~> ~JobPending(day, i)

\* Every destination ends as `sent', `timedout' or `unknownrua' - unless deliveries
\* that raise end the process again and again, which no retry count stops.
DestPending(k) == \E x \in Pending(db.dests) : k \in KeysOf(x)
DeliveriesEnd ==
    \/ []<><<\E x \in todo : DeliverDies(x)>>_vars
    \/ \A k \in Key : DestPending(k) ~> ~DestPending(k)

\* A domain some fetcher listed is reported (unless its details name no record) or
\* is removed with its day.
Listed(day, dom) == Rows(db, day, dom) # {}
Settled(day, dom) ==
    /\ \A x \in Rows(db, day, dom) : x.data # NULL
    /\ RecordsOf(db, day, dom) # {} => HasReport(db, day, dom)
EventuallyReported == \A day \in Days, dom \in Domains : Listed(day, dom) ~> Settled(day, dom)

\* create_reports: "Create all reports possible, i.e. where no data is pending."  A
\* domain is reported whose own details raise no exception.
AllPossibleReports ==
    \A day \in Days, dom \in Domains :
        Listed(day, dom) ~> (Settled(day, dom) \/ ~Renderable(db, day, dom))
============================================================================

--------------------------- MODULE ReportdProofs ---------------------------
(***************************************************************************)
(* Proofs about Reportd, for every value of its constants.                 *)
(*                                                                         *)
(* The argument: a day's fetch jobs, rows and reports appear and vanish    *)
(* together.  As long as one job of a day is pending, no row of the day    *)
(* has details (fetch_data skips the day), so it has no report either.     *)
(* This holds of the connection's view and of the committed one, so a      *)
(* crash, which replaces the first by the second, cannot break it.         *)
(***************************************************************************)
EXTENDS Reportd, FiniteSetTheorems, TLAPS

\* A row has details only when all jobs of its day are finished.
FetchedAfterJobs(D) ==
    \A x \in D.data : x.data # NULL => x.day \notin PendingDays(D)

\* Rows and reports exist only for days that have jobs.
DaysHaveJobs(D) ==
    /\ \A x \in D.data : \E j \in D.jobs : j.day = x.day
    /\ \A r \in D.reports : \E j \in D.jobs : j.day = r.day

\* The reports are what create_report_for makes of the rows of their domain.
SharesHeld(D) ==
    \A r \in D.reports :
        /\ r.shares = Shares(D, r.day, r.domain, r.record)
        /\ \A rec \in RecordsOf(D, r.day, r.domain) :
             \E q \in D.reports : q.day = r.day /\ q.domain = r.domain /\ q.record = rec

\* One row for a command and a domain, one report for a record.
OneEach(D) ==
    /\ \A x, y \in D.data :
          x.day = y.day /\ x.domain = y.domain /\ x.fetcher = y.fetcher => x = y
    /\ \A r, q \in D.reports :
          r.day = q.day /\ r.domain = q.domain /\ r.record = q.record => r = q

Consistent(D) ==
    /\ D \in Database
    /\ FetchedAfterJobs(D)
    /\ DaysHaveJobs(D)
    /\ ReportsComplete(D)
    /\ SharesHeld(D)
    /\ OneEach(D)
    /\ ReportIds(D)

\* What `todo' still guarantees when a row of it is processed.
PhaseInv ==
    /\ pc = "collect" => todo \subseteq Pending(db.jobs)
    /\ pc = "fetch" => todo \subseteq Fetchable(db)
    /\ pc = "create" => todo \subseteq Reportable(db)
    /\ pc \in {"fetch", "create", "send", "sleep"} => db = disk
    /\ pc = "send" => todo \subseteq Pending(db.dests)
    /\ answer # NoAnswer => pc = "send" /\ answer.row \in Pending(db.dests) \ todo

Inv ==
    /\ TypeOK
    /\ Consistent(db)
    /\ Consistent(disk)
    /\ PhaseInv

----------------------------------------------------------------------------
(* The operations on the database keep it consistent.                      *)

\* Where there is one row for a command and one report for a record, a report made of
\* the rows of its domain accounts for them.
LEMMA HeldIsExact ==
    ASSUME NEW D, SharesHeld(D), OneEach(D)
    PROVE  SharesExact(D)
<1> SUFFICES ASSUME NEW r \in D.reports
    PROVE  LET delivered == {x \in Fetched(D, r.day, r.domain) : r.record \in DOMAIN x.data}
               siblings == {q \in D.reports : q.day = r.day /\ q.domain = r.domain}
           IN  /\ \A x \in delivered :
                    \E s \in r.shares : s.fetcher = x.fetcher /\ s.count = x.data[r.record]
               /\ \A s \in r.shares : \E x \in delivered : s.fetcher = x.fetcher
               /\ \A s, t \in r.shares : s.fetcher = t.fetcher => s = t
               /\ \A q \in siblings : q.record = r.record => q = r
               /\ \A rec \in RecordsOf(D, r.day, r.domain) : \E q \in siblings : q.record = rec
  BY Zenon DEF SharesExact
<1> DEFINE delivered == {x \in Fetched(D, r.day, r.domain) : r.record \in DOMAIN x.data}
           siblings == {q \in D.reports : q.day = r.day /\ q.domain = r.domain}
           share(x) == [fetcher |-> x.fetcher, idx |-> x.idx, count |-> x.data[r.record]]
<1>1. r.shares = {share(x) : x \in delivered}
  BY DEF SharesHeld, Shares
<1>2. \A x, y \in delivered : x.fetcher = y.fetcher => x = y
  BY DEF Fetched, Rows, OneEach
<1>3. /\ \A q \in siblings : q.record = r.record => q = r
      /\ \A rec \in RecordsOf(D, r.day, r.domain) : \E q \in siblings : q.record = rec
  BY DEF SharesHeld, OneEach
<1> HIDE DEF delivered, siblings
<1>4. /\ \A x \in delivered : share(x) \in r.shares
      /\ \A s \in r.shares : \E x \in delivered : s = share(x)
  BY <1>1
<1>5. \A x \in delivered :
        \E s \in r.shares : s.fetcher = x.fetcher /\ s.count = x.data[r.record]
  BY <1>4
<1>6. \A s \in r.shares : \E x \in delivered : s.fetcher = x.fetcher
  BY <1>4
<1>7. \A s, t \in r.shares : s.fetcher = t.fetcher => s = t
  BY <1>2, <1>4
<1> QED BY <1>3, <1>5, <1>6, <1>7 DEF delivered, siblings


\* What is reported for a domain depends on the rows of the domain only.
LEMMA SameRowsSameReport ==
    ASSUME NEW C, NEW D, NEW day, NEW dom, Rows(C, day, dom) = Rows(D, day, dom)
    PROVE  /\ RecordsOf(C, day, dom) = RecordsOf(D, day, dom)
           /\ \A rec : Shares(C, day, dom, rec) = Shares(D, day, dom, rec)
BY DEF RecordsOf, Shares, Fetched

\* The reports stay exact while the rows of their domains do not change.
LEMMA SameRowsSharesHeld ==
    ASSUME NEW C, NEW D, SharesHeld(D), C.reports = D.reports,
           \A r \in D.reports : Rows(C, r.day, r.domain) = Rows(D, r.day, r.domain)
    PROVE  SharesHeld(C)
BY SameRowsSameReport DEF SharesHeld

\* Deleting old days leaves whole days.
LEMMA CleanUpConsistent ==
    ASSUME NEW D, Consistent(D), NEW now \in Int
    PROVE  Consistent(CleanUp(D, now))
<1> DEFINE C == CleanUp(D, now)
<1> USE DEF Consistent
<1>1. C \in Database
  BY DEF CleanUp, Database
<1>2. /\ C.jobs \subseteq D.jobs
      /\ C.data \subseteq D.data
      /\ C.reports \subseteq D.reports
      /\ C.dests \subseteq D.dests
      /\ \A x \in D.data : Kept(x.day, now) => x \in C.data
      /\ \A j \in D.jobs : Kept(j.day, now) => j \in C.jobs
      /\ \A x \in C.data : Kept(x.day, now)
      /\ \A r \in C.reports : Kept(r.day, now)
      /\ \A r \in D.reports : Kept(r.day, now) => r \in C.reports
      /\ \A x \in C.dests : \A r \in D.reports : r.rid = x.rid => Kept(r.day, now)
  BY DEF CleanUp
<1>3. PendingDays(C) \subseteq PendingDays(D)
  BY <1>2 DEF PendingDays, Pending
<1>4. ASSUME NEW day, NEW dom, Kept(day, now)
      PROVE  Rows(C, day, dom) = Rows(D, day, dom)
  BY <1>2, <1>4 DEF Rows
<1>5. FetchedAfterJobs(C)
  BY <1>2, <1>3 DEF FetchedAfterJobs
<1>6. DaysHaveJobs(C)
  BY <1>2 DEF DaysHaveJobs
<1>7. ReportsComplete(C)
  BY <1>2, <1>3, <1>4 DEF ReportsComplete
<1>8. SharesHeld(C)
  <2>1. ASSUME NEW r \in C.reports
        PROVE  /\ Shares(C, r.day, r.domain, r.record) = Shares(D, r.day, r.domain, r.record)
               /\ RecordsOf(C, r.day, r.domain) = RecordsOf(D, r.day, r.domain)
    BY <1>2, <1>4, SameRowsSameReport
  <2>2. ASSUME NEW r \in C.reports, NEW rec \in RecordsOf(C, r.day, r.domain)
        PROVE  \E q \in C.reports : q.day = r.day /\ q.domain = r.domain /\ q.record = rec
    <3>1. PICK q \in D.reports : q.day = r.day /\ q.domain = r.domain /\ q.record = rec
      BY <1>2, <2>1 DEF SharesHeld
    <3> QED BY <1>2, <3>1
  <2> QED BY <1>2, <2>1, <2>2 DEF SharesHeld
<1>9. ReportIds(C) /\ OneEach(C)
  BY <1>2 DEF ReportIds, OneEach
<1> QED BY <1>1, <1>5, <1>6, <1>7, <1>8, <1>9

\* Setting up a day that has no jobs adds pending jobs to a day without rows.
LEMMA NewJobsConsistent ==
    ASSUME NEW D, Consistent(D), NEW day \in Days, \A j \in D.jobs : j.day # day
    PROVE  Consistent([D EXCEPT !.jobs = @ \cup NewJobs(day)])
<1> DEFINE C == [D EXCEPT !.jobs = @ \cup NewJobs(day)]
<1> USE DEF Consistent
<1>1. NewJobs(day) \subseteq JobRow
  BY DEF NewJobs, JobRow
<1>2. /\ C \in Database
      /\ C.jobs = D.jobs \cup NewJobs(day)
      /\ C.data = D.data /\ C.reports = D.reports /\ C.dests = D.dests
  BY <1>1 DEF Database
<1>3. PendingDays(C) \subseteq PendingDays(D) \cup {day}
  BY <1>2 DEF PendingDays, Pending, NewJobs
<1>4. (\A x \in D.data : x.day # day) /\ (\A r \in D.reports : r.day # day)
  BY DEF DaysHaveJobs
<1>5. FetchedAfterJobs(C) /\ DaysHaveJobs(C) /\ ReportsComplete(C)
  BY <1>2, <1>3, <1>4 DEF FetchedAfterJobs, DaysHaveJobs, ReportsComplete, Rows
<1>6. SharesHeld(C) /\ OneEach(C) /\ ReportIds(C)
  BY <1>2 DEF SharesHeld, OneEach, ReportIds, Shares, RecordsOf, Fetched, Rows
<1> QED BY <1>2, <1>5, <1>6

\* The UPDATE of a pending job, to any status, keeps its day.
LEMMA ReplaceJobConsistent ==
    ASSUME NEW D, Consistent(D), NEW j \in Pending(D.jobs), NEW k \in JobRow, k.day = j.day
    PROVE  Consistent([D EXCEPT !.jobs = Replace(@, j, k)])
<1> DEFINE C == [D EXCEPT !.jobs = Replace(@, j, k)]
<1> USE DEF Consistent
<1>1. /\ C \in Database
      /\ C.jobs = (D.jobs \ {j}) \cup {k}
      /\ C.data = D.data /\ C.reports = D.reports /\ C.dests = D.dests
  BY DEF Database, Replace
<1>2. j \in D.jobs /\ j.day \in PendingDays(D)
  BY DEF Pending, PendingDays
<1>3. PendingDays(C) \subseteq PendingDays(D)
  BY <1>1, <1>2 DEF PendingDays, Pending
<1>4. FetchedAfterJobs(C) /\ ReportsComplete(C)
  BY <1>1, <1>3 DEF FetchedAfterJobs, ReportsComplete, Rows
<1>5. DaysHaveJobs(C)
  BY <1>1, <1>2 DEF DaysHaveJobs
<1>6. SharesHeld(C) /\ OneEach(C) /\ ReportIds(C)
  BY <1>1 DEF SharesHeld, OneEach, ReportIds, Shares, RecordsOf, Fetched, Rows
<1> QED BY <1>1, <1>4, <1>5, <1>6

\* A domain list arrives while its job is pending, hence before any details or
\* report of the day.
LEMMA ListConsistent ==
    ASSUME NEW D, Consistent(D), NEW j \in Pending(D.jobs), NEW list \in SUBSET Domains
    PROVE  Consistent([D EXCEPT !.data = @ \cup NewRows(D, j, list)])
<1> DEFINE C == [D EXCEPT !.data = @ \cup NewRows(D, j, list)]
<1> USE DEF Consistent
<1>1. j \in D.jobs /\ j \in JobRow /\ j.day \in PendingDays(D)
  BY DEF Pending, PendingDays, Database
<1>2. NewRows(D, j, list) \subseteq DataRow
  BY <1>1, ReportdAssumption DEF NewRows, DataRow, JobRow, Commands, Range
<1>3. /\ C \in Database
      /\ C.data = D.data \cup NewRows(D, j, list)
      /\ C.jobs = D.jobs /\ C.reports = D.reports /\ C.dests = D.dests
  BY <1>2 DEF Database
<1>4. \A x \in NewRows(D, j, list) : x.day = j.day /\ x.data = NULL
  BY DEF NewRows
<1>5. PendingDays(C) = PendingDays(D)
  BY <1>3 DEF PendingDays
<1>6. FetchedAfterJobs(C) /\ DaysHaveJobs(C)
  BY <1>1, <1>3, <1>4, <1>5 DEF FetchedAfterJobs, DaysHaveJobs
<1>7. ASSUME NEW r \in D.reports PROVE Rows(C, r.day, r.domain) = Rows(D, r.day, r.domain)
  BY <1>1, <1>3, <1>4 DEF ReportsComplete, Rows
<1>8. ReportsComplete(C)
  BY <1>3, <1>5, <1>7 DEF ReportsComplete
<1>9. SharesHeld(C)
  BY <1>3, <1>7, SameRowsSharesHeld
<1>10. ReportIds(C)
  BY <1>3 DEF ReportIds
<1>11. OneEach(C)
  <2>1. \A x \in NewRows(D, j, list) : x = [day |-> j.day, domain |-> x.domain,
           fetcher |-> Fetchers[j.idx], idx |-> j.idx, data |-> NULL]
    BY DEF NewRows
  <2>2. \A x \in NewRows(D, j, list) : \A y \in Rows(D, x.day, x.domain) : y.fetcher # x.fetcher
    BY DEF NewRows
  <2> QED BY <1>3, <2>1, <2>2 DEF OneEach, Rows
<1> QED BY <1>3, <1>6, <1>8, <1>9, <1>10, <1>11

\* Details arrive for a row that had none, on a day whose jobs are finished: its
\* domain cannot have a report.
LEMMA FetchConsistent ==
    ASSUME NEW D, Consistent(D), NEW x \in Fetchable(D), NEW payload \in Payloads
    PROVE  Consistent([D EXCEPT !.data = Replace(@, x, [x EXCEPT !.data = payload])])
<1> DEFINE y == [x EXCEPT !.data = payload]
           C == [D EXCEPT !.data = Replace(@, x, y)]
<1> USE DEF Consistent
<1>1. x \in D.data /\ x \in DataRow /\ x.data = NULL /\ x.day \notin PendingDays(D)
  BY DEF Fetchable, Database
<1>2. y \in DataRow /\ y.day = x.day /\ y.domain = x.domain
  BY <1>1 DEF DataRow
<1>3. /\ C \in Database
      /\ C.data = (D.data \ {x}) \cup {y}
      /\ C.jobs = D.jobs /\ C.reports = D.reports /\ C.dests = D.dests
  BY <1>2 DEF Database, Replace
<1>4. PendingDays(C) = PendingDays(D)
  BY <1>3 DEF PendingDays
<1>5. FetchedAfterJobs(C) /\ DaysHaveJobs(C)
  <2>1. FetchedAfterJobs(C)
    BY <1>1, <1>2, <1>3, <1>4 DEF FetchedAfterJobs
  <2>2. \E j \in C.jobs : j.day = y.day
    BY <1>1, <1>2, <1>3 DEF DaysHaveJobs
  <2>3. DaysHaveJobs(C)
    BY <1>3, <2>2 DEF DaysHaveJobs
  <2> QED BY <2>1, <2>3
<1>6. ASSUME NEW r \in D.reports PROVE Rows(C, r.day, r.domain) = Rows(D, r.day, r.domain)
  <2>1. ~(x.day = r.day /\ x.domain = r.domain)
    BY <1>1 DEF ReportsComplete, Rows
  <2> QED BY <1>2, <1>3, <2>1 DEF Rows
<1>7. ReportsComplete(C)
  BY <1>3, <1>4, <1>6 DEF ReportsComplete
<1>8. SharesHeld(C)
  BY <1>3, <1>6, SameRowsSharesHeld
<1>9. ReportIds(C)
  BY <1>3 DEF ReportIds
<1>10. OneEach(C)
  <2>1. y.fetcher = x.fetcher
    BY <1>1 DEF DataRow
  <2> HIDE DEF y, C
  <2>2. ASSUME NEW z \in D.data, z.day = y.day, z.domain = y.domain, z.fetcher = y.fetcher
        PROVE  z = x
    BY <1>1, <1>2, <2>1, <2>2 DEF OneEach
  <2>3. ASSUME NEW v \in C.data, NEW w \in C.data,
               v.day = w.day, v.domain = w.domain, v.fetcher = w.fetcher
        PROVE  v = w
    BY <1>3, <2>2, <2>3 DEF OneEach
  <2> QED BY <1>3, <2>3 DEF OneEach
<1> QED BY <1>3, <1>5, <1>7, <1>8, <1>9, <1>10

\* The UPDATE of a destination keeps its report.
LEMMA ReplaceDestConsistent ==
    ASSUME NEW D, Consistent(D), NEW x \in D.dests, NEW y \in DestRow, y.rid = x.rid
    PROVE  Consistent([D EXCEPT !.dests = Replace(@, x, y)])
<1> DEFINE C == [D EXCEPT !.dests = Replace(@, x, y)]
<1> USE DEF Consistent
<1>1. /\ C \in Database
      /\ C.dests = (D.dests \ {x}) \cup {y}
      /\ C.jobs = D.jobs /\ C.data = D.data /\ C.reports = D.reports
  BY DEF Database, Replace
<1>2. FetchedAfterJobs(C) /\ DaysHaveJobs(C) /\ ReportsComplete(C)
  BY <1>1 DEF FetchedAfterJobs, DaysHaveJobs, ReportsComplete, Rows, PendingDays
<1>3. SharesHeld(C)
  BY <1>1, SameRowsSharesHeld DEF Rows
<1>4. ReportIds(C) /\ OneEach(C)
  BY <1>1 DEF ReportIds, OneEach
<1> QED BY <1>1, <1>2, <1>3, <1>4

\* The new reports are about the domain and day they were made for.
LEMMA NewReportsDay ==
    ASSUME NEW D, NEW day, NEW dom, NEW num, NEW last
    PROVE  \A r \in NewReports(D, day, dom, num, last) : r.day = day /\ r.domain = dom
<1> DEFINE count == Cardinality({r \in D.reports : r.day = day /\ r.domain = dom})
<1>1. NewReports(D, day, dom, num, last) =
        {[rid |-> last + num[rec], day |-> day, domain |-> dom, uniqid |-> count + num[rec],
          record |-> rec, shares |-> Shares(D, day, dom, rec)] : rec \in DOMAIN num}
  BY DEF NewReports
<1> HIDE DEF count
<1> QED BY <1>1

\* A domain's reports are made when all its rows have details, so its day has no
\* pending job and the domain no report; their ids are new.
LEMMA CreateConsistent ==
    ASSUME NEW D, Consistent(D), NEW day \in Days, NEW dom \in Domains,
           <<day, dom>> \in Reportable(D),
           NEW num \in Bijection(RecordsOf(D, day, dom),
                                 1 .. Cardinality(RecordsOf(D, day, dom))),
           NEW last \in {0} \cup {r.rid : r \in D.reports},
           \A r \in D.reports : r.rid <= last
    PROVE  Consistent([D EXCEPT !.reports = @ \cup NewReports(D, day, dom, num, last),
                                !.dests = @ \cup NewDests(num, last)])
<1> DEFINE recs == RecordsOf(D, day, dom)
           N == NewReports(D, day, dom, num, last)
           C == [D EXCEPT !.reports = @ \cup N, !.dests = @ \cup NewDests(num, last)]
<1> USE DEF Consistent
<1>1. /\ Fetched(D, day, dom) # {}
      /\ \A x \in Rows(D, day, dom) : x.data # NULL
      /\ ~HasReport(D, day, dom)
  BY DEF Reportable, Fetched
<1>2. day \notin PendingDays(D)
  BY <1>1 DEF Fetched, Rows, FetchedAfterJobs
<1>3. recs \subseteq Records /\ Cardinality(recs) \in Nat
  <2>1. \A x \in D.data : x.data # NULL => DOMAIN x.data \subseteq Records
    BY ReportdAssumption DEF Database, DataRow
  <2>2. recs \subseteq Records
    BY <2>1 DEF RecordsOf, Fetched, Rows
  <2>3. IsFiniteSet(recs)
    BY <2>2, FS_Subset, ReportdAssumption
  <2> QED BY <2>2, <2>3, FS_CardinalityType
<1>4. /\ DOMAIN num = recs
      /\ \A rec \in recs : num[rec] \in Nat /\ num[rec] > 0
      /\ \A p, q \in recs : num[p] = num[q] => p = q
  BY <1>3 DEF Bijection, Injection, IsInjective
<1>5. last \in Nat
  BY DEF Database, ReportRow
<1>6. Cardinality({r \in D.reports : r.day = day /\ r.domain = dom}) = 0
  <2>1. {r \in D.reports : r.day = day /\ r.domain = dom} = {}
    BY <1>1 DEF HasReport
  <2> QED BY <2>1, FS_EmptySet
<1>7. ASSUME NEW rec \in recs
      PROVE  Shares(D, day, dom, rec) \subseteq
                [fetcher : Commands, idx : DOMAIN Fetchers, count : Nat]
  <2>1. \A x \in D.data : x.data # NULL => \A r \in DOMAIN x.data : x.data[r] \in Nat
    BY ReportdAssumption DEF Database, DataRow
  <2>2. \A x \in D.data : x.fetcher \in Commands /\ x.idx \in DOMAIN Fetchers
    BY DEF Database, DataRow
  <2> QED BY <2>1, <2>2 DEF Shares, Fetched, Rows
<1>8. \A r : r \in N <=> \E rec \in recs :
           r = [rid |-> last + num[rec], day |-> day, domain |-> dom, uniqid |-> num[rec],
                record |-> rec, shares |-> Shares(D, day, dom, rec)]
  <2>1. \A rec \in recs : 0 + num[rec] = num[rec]
    BY <1>4
  <2>2. N = {[rid |-> last + num[rec], day |-> day, domain |-> dom, uniqid |-> 0 + num[rec],
              record |-> rec, shares |-> Shares(D, day, dom, rec)] : rec \in recs}
    BY <1>4, <1>6 DEF NewReports
  <2> QED BY <2>1, <2>2
<1>8a. \A rec \in recs : \E r \in N : /\ r.rid = last + num[rec] /\ r.record = rec
                                      /\ r.day = day /\ r.domain = dom
  <2>1. ASSUME NEW rec \in recs
        PROVE  [rid |-> last + num[rec], day |-> day, domain |-> dom, uniqid |-> num[rec],
                record |-> rec, shares |-> Shares(D, day, dom, rec)] \in N
    BY <1>8
  <2> QED BY <2>1
<1>9. N \subseteq ReportRow
  BY <1>3, <1>4, <1>5, <1>7, <1>8 DEF ReportRow
<1>10. NewDests(num, last) \subseteq DestRow
  <2>1. \A rec \in recs : Range(Ruas[rec]) \subseteq Dests
    BY <1>3, ReportdAssumption DEF Range
  <2> QED BY <1>4, <1>5, <2>1 DEF NewDests, DestRow
<1>11. /\ C \in Database
       /\ C.reports = D.reports \cup N
       /\ C.dests = D.dests \cup NewDests(num, last)
       /\ C.jobs = D.jobs /\ C.data = D.data
  BY <1>9, <1>10 DEF Database
<1>12. ASSUME NEW d, NEW m
       PROVE  /\ Rows(C, d, m) = Rows(D, d, m)
              /\ RecordsOf(C, d, m) = RecordsOf(D, d, m)
              /\ \A rec : Shares(C, d, m, rec) = Shares(D, d, m, rec)
  <2>1. Rows(C, d, m) = Rows(D, d, m)
    BY <1>11 DEF Rows
  <2> QED BY <2>1, SameRowsSameReport
<1>13. PendingDays(C) = PendingDays(D)
  BY <1>11 DEF PendingDays
<1>14. \A r \in N : r.day = day /\ r.domain = dom
  BY <1>8
<1>15. FetchedAfterJobs(C)
  BY <1>11, <1>13 DEF FetchedAfterJobs
<1>16. DaysHaveJobs(C)
  BY <1>1, <1>11, <1>14 DEF DaysHaveJobs, Fetched, Rows
<1>17. ReportsComplete(C)
  BY <1>1, <1>2, <1>11, <1>12, <1>13, <1>14 DEF ReportsComplete
<1>18. SharesHeld(C)
  <2>1. \A r \in N : r.shares = Shares(C, r.day, r.domain, r.record)
    BY <1>8, <1>12
  <2>2. \A rec \in RecordsOf(C, day, dom) :
           \E q \in C.reports : q.day = day /\ q.domain = dom /\ q.record = rec
    BY <1>8a, <1>11, <1>12
  <2>3. \A r \in D.reports : /\ r.shares = Shares(C, r.day, r.domain, r.record)
                             /\ RecordsOf(C, r.day, r.domain) = RecordsOf(D, r.day, r.domain)
    BY <1>12 DEF SharesHeld
  <2>4. \A r \in D.reports : \A rec \in RecordsOf(C, r.day, r.domain) :
           \E q \in C.reports : q.day = r.day /\ q.domain = r.domain /\ q.record = rec
    BY <1>11, <2>3 DEF SharesHeld
  <2>5. \A r \in C.reports : r \in N \/ r \in D.reports
    BY <1>11
  <2>6. \A r \in C.reports : r.shares = Shares(C, r.day, r.domain, r.record)
    BY <2>1, <2>3, <2>5
  <2>7. \A r \in C.reports : \A rec \in RecordsOf(C, r.day, r.domain) :
           \E q \in C.reports : q.day = r.day /\ q.domain = r.domain /\ q.record = rec
    BY <1>14, <2>2, <2>4, <2>5
  <2> QED BY <2>6, <2>7 DEF SharesHeld
<1>19. ReportIds(C)
  <2>1. ASSUME NEW r \in N, NEW q \in N, r.rid = q.rid \/ r.uniqid = q.uniqid
        PROVE  r = q
    <3>1. PICK a \in recs : r = [rid |-> last + num[a], day |-> day, domain |-> dom,
             uniqid |-> num[a], record |-> a, shares |-> Shares(D, day, dom, a)]
      BY <1>8
    <3>2. PICK b \in recs : q = [rid |-> last + num[b], day |-> day, domain |-> dom,
             uniqid |-> num[b], record |-> b, shares |-> Shares(D, day, dom, b)]
      BY <1>8
    <3>3. num[a] = num[b]
      BY <1>4, <1>5, <2>1, <3>1, <3>2
    <3> QED BY <1>4, <3>1, <3>2, <3>3
  <2>2. ASSUME NEW r \in D.reports, NEW q \in N
        PROVE  r.rid # q.rid /\ <<r.day, r.domain>> # <<q.day, q.domain>>
    <3>1. r.rid \in Nat /\ r.rid <= last /\ q.rid > last
      BY <1>4, <1>5, <1>8 DEF Database, ReportRow
    <3>2. q.rid \in Nat
      BY <1>9 DEF ReportRow
    <3> QED BY <1>1, <1>5, <1>14, <3>1, <3>2 DEF HasReport
  <2>3. ASSUME NEW r \in C.reports, NEW q \in C.reports,
               r.rid = q.rid \/ <<r.day, r.domain, r.uniqid>> = <<q.day, q.domain, q.uniqid>>
        PROVE  r = q
    BY <1>11, <2>1, <2>2, <2>3 DEF ReportIds
  <2>4. \A x \in NewDests(num, last) : \E r \in N : r.rid = x.rid
    <3>1. ASSUME NEW x \in NewDests(num, last) PROVE \E rec \in recs : x.rid = last + num[rec]
      BY <1>4 DEF NewDests
    <3> QED BY <1>8a, <3>1
  <2> QED BY <1>11, <2>3, <2>4 DEF ReportIds
<1>20. OneEach(C)
  <2>1. \A r, q \in N : r.record = q.record => r = q
    BY <1>8
  <2>2. \A r \in D.reports : ~(r.day = day /\ r.domain = dom)
    BY <1>1 DEF HasReport
  <2> QED BY <1>11, <1>14, <2>1, <2>2 DEF OneEach
<1> QED BY <1>11, <1>15, <1>16, <1>17, <1>18, <1>19, <1>20

----------------------------------------------------------------------------
(* The inductive invariant.                                                *)

\* The counters of copies keep their type.
LEMMA BumpType ==
    ASSUME NEW f \in [Key -> Nat], NEW keys
    PROVE  Bump(f, keys) \in [Key -> Nat]
BY DEF Bump

\* A retry or a timeout changes neither the day of a job nor the report of a
\* destination.
LEMMA RetryType ==
    /\ \A j \in JobRow, max \in Nat :
          RetryOrTimeout(j, max) \in JobRow /\ RetryOrTimeout(j, max).day = j.day
    /\ \A x \in DestRow, max \in Nat :
          RetryOrTimeout(x, max) \in DestRow /\ RetryOrTimeout(x, max).rid = x.rid
BY DEF RetryOrTimeout, JobRow, DestRow

\* The outcome of a delivery changes neither the report of a destination nor its
\* name.
LEMMA RecordedType ==
    ASSUME NEW x \in DestRow, NEW outcome
    PROVE  Recorded(x, outcome) \in DestRow /\ Recorded(x, outcome).rid = x.rid
BY RetryType, ReportdAssumption DEF Recorded, DestRow

\* The invariant holds for an empty database.
LEMMA InitInv == Init => Inv
<1> SUFFICES ASSUME Init PROVE Inv
  OBVIOUS
<1>1. Consistent(EmptyDb)
  BY DEF Consistent, EmptyDb, Database, FetchedAfterJobs, DaysHaveJobs, ReportsComplete,
         SharesHeld, OneEach, ReportIds
<1>2. TypeOK
  BY <1>1, ReportdAssumption DEF Init, TypeOK, Consistent
<1>3. PhaseInv
  BY DEF Init, PhaseInv
<1> QED BY <1>1, <1>2, <1>3 DEF Init, Inv

\* check_day.
LEMMA CheckDayInv ==
    ASSUME Inv, NEW now \in {today, today + 1}, CheckDay(now)
    PROVE  Inv'
<1> DEFINE D == CleanUp(db, now)
<1> USE DEF Inv
<1>1. today \in Int /\ now \in Int /\ today - 1 \in Days /\ now \in 1 .. MaxDay
  BY ReportdAssumption DEF CheckDay, TypeOK, Days
<1>2. Consistent(D)
  BY <1>1, CleanUpConsistent
<1>3. Consistent(db') /\ Consistent(disk')
  <2>1. CASE db' = D /\ disk' = disk
    BY <1>2, <2>1
  <2>2. CASE /\ \A j \in D.jobs : j.day # today - 1
             /\ db' = [D EXCEPT !.jobs = @ \cup NewJobs(today - 1)]
             /\ disk' = db'
    BY <1>1, <1>2, <2>2, NewJobsConsistent
  <2> QED BY <2>1, <2>2 DEF CheckDay
<1>4. todo' \subseteq Pending(db'.jobs)
  BY DEF CheckDay, SelectJobs, Due
<1>5. todo' \subseteq JobRow
  BY <1>3, <1>4 DEF Consistent, Database, Pending
<1>6. TypeOK'
  BY <1>1, <1>3, <1>5 DEF CheckDay, TypeOK, histVars, Consistent
<1>7. PhaseInv'
  BY <1>4 DEF CheckDay, PhaseInv, histVars
<1> QED BY <1>3, <1>6, <1>7

\* collect_domains: each job, each answer.
LEMMA CollectInv ==
    ASSUME Inv, NEW j \in todo,
           \/ CollectFails(j) \/ CollectTruncated(j)
           \/ \E list \in SUBSET Domains : CollectOk(j, list)
    PROVE  Inv'
<1> USE DEF Inv
<1>1. j \in Pending(db.jobs) /\ j \in JobRow /\ pc = "collect"
  BY DEF CollectFails, CollectTruncated, CollectOk, Collecting, PhaseInv, TypeOK
<1>2. answer = NoAnswer
  BY <1>1 DEF PhaseInv
<1>3. ASSUME NEW D, Consistent(D), j \in Pending(D.jobs), D.jobs = db.jobs, NEW k \in JobRow,
             k.day = j.day, db' = [D EXCEPT !.jobs = Replace(@, j, k)], todo' = todo \ {j}
      PROVE  Consistent(db') /\ todo' \subseteq Pending(db'.jobs)
  <2>1. Consistent(db')
    BY <1>3, ReplaceJobConsistent
  <2>2. db'.jobs = (db.jobs \ {j}) \cup {k}
    BY <1>3 DEF Consistent, Database, Replace
  <2>3. todo \subseteq Pending(db.jobs)
    BY <1>1 DEF PhaseInv
  <2> QED BY <1>3, <2>1, <2>2, <2>3 DEF Pending
<1>4. CASE CollectFails(j) \/ CollectTruncated(j)
  <2>1. RetryOrTimeout(j, MaxRetriesDomainlist) \in JobRow
        /\ RetryOrTimeout(j, MaxRetriesDomainlist).day = j.day
    BY <1>1, RetryType, ReportdAssumption
  <2>2. Consistent(db') /\ todo' \subseteq Pending(db'.jobs)
    BY <1>1, <1>3, <1>4, <2>1 DEF CollectFails, CollectTruncated
  <2>3. Consistent(disk')
    BY <1>4 DEF CollectFails, CollectTruncated
  <2>4. TypeOK'
    BY <1>1, <1>4, <2>2, <2>3 DEF CollectFails, CollectTruncated, TypeOK, histVars, Consistent
  <2>5. PhaseInv'
    BY <1>1, <1>2, <1>4, <2>2 DEF CollectFails, CollectTruncated, PhaseInv
  <2> QED BY <2>2, <2>3, <2>4, <2>5
<1>5. ASSUME NEW list \in SUBSET Domains, CollectOk(j, list)
      PROVE  Inv'
  <2> DEFINE D == [db EXCEPT !.data = @ \cup NewRows(db, j, list)]
  <2>1. Consistent(D)
    BY <1>1, ListConsistent
  <2>2. D.jobs = db.jobs
    BY DEF TypeOK, Database
  <2>3. [j EXCEPT !.status = "ok"] \in JobRow /\ [j EXCEPT !.status = "ok"].day = j.day
    BY <1>1 DEF JobRow
  <2>4. Consistent(db') /\ todo' \subseteq Pending(db'.jobs)
    BY <1>1, <1>3, <1>5, <2>1, <2>2, <2>3 DEF CollectOk
  <2>5. Consistent(disk')
    BY <1>5, <2>1 DEF CollectOk
  <2>6. accepted' \subseteq Days \X Domains \X Commands
    <3>1. j.day \in Days /\ Fetchers[j.idx] \in Commands
      BY <1>1 DEF JobRow, Commands, Range
    <3>2. \A dom \in list : <<j.day, dom, Fetchers[j.idx]>> \in Days \X Domains \X Commands
      BY <3>1
    <3>3. accepted' = accepted \cup {<<j.day, dom, Fetchers[j.idx]>> : dom \in list}
      BY <1>5 DEF CollectOk
    <3>4. accepted \subseteq Days \X Domains \X Commands
      BY DEF TypeOK
    <3> QED BY <3>2, <3>3, <3>4
  <2>7. TypeOK'
    BY <1>1, <1>5, <2>4, <2>5, <2>6 DEF CollectOk, TypeOK, Consistent
  <2>8. PhaseInv'
    BY <1>1, <1>2, <1>5, <2>4 DEF CollectOk, PhaseInv
  <2> QED BY <2>4, <2>5, <2>7, <2>8
<1> QED BY <1>4, <1>5

\* What fetch_data selects has no details yet and no pending list for its day.
LEMMA EndCollectInv ==
    ASSUME Inv, EndCollect PROVE Inv'
<1> USE DEF Inv, EndCollect
<1>1. Consistent(db') /\ Consistent(disk')
  OBVIOUS
<1>2. todo' \subseteq DataRow
  BY DEF Fetchable, Consistent, Database
<1>3. TypeOK'
  BY <1>1, <1>2 DEF TypeOK, histVars
<1>4. PhaseInv'
  BY DEF PhaseInv
<1> QED BY <1>1, <1>3, <1>4

\* fetch_data: each row, each answer.
LEMMA FetchInv ==
    ASSUME Inv, NEW x \in todo,
           FetchFails(x) \/ \E payload \in Payloads : FetchOk(x, payload)
    PROVE  Inv'
<1> USE DEF Inv
<1>1. /\ x \in Fetchable(db) /\ todo \subseteq Fetchable(db) /\ x \in DataRow
      /\ pc = "fetch" /\ answer = NoAnswer /\ db = disk
  BY DEF FetchFails, FetchOk, PhaseInv, TypeOK
<1>2. CASE FetchFails(x)
  <2>1. Consistent(db') /\ Consistent(disk')
    BY <1>2 DEF FetchFails, dbVars
  <2>2. TypeOK'
    BY <1>1, <1>2 DEF FetchFails, TypeOK, dbVars, histVars
  <2>3. PhaseInv'
    BY <1>1, <1>2 DEF FetchFails, PhaseInv, dbVars
  <2> QED BY <2>1, <2>2, <2>3
<1>3. ASSUME NEW payload \in Payloads, FetchOk(x, payload)
      PROVE  Inv'
  <2>1. Consistent(db') /\ Consistent(disk')
    BY <1>1, <1>3, FetchConsistent DEF FetchOk
  <2>2. TypeOK'
    BY <1>1, <1>3, <2>1 DEF FetchOk, TypeOK, histVars, Consistent
  <2>3. todo' \subseteq Fetchable(db')
    <3>1. db'.data = Replace(db.data, x, [x EXCEPT !.data = payload]) /\ db'.jobs = db.jobs
      BY <1>3 DEF FetchOk, TypeOK, Database
    <3> QED BY <1>1, <1>3, <3>1 DEF FetchOk, Fetchable, Replace, PendingDays
  <2>4. PhaseInv'
    BY <1>1, <1>3, <2>3 DEF FetchOk, PhaseInv
  <2> QED BY <2>1, <2>2, <2>4
<1> QED BY <1>2, <1>3

\* What create_reports selects has all its details and no report.
LEMMA EndFetchInv ==
    ASSUME Inv, EndFetch PROVE Inv'
<1> USE DEF Inv, EndFetch, dbVars
<1>1. Consistent(db') /\ Consistent(disk')
  OBVIOUS
<1>2. todo' \subseteq Days \X Domains
  BY DEF Reportable, Consistent, Database, DataRow
<1>3. TypeOK'
  BY <1>2 DEF TypeOK, histVars
<1>4. PhaseInv'
  BY DEF PhaseInv
<1> QED BY <1>1, <1>3, <1>4

\* create_reports: each domain.
LEMMA CreateInv ==
    ASSUME Inv, NEW day \in Days, NEW dom \in Domains,
           CreateReportFor(day, dom) \/ CreateReportDies(day, dom)
    PROVE  Inv'
<1> USE DEF Inv
<1>1. /\ <<day, dom>> \in Reportable(db) /\ todo \subseteq Reportable(db)
      /\ pc = "create" /\ answer = NoAnswer /\ db = disk
  BY DEF CreateReportFor, CreateReportDies, PhaseInv
<1>2. CASE CreateReportFor(day, dom)
  <2>1. PICK num \in Bijection(RecordsOf(db, day, dom), 1 .. Cardinality(RecordsOf(db, day, dom))),
             last \in {0} \cup {r.rid : r \in db.reports} :
               /\ \A r \in db.reports : r.rid <= last
               /\ db' = [db EXCEPT !.reports = @ \cup NewReports(db, day, dom, num, last),
                                   !.dests = @ \cup NewDests(num, last)]
    BY <1>2 DEF CreateReportFor
  <2>2. Consistent(db') /\ Consistent(disk')
    BY <1>1, <1>2, <2>1, CreateConsistent DEF CreateReportFor
  <2>3. TypeOK'
    BY <1>1, <1>2, <2>2 DEF CreateReportFor, TypeOK, Consistent
  <2>4. /\ db'.data = db.data
        /\ \A r \in db'.reports : r \in db.reports \/ (r.day = day /\ r.domain = dom)
    <3>1. \A r \in NewReports(db, day, dom, num, last) : r.day = day /\ r.domain = dom
      BY NewReportsDay
    <3>2. db'.data = db.data /\ db'.reports = db.reports \cup NewReports(db, day, dom, num, last)
      BY <2>1 DEF TypeOK, Database
    <3> QED BY <3>1, <3>2
  <2>5. todo' \subseteq Reportable(db')
    <3>1. ASSUME NEW p \in todo' PROVE p \in Reportable(db')
      <4>1. p \in Reportable(db) /\ p # <<day, dom>>
        BY <1>1, <1>2 DEF CreateReportFor
      <4>2. PICK x \in db.data : p = <<x.day, x.domain>>
        BY <4>1 DEF Reportable
      <4>3. ~HasReport(db', p[1], p[2])
        BY <2>4, <4>1, <4>2 DEF Reportable, HasReport
      <4> QED BY <2>4, <4>1, <4>3 DEF Reportable, Fetched, Rows
    <3> QED BY <3>1
  <2>6. PhaseInv'
    BY <1>1, <1>2, <2>5 DEF CreateReportFor, PhaseInv
  <2> QED BY <2>2, <2>3, <2>6
<1>3. CASE CreateReportDies(day, dom)
  <2>1. Consistent(db') /\ Consistent(disk')
    BY <1>3 DEF CreateReportDies
  <2>2. TypeOK' /\ PhaseInv'
    BY <1>1, <1>3 DEF CreateReportDies, TypeOK, PhaseInv, histVars
  <2> QED BY <2>1, <2>2
<1> QED BY <1>2, <1>3

\* What send_out_reports selects is pending.
LEMMA EndCreateInv ==
    ASSUME Inv, EndCreate PROVE Inv'
<1> USE DEF Inv, EndCreate, dbVars
<1>1. Consistent(db') /\ Consistent(disk')
  OBVIOUS
<1>2. todo' \subseteq Pending(db.dests) /\ todo' \subseteq DestRow
  BY DEF Due, Pending, Consistent, Database
<1>3. TypeOK'
  BY <1>2 DEF TypeOK, histVars
<1>4. PhaseInv'
  BY <1>2 DEF PhaseInv
<1> QED BY <1>1, <1>3, <1>4

\* send_out_reports: the hand-over and the record of its outcome.
LEMMA DeliverInv ==
    ASSUME Inv, NEW x \in todo, NEW outcome \in {"succeeded", "failed", "late", "unknownrua"},
           Deliver(x, outcome)
    PROVE  Inv'
<1> USE DEF Inv, Deliver, dbVars
<1>1. Consistent(db') /\ Consistent(disk')
  OBVIOUS
<1>2. x \in Pending(db.dests) /\ x \in DestRow /\ todo \subseteq Pending(db.dests)
  BY DEF PhaseInv, TypeOK
<1>3. copies' \in [Key -> Nat] /\ excused' \in [Key -> Nat]
  BY BumpType DEF TypeOK
<1>4. answer' \in [row : DestRow, outcome : {"succeeded", "failed", "late", "unknownrua"}]
  BY <1>2
<1>5. TypeOK'
  BY <1>3, <1>4 DEF TypeOK
<1>6. PhaseInv'
  BY <1>2 DEF PhaseInv
<1> QED BY <1>1, <1>5, <1>6

\* A delivery that ends the process leaves what was committed.
LEMMA DeliverDiesInv ==
    ASSUME Inv, NEW x \in todo, DeliverDies(x) PROVE Inv'
<1> USE DEF Inv, DeliverDies
<1>1. Consistent(db') /\ Consistent(disk')
  OBVIOUS
<1>2. TypeOK' /\ PhaseInv'
  BY DEF TypeOK, PhaseInv, histVars
<1> QED BY <1>1, <1>2

\* Recording the outcome of a delivery touches its destination only.
LEMMA RecordDeliveryInv ==
    ASSUME Inv, RecordDelivery PROVE Inv'
<1> DEFINE x == answer.row
           y == Recorded(x, answer.outcome)
<1> USE DEF Inv, RecordDelivery
<1>1. /\ pc = "send" /\ x \in Pending(db.dests) \ todo /\ x \in DestRow
      /\ todo \subseteq Pending(db.dests) /\ db = disk
  BY DEF PhaseInv, TypeOK, Pending, Database
<1>2. y \in DestRow /\ y.rid = x.rid
  BY <1>1, RecordedType
<1>3. db' = [db EXCEPT !.dests = Replace(@, x, y)] /\ disk' = db'
  OBVIOUS
<1>4. Consistent(db') /\ Consistent(disk')
  BY <1>1, <1>2, <1>3, ReplaceDestConsistent DEF Pending
<1>5. TypeOK'
  BY <1>1, <1>4 DEF TypeOK, histVars, Consistent
<1>6. todo' \subseteq Pending(db'.dests)
  <2>1. db'.dests = (db.dests \ {x}) \cup {y}
    BY <1>3 DEF TypeOK, Database, Replace
  <2> QED BY <1>1, <2>1 DEF Pending
<1>7. PhaseInv'
  BY <1>1, <1>3, <1>6 DEF PhaseInv
<1> QED BY <1>4, <1>5, <1>7

\* The steps that only move the loop, the clock or the process.
LEMMA OtherStepsInv ==
    ASSUME Inv, EndSend \/ WakeUp \/ Restart \/ FetcherHangs \/ ScriptHangs \/ Shutdown \/ NextDay
    PROVE  Inv'
<1> USE DEF Inv, dbVars
<1>1. db' = db /\ (disk' = disk \/ disk' = db) /\ todo' = todo /\ answer' = answer /\ crashes' = crashes
  BY DEF EndSend, WakeUp, Restart, FetcherHangs, ScriptHangs, Shutdown, NextDay
<1>2. Consistent(db') /\ Consistent(disk')
  BY <1>1
<1>3. /\ history' = history /\ accepted' = accepted /\ copies' = copies
      /\ excused' = excused
  BY DEF EndSend, WakeUp, Restart, FetcherHangs, ScriptHangs, Shutdown, NextDay, histVars
<1>4. CASE EndSend \/ WakeUp \/ Restart \/ FetcherHangs \/ ScriptHangs \/ Shutdown
  <2>1. today' = today /\ pc' \in {"sleep", "check", "hung", "down"}
    BY <1>4 DEF EndSend, WakeUp, Restart, FetcherHangs, ScriptHangs, Shutdown
  <2>2. TypeOK'
    BY <1>1, <1>2, <1>3, <2>1 DEF TypeOK, Consistent
  <2>3. answer = NoAnswer /\ (pc' = "sleep" => db = disk /\ disk' = disk)
    BY <1>4 DEF PhaseInv, EndSend, WakeUp, Restart, FetcherHangs, ScriptHangs, Shutdown
  <2>4. PhaseInv'
    BY <1>1, <2>1, <2>3 DEF PhaseInv
  <2> QED BY <1>2, <2>2, <2>4
<1>5. CASE NextDay
  <2>1. today' \in 1 .. MaxDay /\ pc' = pc /\ disk' = disk
    BY <1>5, ReportdAssumption DEF NextDay, TypeOK
  <2>2. TypeOK' /\ PhaseInv'
    BY <1>1, <1>3, <2>1 DEF TypeOK, PhaseInv
  <2> QED BY <1>2, <2>2
<1> QED BY <1>4, <1>5

\* What a crash leaves is the committed database, which is consistent.
LEMMA CrashInv ==
    ASSUME Inv, Crash PROVE Inv'
<1> USE DEF Inv, Crash
<1>1. Consistent(db') /\ Consistent(disk')
  OBVIOUS
<1>2. excused' \in [Key -> Nat]
  BY BumpType DEF TypeOK
<1>3. crashes' \in 0 .. MaxCrashes
  BY ReportdAssumption DEF TypeOK
<1>4. TypeOK' /\ PhaseInv'
  BY <1>2, <1>3 DEF TypeOK, PhaseInv
<1> QED BY <1>1, <1>4

\* Every step of the daemon and of its environment keeps the invariant.
LEMMA NextInv == Inv /\ [Next]_vars => Inv'
<1> SUFFICES ASSUME Inv, [Next]_vars PROVE Inv'
  OBVIOUS
<1>1. CASE \E now \in {today, today + 1} : CheckDay(now)
  BY <1>1, CheckDayInv
<1>2. CASE Collect
  BY <1>2, CollectInv DEF Collect
<1>3. CASE EndCollect
  BY <1>3, EndCollectInv
<1>4. CASE Fetch
  BY <1>4, FetchInv DEF Fetch
<1>5. CASE EndFetch
  BY <1>5, EndFetchInv
<1>6. CASE Create
  BY <1>6, CreateInv DEF Create
<1>7. CASE EndCreate
  BY <1>7, EndCreateInv
<1>8. CASE Send
  BY <1>8, DeliverInv, DeliverDiesInv DEF Send
<1>9. CASE RecordDelivery
  BY <1>9, RecordDeliveryInv
<1>10. CASE Crash
  BY <1>10, CrashInv
<1>11. CASE EndSend \/ WakeUp \/ Restart \/ FetcherHangs \/ ScriptHangs \/ Shutdown \/ NextDay
  BY <1>11, OtherStepsInv
<1>12. CASE UNCHANGED vars
  BY <1>12 DEF vars, dbVars, histVars, Inv, TypeOK, PhaseInv
<1> QED
  BY <1>1, <1>2, <1>3, <1>4, <1>5, <1>6, <1>7, <1>8, <1>9, <1>10, <1>11, <1>12 DEF Next, Step

\* The inductive invariant.
LEMMA InvAlways == Spec => []Inv
BY InitInv, NextInv, PTL DEF Spec

\* The variables of the daemon keep their types.
THEOREM TypeCorrect == Spec => []TypeOK
<1>1. Inv => TypeOK
  BY DEF Inv
<1> QED BY <1>1, InvAlways, PTL

\* No report is created, and none is found after a crash, before all data of its
\* domain and day is in, for any number of fetchers, days and crashes.
THEOREM ReportsWaitForData == Spec => []NoReportBeforeData
<1>1. Inv => NoReportBeforeData
  BY DEF Inv, Consistent, NoReportBeforeData
<1> QED BY <1>1, InvAlways, PTL

\* Each record has one report, which adds up one share of every command that has details
\* for it, also when a command is listed twice, and goes on doing so.
THEOREM ReportsHoldAllShares == Spec => []ReportsAccountForData
<1>1. Inv => ReportsAccountForData
  BY HeldIsExact DEF Inv, Consistent, ReportsAccountForData
<1> QED BY <1>1, InvAlways, PTL

\* Report ids are unique and no destination is without its report.
THEOREM ReportIdsCorrect == Spec => []ReportIdsUnique
<1>1. Inv => ReportIdsUnique
  BY DEF Inv, Consistent, ReportIdsUnique
<1> QED BY <1>1, InvAlways, PTL

----------------------------------------------------------------------------
(* No day is reported twice, if three days or more are kept.  A day that   *)
(* was reported keeps its reports until it is deleted as a whole, and then *)
(* it is too old for check_day to set it up again, even if midnight passes *)
(* between the two times that check_day reads.                             *)

Gone(D, day) ==
    /\ \A j \in D.jobs : j.day # day
    /\ \A x \in D.data : x.day # day
    /\ day + KeepDays <= today

\* What was reported is still there, or is gone for good.
Remembered(D) == \A h \in history : HasReport(D, h[1], h[2]) \/ Gone(D, h[1])

HistoryInv ==
    /\ Inv
    /\ Remembered(db)
    /\ Remembered(disk)
    /\ db.reports \subseteq disk.reports

\* The part of the step that differs from phase to phase.
NewlyReported == {<<r.day, r.domain>> : r \in disk'.reports \ disk.reports}

\* Rows and jobs are only added to days that have jobs, reports are not removed.
LEMMA RememberedGrows ==
    ASSUME NEW C, NEW D, Remembered(D),
           D.reports \subseteq C.reports,
           \A j \in C.jobs : \E k \in D.jobs : k.day = j.day,
           \A x \in C.data : (\E y \in D.data : y.day = x.day) \/ (\E k \in D.jobs : k.day = x.day)
    PROVE  Remembered(C)
BY DEF Remembered, HasReport, Gone

\* check_day forgets only days it will not set up again.
LEMMA CheckDayRemembers ==
    ASSUME HistoryInv, KeepDays >= 3, NEW now \in {today, today + 1}, CheckDay(now)
    PROVE  Remembered(db)' /\ Remembered(disk)' /\ db'.reports \subseteq disk'.reports
           /\ NewlyReported = {}
<1> DEFINE D == CleanUp(db, now)
<1> USE DEF HistoryInv
<1>1. today \in Int /\ today' = now /\ history' = history /\ KeepDays \in Int
  BY ReportdAssumption DEF CheckDay, Inv, TypeOK, histVars
<1>2. /\ D.jobs = {j \in db.jobs : Kept(j.day, now)}
      /\ D.data = {x \in db.data : Kept(x.day, now)}
      /\ D.reports = {r \in db.reports : Kept(r.day, now)}
      /\ D \in Database
  BY CleanUpConsistent, <1>1 DEF CleanUp, Inv, Consistent
<1>3. \A h \in history : h[1] \in Int
  BY DEF Inv, TypeOK, Days
<1>4. ASSUME NEW h \in history
      PROVE  \/ HasReport(D, h[1], h[2])
             \/ /\ \A j \in D.jobs : j.day # h[1]
                /\ \A x \in D.data : x.day # h[1]
                /\ h[1] + KeepDays <= now
  <2>1. CASE Kept(h[1], now)
    <3>1. CASE HasReport(db, h[1], h[2])
      BY <1>2, <2>1, <3>1 DEF HasReport
    <3>2. CASE Gone(db, h[1])
      BY <1>1, <1>2, <1>3, <3>2 DEF Gone
    <3> QED BY <3>1, <3>2 DEF Remembered
  <2>2. CASE ~Kept(h[1], now)
    BY <1>1, <1>2, <1>3, <2>2 DEF Kept
  <2> QED BY <2>1, <2>2
<1>5. CASE db' = D /\ disk' = disk
  <2>1. Remembered(db)'
    BY <1>1, <1>4, <1>5 DEF Remembered, Gone, HasReport
  <2>2. Remembered(disk)'
    BY <1>1, <1>3, <1>5 DEF Remembered, Gone, HasReport
  <2> QED BY <1>2, <1>5, <2>1, <2>2 DEF NewlyReported
<1>6. CASE /\ db' = [D EXCEPT !.jobs = @ \cup NewJobs(today - 1)]
           /\ disk' = db'
  <2>1. /\ db'.jobs = D.jobs \cup NewJobs(today - 1)
        /\ db'.data = D.data /\ db'.reports = D.reports
    BY <1>2, <1>6 DEF Database
  <2>2. \A j \in NewJobs(today - 1) : j.day = today - 1
    BY DEF NewJobs
  <2>3. \A h \in history : h[1] + KeepDays <= now => h[1] # today - 1
    BY <1>1, <1>3
  <2>4. Remembered(db)'
    BY <1>1, <1>4, <2>1, <2>2, <2>3 DEF Remembered, Gone, HasReport
  <2>5. NewlyReported = {}
    BY <1>2, <1>6, <2>1 DEF NewlyReported
  <2> QED BY <1>6, <2>4, <2>5
<1> QED BY <1>5, <1>6 DEF CheckDay

\* While the clock stands and nothing is reported, the primed predicate is the old one.
LEMMA RememberedPrime ==
    ASSUME Remembered(db'), Remembered(disk'), history' = history,
           today \in Int, today' \in Int, today' >= today, history \subseteq Days \X Domains
    PROVE  Remembered(db)' /\ Remembered(disk)'
<1>1. \A h \in history : h[1] + KeepDays \in Int
  BY ReportdAssumption DEF Days
<1>2. \A h \in history : h[1] + KeepDays <= today => h[1] + KeepDays <= today'
  BY <1>1
<1> QED BY <1>2 DEF Remembered, Gone

\* A list or details may arrive, a job or a destination be updated.
LEMMA CollectRemembers ==
    ASSUME HistoryInv, NEW j \in todo,
           \/ CollectFails(j) \/ CollectTruncated(j)
           \/ \E list \in SUBSET Domains : CollectOk(j, list)
    PROVE  Remembered(db') /\ Remembered(disk') /\ db'.reports = db.reports
           /\ disk'.reports \in {disk.reports, db.reports}
<1> USE DEF HistoryInv
<1>1. j \in db.jobs /\ j \in JobRow /\ db \in Database
  BY DEF CollectFails, CollectTruncated, CollectOk, Collecting, Inv, PhaseInv, Pending, TypeOK
<1>2. CASE CollectFails(j) \/ CollectTruncated(j)
  <2>1. RetryOrTimeout(j, MaxRetriesDomainlist).day = j.day
    BY <1>1, RetryType, ReportdAssumption
  <2>2. /\ db'.jobs = Replace(db.jobs, j, RetryOrTimeout(j, MaxRetriesDomainlist))
        /\ db'.data = db.data /\ db'.reports = db.reports
        /\ disk' = disk \/ disk' = db
    BY <1>1, <1>2 DEF CollectFails, CollectTruncated, Database
  <2>3. \A k \in db'.jobs : \E i \in db.jobs : i.day = k.day
    BY <1>1, <2>1, <2>2 DEF Replace
  <2>4. Remembered(db')
    BY <2>2, <2>3, RememberedGrows
  <2> QED BY <2>2, <2>4
<1>3. ASSUME NEW list \in SUBSET Domains, CollectOk(j, list)
      PROVE  Remembered(db') /\ Remembered(disk') /\ db'.reports = db.reports
             /\ disk'.reports = db.reports
  <2> DEFINE D == [db EXCEPT !.data = @ \cup NewRows(db, j, list)]
             k == [j EXCEPT !.status = "ok"]
  <2>1. /\ disk' = D
        /\ D.jobs = db.jobs /\ D.data = db.data \cup NewRows(db, j, list) /\ D.reports = db.reports
        /\ db'.jobs = Replace(db.jobs, j, k) /\ db'.data = D.data /\ db'.reports = db.reports
    BY <1>1, <1>3 DEF CollectOk, Database
  <2>2. k.day = j.day
    BY <1>1 DEF JobRow
  <2>3. \A x \in D.data : x \in db.data \/ x.day = j.day
    BY <2>1 DEF NewRows
  <2>4. \A x \in D.data : (\E y \in db.data : y.day = x.day) \/ (\E i \in db.jobs : i.day = x.day)
    BY <1>1, <2>3
  <2>5. \A m \in db'.jobs : \E i \in db.jobs : i.day = m.day
    BY <1>1, <2>1, <2>2 DEF Replace
  <2>6. Remembered(db') /\ Remembered(disk')
    BY <2>1, <2>4, <2>5, RememberedGrows
  <2> QED BY <2>1, <2>6
<1> QED BY <1>2, <1>3

\* Fetching details makes no report and removes none.
LEMMA FetchRemembers ==
    ASSUME HistoryInv, NEW x \in todo,
           FetchFails(x) \/ \E payload \in Payloads : FetchOk(x, payload)
    PROVE  Remembered(db') /\ Remembered(disk') /\ db'.reports = db.reports
           /\ disk'.reports \in {disk.reports, db.reports}
<1> USE DEF HistoryInv
<1>1. x \in db.data /\ x \in DataRow /\ db \in Database
  BY DEF FetchFails, FetchOk, Inv, PhaseInv, Fetchable, TypeOK
<1>2. CASE FetchFails(x)
  BY <1>2 DEF FetchFails, dbVars
<1>3. ASSUME NEW payload \in Payloads, FetchOk(x, payload)
      PROVE  Remembered(db') /\ disk' = db' /\ db'.reports = db.reports
  <2>1. /\ db'.data = Replace(db.data, x, [x EXCEPT !.data = payload])
        /\ db'.jobs = db.jobs /\ db'.reports = db.reports /\ disk' = db'
    BY <1>1, <1>3 DEF FetchOk, Database
  <2>2. [x EXCEPT !.data = payload].day = x.day
    BY <1>1 DEF DataRow
  <2>3. \A y \in db'.data : \E z \in db.data : z.day = y.day
    BY <1>1, <2>1, <2>2 DEF Replace
  <2> QED BY <2>1, <2>3, RememberedGrows
<1> QED BY <1>2, <1>3

\* A report is only made for a domain that has rows and no report, so it is neither
\* remembered nor gone.
LEMMA CreateRemembers ==
    ASSUME HistoryInv, NEW day \in Days, NEW dom \in Domains, CreateReportFor(day, dom)
    PROVE  Remembered(db)' /\ Remembered(disk)' /\ db' = disk'
           /\ \A p \in NewlyReported : p \notin history
<1> USE DEF HistoryInv
<1>1. <<day, dom>> \in Reportable(db) /\ db = disk /\ db \in Database
  BY DEF CreateReportFor, Inv, PhaseInv, TypeOK
<1>2. ~HasReport(db, day, dom) /\ \E x \in db.data : x.day = day
  BY <1>1 DEF Reportable, Fetched, Rows
<1>3. <<day, dom>> \notin history
  BY <1>2 DEF Remembered, Gone
<1>4. PICK num \in Bijection(RecordsOf(db, day, dom), 1 .. Cardinality(RecordsOf(db, day, dom))),
           last \in {0} \cup {r.rid : r \in db.reports} :
             db' = [db EXCEPT !.reports = @ \cup NewReports(db, day, dom, num, last),
                              !.dests = @ \cup NewDests(num, last)]
  BY DEF CreateReportFor
<1>5. /\ db'.reports = db.reports \cup NewReports(db, day, dom, num, last)
      /\ db'.jobs = db.jobs /\ db'.data = db.data
      /\ disk' = db' /\ today' = today
  BY <1>1, <1>4 DEF CreateReportFor, Database
<1>6. RecordsOf(db, day, dom) # {} => HasReport(db', day, dom)
  <2>1. ASSUME NEW rec \in RecordsOf(db, day, dom)
        PROVE  \E r \in NewReports(db, day, dom, num, last) : TRUE
    <3>1. rec \in DOMAIN num
      BY DEF Bijection, Injection
    <3> QED BY <3>1 DEF NewReports
  <2> QED BY <1>5, <2>1, NewReportsDay DEF HasReport
<1>7. \A h \in history' : h \in history \/ (h = <<day, dom>> /\ RecordsOf(db, day, dom) # {})
  BY DEF CreateReportFor
<1>8. ASSUME NEW h \in history' PROVE HasReport(db', h[1], h[2]) \/ Gone(db, h[1])
  BY <1>5, <1>6, <1>7 DEF Remembered, HasReport
<1>9. Remembered(db)'
  BY <1>5, <1>8 DEF Remembered, Gone
<1>10. \A p \in NewlyReported : p = <<day, dom>>
  BY <1>1, <1>5, NewReportsDay DEF NewlyReported
<1> QED BY <1>3, <1>5, <1>9, <1>10

\* An empty database has reported nothing.
LEMMA HistoryInit == Init => HistoryInv
BY InitInv DEF Init, HistoryInv, Remembered, EmptyDb

\* A step remembers what was reported, and reports nothing a second time.
LEMMA HistoryNext ==
    ASSUME HistoryInv, KeepDays >= 3, [Next]_vars
    PROVE  /\ Remembered(db)' /\ Remembered(disk)' /\ db'.reports \subseteq disk'.reports
           /\ \A p \in NewlyReported : p \notin history
<1>1. CASE \E now \in {today, today + 1} : CheckDay(now)
  BY <1>1, CheckDayRemembers
<1>2. CASE \E day \in Days, dom \in Domains : CreateReportFor(day, dom)
  BY <1>2, CreateRemembers
<1>3. ASSUME Remembered(db') /\ Remembered(disk'), history' = history, today' \in {today, today + 1},
             db'.reports = db.reports, disk'.reports \in {disk.reports, db.reports},
             db.reports # disk'.reports => disk' = disk
      PROVE  /\ Remembered(db)' /\ Remembered(disk)' /\ db'.reports \subseteq disk'.reports
             /\ NewlyReported = {}
  <2>1. /\ today \in Int /\ today' \in Int /\ today' >= today
        /\ history \subseteq Days \X Domains
    BY <1>3, ReportdAssumption DEF HistoryInv, Inv, TypeOK
  <2>2. Remembered(db)' /\ Remembered(disk)'
    BY <1>3, <2>1, RememberedPrime
  <2> QED BY <1>3, <2>2 DEF NewlyReported, HistoryInv
<1>4. CASE Collect
  <2>1. PICK j \in todo : \/ CollectFails(j) \/ CollectTruncated(j)
                         \/ \E list \in SUBSET Domains : CollectOk(j, list)
    BY <1>4 DEF Collect
  <2>2. history' = history /\ today' = today
    BY <2>1 DEF CollectFails, CollectTruncated, CollectOk, histVars
  <2>3. db.reports # disk'.reports => disk' = disk
    BY <2>1 DEF CollectFails, CollectTruncated, CollectOk, HistoryInv, Inv, TypeOK, Database
  <2> QED BY <1>3, <2>1, <2>2, <2>3, CollectRemembers
<1>5. CASE Fetch
  <2>1. PICK x \in todo : FetchFails(x) \/ \E payload \in Payloads : FetchOk(x, payload)
    BY <1>5 DEF Fetch
  <2>2. history' = history /\ today' = today /\ (disk' = disk \/ disk' = db')
    BY <2>1 DEF FetchFails, FetchOk, histVars, dbVars
  <2> QED BY <1>3, <2>1, <2>2, FetchRemembers
<1>6. CASE \/ \E day \in Days, dom \in Domains : CreateReportDies(day, dom)
           \/ \E x \in todo : DeliverDies(x)
  <2>1. db' = disk /\ disk' = disk /\ db = disk /\ history' = history /\ today' = today
    BY <1>6 DEF CreateReportDies, DeliverDies, histVars, HistoryInv, Inv, PhaseInv
  <2> QED BY <1>3, <2>1 DEF HistoryInv
<1>7. CASE RecordDelivery
  <2>1. /\ disk' = db' /\ history' = history /\ today' = today
        /\ db'.jobs = db.jobs /\ db'.data = db.data /\ db'.reports = db.reports
    BY <1>7 DEF RecordDelivery, histVars, HistoryInv, Inv, TypeOK, Database
  <2>2. Remembered(db')
    BY <2>1, RememberedGrows DEF HistoryInv
  <2> QED BY <1>3, <2>1, <2>2
<1>8. CASE \/ EndCollect \/ EndFetch \/ EndCreate \/ EndSend \/ WakeUp \/ Restart
           \/ \E x \in todo, outcome \in {"succeeded", "failed", "late", "unknownrua"} :
                Deliver(x, outcome)
           \/ FetcherHangs \/ ScriptHangs \/ Shutdown \/ NextDay \/ UNCHANGED vars
  <2>1. /\ db' = db /\ (disk' = disk \/ disk' = db)
        /\ history' = history /\ today' \in {today, today + 1}
    BY <1>8 DEF EndCollect, EndFetch, EndCreate, Deliver, EndSend, WakeUp, Restart,
                FetcherHangs, ScriptHangs, Shutdown, NextDay, vars, dbVars, histVars
  <2> QED BY <1>3, <2>1 DEF HistoryInv
<1>9. CASE Crash
  <2>1. db' = disk /\ disk' = disk /\ history' = history /\ today' = today
    BY <1>9 DEF Crash
  <2>2. Remembered(db)' /\ Remembered(disk)'
    BY <2>1 DEF HistoryInv, Remembered, Gone
  <2> QED BY <2>1, <2>2 DEF NewlyReported
<1> QED
  BY <1>1, <1>2, <1>4, <1>5, <1>6, <1>7, <1>8, <1>9 DEF Next, Step, Create, Send

\* With keep_days of at least 3, no domain is reported twice for a day.
THEOREM ReportsOnlyOnce == KeepDays >= 3 => (Spec => ReportedOnce)
<1> SUFFICES ASSUME KeepDays >= 3 PROVE Spec => ReportedOnce
  OBVIOUS
<1>1. HistoryInv /\ [Next]_vars => HistoryInv'
  BY HistoryNext, NextInv DEF HistoryInv
<1>2. HistoryInv /\ [Next]_vars =>
        [\A r \in disk'.reports \ disk.reports : <<r.day, r.domain>> \notin history]_vars
  BY HistoryNext DEF NewlyReported
<1> QED BY HistoryInit, <1>1, <1>2, PTL DEF Spec, ReportedOnce
============================================================================

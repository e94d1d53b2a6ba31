----------------------- MODULE ReportdDeliveryProofs -----------------------
(***************************************************************************)
(* Proof that Reportd accounts for its deliveries: a destination gets a    *)
(* report again only if the daemon could not know that it had it.          *)
(*                                                                         *)
(* The copies that were handed over are counted per day, domain, record    *)
(* and destination, the rows of the table destinations are known by their  *)
(* destination and the id of a report.  The two belong together as long as *)
(* no two rows stand for the same report and destination; and none does    *)
(* even when its day was deleted, for a day is never reported twice.       *)
(***************************************************************************)
EXTENDS ReportdProofs

\* What is counted for a destination of a report.
KeyOf(r, x) == <<r.day, r.domain, r.record, x.dest>>

\* No two rows are about the same thing.
RowsApart(D) ==
    /\ \A r, q \in D.reports :
          r.day = q.day /\ r.domain = q.domain /\ r.record = q.record => r = q
    /\ \A x, y \in D.dests : x.dest = y.dest /\ x.rid = y.rid => x = y

InHistory(D) == \A r \in D.reports : <<r.day, r.domain>> \in history

\* A row that is pending has not got its report, but for what the daemon could not
\* know - or what it is about to record.
PendingNotHanded(D) ==
    \A x \in Pending(D.dests), r \in D.reports :
        x.rid = r.rid /\ ~(answer # NoAnswer /\ x = answer.row)
            => copies[KeyOf(r, x)] <= excused[KeyOf(r, x)]

SentHanded(D) ==
    \A x \in D.dests, r \in D.reports :
        x.status = "sent" /\ x.rid = r.rid => copies[KeyOf(r, x)] > 0

DestsInv(D) == RowsApart(D) /\ InHistory(D) /\ PendingNotHanded(D) /\ SentHanded(D)

\* The outcome that is not recorded yet.
AnswerInv ==
    answer # NoAnswer =>
        \A r \in db.reports : r.rid = answer.row.rid =>
            IF answer.outcome = "succeeded"
            THEN /\ copies[KeyOf(r, answer.row)] > 0
                 /\ copies[KeyOf(r, answer.row)] <= 1 + excused[KeyOf(r, answer.row)]
            ELSE copies[KeyOf(r, answer.row)] <= excused[KeyOf(r, answer.row)]

CopiesInv ==
    /\ \A k \in Key : copies[k] <= 1 + excused[k]
    /\ \A k \in Key : copies[k] > 0 => <<k[1], k[2]>> \in history

DeliveryInv ==
    /\ HistoryInv
    /\ DestsInv(db)
    /\ DestsInv(disk)
    /\ AnswerInv
    /\ CopiesInv

----------------------------------------------------------------------------
(* Keys and rows.                                                          *)

\* The key of a row and its report is a key.
LEMMA KeyType ==
    ASSUME NEW D \in Database, NEW r \in D.reports, NEW x \in D.dests
    PROVE  KeyOf(r, x) \in Key
BY DEF KeyOf, Key, Database, ReportRow, DestRow

\* A row of destinations has the one key of its report.
LEMMA OneKey ==
    ASSUME Inv, NEW x \in db.dests
    PROVE  /\ \A k : k \in KeysOf(x) <=> \E r \in db.reports : r.rid = x.rid /\ k = KeyOf(r, x)
           /\ \A r \in db.reports : r.rid = x.rid => KeysOf(x) = {KeyOf(r, x)}
<1>1. \A k : k \in KeysOf(x) <=> \E r \in db.reports : r.rid = x.rid /\ k = KeyOf(r, x)
  BY DEF KeysOf, KeyOf
<1>2. \A r, q \in db.reports : r.rid = q.rid => r = q
  BY DEF Inv, Consistent, ReportIds
<1> QED BY <1>1, <1>2

\* Two rows of destinations never have the same.
LEMMA KeysApart ==
    ASSUME NEW D, RowsApart(D), NEW x \in D.dests, NEW y \in D.dests,
           NEW r \in D.reports, NEW q \in D.reports,
           x.rid = r.rid, y.rid = q.rid, KeyOf(r, x) = KeyOf(q, y)
    PROVE  x = y
<1>1. r.day = q.day /\ r.domain = q.domain /\ r.record = q.record /\ x.dest = y.dest
  BY DEF KeyOf
<1>2. r = q
  BY <1>1 DEF RowsApart
<1> QED BY <1>1, <1>2 DEF RowsApart

\* Bump counts the keys it is given, and no other.
LEMMA BumpValue ==
    ASSUME NEW f \in [Key -> Nat], NEW keys, NEW k \in Key
    PROVE  /\ k \in keys => Bump(f, keys)[k] = f[k] + 1
           /\ k \notin keys => Bump(f, keys)[k] = f[k]
           /\ f[k] \in Nat /\ Bump(f, keys)[k] \in Nat /\ Bump(f, keys)[k] >= f[k]
BY DEF Bump

\* Rows that are there no more spoil nothing.
LEMMA FewerDests ==
    ASSUME NEW C, NEW D, DestsInv(D), C.reports \subseteq D.reports, C.dests \subseteq D.dests
    PROVE  DestsInv(C)
BY DEF DestsInv, RowsApart, InHistory, PendingNotHanded, SentHanded, Pending

\* What holds of a database goes on to hold while the counts stand.
LEMMA DestsPrime ==
    ASSUME NEW C, DestsInv(C), history \subseteq history',
           answer' = answer \/ answer = NoAnswer, copies' = copies, excused' = excused
    PROVE  /\ RowsApart(C)
           /\ \A r \in C.reports : <<r.day, r.domain>> \in history'
           /\ \A x \in Pending(C.dests), r \in C.reports :
                x.rid = r.rid /\ ~(answer' # NoAnswer /\ x = answer'.row)
                    => copies'[KeyOf(r, x)] <= excused'[KeyOf(r, x)]
           /\ \A x \in C.dests, r \in C.reports :
                x.status = "sent" /\ x.rid = r.rid => copies'[KeyOf(r, x)] > 0
BY DEF DestsInv, InHistory, PendingNotHanded, SentHanded

\* The counts and the rows they are about stand.
LEMMA DeliveryStands ==
    ASSUME DeliveryInv, DestsInv(db'), DestsInv(disk'),
           answer' = answer, history' = history, copies' = copies, excused' = excused,
           answer # NoAnswer => db'.reports = db.reports
    PROVE  DestsInv(db)' /\ DestsInv(disk)' /\ AnswerInv' /\ CopiesInv'
<1>1. DestsInv(db)'
  BY DestsPrime DEF DestsInv, RowsApart, InHistory, PendingNotHanded, SentHanded
<1>2. DestsInv(disk)'
  BY DestsPrime DEF DestsInv, RowsApart, InHistory, PendingNotHanded, SentHanded
<1>3. AnswerInv'
  BY DEF DeliveryInv, AnswerInv
<1>4. CopiesInv'
  BY DEF DeliveryInv, CopiesInv
<1> QED BY <1>1, <1>2, <1>3, <1>4

----------------------------------------------------------------------------
(* The steps.                                                              *)

\* Destinations go with their reports.
LEMMA CheckDayDelivery ==
    ASSUME DeliveryInv, NEW now \in {today, today + 1}, CheckDay(now)
    PROVE  DestsInv(db)' /\ DestsInv(disk)' /\ AnswerInv' /\ CopiesInv'
<1> DEFINE D == CleanUp(db, now)
<1>1. /\ answer = NoAnswer /\ answer' = answer
      /\ history' = history /\ copies' = copies /\ excused' = excused
  BY DEF CheckDay, DeliveryInv, HistoryInv, Inv, PhaseInv, histVars
<1>2. D.reports \subseteq db.reports /\ D.dests \subseteq db.dests
  BY DEF CleanUp
<1>3. db'.reports = D.reports /\ db'.dests = D.dests
  <2>1. CASE db' = D
    BY <2>1
  <2>2. CASE db' = [D EXCEPT !.jobs = @ \cup NewJobs(today - 1)]
    BY <2>2 DEF CleanUp
  <2> QED BY <2>1, <2>2 DEF CheckDay
<1>4. DestsInv(db')
  BY <1>2, <1>3, FewerDests DEF DeliveryInv
<1>5. disk' = disk \/ disk' = db'
  BY DEF CheckDay
<1>6. DestsInv(disk')
  BY <1>4, <1>5 DEF DeliveryInv
<1> QED BY <1>1, <1>4, <1>6, DeliveryStands

\* Collecting and fetching make no report, and no destination.
LEMMA GatherDelivery ==
    ASSUME DeliveryInv, Collect \/ Fetch
    PROVE  DestsInv(db)' /\ DestsInv(disk)' /\ AnswerInv' /\ CopiesInv'
<1>1. /\ db \in Database /\ disk \in Database
      /\ answer = NoAnswer /\ answer' = answer
      /\ history' = history /\ copies' = copies /\ excused' = excused
  BY DEF Collect, CollectFails, CollectTruncated, CollectOk, Collecting, Fetch, FetchFails, FetchOk,
         DeliveryInv, HistoryInv, Inv, PhaseInv, TypeOK, histVars
<1>2. /\ \E D \in {db, disk} : db'.reports = D.reports /\ db'.dests = D.dests
      /\ \E D \in {db, disk} : disk'.reports = D.reports /\ disk'.dests = D.dests
  BY <1>1 DEF Collect, CollectFails, CollectTruncated, CollectOk, Fetch, FetchFails, FetchOk,
              Database, dbVars
<1>3. DestsInv(db') /\ DestsInv(disk')
  BY <1>2, FewerDests DEF DeliveryInv
<1> QED BY <1>1, <1>3, DeliveryStands

\* A report that is created was never handed over: its day is not in the history.
LEMMA CreateDelivery ==
    ASSUME DeliveryInv, NEW day \in Days, NEW dom \in Domains, CreateReportFor(day, dom)
    PROVE  DestsInv(db)' /\ DestsInv(disk)' /\ AnswerInv' /\ CopiesInv'
<1> DEFINE recs == RecordsOf(db, day, dom)
<1> USE DEF DeliveryInv
<1>1. /\ <<day, dom>> \in Reportable(db) /\ answer = NoAnswer /\ answer' = answer
      /\ disk' = db' /\ db \in Database
      /\ copies' = copies /\ excused' = excused
      /\ history' = IF recs = {} THEN history ELSE history \cup {<<day, dom>>}
      /\ copies \in [Key -> Nat] /\ excused \in [Key -> Nat]
      /\ ReportIds(db)
  BY DEF CreateReportFor, HistoryInv, Inv, PhaseInv, TypeOK, Consistent
<1>2. ~HasReport(db, day, dom) /\ \E x \in db.data : x.day = day
  BY <1>1 DEF Reportable, Fetched, Rows
<1>3. <<day, dom>> \notin history
  BY <1>2 DEF HistoryInv, Remembered, Gone
<1>4. PICK num \in Bijection(recs, 1 .. Cardinality(recs)), last \in {0} \cup {r.rid : r \in db.reports} :
        /\ \A r \in db.reports : r.rid <= last
        /\ db' = [db EXCEPT !.reports = @ \cup NewReports(db, day, dom, num, last),
                            !.dests = @ \cup NewDests(num, last)]
  BY DEF CreateReportFor
<1> DEFINE N == NewReports(db, day, dom, num, last)
           M == NewDests(num, last)
<1>5. db'.reports = db.reports \cup N /\ db'.dests = db.dests \cup M
  BY <1>1, <1>4 DEF Database
<1>6. /\ DOMAIN num = recs
      /\ \A rec \in recs : num[rec] \in Int /\ num[rec] > 0
      /\ \A p, q \in recs : num[p] = num[q] => p = q
      /\ last \in Int
      /\ \A r \in db.reports : r.rid \in Int
  <2>1. recs \subseteq Records /\ IsFiniteSet(recs)
    <3>1. \A x \in db.data : x.data # NULL => DOMAIN x.data \subseteq Records
      BY <1>1, ReportdAssumption DEF Database, DataRow
    <3>2. recs \subseteq Records
      BY <3>1 DEF RecordsOf, Fetched, Rows
    <3> QED BY <3>2, FS_Subset, ReportdAssumption
  <2>2. Cardinality(recs) \in Nat
    BY <2>1, FS_CardinalityType
  <2> QED BY <1>1, <2>2 DEF Bijection, Injection, IsInjective, Database, ReportRow
<1>7. /\ \A r \in N : /\ r.day = day /\ r.domain = dom
                      /\ \E rec \in recs : r.rid = last + num[rec] /\ r.record = rec
      /\ \A r, q \in N : r.record = q.record => r = q
  <2> DEFINE count == Cardinality({r \in db.reports : r.day = day /\ r.domain = dom})
  <2>1. N = {[rid |-> last + num[rec], day |-> day, domain |-> dom, uniqid |-> count + num[rec],
              record |-> rec, shares |-> Shares(db, day, dom, rec)] : rec \in recs}
    BY <1>6 DEF NewReports
  <2> HIDE DEF count, N, recs
  <2> QED BY <2>1
<1>8. \A x \in M : /\ x.status = NULL
                   /\ \E rec \in recs : x.rid = last + num[rec]
                   /\ x = [dest |-> x.dest, rid |-> x.rid, retries |-> 0, status |-> NULL]
  BY <1>6 DEF NewDests
<1> HIDE DEF N, M, recs
<1>9. \A r \in N : r.rid \in Int /\ r.rid > last
  BY <1>6, <1>7
<1>10. \A x \in M : x.rid \in Int /\ x.rid > last
  BY <1>6, <1>8
<1>11. \A x \in db.dests : x.rid \in Int /\ x.rid <= last
  BY <1>1, <1>4, <1>6 DEF ReportIds
<1>12. RowsApart(db')
  <2>1. ASSUME NEW r \in db'.reports, NEW q \in db'.reports,
               r.day = q.day, r.domain = q.domain, r.record = q.record
        PROVE  r = q
    <3>1. CASE r \in db.reports /\ q \in db.reports
      BY <2>1, <3>1 DEF DestsInv, RowsApart
    <3>2. CASE r \in N /\ q \in N
      BY <1>7, <2>1, <3>2
    <3>3. ASSUME NEW a \in db.reports, NEW b \in N PROVE ~(a.day = b.day /\ a.domain = b.domain)
      BY <1>2, <1>7 DEF HasReport
    <3> QED BY <1>5, <2>1, <3>1, <3>2, <3>3
  <2>2. ASSUME NEW x \in db'.dests, NEW y \in db'.dests, x.dest = y.dest, x.rid = y.rid
        PROVE  x = y
    <3>1. CASE x \in db.dests /\ y \in db.dests
      BY <2>2, <3>1 DEF DestsInv, RowsApart
    <3>2. CASE x \in M /\ y \in M
      BY <1>8, <2>2, <3>2
    <3>3. ASSUME NEW a \in db.dests, NEW b \in M PROVE a.rid # b.rid
      BY <1>6, <1>10, <1>11
    <3> QED BY <1>5, <2>2, <3>1, <3>2, <3>3
  <2> QED BY <2>1, <2>2 DEF RowsApart
<1>13. recs # {} => <<day, dom>> \in history'
  BY <1>1
<1>14. history \subseteq history'
  BY <1>1
<1>15. \A r \in db'.reports : <<r.day, r.domain>> \in history'
  BY <1>5, <1>7, <1>13, <1>14 DEF DestsInv, InHistory
<1>16. \A x \in db'.dests, r \in db'.reports :
          x.rid = r.rid => (x \in db.dests /\ r \in db.reports) \/ (x \in M /\ r \in N)
  <2>1. \A x \in db.dests, r \in N : x.rid # r.rid
    BY <1>6, <1>9, <1>11
  <2>2. \A x \in M, r \in db.reports : x.rid # r.rid
    BY <1>4, <1>6, <1>10
  <2> QED BY <1>5, <2>1, <2>2
<1>17. db' \in Database
  BY CreateInv DEF HistoryInv, Inv, TypeOK
<1>18. ASSUME NEW x \in M, NEW r \in N PROVE copies[KeyOf(r, x)] = 0 /\ excused[KeyOf(r, x)] \in Nat
  <2>1. KeyOf(r, x) \in Key
    BY <1>5, <1>17, KeyType
  <2>2. KeyOf(r, x)[1] = day /\ KeyOf(r, x)[2] = dom
    BY <1>7 DEF KeyOf
  <2> QED BY <1>1, <1>3, <2>1, <2>2 DEF CopiesInv
<1>19. \A x \in Pending(db'.dests), r \in db'.reports :
          x.rid = r.rid => copies'[KeyOf(r, x)] <= excused'[KeyOf(r, x)]
  BY <1>1, <1>16, <1>18 DEF DestsInv, PendingNotHanded, Pending
<1>20. \A x \in db'.dests, r \in db'.reports :
          x.status = "sent" /\ x.rid = r.rid => copies'[KeyOf(r, x)] > 0
  BY <1>1, <1>8, <1>16, ReportdAssumption DEF DestsInv, SentHanded
<1>21. DestsInv(db)'
  BY <1>12, <1>15, <1>19, <1>20 DEF DestsInv, InHistory, PendingNotHanded, SentHanded, RowsApart
<1>22. DestsInv(disk)'
  BY <1>1, <1>21 DEF DestsInv, InHistory, PendingNotHanded, SentHanded, RowsApart
<1>23. AnswerInv' /\ CopiesInv'
  BY <1>1, <1>14 DEF AnswerInv, CopiesInv
<1> QED BY <1>21, <1>22, <1>23

\* A report is handed over for a row that is pending, hence for the first time as far as
\* the daemon knows.
LEMMA DeliverDelivery ==
    ASSUME DeliveryInv, NEW x \in todo, NEW outcome \in {"succeeded", "failed", "late", "unknownrua"},
           Deliver(x, outcome)
    PROVE  DestsInv(db)' /\ DestsInv(disk)' /\ AnswerInv' /\ CopiesInv'
<1> USE DEF DeliveryInv
<1>1. /\ answer = NoAnswer /\ answer' = [row |-> x, outcome |-> outcome]
      /\ x \in Pending(db.dests) /\ db = disk /\ db' = db /\ disk' = disk /\ db \in Database
      /\ history' = history /\ Inv
      /\ copies \in [Key -> Nat] /\ excused \in [Key -> Nat]
  BY DEF Deliver, HistoryInv, Inv, PhaseInv, TypeOK, dbVars
<1>2. x \in db.dests
  BY <1>1 DEF Pending
<1>3. answer' # NoAnswer
  <2>1. NULL # outcome
    BY ReportdAssumption
  <2> QED BY <1>1, <2>1 DEF NoAnswer
<1>4. /\ copies' = IF outcome \in {"succeeded", "late"} THEN Bump(copies, KeysOf(x)) ELSE copies
      /\ excused' = IF outcome = "late" THEN Bump(excused, KeysOf(x)) ELSE excused
  BY DEF Deliver
<1>5. ASSUME NEW k \in Key, k \notin KeysOf(x)
      PROVE  copies'[k] = copies[k] /\ excused'[k] = excused[k]
  BY <1>1, <1>4, <1>5, BumpValue
<1>6. ASSUME NEW k \in Key
      PROVE  copies'[k] >= copies[k] /\ copies'[k] \in Nat /\ copies[k] \in Nat
  BY <1>1, <1>4, BumpValue
<1>7. ASSUME NEW r \in db.reports, r.rid = x.rid
      PROVE  /\ KeyOf(r, x) \in Key
             /\ copies[KeyOf(r, x)] <= excused[KeyOf(r, x)]
             /\ IF outcome = "succeeded"
                THEN /\ copies'[KeyOf(r, x)] > 0
                     /\ copies'[KeyOf(r, x)] <= 1 + excused'[KeyOf(r, x)]
                ELSE copies'[KeyOf(r, x)] <= excused'[KeyOf(r, x)]
  <2>1. KeyOf(r, x) \in Key /\ KeyOf(r, x) \in KeysOf(x)
    BY <1>1, <1>2, <1>7, KeyType, OneKey
  <2>2. copies[KeyOf(r, x)] <= excused[KeyOf(r, x)]
    BY <1>1, <1>7 DEF DestsInv, PendingNotHanded
  <2>3. /\ Bump(copies, KeysOf(x))[KeyOf(r, x)] = copies[KeyOf(r, x)] + 1
        /\ Bump(excused, KeysOf(x))[KeyOf(r, x)] = excused[KeyOf(r, x)] + 1
        /\ copies[KeyOf(r, x)] \in Nat /\ excused[KeyOf(r, x)] \in Nat
    BY <1>1, <2>1, BumpValue
  <2> QED BY <1>4, <2>1, <2>2, <2>3
<1>8. ASSUME NEW y \in db.dests, NEW q \in db.reports, y.rid = q.rid, y # x
      PROVE  KeyOf(q, y) \in Key /\ KeyOf(q, y) \notin KeysOf(x)
  <2>1. KeyOf(q, y) \in Key
    BY <1>1, KeyType
  <2>2. ASSUME KeyOf(q, y) \in KeysOf(x) PROVE FALSE
    <3>1. PICK r \in db.reports : r.rid = x.rid /\ KeyOf(q, y) = KeyOf(r, x)
      BY <1>1, <1>2, <2>2, OneKey
    <3> QED BY <1>2, <1>8, <3>1, KeysApart DEF DestsInv
  <2> QED BY <2>1, <2>2
<1>9. \A y \in Pending(db.dests), q \in db.reports :
         y.rid = q.rid /\ y # x => copies'[KeyOf(q, y)] <= excused'[KeyOf(q, y)]
  <2> SUFFICES ASSUME NEW y \in Pending(db.dests), NEW q \in db.reports, y.rid = q.rid, y # x
               PROVE  copies'[KeyOf(q, y)] <= excused'[KeyOf(q, y)]
    OBVIOUS
  <2>1. copies[KeyOf(q, y)] <= excused[KeyOf(q, y)]
    BY <1>1 DEF DestsInv, PendingNotHanded
  <2> QED BY <1>5, <1>8, <2>1 DEF Pending
<1>10. \A y \in db.dests, q \in db.reports :
         y.status = "sent" /\ y.rid = q.rid => copies'[KeyOf(q, y)] > 0
  <2> SUFFICES ASSUME NEW y \in db.dests, NEW q \in db.reports, y.status = "sent", y.rid = q.rid
               PROVE  copies'[KeyOf(q, y)] > 0
    OBVIOUS
  <2>1. copies[KeyOf(q, y)] > 0 /\ KeyOf(q, y) \in Key
    BY <1>1, KeyType DEF DestsInv, SentHanded
  <2> QED BY <1>6, <2>1
<1>11. DestsInv(db)'
  BY <1>1, <1>3, <1>9, <1>10 DEF DestsInv, RowsApart, InHistory, PendingNotHanded, SentHanded
<1>12. DestsInv(disk)'
  BY <1>1, <1>11 DEF DestsInv, RowsApart, InHistory, PendingNotHanded, SentHanded
<1>13. AnswerInv'
  BY <1>1, <1>7 DEF AnswerInv
<1>14. \A k \in Key : copies'[k] <= 1 + excused'[k]
  <2> SUFFICES ASSUME NEW k \in Key PROVE copies'[k] <= 1 + excused'[k]
    OBVIOUS
  <2>1. CASE k \in KeysOf(x)
    <3>1. PICK r \in db.reports : r.rid = x.rid /\ k = KeyOf(r, x)
      BY <1>1, <1>2, <2>1, OneKey
    <3>2. excused'[k] \in Nat /\ copies'[k] \in Nat
      BY <1>1, <1>4, BumpValue
    <3> QED BY <1>7, <3>1, <3>2
  <2>2. CASE k \notin KeysOf(x)
    BY <1>5, <2>2 DEF CopiesInv
  <2> QED BY <2>1, <2>2
<1>15. \A k \in Key : copies'[k] > 0 => <<k[1], k[2]>> \in history'
  <2> SUFFICES ASSUME NEW k \in Key, copies'[k] > 0 PROVE <<k[1], k[2]>> \in history'
    OBVIOUS
  <2>1. CASE k \in KeysOf(x)
    <3>1. PICK r \in db.reports : r.rid = x.rid /\ k = KeyOf(r, x)
      BY <1>1, <1>2, <2>1, OneKey
    <3> QED BY <1>1, <3>1 DEF DestsInv, InHistory, KeyOf
  <2>2. CASE k \notin KeysOf(x)
    BY <1>1, <1>5, <2>2 DEF CopiesInv
  <2> QED BY <2>1, <2>2
<1> QED BY <1>11, <1>12, <1>13, <1>14, <1>15 DEF CopiesInv

\* The outcome says what the counts say, so the row may be pending or sent accordingly.
LEMMA RecordedStatus ==
    ASSUME NEW x \in DestRow, x.status = NULL, NEW outcome
    PROVE  /\ Recorded(x, outcome).rid = x.rid /\ Recorded(x, outcome).dest = x.dest
           /\ Recorded(x, outcome).status = "sent" => outcome = "succeeded"
           /\ outcome = "succeeded" => Recorded(x, outcome).status # NULL
BY ReportdAssumption DEF Recorded, RetryOrTimeout, DestRow

\* What is recorded is what was counted.
LEMMA RecordDeliveryDelivery ==
    ASSUME DeliveryInv, RecordDelivery
    PROVE  DestsInv(db)' /\ DestsInv(disk)' /\ AnswerInv' /\ CopiesInv'
<1> DEFINE x == answer.row
           y == Recorded(x, answer.outcome)
<1> USE DEF DeliveryInv
<1>1. /\ answer # NoAnswer /\ answer' = NoAnswer
      /\ x \in Pending(db.dests) /\ db \in Database
      /\ history' = history /\ copies' = copies /\ excused' = excused
      /\ db' = [db EXCEPT !.dests = Replace(@, x, y)] /\ disk' = db'
  BY DEF RecordDelivery, HistoryInv, Inv, PhaseInv, TypeOK, histVars
<1>2. x \in db.dests /\ x \in DestRow /\ x.status = NULL
  BY <1>1 DEF Pending, Database
<1>3. /\ y.rid = x.rid /\ y.dest = x.dest
      /\ y.status = "sent" => answer.outcome = "succeeded"
      /\ answer.outcome = "succeeded" => y.status # NULL
  BY <1>2, RecordedStatus
<1>4. db'.dests = (db.dests \ {x}) \cup {y} /\ db'.reports = db.reports
  BY <1>1 DEF Database, Replace
<1> HIDE DEF x, y
<1>5. \A r : KeyOf(r, y) = KeyOf(r, x)
  BY <1>3 DEF KeyOf
<1>6. RowsApart(db')
  <2>1. ASSUME NEW a \in db.dests, a # x PROVE ~(a.dest = y.dest /\ a.rid = y.rid)
    BY <1>2, <1>3, <2>1 DEF DestsInv, RowsApart
  <2> QED BY <1>4, <2>1 DEF DestsInv, RowsApart
<1>7. ASSUME NEW z \in Pending(db'.dests), NEW r \in db'.reports, z.rid = r.rid
      PROVE  copies'[KeyOf(r, z)] <= excused'[KeyOf(r, z)]
  <2>1. CASE z = y
    <3>1. answer.outcome # "succeeded"
      BY <1>3, <1>7, <2>1 DEF Pending
    <3> QED BY <1>1, <1>3, <1>4, <1>5, <1>7, <2>1, <3>1 DEF AnswerInv, x
  <2>2. CASE z # y
    <3>1. z \in Pending(db.dests) /\ z # x
      BY <1>4, <2>2 DEF Pending
    <3> QED BY <1>1, <1>4, <1>7, <3>1 DEF DestsInv, PendingNotHanded, x
  <2> QED BY <2>1, <2>2
<1>8. ASSUME NEW z \in db'.dests, NEW r \in db'.reports, z.status = "sent", z.rid = r.rid
      PROVE  copies'[KeyOf(r, z)] > 0
  <2>1. CASE z = y
    BY <1>1, <1>3, <1>4, <1>5, <1>8, <2>1 DEF AnswerInv, x
  <2>2. CASE z # y
    BY <1>1, <1>4, <1>8, <2>2 DEF DestsInv, SentHanded
  <2> QED BY <2>1, <2>2
<1>9. DestsInv(db)'
  BY <1>1, <1>4, <1>6, <1>7, <1>8 DEF DestsInv, RowsApart, InHistory, PendingNotHanded, SentHanded
<1>10. DestsInv(disk)'
  BY <1>1, <1>9 DEF DestsInv, RowsApart, InHistory, PendingNotHanded, SentHanded
<1>11. AnswerInv' /\ CopiesInv'
  BY <1>1 DEF AnswerInv, CopiesInv
<1> QED BY <1>9, <1>10, <1>11

\* A crash forgets the outcome; a success it forgot is excused.
LEMMA CrashDelivery ==
    ASSUME DeliveryInv, Crash
    PROVE  DestsInv(db)' /\ DestsInv(disk)' /\ AnswerInv' /\ CopiesInv'
<1> USE DEF DeliveryInv
<1>1. /\ db' = disk /\ disk' = disk /\ answer' = NoAnswer
      /\ history' = history /\ copies' = copies /\ disk \in Database /\ Inv
      /\ copies \in [Key -> Nat] /\ excused \in [Key -> Nat]
  BY DEF Crash, HistoryInv, Inv, TypeOK
<1>2. ASSUME NEW k \in Key PROVE excused'[k] >= excused[k] /\ excused'[k] \in Nat /\ excused[k] \in Nat
                                 /\ copies[k] \in Nat
  BY <1>1, BumpValue DEF Crash
<1>3. ASSUME NEW z \in Pending(disk.dests), NEW r \in disk.reports, z.rid = r.rid
      PROVE  copies[KeyOf(r, z)] <= excused'[KeyOf(r, z)]
  <2>1. KeyOf(r, z) \in Key
    BY <1>1, KeyType DEF Pending
  <2>2. CASE answer # NoAnswer /\ z = answer.row
    <3>1. db = disk /\ z \in db.dests
      BY <2>2 DEF HistoryInv, Inv, PhaseInv, Pending
    <3>2. CASE answer.outcome = "succeeded"
      <4>1. KeyOf(r, z) \in KeysOf(z)
        BY <1>1, <1>3, <3>1, OneKey
      <4>2. excused'[KeyOf(r, z)] = excused[KeyOf(r, z)] + 1
        BY <1>1, <2>1, <2>2, <3>2, <4>1, BumpValue DEF Crash
      <4>3. copies[KeyOf(r, z)] <= 1 + excused[KeyOf(r, z)]
        BY <2>1 DEF CopiesInv
      <4> QED BY <1>2, <2>1, <4>2, <4>3
    <3>3. CASE answer.outcome # "succeeded"
      <4>1. copies[KeyOf(r, z)] <= excused[KeyOf(r, z)]
        BY <1>3, <2>2, <3>1, <3>3 DEF AnswerInv
      <4> QED BY <1>2, <2>1, <4>1
    <3> QED BY <3>2, <3>3
  <2>3. CASE ~(answer # NoAnswer /\ z = answer.row)
    <3>1. copies[KeyOf(r, z)] <= excused[KeyOf(r, z)]
      BY <1>3, <2>3 DEF DestsInv, PendingNotHanded
    <3> QED BY <1>2, <2>1, <3>1
  <2> QED BY <2>2, <2>3
<1>4. DestsInv(disk)'
  BY <1>1, <1>3 DEF DestsInv, RowsApart, InHistory, PendingNotHanded, SentHanded
<1>5. DestsInv(db)'
  BY <1>1, <1>4 DEF DestsInv, RowsApart, InHistory, PendingNotHanded, SentHanded
<1>6. CopiesInv'
  BY <1>1, <1>2 DEF CopiesInv
<1> QED BY <1>1, <1>4, <1>5, <1>6 DEF AnswerInv

\* The other steps hand nothing over.
LEMMA OtherDelivery ==
    ASSUME DeliveryInv,
           \/ EndCollect \/ EndFetch \/ EndCreate \/ EndSend \/ WakeUp \/ Restart
           \/ FetcherHangs \/ ScriptHangs \/ Shutdown \/ NextDay \/ UNCHANGED vars
           \/ \E day \in Days, dom \in Domains : CreateReportDies(day, dom)
           \/ \E x \in todo : DeliverDies(x)
    PROVE  DestsInv(db)' /\ DestsInv(disk)' /\ AnswerInv' /\ CopiesInv'
<1>1. /\ db' \in {db, disk} /\ disk' \in {db, disk} /\ answer' = answer
      /\ history' = history /\ copies' = copies /\ excused' = excused
      /\ answer # NoAnswer => db' = db
  BY DEF EndCollect, EndFetch, EndCreate, EndSend, WakeUp, Restart, FetcherHangs, ScriptHangs,
         Shutdown, NextDay, CreateReportDies, DeliverDies, vars, dbVars, histVars, DeliveryInv, HistoryInv, Inv, PhaseInv
<1>2. DestsInv(db') /\ DestsInv(disk')
  BY <1>1 DEF DeliveryInv
<1> QED BY <1>1, <1>2, DeliveryStands

\* Nothing was handed over yet.
LEMMA DeliveryInit == Init => DeliveryInv
<1> SUFFICES ASSUME Init PROVE DeliveryInv
  OBVIOUS
<1>1. db = EmptyDb /\ disk = EmptyDb /\ answer = NoAnswer
      /\ \A k \in Key : copies[k] = 0 /\ excused[k] = 0
  BY DEF Init
<1>2. DestsInv(EmptyDb)
  BY DEF EmptyDb, DestsInv, RowsApart, InHistory, PendingNotHanded, SentHanded, Pending
<1> QED BY <1>1, <1>2, HistoryInit DEF DeliveryInv, AnswerInv, CopiesInv

\* Every step accounts for what it hands over.
LEMMA DeliveryNext == KeepDays >= 3 /\ DeliveryInv /\ [Next]_vars => DeliveryInv'
<1> SUFFICES ASSUME KeepDays >= 3, DeliveryInv, [Next]_vars PROVE DeliveryInv'
  OBVIOUS
<1>1. HistoryInv'
  BY HistoryNext, NextInv DEF HistoryInv, DeliveryInv
<1>2. CASE \E now \in {today, today + 1} : CheckDay(now)
  BY <1>1, <1>2, CheckDayDelivery DEF DeliveryInv
<1>3. CASE Collect \/ Fetch
  BY <1>1, <1>3, GatherDelivery DEF DeliveryInv
<1>4. CASE \E day \in Days, dom \in Domains : CreateReportFor(day, dom)
  BY <1>1, <1>4, CreateDelivery DEF DeliveryInv
<1>5. CASE \E x \in todo, outcome \in {"succeeded", "failed", "late", "unknownrua"} :
             Deliver(x, outcome)
  BY <1>1, <1>5, DeliverDelivery DEF DeliveryInv
<1>6. CASE RecordDelivery
  BY <1>1, <1>6, RecordDeliveryDelivery DEF DeliveryInv
<1>7. CASE Crash
  BY <1>1, <1>7, CrashDelivery DEF DeliveryInv
<1>8. CASE \/ EndCollect \/ EndFetch \/ EndCreate \/ EndSend \/ WakeUp \/ Restart
           \/ FetcherHangs \/ ScriptHangs \/ Shutdown \/ NextDay \/ UNCHANGED vars
           \/ \E day \in Days, dom \in Domains : CreateReportDies(day, dom)
           \/ \E x \in todo : DeliverDies(x)
  BY <1>1, <1>8, OtherDelivery DEF DeliveryInv
<1> QED BY <1>2, <1>3, <1>4, <1>5, <1>6, <1>7, <1>8 DEF Next, Step, Create, Send

\* No destination gets a report more often than the daemon can be excused for, and none
\* is marked `sent' that got none, if at least three days are kept.
THEOREM DeliveriesAccounted == KeepDays >= 3 => (Spec => []DeliveriesAccountedFor)
<1> SUFFICES ASSUME KeepDays >= 3 PROVE Spec => []DeliveriesAccountedFor
  OBVIOUS
<1>1. DeliveryInv /\ [Next]_vars => DeliveryInv'
  BY DeliveryNext
<1>2. DeliveryInv => DeliveriesAccountedFor
  BY DEF DeliveryInv, DeliveriesAccountedFor, CopiesInv, DestsInv, SentHanded, KeyOf
<1> QED BY DeliveryInit, <1>1, <1>2, PTL DEF Spec
============================================================================

------------------------- MODULE ReportdListProofs -------------------------
(***************************************************************************)
(* Proofs about the table reportdata of Reportd: lists are stored as a     *)
(* whole or not at all, and details that were stored stay.                 *)
(*                                                                         *)
(* A list is read again after a crash onto rows it left, from a fetcher    *)
(* whose command may be configured twice, on a day that may be deleted.    *)
(* What ties the rows to the lists that were read (`accepted') is the job: *)
(* as long as it is there, the rows of its command on its day are exactly  *)
(* the domains of these lists; and a deleted day gets no job again.        *)
(***************************************************************************)
EXTENDS ReportdProofs

\* One row per day, domain and command, which identify it.
SameKey(x, y) == x.day = y.day /\ x.domain = y.domain /\ x.fetcher = y.fetcher
KeysUnique(D) == \A x, y \in D.data : SameKey(x, y) => x = y

HasRow(D, day, dom, cmd) == \E x \in D.data : x.day = day /\ x.domain = dom /\ x.fetcher = cmd

RowsAreLists(D) ==
    \A j \in D.jobs, dom \in Domains :
        HasRow(D, j.day, dom, Fetchers[j.idx]) <=> <<j.day, dom, Fetchers[j.idx]>> \in accepted

\* A list was read for a day that has jobs, or had and gets none again.
ListsHaveJobs(D) ==
    \A a \in accepted : (\E j \in D.jobs : j.day = a[1]) \/ Gone(D, a[1])

\* Where the database is ahead of the committed one, it has lost whole days only.
DaysDiffer ==
    /\ \A x \in disk.data : x \in db.data \/ \A j \in db.jobs : j.day # x.day
    /\ pc \in {"check", "down"} => db = disk

DataInv == Inv /\ DaysDiffer /\ KeysUnique(db) /\ KeysUnique(disk)

ListInv(D) == RowsAreLists(D) /\ ListsHaveJobs(D)

----------------------------------------------------------------------------
(* What a list adds.                                                       *)

\* A list leaves the command with a row for each of its domains, and no other with
\* more than it had.
LEMMA NewRowsKeys ==
    ASSUME NEW D, D \in Database, KeysUnique(D), NEW j \in JobRow, NEW list \in SUBSET Domains,
           NEW C, C.data = D.data \cup NewRows(D, j, list)
    PROVE  /\ KeysUnique(C)
           /\ \A day, dom, cmd :
                HasRow(C, day, dom, cmd) <=>
                    \/ HasRow(D, day, dom, cmd)
                    \/ day = j.day /\ dom \in list /\ cmd = Fetchers[j.idx]
<1>1. \A x : x \in NewRows(D, j, list) <=>
           \E dom \in list :
             /\ x = [day |-> j.day, domain |-> dom, fetcher |-> Fetchers[j.idx], idx |-> j.idx,
                     data |-> NULL]
             /\ ~HasRow(D, j.day, dom, Fetchers[j.idx])
  BY DEF NewRows, Rows, HasRow
<1>2. KeysUnique(C)
  <2> SUFFICES ASSUME NEW x \in C.data, NEW y \in C.data, SameKey(x, y)
               PROVE  x = y
    BY DEF KeysUnique
  <2>1. CASE x \in D.data /\ y \in D.data
    BY <2>1 DEF KeysUnique
  <2>2. CASE x \in NewRows(D, j, list) /\ y \in NewRows(D, j, list)
    BY <1>1, <2>2 DEF SameKey
  <2>3. ASSUME NEW a \in D.data, NEW b \in NewRows(D, j, list)
        PROVE  ~SameKey(a, b) /\ ~SameKey(b, a)
    BY <1>1 DEF SameKey, HasRow
  <2> QED BY <2>1, <2>2, <2>3
<1>3. ASSUME NEW day, NEW dom, NEW cmd
      PROVE  HasRow(C, day, dom, cmd) <=>
                 \/ HasRow(D, day, dom, cmd)
                 \/ day = j.day /\ dom \in list /\ cmd = Fetchers[j.idx]
  <2>1. ASSUME day = j.day, dom \in list, cmd = Fetchers[j.idx], ~HasRow(D, day, dom, cmd)
        PROVE  HasRow(C, day, dom, cmd)
    <3> DEFINE x == [day |-> j.day, domain |-> dom, fetcher |-> Fetchers[j.idx], idx |-> j.idx,
                     data |-> NULL]
    <3>1. x \in NewRows(D, j, list)
      BY <1>1, <2>1
    <3>2. x \in C.data /\ x.day = day /\ x.domain = dom /\ x.fetcher = cmd
      BY <2>1, <3>1
    <3> QED BY <3>2 DEF HasRow
  <2>2. ASSUME HasRow(D, day, dom, cmd) PROVE HasRow(C, day, dom, cmd)
    BY <2>2 DEF HasRow
  <2>3. ASSUME HasRow(C, day, dom, cmd), ~HasRow(D, day, dom, cmd)
        PROVE  day = j.day /\ dom \in list /\ cmd = Fetchers[j.idx]
    BY <1>1, <2>3 DEF HasRow
  <2> QED BY <2>1, <2>2, <2>3
<1> QED BY <1>2, <1>3

\* Rows of a database whose keys are no others keep what is said of the rows.
LEMMA SameRowsSameLists ==
    ASSUME NEW C, NEW D, RowsAreLists(D), ListsHaveJobs(D),
           \A j \in C.jobs : \E k \in D.jobs : k.day = j.day /\ k.idx = j.idx,
           \A k \in D.jobs : \E j \in C.jobs : k.day = j.day,
           \A x \in C.data : \E y \in D.data : SameKey(x, y),
           \A y \in D.data : \E x \in C.data : SameKey(x, y)
    PROVE  RowsAreLists(C) /\ ListsHaveJobs(C)
<1>1. \A day, dom, cmd : HasRow(C, day, dom, cmd) <=> HasRow(D, day, dom, cmd)
  BY DEF HasRow, SameKey
<1>2. RowsAreLists(C)
  BY <1>1 DEF RowsAreLists
<1>3. ListsHaveJobs(C)
  BY DEF ListsHaveJobs, Gone, SameKey
<1> QED BY <1>2, <1>3

----------------------------------------------------------------------------
(* The rows and their keys, step by step.                                  *)

\* FetchedIsFinal, of one step.
Final ==
    \A x \in disk.data : x.data # NULL =>
        \/ x \in disk'.data
        \/ ~ \E y \in disk'.data : y.day = x.day /\ y.domain = x.domain /\ y.fetcher = x.fetcher

\* Every row stays, or its day goes.
LEMMA SubsetFinal ==
    ASSUME \A x \in disk.data : x \in disk'.data \/ \A y \in disk'.data : y.day # x.day
    PROVE  Final
BY DEF Final

\* check_day removes whole days.
LEMMA CheckDayData ==
    ASSUME DataInv, NEW now \in {today, today + 1}, CheckDay(now)
    PROVE  DaysDiffer' /\ KeysUnique(db') /\ KeysUnique(disk') /\ Final
<1> DEFINE D == CleanUp(db, now)
<1> USE DEF DataInv
<1>1. db = disk /\ pc' = "collect" /\ db \in Database
  BY DEF CheckDay, DaysDiffer, Inv, TypeOK
<1>2. /\ D.jobs = {j \in db.jobs : Kept(j.day, now)}
      /\ D.data = {x \in db.data : Kept(x.day, now)}
  BY DEF CleanUp
<1>3. KeysUnique(D)
  BY <1>2 DEF KeysUnique
<1>4. CASE db' = D /\ disk' = disk
  <2>1. DaysDiffer'
    BY <1>1, <1>2, <1>4 DEF DaysDiffer
  <2> QED BY <1>3, <1>4, <2>1, SubsetFinal
<1>5. CASE db' = [D EXCEPT !.jobs = @ \cup NewJobs(today - 1)] /\ disk' = db'
  <2>1. db'.data = D.data
    BY <1>5 DEF CleanUp
  <2>2. KeysUnique(db') /\ DaysDiffer'
    BY <1>1, <1>3, <1>5, <2>1 DEF KeysUnique, DaysDiffer
  <2>3. \A x \in disk.data : x \in disk'.data \/ \A y \in disk'.data : y.day # x.day
    BY <1>1, <1>2, <1>5, <2>1
  <2> QED BY <1>5, <2>2, <2>3, SubsetFinal
<1> QED BY <1>4, <1>5 DEF CheckDay

\* A list adds rows, a failure none.
LEMMA CollectData ==
    ASSUME DataInv, NEW j \in todo,
           \/ CollectFails(j) \/ CollectTruncated(j)
           \/ \E list \in SUBSET Domains : CollectOk(j, list)
    PROVE  DaysDiffer' /\ KeysUnique(db') /\ KeysUnique(disk') /\ Final
<1> USE DEF DataInv
<1>1. j \in db.jobs /\ j \in JobRow /\ db \in Database /\ pc = "collect"
  BY DEF CollectFails, CollectTruncated, CollectOk, Collecting, Inv, PhaseInv, Pending, TypeOK
<1>2. \A x \in disk.data : x \in db.data \/ \A y \in db.data : y.day # x.day
  BY DEF DaysDiffer, Inv, Consistent, DaysHaveJobs
<1>3. CASE CollectFails(j) \/ CollectTruncated(j)
  <2>1. RetryOrTimeout(j, MaxRetriesDomainlist).day = j.day
    BY <1>1, RetryType, ReportdAssumption
  <2>2. /\ db'.jobs = Replace(db.jobs, j, RetryOrTimeout(j, MaxRetriesDomainlist))
        /\ db'.data = db.data
        /\ disk' = disk \/ disk' = db
        /\ pc' = "collect"
    BY <1>1, <1>3 DEF CollectFails, CollectTruncated, Database
  <2>3. DaysDiffer'
    BY <1>1, <2>1, <2>2 DEF DaysDiffer, Replace
  <2>4. KeysUnique(db') /\ KeysUnique(disk')
    BY <2>2 DEF KeysUnique
  <2>5. Final
    BY <1>2, <2>2, SubsetFinal
  <2> QED BY <2>3, <2>4, <2>5
<1>4. ASSUME NEW list \in SUBSET Domains, CollectOk(j, list)
      PROVE  DaysDiffer' /\ KeysUnique(db') /\ KeysUnique(disk') /\ Final
  <2>1. /\ disk'.data = db.data \cup NewRows(db, j, list)
        /\ db'.data = disk'.data
        /\ pc' = "collect"
    BY <1>1, <1>4 DEF CollectOk, Database
  <2>2. KeysUnique(disk') /\ KeysUnique(db')
    BY <1>1, <2>1, NewRowsKeys
  <2>3. DaysDiffer'
    BY <2>1 DEF DaysDiffer
  <2>4. \A y \in disk'.data : y \in db.data \/ y.day = j.day
    BY <2>1 DEF NewRows
  <2>5. \A x \in disk.data : x \in disk'.data \/ \A y \in disk'.data : y.day # x.day
    BY <1>1, <1>2, <2>1, <2>4 DEF DaysDiffer
  <2> QED BY <2>2, <2>3, <2>5, SubsetFinal
<1> QED BY <1>3, <1>4

\* Details replace nothing but NULL.
LEMMA FetchData ==
    ASSUME DataInv, NEW x \in todo,
           FetchFails(x) \/ \E payload \in Payloads : FetchOk(x, payload)
    PROVE  DaysDiffer' /\ KeysUnique(db') /\ KeysUnique(disk') /\ Final
<1> USE DEF DataInv
<1>1. x \in db.data /\ x \in DataRow /\ x.data = NULL /\ db \in Database /\ db = disk /\ pc = "fetch"
  BY DEF FetchFails, FetchOk, Inv, PhaseInv, Fetchable, TypeOK
<1>2. CASE FetchFails(x)
  BY <1>1, <1>2, SubsetFinal DEF FetchFails, dbVars, DaysDiffer
<1>3. ASSUME NEW payload \in Payloads, FetchOk(x, payload)
      PROVE  DaysDiffer' /\ KeysUnique(db') /\ KeysUnique(disk') /\ Final
  <2> DEFINE y == [x EXCEPT !.data = payload]
  <2>1. /\ db'.data = (db.data \ {x}) \cup {y}
        /\ disk' = db' /\ pc' = "fetch"
    BY <1>1, <1>3 DEF FetchOk, Database, Replace
  <2>2. SameKey(x, y) /\ SameKey(y, x)
    BY <1>1 DEF DataRow, SameKey
  <2>3. KeysUnique(db')
    <3>1. ASSUME NEW a \in db.data, a # x PROVE ~SameKey(a, y) /\ ~SameKey(y, a)
      BY <1>1, <2>2, <3>1 DEF KeysUnique, SameKey
    <3>2. ASSUME NEW a \in db.data, NEW b \in db.data, SameKey(a, b) PROVE a = b
      BY <3>2 DEF KeysUnique
    <3> QED BY <2>1, <3>1, <3>2 DEF KeysUnique
  <2>4. DaysDiffer'
    BY <2>1 DEF DaysDiffer
  <2>5. Final
    BY <1>1, <2>1 DEF Final
  <2> QED BY <2>1, <2>3, <2>4, <2>5
<1> QED BY <1>2, <1>3

\* The other phases leave the rows alone, and a commit or a crash makes the two
\* databases equal.
LEMMA OtherData ==
    ASSUME DataInv,
           \/ EndCollect \/ EndFetch \/ Create \/ EndCreate
           \/ Send \/ RecordDelivery \/ EndSend \/ WakeUp \/ Restart
           \/ FetcherHangs \/ ScriptHangs \/ Shutdown \/ Crash \/ NextDay \/ UNCHANGED vars
    PROVE  DaysDiffer' /\ KeysUnique(db') /\ KeysUnique(disk') /\ Final
<1> USE DEF DataInv
<1>1. /\ db \in Database /\ disk \in Database
      /\ \A x \in disk.data : x \in db.data \/ \A y \in db.data : y.day # x.day
  BY DEF DaysDiffer, Inv, TypeOK, Consistent, DaysHaveJobs
<1>2. \/ db' = disk'
      \/ db' = db /\ disk' = disk /\ pc' \notin {"check", "down"}
      \/ db' = db /\ disk' = disk /\ db = disk
  <2>1. CASE EndCollect \/ RecordDelivery \/ Shutdown \/ Crash
    BY <2>1 DEF EndCollect, RecordDelivery, Shutdown, Crash
  <2>2. CASE EndFetch \/ EndCreate \/ Send \/ EndSend \/ FetcherHangs \/ ScriptHangs
    BY <2>2 DEF EndFetch, EndCreate, Send, Deliver, DeliverDies, EndSend, FetcherHangs, ScriptHangs,
                  dbVars, Inv, PhaseInv
  <2>3. CASE WakeUp \/ Restart
    BY <2>3 DEF WakeUp, Restart, dbVars, Inv, PhaseInv, DaysDiffer
  <2>4. CASE NextDay \/ UNCHANGED vars
    BY <2>4 DEF NextDay, vars, dbVars, DaysDiffer
  <2>5. CASE Create
    BY <2>5 DEF Create, CreateReportFor, CreateReportDies
  <2> QED BY <2>1, <2>2, <2>3, <2>4, <2>5
<1>3. /\ db'.data \in {db.data, disk.data}
      /\ disk'.data \in {db.data, disk.data}
  <2>1. CASE Create
    <3>1. db = disk
      BY <2>1 DEF Create, CreateReportFor, CreateReportDies, Inv, PhaseInv
    <3>2. ASSUME NEW day \in Days, NEW dom \in Domains, CreateReportDies(day, dom)
          PROVE  db' = db /\ disk' = disk
      BY <3>1, <3>2 DEF CreateReportDies
    <3>3. ASSUME NEW day \in Days, NEW dom \in Domains, CreateReportFor(day, dom)
          PROVE  db'.data = db.data /\ disk' = db'
      BY <1>1, <3>3 DEF CreateReportFor, Database
    <3> QED BY <2>1, <3>1, <3>2, <3>3 DEF Create
  <2>2. CASE RecordDelivery
    BY <1>1, <2>2 DEF RecordDelivery, Database
  <2>3. CASE \/ EndCollect \/ EndFetch \/ EndCreate
             \/ Send \/ EndSend \/ WakeUp \/ Restart
             \/ FetcherHangs \/ ScriptHangs \/ Shutdown \/ Crash \/ NextDay \/ UNCHANGED vars
    BY <2>3 DEF EndCollect, EndFetch, EndCreate, Send, Deliver, DeliverDies, EndSend, WakeUp,
                Restart, FetcherHangs, ScriptHangs, Shutdown, Crash, NextDay, vars, dbVars
  <2> QED BY <2>1, <2>2, <2>3
<1>4. KeysUnique(db') /\ KeysUnique(disk')
  BY <1>3 DEF KeysUnique
<1>5. DaysDiffer'
  BY <1>2 DEF DaysDiffer
<1>6. Final
  BY <1>1, <1>3, SubsetFinal
<1> QED BY <1>4, <1>5, <1>6

\* No row yet.
LEMMA DataInit == Init => DataInv
BY InitInv DEF Init, DataInv, DaysDiffer, KeysUnique, EmptyDb

\* Every step keeps the keys unique, and every row with details until its day goes.
LEMMA DataNext == DataInv /\ [Next]_vars => DataInv' /\ Final
<1> SUFFICES ASSUME DataInv, [Next]_vars PROVE DataInv' /\ Final
  OBVIOUS
<1>1. Inv'
  BY NextInv DEF DataInv
<1>2. CASE \E now \in {today, today + 1} : CheckDay(now)
  BY <1>1, <1>2, CheckDayData DEF DataInv
<1>3. CASE Collect
  BY <1>1, <1>3, CollectData DEF Collect, DataInv
<1>4. CASE Fetch
  BY <1>1, <1>4, FetchData DEF Fetch, DataInv
<1>5. CASE \/ EndCollect \/ EndFetch \/ Create \/ EndCreate
           \/ Send \/ RecordDelivery \/ EndSend \/ WakeUp \/ Restart
           \/ FetcherHangs \/ ScriptHangs \/ Shutdown \/ Crash \/ NextDay \/ UNCHANGED vars
  BY <1>1, <1>5, OtherData DEF DataInv
<1> QED BY <1>2, <1>3, <1>4, <1>5 DEF Next, Step

\* The invariant about the rows.
LEMMA DataAlways == Spec => []DataInv
BY DataInit, DataNext, PTL DEF Spec

\* Details that were stored stay as they are until their day is deleted, whatever
\* crashes, and whatever lists or details arrive later.
THEOREM DetailsAreFinal == Spec => FetchedIsFinal
<1>1. DataInv /\ [Next]_vars =>
        [\A x \in disk.data : x.data # NULL =>
            \/ x \in disk'.data
            \/ ~ \E y \in disk'.data : y.day = x.day /\ y.domain = x.domain /\ y.fetcher = x.fetcher]_vars
  BY DataNext DEF Final
<1> QED BY DataAlways, <1>1, PTL DEF Spec, FetchedIsFinal

----------------------------------------------------------------------------
(* Rows and answers: nothing but an answer of a fetcher adds a row or      *)
(* details, or finishes a job as `ok'.  What a crash brings back is older  *)
(* than yesterday, because all of yesterday is committed by then.          *)

\* Where the committed database is not the daemon's, it has pending jobs and old days.
Behind ==
    /\ \A j \in disk.jobs : j \in db.jobs \/ j.status = NULL \/ j.day + 1 < today
    /\ \A x \in disk.data : x \in db.data \/ x.day + 1 < today

\* Everything is about days that are over.
DaysOver(D) == (\A j \in D.jobs : j.day < today) /\ (\A x \in D.data : x.day < today)

AnswersInv == DataInv /\ Behind /\ DaysOver(db) /\ DaysOver(disk)

\* A step that is no answer: no new rows, and none of yesterday that seem new.
NoNews ==
    /\ db'.data \cup disk'.data \subseteq db.data \cup disk.data
    /\ \A j \in db'.jobs \ db.jobs : j.status = "ok" => j.day + 1 < today'
    /\ \A x \in db'.data \ db.data : x.day + 1 < today'

\* check_day deletes old days: if yesterday has jobs and these are kept, so are those of
\* the day before today at the time of the clean-up.
LEMMA CheckDayNoNews ==
    ASSUME AnswersInv, NEW now \in {today, today + 1}, CheckDay(now)
    PROVE  Behind' /\ DaysOver(db)' /\ DaysOver(disk)' /\ NoNews
<1> DEFINE D == CleanUp(db, now)
<1> USE DEF AnswersInv, DataInv
<1>1. /\ db = disk /\ db \in Database
      /\ today \in Int /\ today' = now /\ now \in Int /\ today <= now /\ KeepDays \in Int
  BY ReportdAssumption DEF CheckDay, DaysDiffer, Inv, TypeOK
<1>2. /\ D.jobs = {j \in db.jobs : Kept(j.day, now)}
      /\ D.data = {x \in db.data : Kept(x.day, now)}
  BY DEF CleanUp
<1>3. /\ \A j \in db.jobs : j.day \in Int /\ j.day < now
      /\ \A x \in db.data : x.day \in Int /\ x.day < now
  BY <1>1 DEF DaysOver, Database, JobRow, DataRow, Days
<1>4. CASE db' = D /\ disk' = disk /\ \E j \in D.jobs : j.day = today - 1
  <2>1. now - (today - 1) < KeepDays
    BY <1>2, <1>4 DEF Kept
  <2>2. /\ \A j \in db.jobs : Kept(j.day, now) \/ j.day + 1 < now
        /\ \A x \in db.data : Kept(x.day, now) \/ x.day + 1 < now
    BY <1>1, <1>3, <2>1 DEF Kept
  <2>3. Behind'
    BY <1>1, <1>2, <1>4, <2>2 DEF Behind
  <2> QED BY <1>1, <1>2, <1>3, <1>4, <2>3 DEF DaysOver, NoNews
<1>5. CASE db' = [D EXCEPT !.jobs = @ \cup NewJobs(today - 1)] /\ disk' = db'
  <2>1. db'.data = D.data /\ db'.jobs = D.jobs \cup NewJobs(today - 1)
    BY <1>5 DEF CleanUp
  <2>2. \A j \in NewJobs(today - 1) : j.day = today - 1 /\ j.status # "ok"
    BY ReportdAssumption DEF NewJobs
  <2>3. DaysOver(db)'
    BY <1>1, <1>2, <1>3, <2>1, <2>2 DEF DaysOver
  <2>4. NoNews
    BY <1>1, <1>2, <1>5, <2>1, <2>2 DEF NoNews
  <2> QED BY <1>5, <2>3, <2>4 DEF Behind, DaysOver
<1> QED BY <1>4, <1>5 DEF CheckDay

\* Without an answer a job is tried again or given up.
LEMMA CollectFailsNoNews ==
    ASSUME AnswersInv, NEW j \in todo, CollectFails(j) \/ CollectTruncated(j)
    PROVE  Behind' /\ DaysOver(db)' /\ DaysOver(disk)' /\ NoNews
<1> DEFINE k == RetryOrTimeout(j, MaxRetriesDomainlist)
<1> USE DEF AnswersInv, DataInv
<1>1. j \in Pending(db.jobs) /\ j \in JobRow /\ db \in Database
  BY DEF CollectFails, CollectTruncated, Collecting, Inv, PhaseInv, Pending, TypeOK
<1>2. k.day = j.day /\ k.status # "ok" /\ j \in db.jobs /\ j.status = NULL
  BY <1>1, RetryType, ReportdAssumption DEF RetryOrTimeout, Pending, JobRow
<1>3. /\ db'.jobs = (db.jobs \ {j}) \cup {k} /\ db'.data = db.data
      /\ disk' = disk \/ disk' = db
      /\ today' = today
  BY <1>1 DEF CollectFails, CollectTruncated, Database, Replace
<1>4. Behind'
  BY <1>2, <1>3 DEF Behind
<1>5. DaysOver(db)' /\ DaysOver(disk)'
  BY <1>2, <1>3 DEF DaysOver
<1>6. NoNews
  BY <1>2, <1>3 DEF NoNews
<1> QED BY <1>4, <1>5, <1>6

\* A list adds rows without details, for the domains on it and the day of the job.
LEMMA CollectOkAnswer ==
    ASSUME AnswersInv, NEW j \in todo, NEW list \in SUBSET Domains, CollectOk(j, list)
    PROVE  /\ Behind' /\ DaysOver(db)' /\ DaysOver(disk)'
           /\ db'.data = disk'.data
           /\ \A x \in db'.data : x \in db.data \/ (x.day = j.day /\ x.domain \in list /\ x.data = NULL)
           /\ \A i \in db'.jobs \ db.jobs : i.day = j.day
           /\ \A dom \in list : Rows(db', j.day, dom) # {}
           /\ j.day \in Days /\ j.day < today
<1> DEFINE k == [j EXCEPT !.status = "ok"]
<1> USE DEF AnswersInv, DataInv
<1>1. j \in Pending(db.jobs) /\ j \in JobRow /\ db \in Database
  BY DEF CollectOk, Collecting, Inv, PhaseInv, Pending, TypeOK
<1>2. k.day = j.day /\ j \in db.jobs /\ j.status = NULL /\ j.day \in Days /\ j.day < today
  BY <1>1 DEF Pending, JobRow, DaysOver
<1>3. /\ disk'.data = db.data \cup NewRows(db, j, list)
      /\ db'.data = disk'.data
      /\ disk'.jobs = db.jobs /\ db'.jobs = (db.jobs \ {j}) \cup {k}
      /\ today' = today
  BY <1>1 DEF CollectOk, Database, Replace
<1>4. \A x \in NewRows(db, j, list) : x.day = j.day /\ x.domain \in list /\ x.data = NULL
  BY DEF NewRows
<1>5. Behind'
  BY <1>2, <1>3 DEF Behind
<1>6. DaysOver(db)' /\ DaysOver(disk)'
  BY <1>2, <1>3, <1>4 DEF DaysOver
<1>7. ASSUME NEW dom \in list PROVE Rows(db', j.day, dom) # {}
  <2>1. HasRow(db', j.day, dom, Fetchers[j.idx])
    BY <1>1, <1>3, NewRowsKeys
  <2> QED BY <2>1 DEF HasRow, Rows
<1> QED BY <1>2, <1>3, <1>4, <1>5, <1>6, <1>7

\* Details go to the row that was asked for.
LEMMA FetchOkAnswer ==
    ASSUME AnswersInv, NEW x \in todo, NEW payload \in Payloads, FetchOk(x, payload)
    PROVE  /\ Behind' /\ DaysOver(db)' /\ DaysOver(disk)'
           /\ db' = disk' /\ db'.jobs = db.jobs
           /\ x \in db.data /\ x.day \in Days
           /\ \A y \in db'.data : y \in db.data \/ (y.day = x.day /\ y.data = payload)
<1> DEFINE y == [x EXCEPT !.data = payload]
<1> USE DEF AnswersInv, DataInv
<1>1. x \in db.data /\ x \in DataRow /\ db \in Database
  BY DEF FetchOk, Inv, PhaseInv, Fetchable, TypeOK
<1>2. y.day = x.day /\ y.data = payload /\ x.day \in Days
  BY <1>1 DEF DataRow
<1>3. /\ db'.data = (db.data \ {x}) \cup {y} /\ db'.jobs = db.jobs
      /\ disk' = db' /\ today' = today
  BY <1>1 DEF FetchOk, Database, Replace
<1>4. Behind'
  BY <1>3 DEF Behind
<1>5. DaysOver(db)' /\ DaysOver(disk)'
  BY <1>1, <1>2, <1>3 DEF DaysOver
<1> QED BY <1>1, <1>2, <1>3, <1>4, <1>5

\* The other phases commit, or fall back to what is committed.
LEMMA OtherNoNews ==
    ASSUME AnswersInv,
           \/ \E x \in todo : FetchFails(x)
           \/ EndCollect \/ EndFetch \/ Create \/ EndCreate
           \/ Send \/ RecordDelivery \/ EndSend \/ WakeUp \/ Restart
           \/ FetcherHangs \/ ScriptHangs \/ Shutdown \/ Crash \/ NextDay \/ UNCHANGED vars
    PROVE  Behind' /\ DaysOver(db)' /\ DaysOver(disk)' /\ NoNews
<1> USE DEF AnswersInv, DataInv
<1>0. db \in Database /\ disk \in Database /\ today \in Int
  BY DEF Inv, TypeOK
<1>1. today' \in {today, today + 1}
  BY DEF FetchFails, EndCollect, EndFetch, Create, CreateReportFor, CreateReportDies, EndCreate, Send,
         Deliver, DeliverDies, RecordDelivery, EndSend, WakeUp, Restart, FetcherHangs, ScriptHangs,
         Shutdown, Crash, NextDay, vars
<1>2. ASSUME db'.jobs = db.jobs, db'.data = db.data,
             (disk'.jobs = disk.jobs /\ disk'.data = disk.data) \/ (disk'.jobs = db.jobs /\ disk'.data = db.data)
      PROVE  Behind' /\ DaysOver(db)' /\ DaysOver(disk)' /\ NoNews
  <2>1. /\ \A j \in db.jobs \cup disk.jobs : j.day \in Int
        /\ \A x \in db.data \cup disk.data : x.day \in Int
    BY <1>0 DEF Database, JobRow, DataRow, Days
  <2>2. /\ \A j \in db.jobs \cup disk.jobs :
              (j.day < today => j.day < today') /\ (j.day + 1 < today => j.day + 1 < today')
        /\ \A x \in db.data \cup disk.data :
              (x.day < today => x.day < today') /\ (x.day + 1 < today => x.day + 1 < today')
    BY <1>0, <1>1, <2>1
  <2>3. Behind'
    <3>1. \A j \in disk'.jobs : j \in db.jobs \/ j.status = NULL \/ j.day + 1 < today'
      BY <1>2, <2>2 DEF Behind
    <3>2. \A x \in disk'.data : x \in db.data \/ x.day + 1 < today'
      BY <1>2, <2>2 DEF Behind
    <3> QED BY <1>2, <3>1, <3>2 DEF Behind
  <2>4. DaysOver(db)' /\ DaysOver(disk)'
    <3>1. /\ \A j \in db.jobs \cup disk.jobs : j.day < today'
          /\ \A x \in db.data \cup disk.data : x.day < today'
      BY <2>2 DEF DaysOver
    <3> QED BY <1>2, <3>1 DEF DaysOver
  <2>5. NoNews
    BY <1>2 DEF NoNews
  <2> QED BY <2>3, <2>4, <2>5
<1>3. CASE Crash
  <2>1. db' = disk /\ disk' = disk /\ today' = today
    BY <1>3 DEF Crash
  <2>2. NoNews
    BY <2>1, ReportdAssumption DEF NoNews, Behind
  <2> QED BY <2>1, <2>2 DEF Behind, DaysOver
<1>4. CASE Create
  <2>1. db = disk
    BY <1>4 DEF Create, CreateReportFor, CreateReportDies, Inv, PhaseInv
  <2>2. ASSUME NEW day \in Days, NEW dom \in Domains, CreateReportFor(day, dom)
        PROVE  db'.jobs = db.jobs /\ db'.data = db.data /\ disk' = db'
    BY <1>0, <2>2 DEF CreateReportFor, Database
  <2>3. ASSUME NEW day \in Days, NEW dom \in Domains, CreateReportDies(day, dom)
        PROVE  db' = disk /\ disk' = disk
    BY <2>3 DEF CreateReportDies
  <2> QED BY <1>2, <1>4, <2>1, <2>2, <2>3 DEF Create
<1>5. CASE RecordDelivery
  <2>1. db'.jobs = db.jobs /\ db'.data = db.data /\ disk' = db'
    BY <1>0, <1>5 DEF RecordDelivery, Database
  <2> QED BY <1>2, <2>1
<1>6. CASE \/ \E x \in todo : FetchFails(x)
           \/ EndCollect \/ EndFetch \/ EndCreate \/ Send \/ EndSend \/ WakeUp \/ Restart
           \/ FetcherHangs \/ ScriptHangs \/ Shutdown \/ NextDay \/ UNCHANGED vars
  <2>1. db' = db /\ (disk' = disk \/ disk' = db)
    BY <1>6 DEF FetchFails, EndCollect, EndFetch, EndCreate, Send, Deliver, DeliverDies, EndSend,
                WakeUp, Restart, FetcherHangs, ScriptHangs, Shutdown, NextDay, vars, dbVars, Inv, PhaseInv
  <2> QED BY <1>2, <2>1
<1> QED BY <1>3, <1>4, <1>5, <1>6

\* An empty database.
LEMMA AnswersInit == Init => AnswersInv
BY DataInit DEF Init, AnswersInv, Behind, DaysOver, EmptyDb

\* Every step keeps the invariant.
LEMMA AnswersNext == AnswersInv /\ [Next]_vars => AnswersInv'
<1> SUFFICES ASSUME AnswersInv, [Next]_vars PROVE AnswersInv'
  OBVIOUS
<1>1. DataInv'
  BY DataNext DEF AnswersInv
<1>2. CASE \E now \in {today, today + 1} : CheckDay(now)
  BY <1>1, <1>2, CheckDayNoNews DEF AnswersInv
<1>3. CASE Collect
  BY <1>1, <1>3, CollectFailsNoNews, CollectOkAnswer DEF Collect, AnswersInv
<1>4. ASSUME NEW x \in todo, NEW payload \in Payloads, FetchOk(x, payload) PROVE AnswersInv'
  BY <1>1, <1>4, FetchOkAnswer DEF AnswersInv
<1>5. CASE \/ \E x \in todo : FetchFails(x)
           \/ EndCollect \/ EndFetch \/ Create \/ EndCreate
           \/ Send \/ RecordDelivery \/ EndSend \/ WakeUp \/ Restart
           \/ FetcherHangs \/ ScriptHangs \/ Shutdown \/ Crash \/ NextDay \/ UNCHANGED vars
  BY <1>1, <1>5, OtherNoNews DEF AnswersInv
<1> QED BY <1>2, <1>3, <1>4, <1>5 DEF Next, Step, Fetch

----------------------------------------------------------------------------
(* The rows and the lists, step by step.                                   *)

ListsInv == DataInv /\ ListInv(db) /\ ListInv(disk)

\* Nothing was read and nothing is stored for a day without jobs that check_day sets up.
LEMMA CheckDayLists ==
    ASSUME ListsInv, KeepDays >= 3, NEW now \in {today, today + 1}, CheckDay(now)
    PROVE  ListInv(db)' /\ ListInv(disk)'
<1> DEFINE D == CleanUp(db, now)
<1> USE DEF ListsInv, ListInv
<1>1. /\ db = disk /\ Consistent(db) /\ accepted' = accepted
      /\ today \in Int /\ today' = now /\ KeepDays \in Int
  BY ReportdAssumption DEF CheckDay, DataInv, DaysDiffer, Inv, TypeOK, histVars
<1>2. /\ D.jobs = {j \in db.jobs : Kept(j.day, now)}
      /\ D.data = {x \in db.data : Kept(x.day, now)}
      /\ Consistent(D)
  BY <1>1, CleanUpConsistent DEF CleanUp
<1>3. \A a \in accepted : a[1] \in Int
  BY DEF DataInv, Inv, TypeOK, Days
<1>4. \A j \in D.jobs : \A dom, cmd : HasRow(D, j.day, dom, cmd) <=> HasRow(db, j.day, dom, cmd)
  BY <1>2 DEF HasRow
<1>5. RowsAreLists(D)
  BY <1>2, <1>4 DEF RowsAreLists
<1>6. \A a \in accepted :
         \/ \E j \in D.jobs : j.day = a[1]
         \/ /\ \A j \in D.jobs : j.day # a[1]
            /\ \A x \in D.data : x.day # a[1]
            /\ a[1] + KeepDays <= now
  <2> SUFFICES ASSUME NEW a \in accepted
               PROVE  \/ \E j \in D.jobs : j.day = a[1]
                      \/ /\ \A j \in D.jobs : j.day # a[1]
                         /\ \A x \in D.data : x.day # a[1]
                         /\ a[1] + KeepDays <= now
    OBVIOUS
  <2>1. CASE Kept(a[1], now)
    BY <1>1, <1>2, <1>3, <2>1 DEF ListsHaveJobs, Gone
  <2>2. CASE ~Kept(a[1], now)
    BY <1>1, <1>2, <1>3, <2>2 DEF Kept
  <2> QED BY <2>1, <2>2
<1>7. CASE db' = D /\ disk' = disk
  <2>1. ListInv(db)'
    BY <1>1, <1>5, <1>6, <1>7 DEF RowsAreLists, ListsHaveJobs, Gone
  <2>2. ListInv(disk)'
    BY <1>1, <1>3, <1>7 DEF RowsAreLists, ListsHaveJobs, Gone
  <2> QED BY <2>1, <2>2
<1>8. CASE /\ \A j \in D.jobs : j.day # today - 1
           /\ db' = [D EXCEPT !.jobs = @ \cup NewJobs(today - 1)]
           /\ disk' = db'
  <2>1. db'.jobs = D.jobs \cup NewJobs(today - 1) /\ db'.data = D.data
    BY <1>8 DEF CleanUp
  <2>2. \A j \in NewJobs(today - 1) : j.day = today - 1
    BY DEF NewJobs
  <2>3. \A x \in D.data : x.day # today - 1
    BY <1>2, <1>8 DEF Consistent, DaysHaveJobs
  <2>4. \A a \in accepted : a[1] # today - 1
    BY <1>1, <1>3, <1>6, <1>8
  <2>5. ASSUME NEW j \in db'.jobs, NEW dom \in Domains
        PROVE  HasRow(db', j.day, dom, Fetchers[j.idx]) <=> <<j.day, dom, Fetchers[j.idx]>> \in accepted
    <3>1. CASE j \in D.jobs
      BY <1>5, <2>1, <3>1 DEF RowsAreLists, HasRow
    <3>2. CASE j \in NewJobs(today - 1)
      <4>1. j.day = today - 1
        BY <2>2, <3>2
      <4>2. ~HasRow(db', j.day, dom, Fetchers[j.idx])
        BY <2>1, <2>3, <4>1 DEF HasRow
      <4>3. <<j.day, dom, Fetchers[j.idx]>> \notin accepted
        BY <2>4, <4>1
      <4> QED BY <4>2, <4>3
    <3> QED BY <2>1, <3>1, <3>2
  <2>6. RowsAreLists(db)'
    BY <1>1, <2>5 DEF RowsAreLists
  <2>7. ListsHaveJobs(db)'
    BY <1>1, <1>6, <2>1, <2>2, <2>4 DEF ListsHaveJobs, Gone
  <2> QED BY <1>8, <2>6, <2>7
<1> QED BY <1>7, <1>8 DEF CheckDay

\* While the clock stands or goes on and no list is read, what holds of the new
\* database holds after the step.
LEMMA ListsPrime ==
    ASSUME NEW C, RowsAreLists(C), ListsHaveJobs(C), accepted' = accepted,
           today \in Int, today' \in {today, today + 1}, accepted \subseteq Days \X Domains \X Commands
    PROVE  /\ \A j \in C.jobs, dom \in Domains :
                HasRow(C, j.day, dom, Fetchers[j.idx]) <=> <<j.day, dom, Fetchers[j.idx]>> \in accepted'
           /\ \A a \in accepted' :
                \/ \E j \in C.jobs : j.day = a[1]
                \/ /\ \A j \in C.jobs : j.day # a[1]
                   /\ \A x \in C.data : x.day # a[1]
                   /\ a[1] + KeepDays <= today'
<1>1. \A a \in accepted : a[1] + KeepDays \in Int
  BY ReportdAssumption DEF Days
<1>2. \A a \in accepted : a[1] + KeepDays <= today => a[1] + KeepDays <= today'
  BY <1>1
<1> QED BY <1>2 DEF RowsAreLists, ListsHaveJobs, Gone

\* The UPDATE of a job keeps what the rows are matched with.
LEMMA ReplaceJobLists ==
    ASSUME NEW D, RowsAreLists(D), ListsHaveJobs(D), NEW j \in D.jobs, NEW k,
           k.day = j.day, k.idx = j.idx,
           NEW C, C.jobs = Replace(D.jobs, j, k), C.data = D.data
    PROVE  RowsAreLists(C) /\ ListsHaveJobs(C)
<1>1. \A i \in C.jobs : \E m \in D.jobs : m.day = i.day /\ m.idx = i.idx
  BY DEF Replace
<1>2. \A m \in D.jobs : \E i \in C.jobs : i.day = m.day
  BY DEF Replace
<1>3. \A x \in D.data : SameKey(x, x)
  BY DEF SameKey
<1> QED BY <1>1, <1>2, <1>3, SameRowsSameLists

\* The status and the retries of a job do not identify it.
LEMMA RetryIdx ==
    ASSUME NEW j \in JobRow, NEW max \in Nat
    PROVE  RetryOrTimeout(j, max).day = j.day /\ RetryOrTimeout(j, max).idx = j.idx
BY DEF RetryOrTimeout, JobRow

\* A list enters the rows and `accepted' alike; a broken one enters neither.
LEMMA CollectLists ==
    ASSUME ListsInv, NEW j \in todo,
           \/ CollectFails(j) \/ CollectTruncated(j)
           \/ \E list \in SUBSET Domains : CollectOk(j, list)
    PROVE  ListInv(db)' /\ ListInv(disk)'
<1> USE DEF ListsInv, ListInv
<1>1. /\ j \in db.jobs /\ j \in JobRow /\ db \in Database /\ disk \in Database
      /\ KeysUnique(db)
      /\ today \in Int /\ accepted \subseteq Days \X Domains \X Commands
  <2>1. Inv /\ KeysUnique(db) /\ pc = "collect"
    BY DEF CollectFails, CollectTruncated, CollectOk, Collecting, DataInv
  <2>2. j \in db.jobs /\ j \in JobRow
    BY <2>1 DEF Inv, PhaseInv, Pending, TypeOK
  <2> QED BY <2>1, <2>2 DEF Inv, TypeOK
<1>2. CASE CollectFails(j) \/ CollectTruncated(j)
  <2>1. /\ db'.jobs = Replace(db.jobs, j, RetryOrTimeout(j, MaxRetriesDomainlist))
        /\ db'.data = db.data
        /\ disk' = disk \/ disk' = db
        /\ accepted' = accepted /\ today' = today
    BY <1>1, <1>2 DEF CollectFails, CollectTruncated, Database, histVars
  <2>2. RowsAreLists(db') /\ ListsHaveJobs(db')
    BY <1>1, <2>1, RetryIdx, ReplaceJobLists, ReportdAssumption
  <2>3. RowsAreLists(disk') /\ ListsHaveJobs(disk')
    BY <2>1
  <2>4. ListInv(db)'
    BY <1>1, <2>1, <2>2, ListsPrime DEF RowsAreLists, ListsHaveJobs, Gone
  <2>5. ListInv(disk)'
    BY <1>1, <2>1, <2>3, ListsPrime DEF RowsAreLists, ListsHaveJobs, Gone
  <2> QED BY <2>4, <2>5
<1>3. ASSUME NEW list \in SUBSET Domains, CollectOk(j, list)
      PROVE  ListInv(db)' /\ ListInv(disk)'
  <2> DEFINE k == [j EXCEPT !.status = "ok"]
             new == {<<j.day, dom, Fetchers[j.idx]>> : dom \in list}
  <2>1. /\ disk'.data = db.data \cup NewRows(db, j, list)
        /\ disk'.jobs = db.jobs
        /\ db'.data = disk'.data
        /\ db'.jobs = (db.jobs \ {j}) \cup {k}
        /\ accepted' = accepted \cup new
        /\ today' = today
    BY <1>1, <1>3 DEF CollectOk, Database, Replace
  <2>2. k.day = j.day /\ k.idx = j.idx
    BY <1>1 DEF JobRow
  <2>3. \A day, dom, cmd :
          HasRow(disk', day, dom, cmd) <=>
              \/ HasRow(db, day, dom, cmd)
              \/ day = j.day /\ dom \in list /\ cmd = Fetchers[j.idx]
    BY <1>1, <2>1, NewRowsKeys
  <2>4. \A day, dom, cmd : <<day, dom, cmd>> \in accepted' <=>
              \/ <<day, dom, cmd>> \in accepted
              \/ day = j.day /\ dom \in list /\ cmd = Fetchers[j.idx]
    BY <2>1
  <2>5. RowsAreLists(disk)'
    BY <2>1, <2>3, <2>4 DEF RowsAreLists
  <2>6. ASSUME NEW a \in accepted'
        PROVE  \/ \E i \in db.jobs : i.day = a[1]
               \/ a \in accepted /\ Gone(db, a[1]) /\ a[1] # j.day
    <3>1. CASE a \in accepted
      BY <1>1, <3>1 DEF ListsHaveJobs, Gone
    <3>2. CASE a \in new
      BY <1>1, <3>2
    <3> QED BY <2>1, <3>1, <3>2
  <2>7. \A x \in disk'.data : x \in db.data \/ x.day = j.day
    BY <2>1 DEF NewRows
  <2>8. ListsHaveJobs(disk)'
    BY <2>1, <2>6, <2>7 DEF ListsHaveJobs, Gone
  <2>9. RowsAreLists(db)'
    <3>1. \A i \in db'.jobs : \E m \in disk'.jobs : i.day = m.day /\ i.idx = m.idx
      BY <1>1, <2>1, <2>2
    <3>2. \A day, dom, cmd : HasRow(db', day, dom, cmd) <=> HasRow(disk', day, dom, cmd)
      BY <2>1 DEF HasRow
    <3> QED BY <2>5, <3>1, <3>2 DEF RowsAreLists
  <2>10. ListsHaveJobs(db)'
    BY <1>1, <2>1, <2>2, <2>8 DEF ListsHaveJobs, Gone
  <2> QED BY <2>5, <2>8, <2>9, <2>10
<1> QED BY <1>2, <1>3

\* Details leave the keys of their row alone.
LEMMA FetchLists ==
    ASSUME ListsInv, NEW x \in todo,
           FetchFails(x) \/ \E payload \in Payloads : FetchOk(x, payload)
    PROVE  ListInv(db)' /\ ListInv(disk)'
<1> USE DEF ListsInv, ListInv
<1>1. /\ x \in db.data /\ x \in DataRow /\ db \in Database
      /\ today \in Int /\ accepted \subseteq Days \X Domains \X Commands
  <2>1. Inv /\ pc = "fetch"
    BY DEF FetchFails, FetchOk, DataInv
  <2>2. x \in db.data /\ x \in DataRow
    BY <2>1 DEF Inv, PhaseInv, Fetchable, TypeOK
  <2> QED BY <2>1, <2>2 DEF Inv, TypeOK
<1>2. /\ RowsAreLists(db') /\ ListsHaveJobs(db')
      /\ RowsAreLists(disk') /\ ListsHaveJobs(disk')
      /\ accepted' = accepted /\ today' = today
  <2>1. CASE FetchFails(x)
    BY <2>1 DEF FetchFails, dbVars, histVars
  <2>2. ASSUME NEW payload \in Payloads, FetchOk(x, payload)
        PROVE  /\ RowsAreLists(db') /\ ListsHaveJobs(db') /\ disk' = db'
               /\ accepted' = accepted /\ today' = today
    <3> DEFINE y == [x EXCEPT !.data = payload]
    <3>1. /\ db'.data = (db.data \ {x}) \cup {y} /\ db'.jobs = db.jobs
          /\ disk' = db' /\ accepted' = accepted /\ today' = today
      BY <1>1, <2>2 DEF FetchOk, Database, Replace, histVars
    <3>2. SameKey(x, y) /\ SameKey(y, x)
      BY <1>1 DEF DataRow, SameKey
    <3>3. \A z : SameKey(z, z)
      BY DEF SameKey
    <3>4. \A z \in db'.data : \E w \in db.data : SameKey(z, w)
      BY <1>1, <3>1, <3>2, <3>3
    <3>5. \A w \in db.data : \E z \in db'.data : SameKey(z, w)
      BY <3>1, <3>2, <3>3
    <3> QED BY <3>1, <3>4, <3>5, SameRowsSameLists
  <2> QED BY <2>1, <2>2
<1>3. ListInv(db)'
  BY <1>1, <1>2, ListsPrime DEF RowsAreLists, ListsHaveJobs, Gone
<1>4. ListInv(disk)'
  BY <1>1, <1>2, ListsPrime DEF RowsAreLists, ListsHaveJobs, Gone
<1> QED BY <1>3, <1>4

\* The other steps touch neither jobs nor rows; commits and crashes copy.
LEMMA OtherLists ==
    ASSUME ListsInv,
           \/ EndCollect \/ EndFetch \/ Create \/ EndCreate
           \/ Send \/ RecordDelivery \/ EndSend \/ WakeUp \/ Restart
           \/ FetcherHangs \/ ScriptHangs \/ Shutdown \/ Crash \/ NextDay \/ UNCHANGED vars
    PROVE  ListInv(db)' /\ ListInv(disk)'
<1> USE DEF ListsInv, ListInv
<1>1. /\ db \in Database /\ disk \in Database
      /\ today \in Int /\ accepted \subseteq Days \X Domains \X Commands
  BY DEF DataInv, Inv, TypeOK
<1>2. /\ \E D \in {db, disk} : db'.jobs = D.jobs /\ db'.data = D.data
      /\ \E D \in {db, disk} : disk'.jobs = D.jobs /\ disk'.data = D.data
  <2>1. CASE Create
    <3>1. CASE \E day \in Days, dom \in Domains : CreateReportFor(day, dom)
      <4>1. /\ \E R, S : db' = [db EXCEPT !.reports = R, !.dests = S]
            /\ disk' = db'
        BY <3>1 DEF CreateReportFor
      <4> QED BY <1>1, <4>1 DEF Database
    <3>2. CASE \E day \in Days, dom \in Domains : CreateReportDies(day, dom)
      BY <3>2 DEF CreateReportDies
    <3> QED BY <2>1, <3>1, <3>2 DEF Create
  <2>2. CASE RecordDelivery
    BY <1>1, <2>2 DEF RecordDelivery, Database
  <2>3. CASE \/ EndCollect \/ EndFetch \/ EndCreate
             \/ Send \/ EndSend \/ WakeUp \/ Restart
             \/ FetcherHangs \/ ScriptHangs \/ Shutdown \/ Crash \/ NextDay \/ UNCHANGED vars
    BY <2>3 DEF EndCollect, EndFetch, EndCreate, Send, Deliver, DeliverDies, EndSend, WakeUp,
                Restart, FetcherHangs, ScriptHangs, Shutdown, Crash, NextDay, vars, dbVars
  <2> QED BY <2>1, <2>2, <2>3
<1>3. accepted' = accepted /\ today' \in {today, today + 1}
  BY DEF EndCollect, EndFetch, Create, CreateReportFor, CreateReportDies, EndCreate, Send, Deliver,
         DeliverDies, RecordDelivery, EndSend, WakeUp, Restart, FetcherHangs, ScriptHangs, Shutdown,
         Crash, NextDay, vars, histVars
<1>4. /\ RowsAreLists(db') /\ ListsHaveJobs(db')
      /\ RowsAreLists(disk') /\ ListsHaveJobs(disk')
  BY <1>2 DEF RowsAreLists, ListsHaveJobs, Gone, HasRow
<1>5. ListInv(db)'
  BY <1>1, <1>3, <1>4, ListsPrime DEF RowsAreLists, ListsHaveJobs, Gone
<1>6. ListInv(disk)'
  BY <1>1, <1>3, <1>4, ListsPrime DEF RowsAreLists, ListsHaveJobs, Gone
<1> QED BY <1>5, <1>6

\* No list was read yet.
LEMMA ListsInit == Init => ListsInv
BY DataInit DEF Init, ListsInv, ListInv, RowsAreLists, ListsHaveJobs, EmptyDb

\* Every step keeps rows and lists together.
LEMMA ListsNext == KeepDays >= 3 /\ ListsInv /\ [Next]_vars => ListsInv'
<1> SUFFICES ASSUME KeepDays >= 3, ListsInv, [Next]_vars PROVE ListsInv'
  OBVIOUS
<1>1. DataInv'
  BY DataNext DEF ListsInv
<1>2. CASE \E now \in {today, today + 1} : CheckDay(now)
  BY <1>1, <1>2, CheckDayLists DEF ListsInv
<1>3. CASE Collect
  BY <1>1, <1>3, CollectLists DEF Collect, ListsInv
<1>4. CASE Fetch
  BY <1>1, <1>4, FetchLists DEF Fetch, ListsInv
<1>5. CASE \/ EndCollect \/ EndFetch \/ Create \/ EndCreate
           \/ Send \/ RecordDelivery \/ EndSend \/ WakeUp \/ Restart
           \/ FetcherHangs \/ ScriptHangs \/ Shutdown \/ Crash \/ NextDay \/ UNCHANGED vars
  BY <1>1, <1>5, OtherLists DEF ListsInv
<1> QED BY <1>2, <1>3, <1>4, <1>5 DEF Next, Step

\* What is stored of a job's command on its day is the domains of the lists read to
\* their end, each once: after a crash, a broken list or a list read twice.
LEMMA ListsInvAtomic == ListsInv => ListsAreAtomic
<1> SUFFICES ASSUME ListsInv, NEW j \in disk.jobs, NEW dom \in Domains
             PROVE  LET cmd == Fetchers[j.idx]
                        rows == {x \in Rows(disk, j.day, dom) : x.fetcher = cmd}
                    IN  /\ rows # {} <=> <<j.day, dom, cmd>> \in accepted
                        /\ Cardinality(rows) <= 1
  BY DEF ListsAreAtomic
<1> DEFINE cmd == Fetchers[j.idx]
           rows == {x \in Rows(disk, j.day, dom) : x.fetcher = cmd}
<1>1. rows # {} <=> HasRow(disk, j.day, dom, cmd)
  BY DEF Rows, HasRow
<1>2. HasRow(disk, j.day, dom, cmd) <=> <<j.day, dom, cmd>> \in accepted
  BY DEF ListsInv, ListInv, RowsAreLists
<1>3. \A x, y \in rows : x = y
  BY DEF ListsInv, DataInv, KeysUnique, SameKey, Rows
<1>4. Cardinality(rows) <= 1
  <2> HIDE DEF rows
  <2>1. CASE rows = {}
    <3>1. Cardinality(rows) = 0
      BY <2>1, FS_EmptySet
    <3> QED BY <3>1
  <2>2. CASE rows # {}
    <3>1. PICK x : rows = {x}
      BY <1>3, <2>2
    <3>2. Cardinality(rows) = 1
      BY <3>1, FS_Singleton
    <3> QED BY <3>2
  <2> QED BY <2>1, <2>2
<1> QED BY <1>1, <1>2, <1>4

\* Lists are stored as a whole or not at all, if at least three days are kept.
THEOREM ListsStoredWhole == KeepDays >= 3 => (Spec => []ListsAreAtomic)
<1> SUFFICES ASSUME KeepDays >= 3 PROVE Spec => []ListsAreAtomic
  OBVIOUS
<1>1. ListsInv /\ [Next]_vars => ListsInv'
  BY ListsNext
<1> QED BY ListsInit, ListsInvAtomic, <1>1, PTL DEF Spec
============================================================================

--------------------------- MODULE PipelineProofs ---------------------------
(***************************************************************************)
(* Proofs about the whole pipeline: what reportd reports, and what it      *)
(* accepts from a fetcher, is what the collectd counted.                   *)
(*                                                                         *)
(* Each step of the pipeline is a step of the collectd, of reportd, of     *)
(* both or of neither, so the invariants of the two daemons' own proofs    *)
(* hold here; the instances CR and RP bring them in.  What joins the two   *)
(* is a fact about the past: a day the collectd has settled, and was       *)
(* there for, never changes again.  So what a file holds of such a day     *)
(* stays true after the fetcher opened it, what a row of reportdata says   *)
(* stays true after the fetcher is gone, and a report made of such rows    *)
(* says what was counted.                                                  *)
(***************************************************************************)
EXTENDS Pipeline, Sequences, FiniteSetTheorems, TLAPS

CR == INSTANCE CollectdRefinement WITH
    pc <- cpc, crashes <- ccrashes, FirstDay <- 1

RP == INSTANCE ReportdListProofs WITH
    pc <- rpc, crashes <- rcrashes,
    Domains <- {Domain}, Records <- {Record}, Dests <- {}, Fetchers <- <<Command>>,
    Ruas <- [r \in {Record} |-> <<>>], UnknownRuas <- {}, RaisingDests <- {},
    UnknownPolicies <- {},
    Payloads <- {Details(n) : n \in 0 .. MaxPolicies},
    FetchersHang <- FALSE, ScriptsHang <- FALSE, MaxRetriesDelivery <- 0

----------------------------------------------------------------------------
(* The proofs of the two daemons are about this collectd and this reportd. *)

\* The collectd's assumption follows from that of the pipeline.
LEMMA CollectdHolds == CR!CollectdAssumption
BY PipelineAssumption DEF CR!CollectdAssumption

\* Details are a function from records to counts.
LEMMA DetailsType ==
  ASSUME NEW n \in Nat
  PROVE  DOMAIN Details(n) \subseteq {Record} /\ Details(n) \in [DOMAIN Details(n) -> Nat]
BY DEF Details

\* The library's operators are the same whichever module brings them in.
LEMMA LibrarySame ==
  /\ \A S : IsFiniteSet(S) <=> RP!IsFiniteSet(S)
  /\ \A S : R!Cardinality(S) = RP!Cardinality(S)
  /\ \A f : R!Range(f) = RP!Range(f)
  /\ \A f : R!IsInjective(f) <=> RP!IsInjective(f)
  /\ \A S, T : R!Bijection(S, T) = RP!Bijection(S, T)
<1>1. ASSUME NEW S PROVE IsFiniteSet(S) <=> RP!IsFiniteSet(S)
  BY DEF IsFiniteSet, RP!IsFiniteSet
<1>2. ASSUME NEW S PROVE R!Cardinality(S) = RP!Cardinality(S)
  BY DEF R!Cardinality, RP!Cardinality
<1>3. ASSUME NEW f PROVE R!Range(f) = RP!Range(f)
  BY DEF R!Range, RP!Range
<1>4. ASSUME NEW f PROVE R!IsInjective(f) <=> RP!IsInjective(f)
  BY DEF R!IsInjective, RP!IsInjective
<1>5. ASSUME NEW S, NEW T PROVE R!Bijection(S, T) = RP!Bijection(S, T)
  BY DEF R!Bijection, RP!Bijection, R!Injection, RP!Injection, R!Surjection, RP!Surjection,
         R!IsInjective, RP!IsInjective, R!Range, RP!Range
<1> QED BY <1>1, <1>2, <1>3, <1>4, <1>5

\* And so does reportd's.
LEMMA ReportdHolds == RP!ReportdAssumption
<1>1. RP!IsFiniteSet({Record})
  BY FS_Singleton, LibrarySame
<1>2. <<Command>> \in Seq(STRING)
  BY PipelineAssumption
<1>3. [r \in {Record} |-> <<>>] \in [{Record} -> Seq({})]
  OBVIOUS
<1>4. \A p \in {Details(n) : n \in 0 .. MaxPolicies} :
        DOMAIN p \subseteq {Record} /\ p \in [DOMAIN p -> Nat]
  BY DetailsType
<1>5. /\ KeepDays \in Nat /\ MaxRetriesDomainlist \in Nat /\ 0 \in Nat /\ FALSE \in BOOLEAN
      /\ MaxDay \in Nat \ {0} /\ MaxCrashes \in Nat
      /\ NULL \notin {Details(n) : n \in 0 .. MaxPolicies}
      /\ NULL \notin {"ok", "timedout", "sent", "succeeded", "failed", "late", "unknownrua"}
  BY PipelineAssumption
<1> QED BY <1>1, <1>2, <1>3, <1>4, <1>5 DEF RP!ReportdAssumption

\* The steps of the collectd are those its proof is about.
LEMMA CollectdSame ==
  /\ C!Init => CR!Init
  /\ C!Start \/ C!Selects \/ C!Receive("stop") \/ C!Rollover \/ C!Resume => CR!Next
  /\ C!Crash => CR!Next
  /\ C!NextDay => CR!Next
<1>1. C!Init => CR!Init
  BY DEF C!Init, CR!Init, C!NoFile, CR!NoFile, C!NoOp, CR!NoOp, C!Days, CR!Days
<1>2. C!Start => CR!Start
  BY DEF C!Start, CR!Start, C!NoOp, CR!NoOp, C!histVars, CR!histVars
<1>3. C!Selects \/ C!Receive("stop") => \E kind \in {"datagram", "timeout", "stop"} : CR!Receive(kind)
  BY DEF C!Selects, C!Receive, CR!Receive, C!NoOp, CR!NoOp, C!histVars, CR!histVars
<1>4. C!Rollover => CR!Rollover
  BY DEF C!Rollover, CR!Rollover, C!RolloverCommit, CR!RolloverCommit, C!LabelDay, CR!LabelDay,
         C!LabelDayFails, CR!LabelDayFails, C!RemoveYesterday, CR!RemoveYesterday,
         C!RenameToday, CR!RenameToday, C!OpenNewDay, CR!OpenNewDay,
         C!SetupBegins, CR!SetupBegins, C!SetupEnds, CR!SetupEnds,
         C!GoDown, CR!GoDown, C!BecomesCommitted, CR!BecomesCommitted, C!DbCommit, CR!DbCommit,
         C!Uncommitted, CR!Uncommitted, C!Yesterday, CR!Yesterday, C!NoOp, CR!NoOp,
         C!NoFile, CR!NoFile, C!EmptyFile, CR!EmptyFile, C!histVars, CR!histVars, C!Days, CR!Days
<1>5. C!Resume => CR!Resume
  BY DEF C!Resume, CR!Resume, C!AddDatagram, CR!AddDatagram, C!AddDatagramFails, CR!AddDatagramFails,
         C!Count, CR!Count, C!TimedCommit, CR!TimedCommit, C!Shutdown, CR!Shutdown,
         C!Started, CR!Started, C!CommitAfterNDatagrams, CR!CommitAfterNDatagrams,
         C!CommitDue, CR!CommitDue, C!GoDown, CR!GoDown, C!BecomesCommitted, CR!BecomesCommitted,
         C!DbCommit, CR!DbCommit, C!Uncommitted, CR!Uncommitted, C!NoOp, CR!NoOp,
         C!NoFile, CR!NoFile, C!histVars, CR!histVars, C!Days, CR!Days
<1>6. C!Crash => CR!Crash
  BY DEF C!Crash, CR!Crash, C!GoDown, CR!GoDown, C!NoOp, CR!NoOp, C!NoFile, CR!NoFile, C!Days, CR!Days
<1>7. C!NextDay => CR!NextDay
  BY DEF C!NextDay, CR!NextDay
<1> QED BY <1>1, <1>2, <1>3, <1>4, <1>5, <1>6, <1>7 DEF CR!Next

\* So are those of reportd, one lemma per phase: check_day,
LEMMA CheckDaySame == ASSUME NEW now, R!CheckDay(now) PROVE RP!CheckDay(now)
BY DEF R!CheckDay, RP!CheckDay, R!CleanUp, RP!CleanUp, R!Kept, RP!Kept, R!NewJobs, RP!NewJobs,
       R!SelectJobs, RP!SelectJobs, R!Due, RP!Due, R!Pending, RP!Pending, R!histVars, RP!histVars

\* collect_domains,
LEMMA CollectSame ==
  ASSUME NEW j
  PROVE  /\ R!CollectFails(j) => RP!CollectFails(j)
         /\ R!CollectTruncated(j) => RP!CollectTruncated(j)
         /\ \A list : R!CollectOk(j, list) => RP!CollectOk(j, list)
BY DEF R!CollectFails, RP!CollectFails, R!CollectTruncated, RP!CollectTruncated,
       R!CollectOk, RP!CollectOk, R!Collecting, RP!Collecting, R!Replace, RP!Replace,
       R!RetryOrTimeout, RP!RetryOrTimeout, R!NewRows, RP!NewRows, R!Rows, RP!Rows,
       R!histVars, RP!histVars

\* fetch_data,
LEMMA FetchSame ==
  ASSUME NEW x
  PROVE  /\ R!FetchFails(x) => RP!FetchFails(x)
         /\ \A payload : R!FetchOk(x, payload) => RP!FetchOk(x, payload)
BY DEF R!FetchFails, RP!FetchFails, R!FetchOk, RP!FetchOk, R!Replace, RP!Replace,
       R!histVars, RP!histVars, R!dbVars, RP!dbVars

\* create_reports,
LEMMA CreateSame == R!Create => RP!Create
<1>a. /\ \A D, d, dom : R!RecordsOf(D, d, dom) = RP!RecordsOf(D, d, dom)
      /\ \A D, d, dom, rec : R!Shares(D, d, dom, rec) = RP!Shares(D, d, dom, rec)
  BY DEF R!RecordsOf, RP!RecordsOf, R!Shares, RP!Shares, R!Fetched, RP!Fetched, R!Rows, RP!Rows
<1>b. \A D, d, dom, num, last : R!NewReports(D, d, dom, num, last) = RP!NewReports(D, d, dom, num, last)
  BY <1>a, LibrarySame DEF R!NewReports, RP!NewReports
<1>c. \A num, last : R!NewDests(num, last) = RP!NewDests(num, last)
  BY LibrarySame DEF R!NewDests, RP!NewDests
<1>d. \A D, d, dom : R!Renderable(D, d, dom) <=> RP!Renderable(D, d, dom)
  BY <1>a, LibrarySame DEF R!Renderable, RP!Renderable, R!Fetched, RP!Fetched, R!Rows, RP!Rows
<1>1. ASSUME NEW d, NEW dom, R!CreateReportFor(d, dom) PROVE RP!CreateReportFor(d, dom)
  <2> DEFINE recs == RP!RecordsOf(db, d, dom)
  <2>1. /\ R!RecordsOf(db, d, dom) = recs
        /\ R!Bijection(recs, 1 .. R!Cardinality(recs)) = RP!Bijection(recs, 1 .. RP!Cardinality(recs))
    BY <1>a, LibrarySame
  <2>2. /\ RP!Renderable(db, d, dom)
        /\ \A num, last : R!NewReports(db, d, dom, num, last) = RP!NewReports(db, d, dom, num, last)
        /\ \A num, last : R!NewDests(num, last) = RP!NewDests(num, last)
    BY <1>1, <1>b, <1>c, <1>d DEF R!CreateReportFor
  <2>3. PICK num \in RP!Bijection(recs, 1 .. RP!Cardinality(recs)),
             last \in {0} \cup {r.rid : r \in db.reports} :
          /\ \A r \in db.reports : r.rid <= last
          /\ db' = [db EXCEPT !.reports = @ \cup RP!NewReports(db, d, dom, num, last),
                              !.dests = @ \cup RP!NewDests(num, last)]
    BY <1>1, <2>1, <2>2, ZenonT(40) DEF R!CreateReportFor
  <2>4. /\ rpc = "create" /\ <<d, dom>> \in todo /\ todo' = todo \ {<<d, dom>>}
        /\ disk' = db' /\ UNCHANGED <<today, rpc, answer, rcrashes, accepted, copies, excused>>
        /\ history' = IF recs = {} THEN history ELSE history \cup {<<d, dom>>}
    BY <1>1, <2>1, Zenon DEF R!CreateReportFor
  <2> QED BY <2>2, <2>3, <2>4, Zenon DEF RP!CreateReportFor
<1>2. ASSUME NEW d, NEW dom, R!CreateReportDies(d, dom) PROVE RP!CreateReportDies(d, dom)
  BY <1>2, <1>d DEF R!CreateReportDies, RP!CreateReportDies, R!histVars, RP!histVars
<1> QED BY <1>1, <1>2 DEF R!Create, RP!Create, R!Days, RP!Days

\* and the rest of the loop.
LEMMA ReportdSame ==
  /\ R!Init => RP!Init
  /\ R!EndCollect => RP!EndCollect
  /\ R!EndFetch => RP!EndFetch
  /\ R!EndCreate => RP!EndCreate
  /\ R!EndSend => RP!EndSend
  /\ R!WakeUp => RP!WakeUp
  /\ R!Restart => RP!Restart
  /\ R!Shutdown => RP!Shutdown
  /\ R!Crash => RP!Crash
  /\ R!NextDay => RP!NextDay
BY DEF R!Init, RP!Init, R!EndCollect, RP!EndCollect, R!EndFetch, RP!EndFetch, R!EndCreate, RP!EndCreate,
       R!EndSend, RP!EndSend, R!WakeUp, RP!WakeUp, R!Restart, RP!Restart, R!Shutdown, RP!Shutdown,
       R!Crash, RP!Crash, R!NextDay, RP!NextDay, R!histVars, RP!histVars, R!dbVars, RP!dbVars,
       R!Fetchable, RP!Fetchable, R!PendingDays, RP!PendingDays, R!Pending, RP!Pending,
       R!Reportable, RP!Reportable, R!HasReport, RP!HasReport, R!Fetched, RP!Fetched, R!Rows, RP!Rows,
       R!Due, RP!Due, R!NoAnswer, RP!NoAnswer, R!Bump, RP!Bump, R!KeysOf, RP!KeysOf,
       R!EmptyDb, RP!EmptyDb, R!Key, RP!Key, R!Days, RP!Days

----------------------------------------------------------------------------
(* The invariant.                                                          *)

\* A row of reportdata is about a day with something to report, and the details that
\* were stored in it are what was counted.
RowTrue(x) ==
  /\ x.day \notin late => Counted(x.day) > 0 /\ CR!Settled(x.day)
  /\ x.data # NULL => \A rec \in DOMAIN x.data :
        /\ x.data[rec] <= added[x.day]
        /\ x.day \notin late => x.data[rec] = Counted(x.day)

RowsTrue(D) == \A x \in D.data : RowTrue(x)

\* A file that a fetcher opened holds, of a day that is not in `late', nothing or all.
FileTrue(file) ==
  /\ file \in CR!File
  /\ file.schema = "complete" => file.label \in CR!Labels /\ file.label < today
  /\ \A d \in CR!Days : file.rows[d] <= added[d]
  /\ \A d \in CR!Days \ late :
        file.rows[d] > 0 \/ file.label = d => file.rows[d] = Counted(d) /\ CR!Settled(d)

\* The fetcher that runs was started for the phase.  If it is asked for the details of
\* yesterday, then because a list of yesterday was there, so it opened yesterday's file.
Asked ==
  fetcher # NoFetcher =>
    /\ rpc \in {"collect", "fetch"}
    /\ fetcher.row \in todo
    /\ rpc = "fetch" /\ fetcher.row.day = today - 1 /\ today - 1 \notin late =>
          fetcher.file.label = today - 1

PInv ==
  /\ CR!RInv
  /\ RP!AnswersInv
  /\ RowsTrue(db)
  /\ RowsTrue(disk)
  /\ FileTrue(fetcher.file)
  /\ Asked

----------------------------------------------------------------------------
(* What the steps have in common.                                          *)

\* The types that are needed.
LEMMA Types ==
  ASSUME PInv
  PROVE  /\ today \in Int /\ late \subseteq Int
         /\ \A d \in CR!Days : d \in Int /\ added[d] \in Nat /\ lost[d] \in Int /\ added[d] <= MaxPolicies
         /\ RP!Days \subseteq CR!Days
         /\ rpc = "collect" => \A j \in todo : j.day \in RP!Days /\ j.day < today
         /\ rpc = "fetch" => \A x \in todo : x \in db.data
         /\ \A x \in db.data \cup disk.data :
               x \in RP!DataRow /\ x.day \in CR!Days /\ x.day < today
<1>1. CR!TypeOK /\ RP!TypeOK
  BY DEF PInv, CR!RInv, CR!IInv, RP!AnswersInv, RP!DataInv, RP!Inv
<1>2. RP!Days \subseteq CR!Days /\ MaxDay \in Nat
  BY PipelineAssumption DEF RP!Days, CR!Days
<1>3. /\ today \in Int /\ late \subseteq Int
      /\ \A d \in CR!Days : d \in Int /\ added[d] \in Nat /\ lost[d] \in Int
  BY <1>1, <1>2 DEF CR!TypeOK, CR!Days, CR!Labels
<1>4. \A d \in CR!Days : added[d] <= MaxPolicies
  BY DEF PInv, CR!RInv, CR!Shelved
<1>5. \A x \in db.data \cup disk.data : x \in RP!DataRow /\ x.day \in CR!Days /\ x.day < today
  BY <1>1, <1>2 DEF RP!TypeOK, RP!Database, RP!DataRow, PInv, RP!AnswersInv, RP!DaysOver
<1>6. rpc = "collect" => \A j \in todo : j.day \in RP!Days /\ j.day < today
  BY <1>1 DEF RP!TypeOK, RP!JobRow, PInv, RP!AnswersInv, RP!DataInv, RP!Inv, RP!PhaseInv, RP!Pending, RP!DaysOver
<1>7. rpc = "fetch" => \A x \in todo : x \in db.data
  BY DEF PInv, RP!AnswersInv, RP!DataInv, RP!Inv, RP!PhaseInv, RP!Fetchable
<1> QED BY <1>2, <1>3, <1>4, <1>5, <1>6, <1>7

\* Each step is one of the collectd, or leaves it alone.
LEMMA CollectdStep == ASSUME [Next]_vars PROVE [CR!Next]_(CR!vars)
<1>1. CASE ReadList \/ ReadDetails
  BY <1>1 DEF ReadList, ReadDetails, R!CollectFails, R!CollectTruncated, R!CollectOk, R!FetchFails, R!FetchOk,
              collectdVars, CR!vars, CR!histVars
<1>2. CASE ReportdAlone
  BY <1>2 DEF ReportdAlone, R!CheckDay, R!EndCollect, R!EndFetch, R!Create, R!CreateReportFor,
              R!CreateReportDies, R!EndCreate, R!EndSend, R!WakeUp, R!Restart, R!Shutdown,
              collectdVars, CR!vars, CR!histVars
<1>3. CASE StartFetcher \/ ReportdCrash \/ UNCHANGED vars
  BY <1>3 DEF StartFetcher, ReportdCrash, R!Crash, vars, collectdVars, CR!vars, CR!histVars
<1> QED BY <1>1, <1>2, <1>3, CollectdSame DEF Next, CollectdCalls, CollectdCrash, NextDay

\* The list and the details a fetcher prints are among those reportd may get.
LEMMA Printed ==
  ASSUME PInv, NEW d \in CR!Days
  PROVE  /\ fetcher.file.rows[d] \in Nat
         /\ List(fetcher.file, d) \in SUBSET {Domain}
         /\ Details(fetcher.file.rows[d]) \in {Details(n) : n \in 0 .. MaxPolicies}
<1>1. fetcher.file.rows[d] \in Nat /\ fetcher.file.rows[d] <= added[d]
  BY DEF PInv, FileTrue, CR!File
<1>2. fetcher.file.rows[d] \in 0 .. MaxPolicies
  BY <1>1, Types, PipelineAssumption
<1> QED BY <1>1, <1>2 DEF List

\* Each step is one of reportd, or leaves it alone.
LEMMA ReportdStep == ASSUME PInv, [Next]_vars PROVE [RP!Next]_(RP!vars)
<1>1. CASE ReadList
  <2> DEFINE j == fetcher.row
  <2>1. j \in todo /\ (j.day \in CR!Days)
    BY <1>1, Types DEF ReadList, PInv, Asked
  <2>2. \/ R!CollectFails(j) \/ R!CollectTruncated(j)
        \/ R!CollectOk(j, List(fetcher.file, j.day))
    BY <1>1 DEF ReadList
  <2>3. RP!Collect
    BY <2>1, <2>2, Printed, CollectSame DEF RP!Collect
  <2> QED BY <2>3 DEF RP!Next, RP!Step
<1>2. CASE ReadDetails
  <2> DEFINE x == fetcher.row
  <2>1. x \in todo /\ x.day \in CR!Days
    BY <1>2, Types DEF ReadDetails, PInv, Asked
  <2>2. R!FetchFails(x) \/ R!FetchOk(x, Details(fetcher.file.rows[x.day]))
    BY <1>2 DEF ReadDetails, C!DomainDetails
  <2>3. RP!Fetch
    BY <2>1, <2>2, Printed, FetchSame DEF RP!Fetch
  <2> QED BY <2>3 DEF RP!Next, RP!Step
<1>3. CASE ReportdAlone
  BY <1>3, CheckDaySame, CreateSame, ReportdSame DEF ReportdAlone, RP!Next, RP!Step
<1>4. CASE ReportdCrash
  BY <1>4, ReportdSame DEF ReportdCrash, RP!Next
<1>5. CASE NextDay
  <2>1. R!NextDay \/ R!CheckDay(today + 1)
    BY <1>5 DEF NextDay
  <2> QED BY <2>1, CheckDaySame, ReportdSame DEF RP!Next, RP!Step
<1>6. CASE CollectdCalls \/ CollectdCrash
  BY <1>6 DEF CollectdCalls, CollectdCrash, reportdVars, RP!vars, RP!histVars,
    C!Start, C!Selects, C!Receive, C!Crash, C!Rollover, C!Resume, C!RolloverCommit, C!LabelDay,
         C!LabelDayFails, C!RemoveYesterday, C!RenameToday, C!OpenNewDay, C!SetupBegins, C!SetupEnds,
         C!AddDatagram, C!AddDatagramFails, C!Count, C!TimedCommit, C!Shutdown, C!Started
<1>7. CASE StartFetcher \/ UNCHANGED vars
  BY <1>7 DEF StartFetcher, vars, reportdVars, RP!vars, RP!histVars
<1> QED BY <1>1, <1>2, <1>3, <1>4, <1>5, <1>6, <1>7 DEF Next

\* The invariants of the two parts.
LEMMA PartsStep == ASSUME PInv, [Next]_vars PROVE CR!RInv' /\ RP!AnswersInv'
<1>1. CR!RInv'
  BY CollectdHolds, CollectdStep, CR!RInvStep DEF PInv
<1>2. RP!AnswersInv'
  BY ReportdHolds, ReportdStep, RP!AnswersNext DEF PInv
<1> QED BY <1>1, <1>2

\* The collectd does not change the past.
LEMMA PastStays ==
  ASSUME PInv, [Next]_vars
  PROVE  /\ late \subseteq late'
         /\ today <= today'
         /\ \A d \in CR!Days :
              /\ added[d] <= added'[d] /\ added'[d] \in Nat
              /\ d \notin late' /\ CR!Settled(d) => CR!Settled(d)' /\ Counted(d)' = Counted(d)
<1>1. CR!RInv
  BY DEF PInv
<1>2. late \subseteq late'
  BY <1>1, CollectdHolds, CollectdStep, CR!LateGrows
<1>3. CR!TypeOK'
  BY PartsStep DEF CR!RInv, CR!IInv
<1>4. today' \in {today, today + 1}
  BY CollectdHolds, CollectdStep, CR!ClockStep
<1>5. ASSUME NEW d \in CR!Days PROVE added[d] <= added'[d] /\ added'[d] \in Nat
  BY <1>1, <1>3, CollectdHolds, CollectdStep, CR!AddedGrows DEF CR!TypeOK
<1>6. ASSUME NEW d \in CR!Days, d \notin late', CR!Settled(d) PROVE CR!Settled(d)' /\ Counted(d)' = Counted(d)
  BY <1>1, <1>6, CollectdHolds, CollectdStep, CR!SettledStep DEF Counted
<1> QED BY <1>2, <1>4, <1>5, <1>6, Types

\* What is true of a row stays true.
LEMMA RowStays ==
  ASSUME PInv, [Next]_vars, NEW x \in RP!DataRow, x.day \in CR!Days, RowTrue(x)
  PROVE  RowTrue(x)'
<1>1. ASSUME x.data # NULL, NEW rec \in DOMAIN x.data PROVE x.data[rec] \in Nat
  <2>1. PICK n \in 0 .. MaxPolicies : x.data = Details(n)
    BY <1>1 DEF RP!DataRow
  <2> QED BY <1>1, <2>1, DetailsType
<1>2. x.day \notin late' => CR!Settled(x.day)' /\ Counted(x.day)' = Counted(x.day) /\ x.day \notin late
  BY PastStays DEF RowTrue
<1>3. ASSUME x.data # NULL, NEW rec \in DOMAIN x.data PROVE x.data[rec] <= added'[x.day]
  BY <1>1, <1>3, PastStays, Types DEF RowTrue
<1> QED BY <1>2, <1>3 DEF RowTrue

\* What is true of a file that is open stays true, whatever becomes of the name.
LEMMA FileStays ==
  ASSUME PInv, [Next]_vars, NEW file, FileTrue(file)
  PROVE  FileTrue(file)'
<1>1. file \in CR!File
  BY DEF FileTrue
<1>2. file.schema = "complete" => file.label \in CR!Labels /\ file.label < today'
  <2>1. file.label \in CR!Labels => file.label \in Int
    BY DEF CR!Labels
  <2>2. today' \in Int
    BY PartsStep DEF CR!RInv, CR!IInv, CR!TypeOK, CR!Days
  <2> QED BY <2>1, <2>2, PastStays, Types DEF FileTrue
<1>3. ASSUME NEW d \in CR!Days PROVE file.rows[d] <= added'[d]
  BY <1>1, PastStays, Types DEF FileTrue, CR!File
<1>4. ASSUME NEW d \in CR!Days \ late', file.rows[d] > 0 \/ file.label = d
      PROVE  file.rows[d] = Counted(d)' /\ CR!Settled(d)'
  BY <1>4, PastStays DEF FileTrue
<1> QED BY <1>1, <1>2, <1>3, <1>4 DEF FileTrue, CR!File, CR!Labels, CR!Days

\* The file that fetchers find, and none, are such files.
LEMMA FoundIsTrue ==
  ASSUME PInv
  PROVE  FileTrue(yest) /\ FileTrue(NoFetcher.file)
<1>1. FileTrue(yest)
  <2>1. yest \in CR!File
    BY DEF PInv, CR!RInv, CR!IInv, CR!TypeOK
  <2>2. /\ yest.schema = "complete" => yest.label \in CR!Labels /\ yest.label < today
        /\ \A d \in CR!Days : yest.rows[d] <= added[d]
    BY DEF PInv, CR!RInv, CR!IInv, CR!Shelved, CR!Dates, CR!Labels
  <2>3. ASSUME NEW d \in CR!Days \ late, yest.rows[d] > 0 \/ yest.label = d
        PROVE  yest.rows[d] = Counted(d) /\ CR!Settled(d)
    BY <2>3, CollectdHolds, CR!FoundIsSettled DEF PInv, CR!Net, Counted
  <2> QED BY <2>1, <2>2, <2>3 DEF FileTrue
<1>2. FileTrue(NoFetcher.file)
  <2>1. NoFetcher.file = CR!NoFile
    BY DEF NoFetcher, C!NoFile, CR!NoFile, C!Days, CR!Days
  <2>2. CR!NoFile \in CR!File /\ CR!NoFile.label \notin Int /\ CR!NoFile.schema # "complete"
    BY PipelineAssumption DEF CR!NoFile, CR!File
  <2>3. \A d \in CR!Days : d \in Int /\ CR!NoFile.rows[d] = 0
    BY DEF CR!NoFile, CR!Days
  <2> QED BY <2>1, <2>2, <2>3, Types DEF FileTrue
<1> QED BY <1>1, <1>2

----------------------------------------------------------------------------
(* The steps.                                                              *)

\* The rows are true if those are that are new.
LEMMA RowsStep ==
  ASSUME PInv, [Next]_vars,
         \A x \in db'.data \cup disk'.data : x \in db.data \cup disk.data \/ RowTrue(x)'
  PROVE  RowsTrue(db)' /\ RowsTrue(disk)'
<1>1. ASSUME NEW x \in db.data \cup disk.data PROVE RowTrue(x)'
  <2>1. x \in RP!DataRow /\ x.day \in CR!Days /\ RowTrue(x)
    BY Types DEF PInv, RowsTrue
  <2> QED BY <2>1, RowStays
<1> QED BY <1>1 DEF RowsTrue

\* A fetcher that goes on, or ends, holds the file it opened.
LEMMA FileStep ==
  ASSUME PInv, [Next]_vars, fetcher' \in {fetcher, NoFetcher}
  PROVE  FileTrue(fetcher.file)'
<1>1. fetcher'.file \in {fetcher.file, NoFetcher.file}
  OBVIOUS
<1>2. ASSUME NEW file \in {fetcher.file, NoFetcher.file} PROVE FileTrue(file)'
  BY FoundIsTrue, FileStays DEF PInv
<1> QED BY <1>1, <1>2 DEF FileTrue

\* A fetcher starts and opens the file it finds.
LEMMA StartPInv == ASSUME PInv, StartFetcher PROVE PInv'
<1>0. [Next]_vars
  BY DEF Next
<1>1. PICK x \in todo : fetcher' = [row |-> x, file |-> yest]
  BY DEF StartFetcher
<1>2. UNCHANGED <<today, late, db, disk, rpc, todo>> /\ rpc \in {"collect", "fetch"}
  BY DEF StartFetcher, collectdVars, reportdVars
<1>3. RowsTrue(db)' /\ RowsTrue(disk)'
  BY <1>0, <1>2, RowsStep
<1>4. FileTrue(fetcher.file)'
  <2>1. \A file : FileTrue(file) => FileTrue(file)'
    BY <1>0, FileStays
  <2>2. FileTrue(yest)
    BY FoundIsTrue
  <2>3. fetcher'.file = yest
    BY <1>1
  <2> QED BY <2>1, <2>2, <2>3 DEF FileTrue
<1>5. ASSUME rpc = "fetch", x.day = today - 1, today - 1 \notin late PROVE yest.label = today - 1
  <2>1. x \in db.data /\ x.day \in CR!Days
    BY <1>5, Types
  <2>2. CR!Settled(today - 1)
    BY <1>5, <2>1 DEF PInv, RowsTrue, RowTrue
  <2> QED BY <1>5, <2>1, <2>2, CollectdHolds, CR!YesterdayIsFound DEF PInv
<1>6. Asked'
  BY <1>1, <1>2, <1>5 DEF Asked
<1> QED BY <1>0, <1>3, <1>4, <1>6, PartsStep DEF PInv

\* What a list says is true.
LEMMA ListTrue ==
  ASSUME PInv, ReadList,
         LET j == fetcher.row
         IN  Ready(fetcher.file, j.day) /\ R!CollectOk(j, List(fetcher.file, j.day))
  PROVE  LET j == fetcher.row IN
         /\ j.day \in RP!Days /\ j.day \in CR!Days /\ j.day < today
         /\ UNCHANGED <<today, collectdVars>>
         /\ \A x \in db'.data \cup disk'.data :
               x \in db.data \/ (RowTrue(x)' /\ x.day = j.day /\ x.domain \in List(fetcher.file, j.day) /\ x.data = NULL)
         /\ \A i \in db'.jobs \ db.jobs : i.day = j.day
         /\ \A dom \in List(fetcher.file, j.day) : RP!Rows(db', j.day, dom) # {}
<1> DEFINE j == fetcher.row
           list == List(fetcher.file, j.day)
<1>1. j \in todo /\ rpc = "collect"
  BY DEF ReadList, PInv, Asked
<1>2. j.day \in RP!Days /\ j.day \in CR!Days /\ j.day < today
  BY <1>1, Types
<1>3. list \in SUBSET {Domain}
  BY <1>2, Printed
<1>4. RP!CollectOk(j, list)
  BY CollectSame
<1>5. /\ db'.data = disk'.data
      /\ \A x \in db'.data : x \in db.data \/ (x.day = j.day /\ x.domain \in list /\ x.data = NULL)
      /\ \A i \in db'.jobs \ db.jobs : i.day = j.day
      /\ \A dom \in list : RP!Rows(db', j.day, dom) # {}
  BY <1>1, <1>3, <1>4, ReportdHolds, RP!CollectOkAnswer DEF PInv
<1>6. UNCHANGED <<today, collectdVars>>
  BY DEF ReadList, R!CollectOk
<1>7. ASSUME NEW x, x.day = j.day, x.domain \in list, x.data = NULL PROVE RowTrue(x)'
  <2>1. fetcher.file.rows[j.day] > 0
    BY <1>7 DEF List, C!DomainDetails
  <2>2. j.day \notin late => Counted(j.day) > 0 /\ CR!Settled(j.day)
    BY <1>2, <2>1 DEF PInv, FileTrue
  <2> QED BY <1>6, <1>7, <2>2 DEF RowTrue, Counted, CR!Settled, collectdVars
<1>8. ASSUME NEW x \in db'.data \cup disk'.data, x \notin db.data
      PROVE  RowTrue(x)' /\ x.day = j.day /\ x.domain \in list /\ x.data = NULL
  BY <1>5, <1>7, <1>8
<1> HIDE DEF list
<1> QED BY <1>2, <1>5, <1>6, <1>8 DEF list

\* A list is read, and the fetcher ends.
LEMMA ReadListPInv == ASSUME PInv, ReadList PROVE PInv'
<1> DEFINE j == fetcher.row
<1>0. [Next]_vars
  BY DEF Next
<1>1. \A x \in db'.data \cup disk'.data : x \in db.data \cup disk.data \/ RowTrue(x)'
  <2>1. CASE R!CollectFails(j) \/ R!CollectTruncated(j)
    <3>1. j \in todo /\ (RP!CollectFails(j) \/ RP!CollectTruncated(j))
      BY <2>1, CollectSame DEF ReadList, PInv, Asked
    <3> QED BY <3>1, ReportdHolds, RP!CollectFailsNoNews DEF PInv, RP!NoNews
  <2>2. CASE Ready(fetcher.file, j.day) /\ R!CollectOk(j, List(fetcher.file, j.day))
    BY <2>2, ListTrue
  <2> QED BY <2>1, <2>2 DEF ReadList
<1>2. fetcher' = NoFetcher
  BY DEF ReadList
<1> QED BY <1>0, <1>1, <1>2, RowsStep, FileStep, PartsStep DEF PInv, Asked

\* What is printed of a day is true.
LEMMA DetailsTrue ==
  ASSUME PInv, ReadDetails,
         LET x == fetcher.row
         IN  R!FetchOk(x, Details(C!DomainDetails(fetcher.file, x.day)))
  PROVE  LET x == fetcher.row IN
         /\ x \in db.data /\ x.day \in CR!Days /\ rpc = "fetch" /\ db'.jobs = db.jobs
         /\ UNCHANGED <<today, collectdVars>>
         /\ \A y \in db'.data \cup disk'.data :
               y \in db.data \/ (RowTrue(y)' /\ y.day = x.day /\ y.data = Details(fetcher.file.rows[x.day]))
<1> DEFINE x == fetcher.row
           d == x.day
           n == fetcher.file.rows[x.day]
<1>1. x \in todo /\ rpc = "fetch"
  BY DEF ReadDetails, PInv, Asked
<1>2. x \in db.data /\ d \in CR!Days
  BY <1>1, Types
<1>3. Details(n) \in {Details(m) : m \in 0 .. MaxPolicies} /\ n \in Nat
  BY <1>2, Printed
<1>4. RP!FetchOk(x, Details(n))
  BY FetchSame DEF C!DomainDetails
<1>5. /\ db' = disk' /\ db'.jobs = db.jobs
      /\ \A y \in db'.data : y \in db.data \/ (y.day = x.day /\ y.data = Details(n))
  BY <1>1, <1>3, <1>4, ReportdHolds, RP!FetchOkAnswer DEF PInv
<1>6. UNCHANGED <<today, collectdVars>>
  BY DEF ReadDetails, R!FetchOk
<1>7. ASSUME NEW y, y.day = d, y.data = Details(n) PROVE RowTrue(y)'
  <2>1. RowTrue(x) /\ n <= added[d]
    BY <1>2 DEF PInv, RowsTrue, FileTrue
  <2>2. d \notin late => Counted(d) > 0 /\ CR!Settled(d)
    BY <2>1 DEF RowTrue
  <2>3. ASSUME NEW rec \in DOMAIN y.data
        PROVE  y.data[rec] = n /\ n > 0
    BY <1>3, <1>7 DEF Details
  <2>4. ASSUME d \notin late, n > 0 PROVE n = Counted(d)
    BY <1>2, <2>4 DEF PInv, FileTrue
  <2> QED BY <1>6, <1>7, <2>1, <2>2, <2>3, <2>4 DEF RowTrue, Counted, CR!Settled, collectdVars
<1> QED BY <1>1, <1>2, <1>5, <1>6, <1>7

\* Details are read, and the fetcher ends.
LEMMA ReadDetailsPInv == ASSUME PInv, ReadDetails PROVE PInv'
<1> DEFINE x == fetcher.row
<1>0. [Next]_vars
  BY DEF Next
<1>1. \A y \in db'.data \cup disk'.data : y \in db.data \cup disk.data \/ RowTrue(y)'
  <2>1. CASE R!FetchFails(x)
    <3>1. x \in todo /\ RP!FetchFails(x)
      BY <2>1, FetchSame DEF ReadDetails, PInv, Asked
    <3> QED BY <3>1, ReportdHolds, RP!OtherNoNews DEF PInv, RP!NoNews
  <2>2. CASE R!FetchOk(x, Details(C!DomainDetails(fetcher.file, x.day)))
    BY <2>2, DetailsTrue
  <2> QED BY <2>1, <2>2 DEF ReadDetails
<1>2. fetcher' = NoFetcher
  BY DEF ReadDetails
<1> QED BY <1>0, <1>1, <1>2, RowsStep, FileStep, PartsStep DEF PInv, Asked

\* The steps of reportd and of the clock bring no news.
LEMMA QuietNoNews ==
  ASSUME PInv, ReportdAlone \/ ReportdCrash \/ NextDay
  PROVE  RP!NoNews
<1>1. CASE \E now \in {today, today + 1} : R!CheckDay(now)
  BY <1>1, CheckDaySame, ReportdHolds, RP!CheckDayNoNews DEF PInv
<1>2. CASE \/ R!EndCollect \/ R!EndFetch \/ R!Create \/ R!EndCreate \/ R!EndSend
           \/ R!WakeUp \/ R!Restart \/ R!Shutdown \/ R!Crash \/ R!NextDay
  BY <1>2, CreateSame, ReportdSame, ReportdHolds, RP!OtherNoNews DEF PInv
<1> QED BY <1>1, <1>2 DEF ReportdAlone, ReportdCrash, NextDay

\* No phase ends, and none dies, before its fetcher does.
LEMMA ReportdAlonePInv == ASSUME PInv, ReportdAlone \/ ReportdCrash PROVE PInv'
<1>0. [Next]_vars
  BY DEF Next
<1>1. \A x \in db'.data \cup disk'.data : x \in db.data \cup disk.data
  BY QuietNoNews DEF RP!NoNews
<1>2. fetcher' \in {fetcher, NoFetcher}
  BY DEF ReportdAlone, ReportdCrash
<1>3. fetcher' = NoFetcher
  BY <1>2 DEF ReportdAlone, ReportdCrash, PInv, Asked, R!CheckDay, R!EndCollect, R!EndFetch, R!Create,
              R!CreateReportFor, R!CreateReportDies, R!EndCreate, R!EndSend, R!WakeUp, R!Restart, R!Shutdown
<1> QED BY <1>0, <1>1, <1>2, <1>3, RowsStep, FileStep, PartsStep DEF PInv, Asked

\* The details of yesterday are no longer asked for as such once midnight has passed.
LEMMA NextDayPInv == ASSUME PInv, NextDay PROVE PInv'
<1>0. [Next]_vars
  BY DEF Next
<1>1. \A x \in db'.data \cup disk'.data : x \in db.data \cup disk.data
  BY QuietNoNews DEF RP!NoNews
<1>2. fetcher' = fetcher /\ today' = today + 1
  BY DEF NextDay, C!NextDay
<1>3. Asked'
  <2>1. CASE R!CheckDay(today + 1)
    BY <1>2, <2>1 DEF PInv, Asked, R!CheckDay
  <2>2. CASE R!NextDay
    <3>1. rpc' = rpc /\ todo' = todo
      BY <2>2 DEF R!NextDay
    <3>2. ASSUME fetcher # NoFetcher, rpc = "fetch" PROVE fetcher.row.day # today
      <4>1. fetcher.row \in db.data
        BY <3>2, Types DEF PInv, Asked
      <4>2. fetcher.row.day < today /\ fetcher.row.day \in Int /\ today \in Int
        BY <4>1, Types
      <4> QED BY <4>2
    <3>3. today' - 1 = today
      BY <1>2, Types
    <3> QED BY <1>2, <3>1, <3>2, <3>3 DEF PInv, Asked
  <2> QED BY <2>1, <2>2 DEF NextDay
<1> QED BY <1>0, <1>1, <1>2, <1>3, RowsStep, FileStep, PartsStep DEF PInv

\* The collectd does not touch what reportd has, and marks a day only after it is over.
LEMMA CollectdPInv == ASSUME PInv, CollectdCalls \/ CollectdCrash \/ UNCHANGED vars PROVE PInv'
<1>0. [Next]_vars
  BY DEF Next
<1>1. UNCHANGED <<reportdVars, fetcher>>
  BY DEF CollectdCalls, CollectdCrash, vars
<1>2. today' = today
  BY DEF CollectdCalls, CollectdCrash, vars, C!Start, C!Selects, C!Receive, C!Crash, C!Rollover, C!Resume,
         C!RolloverCommit, C!LabelDay, C!LabelDayFails, C!RemoveYesterday, C!RenameToday, C!OpenNewDay,
         C!SetupBegins, C!SetupEnds, C!AddDatagram, C!AddDatagramFails, C!Count, C!TimedCommit,
         C!Shutdown, C!Started
<1>3. Asked'
  BY <1>0, <1>1, <1>2, PastStays DEF PInv, Asked, reportdVars
<1>4. \A x \in db'.data \cup disk'.data : x \in db.data \cup disk.data
  BY <1>1 DEF reportdVars
<1> QED BY <1>0, <1>1, <1>3, <1>4, RowsStep, FileStep, PartsStep DEF PInv

\* Nothing is collected, asked for or known.
LEMMA InitPInv == Init => PInv
<1> SUFFICES ASSUME Init PROVE PInv
  OBVIOUS
<1>1. CR!RInv
  BY CollectdSame, CollectdHolds, CR!RInvInit DEF Init
<1>2. RP!AnswersInv
  BY ReportdSame, ReportdHolds, RP!AnswersInit DEF Init
<1>3. db.data = {} /\ disk.data = {} /\ fetcher = NoFetcher
  BY DEF Init, R!Init, R!EmptyDb
<1>4. FileTrue(fetcher.file)
  <2>1. /\ fetcher.file = CR!NoFile
        /\ CR!NoFile \in CR!File /\ CR!NoFile.label \notin Int /\ CR!NoFile.schema # "complete"
    BY <1>3, PipelineAssumption DEF NoFetcher, C!NoFile, C!Days, CR!Days, CR!NoFile, CR!File
  <2>2. \A d \in CR!Days : d \in Int /\ CR!NoFile.rows[d] = 0
    BY DEF CR!NoFile, CR!Days
  <2>3. \A d \in CR!Days : added[d] \in Nat
    BY <1>1 DEF CR!RInv, CR!IInv, CR!TypeOK
  <2> QED BY <2>1, <2>2, <2>3 DEF FileTrue
<1> QED BY <1>1, <1>2, <1>3, <1>4 DEF PInv, RowsTrue, Asked

\* Every step keeps the invariant.
LEMMA NextPInv == PInv /\ [Next]_vars => PInv'
BY StartPInv, ReadListPInv, ReadDetailsPInv, ReportdAlonePInv, NextDayPInv, CollectdPInv DEF Next

\* The invariant holds.
LEMMA PInvAlways == Spec => []PInv
BY InitPInv, NextPInv, PTL DEF Spec

----------------------------------------------------------------------------
(* The theorems.                                                           *)

\* Each daemon does in the pipeline what its own specification allows: every theorem
\* about the storage of the collectd, and about reportd, is one about the pipeline.
THEOREM PipelineRunsBoth == Spec => CR!Spec /\ RP!Spec
<1>1. Init => CR!Init /\ RP!Init
  BY CollectdSame, ReportdSame DEF Init
<1>2. PInv /\ [Next]_vars => [CR!Next]_(CR!vars) /\ [RP!Next]_(RP!vars)
  BY CollectdStep, ReportdStep
<1> QED BY <1>1, <1>2, PInvAlways, PTL DEF Spec, CR!Spec, RP!Spec

\* What a report says is true.
LEMMA SharesTrue ==
  ASSUME PInv, NEW D \in {db, disk}, NEW r \in D.reports, NEW s \in r.shares
  PROVE  /\ s.count <= added[r.day]
         /\ r.day \notin late => s.count = Counted(r.day)
<1>1. RP!SharesHeld(D) /\ RowsTrue(D)
  BY DEF PInv, RP!AnswersInv, RP!DataInv, RP!Inv, RP!Consistent
<1>2. r.shares = RP!Shares(D, r.day, r.domain, r.record)
  BY <1>1 DEF RP!SharesHeld
<1>3. PICK x \in D.data : x.day = r.day /\ x.data # NULL /\ r.record \in DOMAIN x.data /\ s.count = x.data[r.record]
  BY <1>2 DEF RP!Shares, RP!Fetched, RP!Rows
<1> QED BY <1>1, <1>3 DEF RowsTrue, RowTrue

\* The numbers reportd reports are those the collectd counted: the property
\* ReportsAreTrue of the pipeline.
THEOREM ReportsTellTheTruth == Spec => []ReportsAreTrue
<1>1. PInv => ReportsAreTrue
  BY SharesTrue DEF ReportsAreTrue
<1> QED BY <1>1, PInvAlways, PTL

\* PunctualAnswersAreTrue of one step and the day d.
Punctual(d) ==
  /\ \A j \in db'.jobs \ db.jobs : j.day = d /\ j.status = "ok" =>
        (Counted(d) > 0 <=> R!Rows(db', d, Domain) # {})
  /\ \A x \in db'.data \ db.data : x.day = d /\ x.data # NULL => x.data = Details(Counted(d))

\* A step that is no answer brings nothing of yesterday.
LEMMA NoNewsPunctual ==
  ASSUME PInv, RP!NoNews, NEW d \in R!Days, today' = d + 1, today' \in Int
  PROVE  Punctual(d)
BY DEF RP!NoNews, Punctual, R!Days

\* A list of yesterday comes from yesterday's file: its label is at least the day, and
\* a file is labelled with a day that is over.
LEMMA ListPunctual ==
  ASSUME PInv, ReadList, NEW d \in R!Days \ late, today' = d + 1
  PROVE  Punctual(d)
<1> DEFINE j == fetcher.row
<1>0. today' \in Int /\ d \in Int /\ [Next]_vars
  BY Types DEF R!Days, Next, ReadList, R!CollectFails, R!CollectTruncated, R!CollectOk
<1>1. CASE R!CollectFails(j) \/ R!CollectTruncated(j)
  <2>1. j \in todo /\ (RP!CollectFails(j) \/ RP!CollectTruncated(j))
    BY <1>1, CollectSame DEF ReadList, PInv, Asked
  <2> QED BY <1>0, <2>1, NoNewsPunctual, ReportdHolds, RP!CollectFailsNoNews DEF PInv
<1>2. CASE Ready(fetcher.file, j.day) /\ R!CollectOk(j, List(fetcher.file, j.day))
  <2> DEFINE file == fetcher.file
  <2>0. /\ UNCHANGED <<today, collectdVars>>
        /\ \A x \in db'.data : x \in db.data \/ x.data = NULL
        /\ \A i \in db'.jobs \ db.jobs : i.day = j.day
        /\ j.day \in CR!Days
    BY <1>2, ListTrue
  <2>1. ASSUME j.day = d PROVE Counted(d) > 0 <=> R!Rows(db', d, Domain) # {}
    <3>1. file.label = d
      <4>1. file.schema = "complete" /\ C!AvailableDay(file) >= d
        BY <1>2, <2>1 DEF Ready, Readable
      <4>2. file.label \in CR!Labels /\ file.label < d + 1
        BY <2>0, <4>1 DEF PInv, FileTrue
      <4> QED BY <1>0, <4>1, <4>2, PipelineAssumption DEF C!AvailableDay, CR!Labels
    <3>2. file.rows[d] = Counted(d)
      BY <2>0, <2>1, <3>1 DEF PInv, FileTrue
    <3>3. Counted(d) > 0 => R!Rows(db', d, Domain) # {}
      <4>1. \A dom \in List(file, d) : RP!Rows(db', d, dom) # {}
        BY <1>2, <2>1, ListTrue
      <4>2. file.rows[d] > 0 => Domain \in List(file, d)
        BY DEF List, C!DomainDetails
      <4> QED BY <3>2, <4>1, <4>2 DEF RP!Rows, R!Rows
    <3>4. ASSUME NEW x \in R!Rows(db', d, Domain) PROVE Counted(d) > 0
      <4>1. RowTrue(x)'
        BY <3>4, <1>0, ReadListPInv DEF PInv, RowsTrue, R!Rows
      <4> QED BY <2>0, <3>4, <4>1 DEF R!Rows, RowTrue, Counted, collectdVars
    <3> QED BY <3>3, <3>4
  <2> QED BY <2>0, <2>1 DEF Punctual
<1> QED BY <1>1, <1>2 DEF ReadList

\* So do the details, because the list was there before them.
LEMMA DetailsPunctual ==
  ASSUME PInv, ReadDetails, NEW d \in R!Days \ late, today' = d + 1
  PROVE  Punctual(d)
<1> DEFINE x == fetcher.row
<1>0. today' = today /\ today \in Int /\ d \in Int /\ today - 1 = d
  BY Types DEF R!Days, ReadDetails, R!FetchFails, R!FetchOk
<1>1. CASE R!FetchFails(x)
  <2>1. x \in todo /\ RP!FetchFails(x)
    BY <1>1, FetchSame DEF ReadDetails, PInv, Asked
  <2> QED BY <1>0, <2>1, NoNewsPunctual, ReportdHolds, RP!OtherNoNews DEF PInv
<1>2. CASE R!FetchOk(x, Details(C!DomainDetails(fetcher.file, x.day)))
  <2>1. /\ rpc = "fetch" /\ db'.jobs = db.jobs /\ x.day \in CR!Days
        /\ \A y \in db'.data : y \in db.data \/ (y.day = x.day /\ y.data = Details(fetcher.file.rows[x.day]))
    BY <1>2, DetailsTrue
  <2>2. ASSUME x.day = d PROVE fetcher.file.rows[d] = Counted(d)
    <3>1. fetcher.file.label = d
      BY <1>0, <2>1, <2>2 DEF ReadDetails, PInv, Asked
    <3> QED BY <2>1, <2>2, <3>1 DEF PInv, FileTrue
  <2> QED BY <2>1, <2>2 DEF Punctual
<1> QED BY <1>1, <1>2 DEF ReadDetails

\* A list and details that reportd accepts on the day after are the whole truth: the
\* property PunctualAnswersAreTrue of the pipeline.
THEOREM PunctualAnswersTrue == Spec => PunctualAnswersAreTrue
<1>1. ASSUME PInv, [Next]_vars, NEW d \in R!Days \ late, today' = d + 1 PROVE Punctual(d)
  <2>0. today' \in Int
    BY <1>1 DEF R!Days
  <2>1. CASE ReadList
    BY <1>1, <2>1, ListPunctual
  <2>2. CASE ReadDetails
    BY <1>1, <2>2, DetailsPunctual
  <2>3. CASE ReportdAlone \/ ReportdCrash \/ NextDay
    BY <1>1, <2>0, <2>3, QuietNoNews, NoNewsPunctual
  <2>4. CASE StartFetcher \/ CollectdCalls \/ CollectdCrash \/ UNCHANGED vars
    <3>1. db' = db
      BY <2>4 DEF StartFetcher, CollectdCalls, CollectdCrash, vars, reportdVars
    <3> QED BY <3>1 DEF Punctual
  <2> QED BY <1>1, <2>1, <2>2, <2>3, <2>4 DEF Next
<1>2. PInv /\ [Next]_vars =>
        [\A d \in R!Days \ late' : today' = d + 1 =>
          /\ \A j \in db'.jobs \ db.jobs : j.day = d /\ j.status = "ok" =>
                (Counted(d) > 0 <=> R!Rows(db', d, Domain) # {})
          /\ \A x \in db'.data \ db.data : x.day = d /\ x.data # NULL => x.data = Details(Counted(d))]_vars
  BY <1>1, PastStays DEF Punctual
<1> QED BY <1>2, PInvAlways, PTL DEF Spec, PunctualAnswersAreTrue
=============================================================================

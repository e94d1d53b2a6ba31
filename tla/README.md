# TLA+ models of tlsrpt-reporter

tlsrpt-reporter collects the TLSRPT datagrams of mail servers, aggregates them
per UTC day, and sends the daily reports of RFC 8460.  These modules model the
two daemons with their databases - what is stored, in which order, what a commit
makes durable, what a crash at any point leaves behind - the fetcher between
them, and the destination maps.  TLC checks them on small instances; TLAPS
proves the safety properties, and that a storage implements its abstract
specification, for every value of the constants.

Paths are relative to the root of the repository; `tlsrpt.py` is
`tlsrpt_reporter/tlsrpt.py`.  `PROJECT.json` maps each definition to its lines.

## The system

    MTA --datagrams--> collectd --<name>.yesterday--> fetcher --pipe--> reportd --> mail script, curl
                        |  one SQLite file a day                          |  one SQLite database

| Component | State | Operations | What is hard |
|---|---|---|---|
| collectd daemon (`tlsrpt_collectd_daemon`) | socket, list of storages | receive, time out, shut down, SIGUSR2 | one thread serves several storages with one shared datagram; caught exceptions skip the rest |
| collectd storage (`TLSRPTCollectdSQLite`) | today's file, an open transaction, counter of uncommitted datagrams, `self.today`, `<name>.yesterday` | `add_datagram`, `socket_timeout`, commit by count, by time and by rollover, `switch_to_next_day`, constructor | commits that fail; midnight between two clock reads; a crash between two file operations |
| fetcher (`TLSRPTFetcherSQLite`) | none (reads the published file) | list of domains, details of a domain | reads while the file is replaced under it |
| reportd (`TLSRPTReportd`) | tables fetchjobs, reportdata, reports, destinations | `check_day`, `collect_domains`, `fetch_data`, `create_reports`, `send_out_reports`, `db_clean_up`, the sleep | commits that are due later; partial lists; retries; scripts that outlive their timeout; crashes between a hand-over and its record |
| destination map (`mapping.py`) | three lists of rules, constant after start | `map_destination` | first match wins; a map may yield any number of destinations |
| random pool (`randpool.py`) | the values left | `get` | spreads out deliveries: counts may differ by one at most |
| reportd's report writer (`render_report`) | none | map the destinations of a record, store them | one of several destinations fails: which exceptions are caught, and what is left |
| options (`config.py`) | none after start | merge command line, environment, file | precedence |
| plugins (`plugins.py`) | none | entry point for a URL scheme | - |
| utility (`utility.py`) | none | dates, names, records | the two sides of midnight |
| `tlsrptctl` | none | status and map test | - |
| `tools/`, `contrib/` | - | benchmark, man pages, Docker | not part of the system |

The components share no memory.  The collectd gives a finished day away by
renaming its file; the fetcher is a process that reportd starts anew for each
list and each domain, and reads only the renamed file.  Everything reportd
knows is in its database, read again by a SELECT at the start of each phase.

What makes each correct:

- *collectd storage*: a crash costs a bounded number of datagrams; no rollover,
  interrupted or not, loses, doubles or misdates a row; a fetcher never sees
  half a day under a finished day's label; counted data gets committed.
- *reportd*: no report is made before its data is there, none twice, none in
  part; a list is stored as a whole or not at all; ids are unique; each
  destination gets a report once, except where the daemon cannot know; jobs,
  deliveries and reports come to an end.
- *collectd daemon*: no storage costs another its datagrams; a stop is heard, and
  a shutdown that runs to its end leaves nothing untried.
- *collectd, fetcher and reportd together*: a report names what was counted, no
  matter when the file was replaced under a fetcher.
- *destination map*: the first rule that matches decides, and only that one; a
  DNS record by itself cannot send reports anywhere but to mail and web
  addresses: what else there is, a rule wrote or made.
- *random pool*: fair up to one.

The hazards these properties are for are listed, line by line, under "hazards"
in `PROJECT.json`.

## Modules

| Module | What it is |
|---|---|
| `Reportd` | tlsrpt-reportd: all phases of `run_loop`, its database, crashes, the clock |
| `MCReportd` | values of Reportd's constants for TLC |
| `ReportdProofs` | theorems about Reportd: what reports wait for and hold, ids, no day twice |
| `ReportdListProofs` | theorems about the lists and details it stores |
| `ReportdDeliveryProofs` | the theorem about its deliveries |
| `CollectdStorage` | one SQLite storage of tlsrpt-collectd under the daemon's main loop, and what a fetcher reads from it |
| `CollectdProofs` | theorems about CollectdStorage |
| `DayBox` | the abstract specification of a storage |
| `CollectdRefinement` | the theorem that CollectdStorage implements DayBox, and what follows for days that are settled |
| `CollectdDaemon` | the main loop of tlsrpt-collectd over several storages |
| `MCCollectdDaemon` | values of its constants for TLC |
| `CollectdDaemonProofs` | theorems about CollectdDaemon |
| `Pipeline` | CollectdStorage and Reportd composed through the fetcher |
| `PipelineProofs` | theorems about Pipeline, from the invariants of the two daemons |
| `DestinationMap` | the rules of the destination maps, as operators |
| `RandPool` | the pool of delivery delays |
| `Destinations` | from the destinations of a record to the rows that are stored: `render_report` over DestinationMap and RandPool |
| `MCDestinations` | values of its constants for TLC |
| `DestinationsProofs` | theorems about Destinations |

### Reportd

A table is a set of records, one field per column the control depends on.
`db` is the database as the daemon's connection sees it, `disk` as of the last
commit; a phase that commits sets `disk' = db'`, one that leaves the commit to
a later call leaves `disk` alone, and `Crash` sets `db' = disk`.  `pc` is the
phase of `run_loop`; `todo` is what the SELECT of the phase returned and has
not been handled yet, so that each row is a step of its own and crashes,
midnight and hanging fetchers come in between.

| Code | Actions |
|---|---|
| `check_day`, `db_clean_up` | `CheckDay(now)`: reads the clock twice, so `now` is the date of `yesterday` + 1 or + 2 |
| `collect_domains`, `collect_domains_from` | `CollectFails`, `CollectTruncated`, `CollectOk`, `EndCollect`: commits where the code does - after a list or a broken one, and at the end of the phase, not after the UPDATE of each job |
| `fetch_data...` | `FetchOk`, `FetchFails`, `FetcherHangs`, `EndFetch` |
| `create_reports`, `create_report_for`, `render_report` | `CreateReportFor` if the domain is `Renderable`, else `CreateReportDies`; `EndCreate` |
| `send_out_reports`, `send_out_report` | `Deliver` (the hand-over), `RecordDelivery` (the UPDATE and its commit), `EndSend`; `DeliverDies` for an exception nobody catches - an OSError of a `directory:` delivery, an address the mail library refuses - and `ScriptHangs` for a script that does not read its input |
| `run_loop` | `WakeUp`, `Shutdown`; the service manager's `Restart` |

Abstractions.  Time is the day; a row that was tried before may or may not be
due when a phase selects its rows (`Due`), which covers every random wait.  A
fetcher is a command that may answer anything its type allows.  A detail
payload maps records to a count.  A number in an aggregated report is a sum over
rows of reportdata; the model keeps the summands, `shares`, each with the row it
comes from - command, position in the list of fetchers, count - so that two rows
of one command would be two shares, even with equal counts.  What the rows of
`create_report_for` are rendered to is text and left out, but for what ends the
daemon there: `Renderable` says that no policy type is without a name
(`UnknownPolicies`) and no record names a destination twice.
`RaisingDests` are the destinations whose delivery may raise.
`Ruas` gives each record's destinations as they leave the destination map; no
destinations stand for a malformed record, for which the code stores a report
without destination.  The record a report was made for is not stored by the
code; `record` in a report row is there for the properties only.

### CollectdStorage

`cur` is today's file as committed and `view` the same file as the open
transaction sees it; `yest` is `<name>.yesterday`.  Of the tables only the
number of policies per day is kept, plus the label in `daystatus` and whether
the schema is complete: Python's sqlite3 module commits each DDL statement on its own.
`op` is the call in progress with the dates it read: `add_datagram` reads the
date for its rows before the rollover, `switch_to_next_day` reads it for the
label and, after the rename, for `self.today`.  Midnight may pass between any
two of them.

| Code | Actions |
|---|---|
| constructor | `Start`, then the rollover for initialisation if the file is new, `Started` |
| `add_datagram` | `Receive("datagram")`, possibly the rollover, `AddDatagram` or `AddDatagramFails` |
| `socket_timeout` | `Receive("timeout")`, possibly the rollover, `TimedCommit` |
| shutdown by signal | `Receive("stop")`, possibly the rollover, `Shutdown` |
| `switch_to_next_day` | `RolloverCommit`, `LabelDay` or `LabelDayFails`, `RemoveYesterday`, `RenameToday`, `OpenNewDay`, `SetupBegins`, `SetupEnds` |
| `_db_commit`, `commit_after_n_datagrams` | `DbCommit`, `CommitAfterNDatagrams`: a failed commit leaves the transaction open and the counter up |

The time since the last commit is a choice (`overdue`).  `crashes`, `fails`,
`added`, `lost` and `late` are history variables: they guard nothing but the
bounds.  `late` holds the days whose end the daemon missed - down at midnight,
in a rollover at midnight, or gone down before the new day was open.  The code
loses or withholds such days (see the findings), so the properties about the
published file except them and `CollectedIsFetchable` does not.

### DayBox

The storage without files, transactions and the steps of a rollover: a box of
rows per day, one of them open; when the next opens, the day before has been
shown to the fetchers, and neither the shown day nor its rows change any more.
A day may be `spoiled`, by a stop or a midnight the storage did not keep up
with, and then nothing is promised of it: `late`.  Under the mapping

    open    <- day
    rows    <- added - lost, per day
    spoiled <- late
    shown   <- the label of <name>.yesterday with the rows of that day, unless spoiled

`Receive`, the commits, `LabelDay` and the set-up are stutters, `AddDatagram` is
`Fill`, `RemoveYesterday` is `Hide` (the open day is not shown yet), `RenameToday` is `Show` or a stutter,
`OpenNewDay` is `Open`, the end of the process is `Stop`.  That nothing is added
to a day once it is shown, and that no day is passed over in silence, is what
the abstract specification says and the code has to be shown to do.

### CollectdDaemon

`tlsrpt_collectd_daemon` over its list of storages.  A storage is what became of
the datagrams it counted: committed (`clean`), not yet tried (`open`), or the
last attempt failed (`refused`).  `datagram` is the one Python object that all
storages share; `_add_policies_from_datagram` takes the key "f" out of its
policies, so what the next storage sees is what the ones before left.
`at` is the position in the loops over `collectds`.

| Code | Actions |
|---|---|
| `sel.select` and the loop over its result | `Select`, `ServeInterrupt`, `ServeSocket`, `Served`: in any order, as the selector returns them |
| the loop over the storages | `AddDatagram`, `AddDatagramKeyError` (caught for one storage), `AddDatagramRefused` (caught outside the loops: the other storages, and the rest of the iteration, are skipped), `LoopEnds` |
| SIGUSR2, time-out | `Commit`, `CommitRaises` |
| SIGTERM, SIGINT | `Shutdown`, which catches any `Exception` of each storage |
| `_setup_database` in any rollover, also one of a shutdown | `RolloverExits`: its `sys.exit` is a `SystemExit`, which passes every handler, so the storages that follow are not called |
| a malformed datagram | `ServeSocket`: the rest of the iteration is skipped, or the dump raises and the process ends |

### Pipeline

`CollectdStorage` and `Reportd` by INSTANCE, with one clock, and the fetcher in
between: reportd starts it for a list or the details of a domain, it opens
`<name>.yesterday` as it is then and keeps that file, renamed or removed as it
may be, until it is done.  What it prints is an operator of the file; what reportd
compares is the day it announces.  The fetcher is in the model a failure of
reportd's as well: it may always break off.

### Destinations

`render_report` from the list of destinations a record names to the INSERTs:
`pre_flight_check`, the loop over the record map (`TryRecordRule`), the loop over
the destinations (`NextDestination`), for each the loop over the map of its
scheme (`TryRule`), the INSERTs with a delay from the pool (`Store`).  Which
exceptions are caught is modelled - the report then goes nowhere - and so is which
are not: `TryRuleDies` for a URL without host, or an address of any scheme that
`urlparse` refuses (`BadHost`, as in `a@[x`), under a `domain:` rule; `StoreDies`
for a destination that comes out twice.  Domain names are sequences of labels, as `split(".")`
makes them.  A regular expression that matches is the set of what it matches.  The
action REGEXP is the function that `re.subn` computes with its pattern and
substitution (`subst`), any function of destinations to destinations: with captured text it
may build one that is neither in the record nor in a map, and of another scheme.
`Reportd` takes the outcome of all this as its constant `Ruas`.

## Runs

| Run | Instance | Shows |
|---|---|---|
| `reportd_collect` | two fetchers, two domains, one day, one crash, one retry | reports wait for lists and details, and each record has one report with one share of each command; lists are atomic; details are final |
| `reportd_delivery` | one command configured twice, two records, two destinations (one with an unknown scheme, one whose delivery may end the daemon), two crashes | a command listed twice is counted once; ids stay consistent; a destination gets a second copy only if the daemon could not know of the first; jobs and reports come to an end, and deliveries that do not end the daemon for ever |
| `reportd_cleanup` | one fetcher, four days of reports, `keep_days` 3, one crash, a fetcher or script that may hang, a record and a policy type that end the daemon until their day is deleted | clean-up leaves no orphans, splits no day and lets no day start again |
| `collectd_days` | two midnights, a crash, a failing commit, two policies a day | the cost of a crash, today's rows, the published file; the day box is implemented; commits happen, rollovers end, the daemon comes up again |
| `collectd_daemon` | a storage on each side of a dummy, datagrams with and without the key, malformed ones, two signals, databases that refuse and set-ups that exit | a shutdown that runs to its end leaves no storage untried, one that a `SystemExit` cuts short none up to there; the first storage misses nothing on account of the others; a stop is heard unless exceptions skip it for ever |
| `pipeline` | one storage, one domain, three days, a crash of either daemon | reports name what was counted; a punctual answer is the whole truth |
| `destinations` | maps of up to two rules of each action, REGEXP within a destination and across schemes among them, four domains, records of one to three destinations, hosts missing or refused, a pool of three | first match wins, another scheme comes only from a rule that writes or makes it, delays are flat |
| `reportd_hang`, `reportd_twice`, `collectd_restart`, `collectd_storages`, `destinations_dot` | as small as shows it | the findings below |

### Bounds

- *Two of a kind* - fetchers, domains, records, destinations - are enough for
  each way one can disturb another: a list that comes late, a share left out, a
  key that is taken, a report id counted wrongly.  The code treats no third one
  differently.
- `MaxCrashes`: one crash reaches every gap between two writes; two also a
  crash in the recovery from the first.
- `MaxDay`: 1 for what happens within a day of reports.  `reportd_cleanup` has
  4, so that the first day is deleted (`keep_days` 3) while later days are
  worked on.  `collectd_days` has 2 from `FirstDay` 0: a rollover over the file
  of the one before.  `FirstDay` is the day the storage is first started on; the
  days before it are in `late`, nobody was there to close them.
- Retries are 0 or 1: a failure that is tried again and one that is not.
- `CommitEveryN` 2, `RetryCount` 2, `MaxFails` 1 reach a commit by count, its
  failure and the next attempt.
- `MaxPolicies` bounds only what a day may hold: 2 tells lost from doubled.
- `pipeline` starts on day 1 and ends on day 3, so that a fetcher for day 0, 1 or
  2 may find the file of the right day, an earlier or a later one; one policy a
  day, committed at once, tells a true count from an empty or a stale one.  Retries
  are 0: a retry starts a fetcher as the first attempt does, and what the
  properties say of an answer does not depend on how often it was asked for.  Commits
  that fail are `collectd_days`' business.  The record names no valid destination,
  so there are no deliveries.
- `MaxQueue` 1 and `MaxSignals` 2: a datagram and a signal ready at once, and a
  signal before the stop; a longer socket queue only delays.  `Refusals` says whether
  databases may raise an OperationalError, or a new file refuse to be set up;
  `collectd_storages` has it FALSE, so that what it shows is no fault of a database.
- `UnknownPolicies` is empty where liveness is checked, and `ScriptsHang` FALSE: the
  first is the death at the same domain that `reportd_twice` shows, the second the
  daemon blocked for good that `reportd_hang` shows.  `reportd_cleanup` has both.
  `RaisingDests` is non-empty where deliveries are to end.
- `MaxRecords` 2 with up to five destinations each and a pool of three: the pool
  is emptied and refilled within a record and between two.

Deadlock is checked but for the runs of `CollectdStorage`, where the system may really
stop - a file with only some of its tables ends the process at every start -
for `reportd_cleanup` and `reportd_hang`, where a
fetcher or script may hang and nobody kills the daemon, and for the runs of `Destinations`,
which end when `MaxRecords` are handled.

### Fairness

Safety properties need none.  For liveness:

- *reportd* (`LoopFairness`): the loop is one thread with two waits that nothing
  limits: reading a fetcher's pipe, and writing a report to the input of a delivery
  script (tlsrpt.py:1456, 1488), whose timeout is armed only afterwards.  Both are
  actions of their own, `FetcherHangs` and `ScriptHangs`, after which no `Step` is
  enabled; `WF(Step)` speaks of a daemon that is not blocked, and that the service
  manager restarts.  The liveness of `reportd_delivery` is of scripts and fetchers that do
  not block it.  A row
  that stays pending is due some time within its bounded random wait, and the
  loop wakes up at least every 300 seconds, so it is selected again and again, if
  the loop gets that far: `SF(SelectsJob)`, `SF(SelectsDest)`.  An exception that
  nothing catches in a delivery ends the process before the attempt is counted
  (tlsrpt.py:1396), no retry count stops that, and the rows after it wait as
  well: `DeliveriesEnd` excepts the behaviours in which it happens for ever.
  `AnsweringFetchers` - a fetcher asked
  again and again for details answers in the end - is an assumption about the
  fetchers.  The code retries for ever, and without it a day is never reported.
- *collectd* (`Fairness`): a call that began goes on (`WF(Rollover)`,
  `WF(Resume)`), `select` returns after `sockettimeout` seconds at the latest
  (`WF(Selects)`), the process is started again (`WF(Start)`).  `SF(PeriodicCommit)`:
  a timeout or an overdue commit comes round again and again unless all that ever
  arrives is malformed.  `SF(LabelDay)` is an assumption about the file system: a
  database that refused its label accepts it some day.
- *collectd daemon* (`FairSpec`): the loop is one thread that never blocks longer than
  `sockettimeout`: `WF(Loop)`, and nothing else.  An exception that is caught outside
  the loops - a malformed datagram, an INSERT or a rollover that a database refuses -
  ends the iteration with whatever else was ready in it; if it is served first in
  every iteration a signal waits for ever.  `StopIsHeard` excepts just these
  behaviours (`SkipsSignal`), and TLC refutes it without the exception.

Crashes are never fair, and bounded.

## Findings

Each violation run shows a disagreement between the code and its documentation:

| Run | The code | The documentation |
|---|---|---|
| `reportd_hang` | waits for a fetcher without a limit; nothing reads `max_collectd_timeout` | "Wait at most _sec_ seconds" (doc/tlsrpt-reportd.adoc:120) |
| `reportd_twice` | a record naming a destination twice ends the daemon at each attempt; the other domains of the pass are not reported | "Create all reports possible" (tlsrpt.py, `create_reports`) |
| `collectd_restart` | a daemon that is down at midnight takes yesterday's file for today's and never publishes that day | the data "will be retrieved by matching tlsrpt-fetchers" (doc/tlsrpt-collectd.adoc:23) |
| `collectd_storages` | the first SQLite storage takes the key "f" out of the datagram all storages share; every later one ends in a KeyError and stores nothing | "a comma-separated list of multiple storage backends" (doc/tlsrpt-collectd.adoc:34) |
| `destinations_dot` | the trailing dot is taken off the domain and not off the pattern: a pattern written with it matches nothing | "A trailing "." after a domain name is ignored" (doc/tlsrpt-reportd.adoc:189) |

The same trace shape as `collectd_restart` is reached by a crash between the
rename and the new file's tables: the next start finds no file, makes one, rolls
it over, and so removes the day that had just been published.

Smaller things, seen in the models and given no run of their own:

- `max_retries_domainlist` counts retries: there is one attempt more than "give
  up after _n_ failed attempts" (doc/tlsrpt-reportd.adoc:134) says; details are
  asked for as long as the day is kept, and nothing reads `max_retries_domaindetails`
  (doc/tlsrpt-reportd.adoc:124).
- A list is accepted from a file that is already of a later day (tlsrpt.py:1098),
  and is empty then; likewise details.  `PunctualAnswersAreTrue` says when an
  answer can be relied on.
- Policies that a datagram held before the one with a KeyError stay in the
  transaction, uncounted; no timeout commits them until another datagram is
  counted (tlsrpt.py:573 and 602).
- A map may make two destinations equal, or append one that is there: the INSERT
  fails as in `reportd_twice`.
- An `https:` destination without host ends the daemon when a `domain:` rule of the
  http map looks at it (mapping.py:160); the mail map takes the same for no match.
  An address `urlparse` itself refuses ends it under both (mapping.py:160 and 171).
- A policy type that `render_report` has no name for ends the daemon at each attempt, as
  in `reportd_twice` (tlsrpt.py:1243).
- A `directory:` delivery that meets an OSError ends the daemon and is never given up
  (tlsrpt.py:1396); `max_retries_delivery` does not apply.
- "catch all exceptions to avoid interrupting shutdown" (tlsrpt.py:1790) catches
  every `Exception`; the `SystemExit` of a rollover that cannot set up the new file
  (tlsrpt.py:407) is none.  `ShutdownCommitsAll` says what holds then.
- `dump_path_for_invalid_datagram` is empty by default, so that dumping a malformed
  datagram raises and ends the collectd (tlsrpt.py:1815).

## Proofs

TLAPS checks, for all values of the constants that satisfy the assumptions below:

| Theorem | States |
|---|---|
| `ReportdProofs!TypeCorrect` | `TypeOK` |
| `ReportdProofs!ReportsWaitForData` | `NoReportBeforeData` |
| `ReportdProofs!ReportsHoldAllShares` | `ReportsAccountForData` |
| `ReportdProofs!ReportIdsCorrect` | `ReportIdsUnique` |
| `ReportdProofs!ReportsOnlyOnce` | `ReportedOnce`, if `KeepDays >= 3` |
| `ReportdListProofs!DetailsAreFinal` | `FetchedIsFinal` |
| `ReportdListProofs!ListsStoredWhole` | `ListsAreAtomic`, if `KeepDays >= 3` |
| `ReportdDeliveryProofs!DeliveriesAccounted` | `DeliveriesAccountedFor`, if `KeepDays >= 3` |
| `CollectdProofs!TypeCorrect` | `TypeOK` |
| `CollectdProofs!CrashCostBounded` | `UncommittedBounded` |
| `CollectdProofs!TodayIsAccounted` | `TodayAccounted` |
| `CollectdProofs!PublishedDayComplete` | `PublishedComplete` |
| `CollectdRefinement!StorageImplementsDayBox` | `ImplementsDayBox` |
| `CollectdRefinement!SettledDaysStay` | a day that is settled, and not in `late`, keeps its rows and stays settled |
| `CollectdDaemonProofs!TypeCorrect` | `TypeOK` |
| `CollectdDaemonProofs!ShutdownTriesAll` | `ShutdownCommitsAll` |
| `CollectdDaemonProofs!FirstUndisturbed` | `FirstCollectsAll` |
| `DestinationsProofs!TypeCorrect` | `TypeOK` |
| `DestinationsProofs!PoolSpreads` | `SpreadEvenly` |
| `DestinationsProofs!SchemesComeFromRules` | `OnlyRulesBringSchemes` |
| `DestinationsProofs!FirstRuleDecides` | `FirstMatchWins` |
| `PipelineProofs!PipelineRunsBoth` | the pipeline implements the specifications of the storage and of reportd |
| `PipelineProofs!ReportsTellTheTruth` | `ReportsAreTrue` |
| `PipelineProofs!PunctualAnswersTrue` | `PunctualAnswersAreTrue` |

`ReportdAssumption`, `CollectdAssumption`, `DaemonAssumption`, `DestinationsAssumption`
and `PipelineAssumption` give the constants their types: options are natural numbers,
commit counters and the
pool are positive, there are finitely many records, NULL is none of
the other values, there is at least one storage, the maps are lists of rules.  TLC evaluates
them in the passing runs.

*reportd.*  None of the properties is inductive.  What a report says follows
from what the phase's SELECT saw, possibly many steps ago, so the invariant
`Inv` adds to a condition on each of the two databases (`Consistent`) what the
rows in `todo` still satisfy when they are handled (`PhaseInv`): a job to
collect is pending, a row to fetch has no data and its day no pending list, a
domain to report has all its details and no report.  `disk` meets the
same condition at every step, so that a crash, which falls back to it, needs no
argument of its own.  `SharesExact` is about shares and rows, and follows (`HeldIsExact`) from two parts of
`Consistent`: `SharesHeld`, a report has the shares computed from the rows of its
domain, and `OneEach`: one row per command, domain and day, the primary key of
reportdata, and one report per record, since a domain is reported once.
`ReportedOnce` needs a second invariant, `HistoryInv`: a
reported day is either still in the database or too old for `check_day` to set
up.  It needs `keep_days` of at least 3 in the worst
case: `check_day` takes `yesterday` from one reading of the clock and cleans up by
the next, and midnight may lie between.  TLC finds a counterexample for 2.

*Lists and details.*  `FetchedIsFinal` compares two committed databases, with
uncommitted work between them; `DataInv` says that the work can have lost whole
days only, and that day, domain and command identify a row.  For `ListsAreAtomic`,
`ListsInv` ties the rows to the lists that were read through the job: as long as
a job is there, its command's rows are the domains of these lists, and a
day without jobs gets none again - which is where `keep_days` comes in.

*Deliveries.*  Copies are counted per report and destination, rows have ids, and
a day that is deleted takes its rows along.  `DeliveryInv` says that no two
rows stand for the same report and destination, that a pending row has not been
handed over but for what is excused - or the hand-over is the one about to be
recorded - and that what was handed over belongs to a day in the history.  Since no
day is reported twice, a new row starts with no copies.

*collectd storage.*  `IInv` says, besides types, what the dates of the call in progress
can be relative to `today` and `day` (`Dates`), that no file has rows of days to
come (`Fresh`), and where at each step of the rollover the rows of today
(`TodaysRows`) and of yesterday (`YesterdaysRows`) are, each as `added` less
`lost`.  The days in `late` are excepted in the latter only.  `CrashCostBounded`
is arithmetic: attempts to commit are made at `CommitEveryN` plus each multiple
of `RetryCount`, each attempt that fails is counted, and none is passed over.

*The refinement.*  `RInv` adds to `IInv` what the box needs of the days before the open
one: a day passed over is in `late` (`Passed`), no file or transaction has rows
of a day that is over (`Closed`), a datagram is counted for the open day or
one in `late` (`Dated`), and the file the fetchers find has, of days not in `late`,
only rows of the day on its label (`Shelved`).  Then there is one lemma per action of
the code, saying which step of the box it is or that it shows nothing.
`SettledDaysStay` is a consequence of the box: `Settled(d)` says that the daemon has moved on
from day `d` or that fetchers find it, and no step of the box touches such a day
without spoiling it.

*collectd daemon.*  `LoopInv`: the loops over the storages start with the first,
whatever ended the iteration before; so a shutdown has called each storage before
the position, and the one at the position has committed the old day when its rollover
exits; and the first one gets the datagram as it was read.

*Destinations.*  The invariant is `Rounds` - the values handed out once more than the
others are the ones missing from the pool - and `OnTheWay`: what the loops hold is
within what the rules of the maps passed so far can make of the record's valid
addresses: `Accepted`, then `AfterRecordMap`, and `Reachable` for what is mapped.
`ResultWithin` says of any rule's action that it does not leave `Reached`.

That the first match wins takes a second invariant, `Progress`, which says how far the loops
have come: before `idx` no rule matched, and while destinations are mapped, the ones that
are done and the ones that are left make up what the record map's rule made of
the ruas, and the results are what the maps make of the ones that are done.  `Expected`
is a set of rows, so no induction over lists is needed.

*The pipeline.*  Each of its steps is one of the storage, of reportd, of both (midnight) or
of neither (a fetcher starts), so the invariants `RInv` of the one and `AnswersInv` of the
other hold in the composition: `PipelineProofs` takes both proofs as instances, `CR` and
`RP`, with the substitutions of `Pipeline`, and shows that the actions are the same.
`AnswersInv` adds to reportd's `DataInv` that nothing but a fetcher's answer adds a row or
details, or makes a job `ok`; what check_day deletes and what a crash brings back is older than
yesterday (`Behind`).  `PInv` then joins the two daemons.  A file that a fetcher
opened holds, of a day not in `late`, nothing or all that was counted, and in
the second case the day is settled (`FileTrue`).  A row of reportdata is about a
settled day with something to report, and its details are what was counted (`RowTrue`).
Both are facts about days that do not change any more (`PastStays`, from
`SettledDaysStay`), so they stay true after the file is replaced under the fetcher
and after the fetcher is gone.  A report is made of such rows (`SharesHeld` of reportd's
invariant), which is `ReportsAreTrue`.  For `PunctualAnswersAreTrue`: a list that passes
reportd's comparison on the day after must come from the file labelled with the day asked for,
since a label is a day that is over; and a fetcher for details of yesterday finds
yesterday's file, because the row is there only after yesterday was settled (`Asked`).

*Only model-checked*: liveness - `JobsEnd`, `DeliveriesEnd`, `EventuallyReported`,
`CommitsEventually`, `RolloverEnds`, `StartsAgain`, `StopIsHeard` - which needs fairness and
ENABLED, beyond this prover.  Every safety property that a passing run checks is also
proved.

## Not modelled

- Texts: reports, mails, logs, file names, JSON.  The properties do not depend
  on them; a text that does not parse is a failure or a crash of its phase.
- The manual rollover by SIGUSR2, for development, which redates rows; the
  daemon's model has the signal as the commit it begins with.
- SQLite's locks between fetchers of one storage; reportd sees a fetcher that
  failed, which its model has.
- Real time below the day: waits, wake-ups and clock differences are choices.
- Options: merged once at start, constant afterwards.
- `tlsrptctl`, plugins, tools, contrib: no state of their own.

## Plan

Done: the two daemons, the storage's abstract specification and its refinement,
the composition through the fetcher, destination maps and pool, and the
theorems above.  Left, the most useful first:

1. The manual rollover in `CollectdStorage`, with the redating of rows.
2. The locks of fetchers on one storage (tlsrpt.py:428).
3. The precedence of options (`config.py`) as operators.

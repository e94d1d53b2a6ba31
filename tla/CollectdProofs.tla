--------------------------- MODULE CollectdProofs ---------------------------
(***************************************************************************)
(* Proofs about CollectdStorage: the types, the bound on what a crash can  *)
(* cost, and that today's rows and the published day are complete.         *)
(***************************************************************************)
EXTENDS CollectdStorage, TLAPS

\* Policies of a day that were added and not taken back.
Net(d) == added[d] - lost[d]

Rolling == {"commit", "label", "remove", "rename", "open"}
Labelled == {"label", "remove", "rename", "open"}

\* The call in progress, by what the storage does.
Calls ==
    /\ day <= today
    /\ pc \in {"down", "idle"} => op = NoOp
    /\ pc \in Rolling => /\ op.kind \in {"init", "datagram", "timeout", "stop"}
                         /\ op.kind # "init" => day # today
    /\ pc \in {"setup", "resume"} => op.kind # NULL
    /\ pc = "resume" => op.kind # "create"
    /\ pc \in Labelled => op.yesterday \in Labels /\ op.yesterday < today
    /\ pc \in {"remove", "rename"} => cur = view /\ cur.label = op.yesterday
    /\ pc = "open" => yest.label = op.yesterday
    /\ IF pc \in {"down", "open", "setup"} THEN view = NoFile
       ELSE view.schema = "complete" /\ cur.schema = "complete"

\* A datagram is counted for a day that is not published yet, or is in `late'.
Dates ==
    /\ op.kind = "datagram" =>
        /\ op.date \in Days
        /\ op.date <= today
        /\ pc = "commit" => op.date = today \/ op.date \in late
        /\ pc \in {"setup", "resume"} => op.date <= day
        /\ pc \in Labelled => op.date > op.yesterday \/ op.date \in late
        /\ yest.label \in Int => op.date > yest.label \/ op.date \in late
    /\ yest.label \in Int => yest.label < today

\* Days to come have no rows, and neither has a file without its tables.
Fresh ==
    /\ \A d \in Days : d > today =>
          added[d] = 0 /\ lost[d] = 0 /\ cur.rows[d] = 0 /\ view.rows[d] = 0
    /\ cur.schema # "complete" => \A d \in Days : cur.rows[d] = 0

\* Today's rows: in the open database, or in the file when the daemon is down; none
\* as long as the day has not been opened.
TodaysRows ==
    /\ pc = "down" => cur.rows[today] = Net(today)
    /\ pc \in {"idle", "resume"} => view.rows[today] = Net(today)
    /\ pc \in Rolling \cup {"setup"} \/ (pc \in {"idle", "resume"} /\ day # today) =>
          Net(today) = 0 /\ cur.rows[today] = 0 /\ view.rows[today] = 0

\* Yesterday's rows, when yesterday ended in time and still has to be published.
YesterdaysRows ==
    /\ today - 1 \in Days \ late /\ day # today =>
        /\ pc \in {"idle", "resume", "commit"} => view.rows[today - 1] = Net(today - 1)
        /\ pc = "setup" => Net(today - 1) = 0
    /\ pc \in {"label", "remove", "rename"} /\ op.yesterday \in Days \ late =>
          view.rows[op.yesterday] = Net(op.yesterday)
    /\ \/ pc = "down" /\ cur.schema # "complete"
       \/ pc = "setup" /\ op.kind = "create" /\ day = today
       \/ pc = "commit" /\ op.kind = "init" /\ day = today
       => today - 1 \notin Days \ late

\* The label fetchers find is yesterday's once the day is open.
LabelIsYesterday ==
    today - 1 \in Days \ late =>
        /\ pc \in Labelled => op.yesterday = today - 1
        /\ pc = "down" => yest.label = today - 1
        /\ pc \in {"idle", "resume"} /\ day = today => yest.label = today - 1
        /\ pc = "setup" /\ op.kind # "create" /\ day = today => yest.label = today - 1

\* Nothing is added to or taken back from a published day.
PublishedRows ==
    \A d \in Days \ late :
        /\ yest.label = d => yest.rows[d] = Net(d)
        /\ pc # "down" /\ yest.label \in Int /\ d <= yest.label => view.rows[d] = cur.rows[d]

IInv == /\ TypeOK
        /\ Calls
        /\ Dates
        /\ Fresh
        /\ TodaysRows
        /\ YesterdaysRows
        /\ LabelIsYesterday
        /\ PublishedRows

----------------------------------------------------------------------------
(* Types.                                                                  *)

\* What switch_to_next_day takes for yesterday is a label, -1 on the first day.
LEMMA YesterdayType == ASSUME TypeOK PROVE today - 1 \in Labels
BY CollectdAssumption DEF TypeOK, Labels, Days

\* A new file and one with all its tables.
LEMMA FileTypes == NoFile \in File /\ EmptyFile \in File
BY CollectdAssumption DEF NoFile, EmptyFile, File

\* Between two calls.
LEMMA NoOpType == NoOp \in Call
BY DEF NoOp, Call

\* _db_commit leaves the file alone or makes it the whole transaction.
LEMMA DbCommitEffect ==
    ASSUME NEW s, s \in [n : Nat, fails : 0 .. MaxFails, file : File],
           NEW whole \in File,
           NEW t \in DbCommit(s, whole)
    PROVE  /\ t \in [n : Nat, fails : 0 .. MaxFails, file : File]
           /\ t.file \in {s.file, whole}
           /\ \/ t = s
              \/ t.n = 0 /\ t.fails = 0
              \/ s.fails < MaxFails /\ t = [s EXCEPT !.fails = @ + 1]
<1>1. CASE s.n = 0
    BY <1>1 DEF DbCommit
<1>2. CASE t = [n |-> 0, fails |-> 0, file |-> whole]
    BY <1>2, CollectdAssumption
<1>3. CASE t = [s EXCEPT !.fails = @ + 1] /\ t.fails <= MaxFails
    BY <1>3, CollectdAssumption
<1> QED
    BY <1>1, <1>2, <1>3 DEF DbCommit

\* Two attempts in a row do to the file what one does.
LEMMA CommitAfterEffect ==
    ASSUME NEW s, s \in [n : Nat, fails : 0 .. MaxFails, file : File],
           NEW whole \in File, NEW overdue \in BOOLEAN,
           NEW t \in CommitAfterNDatagrams(s, whole, overdue)
    PROVE  /\ t \in [n : Nat, fails : 0 .. MaxFails, file : File]
           /\ t.file \in {s.file, whole}
<1>1. PICK r \in {s} \cup DbCommit(s, whole) :
        t \in IF CommitDue(r.n) THEN DbCommit(r, whole) ELSE {r}
    BY DEF CommitAfterNDatagrams
<1>2. r \in [n : Nat, fails : 0 .. MaxFails, file : File] /\ r.file \in {s.file, whole}
    BY DbCommitEffect
<1>3. CASE t = r
    BY <1>2, <1>3
<1>4. CASE t \in DbCommit(r, whole)
    BY <1>2, <1>4, DbCommitEffect
<1> QED
    BY <1>1, <1>3, <1>4

\* The state an attempt to commit starts from.
LEMMA UncommittedType ==
    ASSUME TypeOK PROVE Uncommitted \in [n : Nat, fails : 0 .. MaxFails, file : File]
BY DEF TypeOK, Uncommitted

\* The effect of an action that tries one commit.
LEMMA OneCommit ==
    ASSUME TypeOK,
           NEW s \in DbCommit(Uncommitted, view), BecomesCommitted(s)
    PROVE  cur' \in {cur, view} /\ cur' \in File /\ uncommitted' \in Nat /\ fails' \in 0 .. MaxFails
<1>1. view \in File /\ Uncommitted.file = cur
    BY DEF TypeOK, Uncommitted
<1> QED
    BY <1>1, UncommittedType, DbCommitEffect DEF BecomesCommitted

\* What the shutdown leaves of the file.
LEMMA ShutdownCommit ==
    ASSUME TypeOK, Shutdown
    PROVE  cur' \in {cur, view} /\ cur' \in File
<1>1. PICK s \in DbCommit(Uncommitted, view) : cur' = s.file
    BY DEF Shutdown
<1>2. view \in File /\ Uncommitted.file = cur
    BY DEF TypeOK, Uncommitted
<1> QED
    BY <1>1, <1>2, UncommittedType, DbCommitEffect

\* A datagram adds k to the rows of its day.
LEMMA CountEffect ==
    ASSUME TypeOK, NEW k \in 0 .. MaxPolicies, Count(k)
    PROVE  /\ view' \in File /\ added' \in [Days -> Nat] /\ op.date \in Days
           /\ view'.label = view.label /\ view'.schema = view.schema
           /\ view'.rows[op.date] = view.rows[op.date] + k
           /\ added'[op.date] = added[op.date] + k
           /\ \A d \in Days \ {op.date} : view'.rows[d] = view.rows[d] /\ added'[d] = added[d]
<1>1. k \in Nat
    BY CollectdAssumption
<1>2. view.rows \in [Days -> Nat] /\ added \in [Days -> Nat] /\ op.date \in Days
    BY DEF TypeOK, File, Count
<1>3. view \in [schema : {"none", "partial", "complete"}, label : Labels \cup {NULL},
                rows : [Days -> Nat]]
    BY DEF TypeOK, File
<1>4. added' = [added EXCEPT ![op.date] = @ + k]
    BY DEF Count
<1>5. view' = [view EXCEPT !.rows[op.date] = @ + k]
    BY DEF Count
<1>6. view'.rows = [view.rows EXCEPT ![op.date] = @ + k]
    BY <1>3, <1>5
<1>7. view'.label = view.label /\ view'.schema = view.schema
    BY <1>3, <1>5
<1>8. view' = [schema |-> view.schema, label |-> view.label, rows |-> view'.rows]
    BY <1>3, <1>5
<1>9. view'.rows \in [Days -> Nat]
    BY <1>1, <1>2, <1>6
<1>10. view' \in File
    BY <1>3, <1>8, <1>9 DEF File
<1>11. added' \in [Days -> Nat]
    BY <1>1, <1>2, <1>4
<1>12. \A d \in Days \ {op.date} : view'.rows[d] = view.rows[d] /\ added'[d] = added[d]
    BY <1>2, <1>4, <1>6
<1> QED
    BY <1>2, <1>4, <1>6, <1>7, <1>10, <1>11, <1>12

\* What add_datagram leaves of the file and of the counters.
LEMMA AddDatagramEffect ==
    ASSUME TypeOK, NEW k \in 0 .. MaxPolicies, NEW overdue \in BOOLEAN, AddDatagram(k, overdue)
    PROVE  cur' \in {cur, view'} /\ cur' \in File /\ uncommitted' \in Nat /\ fails' \in 0 .. MaxFails
<1> DEFINE t == [Uncommitted EXCEPT !.n = @ + 1]
<1>1. PICK s \in CommitAfterNDatagrams(t, view', overdue) : BecomesCommitted(s)
    BY DEF AddDatagram
<1>2. view' \in File
    BY CountEffect DEF AddDatagram
<1>3. t \in [n : Nat, fails : 0 .. MaxFails, file : File] /\ t.file = cur
    BY UncommittedType DEF Uncommitted
<1> HIDE DEF t
<1> QED
    BY <1>1, <1>2, <1>3, CommitAfterEffect DEF BecomesCommitted

\* The types after the process has ended.
LEMMA GoDownTypes ==
    ASSUME TypeOK, GoDown, cur' \in File
    PROVE  /\ pc' = "down" /\ op' \in Call /\ view' \in File /\ uncommitted' \in Nat
           /\ fails' \in 0 .. MaxFails /\ lost' \in [Days -> Int]
           /\ late' \subseteq Labels \cup Days
<1>1. lost' \in [Days -> Int]
    BY CollectdAssumption DEF GoDown, TypeOK, File
<1>2. day .. today - 1 \subseteq Labels
    BY CollectdAssumption DEF TypeOK, Days, Labels
<1>3. late' \subseteq late \cup {today - 1} \cup day .. today - 1
    BY DEF GoDown
<1>4. late' \subseteq Labels \cup Days
    BY <1>2, <1>3, YesterdayType DEF TypeOK
<1>5. fails' \in 0 .. MaxFails /\ uncommitted' \in Nat
    BY CollectdAssumption DEF GoDown
<1> QED
    BY <1>1, <1>4, <1>5, FileTypes, NoOpType DEF GoDown

\* TypeOK holds before the first start.
LEMMA InitTypes == Init => TypeOK
<1> SUFFICES ASSUME Init PROVE TypeOK
    OBVIOUS
<1>1. FirstDay \in Days /\ -1 .. FirstDay - 1 \subseteq Labels
    BY CollectdAssumption DEF Days, Labels
<1>2. op.kind # "datagram"
    BY CollectdAssumption DEF Init, NoOp
<1>3. crashes \in 0 .. MaxCrashes /\ fails \in 0 .. MaxFails
    BY CollectdAssumption DEF Init
<1>4. added \in [Days -> Nat] /\ lost \in [Days -> Int]
    BY DEF Init
<1> QED
    BY <1>1, <1>2, <1>3, <1>4, FileTypes, NoOpType DEF Init, TypeOK

\* The disjuncts of Next.
LEMMA Actions ==
    ASSUME Next
    PROVE  \/ Start \/ Crash \/ NextDay
           \/ \E kind \in {"datagram", "timeout", "stop"} : Receive(kind)
           \/ \E k \in 0 .. MaxPolicies, overdue \in BOOLEAN : AddDatagram(k, overdue)
           \/ \E k \in 0 .. MaxPolicies : AddDatagramFails(k)
           \/ TimedCommit \/ Shutdown \/ Started
           \/ RolloverCommit \/ LabelDay \/ LabelDayFails
           \/ RemoveYesterday \/ RenameToday \/ OpenNewDay \/ SetupBegins \/ SetupEnds
BY DEF Next, Rollover, Resume

\* One step per action of Next.
LEMMA TypeStep == ASSUME TypeOK, [Next]_vars PROVE TypeOK'
<1>1. CASE Start
    BY <1>1, NoOpType, CollectdAssumption DEF Start, Call, NoOp, TypeOK, histVars
<1>2. ASSUME NEW kind \in {"datagram", "timeout", "stop"}, Receive(kind) PROVE TypeOK'
    BY <1>2, NoOpType, CollectdAssumption DEF Receive, Call, NoOp, TypeOK, histVars
<1>3. ASSUME NEW k \in 0 .. MaxPolicies, NEW overdue \in BOOLEAN, AddDatagram(k, overdue) PROVE TypeOK'
    BY <1>3, AddDatagramEffect, CountEffect, CollectdAssumption, NoOpType
        DEF AddDatagram, Count, TypeOK, histVars, NoOp
<1>4. ASSUME NEW k \in 0 .. MaxPolicies, AddDatagramFails(k) PROVE TypeOK'
    BY <1>4, CountEffect, CollectdAssumption, NoOpType
        DEF AddDatagramFails, Count, TypeOK, histVars, NoOp
<1>5. CASE TimedCommit
    BY <1>5, OneCommit, CollectdAssumption, NoOpType DEF TimedCommit, TypeOK, histVars, NoOp
<1>6. CASE Shutdown
    BY <1>6, ShutdownCommit, GoDownTypes, CollectdAssumption
        DEF Shutdown, TypeOK, histVars, NoOp, GoDown
<1>7. CASE Started
    BY <1>7, CollectdAssumption, NoOpType DEF Started, TypeOK, histVars, NoOp
<1>8. CASE RolloverCommit
    BY <1>8, OneCommit, YesterdayType, CollectdAssumption DEF RolloverCommit, Yesterday, Call, TypeOK, histVars
<1>9. CASE LabelDay
    BY <1>9, CollectdAssumption DEF LabelDay, File, Call, TypeOK, histVars
<1>10. CASE LabelDayFails
    BY <1>10, GoDownTypes, NoOpType, FileTypes, CollectdAssumption
        DEF LabelDayFails, File, Call, TypeOK, histVars, NoOp, GoDown
<1>11. CASE RemoveYesterday
    BY <1>11, FileTypes, CollectdAssumption DEF RemoveYesterday, TypeOK, histVars
<1>12. CASE RenameToday
    BY <1>12, FileTypes, CollectdAssumption DEF RenameToday, TypeOK, histVars
<1>13. CASE OpenNewDay
    BY <1>13, CollectdAssumption DEF OpenNewDay, TypeOK, histVars
<1>14. CASE SetupBegins
    BY <1>14, CollectdAssumption DEF SetupBegins, File, TypeOK, histVars
<1>15. CASE SetupEnds
    BY <1>15, FileTypes, CollectdAssumption DEF SetupEnds, Call, TypeOK, histVars
<1>16. CASE Crash
    BY <1>16, GoDownTypes, CollectdAssumption DEF Crash, TypeOK, histVars, NoOp, GoDown
<1>17. CASE NextDay
    <2>1. today' \in Days
        <3>1. today \in Days /\ today < MaxDay /\ today' = today + 1 /\ MaxDay \in Nat
            BY <1>17, CollectdAssumption DEF NextDay, TypeOK
        <3> QED
            BY <3>1 DEF Days
    <2>2. late' \subseteq Labels \cup Days
        <3>1. day .. today \subseteq Days
            BY CollectdAssumption DEF TypeOK, Days
        <3>2. late' \subseteq late \cup day .. today
            BY <1>17 DEF NextDay
        <3> QED
            BY <3>1, <3>2 DEF TypeOK
    <2> QED
        BY <1>17, <2>1, <2>2 DEF NextDay, TypeOK
<1>18. CASE UNCHANGED vars
    BY <1>18 DEF vars, histVars, TypeOK
<1> QED
    BY <1>1, <1>2, <1>3, <1>4, <1>5, <1>6, <1>7, <1>8, <1>9, <1>10,
       <1>11, <1>12, <1>13, <1>14, <1>15, <1>16, <1>17, <1>18, Actions

\* Every variable has its type in every reachable state.
THEOREM TypeCorrect == Spec => []TypeOK
<1>1. TypeOK /\ [Next]_vars => TypeOK'
    BY TypeStep
<1> QED
    BY <1>1, InitTypes, PTL DEF Spec

----------------------------------------------------------------------------
(* What a crash can cost.                                                  *)

CommitState == [n : Nat, fails : 0 .. MaxFails, file : File]

\* The bound of UncommittedBounded for a state [n, fails, file], and the same with
\* one datagram more.
Bounded(s) == s.n < CommitEveryN + RetryCount * s.fails
NearlyBounded(s) == s.n <= CommitEveryN + RetryCount * s.fails

\* A multiple of r, as commit_after_n_datagrams tests for it.
LEMMA Multiple == ASSUME NEW r \in Nat \ {0}, NEW f \in Nat PROVE (r * f) % r = 0
BY SMT

\* Counting one failed attempt more raises the bound.
LEMMA OneMoreFailure ==
    ASSUME NEW f \in Nat
    PROVE  /\ RetryCount * f \in Nat
           /\ RetryCount * (f + 1) = RetryCount * f + RetryCount
BY CollectdAssumption

\* The attempt that is due when the bound is reached keeps it, whatever its outcome;
\* any other attempt keeps it as well.
LEMMA AttemptKeepsBound ==
    ASSUME NEW s \in CommitState, NearlyBounded(s), NEW whole, NEW t \in DbCommit(s, whole)
    PROVE  Bounded(t) \/ (t = s /\ s.n = 0)
<1> USE CollectdAssumption
<1>1. s.n \in Nat /\ s.fails \in Nat
    BY DEF CommitState
<1>2. CASE s.n = 0
    BY <1>2 DEF DbCommit
<1>3. CASE t = [n |-> 0, fails |-> 0, file |-> whole]
    BY <1>3 DEF Bounded
<1>4. CASE t = [s EXCEPT !.fails = @ + 1]
    <2>1. t.n = s.n /\ t.fails = s.fails + 1
        BY <1>4 DEF CommitState
    <2>2. RetryCount * t.fails = RetryCount * s.fails + RetryCount
        BY <1>1, <2>1, OneMoreFailure
    <2>3. RetryCount * s.fails \in Nat
        BY <1>1, OneMoreFailure
    <2> QED
        BY <1>1, <2>1, <2>2, <2>3 DEF Bounded, NearlyBounded
<1> QED
    BY <1>2, <1>3, <1>4 DEF DbCommit

\* An attempt is due when the bound is reached.
LEMMA DueAtBound ==
    ASSUME NEW s \in CommitState, NearlyBounded(s), ~Bounded(s)
    PROVE  CommitDue(s.n) /\ s.n # 0
<1> USE CollectdAssumption
<1>1. s.n \in Nat /\ s.fails \in Nat /\ RetryCount * s.fails \in Nat
    BY OneMoreFailure DEF CommitState
<1>2. s.n = CommitEveryN + RetryCount * s.fails
    <2> DEFINE p == RetryCount * s.fails
    <2>1. s.n <= CommitEveryN + p /\ ~(s.n < CommitEveryN + p)
        BY DEF Bounded, NearlyBounded
    <2>2. CommitEveryN \in Int /\ p \in Int
        BY <1>1
    <2> HIDE DEF p
    <2>3. s.n = CommitEveryN + p
        BY <1>1, <2>1, <2>2
    <2> QED
        BY <2>3 DEF p
<1>3. s.n - CommitEveryN = RetryCount * s.fails
    BY <1>1, <1>2
<1>4. (s.n - CommitEveryN) % RetryCount = 0
    BY <1>1, <1>3, Multiple
<1>5. s.n >= CommitEveryN /\ s.n # 0
    BY <1>1, <1>2
<1> QED
    BY <1>4, <1>5 DEF CommitDue

\* A committed state meets the bound.
LEMMA ZeroIsBounded == ASSUME NEW s \in CommitState, s.n = 0 PROVE Bounded(s)
<1>1. s.fails \in Nat /\ RetryCount * s.fails \in Nat
    BY OneMoreFailure, CollectdAssumption DEF CommitState
<1> QED
    BY <1>1, CollectdAssumption DEF Bounded

\* The bound leaves room for one datagram more.
LEMMA BoundedIsNearly == ASSUME NEW s \in CommitState, Bounded(s) PROVE NearlyBounded(s)
<1>1. s.n \in Nat /\ s.fails \in Nat /\ RetryCount * s.fails \in Nat
    BY OneMoreFailure, CollectdAssumption DEF CommitState
<1> QED
    BY <1>1, CollectdAssumption DEF Bounded, NearlyBounded

\* The attempts of commit_after_n_datagrams restore the bound after one datagram
\* more.
LEMMA DatagramKeepsBound ==
    ASSUME NEW s \in CommitState, NearlyBounded(s), NEW whole \in File, NEW overdue \in BOOLEAN,
           NEW t \in CommitAfterNDatagrams(s, whole, overdue)
    PROVE  Bounded(t)
<1>1. PICK r \in {s} \cup DbCommit(s, whole) :
        t \in IF CommitDue(r.n) THEN DbCommit(r, whole) ELSE {r}
    BY DEF CommitAfterNDatagrams
<1>2. r \in CommitState
    BY DbCommitEffect DEF CommitState
<1>3. NearlyBounded(r)
    BY <1>1, <1>2, AttemptKeepsBound, BoundedIsNearly
<1>4. t \in CommitState
    BY <1>1, <1>2, DbCommitEffect DEF CommitState
<1>5. CASE CommitDue(r.n)
    BY <1>1, <1>2, <1>3, <1>4, <1>5, AttemptKeepsBound, ZeroIsBounded
<1>6. CASE ~CommitDue(r.n)
    BY <1>1, <1>2, <1>3, <1>6, DueAtBound
<1> QED
    BY <1>5, <1>6

\* Only add_datagram raises the counter; the other actions try a commit, reset it or
\* leave it.
LEMMA BoundStep == ASSUME TypeOK, UncommittedBounded, [Next]_vars PROVE UncommittedBounded'
<1> USE CollectdAssumption
<1>1. Uncommitted \in CommitState /\ Bounded(Uncommitted) /\ view \in File
    BY UncommittedType DEF CommitState, Bounded, Uncommitted, UncommittedBounded, TypeOK
<1>2. ASSUME NEW t \in CommitState, Bounded(t), BecomesCommitted(t) PROVE UncommittedBounded'
    BY <1>2 DEF Bounded, BecomesCommitted, UncommittedBounded
<1>3. ASSUME NEW s \in DbCommit(Uncommitted, view), BecomesCommitted(s) PROVE UncommittedBounded'
    BY <1>1, <1>2, <1>3, AttemptKeepsBound, BoundedIsNearly, ZeroIsBounded, DbCommitEffect
       DEF CommitState
<1>4. ASSUME NEW k \in 0 .. MaxPolicies, NEW overdue \in BOOLEAN, AddDatagram(k, overdue)
      PROVE  UncommittedBounded'
    <2> DEFINE t == [Uncommitted EXCEPT !.n = @ + 1]
    <2>1. t \in CommitState
        BY <1>1 DEF CommitState
    <2>2. t.n = Uncommitted.n + 1 /\ t.fails = Uncommitted.fails
        BY <1>1 DEF CommitState
    <2>3. NearlyBounded(t)
        <3>1. Uncommitted.n \in Nat /\ Uncommitted.fails \in Nat
              /\ RetryCount * Uncommitted.fails \in Nat
            BY <1>1, OneMoreFailure DEF CommitState
        <3> QED
            BY <1>1, <2>2, <3>1 DEF Bounded, NearlyBounded
    <2>4. view' \in File
        BY <1>4, CountEffect DEF AddDatagram
    <2>5. PICK s \in CommitAfterNDatagrams(t, view', overdue) : BecomesCommitted(s)
        BY <1>4 DEF AddDatagram
    <2>6. s \in CommitState
        BY <2>1, <2>4, <2>5, CommitAfterEffect DEF CommitState
    <2> QED
        BY <1>2, <2>1, <2>3, <2>4, <2>5, <2>6, DatagramKeepsBound
<1>5. CASE TimedCommit
    BY <1>3, <1>5 DEF TimedCommit
<1>6. CASE RolloverCommit
    BY <1>3, <1>6 DEF RolloverCommit
<1>7. CASE uncommitted' = 0 /\ fails' = 0
    BY <1>7 DEF UncommittedBounded
<1>8. CASE UNCHANGED <<uncommitted, fails>>
    BY <1>8 DEF UncommittedBounded
<1>9. ASSUME NEW k \in 0 .. MaxPolicies, AddDatagramFails(k)
      PROVE  UNCHANGED <<uncommitted, fails>>
    BY <1>9 DEF AddDatagramFails
<1>10. ASSUME NEW kind \in {"datagram", "timeout", "stop"}, Receive(kind)
       PROVE  UNCHANGED <<uncommitted, fails>>
    BY <1>10 DEF Receive, histVars
<1>11. CASE Shutdown \/ LabelDayFails \/ OpenNewDay \/ Crash
    BY <1>7, <1>8, <1>11 DEF Shutdown, LabelDayFails, OpenNewDay, Crash, GoDown, histVars
<1>12. CASE \/ Start \/ Started \/ LabelDay \/ RemoveYesterday \/ RenameToday
            \/ SetupBegins \/ SetupEnds \/ NextDay \/ UNCHANGED vars
    BY <1>8, <1>12 DEF Start, Started, LabelDay, RemoveYesterday, RenameToday,
       SetupBegins, SetupEnds, NextDay, vars, histVars
<1> QED
    BY <1>4, <1>5, <1>6, <1>8, <1>9, <1>10, <1>11, <1>12, Actions

\* A crash costs fewer datagrams than max_uncommited_datagrams, plus
\* retry_commit_datagram_count for every attempt to commit that failed since the last
\* good one: commit_after_n_datagrams never skips past its next attempt.
THEOREM CrashCostBounded == Spec => []UncommittedBounded
<1>1. Init => UncommittedBounded
    BY CollectdAssumption DEF Init, UncommittedBounded
<1>2. TypeOK /\ UncommittedBounded /\ [Next]_vars => UncommittedBounded'
    BY BoundStep
<1> QED
    BY <1>1, <1>2, TypeCorrect, PTL DEF Spec

----------------------------------------------------------------------------
(* Today's rows and the published day.                                     *)

Rest == Calls /\ Dates /\ Fresh /\ TodaysRows /\ YesterdaysRows /\ LabelIsYesterday /\ PublishedRows

\* What the types say about numbers.
LEMMA Numbers ==
    ASSUME TypeOK
    PROVE  /\ today \in Int /\ day \in Int /\ today \in Days /\ day \in Days
           /\ today >= 0 /\ day >= 0
           /\ \A d \in Days : /\ d \in Int /\ d >= 0
                              /\ added[d] \in Nat /\ lost[d] \in Int
                              /\ cur.rows[d] \in Nat /\ view.rows[d] \in Nat /\ yest.rows[d] \in Nat
<1>1. \A d \in Days : d \in Int /\ d >= 0
    BY DEF Days
<1>2. cur.rows \in [Days -> Nat] /\ view.rows \in [Days -> Nat] /\ yest.rows \in [Days -> Nat]
    BY DEF TypeOK, File
<1> QED
    BY <1>1, <1>2 DEF TypeOK

\* A new file has no rows and no label.
LEMMA EmptyRows ==
    /\ NoFile.schema = "none" /\ EmptyFile.schema = "complete"
    /\ NoFile.label = NULL /\ EmptyFile.label = NULL
    /\ \A d \in Days : NoFile.rows[d] = 0 /\ EmptyFile.rows[d] = 0
BY DEF NoFile, EmptyFile

\* NULL is no date and no kind of call.
LEMMA NoOpKind ==
    /\ NoOp.kind = NULL /\ NULL \notin Int
    /\ NULL \notin {"create", "init", "datagram", "timeout", "stop"}
BY CollectdAssumption DEF NoOp

\* The constructor takes the file for the current day: today's rows are those a
\* crash left.
LEMMA StartKeeps ==
    ASSUME IInv, TypeOK', Start
    PROVE  Rest'
<1>1. Calls'
    BY Numbers, NoOpKind DEF IInv, Start, Rolling, Labelled, NoOp, Calls
<1>2. Dates'
    BY NoOpKind DEF IInv, Start, NoOp, Dates, Calls
<1>3. Fresh'
    BY DEF IInv, Start, histVars, Fresh
<1>4. TodaysRows'
    BY Numbers, EmptyRows DEF IInv, Start, histVars, Net, Rolling, TodaysRows, Calls,
       Fresh
<1>5. YesterdaysRows'
    BY DEF IInv, Start, histVars, YesterdaysRows
<1>6. LabelIsYesterday'
    BY DEF IInv, Start, histVars, Labelled, LabelIsYesterday
<1>7. PublishedRows'
    <2> SUFFICES ASSUME NEW d \in Days \ late
                 PROVE  /\ yest.label = d => yest.rows[d] = Net(d)
                        /\ view'.rows[d] = cur.rows[d]
        BY DEF Start, PublishedRows, Net, histVars
    <2>1. yest.label = d => yest.rows[d] = Net(d)
        BY DEF IInv, PublishedRows
    <2>2. view'.rows[d] = cur.rows[d]
        BY EmptyRows DEF IInv, Calls, Fresh, Start
    <2> QED
        BY <2>1, <2>2
<1> QED
    BY <1>1, <1>2, <1>3, <1>4, <1>5, <1>6, <1>7 DEF Rest

\* A call only reads the date.
LEMMA ReceiveKeeps ==
    ASSUME IInv, TypeOK', NEW kind \in {"datagram", "timeout", "stop"}, Receive(kind)
    PROVE  Rest'
<1>1. Calls'
    BY NoOpKind DEF IInv, Receive, Rolling, Labelled, Calls
<1>2. Dates'
    BY Numbers DEF IInv, Receive, Labelled, Dates
<1>3. Fresh'
    BY DEF IInv, Receive, histVars, Fresh
<1>4. TodaysRows'
    BY DEF IInv, Receive, histVars, Net, Rolling, TodaysRows
<1>5. YesterdaysRows'
    BY DEF IInv, Receive, histVars, Net, YesterdaysRows
<1>6. LabelIsYesterday'
    BY DEF IInv, Receive, histVars, Labelled, LabelIsYesterday
<1>7. PublishedRows'
    BY DEF IInv, Receive, histVars, Net, PublishedRows
<1> QED
    BY <1>1, <1>2, <1>3, <1>4, <1>5, <1>6, <1>7 DEF Rest

\* A datagram adds to one day, in the transaction and in `added' alike, and its day
\* is not published.
LEMMA CountKeeps ==
    ASSUME IInv, TypeOK', NEW k \in 0 .. MaxPolicies, Count(k), cur' \in {cur, view'}
    PROVE  Rest'
<1>0. /\ view'.schema = view.schema /\ op.date \in Days
      /\ view'.rows[op.date] = view.rows[op.date] + k
      /\ added'[op.date] = added[op.date] + k
      /\ \A d \in Days \ {op.date} : view'.rows[d] = view.rows[d] /\ added'[d] = added[d]
    BY CountEffect DEF IInv
<1>a. /\ pc = "resume" /\ pc' = "idle" /\ op.kind = "datagram" /\ op' = NoOp
      /\ UNCHANGED <<today, day, yest, lost, late>>
    BY DEF Count
<1>b. k \in Nat
    BY CollectdAssumption
<1>c. \A d \in Days : Net(d) \in Int /\ Net(d)' = Net(d) + view'.rows[d] - view.rows[d]
    BY <1>0, <1>a, <1>b, Numbers DEF Net, IInv
<1>1. Calls'
    BY <1>0, <1>a, <1>b, <1>c DEF IInv, Rolling, Labelled, Calls
<1>2. Dates'
    BY <1>0, <1>a, <1>b, <1>c, NoOpKind DEF IInv, Dates
<1>3. Fresh'
    BY <1>0, <1>a, <1>b, <1>c, Numbers DEF IInv, Fresh, Calls, Dates
<1>4. TodaysRows'
    BY <1>0, <1>a, <1>b, <1>c, Numbers DEF IInv, Rolling, TodaysRows, Calls, Dates
<1>5. YesterdaysRows'
    BY <1>0, <1>a, <1>b, <1>c DEF IInv, YesterdaysRows
<1>6. LabelIsYesterday'
    BY <1>0, <1>a, <1>b, <1>c DEF IInv, Labelled, LabelIsYesterday
<1>7. PublishedRows'
    BY <1>0, <1>a, <1>b, <1>c, Numbers DEF IInv, PublishedRows, Dates
<1> QED
    BY <1>1, <1>2, <1>3, <1>4, <1>5, <1>6, <1>7 DEF Rest

\* A commit makes the transaction durable and changes no rows the daemon sees.
LEMMA TimedCommitKeeps ==
    ASSUME IInv, TypeOK', TimedCommit
    PROVE  Rest'
<1>0. cur' \in {cur, view}
    BY OneCommit DEF IInv, TimedCommit
<1>1. Calls'
    BY <1>0 DEF IInv, TimedCommit, Rolling, Labelled, Calls
<1>2. Dates'
    BY <1>0, NoOpKind DEF IInv, TimedCommit, Dates
<1>3. Fresh'
    BY <1>0 DEF IInv, TimedCommit, Fresh, Calls
<1>4. TodaysRows'
    BY <1>0 DEF IInv, TimedCommit, Net, Rolling, TodaysRows
<1>5. YesterdaysRows'
    BY <1>0 DEF IInv, TimedCommit, Net, YesterdaysRows
<1>6. LabelIsYesterday'
    BY <1>0 DEF IInv, TimedCommit, Labelled, LabelIsYesterday
<1>7. PublishedRows'
    BY <1>0 DEF IInv, TimedCommit, Net, PublishedRows
<1> QED
    BY <1>1, <1>2, <1>3, <1>4, <1>5, <1>6, <1>7 DEF Rest

\* The end of the process: what the transaction had and the file has not goes to
\* `lost'.
LEMMA GoDownKeeps ==
    ASSUME IInv, TypeOK', GoDown, pc # "down", cur' \in {cur, view}, UNCHANGED <<today, day, yest, added>>
    PROVE  Rest'
<1>a. /\ pc' = "down" /\ op' = NoOp /\ view' = NoFile
      /\ late \subseteq late'
      /\ \/ late' = late /\ day = today /\ pc \in {"idle", "resume"}
         \/ today - 1 \in late'
    BY DEF GoDown
<1>b. \A d \in Days : cur'.rows[d] \in {cur.rows[d], view.rows[d]}
    OBVIOUS
<1>c. \A d \in Days : Net(d) \in Int /\ Net(d)' = Net(d) - view.rows[d] + cur'.rows[d]
    BY <1>b, Numbers DEF Net, IInv, GoDown
<1>d. pc \in {"idle", "resume", "setup"} \cup Rolling
    BY DEF IInv, TypeOK, Rolling
<1>1. Calls'
    BY <1>a, <1>b, <1>c, <1>d DEF IInv, Rolling, Labelled, Calls
<1>2. Dates'
    BY <1>a, <1>b, <1>c, <1>d, NoOpKind DEF IInv, Dates
<1>3. Fresh'
    <2>1. ASSUME NEW d \in Days, d > today
          PROVE  added'[d] = 0 /\ lost'[d] = 0 /\ cur'.rows[d] = 0 /\ view'.rows[d] = 0
        <3>1. added[d] = 0 /\ lost[d] = 0 /\ view.rows[d] = 0 /\ cur'.rows[d] = 0
            BY <1>b, <2>1 DEF IInv, Fresh
        <3>2. lost'[d] = lost[d] + view.rows[d] - cur'.rows[d]
            BY DEF GoDown
        <3> QED
            BY <1>a, <3>1, <3>2, EmptyRows
    <2>2. cur'.schema # "complete" => \A d \in Days : cur'.rows[d] = 0
        BY EmptyRows DEF IInv, Calls, Fresh
    <2> QED
        BY <2>1, <2>2, <1>a DEF Fresh
<1>4. TodaysRows'
    BY <1>a, <1>b, <1>c, <1>d, Numbers DEF IInv, Rolling, TodaysRows
<1>5. YesterdaysRows'
    BY <1>a, <1>b, <1>c, <1>d DEF IInv, YesterdaysRows, Calls
<1>6. LabelIsYesterday'
    BY <1>a, <1>b, <1>c, <1>d DEF IInv, Labelled, LabelIsYesterday
<1>7. PublishedRows'
    BY <1>a, <1>b, <1>c, <1>d, Numbers DEF IInv, PublishedRows
<1> QED
    BY <1>1, <1>2, <1>3, <1>4, <1>5, <1>6, <1>7 DEF Rest

\* The constructor is done.
LEMMA StartedKeeps ==
    ASSUME IInv, TypeOK', Started
    PROVE  Rest'
<1>1. Calls'
    BY DEF IInv, Started, Rolling, Labelled, Calls
<1>2. Dates'
    BY NoOpKind DEF IInv, Started, Dates
<1>3. Fresh'
    BY DEF IInv, Started, histVars, Fresh
<1>4. TodaysRows'
    BY DEF IInv, Started, histVars, Net, Rolling, TodaysRows
<1>5. YesterdaysRows'
    BY DEF IInv, Started, histVars, Net, YesterdaysRows
<1>6. LabelIsYesterday'
    BY DEF IInv, Started, histVars, Labelled, LabelIsYesterday
<1>7. PublishedRows'
    BY DEF IInv, Started, histVars, Net, PublishedRows
<1> QED
    BY <1>1, <1>2, <1>3, <1>4, <1>5, <1>6, <1>7 DEF Rest

\* The rollover fixes the label; from here on yesterday is the day it names, or in
\* `late'.
LEMMA RolloverCommitKeeps ==
    ASSUME IInv, TypeOK', RolloverCommit
    PROVE  Rest'
<1>0. cur' \in {cur, view}
    BY OneCommit DEF IInv, RolloverCommit
<1>1. Calls'
    BY <1>0, Numbers, NoOpKind DEF IInv, RolloverCommit, Yesterday, Rolling, TypeOK,
       Call, Calls
<1>2. Dates'
    BY <1>0, Numbers DEF IInv, RolloverCommit, Yesterday, Dates
<1>3. Fresh'
    <2>1. CASE cur' = cur
        BY <2>1 DEF IInv, Fresh, RolloverCommit
    <2>2. CASE cur' = view
        BY <2>2 DEF IInv, Calls, Fresh, RolloverCommit
    <2> QED
        BY <1>0, <2>1, <2>2
<1>4. TodaysRows'
    BY <1>0 DEF IInv, RolloverCommit, Yesterday, Net, Rolling, TodaysRows
<1>5. YesterdaysRows'
    BY <1>0 DEF IInv, RolloverCommit, Yesterday, Net, Rolling, YesterdaysRows, Calls
<1>6. LabelIsYesterday'
    BY <1>0 DEF IInv, RolloverCommit, Yesterday, LabelIsYesterday
<1>7. PublishedRows'
    BY <1>0 DEF IInv, RolloverCommit, Yesterday, Net, PublishedRows
<1> QED
    BY <1>1, <1>2, <1>3, <1>4, <1>5, <1>6, <1>7 DEF Rest

\* The label is committed together with whatever an earlier attempt left
\* uncommitted.
LEMMA LabelDayKeeps ==
    ASSUME IInv, TypeOK', LabelDay
    PROVE  Rest'
<1>1. Calls'
    BY DEF IInv, LabelDay, Rolling, Labelled, Calls
<1>2. Dates'
    BY DEF IInv, LabelDay, histVars, Labelled, Dates
<1>3. Fresh'
    BY DEF IInv, LabelDay, histVars, Fresh, Calls
<1>4. TodaysRows'
    BY DEF IInv, LabelDay, histVars, Net, Rolling, TodaysRows
<1>5. YesterdaysRows'
    BY DEF IInv, LabelDay, histVars, Net, YesterdaysRows
<1>6. LabelIsYesterday'
    BY DEF IInv, LabelDay, histVars, Labelled, LabelIsYesterday
<1>7. PublishedRows'
    BY DEF IInv, LabelDay, histVars, Net, PublishedRows
<1> QED
    BY <1>1, <1>2, <1>3, <1>4, <1>5, <1>6, <1>7 DEF Rest

\* The day stays unlabelled and open; the next call starts over.
LEMMA LabelRefusedKeeps ==
    ASSUME IInv, TypeOK', LabelDayFails, op.kind \in {"datagram", "timeout"}
    PROVE  Rest'
<1>0. view'.rows = view.rows /\ view'.schema = view.schema /\ UNCHANGED <<today, day, cur, yest, histVars>>
    BY NoOpKind DEF IInv, TypeOK, File, LabelDayFails
<1>1. Calls'
    BY <1>0 DEF IInv, LabelDayFails, Rolling, Labelled, Calls
<1>2. Dates'
    BY <1>0, NoOpKind DEF IInv, LabelDayFails, Dates
<1>3. Fresh'
    BY <1>0 DEF IInv, LabelDayFails, histVars, Fresh
<1>4. TodaysRows'
    BY <1>0 DEF IInv, LabelDayFails, histVars, Net, Rolling, TodaysRows
<1>5. YesterdaysRows'
    BY <1>0 DEF IInv, LabelDayFails, histVars, Net, Labelled, YesterdaysRows,
       LabelIsYesterday
<1>6. LabelIsYesterday'
    BY <1>0 DEF IInv, LabelDayFails, Rolling, Labelled, LabelIsYesterday, Calls
<1>7. PublishedRows'
    BY <1>0 DEF IInv, LabelDayFails, histVars, Net, PublishedRows
<1> QED
    BY <1>1, <1>2, <1>3, <1>4, <1>5, <1>6, <1>7 DEF Rest

\* Nothing is published for the moment.
LEMMA RemoveYesterdayKeeps ==
    ASSUME IInv, TypeOK', RemoveYesterday
    PROVE  Rest'
<1>1. Calls'
    BY DEF IInv, RemoveYesterday, Rolling, Labelled, Calls
<1>2. Dates'
    BY NoOpKind, EmptyRows DEF IInv, RemoveYesterday, histVars, Labelled, Dates
<1>3. Fresh'
    BY DEF IInv, RemoveYesterday, histVars, Fresh
<1>4. TodaysRows'
    BY DEF IInv, RemoveYesterday, histVars, Net, Rolling, TodaysRows
<1>5. YesterdaysRows'
    BY DEF IInv, RemoveYesterday, histVars, Net, YesterdaysRows
<1>6. LabelIsYesterday'
    BY DEF IInv, RemoveYesterday, histVars, Labelled, LabelIsYesterday
<1>7. PublishedRows'
    BY Numbers, NoOpKind, EmptyRows DEF IInv, RemoveYesterday, PublishedRows
<1> QED
    BY <1>1, <1>2, <1>3, <1>4, <1>5, <1>6, <1>7 DEF Rest

\* The labelled file is published, with all its rows committed.
LEMMA RenameTodayKeeps ==
    ASSUME IInv, TypeOK', RenameToday
    PROVE  Rest'
<1>1. Calls'
    BY DEF IInv, RenameToday, Rolling, Labelled, Calls
<1>2. Dates'
    BY DEF IInv, RenameToday, histVars, Labelled, Dates, Calls
<1>3. Fresh'
    BY EmptyRows DEF IInv, RenameToday, histVars, Fresh
<1>4. TodaysRows'
    BY Numbers, EmptyRows DEF IInv, RenameToday, histVars, Net, Rolling, TodaysRows
<1>5. YesterdaysRows'
    BY DEF IInv, RenameToday, YesterdaysRows
<1>6. LabelIsYesterday'
    BY DEF IInv, RenameToday, histVars, Labelled, LabelIsYesterday
<1>7. PublishedRows'
    BY DEF IInv, RenameToday, histVars, Net, PublishedRows, Calls, YesterdaysRows
<1> QED
    BY <1>1, <1>2, <1>3, <1>4, <1>5, <1>6, <1>7 DEF Rest

\* The clock is read again: the new day may be later than the one after the label.
LEMMA OpenNewDayKeeps ==
    ASSUME IInv, TypeOK', OpenNewDay
    PROVE  Rest'
<1>1. Calls'
    BY Numbers, NoOpKind DEF IInv, OpenNewDay, Rolling, Labelled, Calls
<1>2. Dates'
    BY DEF IInv, OpenNewDay, Labelled, Dates
<1>3. Fresh'
    BY DEF IInv, OpenNewDay, Fresh
<1>4. TodaysRows'
    BY DEF IInv, OpenNewDay, Net, Rolling, TodaysRows
<1>5. YesterdaysRows'
    BY DEF IInv, OpenNewDay, Rolling, YesterdaysRows, Calls
<1>6. LabelIsYesterday'
    BY DEF IInv, OpenNewDay, Labelled, LabelIsYesterday, Calls
<1>7. PublishedRows'
    BY DEF IInv, OpenNewDay, Net, PublishedRows
<1> QED
    BY <1>1, <1>2, <1>3, <1>4, <1>5, <1>6, <1>7 DEF Rest

\* A file with some of its tables has no rows.
LEMMA SetupBeginsKeeps ==
    ASSUME IInv, TypeOK', SetupBegins
    PROVE  Rest'
<1>1. Calls'
    BY DEF IInv, SetupBegins, Calls
<1>2. Dates'
    BY DEF IInv, SetupBegins, histVars, Dates
<1>3. Fresh'
    BY DEF IInv, SetupBegins, histVars, Fresh
<1>4. TodaysRows'
    BY DEF IInv, SetupBegins, histVars, Net, TodaysRows
<1>5. YesterdaysRows'
    BY DEF IInv, SetupBegins, histVars, Net, YesterdaysRows
<1>6. LabelIsYesterday'
    BY DEF IInv, SetupBegins, histVars, LabelIsYesterday
<1>7. PublishedRows'
    BY DEF IInv, SetupBegins, histVars, Net, PublishedRows
<1> QED
    BY <1>1, <1>2, <1>3, <1>4, <1>5, <1>6, <1>7 DEF Rest

\* The new file is ready; the constructor goes on to roll it over.
LEMMA SetupEndsKeeps ==
    ASSUME IInv, TypeOK', SetupEnds
    PROVE  Rest'
<1>1. Calls'
    BY EmptyRows DEF IInv, SetupEnds, Rolling, Labelled, TypeOK, Call, Calls
<1>2. Dates'
    BY DEF IInv, SetupEnds, histVars, Labelled, TypeOK, Call, Dates
<1>3. Fresh'
    BY EmptyRows DEF IInv, SetupEnds, histVars, Fresh
<1>4. TodaysRows'
    BY Numbers, EmptyRows DEF IInv, SetupEnds, histVars, Net, TodaysRows
<1>5. YesterdaysRows'
    BY EmptyRows DEF IInv, SetupEnds, histVars, Net, YesterdaysRows
<1>6. LabelIsYesterday'
    BY DEF IInv, SetupEnds, histVars, Labelled, LabelIsYesterday
<1>7. PublishedRows'
    BY DEF IInv, SetupEnds, histVars, Net, PublishedRows
<1> QED
    BY <1>1, <1>2, <1>3, <1>4, <1>5, <1>6, <1>7 DEF Rest

\* Midnight: nothing is counted for the new day yet, and the day that ends is on
\* time or in `late'.
LEMMA NextDayKeeps ==
    ASSUME IInv, TypeOK', NextDay
    PROVE  Rest'
<1>0. /\ today' = today + 1 /\ today' \in Days
      /\ added[today + 1] = 0 /\ lost[today + 1] = 0
      /\ cur.rows[today + 1] = 0 /\ view.rows[today + 1] = 0
    BY Numbers DEF IInv, TypeOK, Fresh, NextDay
<1>a. /\ late \subseteq late'
      /\ (pc \in {"idle", "resume", "setup"} /\ day = today) \/ today \in late'
      /\ UNCHANGED <<day, cur, view, yest, pc, op, added, lost>>
    BY Numbers DEF IInv, NextDay, Calls
<1>b. today' - 1 = today
    BY <1>0, Numbers DEF IInv
<1>1. Calls'
    BY <1>0, Numbers DEF IInv, NextDay, Labels, Calls
<1>2. Dates'
    <2>1. Dates /\ UNCHANGED <<day, yest, pc, op>> /\ late \subseteq late'
        BY DEF IInv, NextDay
    <2>2. pc = "commit" => today \in late'
        BY Numbers DEF IInv, NextDay, Calls
    <2>3. today \in Int /\ (op.date \in Days => op.date \in Int)
        BY Numbers DEF IInv
    <2> QED
        BY <1>0, <2>1, <2>2, <2>3 DEF Dates
<1>3. Fresh'
    BY <1>0, Numbers DEF IInv, NextDay, Fresh
<1>4. TodaysRows'
    BY <1>0 DEF IInv, NextDay, Net, TodaysRows
<1>5. YesterdaysRows'
    BY <1>0, <1>a, <1>b, Numbers DEF IInv, Net, YesterdaysRows, TodaysRows, Calls
<1>6. LabelIsYesterday'
    BY <1>0, <1>a, <1>b, Numbers DEF IInv, Labelled, LabelIsYesterday
<1>7. PublishedRows'
    BY <1>0 DEF IInv, NextDay, Net, PublishedRows
<1> QED
    BY <1>1, <1>2, <1>3, <1>4, <1>5, <1>6, <1>7 DEF Rest

\* The invariant holds before the first start.
LEMMA IInvInit == Init => IInv
<1> SUFFICES ASSUME Init PROVE IInv
    OBVIOUS
<1>1. TypeOK
    BY InitTypes
<1>2. Calls
    <2>1. day = today /\ pc = "down" /\ op = NoOp /\ view = NoFile
        BY DEF Init
    <2> QED
        BY <1>1, <2>1, Numbers DEF Calls, Rolling, Labelled
<1>3. Dates /\ PublishedRows
    <2>1. op.kind # "datagram" /\ yest.label = NULL /\ pc = "down"
        BY NoOpKind, EmptyRows DEF Init
    <2>2. yest.label \notin Int /\ yest.label \notin Days
        BY <2>1, NoOpKind DEF Days
    <2> QED
        BY <2>1, <2>2 DEF Dates, PublishedRows
<1>4. Fresh /\ TodaysRows
    BY <1>1, Numbers, EmptyRows DEF Init, Fresh, TodaysRows, Rolling, Net
<1>5. today - 1 \notin Days \ late
    BY CollectdAssumption DEF Init, Days
<1>6. YesterdaysRows /\ LabelIsYesterday
    BY <1>5 DEF Init, YesterdaysRows, LabelIsYesterday
<1> QED
    BY <1>1, <1>2, <1>3, <1>4, <1>6 DEF IInv

\* Every step keeps the invariant.
LEMMA IInvStep == ASSUME IInv, [Next]_vars PROVE IInv'
<1>1. TypeOK'
    BY TypeStep DEF IInv
<1> SUFFICES Rest'
    BY <1>1 DEF IInv, Rest
<1>2. CASE Start
    BY <1>1, <1>2, StartKeeps
<1>3. ASSUME NEW kind \in {"datagram", "timeout", "stop"}, Receive(kind) PROVE Rest'
    BY <1>1, <1>3, ReceiveKeeps
<1>4. ASSUME NEW k \in 0 .. MaxPolicies, NEW overdue \in BOOLEAN, AddDatagram(k, overdue)
      PROVE  Rest'
    <2>1. Count(k) /\ cur' \in {cur, view'}
        BY <1>4, AddDatagramEffect DEF AddDatagram, IInv
    <2> QED
        BY <1>1, <2>1, CountKeeps
<1>5. ASSUME NEW k \in 0 .. MaxPolicies, AddDatagramFails(k) PROVE Rest'
    <2>1. Count(k) /\ cur' \in {cur, view'}
        BY <1>5 DEF AddDatagramFails
    <2> QED
        BY <1>1, <2>1, CountKeeps
<1>6. CASE TimedCommit
    BY <1>1, <1>6, TimedCommitKeeps
<1>7. CASE Started
    BY <1>1, <1>7, StartedKeeps
<1>8. CASE Shutdown
    <2>1. cur' \in {cur, view}
        BY <1>8, ShutdownCommit DEF IInv
    <2>2. GoDown /\ pc # "down" /\ UNCHANGED <<today, day, yest, added>>
        BY <1>8 DEF Shutdown
    <2> QED
        BY <1>1, <2>1, <2>2, GoDownKeeps
<1>9. CASE Crash
    <2>1. GoDown /\ pc # "down" /\ cur' = cur /\ UNCHANGED <<today, day, yest, added>>
        BY <1>9 DEF Crash
    <2> QED
        BY <1>1, <2>1, GoDownKeeps
<1>10. CASE RolloverCommit
    BY <1>1, <1>10, RolloverCommitKeeps
<1>11. CASE LabelDay
    BY <1>1, <1>11, LabelDayKeeps
<1>12. CASE LabelDayFails
    <2>1. CASE op.kind \in {"datagram", "timeout"}
        BY <1>1, <1>12, <2>1, LabelRefusedKeeps
    <2>2. CASE op.kind \notin {"datagram", "timeout"}
        <3>1. GoDown /\ pc # "down" /\ cur' = cur /\ UNCHANGED <<today, day, yest, added>>
            BY <1>12, <2>2 DEF LabelDayFails
        <3> QED
            BY <1>1, <3>1, GoDownKeeps
    <2> QED
        BY <2>1, <2>2
<1>13. CASE RemoveYesterday
    BY <1>1, <1>13, RemoveYesterdayKeeps
<1>14. CASE RenameToday
    BY <1>1, <1>14, RenameTodayKeeps
<1>15. CASE OpenNewDay
    BY <1>1, <1>15, OpenNewDayKeeps
<1>16. CASE SetupBegins
    BY <1>1, <1>16, SetupBeginsKeeps
<1>17. CASE SetupEnds
    BY <1>1, <1>17, SetupEndsKeeps
<1>18. CASE NextDay
    BY <1>1, <1>18, NextDayKeeps
<1>19. CASE UNCHANGED vars
    <2>1. /\ UNCHANGED <<today, day, cur, view, yest, pc, op>>
          /\ UNCHANGED <<added, lost, late>>
        BY <1>19 DEF vars, histVars
    <2> QED
        BY <2>1 DEF IInv, Rest, Calls, Dates, Fresh, TodaysRows, YesterdaysRows,
           LabelIsYesterday, PublishedRows, Net
<1> QED
    BY <1>2, <1>3, <1>4, <1>5, <1>6, <1>7, <1>8, <1>9, <1>10, <1>11, <1>12, <1>13, <1>14,
       <1>15, <1>16, <1>17, <1>18, <1>19, Actions

\* The inductive invariant.
LEMMA Invariance == Spec => []IInv
<1>1. IInv /\ [Next]_vars => IInv'
    BY IInvStep
<1> QED
    BY <1>1, IInvInit, PTL DEF Spec

\* The open database holds all of today's rows: neither a rollover, however it is cut
\* short, nor a restart carries them away or counts them twice.
THEOREM TodayIsAccounted == Spec => []TodayAccounted
<1>1. IInv => TodayAccounted
    BY DEF IInv, TodaysRows, TodayAccounted, Net
<1> QED
    BY <1>1, Invariance, PTL

\* Whoever opens <name>.yesterday finds, under the label of a day that ended while the
\* daemon was up and on time, the whole of that day; and once the daemon has opened a
\* day, the label is that of the day before.
THEOREM PublishedDayComplete == Spec => []PublishedComplete
<1>1. ASSUME IInv PROVE PublishedComplete
    <2>1. \A d \in Days \ late :
            AvailableDay(yest) = d => DomainDetails(yest, d) = added[d] - lost[d]
        BY <1>1 DEF IInv, PublishedRows, Net, AvailableDay, DomainDetails
    <2>2. today > 0 => today - 1 \in Days
        <3>1. today \in Days
            BY <1>1, Numbers DEF IInv
        <3> QED
            BY <3>1, CollectdAssumption DEF Days
    <2> QED
        BY <1>1, <2>1, <2>2 DEF IInv, LabelIsYesterday, PublishedComplete, AvailableDay
<1> QED
    BY <1>1, Invariance, PTL
=============================================================================

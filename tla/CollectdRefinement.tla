------------------------- MODULE CollectdRefinement -------------------------
(***************************************************************************)
(* Proof that CollectdStorage implements DayBox.  The mapping is in        *)
(* CollectdStorage; this module adds what the invariant of CollectdProofs  *)
(* does not say of the days before the open one, and one lemma per action: *)
(* which step of the day box it is.                                        *)
(***************************************************************************)
EXTENDS CollectdProofs

\* A day passed over is in `late': when more than one midnight has passed since the
\* open day began, or one while the process was down.  A label is the open day's.
Passed ==
    /\ day < today - 1 \/ pc = "down" => \A d \in Days : day <= d /\ d < today => d \in late
    /\ pc \in Labelled /\ op.yesterday \in Days \ late => op.yesterday = day
    /\ pc = "rename" => yest.label = NULL

\* A transaction only adds rows, and none to a day that is over.
Closed ==
    /\ pc \in {"open", "setup"} => cur.schema # "complete"
    /\ pc # "down" => \A d \in Days : cur.rows[d] <= view.rows[d]
    /\ \A d \in Days \ late : d < day => cur.rows[d] = 0 /\ view.rows[d] = 0

\* A datagram is counted for the open day, or for one in `late'.
Dated ==
    op.kind = "datagram" =>
        /\ pc \in Rolling => op.date = today \/ op.date \in late
        /\ pc \in {"setup", "resume"} => op.date = day \/ op.date \in late

\* What the files hold: never more than was added; under a label, only rows of that
\* day or of days in `late'.  The file is put away only after its day is over, and a
\* constructor that labels a file on its first day has no yesterday to speak of.
Shelved ==
    /\ \A d \in Days : added[d] <= MaxPolicies
    /\ \A d \in Days : cur.rows[d] <= added[d] /\ view.rows[d] <= added[d] /\ yest.rows[d] <= added[d]
    /\ yest.schema = "complete" => yest.label \in Labels
    /\ \A d \in Days \ late : yest.rows[d] > 0 => yest.label = d
    /\ yest.label \in Days \ late => yest.label < day \/ (pc = "open" /\ yest.label = day)
    /\ pc \in Labelled /\ op.kind = "init" /\ day = today => today - 1 \notin Days \ late

RInv == IInv /\ Passed /\ Closed /\ Dated /\ Shelved

----------------------------------------------------------------------------
(* The invariant.                                                          *)

More == Passed /\ Closed /\ Dated

\* What the process leaves behind when it ends, in time or with days in `late'.
LEMMA GoDownMore ==
    ASSUME RInv, IInv', GoDown, pc # "down", cur' \in {cur, view}, UNCHANGED <<today, day, yest, added>>
    PROVE  More'
<1>a. /\ pc' = "down" /\ op' = NoOp /\ view' = NoFile
      /\ late \subseteq late'
      /\ \/ day = today
         \/ \A d \in Int : day <= d /\ d < today => d \in late'
    BY Numbers DEF GoDown, RInv, IInv
<1>1. Passed'
    <2>1. \A d \in Days : day' <= d /\ d < today' => d \in late'
        BY <1>a, Numbers DEF RInv, IInv
    <2> QED
        BY <1>a, <2>1 DEF Passed, Labelled
<1>2. Closed'
    BY <1>a, EmptyRows DEF RInv, Closed
<1>3. Dated'
    BY <1>a, NoOpKind DEF Dated
<1> QED
    BY <1>1, <1>2, <1>3 DEF More

\* Rows are added to the day of the datagram, in the transaction and perhaps the file.
LEMMA CountMore ==
    ASSUME RInv, IInv', NEW k \in 0 .. MaxPolicies, Count(k), cur' \in {cur, view'}
    PROVE  More'
<1>0. /\ op.date \in Days
      /\ view'.rows[op.date] = view.rows[op.date] + k
      /\ \A d \in Days \ {op.date} : view'.rows[d] = view.rows[d]
    BY CountEffect DEF RInv, IInv
<1>a. /\ pc = "resume" /\ pc' = "idle" /\ op.kind = "datagram" /\ op' = NoOp
      /\ UNCHANGED <<today, day, yest, lost, late>>
    BY DEF Count
<1>b. k \in Nat
    BY CollectdAssumption
<1>1. Passed'
    BY <1>a DEF RInv, Passed, Labelled
<1>2. Closed'
    <2>1. \A d \in Days : view.rows[d] <= view'.rows[d]
        BY <1>0, <1>b, Numbers DEF RInv, IInv
    <2>2. \A d \in Days : cur'.rows[d] <= view'.rows[d]
        <3> SUFFICES ASSUME NEW d \in Days PROVE cur'.rows[d] <= view'.rows[d]
            OBVIOUS
        <3>1. cur.rows[d] <= view.rows[d] /\ view.rows[d] <= view'.rows[d]
            BY <1>a, <2>1 DEF RInv, Closed
        <3>2. cur.rows[d] \in Nat /\ view.rows[d] \in Nat /\ view'.rows[d] \in Nat
            BY <1>0, <1>b, Numbers DEF RInv, IInv
        <3> QED
            BY <3>1, <3>2
    <2>3. \A d \in Days \ late : d < day => cur'.rows[d] = 0 /\ view'.rows[d] = 0
        <3> SUFFICES ASSUME NEW d \in Days \ late, d < day
                     PROVE  cur'.rows[d] = 0 /\ view'.rows[d] = 0
            OBVIOUS
        <3>1. d # op.date
            BY <1>a, Numbers DEF RInv, IInv, Dated
        <3> QED
            BY <1>0, <3>1 DEF RInv, Closed
    <2> QED
        BY <1>a, <2>2, <2>3 DEF Closed
<1>3. Dated'
    BY <1>a, NoOpKind DEF Dated
<1> QED
    BY <1>1, <1>2, <1>3 DEF More

\* Every step keeps what this module adds.
LEMMA MoreStep == ASSUME RInv, IInv', [Next]_vars PROVE More'
<1> USE DEF RInv
<1>1. CASE Start
    <2>1. \A d \in Days \ late : d < today => ~(day <= d)
        BY <1>1 DEF Start, Passed
    <2>2. \A d \in Days \ late : d < today => cur.rows[d] = 0
        BY <2>1, Numbers DEF IInv, Closed
    <2>3. Closed'
        BY <1>1, <2>2, EmptyRows, Numbers DEF Start, Closed, IInv, Calls, Fresh, histVars
    <2>4. Passed' /\ Dated'
        BY <1>1, Numbers, NoOpKind DEF IInv, Start, Passed, Dated, Labelled, Rolling, NoOp, histVars, Calls
    <2> QED
        BY <2>3, <2>4 DEF More
<1>2. ASSUME NEW kind \in {"datagram", "timeout", "stop"}, Receive(kind) PROVE More'
    BY <1>2, Numbers DEF Receive, More, Passed, Closed, Dated, Labelled, Rolling, histVars
<1>3. ASSUME NEW k \in 0 .. MaxPolicies, NEW overdue \in BOOLEAN, AddDatagram(k, overdue) PROVE More'
    <2>1. Count(k) /\ cur' \in {cur, view'}
        BY <1>3, AddDatagramEffect DEF AddDatagram, IInv
    <2> QED
        BY <2>1, CountMore
<1>4. ASSUME NEW k \in 0 .. MaxPolicies, AddDatagramFails(k) PROVE More'
    <2>1. Count(k) /\ cur' \in {cur, view'}
        BY <1>4 DEF AddDatagramFails
    <2> QED
        BY <2>1, CountMore
<1>5. CASE TimedCommit
    <2>1. cur' \in {cur, view}
        BY <1>5, OneCommit DEF IInv, TimedCommit
    <2> QED
        BY <1>5, <2>1, Numbers, NoOpKind
           DEF IInv, TimedCommit, More, Passed, Closed, Dated, Labelled
<1>6. CASE Shutdown
    <2>1. GoDown /\ pc # "down" /\ cur' \in {cur, view} /\ UNCHANGED <<today, day, yest, added>>
        BY <1>6, ShutdownCommit DEF IInv, Shutdown
    <2> QED
        BY <2>1, GoDownMore
<1>7. CASE Started
    BY <1>7, NoOpKind DEF Started, More, Passed, Closed, Dated, Labelled, histVars
<1>8. CASE RolloverCommit
    <2>1. cur' \in {cur, view}
        BY <1>8, OneCommit DEF IInv, RolloverCommit
    <2>2. op'.yesterday = today - 1 /\ op'.kind = op.kind /\ op'.date = op.date
        BY <1>8 DEF IInv, TypeOK, Call, RolloverCommit, Yesterday
    <2>3. today - 1 \in Days \ late => today - 1 = day
        BY <1>8, Numbers DEF IInv, RolloverCommit, Passed, Calls, Rolling, YesterdaysRows
    <2> QED
        BY <1>8, <2>1, <2>2, <2>3, Numbers
           DEF IInv, RolloverCommit, More, Passed, Closed, Dated, Rolling
<1>9. CASE LabelDay
    BY <1>9, Numbers DEF IInv, LabelDay, More, Passed, Closed, Dated, Labelled, Rolling, histVars
<1>10. CASE LabelDayFails
    <2>1. CASE op.kind \in {"datagram", "timeout"}
        <3>1. view'.rows = view.rows /\ pc' = "idle" /\ op' = NoOp
              /\ UNCHANGED <<today, day, cur, yest, histVars>>
            BY <1>10, <2>1, NoOpKind DEF IInv, TypeOK, File, LabelDayFails
        <3> QED
            BY <1>10, <3>1, NoOpKind DEF LabelDayFails, More, Passed, Closed, Dated, Labelled, histVars
    <2>2. CASE op.kind \notin {"datagram", "timeout"}
        <3>1. GoDown /\ pc # "down" /\ cur' = cur /\ UNCHANGED <<today, day, yest, added>>
            BY <1>10, <2>2 DEF LabelDayFails
        <3> QED
            BY <3>1, GoDownMore
    <2> QED
        BY <2>1, <2>2
<1>11. CASE RemoveYesterday
    BY <1>11, EmptyRows DEF RemoveYesterday, More, Passed, Closed, Dated, Labelled, Rolling, histVars
<1>12. CASE RenameToday
    BY <1>12, EmptyRows, Numbers DEF IInv, RenameToday, More, Passed, Closed, Dated, Labelled, Rolling, histVars
<1>13. CASE OpenNewDay
    <2>1. \A d \in Days : cur.rows[d] = 0 /\ view.rows[d] = 0
        BY <1>13, EmptyRows DEF IInv, Calls, Fresh, OpenNewDay, Closed
    <2> QED
        BY <1>13, <2>1, Numbers DEF IInv, OpenNewDay, More, Passed, Closed, Dated, Labelled, Rolling
<1>14. CASE SetupBegins
    <2>1. cur'.rows = cur.rows /\ cur'.schema = "partial"
        BY <1>14 DEF IInv, TypeOK, File, SetupBegins
    <2> QED
        BY <1>14, <2>1 DEF SetupBegins, More, Passed, Closed, Dated, Labelled, histVars
<1>15. CASE SetupEnds
    <2>1. op'.kind = "datagram" => op' = op
        BY <1>15 DEF IInv, TypeOK, Call, SetupEnds
    <2> QED
        BY <1>15, <2>1, EmptyRows DEF SetupEnds, More, Passed, Closed, Dated, Labelled, Rolling, histVars
<1>16. CASE Crash
    <2>1. GoDown /\ pc # "down" /\ cur' = cur /\ UNCHANGED <<today, day, yest, added>>
        BY <1>16 DEF Crash
    <2> QED
        BY <2>1, GoDownMore
<1>17. CASE NextDay
    <2>1. /\ today' = today + 1
          /\ late \subseteq late'
          /\ \/ pc \in {"idle", "resume", "setup"} /\ day = today
             \/ \A d \in Int : day <= d /\ d < today' => d \in late'
          /\ UNCHANGED <<day, cur, view, yest, pc, op>>
        BY <1>17, Numbers DEF IInv, NextDay
    <2>2. Passed'
        BY <2>1, Numbers DEF IInv, Passed, Labelled, Calls
    <2>3. Closed'
        BY <2>1 DEF Closed
    <2>4. Dated'
        BY <2>1, Numbers DEF IInv, Dated, Calls, Rolling
    <2> QED
        BY <2>2, <2>3, <2>4 DEF More
<1>18. CASE UNCHANGED vars
    BY <1>18 DEF vars, histVars, More, Passed, Closed, Dated
<1> QED
    BY <1>1, <1>2, <1>3, <1>4, <1>5, <1>6, <1>7, <1>8, <1>9, <1>10,
       <1>11, <1>12, <1>13, <1>14, <1>15, <1>16, <1>17, <1>18, Actions

\* What the process leaves behind when it ends is a file and a label that fetchers may read.
LEMMA GoDownShelved ==
    ASSUME RInv, IInv', GoDown, pc # "down", cur' \in {cur, view}, UNCHANGED <<today, day, yest, added>>
    PROVE  Shelved'
<1>1. /\ pc' = "down" /\ view' = NoFile
      /\ late \subseteq late'
      /\ \/ day = today
         \/ \A d \in Int : day <= d /\ d < today => d \in late'
    BY Numbers DEF GoDown, RInv, IInv
<1>2. \A d \in Days : cur'.rows[d] <= added'[d] /\ view'.rows[d] <= added'[d] /\ yest'.rows[d] <= added'[d]
    BY <1>1, EmptyRows, Numbers DEF RInv, IInv, Shelved
<1>3. yest.label \in Days \ late' => yest.label < day
    <2>1. CASE pc = "open" /\ yest.label = day
        BY <1>1, <2>1, Numbers DEF RInv, IInv, Dates
    <2>2. CASE ~(pc = "open" /\ yest.label = day)
        BY <1>1, <2>2 DEF RInv, Shelved
    <2> QED
        BY <2>1, <2>2
<1> QED
    BY <1>1, <1>2, <1>3 DEF RInv, Shelved, Labelled

\* Every step keeps it.
LEMMA ShelvedStep == ASSUME RInv, IInv', [Next]_vars PROVE Shelved'
<1> USE DEF RInv
<1>1. CASE Start
    BY <1>1, Numbers, EmptyRows DEF IInv, Calls, Start, Shelved, Labelled, histVars
<1>2. ASSUME NEW kind \in {"datagram", "timeout", "stop"}, Receive(kind) PROVE Shelved'
    BY <1>2 DEF IInv, Calls, Receive, Shelved, Labelled, histVars
<1>3. ASSUME NEW k \in 0 .. MaxPolicies, Count(k), cur' \in {cur, view'} PROVE Shelved'
    <2>0. /\ op.date \in Days
          /\ view'.rows[op.date] = view.rows[op.date] + k
          /\ \A d \in Days \ {op.date} : view'.rows[d] = view.rows[d]
          /\ added'[op.date] = added[op.date] + k
          /\ \A d \in Days \ {op.date} : added'[d] = added[d]
          /\ \A d \in Days : added'[d] <= MaxPolicies
        BY <1>3, CountEffect DEF IInv, Count, Shelved
    <2>1. k \in Nat
        BY CollectdAssumption
    <2>2. \A d \in Days : added[d] <= added'[d] /\ view'.rows[d] <= added'[d]
        BY <2>0, <2>1, Numbers DEF IInv, Shelved
    <2>3. \A d \in Days : cur'.rows[d] <= added'[d] /\ yest.rows[d] <= added'[d]
        <3> SUFFICES ASSUME NEW d \in Days PROVE cur'.rows[d] <= added'[d] /\ yest.rows[d] <= added'[d]
            OBVIOUS
        <3>1. /\ cur.rows[d] \in Nat /\ yest.rows[d] \in Nat /\ added[d] \in Nat /\ added'[d] \in Nat
              /\ cur.rows[d] <= added[d] /\ yest.rows[d] <= added[d]
            BY <2>0, <2>1, Numbers DEF IInv, TypeOK, File, Shelved
        <3> QED
            BY <1>3, <2>2, <3>1
    <2> QED
        BY <1>3, <2>0, <2>2, <2>3 DEF Count, Shelved, Labelled
<1>4. ASSUME NEW k \in 0 .. MaxPolicies, NEW overdue \in BOOLEAN, AddDatagram(k, overdue) PROVE Shelved'
    <2>1. Count(k) /\ cur' \in {cur, view'}
        BY <1>4, AddDatagramEffect DEF AddDatagram, IInv
    <2> QED
        BY <2>1, <1>3
<1>5. ASSUME NEW k \in 0 .. MaxPolicies, AddDatagramFails(k) PROVE Shelved'
    <2>1. Count(k) /\ cur' \in {cur, view'}
        BY <1>5 DEF AddDatagramFails
    <2> QED
        BY <2>1, <1>3
<1>6. CASE TimedCommit
    <2>1. cur' \in {cur, view}
        BY <1>6, OneCommit DEF IInv, TimedCommit
    <2> QED
        BY <1>6, <2>1 DEF IInv, TimedCommit, Shelved, Labelled
<1>7. CASE Shutdown
    <2>1. GoDown /\ pc # "down" /\ cur' \in {cur, view} /\ UNCHANGED <<today, day, yest, added>>
        BY <1>7, ShutdownCommit DEF IInv, Shutdown
    <2> QED
        BY <2>1, GoDownShelved
<1>8. CASE Started
    BY <1>8 DEF Started, Shelved, Labelled, histVars
<1>9. CASE RolloverCommit
    <2>1. cur' \in {cur, view}
        BY <1>9, OneCommit DEF IInv, RolloverCommit
    <2>2. op'.kind = op.kind
        BY <1>9 DEF IInv, TypeOK, Call, RolloverCommit
    <2> QED
        BY <1>9, <2>1, <2>2 DEF IInv, YesterdaysRows, RolloverCommit, Shelved
<1>10. CASE LabelDay
    <2>1. cur'.rows = view.rows /\ view'.rows = view.rows
        BY <1>10 DEF IInv, TypeOK, File, LabelDay
    <2> QED
        BY <1>10, <2>1 DEF LabelDay, Shelved, Labelled, histVars
<1>11. CASE LabelDayFails
    <2>1. CASE op.kind \in {"datagram", "timeout"}
        <3>1. view'.rows = view.rows /\ pc' = "idle" /\ UNCHANGED <<today, day, cur, yest, histVars>>
            BY <1>11, <2>1 DEF IInv, TypeOK, File, LabelDayFails
        <3> QED
            BY <1>11, <3>1 DEF LabelDayFails, Shelved, Labelled, histVars
    <2>2. CASE op.kind \notin {"datagram", "timeout"}
        <3>1. GoDown /\ pc # "down" /\ cur' = cur /\ UNCHANGED <<today, day, yest, added>>
            BY <1>11, <2>2 DEF LabelDayFails
        <3> QED
            BY <3>1, GoDownShelved
    <2> QED
        BY <2>1, <2>2
<1>12. CASE RemoveYesterday
    <2>1. yest'.label \notin Days /\ yest'.schema = "none" /\ \A d \in Days : yest'.rows[d] = 0
        BY <1>12, EmptyRows, NoOpKind DEF RemoveYesterday, Days, NoFile
    <2> QED
        BY <1>12, <2>1, Numbers DEF RemoveYesterday, IInv, Shelved, Labelled, histVars
<1>13. CASE RenameToday
    <2>1. /\ yest' = cur /\ cur' = NoFile /\ view' = NoFile /\ pc = "rename" /\ pc' = "open"
          /\ cur.label = op.yesterday /\ cur = view
          /\ op.yesterday \in Labels /\ op.yesterday < today
          /\ UNCHANGED <<today, day, op, added, lost, late>>
        BY <1>13 DEF RenameToday, IInv, Calls, Labelled, histVars
    <2>2. ASSUME NEW d \in Days \ late, cur.rows[d] > 0 PROVE cur.label = d
        <3>1. day <= d
            BY <2>2, Numbers DEF IInv, Closed
        <3>2. d < today
            BY <2>1, <2>2, Numbers DEF IInv, Fresh, TodaysRows, Rolling
        <3>3. d = today - 1
            BY <3>1, <3>2, Numbers DEF IInv, Passed
        <3> QED
            BY <2>1, <2>2, <3>3 DEF IInv, LabelIsYesterday, Labelled
    <2>3. cur.label \in Days \ late => cur.label = day
        BY <2>1 DEF Passed, Labelled
    <2>4. \A d \in Days : cur'.rows[d] <= added[d] /\ view'.rows[d] <= added[d]
        BY <2>1, EmptyRows, Numbers DEF IInv
    <2> QED
        BY <2>1, <2>2, <2>3, <2>4 DEF Shelved, Labelled
<1>14. CASE OpenNewDay
    <2>1. pc = "open" /\ pc' = "setup" /\ day' = today /\ UNCHANGED <<today, cur, view, yest, op, added, lost, late>>
        BY <1>14 DEF OpenNewDay
    <2>2. yest.label \in Days => yest.label < today
        BY Numbers DEF IInv, Dates, Days
    <2> QED
        BY <2>1, <2>2 DEF Shelved, Labelled
<1>15. CASE SetupBegins
    <2>1. cur'.rows = cur.rows
        BY <1>15 DEF IInv, TypeOK, File, SetupBegins
    <2> QED
        BY <1>15, <2>1 DEF SetupBegins, Shelved, Labelled, histVars
<1>16. CASE SetupEnds
    <2>1. \A d \in Days : cur'.rows[d] <= added[d] /\ view'.rows[d] <= added[d]
        BY <1>16, EmptyRows, Numbers DEF SetupEnds, IInv
    <2> QED
        BY <1>16, <2>1 DEF SetupEnds, Shelved, Labelled, histVars
<1>17. CASE Crash
    <2>1. GoDown /\ pc # "down" /\ cur' = cur /\ UNCHANGED <<today, day, yest, added>>
        BY <1>17 DEF Crash
    <2> QED
        BY <2>1, GoDownShelved
<1>18. CASE NextDay
    <2>1. /\ today' = today + 1
          /\ late \subseteq late'
          /\ UNCHANGED <<day, cur, view, yest, pc, op, added>>
        BY <1>18 DEF NextDay
    <2>2. day # today'
        BY <2>1, Numbers DEF IInv, Calls
    <2> QED
        BY <2>1, <2>2 DEF Shelved
<1>19. CASE UNCHANGED vars
    BY <1>19 DEF vars, histVars, Shelved
<1> QED
    BY <1>1, <1>2, <1>4, <1>5, <1>6, <1>7, <1>8, <1>9, <1>10,
       <1>11, <1>12, <1>13, <1>14, <1>15, <1>16, <1>17, <1>18, <1>19, Actions

\* The invariant holds before the first start.
LEMMA RInvInit == Init => RInv
<1> SUFFICES ASSUME Init PROVE RInv
    OBVIOUS
<1>1. IInv
    BY IInvInit
<1>2. Passed /\ Dated
    <2>1. day = today /\ pc = "down" /\ op.kind # "datagram"
        BY NoOpKind DEF Init
    <2> QED
        BY <1>1, <2>1, Numbers DEF Passed, Dated, Labelled, IInv
<1>3. Closed
    BY EmptyRows DEF Init, Closed
<1>4. Shelved
    <2>1. yest.label \notin Days /\ yest.schema = "none"
        BY NoOpKind, EmptyRows DEF Init, Days, NoFile
    <2> QED
        BY <1>1, <2>1, EmptyRows, Numbers, CollectdAssumption DEF Init, Shelved, Labelled, IInv
<1> QED
    BY <1>1, <1>2, <1>3, <1>4 DEF RInv

\* The inductive invariant of the refinement.
LEMMA RInvStep == ASSUME RInv, [Next]_vars PROVE RInv'
<1>1. IInv'
    BY IInvStep DEF RInv
<1>2. More'
    BY <1>1, MoreStep
<1>3. Shelved'
    BY <1>1, ShelvedStep
<1> QED
    BY <1>1, <1>2, <1>3 DEF More, RInv

\* The invariant holds.
LEMMA RInvariance == Spec => []RInv
BY RInvInit, RInvStep, PTL DEF Spec

----------------------------------------------------------------------------
(* The steps of the day box.                                               *)

\* The box of each day holds what was added and not taken back.
Boxes == [d \in Days |-> added[d] - lost[d]]

\* A step that changes none of what the mapping reads is not seen.
LEMMA Unseen ==
    ASSUME UNCHANGED <<day, added, lost, late, yest>>
    PROVE  UNCHANGED Box!boxVars
<1>1. UNCHANGED ShownDay
    BY DEF ShownDay, AvailableDay, DomainDetails
<1>2. UNCHANGED Boxes
    BY DEF Boxes
<1> QED
    BY <1>1, <1>2 DEF Box!boxVars, Boxes

\* What the mapping shows: a day that is not in `late', and its rows, or nothing.
LEMMA ShownDayIs ==
    /\ yest.label \in Days \ late => ShownDay = [day |-> yest.label, rows |-> yest.rows[yest.label]]
    /\ yest.label \notin Days \ late => ShownDay = Box!Nothing
    /\ \A d \in Days : ShownDay.day = d <=> yest.label = d /\ d \notin late
BY CollectdAssumption DEF ShownDay, AvailableDay, DomainDetails, Box!Nothing, Days

\* The first state of the storage is that of the day box.
LEMMA InitBox == Init => Box!Init
<1> SUFFICES ASSUME Init PROVE Box!Init
    OBVIOUS
<1>1. yest.label \notin Days
    BY EmptyRows, NoOpKind DEF Init, Days
<1>2. ShownDay = Box!Nothing
    BY <1>1, ShownDayIs
<1>3. [d \in Days |-> added[d] - lost[d]] = [d \in Days |-> 0]
    BY DEF Init
<1> QED
    BY <1>2, <1>3 DEF Init, Box!Init, Box!Days, Days

\* The days from the open one up to today.
LEMMA BetweenDays ==
    ASSUME TypeOK, NEW d \in day .. today - 1
    PROVE  day <= d /\ d < today /\ d \in Days
BY CollectdAssumption DEF TypeOK, Days

\* The constructor opens today; the days since the one it last had open are in `late'.
LEMMA StartBox ==
    ASSUME RInv, Start
    PROVE  Box!Open \/ UNCHANGED Box!boxVars
<1>1. UNCHANGED <<added, lost, late, yest>> /\ day' = today /\ pc = "down"
    BY DEF Start, histVars
<1>2. CASE day = today
    BY <1>1, <1>2, Unseen
<1>3. CASE day # today
    <2>1. day' > day /\ day' \in Days
        BY <1>1, <1>3, Numbers DEF RInv, IInv, Calls
    <2>2. ASSUME NEW d \in day .. day' - 1 PROVE d \in late
        <3>1. day <= d /\ d < today /\ d \in Days
            BY <1>1, BetweenDays DEF RInv, IInv
        <3> QED
            BY <1>1, <3>1 DEF RInv, Passed
    <2>3. UNCHANGED <<Boxes, late, ShownDay>>
        BY <1>1 DEF Boxes, ShownDay, AvailableDay, DomainDetails
    <2> QED
        BY <2>1, <2>2, <2>3 DEF Box!Open, Box!Days, Days, Boxes
<1> QED
    BY <1>2, <1>3

\* A datagram fills the box of its day, which is not shown.
LEMMA CountBox ==
    ASSUME RInv, NEW k \in 0 .. MaxPolicies, Count(k)
    PROVE  \E d \in Days : Box!Fill(d)
<1>0. /\ op.date \in Days
      /\ added'[op.date] = added[op.date] + k
      /\ \A d \in Days \ {op.date} : added'[d] = added[d]
    BY CountEffect DEF RInv, IInv
<1>1. UNCHANGED <<day, lost, late, yest>> /\ pc = "resume" /\ op.kind = "datagram"
    BY DEF Count
<1>2. UNCHANGED ShownDay
    BY <1>1 DEF ShownDay, AvailableDay, DomainDetails
<1>3. op.date \in late \/ (op.date = day /\ ShownDay.day # op.date)
    <2>1. op.date = day \/ op.date \in late
        BY <1>1 DEF RInv, Dated
    <2>2. yest.label = op.date => op.date \in late
        BY <1>0, <1>1, Numbers DEF RInv, IInv, Dates
    <2> QED
        BY <1>0, <2>1, <2>2, ShownDayIs
<1>4. Boxes'[op.date] >= Boxes[op.date]
    BY <1>0, <1>1, Numbers, CollectdAssumption DEF RInv, IInv, Boxes
<1>5. Boxes' = [Boxes EXCEPT ![op.date] = Boxes'[op.date]]
    BY <1>0, <1>1 DEF Boxes
<1> QED
    BY <1>0, <1>1, <1>2, <1>3, <1>4, <1>5 DEF Box!Fill, Box!Shown, Boxes

\* What the end of the process takes back, it takes from the open day or one in `late'.
LEMMA GoDownBox ==
    ASSUME RInv, GoDown, pc # "down", cur' \in {cur, view}, UNCHANGED <<today, day, yest, added>>
    PROVE  Box!Stop
<1>0. TypeOK
    BY DEF RInv, IInv
<1>1. /\ late \subseteq late'
      /\ \A d \in late' \ late : d >= day - 1
      /\ \A d \in Days : lost'[d] = lost[d] + view.rows[d] - cur'.rows[d]
    BY <1>0, Numbers DEF GoDown, RInv, IInv, Calls
<1>2. ASSUME NEW d \in Days
      PROVE  /\ Boxes'[d] <= Boxes[d]
             /\ Boxes'[d] = Boxes[d] \/ d \in late' \/ (d = day /\ ShownDay.day # d)
    <2>1. /\ cur.rows[d] \in Nat /\ view.rows[d] \in Nat /\ added[d] \in Nat /\ lost[d] \in Int
          /\ cur'.rows[d] \in {cur.rows[d], view.rows[d]}
          /\ cur.rows[d] <= view.rows[d]
        BY <1>0, Numbers DEF RInv, Closed
    <2>2. Boxes[d] = added[d] - lost[d] /\ Boxes'[d] = added[d] - lost[d] - (view.rows[d] - cur'.rows[d])
        BY <1>1, <2>1 DEF Boxes
    <2>3. CASE cur'.rows[d] = view.rows[d] \/ d \in late'
        BY <2>1, <2>2, <2>3
    <2>4. CASE cur'.rows[d] # view.rows[d] /\ d \notin late'
        <3>1. d \notin late /\ cur.rows[d] # view.rows[d]
            BY <1>1, <2>1, <2>4
        <3>2. d <= today
            BY <1>0, <3>1, Numbers DEF RInv, IInv, Fresh
        <3>3. ~(d < day)
            BY <3>1 DEF RInv, Closed
        <3>4. ~(day <= d /\ d < today)
            BY <1>0, <2>4, Numbers DEF GoDown
        <3>a. d = today
            BY <1>0, <3>2, <3>3, <3>4, Numbers
        <3>b. pc \in {"idle", "resume"} /\ day = today
            BY <1>0, <3>1, <3>a DEF RInv, IInv, TodaysRows, TypeOK, Rolling
        <3>5. d = day
            BY <3>a, <3>b
        <3>6. yest.label # d
            BY <1>0, <3>1, Numbers DEF RInv, IInv, PublishedRows
        <3> QED
            BY <2>1, <2>2, <3>5, <3>6, ShownDayIs
    <2> QED
        BY <2>3, <2>4
<1>3. ShownDay' = IF ShownDay.day \in late' THEN Box!Nothing ELSE ShownDay
    <2>1. CASE yest.label \in Days \ late
        BY <1>1, <2>1, ShownDayIs DEF ShownDay, AvailableDay, DomainDetails, Box!Nothing
    <2>2. CASE yest.label \notin Days \ late
        BY <1>0, <1>1, <2>2, ShownDayIs, CollectdAssumption
           DEF ShownDay, AvailableDay, DomainDetails, Box!Nothing, TypeOK, Labels, Days
    <2> QED
        BY <2>1, <2>2
<1>4. Boxes' = [d \in Days |-> Boxes'[d]]
    BY DEF Boxes
<1> QED
    BY <1>1, <1>2, <1>3, <1>4 DEF Box!Stop, Box!Spoil, Box!Shown, Box!Days, Days, Boxes

\* Midnight.
LEMMA NextDayBox ==
    ASSUME RInv, NextDay
    PROVE  Box!Midnight
<1>0. TypeOK
    BY DEF RInv, IInv
<1>1. /\ late \subseteq late'
      /\ \A d \in late' \ late : d >= day
      /\ UNCHANGED <<day, yest, added, lost>>
    BY <1>0, Numbers DEF NextDay
<1>2. ShownDay' = IF ShownDay.day \in late' THEN Box!Nothing ELSE ShownDay
    <2>1. CASE yest.label \in Days \ late
        BY <1>1, <2>1, ShownDayIs DEF ShownDay, AvailableDay, DomainDetails, Box!Nothing
    <2>2. CASE yest.label \notin Days \ late
        BY <1>0, <1>1, <2>2, ShownDayIs, CollectdAssumption
           DEF ShownDay, AvailableDay, DomainDetails, Box!Nothing, TypeOK, Labels, Days
    <2> QED
        BY <2>1, <2>2
<1>3. UNCHANGED Boxes
    BY <1>1 DEF Boxes
<1> QED
    BY <1>1, <1>2, <1>3 DEF Box!Midnight, Box!Spoil, Boxes

\* <name>.yesterday goes.
LEMMA RemoveBox ==
    ASSUME RInv, RemoveYesterday
    PROVE  Box!Hide
<1>0. ShownDay.day # day
    <2>1. day \in Days /\ pc = "remove" /\ ~(day < day)
        BY Numbers DEF RInv, IInv, RemoveYesterday
    <2> QED
        BY <2>1, ShownDayIs DEF RInv, Shelved
<1>1. yest'.label \notin Days /\ UNCHANGED <<day, added, lost, late>>
    BY EmptyRows, NoOpKind DEF RemoveYesterday, histVars, Days
<1>2. ShownDay' = Box!Nothing
    BY <1>1 DEF ShownDay, AvailableDay, Box!Nothing
<1>3. UNCHANGED Boxes
    BY <1>1 DEF Boxes
<1> QED
    BY <1>0, <1>1, <1>2, <1>3 DEF Box!Hide, Box!Shown, Boxes

\* The file of the open day becomes <name>.yesterday, with all rows of that day.
LEMMA RenameBox ==
    ASSUME RInv, RenameToday
    PROVE  Box!Show \/ UNCHANGED Box!boxVars
<1>1. UNCHANGED <<day, added, lost, late>> /\ yest' = cur /\ pc = "rename"
    BY DEF RenameToday, histVars
<1>2. UNCHANGED Boxes
    BY <1>1 DEF Boxes
<1>3. ShownDay = Box!Nothing
    BY <1>1, NoOpKind, ShownDayIs DEF RInv, Passed, Days
<1>4. cur = view /\ cur.label = op.yesterday
    BY <1>1 DEF RInv, IInv, Calls
<1>5. CASE op.yesterday \in Days \ late
    <2>1. op.yesterday = day /\ cur.rows[day] = Net(day) /\ day \in Days \ late
        BY <1>1, <1>4, <1>5 DEF RInv, IInv, Passed, YesterdaysRows, Labelled
    <2>2. ShownDay' = [day |-> day, rows |-> Boxes[day]]
        BY <1>1, <1>4, <2>1 DEF ShownDay, AvailableDay, DomainDetails, Boxes, Net
    <2> QED
        BY <1>1, <1>2, <1>3, <2>1, <2>2 DEF Box!Show, Boxes
<1>6. CASE op.yesterday \notin Days \ late
    <2>1. ShownDay' = Box!Nothing
        BY <1>1, <1>4, <1>6 DEF ShownDay, AvailableDay, Box!Nothing
    <2> QED
        BY <1>1, <1>2, <1>3, <2>1 DEF Box!boxVars, Boxes
<1> QED
    BY <1>5, <1>6

\* The new day is opened; the old one is shown, or in `late' with all days between.
LEMMA OpenBox ==
    ASSUME RInv, OpenNewDay
    PROVE  Box!Open \/ UNCHANGED Box!boxVars
<1>0. TypeOK
    BY DEF RInv, IInv
<1>1. UNCHANGED <<added, lost, late, yest>> /\ day' = today /\ pc = "open"
    BY DEF OpenNewDay
<1>2. CASE day = today
    BY <1>1, <1>2, Unseen
<1>3. CASE day # today
    <2>1. day' > day /\ day' \in Days
        BY <1>0, <1>1, <1>3, Numbers DEF RInv, IInv, Calls
    <2>2. ASSUME NEW d \in day .. day' - 1 PROVE d \in late \/ ShownDay.day = d
        <3>1. day <= d /\ d < today /\ d \in Days
            BY <1>0, <1>1, BetweenDays
        <3>2. CASE d \in late
            BY <3>2
        <3>3. CASE d \notin late
            <4>1. ~(day < today - 1)
                BY <3>1, <3>3 DEF RInv, Passed
            <4>2. d = today - 1
                BY <1>0, <3>1, <4>1, Numbers
            <4>3. yest.label = d
                BY <1>1, <3>1, <3>3, <4>2 DEF RInv, IInv, LabelIsYesterday, Labelled, Calls
            <4> QED
                BY <3>1, <3>3, <4>3, ShownDayIs
        <3> QED
            BY <3>2, <3>3
    <2>3. UNCHANGED <<Boxes, late, ShownDay>>
        BY <1>1 DEF Boxes, ShownDay, AvailableDay, DomainDetails
    <2> QED
        BY <2>1, <2>2, <2>3 DEF Box!Open, Box!Shown, Box!Days, Days, Boxes
<1> QED
    BY <1>2, <1>3

\* One step per action of Next.
LEMMA StepBox == ASSUME RInv, [Next]_vars PROVE [Box!Next]_(Box!boxVars)
<1>1. CASE Start
    BY <1>1, StartBox DEF Box!Next
<1>2. ASSUME NEW kind \in {"datagram", "timeout", "stop"}, Receive(kind) PROVE UNCHANGED Box!boxVars
    BY <1>2, Unseen DEF Receive, histVars
<1>3. ASSUME NEW k \in 0 .. MaxPolicies, Count(k) PROVE Box!Next
    BY <1>3, CountBox DEF Box!Next, Box!Days, Days
<1>4. ASSUME NEW k \in 0 .. MaxPolicies, NEW overdue \in BOOLEAN, AddDatagram(k, overdue) PROVE Box!Next
    BY <1>3, <1>4 DEF AddDatagram
<1>5. ASSUME NEW k \in 0 .. MaxPolicies, AddDatagramFails(k) PROVE Box!Next
    BY <1>3, <1>5 DEF AddDatagramFails
<1>6. CASE TimedCommit \/ Started \/ RolloverCommit \/ LabelDay \/ SetupBegins \/ SetupEnds
    BY <1>6, Unseen DEF TimedCommit, Started, RolloverCommit, LabelDay, SetupBegins, SetupEnds, histVars
<1>7. CASE Shutdown
    <2>1. GoDown /\ pc # "down" /\ cur' \in {cur, view} /\ UNCHANGED <<today, day, yest, added>>
        BY <1>7, ShutdownCommit DEF RInv, IInv, Shutdown
    <2> QED
        BY <2>1, GoDownBox DEF Box!Next
<1>8. CASE Crash
    <2>1. GoDown /\ pc # "down" /\ cur' \in {cur, view} /\ UNCHANGED <<today, day, yest, added>>
        BY <1>8 DEF Crash
    <2> QED
        BY <2>1, GoDownBox DEF Box!Next
<1>9. CASE LabelDayFails
    <2>1. CASE op.kind \in {"datagram", "timeout"}
        BY <1>9, <2>1, Unseen DEF LabelDayFails, histVars
    <2>2. CASE op.kind \notin {"datagram", "timeout"}
        <3>1. GoDown /\ pc # "down" /\ cur' \in {cur, view} /\ UNCHANGED <<today, day, yest, added>>
            BY <1>9, <2>2 DEF LabelDayFails
        <3> QED
            BY <3>1, GoDownBox DEF Box!Next
    <2> QED
        BY <2>1, <2>2
<1>10. CASE RemoveYesterday
    BY <1>10, RemoveBox DEF Box!Next
<1>11. CASE RenameToday
    BY <1>11, RenameBox DEF Box!Next
<1>12. CASE OpenNewDay
    BY <1>12, OpenBox DEF Box!Next
<1>13. CASE NextDay
    BY <1>13, NextDayBox DEF Box!Next
<1>14. CASE UNCHANGED vars
    BY <1>14, Unseen DEF vars, histVars
<1> QED
    BY <1>1, <1>2, <1>4, <1>5, <1>6, <1>7, <1>8, <1>9, <1>10, <1>11, <1>12, <1>13, <1>14, Actions

\* A day is settled when the daemon has moved on from it or fetchers find it.
Settled(d) == d < day \/ yest.label = d

\* No day comes out of `late' again.
LEMMA LateGrows == ASSUME RInv, [Next]_vars PROVE late \subseteq late'
BY StepBox DEF Box!Next, Box!boxVars, Box!Fill, Box!Midnight, Box!Stop, Box!Spoil, Box!Hide, Box!Show, Box!Open

\* A settled day that nothing spoils stays settled, and its rows stay as they are: a
\* step of the day box does not touch it.
LEMMA SettledStep ==
    ASSUME RInv, [Next]_vars, NEW d \in Days, d \notin late', Settled(d)
    PROVE  /\ Settled(d)' /\ d \notin late
           /\ added'[d] - lost'[d] = added[d] - lost[d]
<1>1. late \subseteq late' /\ day' \in Int /\ day \in Int /\ d \in Int /\ today \in Int
    <2>1. TypeOK /\ TypeOK'
        BY IInvStep DEF RInv, IInv
    <2> QED
        BY <2>1, LateGrows, Numbers, CollectdAssumption DEF TypeOK, Days
<1>2. [Box!Next]_(Box!boxVars)
    BY StepBox
<1>3. ShownDay.day = d <=> yest.label = d
    BY <1>1, ShownDayIs
<1>4. ShownDay'.day = d => yest'.label = d
    BY CollectdAssumption DEF ShownDay, AvailableDay, Days
<1>5. d < day \/ ShownDay.day = d
    BY <1>3 DEF Settled
<1>6. yest.label = d => d <= day
    BY <1>1 DEF RInv, Shelved
<1>7. Boxes[d] = added[d] - lost[d] /\ Boxes'[d] = added'[d] - lost'[d]
    BY DEF Boxes
<1>8. (d < day' \/ ShownDay'.day = d) /\ Boxes'[d] = Boxes[d]
    <2>1. CASE UNCHANGED Box!boxVars
        BY <1>5, <2>1 DEF Box!boxVars, Boxes
    <2>2. ASSUME NEW e \in Box!Days, Box!Fill(e) PROVE d # e /\ UNCHANGED <<day, ShownDay>> /\ Boxes' = [Boxes EXCEPT ![e] = Boxes'[e]]
        BY <1>1, <1>5, <2>2 DEF Box!Fill, Box!Shown, Boxes
    <2>3. CASE \E e \in Box!Days : Box!Fill(e)
        BY <1>5, <2>2, <2>3 DEF Boxes
    <2>4. CASE Box!Midnight
        BY <1>5, <2>4 DEF Box!Midnight, Box!Spoil, Boxes
    <2>5. CASE Box!Stop
        <3>1. day' = day /\ (d < day' \/ ShownDay'.day = d)
            BY <1>5, <2>5 DEF Box!Stop, Box!Spoil
        <3>2. Boxes'[d] = Boxes[d] \/ d \in late' \/ (d = day /\ ShownDay.day # d)
            BY <2>5 DEF Box!Stop, Box!Shown, Box!Days, Days, Boxes
        <3> QED
            BY <1>1, <1>5, <3>1, <3>2
    <2>6. CASE Box!Hide
        BY <1>1, <1>5, <1>6, <1>3, <2>6 DEF Box!Hide, Box!Shown, Boxes
    <2>7. CASE Box!Show
        BY <1>1, <1>5, NoOpKind, <2>7 DEF Box!Show, Box!Nothing, Boxes
    <2>8. CASE Box!Open
        BY <1>1, <1>5, <2>8 DEF Box!Open, Boxes
    <2> QED
        BY <1>2, <2>1, <2>3, <2>4, <2>5, <2>6, <2>7, <2>8 DEF Box!Next
<1> QED
    BY <1>1, <1>4, <1>7, <1>8 DEF Settled

\* The clock stands, or a midnight passes.
LEMMA ClockStep == ASSUME [Next]_vars PROVE today' \in {today, today + 1}
BY Actions DEF Start, Receive, AddDatagram, AddDatagramFails, Count, TimedCommit, Shutdown, Started,
    RolloverCommit, LabelDay, LabelDayFails, RemoveYesterday, RenameToday, OpenNewDay, SetupBegins,
    SetupEnds, Crash, NextDay, vars

\* What was added stays added.
LEMMA AddedGrows == ASSUME RInv, [Next]_vars, NEW d \in Days PROVE added[d] <= added'[d]
<1>1. ASSUME NEW k \in 0 .. MaxPolicies, Count(k) PROVE added[d] <= added'[d]
    BY <1>1, CountEffect, Numbers, CollectdAssumption DEF RInv, IInv
<1>2. \/ \E k \in 0 .. MaxPolicies : Count(k)
      \/ added' = added
    BY Actions DEF Start, Receive, AddDatagram, AddDatagramFails, TimedCommit, Shutdown, Started,
        RolloverCommit, LabelDay, LabelDayFails, RemoveYesterday, RenameToday, OpenNewDay, SetupBegins,
        SetupEnds, Crash, NextDay, vars, histVars
<1> QED
    BY <1>1, <1>2, Numbers DEF RInv, IInv

\* What a fetcher finds of a day that is not in `late' is all of a settled day.
LEMMA FoundIsSettled ==
    ASSUME RInv, NEW d \in Days \ late, yest.rows[d] > 0 \/ yest.label = d
    PROVE  Settled(d) /\ yest.rows[d] = Net(d)
BY DEF RInv, IInv, PublishedRows, Shelved, Settled

\* A fetcher that finds a settled yesterday finds it under its label.
LEMMA YesterdayIsFound ==
    ASSUME RInv, today - 1 \in Days \ late, Settled(today - 1)
    PROVE  yest.label = today - 1
<1>1. CASE today - 1 < day
    <2>1. day = today
        BY <1>1, Numbers DEF RInv, IInv, Calls
    <2>2. CASE pc \in Rolling
        BY <2>1, <2>2 DEF RInv, IInv, Calls, YesterdaysRows, Shelved, Rolling, Labelled
    <2>3. CASE pc \notin Rolling
        BY <2>1, <2>3 DEF RInv, IInv, TypeOK, YesterdaysRows, LabelIsYesterday, Rolling
    <2> QED
        BY <2>2, <2>3
<1> QED
    BY <1>1 DEF Settled

\* Once the daemon has moved on from a day, or has published it, the rows of the day do not
\* change any more, whatever comes: a fetcher that is still reading, reads the truth.
THEOREM SettledDaysStay ==
    Spec => [][\A d \in Days \ late' : Settled(d) =>
                  Settled(d)' /\ added'[d] - lost'[d] = added[d] - lost[d]]_vars
<1>1. RInv /\ [Next]_vars =>
        [\A d \in Days \ late' : Settled(d) =>
            Settled(d)' /\ added'[d] - lost'[d] = added[d] - lost[d]]_vars
    BY SettledStep
<1> QED
    BY <1>1, RInvariance, PTL DEF Spec

\* The storage keeps the promise of the day box for any options, days and number of
\* crashes: rows go to the open day, what is shown is the whole of a day and stays as it
\* is, and a day is passed over only when a stop or a midnight has spoiled it.
THEOREM StorageImplementsDayBox == Spec => ImplementsDayBox
<1>1. RInv /\ [Next]_vars => [Box!Next]_(Box!boxVars)
    BY StepBox
<1> QED
    BY <1>1, InitBox, RInvariance, PTL DEF Spec, ImplementsDayBox, Box!Spec
=============================================================================

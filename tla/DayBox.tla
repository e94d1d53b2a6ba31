------------------------------- MODULE DayBox -------------------------------
(***************************************************************************)
(* What a storage of tlsrpt-collectd promises, without files, transactions *)
(* or the steps of a rollover.  There is a box of rows for each day.  One  *)
(* day is open and its box is filled; when the next is opened, the day     *)
(* before is shown to the fetchers, and what is shown does not change.     *)
(*                                                                         *)
(* The process may stop: then the open box loses rows.  A day may be       *)
(* spoiled, by a stop or by a midnight that the storage did not keep up    *)
(* with: nothing is promised about its rows or its being shown any more.   *)
(***************************************************************************)
EXTENDS Integers

CONSTANTS FirstDay, MaxDay, NULL

VARIABLES
    open,       \* the day that is open
    rows,       \* what the boxes hold
    spoiled,    \* the days without a promise
    shown       \* the day the fetchers find, and its rows

boxVars == <<open, rows, spoiled, shown>>

Days == 0 .. MaxDay
Nothing == [day |-> NULL, rows |-> 0]
Shown(d) == shown.day = d

Init ==
    /\ open = FirstDay
    /\ rows = [d \in Days |-> 0]
    /\ spoiled = -1 .. FirstDay - 1
    /\ shown = Nothing

\* Rows are added to the open day, unless it is shown already, or to a spoiled one.
Fill(d) ==
    /\ d \in spoiled \/ (d = open /\ ~Shown(d))
    /\ rows'[d] >= rows[d]
    /\ rows' = [rows EXCEPT ![d] = rows'[d]]
    /\ UNCHANGED <<open, spoiled, shown>>

\* A spoiled day is not shown any more.
Spoil(from) ==
    /\ spoiled \subseteq spoiled'
    /\ \A d \in spoiled' \ spoiled : d >= from
    /\ shown' = IF shown.day \in spoiled' THEN Nothing ELSE shown
    /\ open' = open

\* A midnight that finds the storage behind.
Midnight == Spoil(open) /\ rows' = rows

\* The end of the process: the open day loses rows, and the day before may be spoiled.
Stop ==
    /\ Spoil(open - 1)
    /\ rows' = [d \in Days |-> rows'[d]]
    /\ \A d \in Days :
          /\ rows'[d] <= rows[d]
          /\ rows'[d] = rows[d] \/ d \in spoiled' \/ (d = open /\ ~Shown(d))

\* The day before is put away to make room for the open one, which is not shown yet.
Hide ==
    /\ ~Shown(open)
    /\ shown' = Nothing
    /\ UNCHANGED <<open, rows, spoiled>>

\* All of the open day is shown.
Show ==
    /\ shown = Nothing
    /\ open \notin spoiled
    /\ shown' = [day |-> open, rows |-> rows[open]]
    /\ UNCHANGED <<open, rows, spoiled>>

\* No day is left behind that is neither shown nor spoiled.
Open ==
    /\ open' \in Days
    /\ open' > open
    /\ \A d \in open .. open' - 1 : d \in spoiled \/ Shown(d)
    /\ UNCHANGED <<rows, spoiled, shown>>

Next == (\E d \in Days : Fill(d)) \/ Midnight \/ Stop \/ Hide \/ Show \/ Open

Spec == Init /\ [][Next]_boxVars
=============================================================================

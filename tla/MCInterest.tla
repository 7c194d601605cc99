---------------------------- MODULE MCInterest ----------------------------
(***************************************************************************)
(* Entries around New Years and a leap day, at midnight and at noon, each  *)
(* followed for two and a half years.                                      *)
(***************************************************************************)
EXTENDS InterestReference

Noon == 43200

MCEntryTimes ==
    {timestampFromDate(y, 12, 30) + h : y \in {2018, 2023}, h \in {0, Noon}}
        \cup {timestampFromDate(2020, 1, 1), timestampFromDate(2020, 2, 28) + Noon}

\* The quarterly loop would run again only if a count of days, taken for a
\* time in seconds, had a next quarter on a day that early: it never has.
ASSUME QuarterlyLoopRunsOnce ==
    \A t \in MCEntryTimes :
        NextQuarter(Days(t)) > Days(timestampFromDate(2037, 12, 31))

=============================================================================

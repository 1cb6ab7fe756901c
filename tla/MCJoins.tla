------------------------------- MODULE MCJoins -------------------------------
(***************************************************************************)
(* Joins with a data set of 10 GB, and the days where it could be wrong.   *)
(***************************************************************************)
EXTENDS Joins

\* A data set of 10 GB.
MCRowsOf ==
  [call_center |-> 24, catalog_page |-> 12000, item |-> 102000, store |-> 102, web_page |-> 200,
   web_site |-> 42, concurrent_web_sites |-> 3]
MCNumberOf == [call_center |-> 0, item |-> 11, store |-> 15, web_page |-> 20, web_site |-> 23]

\* Ids of one, two and three revisions, and the last ones.
MCIdsOf ==
  [call_center |-> {1, 2, 12}, item |-> {2, 50997, 51000}, store |-> {1, 2, 51}, web_page |-> {2, 101},
   web_site |-> {2, 3, 5, 21}]

\* Where a catalog, a revision, a year or the data begins or ends, as the
\* joins see it.
MCWalkedDays ==
  {DATA_START_DATE, DATE_MAXIMUM, 2451544, 2451545, 2451546, 2451909, 2451910, 2451911, 2452274, 2452276}
    \union {DATA_START_DATE + 1 + 365 * y + d : y \in {0, 2, 4}, d \in {0, 30, 31, 90, 91, 183, 184, 363, 364}}
MCSaleEntries == {1, 59, 60, 61, 181, 182, 183, 365, 366}

=============================================================================

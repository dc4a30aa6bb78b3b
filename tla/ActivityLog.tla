-------------------------------- MODULE ActivityLog --------------------------------
(***************************************************************************)
(* The activity log and its retention (database.js): the number of rows is   *)
(* counted once at the start and then kept in memory; when it exceeds the    *)
(* maximum, the oldest rows go, some more than necessary, so that this does   *)
(* not happen at every entry.                                                *)
(***************************************************************************)
EXTENDS Integers, Sequences

CONSTANTS
  Maximum,    \* the values maxActivityLogEntries takes from one start to the next
  MaxEntries  \* bound on the number of entries ever written

ASSUME LogAssumption == Maximum \subseteq Nat \ {0} /\ MaxEntries \in Nat

VARIABLES
  rows,      \* identifiers of the rows, in the order they were written
  written,   \* AUTOINCREMENT: how many were ever written
  maxRows,   \* maxEntries of the running process
  rowCount,  \* its count
  untrimmed  \* history: the DELETE after the last entry failed

logVars == <<rows, written, maxRows, rowCount, untrimmed>>

-----------------------------------------------------------------------------
LogTypeOK ==
  /\ rows \in Seq(1..MaxEntries)
  /\ written \in 0..MaxEntries
  /\ maxRows \in Maximum
  /\ rowCount \in Nat
  /\ untrimmed \in BOOLEAN

\* LIMIT of deleteOldestActivityLogs; a count of zero or less deletes nothing.
Newest(s, drop) == SubSeq(s, (IF drop < 0 THEN 0 ELSE drop) + 1, Len(s))

\* Math.max(1, Math.min(1000, Math.floor(safeMaximum / 10)))
TrimBatch(m) ==
  LET tenth == m \div 10
      capped == IF tenth > 1000 THEN 1000 ELSE tenth
  IN  IF capped > 1 THEN capped ELSE 1

TrimTo(m) == m - TrimBatch(m)

\* configureActivityLogRetention, when the database is opened.
Configure(m) ==
  /\ maxRows' = m
  /\ rows' = Newest(rows, Len(rows) - m)
  /\ rowCount' = Len(rows')
  /\ untrimmed' = FALSE
  /\ UNCHANGED written

LogInit ==
  /\ rows = <<>> /\ written = 0 /\ rowCount = 0 /\ untrimmed = FALSE
  /\ maxRows \in Maximum

\* Deviation: counting starts anew.
CountAnew(n) == 0

\* state.rowCount after a DELETE: counted again.
Recount(n) == n

\* logActivity and enforceActivityLogRetention.
Log ==
  /\ written < MaxEntries
  /\ written' = written + 1
  /\ LET all == Append(rows, written + 1)
         count == rowCount + 1
     IN  IF count <= maxRows
         THEN rows' = all /\ rowCount' = count
         ELSE rows' = Newest(all, count - TrimTo(maxRows)) /\ rowCount' = Recount(Len(rows'))
  /\ untrimmed' = FALSE
  /\ UNCHANGED maxRows

\* The DELETE fails: the entry is written and counted.
LogUntrimmed ==
  /\ written < MaxEntries /\ rowCount + 1 > maxRows
  /\ written' = written + 1
  /\ rows' = Append(rows, written + 1)
  /\ rowCount' = rowCount + 1
  /\ untrimmed' = TRUE
  /\ UNCHANGED maxRows

\* The process starts again, perhaps with another maximum.
RestartLog == \E m \in Maximum : Configure(m)

LogNext == Log \/ LogUntrimmed \/ RestartLog

LogSpec == LogInit /\ [][LogNext]_logVars

-----------------------------------------------------------------------------
(* Properties *)

\* After every entry whose clean-up worked there are at most as many rows as configured,
\* although rows are counted in memory and the maximum may shrink between two starts.
\* The rows that are left are the newest ones, without a gap (database.js:17-53).
LogKeepsNewest ==
  /\ ~untrimmed => Len(rows) <= maxRows
  /\ \A i \in 1..Len(rows) : rows[i] = written - Len(rows) + i
=============================================================================

------------------------------- MODULE LogScan -------------------------------
(***************************************************************************)
(* The paged scan of an upstream's spend log                               *)
(* (LiteLLMClient.sync_rows_from_logs).                                    *)
(*                                                                         *)
(* The log is read in pages of PageSize rows, oldest first, while it       *)
(* grows: a request that took long is written late, in front of rows that  *)
(* were there before it.  The first page says how many pages there are, or *)
(* only whether there are more, or neither, as deployments differ.  The    *)
(* other pages are read in batches, in any order within a batch unless the *)
(* scan is limited to one key, whose pages are read in turn.               *)
(*                                                                         *)
(* Rows are numbered as they are written.  What a row is aggregated into   *)
(* is left out: a row stands for its request id.                           *)
(***************************************************************************)
EXTENDS Naturals, Sequences, SequencesExt

CONSTANTS
  PageSize,
  MaxPages,    \* USAGE_SYNC_LOG_MAX_PAGES
  BatchPages,  \* pages read at once
  OldRows,     \* bound: rows in the log when the scan starts
  LateRows     \* bound: rows written during the scan

ASSUME ScanAssumption ==
  /\ PageSize \in Nat \ {0} /\ MaxPages \in Nat \ {0} /\ BatchPages \in Nat \ {0}
  /\ OldRows \in Nat /\ LateRows \in Nat

VARIABLES
  spendLog,  \* the upstream's rows, by start time
  scan       \* what the scan knows and what it has left to read

scanVars == <<spendLog, scan>>

LogRows == 1..(OldRows + LateRows)
Reports == {"total", "hasMore", "nothing"}

PagesOf(log) == (Len(log) + PageSize - 1) \div PageSize

RowsOfPage(log, p) ==
  {log[n] : n \in {m \in 1..Len(log) : (m - 1) \div PageSize = p - 1}}

ScanInit ==
  /\ \E n \in 0..OldRows : spendLog = [m \in 1..n |-> m]
  /\ \E reports \in Reports, keyed, partial \in BOOLEAN :
       scan = [pc |-> "first", reports |-> reports, keyed |-> keyed, partial |-> partial,
               total |-> 0, more |-> FALSE, last |-> 1, next |-> 2, batch |-> {},
               ended |-> FALSE, pageFailed |-> FALSE, old |-> 0,
               tally |-> [r \in LogRows |-> 0]]

\* A row is written at the place of its start time.
LogLateRow ==
  /\ scan.pc = "pages" /\ Len(spendLog) < scan.old + LateRows
  /\ \E place \in 1..Len(spendLog) + 1 :
        spendLog' = InsertAt(spendLog, place, Len(spendLog) + 1)
  /\ UNCHANGED scan

-----------------------------------------------------------------------------
(* Reading *)

\* Rows are told apart by their request id and counted once.
Absorb(tally, rows) ==
  [r \in LogRows |-> IF r \in rows /\ tally[r] = 0 THEN 1 ELSE tally[r]]

TotalPages == IF scan.reports = "total" THEN PagesOf(spendLog) ELSE 0
HasMore(p) == scan.reports = "hasMore" /\ PagesOf(spendLog) > p

PagesToFetch ==
  CASE TotalPages > MaxPages -> MaxPages
    [] TotalPages \in 1..MaxPages -> TotalPages
    [] TotalPages = 0 /\ (spendLog # <<>> \/ HasMore(1)) -> MaxPages
    [] OTHER -> 1

BatchFrom(p, last) == {q \in p..last : q < p + BatchPages}

\* The first page is read alone; it fixes the number of pages.
ReadFirstPage ==
  /\ scan.pc = "first"
  /\ scan' = [scan EXCEPT
       !.pc = IF PagesToFetch > 1 THEN "pages" ELSE "done",
       !.total = TotalPages, !.more = HasMore(1), !.last = PagesToFetch,
       !.batch = BatchFrom(2, PagesToFetch), !.next = 2 + BatchPages,
       !.old = Len(spendLog), !.tally = Absorb(@, RowsOfPage(spendLog, 1))]
  /\ UNCHANGED spendLog

\* Mutant: the pages of one key are read in any order too.
MayReadAnyPage(p) == p \in scan.batch

MayRead(p) == p \in scan.batch /\ (scan.keyed => \A q \in scan.batch : p <= q)

\* Page p has answered with rows.  A page that is empty, or does not say that
\* there are more, ends the scan after its batch when the total is unknown.
Loaded(p, rows, more) ==
  LET left == scan.batch \ {p}
      ended == scan.ended \/ (scan.total = 0 /\ (rows = {} \/ ~more))
      over == left = {} /\ (ended \/ scan.next > scan.last)
  IN  [scan EXCEPT
        !.pc = IF over THEN "done" ELSE "pages",
        !.batch = IF left = {} /\ ~over THEN BatchFrom(scan.next, scan.last) ELSE left,
        !.next = IF left = {} /\ ~over THEN @ + BatchPages ELSE @,
        !.ended = ended, !.tally = Absorb(@, rows)]

ReadPage(p) ==
  /\ scan.pc = "pages" /\ MayRead(p)
  /\ scan' = Loaded(p, RowsOfPage(spendLog, p), HasMore(p))
  /\ UNCHANGED spendLog

\* All retries of a page fail: a scan that allows it goes on without the page.
PageFails(p) ==
  /\ scan.pc = "pages" /\ MayRead(p) /\ scan.partial
  /\ scan' = [Loaded(p, {}, FALSE) EXCEPT !.pageFailed = TRUE]
  /\ UNCHANGED spendLog

\* Any other scan raises, and its caller uses none of its rows.
ScanRaises ==
  /\ scan.pc = "first" \/ (scan.pc = "pages" /\ ~scan.partial)
  /\ scan' = [scan EXCEPT !.pc = "failed", !.batch = {}]
  /\ UNCHANGED spendLog

NotTruncated == scan.total <= MaxPages

\* The verdict the scan returns with its rows.
ReportedComplete ==
  NotTruncated /\ ~scan.pageFailed /\ (scan.total # 0 \/ ~scan.more)

-----------------------------------------------------------------------------
ScanNext ==
  \/ LogLateRow \/ ReadFirstPage \/ ScanRaises
  \/ \E p \in 2..MaxPages : ReadPage(p) \/ PageFails(p)

ScanSpec == ScanInit /\ [][ScanNext]_scanVars

-----------------------------------------------------------------------------
(* Properties *)

Missed == {r \in 1..scan.old : scan.tally[r] = 0}

\* A page boundary that moves during the scan shows rows twice; none is
\* billed twice.
CountedOnce == \A r \in LogRows : scan.tally[r] <= 1

\* When the log stands still, a scan reported complete has counted every row,
\* wherever the upstream says anything about its pages.
CompleteMeansAll ==
  scan.pc = "done" /\ ReportedComplete /\ scan.reports # "nothing" /\ Len(spendLog) = scan.old =>
    Missed = {}

\* When the log grows, a scan of one key loses at most one old row for every
\* row that was squeezed in: its pages are read in turn, so that only the end
\* of the log can be pushed out of reach.
KeyedLossIsBounded ==
  scan.pc = "done" /\ scan.keyed /\ scan.total # 0 /\ ReportedComplete =>
    Cardinality(Missed) <= Len(spendLog) - scan.old

\* What a scan returns may be billed: nothing twice, nothing missing from a
\* complete one, and no more missing from a key's than came in meanwhile.
ScanIsAccurate == CountedOnce /\ CompleteMeansAll /\ KeyedLossIsBounded
=============================================================================

------------------------------- MODULE LogTail ------------------------------
(***************************************************************************)
(* engined's LogTailService for one daemon's log file, and the page of the *)
(* console that reads the table.  A file is a sequence of lines; a line    *)
(* either opens an entry (it has a header) or continues the entry before   *)
(* it.  Offsets count lines instead of bytes, and a line that is still     *)
(* being written is not there yet: the code reads up to the last newline.  *)
(***************************************************************************)
EXTENDS Naturals, Sequences, FiniteSets

CONSTANTS
  MaxReadLines,  \* kMaxReadBytes
  MaxEntryLines, \* lines of the longest entry
  PageRows,      \* the page size of a reader
  MaxEntries,    \* bound: entries the daemon writes
  MaxRotations,  \* bound: rotations of the file
  MaxLogFaults   \* bound: passes the database fails

ASSUME LogTailAssumption ==
  /\ {MaxReadLines, MaxEntryLines, PageRows} \subseteq Nat \ {0}
  /\ {MaxEntries, MaxRotations, MaxLogFaults} \subseteq Nat

VARIABLES
  logFile,     \* the lines: [entry, head]
  logInode,    \* the file's inode
  written,     \* lines of every entry so far, in order
  logOffset,   \* the row of system_log_offset: inode, offset; inode 0 before first sight
  logMark,     \* where tailing began in the current file
  logRows,     \* system_log by oid: [entry, lines]
  logOid,      \* its sequence
  logFaults,   \* passes in which a statement failed
  pager        \* a console reading: the oids of its pages, the cursor (0: none yet), the first oid

logVars == <<logFile, logInode, written, logOffset, logMark, logRows, logOid, logFaults, pager>>

NoPager == [pages |-> <<>>, cursor |-> 0, top |-> 0]

LogInit ==
  /\ logFile = <<>> /\ logInode = 1 /\ written = <<>>
  /\ logOffset = [inode |-> 0, offset |-> 0] /\ logMark = 0
  /\ logRows = <<>> /\ logOid = 1 /\ logFaults = 0 /\ pager = NoPager

(***************************************************************************)
(* The daemon and the rotation of its file.                                *)
(***************************************************************************)
WriteEntry ==
  /\ Len(written) < MaxEntries
  /\ written' = Append(written, 1)
  /\ logFile' = Append(logFile, [entry |-> Len(written) + 1, head |-> TRUE])
  /\ UNCHANGED <<logInode, logOffset, logMark, logRows, logOid, logFaults, pager>>

\* The writer flushes line by line, so a pass may come between two lines of an entry.
ContinueEntry ==
  /\ logFile # <<>> /\ written[Len(written)] < MaxEntryLines
  /\ written' = [written EXCEPT ![Len(written)] = @ + 1]
  /\ logFile' = Append(logFile, [entry |-> Len(written), head |-> FALSE])
  /\ UNCHANGED <<logInode, logOffset, logMark, logRows, logOid, logFaults, pager>>

Rotate ==
  /\ logInode <= MaxRotations
  /\ logInode' = logInode + 1 /\ logFile' = <<>> /\ logMark' = 0
  /\ UNCHANGED <<written, logOffset, logRows, logOid, logFaults, pager>>

Lowest(S) == CHOOSE x \in S : \A y \in S : x <= y
Highest(S) == CHOOSE x \in S : \A y \in S : y <= x

(***************************************************************************)
(* tailDaemon.                                                             *)
(***************************************************************************)
\* Where this pass starts: at the head of a file that is new or shorter than the mark.
StartOffset ==
  IF logInode # logOffset.inode \/ Len(logFile) < logOffset.offset THEN 0 ELSE logOffset.offset

\* What one pass reads, and the positions in it that open an entry.
ReadLines(from) ==
  SubSeq(logFile, from + 1,
         IF Len(logFile) <= from + MaxReadLines THEN Len(logFile) ELSE from + MaxReadLines)
Heads(lines) == {i \in 1..Len(lines) : lines[i].head}

\* The entry opened at i, with the lines up to the next header.
FoldedAt(lines, i) ==
  LET next == {j \in Heads(lines) : j > i}
  IN  [entry |-> lines[i].entry, lines |-> (IF next = {} THEN Len(lines) + 1 ELSE Lowest(next)) - i]

\* Fault: the last entry is taken for complete.
ClosedHeadsAll(lines) == Heads(lines)

\* Every entry but the last was closed by the header after it.
ClosedHeads(lines) == IF Heads(lines) = {} THEN {} ELSE Heads(lines) \ {Highest(Heads(lines))}

\* The last entry is left for the next pass; lines without any header are consumed.
NewOffset(from, lines) ==
  IF Heads(lines) = {} THEN from + Len(lines) ELSE from + Highest(Heads(lines)) - 1

\* The rows of the entries opened at heads, in their order.
OidOf(heads, h) == logOid + Cardinality({k \in heads : k < h})

Inserted(lines, heads) ==
  [o \in DOMAIN logRows \cup {OidOf(heads, h) : h \in heads} |->
     IF o \in DOMAIN logRows THEN logRows[o]
     ELSE FoldedAt(lines, CHOOSE h \in heads : OidOf(heads, h) = o)]

\* The end of the file becomes the checkpoint.
StartAtEnd ==
  /\ logOffset' = [inode |-> logInode, offset |-> Len(logFile)]
  /\ UNCHANGED <<logFile, logInode, written, logRows, logOid, pager>>

\* The first sight of a daemon starts at the end of its file.
FirstSight ==
  /\ logOffset.inode = 0
  /\ logMark' = Len(logFile)
  /\ StartAtEnd
  /\ UNCHANGED logFaults

\* A read of the checkpoint that fails returns no row, and passes for a first sight.
CheckpointUnread ==
  /\ logOffset.inode # 0 /\ logFaults < MaxLogFaults
  /\ logFaults' = logFaults + 1
  /\ StartAtEnd
  /\ UNCHANGED logMark

\* Nothing to read: a new and empty file is remembered.
SeeEmpty ==
  /\ logOffset.inode # 0 /\ StartOffset >= Len(logFile)
  /\ logInode # logOffset.inode
  /\ logOffset' = [logOffset EXCEPT !.inode = logInode]
  /\ UNCHANGED <<logFile, logInode, written, logMark, logRows, logOid, logFaults, pager>>

\* Fault: a pass waits until it can fill its buffer.
HasWorkFull(lines) == Len(lines) = MaxReadLines /\ NewOffset(StartOffset, lines) # StartOffset

HasWork(lines) == StartOffset < Len(logFile) /\ NewOffset(StartOffset, lines) # StartOffset

\* flushBatch: rows and checkpoint in one transaction.
flushBatch ==
  LET lines == ReadLines(StartOffset)
  IN  /\ logOffset.inode # 0 /\ HasWork(lines)
      /\ logRows' = Inserted(lines, ClosedHeads(lines))
      /\ logOid' = logOid + Cardinality(ClosedHeads(lines))
      /\ logOffset' = [inode |-> logInode, offset |-> NewOffset(StartOffset, lines)]
      /\ UNCHANGED <<logFile, logInode, written, logMark, logFaults, pager>>

\* A statement fails, or engined dies before COMMIT: the transaction is rolled back,
\* but for the oids it was given.
flushFails ==
  LET lines == ReadLines(StartOffset)
  IN  /\ logOffset.inode # 0 /\ HasWork(lines) /\ logFaults < MaxLogFaults
      /\ logFaults' = logFaults + 1
      /\ logOid' \in {logOid, logOid + Cardinality(ClosedHeads(lines))}
      /\ UNCHANGED <<logFile, logInode, written, logOffset, logMark, logRows, pager>>

\* prune: rows past retention go, oldest first.
pruneLog ==
  /\ \E n \in DOMAIN logRows : logRows' = [o \in {k \in DOMAIN logRows : k > n} |-> logRows[o]]
  /\ UNCHANGED <<logFile, logInode, written, logOffset, logMark, logOid, logFaults, pager>>

(***************************************************************************)
(* LogsController::list: newest first, below the cursor.                   *)
(***************************************************************************)

Below(oid, cursor) == cursor = 0 \/ oid < cursor

\* A short page has nothing below it; an empty one ends the reading.
list ==
  LET match == {o \in DOMAIN logRows : Below(o, pager.cursor)}
      page  == {o \in match : Cardinality({k \in match : k >= o}) <= PageRows}
  IN  /\ page # {}
      /\ pager' = [pages  |-> Append(pager.pages, page),
                   cursor |-> Lowest(page),
                   top    |-> IF pager.top = 0 THEN Highest(page) ELSE pager.top]
      /\ UNCHANGED <<logFile, logInode, written, logOffset, logMark, logRows, logOid, logFaults>>

LogNext ==
  \/ WriteEntry \/ ContinueEntry \/ Rotate
  \/ FirstSight \/ CheckpointUnread \/ SeeEmpty \/ flushBatch \/ flushFails \/ pruneLog
  \/ list

LogSpec == LogInit /\ [][LogNext]_logVars

-----------------------------------------------------------------------------
\* A row is a whole entry and an entry is at most one row, in the order of the file, however
\* the writer's lines, rotations, failed transactions and passes interleave.
RowsWhole ==
  /\ \A o \in DOMAIN logRows : logRows[o].lines = written[logRows[o].entry]
  /\ \A o, p \in DOMAIN logRows : o < p => logRows[o].entry < logRows[p].entry

\* What the checkpoint has passed since tailing began is in the table: rotation restarts at the
\* head of the file, and a failed transaction is retried.  Pruned rows are the oldest.
NothingSkipped ==
  \A i \in (logMark + 1)..StartOffset :
    logFile[i].head => \/ \E o \in DOMAIN logRows : logRows[o].entry = logFile[i].entry
                       \/ /\ logOid > 1
                          /\ \A o \in DOMAIN logRows : logFile[i].entry < logRows[o].entry

\* A console that follows the cursor sees every row from the first it was shown down to where it
\* is, once, although rows are added and pruned between its requests.
PagesExact ==
  /\ \A i, k \in DOMAIN pager.pages :
       i < k => \A a \in pager.pages[i], b \in pager.pages[k] : b < a
  /\ \A o \in DOMAIN logRows :
       o \in pager.cursor .. pager.top => \E i \in DOMAIN pager.pages : o \in pager.pages[i]

\* The table and the console's pages of it.
RowsSound == RowsWhole /\ PagesExact

\* An entry of the tailed file that a later header closes.
Closed(n) ==
  \A m \in {n, n + 1} : \E i \in (logMark + 1)..Len(logFile) : logFile[i].head /\ logFile[i].entry = m

\* The tail catches up, again and again: what is closed is behind the checkpoint, unless the
\* file was rotated first.
CatchesUp ==
  []<>(\/ logOffset.inode # logInode
       \/ \A n \in 1..MaxEntries : Closed(n) => \E i \in 1..StartOffset : logFile[i].entry = n)

=============================================================================

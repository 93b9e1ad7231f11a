------------------------------- MODULE Logger -------------------------------
(***************************************************************************)
(* The whole logger: lines (LogLine) are put into the ring and written by  *)
(* the dump thread (LogRing) to files that roll over (LogFile), in a       *)
(* program that ends, by itself or not, and is started again.              *)
(***************************************************************************)
EXTENDS LogRing, LogLine, LogFile

CONSTANTS
  Level,        \* _level
  Statements,   \* log statements: their level and the pieces they write
  MaxDays, MaxRuns, MaxFaults,  \* bounds
  MaxLater      \* bound: calls of log() in a process after the first

\* Sizes are the lengths of these lines.
ASSUME StatementsAssumption == \A s \in Statements : LineLen(s.pieces) \in Sizes

VARIABLES
  alive,    \* the process runs
  faults,   \* calls of fopen, fwrite and fflush that failed so far
  bad       \* history: the processes in which one failed

faultVars == <<faults, bad>>
loggerVars == <<vars, fileVars, alive, faultVars>>

LoggerInit == Init /\ FileInit /\ alive = TRUE /\ faults = 0 /\ bad = {}

Fault(is) ==
  IF is THEN faults < MaxFaults /\ faults' = faults + 1 /\ bad' = bad \cup {life}
        ELSE UNCHANGED faultVars

-----------------------------------------------------------------------------
\* The macros LogTrace to LogFatal: a statement below the level is nothing.
LogStatement(s) ==
  /\ alive /\ s.level >= Level
  /\ life > 1 => accepted + dropped < MaxLater
  /\ Log(LineLen(s.pieces))
  /\ UNCHANGED <<fileVars, alive, faultVars>>

\* setfilename also opens the first file, its name with the process or without.
SetFile ==
  /\ alive /\ SetFilename
  /\ \E withpid, opens \in BOOLEAN : Fault(~opens) /\ Open(withpid, opens)
  /\ UNCHANGED alive

StopAsk == alive /\ StopAsked /\ UNCHANGED <<fileVars, alive, faultVars>>

\* A flush, or one that fails after the first k lines.
FlushSome == \E k \in 0..Len(lf.buf) : Fault(k < Len(lf.buf)) /\ Flush(k)

\* stop deletes _file, which closes it.
StopJoin == alive /\ StopJoined /\ FlushSome /\ UNCHANGED alive

\* dump: a flush follows each Release, and the loop.  What write returns is
\* not looked at.
DumpCheck == Check /\ FlushSome
DumpWrite ==
  /\ Write
  /\ \/ Fault(FALSE) /\ WriteLines(content[consumer], used[consumer])
     \/ Fault(TRUE) /\ WriteShort(content[consumer], used[consumer])
DumpMoves == (Look \/ Take \/ PrintOut \/ Release) /\ UNCHANGED <<fileVars, faultVars>>

Dumps == alive /\ (DumpCheck \/ DumpWrite \/ DumpMoves) /\ UNCHANGED alive

Dies ==
  /\ alive' = FALSE /\ run' = FALSE /\ at' = "none"
  /\ Abandon
  /\ UNCHANGED <<nodeVars, producer, consumer, ready, handed, console, accepted, dropped>>

\* A crash, or an exit without stop (the logger is a static object, but _exit and
\* signals pass it by).
Crash == alive /\ Dies /\ UNCHANGED faultVars

\* A file that cannot be opened when it must roll: fwrite is given a null
\* pointer.
RollCrash == alive /\ at = "write" /\ lf.open /\ MustRoll /\ Fault(TRUE) /\ Dies

\* The next process; the system may give it a number that was used before.
Restart ==
  /\ life < MaxRuns
  /\ ~alive \/ at = "joined"
  /\ run' = FALSE /\ ready' = FALSE
  /\ content' = [n \in Nodes |-> <<>>] /\ used' = [n \in Nodes |-> 0]
  /\ status' = [n \in Nodes |-> "free"] /\ producer' = 0 /\ consumer' = 0
  /\ at' = "none" /\ handed' = <<>> /\ console' = <<>> /\ accepted' = 0 /\ dropped' = 0
  /\ lf' = NoFile /\ pid' \in 1..MaxRuns /\ life' = life + 1 /\ alive' = TRUE
  /\ UNCHANGED <<disk, today, opener, sure, faultVars>>

NewDay == today < MaxDays /\ Midnight /\ UNCHANGED <<vars, alive, faultVars>>

LoggerNext ==
  \/ SetFile \/ StopAsk \/ StopJoin
  \/ \E s \in Statements : LogStatement(s)
  \/ Dumps \/ Crash \/ RollCrash \/ Restart \/ NewDay

\* As long as the process lives, its dump thread runs.
LoggerSpec == LoggerInit /\ [][LoggerNext]_loggerVars /\ WF_loggerVars(Dumps)

-----------------------------------------------------------------------------
\* What was flushed stays in its file, whatever rolls over, fails, ends, crashes
\* or is started again, until a later process opens a file of this name (one
\* started without the process in its names, as the example does, or under a
\* number used before), or the names are cut, so that the rolls of one process
\* meet.  No file mixes the lines of two processes, nor has a process that met
\* no failure its lines out of order or twice (_roll_file, _logname_, write).
Ordered(lines) == \A i, j \in DOMAIN lines : i < j => lines[i][2] < lines[j][2]

FilesKept ==
  /\ \A s \in sure : s[2] \in ToSet(disk[s[1]]) \/ opener[s[1]] > s[2][1] \/ Cut(s[1])
  /\ \A n \in DOMAIN disk :
       /\ \A line \in ToSet(disk[n]) : line[1] = opener[n]
       /\ opener[n] \notin bad => Ordered(disk[n])

\* In a process that met no failure and whose names are not cut, what dump handed
\* to logfile::write is in one of the process's files or waits for the flush, over
\* every roll (write, _roll_file).
LogsWritten ==
  alive /\ life \notin bad /\ lf.idx <= NameRoom =>
    \A i \in 1..Len(handed) :
      \/ <<life, i>> \in ToSet(lf.buf)
      \/ \E n \in DOMAIN disk : opener[n] = life /\ <<life, i>> \in ToSet(disk[n])

\* Of the lines given to logfile::write, those that were flushed stay, in order and
\* apart from other processes', and none is missing if nothing has failed: over
\* every roll, by size or by day, and every end and restart (write, _roll_file).
LogsKept == FilesKept /\ LogsWritten

-----------------------------------------------------------------------------
(* The inductive invariant.                                                *)

\* What is said of the ring while the process lives, and of what is left of
\* it when it has ended in the middle of a step.
ProcessInv ==
  /\ alive => OrderInv /\ ThreadInv
  /\ ~alive => at = "none" /\ TypeOK /\ WrittenInOrder /\ NothingLost

Lines == Nat \X Nat
Names == Seq(Nat)
FileType == [open : BOOLEAN, name : Names, withpid : BOOLEAN, writesize : Nat, idx : Nat,
             rollday : Nat, buf : Seq(Lines)]

DiskTypeOK ==
  /\ disk \in [DOMAIN disk -> Seq(Lines)] /\ DOMAIN disk \subseteq Names
  /\ opener \in [DOMAIN disk -> Nat]
  /\ sure \subseteq (DOMAIN disk) \X Lines
  /\ lf \in FileType
  /\ today \in Nat /\ pid \in Nat /\ life \in Nat \ {0} /\ alive \in BOOLEAN
  /\ bad \subseteq 1..life

\* A file of this process has a number it has given already, unless its name is
\* cut: the next file it opens is none of those it has opened.  What was flushed
\* to a file is not of a later process than the one that opened it last.
NamesInv ==
  /\ ~(alive /\ ready) => lf = NoFile
  /\ \A n \in DOMAIN disk :
       /\ opener[n] <= life
       /\ alive /\ opener[n] = life => ready /\ (~Cut(n) => n[3] <= lf.idx)
  /\ \A s \in sure : s[2][1] <= opener[s[1]]
  /\ ~lf.open => lf.buf = <<>>

\* The open file, with what is held back, has lines of this process, of those
\* the dump thread has handed over, in order unless a call failed.
OpenInv ==
  lf.open =>
    /\ lf.name \in DOMAIN disk /\ opener[lf.name] = life
    /\ life \notin bad => Ordered(disk[lf.name] \o lf.buf)
    /\ \A line \in ToSet(disk[lf.name]) \cup ToSet(lf.buf) :
         line[1] = life /\ line[2] <= Len(handed)

\* Without a failure the file is open.
StaysOpen == alive /\ ready /\ life \notin bad => lf.open

LoggerInv ==
  ProcessInv /\ DiskTypeOK /\ NamesInv /\ OpenInv /\ StaysOpen /\ LogsKept
=============================================================================

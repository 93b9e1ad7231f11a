------------------------------ MODULE LogFile ------------------------------
(***************************************************************************)
(* The files of the log: class logfile of base/logger.hpp.  A file is      *)
(* named by the day, the process (unless it was asked not to) and an index *)
(* that goes on with every file the process opens; it is opened for        *)
(* writing from its start, so that what a file of this name held is gone.  *)
(*                                                                         *)
(* `disk` outlives the process; what was written since the last flush is   *)
(* in the process's own buffer.                                            *)
(***************************************************************************)
EXTENDS Naturals, Sequences, SequencesExt

CONSTANTS
  RollSize,   \* _rollsize
  NameRoom    \* the last index for which the name fits into tmp_buf

ASSUME FileAssumption == RollSize \in Nat \ {0} /\ NameRoom \in Nat

VARIABLES
  disk,    \* the files: name -> lines, each <<process, number>>
  lf,      \* _file and the members of the logfile object
  today,   \* the day by the system's clock
  pid,     \* the number the system gave this process, maybe not for the first time
  life,    \* this process, counted
  opener,  \* history: of each file, the process that opened it last
  sure     \* history: the lines that were flushed, each <<name, line>>

fileVars == <<disk, lf, today, pid, life, opener, sure>>

NoFile == [open |-> FALSE, name |-> <<>>, withpid |-> FALSE, writesize |-> 0, idx |-> 0,
           rollday |-> 0, buf |-> <<>>]

FileInit ==
  /\ disk = <<>> /\ lf = NoFile /\ today = 0 /\ pid = 1 /\ life = 1
  /\ opener = <<>> /\ sure = {}

\* _logname_: day, process (0 stands for none) and index; a name is cut after 99
\* characters.  (A cut index is left out, though its first digits may remain; a
\* file name that is longer still loses the process and the day as well.)
LogName(day, withpid, idx) ==
  LET parts == <<day, IF withpid THEN pid ELSE 0, idx>>
  IN  SubSeq(parts, 1, IF idx <= NameRoom THEN 3 ELSE 2)
Cut(name) == Len(name) < 3

\* fflush: f's file on the disk d gets the first k of the lines f holds back
\* (all of them, unless the disk is full; then stdio forgets the others).
Synced(d, f, k) ==
  IF f.open THEN [d EXCEPT ![f.name] = @ \o SubSeq(f.buf, 1, k)] ELSE d
Emptied(f) == [f EXCEPT !.buf = <<>>]
FlushedLines(f) == IF f.open THEN {<<f.name, line>> : line \in ToSet(f.buf)} ELSE {}

\* The index of the next file.
NextIdxAlwaysFirst(f, newday) == 1
NextIdx(f, newday) == IF newday THEN 1 ELSE f.idx + 1

\* _roll_file: the old file is closed, the new one is opened, if it can be.
Rolled(f, newday, opens) ==
  LET idx == NextIdx(f, newday)
  IN [open |-> opens, name |-> LogName(today, f.withpid, idx), withpid |-> f.withpid,
      writesize |-> 0, idx |-> idx, rollday |-> today, buf |-> <<>>]
RollFile(f, newday, opens) ==
  LET new    == Rolled(f, newday, opens)
      closed == Synced(disk, f, Len(f.buf))
      names  == IF opens THEN {new.name} ELSE {}
  IN /\ disk' = [n \in DOMAIN disk \cup names |-> IF n \in names THEN <<>> ELSE closed[n]]
     /\ opener' = [n \in DOMAIN disk \cup names |-> IF n \in names THEN life ELSE opener[n]]
     /\ sure' = sure \cup FlushedLines(f)

\* logfile::logfile
Open(withpid, opens) ==
  LET f == [lf EXCEPT !.withpid = withpid]
  IN /\ RollFile(f, TRUE, opens) /\ lf' = Rolled(f, TRUE, opens)
     /\ UNCHANGED <<today, pid, life>>

\* A new day, or a file that is full.
SameDay(t1, t2) == t1 = t2
MustRoll == ~SameDay(lf.rollday, today) \/ lf.writesize >= RollSize

LinesOf(numbers) == [i \in DOMAIN numbers |-> <<life, numbers[i]>>]

\* logfile::write: it takes these lines, size bytes in all.
WriteLines(numbers, size) ==
  LET f == IF MustRoll THEN Rolled(lf, FALSE, TRUE) ELSE lf
  IN /\ IF lf.open /\ MustRoll THEN RollFile(lf, FALSE, TRUE) ELSE UNCHANGED <<disk, opener, sure>>
     /\ lf' = IF ~lf.open THEN lf
              ELSE [f EXCEPT !.buf = @ \o LinesOf(numbers), !.writesize = @ + size]
     /\ UNCHANGED <<today, pid, life>>

\* The lines that arrive if fwrite takes only a part of them, the first k.  The
\* loop calls it again for as many bytes as are left, but with the same data:
\* now the first m come once more.  (Bound: two calls that take something.)
TakenAgain(numbers, k, m) == SubSeq(numbers, 1, k) \o SubSeq(numbers, 1, m)
WriteShort(numbers, len) ==
  \E k, m \in 0..Len(numbers) - 1, size \in 0..len :
    k + m <= size /\ WriteLines(TakenAgain(numbers, k, m), size)

\* logfile::flush
Flush(k) ==
  /\ disk' = Synced(disk, lf, k) /\ lf' = Emptied(lf)
  /\ sure' = IF k = Len(lf.buf) THEN sure \cup FlushedLines(lf) ELSE sure
  /\ UNCHANGED <<today, pid, life, opener>>

\* The process ends without a flush: the system has taken some of what was
\* held back.
Abandon ==
  /\ \E k \in 0..Len(lf.buf) : disk' = Synced(disk, lf, k)
  /\ lf' = NoFile
  /\ UNCHANGED <<today, pid, life, opener, sure>>

\* Midnight, at any time.
Midnight == today' = today + 1 /\ UNCHANGED <<disk, lf, pid, life, opener, sure>>
=============================================================================

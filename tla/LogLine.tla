------------------------------ MODULE LogLine ------------------------------
(***************************************************************************)
(* A line of the log while it is put together: logstream and its           *)
(* fixedbuffer (base/logger.hpp), by what they do to the length.  A text   *)
(* that does not fit is cut; a number for which there may not be room is   *)
(* left out; the end of line is a text like any other.                     *)
(***************************************************************************)
EXTENDS Integers, Sequences, SequencesExt

CONSTANTS
  LineSize,   \* SIZE of a logstream's fixedbuffer: 4 KB
  Longest,    \* what a number may take: 32
  LineHead    \* lengths of what begins each line: time, level, thread

ASSUME LineAssumption ==
  /\ LineSize \in Nat /\ Longest \in Nat \ {0}
  /\ LineHead \in Seq(Nat)

Text(n)   == [kind |-> "text", len |-> n]
Number(n) == [kind |-> "number", len |-> n]

Avail(pos) == LineSize - pos

\* fixedbuffer::append and fixedbuffer::seek, on _pos.
Appended(pos, len) == IF len > Avail(pos) THEN LineSize ELSE pos + len

Sought(pos, incr) ==
  IF incr >= 0 THEN (IF pos + incr > LineSize THEN LineSize ELSE pos + incr)
  ELSE IF -incr > pos THEN 0 ELSE pos + incr

\* logstream::_convert: snprintf's result moves the position.
Converted(pos, len) == IF Avail(pos) >= Longest THEN Sought(pos, len) ELSE pos

\* The operators <<.
Put(pos, piece) ==
  IF piece.kind = "text" THEN Appended(pos, piece.len) ELSE Converted(pos, piece.len)

\* logimpl's constructor writes the head, its destructor the end of line.
HeadPieces == [i \in DOMAIN LineHead |-> Text(LineHead[i])]
LineLen(pieces) == FoldLeft(Put, 0, HeadPieces \o pieces \o <<Text(1)>>)
=============================================================================

------------------------------ MODULE MCLogger ------------------------------
(* Statements for TLC: a line of 1 and one of 2 units, one that is cut to *)
(* LineSize because its text is too long, one whose number is left out,   *)
(* and one that is below the level.                                        *)
EXTENDS Logger

MCHead == <<0>>
MCStatements ==
  {[level |-> 2, pieces |-> <<>>],
   [level |-> 3, pieces |-> <<Text(4), Number(1)>>],
   [level |-> 0, pieces |-> <<Number(1)>>]}
MCSizes == {LineLen(s.pieces) : s \in MCStatements}
=============================================================================

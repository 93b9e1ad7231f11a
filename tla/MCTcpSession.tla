---------------------------- MODULE MCTcpSession ----------------------------
(* TcpSession for TLC: two messages, one of them two units long, and one   *)
(* or two application threads.                                             *)
EXTENDS TcpSession

CONSTANTS a1, a2, acc, io
OneApp == {a1}
OneAppThreads == OneApp \cup {acc, io}
TwoApps == {a1, a2}
TwoAppsThreads == TwoApps \cup {acc, io}
MCUnits == {1, 2, 3}
MCMsgs == {<<1>>, <<2, 3>>}
=============================================================================

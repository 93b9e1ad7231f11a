---------------------------- MODULE MCHeartBeat ----------------------------
(* An instance for TLC: a session and a connector, in a bucket each.       *)
EXTENDS HeartBeat

CONSTANTS s1, c1

MCSocks == {s1}
MCConns == {c1}
MCBucketOf == [w \in {s1, c1} |-> IF w = s1 THEN 1 ELSE 0]

=============================================================================

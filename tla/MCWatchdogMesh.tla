--------------------------- MODULE MCWatchdogMesh ---------------------------
(* Instances of WatchdogMesh for the model checker.                        *)
EXTENDS WatchdogMesh, TLC

On == {[prevention |-> TRUE, watchdogs |-> TRUE]}

(* Nothing may happen but what is named.                                   *)
Only(budget) == [a \in Bounds |-> IF a \in DOMAIN budget THEN budget[a] ELSE 0]

TwoEvents == Only([event |-> 2, kill |-> 1, disable |-> 2, enable |-> 1, lock |-> 1,
                   fork |-> 1, overlap |-> 1])
OneEvent == Only([event |-> 1, kill |-> 1, killDaemon |-> 1, disable |-> 1, enable |-> 1,
                  lock |-> 1, stop |-> 1, enforcer |-> 1, restart |-> 1])
DisableOverlaps == Only([event |-> 1, disable |-> 1, overlap |-> 1])
=============================================================================

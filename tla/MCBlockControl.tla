--------------------------- MODULE MCBlockControl ---------------------------
(* Instances of BlockControl for the model checker.                        *)
EXTENDS BlockControl, TLC

CONSTANTS r1, r2,       \* the rules
          day,          \* the hour
          c1, c2        \* the requests in flight

ClientSymmetry == Permutations({c1, c2})

(* A block that always enforces r1, without a lock or with one until t.     *)
OpenRow ==
  [c \in Column |-> CASE c = "enabled"          -> TRUE
                      [] c = "block_mode"       -> "always"
                      [] c = "schedule"         -> {}
                      [] c = "lock_mode"        -> "none"
                      [] c = "lock_until"       -> Null
                      [] c = "websites_blocked" -> {r1}
                      [] c = "websites_allowed" -> {}]

LockedRow(t) == Merge(OpenRow, [c \in {"lock_mode", "lock_until"} |->
                                  IF c = "lock_mode" THEN "locked_until" ELSE t])

TwoLocks == {[b \in {1} |-> OpenRow], [b \in {1} |-> LockedRow(2)]}
OneBlock == {[b \in {1} |-> OpenRow], [b \in {1} |-> LockedRow(1)]}

(* One column sent; a lock set until t.                                     *)
One(col, v) == [c \in {col} |-> v]
Lock(t) == [c \in {"lock_mode", "lock_until"} |-> IF c = "lock_mode" THEN "locked_until" ELSE t]

(* What the instances start from and may send.                              *)
EditSet == {One("websites_blocked", {r2}), One("enabled", FALSE),
            One("block_mode", "time_range"), Lock(2), One("lock_mode", "none")}
LockEdits == {Lock(2), One("websites_blocked", {}), One("lock_until", Blank), One("lock_until", Null)}
AddRule(r) == [add |-> {r}, remove |-> {}]
OneStrict == {AddRule(r2)}
StrictSet == {AddRule(r1), AddRule(r2)}
DelayToggle == {[f \in {"enabled"} |-> TRUE], [f \in {"enabled"} |-> FALSE]}
DelaySet == DelayToggle \cup {[f \in {"minutes"} |-> 1]}
BlankEdits == {[websites_blocked |-> {}, lock_until |-> Blank]}
EastAndWest == {-2, 1}
NullEdits == {[enabled |-> FALSE, websites_blocked |-> Null],
              [enabled |-> FALSE, lock_mode |-> Null]}
LiveEdits == BlankEdits \cup NullEdits \cup {One("enabled", FALSE), Lock(1)}
NoStrict == {}
Naive == {0}
NewRowSet == {OpenRow}
=============================================================================

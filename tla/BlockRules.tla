----------------------------- MODULE BlockRules -----------------------------
(***************************************************************************)
(* A row of the blocks table, the edits the API makes to it, and what a    *)
(* row enforces.  Everything here is a pure function of its arguments.     *)
(*                                                                         *)
(* A row is a function from column names to values and an edit is a        *)
(* partial one: a column outside its domain was not sent.  The two other   *)
(* blocked lists (websites_media_blocked, apps_blocked) are treated by the *)
(* code exactly as websites_blocked is and are represented by it; days,    *)
(* start and end time are represented by the hours they select.            *)
(***************************************************************************)
EXTENDS Integers

CONSTANTS Rule,      \* the entries of a blocked or allowed list
          Hour,      \* the times of a week that a schedule tells apart
          Null,      \* None: a JSON null, or a column without a value
          Blank      \* lock_until was sent as the empty string

ASSUME RulesAssumption == /\ Null \notin Nat
                          /\ Blank \notin Nat
                          /\ Null # Blank

Column == {"enabled", "block_mode", "schedule", "lock_mode", "lock_until",
           "websites_blocked", "websites_allowed"}

ColumnType(c) ==
  CASE c = "enabled"    -> BOOLEAN
    [] c = "block_mode" -> {"always", "time_range", "disabled"}
    [] c = "schedule"   -> SUBSET Hour
    [] c = "lock_mode"  -> {"none", "locked_until"}
    [] c = "lock_until" -> Nat \cup {Null}
    [] OTHER            -> SUBSET Rule

IsRow(r) == DOMAIN r = Column /\ \A c \in Column : r[c] \in ColumnType(c)

(* What a request may carry: a null for any column, and for lock_until the *)
(* empty string.                                                           *)
IsEdit(p) ==
  /\ DOMAIN p \subseteq Column
  /\ \A c \in DOMAIN p :
       p[c] \in ColumnType(c) \cup {Null} \cup (IF c = "lock_until" THEN {Blank} ELSE {})

(* Columns the table can take: it refuses a null in enabled, block_mode or *)
(* lock_mode, and an empty string as a time.                               *)
IsWrite(d) == DOMAIN d \subseteq Column /\ \A c \in DOMAIN d : d[c] \in ColumnType(c)

NoEdit == [c \in {} |-> Null]

(* "is not None": a column sent as null counts as not sent.                *)
Sends(p, c) == c \in DOMAIN p /\ p[c] # Null
-----------------------------------------------------------------------------
(* The lock of one block.  A disabled block is never locked.               *)
Locked(r, t) ==
  /\ r["enabled"]
  /\ r["lock_mode"] = "locked_until"
  /\ r["lock_until"] # Null
  /\ t < r["lock_until"]

LockExpired(r, t) ==
  /\ r["lock_mode"] = "locked_until"
  /\ r["lock_until"] # Null
  /\ r["lock_until"] < t

(* Faulty: only the lists are compared.                                    *)
IsLooseningLists(r, p) ==
  \/ Sends(p, "websites_blocked") /\ ~(r["websites_blocked"] \subseteq p["websites_blocked"])
  \/ Sends(p, "websites_allowed") /\ ~(p["websites_allowed"] \subseteq r["websites_allowed"])

(* _is_loosening_update: does this edit have to wait?                      *)
IsLoosening(r, p) ==
  \/ Sends(p, "enabled") /\ ~p["enabled"] /\ r["enabled"]
  \/ Sends(p, "block_mode") /\ p["block_mode"] = "disabled" /\ r["block_mode"] # "disabled"
  \/ Sends(p, "lock_mode") /\ p["lock_mode"] = "none" /\ r["lock_mode"] # "none"
  \/ Sends(p, "websites_blocked") /\ ~(r["websites_blocked"] \subseteq p["websites_blocked"])
  \/ Sends(p, "websites_allowed") /\ ~(p["websites_allowed"] \subseteq r["websites_allowed"])

(* A row with some of its columns replaced.                                *)
Merge(r, d) == [c \in Column |-> IF c \in DOMAIN d THEN d[c] ELSE r[c]]

(* Faulty: the empty string is stored as it was sent.                      *)
LockUntilAsSent(r, p) == Merge(r, p)["lock_until"]

(* lock_until after an immediate update: leaving locked_until clears it,   *)
(* then a value that was sent is stored and an empty string clears it.     *)
LockUntilAfter(r, p) ==
  CASE Sends(p, "lock_until") /\ p["lock_until"] # Blank    -> p["lock_until"]
    [] Sends(p, "lock_until") /\ p["lock_until"] = Blank    -> Null
    [] ~Sends(p, "lock_until") /\ Sends(p, "lock_mode")
         /\ p["lock_mode"] # "locked_until"                 -> Null
    [] OTHER                                                -> r["lock_until"]

Edited(r, p) ==
  [c \in Column |-> IF c = "lock_until" THEN LockUntilAfter(r, p)
                   ELSE IF Sends(p, c) THEN p[c] ELSE r[c]]

(* A delayed update sets every column of its payload, the nulls too.  A    *)
(* column without a value is an empty list, or a schedule of all hours.    *)
WithoutValue(c) ==
  CASE c \in {"websites_blocked", "websites_allowed"} -> {}
    [] c = "schedule"                                 -> Hour
    [] OTHER                                          -> Null

AsStored(p) == [c \in DOMAIN p |-> IF p[c] = Null THEN WithoutValue(c) ELSE p[c]]

(* The 400 at the end of update_block.                                     *)
LockLacksTime(r) == r["lock_mode"] = "locked_until" /\ r["lock_until"] = Null

(* Faulty: the whole row is written back.                                  *)
ChangedWholeRow(old, new) == new

(* The columns a flush writes: the ones that differ from the row as read.  *)
Changed(old, new) == [c \in {d \in Column : old[d] # new[d]} |-> new[c]]

(* Faulty: the list sent replaces the stored one.                          *)
TightenedReplaces(r, s) ==
  Merge(r, [c \in {"websites_blocked", "websites_allowed"} |->
              IF c = "websites_blocked" THEN s.add ELSE r[c] \ s.remove])

(* update_block_strict: s.add joins the blocked list, s.remove leaves the  *)
(* allowed list.                                                           *)
Tightened(r, s) ==
  Merge(r, [c \in {"websites_blocked", "websites_allowed"} |->
              IF c = "websites_blocked" THEN r[c] \cup s.add ELSE r[c] \ s.remove])
-----------------------------------------------------------------------------
(* What a row enforces: the pairs of an hour and a rule in force then.     *)
ActiveHours(r) ==
  CASE r["block_mode"] = "always"     -> Hour
    [] r["block_mode"] = "time_range" -> r["schedule"]
    [] r["block_mode"] = "disabled"   -> {}

Enforced(r) ==
  {hr \in Hour \X Rule : /\ r["enabled"]
                         /\ hr[1] \in ActiveHours(r)
                         /\ hr[2] \in r["websites_blocked"] \ r["websites_allowed"]}
=============================================================================

--------------------------- MODULE DelayedLoosening ---------------------------
(* What the root tier promises about its settings.  A change that weakens a  *)
(* setting waits for the delay, any other is taken at once.  Changes taken   *)
(* together are compared with the settings as they were when their batch was *)
(* opened, not with each other.  One setting, the lock, can be overridden    *)
(* after a countdown of its own.                                             *)
EXTENDS Integers

CONSTANTS Setting,            \* what can be changed
          Lock,               \* the setting the override clears
          Open,               \* its value when it is clear
          Unasked,            \* no countdown runs
          Delay,              \* what a weakening change waits
          OverrideDelay,      \* what the override waits
          Result(_, _, _),    \* a setting's value once a change is made to it
          AtLeast(_, _, _)    \* one value of a setting is as strict as another

VARIABLES clock,     \* the time
          value,     \* of each setting
          base,      \* the values the batch is compared with
          waiting,   \* the weakening changes that wait: setting, change and date
          asked      \* when the override's countdown was started

vars == <<clock, value, base, waiting, asked>>

(* Nothing waits.                                                            *)
Init == waiting = {} /\ asked = Unasked

(* Time passes.                                                              *)
Advance == clock' > clock /\ UNCHANGED <<value, base, waiting, asked>>

(* A batch is opened.                                                        *)
OpenBatch == base' = value /\ UNCHANGED <<clock, value, waiting, asked>>

(* One setting becomes at least as strict as it was at the batch's opening.  *)
Tighten ==
  /\ \E s \in Setting : /\ value' = [value EXCEPT ![s] = value'[s]]
                        /\ AtLeast(s, value'[s], base[s])
  /\ UNCHANGED <<clock, base, waiting, asked>>

(* A weakening change is asked for: it is dated a whole delay from now.      *)
Ask ==
  /\ \E e \in waiting' : waiting' = waiting \cup {e} /\ e.at = clock + Delay
  /\ UNCHANGED <<clock, value, base, asked>>

(* A change that has waited takes effect, on the setting as it is by then.   *)
Loosen ==
  /\ \E e \in waiting :
       /\ e.at <= clock
       /\ value' = [value EXCEPT ![e.setting] = Result(e.setting, @, e.change)]
  /\ UNCHANGED <<clock, base, waiting, asked>>

(* Changes leave the queue once they have waited, and not before.            *)
Leave ==
  /\ waiting' \subseteq waiting
  /\ \A e \in waiting \ waiting' : e.at <= clock
  /\ UNCHANGED <<clock, value, base, asked>>

(* The override's countdown starts; it ends with the countdown closed.       *)
AskOverride == asked = Unasked /\ asked' = clock /\ UNCHANGED <<clock, value, base, waiting>>
Override ==
  /\ asked # Unasked
  /\ clock >= asked + OverrideDelay
  /\ \/ value' = [value EXCEPT ![Lock] = Open] /\ UNCHANGED asked
     \/ asked' = Unasked /\ UNCHANGED value
  /\ UNCHANGED <<clock, base, waiting>>

Next == Advance \/ OpenBatch \/ Tighten \/ Ask \/ Loosen \/ Leave \/ AskOverride \/ Override

Spec == Init /\ [][Next]_vars
=============================================================================

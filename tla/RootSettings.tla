----------------------------- MODULE RootSettings -----------------------------
(* The settings of the root layout: the lock (secure/lock.json), the         *)
(* enforcement policy (secure/enforcement.json) and the judge's policy       *)
(* (secure/policy.md).  The user daemon checks a request and drops it as a   *)
(* file; the root enforcer classifies the files of a tick, applies what      *)
(* tightens and queues what loosens (secure/pending_changes.json); the       *)
(* break-glass runner, on a timer of its own, clears the lock after a        *)
(* countdown.  A step is what happens between two writes to the disk, so     *)
(* that the enforcer and the runner can stop between any two.  Time is in    *)
(* hours: it stands still while a tick or a pass, seconds long, is under way. *)
EXTENDS Integers, Sequences, FiniteSets

CONSTANTS Null,             \* None: no lock, no countdown, no time known
          Corrupt,          \* a lock file that cannot be read
          Id,               \* names of request files, in the order they sort
          Browser,          \* binaries the policy may list
          DefaultBrowsers,  \* those of a policy nobody has written
          Freeform,         \* texts of the judge's policy that are no preset
          PolicyBodies,     \* what policy requests name: fields and values
          LockTimes,        \* dates the client asks locks until
          Texts,            \* texts the client asks for
          FirstSettings,    \* what the system may start with: lock, policy, judge, dev
          LoosenDelay,      \* DEFAULT_LOOSEN_DELAY_HOURS
          ReleaseDelay,     \* the runner's DEFAULT_DELAY_HOURS
          MaxTime,          \* bound: the clock
          MaxActs,          \* bound: what the user asks for, by route or by trigger
          MaxStops          \* bound: ticks and passes cut short

(* Files have an order, and delays are not empty.                            *)
ASSUME IdAssumption == Id \subseteq Nat /\ IsFiniteSet(Id)
ASSUME DelayAssumption == LoosenDelay \in Nat \ {0} /\ ReleaseDelay \in Nat \ {0}
ASSUME NullAssumption == Null \notin Int /\ Corrupt \notin Int /\ Corrupt # Null
ASSUME InputAssumption == LockTimes \subseteq Nat /\ {MaxTime, MaxActs, MaxStops} \subseteq Nat
ASSUME BrowserAssumption == DefaultBrowsers \subseteq Browser

VARIABLES
  now,       \* the true time, which the time servers tell
  lock,      \* locked_until of lock.json
  policy,    \* enforcement.json
  judge,     \* policy.md
  dev,       \* no root credential yet: development mode
  request,   \* what each request dropped so far asks, by its name (a uuid)
  inbox,     \* names of the files in requests/settings
  pending,   \* the entries of pending_changes.json
  pc,        \* what the enforcer's tick is about to do
  files,     \* request files the tick has not handled yet
  seen,      \* the settings as the tick read them
  ntp,       \* the tick's reading of the time servers
  k,         \* the pending entry the tick is at
  keep,      \* the pending entries the tick keeps
  trigger,   \* requests/breakglass.trigger exists
  asked,     \* requested_at of breakglass.json
  released,  \* released of breakglass.json
  cleared,   \* the runner's pass has released and not saved yet
  stops,     \* ticks and passes cut short so far
  acts       \* what the user has asked for so far

settings == <<lock, policy, judge>>
tick == <<pc, files, seen, ntp, k, keep>>
runner == <<trigger, asked, released, cleared>>
vars == <<now, settings, dev, request, inbox, pending, tick, runner, stops, acts>>

-----------------------------------------------------------------------------
(* The values of the settings.                                               *)

Setting == {"lock", "policy", "judge_policy"}

(* The policy a program without a file assumes.                              *)
EnforcementPolicy ==
  [browsers |-> DefaultBrowsers, browser_enforcement_enabled |-> TRUE,
   shutdown_prevention_enabled |-> FALSE, watchdog_enabled |-> FALSE,
   watchdog_count |-> 3, heartbeat_interval_seconds |-> 30]

Toggle == {"browser_enforcement_enabled", "shutdown_prevention_enabled", "watchdog_enabled"}
Field == DOMAIN EnforcementPolicy

(* The fields of a policy have their types.                                  *)
IsPolicy(p) ==
  /\ DOMAIN p = Field
  /\ p.browsers \subseteq Browser
  /\ \A t \in Toggle : p[t] \in BOOLEAN
  /\ p.watchdog_count \in Nat /\ p.heartbeat_interval_seconds \in Nat

(* The shipped presets of the judge's policy and their strictness.           *)
StrictnessRank == [lenient |-> 0, accountability |-> 1, strict |-> 2]
Preset == DOMAIN StrictnessRank
Text == Preset \cup Freeform
NoText == ""           \* an empty document, which does not validate

(* A body merged onto a policy.                                              *)
MergePolicy(p, body) == [f \in Field |-> IF f \in DOMAIN body THEN body[f] ELSE p[f]]

(* The value of a setting once a change has been applied to its value v.     *)
Applied(s, v, change) == IF s = "lock" THEN change.locked_until
                         ELSE IF s = "policy" THEN MergePolicy(v, change)
                         ELSE change.text

(* Not later than the lock in force; no lock is the weakest.                 *)
LockAtLeast(requested, current) ==
  current = Null \/ (requested # Null /\ requested >= current)

(* No field of the policy is weaker.                                         *)
PolicyAtLeast(requested, current) ==
  /\ \A t \in Toggle : current[t] => requested[t]
  /\ current.browsers \subseteq requested.browsers
  /\ requested.heartbeat_interval_seconds <= current.heartbeat_interval_seconds
  /\ requested.watchdog_count >= current.watchdog_count

(* The same text, or a stricter preset than the preset in force.             *)
JudgeAtLeast(requested, current) ==
  \/ requested = current
  \/ /\ {requested, current} \subseteq Preset
     /\ StrictnessRank[requested] > StrictnessRank[current]

AtLeast(s, v, w) == /\ s = "lock" => LockAtLeast(v, w)
                    /\ s = "policy" => PolicyAtLeast(v, w)
                    /\ s = "judge_policy" => JudgeAtLeast(v, w)

-----------------------------------------------------------------------------
(* Reading the settings.                                                     *)

(* Faulty: the raw value is handed on.                                       *)
ReadLockUntilRaw == lock

(* A lock file that cannot be read counts as no lock here ...                *)
ReadLockUntil == IF lock = Corrupt THEN Null ELSE lock

(* ... and as locked here, like a lock whose time cannot be checked.         *)
IsSettingsLocked(time) ==
  \/ lock = Corrupt
  \/ lock # Null /\ (time = Null \/ time < lock)

Current == [lock |-> ReadLockUntil, policy |-> policy, judge_policy |-> judge]

(* A query of the time servers: they answer, or none does.                   *)
NtpAnswers == {Null, now}

(* Within a tick the first answer is kept.                                   *)
TickNtp == IF ntp # Null THEN {ntp} ELSE NtpAnswers

Init ==
  /\ now = 0
  /\ \E s \in FirstSettings : lock = s.lock /\ policy = s.policy /\ judge = s.judge /\ dev = s.dev
  /\ request = << >> /\ inbox = {} /\ pending = << >>
  /\ pc = "idle" /\ files = {} /\ seen = Current /\ ntp = Null /\ k = 1 /\ keep = << >>
  /\ trigger = FALSE /\ asked = Null /\ released = FALSE /\ cleared = FALSE
  /\ stops = 0 /\ acts = 0

-----------------------------------------------------------------------------
(* The user daemon's routes.                                                 *)

(* The user asks for something.                                              *)
Act == acts < MaxActs /\ acts' = acts + 1

(* A request file appears under a name that sorts anywhere.                  *)
DropRequest(s, change) ==
  /\ Act
  /\ \E i \in Id \ DOMAIN request :
       /\ request' = [j \in DOMAIN request \cup {i} |->
                        IF j = i THEN [type |-> s, change |-> change] ELSE request[j]]
       /\ inbox' = inbox \cup {i}
  /\ UNCHANGED <<now, settings, dev, pending, tick, runner, stops>>

(* POST /lock: later than the lock on record, or than now when there is none. *)
LockSettings(until) ==
  /\ until > IF ReadLockUntil # Null THEN ReadLockUntil ELSE now
  /\ DropRequest("lock", [locked_until |-> until])

(* DELETE /lock: refused while the lock is in force.                         *)
UnlockSettings ==
  /\ \E time \in NtpAnswers : ~IsSettingsLocked(time)
  /\ DropRequest("lock", [locked_until |-> Null])

(* PUT /judge-policy: a valid text that changes something; while locked only *)
(* one that tightens, unless in development mode.                            *)
UpdateJudgePolicy(text) ==
  /\ text # NoText
  /\ text # judge
  /\ \/ dev \/ JudgeAtLeast(text, judge)
     \/ \E time \in NtpAnswers : ~IsSettingsLocked(time)
  /\ DropRequest("judge_policy", [text |-> text])

(* A policy request, in the shape the enforcer documents, or a malformed one. *)
RequestPolicy(body) == DropRequest("policy", body)
RequestMalformed == DropRequest("judge_policy", [text |-> NoText])

-----------------------------------------------------------------------------
(* The enforcer's tick.                                                      *)

(* The policy a policy request is classified as: what it does not name has   *)
(* its default.                                                              *)
RequestedPolicy(body) == MergePolicy(EnforcementPolicy, body)

(* The request is malformed.                                                 *)
Malformed(r) == r.type = "judge_policy" /\ r.change.text = NoText

(* Faulty: a request to clear the lock is not told from one with no lock.    *)
TightensClears(r) ==
  /\ r.type = "lock" => r.change.locked_until = Null \/ LockAtLeast(r.change.locked_until, seen.lock)
  /\ r.type = "policy" => PolicyAtLeast(RequestedPolicy(r.change), seen.policy)
  /\ r.type = "judge_policy" => dev \/ JudgeAtLeast(r.change.text, seen.judge_policy)

(* The request weakens none of what the tick has read.                       *)
Tightens(r) ==
  /\ r.type = "lock" => LockAtLeast(r.change.locked_until, seen.lock)
  /\ r.type = "policy" => PolicyAtLeast(RequestedPolicy(r.change), seen.policy)
  /\ r.type = "judge_policy" => dev \/ JudgeAtLeast(r.change.text, seen.judge_policy)

ClassifyRequest(r) ==
  IF Malformed(r) THEN "error" ELSE IF Tightens(r) THEN "apply_now" ELSE "delay"

(* A request is written over its setting.                                    *)
ApplyRequest(r) ==
  /\ lock' = IF r.type = "lock" THEN Applied("lock", lock, r.change) ELSE lock
  /\ policy' = IF r.type = "policy" THEN Applied("policy", policy, r.change) ELSE policy
  /\ judge' = IF r.type = "judge_policy" THEN Applied("judge_policy", judge, r.change) ELSE judge

(* Between ticks the enforcer remembers nothing of the last one.             *)
Forget == files' = {} /\ ntp' = Null /\ k' = 1 /\ keep' = << >>

(* A tick starts: it lists the files and reads the settings once.            *)
Tick ==
  /\ pc = "idle"
  /\ pc' = "files" /\ files' = inbox /\ seen' = Current
  /\ UNCHANGED <<now, settings, dev, request, inbox, pending, ntp, k, keep, runner, stops, acts>>

(* The file that sorts first.                                                *)
First == CHOOSE i \in files : \A j \in files : i <= j

(* Faulty: a rejected file is passed over and not removed.                   *)
SettleKeepsRejected ==
  /\ pc = "files" /\ files # {}
  /\ LET r == request[First] IN
       \/ ClassifyRequest(r) = "error" /\ pc' = "files" /\ files' = files \ {First}
          /\ UNCHANGED settings
       \/ ClassifyRequest(r) = "apply_now" /\ pc' = "unlink" /\ ApplyRequest(r) /\ UNCHANGED files
  /\ UNCHANGED <<now, dev, request, inbox, pending, seen, ntp, k, keep, runner, stops, acts>>

(* A file is classified; what it asks for is rejected, or applied at once.   *)
Settle ==
  /\ pc = "files" /\ files # {}
  /\ LET r == request[First] IN
       \/ ClassifyRequest(r) = "error" /\ UNCHANGED settings
       \/ ClassifyRequest(r) = "apply_now" /\ ApplyRequest(r)
  /\ pc' = "unlink"
  /\ UNCHANGED <<now, dev, request, inbox, pending, files, seen, ntp, k, keep, runner, stops, acts>>

(* A weakening change is dated from the time servers' answer and queued.     *)
SchedulePending ==
  /\ pc = "files" /\ files # {}
  /\ ClassifyRequest(request[First]) = "delay"
  /\ ntp' \in TickNtp \ {Null}
  /\ pending' = Append(pending, [id |-> First, apply_at |-> ntp' + LoosenDelay])
  /\ pc' = "unlink"
  /\ UNCHANGED <<now, settings, dev, request, inbox, files, seen, k, keep, runner, stops, acts>>

(* Without an answer its file is left for the next tick.                     *)
Defer ==
  /\ pc = "files" /\ files # {}
  /\ ClassifyRequest(request[First]) = "delay"
  /\ ntp = Null
  /\ files' = files \ {First}
  /\ UNCHANGED <<now, settings, dev, request, inbox, pending, pc, seen, ntp, k, keep, runner, stops, acts>>

(* The file is removed.                                                      *)
Unlink ==
  /\ pc = "unlink"
  /\ inbox' = inbox \ {First}
  /\ files' = files \ {First}
  /\ pc' = "files"
  /\ UNCHANGED <<now, settings, dev, request, pending, seen, ntp, k, keep, runner, stops, acts>>

(* No file is left: the queue is gone through, if there is one and the time  *)
(* is known.                                                                 *)
LoadPending ==
  /\ pc = "files" /\ files = {} /\ pending # << >>
  /\ ntp' \in TickNtp \ {Null}
  /\ pc' = "matured"
  /\ UNCHANGED <<now, settings, dev, request, inbox, pending, files, seen, k, keep, runner, stops, acts>>

(* Otherwise the tick is over.                                               *)
EndTick ==
  /\ pc = "files" /\ files = {}
  /\ pending = << >> \/ ntp = Null
  /\ pc' = "idle" /\ Forget
  /\ UNCHANGED <<now, settings, dev, request, inbox, pending, seen, runner, stops, acts>>

(* The pending change is due at the tick's time.                             *)
Matured(e) == ntp >= e.apply_at

(* The next entry is applied if it is due, and kept if it is not.            *)
ApplyMatured ==
  /\ pc = "matured" /\ k <= Len(pending)
  /\ \/ /\ Matured(pending[k])
        /\ ApplyRequest(request[pending[k].id])
        /\ UNCHANGED keep
     \/ /\ ~Matured(pending[k])
        /\ keep' = Append(keep, pending[k])
        /\ UNCHANGED settings
  /\ k' = k + 1
  /\ UNCHANGED <<now, dev, request, inbox, pending, pc, files, seen, ntp, runner, stops, acts>>

(* Faulty: the file is rewritten only when something was kept.               *)
RewriteNonEmpty ==
  /\ pc = "matured" /\ k > Len(pending)
  /\ pending' = IF keep # << >> THEN keep ELSE pending
  /\ pc' = "idle" /\ Forget
  /\ UNCHANGED <<now, settings, dev, request, inbox, seen, runner, stops, acts>>

(* The file is rewritten with what was kept; the tick is over.               *)
RewritePending ==
  /\ pc = "matured" /\ k > Len(pending)
  /\ pending' = keep
  /\ pc' = "idle" /\ Forget
  /\ UNCHANGED <<now, settings, dev, request, inbox, seen, runner, stops, acts>>

(* The enforcer is killed, or a write fails and ends the tick.               *)
Stop ==
  /\ pc # "idle" /\ stops < MaxStops
  /\ pc' = "idle" /\ Forget /\ stops' = stops + 1
  /\ UNCHANGED <<now, settings, dev, request, inbox, pending, seen, runner, acts>>

-----------------------------------------------------------------------------
(* Break glass.                                                              *)

(* The daemon drops the trigger.  breakglass.json is readable by root only,  *)
(* so all the daemon goes by is whether the trigger exists.                  *)
RequestRelease ==
  /\ ~trigger
  /\ Act /\ trigger' = TRUE
  /\ UNCHANGED <<now, settings, dev, request, inbox, pending, tick, asked, released, cleared, stops>>

(* The user removes the trigger again.                                       *)
DeleteTrigger ==
  /\ trigger
  /\ Act /\ trigger' = FALSE
  /\ UNCHANGED <<now, settings, dev, request, inbox, pending, tick, asked, released, cleared, stops>>

(* A pass of the runner records the request, at the time of the pass.        *)
RecordRequest ==
  /\ ~released /\ ~cleared /\ asked = Null /\ trigger
  /\ asked' = now
  /\ UNCHANGED <<now, settings, dev, request, inbox, pending, tick, trigger, released, cleared, stops, acts>>

(* The countdown is over.                                                    *)
ShouldRelease == asked # Null /\ now - asked >= ReleaseDelay

(* A later pass clears the lock, whichever it is, and removes the trigger.   *)
Release ==
  /\ ~released /\ ~cleared /\ ShouldRelease
  /\ lock' = Null
  /\ trigger' = FALSE
  /\ cleared' = TRUE
  /\ UNCHANGED <<now, policy, judge, dev, request, inbox, pending, tick, asked, released, stops, acts>>

(* Then it saves that it has.                                                *)
SaveReleased ==
  /\ cleared
  /\ released' = TRUE /\ cleared' = FALSE
  /\ UNCHANGED <<now, settings, dev, request, inbox, pending, tick, trigger, asked, stops, acts>>

(* It is cut short in between.                                               *)
StopRunner ==
  /\ cleared /\ stops < MaxStops
  /\ cleared' = FALSE /\ stops' = stops + 1
  /\ UNCHANGED <<now, settings, dev, request, inbox, pending, tick, trigger, asked, released, acts>>

(* An hour passes.                                                           *)
Advance ==
  /\ pc = "idle" /\ ~cleared /\ now < MaxTime
  /\ now' = now + 1
  /\ UNCHANGED <<settings, dev, request, inbox, pending, tick, runner, stops, acts>>

Daemon == \/ \E t \in LockTimes : LockSettings(t)
          \/ UnlockSettings
          \/ \E text \in Texts : UpdateJudgePolicy(text)
          \/ \E body \in PolicyBodies : RequestPolicy(body)
          \/ RequestMalformed
          \/ RequestRelease \/ DeleteTrigger

Enforcer == Tick \/ Settle \/ SchedulePending \/ Defer \/ Unlink \/ LoadPending
            \/ EndTick \/ ApplyMatured \/ RewritePending

Runner == RecordRequest \/ Release \/ SaveReleased

Next == Daemon \/ Enforcer \/ Stop \/ Runner \/ StopRunner \/ Advance

Spec == Init /\ [][Next]_vars

(* The enforcer's loop and the runner's timer keep going, time passes, and   *)
(* the time servers answer again and again.                                  *)
FairSpec == /\ Spec
            /\ WF_vars(Enforcer) /\ WF_vars(Runner) /\ SF_vars(Advance)
            /\ SF_vars(SchedulePending)
            /\ SF_vars(LoadPending)

-----------------------------------------------------------------------------
(* Correctness.                                                              *)

IsRequest(r) ==
  /\ r.type \in Setting
  /\ r.type = "lock" => r.change \in [locked_until : Nat \cup {Null}]
  /\ r.type = "policy" => r.change \in PolicyBodies
  /\ r.type = "judge_policy" => r.change \in [text : Text \cup {NoText}]

Entry == [id : DOMAIN request, apply_at : Nat]

ASSUME StartAssumption ==
  /\ \A b \in PolicyBodies : IsPolicy(RequestedPolicy(b))
  /\ \A s \in FirstSettings : /\ s.lock \in LockTimes \cup {Null, Corrupt} /\ IsPolicy(s.policy)
                              /\ s.judge \in Text /\ s.dev \in BOOLEAN
  /\ Texts \subseteq Text

(* Every variable has its type; what is queued is never malformed.           *)
TypeOK ==
  /\ \A i \in 1..Len(pending) : ~Malformed(request[pending[i].id])
  /\ now \in Nat /\ dev \in BOOLEAN /\ stops \in Nat /\ acts \in Nat
  /\ lock \in Nat \cup {Null, Corrupt} /\ IsPolicy(policy) /\ judge \in Text
  /\ inbox \subseteq DOMAIN request /\ DOMAIN request \subseteq Id
  /\ \A i \in DOMAIN request : IsRequest(request[i])
  /\ pending \in Seq(Entry) /\ keep \in Seq(Entry)
  /\ pc \in {"idle", "files", "unlink", "matured"} /\ files \subseteq Id
  /\ pc \in {"files", "unlink"} => files \subseteq inbox
  /\ seen.lock \in Nat \cup {Null} /\ IsPolicy(seen.policy) /\ seen.judge_policy \in Text
  /\ ntp \in Nat \cup {Null} /\ k \in Nat \ {0}
  /\ trigger \in BOOLEAN /\ asked \in Nat \cup {Null}
  /\ released \in BOOLEAN /\ cleared \in BOOLEAN

(* In development mode the judge's policy is not bound.                      *)
Bound(s) == [lock |-> s.lock, policy |-> s.policy,
             judge_policy |-> IF dev THEN "strict" ELSE s.judge_policy]

Waiting == {[setting |-> request[pending[i].id].type, change |-> request[pending[i].id].change,
             at |-> pending[i].apply_at] : i \in DOMAIN pending}

(* The root tier keeps its promise: whatever the order of the files, the     *)
(* handlers and the stops, a setting gets weaker only by a request that has  *)
(* waited the whole delay since it was queued, or by a countdown of break    *)
(* glass that has run out (enforcer/logic.py:24, breakglass_runner.py:19).   *)
Promise == INSTANCE DelayedLoosening WITH
             Setting <- Setting, Lock <- "lock", Open <- Null, Unasked <- Null,
             Delay <- LoosenDelay, OverrideDelay <- ReleaseDelay,
             Result <- Applied, AtLeast <- AtLeast,
             clock <- now, value <- Bound(Current), base <- Bound(seen),
             waiting <- Waiting, asked <- IF released THEN Null ELSE asked
KeepsPromise == Promise!Spec

(* A request file is consumed in the end, although ticks are cut short and   *)
(* the time servers do not always answer (enforcer/main.py:191).             *)
RequestsAreHandled == \A i \in Id : i \in inbox ~> i \notin inbox

(* What waits to loosen a setting does not wait for ever: what is due leaves *)
(* the queue, also when a stop came between its being applied and the        *)
(* queue's being rewritten (main.py:258), and a recorded break-glass request *)
(* is released, although its trigger is deleted or dropped again and passes  *)
(* are cut short (breakglass_runner.py).                                     *)
WaitingEnds ==
  /\ \A t \in 0..MaxTime : (\E e \in Waiting : e.at = t) ~> (\A e \in Waiting : e.at # t)
  /\ \A t \in 0..MaxTime - ReleaseDelay : asked = t ~> released

(* README.md:28: nothing can be loosened until the lock expires.  The code   *)
(* does not keep it: the files of one tick are compared with one reading of  *)
(* the lock, and a request to clear a lock that has run out clears whichever *)
(* lock is there when it matures.                                            *)
LockHolds ==
  [][(lock \in Nat /\ now < lock /\ ~ShouldRelease) => LockAtLeast(lock', lock)]_vars
=============================================================================

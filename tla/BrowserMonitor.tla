----------------------------- MODULE BrowserMonitor -----------------------------
(* The daemon's window monitor and the heartbeats it judges browsers by.  An *)
(* extension in each browser profile reports how many windows it sees; every *)
(* few seconds the monitor lists the windows there are, closes those of a    *)
(* blocked application, and closes a window of each browser that is silent   *)
(* or shows more windows than its extension reports.  The monitor works      *)
(* between awaits, so heartbeats, windows and settings move under it.  Time  *)
(* is kept as ages, which stop growing past the last age the code can tell;  *)
(* a check and a heartbeat on its way take less than a unit of time.         *)
EXTENDS Integers, FiniteSets

CONSTANTS Null,          \* nothing: not tracked, not seen
          Window,        \* windows that may be open
          Browser,       \* processes whose windows have a browser's class
          Profile,       \* browser profiles with the extension
          PidOf,         \* the process of each window
          SeenBy,        \* the profile that counts each window; Null: none
          HostOf,        \* the browser each profile runs in
          Bans,          \* sets of windows a rule for applications may match
          CheckEvery,    \* check_interval_seconds
          BeatEvery,     \* the longest a running extension goes between beats
          Timeout,       \* heartbeat_timeout_seconds
          NewGrace,      \* NEW_BROWSER_GRACE_SECONDS
          KeepSeen,      \* how long a first sighting is kept
          GracePeriod,   \* how long POST /api/grace-period pauses enforcement
          Tolerance,     \* lost beats in a row a browser has to survive
          MaxEvents      \* bound: what users and failures do

ASSUME NullAssumption == Null \notin Nat
ASSUME WindowAssumption ==
  /\ IsFiniteSet(Window)
  /\ SeenBy \in [Window -> Profile \cup {Null}] /\ HostOf \in [Profile -> Browser]
  /\ \A w \in Window : SeenBy[w] # Null => PidOf[w] = HostOf[SeenBy[w]]
  /\ Bans \subseteq SUBSET Window
ASSUME TimeAssumption ==
  /\ {CheckEvery, BeatEvery} \subseteq Nat \ {0}
  /\ {Timeout, NewGrace, KeepSeen, GracePeriod, Tolerance, MaxEvents} \subseteq Nat

VARIABLES
  open,       \* the windows there are
  banned,     \* those an active block's rule for applications matches
  enforced,   \* browser_enforcement_enabled
  running,    \* the profiles whose extension runs
  sent,       \* how long ago each of them last sent a heartbeat
  mail,       \* the count of a profile's heartbeat under way
  daemon,     \* down, starting (it answers no request yet) or up
  tracked,    \* active_browsers, with the instance's window count
  firstSeen,  \* _first_seen_pids, as ages
  grace,      \* what is left of _grace_period_until
  phase,      \* where the monitor's check is
  todo,       \* the windows it still has to look at, or to close
  idle,       \* how long ago the last check began
  credit,     \* beats a profile may lose and still count as heard
  events      \* what users and failures have done so far

daemonVars == <<daemon, tracked, firstSeen, grace, phase, todo, idle>>
browserVars == <<running, sent, mail, credit>>
vars == <<open, banned, enforced, browserVars, daemonVars, events>>

(* Ages past which nothing more happens: the cleanup's two limits.          *)
Forgotten == 2 * Timeout + 1
Unseen == KeepSeen + 1
Least(m, n) == IF m < n THEN m ELSE n

(* The windows of a process; the windows a profile's extension counts.      *)
Windows(b, ws) == {w \in ws : PidOf[w] = b}
Count(p) == Cardinality({w \in open : SeenBy[w] = p})

(* An entry of active_browsers.  Every profile of a browser sends the same   *)
(* chrome.runtime.id, so a process has one extension instance, which the     *)
(* last heartbeat of any profile overwrites and which is as old as the       *)
(* browser's entry.                                                          *)
Entry == [age : 0..Forgotten, windows : 0..Cardinality(Window), mismatches : 0..2]
ASSUME EntryAssumption == Null \notin Entry

TypeOK ==
  /\ open \in SUBSET Window
  /\ banned \in Bans \cup {{}}
  /\ enforced \in BOOLEAN
  /\ running \in SUBSET Profile
  /\ sent \in [Profile -> 0..BeatEvery]
  /\ mail \in [Profile -> 0..Cardinality(Window) \cup {Null}]
  /\ daemon \in {"down", "starting", "up"}
  /\ tracked \in [Browser -> Entry \cup {Null}]
  /\ firstSeen \in [Browser -> 0..Unseen \cup {Null}]
  /\ grace \in 0..GracePeriod
  /\ phase \in {"idle", "apps", "browsers", "closing"}
  /\ todo \in SUBSET Window
  /\ idle \in 0..CheckEvery
  /\ credit \in [Profile -> 0..(Tolerance + 1)]
  /\ events \in 0..MaxEvents

(* The tracker and the monitor as lifespan makes them: the first check runs  *)
(* before the first request is answered.                                    *)
Init ==
  /\ open = {} /\ banned = {} /\ enforced = TRUE
  /\ running = {} /\ sent = [p \in Profile |-> BeatEvery] /\ mail = [p \in Profile |-> Null]
  /\ daemon = "starting"
  /\ tracked = [b \in Browser |-> Null] /\ firstSeen = [b \in Browser |-> Null] /\ grace = 0
  /\ phase = "idle" /\ todo = {} /\ idle = CheckEvery
  /\ credit = [p \in Profile |-> 0]
  /\ events = 0

Event == events < MaxEvents /\ events' = events + 1

-------------------------------------------------------------------------------
(* Heartbeats.                                                               *)

(* sendHeartbeat: the extension counts its windows, then posts the count.    *)
(* The pid it sends is its browser's.  When the native host did not answer   *)
(* at the worker's start it is a made-up one, that of no browser with        *)
(* windows: such a beat is a lost one, and a worker that sends no other is   *)
(* one that does not run.                                                    *)
Send(p) ==
  /\ p \in running /\ mail[p] = Null /\ sent[p] > 0
  /\ mail' = [mail EXCEPT ![p] = Count(p)]
  /\ sent' = [sent EXCEPT ![p] = 0]
  /\ UNCHANGED <<open, banned, enforced, running, credit, daemonVars, events>>

(* Faulty: a new browser has no count of mismatches.                         *)
HeardUnset(b, n) ==
  [age |-> 0, windows |-> n, mismatches |-> IF tracked[b] = Null THEN Null ELSE tracked[b].mismatches]

(* register_heartbeat: the age starts again; a browser known already keeps   *)
(* its count of mismatches.                                                  *)
Heard(b, n) ==
  [age |-> 0, windows |-> n, mismatches |-> IF tracked[b] = Null THEN 0 ELSE tracked[b].mismatches]

(* receive_heartbeat; a daemon that is not up answers nothing.               *)
Deliver(p) ==
  /\ mail[p] # Null
  /\ mail' = [mail EXCEPT ![p] = Null]
  /\ IF daemon = "up"
     THEN /\ tracked' = [tracked EXCEPT ![HostOf[p]] = Heard(HostOf[p], mail[p])]
          /\ credit' = [credit EXCEPT ![p] = IF p \in running THEN Tolerance + 1 ELSE 0]
     ELSE UNCHANGED <<tracked, credit>>
  /\ UNCHANGED <<open, banned, enforced, running, sent, daemon, firstSeen, grace, phase, todo,
                 idle, events>>

(* A heartbeat is lost: the request fails, or the windows cannot be counted  *)
(* and the daemon refuses a body whose window_count is null.                 *)
Lose(p) ==
  /\ mail[p] # Null /\ Event
  /\ mail' = [mail EXCEPT ![p] = Null]
  /\ credit' = [credit EXCEPT ![p] = IF @ = 0 THEN 0 ELSE @ - 1]
  /\ UNCHANGED <<open, banned, enforced, running, sent, daemonVars>>

-------------------------------------------------------------------------------
(* The monitor's check.                                                      *)

(* What hyprctl lists; nothing when it fails.                                *)
Listed(ws) ==
  \/ ws = open /\ UNCHANGED events
  \/ ws = {} /\ open # {} /\ Event

(* run_check begins with check_and_close_blocked_apps.                       *)
BeginCheck ==
  /\ daemon # "down" /\ phase = "idle" /\ idle = CheckEvery
  /\ \E ws \in {open, {}} : Listed(ws) /\ todo' = ws
  /\ phase' = "apps" /\ idle' = 0
  /\ UNCHANGED <<open, banned, enforced, browserVars, daemon, tracked, firstSeen, grace>>

(* close_window: the window goes, or hyprctl fails to close it.              *)
Close(w) ==
  \/ open' = open \ {w} /\ UNCHANGED events
  \/ w \in open /\ Event /\ UNCHANGED open

(* One window of the loop of check_and_close_blocked_apps.                   *)
LookAt(w) ==
  /\ phase = "apps" /\ w \in todo
  /\ todo' = todo \ {w}
  /\ IF w \in banned THEN Close(w) ELSE UNCHANGED <<open, events>>
  /\ UNCHANGED <<banned, enforced, browserVars, daemon, tracked, firstSeen, grace, phase, idle>>

(* cleanup_old_heartbeats, of entries and of first sightings.               *)
Recent(entries) ==
  [b \in Browser |-> IF entries[b] # Null /\ entries[b].age > 2 * Timeout THEN Null ELSE entries[b]]
Sighted(ages) ==
  [b \in Browser |-> IF ages[b] # Null /\ ages[b] > KeepSeen THEN Null ELSE ages[b]]

(* How run_check ends, from the entries and sightings it is left with; the   *)
(* first check ends the daemon's start.                                      *)
End(entries, ages) ==
  /\ tracked' = Recent(entries) /\ firstSeen' = Sighted(ages)
  /\ phase' = "idle" /\ todo' = {} /\ daemon' = "up"

(* The applications are done: with enforcement off that was all, otherwise   *)
(* the windows are listed again.                                             *)
AppsDone ==
  /\ phase = "apps" /\ todo = {}
  /\ \/ enforced /\ phase' = "browsers" /\ UNCHANGED <<daemon, tracked, firstSeen, todo>>
     \/ ~enforced /\ End(tracked, firstSeen)
  /\ UNCHANGED <<open, banned, enforced, browserVars, grace, idle, events>>

(* Faulty: a heartbeat as old as the timeout no longer counts.               *)
CompliantStrict(b) == tracked[b] # Null /\ tracked[b].age < Timeout

(* get_compliant_browsers.                                                   *)
Compliant(b) == tracked[b] # Null /\ tracked[b].age <= Timeout

(* Faulty: every check registers them anew.                                  *)
SeenAnew(bs) == [b \in Browser |-> IF b \in bs THEN 0 ELSE firstSeen[b]]

(* _register_first_seen, for the browsers found without a heartbeat.         *)
SeenNow(bs) ==
  [b \in Browser |-> IF b \in bs /\ firstSeen[b] = Null THEN 0 ELSE firstSeen[b]]

(* get_non_compliant_browsers: neither heard in time nor new.                *)
Silent(bs, ages) == {b \in bs : ~Compliant(b) /\ ages[b] >= NewGrace}

(* get_total_extension_window_count; Null when nobody reports any window.    *)
Reported(b) ==
  IF Compliant(b) /\ tracked[b].windows > 0 THEN tracked[b].windows ELSE Null

(* Faulty: a mismatch that is not the second one resets the count.           *)
ComparedOnce(b, ws) ==
  IF Windows(b, ws) = {} \/ Reported(b) = Null THEN tracked[b]
  ELSE [tracked[b] EXCEPT !.mismatches =
          IF Cardinality(Windows(b, ws)) > Reported(b) /\ @ > 0 THEN Least(@ + 1, 2) ELSE 0]

(* get_browsers_with_unmonitored_windows: the entry a check leaves, and      *)
(* those shown twice in a row with more windows than were reported.          *)
Compared(b, ws) ==
  IF Windows(b, ws) = {} \/ Reported(b) = Null THEN tracked[b]
  ELSE [tracked[b] EXCEPT !.mismatches = IF Cardinality(Windows(b, ws)) > Reported(b)
                                         THEN Least(@ + 1, 2) ELSE 0]

Unmonitored(bs, ws) ==
  {b \in bs : /\ Reported(b) # Null /\ Cardinality(Windows(b, ws)) > Reported(b)
              /\ Compared(b, ws).mismatches = 2}

(* check_and_close_non_compliant_browsers, up to the first window it closes: *)
(* one window stands for each browser.  During a grace period nothing is     *)
(* registered, compared or closed.                                           *)
Judge ==
  /\ phase = "browsers"
  /\ \E ws \in {open, {}} :
       LET bs      == {b \in Browser : grace = 0 /\ Windows(b, ws) # {}}
           ages    == SeenNow({b \in bs : ~Compliant(b)})
           entries == [b \in Browser |-> IF b \in bs THEN Compared(b, ws) ELSE tracked[b]]
           guilty  == Silent(bs, ages) \cup Unmonitored(bs, ws)
       IN  /\ Listed(ws)
           /\ IF guilty = {} THEN End(entries, ages)
              ELSE \E pick \in [guilty -> ws] :
                     /\ \A b \in guilty : PidOf[pick[b]] = b
                     /\ todo' = {pick[b] : b \in guilty}
                     /\ phase' = "closing" /\ tracked' = entries /\ firstSeen' = ages
                     /\ UNCHANGED daemon
  /\ UNCHANGED <<open, banned, enforced, browserVars, grace, idle>>

(* One window is closed.                                                     *)
CloseBrowser(w) ==
  /\ phase = "closing" /\ w \in todo
  /\ Close(w) /\ todo' = todo \ {w}
  /\ UNCHANGED <<banned, enforced, browserVars, daemon, tracked, firstSeen, grace, phase, idle>>

EndCheck ==
  /\ phase = "closing" /\ todo = {}
  /\ End(tracked, firstSeen)
  /\ UNCHANGED <<open, banned, enforced, browserVars, grace, idle, events>>

-------------------------------------------------------------------------------
(* The daemon's process keeps the tracker in memory only.                    *)
Die ==
  /\ daemon # "down" /\ Event
  /\ daemon' = "down"
  /\ tracked' = [b \in Browser |-> Null] /\ firstSeen' = [b \in Browser |-> Null] /\ grace' = 0
  /\ phase' = "idle" /\ todo' = {} /\ idle' = CheckEvery
  /\ credit' = [p \in Profile |-> 0]
  /\ UNCHANGED <<open, banned, enforced, running, sent, mail>>

(* lifespan starts the jobs, whose first check finds an empty tracker.      *)
StartUp ==
  /\ daemon = "down" /\ daemon' = "starting"
  /\ UNCHANGED <<open, banned, enforced, browserVars, tracked, firstSeen, grace, phase, todo,
                 idle, events>>

(* start_grace_period.                                                       *)
StartGrace ==
  /\ daemon = "up" /\ Event
  /\ grace' = GracePeriod
  /\ UNCHANGED <<open, banned, enforced, browserVars, daemon, tracked, firstSeen, phase, todo,
                 idle>>

-------------------------------------------------------------------------------
(* Users, blocks and settings.                                               *)
OpenWindow(w) ==
  /\ w \notin open /\ Event
  /\ open' = open \cup {w}
  /\ UNCHANGED <<banned, enforced, browserVars, daemonVars>>

UserCloses(w) ==
  /\ w \in open
  /\ open' = open \ {w}
  /\ UNCHANGED <<banned, enforced, browserVars, daemonVars, events>>

Ban ==
  /\ Event /\ banned' \in (Bans \cup {{}}) \ {banned}
  /\ UNCHANGED <<open, enforced, browserVars, daemonVars>>

SwitchEnforcement ==
  /\ Event /\ enforced' = ~enforced
  /\ UNCHANGED <<open, banned, browserVars, daemonVars>>

(* An extension starts, and owes a heartbeat at once, or stops.              *)
StartExtension(p) ==
  /\ p \notin running /\ mail[p] = Null /\ Event
  /\ running' = running \cup {p} /\ sent' = [sent EXCEPT ![p] = BeatEvery]
  /\ UNCHANGED <<open, banned, enforced, mail, credit, daemonVars>>

StopExtension(p) ==
  /\ p \in running /\ Event
  /\ running' = running \ {p} /\ sent' = [sent EXCEPT ![p] = BeatEvery]
  /\ credit' = [credit EXCEPT ![p] = 0]
  /\ UNCHANGED <<open, banned, enforced, mail, daemonVars>>

(* Time passes once every step that is due has been taken.                   *)
Older(age, last) == IF age = Null THEN Null ELSE Least(age + 1, last)

Tick ==
  /\ daemon = "down" \/ (phase = "idle" /\ idle < CheckEvery)
  /\ \A p \in Profile : mail[p] = Null /\ (p \in running => sent[p] < BeatEvery)
  /\ sent' = [p \in Profile |-> Least(sent[p] + 1, BeatEvery)]
  /\ tracked' = [b \in Browser |-> IF tracked[b] = Null THEN Null
                                   ELSE [tracked[b] EXCEPT !.age = Older(@, Forgotten)]]
  /\ firstSeen' = [b \in Browser |-> Older(firstSeen[b], Unseen)]
  /\ grace' = IF grace = 0 THEN 0 ELSE grace - 1
  /\ idle' = Least(idle + 1, CheckEvery)
  /\ UNCHANGED <<open, banned, enforced, running, mail, credit, daemon, phase, todo, events>>

-------------------------------------------------------------------------------
Beat == \E p \in Profile : Send(p) \/ Deliver(p)
Check ==
  \/ BeginCheck \/ AppsDone \/ Judge \/ EndCheck
  \/ \E w \in Window : LookAt(w) \/ CloseBrowser(w)
Happening ==
  \/ Die \/ StartGrace \/ Ban \/ SwitchEnforcement
  \/ \E w \in Window : OpenWindow(w) \/ UserCloses(w)
  \/ \E p \in Profile : Lose(p) \/ StartExtension(p) \/ StopExtension(p)

Next == Beat \/ Check \/ StartUp \/ Happening \/ Tick

(* The event loop keeps running the check and answering requests, systemd    *)
(* starts the daemon again, a running extension's alarms go off, and time    *)
(* passes.                                                                   *)
Fairness == WF_vars(Beat) /\ WF_vars(Check) /\ WF_vars(StartUp) /\ WF_vars(Tick)

Spec == Init /\ [][Next]_vars
FairSpec == Spec /\ Fairness

-------------------------------------------------------------------------------
(* A browser whose running extension this daemon has heard is not found      *)
(* silent, although it loses a beat in a row now and then, the timeout being *)
(* twice as long as the extension's interval: no check ends in a decision to *)
(* close it while its reported windows are not exceeded.                     *)
HeardIsSpared ==
  [][(\A b \in Browser :
        /\ phase = "browsers" /\ phase' = "closing"
        /\ \E p \in running : HostOf[p] = b /\ credit[p] > 0
        /\ \E w \in todo' : PidOf[w] = b
        => tracked'[b].mismatches = 2)]_vars

(* What is not allowed does not stay open.  The windows of a browser that    *)
(* runs no extension go sooner or later, or it runs one, or the enforcement  *)
(* is off; those of a blocked application go whether it is on or off.        *)
UnwantedIsClosed ==
  /\ \A b \in Browser :
       (enforced /\ Windows(b, open) # {} /\ (\A p \in running : HostOf[p] # b))
         ~> (~enforced \/ Windows(b, open) = {} \/ (\E p \in running : HostOf[p] = b))
  /\ \A w \in Window : (w \in open /\ w \in banned) ~> (w \notin open \/ w \notin banned)

(* A window the extension does not see (a guest's) does not stay open beside *)
(* one it sees, although heartbeats arrive in time.                          *)
Beside(b) ==
  /\ enforced
  /\ \E p \in running : HostOf[p] = b
  /\ \E v, w \in Windows(b, open) : SeenBy[v] # Null /\ SeenBy[w] = Null
GuestIsClosed == \A b \in Browser : Beside(b) ~> ~Beside(b)

===============================================================================

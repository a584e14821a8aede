---------------------------- MODULE WatchdogMesh ----------------------------
(***************************************************************************)
(* The watchdog mesh of watchdog.py: processes that watch the daemon and   *)
(* each other, and the daemon that starts and stops them.  They share one  *)
(* state file, which everybody changes by loading it, and replacing it     *)
(* later by what was loaded with something changed (the rename makes a     *)
(* save atomic; nothing makes the pair atomic).                            *)
(*                                                                         *)
(* The clock counts half minutes.  A watchdog's loop takes a second and is *)
(* modelled with the daemon's health, the siblings and the heartbeat in    *)
(* this order.  A pid is not given out again while it is listed.           *)
(***************************************************************************)
EXTENDS Integers, FiniteSets

CONSTANTS Pid,             \* processes that can become watchdogs
          Daemon, Systemd, \* the other parents a watchdog can have
          Count,           \* watchdog_count
          BeatEvery,       \* HEARTBEAT_INTERVAL ...
          BeatTimeout,     \* ... and HEARTBEAT_TIMEOUT, in half minutes
          FailThreshold,   \* DAEMON_FAIL_THRESHOLD
          Started,         \* the configurations the daemon may start with
          RootLayout,      \* is there a root enforcer?
          Budget           \* how often each fault and each request may occur

Faults == {"kill", "killDaemon", "stop", "fork"}
Requests == {"enable", "disable", "lock", "enforcer"}
Bounds == Faults \cup Requests \cup {"event", "restart", "again", "overlap", "delay"}
IsConfig(c) == c \in [prevention : BOOLEAN, watchdogs : BOOLEAN]

ASSUME MeshAssumption ==
  /\ {Daemon, Systemd} \cap Pid = {} /\ Daemon # Systemd
  /\ Pid \subseteq Nat /\ IsFiniteSet(Pid)
  /\ Count \in 2..5
  /\ BeatEvery \in Nat /\ BeatTimeout \in Nat /\ BeatEvery <= BeatTimeout
  /\ FailThreshold \in Nat \ {0}
  /\ \A c \in Started : IsConfig(c)
  /\ RootLayout \in BOOLEAN
  /\ Budget \in [Bounds -> Nat]

VARIABLES file,     \* the state file: the age of each listed pid's heartbeat, the flag
          status,   \* each process: free, runs, or zombie (dead, not waited for)
          parent,   \* who forked it
          wd,       \* what each watchdog knows
          daemon,   \* what the daemon is doing and knows
          config,   \* the saved configuration
          locked,   \* is the settings lock in force (by network time)?
          covered,  \* does the root enforcer's snapshot look alive?
          left      \* what is left of Budget

procs == <<status, parent>>
world == <<config, locked, covered>>
vars == <<file, procs, wd, daemon, world, left>>
-----------------------------------------------------------------------------
MaxAge == BeatTimeout + 1
Age == 0..MaxAge
Older(a) == IF a = MaxAge THEN a ELSE a + 1

Contents(list, shutdown) == [list |-> list, shutdown |-> shutdown]
Empty == Contents([p \in {} |-> 0], FALSE)
IsContents(f) == /\ DOMAIN f.list \subseteq Pid
                 /\ \A p \in DOMAIN f.list : f.list[p] \in Age
                 /\ f.shutdown \in BOOLEAN

(* A watchdog is at pc, has loaded copy, is to fork missing siblings, has  *)
(* seen the daemon fail fails times in a row, and updated its heartbeat    *)
(* beat half minutes ago.                                                  *)
WatchdogAt(pc, copy, missing, fails, beat) ==
  [pc |-> pc, copy |-> copy, missing |-> missing, fails |-> fails, beat |-> beat]
NewWatchdog == WatchdogAt("top", Empty, 0, 0, BeatEvery)

(* The daemon: what it is doing and for which request, what it has loaded, *)
(* whether its module holds a manager, and the copy of                     *)
(* shutdown_prevention_enabled that its signal handler asks.               *)
DaemonAt(pc, op, copy, manager, cache) ==
  [pc |-> pc, op |-> op, copy |-> copy, manager |-> manager, cache |-> cache]
Down == DaemonAt("down", "none", Empty, FALSE, FALSE)
Booting == DaemonAt("boot", "boot", Empty, FALSE, FALSE)

Init ==
  /\ file = Empty
  /\ status = [p \in Pid |-> "free"]
  /\ parent = [p \in Pid |-> Systemd]
  /\ wd = [p \in Pid |-> NewWatchdog]
  /\ daemon = Booting
  /\ config \in Started
  /\ locked = FALSE
  /\ covered \in {FALSE, RootLayout}
  /\ left = Budget

(* Every fault and every request also counts as an event.                  *)
Price(S) == IF S \cap (Faults \cup Requests) = {} THEN S ELSE S \cup {"event"}
Spends(S) ==
  /\ \A a \in Price(S) : left[a] > 0
  /\ left' = [a \in Bounds |-> IF a \in Price(S) THEN left[a] - 1 ELSE left[a]]

Running == {p \in Pid : status[p] = "runs"}
Listed == DOMAIN file.list

(* A pid that no process has and nobody has written down.                  *)
Unused == {q \in Pid : /\ status[q] = "free"
                       /\ q \notin Listed \cup DOMAIN daemon.copy.list
                       /\ \A p \in Running : q \notin DOMAIN wd[p].copy.list}

Fork(kids, who) ==
  /\ status' = [q \in Pid |-> IF q \in kids THEN "runs" ELSE status[q]]
  /\ parent' = [q \in Pid |-> IF q \in kids THEN who ELSE parent[q]]

(* Nobody waits for a forked watchdog: it stays a zombie until its parent  *)
(* ends and systemd takes over its children.                               *)
Ends(who) ==
  /\ status' = [q \in Pid |->
       CASE q = who -> IF parent[q] = Systemd THEN "free" ELSE "zombie"
         [] q # who /\ parent[q] = who /\ status[q] = "zombie" -> "free"
         [] OTHER -> status[q]]
  /\ parent' = [q \in Pid |->
       IF parent[q] = who THEN Systemd ELSE parent[q]]

(* is_process_alive: signal 0 also reaches a zombie.                       *)
Alive(p) == status[p] # "free"
-----------------------------------------------------------------------------
(* One iteration of a watchdog's loop.                                     *)

Goes(p, w) == wd' = [q \in Pid |-> IF q = p THEN w ELSE wd[q]]
At(p, pc) == p \in Running /\ wd[p].pc = pc
Moves(p, pc, fails) == Goes(p, WatchdogAt(pc, Empty, 0, fails, wd[p].beat))

(* Somebody is between a load and the save that follows it.  How often     *)
(* another load that is followed by a save may happen then is bounded.     *)
BetweenLoadAndSave ==
  daemon.pc = "flag" \/ \E p \in Running : wd[p].pc \in {"save", "stamp"}
Overlap == IF BetweenLoadAndSave THEN {"overlap"} ELSE {}

(* Does the daemon answer GET /api/status?                                 *)
Answers == daemon.pc # "down"

(* A watchdog looks at the daemon every five seconds, which is more than   *)
(* the daemon's startup takes: a look that fails during the startup is     *)
(* taken for one that failed right before it.                              *)
Looks(p) == At(p, "top") /\ ~(file.shutdown /\ ~locked) /\ daemon.op # "boot"

(* Faulty: only a watchdog that still finds itself in the list leaves.     *)
LeaveListed(p) ==
  /\ At(p, "top") /\ file.shutdown /\ ~locked /\ p \in Listed
  /\ Ends(p)
  /\ Goes(p, NewWatchdog)
  /\ UNCHANGED <<file, daemon, world, left>>

Leave(p) ==
  /\ At(p, "top") /\ file.shutdown /\ ~locked
  /\ Ends(p)
  /\ Goes(p, NewWatchdog)
  /\ UNCHANGED <<file, daemon, world, left>>

(* Faulty: only a process that does not exist is taken for dead.           *)
MissingGone(p, q) == q # p /\ ~Alive(q)

(* Does p take the listed process q for dead?                              *)
Missing(p, q) == q # p /\ (~Alive(q) \/ file.list[q] > BeatTimeout)

(* Faulty: the missing siblings stay in the list.                          *)
SiblingsKept(p, fails) ==
  WatchdogAt("save", Contents(file.list, file.shutdown),
             Cardinality({q \in Listed : Missing(p, q)}), fails, wd[p].beat)

(* p has loaded the list and dropped its missing siblings from it.         *)
SiblingsChecked(p, fails) ==
  LET kept == {q \in Listed : ~Missing(p, q)}
  IN WatchdogAt("save", Contents([q \in kept |-> file.list[q]], file.shutdown),
                Cardinality(Listed \ kept), fails, wd[p].beat)

(* Faulty: an answer does not reset the count.                             *)
DaemonOkCounts(p) ==
  /\ Looks(p)
  /\ Answers \/ wd[p].fails + 1 < FailThreshold
  /\ Spends(Overlap)
  /\ Goes(p, SiblingsChecked(p, wd[p].fails + 1))
  /\ UNCHANGED <<file, procs, daemon, world>>

(* Faulty: every look resets the count.                                    *)
DaemonOkForgets(p) ==
  /\ Looks(p)
  /\ Answers \/ wd[p].fails + 1 < FailThreshold
  /\ Spends(Overlap)
  /\ Goes(p, SiblingsChecked(p, 0))
  /\ UNCHANGED <<file, procs, daemon, world>>

(* The daemon answers, or has not failed often enough yet; the siblings    *)
(* are next.                                                               *)
DaemonOk(p) ==
  /\ Looks(p)
  /\ Answers \/ wd[p].fails + 1 < FailThreshold
  /\ Spends(Overlap)
  /\ Goes(p, SiblingsChecked(p, IF Answers THEN 0 ELSE wd[p].fails + 1))
  /\ UNCHANGED <<file, procs, daemon, world>>

DaemonLost(p) ==
  /\ Looks(p)
  /\ ~Answers /\ wd[p].fails + 1 >= FailThreshold
  /\ Moves(p, "restart", FailThreshold)
  /\ UNCHANGED <<file, procs, daemon, world, left>>

(* A daemon that obeys SIGTERM: with shutdown prevention off it tells its  *)
(* mesh to leave before it ends.                                           *)
Obeys(op, cost) ==
  IF daemon.manager /\ ~config.prevention /\ ~locked
  THEN /\ daemon' = DaemonAt("flag", op, file, TRUE, daemon.cache)
       /\ Spends(cost \cup Overlap)
       /\ UNCHANGED procs
  ELSE /\ daemon' = IF op = "exit" THEN Down ELSE Booting
       /\ Spends(cost)
       /\ Ends(Daemon)

(* systemctl restart.  That it hits a daemon which is up again already is  *)
(* bounded.                                                                *)
RestartDaemon(p) ==
  /\ At(p, "restart")
  /\ \/ daemon.pc = "down" /\ daemon' = Booting /\ UNCHANGED <<procs, left>>
     \/ daemon.pc \in {"boot", "idle"} /\ ~daemon.cache /\ Obeys("reboot", {"again"})
  /\ Moves(p, "siblings", 0)
  /\ UNCHANGED <<file, world>>

(* One that ignores SIGTERM makes the call time out; it may also fail.     *)
RestartFails(p) ==
  /\ At(p, "restart")
  /\ \/ daemon.pc # "down" /\ daemon.cache /\ UNCHANGED left
     \/ Spends({"restart"})
  /\ Moves(p, "siblings", wd[p].fails)
  /\ UNCHANGED <<file, procs, daemon, world>>

CheckSiblings(p) ==
  /\ At(p, "siblings") /\ Spends(Overlap)
  /\ Goes(p, SiblingsChecked(p, wd[p].fails))
  /\ UNCHANGED <<file, procs, daemon, world>>

(* The pids that n forks get, the lowest ones.  A fork may fail.           *)
Lowest(n) == {p \in Unused : Cardinality({q \in Unused : q < p}) < n}

Forks(n, kids) ==
  \/ n <= Cardinality(Unused) /\ kids = Lowest(n) /\ UNCHANGED left
  \/ \E m \in 0..(n - 1) : kids = Lowest(m) /\ Spends({"fork"})

(* The missing siblings are forked, and the list saved long before a child *)
(* has started its interpreter and loads it.                               *)
SaveSiblings(p) ==
  /\ At(p, "save")
  /\ \E kids \in {Lowest(n) : n \in 0..wd[p].missing} :
       /\ Forks(wd[p].missing, kids)
       /\ Fork(kids, p)
       /\ file' = Contents([q \in DOMAIN wd[p].copy.list \cup kids |->
                              IF q \in kids THEN 0 ELSE wd[p].copy.list[q]],
                           wd[p].copy.shutdown)
  /\ Moves(p, IF wd[p].beat >= BeatEvery THEN "beat" ELSE "top", wd[p].fails)
  /\ UNCHANGED <<daemon, world>>

(* Faulty: a new state is written, not the loaded one.                     *)
LoadForBeatFresh(p) ==
  /\ At(p, "beat") /\ Spends(Overlap)
  /\ Goes(p, WatchdogAt("stamp",
                        Contents([q \in Listed |-> IF q = p THEN 0 ELSE file.list[q]], FALSE),
                        0, wd[p].fails, 0))
  /\ UNCHANGED <<file, procs, daemon, world>>

LoadForBeat(p) ==
  /\ At(p, "beat") /\ Spends(Overlap)
  /\ Goes(p, WatchdogAt("stamp",
                        Contents([q \in Listed |-> IF q = p THEN 0 ELSE file.list[q]], file.shutdown),
                        0, wd[p].fails, 0))
  /\ UNCHANGED <<file, procs, daemon, world>>

SaveBeat(p) ==
  /\ At(p, "stamp")
  /\ file' = wd[p].copy
  /\ Moves(p, "top", wd[p].fails)
  /\ UNCHANGED <<procs, daemon, world, left>>
-----------------------------------------------------------------------------
(* The daemon.  Its handlers and its job run without an await from the     *)
(* first change to the last, so it does one of them at a time.             *)

MeshWanted == config.prevention /\ config.watchdogs /\ ~covered

Does(pc, op) == daemon' = DaemonAt(pc, op, Empty, daemon.manager, daemon.cache)

(* lifespan: a mesh if one is wanted, and a first schedule check.          *)
Boot ==
  /\ daemon.pc = "boot"
  /\ daemon' = IF MeshWanted THEN DaemonAt("spawn", "boot", Empty, TRUE, FALSE)
               ELSE DaemonAt("idle", "boot", Empty, FALSE, FALSE)
  /\ UNCHANGED <<file, procs, wd, world, left>>

(* spawn_watchdogs: what was in the file is not used.                      *)
Spawn ==
  /\ daemon.pc = "spawn"
  /\ \E kids \in {Lowest(n) : n \in 0..Count} :
       /\ Forks(Count, kids)
       /\ Fork(kids, Daemon)
       /\ file' = Contents([p \in kids |-> 0], FALSE)
  /\ CASE daemon.op = "enable" -> Does("store", "enable")
       [] daemon.op = "boot"   -> Does("idle", "boot")
       [] OTHER                -> Does("idle", "none")
  /\ UNCHANGED <<wd, world>>

(* schedule_check_job: refresh the cached setting, and start a mesh that   *)
(* is wanted and does not seem to be there.                                *)
MeshSeemsUp == daemon.manager /\ \E p \in Listed : Alive(p)

ScheduleCheck ==
  /\ daemon.pc = "idle"
  /\ daemon' = IF MeshWanted /\ ~MeshSeemsUp
               THEN DaemonAt("spawn", "check", Empty, TRUE, config.prevention)
               ELSE DaemonAt("idle", "none", Empty, daemon.manager, config.prevention)
  /\ UNCHANGED <<file, procs, wd, world, left>>

Ready == daemon.pc = "idle" /\ daemon.op = "none"

(* PUT /watchdog and PUT /shutdown-prevention.  The handler's own manager  *)
(* is not the module's.                                                    *)
EnableWatchdogs ==
  /\ Ready /\ config.prevention /\ ~config.watchdogs
  /\ Spends({"enable"})
  /\ Does("spawn", "enable")
  /\ UNCHANGED <<file, procs, wd, world>>

EnablePrevention ==
  /\ Ready /\ ~config.prevention
  /\ Spends({"enable"})
  /\ Does("store", "protect")
  /\ UNCHANGED <<file, procs, wd, world>>

(* signal_shutdown loads here and saves in SaveFlag.                       *)
DisableWatchdogs ==
  /\ Ready /\ config.watchdogs /\ ~locked
  /\ Spends({"disable"} \cup Overlap)
  /\ \E op \in {"disable", "unprotect"} :
       daemon' = DaemonAt("flag", op, file, daemon.manager, daemon.cache)
  /\ UNCHANGED <<file, procs, wd, world>>

DisablePrevention ==
  /\ Ready /\ config.prevention /\ ~config.watchdogs /\ ~locked
  /\ Spends({"disable"})
  /\ Does("store", "unprotect")
  /\ UNCHANGED <<file, procs, wd, world>>

SaveFlag ==
  /\ daemon.pc = "flag"
  /\ file' = Contents(daemon.copy.list, TRUE)
  /\ CASE daemon.op = "exit"   -> daemon' = Down /\ Ends(Daemon)
       [] daemon.op = "reboot" -> daemon' = Booting /\ Ends(Daemon)
       [] OTHER                -> Does("store", daemon.op) /\ UNCHANGED procs
  /\ UNCHANGED <<wd, world, left>>

(* save_config: only now does the change survive a restart.                *)
Configured(op) ==
  CASE op = "enable"    -> [prevention |-> config.prevention, watchdogs |-> TRUE]
    [] op = "disable"   -> [prevention |-> config.prevention, watchdogs |-> FALSE]
    [] op = "protect"   -> [prevention |-> TRUE, watchdogs |-> config.watchdogs]
    [] op = "unprotect" -> [prevention |-> FALSE, watchdogs |-> FALSE]

StoreConfig ==
  /\ daemon.pc = "store"
  /\ config' = Configured(daemon.op)
  /\ Does("idle", "none")
  /\ UNCHANGED <<file, procs, wd, locked, covered, left>>

(* SIGTERM, from systemctl stop.                                           *)
Stop ==
  /\ daemon.pc = "idle" /\ ~daemon.cache
  /\ Obeys("exit", {"stop"})
  /\ UNCHANGED <<file, wd, world>>
-----------------------------------------------------------------------------
(* The surroundings.                                                       *)

(* kill -9 of a watchdog; an unlocked one obeys SIGTERM with the same      *)
(* effect.                                                                 *)
Kill(p) ==
  /\ p \in Running /\ Spends({"kill"})
  /\ Ends(p) /\ Goes(p, NewWatchdog)
  /\ UNCHANGED <<file, daemon, world>>

KillDaemon ==
  /\ daemon.pc # "down" /\ Spends({"killDaemon"})
  /\ daemon' = Down /\ Ends(Daemon)
  /\ UNCHANGED <<file, wd, world>>

(* Restart=always: systemd may start it again, but not after systemctl     *)
(* stop, so nothing depends on it.                                         *)
SystemdStarts ==
  /\ daemon.pc = "down"
  /\ daemon' = Booting
  /\ UNCHANGED <<file, procs, wd, world, left>>

Lock ==
  /\ Ready /\ ~locked /\ Spends({"lock"})
  /\ locked' = TRUE
  /\ UNCHANGED <<file, procs, wd, daemon, config, covered>>

Unlock ==
  /\ locked /\ locked' = FALSE
  /\ UNCHANGED <<file, procs, wd, daemon, config, covered, left>>

EnforcerChanges ==
  /\ RootLayout /\ Spends({"enforcer"})
  /\ covered' = ~covered
  /\ UNCHANGED <<file, procs, wd, daemon, config, locked>>

(* Half a minute passes.  Everybody is between two iterations by then, but *)
(* a call of systemctl may hold a watchdog up until its own heartbeat is   *)
(* too old; how often it does is bounded.                                  *)
Held == {p \in Running : wd[p].pc = "restart" /\ wd[p].beat <= BeatTimeout}

Tick ==
  /\ Ready \/ daemon.pc = "down"
  /\ \A p \in Running \ Held : wd[p].pc = "top" /\ wd[p].beat < BeatEvery
  /\ Spends(IF Held = {} THEN {} ELSE {"delay"})
  /\ file' = Contents([p \in Listed |-> Older(file.list[p])], file.shutdown)
  /\ wd' = [p \in Pid |-> IF p \in Running
                          THEN WatchdogAt(wd[p].pc, Empty, 0, wd[p].fails, Older(wd[p].beat))
                          ELSE wd[p]]
  /\ UNCHANGED <<procs, daemon, world>>

Iterate(p) ==
  \/ Leave(p) \/ DaemonOk(p) \/ DaemonLost(p) \/ RestartDaemon(p) \/ RestartFails(p)
  \/ CheckSiblings(p) \/ SaveSiblings(p)
  \/ LoadForBeat(p) \/ SaveBeat(p)

DaemonWorks == Boot \/ Spawn \/ ScheduleCheck \/ SaveFlag \/ StoreConfig

Next ==
  \/ \E p \in Pid : Iterate(p) \/ Kill(p)
  \/ DaemonWorks
  \/ EnableWatchdogs \/ EnablePrevention \/ DisableWatchdogs \/ DisablePrevention
  \/ Stop \/ KillDaemon \/ SystemdStarts
  \/ Lock \/ Unlock \/ EnforcerChanges
  \/ Tick

Spec == Init /\ [][Next]_vars

(* Processes are scheduled, the daemon finishes what it began and its job  *)
(* comes round, and time goes on.  Nothing is assumed of systemd.          *)
FairSpec == /\ Spec
            /\ \A p \in Pid : WF_vars(Iterate(p))
            /\ WF_vars(DaemonWorks)
            /\ SF_vars(Tick)
-----------------------------------------------------------------------------
IsWatchdog(w) ==
  /\ w.pc \in {"top", "restart", "siblings", "save", "beat", "stamp"}
  /\ IsContents(w.copy) /\ w.missing \in 0..Count
  /\ w.fails \in 0..FailThreshold /\ w.beat \in Age

IsDaemon(d) ==
  /\ d.pc \in {"down", "boot", "idle", "spawn", "flag", "store"}
  /\ d.op \in {"none", "boot", "check", "enable", "disable", "protect", "unprotect", "exit", "reboot"}
  /\ IsContents(d.copy) /\ d.manager \in BOOLEAN /\ d.cache \in BOOLEAN

(* The state has the types the code gives it; a process that has a parent  *)
(* other than systemd exists, and so does that parent.                     *)
TypeOK ==
  /\ IsContents(file)
  /\ status \in [Pid -> {"free", "runs", "zombie"}]
  /\ \A p \in Pid : IsWatchdog(wd[p])
  /\ IsDaemon(daemon) /\ IsConfig(config)
  /\ locked \in BOOLEAN /\ covered \in BOOLEAN
  /\ left \in [Bounds -> Nat]
  /\ \A p \in Pid : /\ parent[p] # Systemd => status[p] # "free"
                    /\ parent[p] = Daemon => daemon.pc # "down"
                    /\ parent[p] \in Pid => status[parent[p]] = "runs"

(* The list never loses a place: whatever the watchdogs and the daemon     *)
(* overwrite of each other's saves, it has Count entries once a mesh was   *)
(* started, as long as no fork fails.                                      *)
MeshKeepsSize ==
  left["fork"] = Budget["fork"] /\ Listed # {} => Cardinality(Listed) = Count

(* The shutdown flag has arrived: it is in the file, and nobody is about   *)
(* to save a copy without it.                                              *)
FlagSettled ==
  /\ file.shutdown
  /\ \A p \in Running : wd[p].pc \in {"save", "stamp"} => wd[p].copy.shutdown
  /\ daemon.pc # "spawn"

(* From then on nothing but the start of a new mesh takes it back.         *)
FlagSticks == [][FlagSettled /\ ~FlagSettled' => daemon'.pc = "spawn"]_vars

(* And the mesh ends, whoever respawns whom on the way, unless a settings  *)
(* lock keeps it or a new one is started.                                  *)
FlagEndsMesh == FlagSettled ~> Running = {} \/ locked \/ ~FlagSettled

(* A listed watchdog that died is replaced in the list, also when it stays *)
(* a zombie and only its heartbeat tells, as long as one is left to do so. *)
DeadIsReplaced == []<>(Listed \subseteq Running \/ Running = {})

(* A daemon that was killed is brought back by any watchdog that is left.  *)
DaemonComesBack == daemon.pc = "down" ~> (daemon.pc # "down" \/ Running = {})

(* Disabling the watchdogs ends them: the flag makes them exit.            *)
DisableEndsMesh ==
  ~config.watchdogs ~> (Running = {} \/ locked \/ config.watchdogs)

=============================================================================

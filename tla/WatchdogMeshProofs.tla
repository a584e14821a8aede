------------------------- MODULE WatchdogMeshProofs -------------------------
(***************************************************************************)
(* Once the shutdown flag has settled in the state file, no load, save,    *)
(* kill, fork or restart takes it back: only the start of a new mesh does. *)
(* The one fact this rests on is that a forked process begins with nothing *)
(* loaded, so that it cannot save a copy from before the flag.             *)
(*                                                                         *)
(* And although the processes overwrite each other's saves of the file,    *)
(* the list in it keeps its size while no fork fails: every copy of it is  *)
(* empty or has the size of a mesh, once the siblings that its owner is    *)
(* about to fork are counted (Data), and a fork makes as many processes as *)
(* it is asked for, since the n lowest of the unused pids are n.           *)
(***************************************************************************)
EXTENDS WatchdogMesh, FiniteSetTheorems, TLAPS

(* A process that does not run is at the top of the loop: a new watchdog   *)
(* begins there, whatever a former one was doing.                          *)
IdleAtTop == \A p \in Pid : status[p] # "runs" => wd[p].pc = "top"

(* Nobody is about to save a copy without the flag.                        *)
CopiesHaveFlag ==
  \A p \in Running : wd[p].pc \in {"save", "stamp"} => wd[p].copy.shutdown

(* What the constructors put into a record.                                *)
LEMMA Fields ==
  /\ \A list, shutdown : Contents(list, shutdown).shutdown = shutdown
  /\ \A pc, copy, missing, fails, beat :
       /\ WatchdogAt(pc, copy, missing, fails, beat).pc = pc
       /\ WatchdogAt(pc, copy, missing, fails, beat).copy = copy
  /\ \A pc, op, copy, manager, cache : DaemonAt(pc, op, copy, manager, cache).pc = pc
  /\ NewWatchdog.pc = "top"
BY DEF Contents, WatchdogAt, DaemonAt, NewWatchdog

(* When a process ends nobody begins to run, and the process itself stops  *)
(* if it is a watchdog.                                                    *)
LEMMA EndsStops ==
  ASSUME NEW who, Ends(who), NEW q \in Pid
  PROVE  /\ status'[q] = "runs" => status[q] = "runs" /\ q # who
         /\ status'[q] # "runs" /\ q # who => status[q] # "runs"
BY DEF Ends

(* Who runs after a fork ran before, or is one of the new processes.       *)
LEMMA ForkStarts ==
  ASSUME NEW kids, NEW who, Fork(kids, who), NEW q \in Pid
  PROVE  /\ status'[q] = "runs" => status[q] = "runs" \/ q \in kids
         /\ status'[q] # "runs" => status[q] # "runs"
BY DEF Fork

(* The pids a fork takes were never used.                                  *)
LEMMA KidsAreFree ==
  ASSUME NEW n, NEW kids, kids = Lowest(n)
  PROVE  \A q \in kids : q \in Pid /\ status[q] = "free"
BY DEF Lowest, Unused

-----------------------------------------------------------------------------
(* No watchdog runs at the start.                                          *)
LEMMA IdleInit == Init => IdleAtTop
BY Fields DEF Init, IdleAtTop

(* A process that is killed, leaves or is forked goes back to the top.     *)
LEMMA IdleStep == IdleAtTop /\ [Next]_vars => IdleAtTop'
<1> SUFFICES ASSUME IdleAtTop, [Next]_vars, NEW q \in Pid, status'[q] # "runs"
             PROVE  wd'[q].pc = "top"
  BY DEF IdleAtTop
<1>1. ASSUME NEW p \in Pid, Iterate(p) PROVE wd'[q].pc = "top"
  <2>1. CASE Leave(p)
    BY <2>1, Fields, EndsStops DEF Leave, Goes, IdleAtTop
  <2>2. CASE DaemonOk(p)
    BY <2>2 DEF DaemonOk, Looks, At, Goes, Running, procs, IdleAtTop
  <2>3. CASE DaemonLost(p)
    BY <2>3 DEF DaemonLost, Looks, At, Moves, Goes, Running, procs, IdleAtTop
  <2>4. CASE RestartDaemon(p)
    <3>1. status[p] = "runs"
      BY <2>4 DEF RestartDaemon, At, Running
    <3>2. UNCHANGED procs \/ Ends(Daemon)
      BY <2>4 DEF RestartDaemon, Obeys
    <3>3. q = p => status'[q] = "runs"
      BY <3>1, <3>2, MeshAssumption DEF Ends, procs
    <3>4. status[q] # "runs" /\ q # p
      BY <3>2, <3>3, EndsStops, MeshAssumption DEF procs
    <3> QED BY <2>4, <3>4 DEF RestartDaemon, Moves, Goes, IdleAtTop
  <2>5. CASE RestartFails(p)
    BY <2>5 DEF RestartFails, At, Moves, Goes, Running, procs, IdleAtTop
  <2>6. CASE CheckSiblings(p)
    BY <2>6 DEF CheckSiblings, At, Goes, Running, procs, IdleAtTop
  <2>7. CASE SaveSiblings(p)
    <3>1. status[p] = "runs"
      BY <2>7 DEF SaveSiblings, At, Running
    <3>2. PICK kids : Fork(kids, p)
      BY <2>7 DEF SaveSiblings
    <3>3. status[q] # "runs"
      BY <3>2, ForkStarts
    <3> QED BY <2>7, <3>1, <3>3 DEF SaveSiblings, Moves, Goes, IdleAtTop
  <2>8. CASE LoadForBeat(p)
    BY <2>8 DEF LoadForBeat, At, Goes, Running, procs, IdleAtTop
  <2>9. CASE SaveBeat(p)
    BY <2>9 DEF SaveBeat, At, Moves, Goes, Running, procs, IdleAtTop
  <2> QED BY <1>1, <2>1, <2>2, <2>3, <2>4, <2>5, <2>6, <2>7, <2>8, <2>9 DEF Iterate
<1>2. ASSUME NEW p \in Pid, Kill(p) PROVE wd'[q].pc = "top"
  BY <1>2, Fields, EndsStops DEF Kill, Goes, IdleAtTop
<1>3. CASE Spawn
  <2>1. PICK kids : Fork(kids, Daemon)
    BY <1>3 DEF Spawn
  <2>2. status[q] # "runs"
    BY <2>1, ForkStarts
  <2> QED BY <1>3, <2>2 DEF Spawn, IdleAtTop
<1>4. ASSUME Ends(Daemon) \/ UNCHANGED procs, UNCHANGED wd PROVE wd'[q].pc = "top"
  <2>1. status[q] # "runs"
    BY <1>4, EndsStops, MeshAssumption DEF procs
  <2> QED BY <1>4, <2>1 DEF IdleAtTop
<1>5. CASE Boot \/ ScheduleCheck \/ StoreConfig \/ SystemdStarts
  BY <1>4, <1>5 DEF Boot, ScheduleCheck, StoreConfig, SystemdStarts, procs
<1>6. CASE SaveFlag
  BY <1>4, <1>6 DEF SaveFlag
<1>7. CASE EnableWatchdogs \/ EnablePrevention \/ DisableWatchdogs \/ DisablePrevention
  BY <1>4, <1>7
     DEF EnableWatchdogs, EnablePrevention, DisableWatchdogs, DisablePrevention
<1>8. CASE Stop
  BY <1>4, <1>8 DEF Stop, Obeys
<1>9. CASE KillDaemon
  BY <1>4, <1>9 DEF KillDaemon
<1>10. CASE Lock \/ Unlock \/ EnforcerChanges
  BY <1>4, <1>10 DEF Lock, Unlock, EnforcerChanges
<1>11. CASE Tick
  BY <1>11 DEF Tick, Running, procs, IdleAtTop
<1>12. CASE UNCHANGED vars
  BY <1>4, <1>12 DEF vars
<1> QED BY <1>1, <1>2, <1>3, <1>5, <1>6, <1>7, <1>8, <1>9, <1>10, <1>11, <1>12
        DEF Next, DaemonWorks

(* Every forked watchdog begins at the top of its loop.                    *)
THEOREM NewWatchdogsStartFresh == Spec => []IdleAtTop
BY IdleInit, IdleStep, PTL DEF Spec

-----------------------------------------------------------------------------
(* A step keeps the flag in the copies when it keeps it in those of the    *)
(* processes that run afterwards.                                          *)
LEMMA FlagKept ==
  ASSUME CopiesHaveFlag, IdleAtTop, wd' = wd,
         \A q \in Pid : status'[q] = "runs" => status[q] = "runs" \/ status[q] = "free"
  PROVE  CopiesHaveFlag'
BY DEF CopiesHaveFlag, IdleAtTop, Running

(* The same when p moves to w and nobody is forked but free processes.     *)
LEMMA FlagKeptMoving ==
  ASSUME NEW p, NEW w, CopiesHaveFlag, IdleAtTop, Goes(p, w),
         w.pc \in {"save", "stamp"} => w.copy.shutdown,
         \A q \in Pid : status'[q] = "runs" => status[q] = "runs" \/ status[q] = "free"
  PROVE  CopiesHaveFlag'
BY DEF CopiesHaveFlag, IdleAtTop, Running, Goes

(* Whoever saves the file saves what it loaded, and that has the flag.     *)
LEMMA FlagStep ==
  ASSUME IdleAtTop, FlagSettled, [Next]_vars
  PROVE  file'.shutdown /\ CopiesHaveFlag'
<1>0. file.shutdown /\ CopiesHaveFlag /\ daemon.pc # "spawn"
  BY DEF FlagSettled, CopiesHaveFlag
<1>1. ASSUME NEW p \in Pid, Iterate(p) PROVE file'.shutdown /\ CopiesHaveFlag'
  <2>0. CASE Leave(p)
    BY <1>0, <2>0, Fields, EndsStops, FlagKeptMoving DEF Leave
  <2>1. ASSUME NEW fails PROVE SiblingsChecked(p, fails).copy.shutdown
    BY <1>0 DEF SiblingsChecked, WatchdogAt, Contents
  <2>2. CASE DaemonOk(p) \/ CheckSiblings(p)
    <3>1. PICK fails : Goes(p, SiblingsChecked(p, fails))
      BY <2>2 DEF DaemonOk, CheckSiblings
    <3>2. UNCHANGED <<file, procs>>
      BY <2>2 DEF DaemonOk, CheckSiblings
    <3> QED BY <1>0, <2>1, <3>1, <3>2, FlagKeptMoving DEF procs
  <2>3. ASSUME NEW pc, NEW fails, Moves(p, pc, fails), pc \notin {"save", "stamp"},
               \A q \in Pid : status'[q] = "runs" => status[q] = "runs" \/ status[q] = "free"
        PROVE  CopiesHaveFlag'
    BY <1>0, <2>3, Fields, FlagKeptMoving DEF Moves
  <2>4. CASE DaemonLost(p) \/ RestartFails(p)
    BY <1>0, <2>3, <2>4 DEF DaemonLost, RestartFails, procs
  <2>5. CASE RestartDaemon(p)
    <3>1. UNCHANGED procs \/ Ends(Daemon)
      BY <2>5 DEF RestartDaemon, Obeys
    <3>2. \A q \in Pid : status'[q] = "runs" => status[q] = "runs"
      BY <3>1, EndsStops DEF procs
    <3> QED BY <1>0, <2>3, <2>5, <3>2 DEF RestartDaemon
  <2>6. CASE SaveSiblings(p)
    <3>1. p \in Running /\ wd[p].pc = "save"
      BY <2>6 DEF SaveSiblings, At
    <3>2. wd[p].copy.shutdown
      BY <1>0, <3>1 DEF CopiesHaveFlag
    <3>3. file'.shutdown
      BY <2>6, <3>2, Fields DEF SaveSiblings
    <3>4. PICK n, kids : kids = Lowest(n) /\ Fork(kids, p)
      BY <2>6 DEF SaveSiblings
    <3>5. \A q \in Pid : status'[q] = "runs" => status[q] = "runs" \/ status[q] = "free"
      BY <3>4, ForkStarts, KidsAreFree
    <3>6. PICK pc, fails : Moves(p, pc, fails) /\ pc \in {"beat", "top"}
      BY <2>6 DEF SaveSiblings
    <3> QED BY <2>3, <3>3, <3>5, <3>6
  <2>7. CASE LoadForBeat(p)
    <3>1. PICK list : Goes(p, WatchdogAt("stamp", Contents(list, file.shutdown),
                                          0, wd[p].fails, 0))
      BY <2>7 DEF LoadForBeat
    <3>2. WatchdogAt("stamp", Contents(list, file.shutdown), 0, wd[p].fails, 0).copy.shutdown
      BY <1>0 DEF WatchdogAt, Contents
    <3> QED BY <1>0, <2>7, <3>1, <3>2, FlagKeptMoving DEF LoadForBeat, procs
  <2>8. CASE SaveBeat(p)
    <3>1. wd[p].copy.shutdown
      BY <1>0, <2>8 DEF SaveBeat, At, CopiesHaveFlag
    <3> QED BY <2>3, <2>8, <3>1 DEF SaveBeat, procs
  <2> QED BY <1>1, <2>0, <2>2, <2>4, <2>5, <2>6, <2>7, <2>8 DEF Iterate
<1>2. ASSUME NEW p \in Pid, Kill(p) PROVE file'.shutdown /\ CopiesHaveFlag'
  BY <1>0, <1>2, Fields, EndsStops, FlagKeptMoving DEF Kill
<1>3. ASSUME Ends(Daemon) \/ UNCHANGED procs, UNCHANGED wd PROVE CopiesHaveFlag'
  BY <1>0, <1>3, EndsStops, FlagKept DEF procs
<1>4. CASE Boot \/ ScheduleCheck \/ StoreConfig \/ SystemdStarts
  BY <1>0, <1>3, <1>4 DEF Boot, ScheduleCheck, StoreConfig, SystemdStarts
<1>5. ~Spawn
  BY <1>0 DEF Spawn
<1>6. CASE SaveFlag
  BY <1>3, <1>6, Fields DEF SaveFlag
<1>7. CASE EnableWatchdogs \/ EnablePrevention \/ DisableWatchdogs \/ DisablePrevention
  BY <1>0, <1>3, <1>7
     DEF EnableWatchdogs, EnablePrevention, DisableWatchdogs, DisablePrevention
<1>8. CASE Stop
  BY <1>0, <1>3, <1>8 DEF Stop, Obeys
<1>9. CASE KillDaemon
  BY <1>0, <1>3, <1>9 DEF KillDaemon
<1>10. CASE Lock \/ Unlock \/ EnforcerChanges
  BY <1>0, <1>3, <1>10 DEF Lock, Unlock, EnforcerChanges
<1>11. CASE Tick
  <2>1. \A p \in Running : wd'[p].pc = wd[p].pc
    BY <1>11, Fields DEF Tick, Running
  <2>2. \A p \in Running : wd[p].pc \in {"top", "restart"}
    BY <1>11 DEF Tick, Held
  <2>3. CopiesHaveFlag'
    BY <1>11, <2>1, <2>2 DEF Tick, CopiesHaveFlag, Running, procs
  <2> QED BY <1>0, <1>11, <2>3, Fields DEF Tick
<1>12. CASE UNCHANGED vars
  BY <1>0, <1>3, <1>12 DEF vars
<1> QED BY <1>1, <1>2, <1>4, <1>5, <1>6, <1>7, <1>8, <1>9, <1>10, <1>11, <1>12
        DEF Next, DaemonWorks

(* A flag that has settled is taken back by the start of a new mesh only.  *)
THEOREM SettledFlagSticks == Spec => FlagSticks
<1>1. IdleAtTop /\ [Next]_vars
        => [FlagSettled /\ ~FlagSettled' => daemon'.pc = "spawn"]_vars
  BY FlagStep DEF FlagSettled, CopiesHaveFlag
<1> QED BY <1>1, NewWatchdogsStartFresh, PTL DEF Spec, FlagSticks

-----------------------------------------------------------------------------
(* The n lowest of a set of numbers are n, if it has so many, and never    *)
(* more: the rank of a number counts those below it.                       *)
Below(U, p) == {q \in U : q < p}
Rank(U, p) == Cardinality(Below(U, p))
Low(U, n) == {p \in U : Rank(U, p) < n}

(* The members below one are some of the others.                           *)
LEMMA RankIsNumber ==
  ASSUME NEW U \in SUBSET Nat, IsFiniteSet(U), NEW p \in U
  PROVE  /\ IsFiniteSet(Below(U, p))
         /\ Rank(U, p) \in 0..(Cardinality(U) - 1)
<1>1. Below(U, p) \in SUBSET U /\ Below(U, p) # U
  BY DEF Below
<1>2. /\ IsFiniteSet(Below(U, p)) /\ Rank(U, p) <= Cardinality(U)
      /\ Rank(U, p) # Cardinality(U)
  BY <1>1, FS_Subset DEF Rank
<1>3. Rank(U, p) \in Nat /\ Cardinality(U) \in Nat
  BY <1>2, FS_CardinalityType DEF Rank
<1> QED BY <1>2, <1>3

(* What is below the smaller of two is below the larger.                   *)
LEMMA RankGrows ==
  ASSUME NEW U \in SUBSET Nat, IsFiniteSet(U), NEW p \in U, NEW q \in U, p < q
  PROVE  Rank(U, p) < Rank(U, q)
<1>1. Below(U, p) \subseteq Below(U, q)
  <2> SUFFICES ASSUME NEW x \in U, x < p PROVE x < q
    BY DEF Below
  <2>1. x \in Nat /\ p \in Nat /\ q \in Nat
    OBVIOUS
  <2> QED BY <2>1
<1>2. p \in Below(U, q) /\ p \notin Below(U, p)
  BY DEF Below
<1>3. IsFiniteSet(Below(U, q))
  BY RankIsNumber
<1>4. Rank(U, p) <= Rank(U, q) /\ Rank(U, p) # Rank(U, q)
  BY <1>1, <1>2, <1>3, FS_Subset DEF Rank
<1>5. Rank(U, p) \in 0..(Cardinality(U) - 1) /\ Rank(U, q) \in 0..(Cardinality(U) - 1)
  BY RankIsNumber
<1> QED BY <1>4, <1>5

(* The ranks of a set of c numbers are 0 to c - 1, each once; the n lowest *)
(* are those with ranks 0 to n - 1.                                        *)
LEMMA LowCount ==
  ASSUME NEW U \in SUBSET Nat, IsFiniteSet(U), NEW n \in Nat
  PROVE  /\ IsFiniteSet(Low(U, n)) /\ Cardinality(Low(U, n)) <= n
         /\ n <= Cardinality(U) => Cardinality(Low(U, n)) = n
<1> DEFINE card == Cardinality(U)
           rank == [p \in U |-> Rank(U, p)]
           low == [p \in Low(U, n) |-> Rank(U, p)]
<1>1. card \in Nat
  BY FS_CardinalityType
<1>2. /\ IsFiniteSet(0..(card - 1)) /\ Cardinality(0..(card - 1)) = card
      /\ IsFiniteSet(0..(n - 1)) /\ Cardinality(0..(n - 1)) = n
  <2>1. ASSUME NEW m \in Nat PROVE IsFiniteSet(0..(m - 1)) /\ Cardinality(0..(m - 1)) = m
    <3>1. 0 \in Int /\ m - 1 \in Int
      OBVIOUS
    <3>2. /\ IsFiniteSet(0..(m - 1))
          /\ Cardinality(0..(m - 1)) = IF 0 > m - 1 THEN 0 ELSE (m - 1) - 0 + 1
      BY ONLY <3>1, FS_Interval
    <3>3. (IF 0 > m - 1 THEN 0 ELSE (m - 1) - 0 + 1) = m
      OBVIOUS
    <3> QED BY <3>2, <3>3
  <2> QED BY <1>1, <2>1
<1>3. \A p \in U : Rank(U, p) \in 0..(card - 1)
  BY RankIsNumber
<1>4. \A p \in U : \A q \in U : Rank(U, p) = Rank(U, q) => p = q
  <2> SUFFICES ASSUME NEW p \in U, NEW q \in U, p # q PROVE Rank(U, p) # Rank(U, q)
    OBVIOUS
  <2>1. Rank(U, p) \in Int /\ Rank(U, q) \in Int
    BY <1>1, <1>3
  <2>2. CASE p < q
    BY <2>1, <2>2, RankGrows
  <2>3. CASE q < p
    BY <2>1, <2>3, RankGrows
  <2> QED BY <2>2, <2>3
<1>5. rank \in Injection(U, 0..(card - 1))
  BY <1>3, <1>4 DEF Injection, IsInjective
<1>6. rank \in Surjection(U, 0..(card - 1))
  BY <1>2, <1>5, FS_Injection
<1>7. low \in Injection(Low(U, n), 0..(n - 1))
  <2>1. Low(U, n) \subseteq U
    BY DEF Low
  <2>2. \A p \in Low(U, n) : Rank(U, p) \in 0..(n - 1)
    BY <1>1, <1>3 DEF Low
  <2> QED BY <1>4, <2>1, <2>2 DEF Injection, IsInjective
<1>8. IsFiniteSet(Low(U, n)) /\ Cardinality(Low(U, n)) <= n
  BY <1>2, <1>7, FS_Injection
<1>9. ASSUME n <= card PROVE low \in Surjection(Low(U, n), 0..(n - 1))
  <2>1. low \in [Low(U, n) -> 0..(n - 1)]
    BY <1>7 DEF Injection
  <2>2. ASSUME NEW k \in 0..(n - 1) PROVE \E p \in Low(U, n) : low[p] = k
    <3>1. k \in 0..(card - 1)
      BY <1>1, <1>9
    <3>2. PICK p \in U : rank[p] = k
      BY <1>6, <3>1 DEF Surjection
    <3>3. p \in Low(U, n)
      BY <3>2 DEF Low
    <3> QED BY <3>2, <3>3
  <2> QED BY <2>1, <2>2 DEF Surjection
<1>10. n <= card => Cardinality(Low(U, n)) = n
  BY <1>2, <1>7, <1>9, FS_Injection
<1> QED BY <1>8, <1>10

(* The lowest pids nobody has.                                             *)
LEMMA LowestCount ==
  ASSUME NEW n \in Nat
  PROVE  /\ Lowest(n) \subseteq Unused
         /\ IsFiniteSet(Lowest(n)) /\ Cardinality(Lowest(n)) \in 0..n
         /\ n <= Cardinality(Unused) => Cardinality(Lowest(n)) = n
<1>1. Unused \in SUBSET Nat /\ IsFiniteSet(Unused)
  <2>1. Unused \in SUBSET Pid
    BY DEF Unused
  <2> QED BY <2>1, MeshAssumption, FS_Subset
<1>2. Lowest(n) = Low(Unused, n)
  BY DEF Lowest, Low, Rank, Below
<1>3. /\ IsFiniteSet(Lowest(n)) /\ Cardinality(Lowest(n)) <= n
      /\ n <= Cardinality(Unused) => Cardinality(Lowest(n)) = n
  BY <1>1, <1>2, LowCount
<1>4. Cardinality(Lowest(n)) \in Nat
  BY <1>3, FS_CardinalityType
<1>5. Lowest(n) \subseteq Unused
  BY DEF Lowest
<1> QED BY <1>3, <1>4, <1>5

-----------------------------------------------------------------------------
(* The processes: a zombie has somebody who may still wait for it, and a   *)
(* parent other than systemd is there.                                     *)
Procs ==
  /\ status \in [Pid -> {"free", "runs", "zombie"}]
  /\ parent \in [Pid -> Pid \cup {Daemon, Systemd}]
  /\ \A p \in Pid : /\ parent[p] # Systemd => status[p] # "free"
                    /\ parent[p] = Daemon => daemon.pc # "down"
                    /\ parent[p] \in Pid => status[parent[p]] = "runs"

(* The children of a process that ends are given to systemd.               *)
LEMMA EndsProcs ==
  ASSUME Procs, NEW who \in Pid \cup {Daemon}, Ends(who),
         who # Daemon => UNCHANGED daemon
  PROVE  Procs'
<1> USE MeshAssumption DEF Procs
<1>1. /\ status' \in [Pid -> {"free", "runs", "zombie"}]
      /\ parent' \in [Pid -> Pid \cup {Daemon, Systemd}]
  BY DEF Ends
<1>2. ASSUME NEW q \in Pid, parent'[q] # Systemd
      PROVE  /\ parent'[q] = parent[q] /\ parent[q] # who /\ status'[q] # "free"
             /\ status'[q] # status[q] => q = who
  BY <1>2 DEF Ends
<1>3. ASSUME NEW q \in Pid, status[q] = "runs", q # who PROVE status'[q] = "runs"
  BY <1>3 DEF Ends
<1>4. ASSUME NEW q \in Pid, parent'[q] = Daemon PROVE daemon'.pc # "down"
  BY <1>2, <1>4
<1>5. ASSUME NEW q \in Pid, parent'[q] \in Pid PROVE status'[parent'[q]] = "runs"
  BY <1>2, <1>3, <1>5
<1> QED BY <1>1, <1>2, <1>4, <1>5

(* The children of a fork have a parent that runs.                         *)
LEMMA ForkProcs ==
  ASSUME Procs, NEW who \in Pid \cup {Daemon}, NEW kids, Fork(kids, who),
         \A q \in kids : q \in Pid /\ status[q] = "free",
         who = Daemon => daemon'.pc # "down",
         who # Daemon => status[who] = "runs" /\ UNCHANGED daemon
  PROVE  Procs'
<1> USE MeshAssumption DEF Procs
<1>1. /\ status' \in [Pid -> {"free", "runs", "zombie"}]
      /\ parent' \in [Pid -> Pid \cup {Daemon, Systemd}]
  BY DEF Fork
<1>2. \A q \in Pid : /\ status'[q] = IF q \in kids THEN "runs" ELSE status[q]
                     /\ parent'[q] = IF q \in kids THEN who ELSE parent[q]
  BY DEF Fork
<1>3. \A q \in Pid : status[q] = "runs" => status'[q] = "runs"
  BY <1>2
<1>4. ASSUME NEW q \in Pid, parent'[q] = Daemon PROVE daemon'.pc # "down"
  BY <1>2, <1>4
<1>5. ASSUME NEW q \in Pid, parent'[q] \in Pid PROVE status'[parent'[q]] = "runs"
  BY <1>2, <1>3, <1>5
<1>6. ASSUME NEW q \in Pid, parent'[q] # Systemd PROVE status'[q] # "free"
  BY <1>2, <1>6
<1> QED BY <1>1, <1>4, <1>5, <1>6

(* A step that neither ends nor forks a process.                           *)
LEMMA SameProcs ==
  ASSUME Procs, UNCHANGED procs, daemon'.pc = "down" => daemon.pc = "down"
  PROVE  Procs'
BY DEF Procs, procs

(* A daemon that obeys ends, or tells its mesh to leave first.             *)
LEMMA ObeysEnds ==
  ASSUME NEW op, NEW cost, Obeys(op, cost)
  PROVE  \/ Ends(Daemon) /\ daemon' \in {Down, Booting}
         \/ UNCHANGED procs /\ daemon' = DaemonAt("flag", op, file, TRUE, daemon.cache)
<1>1. CASE daemon.manager /\ ~config.prevention /\ ~locked
  BY <1>1, Zenon DEF Obeys
<1>2. CASE ~(daemon.manager /\ ~config.prevention /\ ~locked)
  <2>1. daemon' = IF op = "exit" THEN Down ELSE Booting
    BY <1>2, Zenon DEF Obeys
  <2>2. Ends(Daemon)
    BY <1>2, Zenon DEF Obeys
  <2> QED BY <2>1, <2>2
<1> QED BY <1>1, <1>2

(* Parents end or fork in the steps of watchdogs, of the daemon, of its    *)
(* service manager and of whoever kills them.                              *)
LEMMA ProcsStep == Procs /\ [Next]_vars => Procs'
<1> SUFFICES ASSUME Procs, [Next]_vars PROVE Procs'
  OBVIOUS
<1>1. ASSUME NEW p \in Pid, Iterate(p) PROVE Procs'
  <2>1. CASE Leave(p)
    BY <2>1, EndsProcs DEF Leave
  <2>2. CASE DaemonOk(p) \/ DaemonLost(p) \/ RestartFails(p) \/ CheckSiblings(p)
              \/ LoadForBeat(p) \/ SaveBeat(p)
    BY <2>2, SameProcs DEF DaemonOk, DaemonLost, RestartFails, CheckSiblings, LoadForBeat, SaveBeat
  <2>3. CASE RestartDaemon(p)
    <3>1. (UNCHANGED procs /\ daemon' = Booting) \/ Obeys("reboot", {"again"})
      BY <2>3 DEF RestartDaemon
    <3>2. CASE UNCHANGED procs /\ daemon' = Booting
      BY <3>2, SameProcs, Fields DEF Booting
    <3>3. CASE Obeys("reboot", {"again"})
      <4>1. Ends(Daemon) \/ (UNCHANGED procs /\ daemon'.pc = "flag")
        BY <3>3, ObeysEnds DEF DaemonAt
      <4> QED BY <4>1, EndsProcs, SameProcs
    <3> QED BY <3>1, <3>2, <3>3
  <2>4. CASE SaveSiblings(p)
    <3>1. status[p] = "runs" /\ UNCHANGED daemon /\ p # Daemon
      BY <2>4, MeshAssumption DEF SaveSiblings, At, Running
    <3>2. PICK n, kids : kids = Lowest(n) /\ Fork(kids, p)
      BY <2>4 DEF SaveSiblings
    <3> QED BY <3>1, <3>2, KidsAreFree, ForkProcs
  <2> QED BY <1>1, <2>1, <2>2, <2>3, <2>4 DEF Iterate
<1>2. ASSUME NEW p \in Pid, Kill(p) PROVE Procs'
  BY <1>2, EndsProcs DEF Kill
<1>3. CASE Spawn
  <2>1. PICK n, kids : kids = Lowest(n) /\ Fork(kids, Daemon)
    BY <1>3 DEF Spawn
  <2>2. daemon'.pc # "down"
    BY <1>3, Fields DEF Spawn, Does
  <2> QED BY <2>1, <2>2, KidsAreFree, ForkProcs
<1>4. CASE Boot \/ ScheduleCheck \/ StoreConfig \/ SystemdStarts
  <2>1. UNCHANGED procs
    BY <1>4 DEF Boot, ScheduleCheck, StoreConfig, SystemdStarts, procs
  <2>2. daemon'.pc # "down"
    <3>1. CASE Boot
      BY <3>1 DEF Boot, DaemonAt
    <3>2. CASE ScheduleCheck
      BY <3>2 DEF ScheduleCheck, DaemonAt
    <3>3. CASE StoreConfig \/ SystemdStarts
      BY <3>3 DEF StoreConfig, SystemdStarts, Does, Booting, DaemonAt
    <3> QED BY <1>4, <3>1, <3>2, <3>3
  <2> QED BY <2>1, <2>2, SameProcs
<1>5. CASE SaveFlag
  <2>1. Ends(Daemon) \/ (UNCHANGED procs /\ daemon'.pc = "store")
    BY <1>5, Fields DEF SaveFlag, Does
  <2> QED BY <2>1, EndsProcs, SameProcs
<1>6. CASE EnableWatchdogs \/ EnablePrevention \/ DisableWatchdogs \/ DisablePrevention
  <2>1. UNCHANGED procs /\ daemon'.pc # "down"
    BY <1>6, Fields
       DEF EnableWatchdogs, EnablePrevention, DisableWatchdogs, DisablePrevention, Does, procs
  <2> QED BY <2>1, SameProcs
<1>7. CASE Stop
  <2>1. Ends(Daemon) \/ (UNCHANGED procs /\ daemon'.pc = "flag")
    BY <1>7, ObeysEnds DEF Stop, DaemonAt
  <2> QED BY <2>1, EndsProcs, SameProcs
<1>8. CASE KillDaemon
  BY <1>8, EndsProcs DEF KillDaemon
<1>9. CASE Lock \/ Unlock \/ EnforcerChanges \/ Tick
  BY <1>9, SameProcs DEF Lock, Unlock, EnforcerChanges, Tick
<1>10. CASE UNCHANGED vars
  BY <1>10, SameProcs DEF vars
<1> QED BY <1>1, <1>2, <1>3, <1>4, <1>5, <1>6, <1>7, <1>8, <1>9, <1>10 DEF Next, DaemonWorks

-----------------------------------------------------------------------------
(* What is in the file and in the copies of it.  A list is empty, or has   *)
(* the one size a mesh has, once the n missing siblings are added; only a  *)
(* fork that failed makes it smaller.                                      *)
Sizes == IF left["fork"] = Budget["fork"] THEN {Count} ELSE 0..Count
(* A list that lacks n entries is empty, or has a size among sizes.        *)
Sized(list, n, sizes) ==
  (DOMAIN list = {} /\ n = 0) \/ Cardinality(DOMAIN list) + n \in sizes

(* The file, and what a watchdog or the daemon holds of it.                *)
OkFile(f, sizes) == IsContents(f) /\ Sized(f.list, 0, sizes)
OkWatchdog(w, sizes) ==
  /\ IsWatchdog(w) /\ Sized(w.copy.list, w.missing, sizes)
  /\ w.pc # "save" => w.missing = 0
OkDaemon(d, sizes) ==
  /\ IsDaemon(d) /\ Sized(d.copy.list, 0, sizes)
  /\ d.pc = "flag" => d.op \in {"disable", "unprotect", "exit", "reboot"}
  /\ d.pc = "store" => d.op \in {"enable", "disable", "protect", "unprotect"}

(* What is left of the bounds, and the daemon's surroundings.              *)
OkBudget == left \in [Bounds -> Nat] /\ left["fork"] <= Budget["fork"]
OkWorld == IsConfig(config) /\ locked \in BOOLEAN /\ covered \in BOOLEAN
Data ==
  /\ OkBudget /\ OkWorld
  /\ OkFile(file, Sizes) /\ (\A p \in Pid : OkWatchdog(wd[p], Sizes)) /\ OkDaemon(daemon, Sizes)

(* All fields of the records, when they have their types.                  *)
LEMMA MoreFields ==
  /\ \A list, shutdown : Contents(list, shutdown).list = list
  /\ \A pc, copy, missing, fails, beat :
       /\ WatchdogAt(pc, copy, missing, fails, beat).missing = missing
       /\ WatchdogAt(pc, copy, missing, fails, beat).fails = fails
       /\ WatchdogAt(pc, copy, missing, fails, beat).beat = beat
BY DEF Contents, WatchdogAt

(* An empty list has any size that is asked for.                           *)
LEMMA EmptyIsOk == \A sizes : OkFile(Empty, sizes)
<1>1. Empty.list = [p \in {} |-> 0] /\ Empty.shutdown = FALSE
  BY DEF Empty, Contents
<1>2. DOMAIN Empty.list = {}
  BY <1>1
<1> QED BY <1>1, <1>2 DEF OkFile, IsContents, Sized

(* Where a watchdog may be with nothing loaded.                            *)
LEMMA UnloadedIsOk ==
  ASSUME NEW pc \in {"top", "restart", "siblings", "beat"},
         NEW fails \in 0..FailThreshold, NEW beat \in Age, NEW sizes
  PROVE  OkWatchdog(WatchdogAt(pc, Empty, 0, fails, beat), sizes)
<1>1. IsContents(Empty) /\ Sized(Empty.list, 0, sizes)
  BY EmptyIsOk DEF OkFile
<1>2. 0 \in 0..Count
  BY MeshAssumption
<1> QED BY <1>1, <1>2, Fields, MoreFields DEF OkWatchdog, IsWatchdog

(* A new watchdog has nothing loaded.                                      *)
LEMMA NewIsOk == \A sizes : OkWatchdog(NewWatchdog, sizes)
<1>1. 0 \in 0..FailThreshold /\ BeatEvery \in Age
  BY MeshAssumption DEF Age, MaxAge
<1> QED BY <1>1, UnloadedIsOk DEF NewWatchdog

(* Whoever has loaded the list and dropped the missing siblings has to     *)
(* fork as many as it dropped.                                             *)
LEMMA CheckedIsOk ==
  ASSUME NEW p, NEW fails \in 0..FailThreshold, NEW sizes \in SUBSET (0..Count),
         OkFile(file, sizes), wd[p].beat \in Age
  PROVE  OkWatchdog(SiblingsChecked(p, fails), sizes)
<1> DEFINE kept == {q \in Listed : ~Missing(p, q)}
           list == [q \in kept |-> file.list[q]]
           gone == Cardinality(Listed \ kept)
<1>1. /\ Listed \subseteq Pid /\ (\A q \in Listed : file.list[q] \in Age)
      /\ file.shutdown \in BOOLEAN
  BY DEF OkFile, IsContents, Listed
<1>2. IsFiniteSet(Listed) /\ kept \subseteq Listed /\ DOMAIN list = kept
  BY <1>1, MeshAssumption, FS_Subset
<1>3. /\ IsFiniteSet(kept) /\ Cardinality(kept) \in Nat /\ Cardinality(Listed) \in Nat
      /\ gone \in Nat /\ Cardinality(kept) + gone = Cardinality(Listed)
  <2>1. IsFiniteSet(kept) /\ IsFiniteSet(Listed \ kept)
    BY <1>2, FS_Subset, FS_Difference
  <2>2. Cardinality(Listed \ kept) = Cardinality(Listed) - Cardinality(Listed \cap kept)
    BY <1>2, FS_Difference
  <2>3. Listed \cap kept = kept
    BY <1>2
  <2>4. Cardinality(kept) \in Nat /\ Cardinality(Listed) \in Nat /\ gone \in Nat
    BY <1>2, <2>1, FS_CardinalityType
  <2>5. gone = Cardinality(Listed) - Cardinality(kept)
    BY <2>2, <2>3
  <2> HIDE DEF gone, kept
  <2> QED BY <2>1, <2>4, <2>5
<1>4. Listed = {} \/ Cardinality(Listed) \in sizes
  BY <1>3 DEF OkFile, Sized, Listed
<1>5. IsContents(Contents(list, file.shutdown))
  BY <1>1, <1>2, Fields, MoreFields DEF IsContents
<1>6. Sized(list, gone, sizes) /\ gone \in 0..Count
  <2>1. CASE Listed = {}
    <3>1. Listed \ kept = {} /\ kept = {}
      BY <2>1
    <3>2. gone = 0
      BY <3>1, FS_EmptySet
    <3> QED BY <1>2, <3>1, <3>2, MeshAssumption DEF Sized
  <2>2. CASE Cardinality(Listed) \in sizes
    <3>1. Cardinality(Listed) \in 0..Count
      BY <2>2
    <3> QED BY <1>2, <1>3, <2>2, <3>1, MeshAssumption DEF Sized
  <2> QED BY <1>4, <2>1, <2>2
<1>7. SiblingsChecked(p, fails)
        = WatchdogAt("save", Contents(list, file.shutdown), gone, fails, wd[p].beat)
  BY DEF SiblingsChecked
<1> HIDE DEF list, gone, kept
<1> QED BY <1>5, <1>6, <1>7, Fields, MoreFields DEF OkWatchdog, IsWatchdog

(* What is spent is gone, and a failed fork shows.                         *)
LEMMA SizesAreSizes == Count \in 0..Count /\ Sizes \in SUBSET (0..Count)
BY MeshAssumption DEF Sizes

(* Spending can only make more sizes possible.                             *)
LEMMA SpendsOk ==
  ASSUME OkBudget, NEW S, Spends(S)
  PROVE  /\ OkBudget' /\ Sizes \subseteq Sizes'
         /\ "fork" \in S => Sizes' = 0..Count
<1>1. "fork" \in Bounds
  BY DEF Bounds, Faults
<1>2. left' = [a \in Bounds |-> IF a \in Price(S) THEN left[a] - 1 ELSE left[a]]
  BY DEF Spends
<1>3. \A a \in Bounds : left[a] \in Nat /\ (a \in Price(S) => left[a] > 0)
  BY DEF Spends, OkBudget
<1>4. left' \in [Bounds -> Nat]
  BY <1>2, <1>3
<1>5. left'["fork"] = IF "fork" \in Price(S) THEN left["fork"] - 1 ELSE left["fork"]
  BY <1>1, <1>2
<1>6. left["fork"] \in Nat /\ left'["fork"] \in Nat /\ Budget["fork"] \in Nat
  BY <1>1, <1>3, <1>4, MeshAssumption
<1>7. left'["fork"] <= left["fork"]
  BY <1>5, <1>6
<1>8. "fork" \in S => left'["fork"] < left["fork"]
  BY <1>5, <1>6 DEF Price
<1>9. left["fork"] <= Budget["fork"]
  BY DEF OkBudget
<1>10. OkBudget' /\ (left'["fork"] = Budget["fork"] => left["fork"] = Budget["fork"])
  BY <1>4, <1>6, <1>7, <1>9 DEF OkBudget
<1>11. "fork" \in S => left'["fork"] # Budget["fork"]
  BY <1>6, <1>8, <1>9
<1>12. Sizes \subseteq Sizes'
  BY <1>10, SizesAreSizes DEF Sizes
<1> QED BY <1>10, <1>11, <1>12 DEF Sizes

(* So can a step that spends nothing.                                      *)
LEMMA UnspentOk == OkBudget /\ UNCHANGED left => OkBudget' /\ Sizes \subseteq Sizes'
BY DEF OkBudget, Sizes

(* More sizes are allowed, the more forks have failed.                     *)
LEMMA MoreSizes ==
  ASSUME NEW small, NEW large, small \subseteq large
  PROVE  /\ \A f : OkFile(f, small) => OkFile(f, large)
         /\ \A w : OkWatchdog(w, small) => OkWatchdog(w, large)
         /\ \A d : OkDaemon(d, small) => OkDaemon(d, large)
BY DEF OkFile, OkWatchdog, OkDaemon, Sized

(* A step after which everything is either as before or all right.         *)
LEMMA DataKept ==
  ASSUME Data, OkBudget', Sizes \subseteq Sizes', OkWorld',
         file' = file \/ OkFile(file', Sizes'),
         \A q \in Pid : wd'[q] = wd[q] \/ OkWatchdog(wd'[q], Sizes'),
         daemon' = daemon \/ OkDaemon(daemon', Sizes')
  PROVE  Data'
<1>1. OkFile(file', Sizes')
  BY MoreSizes DEF Data
<1>2. \A q \in Pid : OkWatchdog(wd'[q], Sizes')
  BY MoreSizes DEF Data
<1>3. OkDaemon(daemon', Sizes')
  BY MoreSizes DEF Data
<1> QED BY <1>1, <1>2, <1>3 DEF Data

(* A watchdog's step: only it and the file change.                         *)
LEMMA MoveKept ==
  ASSUME Data, OkBudget', Sizes \subseteq Sizes', UNCHANGED <<daemon, world>>,
         NEW p, NEW w, Goes(p, w), OkWatchdog(w, Sizes'),
         file' = file \/ OkFile(file', Sizes')
  PROVE  Data'
<1>1. OkWorld'
  BY DEF Data, OkWorld, world
<1>2. \A q \in Pid : wd'[q] = wd[q] \/ OkWatchdog(wd'[q], Sizes')
  BY DEF Goes
<1> QED BY <1>1, <1>2, DataKept

(* What a watchdog's fields are.                                           *)
LEMMA WatchdogFields ==
  ASSUME Data, NEW p \in Pid
  PROVE  /\ wd[p].fails \in 0..FailThreshold /\ wd[p].beat \in Age /\ wd[p].missing \in 0..Count
         /\ IsContents(wd[p].copy) /\ Sized(wd[p].copy.list, wd[p].missing, Sizes)
         /\ wd[p].pc # "save" => wd[p].missing = 0
BY DEF Data, OkWatchdog, IsWatchdog

(* The ones forked are as many as asked for, unless one fails.             *)
LEMMA ForksCount ==
  ASSUME OkBudget, NEW n \in 0..Count, NEW kids, Forks(n, kids)
  PROVE  /\ OkBudget' /\ Sizes \subseteq Sizes'
         /\ kids \subseteq Unused /\ IsFiniteSet(kids) /\ Cardinality(kids) \in 0..n
         /\ Cardinality(kids) = n \/ Sizes' = 0..Count
<1>1. n \in Nat
  BY MeshAssumption
<1>2. CASE n <= Cardinality(Unused) /\ kids = Lowest(n) /\ UNCHANGED left
  BY <1>1, <1>2, LowestCount, UnspentOk
<1>3. CASE \E m \in 0..(n - 1) : kids = Lowest(m) /\ Spends({"fork"})
  <2>1. PICK m \in 0..(n - 1) : kids = Lowest(m) /\ Spends({"fork"})
    BY <1>3
  <2>2. m \in Nat /\ 0..m \subseteq 0..n
    BY <1>1
  <2>3. kids \subseteq Unused /\ IsFiniteSet(kids) /\ Cardinality(kids) \in 0..m
    BY <2>1, <2>2, LowestCount
  <2> QED BY <2>1, <2>2, <2>3, SpendsOk
<1> QED BY <1>2, <1>3 DEF Forks

(* A list that gets the missing siblings is all right.                     *)
LEMMA SavedIsOk ==
  ASSUME Data, NEW p \in Running, wd[p].pc = "save",
         NEW kids, Forks(wd[p].missing, kids),
         file' = Contents([q \in DOMAIN wd[p].copy.list \cup kids |->
                             IF q \in kids THEN 0 ELSE wd[p].copy.list[q]],
                          wd[p].copy.shutdown)
  PROVE  OkBudget' /\ Sizes \subseteq Sizes' /\ OkFile(file', Sizes')
<1> DEFINE old == DOMAIN wd[p].copy.list
           n == wd[p].missing
           list == [q \in old \cup kids |-> IF q \in kids THEN 0 ELSE wd[p].copy.list[q]]
<1>1. p \in Pid
  BY DEF Running
<1>2. /\ n \in 0..Count /\ Sized(wd[p].copy.list, n, Sizes) /\ old \subseteq Pid
      /\ (\A q \in old : wd[p].copy.list[q] \in Age) /\ wd[p].copy.shutdown \in BOOLEAN
  BY <1>1, WatchdogFields DEF IsContents
<1>3. /\ OkBudget' /\ Sizes \subseteq Sizes'
      /\ kids \subseteq Unused /\ IsFiniteSet(kids) /\ Cardinality(kids) \in 0..n
      /\ Cardinality(kids) = n \/ Sizes' = 0..Count
  BY <1>2, ForksCount DEF Data
<1>4. kids \subseteq Pid /\ kids \cap old = {}
  BY <1>3 DEF Unused
<1>5. IsFiniteSet(old) /\ Cardinality(old) \in Nat
  BY <1>2, MeshAssumption, FS_Subset, FS_CardinalityType
<1>6. Cardinality(old \cup kids) = Cardinality(old) + Cardinality(kids)
  <2>1. Cardinality(old \cup kids)
          = Cardinality(old) + Cardinality(kids) - Cardinality(old \cap kids)
    BY <1>3, <1>5, FS_Union
  <2>2. Cardinality(old \cap kids) = 0
    BY <1>4, FS_EmptySet
  <2>3. Cardinality(kids) \in Nat
    BY <1>2, <1>3
  <2> QED BY <1>5, <2>1, <2>2, <2>3
<1>7. Sized(list, 0, Sizes')
  <2>1. DOMAIN list = old \cup kids
    OBVIOUS
  <2>2. CASE old = {} /\ n = 0
    <3>1. Cardinality(kids) = 0
      BY <1>3, <2>2
    <3>2. kids = {}
      BY <1>3, <3>1, FS_EmptySet
    <3> QED BY <2>1, <2>2, <3>2 DEF Sized
  <2>3. CASE Cardinality(old) + n \in Sizes
    <3>1. Cardinality(old) + n \in Sizes' /\ Cardinality(old) + n \in 0..Count
      BY <1>3, <2>3, SizesAreSizes
    <3>2. Cardinality(old) + Cardinality(kids) \in Sizes'
      <4>1. CASE Cardinality(kids) = n
        BY <3>1, <4>1
      <4>2. CASE Sizes' = 0..Count
        BY <1>2, <1>3, <1>5, <3>1, <4>2, MeshAssumption
      <4> QED BY <1>3, <4>1, <4>2
    <3>3. Cardinality(DOMAIN list) \in Sizes'
      BY <1>6, <2>1, <3>2
    <3>4. Cardinality(kids) \in Nat
      BY <1>2, <1>3
    <3>5. Cardinality(DOMAIN list) \in Nat
      BY <1>5, <1>6, <2>1, <3>4
    <3> HIDE DEF list
    <3>6. Cardinality(DOMAIN list) + 0 = Cardinality(DOMAIN list)
      BY <3>5
    <3> QED BY <3>3, <3>6 DEF Sized
  <2> QED BY <1>2, <2>2, <2>3 DEF Sized
<1>8. IsContents(Contents(list, wd[p].copy.shutdown))
  <2>1. 0 \in Age
    BY MeshAssumption DEF Age, MaxAge
  <2> QED BY <1>2, <1>4, <2>1, Fields, MoreFields DEF IsContents
<1>9. OkFile(Contents(list, wd[p].copy.shutdown), Sizes')
  BY <1>7, <1>8, MoreFields DEF OkFile
<1> QED BY <1>3, <1>9

(* Where the daemon may be with nothing loaded, or with the file loaded.    *)
LEMMA DaemonIsOk ==
  ASSUME Data, NEW sizes, Sizes \subseteq sizes
  PROVE  /\ OkDaemon(Down, sizes) /\ OkDaemon(Booting, sizes)
         /\ \A op \in {"disable", "unprotect", "exit", "reboot"} : \A manager, cache \in BOOLEAN :
              OkDaemon(DaemonAt("flag", op, file, manager, cache), sizes)
         /\ daemon.manager \in BOOLEAN /\ daemon.cache \in BOOLEAN
<1>1. IsContents(Empty) /\ Sized(Empty.list, 0, sizes)
  BY EmptyIsOk DEF OkFile
<1>2. IsContents(file) /\ Sized(file.list, 0, sizes)
  BY MoreSizes DEF Data, OkFile
<1>3. OkDaemon(Down, sizes) /\ OkDaemon(Booting, sizes)
  BY <1>1 DEF OkDaemon, IsDaemon, Down, Booting, DaemonAt
<1>4. ASSUME NEW op \in {"disable", "unprotect", "exit", "reboot"},
             NEW manager \in BOOLEAN, NEW cache \in BOOLEAN
      PROVE  OkDaemon(DaemonAt("flag", op, file, manager, cache), sizes)
  BY <1>2 DEF OkDaemon, IsDaemon, DaemonAt
<1>5. daemon.manager \in BOOLEAN /\ daemon.cache \in BOOLEAN
  BY DEF Data, OkDaemon, IsDaemon
<1> QED BY <1>3, <1>4, <1>5

(* An iteration of a watchdog keeps the data, whatever it overwrites.      *)
LEMMA IterateData == ASSUME Data, NEW p \in Pid, Iterate(p) PROVE Data'
<1>1. /\ wd[p].fails \in 0..FailThreshold /\ wd[p].beat \in Age /\ wd[p].missing \in 0..Count
      /\ IsContents(wd[p].copy) /\ Sized(wd[p].copy.list, wd[p].missing, Sizes)
      /\ wd[p].pc # "save" => wd[p].missing = 0
  BY WatchdogFields
<1>2. OkBudget /\ OkFile(file, Sizes) /\ OkDaemon(daemon, Sizes) /\ OkWorld
  BY DEF Data
<1>3. /\ 0 \in 0..FailThreshold /\ FailThreshold \in 0..FailThreshold
      /\ \A f \in 0..FailThreshold : f + 1 < FailThreshold => f + 1 \in 0..FailThreshold
  BY MeshAssumption
<1>4. ASSUME UNCHANGED left \/ Spends(Overlap) PROVE OkBudget' /\ Sizes \subseteq Sizes'
  BY <1>2, <1>4, SpendsOk, UnspentOk
<1>5. ASSUME NEW fails \in 0..FailThreshold, Goes(p, SiblingsChecked(p, fails)), Spends(Overlap),
             UNCHANGED <<file, daemon, world>>
      PROVE  Data'
  <2>1. OkWatchdog(SiblingsChecked(p, fails), Sizes)
    BY <1>1, <1>2, CheckedIsOk, SizesAreSizes
  <2>2. OkBudget' /\ Sizes \subseteq Sizes'
    BY <1>4, <1>5
  <2>3. OkWatchdog(SiblingsChecked(p, fails), Sizes')
    BY <2>1, <2>2, MoreSizes
  <2> QED BY <1>5, <2>2, <2>3, MoveKept
<1>6. ASSUME NEW pc \in {"top", "restart", "siblings", "beat"}, NEW fails \in 0..FailThreshold,
             Moves(p, pc, fails), OkBudget', Sizes \subseteq Sizes',
             UNCHANGED <<daemon, world>>, file' = file \/ OkFile(file', Sizes')
      PROVE  Data'
  <2>1. OkWatchdog(WatchdogAt(pc, Empty, 0, fails, wd[p].beat), Sizes')
    BY <1>1, UnloadedIsOk
  <2> QED BY <1>6, <2>1, MoveKept DEF Moves
<1>7. CASE Leave(p)
  <2>1. OkWatchdog(NewWatchdog, Sizes')
    BY NewIsOk
  <2>2. OkBudget' /\ Sizes \subseteq Sizes'
    BY <1>4, <1>7 DEF Leave
  <2> QED BY <1>7, <2>1, <2>2, MoveKept DEF Leave
<1>8. CASE DaemonOk(p)
  <2>1. (IF Answers THEN 0 ELSE wd[p].fails + 1) \in 0..FailThreshold
    BY <1>1, <1>3, <1>8 DEF DaemonOk
  <2> QED BY <1>5, <1>8, <2>1 DEF DaemonOk
<1>9. CASE DaemonLost(p)
  <2>1. OkBudget' /\ Sizes \subseteq Sizes'
    BY <1>4, <1>9 DEF DaemonLost
  <2> QED BY <1>3, <1>6, <1>9, <2>1 DEF DaemonLost
<1>10. CASE RestartFails(p)
  <2>1. OkBudget' /\ Sizes \subseteq Sizes'
    BY <1>2, <1>10, SpendsOk, UnspentOk DEF RestartFails
  <2> QED BY <1>1, <1>6, <1>10, <2>1 DEF RestartFails
<1>11. CASE CheckSiblings(p)
  BY <1>1, <1>5, <1>11 DEF CheckSiblings
<1>12. CASE SaveSiblings(p)
  <2>1. PICK kids :
          /\ Forks(wd[p].missing, kids)
          /\ file' = Contents([q \in DOMAIN wd[p].copy.list \cup kids |->
                                  IF q \in kids THEN 0 ELSE wd[p].copy.list[q]],
                               wd[p].copy.shutdown)
    BY <1>12 DEF SaveSiblings
  <2>2. p \in Running /\ wd[p].pc = "save"
    BY <1>12 DEF SaveSiblings, At
  <2>3. OkBudget' /\ Sizes \subseteq Sizes' /\ OkFile(file', Sizes')
    BY <2>1, <2>2, SavedIsOk
  <2>4. PICK pc \in {"beat", "top"} : Moves(p, pc, wd[p].fails)
    BY <1>12 DEF SaveSiblings
  <2> QED BY <1>1, <1>6, <1>12, <2>3, <2>4 DEF SaveSiblings
<1>13. CASE LoadForBeat(p)
  <2> DEFINE list == [q \in Listed |-> IF q = p THEN 0 ELSE file.list[q]]
             w == WatchdogAt("stamp", Contents(list, file.shutdown), 0, wd[p].fails, 0)
  <2>1. OkBudget' /\ Sizes \subseteq Sizes'
    BY <1>4, <1>13 DEF LoadForBeat
  <2>2. 0 \in Age /\ 0 \in 0..Count
    BY MeshAssumption DEF Age, MaxAge
  <2>3. /\ Listed \subseteq Pid /\ (\A q \in Listed : file.list[q] \in Age)
        /\ file.shutdown \in BOOLEAN /\ Sized(file.list, 0, Sizes)
    BY <1>2 DEF OkFile, IsContents, Listed
  <2>4. DOMAIN list = Listed /\ \A q \in Listed : list[q] \in Age
    BY <2>2, <2>3
  <2>5. Sized(list, 0, Sizes)
    BY <2>3, <2>4 DEF Sized, Listed
  <2> HIDE DEF list
  <2>6. IsContents(Contents(list, file.shutdown))
    BY <2>3, <2>4, Fields, MoreFields DEF IsContents
  <2>7. OkWatchdog(w, Sizes)
    BY <1>1, <2>2, <2>5, <2>6, Fields, MoreFields DEF OkWatchdog, IsWatchdog
  <2>8. OkWatchdog(w, Sizes')
    BY <2>1, <2>7, MoreSizes
  <2>9. Goes(p, w) /\ UNCHANGED <<file, daemon, world>>
    BY <1>13 DEF LoadForBeat, list
  <2> QED BY <2>1, <2>8, <2>9, MoveKept
<1>14. CASE SaveBeat(p)
  <2>1. OkBudget' /\ Sizes \subseteq Sizes'
    BY <1>4, <1>14 DEF SaveBeat
  <2>2. wd[p].missing = 0
    BY <1>1, <1>14 DEF SaveBeat, At
  <2>3. OkFile(wd[p].copy, Sizes)
    BY <1>1, <2>2 DEF OkFile
  <2>4. OkFile(file', Sizes')
    BY <1>14, <2>1, <2>3, MoreSizes DEF SaveBeat
  <2> QED BY <1>1, <1>6, <1>14, <2>1, <2>4 DEF SaveBeat
<1>15. CASE RestartDaemon(p)
  <2>1. OkBudget' /\ Sizes \subseteq Sizes'
    BY <1>2, <1>15, SpendsOk, UnspentOk DEF RestartDaemon, Obeys
  <2>2. OkDaemon(daemon', Sizes')
    <3>1. daemon' \in {Down, Booting} \/ daemon' = DaemonAt("flag", "reboot", file, TRUE, daemon.cache)
      BY <1>15, ObeysEnds DEF RestartDaemon
    <3> QED BY <1>2, <2>1, <3>1, DaemonIsOk
  <2>3. OkWatchdog(WatchdogAt("siblings", Empty, 0, 0, wd[p].beat), Sizes')
    BY <1>1, <1>3, UnloadedIsOk
  <2>4. /\ Goes(p, WatchdogAt("siblings", Empty, 0, 0, wd[p].beat)) /\ file' = file
        /\ UNCHANGED world
    BY <1>15 DEF RestartDaemon, Moves
  <2>5. OkWorld' /\ \A q \in Pid : wd'[q] = wd[q] \/ OkWatchdog(wd'[q], Sizes')
    BY <1>2, <2>3, <2>4 DEF OkWorld, world, Goes
  <2> QED BY <2>1, <2>2, <2>4, <2>5, DataKept
<1> QED BY <1>7, <1>8, <1>9, <1>10, <1>11, <1>12, <1>13, <1>14, <1>15 DEF Iterate

(* The daemon's steps, but for the forks.                                  *)
LEMMA DaemonKept ==
  ASSUME Data, OkBudget', Sizes \subseteq Sizes', OkWorld', UNCHANGED <<file, wd>>,
         daemon' = daemon \/ OkDaemon(daemon', Sizes')
  PROVE  Data'
BY DataKept

(* Where the daemon goes with nothing loaded.                              *)
LEMMA DoesIsOk ==
  ASSUME Data, NEW pc \in {"idle", "spawn", "store"},
         NEW op \in {"none", "boot", "check", "enable", "disable", "protect", "unprotect"},
         pc = "store" => op \in {"enable", "disable", "protect", "unprotect"},
         NEW manager \in BOOLEAN, NEW cache \in BOOLEAN, NEW sizes
  PROVE  OkDaemon(DaemonAt(pc, op, Empty, manager, cache), sizes)
<1>1. IsContents(Empty) /\ Sized(Empty.list, 0, sizes)
  BY EmptyIsOk DEF OkFile
<1> QED BY <1>1 DEF OkDaemon, IsDaemon, DaemonAt

(* A new mesh: the list in the file is of the processes forked.            *)
LEMMA SpawnData == ASSUME Data, Spawn PROVE Data'
<1>1. PICK kids : Forks(Count, kids) /\ file' = Contents([p \in kids |-> 0], FALSE)
  BY DEF Spawn
<1>2. Count \in 0..Count /\ Count \in Nat
  BY MeshAssumption
<1>3. /\ OkBudget' /\ Sizes \subseteq Sizes'
      /\ kids \subseteq Unused /\ IsFiniteSet(kids) /\ Cardinality(kids) \in 0..Count
      /\ Cardinality(kids) = Count \/ Sizes' = 0..Count
  BY <1>1, <1>2, ForksCount DEF Data
<1>4. Cardinality(kids) \in Sizes'
  <2>1. Count \in Sizes'
    BY <1>2 DEF Sizes
  <2> QED BY <1>3, <2>1
<1>5. OkFile(file', Sizes')
  <2> DEFINE list == [p \in kids |-> 0]
  <2>1. DOMAIN list = kids /\ \A p \in kids : list[p] \in Age
    BY MeshAssumption DEF Age, MaxAge
  <2>2. kids \subseteq Pid
    BY <1>3 DEF Unused
  <2>3. Cardinality(DOMAIN list) + 0 = Cardinality(kids)
    BY <1>3, <2>1
  <2>4. Sized(list, 0, Sizes')
    BY <1>4, <2>3 DEF Sized
  <2> HIDE DEF list
  <2>5. IsContents(Contents(list, FALSE))
    BY <2>1, <2>2, Fields, MoreFields DEF IsContents
  <2>6. file' = Contents(list, FALSE)
    BY <1>1 DEF list
  <2> QED BY <2>4, <2>5, <2>6, MoreFields DEF OkFile
<1>6. daemon.manager \in BOOLEAN /\ daemon.cache \in BOOLEAN
  BY DaemonIsOk
<1>7. OkDaemon(daemon', Sizes')
  <2>1. Does("store", "enable") \/ Does("idle", "boot") \/ Does("idle", "none")
    BY DEF Spawn
  <2>2. CASE Does("store", "enable")
    BY <1>6, <2>2, DoesIsOk DEF Does
  <2>3. CASE Does("idle", "boot")
    BY <1>6, <2>3, DoesIsOk DEF Does
  <2>4. CASE Does("idle", "none")
    BY <1>6, <2>4, DoesIsOk DEF Does
  <2> QED BY <2>1, <2>2, <2>3, <2>4
<1>8. OkWorld' /\ UNCHANGED wd
  BY DEF Spawn, Data, OkWorld, world
<1> QED BY <1>3, <1>5, <1>7, <1>8, DataKept

(* The other steps of the daemon, and of what starts and stops it.         *)
LEMMA DaemonData ==
  ASSUME Data, DaemonWorks \/ Stop \/ KillDaemon \/ SystemdStarts
  PROVE  Data'
<1>1. OkBudget /\ OkFile(file, Sizes) /\ OkDaemon(daemon, Sizes) /\ OkWorld
  BY DEF Data
<1>2. daemon.manager \in BOOLEAN /\ daemon.cache \in BOOLEAN /\ config.prevention \in BOOLEAN
  BY <1>1, DaemonIsOk DEF OkWorld, IsConfig
<1>3. UNCHANGED left => OkBudget' /\ Sizes \subseteq Sizes'
  BY <1>1, UnspentOk
<1>4. UNCHANGED world => OkWorld'
  BY <1>1 DEF OkWorld, world
<1>5. CASE Boot
  <2>1. OkDaemon(DaemonAt("spawn", "boot", Empty, TRUE, FALSE), Sizes')
    BY DoesIsOk
  <2>2. OkDaemon(DaemonAt("idle", "boot", Empty, FALSE, FALSE), Sizes')
    BY DoesIsOk
  <2>3. OkDaemon(daemon', Sizes')
    BY <1>5, <2>1, <2>2 DEF Boot
  <2> QED BY <1>3, <1>4, <1>5, <2>3, DaemonKept DEF Boot
<1>6. CASE ScheduleCheck
  <2>1. OkDaemon(DaemonAt("spawn", "check", Empty, TRUE, config.prevention), Sizes')
    BY <1>2, DoesIsOk
  <2>2. OkDaemon(DaemonAt("idle", "none", Empty, daemon.manager, config.prevention), Sizes')
    BY <1>2, DoesIsOk
  <2>3. OkDaemon(daemon', Sizes')
    BY <1>6, <2>1, <2>2 DEF ScheduleCheck
  <2> QED BY <1>3, <1>4, <1>6, <2>3, DaemonKept DEF ScheduleCheck
<1>7. CASE SaveFlag
  <2>1. /\ IsContents(daemon.copy) /\ Sized(daemon.copy.list, 0, Sizes)
        /\ daemon.op \in {"disable", "unprotect", "exit", "reboot"}
    BY <1>1, <1>7 DEF SaveFlag, OkDaemon, IsDaemon
  <2>2. OkFile(Contents(daemon.copy.list, TRUE), Sizes)
    <3> DEFINE list == daemon.copy.list
               saved == Contents(daemon.copy.list, TRUE)
    <3>1. saved.list = list /\ saved.shutdown = TRUE
      BY DEF Contents
    <3> HIDE DEF saved
    <3>2. saved.shutdown \in BOOLEAN
      BY <3>1
    <3>3. IsContents(saved)
      BY <2>1, <3>1, <3>2 DEF IsContents
    <3>4. OkFile(saved, Sizes)
      BY <2>1, <3>1, <3>3 DEF OkFile
    <3> QED BY <3>4 DEF saved
  <2>3. OkBudget' /\ Sizes \subseteq Sizes' /\ OkWorld' /\ UNCHANGED wd
    BY <1>3, <1>4, <1>7 DEF SaveFlag
  <2>4. OkFile(file', Sizes')
    BY <1>7, <2>2, <2>3, MoreSizes DEF SaveFlag
  <2>5. OkDaemon(daemon', Sizes')
    <3>1. \/ daemon' = Down \/ daemon' = Booting
          \/ Does("store", daemon.op) /\ daemon.op \in {"disable", "unprotect"}
      BY <1>7, <2>1 DEF SaveFlag
    <3> QED BY <1>2, <2>3, <3>1, DaemonIsOk, DoesIsOk DEF Does
  <2> QED BY <2>3, <2>4, <2>5, DataKept
<1>8. CASE StoreConfig
  <2>1. daemon.op \in {"enable", "disable", "protect", "unprotect"}
    BY <1>1, <1>8 DEF StoreConfig, OkDaemon
  <2>2. IsConfig(config')
    BY <1>1, <1>8, <2>1 DEF StoreConfig, OkWorld, IsConfig, Configured
  <2>3. OkWorld'
    BY <1>1, <1>8, <2>2 DEF StoreConfig, OkWorld
  <2>4. OkDaemon(daemon', Sizes')
    BY <1>2, <1>8, DoesIsOk DEF StoreConfig, Does
  <2> QED BY <1>3, <1>8, <2>3, <2>4, DaemonKept DEF StoreConfig
<1>9. CASE Stop
  <2>1. OkBudget' /\ Sizes \subseteq Sizes'
    BY <1>1, <1>9, SpendsOk DEF Stop, Obeys
  <2>2. daemon' \in {Down, Booting} \/ daemon' = DaemonAt("flag", "exit", file, TRUE, daemon.cache)
    BY <1>9, ObeysEnds DEF Stop
  <2>3. OkDaemon(daemon', Sizes')
    BY <1>2, <2>1, <2>2, DaemonIsOk
  <2> QED BY <1>4, <1>9, <2>1, <2>3, DaemonKept DEF Stop
<1>10. CASE KillDaemon
  <2>1. OkBudget' /\ Sizes \subseteq Sizes'
    BY <1>1, <1>10, SpendsOk DEF KillDaemon
  <2>2. OkDaemon(daemon', Sizes')
    BY <1>10, <2>1, DaemonIsOk DEF KillDaemon
  <2> QED BY <1>4, <1>10, <2>1, <2>2, DaemonKept DEF KillDaemon
<1>11. CASE SystemdStarts
  <2>1. OkDaemon(daemon', Sizes')
    BY <1>3, <1>11, DaemonIsOk DEF SystemdStarts
  <2> QED BY <1>3, <1>4, <1>11, <2>1, DaemonKept DEF SystemdStarts
<1> QED BY <1>5, <1>6, <1>7, <1>8, <1>9, <1>10, <1>11, SpawnData DEF DaemonWorks

(* The requests of the API.                                                *)
LEMMA RequestData ==
  ASSUME Data, EnableWatchdogs \/ EnablePrevention \/ DisableWatchdogs \/ DisablePrevention
  PROVE  Data'
<1>1. OkBudget /\ OkWorld
  BY DEF Data
<1>2. OkBudget' /\ Sizes \subseteq Sizes'
  BY <1>1, SpendsOk DEF EnableWatchdogs, EnablePrevention, DisableWatchdogs, DisablePrevention
<1>3. UNCHANGED <<file, wd>> /\ OkWorld'
  BY <1>1 DEF EnableWatchdogs, EnablePrevention, DisableWatchdogs, DisablePrevention, OkWorld, world
<1>4. daemon.manager \in BOOLEAN /\ daemon.cache \in BOOLEAN
  BY DaemonIsOk
<1>5. CASE DisableWatchdogs
  <2>1. PICK op \in {"disable", "unprotect"} :
          daemon' = DaemonAt("flag", op, file, daemon.manager, daemon.cache)
    BY <1>5 DEF DisableWatchdogs
  <2>2. OkDaemon(daemon', Sizes')
    BY <1>2, <1>4, <2>1, DaemonIsOk
  <2> QED BY <1>2, <1>3, <2>2, DaemonKept
<1>6. CASE EnableWatchdogs \/ EnablePrevention \/ DisablePrevention
  <2>1. Does("spawn", "enable") \/ Does("store", "protect") \/ Does("store", "unprotect")
    BY <1>6 DEF EnableWatchdogs, EnablePrevention, DisablePrevention
  <2>2. OkDaemon(daemon', Sizes')
    BY <1>4, <2>1, DoesIsOk DEF Does
  <2> QED BY <1>2, <1>3, <2>2, DaemonKept
<1> QED BY <1>5, <1>6

(* Half a minute later: ages grow, sizes stay.                             *)
LEMMA TickData == ASSUME Data, Tick PROVE Data'
<1>1. OkBudget /\ OkFile(file, Sizes) /\ OkWorld
  BY DEF Data
<1>2. OkBudget' /\ Sizes \subseteq Sizes'
  BY <1>1, SpendsOk DEF Tick
<1>3. \A a \in Age : Older(a) \in Age
  BY MeshAssumption DEF Age, Older, MaxAge
<1>4. OkFile(file', Sizes)
  <2> DEFINE list == [p \in Listed |-> Older(file.list[p])]
  <2>1. /\ Listed \subseteq Pid /\ (\A q \in Listed : file.list[q] \in Age)
        /\ file.shutdown \in BOOLEAN /\ Sized(file.list, 0, Sizes)
    BY <1>1 DEF OkFile, IsContents, Listed
  <2>2. DOMAIN list = Listed /\ \A q \in Listed : list[q] \in Age
    BY <1>3, <2>1
  <2>3. file' = Contents(list, file.shutdown)
    BY DEF Tick
  <2> HIDE DEF list
  <2>4. Sized(list, 0, Sizes)
    BY <2>1, <2>2 DEF Sized, Listed
  <2>5. IsContents(Contents(list, file.shutdown))
    BY <2>1, <2>2, Fields, MoreFields DEF IsContents
  <2> QED BY <2>3, <2>4, <2>5, MoreFields DEF OkFile
<1>5. OkFile(file', Sizes')
  BY <1>2, <1>4, MoreSizes
<1>6. ASSUME NEW q \in Pid PROVE wd'[q] = wd[q] \/ OkWatchdog(wd'[q], Sizes')
  <2>1. CASE q \notin Running
    BY <2>1 DEF Tick
  <2>2. CASE q \in Running
    <3>1. wd'[q] = WatchdogAt(wd[q].pc, Empty, 0, wd[q].fails, Older(wd[q].beat))
      BY <2>2 DEF Tick
    <3>2. wd[q].pc \in {"top", "restart"}
      BY <2>2 DEF Tick, Held
    <3>3. wd[q].fails \in 0..FailThreshold /\ Older(wd[q].beat) \in Age
      BY <1>3, WatchdogFields
    <3> QED BY <3>1, <3>2, <3>3, UnloadedIsOk
  <2> QED BY <2>1, <2>2
<1>7. UNCHANGED daemon /\ OkWorld'
  BY <1>1 DEF Tick, OkWorld, world
<1> QED BY <1>2, <1>5, <1>6, <1>7, DataKept

(* Every step keeps the data well formed and the list at its size.         *)
LEMMA DataStep == Data /\ [Next]_vars => Data'
<1> SUFFICES ASSUME Data, [Next]_vars PROVE Data'
  OBVIOUS
<1>1. OkBudget /\ OkWorld
  BY DEF Data
<1>2. ASSUME NEW p \in Pid, Kill(p) PROVE Data'
  <2>1. OkWatchdog(NewWatchdog, Sizes')
    BY NewIsOk
  <2>2. OkBudget' /\ Sizes \subseteq Sizes'
    BY <1>1, <1>2, SpendsOk DEF Kill
  <2> QED BY <1>2, <2>1, <2>2, MoveKept DEF Kill
<1>3. CASE Lock \/ Unlock \/ EnforcerChanges
  <2>1. OkBudget' /\ Sizes \subseteq Sizes'
    BY <1>1, <1>3, SpendsOk, UnspentOk DEF Lock, Unlock, EnforcerChanges
  <2>2. OkWorld' /\ UNCHANGED <<file, wd, daemon>>
    BY <1>1, <1>3 DEF Lock, Unlock, EnforcerChanges, OkWorld
  <2> QED BY <2>1, <2>2, DaemonKept
<1>4. CASE UNCHANGED vars
  <2>1. OkBudget' /\ Sizes \subseteq Sizes' /\ OkWorld' /\ UNCHANGED <<file, wd, daemon>>
    BY <1>1, <1>4, UnspentOk DEF vars, world, OkWorld
  <2> QED BY <2>1, DaemonKept
<1> QED BY <1>2, <1>3, <1>4, IterateData, DaemonData, RequestData, TickData DEF Next

(* The daemon boots with an empty file.                                    *)
LEMMA InitMesh == Init => Procs /\ Data
<1> SUFFICES ASSUME Init PROVE Procs /\ Data
  OBVIOUS
<1>1. Procs
  BY MeshAssumption DEF Init, Procs
<1>2. OkBudget
  BY MeshAssumption DEF Init, OkBudget, Bounds, Faults
<1>3. OkWorld
  BY MeshAssumption DEF Init, OkWorld
<1>4. OkFile(file, Sizes) /\ \A p \in Pid : OkWatchdog(wd[p], Sizes)
  BY EmptyIsOk, NewIsOk DEF Init
<1>5. OkDaemon(daemon, Sizes)
  <2>1. IsContents(Empty) /\ Sized(Empty.list, 0, Sizes)
    BY EmptyIsOk DEF OkFile
  <2> QED BY <2>1 DEF Init, OkDaemon, IsDaemon, Booting, DaemonAt
<1> QED BY <1>1, <1>2, <1>3, <1>4, <1>5 DEF Data

(* Every variable keeps its type, and parents are there.                   *)
THEOREM TypeCorrect == Spec => []TypeOK
<1>1. Procs /\ Data => TypeOK
  <2> SUFFICES ASSUME Procs, Data PROVE TypeOK
    OBVIOUS
  <2>1. /\ IsContents(file) /\ (\A p \in Pid : IsWatchdog(wd[p])) /\ IsDaemon(daemon)
        /\ left \in [Bounds -> Nat]
    BY DEF Data, OkFile, OkWatchdog, OkDaemon, OkBudget
  <2>2. IsConfig(config) /\ locked \in BOOLEAN /\ covered \in BOOLEAN
    BY DEF Data, OkWorld
  <2> QED BY <2>1, <2>2 DEF TypeOK, Procs
<1> QED BY InitMesh, ProcsStep, DataStep, <1>1, PTL DEF Spec

(* Whatever is overwritten, the list keeps its size while no fork fails.   *)
THEOREM MeshSizeIsKept == Spec => []MeshKeepsSize
<1>1. Data => MeshKeepsSize
  <2> SUFFICES ASSUME Data, left["fork"] = Budget["fork"], Listed # {}
               PROVE  Cardinality(Listed) = Count
    BY DEF MeshKeepsSize
  <2>1. Listed \subseteq Pid /\ Cardinality(Listed) + 0 = Count
    BY DEF Data, OkFile, IsContents, Sized, Sizes, Listed
  <2>2. Cardinality(Listed) \in Nat
    BY <2>1, MeshAssumption, FS_Subset, FS_CardinalityType
  <2> QED BY <2>1, <2>2
<1> QED BY InitMesh, DataStep, <1>1, PTL DEF Spec
=============================================================================

------------------------------ MODULE Attestation ------------------------------
(* The root enforcer and the user daemon watch each other.  The enforcer     *)
(* publishes a challenge at every tick, the daemon echoes it, and browsers   *)
(* are killed when no echo has been verified for too long; the daemon reads  *)
(* the snapshot the enforcer writes at the end of a tick and brings its      *)
(* watchdogs up when that is too old.  A step of a tick, and of the daemon's *)
(* check, is what happens between two reads or writes of a shared file.      *)
(*                                                                           *)
(* The enforcer sleeps for an interval after each tick, and a tick takes     *)
(* time: services are repaired and requests handled, time servers asked,     *)
(* before the snapshot is written.  So the ticks, and the snapshots, are     *)
(* further apart than the interval.  What a tick does before that, and a     *)
(* check of the daemon's, which comes at fixed times, is a few small files.  *)
EXTENDS Integers

CONSTANTS Null,          \* nothing: no nonce, no echo, no process
          Nonces,        \* challenges
          Intervals,     \* values of heartbeat_interval_seconds
          MinTick,       \* MIN_TICK_SECONDS
          MaxTick,       \* MAX_TICK_SECONDS
          TickWork,      \* bound: how long the work of a tick takes
          MinStale,      \* the least an echo may age
          BootGrace,     \* boot_grace_seconds
          LoginGrace,    \* login_grace_seconds
          LinkStale,     \* ENFORCER_STALE_SECONDS
          CheckEvery,    \* schedule_check_interval_seconds
          Jumps,         \* how far the wall clock may be set
          MaxTime,       \* bound: the clock since boot
          MaxEvents      \* bound: starts, stops, failures, changes

ASSUME NullAssumption ==
  /\ Null \notin Nat /\ Null \notin [boot : Nat, at : Int] /\ Null \notin Nonces
  /\ Null \notin [nonce : Nonces, boot : Nat, pid : Nat, at : Nat]
(* Of random nonces there is always one that is nowhere in use.              *)
ASSUME NonceAssumption ==
  \A a, b, c, d \in Nonces \cup {Null} : \E n \in Nonces : n \notin {a, b, c, d}
ASSUME TimeAssumption ==
  /\ Intervals \subseteq Nat \ {0} /\ Jumps \subseteq Int
  /\ {MinTick, CheckEvery} \subseteq Nat \ {0}
  /\ {MaxTick, TickWork, MinStale, BootGrace, LoginGrace, LinkStale} \subseteq Nat
  /\ {MaxTime, MaxEvents} \subseteq Nat

(* An echo may age for longer than there is between two checks: 10 <= 90.    *)
ASSUME PaceAssumption == CheckEvery <= MinStale

VARIABLES
  boot,       \* the boot's number, for its id
  mono,       \* CLOCK_MONOTONIC: the time since the boot
  shift,      \* what the wall clock is ahead of it
  session,    \* a compositor is running
  policy,     \* of enforcement.json: on and interval
  spared,     \* browsers have been left running by the last tick
  up,         \* the enforcer is running
  pc,         \* what its tick is about to do
  due,        \* when its next tick is, or the one under way began
  issued,     \* _issued_nonce
  verified,   \* _last_verified
  present,    \* _session_was_present
  started,    \* _session_started_monotonic
  challenge,  \* heartbeat_challenge.json
  echo,       \* heartbeat_echo.json
  snapshot,   \* enforcer_state.json
  pid,        \* the daemon's process
  state,      \* of that process; held: stopped or traced
  turn,       \* when its next schedule check is
  heard,      \* the nonce the check has read and not echoed yet
  mesh,       \* it has watchdogs
  asked,      \* when the last challenge was made
  events,     \* starts, stops, failures and changes so far
  well,       \* the last of those that may get the daemon suspected
  mark,       \* the last of those that may put a kill off
  down,       \* when the enforcer went down
  ahead       \* the wall clock was set back since the snapshot

world == <<session, policy, spared>>
clocks == <<boot, mono, shift>>
enforcer == <<up, pc, due, issued, verified, present, started>>
files == <<challenge, echo, snapshot, ahead>>
daemon == <<pid, state, turn, heard, mesh>>
history == <<well, mark, down>>
vars == <<clocks, world, enforcer, files, daemon, asked, events, history>>

wall == mono + shift

-----------------------------------------------------------------------------
(* What is decided.                                                          *)

Larger(m, n) == IF m > n THEN m ELSE n
Smaller(m, n) == IF m < n THEN m ELSE n

(* The loop's cadence, and how old an echo may be.                           *)
TickInterval == Smaller(Larger(policy.interval, MinTick), MaxTick)
StaleAfter == Larger(3 * policy.interval, MinStale)

(* The longest there is from the beginning of a tick to that of the next.    *)
Period == TickInterval + TickWork

(* Faulty: the echo of any challenge will do.                                *)
AnyNonce ==
  /\ issued # Null /\ echo # Null
  /\ echo.boot = boot
  /\ 0 <= mono - echo.at /\ mono - echo.at <= StaleAfter
  /\ echo.pid = pid /\ state = "running"

(* The echo answers the challenge that was issued, in this boot, not too     *)
(* long ago, and is of a daemon that is there, neither stopped nor traced.   *)
VerifyAttestation ==
  /\ issued # Null /\ echo # Null
  /\ echo.nonce = issued
  /\ echo.boot = boot
  /\ 0 <= mono - echo.at /\ mono - echo.at <= StaleAfter
  /\ echo.pid = pid /\ state = "running"

(* Faulty: once verified, an echo is good for the rest of the boot.          *)
StaleNever == verified = Null \/ verified.boot # boot

(* The last verified echo is too old, or not of this boot.                   *)
Stale == \/ verified = Null
         \/ verified.boot # boot
         \/ mono - verified.at < 0
         \/ mono - verified.at > StaleAfter

(* Browsers are to be killed: fail closed, outside the grace periods.        *)
KillDecision ==
  /\ policy.on
  /\ present
  /\ mono >= BootGrace
  /\ started # Null => mono - started >= LoginGrace
  /\ Stale

(* Faulty: a snapshot just as old as is allowed is too old.                  *)
AliveStrict ==
  /\ snapshot # Null
  /\ snapshot.boot = boot
  /\ 0 <= wall - snapshot.at /\ wall - snapshot.at < LinkStale

(* The snapshot is of this boot and recent on the wall clock.                *)
EnforcerAlive ==
  /\ snapshot # Null
  /\ snapshot.boot = boot
  /\ 0 <= wall - snapshot.at /\ wall - snapshot.at <= LinkStale

Init ==
  /\ boot = 0 /\ mono = 0 /\ shift = 0
  /\ session \in BOOLEAN /\ spared = FALSE
  /\ \E i \in Intervals : policy = [on |-> TRUE, interval |-> i]
  /\ up = TRUE /\ pc = "idle" /\ due = 0
  /\ issued = Null /\ verified = Null /\ present = FALSE /\ started = Null
  /\ challenge = Null /\ echo = Null /\ snapshot = Null
  /\ pid = IF session THEN 0 ELSE Null
  /\ state = "running" /\ turn = 0 /\ heard = Null /\ mesh = FALSE
  /\ asked = 0 /\ events = 0
  /\ well = 0 /\ mark = 0 /\ down = Null /\ ahead = FALSE

-----------------------------------------------------------------------------
(* The enforcer's tick.                                                      *)

(* Something out of the ordinary happens.                                    *)
Event == events < MaxEvents /\ events' = events + 1

(* A check of the daemon's falls, if c, into the moment between the tick's   *)
(* look at the echo and its new challenge, so that the echo is lost: out of  *)
(* the ordinary too, since that moment is much shorter than either period.   *)
Overlap(c) == IF c THEN Event /\ well' = mono ELSE UNCHANGED <<events, well>>

Running == pid # Null /\ state = "running"

(* Faulty: the whole echo is kept.                                           *)
CheckKeepsEcho ==
  /\ up /\ pc = "idle" /\ mono >= due
  /\ present' = session
  /\ started' = IF session /\ ~present THEN mono ELSE started
  /\ verified' = IF VerifyAttestation THEN echo ELSE verified
  /\ pc' = "issue"
  /\ Overlap(Running /\ heard # Null)
  /\ UNCHANGED <<clocks, world, up, due, issued, files, daemon, asked, mark, down>>

(* Faulty: a tick that verifies nothing forgets what one before it verified. *)
CheckForgets ==
  /\ up /\ pc = "idle" /\ mono >= due
  /\ present' = session
  /\ started' = IF session /\ ~present THEN mono ELSE started
  /\ verified' = IF VerifyAttestation THEN [at |-> echo.at, boot |-> echo.boot] ELSE Null
  /\ pc' = "issue"
  /\ Overlap(Running /\ heard # Null)
  /\ UNCHANGED <<clocks, world, up, due, issued, files, daemon, asked, mark, down>>

(* It finds out whether there is a session, and looks at the echo.           *)
CheckHeartbeat ==
  /\ up /\ pc = "idle" /\ mono >= due
  /\ present' = session
  /\ started' = IF session /\ ~present THEN mono ELSE started
  /\ verified' = IF VerifyAttestation THEN [at |-> echo.at, boot |-> echo.boot] ELSE verified
  /\ pc' = "issue"
  /\ Overlap(Running /\ heard # Null)
  /\ UNCHANGED <<clocks, world, up, due, issued, files, daemon, asked, mark, down>>

(* A nonce that is nowhere in use.                                           *)
NewChallenge ==
  CHOOSE n \in Nonces : n \notin {issued, challenge, heard, IF echo = Null THEN Null ELSE echo.nonce}

(* A new challenge is made, and published unless the write fails.            *)
IssueChallenge ==
  /\ pc = "issue"
  /\ issued' = NewChallenge /\ asked' = mono
  /\ \/ challenge' = issued' /\ UNCHANGED <<events, well>>
     \/ Event /\ well' = mono /\ UNCHANGED challenge
  /\ pc' = "decide"
  /\ UNCHANGED <<clocks, world, up, due, verified, present, started, echo, snapshot, ahead, daemon,
                 mark, down>>

(* Browsers, if there are any, are killed if that is decided; then the work  *)
(* begins.                                                                   *)
Decide ==
  /\ pc = "decide"
  /\ spared' = (session /\ ~KillDecision)
  /\ pc' = "work"
  /\ UNCHANGED <<clocks, session, policy, up, due, issued, verified, present, started, files, daemon,
                 asked, events, history>>

(* A part of the work: the policy in force changes, as requests are applied. *)
WritePolicy(p) ==
  /\ pc = "work" /\ p # policy
  /\ Event /\ policy' = p /\ mark' = mono /\ well' = mono
  /\ UNCHANGED <<clocks, session, spared, enforcer, files, daemon, asked, down>>

(* The work is done: the snapshot is written, unless that or something in    *)
(* the work fails, and the loop sleeps.                                      *)
WriteState ==
  /\ pc = "work"
  /\ \/ snapshot' = [boot |-> boot, at |-> wall] /\ ahead' = FALSE /\ UNCHANGED <<events, well>>
     \/ Event /\ well' = mono /\ UNCHANGED <<snapshot, ahead>>
  /\ pc' = "idle" /\ due' = mono + TickInterval
  /\ UNCHANGED <<clocks, world, up, issued, verified, present, started, challenge, echo,
                 daemon, asked, mark, down>>

(* The memory of an enforcer that is not running.                            *)
NoMemory ==
  /\ pc' = "idle" /\ due' = mono'
  /\ issued' = Null /\ verified' = Null /\ present' = FALSE /\ started' = Null

(* The enforcer is killed.                                                   *)
EnforcerDies ==
  /\ up
  /\ Event /\ up' = FALSE /\ down' = mono
  /\ UNCHANGED <<clocks, world, files, daemon, asked, well, mark>>
  /\ NoMemory

(* It is started: a new instance, which has issued and verified nothing and  *)
(* ticks at once.                                                            *)
EnforcerStarts ==
  /\ ~up
  /\ up' = TRUE /\ down' = Null
  /\ well' = mono /\ mark' = mono
  /\ UNCHANGED <<clocks, world, files, daemon, asked, events>>
  /\ NoMemory

-----------------------------------------------------------------------------
(* The daemon's schedule check.                                              *)

(* Faulty: the fallback is looked at only when there is a challenge.         *)
ReadOnly ==
  /\ Running /\ heard = Null /\ mono >= turn
  /\ turn' = mono + CheckEvery
  /\ mesh' = (mesh \/ (challenge = Null /\ ~EnforcerAlive))
  /\ heard' = challenge
  /\ Overlap(pc = "issue")
  /\ UNCHANGED <<clocks, world, enforcer, files, pid, state, asked, mark, down>>

(* A step of the check before all this fails, and the rest is left out: the  *)
(* fallback is not looked at, and nothing is echoed.                         *)
CheckFails ==
  /\ Running /\ heard = Null /\ mono >= turn
  /\ turn' = mono + CheckEvery
  /\ Event /\ well' = mono
  /\ UNCHANGED <<clocks, world, enforcer, files, pid, state, heard, mesh, asked, mark, down>>

(* Watchdogs are brought up if the enforcer looks down, then the challenge   *)
(* is read.                                                                  *)
ReadChallenge ==
  /\ Running /\ heard = Null /\ mono >= turn
  /\ turn' = mono + CheckEvery
  /\ mesh' = (mesh \/ ~EnforcerAlive)
  /\ heard' = challenge
  /\ Overlap(pc = "issue")
  /\ UNCHANGED <<clocks, world, enforcer, files, pid, state, asked, mark, down>>

(* The challenge is echoed.                                                  *)
WriteEcho ==
  /\ Running /\ heard # Null
  /\ echo' = [nonce |-> heard, boot |-> boot, pid |-> pid, at |-> mono]
  /\ heard' = Null
  /\ UNCHANGED <<clocks, world, enforcer, challenge, snapshot, ahead, pid, state, turn, mesh,
                 asked, events, history>>

(* It is not: the write fails.                                               *)
EchoFails ==
  /\ Running /\ heard # Null
  /\ Event /\ heard' = Null /\ well' = mono
  /\ UNCHANGED <<clocks, world, enforcer, files, pid, state, turn, mesh, asked, mark, down>>

(* The daemon is started, as a new process, and checks at once.              *)
DaemonStarts ==
  /\ session /\ pid = Null
  /\ Event /\ pid' = events' /\ state' = "running" /\ turn' = mono /\ heard' = Null /\ mesh' = FALSE
  /\ well' = mono
  /\ UNCHANGED <<clocks, world, enforcer, files, asked, mark, down>>

(* It dies, is stopped or is traced.                                         *)
DaemonFails ==
  /\ Running
  /\ Event /\ mark' = mono
  /\ \/ pid' = Null /\ heard' = Null /\ mesh' = FALSE /\ turn' = mono /\ UNCHANGED state
     \/ state' = "held" /\ UNCHANGED <<pid, heard, mesh, turn>>
  /\ UNCHANGED <<clocks, world, enforcer, files, asked, well, down>>

(* A stopped one goes on where it was.                                       *)
DaemonContinues ==
  /\ pid # Null /\ state # "running"
  /\ Event /\ state' = "running" /\ turn' = Larger(turn, mono) /\ well' = mono
  /\ UNCHANGED <<clocks, world, enforcer, files, pid, heard, mesh, asked, mark, down>>

-----------------------------------------------------------------------------
(* The machine and its user.                                                 *)

LogIn ==
  /\ ~session
  /\ Event /\ session' = TRUE /\ mark' = mono
  /\ UNCHANGED <<clocks, policy, spared, enforcer, files, daemon, asked, well, down>>

(* The compositor ends, and browsers with it; the daemon need not.           *)
LogOut ==
  /\ session
  /\ Event /\ session' = FALSE /\ spared' = FALSE /\ mark' = mono
  /\ UNCHANGED <<clocks, policy, enforcer, files, daemon, asked, well, down>>

(* The wall clock is set.                                                    *)
SetClock ==
  /\ Event /\ well' = mono
  /\ \E j \in Jumps : shift' = shift + j /\ ahead' = (ahead \/ j < 0)
  /\ UNCHANGED <<boot, mono, world, enforcer, challenge, echo, snapshot, daemon, asked,
                 mark, down>>

(* Files and the wall clock survive a reboot, processes do not.  Who was     *)
(* logged in is again at once, which starts the daemon.                      *)
Reboot ==
  /\ Event /\ boot' = boot + 1 /\ mono' = 0 /\ shift' = wall
  /\ spared' = FALSE
  /\ up' = FALSE /\ down' = 0 /\ NoMemory
  /\ pid' = IF session THEN events' ELSE Null
  /\ state' = "running" /\ turn' = 0 /\ heard' = Null /\ mesh' = FALSE
  /\ well' = 0 /\ mark' = 0 /\ asked' = 0 /\ ahead' = FALSE
  /\ UNCHANGED <<session, policy, challenge, echo, snapshot>>

(* Time passes when nobody who is running has something to do, or while the  *)
(* enforcer works.                                                           *)
Advance ==
  /\ mono < MaxTime
  /\ up => \/ pc = "idle" /\ mono < due
           \/ pc = "work" /\ mono < due + TickWork
  /\ Running => heard = Null /\ mono < turn
  /\ mono' = mono + 1
  /\ UNCHANGED <<boot, shift, world, enforcer, files, daemon, asked, events, history>>

Tick ==
  \/ CheckHeartbeat \/ IssueChallenge \/ Decide \/ WriteState
  \/ \E on \in BOOLEAN, i \in Intervals : WritePolicy([on |-> on, interval |-> i])

Check == ReadChallenge \/ CheckFails \/ WriteEcho \/ EchoFails

Happening ==
  \/ EnforcerDies \/ EnforcerStarts \/ DaemonStarts \/ DaemonFails \/ DaemonContinues
  \/ LogIn \/ LogOut \/ SetClock \/ Reboot

Next == Tick \/ Check \/ Happening \/ Advance

Spec == Init /\ [][Next]_vars

-----------------------------------------------------------------------------
(* Correctness.                                                              *)

(* Every variable has its type.                                              *)
TypeOK ==
  /\ boot \in Nat /\ mono \in Nat /\ shift \in Int
  /\ session \in BOOLEAN /\ spared \in BOOLEAN /\ policy \in [on : BOOLEAN, interval : Intervals]
  /\ up \in BOOLEAN /\ pc \in {"idle", "issue", "decide", "work"} /\ due \in Nat
  /\ issued \in Nonces \cup {Null} /\ verified \in [at : Nat, boot : Nat] \cup {Null}
  /\ present \in BOOLEAN /\ started \in Nat \cup {Null}
  /\ challenge \in Nonces \cup {Null} /\ heard \in Nonces \cup {Null}
  /\ echo \in [nonce : Nonces, boot : Nat, pid : Nat, at : Nat] \cup {Null}
  /\ snapshot \in [boot : Nat, at : Int] \cup {Null}
  /\ pid \in Nat \cup {Null} /\ state \in {"running", "held"}
  /\ turn \in Nat /\ mesh \in BOOLEAN
  /\ asked \in Nat /\ events \in Nat
  /\ well \in Nat /\ mark \in Nat /\ down \in Nat \cup {Null}
  /\ ahead \in BOOLEAN

(* What the enforcer takes for a sign of life is one: it was given in this   *)
(* boot, after the challenge it answers was made.  An echo of before, of a   *)
(* daemon that has hung or died since, or of the last boot, never counts     *)
(* (heartbeat.py:7).                                                         *)
ProofIsNew ==
  [][verified' # verified /\ verified' # Null
       => verified'.boot = boot /\ asked <= verified'.at /\ verified'.at <= mono]_vars

(* A daemon that has run undisturbed from a tick to the next and for a       *)
(* check, its files written, is not suspected: its browsers stay, whatever   *)
(* failed before (logic.py:83).                                              *)
HealthyIsSpared ==
  [][pc = "decide" /\ pc' = "work" /\ session /\ ~spared' /\ Running
       => mono - well <= Period + CheckEvery]_vars

(* Browsers do not outlive a daemon that is gone or stopped by more than the *)
(* staleness allowed, or a grace period, and the time to the next tick       *)
(* (main.py:5).                                                              *)
DeadIsCaught ==
  (up /\ session /\ spared /\ policy.on /\ ~Running)
    => mono <= Larger(mark + Larger(StaleAfter + 1, LoginGrace + Period), BootGrace) + Period

(* When the enforcer stays down, a daemon that keeps checking has watchdogs  *)
(* soon after its last snapshot has aged, which takes longer when the clock  *)
(* was set back: a check must first find the snapshot in the past            *)
(* (enforcer_link.py:6).                                                     *)
FallbackComesUp ==
  (down # Null /\ Running /\ ~mesh)
    => mono <= CheckEvery + IF ahead THEN Larger(down, well + CheckEvery) + LinkStale
                                     ELSE Larger(down + LinkStale, well)

(* And an enforcer whose loop keeps its time is not taken for dead, if its   *)
(* interval leaves room for the work of a tick: the snapshot then is younger *)
(* than what is allowed (enforcer_link.py:32).  At the slowest interval,     *)
(* which is all that is allowed, the watchdogs do come up beside it.         *)
NoFalseFallback ==
  [][Running /\ ~mesh /\ mesh' /\ up /\ Period <= LinkStale
       => mono - well <= Period]_vars
=============================================================================

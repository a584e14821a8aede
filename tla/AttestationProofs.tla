-------------------------- MODULE AttestationProofs ---------------------------
(*****************************************************************************)
(* What Attestation guarantees for every period, grace and bound that keep   *)
(* the order assumed of them.  First what does not depend on time: types,    *)
(* and that a proof of life is new.                                          *)
(*                                                                           *)
(* Then the bounds on time, from one invariant over the deadlines of the     *)
(* two loops (TimeInv): the snapshot is recent unless the machine was        *)
(* disturbed, so a daemon does not raise watchdogs in vain; a challenge is   *)
(* published at every tick and echoed at every check, so a daemon that       *)
(* keeps checking does not lose its browsers; and when the daemon or the     *)
(* enforcer is gone, the other finds out in time.                            *)
(*****************************************************************************)
EXTENDS Attestation, TLAPS

USE DEF clocks, world, enforcer, files, daemon, history

(* Cadences are times.                                                       *)
LEMMA TickIsTime == ASSUME policy.interval \in Nat PROVE TickInterval \in Nat
BY TimeAssumption DEF TickInterval, Larger, Smaller

-----------------------------------------------------------------------------
(* The inductive invariant.                                                  *)

(* A tick is one of a running enforcer.                                      *)
TickRuns == pc # "idle" => up

(* The echo of the challenge in force was written since that was made.       *)
EchoIsNew ==
  /\ asked <= mono
  /\ (up /\ issued # Null /\ echo # Null /\ echo.nonce = issued)
       => echo.boot = boot /\ asked <= echo.at /\ echo.at <= mono

(* What every step keeps, bounds on time left aside.                         *)
Inv == TypeOK /\ TickRuns /\ EchoIsNew

(* The types, in two parts.                                                  *)
FlagsTyped == /\ session \in BOOLEAN /\ spared \in BOOLEAN /\ up \in BOOLEAN
              /\ present \in BOOLEAN /\ mesh \in BOOLEAN /\ ahead \in BOOLEAN
(* ... the numbers, files and records.                                       *)
RestTyped ==
  /\ boot \in Nat /\ mono \in Nat /\ shift \in Int
  /\ policy \in [on : BOOLEAN, interval : Intervals]
  /\ pc \in {"idle", "issue", "decide", "work"} /\ due \in Nat
  /\ issued \in Nonces \cup {Null} /\ verified \in [at : Nat, boot : Nat] \cup {Null}
  /\ started \in Nat \cup {Null}
  /\ challenge \in Nonces \cup {Null} /\ heard \in Nonces \cup {Null}
  /\ echo \in [nonce : Nonces, boot : Nat, pid : Nat, at : Nat] \cup {Null}
  /\ snapshot \in [boot : Nat, at : Int] \cup {Null}
  /\ pid \in Nat \cup {Null} /\ state \in {"running", "held"} /\ turn \in Nat
  /\ asked \in Nat /\ events \in Nat
  /\ well \in Nat /\ mark \in Nat /\ down \in Nat \cup {Null}

LEMMA TypeParts == (TypeOK => FlagsTyped /\ RestTyped) /\ (FlagsTyped /\ RestTyped => TypeOK)
BY Zenon DEF TypeOK, FlagsTyped, RestTyped

(* The same of the next state.                                               *)
LEMMA TypePartsNext == FlagsTyped' /\ RestTyped' => TypeOK'
BY Zenon DEF TypeOK, FlagsTyped, RestTyped

(* The system starts in it.                                                  *)
LEMMA InitInv == Init => Inv
<1> SUFFICES ASSUME Init PROVE Inv
  OBVIOUS
<1>1. FlagsTyped
  BY Zenon DEF Init, FlagsTyped
<1>2. RestTyped
  <2>1. policy \in [on : BOOLEAN, interval : Intervals]
    BY DEF Init
  <2>2. pid \in Nat \cup {Null}
    BY DEF Init
  <2>3. /\ boot = 0 /\ mono = 0 /\ shift = 0 /\ pc = "idle" /\ due = 0
        /\ issued = Null /\ verified = Null /\ started = Null
        /\ challenge = Null /\ echo = Null /\ snapshot = Null
        /\ state = "running" /\ turn = 0 /\ heard = Null
        /\ asked = 0 /\ events = 0 /\ well = 0 /\ mark = 0 /\ down = Null
    BY DEF Init
  <2> QED BY <2>1, <2>2, <2>3 DEF RestTyped
<1>3. TickRuns /\ EchoIsNew
  BY DEF Init, TickRuns, EchoIsNew
<1> QED BY <1>1, <1>2, <1>3, TypeParts DEF Inv

(* Flags stay flags.                                                         *)
LEMMA FlagsKept == FlagsTyped /\ [Next]_vars => FlagsTyped'
<1> SUFFICES ASSUME FlagsTyped, [Next]_vars PROVE FlagsTyped'
  OBVIOUS
<1> USE DEF FlagsTyped
<1>1. CASE CheckHeartbeat
  BY <1>1, Zenon DEF CheckHeartbeat
<1>2. CASE IssueChallenge
  BY <1>2, Zenon DEF IssueChallenge
<1>3. CASE Decide
  BY <1>3, Zenon DEF Decide
<1>12. CASE WriteState
  BY <1>12, Zenon DEF WriteState
<1>13. CASE CheckFails
  BY <1>13, Zenon DEF CheckFails
<1>4. ASSUME NEW p, WritePolicy(p) PROVE FlagsTyped'
  BY <1>4, Zenon DEF WritePolicy
<1>5. CASE EnforcerDies \/ EnforcerStarts
  BY <1>5, Zenon DEF EnforcerDies, EnforcerStarts, NoMemory
<1>6. CASE ReadChallenge
  BY <1>6, Zenon DEF ReadChallenge
<1>7. CASE WriteEcho \/ EchoFails
  BY <1>7, Zenon DEF WriteEcho, EchoFails
<1>8. CASE DaemonStarts \/ DaemonFails \/ DaemonContinues
  BY <1>8, Zenon DEF DaemonStarts, DaemonFails, DaemonContinues
<1>9. CASE LogIn \/ LogOut
  BY <1>9, Zenon DEF LogIn, LogOut
<1>10. CASE SetClock \/ Reboot \/ Advance
  BY <1>10, Zenon DEF SetClock, Reboot, NoMemory, Advance
<1>11. CASE UNCHANGED vars
  BY <1>11 DEF vars
<1> QED BY <1>1, <1>2, <1>3, <1>4, <1>5, <1>6, <1>7, <1>8, <1>9, <1>10, <1>11, <1>12, <1>13
       DEF Next, Tick, Check, Happening

(* A nonce that is made is new to every file and process.                    *)
LEMMA NewIsNew ==
  RestTyped => /\ NewChallenge \in Nonces
               /\ NewChallenge \notin {issued, challenge, heard}
               /\ echo # Null => NewChallenge # echo.nonce
<1> SUFFICES ASSUME RestTyped
             PROVE  /\ NewChallenge \in Nonces
                    /\ NewChallenge \notin {issued, challenge, heard}
                    /\ echo # Null => NewChallenge # echo.nonce
  OBVIOUS
<1> DEFINE answered == IF echo = Null THEN Null ELSE echo.nonce
<1>1. /\ issued \in Nonces \cup {Null} /\ challenge \in Nonces \cup {Null}
      /\ heard \in Nonces \cup {Null} /\ answered \in Nonces \cup {Null}
  BY DEF RestTyped
<1>2. \E n \in Nonces : n \notin {issued, challenge, heard, answered}
  BY <1>1, NonceAssumption
<1>3. /\ NewChallenge \in Nonces
      /\ NewChallenge \notin {issued, challenge, heard, answered}
  BY <1>2 DEF NewChallenge
<1> QED BY <1>3

(* The steps of a tick keep the other types.                                 *)
LEMMA TickTyped ==
  RestTyped /\ Tick => RestTyped'
<1> SUFFICES ASSUME RestTyped, Tick PROVE RestTyped'
  OBVIOUS
<1>1. CASE CheckHeartbeat
  <2>1. verified' \in [at : Nat, boot : Nat] \cup {Null}
    BY <1>1 DEF CheckHeartbeat, VerifyAttestation, RestTyped
  <2>2. started' \in Nat \cup {Null} /\ events' \in Nat /\ well' \in Nat
    BY <1>1 DEF CheckHeartbeat, RestTyped, Overlap, Event
  <2> QED BY <1>1, <2>1, <2>2 DEF CheckHeartbeat, RestTyped
<1>2. CASE IssueChallenge
  <2>1. issued' \in Nonces /\ challenge' \in Nonces \cup {Null}
    BY <1>2, NewIsNew DEF IssueChallenge, RestTyped
  <2>2. events' \in Nat /\ well' \in Nat /\ asked' \in Nat
    BY <1>2 DEF IssueChallenge, RestTyped, Event
  <2> QED BY <1>2, <2>1, <2>2 DEF IssueChallenge, RestTyped
<1>3. CASE Decide
  BY <1>3 DEF Decide, RestTyped
<1>4. CASE WriteState
  <2>2. snapshot' \in [boot : Nat, at : Int] \cup {Null}
    BY <1>4 DEF WriteState, RestTyped, wall
  <2>3. events' \in Nat /\ well' \in Nat
    BY <1>4 DEF WriteState, RestTyped, Event
  <2>4. due' \in Nat
    <3>1. policy.interval \in Nat /\ mono \in Nat
      BY TimeAssumption DEF RestTyped
    <3>2. TickInterval \in Nat
      BY <3>1, TickIsTime
    <3> QED BY <1>4, <3>1, <3>2 DEF WriteState
  <2> QED BY <1>4, <2>2, <2>3, <2>4 DEF WriteState, RestTyped
<1>5. ASSUME NEW on \in BOOLEAN, NEW i \in Intervals, WritePolicy([on |-> on, interval |-> i])
      PROVE  RestTyped'
  BY <1>5 DEF WritePolicy, RestTyped, Event
<1> QED BY <1>1, <1>2, <1>3, <1>4, <1>5 DEF Tick

(* So do those of the daemon's check.                                        *)
LEMMA CheckTyped ==
  RestTyped /\ Check => RestTyped'
<1> SUFFICES ASSUME RestTyped, Check PROVE RestTyped'
  OBVIOUS
<1>1. CASE ReadChallenge
  <2>1. turn' \in Nat /\ events' \in Nat /\ well' \in Nat
    BY <1>1, TimeAssumption DEF ReadChallenge, RestTyped, Overlap, Event
  <2> QED BY <1>1, <2>1 DEF ReadChallenge, RestTyped
<1>2. CASE WriteEcho
  <2>1. echo' \in [nonce : Nonces, boot : Nat, pid : Nat, at : Nat]
    BY <1>2 DEF WriteEcho, RestTyped, Running
  <2> QED BY <1>2, <2>1 DEF WriteEcho, RestTyped
<1>3. CASE EchoFails
  BY <1>3 DEF EchoFails, RestTyped, Event
<1>4. CASE CheckFails
  BY <1>4, TimeAssumption DEF CheckFails, RestTyped, Event
<1> QED BY <1>1, <1>2, <1>3, <1>4 DEF Check

(* And everything that happens to the processes and the machine.             *)
LEMMA EventTyped ==
  RestTyped /\ (Happening \/ Advance) => RestTyped'
<1> SUFFICES ASSUME RestTyped, Happening \/ Advance PROVE RestTyped'
  OBVIOUS
<1>2. CASE EnforcerDies \/ EnforcerStarts
  BY <1>2 DEF EnforcerDies, EnforcerStarts, NoMemory, RestTyped, Event
<1>3. CASE DaemonStarts
  BY <1>3 DEF DaemonStarts, RestTyped, Event
<1>4. CASE DaemonFails
  BY <1>4 DEF DaemonFails, RestTyped, Event
<1>5. CASE DaemonContinues
  BY <1>5 DEF DaemonContinues, RestTyped, Event, Larger
<1>6. CASE LogIn \/ LogOut
  BY <1>6 DEF LogIn, LogOut, RestTyped, Event
<1>7. CASE SetClock
  <2>1. shift' \in Int /\ well' \in Nat /\ events' \in Nat
    BY <1>7, TimeAssumption DEF SetClock, RestTyped, Event
  <2> QED BY <1>7, <2>1 DEF SetClock, RestTyped
<1>8. CASE Reboot
  <2>1. shift' \in Int /\ pid' \in Nat \cup {Null} /\ events' \in Nat
    BY <1>8 DEF Reboot, RestTyped, Event, wall
  <2> QED BY <1>8, <2>1 DEF Reboot, NoMemory, RestTyped
<1>9. CASE Advance
  BY <1>9 DEF Advance, RestTyped
<1> QED BY <1>2, <1>3, <1>4, <1>5, <1>6, <1>7, <1>8, <1>9 DEF Happening

(* Every step keeps the invariant.                                           *)
LEMMA NextInv == Inv /\ [Next]_vars => Inv'
<1> SUFFICES ASSUME Inv, [Next]_vars PROVE Inv'
  OBVIOUS
<1>1. TypeOK'
  <2>1. FlagsTyped /\ RestTyped
    BY TypeParts DEF Inv
  <2>2. UNCHANGED vars => RestTyped'
    BY <2>1 DEF RestTyped, vars
  <2>3. RestTyped'
    BY <2>1, <2>2, TickTyped, CheckTyped, EventTyped DEF Next
  <2>4. FlagsTyped'
    BY <2>1, FlagsKept
  <2> QED BY <2>3, <2>4, TypePartsNext
<1> USE NullAssumption DEF TickRuns, EchoIsNew
<1>2. CASE CheckHeartbeat
  BY <1>1, <1>2 DEF Inv, CheckHeartbeat
<1>3. CASE IssueChallenge
  <2>1. issued' = NewChallenge /\ (echo # Null => NewChallenge # echo.nonce)
    BY <1>3, NewIsNew, TypeParts DEF Inv, IssueChallenge
  <2>2. UNCHANGED <<heard, echo, up>> /\ pc = "issue" /\ asked' = mono /\ mono' = mono
    BY <1>3 DEF IssueChallenge
  <2> QED BY <1>1, <2>1, <2>2 DEF Inv, TypeOK
<1>4. CASE Decide \/ WriteState
  BY <1>1, <1>4 DEF Inv, Decide, WriteState
<1>5. ASSUME NEW p, WritePolicy(p) PROVE Inv'
  BY <1>1, <1>5 DEF Inv, WritePolicy
<1>6. CASE EnforcerDies \/ EnforcerStarts
  BY <1>1, <1>6 DEF Inv, EnforcerDies, EnforcerStarts, NoMemory
<1>7. CASE ReadChallenge \/ CheckFails \/ EchoFails
  BY <1>1, <1>7 DEF Inv, ReadChallenge, CheckFails, EchoFails
<1>8. CASE WriteEcho
  <2>1. /\ echo' = [nonce |-> heard, boot |-> boot, pid |-> pid, at |-> mono] /\ heard' = Null
        /\ heard # Null /\ UNCHANGED <<issued, challenge, boot, mono, asked, up, pc>>
    BY <1>8 DEF WriteEcho
  <2>2. echo'.nonce = heard /\ echo'.boot = boot /\ echo'.at = mono
    BY <2>1
  <2> HIDE NullAssumption
  <2> QED BY <1>1, <2>1, <2>2 DEF Inv, TypeOK
<1>9. CASE DaemonStarts \/ DaemonFails \/ DaemonContinues
  BY <1>1, <1>9 DEF Inv, DaemonStarts, DaemonFails, DaemonContinues
<1>10. CASE LogIn \/ LogOut \/ SetClock
  BY <1>1, <1>10 DEF Inv, LogIn, LogOut, SetClock
<1>11. CASE Reboot
  BY <1>1, <1>11 DEF Inv, Reboot, NoMemory
<1>12. CASE Advance
  BY <1>1, <1>12 DEF Inv, TypeOK, Advance
<1>13. CASE UNCHANGED vars
  BY <1>1, <1>13 DEF Inv, vars
<1> QED BY <1>2, <1>3, <1>4, <1>5, <1>6, <1>7, <1>8, <1>9, <1>10, <1>11, <1>12, <1>13
       DEF Next, Tick, Check, Happening

(* Types, whatever starts, stops or fails, and however often.                *)
THEOREM TypeCorrect == Spec => []TypeOK
<1>1. Inv => TypeOK
  BY DEF Inv
<1> QED BY InitInv, NextInv, <1>1, PTL DEF Spec

(* No echo of before the challenge, of another boot or of a challenge that   *)
(* was replaced is ever taken for a sign of life.                            *)
THEOREM ProofsAreNew == Spec => ProofIsNew
<1>1. Inv /\ [Next]_vars
        => [verified' # verified /\ verified' # Null
              => verified'.boot = boot /\ asked <= verified'.at /\ verified'.at <= mono]_vars
  <2> SUFFICES ASSUME Inv, Next, verified' # verified, verified' # Null
               PROVE  verified'.boot = boot /\ asked <= verified'.at /\ verified'.at <= mono
    BY DEF vars
  <2>1. CASE CheckHeartbeat
    BY <2>1 DEF Inv, EchoIsNew, CheckHeartbeat, VerifyAttestation
  <2>2. CASE ~CheckHeartbeat
    BY <2>2 DEF Next, Tick, Check, Happening, IssueChallenge, Decide, WriteState, WritePolicy,
                EnforcerDies, EnforcerStarts, NoMemory, ReadChallenge, CheckFails,
                WriteEcho, EchoFails, DaemonStarts, DaemonFails, DaemonContinues, LogIn, LogOut,
                SetClock, Reboot, Advance
  <2> QED BY <2>1, <2>2
<1> QED BY InitInv, NextInv, <1>1, PTL DEF Spec, ProofIsNew

-----------------------------------------------------------------------------
(* Bounds on time.                                                           *)

(* Nobody who runs is late, and nobody sleeps or works for longer than it    *)
(* may.                                                                      *)
InTime ==
  /\ up /\ pc = "idle" => mono <= due /\ due <= mono + TickInterval
  /\ pc \in {"issue", "decide"} => due = mono
  /\ pc = "work" => due <= mono /\ mono <= due + TickWork
  /\ Running => mono <= turn
  /\ turn <= mono + CheckEvery
  /\ up <=> down = Null
  /\ well <= mono /\ mark <= mono
  /\ down # Null => down <= mono
  /\ heard # Null => pid # Null

(* The snapshot of this boot, and when the wall clock says it was written.   *)
OfThisBoot == snapshot # Null /\ snapshot.boot = boot
(* The monotonic time at which a snapshot of this boot was written, as the   *)
(* clock in force has it.                                                    *)
Written == snapshot.at - shift

(* The enforcer was disturbed less than an interval before the next tick is  *)
(* due, or has written the last snapshot then.                               *)
SnapshotIsRecent ==
  up => \/ due <= well + TickInterval
        \/ OfThisBoot /\ Written <= mono /\ due <= Written + TickInterval

(* A snapshot is not from the future, unless the clock was set back.         *)
SnapshotIsPast ==
  /\ snapshot # Null => snapshot.boot <= boot
  /\ OfThisBoot /\ ~ahead => Written <= IF down = Null THEN mono ELSE down

(* What a daemon without watchdogs has made of the snapshot at its last      *)
(* check.                                                                    *)
SnapshotIsBelieved ==
  Running /\ ~mesh =>
    /\ OfThisBoot => \/ turn <= well + CheckEvery
                     \/ Written <= Larger(well + CheckEvery, IF down = Null THEN mono ELSE down)
    /\ down # Null => turn <= CheckEvery + IF ahead
                                           THEN Larger(down, well + CheckEvery) + LinkStale
                                           ELSE Larger(down + LinkStale, well)

(* When a kill is possible at the latest: nothing puts it off any more.      *)
Excuse(m, stale, period) == Larger(m + Larger(stale + 1, LoginGrace + period), BootGrace)
(* ... with the staleness and the period of now.                             *)
NoExcuse == Excuse(mark, StaleAfter, Period)

(* What the enforcer knows of session and daemon.                            *)
KnowsSession ==
  up => /\ session /\ ~present => due <= IF pc = "idle" THEN mark + Period ELSE mark
        /\ started # Null => started <= mono /\ started <= mark + Period
(* A proof of life is older than the daemon's end.                           *)
VerifiedIsPast ==
  up /\ verified # Null /\ verified.boot = boot
    => /\ verified.at <= IF Running THEN mono ELSE mark
       /\ pc # "issue" => verified.at <= asked
(* Of a session without the daemon the enforcer decides in time.             *)
KillIsDue ==
  up /\ session /\ spared /\ policy.on /\ ~Running
    => due <= IF pc = "work" THEN NoExcuse ELSE NoExcuse + Period

(* The next check comes soon after the last disturbance, or after the time   *)
(* t of a sign of life.                                                      *)
SoonAfter(t) == turn <= t + CheckEvery

(* Since the last disturbance, the challenge issued has been published ...   *)
Published == issued # Null /\ challenge = issued
(* ... by the tick under way, or at the next.                                *)
ChallengeIsPublished ==
  up => Published \/ due <= IF pc \in {"decide", "work"} THEN well ELSE well + Period

(* ... and what the daemon has read or echoed answers it, or it has been     *)
(* verified already.                                                         *)
Disturbed == turn <= well + Period + CheckEvery
(* The echo of the daemon answers the challenge, and is fresh.               *)
EchoIsGood == /\ echo # Null /\ issued # Null
              /\ echo.nonce = issued /\ echo.boot = boot /\ echo.pid = pid
              /\ echo.at <= mono /\ SoonAfter(echo.at)
(* The enforcer has seen such an echo.                                       *)
VerifiedIsGood == verified # Null /\ verified.boot = boot /\ SoonAfter(verified.at)
(* One of these holds of a daemon that runs.                                 *)
EchoIsOnItsWay ==
  up /\ Running =>
    \/ Disturbed
    \/ heard # Null /\ heard = issued /\ pc # "issue"
    \/ heard = Null /\ EchoIsGood /\ pc # "issue"
    \/ heard = Null /\ VerifiedIsGood
(* A tick that has begun finds the daemon verified a check ago.              *)
VerifiedInTick ==
  up /\ Running /\ pc \in {"issue", "decide"} =>
    \/ mono <= well + Period + CheckEvery
    \/ verified # Null /\ verified.boot = boot /\ mono <= verified.at + CheckEvery

(* The inductive invariant.                                                  *)
TimeInv ==
  /\ Inv /\ InTime
  /\ SnapshotIsRecent /\ SnapshotIsPast /\ SnapshotIsBelieved
  /\ KnowsSession /\ VerifiedIsPast /\ KillIsDue
  /\ ChallengeIsPublished /\ EchoIsOnItsWay /\ VerifiedInTick

(* Intervals and periods are times, and a period an interval and the work.   *)
LEMMA Periods ==
  RestTyped => TickInterval \in Nat /\ Period \in Nat /\ Period = TickInterval + TickWork
<1> SUFFICES ASSUME RestTyped
             PROVE  TickInterval \in Nat /\ Period \in Nat /\ Period = TickInterval + TickWork
  OBVIOUS
<1>1. policy.interval \in Nat
  BY TimeAssumption DEF RestTyped
<1>2. TickInterval \in Nat
  BY <1>1, TickIsTime
<1> QED BY <1>2, TimeAssumption DEF Period

(* ... also in the next state.                                               *)
LEMMA PeriodsNext ==
  RestTyped' => TickInterval' \in Nat /\ Period' \in Nat /\ Period' = TickInterval' + TickWork
<1> SUFFICES ASSUME RestTyped'
             PROVE  TickInterval' \in Nat /\ Period' \in Nat /\ Period' = TickInterval' + TickWork
  OBVIOUS
<1>1. policy'.interval \in Nat
  BY TimeAssumption DEF RestTyped
<1>2. TickInterval' \in Nat
  BY <1>1, TimeAssumption DEF TickInterval, Larger, Smaller
<1> QED BY <1>2, TimeAssumption DEF Period

(* What the steps of the proofs below have in common.                        *)
LEMMA Setting ==
  Inv /\ [Next]_vars =>
    /\ RestTyped /\ TickRuns /\ RestTyped'
    /\ TickInterval \in Nat /\ Period \in Nat /\ Period = TickInterval + TickWork
    /\ TickInterval' \in Nat /\ Period' \in Nat /\ Period' = TickInterval' + TickWork
    /\ UNCHANGED policy => TickInterval' = TickInterval /\ Period' = Period
<1>1. UNCHANGED policy => TickInterval' = TickInterval /\ Period' = Period
  BY DEF TickInterval, Period
<1>2. Inv /\ [Next]_vars => RestTyped /\ TickRuns /\ RestTyped'
  BY NextInv, TypeParts DEF Inv, TypeOK, RestTyped
<1> QED BY <1>1, <1>2, Periods, PeriodsNext

(* Who runs keeps its time.                                                  *)
LEMMA InTimeKept == Inv /\ InTime /\ [Next]_vars => InTime'
<1> SUFFICES ASSUME Inv, InTime, [Next]_vars PROVE InTime'
  OBVIOUS
<1>1. /\ RestTyped /\ TickRuns /\ RestTyped'
      /\ TickInterval \in Nat /\ Period \in Nat /\ Period = TickInterval + TickWork
      /\ TickInterval' \in Nat /\ Period' \in Nat /\ Period' = TickInterval' + TickWork
      /\ UNCHANGED policy => TickInterval' = TickInterval /\ Period' = Period
  BY Setting
<1> USE <1>1, TimeAssumption, NullAssumption DEF InTime, Running, TickRuns, RestTyped
<1>2. CASE CheckHeartbeat
  BY <1>2 DEF CheckHeartbeat, Overlap, Event
<1>3. CASE IssueChallenge
  BY <1>3 DEF IssueChallenge, Event
<1>4. CASE Decide
  BY <1>4 DEF Decide
<1>5. ASSUME NEW p, WritePolicy(p) PROVE InTime'
  BY <1>5 DEF WritePolicy
<1>6. CASE EnforcerDies
  BY <1>6 DEF EnforcerDies, NoMemory
<1>7. CASE EnforcerStarts
  BY <1>7 DEF EnforcerStarts, NoMemory
<1>8. CASE ReadChallenge
  BY <1>8 DEF ReadChallenge, Overlap, Event
<1>9. CASE WriteEcho \/ EchoFails
  <2>1. CASE WriteEcho
    BY <2>1 DEF WriteEcho
  <2>2. CASE EchoFails
    BY <2>2 DEF EchoFails
  <2> QED BY <1>9, <2>1, <2>2
<1>10. CASE DaemonStarts
  BY <1>10 DEF DaemonStarts, Event
<1>11. CASE DaemonFails
  BY <1>11 DEF DaemonFails
<1>12. CASE DaemonContinues
  BY <1>12 DEF DaemonContinues, Larger
<1>13. CASE LogIn \/ LogOut
  <2>1. CASE LogIn
    BY <2>1 DEF LogIn
  <2>2. CASE LogOut
    BY <2>2 DEF LogOut
  <2> QED BY <1>13, <2>1, <2>2
<1>14. CASE SetClock
  BY <1>14 DEF SetClock
<1>15. CASE Reboot
  BY <1>15 DEF Reboot, NoMemory
<1>16. CASE Advance
  BY <1>16 DEF Advance
<1>17. CASE UNCHANGED vars
  BY <1>17 DEF vars
<1>18. CASE WriteState
  BY <1>18 DEF WriteState
<1>19. CASE CheckFails
  BY <1>19 DEF CheckFails
<1> QED BY <1>18, <1>19, <1>2, <1>3, <1>4, <1>5, <1>6, <1>7, <1>8, <1>9, <1>10, <1>11, <1>12, <1>13,
           <1>14, <1>15, <1>16, <1>17 DEF Next, Tick, Check, Happening

(* The snapshot is of the last period, or the disturbance is.                *)
LEMMA RecentKept == Inv /\ InTime /\ SnapshotIsRecent /\ [Next]_vars => SnapshotIsRecent'
<1> SUFFICES ASSUME Inv, InTime, SnapshotIsRecent, [Next]_vars PROVE SnapshotIsRecent'
  OBVIOUS
<1>1. /\ RestTyped /\ TickRuns /\ RestTyped'
      /\ TickInterval \in Nat /\ Period \in Nat /\ Period = TickInterval + TickWork
      /\ TickInterval' \in Nat /\ Period' \in Nat /\ Period' = TickInterval' + TickWork
      /\ UNCHANGED policy => TickInterval' = TickInterval /\ Period' = Period
  BY Setting
<1> USE <1>1, TimeAssumption, NullAssumption
    DEF SnapshotIsRecent, InTime, TickRuns, RestTyped, OfThisBoot, Written
<1>2. CASE CheckHeartbeat
  BY <1>2 DEF CheckHeartbeat, Overlap, Event
<1>3. CASE IssueChallenge
  <2>1. /\ up = up' /\ due' = due /\ due = mono /\ TickInterval' = TickInterval
        /\ UNCHANGED <<mono, boot, shift, snapshot>> /\ well' \in {well, mono}
    BY <1>1, <1>3 DEF IssueChallenge
  <2>2. mono \in Nat /\ TickInterval \in Nat
    BY <1>1
  <2>3. CASE well' = mono
    <3> HIDE DEF RestTyped, InTime, TickRuns
    <3> QED BY <2>1, <2>2, <2>3
  <2>4. CASE well' = well
    <3> HIDE DEF RestTyped, InTime, TickRuns
    <3> QED BY <2>1, <2>4
  <2> QED BY <2>1, <2>3, <2>4
<1>4. CASE Decide
  BY <1>4 DEF Decide
<1>5. ASSUME NEW p, WritePolicy(p) PROVE SnapshotIsRecent'
  <2>1. due' = due /\ due <= mono /\ well' = mono
    BY <1>5 DEF WritePolicy
  <2> DEFINE interval == TickInterval'
  <2>2. mono \in Nat /\ due \in Nat /\ interval \in Nat
    BY <1>1
  <2>3. due' <= well' + interval
    <3> HIDE DEF RestTyped, InTime, TickRuns, SnapshotIsRecent, interval
    <3> QED BY <2>1, <2>2
  <2> QED BY <2>3
<1>6. CASE EnforcerDies \/ EnforcerStarts
  BY <1>6 DEF EnforcerDies, EnforcerStarts, NoMemory
<1>7. CASE ReadChallenge
  BY <1>7 DEF ReadChallenge, Overlap
<1>8. CASE WriteEcho \/ EchoFails
  <2>1. CASE WriteEcho
    BY <2>1 DEF WriteEcho
  <2>2. CASE EchoFails
    BY <2>2 DEF EchoFails
  <2> QED BY <1>8, <2>1, <2>2
<1>9. CASE DaemonStarts \/ DaemonFails \/ DaemonContinues
  <2>1. CASE DaemonStarts
    BY <2>1 DEF DaemonStarts
  <2>2. CASE DaemonFails
    BY <2>2 DEF DaemonFails
  <2>3. CASE DaemonContinues
    BY <2>3 DEF DaemonContinues
  <2> QED BY <1>9, <2>1, <2>2, <2>3
<1>10. CASE LogIn \/ LogOut
  BY <1>10 DEF LogIn, LogOut
<1>11. CASE SetClock
  BY <1>11 DEF SetClock
<1>12. CASE Reboot
  BY <1>12 DEF Reboot, NoMemory
<1>13. CASE Advance
  BY <1>13 DEF Advance
<1>14. CASE UNCHANGED vars
  BY <1>14 DEF vars
<1>15. CASE WriteState
  <2>1. due' = mono + TickInterval /\ TickInterval' = TickInterval /\ UNCHANGED <<mono, boot, shift>>
    BY <1>1, <1>15 DEF WriteState
  <2>2. CASE well' = mono
    BY <1>1, <2>1, <2>2
  <2>3. CASE snapshot' = [boot |-> boot, at |-> wall]
    <3>1. /\ snapshot' # Null /\ snapshot'.boot = boot /\ snapshot'.at = mono + shift
      BY <2>3 DEF wall
    <3>2. mono \in Nat /\ shift \in Int /\ TickInterval \in Nat
      BY <1>1
    <3>3. Written' = mono' /\ mono' = mono
      BY <2>1, <3>1, <3>2
    <3>4. OfThisBoot'
      BY <2>1, <3>1
    <3>5. Written' <= mono' /\ due' <= Written' + TickInterval'
      <4> HIDE DEF RestTyped, InTime, TickRuns, SnapshotIsRecent, Written
      <4> QED BY <2>1, <3>2, <3>3
    <3> QED BY <3>4, <3>5
  <2> QED BY <1>15, <2>2, <2>3 DEF WriteState
<1>16. CASE CheckFails
  BY <1>16 DEF CheckFails
<1> QED BY <1>15, <1>16, <1>2, <1>3, <1>4, <1>5, <1>6, <1>7, <1>8, <1>9, <1>10, <1>11, <1>12, <1>13, <1>14
       DEF Next, Tick, Check, Happening

(* Nothing is written by an enforcer that is down.                           *)
LEMMA PastKept == Inv /\ InTime /\ SnapshotIsPast /\ [Next]_vars => SnapshotIsPast'
<1> SUFFICES ASSUME Inv, InTime, SnapshotIsPast, [Next]_vars PROVE SnapshotIsPast'
  OBVIOUS
<1>1. /\ RestTyped /\ TickRuns /\ RestTyped'
      /\ TickInterval \in Nat /\ Period \in Nat /\ Period = TickInterval + TickWork
      /\ TickInterval' \in Nat /\ Period' \in Nat /\ Period' = TickInterval' + TickWork
      /\ UNCHANGED policy => TickInterval' = TickInterval /\ Period' = Period
  BY Setting
<1> USE <1>1, TimeAssumption, NullAssumption
    DEF SnapshotIsPast, InTime, TickRuns, RestTyped, OfThisBoot, Written
<1>2. CASE CheckHeartbeat \/ IssueChallenge
  BY <1>2 DEF CheckHeartbeat, IssueChallenge
<1>3. CASE Decide
  BY <1>3 DEF Decide
<1>4. ASSUME NEW p, WritePolicy(p) PROVE SnapshotIsPast'
  BY <1>4 DEF WritePolicy
<1>5. CASE EnforcerDies \/ EnforcerStarts
  BY <1>5 DEF EnforcerDies, EnforcerStarts, NoMemory
<1>6. CASE ReadChallenge \/ WriteEcho \/ EchoFails
  BY <1>6 DEF ReadChallenge, WriteEcho, EchoFails
<1>7. CASE DaemonStarts \/ DaemonFails \/ DaemonContinues
  BY <1>7 DEF DaemonStarts, DaemonFails, DaemonContinues
<1>8. CASE LogIn \/ LogOut
  BY <1>8 DEF LogIn, LogOut
<1>9. CASE SetClock
  <2>1. PICK j \in Jumps : shift' = shift + j /\ ahead' = (ahead \/ j < 0)
    BY <1>9 DEF SetClock
  <2>2. ~ahead' => ~ahead /\ ~(j < 0)
    BY <2>1, Zenon
  <2>3. UNCHANGED <<snapshot, boot, mono, down, pc, up>>
    BY <1>9 DEF SetClock
  <2>4. ASSUME OfThisBoot, ~ahead' PROVE Written' <= IF down = Null THEN mono ELSE down
    <3>1. Written <= IF down = Null THEN mono ELSE down
      BY <2>2, <2>4, Zenon DEF SnapshotIsPast
    <3>2. snapshot.at \in Int /\ shift \in Int
      BY <2>4
    <3>3. j \in Int
      OBVIOUS
    <3>4. j >= 0
      BY <2>2, <2>4, <3>3
    <3>5. Written' = Written - j
      BY <2>1, <2>3, <3>2, <3>3
    <3>6. (IF down = Null THEN mono ELSE down) \in Int
      OBVIOUS
    <3>7. Written \in Int
      BY <3>2
    <3> HIDE DEF Written
    <3> QED BY <3>1, <3>4, <3>5, <3>6, <3>7, <3>3
  <2> QED BY <2>3, <2>4
<1>10. CASE Reboot
  BY <1>10 DEF Reboot, NoMemory
<1>11. CASE Advance
  BY <1>11 DEF Advance
<1>12. CASE UNCHANGED vars
  BY <1>12 DEF vars
<1>13. CASE WriteState
  BY <1>13 DEF WriteState, wall
<1>14. CASE CheckFails
  BY <1>14 DEF CheckFails
<1> QED BY <1>13, <1>14, <1>2, <1>3, <1>4, <1>5, <1>6, <1>7, <1>8, <1>9, <1>10, <1>11, <1>12
       DEF Next, Tick, Check, Happening

(* A daemon without watchdogs has found the snapshot recent, or was not      *)
(* running yet when it would have looked.                                    *)
LEMMA BelievedKept ==
  Inv /\ InTime /\ SnapshotIsPast /\ SnapshotIsBelieved /\ [Next]_vars => SnapshotIsBelieved'
<1> SUFFICES ASSUME Inv, InTime, SnapshotIsPast, SnapshotIsBelieved, [Next]_vars
             PROVE  SnapshotIsBelieved'
  OBVIOUS
<1>1. /\ RestTyped /\ TickRuns /\ RestTyped'
      /\ TickInterval \in Nat /\ Period \in Nat /\ Period = TickInterval + TickWork
      /\ TickInterval' \in Nat /\ Period' \in Nat /\ Period' = TickInterval' + TickWork
      /\ UNCHANGED policy => TickInterval' = TickInterval /\ Period' = Period
  BY Setting
<1> USE <1>1, TimeAssumption, NullAssumption
    DEF SnapshotIsBelieved, InTime, Running, TickRuns, RestTyped, OfThisBoot, Written, Larger
<1>2. CASE CheckHeartbeat
  BY <1>2 DEF CheckHeartbeat, Overlap
<1>3. CASE IssueChallenge
  BY <1>3 DEF IssueChallenge
<1>4. CASE Decide
  BY <1>4 DEF Decide
<1>5. ASSUME NEW p, WritePolicy(p) PROVE SnapshotIsBelieved'
  BY <1>5 DEF WritePolicy
<1>6. CASE EnforcerDies
  BY <1>6 DEF EnforcerDies, NoMemory, SnapshotIsPast
<1>7. CASE EnforcerStarts
  BY <1>7 DEF EnforcerStarts, NoMemory
<1>8. CASE ReadChallenge
  <2>1. ~mesh' => ~mesh /\ EnforcerAlive
    BY <1>8, Zenon DEF ReadChallenge
  <2>2. turn' = mono + CheckEvery /\ mono >= turn
    BY <1>8 DEF ReadChallenge
  <2>3. UNCHANGED <<pid, state, snapshot, boot, shift, mono, down, ahead>>
    BY <1>8 DEF ReadChallenge
  <2>4. well' \in {well, mono}
    BY <1>8 DEF ReadChallenge, Overlap
  <2>5. SUFFICES ASSUME Running, ~mesh, OfThisBoot, Written <= mono, mono <= Written + LinkStale,
                        well' = well
                 PROVE  SnapshotIsBelieved'
    BY <2>1, <2>2, <2>3, <2>4 DEF EnforcerAlive, wall
  <2> QED BY <2>2, <2>3, <2>5 DEF SnapshotIsPast
<1>9. CASE WriteEcho
  BY <1>9 DEF WriteEcho
<1>10. CASE EchoFails
  BY <1>10 DEF EchoFails
<1>11. CASE DaemonStarts
  BY <1>11 DEF DaemonStarts
<1>12. CASE DaemonFails
  BY <1>12 DEF DaemonFails
<1>13. CASE DaemonContinues
  BY <1>13 DEF DaemonContinues
<1>14. CASE LogIn \/ LogOut
  BY <1>14 DEF LogIn, LogOut
<1>15. CASE SetClock
  BY <1>15 DEF SetClock
<1>16. CASE Reboot
  BY <1>16 DEF Reboot, NoMemory
<1>17. CASE Advance
  BY <1>17 DEF Advance
<1>18. CASE UNCHANGED vars
  BY <1>18 DEF vars
<1>19. CASE WriteState
  BY <1>19 DEF WriteState, wall
<1>20. CASE CheckFails
  BY <1>20 DEF CheckFails
<1> QED BY <1>19, <1>20, <1>2, <1>3, <1>4, <1>5, <1>6, <1>7, <1>8, <1>9, <1>10, <1>11, <1>12, <1>13,
           <1>14, <1>15, <1>16, <1>17, <1>18 DEF Next, Tick, Check, Happening

(* A session is noticed by the next tick, and the grace period of a login    *)
(* begins then.                                                              *)
LEMMA SessionKept == Inv /\ InTime /\ KnowsSession /\ [Next]_vars => KnowsSession'
<1> SUFFICES ASSUME Inv, InTime, KnowsSession, [Next]_vars PROVE KnowsSession'
  OBVIOUS
<1>1. /\ RestTyped /\ TickRuns /\ RestTyped'
      /\ TickInterval \in Nat /\ Period \in Nat /\ Period = TickInterval + TickWork
      /\ TickInterval' \in Nat /\ Period' \in Nat /\ Period' = TickInterval' + TickWork
      /\ UNCHANGED policy => TickInterval' = TickInterval /\ Period' = Period
  BY Setting
<1> USE <1>1, TimeAssumption, NullAssumption DEF KnowsSession, InTime, TickRuns, RestTyped
<1>2. CASE CheckHeartbeat
  BY <1>2 DEF CheckHeartbeat
<1>3. CASE IssueChallenge
  BY <1>3 DEF IssueChallenge
<1>4. CASE Decide
  BY <1>4 DEF Decide
<1>5. ASSUME NEW p, WritePolicy(p) PROVE KnowsSession'
  BY <1>5 DEF WritePolicy
<1>6. CASE EnforcerDies \/ EnforcerStarts
  BY <1>6 DEF EnforcerDies, EnforcerStarts, NoMemory
<1>7. CASE ReadChallenge \/ WriteEcho \/ EchoFails
  BY <1>7 DEF ReadChallenge, WriteEcho, EchoFails
<1>8. CASE DaemonStarts \/ DaemonFails \/ DaemonContinues
  <2>1. CASE DaemonStarts
    BY <2>1 DEF DaemonStarts
  <2>2. CASE DaemonFails
    BY <2>2 DEF DaemonFails
  <2>3. CASE DaemonContinues
    BY <2>3 DEF DaemonContinues
  <2> QED BY <1>8, <2>1, <2>2, <2>3
<1>9. CASE LogIn \/ LogOut
  <2>1. CASE LogIn
    BY <2>1 DEF LogIn
  <2>2. CASE LogOut
    BY <2>2 DEF LogOut
  <2> QED BY <1>9, <2>1, <2>2
<1>10. CASE SetClock
  BY <1>10 DEF SetClock
<1>11. CASE Reboot
  BY <1>11 DEF Reboot, NoMemory
<1>12. CASE Advance
  BY <1>12 DEF Advance
<1>13. CASE UNCHANGED vars
  BY <1>13 DEF vars
<1>14. CASE WriteState
  BY <1>14 DEF WriteState
<1>15. CASE CheckFails
  BY <1>15 DEF CheckFails
<1> QED BY <1>14, <1>15, <1>2, <1>3, <1>4, <1>5, <1>6, <1>7, <1>8, <1>9, <1>10, <1>11, <1>12, <1>13
       DEF Next, Tick, Check, Happening

(* No sign of life is verified of a daemon that has failed.                  *)
LEMMA VerifiedKept == Inv /\ InTime /\ VerifiedIsPast /\ [Next]_vars => VerifiedIsPast'
<1> SUFFICES ASSUME Inv, InTime, VerifiedIsPast, [Next]_vars PROVE VerifiedIsPast'
  OBVIOUS
<1>1. /\ RestTyped /\ TickRuns /\ RestTyped'
      /\ TickInterval \in Nat /\ Period \in Nat /\ Period = TickInterval + TickWork
      /\ TickInterval' \in Nat /\ Period' \in Nat /\ Period' = TickInterval' + TickWork
      /\ UNCHANGED policy => TickInterval' = TickInterval /\ Period' = Period
  BY Setting
<1> USE <1>1, TimeAssumption, NullAssumption
    DEF VerifiedIsPast, Running, InTime, TickRuns, RestTyped
<1>2. CASE CheckHeartbeat
  <2>1. CASE VerifyAttestation
    BY <1>2, <2>1 DEF CheckHeartbeat, VerifyAttestation
  <2>2. CASE ~VerifyAttestation
    BY <1>2, <2>2 DEF CheckHeartbeat
  <2> QED BY <2>1, <2>2
<1>3. CASE IssueChallenge \/ Decide
  <2>1. CASE IssueChallenge
    BY <2>1 DEF IssueChallenge
  <2>2. CASE Decide
    BY <2>2 DEF Decide
  <2> QED BY <1>3, <2>1, <2>2
<1>4. ASSUME NEW p, WritePolicy(p) PROVE VerifiedIsPast'
  BY <1>4 DEF WritePolicy
<1>5. CASE EnforcerDies \/ EnforcerStarts
  BY <1>5 DEF EnforcerDies, EnforcerStarts, NoMemory
<1>6. CASE ReadChallenge \/ WriteEcho \/ EchoFails
  BY <1>6 DEF ReadChallenge, WriteEcho, EchoFails
<1>7. CASE DaemonStarts \/ DaemonFails \/ DaemonContinues
  <2>1. CASE DaemonStarts
    BY <2>1 DEF DaemonStarts
  <2>2. CASE DaemonFails
    BY <2>2 DEF DaemonFails
  <2>3. CASE DaemonContinues
    BY <2>3 DEF DaemonContinues
  <2> QED BY <1>7, <2>1, <2>2, <2>3
<1>8. CASE LogIn \/ LogOut
  <2>1. CASE LogIn
    BY <2>1 DEF LogIn
  <2>2. CASE LogOut
    BY <2>2 DEF LogOut
  <2> QED BY <1>8, <2>1, <2>2
<1>9. CASE SetClock
  BY <1>9 DEF SetClock
<1>10. CASE Reboot
  BY <1>10 DEF Reboot, NoMemory
<1>11. CASE Advance
  BY <1>11 DEF Advance
<1>12. CASE UNCHANGED vars
  BY <1>12 DEF vars
<1>13. CASE WriteState
  BY <1>13 DEF WriteState
<1>14. CASE CheckFails
  BY <1>14 DEF CheckFails
<1> QED BY <1>13, <1>14, <1>2, <1>3, <1>4, <1>5, <1>6, <1>7, <1>8, <1>9, <1>10, <1>11, <1>12
       DEF Next, Tick, Check, Happening

(* What may put a kill off does, for as long as it may.                      *)
LEMMA ExcuseBounds ==
  \A m, stale, period \in Nat : /\ Excuse(m, stale, period) \in Nat
                                /\ m <= Excuse(m, stale, period)
                                /\ m + stale + 1 <= Excuse(m, stale, period)
                                /\ m + LoginGrace + period <= Excuse(m, stale, period)
                                /\ BootGrace <= Excuse(m, stale, period)
BY TimeAssumption DEF Excuse, Larger

(* What an echo may age is a time.                                           *)
LEMMA StaleIsTime == RestTyped => mark \in Nat /\ StaleAfter \in Nat
<1> SUFFICES ASSUME RestTyped PROVE mark \in Nat /\ StaleAfter \in Nat
  OBVIOUS
<1>1. policy.interval \in Nat /\ mark \in Nat
  BY TimeAssumption DEF RestTyped
<1> QED BY <1>1, TimeAssumption DEF StaleAfter, Larger

(* The staleness threshold is a time, also in the next state.                *)
LEMMA StaleIsTimeNext == RestTyped' => mark' \in Nat /\ StaleAfter' \in Nat
<1> SUFFICES ASSUME RestTyped' PROVE mark' \in Nat /\ StaleAfter' \in Nat
  OBVIOUS
<1>1. policy'.interval \in Nat /\ mark' \in Nat
  BY TimeAssumption DEF RestTyped
<1> QED BY <1>1, TimeAssumption DEF StaleAfter, Larger

(* A tick that finds no excuse kills.                                        *)
LEMMA NoExcuseKills ==
  ASSUME RestTyped, TickRuns, InTime, KnowsSession, VerifiedIsPast,
         pc = "decide", session, policy.on, ~Running, NoExcuse <= mono
  PROVE  KillDecision
<1> USE NullAssumption, TimeAssumption DEF RestTyped
<1>1. up
  BY DEF TickRuns
<1>2. /\ mark + StaleAfter + 1 <= mono /\ mark + LoginGrace + Period <= mono
      /\ BootGrace <= mono /\ StaleAfter \in Nat /\ Period \in Nat
  <2>1. mark \in Nat /\ StaleAfter \in Nat /\ Period \in Nat
    BY StaleIsTime, Periods
  <2>2. /\ NoExcuse \in Nat
        /\ mark + StaleAfter + 1 <= NoExcuse /\ mark + LoginGrace + Period <= NoExcuse
        /\ BootGrace <= NoExcuse
    BY <2>1, ExcuseBounds DEF NoExcuse
  <2>3. NoExcuse <= mono /\ mono \in Nat /\ {BootGrace, LoginGrace} \subseteq Nat
    OBVIOUS
  <2> HIDE DEF RestTyped
  <2> QED BY <2>1, <2>2, <2>3
<1>3. present
  <2>1. due = mono /\ mark \in Nat /\ mark < mono
    BY <1>2 DEF InTime
  <2> QED BY <1>1, <2>1 DEF KnowsSession
<1>4. started # Null => mono - started >= LoginGrace
  BY <1>1, <1>2 DEF KnowsSession
<1>5. Stale
  BY <1>1, <1>2 DEF VerifiedIsPast, Stale
<1> QED BY <1>2, <1>3, <1>4, <1>5 DEF KillDecision

(* The tick at which browsers of a dead daemon are killed is never late.     *)
LEMMA KillKept ==
  Inv /\ InTime /\ KnowsSession /\ VerifiedIsPast /\ KillIsDue /\ [Next]_vars => KillIsDue'
<1> SUFFICES ASSUME Inv, InTime, KnowsSession, VerifiedIsPast, KillIsDue, [Next]_vars
             PROVE  KillIsDue'
  OBVIOUS
<1>1. /\ RestTyped /\ TickRuns /\ RestTyped' /\ InTime'
      /\ TickInterval \in Nat /\ Period \in Nat /\ Period = TickInterval + TickWork
      /\ TickInterval' \in Nat /\ Period' \in Nat /\ Period' = TickInterval' + TickWork
      /\ UNCHANGED policy => TickInterval' = TickInterval /\ Period' = Period
  BY Setting, InTimeKept
<1>2. NoExcuse' \in Nat /\ mark' <= NoExcuse'
  <2>1. NoExcuse' = Excuse(mark', StaleAfter', Period')
    BY DEF NoExcuse
  <2>2. mark' \in Nat /\ StaleAfter' \in Nat /\ Period' \in Nat
    BY <1>1, StaleIsTimeNext
  <2> QED BY <2>1, <2>2, ExcuseBounds
<1>3. NoExcuse \in Nat
  BY <1>1, ExcuseBounds, StaleIsTime DEF NoExcuse
<1>4. UNCHANGED <<mark, policy>> => NoExcuse' = NoExcuse /\ Period' = Period
  BY <1>1 DEF NoExcuse, StaleAfter
<1>5. CASE mark' = mono'
  <2>1. /\ up' /\ pc' = "idle" => due' <= mono' + TickInterval'
        /\ pc' \in {"issue", "decide"} => due' = mono'
        /\ pc' = "work" => due' <= mono'
    BY <1>1 DEF InTime
  <2>2. /\ due' \in Nat /\ mono' \in Nat /\ TickWork \in Nat
        /\ pc' \in {"idle", "issue", "decide", "work"}
    BY <1>1, TimeAssumption DEF RestTyped
  <2>3. mono' <= NoExcuse'
    BY <1>2, <1>5
  <2>4. up' => due' <= IF pc' = "work" THEN NoExcuse' ELSE NoExcuse' + Period'
    <3>1. \A d, m, n, i \in Nat : d <= m + i /\ m <= n => d <= n + (i + TickWork)
      BY TimeAssumption
    <3>2. NoExcuse' \in Nat /\ Period' = TickInterval' + TickWork /\ TickInterval' \in Nat
      BY <1>1, <1>2
    <3>3. up' /\ pc' = "idle" => due' <= NoExcuse' + Period'
      BY <2>1, <2>2, <2>3, <3>1, <3>2, Zenon
    <3>4. \A d, m, n, i \in Nat : d <= m /\ m <= n => d <= n + (i + TickWork) /\ d <= n
      BY TimeAssumption
    <3>5. pc' # "idle" => due' <= mono'
      BY <2>1, <2>2
    <3>6. pc' # "idle" => due' <= NoExcuse' + Period' /\ due' <= NoExcuse'
      BY <2>2, <2>3, <3>2, <3>4, <3>5, Zenon
    <3>7. pc' = "idle" => pc' # "work"
      OBVIOUS
    <3> QED BY <3>3, <3>6, <3>7, Zenon
  <2> QED BY <2>4 DEF KillIsDue
<1>6. CASE Decide
  <2>1. SUFFICES ASSUME session, spared', policy.on, ~Running PROVE due' <= NoExcuse
    BY <1>4, <1>6 DEF Decide, KillIsDue, Running
  <2>2. ~(NoExcuse <= mono)
    <3>1. pc = "decide" /\ ~KillDecision
      BY <1>6, <2>1, Zenon DEF Decide
    <3> QED BY <1>1, <2>1, <3>1, NoExcuseKills
  <2>3. due' = mono /\ mono \in Nat
    BY <1>1, <1>6 DEF Decide, InTime, RestTyped
  <2> QED BY <1>3, <2>2, <2>3
<1>20. CASE WriteState
  <2>1. /\ pc = "work" /\ pc' = "idle" /\ due' = mono + TickInterval
        /\ UNCHANGED <<mark, policy, up, session, spared, pid, state>>
    BY <1>20 DEF WriteState
  <2>2. mono <= due + TickWork /\ mono \in Nat /\ due \in Nat
    BY <2>1, <1>1 DEF InTime, RestTyped
  <2> QED BY <1>1, <1>3, <1>4, <2>1, <2>2, TimeAssumption DEF KillIsDue, Running
<1>7. CASE /\ UNCHANGED <<mark, policy, up, due, session, spared>>
           /\ Running => Running'
           /\ pc' = "work" => pc = "work"
  BY <1>1, <1>3, <1>4, <1>7, TimeAssumption DEF KillIsDue, RestTyped
<1> USE <1>5, <1>7 DEF Running
<1>8. CASE CheckHeartbeat \/ IssueChallenge
  BY <1>8 DEF CheckHeartbeat, IssueChallenge
<1>9. ASSUME NEW p, WritePolicy(p) PROVE KillIsDue'
  BY <1>9 DEF WritePolicy
<1>10. CASE EnforcerDies
  BY <1>10 DEF EnforcerDies, NoMemory, KillIsDue
<1>11. CASE EnforcerStarts
  BY <1>11 DEF EnforcerStarts, NoMemory
<1>12. CASE ReadChallenge \/ WriteEcho \/ EchoFails
  BY <1>12 DEF ReadChallenge, WriteEcho, EchoFails
<1>13. CASE DaemonStarts
  BY <1>13 DEF DaemonStarts
<1>14. CASE DaemonFails
  BY <1>14 DEF DaemonFails
<1>15. CASE DaemonContinues
  BY <1>15 DEF DaemonContinues
<1>16. CASE LogIn \/ LogOut
  BY <1>16 DEF LogIn, LogOut
<1>17. CASE SetClock \/ Advance
  BY <1>17 DEF SetClock, Advance
<1>18. CASE Reboot
  BY <1>18 DEF Reboot, NoMemory
<1>19. CASE UNCHANGED vars
  BY <1>19 DEF vars
<1>21. CASE CheckFails
  BY <1>21 DEF CheckFails
<1> QED BY <1>20, <1>21, <1>6, <1>8, <1>9, <1>10, <1>11, <1>12, <1>13, <1>14, <1>15, <1>16, <1>17, <1>18, <1>19
       DEF Next, Tick, Check, Happening

(* A challenge that was not published is a disturbance.                      *)
LEMMA PublishedKept == Inv /\ InTime /\ ChallengeIsPublished /\ [Next]_vars => ChallengeIsPublished'
<1> SUFFICES ASSUME Inv, InTime, ChallengeIsPublished, [Next]_vars PROVE ChallengeIsPublished'
  OBVIOUS
<1>1. /\ RestTyped /\ TickRuns /\ RestTyped'
      /\ TickInterval \in Nat /\ Period \in Nat /\ Period = TickInterval + TickWork
      /\ TickInterval' \in Nat /\ Period' \in Nat /\ Period' = TickInterval' + TickWork
      /\ UNCHANGED policy => TickInterval' = TickInterval /\ Period' = Period
  BY Setting
<1> USE <1>1, TimeAssumption, NullAssumption
    DEF ChallengeIsPublished, Published, InTime, TickRuns, RestTyped
<1>2. CASE CheckHeartbeat
  BY <1>2 DEF CheckHeartbeat, Overlap
<1>3. CASE IssueChallenge
  BY <1>3, NewIsNew DEF IssueChallenge
<1>4. CASE Decide
  BY <1>4 DEF Decide
<1>5. ASSUME NEW p, WritePolicy(p) PROVE ChallengeIsPublished'
  BY <1>5 DEF WritePolicy
<1>6. CASE EnforcerDies \/ EnforcerStarts
  BY <1>6 DEF EnforcerDies, EnforcerStarts, NoMemory
<1>7. CASE ReadChallenge
  BY <1>7 DEF ReadChallenge, Overlap
<1>8. CASE WriteEcho \/ EchoFails
  <2>1. CASE WriteEcho
    BY <2>1 DEF WriteEcho
  <2>2. CASE EchoFails
    BY <2>2 DEF EchoFails
  <2> QED BY <1>8, <2>1, <2>2
<1>9. CASE DaemonStarts \/ DaemonFails \/ DaemonContinues
  <2>1. CASE DaemonStarts
    BY <2>1 DEF DaemonStarts
  <2>2. CASE DaemonFails
    BY <2>2 DEF DaemonFails
  <2>3. CASE DaemonContinues
    BY <2>3 DEF DaemonContinues
  <2> QED BY <1>9, <2>1, <2>2, <2>3
<1>10. CASE LogIn \/ LogOut
  <2>1. CASE LogIn
    BY <2>1 DEF LogIn
  <2>2. CASE LogOut
    BY <2>2 DEF LogOut
  <2> QED BY <1>10, <2>1, <2>2
<1>11. CASE SetClock
  BY <1>11 DEF SetClock
<1>12. CASE Reboot
  BY <1>12 DEF Reboot, NoMemory
<1>13. CASE Advance
  BY <1>13 DEF Advance
<1>14. CASE UNCHANGED vars
  BY <1>14 DEF vars
<1>15. CASE WriteState
  BY <1>15 DEF WriteState
<1>16. CASE CheckFails
  BY <1>16 DEF CheckFails
<1> QED BY <1>15, <1>16, <1>2, <1>3, <1>4, <1>5, <1>6, <1>7, <1>8, <1>9, <1>10, <1>11, <1>12, <1>13, <1>14
       DEF Next, Tick, Check, Happening

(* An echo may age for longer than there is between two checks.              *)
LEMMA CheckIsSooner == RestTyped => StaleAfter \in Nat /\ CheckEvery <= StaleAfter
<1> SUFFICES ASSUME RestTyped PROVE StaleAfter \in Nat /\ CheckEvery <= StaleAfter
  OBVIOUS
<1>1. policy.interval \in Nat
  BY TimeAssumption DEF RestTyped
<1> QED BY <1>1, TimeAssumption, PaceAssumption DEF StaleAfter, Larger

(* A check is due before the next tick and the check after it.               *)
LEMMA Sooner ==
  \A t, m, period \in Nat : t <= m + CheckEvery => t <= m + period + CheckEvery
BY TimeAssumption

(* The challenge of every tick is echoed before the next, and the echo       *)
(* verified then.                                                            *)
LEMMA EchoKept ==
  Inv /\ InTime /\ VerifiedIsPast /\ ChallengeIsPublished /\ EchoIsOnItsWay /\ [Next]_vars
    => EchoIsOnItsWay'
<1> SUFFICES ASSUME Inv, InTime, VerifiedIsPast, ChallengeIsPublished, EchoIsOnItsWay, [Next]_vars
             PROVE  EchoIsOnItsWay'
  OBVIOUS
<1>1. /\ RestTyped /\ TickRuns /\ RestTyped' /\ InTime'
      /\ TickInterval \in Nat /\ Period \in Nat /\ Period = TickInterval + TickWork
      /\ TickInterval' \in Nat /\ Period' \in Nat /\ Period' = TickInterval' + TickWork
      /\ UNCHANGED policy => TickInterval' = TickInterval /\ Period' = Period
  BY Setting, InTimeKept
<1>2. ASSUME well' = mono' PROVE EchoIsOnItsWay'
  <2>1. turn' \in Nat /\ mono' \in Nat /\ Period' \in Nat /\ CheckEvery \in Nat
    BY <1>1, TimeAssumption DEF RestTyped
  <2>2. turn' <= mono' + CheckEvery
    BY <1>1 DEF InTime
  <2>3. turn' <= mono' + Period' + CheckEvery
    BY <2>1, <2>2, Sooner
  <2>4. Disturbed'
    BY <1>2, <2>3, Zenon DEF Disturbed
  <2> QED BY <2>4, Zenon DEF EchoIsOnItsWay
<1> USE <1>1, <1>2, TimeAssumption, NullAssumption
    DEF EchoIsOnItsWay, Disturbed, EchoIsGood, VerifiedIsGood, SoonAfter, Running, InTime, TickRuns,
        RestTyped
<1>3. CASE CheckHeartbeat
  <2>1. SUFFICES ASSUME up, Running, ~Disturbed, UNCHANGED well PROVE VerifiedIsGood' /\ heard' = Null
    BY <1>3 DEF CheckHeartbeat, Overlap
  <2>2. heard = Null /\ (EchoIsGood \/ VerifiedIsGood) /\ pc = "idle"
    BY <1>3, <2>1 DEF CheckHeartbeat, Overlap
  <2>3. UNCHANGED <<heard, turn, boot, mono>>
    BY <1>3 DEF CheckHeartbeat
  <2>4. CASE EchoIsGood
    <3>1. VerifyAttestation
      BY <2>1, <2>4, CheckIsSooner DEF VerifyAttestation
    <3>2. verified' = [at |-> echo.at, boot |-> echo.boot]
      BY <1>3, <3>1 DEF CheckHeartbeat
    <3> QED BY <2>2, <2>3, <2>4, <3>2
  <2>5. CASE VerifiedIsGood /\ ~VerifyAttestation
    BY <1>3, <2>2, <2>3, <2>5 DEF CheckHeartbeat
  <2>6. CASE VerifiedIsGood /\ VerifyAttestation
    <3>1. verified' = [at |-> echo.at, boot |-> echo.boot]
      BY <1>3, <2>6 DEF CheckHeartbeat
    <3>2. echo # Null /\ echo.boot = boot /\ asked <= echo.at /\ verified.at <= asked
      BY <2>1, <2>2, <2>6 DEF VerifyAttestation, Inv, EchoIsNew, VerifiedIsPast
    <3> QED BY <2>2, <2>3, <2>6, <3>1, <3>2
  <2> QED BY <2>2, <2>4, <2>5, <2>6
<1>4. CASE IssueChallenge
  BY <1>4 DEF IssueChallenge
<1>5. CASE Decide
  BY <1>5 DEF Decide
<1>6. ASSUME NEW p, WritePolicy(p) PROVE EchoIsOnItsWay'
  BY <1>6 DEF WritePolicy
<1>7. CASE EnforcerDies \/ EnforcerStarts
  BY <1>7 DEF EnforcerDies, EnforcerStarts, NoMemory
<1>8. CASE ReadChallenge
  <2>1. SUFFICES ASSUME up, UNCHANGED well, pc # "issue" PROVE EchoIsOnItsWay'
    BY <1>8 DEF ReadChallenge, Overlap
  <2>2. CASE Published
    BY <1>8, <2>1, <2>2 DEF ReadChallenge, Published
  <2>3. CASE ~Published
    BY <1>8, <2>1, <2>3 DEF ReadChallenge, ChallengeIsPublished
  <2> QED BY <2>2, <2>3
<1>9. CASE WriteEcho
  <2>1. /\ echo' = [nonce |-> heard, boot |-> boot, pid |-> pid, at |-> mono]
        /\ heard \in Nonces /\ pid \in Nat /\ boot \in Nat /\ mono \in Nat
    BY <1>9 DEF WriteEcho
  <2>2. echo' \in [nonce : Nonces, boot : Nat, pid : Nat, at : Nat]
    BY <2>1
  <2>3. echo' # Null
    BY <2>2, NullAssumption
  <2>4. echo'.nonce = heard /\ echo'.boot = boot /\ echo'.pid = pid /\ echo'.at = mono
    BY <2>1
  <2>5. UNCHANGED <<up, pc, pid, state, turn, well, boot, mono, issued>> /\ heard # Null /\ heard' = Null
    BY <1>9 DEF WriteEcho
  <2>6. UNCHANGED policy
    BY <1>9 DEF WriteEcho
  <2>7. turn <= mono + CheckEvery
    OBVIOUS
  <2> QED BY <1>1, <2>3, <2>4, <2>5, <2>6, <2>7
<1>10. CASE EchoFails
  BY <1>10 DEF EchoFails
<1>11. CASE DaemonStarts
  BY <1>11 DEF DaemonStarts
<1>12. CASE DaemonFails
  BY <1>12 DEF DaemonFails
<1>13. CASE DaemonContinues
  BY <1>13 DEF DaemonContinues
<1>14. CASE LogIn \/ LogOut
  BY <1>14 DEF LogIn, LogOut
<1>15. CASE SetClock
  BY <1>15 DEF SetClock
<1>16. CASE Reboot
  BY <1>16 DEF Reboot, NoMemory
<1>17. CASE Advance
  BY <1>17 DEF Advance
<1>18. CASE UNCHANGED vars
  BY <1>18 DEF vars
<1>19. CASE WriteState
  BY <1>19 DEF WriteState
<1>20. CASE CheckFails
  BY <1>20 DEF CheckFails
<1> QED BY <1>19, <1>20, <1>3, <1>4, <1>5, <1>6, <1>7, <1>8, <1>9, <1>10, <1>11, <1>12, <1>13,
           <1>14, <1>15, <1>16, <1>17, <1>18 DEF Next, Tick, Check, Happening

(* A tick under way knows of a sign of life as recent as that.               *)
LEMMA VerifiedInTickKept ==
  Inv /\ InTime /\ VerifiedIsPast /\ ChallengeIsPublished /\ EchoIsOnItsWay /\ VerifiedInTick
    /\ [Next]_vars => VerifiedInTick'
<1> SUFFICES ASSUME Inv, InTime, VerifiedIsPast, ChallengeIsPublished, EchoIsOnItsWay,
                    VerifiedInTick, [Next]_vars
             PROVE  VerifiedInTick'
  OBVIOUS
<1>1. /\ RestTyped' /\ InTime' /\ EchoIsOnItsWay' /\ Period' \in Nat
      /\ UNCHANGED policy => Period' = Period
  <2>1. Inv' /\ InTime' /\ EchoIsOnItsWay'
    BY NextInv, InTimeKept, EchoKept
  <2> QED BY <2>1, Setting DEF Inv, TypeOK, RestTyped
<1>2. CASE CheckHeartbeat
  <2>1. SUFFICES ASSUME up', Running' PROVE VerifiedInTick'
    BY DEF VerifiedInTick
  <2>2. Disturbed' \/ VerifiedIsGood'
    BY <1>1, <1>2, <2>1 DEF CheckHeartbeat, EchoIsOnItsWay
  <2>3. mono' <= turn' /\ mono' \in Nat /\ turn' \in Nat /\ well' \in Nat
    BY <1>1, <2>1 DEF InTime, RestTyped
  <2>4. CASE Disturbed'
    BY <1>1, <2>3, <2>4, TimeAssumption DEF Disturbed, VerifiedInTick
  <2>5. CASE VerifiedIsGood'
    <3>1. verified' # Null => verified'.at \in Nat
      BY <1>1 DEF RestTyped
    <3> QED BY <2>3, <2>5, <3>1, TimeAssumption DEF VerifiedIsGood, SoonAfter, VerifiedInTick
  <2> QED BY <2>2, <2>4, <2>5
<1>3. CASE well' = mono'
  <2>1. mono' \in Nat /\ mono' <= mono' + CheckEvery
    BY <1>1, TimeAssumption DEF RestTyped
  <2>2. mono' <= mono' + Period' + CheckEvery
    BY <1>1, <2>1, Sooner
  <2> QED BY <1>3, <2>2, Zenon DEF VerifiedInTick
<1>4. CASE /\ UNCHANGED <<verified, boot, mono, well, policy>>
           /\ pc' \in {"issue", "decide"} => pc \in {"issue", "decide"}
           /\ up' /\ Running' => up /\ Running
  BY <1>1, <1>4 DEF VerifiedInTick
<1> USE <1>3, <1>4 DEF Running
<1>5. CASE IssueChallenge
  BY <1>5 DEF IssueChallenge
<1>6. CASE Decide
  BY <1>6 DEF Decide, VerifiedInTick
<1>7. ASSUME NEW p, WritePolicy(p) PROVE VerifiedInTick'
  BY <1>7 DEF WritePolicy
<1>8. CASE EnforcerDies
  BY <1>8 DEF EnforcerDies, VerifiedInTick
<1>9. CASE EnforcerStarts
  BY <1>9 DEF EnforcerStarts, NoMemory
<1>10. CASE ReadChallenge
  BY <1>10 DEF ReadChallenge, Overlap
<1>11. CASE WriteEcho \/ EchoFails
  BY <1>11 DEF WriteEcho, EchoFails
<1>12. CASE DaemonStarts
  BY <1>12 DEF DaemonStarts
<1>13. CASE DaemonFails
  BY <1>13 DEF DaemonFails
<1>14. CASE DaemonContinues
  BY <1>14 DEF DaemonContinues
<1>15. CASE LogIn \/ LogOut
  BY <1>15 DEF LogIn, LogOut
<1>16. CASE SetClock
  BY <1>16 DEF SetClock
<1>17. CASE Reboot
  BY <1>17 DEF Reboot, NoMemory
<1>18. CASE Advance
  BY <1>18, InTimeKept DEF Advance, VerifiedInTick, Inv, TickRuns
<1>19. CASE UNCHANGED vars
  BY <1>19 DEF vars
<1>20. CASE WriteState
  BY <1>20 DEF WriteState
<1>21. CASE CheckFails
  BY <1>21 DEF CheckFails
<1> QED BY <1>20, <1>21, <1>2, <1>5, <1>6, <1>7, <1>8, <1>9, <1>10, <1>11, <1>12, <1>13,
           <1>14, <1>15, <1>16, <1>17, <1>18, <1>19 DEF Next, Tick, Check, Happening

(* The system starts in the invariant, and every step keeps it.              *)
LEMMA InitTime == Init => TimeInv
<1> SUFFICES ASSUME Init PROVE TimeInv
  OBVIOUS
<1>1. Inv
  BY InitInv
<1>7. TickInterval \in Nat /\ Period \in Nat
  BY <1>1, Periods, TypeParts DEF Inv
<1> USE <1>7, NullAssumption, TimeAssumption DEF Init
<1>2. InTime
  BY DEF InTime, Running
<1>3. SnapshotIsRecent /\ SnapshotIsPast
  BY DEF SnapshotIsRecent, SnapshotIsPast, OfThisBoot
<1>4. SnapshotIsBelieved
  BY DEF SnapshotIsBelieved, OfThisBoot
<1>5. KnowsSession /\ VerifiedIsPast /\ KillIsDue
  BY DEF KnowsSession, VerifiedIsPast, KillIsDue
<1>6. ChallengeIsPublished /\ EchoIsOnItsWay /\ VerifiedInTick
  BY DEF ChallengeIsPublished, EchoIsOnItsWay, Disturbed, VerifiedInTick
<1> QED BY <1>1, <1>2, <1>3, <1>4, <1>5, <1>6 DEF TimeInv

(* Every step keeps all the parts.                                           *)
LEMMA NextTime == TimeInv /\ [Next]_vars => TimeInv'
BY NextInv, InTimeKept, RecentKept, PastKept, BelievedKept, SessionKept, VerifiedKept, KillKept,
   PublishedKept, EchoKept, VerifiedInTickKept DEF TimeInv

(* The daemon of a machine whose enforcer stays down has watchdogs in time.  *)
THEOREM FallbackInTime == Spec => []FallbackComesUp
<1>1. TimeInv => FallbackComesUp
  <2> SUFFICES ASSUME TimeInv, down # Null, Running, ~mesh
               PROVE  mono <= CheckEvery + IF ahead THEN Larger(down, well + CheckEvery) + LinkStale
                                                    ELSE Larger(down + LinkStale, well)
    BY DEF FallbackComesUp
  <2>1. mono <= turn /\ mono \in Nat /\ turn \in Nat /\ down \in Nat /\ well \in Nat
    BY DEF TimeInv, Inv, TypeOK, InTime
  <2>2. turn <= CheckEvery + IF ahead THEN Larger(down, well + CheckEvery) + LinkStale
                                      ELSE Larger(down + LinkStale, well)
    BY DEF TimeInv, SnapshotIsBelieved
  <2> QED BY <2>1, <2>2, TimeAssumption DEF Larger
<1> QED BY InitTime, NextTime, <1>1, PTL DEF Spec

(* Browsers are killed in time when the daemon is gone, stopped or traced.   *)
THEOREM DeadIsCaughtInTime == Spec => []DeadIsCaught
<1>1. TimeInv => DeadIsCaught
  <2> SUFFICES ASSUME TimeInv, up, session, spared, policy.on, ~Running
               PROVE  mono <= NoExcuse + Period
    BY DEF DeadIsCaught, NoExcuse, Excuse
  <2>1. RestTyped /\ InTime
    BY TypeParts DEF TimeInv, Inv
  <2>2. due <= IF pc = "work" THEN NoExcuse ELSE NoExcuse + Period
    BY DEF TimeInv, KillIsDue
  <2>3. /\ mono \in Nat /\ due \in Nat
        /\ mono <= IF pc = "work" THEN due + TickWork ELSE due
    BY <2>1 DEF InTime, RestTyped
  <2>4. TickInterval \in Nat /\ Period = TickInterval + TickWork
    BY <2>1, Periods
  <2>5. NoExcuse \in Nat
    BY <2>1, StaleIsTime, Periods, ExcuseBounds DEF NoExcuse
  <2> QED BY <2>2, <2>3, <2>4, <2>5, TimeAssumption
<1> QED BY InitTime, NextTime, <1>1, PTL DEF Spec

(* A daemon that keeps checking does not lose its user's browsers.           *)
THEOREM HealthyKeepsBrowsers == Spec => HealthyIsSpared
<1>1. TimeInv /\ [Next]_vars
        => [pc = "decide" /\ pc' = "work" /\ session /\ ~spared' /\ Running
              => mono - well <= Period + CheckEvery]_vars
  <2> SUFFICES ASSUME TimeInv, Next, pc = "decide", pc' = "work", session, ~spared', Running
               PROVE  mono - well <= Period + CheckEvery
    BY DEF vars
  <2>1. Decide
    BY DEF Next, Tick, Check, Happening, CheckHeartbeat, IssueChallenge, WriteState, WritePolicy,
           EnforcerDies, EnforcerStarts, NoMemory, ReadChallenge, CheckFails, WriteEcho, EchoFails,
           DaemonStarts, DaemonFails, DaemonContinues, LogIn, LogOut, SetClock, Reboot, Advance
  <2>2. Stale
    BY <2>1, Zenon DEF Decide, KillDecision
  <2>3. RestTyped /\ TickRuns /\ VerifiedIsPast /\ VerifiedInTick
    BY TypeParts DEF TimeInv, Inv
  <2>4. StaleAfter \in Nat /\ CheckEvery <= StaleAfter
    BY <2>3, CheckIsSooner
  <2>5. mono <= well + Period + CheckEvery
    BY <2>2, <2>3, <2>4, TimeAssumption
       DEF Stale, VerifiedIsPast, VerifiedInTick, RestTyped, TickRuns
  <2>6. Period \in Nat
    BY <2>3, Periods
  <2> QED BY <2>3, <2>5, <2>6, TimeAssumption DEF RestTyped
<1> QED BY InitTime, NextTime, <1>1, PTL DEF Spec, HealthyIsSpared

(* An enforcer that keeps its time is believed to be alive, if its interval  *)
(* leaves room for its work.                                                 *)
THEOREM AliveIsBelieved == Spec => NoFalseFallback
<1>1. TimeInv /\ [Next]_vars
        => [Running /\ ~mesh /\ mesh' /\ up /\ Period <= LinkStale => mono - well <= Period]_vars
  <2> SUFFICES ASSUME TimeInv, Next, Running, ~mesh, mesh', up, Period <= LinkStale
               PROVE  mono - well <= Period
    BY DEF vars
  <2>1. ReadChallenge
    BY DEF Next, Tick, Check, Happening, CheckHeartbeat, IssueChallenge, Decide, WriteState,
           WritePolicy, EnforcerDies, EnforcerStarts, CheckFails, WriteEcho, EchoFails,
           DaemonStarts, DaemonFails, DaemonContinues, LogIn, LogOut, SetClock, Reboot, Advance
  <2>2. ~EnforcerAlive
    BY <2>1, Zenon DEF ReadChallenge
  <2>3. RestTyped /\ InTime /\ SnapshotIsRecent
    BY TypeParts DEF TimeInv, Inv
  <2>4. TickInterval \in Nat /\ Period = TickInterval + TickWork
    BY <2>3, Periods
  <2>5. mono \in Nat /\ well \in Nat /\ due \in Nat /\ mono <= due + TickWork
    BY <2>3, TimeAssumption DEF RestTyped, InTime
  <2>6. CASE OfThisBoot /\ Written <= mono /\ due <= Written + TickInterval
    BY <2>2, <2>3, <2>4, <2>5, <2>6, TimeAssumption
       DEF EnforcerAlive, wall, OfThisBoot, Written, RestTyped
  <2>7. CASE due <= well + TickInterval
    BY <2>4, <2>5, <2>7, TimeAssumption
  <2> QED BY <2>3, <2>6, <2>7 DEF SnapshotIsRecent
<1> QED BY InitTime, NextTime, <1>1, PTL DEF Spec, NoFalseFallback
=============================================================================

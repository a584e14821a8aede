---------------------------- MODULE BlockControl ----------------------------
(***************************************************************************)
(* How the daemon changes blocks: the API handlers of blocks.py, the queue *)
(* of delayed changes of pending_unblock.py with its job, the job that     *)
(* resets expired locks, and a restart of the daemon.                      *)
(*                                                                         *)
(* The daemon is one asyncio loop, so control passes between handlers and  *)
(* jobs only where they await.  A handler is therefore a short sequence of *)
(* atomic steps, one per stretch between two awaits, and what it read      *)
(* before an await is kept in its record until it is used.  Handlers with  *)
(* no await (the queue's and the settings') are single steps.              *)
(***************************************************************************)
EXTENDS BlockRules

CONSTANTS Client,          \* the requests that can be in flight at once
          BlockId,         \* the ids the table hands out, 1..n
          Tables,          \* the contents the blocks table may start with
          Edits,           \* bodies of PUT /blocks/{id}
          StrictEdits,     \* bodies of PATCH /blocks/{id}/strict
          NewRows,         \* bodies of POST /blocks
          LockTimes,       \* times a client may extend a lock to ...
          Offsets,         \* ... and the UTC offsets it may write them with
          DelayBodies,     \* bodies of PUT /unblock-delay
          MaxTime,         \* bound on the clock
          MaxMinutes,      \* bound on unblock_delay_minutes
          MaxRequests,     \* bound on the changes that can be queued
          MaxRestarts      \* bound on daemon restarts

IsTable(t) == DOMAIN t \subseteq BlockId /\ \A b \in DOMAIN t : IsRow(t[b])

DelayFields == {"enabled", "minutes"}
IsDelayBody(p) ==
  /\ DOMAIN p \subseteq DelayFields
  /\ "enabled" \in DOMAIN p => p["enabled"] \in BOOLEAN
  /\ "minutes" \in DOMAIN p => p["minutes"] \in 1..MaxMinutes

ASSUME ControlAssumption ==
  /\ BlockId \subseteq Nat \ {0}
  /\ \A t \in Tables : IsTable(t)
  /\ \A p \in Edits : IsEdit(p)
  /\ \A s \in StrictEdits : s.add \subseteq Rule /\ s.remove \subseteq Rule
  /\ \A r \in NewRows : IsRow(r)
  /\ LockTimes \subseteq Nat /\ Offsets \subseteq Int
  /\ \A p \in DelayBodies : IsDelayBody(p)
  /\ MaxTime \in Nat /\ MaxMinutes \in Nat \ {0}
  /\ MaxRequests \in Nat /\ MaxRestarts \in Nat

VARIABLES now,        \* the clock, in minutes
          blocks,     \* the blocks table: a row for each id in use
          delay,      \* unblock_delay_enabled and unblock_delay_minutes
          pending,    \* the queue, the same in memory and in its file
          nextId,     \* the next entry's id; ids grow in insertion order
          client,     \* what each request in flight knows
          job,        \* apply_due: where it is and what it still has to do
          sweep,      \* check_transitions: the rows it is about to reset
          restarts

vars == <<now, blocks, delay, pending, nextId, client, job, sweep, restarts>>
-----------------------------------------------------------------------------
Op == {"none", "update", "delete", "strict", "extend"}

(* What a request has seen: the row it decided on, whether the block was   *)
(* locked when it first looked, whether the delay was on when it decided.  *)
(* No action depends on it, the properties of commits do.                  *)
Saw(r, locked, waits) == [row |-> r, locked |-> locked, waits |-> waits]

(* pc is the await a request is at: "checked" after check_block_lock,      *)
(* "commit" before its transaction is committed.                           *)
Request(pc, op, b, edit, saw) ==
  [pc |-> pc, op |-> op, block |-> b, edit |-> edit, saw |-> saw]
Idle == Request("idle", "none", 0, NoEdit, Saw(NoEdit, FALSE, FALSE))

Kind == {"update", "delete", "settings"}
First(q) == CHOOSE e \in q : \A f \in q : e.id <= f.id

At(pc, due, edit) == [pc |-> pc, due |-> due, edit |-> edit]
Loop(q) == At(IF q = {} THEN "idle" ELSE "read", q, NoEdit)

Init ==
  /\ now = 0
  /\ blocks \in Tables
  /\ delay \in [enabled : BOOLEAN, minutes : 1..MaxMinutes]
  /\ pending = {}
  /\ nextId = 1
  /\ client = [c \in Client |-> Idle]
  /\ job = Loop({})
  /\ sweep = {}
  /\ restarts = 0
-----------------------------------------------------------------------------
(* The queue.                                                              *)

(* Faulty: a delete and an update of one block do not compete.             *)
CompetesSameKind(e, kind, b) == e.kind = kind /\ e.block = b

(* Two entries compete when they are for the same block, or both for the   *)
(* delay's own settings.                                                   *)
Competes(e, kind, b) ==
  IF kind = "settings" THEN e.kind = "settings" ELSE e.kind # "settings" /\ e.block = b

Entry(kind, b, payload) ==
  [id |-> nextId, kind |-> kind, block |-> b, payload |-> payload,
   created |-> now, effective |-> now + delay.minutes]

(* A new request drops the earlier one and starts the wait again.          *)
Enqueue(kind, b, payload) ==
  /\ pending' = {e \in pending : ~Competes(e, kind, b)} \cup {Entry(kind, b, payload)}
  /\ nextId' = nextId + 1

MayRequest == nextId <= MaxRequests

Cancel(e) ==
  /\ pending' = pending \ {e}
  /\ UNCHANGED <<now, blocks, delay, nextId, client, job, sweep, restarts>>

CancelAll ==
  /\ pending # {}
  /\ pending' = {}
  /\ UNCHANGED <<now, blocks, delay, nextId, client, job, sweep, restarts>>
-----------------------------------------------------------------------------
(* PUT /unblock-delay.                                                     *)

Wanted(body) == [f \in {g \in DOMAIN body : body[g] # delay[g]} |-> body[f]]

(* Faulty: fewer minutes are not seen as loosening.                        *)
LoosensDelayToggle(p) == "enabled" \in DOMAIN p /\ ~p["enabled"] /\ delay.enabled

(* Turning the delay off or shortening it.                                 *)
LoosensDelay(p) ==
  \/ "enabled" \in DOMAIN p /\ ~p["enabled"] /\ delay.enabled
  \/ "minutes" \in DOMAIN p /\ p["minutes"] < delay.minutes

WithFields(d, p) ==
  [enabled |-> IF "enabled" \in DOMAIN p THEN p["enabled"] ELSE d.enabled,
   minutes |-> IF "minutes" \in DOMAIN p THEN p["minutes"] ELSE d.minutes]

QueueDelayChange(body) ==
  /\ MayRequest
  /\ DOMAIN Wanted(body) # {}
  /\ delay.enabled /\ LoosensDelay(Wanted(body))
  /\ Enqueue("settings", 0, Wanted(body))
  /\ UNCHANGED <<now, blocks, delay, client, job, sweep, restarts>>

SetDelayNow(body) ==
  /\ DOMAIN Wanted(body) # {}
  /\ ~(delay.enabled /\ LoosensDelay(Wanted(body)))
  /\ delay' = WithFields(delay, Wanted(body))
  /\ pending' = IF "enabled" \in DOMAIN Wanted(body) /\ ~body["enabled"] THEN {} ELSE pending
  /\ UNCHANGED <<now, blocks, nextId, client, job, sweep, restarts>>
-----------------------------------------------------------------------------
(* PUT and DELETE /blocks/{id}.                                            *)

Becomes(c, r) == client' = [a \in Client |-> IF a = c THEN r ELSE client[a]]

(* Faulty: the lock is not checked.                                        *)
CheckUpdateUnlocked(c, b, p) ==
  /\ MayRequest
  /\ client[c] = Idle
  /\ Becomes(c, Request("checked", "update", b, p,
                        Saw(NoEdit, Locked(blocks[b], now), FALSE)))
  /\ UNCHANGED <<now, blocks, delay, pending, nextId, job, sweep, restarts>>

(* check_block_lock, in a session of its own.  A refusal changes nothing.  *)
CheckUpdate(c, b, p) ==
  /\ MayRequest
  /\ client[c] = Idle
  /\ ~Locked(blocks[b], now)
  /\ Becomes(c, Request("checked", "update", b, p,
                        Saw(NoEdit, Locked(blocks[b], now), FALSE)))
  /\ UNCHANGED <<now, blocks, delay, pending, nextId, job, sweep, restarts>>

CheckDelete(c, b) ==
  /\ MayRequest
  /\ client[c] = Idle
  /\ ~Locked(blocks[b], now)
  /\ Becomes(c, Request("checked", "delete", b, NoEdit,
                        Saw(NoEdit, Locked(blocks[b], now), FALSE)))
  /\ UNCHANGED <<now, blocks, delay, pending, nextId, job, sweep, restarts>>

(* The row is read; what follows runs without an await up to the commit.   *)
Deciding(c, op) == client[c].pc = "checked" /\ client[c].op = op
Exists(c) == client[c].block \in DOMAIN blocks
Row(c) == blocks[client[c].block]
Decided(c) == Saw(Row(c), client[c].saw.locked, delay.enabled)
MustWait(c) == delay.enabled /\ (client[c].op = "update" => IsLoosening(Row(c), client[c].edit))

(* 404, or 400 for a lock without a time.                                  *)
Refuse(c) ==
  /\ client[c].pc = "checked"
  /\ \/ ~Exists(c)
     \/ /\ Exists(c) /\ ~MustWait(c)
        /\ client[c].op = "update" /\ LockLacksTime(Edited(Row(c), client[c].edit))
  /\ Becomes(c, Idle)
  /\ UNCHANGED <<now, blocks, delay, pending, nextId, job, sweep, restarts>>

(* 202: the change is queued.                                              *)
Queue(c) ==
  /\ client[c].pc = "checked"
  /\ Exists(c) /\ MustWait(c)
  /\ Enqueue(client[c].op, client[c].block, client[c].edit)
  /\ Becomes(c, Idle)
  /\ UNCHANGED <<now, blocks, delay, job, sweep, restarts>>

AcceptUpdate(c) ==
  /\ Deciding(c, "update")
  /\ Exists(c) /\ ~MustWait(c)
  /\ ~LockLacksTime(Edited(Row(c), client[c].edit))
  /\ Becomes(c, Request("commit", "update", client[c].block,
                        Changed(Row(c), Edited(Row(c), client[c].edit)), Decided(c)))
  /\ UNCHANGED <<now, blocks, delay, pending, nextId, job, sweep, restarts>>

AcceptDelete(c) ==
  /\ Deciding(c, "delete")
  /\ Exists(c) /\ ~MustWait(c)
  /\ Becomes(c, Request("commit", "delete", client[c].block, NoEdit, Decided(c)))
  /\ UNCHANGED <<now, blocks, delay, pending, nextId, job, sweep, restarts>>
-----------------------------------------------------------------------------
(* PATCH /blocks/{id}/strict and /extend-lock: no lock check, no delay.    *)

Sees(b) == Saw(blocks[b], Locked(blocks[b], now), delay.enabled)

ReadStrict(c, b, s) ==
  /\ client[c] = Idle
  /\ Becomes(c, Request("commit", "strict", b,
                        Changed(blocks[b], Tightened(blocks[b], s)), Sees(b)))
  /\ UNCHANGED <<now, blocks, delay, pending, nextId, job, sweep, restarts>>

(* The new time t carries an offset; both times are compared in UTC, the   *)
(* stored one being read as UTC, and then t itself is stored without its   *)
(* offset.                                                                 *)
ReadExtend(c, b, t, offset) ==
  /\ client[c] = Idle
  /\ blocks[b]["lock_mode"] = "locked_until"
  /\ blocks[b]["lock_until"] # Null
  /\ t - offset > blocks[b]["lock_until"]
  /\ Becomes(c, Request("commit", "extend", b,
                        Changed(blocks[b], Merge(blocks[b], [f \in {"lock_until"} |-> t])),
                        Sees(b)))
  /\ UNCHANGED <<now, blocks, delay, pending, nextId, job, sweep, restarts>>

(* The commit writes the changed columns of the row, whatever it holds by  *)
(* now.  When the row is gone the flush fails and nothing is written.      *)
Put(t, b, d) == [a \in DOMAIN t |-> IF a = b THEN Merge(t[a], d) ELSE t[a]]

CommitRow(c) ==
  /\ client[c].pc = "commit" /\ client[c].op # "delete"
  /\ blocks' = Put(blocks, client[c].block, client[c].edit)
  /\ Becomes(c, Idle)
  /\ UNCHANGED <<now, delay, pending, nextId, job, sweep, restarts>>

Without(t, b) == [a \in DOMAIN t \ {b} |-> t[a]]

CommitDelete(c) ==
  /\ client[c].pc = "commit" /\ client[c].op = "delete"
  /\ blocks' = Without(blocks, client[c].block)
  /\ Becomes(c, Idle)
  /\ UNCHANGED <<now, delay, pending, nextId, job, sweep, restarts>>

(* POST /blocks: the table gives the new row the largest id in use plus    *)
(* one, so the id of a deleted last row is used again.                     *)
Create(c, r) ==
  /\ client[c] = Idle
  /\ \E b \in BlockId :
       /\ \A a \in DOMAIN blocks : a < b
       /\ b = 1 \/ b - 1 \in DOMAIN blocks
       /\ blocks' = [a \in DOMAIN blocks \cup {b} |-> IF a = b THEN r ELSE blocks[a]]
  /\ UNCHANGED <<now, delay, pending, nextId, client, job, sweep, restarts>>
-----------------------------------------------------------------------------
(* apply_due.  The due entries are collected once and worked through in    *)
(* insertion order.                                                        *)

(* Faulty: the wrong timestamp is compared.                                *)
DueSinceCreated == {e \in pending : e.created <= now}

(* The entries whose wait is over.                                         *)
DueNow == {e \in pending : e.effective <= now}

(* Faulty: asked after the new value was assigned.                         *)
TurnsOffLate(e) == "enabled" \in DOMAIN e.payload /\ ~e.payload["enabled"] /\ ~delay.enabled

(* The settings entry switches the delay off: the queue loses every block  *)
(* change then.                                                            *)
TurnsOff(e) == "enabled" \in DOMAIN e.payload /\ ~e.payload["enabled"] /\ delay.enabled

(* Go on with the entries q and the queue rest.  A settings entry is       *)
(* applied without an await, so it belongs to the step that reaches it;    *)
(* the queue never holds two of them.                                      *)
GoOn(q, rest) ==
  IF q # {} /\ First(q).kind = "settings"
  THEN LET e == First(q) IN
       /\ delay' = WithFields(delay, e.payload)
       /\ pending' = {f \in rest : f.id # e.id /\ (TurnsOff(e) => f.kind = "settings")}
       /\ job' = Loop(q \ {e})
  ELSE /\ UNCHANGED delay
       /\ pending' = rest
       /\ job' = Loop(q)

JobStart ==
  /\ job.pc = "idle" /\ DueNow # {}
  /\ GoOn(DueNow, pending)
  /\ UNCHANGED <<now, blocks, nextId, client, sweep, restarts>>

Current == First(job.due)

(* The row is read and, for an update, the payload set on it.              *)
JobRead ==
  /\ job.pc = "read"
  /\ job' = IF Current.block \notin DOMAIN blocks
            THEN At("pop", job.due, NoEdit)
            ELSE LET r == blocks[Current.block] IN
                 At("write", job.due, Changed(r, Merge(r, AsStored(Current.payload))))
  /\ UNCHANGED <<now, blocks, delay, pending, nextId, client, sweep, restarts>>

(* A flush fails when the row is gone, or when the payload holds what the  *)
(* table cannot take.                                                      *)
WriteFails ==
  \/ ~IsWrite(job.edit)
  \/ DOMAIN job.edit # {} /\ Current.block \notin DOMAIN blocks

JobWrite ==
  /\ job.pc = "write" /\ ~WriteFails
  /\ blocks' = IF Current.kind = "delete"
               THEN Without(blocks, Current.block)
               ELSE Put(blocks, Current.block, job.edit)
  /\ job' = At("pop", job.due, NoEdit)
  /\ UNCHANGED <<now, delay, pending, nextId, client, sweep, restarts>>

(* Faulty: the exception ends the pass.                                    *)
JobFailEndsPass ==
  /\ job.pc = "write" /\ WriteFails
  /\ job' = Loop({})
  /\ UNCHANGED <<now, blocks, delay, pending, nextId, client, sweep, restarts>>

(* The exception is logged, the entry stays queued and the next is tried.  *)
JobFail ==
  /\ job.pc = "write" /\ WriteFails
  /\ GoOn(job.due \ {Current}, pending)
  /\ UNCHANGED <<now, blocks, nextId, client, sweep, restarts>>

JobPop ==
  /\ job.pc = "pop"
  /\ GoOn(job.due \ {Current}, {e \in pending : e.id # Current.id})
  /\ UNCHANGED <<now, blocks, nextId, client, sweep, restarts>>
-----------------------------------------------------------------------------
(* check_transitions: expired locks are read in one step and reset in the  *)
(* next, all of them or, when one of the rows is gone, none.               *)

Unlocked == [c \in {"lock_mode", "lock_until"} |->
               IF c = "lock_mode" THEN "none" ELSE Null]

(* Faulty: only blocks that count as locked are looked at.                 *)
SweepReadEnabled ==
  /\ sweep = {}
  /\ sweep' = {b \in DOMAIN blocks : blocks[b]["enabled"] /\ LockExpired(blocks[b], now)}
  /\ sweep' # {}
  /\ UNCHANGED <<now, blocks, delay, pending, nextId, client, job, restarts>>

SweepRead ==
  /\ sweep = {}
  /\ sweep' = {b \in DOMAIN blocks : LockExpired(blocks[b], now)}
  /\ sweep' # {}
  /\ UNCHANGED <<now, blocks, delay, pending, nextId, client, job, restarts>>

SweepCommit ==
  /\ sweep # {}
  /\ blocks' = IF sweep \subseteq DOMAIN blocks
               THEN [b \in DOMAIN blocks |->
                       IF b \in sweep THEN Merge(blocks[b], Unlocked) ELSE blocks[b]]
               ELSE blocks
  /\ sweep' = {}
  /\ UNCHANGED <<now, delay, pending, nextId, client, job, restarts>>
-----------------------------------------------------------------------------
(* The table, the queue's file and the configuration survive; what was in  *)
(* flight is lost.                                                         *)
Restart ==
  /\ restarts < MaxRestarts
  /\ restarts' = restarts + 1
  /\ client' = [c \in Client |-> Idle]
  /\ job' = Loop({})
  /\ sweep' = {}
  /\ UNCHANGED <<now, blocks, delay, pending, nextId>>

Tick ==
  /\ now < MaxTime
  /\ now' = now + 1
  /\ UNCHANGED <<blocks, delay, pending, nextId, client, job, sweep, restarts>>

Api(c) ==
  \/ \E b \in DOMAIN blocks :
       \/ \E p \in Edits : CheckUpdate(c, b, p)
       \/ CheckDelete(c, b)
       \/ \E s \in StrictEdits : ReadStrict(c, b, s)
       \/ \E t \in LockTimes, offset \in Offsets : ReadExtend(c, b, t, offset)
  \/ \E r \in NewRows : Create(c, r)
  \/ Refuse(c)
  \/ Queue(c)
  \/ AcceptUpdate(c)
  \/ AcceptDelete(c)
  \/ CommitRow(c)
  \/ CommitDelete(c)

Job == JobStart \/ JobRead \/ JobWrite \/ JobFail \/ JobPop
Sweep == SweepRead \/ SweepCommit

Next ==
  \/ \E c \in Client : Api(c)
  \/ \E e \in pending : Cancel(e)
  \/ CancelAll
  \/ \E body \in DelayBodies : QueueDelayChange(body) \/ SetDelayNow(body)
  \/ Job
  \/ Sweep
  \/ Restart
  \/ Tick

Spec == Init /\ [][Next]_vars

(* The scheduler keeps calling the two jobs (apply_pending_unblocks_job,   *)
(* schedule_check_job) and the loop resumes a job whose await is done.     *)
FairSpec == Spec /\ WF_vars(Job) /\ WF_vars(Sweep)
-----------------------------------------------------------------------------
(* The state has the types the code gives it.                              *)
IsPayload(kind, p) == IF kind = "settings" THEN IsDelayBody(p) ELSE IsEdit(p)

IsEntry(e) ==
  /\ e.id \in Nat /\ e.kind \in Kind /\ e.created \in Nat /\ e.effective \in Nat
  /\ IsPayload(e.kind, e.payload)

IsRequest(r) ==
  /\ r.pc \in {"idle", "checked", "commit"} /\ r.op \in Op
  /\ r.saw.locked \in BOOLEAN /\ r.saw.waits \in BOOLEAN
  /\ r.pc = "commit" => IsRow(r.saw.row)
  /\ r.pc = "checked" => r.op \in {"update", "delete"}
  /\ IF r.pc = "commit" THEN IsWrite(r.edit) ELSE IsEdit(r.edit)

TypeOK ==
  /\ now \in Nat /\ nextId \in Nat /\ restarts \in Nat
  /\ IsTable(blocks)
  /\ delay \in [enabled : BOOLEAN, minutes : 1..MaxMinutes]
  /\ \A e \in pending \cup job.due : IsEntry(e)
  /\ DOMAIN client = Client /\ \A c \in Client : IsRequest(client[c])
  /\ job.pc \in {"idle", "read", "write", "pop"} /\ IsEdit(job.edit)
  /\ sweep \subseteq BlockId

(* The newest request for a target is the only one that waits: of two      *)
(* entries for one block, or two for the settings, the older is gone.      *)
OnePendingPerTarget ==
  \A e, f \in pending :
    \/ e.kind = "settings" /\ f.kind = "settings"
    \/ e.kind # "settings" /\ f.kind # "settings" /\ e.block = f.block
    => e = f

(* While the delay is off no block change waits in the queue, so turning   *)
(* the delay on again never revives one.                                   *)
NothingWaitsWhenOff == ~delay.enabled => \A e \in pending : e.kind = "settings"

(* The job changes a block only for an entry that has waited: its time has *)
(* come, and it was set later than the request, restarts or not.           *)
NoEarlyApply ==
  [][job.pc = "write" /\ job'.pc = "pop" =>
       /\ Current.effective <= now
       /\ Current.created < Current.effective]_vars

(* The delay is turned off or shortened only by a request that has waited. *)
DelayLoosensAfterWait ==
  [][delay.enabled /\ (~delay'.enabled \/ delay'.minutes < delay.minutes) =>
       \E e \in pending \cup job.due : /\ e.kind = "settings"
                                      /\ e.created < e.effective
                                      /\ e.effective <= now]_vars

(* A request's commit on block b, seen from outside.                       *)
Commits(c, b) == client[c].pc = "commit" /\ client[c].block = b /\ client'[c].pc = "idle"
                 /\ restarts' = restarts

(* What a block enforced when the request decided and still enforces at    *)
(* the commit is enforced after it.                                        *)
KeepsWhatItSaw(c, b) ==
  /\ b \in DOMAIN blocks'
  /\ Enforced(client[c].saw.row) \cap Enforced(blocks[b]) \subseteq Enforced(blocks'[b])

(* The block is locked after the commit, until the time t or later.        *)
LockedUntil(b, t) ==
  /\ b \in DOMAIN blocks'
  /\ blocks'[b]["lock_mode"] = "locked_until" /\ blocks'[b]["lock_until"] >= t

LockKept(b) == LockedUntil(b, blocks[b]["lock_until"])
Either(c, b) == {client[c].saw.row["lock_until"], blocks[b]["lock_until"]}
West == {offset \in Offsets \cup {0} : offset <= 0}

(* A block that is locked when a request first looks at it, and still when *)
(* it commits, only becomes stricter: it goes on enforcing what the        *)
(* request saw, and its lock ends no earlier than the one it saw or the    *)
(* one it finds.  An extension sent with an offset west of Greenwich,      *)
(* which is compared with it and stored without, can end it earlier, but   *)
(* by no more than an offset that is sent.                                 *)
LockedOnlyTightens ==
  [][\A c \in Client, b \in DOMAIN blocks :
       Commits(c, b) /\ client[c].saw.locked /\ Locked(blocks[b], now) =>
         /\ KeepsWhatItSaw(c, b)
         /\ \E t \in Either(c, b), west \in West : LockedUntil(b, t + west)]_vars

(* PATCH /strict takes off a block nothing that it saw there, whatever     *)
(* the jobs do between its read and its commit.                            *)
StrictOnlyTightens ==
  [][\A c \in Client, b \in DOMAIN blocks :
       Commits(c, b) /\ client[c].op = "strict" => KeepsWhatItSaw(c, b)]_vars

(* PATCH /strict leaves alone a lock set or extended after it read the row.*)
StrictKeepsLock ==
  [][\A c \in Client, b \in DOMAIN blocks :
       Commits(c, b) /\ client[c].op = "strict" /\ Locked(blocks[b], now) => LockKept(b)]_vars

(* The request writes a schedule, or puts the block on one, that leaves    *)
(* the hour out.                                                           *)
Reschedules(c, b, hour) ==
  /\ DOMAIN client[c].edit \cap {"schedule", "block_mode"} # {}
  /\ blocks'[b]["block_mode"] = "time_range" /\ hour \notin blocks'[b]["schedule"]

(* A request decided while the delay is on takes off a block nothing that  *)
(* it saw there: at the commit the block still is and goes on enforcing    *)
(* it, but at hours that a schedule the request itself sends leaves out,   *)
(* for _is_loosening_update does not look at schedules.                    *)
LooseningWaits ==
  [][\A c \in Client, b \in DOMAIN blocks :
       Commits(c, b) /\ client[c].saw.waits =>
         /\ b \in DOMAIN blocks'
         /\ \A hr \in Enforced(client[c].saw.row) \cap Enforced(blocks[b]) :
              hr \in Enforced(blocks'[b]) \/ Reschedules(c, b, hr[1])]_vars

Waiting(i) == \E e \in pending : e.id = i
Due(i, e) == e.id = i /\ e.effective <= now
CanBeStored(e) == e.kind = "update" => IsWrite(AsStored(e.payload))

(* What became due is applied, or is dropped: it does not stay queued, as  *)
(* long as what it sends can be stored.                                    *)
DueChangesLeaveQueue ==
  \A i \in 1..MaxRequests :
    (\E e \in pending : Due(i, e) /\ CanBeStored(e)) ~> ~Waiting(i)

Stale(b) == b \in DOMAIN blocks /\ LockExpired(blocks[b], now)

(* A lock that ran out is reset, so the block's row does not go on saying  *)
(* that it is locked.                                                      *)
ExpiredLocksAreReset == \A b \in BlockId : Stale(b) ~> ~Stale(b)
=============================================================================

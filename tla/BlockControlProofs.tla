------------------------- MODULE BlockControlProofs -------------------------
(***************************************************************************)
(* What BlockControl guarantees for every set of clients, blocks, edits    *)
(* and bounds: types, the two invariants of the queue of delayed changes,  *)
(* the two action properties about waiting, and what a commit may do to a  *)
(* block, however stale the row it was decided on has become.              *)
(***************************************************************************)
EXTENDS BlockControl, WellFoundedInduction, NaturalsInduction, TLAPS

(* The oldest entry of a set of entries exists: ids are natural numbers.   *)
LEMMA FirstIsMember ==
  ASSUME NEW q, q # {}, \A e \in q : e.id \in Nat
  PROVE  First(q) \in q
<1> DEFINE ids == {e.id : e \in q}
           less == OpToRel(<, Nat)
<1>1. ids \subseteq Nat /\ ids # {}
  OBVIOUS
<1>2. IsWellFoundedOn(less, Nat)
  BY NatLessThanWellFounded
<1>3. PICK i \in ids : \A j \in ids : ~(<<j, i>> \in less)
  <2> HIDE DEF ids, less
  <2> QED BY <1>1, <1>2, WFMin
<1>4. \A j \in ids : i <= j
  <2>1. \A j, k \in Nat : j < k => <<j, k>> \in less
    BY Zenon DEF OpToRel
  <2>2. \A j \in ids : ~(j < i)
    <3> HIDE DEF ids, less
    <3> QED BY <1>1, <1>3, <2>1
  <2> HIDE DEF ids, less
  <2> QED BY <1>1, <2>2
<1>5. PICK e \in q : e.id = i
  BY <1>3
<1>6. \A f \in q : e.id <= f.id
  BY <1>4, <1>5
<1> QED BY <1>5, <1>6 DEF First

-----------------------------------------------------------------------------
(* Rows stay rows, and what is kept to be written can be written.          *)

LEMMA MergeIsRow ==
  ASSUME NEW r, IsRow(r), NEW d, IsWrite(d)
  PROVE  IsRow(Merge(r, d))
BY DEF IsRow, IsWrite, Merge, Sends

LEMMA EditedIsRow ==
  ASSUME NEW r, IsRow(r), NEW p, IsEdit(p)
  PROVE  IsRow(Edited(r, p))
<1>1. DOMAIN Edited(r, p) = Column
  BY DEF Edited
<1>2. LockUntilAfter(r, p) \in Nat \cup {Null}
  BY DEF LockUntilAfter, IsRow, IsEdit, Sends, Column, ColumnType
<1>3. ASSUME NEW c \in Column, c # "lock_until"
      PROVE  Edited(r, p)[c] \in ColumnType(c)
  <2>1. Edited(r, p)[c] = IF Sends(p, c) THEN p[c] ELSE r[c]
    BY <1>3 DEF Edited
  <2> QED BY <1>3, <2>1 DEF IsRow, IsEdit, Sends
<1>4. Edited(r, p)["lock_until"] \in ColumnType("lock_until")
  BY <1>2 DEF Edited, Column, ColumnType
<1> QED BY <1>1, <1>3, <1>4 DEF IsRow

LEMMA ChangedIsWrite ==
  ASSUME NEW old, NEW new, IsRow(new)
  PROVE  IsWrite(Changed(old, new))
BY DEF IsRow, IsWrite, Changed

LEMMA TightenedIsRow ==
  ASSUME NEW r, IsRow(r), NEW s, s.add \subseteq Rule, s.remove \subseteq Rule
  PROVE  IsRow(Tightened(r, s))
BY DEF IsRow, Tightened, Merge, Sends, Column, ColumnType

(* A payload set on a row changes only columns that the payload names.     *)
LEMMA PayloadIsEdit ==
  ASSUME NEW r, NEW p, IsEdit(p)
  PROVE  IsEdit(Changed(r, Merge(r, AsStored(p))))
<1> DEFINE d == Changed(r, Merge(r, AsStored(p)))
           Allowed(c) == ColumnType(c) \cup {Null} \cup (IF c = "lock_until" THEN {Blank} ELSE {})
<1>1. DOMAIN d \subseteq Column
  BY DEF Changed
<1>2. ASSUME NEW c \in DOMAIN d
      PROVE  c \in DOMAIN p /\ d[c] = IF p[c] = Null THEN WithoutValue(c) ELSE p[c]
  BY DEF Changed, Merge, AsStored
<1>3. \A c \in Column : WithoutValue(c) \in Allowed(c)
  BY DEF WithoutValue, Column, ColumnType
<1>4. \A c \in DOMAIN d : d[c] \in Allowed(c)
  <2> HIDE DEF d
  <2> QED BY <1>1, <1>2, <1>3 DEF IsEdit
<1> QED BY <1>1, <1>4 DEF IsEdit

LEMMA NoEditIsEdit == IsEdit(NoEdit) /\ IsWrite(NoEdit)
BY DEF IsEdit, IsWrite, NoEdit

-----------------------------------------------------------------------------
(* The inductive invariant, one conjunct for each part of the state, so    *)
(* that a step disturbs few of them.  To the type invariant and the two    *)
(* invariants of the queue it adds that an entry's time lies after its     *)
(* request, that what the job holds has come due, and that the job stands  *)
(* at an await only while it has an entry to work on.  Of a request that    *)
(* waits for its commit it says what its edit does to the row it saw.      *)

DelayGood(d) == d \in [enabled : BOOLEAN, minutes : 1..MaxMinutes]

QueueGood(q, d) ==
  /\ \A e \in q : IsEntry(e) /\ e.created < e.effective
  /\ \A e, f \in q : Competes(e, f.kind, f.block) => e = f
  /\ ~d.enabled => \A e \in q : e.kind = "settings"

JobGood(j, t) ==
  /\ \A e \in j.due : IsEntry(e) /\ e.created < e.effective /\ e.effective <= t
  /\ j.pc \in {"idle", "read", "write", "pop"} /\ IsEdit(j.edit)
  /\ j.pc # "idle" => j.due # {}

(* A strict request writes list columns only.                              *)
WritesLists(r) ==
  r.pc = "commit" /\ r.op = "strict" =>
    DOMAIN r.edit \subseteq {"websites_blocked", "websites_allowed"}

(* The columns an edit writes neither turn the block off nor take a rule   *)
(* away that the row old enforces, whatever the row they are written to    *)
(* holds in its other columns ...                                          *)
KeepsRules(old, d) ==
  /\ "enabled" \in DOMAIN d /\ old["enabled"] => d["enabled"]
  /\ "block_mode" \in DOMAIN d => d["block_mode"] \in {"always", "time_range"}
  /\ "websites_blocked" \in DOMAIN d => old["websites_blocked"] \subseteq d["websites_blocked"]
  /\ "websites_allowed" \in DOMAIN d => d["websites_allowed"] \subseteq old["websites_allowed"]

(* ... nor an hour.                                                        *)
Tightens(old, d) ==
  /\ KeepsRules(old, d)
  /\ "block_mode" \in DOMAIN d => d["block_mode"] = "always"
  /\ "schedule" \notin DOMAIN d

(* What an edit that waits for its commit has to do with what its request  *)
(* saw: a strict request tightens the row it saw, an update that was let   *)
(* through while the delay is on keeps its rules, and the time an          *)
(* extension writes is a later one but for an offset to the west.          *)
EditFits(r) ==
  /\ r.op = "strict" => Tightens(r.saw.row, r.edit)
  /\ r.op = "update" /\ r.saw.waits => KeepsRules(r.saw.row, r.edit)
  /\ r.op = "delete" => ~r.saw.waits
  /\ r.op = "extend" =>
       /\ DOMAIN r.edit \subseteq {"lock_until"}
       /\ "lock_until" \in DOMAIN r.edit =>
            \E west \in West : r.edit["lock_until"] >= r.saw.row["lock_until"] + west

(* Only a strict request and an extension get past a lock.                 *)
PassesLock(r) == r.pc # "idle" /\ r.saw.locked => r.op \in {"strict", "extend"}

RequestGood(r) ==
  /\ IsRequest(r) /\ WritesLists(r) /\ PassesLock(r)
  /\ r.pc = "checked" /\ r.op = "update" => r.edit \in Edits
  /\ r.pc = "commit" => r.op # "none" /\ EditFits(r)
RequestsGood(s) == DOMAIN s = Client /\ \A c \in Client : RequestGood(s[c])

IInv ==
  /\ now \in Nat /\ nextId \in Nat /\ restarts \in Nat
  /\ IsTable(blocks)
  /\ DelayGood(delay)
  /\ QueueGood(pending, delay)
  /\ RequestsGood(client)
  /\ JobGood(job, now)
  /\ sweep \subseteq BlockId

LEMMA InvImplies ==
  ASSUME IInv
  PROVE  TypeOK /\ OnePendingPerTarget /\ NothingWaitsWhenOff
<1>1. TypeOK
  BY DEF IInv, TypeOK, DelayGood, QueueGood, RequestsGood, RequestGood, JobGood
<1>2. OnePendingPerTarget /\ NothingWaitsWhenOff
  BY DEF IInv, QueueGood, Competes, OnePendingPerTarget, NothingWaitsWhenOff
<1> QED BY <1>1, <1>2

LEMMA DelayType ==
  ASSUME DelayGood(delay)
  PROVE  delay.enabled \in BOOLEAN /\ delay.minutes \in Nat \ {0}
BY ControlAssumption DEF DelayGood, ControlAssumption

LEMMA EnqueueKeepsQueue ==
  ASSUME IInv, NEW kind \in Kind, NEW b, NEW payload, IsPayload(kind, payload),
         kind # "settings" => delay.enabled,
         Enqueue(kind, b, payload)
  PROVE  QueueGood(pending', delay) /\ nextId' \in Nat
<1> DEFINE n == Entry(kind, b, payload)
<1>0. QueueGood(pending, delay)
  BY DEF IInv
<1>1. n.kind = kind /\ n.block = b
  BY DEF Entry
<1>2. IsEntry(n) /\ n.created < n.effective
  BY DelayType DEF Entry, IsEntry, IInv
<1>3. pending' = {e \in pending : ~Competes(e, kind, b)} \cup {n}
  BY DEF Enqueue
<1>4. nextId' \in Nat
  BY DEF Enqueue, IInv
<1> HIDE DEF n
<1>5. \A e \in pending' : IsEntry(e) /\ e.created < e.effective
  BY <1>0, <1>2, <1>3 DEF QueueGood
<1>6. \A e, f \in pending' : Competes(e, f.kind, f.block) => e = f
  BY <1>0, <1>1, <1>3 DEF QueueGood, Competes
<1>7. ~delay.enabled => \A e \in pending' : e.kind = "settings"
  BY <1>0, <1>1, <1>3 DEF QueueGood
<1> QED BY <1>4, <1>5, <1>6, <1>7 DEF QueueGood

(* A part of a good queue is good.                                         *)
LEMMA PartOfQueue ==
  ASSUME NEW p, NEW d, QueueGood(p, d), NEW q, q \subseteq p
  PROVE  QueueGood(q, d)
BY DEF QueueGood

WeakerDelay == delay.enabled /\ (~delay'.enabled \/ delay'.minutes < delay.minutes)

(* Going on in the loop keeps the queue good, works only on entries it was *)
(* given, and loosens the delay only for a settings entry among them.      *)
LEMMA GoOnStep ==
  ASSUME IInv,
         NEW q, q \subseteq pending \cup job.due, \A e \in q : e.effective <= now,
         NEW rest, rest \subseteq pending,
         GoOn(q, rest)
  PROVE  /\ pending' \subseteq pending
         /\ QueueGood(pending', delay')
         /\ DelayGood(delay')
         /\ JobGood(job', now)
         /\ job'.pc \in {"idle", "read"}
         /\ WeakerDelay => \E e \in q : e.kind = "settings"
<1> DEFINE isSettings == q # {} /\ First(q).kind = "settings"
<1>1. \A e \in q : IsEntry(e) /\ e.created < e.effective /\ e.effective <= now
  BY DEF IInv, QueueGood, JobGood
<1>0. DelayGood(delay) /\ QueueGood(pending, delay)
  BY DEF IInv
<1>2. CASE isSettings
  <2> DEFINE e == First(q)
  <2>1. e \in q /\ e.kind = "settings"
    BY <1>1, <1>2, FirstIsMember DEF IsEntry
  <2>2. IsDelayBody(e.payload)
    BY <1>1, <2>1 DEF IsEntry, IsPayload
  <2>3. /\ delay' = WithFields(delay, e.payload)
        /\ pending' = {f \in rest : f.id # e.id /\ (TurnsOff(e) => f.kind = "settings")}
        /\ job' = Loop(q \ {e})
    BY <1>2 DEF GoOn
  <2> HIDE DEF e
  <2>4. DelayGood(delay')
    BY <1>0, <2>2, <2>3 DEF WithFields, IsDelayBody, DelayGood
  <2>5. pending' \subseteq pending
    BY <2>3
  <2>6. QueueGood(pending', delay)
    BY <1>0, <2>5, PartOfQueue
  <2>7. ~delay'.enabled => \A f \in pending' : f.kind = "settings"
    <3>1. CASE TurnsOff(e)
      BY <2>3, <3>1
    <3>2. CASE ~TurnsOff(e)
      <4>1. ~delay'.enabled => ~delay.enabled
        BY <2>2, <2>3, <3>2 DEF WithFields, TurnsOff, IsDelayBody
      <4> QED BY <2>6, <4>1 DEF QueueGood
    <3> QED BY <3>1, <3>2
  <2>8. QueueGood(pending', delay')
    BY <2>6, <2>7 DEF QueueGood
  <2>9. JobGood(job', now) /\ job'.pc \in {"idle", "read"}
    BY <1>1, <2>3, NoEditIsEdit DEF Loop, At, JobGood
  <2> QED BY <2>1, <2>4, <2>5, <2>8, <2>9
<1>3. CASE ~isSettings
  <2>1. delay' = delay /\ pending' = rest /\ job' = Loop(q)
    BY <1>3 DEF GoOn
  <2>2. QueueGood(pending', delay')
    BY <1>0, <2>1, PartOfQueue
  <2>3. ~WeakerDelay
    BY <1>0, <2>1, DelayType DEF WeakerDelay
  <2>4. DelayGood(delay')
    BY <1>0, <2>1
  <2>5. JobGood(job', now) /\ job'.pc \in {"idle", "read"}
    BY <1>1, <2>1, NoEditIsEdit DEF Loop, At, JobGood
  <2> QED BY <2>1, <2>2, <2>3, <2>4, <2>5
<1> QED BY <1>2, <1>3

-----------------------------------------------------------------------------
(* Tables and requests stay well formed.                                   *)

LEMMA PutKeepsTable ==
  ASSUME NEW t, IsTable(t), NEW b, NEW d, IsWrite(d)
  PROVE  IsTable(Put(t, b, d))
BY MergeIsRow DEF IsTable, Put

LEMMA WithoutKeepsTable ==
  ASSUME NEW t, IsTable(t), NEW b
  PROVE  IsTable(Without(t, b))
BY DEF IsTable, Without

LEMMA BecomesKeepsRequests ==
  ASSUME RequestsGood(client), NEW c, NEW r, RequestGood(r), Becomes(c, r)
  PROVE  RequestsGood(client')
BY DEF RequestsGood, Becomes

LEMMA IdleIsGood == RequestGood(Idle)
BY NoEditIsEdit DEF RequestGood, WritesLists, PassesLock, IsRequest, Idle, Request, Saw, Op

LEMMA InitInv == Init => IInv
<1> SUFFICES ASSUME Init PROVE IInv
  OBVIOUS
<1>1. IsTable(blocks)
  BY ControlAssumption DEF Init, ControlAssumption
<1>2. DelayGood(delay)
  BY DEF Init, DelayGood
<1>3. QueueGood(pending, delay)
  BY DEF Init, QueueGood
<1>4. RequestsGood(client)
  BY IdleIsGood DEF Init, RequestsGood
<1>5. JobGood(job, now)
  BY NoEditIsEdit DEF Init, JobGood, Loop, At
<1> QED BY <1>1, <1>2, <1>3, <1>4, <1>5 DEF Init, IInv

LEMMA TightenedChangesLists ==
  ASSUME NEW r, IsRow(r), NEW s
  PROVE  DOMAIN Changed(r, Tightened(r, s)) \subseteq {"websites_blocked", "websites_allowed"}
BY DEF IsRow, Changed, Tightened, Merge, Sends

(* PATCH /strict adds to the blocked list and takes off the allowed one.   *)
LEMMA StrictTightens ==
  ASSUME NEW r, IsRow(r), NEW s
  PROVE  Tightens(r, Changed(r, Tightened(r, s)))
<1> DEFINE n == Tightened(r, s)
<1>1. \A k \in Column \ {"websites_blocked", "websites_allowed"} : n[k] = r[k]
  BY DEF Tightened, Merge
<1>2. /\ r["websites_blocked"] \subseteq n["websites_blocked"]
      /\ n["websites_allowed"] \subseteq r["websites_allowed"]
  BY DEF Tightened, Merge, Column
<1> HIDE DEF n
<1>3. DOMAIN Changed(r, n) \subseteq {"websites_blocked", "websites_allowed"}
  BY <1>1 DEF Changed
<1> QED BY <1>2, <1>3 DEF Tightens, KeepsRules, Changed, n

(* What _is_loosening_update lets through keeps the row's rules.           *)
LEMMA AcceptedKeepsRules ==
  ASSUME NEW r, IsRow(r), NEW p, IsEdit(p), ~IsLoosening(r, p)
  PROVE  KeepsRules(r, Changed(r, Edited(r, p)))
<1> DEFINE n == Edited(r, p)
           d == Changed(r, n)
<1>1. \A k \in Column \ {"lock_until"} : n[k] = IF Sends(p, k) THEN p[k] ELSE r[k]
  BY DEF Edited
<1> HIDE DEF n
<1>2. \A k \in DOMAIN d : k \in Column /\ d[k] = n[k] /\ n[k] # r[k]
  BY DEF Changed
<1> HIDE DEF d
<1>3. \A k \in DOMAIN d \ {"lock_until"} : Sends(p, k) /\ d[k] = p[k] /\ p[k] # r[k]
  BY <1>1, <1>2
<1>4. "enabled" \in DOMAIN d /\ r["enabled"] => d["enabled"]
  BY <1>3 DEF IsLoosening
<1>5. "block_mode" \in DOMAIN d => d["block_mode"] \in {"always", "time_range"}
  BY <1>3 DEF IsLoosening, IsEdit, ColumnType, Sends, Column
<1>6. "websites_blocked" \in DOMAIN d => r["websites_blocked"] \subseteq d["websites_blocked"]
  BY <1>3 DEF IsLoosening
<1>7. "websites_allowed" \in DOMAIN d => d["websites_allowed"] \subseteq r["websites_allowed"]
  BY <1>3 DEF IsLoosening
<1> QED BY <1>4, <1>5, <1>6, <1>7 DEF KeepsRules, d, n

(* What extend-lock writes is the end of the lock, and a later one but for *)
(* an offset to the west.                                                  *)
LEMMA ExtensionFits ==
  ASSUME NEW r, IsRow(r), r["lock_until"] # Null,
         NEW t \in LockTimes, NEW offset \in Offsets, t - offset > r["lock_until"]
  PROVE  LET d == Changed(r, Merge(r, [f \in {"lock_until"} |-> t])) IN
         /\ DOMAIN d \subseteq {"lock_until"}
         /\ "lock_until" \in DOMAIN d =>
              \E west \in West : d["lock_until"] >= r["lock_until"] + west
<1> DEFINE n == Merge(r, [f \in {"lock_until"} |-> t])
<1>1. n["lock_until"] = t /\ \A k \in Column \ {"lock_until"} : n[k] = r[k]
  BY DEF Merge, Column
<1> HIDE DEF n
<1>2. DOMAIN Changed(r, n) \subseteq {"lock_until"}
  BY <1>1 DEF Changed
<1>3. "lock_until" \in DOMAIN Changed(r, n) => Changed(r, n)["lock_until"] = t
  BY <1>1 DEF Changed
<1>4. \E west \in West : t >= r["lock_until"] + west
  <2>1. t \in Nat /\ offset \in Int
    BY ControlAssumption DEF ControlAssumption
  <2>2. r["lock_until"] \in Nat
    BY DEF IsRow, Column, ColumnType
  <2>3. CASE offset <= 0
    BY <2>1, <2>2, <2>3 DEF West
  <2>4. CASE offset > 0
    <3>1. 0 \in West
      BY DEF West
    <3> QED BY <2>1, <2>2, <2>4, <3>1
  <2> QED BY <2>1, <2>3, <2>4
<1> QED BY <1>2, <1>3, <1>4 DEF n

-----------------------------------------------------------------------------
(* Every step keeps the invariant.                                         *)

LEMMA ApiKeepsInv ==
  ASSUME IInv, NEW c \in Client, Api(c)
  PROVE  IInv'
<1>0. RequestsGood(client) /\ IsTable(blocks) /\ QueueGood(pending, delay) /\ DelayGood(delay)
  BY DEF IInv
<1>0a. IsRequest(client[c])
  BY <1>0 DEF RequestsGood, RequestGood
<1>0b. ASSUME NEW b \in DOMAIN blocks
       PROVE  /\ Sees(b).row = blocks[b] /\ IsRow(Sees(b).row)
              /\ Sees(b).locked \in BOOLEAN /\ Sees(b).waits \in BOOLEAN
  <2>1. Locked(blocks[b], now) \in BOOLEAN
    BY DEF Locked
  <2>2. delay.enabled \in BOOLEAN
    BY <1>0, DelayType
  <2> QED BY <1>0, <2>1, <2>2 DEF Sees, Saw, IsTable
<1>0c. /\ Decided(c).row = Row(c) /\ Decided(c).waits = delay.enabled
       /\ delay.enabled \in BOOLEAN
       /\ client[c].pc = "checked" => Decided(c).locked = FALSE
  <2>1. client[c].pc = "checked" => client[c].saw.locked = FALSE
    BY <1>0, <1>0a DEF RequestsGood, RequestGood, PassesLock, IsRequest
  <2> QED BY <1>0, <2>1, DelayType DEF Decided, Saw
<1>1. ASSUME NEW b \in DOMAIN blocks, NEW p \in Edits, CheckUpdate(c, b, p)
      PROVE  IInv'
  <2> DEFINE w == Saw(NoEdit, Locked(blocks[b], now), FALSE)
  <2>0. w.locked = FALSE /\ w.waits = FALSE
    BY <1>1 DEF CheckUpdate, Saw
  <2> HIDE DEF w
  <2>1. RequestGood(Request("checked", "update", b, p, w))
    BY <2>0, ControlAssumption
    DEF ControlAssumption, RequestGood, WritesLists, PassesLock, IsRequest, Request, Op
  <2>2. RequestsGood(client')
    BY <1>0, <1>1, <2>1, BecomesKeepsRequests DEF CheckUpdate, w
  <2> QED BY <1>1, <2>2 DEF CheckUpdate, IInv
<1>2. ASSUME NEW b \in DOMAIN blocks, CheckDelete(c, b)
      PROVE  IInv'
  <2> DEFINE w == Saw(NoEdit, Locked(blocks[b], now), FALSE)
  <2>0. w.locked = FALSE /\ w.waits = FALSE
    BY <1>2 DEF CheckDelete, Saw
  <2> HIDE DEF w
  <2>1. RequestGood(Request("checked", "delete", b, NoEdit, w))
    BY <2>0, NoEditIsEdit DEF RequestGood, WritesLists, PassesLock, IsRequest, Request, Op
  <2>2. RequestsGood(client')
    BY <1>0, <1>2, <2>1, BecomesKeepsRequests DEF CheckDelete, w
  <2> QED BY <1>2, <2>2 DEF CheckDelete, IInv
<1>3. ASSUME NEW b \in DOMAIN blocks, NEW s \in StrictEdits, ReadStrict(c, b, s)
      PROVE  IInv'
  <2> DEFINE d == Changed(blocks[b], Tightened(blocks[b], s))
  <2>1. IsWrite(d)
    BY <1>0, TightenedIsRow, ChangedIsWrite, ControlAssumption DEF ControlAssumption, IsTable
  <2>2. /\ DOMAIN d \subseteq {"websites_blocked", "websites_allowed"}
        /\ Tightens(blocks[b], d)
    BY <1>0, TightenedChangesLists, StrictTightens DEF IsTable
  <2> HIDE DEF d
  <2>3. RequestGood(Request("commit", "strict", b, d, Sees(b)))
    BY <1>0b, <2>1, <2>2
    DEF RequestGood, WritesLists, PassesLock, EditFits, IsRequest, Request, Op
  <2>4. RequestsGood(client')
    BY <1>0, <1>3, <2>3, BecomesKeepsRequests DEF ReadStrict, d
  <2> QED BY <1>3, <2>4 DEF ReadStrict, IInv
<1>4. ASSUME NEW b \in DOMAIN blocks, NEW t \in LockTimes, NEW offset \in Offsets,
             ReadExtend(c, b, t, offset)
      PROVE  IInv'
  <2> DEFINE m == Merge(blocks[b], [f \in {"lock_until"} |-> t])
             d == Changed(blocks[b], m)
  <2>1. IsWrite([f \in {"lock_until"} |-> t])
    BY ControlAssumption DEF ControlAssumption, IsWrite, Column, ColumnType
  <2>2. IsRow(m)
    BY <1>0, <2>1, MergeIsRow DEF IsTable
  <2>3. IsWrite(d)
    BY <2>2, ChangedIsWrite
  <2>4. /\ DOMAIN d \subseteq {"lock_until"}
        /\ "lock_until" \in DOMAIN d =>
             \E west \in West : d["lock_until"] >= blocks[b]["lock_until"] + west
    BY <1>0, <1>4, ExtensionFits DEF ReadExtend, IsTable
  <2> HIDE DEF m, d
  <2>5. RequestGood(Request("commit", "extend", b, d, Sees(b)))
    BY <1>0b, <2>3, <2>4
    DEF RequestGood, WritesLists, PassesLock, EditFits, IsRequest, Request, Op
  <2>6. RequestsGood(client')
    BY <1>0, <1>4, <2>5, BecomesKeepsRequests DEF ReadExtend, m, d
  <2> QED BY <1>4, <2>6 DEF ReadExtend, IInv
<1>5. ASSUME NEW r \in NewRows, Create(c, r)
      PROVE  IInv'
  <2>1. IsTable(blocks')
    BY <1>0, <1>5, ControlAssumption DEF Create, IsTable, ControlAssumption
  <2> QED BY <1>5, <2>1 DEF Create, IInv
<1>6. CASE Refuse(c)
  <2>1. RequestsGood(client')
    BY <1>0, <1>6, IdleIsGood, BecomesKeepsRequests DEF Refuse
  <2> QED BY <1>6, <2>1 DEF Refuse, IInv
<1>7. CASE Queue(c)
  <2>1. RequestsGood(client')
    BY <1>0, <1>7, IdleIsGood, BecomesKeepsRequests DEF Queue
  <2>2. client[c].op \in Kind /\ client[c].op # "settings"
    BY <1>0a, <1>7 DEF Queue, IsRequest, Op, Kind
  <2>3. QueueGood(pending', delay) /\ nextId' \in Nat
    <3>1. IsPayload(client[c].op, client[c].edit)
      BY <1>0a, <1>7, <2>2 DEF Queue, IsRequest, IsPayload
    <3>2. delay.enabled
      BY <1>7 DEF Queue, MustWait
    <3> QED BY <1>7, <2>2, <3>1, <3>2, EnqueueKeepsQueue DEF Queue
  <2> QED BY <1>7, <2>1, <2>3 DEF Queue, IInv
<1>8. CASE AcceptUpdate(c)
  <2> DEFINE e == Edited(Row(c), client[c].edit)
             d == Changed(Row(c), e)
  <2>1. IsEdit(client[c].edit)
    BY <1>0a, <1>8 DEF AcceptUpdate, Deciding, IsRequest
  <2>2. IsRow(Row(c))
    BY <1>0, <1>8 DEF AcceptUpdate, Exists, Row, IsTable
  <2>3. IsWrite(d)
    BY <2>1, <2>2, EditedIsRow, ChangedIsWrite
  <2>4. delay.enabled => KeepsRules(Row(c), d)
    <3> SUFFICES ASSUME delay.enabled PROVE KeepsRules(Row(c), d)
      OBVIOUS
    <3>1. ~IsLoosening(Row(c), client[c].edit)
      BY <1>8 DEF AcceptUpdate, Deciding, MustWait
    <3> QED BY <2>1, <2>2, <3>1, AcceptedKeepsRules
  <2> HIDE DEF e, d
  <2>5. RequestGood(Request("commit", "update", client[c].block, d, Decided(c)))
    BY <1>0c, <1>8, <2>2, <2>3, <2>4
    DEF AcceptUpdate, Deciding, RequestGood, WritesLists, PassesLock, EditFits, IsRequest, Request, Op
  <2>6. RequestsGood(client')
    BY <1>0, <1>8, <2>5, BecomesKeepsRequests DEF AcceptUpdate, e, d
  <2> QED BY <1>8, <2>6 DEF AcceptUpdate, IInv
<1>9. CASE AcceptDelete(c)
  <2>1. IsRow(Row(c)) /\ delay.enabled = FALSE
    BY <1>0, <1>9, <1>0c DEF AcceptDelete, Deciding, Exists, Row, IsTable, MustWait
  <2>2. RequestGood(Request("commit", "delete", client[c].block, NoEdit, Decided(c)))
    BY <1>0c, <1>9, <2>1, NoEditIsEdit
    DEF AcceptDelete, Deciding, RequestGood, WritesLists, PassesLock, EditFits, IsRequest, Request, Op
  <2>3. RequestsGood(client')
    BY <1>0, <1>9, <2>2, BecomesKeepsRequests DEF AcceptDelete
  <2> QED BY <1>9, <2>3 DEF AcceptDelete, IInv
<1>10. CASE CommitRow(c)
  <2>1. IsTable(blocks')
    BY <1>0, <1>0a, <1>10, PutKeepsTable DEF CommitRow, IsRequest
  <2>2. RequestsGood(client')
    BY <1>0, <1>10, IdleIsGood, BecomesKeepsRequests DEF CommitRow
  <2> QED BY <1>10, <2>1, <2>2 DEF CommitRow, IInv
<1>11. CASE CommitDelete(c)
  <2>1. IsTable(blocks')
    BY <1>0, <1>11, WithoutKeepsTable DEF CommitDelete
  <2>2. RequestsGood(client')
    BY <1>0, <1>11, IdleIsGood, BecomesKeepsRequests DEF CommitDelete
  <2> QED BY <1>11, <2>1, <2>2 DEF CommitDelete, IInv
<1> QED BY <1>1, <1>2, <1>3, <1>4, <1>5, <1>6, <1>7, <1>8, <1>9, <1>10, <1>11 DEF Api

LEMMA SettingsKeepInv ==
  ASSUME IInv, NEW body \in DelayBodies, QueueDelayChange(body) \/ SetDelayNow(body)
  PROVE  IInv'
<1> DEFINE w == Wanted(body)
<1>0. DelayGood(delay) /\ QueueGood(pending, delay)
  BY DEF IInv
<1>1. IsDelayBody(w)
  BY ControlAssumption DEF ControlAssumption, IsDelayBody, Wanted
<1>1a. "enabled" \in DOMAIN w => w["enabled"] = body["enabled"]
  BY DEF Wanted
<1>2. CASE QueueDelayChange(body)
  <2>1. QueueGood(pending', delay) /\ nextId' \in Nat
    BY <1>1, <1>2, EnqueueKeepsQueue DEF QueueDelayChange, IsPayload, Kind
  <2> QED BY <1>2, <2>1 DEF QueueDelayChange, IInv
<1>3. CASE SetDelayNow(body)
  <2>0. /\ delay' = WithFields(delay, w)
        /\ pending' = IF "enabled" \in DOMAIN w /\ ~body["enabled"] THEN {} ELSE pending
    BY <1>3 DEF SetDelayNow
  <2> HIDE DEF w
  <2>1. DelayGood(delay')
    BY <1>0, <1>1, <2>0 DEF IsDelayBody, WithFields, DelayGood
  <2>2. QueueGood(pending', delay')
    <3>1. CASE "enabled" \in DOMAIN w /\ ~body["enabled"]
      BY <2>0, <3>1 DEF QueueGood
    <3>2. CASE ~("enabled" \in DOMAIN w /\ ~body["enabled"])
      <4>1. ~delay'.enabled => ~delay.enabled
        BY <1>1, <1>1a, <2>0, <3>2 DEF WithFields, IsDelayBody
      <4> QED BY <1>0, <2>0, <3>2, <4>1 DEF QueueGood
    <3> QED BY <3>1, <3>2
  <2> QED BY <1>3, <2>1, <2>2 DEF SetDelayNow, IInv
<1> QED BY <1>2, <1>3

LEMMA CurrentIsDue ==
  ASSUME IInv, job.pc # "idle"
  PROVE  /\ Current \in job.due
         /\ IsEntry(Current) /\ Current.created < Current.effective /\ Current.effective <= now
<1>1. JobGood(job, now)
  BY DEF IInv
<1>2. job.due # {} /\ \A e \in job.due : e.id \in Nat
  BY <1>1 DEF JobGood, IsEntry
<1>3. Current \in job.due
  BY <1>2, FirstIsMember DEF Current
<1> QED BY <1>1, <1>3 DEF JobGood

LEMMA JobKeepsInv ==
  ASSUME IInv, Job
  PROVE  IInv'
<1>0. /\ IsTable(blocks) /\ JobGood(job, now)
      /\ \A e \in pending \cup job.due : IsEntry(e)
  BY DEF IInv, JobGood, QueueGood
<1>1. CASE JobStart
  <2>1. QueueGood(pending', delay') /\ DelayGood(delay') /\ JobGood(job', now)
    BY <1>1, GoOnStep DEF JobStart, DueNow
  <2> QED BY <1>1, <2>1 DEF JobStart, IInv
<1>2. CASE JobRead
  <2>1. JobGood(job', now)
    <3>1. CASE Current.block \notin DOMAIN blocks
      BY <1>0, <1>2, <3>1, NoEditIsEdit DEF JobRead, JobGood, At
    <3>2. CASE Current.block \in DOMAIN blocks
      <4> DEFINE r == blocks[Current.block]
                 d == Changed(r, Merge(r, AsStored(Current.payload)))
      <4>1. IsEdit(d)
        <5>1. CASE Current.kind = "settings"
          <6>1. IsDelayBody(Current.payload)
            BY <1>2, <5>1, CurrentIsDue DEF JobRead, IsEntry, IsPayload
          <6>2. \A k \in Column \cap DOMAIN Current.payload : k = "enabled"
            BY <6>1 DEF IsDelayBody, DelayFields, Column
          <6>3. \A k \in DOMAIN d : k \in Column /\ k \in DOMAIN Current.payload
            BY DEF Changed, Merge, AsStored
          <6>4. \A k \in DOMAIN d : d[k] = IF Current.payload[k] = Null THEN WithoutValue(k)
                                         ELSE Current.payload[k]
            BY DEF Changed, Merge, AsStored
          <6>5. \A k \in DOMAIN d : k = "enabled" /\ d[k] \in BOOLEAN \cup {Null}
            <7> HIDE DEF d
            <7> QED BY <6>1, <6>2, <6>3, <6>4 DEF IsDelayBody, WithoutValue
          <6>6. DOMAIN d \subseteq Column
            BY <6>3
          <6>7. ColumnType("enabled") = BOOLEAN
            BY DEF ColumnType
          <6>8. \A k \in DOMAIN d : d[k] \in ColumnType(k) \cup {Null}
            BY <6>5, <6>7
          <6> QED BY <6>6, <6>8 DEF IsEdit
        <5>2. CASE Current.kind # "settings"
          BY <1>2, <5>2, CurrentIsDue, PayloadIsEdit DEF JobRead, IsEntry, IsPayload
        <5> QED BY <5>1, <5>2
      <4>2. job' = At("write", job.due, d)
        BY <1>2, <3>2 DEF JobRead
      <4> HIDE DEF d
      <4> QED BY <1>0, <1>2, <4>1, <4>2 DEF JobRead, JobGood, At
    <3> QED BY <3>1, <3>2
  <2> QED BY <1>2, <2>1 DEF JobRead, IInv
<1>3. CASE JobWrite
  <2>1. IsTable(blocks')
    <3>1. IsWrite(job.edit)
      BY <1>3 DEF JobWrite, WriteFails
    <3> QED BY <1>0, <1>3, <3>1, PutKeepsTable, WithoutKeepsTable DEF JobWrite
  <2>2. JobGood(job', now)
    BY <1>0, <1>3, NoEditIsEdit DEF JobWrite, JobGood, At
  <2> QED BY <1>3, <2>1, <2>2 DEF JobWrite, IInv
<1>4. CASE JobFail
  <2>1. QueueGood(pending', delay') /\ DelayGood(delay') /\ JobGood(job', now)
    BY <1>0, <1>4, GoOnStep DEF JobFail, JobGood
  <2> QED BY <1>4, <2>1 DEF JobFail, IInv
<1>5. CASE JobPop
  <2>1. QueueGood(pending', delay') /\ DelayGood(delay') /\ JobGood(job', now)
    BY <1>0, <1>5, GoOnStep DEF JobPop, JobGood
  <2> QED BY <1>5, <2>1 DEF JobPop, IInv
<1> QED BY <1>1, <1>2, <1>3, <1>4, <1>5 DEF Job

LEMMA SweepKeepsInv ==
  ASSUME IInv, Sweep
  PROVE  IInv'
<1>0. IsTable(blocks)
  BY DEF IInv
<1>1. CASE SweepRead
  <2>1. sweep' \subseteq BlockId
    BY <1>0, <1>1 DEF SweepRead, IsTable
  <2> QED BY <1>1, <2>1 DEF SweepRead, IInv
<1>2. CASE SweepCommit
  <2>1. IsWrite(Unlocked)
    BY DEF IsWrite, Unlocked, Column, ColumnType
  <2>2. IsTable(blocks')
    BY <1>0, <1>2, <2>1, MergeIsRow DEF SweepCommit, IsTable
  <2> QED BY <1>2, <2>2 DEF SweepCommit, IInv
<1> QED BY <1>1, <1>2 DEF Sweep

LEMMA NextKeepsInv == IInv /\ [Next]_vars => IInv'
<1> SUFFICES ASSUME IInv, [Next]_vars PROVE IInv'
  OBVIOUS
<1>1. ASSUME NEW c \in Client, Api(c) PROVE IInv'
  BY <1>1, ApiKeepsInv
<1>2. ASSUME NEW e \in pending, Cancel(e) PROVE IInv'
  <2>1. QueueGood(pending', delay)
    BY <1>2, PartOfQueue DEF Cancel, IInv
  <2> QED BY <1>2, <2>1 DEF Cancel, IInv
<1>3. CASE CancelAll
  <2>1. QueueGood(pending', delay)
    BY <1>3, PartOfQueue DEF CancelAll, IInv
  <2> QED BY <1>3, <2>1 DEF CancelAll, IInv
<1>4. ASSUME NEW body \in DelayBodies, QueueDelayChange(body) \/ SetDelayNow(body) PROVE IInv'
  BY <1>4, SettingsKeepInv
<1>5. CASE Job
  BY <1>5, JobKeepsInv
<1>6. CASE Sweep
  BY <1>6, SweepKeepsInv
<1>7. CASE Restart
  <2>1. RequestsGood(client')
    BY <1>7, IdleIsGood DEF Restart, RequestsGood
  <2>2. JobGood(job', now)
    BY <1>7, NoEditIsEdit DEF Restart, JobGood, Loop, At
  <2> QED BY <1>7, <2>1, <2>2 DEF Restart, IInv
<1>8. CASE Tick
  <2>1. JobGood(job, now')
    BY <1>8 DEF Tick, IInv, JobGood, IsEntry
  <2> QED BY <1>8, <2>1 DEF Tick, IInv
<1>9. CASE UNCHANGED vars
  BY <1>9 DEF vars, IInv
<1> QED BY <1>1, <1>2, <1>3, <1>4, <1>5, <1>6, <1>7, <1>8, <1>9 DEF Next

(* The invariant holds in every reachable state.                           *)
LEMMA Invariant == Spec => []IInv
BY InitInv, NextKeepsInv, PTL DEF Spec

-----------------------------------------------------------------------------
(* Types: every reachable state of the daemon has the types the code gives *)
(* it, whatever the clients send and however often it restarts.            *)
THEOREM TypeCorrect == Spec => []TypeOK
<1>1. IInv => TypeOK
  BY InvImplies
<1> QED BY <1>1, Invariant, PTL

(* The queue holds at most one change for a block and at most one for the  *)
(* delay's settings, also while the job is half way through a pass.        *)
THEOREM OneChangePerTarget == Spec => []OnePendingPerTarget
<1>1. IInv => OnePendingPerTarget
  BY InvImplies
<1> QED BY <1>1, Invariant, PTL

(* No block change is queued while the delay is off: whichever way it was  *)
(* turned off, by the handler or by the job, the queue was emptied of them.*)
THEOREM OffMeansEmpty == Spec => []NothingWaitsWhenOff
<1>1. IInv => NothingWaitsWhenOff
  BY InvImplies
<1> QED BY <1>1, Invariant, PTL

(* The job never changes a block before the wait its request began is over.*)
THEOREM ApplyOnlyWhenDue == Spec => NoEarlyApply
<1>1. IInv /\ [Next]_vars =>
        [job.pc = "write" /\ job'.pc = "pop" =>
           /\ Current.effective <= now
           /\ Current.created < Current.effective]_vars
  BY CurrentIsDue
<1> QED BY <1>1, Invariant, PTL DEF Spec, NoEarlyApply

(* A step that goes on in the loop loosens the delay only for an entry     *)
(* that was due.                                                           *)
LEMMA JobLoosensAfterWait ==
  ASSUME IInv, Job, WeakerDelay
  PROVE  \E e \in pending \cup job.due :
            e.kind = "settings" /\ e.created < e.effective /\ e.effective <= now
<1>0. /\ JobGood(job, now) /\ DelayGood(delay)
      /\ \A e \in pending \cup job.due : e.created < e.effective
  BY DEF IInv, QueueGood, JobGood
<1>1. ~UNCHANGED delay
  BY <1>0, DelayType DEF WeakerDelay
<1>2. CASE JobStart
  <2>1. \E e \in DueNow : e.kind = "settings"
    BY <1>2, GoOnStep DEF JobStart, DueNow
  <2> QED BY <1>0, <2>1 DEF DueNow
<1>3. ASSUME JobFail \/ JobPop
      PROVE  \E e \in job.due : e.kind = "settings"
  BY <1>0, <1>3, GoOnStep DEF JobFail, JobPop, JobGood
<1>4. CASE JobFail \/ JobPop
  BY <1>0, <1>3, <1>4 DEF JobGood
<1> QED BY <1>1, <1>2, <1>4 DEF Job, JobRead, JobWrite

(* The delay is turned off or shortened only by a change that has waited:  *)
(* no handler does it on the spot, and the job only for a due entry.       *)
THEOREM DelayLoosensOnlyAfterWait == Spec => DelayLoosensAfterWait
<1> DEFINE Waited == \E e \in pending \cup job.due :
              e.kind = "settings" /\ e.created < e.effective /\ e.effective <= now
<1>1. IInv /\ [Next]_vars => [WeakerDelay => Waited]_vars
  <2> SUFFICES ASSUME IInv, Next, WeakerDelay PROVE Waited
    OBVIOUS
  <2>0. DelayGood(delay)
    BY DEF IInv
  <2>1. ~UNCHANGED delay
    BY <2>0, DelayType DEF WeakerDelay
  <2>2. ASSUME NEW body \in DelayBodies, SetDelayNow(body)
        PROVE  FALSE
    <3>1. IsDelayBody(Wanted(body))
      BY ControlAssumption DEF ControlAssumption, IsDelayBody, Wanted
    <3>2. /\ ~(delay.enabled /\ LoosensDelay(Wanted(body)))
          /\ delay' = WithFields(delay, Wanted(body))
      BY <2>2 DEF SetDelayNow
    <3> DEFINE w == Wanted(body)
    <3> HIDE DEF w
    <3>3. IsDelayBody(w) /\ ~(delay.enabled /\ LoosensDelay(w)) /\ delay' = WithFields(delay, w)
      BY <3>1, <3>2 DEF w
    <3> QED BY <2>0, <3>3, DelayType DEF WeakerDelay, LoosensDelay, WithFields, IsDelayBody
  <2>3. CASE Job
    BY <2>3, JobLoosensAfterWait
  <2>4. ASSUME NEW c \in Client, Api(c) PROVE FALSE
    BY <2>1, <2>4 DEF Api, CheckUpdate, CheckDelete, ReadStrict, ReadExtend, Create, Refuse,
                      Queue, AcceptUpdate, AcceptDelete, CommitRow, CommitDelete
  <2>5. CASE \/ Sweep \/ Restart \/ Tick \/ CancelAll
             \/ \E e \in pending : Cancel(e)
             \/ \E body \in DelayBodies : QueueDelayChange(body)
    BY <2>1, <2>5 DEF Sweep, SweepRead, SweepCommit, Restart, Tick, CancelAll, Cancel,
                      QueueDelayChange
  <2> QED BY <2>2, <2>3, <2>4, <2>5 DEF Next
<1>2. [WeakerDelay => Waited]_vars =>
        [delay.enabled /\ (~delay'.enabled \/ delay'.minutes < delay.minutes) =>
           \E e \in pending \cup job.due : /\ e.kind = "settings"
                                          /\ e.created < e.effective
                                          /\ e.effective <= now]_vars
  BY DEF WeakerDelay
<1> QED BY <1>1, <1>2, Invariant, PTL DEF Spec, DelayLoosensAfterWait

-----------------------------------------------------------------------------
(* A request's record returns to idle only in a step of its own.           *)
LEMMA OnlyOwnCommit ==
  ASSUME IInv, [Next]_vars, NEW c \in Client, NEW b, Commits(c, b)
  PROVE  CommitRow(c) \/ CommitDelete(c)
<1>0. client[c].pc = "commit" /\ client'[c].pc = "idle" /\ restarts' = restarts /\ restarts \in Nat
  BY DEF Commits, IInv
<1>1. client'[c] # client[c]
  BY <1>0
<1>2. PICK a \in Client : Api(a)
  <2>1. ~UNCHANGED client
    BY <1>1
  <2>2. ~Restart
    BY <1>0 DEF Restart
  <2>3. ~(\/ Job \/ Sweep \/ Tick \/ CancelAll \/ UNCHANGED vars
          \/ \E e \in pending : Cancel(e)
          \/ \E body \in DelayBodies : QueueDelayChange(body) \/ SetDelayNow(body))
    BY <2>1 DEF Job, JobStart, JobRead, JobWrite, JobFail, JobPop, Sweep, SweepRead,
                SweepCommit, Tick, CancelAll, Cancel, QueueDelayChange, SetDelayNow, vars
  <2> QED BY <2>2, <2>3 DEF Next
<1>3. a = c
  BY <1>0, <1>1, <1>2 DEF Api, CheckUpdate, CheckDelete, ReadStrict, ReadExtend, Create, Refuse,
                    Queue, AcceptUpdate, AcceptDelete, CommitRow, CommitDelete, Becomes
<1>4. client[c] # Idle
  BY <1>0 DEF Idle, Request
<1> QED BY <1>0, <1>1, <1>2, <1>3, <1>4 DEF Api, CheckUpdate, CheckDelete, ReadStrict,
          ReadExtend, Create, Refuse, Queue, AcceptUpdate, AcceptDelete, Deciding

(* PATCH /strict leaves alone a lock that was set or extended after the    *)
(* row was read, for any number of requests in flight beside it.           *)
THEOREM StrictNeverUnlocks == Spec => StrictKeepsLock
<1> DEFINE A == \A c \in Client, b \in DOMAIN blocks :
       Commits(c, b) /\ client[c].op = "strict" /\ Locked(blocks[b], now) => LockKept(b)
<1>1. IInv /\ [Next]_vars => [A]_vars
  <2> SUFFICES ASSUME IInv, [Next]_vars, NEW c \in Client, NEW b \in DOMAIN blocks,
                      Commits(c, b), client[c].op = "strict", Locked(blocks[b], now)
               PROVE  LockKept(b)
    OBVIOUS
  <2>1. blocks' = Put(blocks, b, client[c].edit)
    BY OnlyOwnCommit DEF CommitRow, CommitDelete, Commits
  <2>2. DOMAIN client[c].edit \subseteq {"websites_blocked", "websites_allowed"}
    BY DEF Commits, IInv, RequestsGood, RequestGood, WritesLists
  <2>3. b \in DOMAIN blocks' /\ blocks'[b] = Merge(blocks[b], client[c].edit)
    BY <2>1 DEF Put
  <2>4. /\ blocks'[b]["lock_mode"] = blocks[b]["lock_mode"]
        /\ blocks'[b]["lock_until"] = blocks[b]["lock_until"]
    BY <2>2, <2>3 DEF Merge, Sends, Column
  <2>5. blocks[b]["lock_until"] \in Nat
    BY DEF IInv, IsTable, IsRow, Column, ColumnType, Locked
  <2> QED BY <2>3, <2>4, <2>5 DEF LockKept, LockedUntil, Locked
<1> QED BY <1>1, Invariant, PTL DEF Spec, StrictKeepsLock

(* Columns that keep the rules of the row they were decided on leave in    *)
(* force what both that row and the row they are written to enforce ...    *)
LEMMA RulesSpared ==
  ASSUME NEW old, NEW r, IsRow(r), NEW d, KeepsRules(old, d),
         NEW h \in Hour, NEW x \in Rule, <<h, x>> \in Enforced(old), <<h, x>> \in Enforced(r)
  PROVE  \/ <<h, x>> \in Enforced(Merge(r, d))
         \/ /\ DOMAIN d \cap {"schedule", "block_mode"} # {}
            /\ Merge(r, d)["block_mode"] = "time_range"
            /\ h \notin Merge(r, d)["schedule"]
<1> DEFINE n == Merge(r, d)
<1>1. \A k \in Column : n[k] = IF k \in DOMAIN d THEN d[k] ELSE r[k]
  BY DEF Merge
<1> HIDE DEF n
<1>2. /\ r["enabled"] /\ h \in ActiveHours(r)
      /\ x \in r["websites_blocked"] /\ x \notin r["websites_allowed"]
  BY DEF Enforced
<1>3. /\ old["enabled"]
      /\ x \in old["websites_blocked"] /\ x \notin old["websites_allowed"]
  BY DEF Enforced
<1>4. n["enabled"]
  BY <1>1, <1>2, <1>3 DEF Column, KeepsRules
<1>5. x \in n["websites_blocked"] \ n["websites_allowed"]
  BY <1>1, <1>2, <1>3 DEF Column, KeepsRules
<1>6. h \in ActiveHours(n) => <<h, x>> \in Enforced(n)
  BY <1>4, <1>5 DEF Enforced
<1>7. CASE DOMAIN d \cap {"schedule", "block_mode"} = {}
  <2>1. n["schedule"] = r["schedule"] /\ n["block_mode"] = r["block_mode"]
    BY <1>1, <1>7 DEF Column
  <2> QED BY <1>2, <1>6, <2>1 DEF ActiveHours, n
<1>8. CASE DOMAIN d \cap {"schedule", "block_mode"} # {} /\ h \notin ActiveHours(n)
  <2>1. n["block_mode"] \in {"always", "time_range"} \/ n["block_mode"] = r["block_mode"]
    BY <1>1 DEF Column, KeepsRules
  <2>2. n["block_mode"] = "time_range" /\ h \notin n["schedule"]
    <3>1. n["block_mode"] # "always"
      BY <1>8 DEF ActiveHours
    <3>2. CASE n["block_mode"] = "time_range"
      BY <1>8, <3>2 DEF ActiveHours
    <3>3. CASE n["block_mode"] = r["block_mode"] /\ n["block_mode"] # "time_range"
      BY <1>2, <3>1, <3>3 DEF ActiveHours, IsRow, Column, ColumnType
    <3> QED BY <2>1, <3>1, <3>2, <3>3
  <2> QED BY <1>8, <2>2 DEF n
<1> QED BY <1>6, <1>7, <1>8 DEF n

(* ... and those that tighten it leave all of that in force.               *)
LEMMA TighteningSpares ==
  ASSUME NEW old, NEW r, IsRow(r), NEW d, Tightens(old, d)
  PROVE  Enforced(old) \cap Enforced(r) \subseteq Enforced(Merge(r, d))
<1>1. DOMAIN d \cap {"schedule", "block_mode"} # {} => Merge(r, d)["block_mode"] = "always"
  BY DEF Tightens, Merge, Column
<1>2. ASSUME NEW h \in Hour, NEW x \in Rule, <<h, x>> \in Enforced(old), <<h, x>> \in Enforced(r)
      PROVE  <<h, x>> \in Enforced(Merge(r, d))
  BY <1>1, <1>2, RulesSpared DEF Tightens
<1> QED BY <1>2 DEF Enforced

(* The row after a commit.                                                 *)
LEMMA CommittedRow ==
  ASSUME IInv, [Next]_vars, NEW c \in Client, NEW b \in DOMAIN blocks, Commits(c, b),
         client[c].op # "delete"
  PROVE  /\ b \in DOMAIN blocks' /\ blocks'[b] = Merge(blocks[b], client[c].edit)
         /\ IsRow(blocks[b])
<1>1. blocks' = Put(blocks, b, client[c].edit)
  BY OnlyOwnCommit DEF CommitRow, CommitDelete, Commits
<1>2. b \in DOMAIN blocks' /\ blocks'[b] = Merge(blocks[b], client[c].edit)
  BY <1>1 DEF Put
<1> QED BY <1>2 DEF IInv, IsTable

LEMMA CommitSpares ==
  ASSUME IInv, [Next]_vars, NEW c \in Client, NEW b \in DOMAIN blocks, Commits(c, b),
         client[c].op # "delete", Tightens(client[c].saw.row, client[c].edit)
  PROVE  KeepsWhatItSaw(c, b)
BY CommittedRow, TighteningSpares DEF KeepsWhatItSaw

(* What is known of a request that stands at its commit.                   *)
LEMMA AtCommit ==
  ASSUME IInv, NEW c \in Client, NEW b, Commits(c, b)
  PROVE  EditFits(client[c]) /\ PassesLock(client[c]) /\ client[c].pc = "commit"
         /\ client[c].op \in Op \ {"none"}
BY DEF IInv, RequestsGood, RequestGood, IsRequest, Commits

(* PATCH /strict takes off a block nothing it saw there, with any number   *)
(* of requests in flight and whatever the jobs do between its read and its *)
(* commit.                                                                 *)
THEOREM StrictNeverLoosens == Spec => StrictOnlyTightens
<1> DEFINE A == \A c \in Client, b \in DOMAIN blocks :
       Commits(c, b) /\ client[c].op = "strict" => KeepsWhatItSaw(c, b)
<1>1. IInv /\ [Next]_vars => [A]_vars
  <2> SUFFICES ASSUME IInv, [Next]_vars, NEW c \in Client, NEW b \in DOMAIN blocks,
                      Commits(c, b), client[c].op = "strict"
               PROVE  KeepsWhatItSaw(c, b)
    OBVIOUS
  <2>1. Tightens(client[c].saw.row, client[c].edit)
    BY AtCommit DEF EditFits
  <2> QED BY <2>1, CommitSpares
<1> QED BY <1>1, Invariant, PTL DEF Spec, StrictOnlyTightens

(* While the delay is on no request takes off a block, at once, anything   *)
(* that it saw there, but by a schedule it sends.                          *)
THEOREM LooseningMustWait == Spec => LooseningWaits
<1> DEFINE A == \A c \in Client, b \in DOMAIN blocks :
       Commits(c, b) /\ client[c].saw.waits =>
         /\ b \in DOMAIN blocks'
         /\ \A hr \in Enforced(client[c].saw.row) \cap Enforced(blocks[b]) :
              hr \in Enforced(blocks'[b]) \/ Reschedules(c, b, hr[1])
<1>1. IInv /\ [Next]_vars => [A]_vars
  <2> SUFFICES ASSUME IInv, [Next]_vars, NEW c \in Client, NEW b \in DOMAIN blocks,
                      Commits(c, b), client[c].saw.waits
               PROVE  /\ b \in DOMAIN blocks'
                      /\ \A hr \in Enforced(client[c].saw.row) \cap Enforced(blocks[b]) :
                           hr \in Enforced(blocks'[b]) \/ Reschedules(c, b, hr[1])
    OBVIOUS
  <2>1. client[c].op \in {"strict", "update", "extend"}
    BY AtCommit DEF EditFits, Op
  <2>2. KeepsRules(client[c].saw.row, client[c].edit)
    BY <2>1, AtCommit DEF EditFits, Tightens, KeepsRules
  <2>3. /\ b \in DOMAIN blocks' /\ blocks'[b] = Merge(blocks[b], client[c].edit)
        /\ IsRow(blocks[b])
    BY <2>1, CommittedRow
  <2>4. ASSUME NEW h \in Hour, NEW x \in Rule,
               <<h, x>> \in Enforced(client[c].saw.row), <<h, x>> \in Enforced(blocks[b])
        PROVE  <<h, x>> \in Enforced(blocks'[b]) \/ Reschedules(c, b, h)
    BY <2>2, <2>3, <2>4, RulesSpared DEF Reschedules
  <2> QED BY <2>3, <2>4 DEF Enforced
<1> QED BY <1>1, Invariant, PTL DEF Spec, LooseningWaits

(* A block locked when a request first looks at it, and still at its       *)
(* commit, only becomes stricter, and its lock ends no earlier, but for    *)
(* what an offset west of Greenwich takes off.                             *)
THEOREM LockedNeverLoosens == Spec => LockedOnlyTightens
<1> DEFINE A == \A c \in Client, b \in DOMAIN blocks :
       Commits(c, b) /\ client[c].saw.locked /\ Locked(blocks[b], now) =>
         /\ KeepsWhatItSaw(c, b)
         /\ \E t \in Either(c, b), west \in West : LockedUntil(b, t + west)
<1>1. IInv /\ [Next]_vars => [A]_vars
  <2> SUFFICES ASSUME IInv, [Next]_vars, NEW c \in Client, NEW b \in DOMAIN blocks,
                      Commits(c, b), client[c].saw.locked, Locked(blocks[b], now)
               PROVE  /\ KeepsWhatItSaw(c, b)
                      /\ \E t \in Either(c, b), west \in West : LockedUntil(b, t + west)
    OBVIOUS
  <2> DEFINE e == client[c].edit
  <2>1. client[c].op \in {"strict", "extend"}
    BY AtCommit DEF PassesLock
  <2>2. blocks' = Put(blocks, b, e)
    BY <2>1, OnlyOwnCommit DEF CommitRow, CommitDelete, Commits
  <2>3. /\ b \in DOMAIN blocks'
        /\ blocks'[b] = Merge(blocks[b], e)
    BY <2>2 DEF Put
  <2>4. blocks[b]["lock_until"] \in Nat
    BY DEF IInv, IsTable, IsRow, Column, ColumnType, Locked
  <2>5. /\ blocks[b]["lock_until"] \in Either(c, b) /\ 0 \in West
        /\ blocks[b]["lock_until"] + 0 = blocks[b]["lock_until"]
    BY <2>4 DEF Either, West
  <2>6. CASE client[c].op = "strict"
    <3>1. KeepsWhatItSaw(c, b)
      BY <2>6, AtCommit, CommitSpares DEF EditFits
    <3>2. LockKept(b)
      <4>1. DOMAIN e \subseteq {"websites_blocked", "websites_allowed"}
        BY <2>6 DEF Commits, IInv, RequestsGood, RequestGood, WritesLists
      <4>2. blocks[b]["lock_until"] \in Nat
        BY DEF IInv, IsTable, IsRow, Column, ColumnType, Locked
      <4> QED BY <2>3, <4>1, <4>2 DEF Merge, Column, LockKept, LockedUntil, Locked
    <3> QED BY <2>5, <3>1, <3>2 DEF LockKept
  <2>7. CASE client[c].op = "extend"
    <3>1. /\ DOMAIN e \subseteq {"lock_until"}
          /\ "lock_until" \in DOMAIN e =>
               \E west \in West : e["lock_until"] >= client[c].saw.row["lock_until"] + west
      BY <2>7, AtCommit DEF EditFits
    <3>2. KeepsWhatItSaw(c, b)
      BY <2>7, <3>1, CommitSpares DEF Tightens, KeepsRules
    <3>3. CASE "lock_until" \in DOMAIN e
      <4>1. /\ blocks'[b]["lock_until"] = e["lock_until"]
            /\ blocks'[b]["lock_mode"] = "locked_until"
        BY <2>3, <3>1, <3>3 DEF Merge, Column, Locked
      <4>2. client[c].saw.row["lock_until"] \in Either(c, b)
        BY DEF Either
      <4> QED BY <2>3, <3>1, <3>2, <3>3, <4>1, <4>2 DEF LockedUntil
    <3>4. CASE "lock_until" \notin DOMAIN e
      <4>1. /\ blocks'[b]["lock_until"] = blocks[b]["lock_until"]
            /\ blocks'[b]["lock_mode"] = "locked_until"
        BY <2>3, <3>1, <3>4 DEF Merge, Column, Locked
      <4> QED BY <2>3, <2>5, <2>4, <3>2, <4>1 DEF LockedUntil
    <3> QED BY <3>3, <3>4
  <2> QED BY <2>1, <2>6, <2>7
<1> QED BY <1>1, Invariant, PTL DEF Spec, LockedOnlyTightens

(* What _is_loosening_update lets through takes nothing off the block, as  *)
(* long as the edit leaves the schedule alone and does not put the block   *)
(* on one.                                                                 *)
THEOREM AcceptedEditTightens ==
  ASSUME NEW r, IsRow(r), NEW p, IsEdit(p), ~IsLoosening(r, p),
         ~Sends(p, "schedule"),
         Sends(p, "block_mode") => p["block_mode"] # "time_range"
  PROVE  Enforced(r) \subseteq Enforced(Edited(r, p))
<1> DEFINE n == Edited(r, p)
<1>1. \A k \in Column \ {"lock_until"} : n[k] = IF Sends(p, k) THEN p[k] ELSE r[k]
  BY DEF Edited
<1> HIDE DEF n
<1>2. ASSUME NEW h \in Hour, NEW x \in Rule, <<h, x>> \in Enforced(r)
      PROVE  <<h, x>> \in Enforced(n)
  <2>1. r["enabled"] /\ h \in ActiveHours(r) /\ x \in r["websites_blocked"] \ r["websites_allowed"]
    BY <1>2 DEF Enforced
  <2>2. n["enabled"]
    BY <1>1, <2>1 DEF Column, IsLoosening, IsRow, IsEdit, ColumnType, Sends
  <2>3. x \in n["websites_blocked"] \ n["websites_allowed"]
    BY <1>1, <2>1 DEF Column, IsLoosening, Sends
  <2>4. h \in ActiveHours(n)
    <3>1. n["schedule"] = r["schedule"]
      BY <1>1 DEF Column
    <3>2. r["block_mode"] \in {"always", "time_range"}
      BY <2>1 DEF ActiveHours, IsRow, Column, ColumnType
    <3>3. n["block_mode"] = r["block_mode"] \/ n["block_mode"] = "always"
      BY <1>1, <3>2 DEF Column, IsLoosening, IsEdit, ColumnType, Sends
    <3> QED BY <2>1, <3>1, <3>2, <3>3 DEF ActiveHours
  <2> QED BY <2>2, <2>3, <2>4 DEF Enforced
<1> QED BY <1>2 DEF Enforced, n
=============================================================================

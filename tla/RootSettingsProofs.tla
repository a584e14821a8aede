------------------------- MODULE RootSettingsProofs -------------------------
(* What RootSettings guarantees for every set of requests, policies, delays  *)
(* and bounds: types, and that the enforcer's files and steps implement the  *)
(* promise of DelayedLoosening.                                              *)
EXTENDS RootSettings, WellFoundedInduction, NaturalsInduction, SequenceTheorems, TLAPS

(* Files that are left have a first one.                                     *)
LEMMA FirstIsFile ==
  ASSUME files # {}, files \subseteq Nat
  PROVE  First \in files
<1> DEFINE less == OpToRel(<, Nat)
<1>1. IsWellFoundedOn(less, Nat)
  BY NatLessThanWellFounded
<1>2. PICK i \in files : \A j \in files : ~(<<j, i>> \in less)
  <2> HIDE DEF less
  <2> QED BY <1>1, WFMin
<1>3. \A m, n \in Nat : m < n => <<m, n>> \in less
  BY Zenon DEF OpToRel
<1>4. \A j \in files : i <= j
  <2>1. ASSUME NEW j \in files PROVE ~(j < i)
    <3> HIDE DEF less
    <3> QED BY <1>2, <1>3
  <2> HIDE DEF less
  <2> QED BY <2>1
<1> QED BY <1>4 DEF First

(* A queue stays one when its entries may be more.                           *)
LEMMA QueueGrows ==
  ASSUME NEW S, NEW T, S \subseteq T, NEW q \in Seq(S)
  PROVE  q \in Seq(T)
OBVIOUS

(* Merging a typed body onto a policy gives a policy.                        *)
LEMMA MergeIsPolicy ==
  ASSUME NEW p, IsPolicy(p), NEW b, IsPolicy(MergePolicy(EnforcementPolicy, b))
  PROVE  IsPolicy(MergePolicy(p, b))
BY DEF IsPolicy, MergePolicy, Field, Toggle, EnforcementPolicy

(* Fields that tighten a batch's base, laid over what the batch has made of  *)
(* it, still tighten the base.                                               *)
LEMMA MergeTightens ==
  ASSUME NEW p, NEW base, NEW b, PolicyAtLeast(p, base),
         PolicyAtLeast(MergePolicy(EnforcementPolicy, b), base)
  PROVE  PolicyAtLeast(MergePolicy(p, b), base)
BY DEF PolicyAtLeast, MergePolicy, Field, Toggle, EnforcementPolicy

(* Nothing is stricter than itself.                                          *)
LEMMA PolicyReflexive ==
  ASSUME NEW p, IsPolicy(p)
  PROVE  PolicyAtLeast(p, p)
BY DEF PolicyAtLeast, IsPolicy

-----------------------------------------------------------------------------
(* Types.                                                                    *)

USE DEF settings, tick, runner

(* What a tick reads is typed.                                               *)
LEMMA CurrentTyped ==
  ASSUME TypeOK
  PROVE  /\ Current.lock \in Nat \cup {Null} /\ IsPolicy(Current.policy)
         /\ Current.judge_policy \in Text
BY NullAssumption DEF TypeOK, Current, ReadLockUntil

(* A request that is not rejected, once applied, leaves typed settings.      *)
LEMMA ApplyTyped ==
  ASSUME TypeOK, NEW r, IsRequest(r), ~Malformed(r), ApplyRequest(r)
  PROVE  lock' \in Nat \cup {Null, Corrupt} /\ IsPolicy(policy') /\ judge' \in Text
<1>1. CASE r.type = "lock"
  BY <1>1 DEF TypeOK, IsRequest, ApplyRequest, Applied
<1>2. CASE r.type = "policy"
  <2>1. IsPolicy(MergePolicy(policy, r.change))
    BY <1>2, MergeIsPolicy, StartAssumption DEF IsRequest, TypeOK, RequestedPolicy
  <2> QED BY <1>2, <2>1 DEF TypeOK, ApplyRequest, Applied
<1>3. CASE r.type = "judge_policy"
  BY <1>3 DEF TypeOK, IsRequest, ApplyRequest, Applied, Malformed
<1> QED BY <1>1, <1>2, <1>3 DEF IsRequest, Setting

(* What waits in the queue are requests the enforcer knows.                  *)
LEMMA EntriesAreRequests ==
  ASSUME TypeOK, NEW n \in 1..Len(pending)
  PROVE  /\ pending[n] \in Entry /\ pending[n].id \in DOMAIN request /\ pending[n].apply_at \in Nat
         /\ IsRequest(request[pending[n].id]) /\ ~Malformed(request[pending[n].id])
<1>1. pending \in Seq(Entry)
  BY DEF TypeOK
<1>2. pending[n] \in Entry
  BY <1>1, ElementOfSeq
<1>3. pending[n].id \in DOMAIN request /\ pending[n].apply_at \in Nat
  BY <1>2 DEF Entry
<1> QED BY <1>2, <1>3 DEF TypeOK

(* A dropped file is one more request.                                       *)
LEMMA DropTyped ==
  ASSUME TypeOK, NEW s, NEW change, IsRequest([type |-> s, change |-> change]),
         DropRequest(s, change)
  PROVE  TypeOK'
<1>1. PICK i \in Id \ DOMAIN request :
        /\ request' = [j \in DOMAIN request \cup {i} |->
                        IF j = i THEN [type |-> s, change |-> change] ELSE request[j]]
        /\ inbox' = inbox \cup {i}
  BY DEF DropRequest
<1>2. DOMAIN request' = DOMAIN request \cup {i}
  BY <1>1
<1>3. \A j \in DOMAIN request' : IsRequest(request'[j])
  BY <1>1, <1>2 DEF TypeOK
<1>4. Entry \subseteq Entry'
  BY <1>2 DEF Entry
<1>5. pending' \in Seq(Entry') /\ keep' \in Seq(Entry')
  BY <1>4, QueueGrows DEF TypeOK, DropRequest
<1>6. inbox' \subseteq DOMAIN request' /\ DOMAIN request' \subseteq Id
  BY <1>1, <1>2 DEF TypeOK
<1>7. pc \in {"files", "unlink"} => files \subseteq inbox'
  BY <1>1 DEF TypeOK
<1>8. acts' \in Nat
  BY DEF DropRequest, Act, TypeOK
<1>9. \A j \in DOMAIN request : request'[j] = request[j]
  BY <1>1
<1>10. \A n \in 1..Len(pending') : ~Malformed(request'[pending'[n].id])
  <2>1. \A n \in 1..Len(pending) : pending[n].id \in DOMAIN request
    BY EntriesAreRequests
  <2>2. pending' = pending
    BY DEF DropRequest
  <2> QED BY <2>1, <2>2, <1>9 DEF TypeOK, Malformed
<1>11. /\ UNCHANGED <<now, dev, stops, lock, policy, judge, pc, files, seen, ntp, k>>
       /\ UNCHANGED <<trigger, asked, released, cleared>>
  BY DEF DropRequest
<1>12. /\ now' \in Nat /\ dev' \in BOOLEAN /\ stops' \in Nat
       /\ lock' \in Nat \cup {Null, Corrupt} /\ IsPolicy(policy)' /\ judge' \in Text
       /\ pc' \in {"idle", "files", "unlink", "matured"} /\ files' \subseteq Id
       /\ pc' \in {"files", "unlink"} => files' \subseteq inbox'
  BY <1>7, <1>11 DEF TypeOK, IsPolicy
<1>13. /\ seen.lock' \in Nat \cup {Null} /\ IsPolicy(seen.policy)' /\ seen.judge_policy' \in Text
       /\ ntp' \in Nat \cup {Null} /\ k' \in Nat \ {0}
       /\ trigger' \in BOOLEAN /\ asked' \in Nat \cup {Null}
       /\ released' \in BOOLEAN /\ cleared' \in BOOLEAN
  BY <1>11 DEF TypeOK, IsPolicy
<1> QED BY <1>3, <1>5, <1>6, <1>8, <1>10, <1>12, <1>13, Zenon DEF TypeOK, Malformed

-----------------------------------------------------------------------------
(* The inductive invariant: types, and what the tick has done so far.        *)

(* The tick has one time, the one the servers told, and none between ticks.  *)
Timed == /\ ntp \in {Null, now}
         /\ pc = "matured" => ntp # Null
         /\ pc = "idle" => ntp = Null

(* While files are handled, no field of the policy is weaker than at the     *)
(* tick's start.                                                             *)
Batched == pc \in {"files", "unlink"} => PolicyAtLeast(policy, seen.policy)

(* A file that is to be removed is there.                                    *)
Handled == pc = "unlink" => files # {}

(* The tick keeps entries of the queue, and all it has passed that were not  *)
(* due.                                                                      *)
Kept ==
  /\ pc # "matured" => keep = << >> /\ k = 1
  /\ k <= Len(pending) + 1
  /\ \A i \in 1..Len(keep) : \E j \in 1..Len(pending) : keep[i] = pending[j]
  /\ \A j \in 1..Len(pending) :
       j < k => Matured(pending[j]) \/ \E i \in 1..Len(keep) : keep[i] = pending[j]

(* A pass that has cleared the lock had a countdown that was over.           *)
Counted == cleared => ~released /\ ShouldRelease

Inv == TypeOK /\ Timed /\ Batched /\ Handled /\ Kept /\ Counted

(* The first file of a tick is a request.                                    *)
LEMMA FirstTyped ==
  ASSUME TypeOK, pc \in {"files", "unlink"}, files # {}
  PROVE  First \in files /\ First \in DOMAIN request /\ IsRequest(request[First])
<1>1. First \in files
  BY FirstIsFile, IdAssumption DEF TypeOK
<1> QED BY <1>1 DEF TypeOK

(* It holds when the system starts.                                          *)
LEMMA InitInv == Init => Inv
<1> SUFFICES ASSUME Init PROVE Inv
  OBVIOUS
<1>1. PICK s \in FirstSettings : lock = s.lock /\ policy = s.policy /\ judge = s.judge /\ dev = s.dev
  BY DEF Init
<1>2. lock \in Nat \cup {Null, Corrupt} /\ IsPolicy(policy) /\ judge \in Text /\ dev \in BOOLEAN
  BY <1>1, StartAssumption, InputAssumption
<1>3. /\ seen.lock \in Nat \cup {Null} /\ IsPolicy(seen.policy) /\ seen.judge_policy \in Text
  BY <1>2, NullAssumption DEF Init, Current, ReadLockUntil
<1>4. DOMAIN request = {} /\ pending \in Seq(Entry) /\ keep \in Seq(Entry) /\ Len(pending) = 0
  BY EmptySeq DEF Init
<1>5. TypeOK
  <2>1. /\ now \in Nat /\ stops \in Nat /\ acts \in Nat /\ pc = "idle" /\ files = {} /\ inbox = {}
        /\ ntp = Null /\ asked = Null /\ k = 1
        /\ trigger = FALSE /\ released = FALSE /\ cleared = FALSE
    BY DEF Init
  <2>2. \A i \in 1..Len(pending) : ~Malformed(request[pending[i].id])
    BY <1>4
  <2>3. \A i \in DOMAIN request : IsRequest(request[i])
    BY <1>4
  <2>4. inbox \subseteq DOMAIN request /\ DOMAIN request \subseteq Id /\ files \subseteq Id
    BY <1>4, <2>1
  <2>5. pc \in {"idle", "files", "unlink", "matured"} /\ (pc \in {"files", "unlink"} => files \subseteq inbox)
    BY <2>1
  <2>6. ntp \in Nat \cup {Null} /\ k \in Nat \ {0} /\ asked \in Nat \cup {Null}
    BY <2>1
  <2>7. trigger \in BOOLEAN /\ released \in BOOLEAN /\ cleared \in BOOLEAN
    BY <2>1
  <2> QED BY <1>2, <1>3, <1>4, <2>1, <2>2, <2>3, <2>4, <2>5, <2>6, <2>7, Zenon DEF TypeOK
<1>6. Timed /\ Batched /\ Handled /\ Kept /\ Counted
  BY <1>4 DEF Init, Timed, Batched, Handled, Kept, Counted
<1> QED BY <1>5, <1>6 DEF Inv

-----------------------------------------------------------------------------
(* Every step keeps it.                                                      *)

(* The requests and the queue's entries are typed when they have not changed. *)
LEMMA QueueTyped ==
  ASSUME TypeOK, UNCHANGED <<request, pending, keep>>
  PROVE  /\ \A i \in 1..Len(pending') : ~Malformed(request'[pending'[i].id])
         /\ DOMAIN request' \subseteq Id
         /\ \A i \in DOMAIN request' : IsRequest(request'[i])
         /\ pending' \in Seq(Entry') /\ keep' \in Seq(Entry')
<1>1. Entry' = Entry
  BY DEF Entry
<1> QED BY <1>1, Zenon DEF TypeOK

(* Neither have the tick's books.                                            *)
LEMMA BooksKept ==
  ASSUME Inv, UNCHANGED <<now, pc, files, seen, ntp, k, keep, pending>>
  PROVE  Timed' /\ Handled' /\ Kept'
BY DEF Inv, Timed, Handled, Kept, Matured

(* A request is dropped.                                                     *)
LEMMA DropKeeps ==
  ASSUME Inv, NEW s, NEW change, IsRequest([type |-> s, change |-> change]),
         DropRequest(s, change)
  PROVE  Inv'
<1>1. TypeOK'
  BY DropTyped DEF Inv
<1>2. Timed' /\ Handled' /\ Kept'
  BY BooksKept DEF DropRequest
<1>3. Batched' /\ Counted'
  BY DEF Inv, Batched, Counted, ShouldRelease, DropRequest
<1> QED BY <1>1, <1>2, <1>3 DEF Inv

(* A tick starts.                                                            *)
LEMMA TickKeeps == Inv /\ Tick => Inv'
<1> SUFFICES ASSUME Inv, Tick PROVE Inv'
  OBVIOUS
<1>1. TypeOK'
  <2>1. seen' = Current /\ pc' = "files" /\ files' = inbox
    BY DEF Tick
  <2>2. seen'.lock \in Nat \cup {Null} /\ IsPolicy(seen'.policy) /\ seen'.judge_policy \in Text
    BY <2>1, CurrentTyped DEF Inv
  <2>3. files' \subseteq Id /\ files' \subseteq inbox'
    BY <2>1 DEF Inv, TypeOK, Tick
  <2>4. pc' \in {"idle", "files", "unlink", "matured"}
    BY <2>1
  <2> QED BY <2>2, <2>3, <2>4, QueueTyped, Zenon DEF Inv, TypeOK, Tick
<1>2. Batched'
  BY PolicyReflexive DEF Inv, TypeOK, Batched, Tick, Current
<1>3. Timed' /\ Handled' /\ Kept' /\ Counted'
  BY DEF Inv, Timed, Handled, Kept, Counted, ShouldRelease, Matured, Tick
<1> QED BY <1>1, <1>2, <1>3 DEF Inv

(* A file's request is taken at once, or rejected.                           *)
LEMMA SettleKeeps == Inv /\ Settle => Inv'
<1> SUFFICES ASSUME Inv, Settle PROVE Inv'
  OBVIOUS
<1> DEFINE r == request[First]
<1>1. IsRequest(r)
  BY FirstTyped DEF Inv, Settle
<1>2. \/ UNCHANGED <<lock, policy, judge>>
      \/ ~Malformed(r) /\ Tightens(r) /\ ApplyRequest(r)
  BY DEF Settle, ClassifyRequest
<1>3. lock' \in Nat \cup {Null, Corrupt} /\ IsPolicy(policy') /\ judge' \in Text
  BY <1>1, <1>2, ApplyTyped DEF Inv, TypeOK
<1>4. TypeOK'
  <2>1. pc' \in {"idle", "files", "unlink", "matured"} /\ files' \subseteq inbox' /\ files' \subseteq Id
    BY DEF Inv, TypeOK, Settle
  <2> QED BY <1>3, <2>1, QueueTyped, Zenon DEF Inv, TypeOK, Settle
<1>5. Batched'
  <2>1. PolicyAtLeast(policy, seen.policy) /\ UNCHANGED seen
    BY DEF Inv, Batched, Settle
  <2>2. CASE UNCHANGED <<lock, policy, judge>>
    BY <2>1, <2>2 DEF Batched
  <2>3. CASE ~Malformed(r) /\ Tightens(r) /\ ApplyRequest(r)
    <3>1. CASE r.type = "policy"
      <4>1. PolicyAtLeast(MergePolicy(EnforcementPolicy, r.change), seen.policy)
        BY <2>3, <3>1 DEF Tightens, RequestedPolicy
      <4>2. policy' = MergePolicy(policy, r.change)
        BY <2>3, <3>1 DEF ApplyRequest, Applied
      <4> QED BY <2>1, <4>1, <4>2, MergeTightens DEF Batched
    <3>2. CASE r.type # "policy"
      BY <2>1, <2>3, <3>2 DEF Batched, ApplyRequest
    <3> QED BY <3>1, <3>2
  <2> QED BY <1>2, <2>2, <2>3
<1>6. Timed' /\ Handled' /\ Kept' /\ Counted'
  BY DEF Inv, Timed, Handled, Kept, Counted, ShouldRelease, Matured, Settle
<1> QED BY <1>4, <1>5, <1>6 DEF Inv

(* A weakening request is queued under its name.                             *)
LEMMA ScheduleKeeps == Inv /\ SchedulePending => Inv'
<1> SUFFICES ASSUME Inv, SchedulePending PROVE Inv'
  OBVIOUS
<1> DEFINE e == [id |-> First, apply_at |-> ntp' + LoosenDelay]
<1>1. First \in DOMAIN request /\ ~Malformed(request[First])
  BY FirstTyped DEF Inv, SchedulePending, ClassifyRequest
<1>2. ntp' = now /\ now \in Nat
  BY DEF SchedulePending, TickNtp, NtpAnswers, Inv, Timed, TypeOK
<1>3. e \in Entry
  BY <1>1, <1>2, DelayAssumption DEF Entry
<1>4. pending' = Append(pending, e) /\ pending \in Seq(Entry)
  BY DEF SchedulePending, Inv, TypeOK
<1> HIDE DEF e
<1>5. /\ pending' \in Seq(Entry) /\ Len(pending') = Len(pending) + 1
      /\ \A i \in 1..Len(pending) : pending'[i] = pending[i]
      /\ pending'[Len(pending) + 1] = e
  BY <1>3, <1>4, AppendProperties
<1>6. TypeOK'
  <2>1. \A i \in 1..Len(pending') : ~Malformed(request'[pending'[i].id])
    <3>1. request' = request /\ e.id = First
      BY DEF SchedulePending, e
    <3>2. Len(pending) \in Nat /\ \A i \in 1..Len(pending) : ~Malformed(request[pending[i].id])
      BY <1>4, LenProperties DEF Inv, TypeOK
    <3> QED BY <1>1, <1>5, <3>1, <3>2
  <2>2. Entry' = Entry /\ keep' \in Seq(Entry)
    BY DEF Entry, SchedulePending, Inv, TypeOK
  <2>3. pc' \in {"idle", "files", "unlink", "matured"} /\ files' \subseteq inbox' /\ files' \subseteq Id
    BY DEF SchedulePending, Inv, TypeOK
  <2>4. ntp' \in Nat \cup {Null}
    BY <1>2
  <2> QED BY <1>5, <2>1, <2>2, <2>3, <2>4, Zenon DEF Inv, TypeOK, SchedulePending
<1>7. Kept'
  <2>1. pc = "files" /\ pc' = "unlink" /\ UNCHANGED <<keep, k>>
    BY DEF SchedulePending
  <2>2. keep = << >> /\ k = 1 /\ Len(pending) \in Nat
    BY <1>4, <2>1, LenProperties DEF Inv, Kept
  <2> QED BY <1>5, <2>1, <2>2 DEF Kept
<1>8. Timed' /\ Batched' /\ Handled' /\ Counted'
  BY <1>2 DEF Inv, Timed, Batched, Handled, Counted, ShouldRelease, SchedulePending
<1> QED BY <1>6, <1>7, <1>8 DEF Inv

(* A file is left for the next tick, or removed.                             *)
LEMMA FileKeeps == Inv /\ (Defer \/ Unlink) => Inv'
<1> SUFFICES ASSUME Inv, Defer \/ Unlink PROVE Inv'
  OBVIOUS
<1>1. files' = files \ {First} /\ inbox' \in {inbox, inbox \ {First}} /\ pc' = "files"
  BY DEF Defer, Unlink
<1>2. TypeOK'
  <2>1. files' \subseteq Id /\ inbox' \subseteq DOMAIN request' /\ files' \subseteq inbox'
    BY <1>1 DEF Inv, TypeOK, Defer, Unlink
  <2>2. pc' \in {"idle", "files", "unlink", "matured"}
    BY <1>1
  <2>3. UNCHANGED <<request, pending, keep>>
    BY DEF Defer, Unlink
  <2> QED BY <2>1, <2>2, <2>3, QueueTyped, Zenon DEF Inv, TypeOK, Defer, Unlink
<1>3. Timed' /\ Batched' /\ Handled' /\ Kept' /\ Counted'
  BY DEF Inv, Timed, Batched, Handled, Kept, Counted, ShouldRelease, Matured, Defer, Unlink
<1> QED BY <1>2, <1>3 DEF Inv

(* The tick turns to its queue, or ends.                                     *)
LEMMA LoadKeeps == Inv /\ LoadPending => Inv'
<1> SUFFICES ASSUME Inv, LoadPending PROVE Inv'
  OBVIOUS
<1>1. ntp' = now /\ now \in Nat
  BY DEF LoadPending, TickNtp, NtpAnswers, Inv, Timed, TypeOK
<1>2. TypeOK'
  <2>1. pc' \in {"idle", "files", "unlink", "matured"} /\ pc' \notin {"files", "unlink"}
    BY DEF LoadPending
  <2>2. ntp' \in Nat \cup {Null}
    BY <1>1
  <2> QED BY <2>1, <2>2, QueueTyped, Zenon DEF Inv, TypeOK, LoadPending
<1>3. Timed' /\ Batched' /\ Handled' /\ Counted'
  BY <1>1, NullAssumption DEF Inv, Timed, Batched, Handled, Counted, ShouldRelease, LoadPending
<1>4. Kept'
  <2>1. keep = << >> /\ k = 1 /\ Len(keep) = 0 /\ UNCHANGED <<keep, k, pending>> /\ pending \in Seq(Entry)
    BY EmptySeq DEF Inv, Kept, LoadPending, TypeOK
  <2>2. Len(pending) \in Nat
    BY <2>1, LenProperties
  <2> QED BY <2>1, <2>2 DEF Kept, LoadPending
<1> QED BY <1>2, <1>3, <1>4 DEF Inv

(* The tick is over, or is cut short.                                        *)
LEMMA EndKeeps == Inv /\ (EndTick \/ Stop) => Inv'
<1> SUFFICES ASSUME Inv, EndTick \/ Stop PROVE Inv'
  OBVIOUS
<1>1. /\ pc' = "idle" /\ files' = {} /\ ntp' = Null /\ k' = 1 /\ keep' = << >> /\ stops' \in Nat
      /\ UNCHANGED <<now, settings, dev, request, inbox, pending, seen, runner, acts>>
  BY DEF EndTick, Stop, Forget, Inv, TypeOK
<1>2. Entry' = Entry /\ pending \in Seq(Entry) /\ keep' \in Seq(Entry) /\ Len(keep') = 0
  BY <1>1, EmptySeq DEF Entry, Inv, TypeOK
<1>3. TypeOK'
  <2>1. /\ pc' \in {"idle", "files", "unlink", "matured"} /\ pc' \notin {"files", "unlink"}
        /\ files' \subseteq Id /\ ntp' \in Nat \cup {Null} /\ k' \in Nat \ {0}
    BY <1>1
  <2> QED BY <1>1, <1>2, <2>1, Zenon DEF Inv, TypeOK
<1>4. Timed' /\ Batched' /\ Handled' /\ Counted'
  BY <1>1 DEF Inv, Timed, Batched, Handled, Counted, ShouldRelease
<1>5. Kept'
  <2>1. Len(pending') \in Nat
    BY <1>1, <1>2, LenProperties
  <2> QED BY <1>1, <1>2, <2>1 DEF Kept
<1> QED BY <1>3, <1>4, <1>5 DEF Inv

(* An entry of the queue is applied, or kept.                                *)
LEMMA ApplyMaturedKeeps == Inv /\ ApplyMatured => Inv'
<1> SUFFICES ASSUME Inv, ApplyMatured PROVE Inv'
  OBVIOUS
<1>1. pending \in Seq(Entry) /\ Len(pending) \in Nat /\ keep \in Seq(Entry) /\ Len(keep) \in Nat
  BY LenProperties DEF Inv, TypeOK
<1>2. k \in 1..Len(pending) /\ k' = k + 1 /\ k \in Nat
  BY <1>1 DEF Inv, TypeOK, ApplyMatured
<1>3. /\ pending[k] \in Entry /\ IsRequest(request[pending[k].id])
      /\ ~Malformed(request[pending[k].id])
  BY <1>2, EntriesAreRequests DEF Inv
<1>4. \/ Matured(pending[k]) /\ ApplyRequest(request[pending[k].id]) /\ UNCHANGED keep
      \/ ~Matured(pending[k]) /\ keep' = Append(keep, pending[k]) /\ UNCHANGED settings
  BY DEF ApplyMatured
<1>5. lock' \in Nat \cup {Null, Corrupt} /\ IsPolicy(policy') /\ judge' \in Text
  <2>1. CASE ApplyRequest(request[pending[k].id])
    BY <1>3, <2>1, ApplyTyped DEF Inv
  <2>2. CASE UNCHANGED settings
    BY <2>2 DEF Inv, TypeOK
  <2> QED BY <1>4, <2>1, <2>2
<1>6. keep' \in Seq(Entry)
  BY <1>1, <1>3, <1>4, AppendProperties
<1>7. TypeOK'
  <2>1. Entry' = Entry /\ k' \in Nat \ {0}
    BY <1>2 DEF Entry, ApplyMatured
  <2> QED BY <1>5, <1>6, <2>1, Zenon DEF Inv, TypeOK, ApplyMatured
<1>8. Timed' /\ Batched' /\ Handled' /\ Counted'
  BY DEF Inv, Timed, Batched, Handled, Counted, ShouldRelease, ApplyMatured
<1>9. Kept'
  <2>1. /\ \A i \in 1..Len(keep) : \E j \in 1..Len(pending) : keep[i] = pending[j]
        /\ \A j \in 1..Len(pending) :
             j < k => Matured(pending[j]) \/ \E i \in 1..Len(keep) : keep[i] = pending[j]
    BY DEF Inv, Kept
  <2>2. UNCHANGED <<pending, ntp, pc>> /\ pc = "matured"
    BY DEF ApplyMatured
  <2>3. CASE Matured(pending[k]) /\ UNCHANGED keep
    BY <1>1, <1>2, <2>1, <2>2, <2>3 DEF Kept, Matured
  <2>4. CASE ~Matured(pending[k]) /\ keep' = Append(keep, pending[k])
    <3>1. /\ Len(keep') = Len(keep) + 1 /\ keep'[Len(keep) + 1] = pending[k]
          /\ \A i \in 1..Len(keep) : keep'[i] = keep[i]
      BY <1>1, <1>3, <2>4, AppendProperties
    <3>2. \A i \in 1..Len(keep') : \E j \in 1..Len(pending') : keep'[i] = pending'[j]
      BY <1>1, <1>2, <2>1, <2>2, <3>1
    <3>3. ASSUME NEW j \in 1..Len(pending'), j < k'
          PROVE  Matured(pending[j]) \/ \E i \in 1..Len(keep') : keep'[i] = pending'[j]
      <4>1. CASE j = k
        BY <1>1, <2>2, <3>1, <4>1
      <4>2. CASE j < k
        <5>1. Matured(pending[j]) \/ \E i \in 1..Len(keep) : keep[i] = pending[j]
          BY <2>1, <2>2, <4>2
        <5> QED BY <1>1, <2>2, <3>1, <5>1
      <4> QED BY <1>1, <1>2, <2>2, <3>3, <4>1, <4>2
    <3> QED BY <1>1, <1>2, <2>2, <3>2, <3>3 DEF Kept, Matured
  <2> QED BY <1>4, <2>3, <2>4
<1> QED BY <1>7, <1>8, <1>9 DEF Inv

(* The queue becomes what was kept.                                          *)
LEMMA RewriteKeeps == Inv /\ RewritePending => Inv'
<1> SUFFICES ASSUME Inv, RewritePending PROVE Inv'
  OBVIOUS
<1>1. /\ pc' = "idle" /\ files' = {} /\ ntp' = Null /\ k' = 1 /\ keep' = << >> /\ pending' = keep
      /\ UNCHANGED <<now, settings, dev, request, inbox, seen, runner, stops, acts>>
  BY DEF RewritePending, Forget
<1>2. /\ Entry' = Entry /\ keep \in Seq(Entry) /\ keep' \in Seq(Entry)
      /\ Len(keep') = 0 /\ Len(keep) \in Nat
  BY <1>1, EmptySeq, LenProperties DEF Entry, Inv, TypeOK
<1>3. \A i \in 1..Len(pending') : ~Malformed(request'[pending'[i].id])
  <2>1. \A i \in 1..Len(keep) : \E j \in 1..Len(pending) : keep[i] = pending[j]
    BY DEF Inv, Kept
  <2> QED BY <1>1, <2>1, EntriesAreRequests DEF Inv
<1>4. TypeOK'
  <2>1. /\ pc' \in {"idle", "files", "unlink", "matured"} /\ pc' \notin {"files", "unlink"}
        /\ files' \subseteq Id /\ ntp' \in Nat \cup {Null} /\ k' \in Nat \ {0}
    BY <1>1
  <2> QED BY <1>1, <1>2, <1>3, <2>1, Zenon DEF Inv, TypeOK
<1>5. Timed' /\ Batched' /\ Handled' /\ Kept' /\ Counted'
  BY <1>1, <1>2 DEF Inv, Timed, Batched, Handled, Kept, Counted, ShouldRelease
<1> QED BY <1>4, <1>5 DEF Inv

(* The trigger and the runner leave the tick alone.                          *)
LEMMA RunnerKeeps ==
  Inv /\ (RequestRelease \/ DeleteTrigger \/ RecordRequest \/ Release \/ SaveReleased \/ StopRunner)
      => Inv'
<1> SUFFICES ASSUME Inv, RequestRelease \/ DeleteTrigger \/ RecordRequest \/ Release
                         \/ SaveReleased \/ StopRunner
             PROVE  Inv'
  OBVIOUS
<1> USE DEF RequestRelease, DeleteTrigger, RecordRequest, Release, SaveReleased, StopRunner, Act
<1>1. UNCHANGED <<now, policy, judge, dev, request, inbox, pending, pc, files, seen, ntp, k, keep>>
  OBVIOUS
<1>2. /\ lock' \in Nat \cup {Null, Corrupt} /\ stops' \in Nat /\ acts' \in Nat
      /\ trigger' \in BOOLEAN /\ asked' \in Nat \cup {Null} /\ released' \in BOOLEAN /\ cleared' \in BOOLEAN
  <2>1. lock' \in {lock, Null} /\ stops' \in {stops, stops + 1} /\ acts' \in {acts, acts + 1}
    OBVIOUS
  <2>2. /\ trigger' \in {trigger, TRUE, FALSE} /\ asked' \in {asked, now}
        /\ released' \in {released, TRUE} /\ cleared' \in {cleared, TRUE, FALSE}
    OBVIOUS
  <2>3. lock' \in Nat \cup {Null, Corrupt} /\ stops' \in Nat /\ acts' \in Nat
    BY <2>1 DEF Inv, TypeOK
  <2>4. asked' \in Nat \cup {Null}
    BY <2>2 DEF Inv, TypeOK
  <2>5. trigger' \in BOOLEAN /\ released' \in BOOLEAN /\ cleared' \in BOOLEAN
    BY <2>2, Zenon DEF Inv, TypeOK
  <2> QED BY <2>3, <2>4, <2>5
<1>3. TypeOK'
  BY <1>1, <1>2, QueueTyped, Zenon DEF Inv, TypeOK
<1>4. Timed' /\ Handled' /\ Kept'
  BY <1>1, BooksKept
<1>5. Batched' /\ Counted'
  BY NullAssumption DEF Inv, Batched, Counted, ShouldRelease, TypeOK
<1> QED BY <1>3, <1>4, <1>5 DEF Inv

(* Time passes between ticks.                                                *)
LEMMA AdvanceKeeps == Inv /\ Advance => Inv'
<1> SUFFICES ASSUME Inv, Advance PROVE Inv'
  OBVIOUS
<1>1. TypeOK'
  <2>1. now' \in Nat
    BY DEF Inv, TypeOK, Advance
  <2> QED BY <2>1, QueueTyped, Zenon DEF Inv, TypeOK, Advance
<1>2. Timed' /\ Batched' /\ Handled' /\ Kept' /\ Counted'
  BY DEF Inv, Timed, Batched, Handled, Kept, Counted, ShouldRelease, Matured, Advance
<1> QED BY <1>1, <1>2 DEF Inv

(* A step that changes nothing.                                              *)
LEMMA StutterKeeps == Inv /\ UNCHANGED vars => Inv'
<1> SUFFICES ASSUME Inv, UNCHANGED vars PROVE Inv'
  OBVIOUS
<1>1. TypeOK'
  <2>1. /\ now' = now /\ lock' = lock /\ policy' = policy /\ judge' = judge /\ dev' = dev
        /\ inbox' = inbox /\ pc' = pc /\ files' = files /\ seen' = seen /\ ntp' = ntp /\ k' = k
        /\ trigger' = trigger /\ asked' = asked /\ released' = released /\ cleared' = cleared
        /\ stops' = stops /\ acts' = acts /\ request' = request
    BY DEF vars
  <2>2. UNCHANGED <<request, pending, keep>>
    BY DEF vars
  <2>3. /\ now' \in Nat /\ dev' \in BOOLEAN /\ stops' \in Nat /\ acts' \in Nat
        /\ lock' \in Nat \cup {Null, Corrupt} /\ IsPolicy(policy') /\ judge' \in Text
    BY <2>1, Zenon DEF Inv, TypeOK
  <2>4. /\ inbox' \subseteq DOMAIN request' /\ files' \subseteq Id
        /\ pc' \in {"idle", "files", "unlink", "matured"}
        /\ pc' \in {"files", "unlink"} => files' \subseteq inbox'
    BY <2>1, Zenon DEF Inv, TypeOK
  <2>5. /\ seen'.lock \in Nat \cup {Null} /\ IsPolicy(seen'.policy) /\ seen'.judge_policy \in Text
        /\ ntp' \in Nat \cup {Null} /\ k' \in Nat \ {0}
    BY <2>1, Zenon DEF Inv, TypeOK
  <2>6. /\ trigger' \in BOOLEAN /\ asked' \in Nat \cup {Null}
        /\ released' \in BOOLEAN /\ cleared' \in BOOLEAN
    BY <2>1, Zenon DEF Inv, TypeOK
  <2> QED BY <2>2, <2>3, <2>4, <2>5, <2>6, QueueTyped, Zenon DEF Inv, TypeOK
<1>2. Timed' /\ Handled' /\ Kept'
  BY BooksKept DEF vars
<1>3. Batched' /\ Counted'
  BY DEF Inv, Batched, Counted, ShouldRelease, vars
<1> QED BY <1>1, <1>2, <1>3 DEF Inv

(* What the daemon drops is typed.                                           *)
LEMMA DaemonKeeps == Inv /\ Daemon => Inv'
<1> SUFFICES ASSUME Inv, Daemon PROVE Inv'
  OBVIOUS
<1>1. ASSUME NEW t \in LockTimes, LockSettings(t) PROVE Inv'
  <2>1. IsRequest([type |-> "lock", change |-> [locked_until |-> t]])
    BY InputAssumption DEF IsRequest, Setting
  <2> QED BY <1>1, <2>1, DropKeeps DEF LockSettings
<1>2. CASE UnlockSettings
  <2>1. IsRequest([type |-> "lock", change |-> [locked_until |-> Null]])
    BY DEF IsRequest, Setting
  <2> QED BY <1>2, <2>1, DropKeeps DEF UnlockSettings
<1>3. ASSUME NEW text \in Texts, UpdateJudgePolicy(text) PROVE Inv'
  <2>1. IsRequest([type |-> "judge_policy", change |-> [text |-> text]])
    BY StartAssumption DEF IsRequest, Setting
  <2> QED BY <1>3, <2>1, DropKeeps DEF UpdateJudgePolicy
<1>4. ASSUME NEW body \in PolicyBodies, RequestPolicy(body) PROVE Inv'
  <2>1. IsRequest([type |-> "policy", change |-> body])
    BY DEF IsRequest, Setting
  <2> QED BY <1>4, <2>1, DropKeeps DEF RequestPolicy
<1>5. CASE RequestMalformed
  <2>1. IsRequest([type |-> "judge_policy", change |-> [text |-> NoText]])
    BY DEF IsRequest, Setting
  <2> QED BY <1>5, <2>1, DropKeeps DEF RequestMalformed
<1> QED BY <1>1, <1>2, <1>3, <1>4, <1>5, RunnerKeeps DEF Daemon

(* The invariant of the root tier's files and of its tick.                   *)
THEOREM Invariance == Spec => []Inv
<1>1. Inv /\ [Next]_vars => Inv'
  BY DaemonKeeps, TickKeeps, SettleKeeps, ScheduleKeeps, FileKeeps, LoadKeeps, EndKeeps,
     ApplyMaturedKeeps, RewriteKeeps, RunnerKeeps, AdvanceKeeps, StutterKeeps
     DEF Next, Enforcer, Runner
<1> QED BY InitInv, <1>1, PTL DEF Spec

(* Whatever is asked for, in whatever order, and wherever a tick or a pass   *)
(* is cut short, the files hold values of their types.                       *)
THEOREM TypeCorrect == Spec => []TypeOK
<1>1. Inv => TypeOK
  BY DEF Inv
<1> QED BY Invariance, <1>1, PTL

-----------------------------------------------------------------------------
(* The enforcer's files keep the promise of DelayedLoosening.                *)

(* What the promise speaks of.                                               *)
Value == Bound(Current)
Base == Bound(seen)
Countdown == IF released THEN Null ELSE asked

(* Settings nobody writes have their values.                                 *)
LEMMA ValueSame ==
  ASSUME UNCHANGED <<lock, policy, judge, dev>>
  PROVE  Value' = Value
BY DEF Value, Bound, Current, ReadLockUntil

(* What was read stays what was read.                                        *)
LEMMA BaseSame ==
  ASSUME UNCHANGED <<seen, dev>>
  PROVE  Base' = Base
BY DEF Base, Bound

(* An entry waits for as long as its request is known by its name.           *)
LEMMA WaitingSame ==
  ASSUME TypeOK, UNCHANGED pending, DOMAIN request \subseteq DOMAIN request',
         \A i \in DOMAIN request : request'[i] = request[i]
  PROVE  Waiting' = Waiting
<1>1. \A n \in DOMAIN pending : pending[n].id \in DOMAIN request
  <2>1. DOMAIN pending = 1..Len(pending)
    BY LenProperties DEF TypeOK
  <2> QED BY <2>1, EntriesAreRequests
<1> QED BY <1>1 DEF Waiting

(* What the promise speaks of stays as it is.                                *)
Still == UNCHANGED <<now, Value, Base, Waiting, Countdown>>

(* A dropped file changes no setting and nothing that waits.                 *)
LEMMA DropStill ==
  ASSUME Inv, NEW s, NEW change, DropRequest(s, change)
  PROVE  Still
<1>1. DOMAIN request \subseteq DOMAIN request' /\ \A i \in DOMAIN request : request'[i] = request[i]
  BY DEF DropRequest
<1>2. Waiting' = Waiting
  BY <1>1, WaitingSame DEF Inv, DropRequest
<1>3. Value' = Value /\ Base' = Base
  BY ValueSame, BaseSame DEF DropRequest
<1> QED BY <1>2, <1>3 DEF Still, Countdown, DropRequest

(* A tick opens a batch.                                                     *)
LEMMA TickOpens == Inv /\ Tick => Promise!OpenBatch
<1> SUFFICES ASSUME Inv, Tick PROVE Promise!OpenBatch
  OBVIOUS
<1>1. Value' = Value /\ Base' = Value
  BY ValueSame DEF Tick, Base, Value, Bound
<1>2. Waiting' = Waiting
  BY WaitingSame DEF Inv, Tick
<1>3. now' = now /\ Countdown' = Countdown
  BY DEF Tick, Countdown
<1> QED BY <1>1, <1>2, <1>3 DEF Promise!OpenBatch, Value, Base, Countdown

(* A request taken at once leaves its setting as strict as the tick read it. *)
LEMMA SettleTightens == Inv /\ Settle => Promise!Tighten \/ Still
<1> SUFFICES ASSUME Inv, Settle PROVE Promise!Tighten \/ Still
  OBVIOUS
<1> DEFINE r == request[First]
<1>1. IsRequest(r)
  BY FirstTyped DEF Inv, Settle
<1>2. /\ Waiting' = Waiting /\ Base' = Base
      /\ now' = now /\ Countdown' = Countdown /\ dev' = dev
  BY WaitingSame, BaseSame DEF Inv, Settle, Countdown
<1>3. CASE UNCHANGED settings
  BY <1>2, <1>3, ValueSame DEF Still
<1>4. CASE Tightens(r) /\ ~Malformed(r) /\ ApplyRequest(r)
  <2>1. \E s \in Setting : /\ Value' = [Value EXCEPT ![s] = Value'[s]]
                           /\ AtLeast(s, Value'[s], Base[s])
    <3>1. CASE r.type = "lock"
      <4>1. lock' = r.change.locked_until /\ UNCHANGED <<policy, judge>>
        BY <1>4, <3>1 DEF ApplyRequest, Applied
      <4>2. r.change.locked_until # Corrupt
        BY <1>1, <3>1, NullAssumption DEF IsRequest
      <4>3. LockAtLeast(Value'["lock"], Base["lock"])
        BY <1>4, <3>1, <4>1, <4>2 DEF Tightens, Value, Base, Bound, Current, ReadLockUntil
      <4>4. Value' = [Value EXCEPT !["lock"] = Value'["lock"]]
        BY <1>2, <4>1 DEF Value, Bound, Current
      <4> QED BY <4>3, <4>4 DEF AtLeast, Setting
    <3>2. CASE r.type = "policy"
      <4>1. UNCHANGED <<lock, judge>>
        BY <1>4, <3>2 DEF ApplyRequest, Applied
      <4>2. PolicyAtLeast(Value'["policy"], Base["policy"])
        <5>1. Batched' /\ pc' = "unlink" /\ UNCHANGED seen
          BY SettleKeeps DEF Inv, Settle
        <5> QED BY <5>1 DEF Batched, Value, Base, Bound, Current
      <4>3. Value' = [Value EXCEPT !["policy"] = Value'["policy"]]
        BY <1>2, <4>1 DEF Value, Bound, Current, ReadLockUntil
      <4> QED BY <4>2, <4>3 DEF AtLeast, Setting
    <3>3. CASE r.type = "judge_policy"
      <4>1. UNCHANGED <<lock, policy>> /\ judge' = r.change.text
        BY <1>4, <3>3 DEF ApplyRequest, Applied
      <4>2. JudgeAtLeast(Value'["judge_policy"], Base["judge_policy"])
        BY <1>2, <1>4, <3>3, <4>1 DEF Tightens, JudgeAtLeast, Value, Base, Bound, Current
      <4>3. Value' = [Value EXCEPT !["judge_policy"] = Value'["judge_policy"]]
        BY <1>2, <4>1 DEF Value, Bound, Current, ReadLockUntil
      <4> QED BY <4>2, <4>3 DEF AtLeast, Setting
    <3> QED BY <1>1, <3>1, <3>2, <3>3 DEF IsRequest, Setting
  <2> QED BY <1>2, <2>1 DEF Promise!Tighten, Value, Base, Countdown
<1> QED BY <1>3, <1>4 DEF Settle, ClassifyRequest

(* What an entry of the queue stands for.                                    *)
Change(e) == [setting |-> request[e.id].type, change |-> request[e.id].change, at |-> e.apply_at]

LEMMA WaitingIs ==
  ASSUME TypeOK
  PROVE  Waiting = {Change(pending[n]) : n \in 1..Len(pending)}
<1>1. DOMAIN pending = 1..Len(pending)
  BY LenProperties DEF TypeOK
<1> QED BY <1>1 DEF Waiting, Change

(* A queued request is dated a whole delay from now.                         *)
LEMMA ScheduleAsks == Inv /\ SchedulePending => Promise!Ask
<1> SUFFICES ASSUME Inv, SchedulePending PROVE Promise!Ask
  OBVIOUS
<1> DEFINE e == [id |-> First, apply_at |-> now + LoosenDelay]
<1>1. ntp' = now /\ now \in Nat
  BY DEF SchedulePending, TickNtp, NtpAnswers, Inv, Timed, TypeOK
<1>2. pending' = Append(pending, e) /\ pending \in Seq(Entry) /\ UNCHANGED request
  BY <1>1 DEF SchedulePending, Inv, TypeOK
<1>3. e \in Entry
  BY <1>1, FirstTyped, DelayAssumption DEF Entry, Inv, SchedulePending
<1>5. /\ Len(pending') = Len(pending) + 1 /\ pending'[Len(pending) + 1] = e
      /\ \A n \in 1..Len(pending) : pending'[n] = pending[n]
      /\ Len(pending) \in Nat
  BY <1>2, <1>3, AppendProperties, LenProperties
<1>6. Waiting' = Waiting \cup {Change(e)}
  <2>1. Waiting' = {Change(pending'[n]) : n \in 1..Len(pending')}
    <3>1. DOMAIN pending' = 1..Len(pending')
      BY <1>2, <1>3, AppendProperties, LenProperties
    <3> QED BY <1>2, <3>1 DEF Waiting, Change
  <2>2. Waiting = {Change(pending[n]) : n \in 1..Len(pending)}
    BY WaitingIs DEF Inv
  <2>3. 1..Len(pending') = (1..Len(pending)) \cup {Len(pending) + 1}
    BY <1>5
  <2> HIDE DEF e
  <2> QED BY <1>5, <2>1, <2>2, <2>3
<1>7. Change(e).at = now + LoosenDelay
  BY DEF Change
<1>8. now' = now /\ Value' = Value /\ Base' = Base /\ Countdown' = Countdown
  BY ValueSame, BaseSame DEF SchedulePending, Countdown
<1>9. \E w \in Waiting' : Waiting' = Waiting \cup {w} /\ w.at = now + LoosenDelay
  BY <1>6, <1>7
<1> QED BY <1>8, <1>9 DEF Promise!Ask, Value, Base, Countdown

(* What the tick applies from the queue has waited its delay.                *)
LEMMA ApplyLoosens == Inv /\ ApplyMatured => Promise!Loosen \/ Still
<1> SUFFICES ASSUME Inv, ApplyMatured PROVE Promise!Loosen \/ Still
  OBVIOUS
<1> DEFINE e == pending[k]  r == request[pending[k].id]  w == Change(pending[k])
<1>1. k \in 1..Len(pending)
  <2>1. Len(pending) \in Nat
    BY LenProperties DEF Inv, TypeOK
  <2> QED BY <2>1 DEF Inv, TypeOK, ApplyMatured
<1>2. IsRequest(r) /\ e.apply_at \in Nat
  BY <1>1, EntriesAreRequests DEF Inv
<1>3. /\ Waiting' = Waiting /\ Base' = Base
      /\ now' = now /\ Countdown' = Countdown /\ dev' = dev
  BY WaitingSame, BaseSame DEF Inv, ApplyMatured, Countdown
<1>4. CASE UNCHANGED settings
  BY <1>3, <1>4, ValueSame DEF Still
<1>5. CASE Matured(e) /\ ApplyRequest(r)
  <2>1. w \in Waiting
    BY <1>1, WaitingIs DEF Inv
  <2>2. w.at <= now
    BY <1>2, <1>5 DEF Change, Matured, Inv, Timed, ApplyMatured
  <2>3. \/ Value' = [Value EXCEPT ![w.setting] = Applied(w.setting, Value[w.setting], w.change)]
        \/ Value' = Value
    <3>1. w.setting = r.type /\ w.change = r.change
      BY DEF Change
    <3>2. CASE r.type = "lock"
      <4>1. lock' = r.change.locked_until /\ UNCHANGED <<policy, judge>> /\ lock' # Corrupt
        BY <1>2, <1>5, <3>2, NullAssumption DEF ApplyRequest, Applied, IsRequest
      <4> QED BY <1>3, <3>1, <3>2, <4>1 DEF Value, Bound, Current, ReadLockUntil, Applied
    <3>3. CASE r.type = "policy"
      <4>1. policy' = MergePolicy(policy, r.change) /\ UNCHANGED <<lock, judge>>
        BY <1>5, <3>3 DEF ApplyRequest, Applied
      <4> QED BY <1>3, <3>1, <3>3, <4>1 DEF Value, Bound, Current, ReadLockUntil, Applied
    <3>4. CASE r.type = "judge_policy"
      <4>1. judge' = r.change.text /\ UNCHANGED <<lock, policy>>
        BY <1>5, <3>4 DEF ApplyRequest, Applied
      <4>2. CASE dev
        BY <1>3, <4>1, <4>2 DEF Value, Bound, Current, ReadLockUntil
      <4>3. CASE ~dev
        BY <1>3, <3>1, <3>4, <4>1, <4>3 DEF Value, Bound, Current, ReadLockUntil, Applied
      <4> QED BY <4>2, <4>3
    <3> QED BY <1>2, <3>2, <3>3, <3>4 DEF IsRequest, Setting
  <2>4. CASE Value' = Value
    BY <1>3, <2>4 DEF Still
  <2>5. CASE Value' = [Value EXCEPT ![w.setting] = Applied(w.setting, Value[w.setting], w.change)]
    <3> HIDE DEF w
    <3> QED BY <1>3, <2>1, <2>2, <2>5 DEF Promise!Loosen, Value, Base, Countdown
  <2> QED BY <2>3, <2>4, <2>5
<1> QED BY <1>4, <1>5 DEF ApplyMatured

(* The queue loses what was due, and nothing else.                           *)
LEMMA RewriteLeaves == Inv /\ RewritePending => Promise!Leave
<1> SUFFICES ASSUME Inv, RewritePending PROVE Promise!Leave
  OBVIOUS
<1>1. pending' = keep /\ UNCHANGED request /\ pc = "matured" /\ k > Len(pending)
  BY DEF RewritePending
<1>2. TypeOK /\ TypeOK' /\ Len(pending) \in Nat /\ ntp = now
  BY RewriteKeeps, LenProperties, <1>1 DEF Inv, TypeOK, Timed
<1>3. Waiting = {Change(pending[n]) : n \in 1..Len(pending)}
  BY <1>2, WaitingIs
<1>4. Waiting' = {Change(keep[n]) : n \in 1..Len(keep)}
  <2>1. DOMAIN keep = 1..Len(keep)
    BY <1>2, LenProperties DEF TypeOK
  <2> QED BY <1>1, <2>1 DEF Waiting, Change
<1>5. Waiting' \subseteq Waiting
  BY <1>3, <1>4 DEF Inv, Kept
<1>6. \A w \in Waiting \ Waiting' : w.at <= now
  <2> SUFFICES ASSUME NEW w \in Waiting, w \notin Waiting' PROVE w.at <= now
    OBVIOUS
  <2>1. PICK n \in 1..Len(pending) : w = Change(pending[n])
    BY <1>3
  <2>2. ~\E i \in 1..Len(keep) : keep[i] = pending[n]
    BY <1>4, <2>1
  <2>3. n < k
    BY <1>1, <1>2 DEF TypeOK
  <2>4. Matured(pending[n])
    BY <2>2, <2>3 DEF Inv, Kept
  <2>5. pending[n].apply_at \in Nat /\ now \in Nat
    BY <1>2, EntriesAreRequests DEF TypeOK
  <2> QED BY <1>2, <2>1, <2>4, <2>5 DEF Matured, Change
<1>7. now' = now /\ Value' = Value /\ Base' = Base /\ Countdown' = Countdown
  BY ValueSame, BaseSame DEF RewritePending, Countdown
<1> QED BY <1>5, <1>6, <1>7 DEF Promise!Leave, Value, Base, Countdown

(* The runner starts the countdown, and clears the lock when it is over.     *)
LEMMA RunnerOverrides ==
  Inv /\ (RecordRequest \/ Release \/ SaveReleased) => Promise!AskOverride \/ Promise!Override
<1> SUFFICES ASSUME Inv, RecordRequest \/ Release \/ SaveReleased
             PROVE  Promise!AskOverride \/ Promise!Override
  OBVIOUS
<1>1. Waiting' = Waiting /\ Base' = Base /\ now' = now /\ now \in Nat
  BY WaitingSame, BaseSame DEF Inv, TypeOK, RecordRequest, Release, SaveReleased
<1>2. CASE RecordRequest
  <2>1. Countdown = Null /\ Countdown' = now /\ Value' = Value
    BY <1>2, ValueSame DEF Countdown, RecordRequest
  <2> QED BY <1>1, <2>1 DEF Promise!AskOverride, Value, Base, Countdown
<1>3. ASSUME ShouldRelease, ~released PROVE Countdown # Null /\ now >= Countdown + ReleaseDelay
  BY <1>1, <1>3, DelayAssumption DEF ShouldRelease, Countdown, Inv, TypeOK
<1>4. CASE Release
  <2>1. Value' = [Value EXCEPT !["lock"] = Null] /\ Countdown' = Countdown
    BY <1>4, NullAssumption DEF Value, Bound, Current, ReadLockUntil, Countdown, Release
  <2> QED BY <1>1, <1>3, <1>4, <2>1 DEF Promise!Override, Value, Base, Countdown, Release
<1>5. CASE SaveReleased
  <2>1. Countdown' = Null /\ Value' = Value /\ ShouldRelease /\ ~released
    BY <1>5, ValueSame DEF Countdown, SaveReleased, Inv, Counted
  <2> QED BY <1>1, <1>3, <2>1 DEF Promise!Override, Value, Base, Countdown
<1> QED BY <1>2, <1>4, <1>5

(* Time passes.                                                              *)
LEMMA AdvanceAdvances == Inv /\ Advance => Promise!Advance
<1> SUFFICES ASSUME Inv, Advance PROVE Promise!Advance
  OBVIOUS
<1>1. Waiting' = Waiting /\ Base' = Base /\ Value' = Value /\ Countdown' = Countdown
  BY WaitingSame, BaseSame, ValueSame DEF Inv, Advance, Countdown
<1>2. now' > now
  BY DEF Advance, Inv, TypeOK
<1> QED BY <1>1, <1>2 DEF Promise!Advance, Value, Base, Countdown

(* The other steps change nothing the promise speaks of.                     *)
LEMMA OthersStill ==
  ASSUME Inv, \/ Defer \/ Unlink \/ LoadPending \/ EndTick \/ Stop
              \/ RequestRelease \/ DeleteTrigger \/ StopRunner \/ UNCHANGED vars
  PROVE  Still
<1>1. UNCHANGED <<now, lock, policy, judge, dev, request, pending, seen, asked, released>>
  BY DEF Defer, Unlink, LoadPending, EndTick, Stop, RequestRelease, DeleteTrigger, StopRunner, vars
<1>2. Waiting' = Waiting /\ Base' = Base /\ Value' = Value
  BY <1>1, WaitingSame, BaseSame, ValueSame DEF Inv
<1> QED BY <1>1, <1>2 DEF Still, Countdown

(* The root tier keeps its promise: the files, the batches of a tick, its    *)
(* handlers and the runner implement the delayed loosening of the settings,  *)
(* for every set of requests and however often a tick or a pass is cut short. *)
THEOREM PromiseKept == Spec => KeepsPromise
<1>1. Init => Promise!Init
  BY DEF Init, Promise!Init, Waiting
<1>2. Inv /\ [Next]_vars => [Promise!Next]_(Promise!vars)
  <2> SUFFICES ASSUME Inv, [Next]_vars PROVE Promise!Next \/ Still
    BY DEF Still, Promise!vars, Value, Base, Countdown
  <2>1. ASSUME Daemon PROVE Still
    BY <2>1, DropStill, OthersStill
       DEF Daemon, LockSettings, UnlockSettings, UpdateJudgePolicy, RequestPolicy, RequestMalformed
  <2> QED
    BY <2>1, TickOpens, SettleTightens, ScheduleAsks, ApplyLoosens, RewriteLeaves, RunnerOverrides,
       AdvanceAdvances, OthersStill DEF Next, Enforcer, Runner, Promise!Next
<1> QED BY Invariance, <1>1, <1>2, PTL DEF Spec, KeepsPromise, Promise!Spec

=============================================================================

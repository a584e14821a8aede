-------------------------- MODULE BrowserMonitorProofs --------------------------
(* What BrowserMonitor guarantees for every set of windows, interval and     *)
(* bound: types, and that a browser the daemon hears is not found silent.    *)
EXTENDS BrowserMonitor, FiniteSetTheorems, TLAPS

USE DEF daemonVars, browserVars

(* As many beats as the tolerance, and one more, fit into the timeout.       *)
LongEnough == (Tolerance + 1) * BeatEvery <= Timeout

-----------------------------------------------------------------------------
(* Lemmas about the helpers.                                                 *)
LEMMA WindowsCount ==
  ASSUME NEW ws \in SUBSET Window
  PROVE  Cardinality(ws) \in Nat /\ Cardinality(ws) \in 0..Cardinality(Window)
<1>1. IsFiniteSet(ws) /\ Cardinality(ws) <= Cardinality(Window)
  BY WindowAssumption, FS_Subset
<1>2. Cardinality(ws) \in Nat /\ Cardinality(Window) \in Nat
  BY <1>1, WindowAssumption, FS_CardinalityType
<1> QED BY <1>1, <1>2

LEMMA CountTyped == ASSUME open \in SUBSET Window, NEW p PROVE Count(p) \in 0..Cardinality(Window)
<1>1. {w \in open : SeenBy[w] = p} \in SUBSET Window
  OBVIOUS
<1> QED BY <1>1, WindowsCount DEF Count

LEMMA LeastTyped == ASSUME NEW m \in Nat, NEW n \in Nat PROVE Least(m, n) \in 0..n
BY DEF Least

(* The three parts of the type invariant.                                    *)
WorldTyped == open \in SUBSET Window /\ banned \in Bans \cup {{}} /\ enforced \in BOOLEAN
BrowsersTyped ==
  /\ running \in SUBSET Profile
  /\ sent \in [Profile -> 0..BeatEvery]
  /\ mail \in [Profile -> 0..Cardinality(Window) \cup {Null}]
  /\ credit \in [Profile -> 0..(Tolerance + 1)]
DaemonTyped ==
  /\ daemon \in {"down", "starting", "up"}
  /\ tracked \in [Browser -> Entry \cup {Null}]
  /\ firstSeen \in [Browser -> 0..Unseen \cup {Null}]
  /\ grace \in 0..GracePeriod
  /\ phase \in {"idle", "apps", "browsers", "closing"}
  /\ todo \in SUBSET Window
  /\ idle \in 0..CheckEvery

LEMMA TypeParts ==
  TypeOK <=> WorldTyped /\ BrowsersTyped /\ DaemonTyped /\ events \in 0..MaxEvents
BY Zenon DEF TypeOK, WorldTyped, BrowsersTyped, DaemonTyped

LEMMA TypePartsNext ==
  TypeOK' <=> WorldTyped' /\ BrowsersTyped' /\ DaemonTyped' /\ events' \in 0..MaxEvents
BY Zenon DEF TypeOK, WorldTyped, BrowsersTyped, DaemonTyped

LEMMA InitTyped == Init => TypeOK
<1> SUFFICES ASSUME Init PROVE TypeOK
  OBVIOUS
<1> USE DEF Init
<1>1. WorldTyped
  BY Zenon DEF WorldTyped
<1>2. BrowsersTyped
  BY TimeAssumption DEF BrowsersTyped
<1>3. DaemonTyped
  BY TimeAssumption DEF DaemonTyped
<1> QED BY <1>1, <1>2, <1>3, TypeParts, TimeAssumption

LEMMA EventsKept ==
  events \in 0..MaxEvents /\ [Next]_vars => events' \in 0..MaxEvents
<1> SUFFICES ASSUME events \in 0..MaxEvents, [Next]_vars PROVE events' \in 0..MaxEvents
  OBVIOUS
<1> USE TimeAssumption DEF Event, Close, Listed
<1>1. CASE Beat
  BY <1>1 DEF Beat, Send, Deliver
<1>2. CASE Check
  BY <1>2 DEF Check, BeginCheck, AppsDone, Judge, EndCheck, LookAt, CloseBrowser
<1>3. CASE Happening
  BY <1>3 DEF Happening, Die, StartGrace, Ban, SwitchEnforcement, OpenWindow, UserCloses, Lose,
              StartExtension, StopExtension
<1>4. CASE StartUp \/ Tick \/ UNCHANGED vars
  BY <1>4 DEF StartUp, Tick, vars
<1> QED BY <1>1, <1>2, <1>3, <1>4 DEF Next

LEMMA WorldKept == WorldTyped /\ [Next]_vars => WorldTyped'
<1> SUFFICES ASSUME WorldTyped, [Next]_vars PROVE WorldTyped'
  OBVIOUS
<1> USE DEF WorldTyped
<1>1. CASE Beat
  BY <1>1, Zenon DEF Beat, Send, Deliver
<1>2. CASE Check
  <2>1. open' \in SUBSET Window
    BY <1>2 DEF Check, BeginCheck, AppsDone, Judge, EndCheck, LookAt, CloseBrowser, Close
  <2>2. banned' = banned /\ enforced' = enforced
    BY <1>2, Zenon DEF Check, BeginCheck, AppsDone, Judge, EndCheck, LookAt, CloseBrowser
  <2> QED BY <2>1, <2>2, Zenon
<1>3. CASE Happening
  <2>1. open' \in SUBSET Window
    BY <1>3 DEF Happening, Die, StartGrace, Ban, SwitchEnforcement, OpenWindow, UserCloses, Lose,
                StartExtension, StopExtension
  <2>2. banned' \in Bans \cup {{}}
    BY <1>3 DEF Happening, Die, StartGrace, Ban, SwitchEnforcement, OpenWindow, UserCloses, Lose,
                StartExtension, StopExtension
  <2>3. enforced' \in BOOLEAN
    BY <1>3, Zenon DEF Happening, Die, StartGrace, Ban, SwitchEnforcement, OpenWindow, UserCloses,
                       Lose, StartExtension, StopExtension
  <2> QED BY <2>1, <2>2, <2>3, Zenon
<1>4. CASE StartUp \/ Tick \/ UNCHANGED vars
  BY <1>4, Zenon DEF StartUp, Tick, vars
<1> QED BY <1>1, <1>2, <1>3, <1>4 DEF Next

LEMMA BrowsersKept == WorldTyped /\ BrowsersTyped /\ [Next]_vars => BrowsersTyped'
<1> SUFFICES ASSUME WorldTyped, BrowsersTyped, [Next]_vars PROVE BrowsersTyped'
  OBVIOUS
<1> USE TimeAssumption DEF BrowsersTyped
<1>1. ASSUME NEW p \in Profile, Send(p) PROVE BrowsersTyped'
  BY <1>1, CountTyped DEF Send, WorldTyped
<1>2. ASSUME NEW p \in Profile, Deliver(p) PROVE BrowsersTyped'
  BY <1>2 DEF Deliver
<1>3. ASSUME NEW p \in Profile, Lose(p) PROVE BrowsersTyped'
  BY <1>3 DEF Lose
<1>4. CASE Check
  BY <1>4 DEF Check, BeginCheck, AppsDone, Judge, EndCheck, LookAt, CloseBrowser
<1>5. CASE Die \/ StartUp \/ StartGrace \/ Ban \/ SwitchEnforcement
  BY <1>5 DEF Die, StartUp, StartGrace, Ban, SwitchEnforcement
<1>6. ASSUME NEW w \in Window, OpenWindow(w) \/ UserCloses(w) PROVE BrowsersTyped'
  BY <1>6 DEF OpenWindow, UserCloses
<1>7. ASSUME NEW p \in Profile, StartExtension(p) PROVE BrowsersTyped'
  BY <1>7 DEF StartExtension
<1>8. ASSUME NEW p \in Profile, StopExtension(p) PROVE BrowsersTyped'
  BY <1>8 DEF StopExtension
<1>9. CASE Tick
  <2>1. \A p \in Profile : Least(sent[p] + 1, BeatEvery) \in 0..BeatEvery
    BY DEF Least
  <2> QED BY <1>9, <2>1 DEF Tick
<1>10. CASE UNCHANGED vars
  BY <1>10 DEF vars
<1> QED BY <1>1, <1>2, <1>3, <1>4, <1>5, <1>6, <1>7, <1>8, <1>9, <1>10 DEF Next, Beat, Happening

(* What a check leaves of entries and sightings is of their types.           *)
LEMMA EndTyped ==
  ASSUME NEW entries \in [Browser -> Entry \cup {Null}],
         NEW ages \in [Browser -> 0..Unseen \cup {Null}],
         End(entries, ages)
  PROVE  /\ daemon' = "up" /\ phase' = "idle" /\ todo' = {}
         /\ tracked' \in [Browser -> Entry \cup {Null}]
         /\ firstSeen' \in [Browser -> 0..Unseen \cup {Null}]
BY DEF End, Recent, Sighted

LEMMA HeardTyped ==
  ASSUME DaemonTyped, NEW b \in Browser, NEW n \in 0..Cardinality(Window)
  PROVE  Heard(b, n) \in Entry
BY TimeAssumption DEF Heard, Entry, DaemonTyped, Forgotten

LEMMA ComparedTyped ==
  ASSUME DaemonTyped, NEW b \in Browser, NEW ws \in SUBSET Window
  PROVE  Compared(b, ws) \in Entry \cup {Null}
<1>1. CASE Windows(b, ws) = {} \/ Reported(b) = Null
  BY <1>1 DEF Compared, DaemonTyped
<1>2. CASE ~(Windows(b, ws) = {} \/ Reported(b) = Null)
  <2>1. tracked[b] \in Entry
    BY <1>2 DEF Reported, Compliant, DaemonTyped
  <2>2. Least(tracked[b].mismatches + 1, 2) \in 0..2
    BY <2>1 DEF Least, Entry
  <2> QED BY <1>2, <2>1, <2>2 DEF Compared, Entry
<1> QED BY <1>1, <1>2

(* The judging part of a check: what it leaves, and whose windows it closes. *)
LEMMA JudgeTyped == WorldTyped /\ DaemonTyped /\ Judge => DaemonTyped'
<1> SUFFICES ASSUME WorldTyped, DaemonTyped, Judge PROVE DaemonTyped'
  OBVIOUS
<1> PICK ws \in {open, {}} :
      LET bs      == {b \in Browser : grace = 0 /\ Windows(b, ws) # {}}
          ages    == SeenNow({b \in bs : ~Compliant(b)})
          entries == [b \in Browser |-> IF b \in bs THEN Compared(b, ws) ELSE tracked[b]]
          guilty  == Silent(bs, ages) \cup Unmonitored(bs, ws)
      IN  IF guilty = {} THEN End(entries, ages)
          ELSE \E pick \in [guilty -> ws] :
                 /\ \A b \in guilty : PidOf[pick[b]] = b
                 /\ todo' = {pick[b] : b \in guilty}
                 /\ phase' = "closing" /\ tracked' = entries /\ firstSeen' = ages
                 /\ UNCHANGED daemon
  BY Zenon DEF Judge
<1> DEFINE bs      == {b \in Browser : grace = 0 /\ Windows(b, ws) # {}}
           ages    == SeenNow({b \in bs : ~Compliant(b)})
           entries == [b \in Browser |-> IF b \in bs THEN Compared(b, ws) ELSE tracked[b]]
           guilty  == Silent(bs, ages) \cup Unmonitored(bs, ws)
<1>1. ws \in SUBSET Window
  BY DEF WorldTyped
<1>2. entries \in [Browser -> Entry \cup {Null}]
  BY <1>1, ComparedTyped DEF DaemonTyped
<1>3. ages \in [Browser -> 0..Unseen \cup {Null}]
  BY TimeAssumption DEF SeenNow, DaemonTyped, Unseen
<1>4. grace' = grace /\ idle' = idle
  BY DEF Judge
<1> HIDE DEF bs, ages, entries
<1>5. CASE End(entries, ages)
  BY <1>2, <1>3, <1>4, <1>5, EndTyped DEF DaemonTyped
<1>6. ASSUME NEW pick \in [guilty -> ws],
             todo' = {pick[b] : b \in guilty}, phase' = "closing", tracked' = entries,
             firstSeen' = ages, daemon' = daemon
      PROVE  DaemonTyped'
  <2>1. todo' \in SUBSET Window
    BY <1>1, <1>6
  <2> QED BY <1>2, <1>3, <1>4, <1>6, <2>1 DEF DaemonTyped
<1> QED BY <1>5, <1>6 DEF bs, ages, entries

LEMMA DaemonKept == WorldTyped /\ BrowsersTyped /\ DaemonTyped /\ [Next]_vars => DaemonTyped'
<1> SUFFICES ASSUME WorldTyped, BrowsersTyped, DaemonTyped, [Next]_vars PROVE DaemonTyped'
  OBVIOUS
<1>1. ASSUME NEW p \in Profile, Send(p) PROVE DaemonTyped'
  BY <1>1 DEF Send, DaemonTyped
<1>2. ASSUME NEW p \in Profile, Deliver(p) PROVE DaemonTyped'
  <2>1. mail[p] \in 0..Cardinality(Window) /\ HostOf[p] \in Browser
    BY <1>2, WindowAssumption DEF Deliver, BrowsersTyped
  <2>2. Heard(HostOf[p], mail[p]) \in Entry
    BY <2>1, HeardTyped
  <2> QED BY <1>2, <2>1, <2>2 DEF Deliver, DaemonTyped
<1>3. CASE BeginCheck
  BY <1>3, TimeAssumption DEF BeginCheck, DaemonTyped, WorldTyped
<1>4. CASE AppsDone
  BY <1>4, EndTyped DEF AppsDone, DaemonTyped
<1>5. CASE Judge
  BY <1>5, JudgeTyped
<1>6. CASE EndCheck
  BY <1>6, EndTyped DEF EndCheck, DaemonTyped
<1>7. ASSUME NEW w \in Window, LookAt(w) \/ CloseBrowser(w) PROVE DaemonTyped'
  BY <1>7 DEF LookAt, CloseBrowser, DaemonTyped
<1>8. CASE Die
  BY <1>8, TimeAssumption DEF Die, DaemonTyped
<1>9. CASE StartUp \/ StartGrace \/ Ban \/ SwitchEnforcement
  BY <1>9, TimeAssumption DEF StartUp, StartGrace, Ban, SwitchEnforcement, DaemonTyped
<1>10. ASSUME NEW w \in Window, OpenWindow(w) \/ UserCloses(w) PROVE DaemonTyped'
  BY <1>10 DEF OpenWindow, UserCloses, DaemonTyped
<1>11. ASSUME NEW p \in Profile, Lose(p) \/ StartExtension(p) \/ StopExtension(p)
       PROVE DaemonTyped'
  BY <1>11 DEF Lose, StartExtension, StopExtension, DaemonTyped
<1>12. CASE Tick
  <2>1. tracked' \in [Browser -> Entry \cup {Null}]
    BY <1>12, TimeAssumption, NullAssumption DEF Tick, DaemonTyped, Older, Least, Entry, Forgotten
  <2>2. firstSeen' \in [Browser -> 0..Unseen \cup {Null}]
    BY <1>12, TimeAssumption, NullAssumption DEF Tick, DaemonTyped, Older, Least, Unseen
  <2>3. grace' \in 0..GracePeriod /\ idle' \in 0..CheckEvery
    BY <1>12, TimeAssumption DEF Tick, DaemonTyped, Least
  <2> QED BY <1>12, <2>1, <2>2, <2>3 DEF Tick, DaemonTyped
<1>13. CASE UNCHANGED vars
  BY <1>13 DEF vars, DaemonTyped
<1> QED BY <1>1, <1>2, <1>3, <1>4, <1>5, <1>6, <1>7, <1>8, <1>9, <1>10, <1>11, <1>12, <1>13
       DEF Next, Beat, Check, Happening

(* Every variable keeps its type: the tracker, the check and the windows.    *)
THEOREM TypeCorrect == Spec => []TypeOK
<1>1. TypeOK /\ [Next]_vars => TypeOK'
  BY EventsKept, WorldKept, BrowsersKept, DaemonKept, TypeParts, TypePartsNext
<1> QED BY InitTyped, <1>1, PTL DEF Spec

-----------------------------------------------------------------------------
(* How old an entry may be for each beat the profile has lost.               *)
Lost(p) == Tolerance + 1 - credit[p]
Allowed(p) == (IF mail[p] = Null THEN sent[p] ELSE BeatEvery) + Lost(p) * BeatEvery

(* A browser with a profile that is heard has an entry, which is no older    *)
(* than the beats lost since and the time since the last one sent.           *)
HeardInTime ==
  \A p \in Profile : credit[p] > 0 =>
    /\ p \in running /\ daemon = "up"
    /\ tracked[HostOf[p]] # Null
    /\ tracked[HostOf[p]].age <= Allowed(p)

Inv == TypeOK /\ HeardInTime

(* With enough time for the tolerated beats the entry is within the timeout. *)
LEMMA HeardCompliant ==
  ASSUME TypeOK, HeardInTime, LongEnough, NEW p \in Profile, credit[p] > 0
  PROVE  Compliant(HostOf[p])
<1>1. /\ credit[p] \in 1..(Tolerance + 1) /\ sent[p] \in 0..BeatEvery
      /\ tracked[HostOf[p]] \in Entry
  BY WindowAssumption DEF TypeOK, HeardInTime
<1>2. Lost(p) \in 0..Tolerance
  BY <1>1, TimeAssumption DEF Lost
<1>3. Lost(p) * BeatEvery <= Tolerance * BeatEvery
  BY <1>2, TimeAssumption
<1>4. Allowed(p) <= BeatEvery + Lost(p) * BeatEvery
  BY <1>1, <1>2, TimeAssumption DEF Allowed
<1>5. BeatEvery + Tolerance * BeatEvery = (Tolerance + 1) * BeatEvery
  BY TimeAssumption
<1>6. Allowed(p) <= Timeout
  <2>1. Lost(p) * BeatEvery \in Nat /\ Tolerance * BeatEvery \in Nat /\ Allowed(p) \in Nat
    BY <1>1, <1>2, TimeAssumption DEF Allowed
  <2> QED BY <1>3, <1>4, <1>5, <2>1, TimeAssumption DEF LongEnough
<1>7. tracked[HostOf[p]].age <= Allowed(p) /\ tracked[HostOf[p]].age \in Nat
  BY <1>1, TimeAssumption DEF HeardInTime, Entry, Forgotten
<1>8. Allowed(p) \in Int
  BY <1>1, <1>2, TimeAssumption DEF Allowed
<1> QED BY <1>6, <1>7, <1>8, TimeAssumption DEF Compliant, HeardInTime

LEMMA InitHeard == Init => HeardInTime
BY DEF Init, HeardInTime

(* A check forgets no browser that is heard, and leaves its age alone.       *)
LEMMA EndHeard ==
  ASSUME TypeOK, HeardInTime, LongEnough,
         NEW entries \in [Browser -> Entry \cup {Null}], NEW ages,
         \A b \in Browser : tracked[b] # Null => entries[b] # Null /\ entries[b].age = tracked[b].age,
         End(entries, ages), UNCHANGED browserVars
  PROVE  HeardInTime'
<1> SUFFICES ASSUME NEW p \in Profile, credit'[p] > 0
             PROVE  /\ p \in running' /\ daemon' = "up"
                    /\ tracked'[HostOf[p]] # Null
                    /\ tracked'[HostOf[p]].age <= Allowed(p)'
  BY DEF HeardInTime
<1> DEFINE b == HostOf[p]
<1>1. credit[p] > 0 /\ b \in Browser
  BY WindowAssumption
<1>2. p \in running /\ tracked[b] # Null /\ tracked[b].age <= Allowed(p) /\ tracked[b].age <= Timeout
  BY <1>1, HeardCompliant DEF HeardInTime, Compliant
<1>3. tracked[b].age \in Nat
  BY <1>1, <1>2, TimeAssumption DEF TypeOK, Entry, Forgotten
<1>4. ~(entries[b] # Null /\ entries[b].age > 2 * Timeout)
  BY <1>1, <1>2, <1>3, TimeAssumption
<1>5. tracked'[b] = entries[b]
  BY <1>1, <1>4 DEF End, Recent
<1>6. Allowed(p)' = Allowed(p)
  BY DEF Allowed, Lost
<1> QED BY <1>1, <1>2, <1>5, <1>6 DEF End

(* Comparing windows leaves ages alone.                                      *)
LEMMA ComparedAge ==
  ASSUME TypeOK, NEW b \in Browser, NEW ws, tracked[b] # Null
  PROVE  Compared(b, ws) # Null /\ Compared(b, ws).age = tracked[b].age
<1>1. tracked[b] \in Entry
  BY DEF TypeOK
<1>2. tracked[b].age \in Nat /\ tracked[b] # Null
  BY <1>1, TimeAssumption DEF Entry, Forgotten
<1>3. CASE Windows(b, ws) = {} \/ Reported(b) = Null
  BY <1>2, <1>3 DEF Compared
<1>4. CASE ~(Windows(b, ws) = {} \/ Reported(b) = Null)
  <2> DEFINE k == IF Cardinality(Windows(b, ws)) > Reported(b)
                  THEN Least(tracked[b].mismatches + 1, 2) ELSE 0
  <2>1. Compared(b, ws) = [tracked[b] EXCEPT !.mismatches = k]
    BY <1>4 DEF Compared
  <2>2. k \in 0..2
    BY <1>1 DEF Least, Entry
  <2> HIDE DEF k
  <2>3. Compared(b, ws) \in Entry /\ Compared(b, ws).age = tracked[b].age
    BY <1>1, <2>1, <2>2 DEF Entry
  <2> QED BY <2>3, EntryAssumption
<1> QED BY <1>3, <1>4

LEMMA JudgeHeard == TypeOK /\ HeardInTime /\ LongEnough /\ Judge => HeardInTime'
<1> SUFFICES ASSUME TypeOK, HeardInTime, LongEnough, Judge PROVE HeardInTime'
  OBVIOUS
<1> PICK ws \in {open, {}} :
      LET bs      == {b \in Browser : grace = 0 /\ Windows(b, ws) # {}}
          ages    == SeenNow({b \in bs : ~Compliant(b)})
          entries == [b \in Browser |-> IF b \in bs THEN Compared(b, ws) ELSE tracked[b]]
          guilty  == Silent(bs, ages) \cup Unmonitored(bs, ws)
      IN  IF guilty = {} THEN End(entries, ages)
          ELSE \E pick \in [guilty -> ws] :
                 /\ \A b \in guilty : PidOf[pick[b]] = b
                 /\ todo' = {pick[b] : b \in guilty}
                 /\ phase' = "closing" /\ tracked' = entries /\ firstSeen' = ages
                 /\ UNCHANGED daemon
  BY Zenon DEF Judge
<1> DEFINE bs      == {b \in Browser : grace = 0 /\ Windows(b, ws) # {}}
           ages    == SeenNow({b \in bs : ~Compliant(b)})
           entries == [b \in Browser |-> IF b \in bs THEN Compared(b, ws) ELSE tracked[b]]
<1>1. entries \in [Browser -> Entry \cup {Null}]
  BY ComparedTyped, TypeParts DEF WorldTyped, DaemonTyped
<1>2. \A b \in Browser : tracked[b] # Null => entries[b] # Null /\ entries[b].age = tracked[b].age
  BY ComparedAge
<1>3. UNCHANGED browserVars
  BY DEF Judge
<1>4. End(entries, ages) \/ (tracked' = entries /\ daemon' = daemon)
  BY DEF bs
<1> HIDE DEF bs, ages, entries
<1>5. CASE End(entries, ages)
  BY <1>1, <1>2, <1>3, <1>5, EndHeard
<1>6. CASE tracked' = entries /\ daemon' = daemon
  <2> SUFFICES ASSUME NEW p \in Profile, credit'[p] > 0
               PROVE  /\ p \in running' /\ daemon' = "up"
                      /\ tracked'[HostOf[p]] # Null
                      /\ tracked'[HostOf[p]].age <= Allowed(p)'
    BY DEF HeardInTime
  <2>1. HostOf[p] \in Browser
    BY WindowAssumption
  <2> QED BY <1>2, <1>3, <1>6, <2>1 DEF HeardInTime, Allowed, Lost
<1> QED BY <1>4, <1>5, <1>6

(* Every step keeps the age of a heard browser's entry within what is        *)
(* allowed.                                                                  *)
LEMMA HeardKept == TypeOK /\ HeardInTime /\ LongEnough /\ [Next]_vars => HeardInTime'
<1> SUFFICES ASSUME TypeOK, HeardInTime, LongEnough, [Next]_vars PROVE HeardInTime'
  OBVIOUS
<1>a. \A p \in Profile : HostOf[p] \in Browser
  BY WindowAssumption
<1>1. ASSUME NEW q \in Profile, Send(q) PROVE HeardInTime'
  <2> SUFFICES ASSUME NEW p \in Profile, credit[p] > 0 PROVE tracked[HostOf[p]].age <= Allowed(p)'
    BY <1>1 DEF Send, HeardInTime
  <2>1. /\ credit[p] \in Nat /\ sent[p] \in 0..BeatEvery /\ tracked[HostOf[p]] \in Entry
        /\ tracked[HostOf[p]].age <= Allowed(p)
    BY <1>a DEF TypeOK, HeardInTime
  <2>2. tracked[HostOf[p]].age \in Nat
    BY <2>1, TimeAssumption DEF Entry, Forgotten
  <2>3. CASE p # q
    BY <1>1, <2>1, <2>3 DEF Send, Allowed, Lost, TypeOK
  <2>4. CASE p = q
    <3>1. mail[p] = Null /\ mail'[p] # Null /\ credit' = credit
      BY <1>1, <2>4, CountTyped, NullAssumption DEF Send, TypeOK
    <3>2. Allowed(p) = sent[p] + Lost(p) * BeatEvery
      BY <3>1 DEF Allowed
    <3>3. Allowed(p)' = BeatEvery + Lost(p) * BeatEvery
      BY <3>1 DEF Allowed, Lost
    <3>4. Lost(p) * BeatEvery \in Int
      BY <2>1, TimeAssumption DEF Lost
    <3> QED BY <2>1, <2>2, <3>2, <3>3, <3>4, TimeAssumption
  <2> QED BY <2>3, <2>4
<1>2. ASSUME NEW q \in Profile, Deliver(q) PROVE HeardInTime'
  <2> SUFFICES ASSUME NEW p \in Profile, credit'[p] > 0
               PROVE  /\ p \in running' /\ daemon' = "up"
                      /\ tracked'[HostOf[p]] # Null
                      /\ tracked'[HostOf[p]].age <= Allowed(p)'
    BY DEF HeardInTime
  <2>1. /\ credit[p] \in 0..(Tolerance + 1) /\ sent[p] \in 0..BeatEvery
        /\ credit'[p] \in 0..(Tolerance + 1)
    BY <1>2, TimeAssumption DEF TypeOK, Deliver
  <2>2. Lost(p)' \in Nat /\ Allowed(p)' \in Nat
    <3>1. Lost(p)' \in Nat /\ Lost(p)' * BeatEvery \in Nat /\ sent' = sent
      BY <1>2, <2>1, TimeAssumption DEF Lost, Deliver
    <3> QED BY <2>1, <3>1, TimeAssumption DEF Allowed
  <2>3. CASE daemon = "up" /\ HostOf[p] = HostOf[q]
    <3>1. tracked'[HostOf[p]] = Heard(HostOf[q], mail[q])
      BY <1>2, <1>a, <2>3 DEF Deliver, TypeOK
    <3>2. Heard(HostOf[q], mail[q]) \in Entry
      BY <1>2, <1>a, HeardTyped, TypeParts DEF Deliver, BrowsersTyped
    <3>3. tracked'[HostOf[p]].age = 0 /\ tracked'[HostOf[p]] # Null
      BY <3>1, <3>2, EntryAssumption DEF Heard
    <3>4. p \in running' /\ daemon' = "up"
      BY <1>2, <2>3 DEF Deliver, TypeOK, HeardInTime
    <3> QED BY <2>2, <3>3, <3>4
  <2>4. CASE ~(daemon = "up" /\ HostOf[p] = HostOf[q])
    <3>1. p # q \/ daemon # "up"
      BY <2>4
    <3>2. credit'[p] = credit[p] /\ tracked'[HostOf[p]] = tracked[HostOf[p]]
      BY <1>2, <1>a, <2>4, <3>1 DEF Deliver, TypeOK
    <3>3. p # q
      BY <3>1, <3>2 DEF HeardInTime
    <3>4. mail'[p] = mail[p] /\ sent' = sent /\ running' = running /\ daemon' = daemon
      BY <1>2, <3>3 DEF Deliver, TypeOK
    <3> QED BY <3>2, <3>4 DEF HeardInTime, Allowed, Lost
  <2> QED BY <2>3, <2>4
<1>3. ASSUME NEW q \in Profile, Lose(q) PROVE HeardInTime'
  <2> SUFFICES ASSUME NEW p \in Profile, credit'[p] > 0
               PROVE  /\ credit[p] > 0 /\ tracked[HostOf[p]].age <= Allowed(p)'
    BY <1>3 DEF Lose, HeardInTime
  <2>1. credit[p] > 0 /\ credit[p] \in Nat /\ sent[p] \in 0..BeatEvery
    BY <1>3 DEF Lose, TypeOK
  <2>2. tracked[HostOf[p]].age <= Allowed(p) /\ tracked[HostOf[p]].age \in Nat
    BY <1>a, <2>1, TimeAssumption DEF TypeOK, HeardInTime, Entry, Forgotten
  <2>3. CASE p # q
    BY <1>3, <2>1, <2>2, <2>3 DEF Lose, Allowed, Lost, TypeOK
  <2>4. CASE p = q
    <3>1. mail[p] # Null /\ mail'[p] = Null /\ credit'[p] = credit[p] - 1 /\ sent' = sent
      BY <1>3, <2>1, <2>4 DEF Lose, TypeOK
    <3>2. Allowed(p) = BeatEvery + Lost(p) * BeatEvery
      BY <3>1 DEF Allowed
    <3>3. Lost(p)' = Lost(p) + 1 /\ Lost(p) \in Int
      BY <2>1, <3>1, TimeAssumption DEF Lost
    <3>4. Allowed(p)' = sent[p] + (Lost(p) + 1) * BeatEvery
      BY <3>1, <3>3 DEF Allowed
    <3>5. (Lost(p) + 1) * BeatEvery = Lost(p) * BeatEvery + BeatEvery /\ Lost(p) * BeatEvery \in Int
      BY <3>3, TimeAssumption
    <3> QED BY <2>1, <2>2, <3>2, <3>4, <3>5, TimeAssumption
  <2> QED BY <2>1, <2>3, <2>4
<1>4. CASE BeginCheck
  BY <1>4 DEF BeginCheck, HeardInTime, Allowed, Lost
<1>5. CASE AppsDone
  <2>1. CASE End(tracked, firstSeen)
    BY <1>5, <2>1, EndHeard DEF AppsDone, TypeOK
  <2>2. CASE UNCHANGED <<daemon, tracked>>
    BY <1>5, <2>2 DEF AppsDone, HeardInTime, Allowed, Lost
  <2> QED BY <1>5, <2>1, <2>2 DEF AppsDone
<1>6. CASE Judge
  BY <1>6, JudgeHeard
<1>7. CASE EndCheck
  BY <1>7, EndHeard DEF EndCheck, TypeOK
<1>8. ASSUME NEW w \in Window, LookAt(w) \/ CloseBrowser(w) \/ OpenWindow(w) \/ UserCloses(w)
      PROVE  HeardInTime'
  BY <1>8 DEF LookAt, CloseBrowser, OpenWindow, UserCloses, HeardInTime, Allowed, Lost
<1>9. CASE Die
  BY <1>9 DEF Die, HeardInTime
<1>10. CASE StartUp
  BY <1>10 DEF StartUp, HeardInTime
<1>11. CASE StartGrace \/ Ban \/ SwitchEnforcement
  BY <1>11 DEF StartGrace, Ban, SwitchEnforcement, HeardInTime, Allowed, Lost
<1>12. ASSUME NEW q \in Profile, StartExtension(q) \/ StopExtension(q) PROVE HeardInTime'
  <2> SUFFICES ASSUME NEW p \in Profile, credit'[p] > 0
               PROVE  /\ p \in running' /\ daemon' = "up"
                      /\ tracked'[HostOf[p]] # Null
                      /\ tracked'[HostOf[p]].age <= Allowed(p)'
    BY DEF HeardInTime
  <2>1. credit[p] > 0 /\ credit'[p] = credit[p] /\ p \in running
    BY <1>12 DEF StartExtension, StopExtension, TypeOK, HeardInTime
  <2>2. p # q
    BY <1>12, <2>1 DEF StartExtension, StopExtension, TypeOK
  <2> QED BY <1>12, <2>1, <2>2 DEF StartExtension, StopExtension, TypeOK, HeardInTime, Allowed, Lost
<1>13. CASE Tick
  <2> SUFFICES ASSUME NEW p \in Profile, credit[p] > 0
               PROVE  /\ tracked'[HostOf[p]] # Null
                      /\ tracked'[HostOf[p]].age <= Allowed(p)'
    BY <1>13 DEF Tick, HeardInTime
  <2>1. /\ p \in running /\ tracked[HostOf[p]] # Null /\ tracked[HostOf[p]] \in Entry
        /\ tracked[HostOf[p]].age <= Allowed(p) /\ credit[p] \in Nat
    BY <1>a DEF TypeOK, HeardInTime
  <2>2. mail[p] = Null /\ sent[p] \in Nat /\ sent[p] < BeatEvery
    BY <1>13, <2>1 DEF Tick, TypeOK
  <2>3. sent'[p] = sent[p] + 1
    BY <1>13, <2>2, TimeAssumption DEF Tick, Least
  <2>4. tracked'[HostOf[p]] = [tracked[HostOf[p]] EXCEPT !.age = Older(@, Forgotten)]
    BY <1>13, <1>a, <2>1 DEF Tick
  <2>5. tracked[HostOf[p]].age \in 0..Forgotten
    BY <2>1 DEF Entry
  <2>6. /\ Older(tracked[HostOf[p]].age, Forgotten) \in 0..Forgotten
        /\ Older(tracked[HostOf[p]].age, Forgotten) <= tracked[HostOf[p]].age + 1
    BY <2>5, NullAssumption, TimeAssumption DEF Older, Least, Forgotten
  <2>7. tracked'[HostOf[p]] \in Entry /\ tracked'[HostOf[p]].age <= tracked[HostOf[p]].age + 1
    BY <2>1, <2>4, <2>6 DEF Entry
  <2>8. Allowed(p) = sent[p] + Lost(p) * BeatEvery
    BY <2>2 DEF Allowed
  <2>9. Allowed(p)' = sent[p] + 1 + Lost(p) * BeatEvery
    BY <1>13, <2>2, <2>3 DEF Tick, Allowed, Lost
  <2>10. Lost(p) * BeatEvery \in Int
    BY <2>1, TimeAssumption DEF Lost
  <2>11. tracked'[HostOf[p]].age \in Int
    BY <2>7, TimeAssumption DEF Entry, Forgotten
  <2>12. tracked'[HostOf[p]].age <= Allowed(p)'
    BY <2>1, <2>2, <2>5, <2>7, <2>8, <2>9, <2>10, <2>11, TimeAssumption DEF Forgotten
  <2> QED BY <2>7, <2>12, EntryAssumption
<1>14. CASE UNCHANGED vars
  BY <1>14 DEF vars, HeardInTime, Allowed, Lost
<1> QED BY <1>1, <1>2, <1>3, <1>4, <1>5, <1>6, <1>7, <1>8, <1>9, <1>10, <1>11, <1>12, <1>13, <1>14
       DEF Next, Beat, Check, Happening

(* Whom a check decides to close although it is heard is one whose windows   *)
(* it has found too many twice.                                              *)
LEMMA JudgeSpares ==
  ASSUME TypeOK, HeardInTime, LongEnough, Judge, phase' = "closing",
         NEW b \in Browser, NEW q \in running, HostOf[q] = b, credit[q] > 0,
         NEW v \in todo', PidOf[v] = b
  PROVE  tracked'[b].mismatches = 2
<1> PICK ws \in {open, {}} :
      LET bs      == {c \in Browser : grace = 0 /\ Windows(c, ws) # {}}
          ages    == SeenNow({c \in bs : ~Compliant(c)})
          entries == [c \in Browser |-> IF c \in bs THEN Compared(c, ws) ELSE tracked[c]]
          guilty  == Silent(bs, ages) \cup Unmonitored(bs, ws)
      IN  IF guilty = {} THEN End(entries, ages)
          ELSE \E pick \in [guilty -> ws] :
                 /\ \A c \in guilty : PidOf[pick[c]] = c
                 /\ todo' = {pick[c] : c \in guilty}
                 /\ phase' = "closing" /\ tracked' = entries /\ firstSeen' = ages
                 /\ UNCHANGED daemon
  BY Zenon DEF Judge
<1> DEFINE bs      == {c \in Browser : grace = 0 /\ Windows(c, ws) # {}}
           ages    == SeenNow({c \in bs : ~Compliant(c)})
           entries == [c \in Browser |-> IF c \in bs THEN Compared(c, ws) ELSE tracked[c]]
           guilty  == Silent(bs, ages) \cup Unmonitored(bs, ws)
<1>1. ~End(entries, ages)
  BY DEF End
<1>2. PICK pick \in [guilty -> ws] :
        /\ \A c \in guilty : PidOf[pick[c]] = c
        /\ todo' = {pick[c] : c \in guilty}
        /\ tracked' = entries
  BY <1>1
<1>3. b \in guilty
  <2> HIDE DEF guilty
  <2> QED BY <1>2
<1> HIDE DEF entries
<1>4. Compliant(b)
  BY HeardCompliant DEF TypeOK
<1>5. b \in Unmonitored(bs, ws)
  BY <1>3, <1>4 DEF Silent
<1>6. b \in bs /\ Compared(b, ws).mismatches = 2
  BY <1>5 DEF Unmonitored
<1> QED BY <1>2, <1>6 DEF entries

(* A browser whose extension the daemon has heard is not found silent.       *)
THEOREM HeardSpared == ASSUME LongEnough PROVE Spec => HeardIsSpared
<1> DEFINE Decides ==
      \A b \in Browser :
        /\ phase = "browsers" /\ phase' = "closing"
        /\ \E p \in running : HostOf[p] = b /\ credit[p] > 0
        /\ \E w \in todo' : PidOf[w] = b
        => tracked'[b].mismatches = 2
<1>1. Init => Inv
  BY InitTyped, InitHeard DEF Inv
<1>2. Inv /\ [Next]_vars => Inv'
  <2>1. TypeOK /\ [Next]_vars => TypeOK'
    BY EventsKept, WorldKept, BrowsersKept, DaemonKept, TypeParts, TypePartsNext
  <2> QED BY <2>1, HeardKept DEF Inv
<1>3. Inv /\ [Next]_vars => [Decides]_vars
  <2> SUFFICES ASSUME Inv, Next, NEW b \in Browser,
                      phase = "browsers", phase' = "closing",
                      NEW p \in running, HostOf[p] = b, credit[p] > 0,
                      NEW w \in todo', PidOf[w] = b
               PROVE  tracked'[b].mismatches = 2
    OBVIOUS
  <2>1. Judge
    BY DEF Next, Beat, Check, Happening, Send, Deliver, BeginCheck, AppsDone, EndCheck, LookAt,
           CloseBrowser, StartUp, Die, StartGrace, Ban, SwitchEnforcement, OpenWindow, UserCloses,
           Lose, StartExtension, StopExtension, Tick, End
  <2> QED BY <2>1, JudgeSpares DEF Inv
<1> QED BY <1>1, <1>2, <1>3, PTL DEF Spec, HeardIsSpared

===============================================================================

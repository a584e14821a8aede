----------------------------- MODULE BrowsingProofs -----------------------------
(* What the overlay of grants does to decisions, for all blocks, priorities, *)
(* patterns and grants: locked blocks win, a grant opens its page, and no    *)
(* page is opened but by a grant.  And that the budget of a day holds, from  *)
(* the order of the log: those whose day has passed are its first.           *)
EXTENDS Browsing, FiniteSetTheorems, SequenceTheorems, TLAPS

-------------------------------------------------------------------------------
(* Of a block the overlay changes the allow list only, of a locked one       *)
(* nothing.                                                                  *)
LEMMA OverlayOfLocked ==
  ASSUME NEW blocks, NEW b \in DOMAIN blocks, NEW urls, NEW some, b \in some
  PROVE  Overlay(blocks, urls, some)[b] = blocks[b]
BY DEF Overlay

(* Lists and priority stay.                                                  *)
LEMMA OverlayKeeps ==
  ASSUME NEW blocks, NEW b \in DOMAIN blocks, blocks[b] \in BlockData,
         NEW urls, NEW some, NEW field \in Field
  PROVE  /\ Overlay(blocks, urls, some)[b][field] = blocks[b][field]
         /\ Overlay(blocks, urls, some)[b].priority = blocks[b].priority
BY DEF Overlay, BlockData, Field

(* The allow list gains the grants that concern the block.                   *)
LEMMA OverlayAllows ==
  ASSUME NEW blocks, NEW b \in DOMAIN blocks, blocks[b] \in BlockData,
         NEW urls, NEW some, b \notin some, NEW url
  PROVE  url \in Overlay(blocks, urls, some)[b].allowed
           <=> url \in blocks[b].allowed \/ (url \in urls /\ Concerns(blocks[b], url))
BY DEF Overlay, BlockData

(* So the same blocks vote.                                                  *)
LEMMA SameVoters ==
  ASSUME NEW known \in SUBSET Block, NEW blocks \in [known -> BlockData],
         NEW urls, NEW some, NEW page, NEW field \in Field
  PROVE  /\ Voters(Overlay(blocks, urls, some), page, field) = Voters(blocks, page, field)
         /\ Voters(blocks, page, field) \subseteq known
<1> DEFINE laid == Overlay(blocks, urls, some)
<1>1. DOMAIN laid = known /\ DOMAIN blocks = known
  BY DEF Overlay
<1>2. \A b \in known : laid[b][field] = blocks[b][field] /\ laid[b].priority = blocks[b].priority
  <2> TAKE b \in known
  <2>1. b \in DOMAIN blocks /\ blocks[b] \in BlockData
    OBVIOUS
  <2> QED BY <2>1, OverlayKeeps
<1> HIDE DEF laid
<1>3. Caring(laid, page, field) = Caring(blocks, page, field)
  BY <1>1, <1>2 DEF Caring
<1>4. Caring(blocks, page, field) \subseteq known
  BY <1>1 DEF Caring
<1>5. Voters(laid, page, field) = Voters(blocks, page, field)
  BY <1>2, <1>3, <1>4 DEF Voters
<1> QED BY <1>4, <1>5 DEF laid, Voters

(* A URL matches the pattern it is.                                          *)
LEMMA UrlMatchesItself == ASSUME NEW url \in Url PROVE Matches(url, url)
<1>1. url # Star /\ url.host \in Above[url.host] /\ Len(url.path) \in Nat
  BY UrlAssumption
<1>2. PathUnder(url.path, url.path)
  BY <1>1 DEF PathUnder
<1> QED BY <1>1, <1>2 DEF Matches

-------------------------------------------------------------------------------
(* The blocks in force are blocks.                                           *)
LEMMA ActiveBlocks == Spec => [](active \in SUBSET Block)
<1>1. Init => active \in SUBSET Block
  BY DEF Init
<1>2. active \in SUBSET Block /\ [Next]_vars => (active \in SUBSET Block)'
  BY DEF Next, vars, blockVars, Schedule, SetLock, Request, Trouble, Fetch, Prune, Tick, Browse
<1> QED BY <1>1, <1>2, PTL DEF Spec

(* What a fetch brings: locked blocks as they are, the others with some      *)
(* grants allowed, and the same voters.                                      *)
LEMMA Fetched ==
  ASSUME active \in SUBSET Block, Fetch
  PROVE  /\ \A b \in active \cap locked : data'[b] = InForce[b]
         /\ \A b \in active \ locked : \A url :
              url \in data'[b].allowed
                <=> \/ url \in InForce[b].allowed
                    \/ url \in Granted /\ Concerns(InForce[b], url)
         /\ \A page : \A field \in Field :
              /\ Voters(data', page, field) = Voters(InForce, page, field)
              /\ Voters(InForce, page, field) \subseteq active
<1> DEFINE blocks == InForce
           urls == Granted
<1>1. blocks \in [active -> BlockData]
  BY BlockAssumption DEF InForce
<1>2. data' = Overlay(blocks, urls, locked)
  BY DEF Fetch, Receive, Served
<1> HIDE DEF blocks, urls
<1>3. \A b \in active : b \in DOMAIN blocks /\ blocks[b] \in BlockData
  BY <1>1
<1>4. \A b \in active \cap locked : data'[b] = blocks[b]
  BY <1>2, <1>3, OverlayOfLocked
<1>5. \A b \in active \ locked : \A url :
        url \in data'[b].allowed
          <=> url \in blocks[b].allowed \/ (url \in urls /\ Concerns(blocks[b], url))
  BY <1>2, <1>3, OverlayAllows
<1>6. \A page : \A field \in Field :
        /\ Voters(data', page, field) = Voters(blocks, page, field)
        /\ Voters(blocks, page, field) \subseteq active
  BY <1>1, <1>2, SameVoters
<1> QED BY <1>4, <1>5, <1>6 DEF blocks, urls

-------------------------------------------------------------------------------
(* A locked block is served as it is, so its vote is what it was, whatever   *)
(* was granted before the lock or since.                                     *)
THEOREM LocksWin == Spec => LockWins
<1> DEFINE Wins == LET blocks == InForce
                   IN \A page \in Page \cup Url, field \in Field :
                        BlockedBy(blocks, Seen(page), field, locked)
                          => Blocked(data', Seen(page), field)
<1>1. ASSUME active \in SUBSET Block, Fetch PROVE Wins
  <2> SUFFICES ASSUME NEW page, NEW field \in Field,
                      BlockedBy(InForce, page, field, locked)
               PROVE  Blocked(data', page, field)
    OBVIOUS
  <2>1. PICK b \in locked : /\ b \in Voters(InForce, page, field)
                            /\ ~AnyMatches(page, InForce[b].allowed)
    BY DEF BlockedBy
  <2>2. b \in Voters(data', page, field) /\ b \in active
    BY <1>1, <2>1, Fetched
  <2>3. data'[b] = InForce[b]
    BY <1>1, <2>1, <2>2, Fetched
  <2> QED BY <2>1, <2>2, <2>3 DEF Blocked, BlockedBy
<1>2. active \in SUBSET Block /\ [Next]_vars => [Fetch => Wins]_vars
  BY <1>1
<1> QED BY <1>2, ActiveBlocks, PTL DEF Spec, LockWins

(* The grants in the store are for URLs, and have time left or none.         *)
StoreTyped == store \in SUBSET Grant

(* A verdict's scope is the URL asked for or one the judge was free to       *)
(* name.                                                                     *)
LEMMA StoreStep == StoreTyped /\ [Next]_vars => StoreTyped'
<1> USE DEF StoreTyped
<1> SUFFICES ASSUME StoreTyped, [Next]_vars PROVE store' \in SUBSET Grant
  OBVIOUS
<1>1. CASE Request
  <2>1. PICK url \in Url, minutes \in 1..MaxMinutes, verdict \in Verdict \cup {Null},
             recorded \in BOOLEAN :
          LET entry == [age |-> 0, given |-> FALSE]
              entries == IF recorded THEN Append(log, entry) ELSE log
              allowed == Allows(url, entries, verdict)
              left == IF verdict.minutes < minutes THEN verdict.minutes ELSE minutes
          IN store' = IF allowed
                      THEN Added(store, [url |-> EnforcedTarget(url, verdict.scope),
                                         left |-> left])
                      ELSE store
    BY <1>1 DEF Request, RequestGrant
  <2> DEFINE left == IF verdict.minutes < minutes THEN verdict.minutes ELSE minutes
             target == EnforcedTarget(url, verdict.scope)
  <2>2. CASE store' = store
    BY <2>2
  <2>3. CASE verdict # Null /\ store' = Added(store, [url |-> target, left |-> left])
    <3>1. verdict \in Verdict
      BY <2>3
    <3>2. target \in Url
      BY <3>1 DEF EnforcedTarget, Verdict
    <3>3. left \in 0..MaxMinutes
      BY <3>1, GrantsAssumption DEF Verdict
    <3> QED BY <2>3, <3>2, <3>3 DEF Added, Active, Grant
  <2> QED BY <2>1, <2>2, <2>3 DEF Allows
<1>2. CASE Prune
  BY <1>2 DEF Prune, PruneExpired, Active
<1>3. CASE Tick
  <2>1. \A g \in Grant : [g EXCEPT !.left = IF @ = 0 THEN 0 ELSE @ - 1] \in Grant
    BY GrantsAssumption DEF Grant
  <2> QED BY <1>3, <2>1 DEF Tick, GrantsTick
<1>4. CASE UNCHANGED store
  BY <1>4
<1> QED BY <1>1, <1>2, <1>3, <1>4
     DEF Next, vars, grantVars, Schedule, SetLock, Trouble, Fetch, Browse

(* Unless it lists a page for the slash after its host only, a block of the  *)
(* extension's is one of the daemon's overlay too: the two matchers agree on *)
(* every other pattern, and on the root of a host.                           *)
LEMMA DaemonSeesBlock ==
  ASSUME NEW block, NEW field \in Field, NEW url, AnyMatches(url, block[field]),
         url.path = <<>> \/ ~OnlyBySlash(block, url)
  PROVE  Concerns(block, url)
<1>1. block[field] \subseteq block.blocked \cup block.media
  BY DEF Field
<1>2. CASE url.path = <<>>
  <2>1. PICK p \in block[field] : Matches(url, p)
    BY DEF AnyMatches
  <2> QED BY <1>1, <1>2, <2>1 DEF Matches, UrlMatchesPattern, Concerns
<1>3. CASE ~OnlyBySlash(block, url)
  <2>1. PICK p \in block.blocked \cup block.media :
          Matches(url, p) /\ (p = Star \/ p.path # <<Slash>>)
    BY <1>3 DEF OnlyBySlash
  <2> QED BY <2>1 DEF Matches, UrlMatchesPattern, Concerns
<1> QED BY <1>2, <1>3

(* A grant joins the allow list of every voter that is not locked and that   *)
(* the daemon's matcher sees, so that none is left to block its page but     *)
(* locked ones and those with nothing but a slash.                           *)
THEOREM GrantsOpen == Spec => GrantOpens
<1> DEFINE Missed(g) == {b \in active : g.url.path # <<>> /\ OnlyBySlash(InForce[b], g.url)}
           Opens == \A g \in store, field \in Field :
                      /\ g.left > 0 /\ Seen(g.url) = g.url
                      /\ ~BlockedBy(InForce, g.url, field, locked \cup Missed(g))
                      => ~Blocked(data', g.url, field)
<1>1. ASSUME active \in SUBSET Block, StoreTyped, Fetch PROVE Opens
  <2> SUFFICES ASSUME NEW g \in store, NEW field \in Field, g.left > 0,
                      ~BlockedBy(InForce, g.url, field, locked \cup Missed(g)),
                      Blocked(data', g.url, field)
               PROVE  FALSE
    OBVIOUS
  <2>1. PICK b \in Voters(data', g.url, field) : ~AnyMatches(g.url, data'[b].allowed)
    BY DEF Blocked
  <2>2. b \in Voters(InForce, g.url, field) /\ b \in active
    BY <1>1, <2>1, Fetched
  <2>3. b \notin locked
    <3> SUFFICES ASSUME b \in locked PROVE FALSE
      OBVIOUS
    <3>1. data'[b] = InForce[b]
      BY <1>1, <2>2, Fetched
    <3> QED BY <2>1, <2>2, <3>1 DEF Blocked, BlockedBy
  <2>4. \A url : url \in data'[b].allowed
                   <=> \/ url \in InForce[b].allowed
                       \/ url \in Granted /\ Concerns(InForce[b], url)
    BY <1>1, <2>2, <2>3, Fetched
  <2>5. g.url \in Url /\ g.url \in Granted
    BY <1>1 DEF StoreTyped, Grant, Granted, Active
  <2>6. AnyMatches(g.url, InForce[b][field])
    BY <2>2 DEF Voters, Caring
  <2>7. Concerns(InForce[b], g.url)
    <3> SUFFICES ASSUME ~Concerns(InForce[b], g.url) PROVE FALSE
      OBVIOUS
    <3>1. g.url.path # <<>> /\ OnlyBySlash(InForce[b], g.url)
      BY <2>6, DaemonSeesBlock
    <3>2. b \in Missed(g)
      BY <2>2, <3>1
    <3>3. AnyMatches(g.url, InForce[b].allowed)
      BY <2>1, <2>2, <3>2 DEF Blocked, BlockedBy
    <3>4. InForce[b].allowed \subseteq data'[b].allowed
      BY <2>4
    <3> QED BY <2>1, <3>3, <3>4 DEF AnyMatches
  <2> QED BY <2>1, <2>4, <2>5, <2>7, UrlMatchesItself DEF AnyMatches
<1>2. Spec => []StoreTyped
  <2>1. Init => StoreTyped
    BY DEF Init, GrantsInit, StoreTyped
  <2> QED BY <2>1, StoreStep, PTL DEF Spec
<1>3. active \in SUBSET Block /\ StoreTyped /\ [Next]_vars => [Fetch => Opens]_vars
  BY <1>1
<1> QED BY <1>2, <1>3, ActiveBlocks, PTL DEF Spec, GrantOpens

(* An allow list gains nothing but the URLs of grants, so a page that was    *)
(* blocked and is open lies under one of them.                               *)
THEOREM OnlyGrantsOpen == Spec => OnlyGrantedOpens
<1> DEFINE Only == LET blocks == InForce
                   IN \A page \in Page \cup Url, field \in Field :
                        ~Blocked(data', page, field)
                          => \/ ~Blocked(blocks, page, field)
                             \/ \E g \in store : g.left > 0 /\ Matches(page, g.url)
<1>1. ASSUME active \in SUBSET Block, Fetch PROVE Only
  <2> SUFFICES ASSUME NEW page, NEW field \in Field,
                      Blocked(InForce, page, field), ~Blocked(data', page, field)
               PROVE  \E g \in store : g.left > 0 /\ Matches(page, g.url)
    OBVIOUS
  <2>1. PICK b \in Voters(InForce, page, field) : ~AnyMatches(page, InForce[b].allowed)
    BY DEF Blocked
  <2>2. b \in Voters(data', page, field) /\ b \in active
    BY <1>1, <2>1, Fetched
  <2>3. AnyMatches(page, data'[b].allowed)
    BY <2>2 DEF Blocked
  <2>4. b \notin locked
    BY <1>1, <2>1, <2>2, <2>3, Fetched
  <2>5. \A url : url \in data'[b].allowed
                    <=> \/ url \in InForce[b].allowed
                        \/ url \in Granted /\ Concerns(InForce[b], url)
    BY <1>1, <2>2, <2>4, Fetched
  <2>6. PICK url \in Granted : Matches(page, url)
    BY <2>1, <2>3, <2>5 DEF AnyMatches
  <2> QED BY <2>6 DEF Granted, Active
<1>2. active \in SUBSET Block /\ [Next]_vars => [Fetch => Only]_vars
  BY <1>1
<1> QED BY <1>2, ActiveBlocks, PTL DEF Spec, OnlyGrantedOpens
-------------------------------------------------------------------------------
(* The log is sorted, the oldest request first.                              *)
OldestFirst == \A i, j \in DOMAIN log : i <= j => log[i].age >= log[j].age
LogOk == log \in Seq(Entry) /\ OldestFirst

(* The requests of a log that were given.                                    *)
Given(entries) == {i \in DOMAIN entries : entries[i].given}

(* They are no more than its length.                                         *)
LEMMA GivenIsFinite ==
  ASSUME NEW entries \in Seq(Entry)
  PROVE  /\ IsFiniteSet(Given(entries)) /\ Cardinality(Given(entries)) \in 0..Len(entries)
<1>1. Len(entries) \in Nat /\ DOMAIN entries = 1..Len(entries)
  OBVIOUS
<1>2. IsFiniteSet(1..Len(entries)) /\ Cardinality(1..Len(entries)) = Len(entries)
  BY <1>1, FS_Interval
<1>3. Given(entries) \in SUBSET (1..Len(entries))
  BY <1>1 DEF Given
<1>4. IsFiniteSet(Given(entries)) /\ Cardinality(Given(entries)) <= Len(entries)
  BY <1>2, <1>3, FS_Subset
<1> QED BY <1>1, <1>4, FS_CardinalityType

(* A request adds at most itself to those given, and only if it still fits.  *)
LEMMA RequestLog ==
  ASSUME LogOk, BudgetHolds, RequestGrant
  PROVE  LogOk' /\ BudgetHolds'
<1>1. PICK url \in Url, verdict \in Verdict \cup {Null}, recorded \in BOOLEAN :
        LET entry == [age |-> 0, given |-> FALSE]
            entries == IF recorded THEN Append(log, entry) ELSE log
            allowed == Allows(url, entries, verdict)
        IN log' = IF recorded THEN Append(log, [entry EXCEPT !.given = allowed]) ELSE log
  BY DEF RequestGrant
<1>2. CASE ~recorded
  BY <1>1, <1>2 DEF LogOk, OldestFirst, BudgetHolds
<1>3. CASE recorded
  <2> DEFINE entries == Append(log, [age |-> 0, given |-> FALSE])
             allowed == Allows(url, entries, verdict)
             new == [age |-> 0, given |-> allowed]
  <2>1. log' = Append(log, new) /\ allowed \in BOOLEAN
    <3>1. allowed \in BOOLEAN
      BY DEF Allows
    <3>2. log' = Append(log, [[age |-> 0, given |-> FALSE] EXCEPT !.given = allowed])
      BY <1>1, <1>3
    <3>3. [[age |-> 0, given |-> FALSE] EXCEPT !.given = allowed] = new
      OBVIOUS
    <3> QED BY <3>1, <3>2, <3>3
  <2>2. new \in Entry /\ new.age = 0 /\ new.given = allowed
    BY <2>1, GrantsAssumption DEF Entry
  <2>3. [age |-> 0, given |-> FALSE] \in Entry
    BY GrantsAssumption DEF Entry
  <2>4. log \in Seq(Entry) /\ Len(log) \in Nat
    BY DEF LogOk
  <2>5. allowed => Len(log) + 1 < Limit
    BY <2>3, <2>4 DEF Allows, WithinLimit
  <2> HIDE DEF new, allowed, entries
  <2>6. /\ log' \in Seq(Entry) /\ Len(log') = Len(log) + 1
        /\ \A i \in 1..Len(log) : log'[i] = log[i]
        /\ log'[Len(log) + 1] = new
    BY <2>1, <2>2, <2>4, AppendProperties
  <2>7. DOMAIN log' = 1..(Len(log) + 1) /\ DOMAIN log = 1..Len(log)
    BY <2>4, <2>6
  <2>8. \A i \in 1..Len(log) : log[i].age \in Nat
    <3>1. \A e \in Entry : e.age \in Nat
      BY GrantsAssumption DEF Entry
    <3> QED BY <2>4, <3>1, ElementOfSeq
  <2>9. OldestFirst'
    BY <2>2, <2>4, <2>6, <2>7, <2>8 DEF LogOk, OldestFirst
  <2>10. CASE allowed
    <3>1. Cardinality(Given(log')) \in 0..Len(log')
      BY <2>6, GivenIsFinite
    <3> QED BY <2>4, <2>5, <2>6, <2>9, <2>10, <3>1, GrantsAssumption DEF LogOk, BudgetHolds, Given
  <2>11. CASE ~allowed
    <3>1. Given(log') = Given(log)
      BY <2>2, <2>4, <2>6, <2>7, <2>11 DEF Given
    <3> QED BY <2>6, <2>9, <3>1 DEF LogOk, BudgetHolds, Given
  <2> QED BY <2>10, <2>11
<1> QED BY <1>2, <1>3

(* A day passes for the first gone of them.                                  *)
LEMMA TickLog ==
  ASSUME LogOk, BudgetHolds, log' = OlderEntries(log)
  PROVE  LogOk' /\ BudgetHolds'
<1> DEFINE old == {i \in DOMAIN log : log[i].age >= Day}
           gone == Cardinality(old)
<1>1. log \in Seq(Entry) /\ Len(log) \in Nat /\ DOMAIN log = 1..Len(log)
  BY DEF LogOk
<1>2. \A i \in 1..Len(log) : /\ log[i] \in Entry
                             /\ log[i].age \in Nat /\ log[i].given \in BOOLEAN
  <2>1. \A e \in Entry : e.age \in Nat /\ e.given \in BOOLEAN
    BY GrantsAssumption DEF Entry
  <2> QED BY <1>1, <2>1, ElementOfSeq
<1>3. IsFiniteSet(old) /\ gone \in Nat /\ gone <= Len(log)
  <2>1. IsFiniteSet(1..Len(log)) /\ Cardinality(1..Len(log)) = Len(log)
    BY <1>1, FS_Interval
  <2>2. old \in SUBSET (1..Len(log))
    BY <1>1
  <2>3. IsFiniteSet(old) /\ gone <= Len(log)
    BY <2>1, <2>2, FS_Subset
  <2> QED BY <2>3, FS_CardinalityType
<1>4. \A i \in old : i <= gone
  <2> SUFFICES ASSUME NEW i \in old PROVE i <= gone
    OBVIOUS
  <2>1. i \in Nat /\ i \in 1..Len(log) /\ log[i].age >= Day
    BY <1>1
  <2>2. 1..i \in SUBSET old
    BY <1>1, <1>2, <2>1, GrantsAssumption DEF LogOk, OldestFirst
  <2>3. Cardinality(1..i) = i
    BY <2>1, FS_Interval
  <2>4. Cardinality(1..i) <= gone
    BY <1>3, <2>2, FS_Subset
  <2> QED BY <2>3, <2>4
<1> DEFINE n == Len(log) - gone
<1>5. log' = [i \in 1..n |-> [log[gone + i] EXCEPT !.age = @ + 1]] /\ n \in Nat
  BY <1>1, <1>3 DEF OlderEntries
<1> HIDE DEF old, gone
<1>6. \A i \in 1..n : gone + i \in 1..Len(log) /\ gone + i \notin old
  BY <1>1, <1>3, <1>4
<1> HIDE DEF n
<1>7. \A i \in 1..n : gone + i \in DOMAIN log /\ log[gone + i].age < Day
  BY <1>1, <1>2, <1>6, GrantsAssumption DEF old
<1>8. DOMAIN log' = 1..n
  BY <1>5
<1>9. \A i \in 1..n : /\ log'[i] \in Entry
                      /\ log'[i].age = log[gone + i].age + 1
                      /\ log'[i].given = log[gone + i].given
  <2> TAKE i \in 1..n
  <2> DEFINE e == log[gone + i]
  <2>1. e \in Entry /\ e.age < Day /\ e.age \in Nat
    BY <1>1, <1>2, <1>7
  <2>2. log'[i] = [e EXCEPT !.age = @ + 1]
    BY <1>5
  <2> HIDE DEF e
  <2> QED BY <2>1, <2>2, GrantsAssumption DEF Entry, e
<1>10. log' \in Seq(Entry)
  BY <1>5, <1>9
<1>11. OldestFirst'
  <2> SUFFICES ASSUME NEW i \in 1..n, NEW j \in 1..n, i <= j PROVE log'[i].age >= log'[j].age
    BY <1>8 DEF OldestFirst
  <2>1. log[gone + i].age >= log[gone + j].age
    BY <1>3, <1>5, <1>7 DEF LogOk, OldestFirst
  <2>2. log[gone + i].age \in Nat /\ log[gone + j].age \in Nat
    BY <1>1, <1>2, <1>7
  <2> QED BY <1>9, <2>1, <2>2
<1>12. Cardinality(Given(log')) <= Cardinality(Given(log))
  <2> DEFINE f == [i \in Given(log') |-> gone + i]
  <2>1. Given(log') \subseteq 1..n
    BY <1>8 DEF Given
  <2>2. \A i \in Given(log') : gone + i \in Given(log)
    BY <1>7, <1>9, <2>1 DEF Given
  <2>3. \A i, j \in Given(log') : gone + i = gone + j => i = j
    BY <1>3, <1>5, <2>1
  <2>4. f \in Injection(Given(log'), Given(log))
    BY <2>2, <2>3 DEF Injection, IsInjective
  <2>5. IsFiniteSet(Given(log))
    BY <1>1, GivenIsFinite
  <2> QED BY <2>4, <2>5, FS_Injection
<1>13. Cardinality(Given(log)) \in Nat /\ Cardinality(Given(log')) \in Nat
  BY <1>1, <1>10, GivenIsFinite, FS_CardinalityType
<1>14. BudgetHolds'
  BY <1>12, <1>13, GrantsAssumption DEF BudgetHolds, Given
<1> QED BY <1>10, <1>11, <1>14 DEF LogOk

(* The log changes with requests and with time only.                         *)
LEMMA LogStep == LogOk /\ BudgetHolds /\ [Next]_vars => (LogOk /\ BudgetHolds)'
<1> SUFFICES ASSUME LogOk, BudgetHolds, [Next]_vars PROVE (LogOk /\ BudgetHolds)'
  OBVIOUS
<1>1. CASE Request
  BY <1>1, RequestLog DEF Request
<1>2. CASE Tick
  BY <1>2, TickLog DEF Tick, GrantsTick
<1>3. CASE UNCHANGED log
  BY <1>3 DEF LogOk, OldestFirst, BudgetHolds
<1> QED BY <1>1, <1>2, <1>3
     DEF Next, vars, grantVars, Schedule, SetLock, Trouble, Fetch, Prune, PruneExpired, Browse

(* What an earlier daemon left is within the budget: of its log only the     *)
(* first Limit can have been given.                                          *)
LEMMA InitLog == Init => LogOk /\ BudgetHolds
<1> SUFFICES ASSUME log \in Earlier PROVE LogOk /\ BudgetHolds
  BY DEF Init, GrantsInit
<1>1. LogOk
  BY EarlierAssumption DEF LogOk, OldestFirst
<1>2. DOMAIN log = 1..Len(log) /\ Len(log) \in Nat
  BY <1>1 DEF LogOk
<1>3. Given(log) \in SUBSET (1..Limit)
  BY <1>2, EarlierAssumption, GrantsAssumption DEF Given
<1>4. IsFiniteSet(1..Limit) /\ Cardinality(1..Limit) = Limit
  BY GrantsAssumption, FS_Interval
<1>5. Cardinality(Given(log)) <= Limit
  BY <1>3, <1>4, FS_Subset
<1> QED BY <1>1, <1>5 DEF BudgetHolds, Given

(* However requests and days are mixed, no more than Limit of the requests   *)
(* of a day were given: the log counts a request before anything can drop    *)
(* it.                                                                       *)
THEOREM BudgetIsKept == Spec => []BudgetHolds
BY InitLog, LogStep, PTL DEF Spec
-------------------------------------------------------------------------------
(* Types.                                                                    *)
DataTyped == \E known \in SUBSET Block : data \in [known -> BlockData]

(* The allow lists that are served hold patterns.                            *)
LEMMA ServedIsTyped ==
  ASSUME active \in SUBSET Block, StoreTyped
  PROVE  Served \in [active -> BlockData]
<1>1. InForce \in [active -> BlockData]
  BY BlockAssumption DEF InForce
<1>2. Granted \subseteq Pattern
  BY BlockAssumption DEF Granted, Active, StoreTyped, Grant
<1>3. ASSUME NEW b \in active PROVE Served[b] \in BlockData
  <2>1. InForce[b] \in BlockData
    BY <1>1
  <2>2. Served[b] = IF b \in locked
                    THEN InForce[b]
                    ELSE [InForce[b] EXCEPT !.allowed =
                            @ \cup {url \in Granted : Concerns(InForce[b], url)}]
    BY <1>1 DEF Served, Overlay
  <2> QED BY <1>2, <2>1, <2>2 DEF BlockData
<1>4. Served = [b \in active |-> Served[b]]
  BY <1>1 DEF Served, Overlay
<1> QED BY <1>3, <1>4

(* A sequence without one of its elements.                                   *)
LEMMA RemoveAtIsSeq ==
  ASSUME NEW S, NEW s \in Seq(S), NEW i \in DOMAIN s
  PROVE  RemoveAt(s, i) \in Seq(S)
<1>1. i \in 1..Len(s) /\ Len(s) \in Nat
  OBVIOUS
<1>2. /\ \A j \in 1..(i - 1) : s[j] \in S
      /\ \A j \in (i + 1)..Len(s) : s[j] \in S
  BY <1>1
<1>3. SubSeq(s, 1, i - 1) \in Seq(S)
  BY <1>1, <1>2, SubSeqProperties
<1>4. SubSeq(s, i + 1, Len(s)) \in Seq(S)
  BY <1>1, <1>2, SubSeqProperties
<1> QED BY <1>3, <1>4, ConcatProperties DEF RemoveAt

(* Reports leave redirects to pages, or to the blocked page, behind.         *)
LEMMA CheckIsTyped ==
  ASSUME NEW page \in Page, NEW calls \in Seq(Redirect), CheckBlock(page, calls),
         cache \in Page \cup {Nowhere}
  PROVE  cache' \in Page \cup {Nowhere} /\ redirects' \in Seq(Redirect)
<1>1. [from |-> page, to |-> BlockedPage] \in Redirect
  BY DEF Redirect
<1>2. Append(calls, [from |-> page, to |-> BlockedPage]) \in Seq(Redirect)
  BY <1>1, AppendProperties
<1> QED BY <1>2 DEF CheckBlock

(* ... after the check for safe search as well.                              *)
LEMMA HandleIsTyped ==
  ASSUME NEW page \in Page, Handle(page), NavigationTypeOK
  PROVE  cache' \in Page \cup {Nowhere} /\ redirects' \in Seq(Redirect)
<1>1. cache \in Page \cup {Nowhere} /\ redirects \in Seq(Redirect)
  BY DEF NavigationTypeOK
<1>2. [from |-> page, to |-> Safe[page]] \in Redirect
  BY NavigationAssumption DEF Redirect
<1>3. Append(redirects, [from |-> page, to |-> Safe[page]]) \in Seq(Redirect)
  BY <1>1, <1>2, AppendProperties
<1> QED BY <1>1, <1>3, CheckIsTyped DEF Handle

(* Only pages wait for the media rules.                                      *)
LEMMA StartIsTyped ==
  ASSUME NEW page, ReportStart(page), NavigationTypeOK
  PROVE  waiting' \in Seq(Page)
<1>1. waiting \in Seq(Page)
  BY DEF NavigationTypeOK
<1> QED BY <1>1, AppendProperties DEF ReportStart

(* The steps of tab and worker.                                              *)
LEMMA NavigationTyped ==
  ASSUME NavigationTypeOK, NavigationStep \/ Disturb \/ UNCHANGED navVars
  PROVE  NavigationTypeOK' /\ (DataTyped => DataTyped')
<1> USE DEF NavigationTypeOK
<1>1. CASE UNCHANGED navVars
  BY <1>1 DEF navVars, DataTyped
<1>2. CASE Resume
  <2>1. PICK i \in DOMAIN waiting :
          /\ waiting' = RemoveAt(waiting, i) /\ Handle(waiting[i])
          /\ UNCHANGED <<data, safeSearch, tab>>
    BY <1>2 DEF Resume
  <2>2. waiting' \in Seq(Page) /\ waiting[i] \in Page
    BY <2>1, RemoveAtIsSeq
  <2>3. cache' \in Page \cup {Nowhere} /\ redirects' \in Seq(Redirect)
    BY <2>1, <2>2, HandleIsTyped
  <2> QED BY <2>1, <2>2, <2>3 DEF DataTyped
<1>3. CASE Navigate \/ PushState
  <2>1. PICK page \in Page :
          /\ ReportStart(page)
          /\ \/ tab' = [tab EXCEPT !.loading = page]
             \/ tab' = [tab EXCEPT !.shown = page]
          /\ UNCHANGED <<data, safeSearch, cache, redirects>>
    BY <1>3 DEF Navigate, PushState
  <2>2. waiting' \in Seq(Page)
    BY <2>1, StartIsTyped
  <2>3. tab' \in Tab
    BY <2>1 DEF Tab
  <2> QED BY <2>1, <2>2, <2>3 DEF DataTyped
<1>4. CASE Commit \/ Parse
  <2>1. PICK page \in {tab.loading, tab.shown} : Report(page)
    BY <1>4 DEF Commit, Parse
  <2>2. cache' \in Page \cup {Nowhere} /\ redirects' \in Seq(Redirect)
    BY <2>1, HandleIsTyped DEF Report
  <2>3. tab' \in Tab
    <3>1. tab.loading \in Page \cup {Nowhere, BlockedPage}
      BY DEF Tab
    <3>2. ASSUME Commit PROVE tab' \in Tab
      <4> DEFINE isPage == tab.loading \in Page
      <4>1. tab' = [shown |-> tab.loading, loading |-> Nowhere, parsing |-> isPage]
        BY <3>2 DEF Commit
      <4>2. isPage \in BOOLEAN
        OBVIOUS
      <4> HIDE DEF isPage
      <4> QED BY <3>1, <4>1, <4>2 DEF Tab
    <3>3. CASE Parse
      BY <3>3 DEF Parse, Tab
    <3> QED BY <1>4, <3>2, <3>3
  <2> QED BY <1>4, <2>2, <2>3 DEF Commit, Parse, DataTyped
<1>5. CASE Update
  <2>1. Head(redirects) \in Redirect /\ Tail(redirects) \in Seq(Redirect)
    BY <1>5, HeadTailProperties DEF Update
  <2>2. waiting' \in Seq(Page)
    BY <1>5, StartIsTyped DEF Update
  <2>3. Head(redirects).to \in Page \cup {Nowhere, BlockedPage}
    BY <2>1 DEF Redirect
  <2>4. tab' \in Tab
    BY <1>5, <2>3 DEF Update, Tab
  <2> QED BY <1>5, <2>1, <2>2, <2>4 DEF Update, DataTyped
<1>6. CASE UpdateFails
  <2>1. Head(redirects) \in Redirect /\ Tail(redirects) \in Seq(Redirect)
    BY <1>6, HeadTailProperties DEF UpdateFails
  <2>2. cache' \in Page \cup {Nowhere} /\ redirects' \in Seq(Redirect)
    BY <1>6, <2>1, CheckIsTyped DEF UpdateFails, Redirect
  <2> QED BY <1>6, <2>2 DEF UpdateFails, DataTyped
<1>7. CASE Expire
  BY <1>7 DEF Expire, DataTyped
<1>8. CASE Restart
  <2>1. NoBlocks \in [{} -> BlockData]
    BY DEF NoBlocks
  <2>2. DataTyped'
    BY <1>8, <2>1 DEF Restart, DataTyped
  <2> QED BY <1>8, <2>2 DEF Restart
<1> QED BY <1>1, <1>2, <1>3, <1>4, <1>5, <1>6, <1>7, <1>8 DEF NavigationStep, Disturb

(* Every variable keeps its type.                                            *)
THEOREM TypeCorrect == Spec => []TypeOK
<1> DEFINE Typed == TypeOK /\ LogOk /\ BudgetHolds
<1>1. Init => Typed
  <2> SUFFICES ASSUME Init PROVE TypeOK
    BY InitLog
  <2>1. GrantsTypeOK
    BY InitLog DEF Init, GrantsInit, GrantsTypeOK, LogOk
  <2>2. NavigationTypeOK
    <3>1. << >> \in Seq(Page) /\ << >> \in Seq(Redirect)
      OBVIOUS
    <3> QED BY <3>1 DEF Init, NavigationInit, NavigationTypeOK, Tab
  <2>3. NoBlocks \in [{} -> BlockData]
    BY DEF NoBlocks
  <2>4. data = NoBlocks
    BY DEF Init, NavigationInit
  <2>5. DataTyped
    BY <2>3, <2>4 DEF DataTyped
  <2> QED BY <2>1, <2>2, <2>5, MovesAssumption DEF Init, TypeOK, DataTyped
<1>2. Typed /\ [Next]_vars => Typed'
  <2> SUFFICES ASSUME Typed, [Next]_vars PROVE TypeOK'
    BY LogStep
  <2>1. GrantsTypeOK'
    BY LogStep, StoreStep DEF TypeOK, GrantsTypeOK, LogOk, StoreTyped
  <2>2. moves' \in 0..MaxMoves
    BY MovesAssumption DEF TypeOK, Next, vars, Move, Schedule, SetLock, Request, Trouble, Fetch,
                           Prune, Tick, Browse
  <2>3. active' \in SUBSET Block /\ locked' \in SUBSET Block
    BY DEF TypeOK, Next, vars, blockVars, Schedule, SetLock, Request, Trouble, Fetch, Prune,
           Tick, Browse
  <2>4. NavigationTypeOK' /\ DataTyped'
    <3>1. CASE Fetch
      <4>1. Served \in [active -> BlockData]
        BY ServedIsTyped DEF TypeOK, GrantsTypeOK, StoreTyped
      <4> QED BY <3>1, <4>1 DEF Fetch, Receive, TypeOK, NavigationTypeOK, DataTyped
    <3>2. CASE NavigationStep \/ Disturb \/ UNCHANGED navVars
      BY <3>2, NavigationTyped DEF TypeOK, DataTyped
    <3> QED BY <3>1, <3>2 DEF Next, vars, Schedule, SetLock, Request, Trouble, Prune, Tick, Browse
  <2> QED BY <2>1, <2>2, <2>3, <2>4 DEF TypeOK, DataTyped
<1> QED BY <1>1, <1>2, PTL DEF Spec
===============================================================================

----------------------------- MODULE MediaRulesProofs -----------------------------
(* What the refreshes of the media rules do, however many overlap: the rules *)
(* in the browser stay rules of the extension, with the ids it gives them,   *)
(* and a refresh that is up to date never uncovers a page.                   *)
EXTENDS MediaRules, FiniteSetTheorems, SequenceTheorems, TLAPS

(* A rule to be added, and a refresh under way.                              *)
Addition == [id : {1, 5}, rule : HostRule]
Refreshing ==
  [stage : {"none", "list", "remove", "add", "ids", "replace"}, add : Seq(Addition),
   old : SUBSET Nat, urls : UNION {[some -> Page] : some \in SUBSET Tab}, new : Seq(TabRule)]

(* Blocks and tabs.                                                          *)
Rest ==
  /\ served \in Lists
  /\ blocks \in Lists \cup {NoBlocks}
  /\ tabs \in [Tab -> [shown : Page \cup {Nowhere}, loading : Page \cup {Nowhere}]]
  /\ moves \in 0..MaxMoves
(* What the browser holds: a block and an allow for hosts, rules for tabs.   *)
RulesOk ==
  /\ DOMAIN dynamic \subseteq {1, 5} /\ Range(dynamic) \subseteq HostRule
  /\ DOMAIN session \subseteq 1..Cardinality(Tab) /\ Range(session) \subseteq TabRule
(* What the refreshes bring: no more rules for tabs than there are tabs.     *)
RefreshOk ==
  /\ refresh \in [Slot -> Refreshing]
  /\ \A s \in Slot : Len(refresh[s].new) <= Cardinality(Tab)
(* The invariant.                                                            *)
Inv == Rest /\ RulesOk /\ RefreshOk

-----------------------------------------------------------------------------
(* The rules compiled from blocks.                                           *)

(* A set in some order.                                                      *)
LEMMA Enumerated ==
  ASSUME NEW S, IsFiniteSet(S)
  PROVE  /\ SetToSeq(S) \in Seq(S)
         /\ Len(SetToSeq(S)) = Cardinality(S)
         /\ \A x \in S : \E i \in 1..Len(SetToSeq(S)) : SetToSeq(S)[i] = x
<1> DEFINE n == Cardinality(S)
           f == SetToSeq(S)
<1>1. n \in Nat /\ ExistsBijection(1..n, S)
  BY FS_CardinalityType
<1>2. \E g \in [1..n -> S] : IsInjective(g)
  BY <1>1 DEF ExistsBijection, Bijection, Injection
<1>3. f \in [1..n -> S] /\ IsInjective(f)
  BY <1>2 DEF SetToSeq
<1>4. IsFiniteSet(1..n) /\ Cardinality(1..n) = n
  BY <1>1, FS_Interval
<1>5. f \in Injection(1..n, S)
  BY <1>3 DEF Injection
<1>6. f \in Surjection(1..n, S)
  BY <1>4, <1>5, FS_Injection
<1> HIDE DEF f, n
<1>7. f \in Seq(S) /\ Len(f) = n
  BY <1>1, <1>3
<1>8. \A x \in S : \E i \in 1..n : f[i] = x
  BY <1>6 DEF Surjection
<1> QED BY <1>7, <1>8 DEF f, n

(* One rule for each tab of a sequence.                                      *)
LEMMA RulesOf ==
  ASSUME NEW some \in SUBSET Tab, NEW s \in Seq(some), NEW action \in {"block", "allow"},
         \A t \in some : \E i \in 1..Len(s) : s[i] = t
  PROVE  LET rules == [i \in 1..Len(s) |-> Rule(action, {s[i]})]
         IN /\ rules \in Seq(TabRule) /\ Len(rules) = Len(s)
            /\ Range(rules) = {Rule(action, {t}) : t \in some}
<1> DEFINE rules == [i \in 1..Len(s) |-> Rule(action, {s[i]})]
<1>1. Len(s) \in Nat
  OBVIOUS
<1>2. \A i \in 1..Len(s) : s[i] \in some
  BY ElementOfSeq
<1>3. \A t \in Tab : Rule(action, {t}) \in TabRule
  BY DEF Rule, TabRule
<1>4. \A i \in 1..Len(s) : Rule(action, {s[i]}) \in TabRule
  BY <1>2, <1>3
<1>5. rules \in [1..Len(s) -> TabRule]
  BY <1>4
<1>6. Range(rules) = {Rule(action, {t}) : t \in some}
  BY <1>2 DEF Range
<1> HIDE DEF rules
<1>7. rules \in Seq(TabRule) /\ Len(rules) = Len(s)
  BY <1>1, <1>5
<1> QED BY <1>6, <1>7 DEF rules

(* The rules for tabs are one for each tab with media and one for each that  *)
(* is allowed, and no tab is both.                                           *)
LEMMA SessionRules ==
  ASSUME NEW list, NEW urls
  PROVE  /\ BuildSession(list, urls) \in Seq(TabRule)
         /\ Len(BuildSession(list, urls)) <= Cardinality(Tab)
         /\ Range(BuildSession(list, urls))
              = {Rule("block", {t}) : t \in MediaTabs(list, urls)}
                  \cup {Rule("allow", {t}) : t \in AllowTabs(list, urls)}
<1> DEFINE M == MediaTabs(list, urls)
           A == AllowTabs(list, urls)
           m == SetToSeq(M)
           a == SetToSeq(A)
           block == [i \in 1..Len(m) |-> Rule("block", {m[i]})]
           allow == [i \in 1..Len(a) |-> Rule("allow", {a[i]})]
<1>1. M \in SUBSET Tab /\ A \in SUBSET Tab /\ M \cap A = {}
  BY DEF MediaTabs, AllowTabs
<1>2. IsFiniteSet(M) /\ IsFiniteSet(A) /\ IsFiniteSet(Tab)
  BY <1>1, MediaAssumption, FS_Subset
<1>3. BuildSession(list, urls) = block \o allow
  BY DEF BuildSession
<1> HIDE DEF M, A
<1>4. /\ m \in Seq(M) /\ Len(m) = Cardinality(M)
      /\ \A x \in M : \E i \in 1..Len(m) : m[i] = x
  BY <1>2, Enumerated
<1>5. /\ a \in Seq(A) /\ Len(a) = Cardinality(A)
      /\ \A x \in A : \E i \in 1..Len(a) : a[i] = x
  BY <1>2, Enumerated
<1> HIDE DEF m, a
<1>6. Len(m) \in Nat /\ Len(a) \in Nat
  BY <1>4, <1>5
<1>7. Len(m) + Len(a) <= Cardinality(Tab)
  <2>1. Cardinality(M \cup A) = Cardinality(M) + Cardinality(A)
    <3>1. Cardinality(M \cap A) = 0
      BY <1>1, FS_EmptySet
    <3>2. Cardinality(M \cup A) = Cardinality(M) + Cardinality(A) - Cardinality(M \cap A)
      BY <1>2, FS_Union
    <3> QED BY <1>4, <1>5, <1>6, <3>1, <3>2
  <2>2. Cardinality(M \cup A) <= Cardinality(Tab)
    BY <1>1, <1>2, FS_Subset
  <2> QED BY <1>4, <1>5, <2>1, <2>2
<1>8. /\ block \in Seq(TabRule) /\ Len(block) = Len(m)
      /\ Range(block) = {Rule("block", {t}) : t \in M}
  BY <1>1, <1>4, RulesOf
<1>9. /\ allow \in Seq(TabRule) /\ Len(allow) = Len(a)
      /\ Range(allow) = {Rule("allow", {t}) : t \in A}
  BY <1>1, <1>5, RulesOf
<1> HIDE DEF block, allow
<1>10. block \o allow \in Seq(TabRule) /\ Len(block \o allow) = Len(m) + Len(a)
  <2>1. block \in Seq(TabRule) /\ allow \in Seq(TabRule)
    BY <1>8, <1>9
  <2>2. block \o allow \in Seq(TabRule) /\ Len(block \o allow) = Len(block) + Len(allow)
    BY <2>1, ConcatProperties
  <2> QED BY <1>8, <1>9, <2>2
<1>11. Range(block \o allow) = Range(block) \cup Range(allow)
  BY <1>8, <1>9, RangeConcatenation
<1> QED BY <1>3, <1>7, <1>8, <1>9, <1>10, <1>11 DEF M, A

(* The rules for hosts: at most a block and an allow, and the allow for the  *)
(* hosts whose media a catch-all leaves alone and all hosts under them.      *)
LEMMA DynamicRules ==
  ASSUME NEW list
  PROVE  /\ BuildDynamic(list) \in Seq(Addition)
         /\ \A add \in Range(BuildDynamic(list)) :
              \/ add.rule.action = "block"
              \/ /\ HasMediaCatchAll(list)
                 /\ add.rule = Rule("allow", Under(AllowDomains(list)))
<1> DEFINE catchAll == HasMediaCatchAll(list)
           allow == IF catchAll THEN AllowDomains(list) ELSE {}
           block == IF catchAll THEN Host \ Under(Protected \cup allow)
                    ELSE Under(InitiatorDomains(list))
           B == [id |-> 1, rule |-> Rule("block", block)]
           A == [id |-> 5, rule |-> Rule("allow", Under(allow))]
           first == IF catchAll \/ block # {} THEN <<B>> ELSE <<>>
           second == IF allow # {} THEN <<A>> ELSE <<>>
<1>1. \A hosts : Under(hosts) \subseteq Host
  BY DEF Under
<1>2. block \subseteq Host /\ Under(allow) \subseteq Host
  BY <1>1
<1>3. /\ B \in Addition /\ B.rule.action = "block"
      /\ A \in Addition /\ A.rule = Rule("allow", Under(allow))
  BY <1>2 DEF Addition, HostRule, Rule
<1>4. allow # {} => catchAll /\ allow = AllowDomains(list)
  OBVIOUS
<1>5. BuildDynamic(list) = first \o second
  BY DEF BuildDynamic
<1> HIDE DEF A, B, allow, block, catchAll
<1>6. first \in Seq(Addition) /\ Range(first) \subseteq {B}
  BY <1>3 DEF Range
<1>7. second \in Seq(Addition) /\ Range(second) \subseteq {A} /\ (second # <<>> => allow # {})
  BY <1>3 DEF Range
<1>8. Range(second) # {} => allow # {}
  BY DEF Range
<1> HIDE DEF first, second
<1>9. first \o second \in Seq(Addition)
  BY <1>6, <1>7, ConcatProperties
<1>10. Range(first \o second) = Range(first) \cup Range(second)
  BY <1>6, <1>7, RangeConcatenation
<1> QED BY <1>3, <1>4, <1>5, <1>6, <1>7, <1>8, <1>9, <1>10 DEF catchAll, allow
-----------------------------------------------------------------------------
(* The inductive invariant.                                                  *)

(* There are so many tabs.                                                   *)
LEMMA TabsCount == Cardinality(Tab) \in Nat
BY MediaAssumption, FS_CardinalityType

(* No refresh is one; nor is a refresh that begins more than its rules.      *)
LEMMA NoRefreshIsOk == NoRefresh \in Refreshing /\ Len(NoRefresh.new) <= Cardinality(Tab)
<1>1. << >> \in Seq(Addition) /\ << >> \in Seq(TabRule) /\ << >> \in [{} -> Page]
  OBVIOUS
<1>2. NoRefresh \in Refreshing
  BY <1>1 DEF NoRefresh, Refreshing
<1>3. Len(NoRefresh.new) = 0
  BY DEF NoRefresh
<1> QED BY <1>2, <1>3, TabsCount

(* ... and one that has just begun.                                          *)
LEMMA BeginIsOk ==
  ASSUME NEW list, NEW some \in SUBSET Tab, NEW urls \in [some -> Page]
  PROVE  Begin(list, urls) \in Refreshing /\ Len(Begin(list, urls).new) <= Cardinality(Tab)
<1>1. BuildDynamic(list) \in Seq(Addition)
  BY DynamicRules
<1>2. Begin(list, urls).new = NoRefresh.new
  BY DEF Begin, NoRefresh
<1>3. Begin(list, urls) \in Refreshing
  BY <1>1, NoRefreshIsOk DEF Begin, Refreshing
<1> QED BY <1>2, <1>3, NoRefreshIsOk

(* A step of one refresh.                                                    *)
LEMMA OneRefresh ==
  ASSUME RefreshOk, NEW s \in Slot, NEW r \in Refreshing, Len(r.new) <= Cardinality(Tab),
         refresh' = [refresh EXCEPT ![s] = r]
  PROVE  RefreshOk'
BY DEF RefreshOk

(* A refresh for what happened in a tab begins.                              *)
LEMMA BeginForOk ==
  ASSUME RefreshOk, NEW list, NEW some \in SUBSET Tab, NEW urls \in [some -> Page],
         BeginFor(list, urls)
  PROVE  RefreshOk'
<1>1. PICK s \in Slot : refresh' = [refresh EXCEPT ![s] = Begin(list, urls)]
  BY DEF BeginFor
<1>2. /\ Begin(list, urls) \in Refreshing
      /\ Len(Begin(list, urls).new) <= Cardinality(Tab)
  BY BeginIsOk
<1> QED BY <1>1, <1>2, OneRefresh

(* The steps of a refresh.                                                   *)
LEMMA StepInv == ASSUME Inv, NEW s \in Slot, Step(s) PROVE Inv'
<1> DEFINE r == refresh[s]
<1>1. /\ r \in Refreshing /\ Len(r.new) <= Cardinality(Tab)
      /\ refresh \in [Slot -> Refreshing]
  BY DEF Inv, RefreshOk
<1>2. DOMAIN dynamic \subseteq Nat /\ DOMAIN session \subseteq Nat
  BY TabsCount DEF Inv, RulesOk
<1>3. CASE ListDynamic(s) \/ ListSession(s)
  <2> DEFINE next(stage, old) == [r EXCEPT !.stage = stage, !.old = old]
  <2>1. PICK stage \in {"remove", "replace"}, old \in {DOMAIN dynamic, DOMAIN session} :
          refresh' = [refresh EXCEPT ![s] = next(stage, old)]
    BY <1>1, <1>3 DEF ListDynamic, ListSession
  <2>2. next(stage, old) \in Refreshing /\ next(stage, old).new = r.new
    BY <1>1, <1>2 DEF Refreshing
  <2>3. RefreshOk'
    BY <1>1, <2>1, <2>2, OneRefresh DEF Inv
  <2> QED BY <1>3, <2>3 DEF ListDynamic, ListSession, browser, Inv, Rest, RulesOk
<1>4. CASE RemoveDynamic(s)
  <2> DEFINE next == [r EXCEPT !.stage = "add", !.old = {}]
  <2>1. refresh' = [refresh EXCEPT ![s] = next]
    BY <1>1, <1>4 DEF RemoveDynamic
  <2>2. next \in Refreshing /\ next.new = r.new
    BY <1>1 DEF Refreshing
  <2>3. RefreshOk'
    BY <1>1, <2>1, <2>2, OneRefresh DEF Inv
  <2>4. RulesOk'
    BY <1>4 DEF RemoveDynamic, Inv, RulesOk, Range
  <2> QED BY <1>4, <2>3, <2>4 DEF RemoveDynamic, Inv, Rest
<1>5. CASE AddDynamic(s)
  <2> DEFINE next == [r EXCEPT !.add = Tail(@)]
             add == Head(r.add)
  <2>1. r.add \in Seq(Addition) /\ r.add # <<>>
    BY <1>1, <1>5 DEF Refreshing, AddDynamic
  <2>2. add \in Addition /\ Tail(r.add) \in Seq(Addition)
    BY <2>1, HeadTailProperties
  <2>3. refresh' = [refresh EXCEPT ![s] = next]
    BY <1>1, <1>5 DEF AddDynamic
  <2>4. next \in Refreshing /\ next.new = r.new
    BY <1>1, <2>2 DEF Refreshing
  <2>5. RefreshOk'
    BY <1>1, <2>3, <2>4, OneRefresh DEF Inv
  <2>6. add.id \in {1, 5} /\ add.rule \in HostRule
    BY <2>2 DEF Addition
  <2>7. \/ dynamic' = dynamic
        \/ dynamic' = [id \in DOMAIN dynamic \cup {add.id} |->
                         IF id = add.id THEN add.rule ELSE dynamic[id]]
    BY <1>5 DEF AddDynamic
  <2> HIDE DEF add
  <2>8. RulesOk'
    BY <1>5, <2>6, <2>7 DEF AddDynamic, Inv, RulesOk, Range
  <2> QED BY <1>5, <2>5, <2>8 DEF AddDynamic, Inv, Rest
<1>6. CASE Classify(s)
  <2> DEFINE new == BuildSession(blocks, Documents(r.urls))
             next == [NoRefresh EXCEPT !.stage = "ids", !.new = new]
  <2>1. refresh' = [refresh EXCEPT ![s] = next]
    BY <1>6 DEF Classify
  <2>2. new \in Seq(TabRule) /\ Len(new) <= Cardinality(Tab)
    BY SessionRules
  <2> HIDE DEF new
  <2>3. next \in Refreshing /\ next.new = new
    BY <2>2, NoRefreshIsOk DEF Refreshing
  <2>4. RefreshOk'
    BY <2>1, <2>2, <2>3, OneRefresh DEF Inv
  <2> QED BY <1>6, <2>4 DEF Classify, browser, Inv, Rest, RulesOk
<1>7. CASE ReplaceSession(s)
  <2>1. RefreshOk'
    BY <1>7, NoRefreshIsOk, OneRefresh DEF ReplaceSession, Inv
  <2>2. r.new \in Seq(TabRule) /\ DOMAIN r.new \subseteq 1..Cardinality(Tab)
    BY <1>1, TabsCount DEF Refreshing
  <2>3. \A id \in DOMAIN r.new : r.new[id] \in TabRule
    BY <2>2, ElementOfSeq
  <2>4. \/ session' = session
        \/ session' = [id \in (DOMAIN session \ r.old) \cup DOMAIN r.new |->
                         IF id \in DOMAIN r.new THEN r.new[id] ELSE session[id]]
    BY <1>7 DEF ReplaceSession
  <2>5. RulesOk'
    BY <1>7, <2>2, <2>3, <2>4 DEF ReplaceSession, Inv, RulesOk, Range
  <2> QED BY <1>7, <2>1, <2>5 DEF ReplaceSession, Inv, Rest
<1> QED BY <1>3, <1>4, <1>5, <1>6, <1>7 DEF Step

(* Navigations, the daemon and the worker's restart begin or end refreshes.  *)
LEMMA NextInv == Inv /\ [Next]_vars => Inv'
<1> SUFFICES ASSUME Inv, [Next]_vars PROVE Inv'
  OBVIOUS
<1>1. CASE Navigate \/ PushState
  <2>1. PICK t \in Tab, page \in Page :
          /\ tabs' \in {[tabs EXCEPT ![t].loading = page], [tabs EXCEPT ![t].shown = page]}
          /\ BeginFor(blocks, [u \in {t} |-> page])
    BY <1>1 DEF Navigate, PushState
  <2>2. RefreshOk'
    BY <2>1, BeginForOk DEF Inv
  <2>3. Rest'
    BY <1>1, <2>1, MediaAssumption DEF Navigate, PushState, Move, Inv, Rest
  <2> QED BY <1>1, <2>2, <2>3 DEF Navigate, PushState, Inv, RulesOk
<1>2. CASE Close
  <2>1. NoRules \in [{} -> Page] /\ {} \in SUBSET Tab
    BY DEF NoRules
  <2>2. RefreshOk'
    BY <1>2, <2>1, BeginForOk DEF Close, Inv
  <2>3. Rest'
    BY <1>2, MediaAssumption DEF Close, Move, Inv, Rest
  <2> QED BY <1>2, <2>2, <2>3 DEF Close, Inv, RulesOk
<1>3. CASE Commit
  BY <1>3 DEF Commit, Inv, Rest, RulesOk, RefreshOk
<1>4. CASE Fetch
  <2>1. NoRules \in [{} -> Page] /\ {} \in SUBSET Tab
    BY DEF NoRules
  <2>2. RefreshOk'
    BY <1>4, <2>1, BeginForOk DEF Fetch, Inv
  <2> QED BY <1>4, <2>2 DEF Fetch, browser, Inv, Rest, RulesOk
<1>5. CASE Change
  BY <1>5, MediaAssumption DEF Change, Move, browser, Inv, Rest, RulesOk, RefreshOk
<1>6. CASE Restart
  <2>1. RefreshOk'
    BY <1>6, NoRefreshIsOk, TabsCount DEF Restart, RefreshOk
  <2> QED BY <1>6, <2>1, MediaAssumption DEF Restart, Move, browser, Inv, Rest, RulesOk
<1>7. CASE UNCHANGED vars
  BY <1>7 DEF vars, browser, Inv, Rest, RulesOk, RefreshOk
<1> QED BY <1>1, <1>2, <1>3, <1>4, <1>5, <1>6, <1>7, StepInv DEF Next

(* At first there are no rules.                                              *)
LEMMA InitInv == Init => Inv
<1> SUFFICES ASSUME Init PROVE Inv
  OBVIOUS
<1>1. RefreshOk
  BY NoRefreshIsOk, TabsCount DEF Init, RefreshOk
<1>2. DOMAIN NoRules = {} /\ Range(NoRules) = {}
  BY DEF NoRules, Range
<1> QED BY <1>1, <1>2, MediaAssumption DEF Init, Inv, Rest, RulesOk

(* Every variable keeps its type, and the rules are the extension's.         *)
THEOREM TypeCorrect == Spec => []TypeOK
<1>1. Inv => TypeOK
  <2> SUFFICES ASSUME Inv PROVE TypeOK
    OBVIOUS
  <2>1. ASSUME NEW s \in Slot
        PROVE  /\ refresh[s].stage \in {"none", "list", "remove", "add", "ids", "replace"}
               /\ Range(refresh[s].new) \subseteq TabRule
    <3>1. refresh[s] \in Refreshing
      BY DEF Inv, RefreshOk
    <3>2. refresh[s].new \in Seq(TabRule)
      BY <3>1 DEF Refreshing
    <3> QED BY <3>1, <3>2, RangeOfSeq DEF Refreshing
  <2> QED BY <2>1 DEF Inv, Rest, RulesOk, TypeOK
<1> QED BY InitInv, NextInv, <1>1, PTL DEF Spec

-----------------------------------------------------------------------------
(* Only the last call of a refresh touches the rules of tabs, and then those *)
(* it brings are right; of the rules it adds for hosts only an allow could   *)
(* uncover a page, and that is for hosts the blocks leave alone.             *)
THEOREM RefreshIsSafe == Spec => RefreshKeepsStripped
<1>1. ASSUME Inv, [Next]_vars, NEW t \in Tab,
             UNCHANGED <<served, blocks, tabs>>, blocks = served,
             Rule("block", {t}) \in Range(session), Stripped(t),
             ShouldBlockMedia(tabs[t].shown, blocks), ~Overruled(t),
             \A s \in Slot : UpToDate(s)
      PROVE  Stripped(t)'
  <2>1. tabs[t].shown # Nowhere
    BY <1>1 DEF ShouldBlockMedia
  <2>2. Rule("block", {t}).action = "block" /\ t \in Rule("block", {t}).on
    BY DEF Rule
  <2>3. ASSUME \A r \in Range(dynamic)' :
                 r \in Range(dynamic) \/ tabs[t].shown.host \notin r.on \/ r.action = "block",
               Rule("block", {t}) \in Range(session)',
               \A r \in Range(session)' :
                 r \in Range(session) \/ t \notin r.on \/ r.action = "block"
        PROVE  Stripped(t)'
    <3>1. \A r \in Rules(t)' : r.action = "block"
      BY <1>1, <2>1, <2>3 DEF Stripped, Rules
    <3>2. Rule("block", {t}) \in Rules(t)'
      BY <2>2, <2>3 DEF Rules
    <3> QED BY <2>2, <3>1, <3>2 DEF Stripped
  <2>4. CASE UNCHANGED <<dynamic, session>>
    BY <1>1, <2>3, <2>4
  <2>5. ASSUME NEW s \in Slot, RemoveDynamic(s) PROVE Stripped(t)'
    <3>1. Range(dynamic)' \subseteq Range(dynamic) /\ UNCHANGED session
      BY <2>5 DEF RemoveDynamic, Range
    <3> QED BY <1>1, <2>3, <3>1
  <2>6. ASSUME NEW s \in Slot, AddDynamic(s) PROVE Stripped(t)'
    <3> DEFINE add == Head(refresh[s].add)
    <3>1. refresh[s].add \in Seq(Addition) /\ refresh[s].add # <<>>
      BY <1>1, <2>6 DEF Inv, RefreshOk, Refreshing, AddDynamic
    <3>2. add \in Range(refresh[s].add)
      BY <3>1 DEF Range
    <3>3. add \in Range(BuildDynamic(blocks))
      BY <1>1, <3>2 DEF UpToDate
    <3>4. \/ dynamic' = dynamic
          \/ dynamic' = [id \in DOMAIN dynamic \cup {add.id} |->
                           IF id = add.id THEN add.rule ELSE dynamic[id]]
      BY <2>6 DEF AddDynamic
    <3>5. \/ add.rule.action = "block"
          \/ HasMediaCatchAll(blocks) /\ add.rule = Rule("allow", Under(AllowDomains(blocks)))
      BY <3>3, DynamicRules
    <3> HIDE DEF add
    <3>6. Range(dynamic)' \subseteq Range(dynamic) \cup {add.rule}
      BY <3>4 DEF Range
    <3>7. add.rule.action = "block" \/ tabs[t].shown.host \notin add.rule.on
      BY <1>1, <2>1, <3>5 DEF Overruled, Rule
    <3>8. UNCHANGED session
      BY <2>6 DEF AddDynamic
    <3> QED BY <1>1, <2>3, <3>6, <3>7, <3>8
  <2>7. ASSUME NEW s \in Slot, ReplaceSession(s) PROVE Stripped(t)'
    <3> DEFINE now == Documents(NoRules)
               new == BuildSession(blocks, now)
    <3>1. refresh[s].new = new /\ refresh[s].old = DOMAIN session
      BY <1>1, <2>7 DEF UpToDate, ReplaceSession
    <3>2. Range(new) = {Rule("block", {u}) : u \in MediaTabs(blocks, now)}
                         \cup {Rule("allow", {u}) : u \in AllowTabs(blocks, now)}
      BY SessionRules
    <3>3. now[t] = tabs[t].shown
      BY DEF Documents, NoRules
    <3>4. t \in MediaTabs(blocks, now) /\ t \notin AllowTabs(blocks, now)
      BY <1>1, <3>3 DEF MediaTabs, AllowTabs
    <3> HIDE DEF new, now
    <3>5. session' = [id \in DOMAIN new |-> new[id]]
      BY <2>7, <3>1 DEF ReplaceSession
    <3>6. Range(session)' = Range(new)
      BY <3>5 DEF Range
    <3>7. \A r \in Range(new) : t \notin r.on \/ r.action = "block"
      BY <3>2, <3>4 DEF Rule
    <3>8. UNCHANGED dynamic
      BY <2>7 DEF ReplaceSession
    <3> QED BY <1>1, <2>3, <3>2, <3>4, <3>6, <3>7, <3>8
  <2>8. ASSUME ~ UNCHANGED <<dynamic, session>>
        PROVE  \E s \in Slot : RemoveDynamic(s) \/ AddDynamic(s) \/ ReplaceSession(s)
    BY <1>1, <2>8 DEF Next, vars, browser, Navigate, Commit, PushState, Close, Fetch, Change,
                      Restart, Step, ListDynamic, Classify, ListSession
  <2> QED BY <2>4, <2>5, <2>6, <2>7, <2>8
<1>2. Inv /\ [Next]_vars
        => [\A t \in Tab :
              /\ UNCHANGED <<served, blocks, tabs>> /\ blocks = served
              /\ Rule("block", {t}) \in Range(session) /\ Stripped(t)
              /\ ShouldBlockMedia(tabs[t].shown, blocks) /\ ~Overruled(t)
              /\ \A s \in Slot : UpToDate(s)
              => Stripped(t)']_vars
  BY <1>1
<1> QED BY InitInv, NextInv, <1>2, PTL DEF Spec, RefreshKeepsStripped
==============================================================================

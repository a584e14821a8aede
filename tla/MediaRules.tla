------------------------------- MODULE MediaRules -------------------------------
(* How the extension strips images and videos from pages that stay open: it  *)
(* compiles the blocks' media lists into rules of the browser, dynamic ones  *)
(* by the host of the page and session ones by tab, and does so again with   *)
(* every fetch of the blocks and every navigation.  A refresh is a chain of  *)
(* calls to the browser and refreshes overlap: each works with what it read  *)
(* some calls ago.  The pairs of rules the code makes for types of requests  *)
(* and for addresses of videos are one rule here, and its rules for content  *)
(* networks, which only add to them, are left out.                           *)
EXTENDS BlockEvaluation, FiniteSets, Functions, SequencesExt

CONSTANTS Nowhere,    \* no page
          Host,       \* hosts of pages, and of patterns
          Aliases,    \* of a host, those expandInitiatorAliases makes of it
          Www,        \* of a host, the one with www. in front
          Elsewhere,  \* hyprblocker-catchall-probe.invalid
          Page,       \* pages a tab may show
          Tab,        \* ids of tabs
          Lists,      \* what the daemon may serve
          Slot,       \* bound: refreshes that overlap
          MaxMoves    \* bound: what users, the daemon and failures do

ASSUME MediaAssumption ==
  /\ Nowhere \notin Page /\ Elsewhere \notin Host
  /\ IsFiniteSet(Tab) /\ MaxMoves \in Nat

VARIABLES
  served,   \* the blocks the daemon serves
  blocks,   \* blocksData
  tabs,     \* what each tab shows and what it loads
  dynamic,  \* dynamic rules, by id
  session,  \* session rules, by id
  refresh,  \* the refreshes under way
  moves     \* what users, the daemon and failures have done so far

browser == <<tabs, dynamic, session>>
vars == <<served, blocks, browser, refresh, moves>>

NoBlocks == [b \in {} |-> {}]
NoRules == [id \in {} |-> {}]
-----------------------------------------------------------------------------
(* From blocks to rules.                                                     *)

ShouldBlockMedia(page, list) == page # Nowhere /\ Blocked(list, Seen(page), "media")

Root(host) == [host |-> host, path |-> <<>>]

(* hasMediaCatchAll: a host nobody lists is blocked, and because of a star.  *)
WithoutStar(list) == [b \in DOMAIN list |-> [list[b] EXCEPT !.media = @ \ {Star}]]
HasMediaCatchAll(list) ==
  /\ ShouldBlockMedia(Root(Elsewhere), list)
  /\ ~ShouldBlockMedia(Root(Elsewhere), WithoutStar(list))

(* The hosts listed as such, with or without a slash, and their aliases.     *)
Domains(patterns) ==
  UNION {Aliases[p.host] : p \in {p \in patterns \ {Star} : p.path \in {<<>>, <<Slash>>}}}

HostAllowed(block, host) == \E h \in {host, Www[host]} : AnyMatches(Root(h), block.allowed)

(* collectMediaInitiatorDomains: of these hosts those whose own root page is *)
(* to be stripped.                                                           *)
InitiatorDomains(list) ==
  {h \in UNION {Domains({p \in list[b].media \ {Star} : ~HostAllowed(list[b], p.host)}) :
                  b \in DOMAIN list} :
     ShouldBlockMedia(Root(h), list)}

(* collectCatchAllMediaAllowDomains                                          *)
AllowDomains(list) ==
  {h \in UNION {Domains(list[b].allowed) : b \in DOMAIN list} :
     ~ShouldBlockMedia(Root(h), list)}

(* To the browser a rule for a host is one for the hosts under it as well.   *)
Under(hosts) == {h \in Host : Above[h] \cap hosts # {}}

Rule(action, on) == [action |-> action, on |-> on]

(* buildDynamicMediaRules: the rules in the order they are added, with the   *)
(* ids of their kind.                                                        *)
BuildDynamic(list) ==
  LET catchAll == HasMediaCatchAll(list)
      allow == IF catchAll THEN AllowDomains(list) ELSE {}
      block == IF catchAll THEN Host \ Under(Protected \cup allow)
               ELSE Under(InitiatorDomains(list))
  IN (IF catchAll \/ block # {} THEN <<[id |-> 1, rule |-> Rule("block", block)]>> ELSE <<>>)
     \o (IF allow # {} THEN <<[id |-> 5, rule |-> Rule("allow", Under(allow))]>> ELSE <<>>)

(* Faulty: only documents of a host no rule covers get a rule of their own.  *)
MediaTabsOfPaths(list, urls) ==
  {t \in Tab : ShouldBlockMedia(urls[t], list)
                 /\ urls[t].host \notin Under(InitiatorDomains(list))}

MediaTabs(list, urls) == {t \in Tab : ShouldBlockMedia(urls[t], list)}

(* Faulty: a tab whose media are stripped is allowed as well.                *)
AllowTabsAll(list, urls) ==
  {t \in Tab : HasMediaCatchAll(list) /\ urls[t] # Nowhere /\ urls[t].host \notin Protected}

AllowTabs(list, urls) ==
  IF HasMediaCatchAll(list)
  THEN {t \in Tab : /\ urls[t] # Nowhere /\ urls[t].host \notin Protected
                    /\ ~ShouldBlockMedia(urls[t], list)}
  ELSE {}

(* buildSessionMediaRules: consecutive ids from the base, blocks first, and  *)
(* tabs in whatever order the browser has them.                              *)
BuildSession(list, urls) ==
  LET blocked == SetToSeq(MediaTabs(list, urls))
      allowed == SetToSeq(AllowTabs(list, urls))
  IN [i \in 1..Len(blocked) |-> Rule("block", {blocked[i]})]
     \o [i \in 1..Len(allowed) |-> Rule("allow", {allowed[i]})]

(* What the browser makes of the rules: an allow has the higher priority.    *)
Rules(t) ==
  {r \in Range(dynamic) : tabs[t].shown # Nowhere /\ tabs[t].shown.host \in r.on}
    \cup {r \in Range(session) : t \in r.on}

Stripped(t) ==
  /\ \E r \in Rules(t) : r.action = "block"
  /\ \A r \in Rules(t) : r.action = "block"
-----------------------------------------------------------------------------
(* refreshMediaNetRequestRules, call by call.                                *)

NoRefresh == [stage |-> "none", add |-> <<>>, old |-> {}, urls |-> <<>>, new |-> <<>>]

(* It compiles the dynamic rules.                                            *)
Begin(list, urls) ==
  [NoRefresh EXCEPT !.stage = "list", !.add = BuildDynamic(list), !.urls = urls]

(* getDynamicRules                                                           *)
ListDynamic(s) ==
  /\ refresh[s].stage = "list"
  /\ refresh' = [refresh EXCEPT ![s].stage = "remove", ![s].old = DOMAIN dynamic]
  /\ UNCHANGED <<served, blocks, browser, moves>>

RemoveDynamic(s) ==
  /\ refresh[s].stage = "remove"
  /\ dynamic' = [id \in DOMAIN dynamic \ refresh[s].old |-> dynamic[id]]
  /\ refresh' = [refresh EXCEPT ![s].stage = "add", ![s].old = {}]
  /\ UNCHANGED <<served, blocks, tabs, session, moves>>

(* One rule at a time, and one whose id is taken is passed over.             *)
AddDynamic(s) ==
  /\ refresh[s].stage = "add" /\ refresh[s].add # <<>>
  /\ LET next == Head(refresh[s].add)
     IN dynamic' = IF next.id \in DOMAIN dynamic
                   THEN dynamic
                   ELSE [id \in DOMAIN dynamic \cup {next.id} |->
                           IF id = next.id THEN next.rule ELSE dynamic[id]]
  /\ refresh' = [refresh EXCEPT ![s].add = Tail(@)]
  /\ UNCHANGED <<served, blocks, tabs, session, moves>>

(* The documents of the tabs, with the address of a navigation that is not   *)
(* committed yet in place of what its tab shows.                             *)
Documents(pending) ==
  [t \in Tab |-> IF t \in DOMAIN pending THEN pending[t] ELSE tabs[t].shown]

(* tabs.query, and the rules for the tabs it returns.                        *)
Classify(s) ==
  /\ refresh[s].stage = "add" /\ refresh[s].add = <<>>
  /\ UNCHANGED <<served, blocks, browser, moves>>
  /\ refresh' = [refresh EXCEPT ![s] =
       [NoRefresh EXCEPT !.stage = "ids", !.new = BuildSession(blocks, Documents(refresh[s].urls))]]

(* getSessionRules                                                           *)
ListSession(s) ==
  /\ refresh[s].stage = "ids"
  /\ refresh' = [refresh EXCEPT ![s].stage = "replace", ![s].old = DOMAIN session]
  /\ UNCHANGED <<served, blocks, browser, moves>>

(* One call, which fails as a whole if an id it adds is taken.               *)
ReplaceSession(s) ==
  /\ refresh[s].stage = "replace"
  /\ LET kept == DOMAIN session \ refresh[s].old
         new == refresh[s].new
     IN session' = IF kept \cap DOMAIN new = {}
                   THEN [id \in kept \cup DOMAIN new |->
                           IF id \in DOMAIN new THEN new[id] ELSE session[id]]
                   ELSE session
  /\ refresh' = [refresh EXCEPT ![s] = NoRefresh]
  /\ UNCHANGED <<served, blocks, tabs, dynamic, moves>>
-----------------------------------------------------------------------------
Move == moves < MaxMoves /\ moves' = moves + 1

(* A refresh begins, whatever others are under way.                          *)
BeginFor(list, urls) ==
  \E s \in Slot :
    /\ refresh[s].stage = "none"
    /\ refresh' = [refresh EXCEPT ![s] = Begin(list, urls)]

(* onBeforeNavigate; the browser does not wait for the listener.             *)
Navigate ==
  /\ Move
  /\ \E t \in Tab, page \in Page :
       /\ tabs' = [tabs EXCEPT ![t].loading = page]
       /\ BeginFor(blocks, [u \in {t} |-> page])
  /\ UNCHANGED <<served, blocks, dynamic, session>>

Commit ==
  /\ \E t \in Tab :
       /\ tabs[t].loading # Nowhere
       /\ tabs' = [tabs EXCEPT ![t] = [shown |-> @.loading, loading |-> Nowhere]]
  /\ UNCHANGED <<served, blocks, dynamic, session, refresh, moves>>

(* onHistoryStateUpdated                                                     *)
PushState ==
  /\ Move
  /\ \E t \in Tab, page \in Page :
       /\ tabs[t].shown # Nowhere /\ tabs[t].shown.host = page.host /\ tabs[t].shown # page
       /\ tabs' = [tabs EXCEPT ![t].shown = page]
       /\ BeginFor(blocks, [u \in {t} |-> page])
  /\ UNCHANGED <<served, blocks, dynamic, session>>

(* tabs.onRemoved                                                            *)
Close ==
  /\ Move
  /\ \E t \in Tab :
       /\ tabs[t].shown # Nowhere
       /\ tabs' = [tabs EXCEPT ![t] = [shown |-> Nowhere, loading |-> Nowhere]]
  /\ BeginFor(blocks, NoRules)
  /\ UNCHANGED <<served, blocks, dynamic, session>>

(* Faulty: blocks that are still the same leave the rules as they are.       *)
FetchWhenNew ==
  /\ blocks' = served
  /\ IF blocks = served THEN UNCHANGED refresh ELSE BeginFor(served, NoRules)
  /\ UNCHANGED <<served, browser, moves>>

(* fetchBlockedSites, every few seconds, when the worker starts, and when an *)
(* alarm or a message asks for it.                                           *)
Fetch ==
  /\ blocks' = served
  /\ BeginFor(served, NoRules)
  /\ UNCHANGED <<served, browser, moves>>

(* The daemon serves something else.                                         *)
Change ==
  /\ Move
  /\ served' \in Lists
  /\ UNCHANGED <<blocks, browser, refresh>>

(* The worker dies and starts anew; the rules stay with the browser.         *)
Restart ==
  /\ Move
  /\ blocks' = NoBlocks
  /\ refresh' = [s \in Slot |-> NoRefresh]
  /\ UNCHANGED <<served, browser>>

Step(s) ==
  \/ ListDynamic(s) \/ RemoveDynamic(s) \/ AddDynamic(s)
  \/ Classify(s) \/ ListSession(s) \/ ReplaceSession(s)

Init ==
  /\ served \in Lists
  /\ blocks = NoBlocks
  /\ tabs = [t \in Tab |-> [shown |-> Nowhere, loading |-> Nowhere]]
  /\ dynamic = NoRules
  /\ session = NoRules
  /\ refresh = [s \in Slot |-> NoRefresh]
  /\ moves = 0

Next ==
  \/ Navigate \/ Commit \/ PushState \/ Close
  \/ Fetch \/ Change \/ Restart
  \/ \E s \in Slot : Step(s)

Spec == Init /\ [][Next]_vars

(* The browser loads pages and answers calls, and the alarm goes off.        *)
Fairness ==
  /\ WF_vars(Commit)
  /\ WF_vars(Fetch)
  /\ \A s \in Slot : WF_vars(Step(s))

FairSpec == Spec /\ Fairness
-----------------------------------------------------------------------------
TabRule == [action : {"block", "allow"}, on : SUBSET Tab]
HostRule == [action : {"block", "allow"}, on : SUBSET Host]

TypeOK ==
  /\ served \in Lists
  /\ blocks \in Lists \cup {NoBlocks}
  /\ tabs \in [Tab -> [shown : Page \cup {Nowhere}, loading : Page \cup {Nowhere}]]
  /\ DOMAIN dynamic \subseteq {1, 5} /\ Range(dynamic) \subseteq HostRule
  /\ DOMAIN session \subseteq 1..Cardinality(Tab) /\ Range(session) \subseteq TabRule
  /\ \A s \in Slot :
       /\ refresh[s].stage \in {"none", "list", "remove", "add", "ids", "replace"}
       /\ Range(refresh[s].new) \subseteq TabRule
  /\ moves \in 0..MaxMoves

(* Under a catch-all a host's allow rule outranks the tab's block rule, so   *)
(* the media of a page on an allowed host stay whatever its own block says.  *)
Overruled(t) ==
  /\ tabs[t].shown # Nowhere
  /\ HasMediaCatchAll(served) /\ tabs[t].shown.host \in Under(AllowDomains(served))

(* An allow for a path is no hole in the rule for its host.                  *)
HostWide(t) ==
  ~HasMediaCatchAll(served) /\ tabs[t].shown.host \in Under(InitiatorDomains(served))

(* The media of a tab's page are stripped when the blocks say so, and not    *)
(* otherwise, but for the two known limits.                                  *)
Right(t) ==
  tabs[t].shown # Nowhere =>
    IF ShouldBlockMedia(tabs[t].shown, served)
    THEN Stripped(t) \/ Overruled(t)
    ELSE ~Stripped(t) \/ HostWide(t)

(* However refreshes for navigations, fetches and restarts overlapped, once  *)
(* tabs and blocks are left alone every tab becomes right and stays right,   *)
(* though each refresh removes the dynamic rules before it adds them anew.   *)
MediaSettles == <>[](\A t \in Tab : Right(t))

(* A refresh under way that will write what is right now.                    *)
UpToDate(s) ==
  /\ Range(refresh[s].add) \subseteq Range(BuildDynamic(blocks))
  /\ refresh[s].stage \in {"ids", "replace"} =>
       refresh[s].new = BuildSession(blocks, Documents(NoRules))
  /\ refresh[s].stage = "replace" => refresh[s].old = DOMAIN session
  /\ \A t \in DOMAIN refresh[s].urls : refresh[s].urls[t] = tabs[t].shown

(* A refresh never uncovers a page whose tab has its rule, in the middle of  *)
(* removing and adding the dynamic rules neither, unless one begun before    *)
(* the page changed is still under way.                                      *)
RefreshKeepsStripped ==
  [][\A t \in Tab :
       /\ UNCHANGED <<served, blocks, tabs>> /\ blocks = served
       /\ Rule("block", {t}) \in Range(session) /\ Stripped(t)
       /\ ShouldBlockMedia(tabs[t].shown, blocks) /\ ~Overruled(t)
       /\ \A s \in Slot : UpToDate(s)
       => Stripped(t)']_vars
=============================================================================

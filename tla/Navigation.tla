------------------------------- MODULE Navigation -------------------------------
(* How the extension's worker turns the navigations of a tab away from       *)
(* blocked pages.  The browser cannot be held back: it reports a navigation  *)
(* when it begins, when the page is committed and when it is parsed, the     *)
(* worker handles each report on its own, the first after it has refreshed   *)
(* the media rules, and asks the browser to load another page instead.  One  *)
(* tab: what the worker remembers of a navigation it remembers per tab.  A   *)
(* report reaches the worker before the browser does anything else.          *)
EXTENDS BlockEvaluation, SequencesExt

CONSTANTS Nowhere,      \* no page
          BlockedPage,  \* the extension's blocked.html, which it never blocks
          Page,         \* pages a tab may load
          Safe          \* of each page, where safe search sends it

ASSUME NavigationAssumption ==
  /\ Nowhere \notin Page /\ BlockedPage \notin Page /\ Nowhere # BlockedPage
  /\ Safe \in [Page -> Page]

VARIABLES
  data,        \* blocksData
  safeSearch,  \* safeSearchEnabled
  tab,         \* what it shows and what it is loading
  waiting,     \* pages whose handler waits for the media rules
  cache,       \* the tab's entry of recentBlocks, while younger than 2 s
  redirects    \* calls of tabs.update on their way to the browser

navVars == <<data, safeSearch, tab, waiting, cache, redirects>>

NoBlocks == [b \in {} |-> {}]

Tab == [shown   : Page \cup {Nowhere, BlockedPage},
        loading : Page \cup {Nowhere, BlockedPage},
        parsing : BOOLEAN]   \* the page shown is not parsed yet

Redirect == [from : Page, to : Page \cup {BlockedPage}]

NavigationTypeOK ==
  /\ safeSearch \in BOOLEAN
  /\ tab \in Tab
  /\ waiting \in Seq(Page)
  /\ cache \in Page \cup {Nowhere}
  /\ redirects \in Seq(Redirect)

NavigationInit ==
  /\ data = NoBlocks
  /\ safeSearch = FALSE
  /\ tab = [shown |-> Nowhere, loading |-> Nowhere, parsing |-> FALSE]
  /\ waiting = <<>>
  /\ cache = Nowhere
  /\ redirects = <<>>
-----------------------------------------------------------------------------
(* The worker's handler.                                                     *)

(* Faulty: any block of the last two seconds in this tab will do.            *)
DuplicateOfAny(page) == cache # Nowhere

(* ~shouldAttemptBlock                                                       *)
Duplicate(page) == cache = page

(* shouldBlockUrl                                                            *)
Refused(page) == Blocked(data, Seen(page), "blocked")

(* The second half of handleNavigationBlock: unless the tab was turned away  *)
(* from this page a moment ago, decide, remember, and then redirect.         *)
CheckBlock(page, calls) ==
  IF ~Duplicate(page) /\ Refused(page)
  THEN /\ cache' = page
       /\ redirects' = Append(calls, [from |-> page, to |-> BlockedPage])
  ELSE /\ redirects' = calls
       /\ UNCHANGED cache

(* handleNavigationBlock: safe search goes first, and ends it.               *)
Handle(page) ==
  IF safeSearch /\ Safe[page] # page
  THEN /\ redirects' = Append(redirects, [from |-> page, to |-> Safe[page]])
       /\ UNCHANGED cache
  ELSE CheckBlock(page, redirects)

(* Reports of a page are handled; there is nothing to do for the others.     *)
Report(page) ==
  IF page \in Page THEN Handle(page) ELSE UNCHANGED <<cache, redirects>>

(* A navigation that begins, or a new address, is handled only when          *)
(* refreshMediaNetRequestRules has ended.                                    *)
ReportStart(page) ==
  waiting' = IF page \in Page THEN Append(waiting, page) ELSE waiting

(* Refreshes may end in any order.                                           *)
Resume ==
  \E i \in DOMAIN waiting :
    /\ waiting' = RemoveAt(waiting, i)
    /\ Handle(waiting[i])
    /\ UNCHANGED <<data, safeSearch, tab>>
-----------------------------------------------------------------------------
(* The tab.                                                                  *)

(* The user goes to a page; what was loading is given up.                    *)
Navigate ==
  \E page \in Page :
    /\ tab' = [tab EXCEPT !.loading = page]
    /\ ReportStart(page)
    /\ UNCHANGED <<data, safeSearch, cache, redirects>>

(* A page changes its address by itself (history.pushState).                 *)
PushState ==
  \E page \in Page :
    /\ tab.shown \in Page /\ tab.shown.host = page.host /\ tab.shown # page
    /\ tab' = [tab EXCEPT !.shown = page]
    /\ ReportStart(page)
    /\ UNCHANGED <<data, safeSearch, cache, redirects>>

Commit ==
  /\ tab.loading # Nowhere
  /\ tab' = [shown |-> tab.loading, loading |-> Nowhere, parsing |-> tab.loading \in Page]
  /\ Report(tab.loading)
  /\ UNCHANGED <<data, safeSearch, waiting>>

Parse ==
  /\ tab.parsing
  /\ tab' = [tab EXCEPT !.parsing = FALSE]
  /\ Report(tab.shown)
  /\ UNCHANGED <<data, safeSearch, waiting>>

(* tabs.update takes the tab away from whatever it is loading by then.       *)
Update ==
  /\ redirects # <<>>
  /\ tab' = [tab EXCEPT !.loading = Head(redirects).to]
  /\ ReportStart(Head(redirects).to)
  /\ redirects' = Tail(redirects)
  /\ UNCHANGED <<data, safeSearch, cache>>

(* It fails.  After safe search the handler goes on, after a block it does   *)
(* not.                                                                      *)
UpdateFails ==
  /\ redirects # <<>>
  /\ IF Head(redirects).to = BlockedPage
     THEN redirects' = Tail(redirects) /\ UNCHANGED cache
     ELSE CheckBlock(Head(redirects).from, Tail(redirects))
  /\ UNCHANGED <<data, safeSearch, waiting, tab>>
-----------------------------------------------------------------------------
(* Two seconds have passed since the tab's last block.                       *)
Expire ==
  /\ cache # Nowhere
  /\ cache' = Nowhere
  /\ UNCHANGED <<data, safeSearch, tab, waiting, redirects>>

(* The browser stops an idle worker and starts it anew: its variables are    *)
(* empty until it has fetched the blocks again.                              *)
Restart ==
  /\ waiting = <<>> /\ redirects = <<>>
  /\ data' = NoBlocks
  /\ safeSearch' = FALSE
  /\ cache' = Nowhere
  /\ UNCHANGED <<tab, waiting, redirects>>

(* fetchBlockedSites, with what the daemon serves at this time.              *)
Receive(served) ==
  /\ UNCHANGED <<tab, waiting, cache, redirects>>
  /\ data' = served
  /\ safeSearch' = TRUE

(* What users do and what goes wrong; what browser and worker do by          *)
(* themselves.                                                               *)
Disturb == Navigate \/ PushState \/ UpdateFails \/ Restart
NavigationStep == Resume \/ Commit \/ Parse \/ Update \/ Expire

(* The browser loads what it was asked for, and what a handler waits for     *)
(* ends.                                                                     *)
NavigationFairness ==
  WF_navVars(Commit) /\ WF_navVars(Parse) /\ WF_navVars(Update) /\ WF_navVars(Resume)
=============================================================================

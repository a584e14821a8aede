-------------------------------- MODULE Browsing --------------------------------
(* The path from the blocks and the grants to the page a tab shows: the      *)
(* daemon overlays the grants on the blocks in force and serves the result,  *)
(* the extension fetches it every few seconds and turns navigations away by  *)
(* what it last fetched.  The blocks' own rules do not change here; which    *)
(* of them are in force, and which are locked, does.                         *)
EXTENDS Grants, Navigation

CONSTANTS Block,    \* ids of blocks
          Pattern,  \* the patterns of their lists, and of grants
          Rules,    \* their lists and priorities
          MaxMoves  \* bound: what users and failures do

(* What is served of a block.                                                *)
BlockData == [blocked : SUBSET Pattern, media : SUBSET Pattern,
              allowed : SUBSET Pattern, priority : 0..2]

ASSUME BlockAssumption == Url \subseteq Pattern /\ Rules \in [Block -> BlockData]
ASSUME MovesAssumption == MaxMoves \in Nat

VARIABLES active,   \* blocks that are enabled and inside their schedule
          locked,   \* blocks whose lock_until is in the future
          moves     \* what users and failures have done so far

blockVars == <<active, locked>>
vars == <<blockVars, grantVars, navVars, moves>>

TypeOK ==
  /\ active \in SUBSET Block
  /\ locked \in SUBSET Block
  /\ moves \in 0..MaxMoves
  /\ GrantsTypeOK
  /\ NavigationTypeOK
  /\ \E known \in SUBSET Block : data \in [known -> BlockData]

Init ==
  /\ active = Block
  /\ locked = {}
  /\ moves = 0
  /\ GrantsInit
  /\ NavigationInit
-----------------------------------------------------------------------------
InForce == [b \in active |-> Rules[b]]

(* get_blocked_sites: grants are overlaid when the blocks are read.          *)
Served == Overlay(InForce, Granted, locked)

Move == moves < MaxMoves /\ moves' = moves + 1

(* A schedule, a switch: another module's business, any change will do.      *)
Schedule ==
  /\ Move
  /\ \E b \in Block : active' = (IF b \in active THEN active \ {b} ELSE active \cup {b})
  /\ UNCHANGED <<locked, grantVars, navVars>>

(* A block is locked, or its lock runs out.                                  *)
SetLock ==
  /\ Move
  /\ \E b \in Block : locked' = (IF b \in locked THEN locked \ {b} ELSE locked \cup {b})
  /\ UNCHANGED <<active, grantVars, navVars>>

Request == Move /\ RequestGrant /\ UNCHANGED <<blockVars, navVars>>
Trouble == Move /\ Disturb /\ UNCHANGED <<blockVars, grantVars>>
Fetch == UNCHANGED <<blockVars, grantVars, moves>> /\ Receive(Served)
Prune == PruneExpired /\ UNCHANGED <<blockVars, navVars, moves>>
Tick == GrantsTick /\ UNCHANGED <<blockVars, navVars, moves>>
Browse == NavigationStep /\ UNCHANGED <<blockVars, grantVars, moves>>

Next == Schedule \/ SetLock \/ Request \/ Trouble \/ Fetch \/ Prune \/ Tick \/ Browse

Spec == Init /\ [][Next]_vars

Fairness == NavigationFairness

FairSpec == Spec /\ Fairness
-----------------------------------------------------------------------------
(* Of the requests the log holds for one day no more than Limit were given,  *)
(* whenever they came and however they were answered.                        *)
BudgetHolds == Cardinality({i \in DOMAIN log : log[i].given}) <= Limit

(* Whatever was granted, before the lock or since, a page or its media that  *)
(* a locked block decides to block is blocked in what the extension fetches. *)
LockWins ==
  [][Fetch => LET blocks == InForce
              IN \A page \in Page \cup Url, field \in Field :
                   BlockedBy(blocks, Seen(page), field, locked)
                     => Blocked(data', Seen(page), field)]_vars

(* A block that lists a page for nothing but its host and a slash.           *)
OnlyBySlash(block, page) ==
  \A p \in block.blocked \cup block.media :
    Matches(page, p) => p # Star /\ p.path = <<Slash>>

(* A grant opens its page, and the media on it, with the next fetch, in all  *)
(* the blocks that block it, unless a locked block blocks it as well, or one *)
(* to which the page belongs only by its host and a slash: the daemon takes  *)
(* that for the root of the host, where the extension blocks all of it.  A   *)
(* URL with a query is another matter: the extension decides without it.     *)
GrantOpens ==
  [][Fetch => LET blocks == InForce
              IN \A g \in store, field \in Field :
                   LET missed == {b \in active : g.url.path # <<>> /\ OnlyBySlash(blocks[b], g.url)}
                   IN /\ g.left > 0 /\ Seen(g.url) = g.url
                      /\ ~BlockedBy(blocks, g.url, field, locked \cup missed)
                      => ~Blocked(data', g.url, field)]_vars

(* A fetch opens no page but those under a grant that has not expired.       *)
OnlyGrantedOpens ==
  [][Fetch => LET blocks == InForce
              IN \A page \in Page \cup Url, field \in Field :
                   ~Blocked(data', page, field)
                     => \/ ~Blocked(blocks, page, field)
                        \/ \E g \in store : g.left > 0 /\ Matches(page, g.url)]_vars

(* Once a navigation to a page has begun, and as long as the fetched blocks  *)
(* refuse it, the tab leaves it, unless the user moves on or a redirect      *)
(* fails: three reports of one navigation, handled in any order among those  *)
(* of earlier ones and with one redirect for all of them.  (A user who does  *)
(* not move on has made the last of the moves; one without effect, a lock    *)
(* that loosens nothing, may be among them.)  The page must not be one the   *)
(* tab was turned away from in the last two seconds, and safe search must    *)
(* have nothing to do with it: its redirects are not counted, and a late one *)
(* brings back a page whose block is a moment old.                           *)
NavigationIsBlocked ==
  \A page \in {p \in Page : \A q \in Page : (Safe[q] = p) <=> (q = p)} :
    (tab.loading = page /\ cache # page /\ moves = MaxMoves /\ Refused(page))
      ~> \/ tab.loading # page /\ tab.shown # page
         \/ ~Refused(page)
=============================================================================

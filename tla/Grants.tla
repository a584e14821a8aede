--------------------------------- MODULE Grants ---------------------------------
(* Exceptions to the blocks, asked for with a reason and given for a time by *)
(* a judge: the audit log that counts requests and the store of what was     *)
(* given.  A request is handled without an await, so it is one step.  Time   *)
(* is kept as ages: an entry leaves the log's count with its window, and a   *)
(* grant counts down to 0 and stays in the store until it is dropped.        *)
EXTENDS BlockEvaluation, FiniteSets

CONSTANTS Null,         \* no scope, no reply from the judge
          Url,          \* what grants are asked for
          Denied,       \* those the denylist rejects
          Earlier,      \* what the log may hold when the daemon starts
          Limit,        \* DEFAULT_DAILY_LIMIT
          Day,          \* DEFAULT_WINDOW
          MaxMinutes    \* MAX_GRANT_MINUTES

ASSUME GrantsAssumption ==
  /\ Denied \subseteq Url
  /\ Null \notin Url
  /\ {Limit, Day, MaxMinutes} \subseteq Nat /\ Limit > 0

(* URLs are addresses, and the hosts above a host include the host itself.   *)
ASSUME UrlAssumption ==
  \A url \in Url : /\ url # Star
                   /\ url.host \in Above[url.host]
                   /\ url.path \in Seq(DOMAIN Bare)
ASSUME SlashAssumption == Slash \notin DOMAIN Bare

VARIABLES log,     \* requests younger than a day, oldest first
          store    \* grants_active.json

grantVars == <<log, store>>

Entry == [age : 0..Day, given : BOOLEAN]
Grant == [url : Url, left : 0..MaxMinutes]

(* The file survives the daemon, which wrote it: it counts a request before  *)
(* it gives anything, so that no more than Limit requests come up to one     *)
(* that was given.                                                           *)
ASSUME EarlierAssumption ==
  \A entries \in Earlier :
    /\ entries \in Seq(Entry)
    /\ \A i, j \in DOMAIN entries : i <= j => entries[i].age >= entries[j].age
    /\ \A i \in DOMAIN entries : entries[i].given => i <= Limit

GrantsTypeOK ==
  /\ log \in Seq(Entry)
  /\ store \in SUBSET Grant

GrantsInit ==
  /\ log \in Earlier
  /\ store = {}

(* Faulty: a grant at its expiry still counts.                               *)
ActiveLate(grants) == grants

(* active_grants: those that have not reached their expiry.                  *)
Active(grants) == {g \in grants : g.left > 0}

Granted == {g.url : g \in Active(store)}

(* What the judge may answer.  A refusal, an answer that is not a verdict,   *)
(* no answer and no broker are all the same: denied.                         *)
Verdict == [scope : Url \cup {Null}, minutes : 1..MaxMinutes]

(* _enforced_target: the judge's scope when it is the URL asked for or a     *)
(* deeper path of the same host, and else that URL.                          *)
EnforcedTarget(url, scope) ==
  IF /\ scope # Null
     /\ scope.host = url.host
     /\ Len(url.path) <= Len(scope.path)
     /\ SubSeq(scope.path, 1, Len(url.path)) = url.path
  THEN scope
  ELSE url

(* Faulty: only the requests that were turned down count.                    *)
WithinLimitDenied(entries) == Cardinality({i \in DOMAIN entries : ~entries[i].given}) < Limit

(* ratelimit.check on a log that already holds this request.                 *)
WithinLimit(entries) == Len(entries) < Limit

(* The pipeline: denylist, rate limit, judge, and the denylist once more on  *)
(* the judge's scope.                                                        *)
Allows(url, entries, verdict) ==
  /\ url \notin Denied
  /\ WithinLimit(entries)
  /\ verdict # Null
  /\ verdict.scope \notin Denied

(* add_grant keeps the grants that have not expired and adds the new one.    *)
Added(grants, grant) == Active(grants) \cup {grant}

(* request_grant.  The request is recorded before any stage can drop it,     *)
(* unless the log cannot be written; the time is the shorter of the request  *)
(* and the verdict.  A daemon killed while the judge thinks leaves what a    *)
(* denial leaves: a request that counts.                                     *)
RequestGrant ==
  \E url \in Url, minutes \in 1..MaxMinutes, verdict \in Verdict \cup {Null}, recorded \in BOOLEAN :
    LET entry == [age |-> 0, given |-> FALSE]
        entries == IF recorded THEN Append(log, entry) ELSE log
        allowed == Allows(url, entries, verdict)
        left == IF verdict.minutes < minutes THEN verdict.minutes ELSE minutes
    IN /\ log' = IF recorded THEN Append(log, [entry EXCEPT !.given = allowed]) ELSE log
       /\ store' = IF allowed
                   THEN Added(store, [url |-> EnforcedTarget(url, verdict.scope), left |-> left])
                   ELSE store

(* prune_expired, in the job that checks the schedule.                       *)
PruneExpired ==
  /\ store # Active(store)
  /\ store' = Active(store)
  /\ UNCHANGED log

(* Faulty: the window has no far end.                                        *)
OlderEntriesAll(entries) == [i \in DOMAIN entries |-> [entries[i] EXCEPT !.age = @ + 1]]

(* Time passes: a request leaves the count a day after it was made, before   *)
(* those that came later, and a grant comes closer to its expiry.            *)
OlderEntries(entries) ==
  LET gone == Cardinality({i \in DOMAIN entries : entries[i].age >= Day})
  IN [i \in 1..(Len(entries) - gone) |-> [entries[gone + i] EXCEPT !.age = @ + 1]]

GrantsTick ==
  /\ log' = OlderEntries(log)
  /\ store' = {[g EXCEPT !.left = IF @ = 0 THEN 0 ELSE @ - 1] : g \in store}

=============================================================================

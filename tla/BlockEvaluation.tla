----------------------------- MODULE BlockEvaluation -----------------------------
(* How the daemon and the extension decide on a page, from the blocks that   *)
(* are active: patterns, priority bands, and the overlay of grants.  A page  *)
(* and a pattern are both a host with a path; a segment of a path carries    *)
(* its query, and Bare is the segment without it.  A pattern may also be a   *)
(* host with a slash and nothing after it: its path is <<Slash>>.  Pure      *)
(* functions only.                                                           *)
EXTENDS Naturals, Sequences

CONSTANTS Above,       \* of each host, the hosts it is or is a subdomain of
          Bare,        \* of each segment of a path, the segment without query
          Slash,       \* the end of a pattern like host/
          Protected,   \* loopback and the browser's own pages
          Star         \* the pattern * that matches every other page

Field == {"blocked", "media"}

(* The paths under a pattern's: a prefix of whole segments, whose last one   *)
(* may be the page's without its query.                                      *)
PathUnder(path, prefix) ==
  /\ Len(prefix) <= Len(path)
  /\ \A i \in 1..Len(prefix) :
       path[i] = prefix[i] \/ (i = Len(prefix) /\ Bare[path[i]] = prefix[i])

(* matchesPatternWithPath, in the extension: the slash is taken off first.   *)
Matches(page, pattern) ==
  IF pattern = Star
  THEN page.host \notin Protected
  ELSE /\ pattern.host \in Above[page.host]
       /\ pattern.path = <<Slash>> \/ PathUnder(page.path, pattern.path)

AnyMatches(page, patterns) == \E pattern \in patterns : Matches(page, pattern)

(* url_matches_pattern, in the daemon: a pattern with a slash has a path,    *)
(* also when nothing comes after it.                                         *)
UrlMatchesPattern(url, pattern) ==
  IF pattern = Star
  THEN url.host \notin Protected
  ELSE /\ pattern.host \in Above[url.host]
       /\ IF pattern.path = <<Slash>>
          THEN url.path = <<>>
          ELSE PathUnder(url.path, pattern.path)

(* A block cares about a page its own list for the field matches, and of     *)
(* those that care only the ones of the highest priority vote.               *)
Caring(blocks, page, field) == {b \in DOMAIN blocks : AnyMatches(page, blocks[b][field])}

Voters(blocks, page, field) ==
  LET caring == Caring(blocks, page, field)
  IN {b \in caring : \A c \in caring : blocks[c].priority <= blocks[b].priority}

(* evaluateUrlAgainstBlockField: one voter that does not allow it is enough. *)
Blocked(blocks, page, field) ==
  /\ page.host \notin Protected
  /\ \E b \in Voters(blocks, page, field) : ~AnyMatches(page, blocks[b].allowed)

(* A decision one of these blocks alone is responsible for.                  *)
BlockedBy(blocks, page, field, some) ==
  /\ page.host \notin Protected
  /\ \E b \in some : b \in Voters(blocks, page, field) /\ ~AnyMatches(page, blocks[b].allowed)

(* Faulty: a grant reaches only the blocks that list the very URL.           *)
ConcernsListed(block, url) == url \in block.blocked \cup block.media

(* The blocks a grant is overlaid on match the granted URL in either list,   *)
(* as the daemon sees it.                                                    *)
Concerns(block, url) == \E p \in block.blocked \cup block.media : UrlMatchesPattern(url, p)

(* Faulty: a locked block is loosened as well.                               *)
OverlayAll(blocks, urls, locked) ==
  [b \in DOMAIN blocks |->
     [blocks[b] EXCEPT !.allowed = @ \cup {url \in urls : Concerns(blocks[b], url)}]]

(* overlay_blocks: the granted URLs join the allow lists of the blocks they  *)
(* concern, except those of a locked block.                                  *)
Overlay(blocks, urls, locked) ==
  [b \in DOMAIN blocks |->
     IF b \in locked
     THEN blocks[b]
     ELSE [blocks[b] EXCEPT !.allowed = @ \cup {url \in urls : Concerns(blocks[b], url)}]]

(* What the extension decides on: the address without its query.             *)
Seen(page) == [page EXCEPT !.path = [i \in DOMAIN @ |-> Bare[@[i]]]]
=============================================================================

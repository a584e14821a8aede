------------------------------- MODULE MCBrowsing -------------------------------
(* Instances of Browsing for the model checker: a search engine with a page  *)
(* of results, the safe results and an image; a low block of everything and  *)
(* a high block of the engine, written with a slash.                         *)
EXTENDS Browsing

CONSTANTS engine, results, query, safeResults, image, low, high

Engine == [host |-> engine, path |-> <<>>]
EngineSlash == [host |-> engine, path |-> <<Slash>>]
Results == [host |-> engine, path |-> <<results>>]
ResultsOfQuery == [host |-> engine, path |-> <<query>>]
Image == [host |-> engine, path |-> <<image>>]
SafeResults == [host |-> engine, path |-> <<safeResults>>]

NoSubdomains == [h \in {engine} |-> {h}]
QueryOnly == [s \in {results, query, safeResults, image} |-> IF s = query THEN results ELSE s]

Pages == {Results, SafeResults, Image}
Urls == {Engine, Results, ResultsOfQuery}
Patterns == Url \cup Page \cup {Star, EngineSlash}

(* A request was given about a day ago.                                      *)
Logs == {<<[age |-> Day, given |-> TRUE]>>}
SafeOf == [p \in Pages |-> IF p = Results THEN SafeResults ELSE p]

TwoBlocks ==
  [b \in {low, high} |->
     IF b = low
     THEN [blocked |-> {Star}, media |-> {Star}, allowed |-> {}, priority |-> 0]
     ELSE [blocked |-> {EngineSlash}, media |-> {}, allowed |-> {}, priority |-> 1]]
=============================================================================

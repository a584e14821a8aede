------------------------------ MODULE MCMediaRules ------------------------------
(* Instances of MediaRules for the model checker: a video host with a page   *)
(* of its own for shorts, and a host for music under it.                     *)
EXTENDS MediaRules

CONSTANTS video, music, nohost, shorts, low, high

Home == [host |-> video, path |-> <<>>]
Shorts == [host |-> video, path |-> <<shorts>>]
Music == [host |-> music, path |-> <<>>]

MusicIsVideo == [h \in {video, music, nohost} |-> IF h = music THEN {video, music} ELSE {h}]
Alone == [h \in {video, music} |-> {h}]
Itself == [h \in {video, music} |-> h]
NoQueries == [s \in {shorts} |-> s]
Pages == {Home, Shorts, Music}

Block(media, allowed, priority) ==
  [blocked |-> {}, media |-> media, allowed |-> allowed, priority |-> priority]

(* The shorts and the music; the whole video host but its shorts and music;  *)
(* everything but the music, and the shorts above that; everything but the   *)
(* video host, and the music above that.                                     *)
Listed == [b \in {low} |-> Block({Shorts, Music}, {}, 0)]
Hostwide ==
  [b \in {low, high} |->
     IF b = low THEN Block({Home}, {Shorts}, 0) ELSE Block({Music}, {Music}, 1)]
CatchAll ==
  [b \in {low, high} |->
     IF b = low THEN Block({Star}, {Music}, 0) ELSE Block({Shorts}, {}, 1)]
CatchAllUnder ==
  [b \in {low, high} |->
     IF b = low THEN Block({Star}, {Home}, 0) ELSE Block({Music}, {}, 1)]

Served == {Listed, Hostwide, CatchAll, CatchAllUnder}
=============================================================================

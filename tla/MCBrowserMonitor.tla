---------------------------- MODULE MCBrowserMonitor ----------------------------
(* Instances of BrowserMonitor for the model checker: one browser, with two  *)
(* windows its extension sees or one and a guest's, and another application. *)
EXTENDS BrowserMonitor

CONSTANTS b, p, v, w, x

Host == [q \in {p} |-> b]
Guest == [y \in Window |-> IF y = v THEN p ELSE Null]
Pids == [y \in Window |-> IF y = x THEN Null ELSE b]
Apps == {{x}, {v}}
===============================================================================

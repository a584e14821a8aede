---------------------------- MODULE MCRootSettings ----------------------------
(* Instances of RootSettings for the model checker.                          *)
EXTENDS RootSettings

CONSTANTS b1, b2      \* browsers

Defaults == EnforcementPolicy
Prevention == [EnforcementPolicy EXCEPT !.shutdown_prevention_enabled = TRUE]

(* What a request may name.                                                  *)
FewerBrowsers == [browsers |-> {b2}]
Off == [shutdown_prevention_enabled |-> FALSE]
Graduated(l, j) == [lock |-> l, policy |-> Prevention, judge |-> j, dev |-> FALSE]
ThreeStarts == {Graduated(Null, "accountability"), Graduated(Corrupt, "strict"),
                [Graduated(1, "strict") EXCEPT !.dev = TRUE]}
TwoStarts == {Graduated(Null, "accountability"), [Graduated(Corrupt, "strict") EXCEPT !.dev = TRUE]}
Bodies == {FewerBrowsers, Off}
=============================================================================

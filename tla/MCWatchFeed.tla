------------------------------ MODULE MCWatchFeed ------------------------------
(* Two watchers of different subclasses: one that reports changed items (the  *)
(* marks, homework and schedule watchers) and one that reports only new ones  *)
(* (the reception and notification watchers).                                 *)
EXTENDS WatchFeed

CONSTANTS w1, w2, a1, a2

MCClassOf == (w1 :> "MarkWatcher") @@ (w2 :> "ReceptionWatcher")
MCClasses == {"MarkWatcher", "ReceptionWatcher"}
MCReportsChanges == {"MarkWatcher"}
MCHomeOf == (w1 :> a1) @@ (w2 :> a2)
===============================================================================

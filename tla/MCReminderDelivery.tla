------------------------ MODULE MCReminderDelivery ------------------------
(* Instances of ReminderDelivery small enough for TLC.                     *)
EXTENDS ReminderDelivery, TLC

CONSTANTS p1, p2, t1, t2

\* Two HTTP requests served by one process, or a tick in each of two copies
\* of the app, as during a deploy.
OneOrTwoProcesses == {(t1 :> p1) @@ (t2 :> p1), (t1 :> p1) @@ (t2 :> p2)}

TwoFaultsInOneProcess == [h \in Hostings |-> IF h[t1] = h[t2] THEN 2 ELSE 0]

OneProcessOnly == {[t \in Ticks |-> p1]}
OneFault == [h \in Hostings |-> 1]
=============================================================================

------------------------------ MODULE MCDaemon ------------------------------
(***************************************************************************)
(* Small instances of Daemon: two directories of one name, one inside the  *)
(* other.                                                                  *)
(***************************************************************************)
EXTENDS Daemon, TLC

CONSTANTS q1, q2, q3, c1, c2, outer, inner, app, app2

TwoHints == [r \in Root |-> <<app, app2>>]
Nested == outer :> {outer} @@ inner :> {outer, inner}

EditOuter == outer :> 1 @@ inner :> 0

Ask(op, needle) == [op |-> op, needle |-> needle]

Traffic ==
    q1 :> {Ask("add", outer)} @@
    q2 :> {Ask("reindex", app)} @@
    q3 :> {Ask("search", inner), Ask("remove", app)}
TwoOrders == c1 :> {Ask("add", inner)} @@ c2 :> {Ask("remove", app)}
=============================================================================

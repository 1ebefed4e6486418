--------------------------- MODULE MCIndexRunner ---------------------------
(***************************************************************************)
(* Small instances of IndexRunner.  Contents are pairs of a hash and a     *)
(* revision; two contents with one revision are an edit that the time of   *)
(* modification and the size do not show.                                  *)
(***************************************************************************)
EXTENDS IndexRunner, TLC

CONSTANTS t1, t2, p, q, d, e, c1, c2

Content(h, r) == [hash |-> h, rev |-> r]

OneSetting == [c \in Config |-> "settings"]
OneLocator == [c \in Config |-> [x \in Project |-> "locator"]]
EachItsSetting == [c \in Config |-> <<c, "settings">>]

AnyManifest == Manifest
AnyPayload == Observation

AllProjects == [t \in Token |-> Project]
SameConfig == [t \in Token |-> {c1}]
AnyConfig == t1 :> {c1} @@ t2 :> {c1, c2}

\* Edits that move the revision, and one that does not.
Hidden == {Content(1, 1), Content(2, 1), Content(2, 2)}
\* The revision identifies the content.
Authoritative == {Content(1, 1), Content(2, 2)}

Filled == [x \in Project |-> [y \in Doc |-> FileAt(y, Content(1, 1))]]
=============================================================================

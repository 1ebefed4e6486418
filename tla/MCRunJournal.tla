---------------------------- MODULE MCRunJournal ----------------------------
(***************************************************************************)
(* Small instances of RunJournal.  Observations are numbered: o1 and o2    *)
(* are two contents of a document, o1b is o1 under a newer revision.       *)
(***************************************************************************)
EXTENDS RunJournal, TLC

CONSTANTS t1, t2, p, q, d, e, c1, c2

o1 == [path |-> 1, hash |-> 1, rev |-> 1]
o2 == [path |-> 1, hash |-> 2, rev |-> 2]
o1b == [path |-> 1, hash |-> 1, rev |-> 2]
other == [path |-> 2, hash |-> 1, rev |-> 1]

See(o, a) == [obs |-> o, action |-> a]

\* One setting, one locator per project.
OneSetting == [c \in Config |-> "settings"]
OneLocator == [c \in Config |-> [x \in Project |-> "locator"]]

\* One document per project.
OneDocManifests == {d :> See(o1, "upsert")}
OneDocPayloads == {o1}

\* Two documents: new, swapping paths, touched and deleted, untouched and gone.
DocumentManifests ==
    {d :> See(o1, "upsert") @@ e :> See(other, "upsert"),
     d :> See(other, "upsert") @@ e :> See(o1, "upsert"),
     d :> See(o1b, "metadata") @@ e :> See(other, "delete"),
     d :> See(o1, "unchanged") @@ e :> None}
TwoDocPayloads == {o1, other}

Symmetry == Permutations(Token)
=============================================================================

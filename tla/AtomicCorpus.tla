---------------------------- MODULE AtomicCorpus ----------------------------
(***************************************************************************)
(* What indexing promises to the readers of a codeindex database: the live *)
(* corpus only ever changes by the publication of a whole transaction,     *)
(* which covers a fixed set of projects, was begun against the generation  *)
(* it replaces, and moves the generation strictly forward.  Everything     *)
(* else (leases, manifests, staged documents) is invisible.                *)
(***************************************************************************)
EXTENDS Naturals

CONSTANTS
    Project,    \* project labels
    TxId,       \* transaction ids, positive numbers
    Content,    \* what a project's live corpus can hold
    Empty       \* the content of a project never published

VARIABLES
    corpus,      \* [Project -> Content]
    generation,  \* id of the last published transaction, 0 before the first
    open         \* the transactions that may still publish

corpusState == <<corpus, generation, open>>

Transaction == [id : TxId, base : TxId \cup {0}, scope : SUBSET Project]

Init ==
    /\ corpus = [p \in Project |-> Empty]
    /\ generation = 0
    /\ open = {}

\* A transaction may displace others, and must displace the overlapping ones.
Begin(id, scope, displaced) ==
    /\ id > generation
    /\ \A x \in open \ displaced : x.id # id /\ x.scope \cap scope = {}
    /\ open' = (open \ displaced)
                 \cup {[id |-> id, base |-> generation, scope |-> scope]}
    /\ UNCHANGED <<corpus, generation>>

Abort(lost) ==
    /\ open' = open \ lost
    /\ UNCHANGED <<corpus, generation>>

\* First committer wins: the corpus must be the one the transaction began with.
Commit(x) ==
    /\ x.base = generation
    /\ generation' = x.id
    /\ open' = open \ {x}
    /\ corpus' \in [Project -> Content]
    /\ \A p \in Project \ x.scope : corpus'[p] = corpus[p]

Next ==
    \/ \E id \in TxId, scope \in SUBSET Project, displaced \in SUBSET open :
          Begin(id, scope, displaced)
    \/ \E lost \in SUBSET open : Abort(lost)
    \/ \E x \in open : Commit(x)

Spec == Init /\ [][Next]_corpusState
=============================================================================

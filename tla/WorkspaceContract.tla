------------------------- MODULE WorkspaceContract -------------------------
(***************************************************************************)
(* What a persistent workspace promises its callers: the operations act    *)
(* one after the other on one tree, a call that returns is safe from a     *)
(* reload, and a reload goes back to a state the workspace was in.  A call *)
(* that fails to persist is still in effect until a reload.                *)
(***************************************************************************)
EXTENDS Naturals, Sequences

CONSTANTS
    Callers,        \* the calls made on the workspace
    Changes,        \* the operations they may be, reads aside
    Apply(_, _),    \* what an operation does to a tree: [ok, tree]
    WellFormed(_),  \* whether a tree can be loaded
    EmptyTree       \* a workspace without contents

VARIABLES
    stable,   \* the tree a reload finds
    unsaved,  \* the changes since, oldest first, each with the tree it made
    status,   \* of each call: "idle", "open", "changed", "returned" or "threw"
    seen      \* the tree each read returned; EmptyTree before

abstractVars == <<stable, unsaved, status, seen>>

Contents == IF unsaved = <<>> THEN stable ELSE unsaved[Len(unsaved)].tree

AbstractInit ==
    /\ WellFormed(stable)
    /\ unsaved = <<>>
    /\ status = [c \in Callers |-> "idle"]
    /\ seen = [c \in Callers |-> EmptyTree]

Opens(c) ==
    /\ status[c] = "idle"
    /\ status' = [status EXCEPT ![c] = "open"]
    /\ UNCHANGED <<stable, unsaved, seen>>

Alters(c) ==
    /\ status[c] = "open"
    /\ \E op \in Changes :
        LET r == Apply(Contents, op)
        IN  /\ r.ok
            /\ unsaved' = Append(unsaved, [call |-> c, tree |-> r.tree])
    /\ status' = [status EXCEPT ![c] = "changed"]
    /\ UNCHANGED <<stable, seen>>

\* A read returns the tree as all changes so far have left it.
ReadsTree(c) ==
    /\ status[c] = "open"
    /\ status' = [status EXCEPT ![c] = "returned"]
    /\ seen' = [seen EXCEPT ![c] = Contents]
    /\ UNCHANGED <<stable, unsaved>>

\* A call throws, before or after its change.
Throws(c) ==
    /\ status[c] \in {"open", "changed"}
    /\ status' = [status EXCEPT ![c] = "threw"]
    /\ UNCHANGED <<stable, unsaved, seen>>

Saves ==
    \E n \in 1 .. Len(unsaved) :
        /\ stable' = unsaved[n].tree
        /\ unsaved' = SubSeq(unsaved, n + 1, Len(unsaved))
        /\ UNCHANGED <<status, seen>>

Returns(c) ==
    /\ status[c] = "changed"
    /\ \A n \in DOMAIN unsaved : unsaved[n].call # c
    /\ status' = [status EXCEPT ![c] = "returned"]
    /\ UNCHANGED <<stable, unsaved, seen>>

Reloads ==
    /\ unsaved' = <<>>
    /\ status' = [c \in Callers |-> IF status[c] \in {"open", "changed"} THEN "threw" ELSE status[c]]
    /\ UNCHANGED <<stable, seen>>

AbstractNext ==
    \/ \E c \in Callers : Opens(c) \/ Alters(c) \/ ReadsTree(c) \/ Throws(c) \/ Returns(c)
    \/ Saves \/ Reloads

AbstractSpec == AbstractInit /\ [][AbstractNext]_abstractVars
=============================================================================

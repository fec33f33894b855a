-------------------------- MODULE MCChildCommands --------------------------
(* The smallest tree for ChildCommands in which an invocation is a child of a *)
(* child: the depth at which the run's signal and the parent's differ.        *)
EXTENDS ChildCommands, TLC

CONSTANTS run, child, grandchild

ChainParent    == (child :> run) @@ (grandchild :> child)
ChainAncestors == (run :> {run}) @@ (child :> {run, child})
                    @@ (grandchild :> {run, child, grandchild})
=============================================================================

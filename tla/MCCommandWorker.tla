-------------------------- MODULE MCCommandWorker --------------------------
(* Model values for CommandWorker. *)
EXTENDS CommandWorker

LOCAL INSTANCE Functions

CONSTANTS c1, c2, p1, r1

\* One command in a package of each kind of interest to a run.
RunLoadable ==
    {[type |-> t, commands |-> {c1}] : t \in {"webc", "direct"}}

\* Packages that collide on one command, on the other, on both or on none, and
\* reloads that drop or add a command.
CatalogLoadable ==
    [type : {"webc", "unsupported"}, commands : SUBSET {c1, c2}]

AllLoadable == RunLoadable \cup CatalogLoadable

\* Several runs of one package, with output and restarts.
OnePackage ==
    packageLoads \subseteq {p1} /\ \A p \in Packages :
      packages[p] \in {Unloaded} \cup (IF p = p1 THEN RunLoadable ELSE {})

\* One run, without output, while packages come and go.
OneRun ==
    /\ restarts = 0 /\ \A r \in Runs \ {r1} : pc[r] = "new"
    /\ {"stdout", "stderr"} \cap Range(posted[r1]) = {}

\* Either of the two; no step that fairness asks for leaves them.  Runs differ in
\* name only: r1 is the first.
MCNext ==
    /\ Next
    /\ (OnePackage \/ OneRun)'
    /\ pc'[r1] = "new" => \A r \in Runs : pc'[r] = "new"
MCSpec == Init /\ [][MCNext]_vars /\ Fairness
=============================================================================

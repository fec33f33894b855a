--------------------------- MODULE WorkspaceTree ---------------------------
(***************************************************************************)
(* The contents of a browser workspace and the operations of               *)
(* MemoryBrowserWorkspaceStore (apps/web/src/workspace.js) on them.        *)
(*                                                                         *)
(* A path is the sequence of its names below /workspace, which is what     *)
(* normalizeWorkspacePath leaves of it; a tree is its set of directories   *)
(* and its files with their content.  Times and encodings are left out.    *)
(***************************************************************************)
EXTENDS Naturals, Sequences, SequencesExt, Functions

\* What normalizeWorkspacePath returns, of any depth.
Paths == Seq(STRING)

Root == <<>>
EmptyTree == [dirs |-> {Root}, files |-> <<>>]

parentPath(path) == SubSeq(path, 1, Len(path) - 1)
isChildPath(parent, child) == IsStrictPrefix(parent, child)
Within(path, child) == path = child \/ isChildPath(path, child)
replacePathPrefix(path, from, to) == to \o SubSeq(path, Len(from) + 1, Len(path))

Files(tree) == DOMAIN tree.files
Nodes(tree) == tree.dirs \cup Files(tree)

\* A snapshot whose entries have normalized paths.
IsTree(t) ==
    /\ t = [dirs |-> t.dirs, files |-> t.files]
    /\ Nodes(t) \subseteq Paths

\* validateWorkspaceGraph: what a snapshot must satisfy to be loaded.
WellFormed(tree) ==
    /\ Root \in tree.dirs
    /\ Files(tree) \cap tree.dirs = {}
    /\ \A path \in Nodes(tree) \ {Root} : parentPath(path) \in tree.dirs

\* An operation that throws leaves the tree as it is.
Done(tree)   == [ok |-> TRUE, tree |-> tree]
Thrown(tree) == [ok |-> FALSE, tree |-> tree]

writeFile(tree, path, content) ==
    IF path = Root \/ path \in tree.dirs \/ parentPath(path) \notin tree.dirs
    THEN Thrown(tree)
    ELSE Done([tree EXCEPT !.files = [p \in Files(tree) \cup {path} |->
                                        IF p = path THEN content ELSE tree.files[p]]])

deleteFile(tree, path) ==
    IF path \notin Files(tree) THEN Thrown(tree)
    ELSE Done([tree EXCEPT !.files = Restrict(@, Files(tree) \ {path})])

\* ensureDirectory makes every missing directory on the way.
createDirectory(tree, path, recursive) ==
    LET way == {SubSeq(path, 1, n) : n \in 1 .. Len(path)}
    IN  IF path = Root THEN Done(tree)
        ELSE IF path \in Files(tree) THEN Thrown(tree)
        ELSE IF recursive
        THEN IF way \cap Files(tree) # {} THEN Thrown(tree)
             ELSE Done([tree EXCEPT !.dirs = @ \cup way])
        ELSE IF parentPath(path) \notin tree.dirs \/ path \in tree.dirs THEN Thrown(tree)
        ELSE Done([tree EXCEPT !.dirs = @ \cup {path}])

hasChildren(tree, path) == \E p \in Nodes(tree) : isChildPath(path, p)

deleteDirectory(tree, path, recursive) ==
    IF path = Root \/ path \notin tree.dirs \/ (~recursive /\ hasChildren(tree, path))
    THEN Thrown(tree)
    ELSE Done([dirs  |-> {d \in tree.dirs : ~Within(path, d)},
               files |-> Restrict(tree.files, {f \in Files(tree) : ~Within(path, f)})])

\* Mutant: only the directory itself and its files are moved.
renameShallow(tree, from, to) ==
    LET Moved(p) == IF p = from \/ (p \in Files(tree) /\ isChildPath(from, p))
                    THEN replacePathPrefix(p, from, to) ELSE p
    IN  Done([dirs  |-> {Moved(d) : d \in tree.dirs},
              files |-> [p \in {Moved(f) : f \in Files(tree)} |->
                            tree.files[CHOOSE f \in Files(tree) : Moved(f) = p]]])

\* renameDirectory: the directory and all below it.
renameDirectory(tree, from, to) ==
    LET Moved(p) == IF Within(from, p) THEN replacePathPrefix(p, from, to) ELSE p
    IN  Done([dirs  |-> {Moved(d) : d \in tree.dirs},
              files |-> [p \in {Moved(f) : f \in Files(tree)} |->
                            tree.files[CHOOSE f \in Files(tree) : Moved(f) = p]]])

rename(tree, from, to) ==
    IF from = Root \/ to = Root \/ parentPath(to) \notin tree.dirs \/ to \in Nodes(tree)
    THEN Thrown(tree)
    ELSE IF from \in Files(tree)
    THEN Done([tree EXCEPT !.files = [p \in (Files(tree) \ {from}) \cup {to} |->
                                        tree.files[IF p = to THEN from ELSE p]]])
    ELSE IF from \in tree.dirs /\ ~isChildPath(from, to)
    THEN renameDirectory(tree, from, to)
    ELSE Thrown(tree)

\* loadSnapshot replaces everything, or nothing.
loadSnapshot(tree, snapshot) == IF WellFormed(snapshot) THEN Done(snapshot) ELSE Thrown(tree)

\* The changing operations of a store, as values.
Apply(tree, op) ==
    CASE op.kind = "writeFile"       -> writeFile(tree, op.path, op.content)
      [] op.kind = "deleteFile"      -> deleteFile(tree, op.path)
      [] op.kind = "createDirectory" -> createDirectory(tree, op.path, op.recursive)
      [] op.kind = "deleteDirectory" -> deleteDirectory(tree, op.path, op.recursive)
      [] op.kind = "rename"          -> rename(tree, op.path, op.to)
      [] op.kind = "importSnapshot"  -> loadSnapshot(tree, op.snapshot)

\* An operation whose paths are normalized.
IsChange(op) ==
    \/ op.kind \in {"writeFile", "deleteFile", "createDirectory", "deleteDirectory"} /\ op.path \in Paths
    \/ op.kind = "rename" /\ op.path \in Paths /\ op.to \in Paths
    \/ op.kind = "importSnapshot" /\ IsTree(op.snapshot)
=============================================================================

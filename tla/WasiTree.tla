------------------------------- MODULE WasiTree -------------------------------
(***************************************************************************)
(* The file trees a raw WASI module sees (WasiPreview1Runtime of           *)
(* apps/web/src/wasi-module.js): the workspace mounted from a snapshot,    *)
(* the scratch directory /tmp and the read-only package root, the path_*   *)
(* and fd_* calls on them, the descriptors that must follow what is        *)
(* renamed and removed, the import of what a child command left, and the   *)
(* flush of the workspace at the end of the run.                           *)
(*                                                                         *)
(* A call that returns an errno changes nothing and is not a step; the     *)
(* one errno that matters, NOENT from the workspace when the current       *)
(* directory is in it, is in pathOpen.  A descriptor has the path the code *)
(* keeps in it and the place where the file or directory it was opened on  *)
(* really is, which is what the identity of the code's records comes to.   *)
(* Offsets, pipes, descriptor numbers and forks are in WasiProcesses.      *)
(***************************************************************************)
EXTENDS WorkspaceTree, FiniteSets

CONSTANTS
    Slots,          \* the descriptors the module can have open at a time
    Texts,          \* the paths it passes: [abs, names]
    ScratchTexts,   \* those it passes with one of /tmp, by writable
    OpenRequests,   \* the flags and rights of an open, a set of words
    Snapshot,       \* what the workspace store holds at the start
    PackageFiles,   \* paths of the package's files, fallbacks in the workspace
    PackageRoot,    \* the package root, a tree
    ChildChanges,   \* what a child command may do to the snapshot it is given
    ChildLeavesOpen,\* it leaves what its parent has open, and the directories
                    \* of the package's files, where they are
    MaxDepth,       \* bound on the depth of the trees
    MaxNodes        \* bound on the files and directories of a tree

ASSUME WasiTreeAssumption ==
    /\ \A t \in {Snapshot, PackageRoot} : IsTree(t) /\ WellFormed(t)
    /\ Snapshot.files \in [Files(Snapshot) -> Range(Snapshot.files)]
    /\ \A text \in Texts \cup UNION Range(ScratchTexts) : text.names \in Paths
    /\ DOMAIN ScratchTexts = BOOLEAN
    /\ PackageFiles \subseteq Paths
    /\ \A change \in ChildChanges : IsChange(change)
    /\ ChildLeavesOpen \in BOOLEAN /\ {MaxDepth, MaxNodes} \subseteq Nat

VARIABLES
    fs,         \* the runtime: its trees, records, descriptors and directory
    writable,   \* workspace.writable
    stored,     \* what the workspace store holds
    phase       \* "running", "ended" or "failed": the flush threw

treeVars == <<fs, writable, stored, phase>>

\* The path of a descriptor whose file or directory is gone, and of no file.
Nowhere == <<"/">>

\* A literal is a string: not an assumption, but the provers do not know it.
ASSUME LiteralAssumption == {Nowhere, <<"workspace">>} \subseteq Paths

Flags == {"create", "excl", "trunc"}
Empty == "empty"

\* f, and g where f is not defined.
Over(f, g) == [x \in DOMAIN f \cup DOMAIN g |-> IF x \in DOMAIN f THEN f[x] ELSE g[x]]

Record(bytes, fallback, path) == [bytes |-> bytes, fallback |-> fallback, path |-> path]

-----------------------------------------------------------------------------
(* The workspace as it is mounted, exported and flushed *)

\* writableWorkspaceMountFromSnapshot: the package's files are there too, where
\* the snapshot has no file.
writableWorkspaceMount(snapshot) ==
    [dirs  |-> snapshot.dirs,
     files |-> [p \in Files(snapshot) \cup PackageFiles |->
                  IF p \in Files(snapshot) THEN Record(snapshot.files[p], FALSE, p)
                  ELSE Record("package", TRUE, p)]]

\* Without a snapshot there are only the package's files, and no directories.
readOnlyWorkspaceMount ==
    [dirs |-> {}, files |-> [p \in PackageFiles |-> Record("package", FALSE, p)]]

TreeInit ==
    /\ writable \in BOOLEAN
    /\ fs = [workspace |-> IF writable THEN writableWorkspaceMount(Snapshot) ELSE readOnlyWorkspaceMount,
             tmp |-> EmptyTree, open |-> <<>>, cwd |-> <<"workspace">>, dirty |-> FALSE]
    /\ stored = Snapshot
    /\ phase = "running"

\* exportWasiWorkspaceSnapshot: the records say where they are.  The root is in
\* every snapshot once a store has loaded it.
exportSnapshot(t) ==
    LET own == {r \in Range(t.files) : ~r.fallback}
    IN  [dirs  |-> t.dirs \cup {Root},
         files |-> [p \in {r.path : r \in own} |-> (CHOOSE r \in own : r.path = p).bytes]]

\* workspaceResult, and commitWorkerWorkspaceResult, which does not look at
\* dirty.  The store refuses a snapshot it cannot load.
Flush ==
    \E inWorker \in BOOLEAN :
      LET result == IF writable /\ (fs.dirty \/ inWorker) THEN loadSnapshot(stored, exportSnapshot(fs.workspace))
                    ELSE Done(stored)
      IN  /\ stored' = result.tree
          /\ phase' = IF result.ok THEN "ended" ELSE "failed"
          /\ UNCHANGED <<fs, writable>>

-----------------------------------------------------------------------------
(* Where a call looks *)

\* resolveScratchPath on a path that is not absolute.
resolve(base, names) == IF base = Nowhere \/ ".." \in Range(names) THEN Nowhere ELSE base \o names

\* mountedRelativePath: is the virtual path below the mount?
Mounted(path, mount) == path # <<>> /\ Head(path) = mount

resolveMountedPath(base, text, mount) ==
    IF text.abs
    THEN IF mount = "workspace" /\ writable /\ Mounted(text.names, mount)
         THEN resolve(Root, Tail(text.names)) ELSE Nowhere
    ELSE resolve(base, text.names)

resolvePackageRootPath(base, text) ==
    IF text.abs /\ base # Root THEN Nowhere ELSE resolve(base, text.names)

\* workspaceBasePath, scratchBasePath, packageRootBasePath.  A preopened
\* directory is known by the name of its mount.
BasePath(fd, mount) ==
    IF fd = mount THEN Root
    ELSE IF fd \in DOMAIN fs.open /\ fs.open[fd].kind = "directory" /\ fs.open[fd].mount = mount
    THEN fs.open[fd].path
    ELSE Nowhere

\* A path given to the package root is in the workspace if it says so or if the
\* current directory is there.
workspaceCwdBasePath(fd, text) ==
    IF BasePath(fd, "root") # Root THEN Nowhere
    ELSE IF text.abs THEN IF Mounted(text.names, "workspace") THEN Root ELSE Nowhere
    ELSE IF Mounted(fs.cwd, "workspace") THEN Tail(fs.cwd) ELSE Nowhere

mutableWorkspaceBasePath(fd, text) ==
    IF ~writable THEN Nowhere
    ELSE IF BasePath(fd, "workspace") # Nowhere THEN BasePath(fd, "workspace")
    ELSE workspaceCwdBasePath(fd, text)

\* The descriptors a call can be given, and the paths it is given with one.
Fds == {"workspace", "tmp", "root"} \cup DOMAIN fs.open
TextsFor(fd) == IF BasePath(fd, "tmp") # Nowhere THEN ScratchTexts[writable] ELSE Texts

\* The tree and the place in it that a changing call is about.
Place(fd, text) ==
    LET ws    == mutableWorkspaceBasePath(fd, text)
        mount == IF ws # Nowhere THEN "workspace" ELSE "tmp"
        base  == IF ws # Nowhere THEN ws ELSE BasePath(fd, "tmp")
    IN  [mount |-> mount, base |-> base, path |-> resolveMountedPath(base, text, mount)]

-----------------------------------------------------------------------------
(* What a tree says of a path *)

pathHasChildren(t, path) == path # Root /\ \E p \in Nodes(t) : isChildPath(path, p)

isDirectory(t, path) == path \in t.dirs \/ pathHasChildren(t, path)

\* workspacePathKind, scratchPathKind: a file first.
pathKind(t, path) ==
    IF path \in Files(t) THEN "file" ELSE IF isDirectory(t, path) THEN "directory" ELSE "none"

\* statPath: a directory first.
statPath(t, path) ==
    IF isDirectory(t, path) THEN "directory" ELSE IF path \in Files(t) THEN "file" ELSE "none"

\* Mutant: a file can be the parent too.
parentExists(t, path) == Len(path) > 1 => parentPath(path) \in Nodes(t)

\* scratchParentStatus
parentOk(t, path) ==
    Len(path) > 1 => parentPath(path) \in t.dirs /\ parentPath(path) \notin Files(t)

\* directoryEntries: the names below a path, and what each is.
directoryEntries(t, path) ==
    LET below == {p \in Nodes(t) : isChildPath(path, p)}
        Name(p) == p[Len(path) + 1]
        Deep(p) == Len(p) > Len(path) + 1 \/ p \in t.dirs
    IN  [n \in {Name(p) : p \in below} |->
           IF \E p \in below : Name(p) = n /\ Deep(p) THEN "directory" ELSE "file"]

-----------------------------------------------------------------------------
(* Steps *)

TreeBecomes(s) ==
    /\ phase = "running"
    /\ \A t \in {s.workspace, s.tmp} :
         Cardinality(Nodes(t)) <= MaxNodes /\ \A p \in Nodes(t) : Len(p) <= MaxDepth
    /\ \A fd \in DOMAIN s.open : Len(s.open[fd].path) <= MaxDepth
    /\ fs' = s
    /\ UNCHANGED <<writable, stored, phase>>

\* A tree is changed; markWorkspaceDirty if it is the workspace.
Changed(mount, t) == [fs EXCEPT ![mount] = t, !.dirty = @ \/ mount = "workspace"]

Opened(s, mount, tree, kind, path, may) ==
    LET fd == CHOOSE slot \in Slots : slot \notin DOMAIN fs.open
        d  == [mount |-> mount, tree |-> tree, kind |-> kind, path |-> path, at |-> path, may |-> may]
    IN  TreeBecomes([s EXCEPT !.open = Over(@, [slot \in {fd} |-> d])])

\* A scratch file's descriptor has no mount.
openFile(mount, path, q) ==
    LET t    == fs[mount]
        made == path \notin Files(t)
    IN  /\ {"create", "trunc"} \cap q # {} => "write" \in q
        /\ ~isDirectory(t, path) /\ parentOk(t, path)
        /\ IF made THEN "create" \in q ELSE ~({"create", "excl"} \subseteq q)
        /\ Opened(IF made \/ "trunc" \in q
                  THEN Changed(mount, [t EXCEPT !.files = Over([p \in {path} |-> Record(Empty, FALSE, p)], @)])
                  ELSE fs,
                  IF mount = "workspace" THEN mount ELSE "none", mount, "file", path, "write" \in q)

openWorkspaceFile(path, q) == openFile("workspace", path, q)
openScratchFile(path, q)   == openFile("tmp", path, q)

openDirectory(mount, path, q) ==
    LET t == fs[mount]
    IN  /\ path \notin Files(t)
        /\ isDirectory(t, path) \/ (mount = "workspace" /\ path = Root)
        /\ Opened(fs, mount, mount, "directory", path, "write" \in q /\ (mount = "workspace" => writable))

openWorkspaceDirectory(path, q)         == writable /\ openDirectory("workspace", path, q)
openReadOnlyWorkspaceDirectory(path, q) == ~writable /\ openDirectory("workspace", path, q)
openScratchDirectory(path, q)           == openDirectory("tmp", path, q)

\* openPackageRootPath, openPackageRootDirectory: the two mounts below the root
\* can be opened from it as directories, all else only to be read.
openPackageRootPath(fd, text, q) ==
    LET path  == resolvePackageRootPath(BasePath(fd, "root"), text)
        Below(mount) == BasePath(fd, "root") = Root /\ Mounted(path, mount)
    IN  /\ path # Nowhere
        /\ \/ \E mount \in {"workspace", "tmp"} :
                /\ Below(mount)
                /\ q \cap Flags = {}
                /\ openDirectory(mount, Tail(path), q)
           \/ /\ ~Below("workspace") /\ ~Below("tmp")
              /\ "write" \notin q
              /\ "directory" \in q => path \in PackageRoot.dirs
              /\ "directory" \notin q => q \cap Flags = {} /\ path \in Files(PackageRoot)
              /\ Opened(fs, "root", "root", IF "directory" \in q THEN "directory" ELSE "file", path, FALSE)

\* The workspace has no such file or directory.
NoEntry(path, q) ==
    IF "directory" \in q THEN pathKind(fs.workspace, path) = "none" /\ path # Root
    ELSE /\ ~isDirectory(fs.workspace, path) /\ parentPath(path) \notin Files(fs.workspace)
         /\ path \notin Files(fs.workspace) \/ ~parentOk(fs.workspace, path)

\* The read-only workspace: its files are opened without a mount.
openReadOnly(fd, text, q) ==
    LET path == IF text.abs THEN Nowhere ELSE resolve(BasePath(fd, "workspace"), text.names)
    IN  /\ path # Nowhere
        /\ q \cap Flags = {}
        /\ IF "directory" \in q THEN openReadOnlyWorkspaceDirectory(path, q)
           ELSE /\ "write" \notin q
                /\ path \in Files(fs.workspace)
                /\ Opened(fs, "none", "workspace", "file", path, FALSE)

\* pathOpen, pathOpen2: a path in the current directory that is not in the
\* workspace is looked for in the package root, unless it would be written.
pathOpen(fd, text, q) ==
    LET at     == Place(fd, text)
        found  == at.path # Nowhere
        missed == found /\ NoEntry(at.path, q) /\ (Flags \cup {"write"}) \cap q = {}
    IN  /\ Slots \ DOMAIN fs.open # {}
        /\ \/ /\ at.mount = "workspace" /\ found
              /\ IF "directory" \in q THEN openWorkspaceDirectory(at.path, q)
                 ELSE openWorkspaceFile(at.path, q)
           \/ /\ BasePath(fd, "tmp") # Nowhere /\ found
              /\ IF "directory" \in q THEN openScratchDirectory(at.path, q)
                 ELSE openScratchFile(at.path, q)
           \/ /\ BasePath(fd, "root") # Nowhere
              /\ at.mount = "workspace" => missed
              /\ openPackageRootPath(fd, text, q)
           \/ ~writable /\ BasePath(fd, "workspace") # Nowhere /\ openReadOnly(fd, text, q)

fdClose(fd) == TreeBecomes([fs EXCEPT !.open = Restrict(@, DOMAIN @ \ {fd})])

-----------------------------------------------------------------------------
(* Changing the trees *)

\* pathCreateDirectory, createWorkspaceDirectory
pathCreateDirectory(fd, text) ==
    LET at == Place(fd, text)
        t  == fs[at.mount]
    IN  /\ at.path # Nowhere /\ at.path \notin Nodes(t)
        /\ parentOk(t, at.path)
        /\ TreeBecomes(Changed(at.mount, [t EXCEPT !.dirs = @ \cup {at.path}]))

\* What was at a path of a tree is gone: no descriptor's object is there now.
Gone(open, tree, path) ==
    [fd \in DOMAIN open |-> IF open[fd].tree = tree /\ open[fd].at = path
                            THEN [open[fd] EXCEPT !.at = Nowhere] ELSE open[fd]]

\* detachOpenWorkspaceFile, detachOpenWorkspaceDirectory and
\* detachOpenScratchDirectory tell the descriptors.
Detached(open, mount, kind, path) ==
    [fd \in DOMAIN open |->
       IF open[fd].mount = mount /\ open[fd].kind = kind /\ open[fd].path = path
       THEN [open[fd] EXCEPT !.path = Nowhere] ELSE open[fd]]

\* Only the workspace tells them of what is removed.
Removed(open, mount, kind, path) ==
    Gone(IF mount = "workspace" THEN Detached(open, mount, kind, path) ELSE open, mount, path)

\* pathUnlinkFile, unlinkWorkspaceFile
pathUnlinkFile(fd, text) ==
    LET at == Place(fd, text)
        t  == fs[at.mount]
    IN  /\ at.path \in Files(t) /\ ~isDirectory(t, at.path)
        /\ TreeBecomes([Changed(at.mount, [t EXCEPT !.files = Restrict(@, DOMAIN @ \ {at.path})])
                      EXCEPT !.open = Removed(@, at.mount, "file", at.path)])

\* pathRemoveDirectory, removeWorkspaceDirectory
pathRemoveDirectory(fd, text) ==
    LET at == Place(fd, text)
        t  == fs[at.mount]
    IN  /\ at.path \in t.dirs /\ at.path # at.base
        /\ at.path \notin Files(t) /\ parentOk(t, at.path)
        /\ ~pathHasChildren(t, at.path)
        /\ TreeBecomes([Changed(at.mount, [t EXCEPT !.dirs = @ \ {at.path}])
                      EXCEPT !.open = Removed(@, at.mount, "directory", at.path)])

\* renameWorkspaceFile, renameScratchFile.  The descriptors are found by the
\* record they hold; those of the file that is replaced keep it.
renameFile(mount, from, to) ==
    LET t == fs[mount]
        Holds(d, path) == d.tree = mount /\ d.kind = "file" /\ d.at = path
    IN  [Changed(mount, [t EXCEPT !.files =
                           [p \in (Files(t) \ {from}) \cup {to} |->
                              IF p = to THEN Record(@[from].bytes, FALSE, to) ELSE @[p]]])
           EXCEPT !.open = [fd \in DOMAIN @ |->
                              IF Holds(@[fd], from) THEN [@[fd] EXCEPT !.path = to, !.at = to]
                              ELSE IF Holds(@[fd], to)
                              THEN [@[fd] EXCEPT !.path = Nowhere, !.at = Nowhere]
                              ELSE @[fd]]]

Move(path, from, to) == IF Within(from, path) THEN replacePathPrefix(path, from, to) ELSE path

\* A directory's rename, and the descriptors once those of the directory it
\* replaces have been told.  The scratch one moves the paths of all descriptors,
\* also of those of the other mounts.
movedTree(mount, from, to, told) ==
    LET t    == fs[mount]
        Moved(f) == [f EXCEPT !.path = Move(@, from, to)]
        open == Gone(told, mount, to)
    IN  [Changed(mount, [dirs  |-> {Move(d, from, to) : d \in t.dirs \ {to}},
                         files |-> [p \in {Move(f, from, to) : f \in Files(t)} |->
                                      Moved(t.files[CHOOSE f \in Files(t) : Move(f, from, to) = p])]])
           EXCEPT !.open = [fd \in DOMAIN open |->
                              LET d == open[fd]
                              IN  [d EXCEPT !.path = IF mount = "tmp" \/ d.mount = mount
                                                     THEN Move(@, from, to) ELSE @,
                                            !.at = IF d.tree = mount THEN Move(@, from, to) ELSE @]]]

\* Mutant: the descriptors of the directory that is replaced are not told.
renameTreeAttached(mount, from, to) == movedTree(mount, from, to, fs.open)

\* renameWorkspaceDirectory, renameScratchDirectory
renameTree(mount, from, to) ==
    movedTree(mount, from, to, Detached(fs.open, mount, "directory", to))

\* The rights check of a rename, which a preopened directory passes.
MayRename(fd) == fd \in DOMAIN fs.open => fs.open[fd].may \/ fs.open[fd].mount = "root"

\* pathRename, renameWorkspacePath.  A scratch path is not the root of /tmp.
pathRename(oldFd, oldText) ==
    LET source == Place(oldFd, oldText)
        from == source.path
        t    == fs[source.mount]
        kind == pathKind(t, from)
    IN  /\ from \notin {Nowhere, Root} /\ MayRename(oldFd)
        /\ kind # "none"
        /\ \E newFd \in Fds : \E newText \in TextsFor(newFd) :
             LET target == Place(newFd, newText)
                 to == target.path
             IN  /\ MayRename(newFd) /\ target.mount = source.mount
                 /\ to \notin {Nowhere, Root, from}
                 /\ kind = "directory" => ~isChildPath(from, to)
                 /\ CASE pathKind(t, to) = "none"      -> parentOk(t, to)
                      [] pathKind(t, to) = "file"      -> kind = "file"
                      [] pathKind(t, to) = "directory" -> kind = "directory" /\ ~pathHasChildren(t, to)
                 /\ TreeBecomes(IF kind = "file" THEN renameFile(source.mount, from, to)
                                ELSE renameTree(source.mount, from, to))

-----------------------------------------------------------------------------
(* Changing the files *)

\* markOpenFileDirty: a package file that is written belongs to the workspace.
\* The bytes of a file that is in no tree are left out.
Written(fd, bytes) ==
    LET d == fs.open[fd]
        s == IF d.at = Nowhere THEN fs
             ELSE [fs EXCEPT ![d.tree].files[d.at] = Record(bytes, FALSE, @.path)]
    IN  [s EXCEPT !.dirty = @ \/ d.mount = "workspace"]

\* writeOpenFile, writeOpenFileAt, fdAllocate and an enlarging fdFilestatSetSize.
fdWrite(fd) ==
    /\ fs.open[fd].kind = "file" /\ fs.open[fd].may
    /\ TreeBecomes(Written(fd, "new"))

\* Mutant: a file that is emptied is not marked.
fdTruncateQuiet(fd) ==
    /\ fs.open[fd].kind = "file" /\ fs.open[fd].may
    /\ fs.open[fd].at # Nowhere => fs[fs.open[fd].tree].files[fs.open[fd].at].bytes # Empty
    /\ TreeBecomes([Written(fd, Empty) EXCEPT !.dirty = fs.dirty])

\* fdFilestatSetSize(fd, 0); resizeOpenFile does nothing to an empty file.
fdTruncate(fd) ==
    /\ fs.open[fd].kind = "file" /\ fs.open[fd].may
    /\ fs.open[fd].at # Nowhere => fs[fs.open[fd].tree].files[fs.open[fd].at].bytes # Empty
    /\ TreeBecomes(Written(fd, Empty))

-----------------------------------------------------------------------------
(* The current directory and child commands *)

\* resolveWasiVirtualPath: here .. is followed.
Virtual(text) ==
    LET Step(path, name) ==
            IF name # ".." THEN Append(path, name)
            ELSE IF path \in {Root, Nowhere} THEN Nowhere ELSE parentPath(path)
        walk[n \in 0 .. Len(text.names)] ==
            IF n = 0 THEN IF text.abs THEN Root ELSE fs.cwd
            ELSE Step(walk[n - 1], text.names[n])
    IN  walk[Len(text.names)]

cwdPathKind(path) ==
    IF path = Root \/ path \in {<<"workspace">>, <<"tmp">>} THEN "directory"
    ELSE IF Mounted(path, "workspace") THEN pathKind(fs.workspace, Tail(path))
    ELSE IF Mounted(path, "tmp") THEN pathKind(fs.tmp, Tail(path))
    ELSE IF path \in PackageRoot.dirs THEN "directory" ELSE "none"

chdir(text) ==
    LET path == Virtual(text)
    IN  /\ Nowhere \notin {SubSeq(path, 1, n) : n \in 0 .. Len(path)}
        /\ cwdPathKind(path) = "directory"
        /\ TreeBecomes([fs EXCEPT !.cwd = path])

\* rebindOpenWorkspaceFiles: a file that is open is the one that is at its path
\* now, and if the child left none there it is made again, empty.
rebound(s) ==
    LET held == {fd \in DOMAIN s.open : /\ s.open[fd].mount = "workspace" /\ s.open[fd].kind = "file"
                                        /\ s.open[fd].path # Nowhere}
        paths == {s.open[fd].path : fd \in held}
    IN  [s EXCEPT !.workspace.files = Over(@, [p \in paths |-> Record(Empty, FALSE, p)]),
                  !.open = [fd \in DOMAIN @ |-> IF fd \in held THEN [@[fd] EXCEPT !.at = s.open[fd].path]
                                                ELSE @[fd]]]

\* The records are new ones: no open file's record is in the workspace any more.
\* An open directory, which has none, is where it was if the child left it there.
Orphaned(open, dirs) ==
    [fd \in DOMAIN open |->
       IF /\ open[fd].tree = "workspace"
          /\ open[fd].kind = "file" \/ open[fd].at \notin dirs
       THEN [open[fd] EXCEPT !.at = Nowhere] ELSE open[fd]]

\* importWasiWorkspaceSnapshot: everything is replaced, the package's files by
\* copies of themselves.
imported(s, snapshot) ==
    LET t == s.workspace
        fallback == {p \in Files(t) : t.files[p].fallback}
    IN  [s EXCEPT !.workspace =
                    [dirs  |-> snapshot.dirs,
                     files |-> Over([p \in Files(snapshot) |-> Record(snapshot.files[p], FALSE, p)],
                                    Restrict(t.files, fallback))],
                  !.open = Orphaned(@, snapshot.dirs),
                  !.dirty = TRUE]

\* What ChildLeavesOpen says of the snapshot that comes back.
LeavesOpen(snapshot) ==
    /\ \A fd \in {f \in DOMAIN fs.open : fs.open[f].mount = "workspace" /\ fs.open[f].path # Nowhere} :
         IF fs.open[fd].kind = "directory" THEN fs.open[fd].path \in snapshot.dirs
         ELSE /\ parentPath(fs.open[fd].path) \in snapshot.dirs
              /\ fs.open[fd].path \notin snapshot.dirs
    /\ \A r \in Range(fs.workspace.files) :
         r.fallback => r.path \notin snapshot.dirs /\ parentPath(r.path) \in snapshot.dirs

\* runProcessExec: the child starts from the parent's export and its result is
\* imported; it changes directories and files as a store does.
runProcessExec(change) ==
    LET result == Apply(exportSnapshot(fs.workspace), change)
    IN  /\ writable
        /\ WellFormed(exportSnapshot(fs.workspace))
        /\ ChildLeavesOpen => LeavesOpen(result.tree)
        /\ TreeBecomes(rebound(imported(fs, result.tree)))

-----------------------------------------------------------------------------
FileCalls ==
    \/ \E fd \in Fds : \E text \in TextsFor(fd) :
         \/ \E q \in OpenRequests : pathOpen(fd, text, q)
         \/ pathCreateDirectory(fd, text)
         \/ pathUnlinkFile(fd, text)
         \/ pathRemoveDirectory(fd, text)
         \/ pathRename(fd, text)
    \/ \E text \in Texts : chdir(text)
    \/ \E fd \in DOMAIN fs.open : fdWrite(fd) \/ fdTruncate(fd) \/ fdClose(fd)
    \/ \E change \in ChildChanges : runProcessExec(change)

TreeNext == phase = "running" /\ (FileCalls \/ Flush)

TreeSpec == TreeInit /\ [][TreeNext]_treeVars

-----------------------------------------------------------------------------
(* Properties *)

\* When a run ends, the store holds what the run's workspace held, and the
\* flush has not failed: no call forgets that it changed something, and none
\* leaves a tree that validateWorkspaceGraph refuses.
RunKept == phase # "running" /\ writable => phase = "ended" /\ stored = exportSnapshot(fs.workspace)

\* The path is one that the rename of a directory of /tmp has rewritten.
ScratchRewrote(path, new) ==
    \E from \in fs.tmp.dirs \ fs'.tmp.dirs, to \in fs'.tmp.dirs :
      Within(from, path) /\ new = replacePathPrefix(path, from, to)

\* The path of a descriptor of the workspace, which is where its own path_ calls
\* start, goes with its file or directory through renames and replacements, is
\* given up when that is removed, and is what an import of a child's result binds
\* the descriptor to again.  One call can part them, renameScratchDirectory, which
\* rewrites paths of the workspace that begin like the directory of /tmp it renames.
DescriptorsFollow ==
    [][\A fd \in DOMAIN fs.open \cap DOMAIN fs'.open :
         LET old == fs.open[fd]
             new == fs'.open[fd]
         IN  old.mount = "workspace" /\ old.path = old.at =>
               new.path = new.at \/ ScratchRewrote(old.path, new.path)]_treeVars

\* What rename, stat, open and readdir take a path for is the same, in both
\* trees: no path is a file and a directory, and each is listed by its parent.
ViewsAgree ==
    \A t \in {fs.workspace, fs.tmp} : \A p \in Nodes(t) \ {Root} :
      LET kind    == statPath(t, p)
          entries == directoryEntries(t, parentPath(p))
      IN  /\ pathKind(t, p) = kind
          /\ Last(p) \in DOMAIN entries /\ entries[Last(p)] = kind
          /\ writable => parentOk(t, p)
=============================================================================

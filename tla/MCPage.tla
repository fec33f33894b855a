------------------------------- MODULE MCPage -------------------------------
(***************************************************************************)
(* What a page runs beside its command worker: the app server session, the *)
(* workspace store, the HTTP worker and the file trees of a raw WASI       *)
(* module.  They share no state, so every behaviour of the page is an      *)
(* interleaving of a behaviour of each; it is enough to let one of them    *)
(* run at a time, the one in focus, while the others stay as they begin.   *)
(***************************************************************************)
EXTENDS AppServer, WorkspaceStore, HttpBridge, WasiTree

CONSTANTS c1, c2, c3, d1, d2

VARIABLE focus

pageVars == <<appVars, storeVars, bridgeVars, treeVars, focus>>

-----------------------------------------------------------------------------
(* The session: a connect, and two calls that overlap it and each other *)

MCScript == [c \in {c1, c2, c3} |->
    CASE c = c1 -> {"connect"}
      [] c = c2 -> {"startPendingTurn", "startPromptTurn", "startDeviceLogin", "ensureThread", "readAccount"}
      [] c = c3 -> {"startPromptTurn", "interruptTurn", "cancelDeviceLogin"}]

Config(autoComplete, limited, optOut) ==
    [autoComplete |-> autoComplete, limited |-> limited, optOut |-> optOut]
MCConfigs == {Config(FALSE, FALSE, {}), Config(TRUE, FALSE, {}), Config(TRUE, TRUE, {}),
              Config(TRUE, FALSE, {Completed})}

-----------------------------------------------------------------------------
(* The store: a directory a with the file a/b, or no record *)

MCSnapshot == [dirs |-> {Root, <<"a">>}, files |-> <<"a", "b">> :> "old"]
MCStored == {NoSnapshot, MCSnapshot}

MCChanges ==
    {[kind |-> "writeFile", path |-> p, content |-> "new"] : p \in {<<"b">>, <<"a", "b">>}}
      \cup {[kind |-> "deleteFile", path |-> <<"a", "b">>]}
      \cup {[kind |-> "createDirectory", path |-> p, recursive |-> r] : p \in {<<"a">>, <<"a", "a">>}, r \in BOOLEAN}
      \cup {[kind |-> "deleteDirectory", path |-> <<"a">>, recursive |-> r] : r \in BOOLEAN}
      \cup {[kind |-> "rename", path |-> p, to |-> <<"b">>] : p \in {<<"a">>, <<"a", "b">>}}
      \cup {[kind |-> "importSnapshot", snapshot |-> [dirs |-> {Root}, files |-> p :> "new"]] :
               p \in {<<"b">>, <<"a", "b">>}}

-----------------------------------------------------------------------------
(* The HTTP worker: two dispatches with one id, one after the other *)

MCId == [d \in Dispatches |-> 1]

Request(transport, body, streamUploads, timed) ==
    [transport |-> transport, body |-> body, streamUploads |-> streamUploads, timed |-> timed]
MCRequests == [d \in Dispatches |->
    IF d = d1 THEN {Request("unknown", "none", TRUE, FALSE), Request("direct", "both", TRUE, FALSE),
                    Request("direct", "stream", TRUE, TRUE), Request("gateway", "stream", FALSE, TRUE),
                    Request("gateway", "none", TRUE, FALSE)}
    ELSE {Request("direct", "none", TRUE, FALSE)}]

Response(form, lines, whole) == [form |-> form, lines |-> lines, whole |-> whole]
MCResponses ==
    {Response("plain", <<"chunk">>, TRUE), Response("plain", <<"chunk", "chunk", "chunk">>, TRUE),
     Response("badStatus", <<>>, TRUE),
     Response("json", <<"chunk", "chunk", "chunk">>, TRUE), Response("json", <<"error">>, TRUE),
     Response("json", <<"chunk">>, FALSE),
     Response("ndjson", <<"response", "chunk", "blank", "chunk", "end">>, TRUE),
     Response("ndjson", <<"response", "chunk", "end">>, FALSE),
     Response("ndjson", <<"response", "end", "blank">>, FALSE),
     Response("ndjson", <<"response", "end", "chunk">>, TRUE),
     Response("ndjson", <<"response", "chunk", "chunk", "chunk", "end">>, TRUE),
     Response("ndjson", <<"response", "chunk", "error">>, TRUE),
     Response("ndjson", <<"response", "chunk">>, TRUE),
     Response("ndjson", <<"chunk", "response", "end">>, TRUE)}

-----------------------------------------------------------------------------
(* The file trees: the snapshot above, the package file b, one descriptor.  *)

Rel(names) == [abs |-> FALSE, names |-> names]
Abs(names) == [abs |-> TRUE, names |-> names]

MCTexts == {Rel(<<"a">>), Rel(<<"b">>), Rel(<<"a", "b">>), Rel(<<"..">>), Abs(<<"workspace", "a">>)}
\* One of them names the workspace itself.
MCRootTexts == {Rel(<<"a">>), Rel(<<"b">>), Abs(<<"workspace">>)}
\* Beside a writable workspace, names that it has too.
MCScratchTexts == [w \in BOOLEAN |-> IF w THEN {Rel(<<"a">>), Rel(<<"b">>)}
                                     ELSE {Rel(<<"s">>), Rel(<<"t">>), Rel(<<"s", "t">>)}]

\* An exclusive open does nothing that {"create", "write"} does not do too.
MCOpenRequests == {{}, {"create", "write"}, {"trunc", "write"},
                   {"directory"}, {"directory", "write"}}

MCPackageFiles == {<<"b">>}
MCPackageRoot == [dirs |-> {Root, <<"workspace">>, <<"tmp">>, <<"a">>},
                  files |-> <<"a", "b">> :> "package"]

MCChildChanges ==
    {[kind |-> "deleteFile", path |-> <<"a", "b">>],
     [kind |-> "writeFile", path |-> <<"b">>, content |-> "new"],
     [kind |-> "rename", path |-> <<"a">>, to |-> <<"b">>]}

\* What is changed: the workspace if it is writable, or the scratch directory; or
\* both, the one losing what it has, the other having one directory at a time, and
\* the current directory is /workspace.
WorkspaceOnly       == writable => fs'.tmp = fs.tmp
OneScratchDirectory == /\ Nodes(fs'.workspace) \subseteq Nodes(fs.workspace)
                       /\ Files(fs'.tmp) = {} /\ Cardinality(fs'.tmp.dirs) <= 2
                       /\ fs'.cwd = fs.cwd

-----------------------------------------------------------------------------
PageInit ==
    /\ focus \in {"app", "store", "http", "tree", "both"}
    /\ AppInit /\ WorkspaceInit /\ BridgeInit /\ TreeInit
    /\ focus # "app" => config = Config(FALSE, FALSE, {})
    /\ focus # "store" => db = NoSnapshot
    /\ focus # "tree" => writable

PageNext ==
    /\ UNCHANGED focus
    /\ \/ focus = "app"   /\ AppNext       /\ UNCHANGED <<storeVars, bridgeVars, treeVars>>
       \/ focus = "store" /\ WorkspaceNext /\ UNCHANGED <<appVars, bridgeVars, treeVars>>
       \/ focus = "http"  /\ BridgeNext    /\ UNCHANGED <<appVars, storeVars, treeVars>>
       \/ focus = "tree"  /\ TreeNext      /\ UNCHANGED <<appVars, storeVars, bridgeVars>>
            /\ WorkspaceOnly
       \/ focus = "both"  /\ TreeNext      /\ UNCHANGED <<appVars, storeVars, bridgeVars>>
            /\ OneScratchDirectory

PageSpec == PageInit /\ [][PageNext]_pageVars /\ AppFairness
=============================================================================

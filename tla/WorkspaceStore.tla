--------------------------- MODULE WorkspaceStore ---------------------------
(***************************************************************************)
(* IndexedDbBrowserWorkspaceStore (apps/web/src/workspace.js): a memory    *)
(* store that every call first loads from, and after a change writes back  *)
(* to, one IndexedDB record.                                               *)
(*                                                                         *)
(* Every await is a point where other calls run.  IndexedDB itself is      *)
(* external: transactions on the one object store take effect in the order *)
(* they were created, each commits or aborts, and a page that goes away    *)
(* takes its unfinished transactions with it.                              *)
(***************************************************************************)
EXTENDS WorkspaceTree, FiniteSets

CONSTANTS
    Callers,      \* the calls made on the store
    Changes,      \* the changing operations they may be
    Stored,       \* the snapshots the database may hold at first
    OneFirstCall, \* whether callers leave the first load to one call
    MaxReloads    \* bound: page reloads

ASSUME MaxReloadsAssumption == MaxReloads \in Nat
\* No record under the workspace id: a value that is not a tree.
NoSnapshot == [dirs |-> {}, files |-> <<>>]

ASSUME StoredAssumption ==
    \A s \in Stored : s = NoSnapshot \/ (IsTree(s) /\ WellFormed(s))
ASSUME ChangesAssumption == \A op \in Changes : IsChange(op)

VARIABLES
    db,         \* the record in IndexedDB
    dbPromise,  \* "none", "opening", "open", or "rejected"; a rejection is kept
    loaded,     \* this.loaded
    memory,     \* this.memory
    txns,       \* the transactions created and not finished, oldest first
    pc,         \* where each call stands
    seen,       \* the tree a reading call returned
    reloads,    \* reloads so far
    unsaved     \* observation: the changes made since the record was written

storeVars == <<db, dbPromise, loaded, memory, txns, pc, seen, reloads, unsaved>>

Finished == {"returned", "threw"}

WorkspaceInit ==
    /\ db \in Stored
    /\ dbPromise = "none"
    /\ loaded = FALSE
    /\ memory = EmptyTree
    /\ txns = <<>>
    /\ pc = [c \in Callers |-> "idle"]
    /\ seen = [c \in Callers |-> EmptyTree]
    /\ reloads = 0
    /\ unsaved = <<>>

Goes(c, to) == pc' = [pc EXCEPT ![c] = to]

\* load(): at once when loaded, else open() and a readonly transaction.
StoreCall(c) ==
    /\ pc[c] = "idle"
    /\ OneFirstCall => loaded \/ \A d \in Callers : pc[d] \in {"idle"} \cup Finished
    /\ Goes(c, IF loaded THEN "ready" ELSE "opening")
    /\ dbPromise' = IF ~loaded /\ dbPromise = "none" THEN "opening" ELSE dbPromise
    /\ UNCHANGED <<db, loaded, memory, txns, seen, reloads, unsaved>>

OpenSettles(to) ==
    /\ dbPromise = "opening" /\ to \in {"open", "rejected"}
    /\ dbPromise' = to
    /\ UNCHANGED <<db, loaded, memory, txns, pc, seen, reloads, unsaved>>

\* openWorkspaceDatabase failed or was blocked: the call throws, as will all later ones.
OpenRejected(c) ==
    /\ pc[c] = "opening" /\ dbPromise = "rejected"
    /\ Goes(c, "threw")
    /\ UNCHANGED <<db, dbPromise, loaded, memory, txns, seen, reloads, unsaved>>

StartRead(c) ==
    /\ pc[c] = "opening" /\ dbPromise = "open"
    /\ txns' = Append(txns, [call |-> c, kind |-> "read", tree |-> EmptyTree, covers |-> 0])
    /\ Goes(c, "reading")
    /\ UNCHANGED <<db, dbPromise, loaded, memory, seen, reloads, unsaved>>

\* The read has completed: its snapshot replaces the memory store, whatever has
\* happened to it meanwhile.
FinishLoad ==
    /\ txns # <<>> /\ Head(txns).kind = "read"
    /\ memory' = IF db = NoSnapshot THEN memory ELSE loadSnapshot(memory, db).tree
    /\ loaded' = TRUE
    /\ txns' = Tail(txns)
    /\ Goes(Head(txns).call, "ready")
    /\ UNCHANGED <<db, dbPromise, seen, reloads, unsaved>>

\* readFile, readDirectory, stat and exportSnapshot.
ReadMemory(c) ==
    /\ pc[c] = "ready"
    /\ seen' = [seen EXCEPT ![c] = memory]
    /\ Goes(c, "returned")
    /\ UNCHANGED <<db, dbPromise, loaded, memory, txns, reloads, unsaved>>

ChangeMemory(c, op) ==
    LET r == Apply(memory, op)
    IN  /\ pc[c] = "ready"
        /\ memory' = r.tree
        /\ Goes(c, IF r.ok THEN "changed" ELSE "threw")
        /\ unsaved' = IF r.ok THEN Append(unsaved, [call |-> c, tree |-> r.tree]) ELSE unsaved
        /\ UNCHANGED <<db, dbPromise, loaded, txns, seen, reloads>>

\* Mutant: persist() is not awaited.
PersistUnawaited(c) ==
    /\ pc[c] = "changed"
    /\ txns' = Append(txns, [call |-> c, kind |-> "write", tree |-> memory, covers |-> Len(unsaved)])
    /\ Goes(c, "returned")
    /\ UNCHANGED <<db, dbPromise, loaded, memory, seen, reloads, unsaved>>

\* persist(): the transaction is created and given a snapshot of the memory store.
\* "covers" observes how many of the unsaved changes that snapshot holds.
Persist(c) ==
    /\ pc[c] = "changed"
    /\ txns' = Append(txns, [call |-> c, kind |-> "write", tree |-> memory, covers |-> Len(unsaved)])
    /\ Goes(c, "persisting")
    /\ UNCHANGED <<db, dbPromise, loaded, memory, seen, reloads, unsaved>>

\* A write transaction commits; the snapshots of later ones then cover fewer changes
\* that are still unsaved.
Commits ==
    /\ txns # <<>> /\ Head(txns).kind = "write"
    /\ db' = Head(txns).tree
    /\ LET n == Head(txns).covers
       IN  /\ unsaved' = SubSeq(unsaved, n + 1, Len(unsaved))
           /\ txns' = [i \in 1 .. Len(txns) - 1 |->
                         [txns[i + 1] EXCEPT !.covers = IF @ > n THEN @ - n ELSE 0]]
    /\ Goes(Head(txns).call, "persisted")
    /\ UNCHANGED <<dbPromise, loaded, memory, seen, reloads>>

StoreResume(c) ==
    /\ pc[c] = "persisted"
    /\ Goes(c, "returned")
    /\ UNCHANGED <<db, dbPromise, loaded, memory, txns, seen, reloads, unsaved>>

\* A transaction aborts: the call throws, and the memory store keeps its change.
Aborts ==
    /\ txns # <<>>
    /\ txns' = Tail(txns)
    /\ Goes(Head(txns).call, "threw")
    /\ UNCHANGED <<db, dbPromise, loaded, memory, seen, reloads, unsaved>>

\* The page goes away and a new one opens the same workspace.
Reload ==
    /\ reloads < MaxReloads
    /\ reloads' = reloads + 1
    /\ pc' = [c \in Callers |-> IF pc[c] \in {"idle"} \cup Finished THEN pc[c] ELSE "threw"]
    /\ dbPromise' = "none" /\ loaded' = FALSE /\ memory' = EmptyTree /\ txns' = <<>>
    /\ unsaved' = <<>>
    /\ UNCHANGED <<db, seen>>

WorkspaceNext ==
    \/ \E c \in Callers :
        \/ StoreCall(c) \/ OpenRejected(c) \/ StartRead(c) \/ ReadMemory(c) \/ Persist(c) \/ StoreResume(c)
        \/ \E op \in Changes : ChangeMemory(c, op)
    \/ \E to \in {"open", "rejected"} : OpenSettles(to)
    \/ FinishLoad \/ Commits \/ Aborts \/ Reload

WorkspaceSpec == WorkspaceInit /\ [][WorkspaceNext]_storeVars

-----------------------------------------------------------------------------

Durable == IF db = NoSnapshot THEN EmptyTree ELSE db

\* Neither the store nor its record is ever a tree that load() would refuse: a rename
\* or a removal leaves no entry without its directory.
TreesLoadable == WellFormed(memory) /\ WellFormed(Durable)

\* What a call's place in the code comes to for the contract.
StatusAt(place) ==
    CASE place \in {"idle"} \cup Finished -> place
      [] place \in {"changed", "persisting", "persisted"} -> "changed"
      [] OTHER -> "open"

Contract == INSTANCE WorkspaceContract WITH
    stable <- Durable,
    status <- [c \in Callers |-> StatusAt(pc[c])]

\* The IndexedDB store keeps the contract of a persistent workspace: calls act on one
\* tree in turn, reads see every change made before, a call that returned is in the
\* record, and a reload finds a state the workspace was in.
KeepsContract == Contract!AbstractSpec
=============================================================================

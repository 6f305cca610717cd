------------------------------ MODULE NodeObject ------------------------------
(***************************************************************************)
(* A Node object in the API server and the clients that change it by       *)
(* reading it, changing the copy and updating it                           *)
(* (common/kubeclient/kubeclient.go).  The update carries the              *)
(* resourceVersion of the copy: it is refused when the object has changed  *)
(* since.  An update that changes nothing does not give the object a new   *)
(* version.                                                                *)
(***************************************************************************)
EXTENDS Bounds

CONSTANT NoCopy          \* a client that has not read the node

VARIABLES node,          \* the object
          copy,          \* [client -> the object as the client read it, or NoCopy]
          fresh          \* the clients whose copy still has the current version

nodeVars == <<node, copy, fresh>>

GetNode(c) ==
  /\ copy' = [copy EXCEPT ![c] = node]
  /\ fresh' = fresh \cup {c}
  /\ UNCHANGED node

\* Mutant: a write leaves the copies current.
StoreQuietly(changed) == node' = changed /\ UNCHANGED fresh

\* Any write that changes the object outdates the copies of all clients.
Store(changed) ==
  /\ node' = changed
  /\ fresh' = IF changed = node THEN fresh ELSE {}

\* The client is done with its copy: it wrote it, gave up or died.
Forget(c) == copy' = [copy EXCEPT ![c] = NoCopy]

\* Mutant: the update carries no resourceVersion.
UpdateNodeAnyway(c, changed) ==
  /\ copy[c] # NoCopy
  /\ Store(changed)
  /\ Forget(c)

\* The update of a copy that is still current.
UpdateNode(c, changed) ==
  /\ c \in fresh
  /\ node' = changed
  /\ fresh' = IF changed = node THEN fresh \ {c} ELSE {}
  /\ Forget(c)

\* The update is refused: the callers return the error and do not retry.
UpdateConflicts(c) ==
  /\ c \notin fresh
  /\ Forget(c)
  /\ UNCHANGED <<node, fresh>>

DropCopy(c) == Forget(c) /\ fresh' = fresh \ {c} /\ UNCHANGED node
=============================================================================

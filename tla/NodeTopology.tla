---------------------------- MODULE NodeTopology ----------------------------
(***************************************************************************)
(* The topology of one node, as kept in its topology ConfigMap, and what   *)
(* the pod handlers of the status updater do to a copy of it.              *)
(*                                                                         *)
(* Sources: internal/common/topology/types.go and                          *)
(* internal/status-updater/handlers/pod/*.go.                              *)
(*                                                                         *)
(* A pod is identified by its namespace and name (an element of Pods);     *)
(* AllocatedBy also stores the container, which is a function of the pod.  *)
(* PodGpuUsageStatus is keyed by pod UID: a name may have several          *)
(* incarnations.  A usage value is abstracted to the phase of the pod it   *)
(* was calculated from.                                                    *)
(***************************************************************************)
EXTENDS Integers, FiniteSets

CONSTANTS
    Pods,       \* the (namespace, name) pairs of the pods bound to this node
    NoPod,      \* AllocatedBy of a free GPU: the empty ContainerDetails
    Kind,       \* Kind[p]: which of the sub-handlers recognises p
    NameOf,     \* NameOf[p]: the name of p without its namespace
    Request,    \* Request[p]: the nvidia.com/gpu limit of p
    Group,      \* Group[p]: the GPU group shared by a reservation pod and its sharers
    Claim,      \* Claim[p]: the devices the scheduler allocates to p's ResourceClaims
    GpuCount,   \* number of GPUs of the node's pool
    MaxUid      \* bound: incarnations of one pod name

Kinds == {"dedicated", "reservation", "shared", "dra"}
GPU == 1..GpuCount
Uid == Pods \X (1..MaxUid)
LivePhase == {"Pending", "Running"}

ASSUME NodeTopologyAssumption ==
    /\ GpuCount \in Nat
    /\ MaxUid \in Nat
    /\ IsFiniteSet(Pods)
    /\ NoPod \notin Pods
    /\ Kind \in [Pods -> Kinds]
    /\ Request \in [Pods -> Nat]
    /\ Claim \in [Pods -> SUBSET GPU]
    /\ DOMAIN NameOf = Pods
    /\ DOMAIN Group = Pods
    \* reservation pods carry generated names, no other pod has one of them
    /\ \A r, p \in Pods : Kind[r] = "reservation" /\ NameOf[r] = NameOf[p] => r = p

GpuStatus == [by : Pods \cup {NoPod}, usage : [Uid -> LivePhase \cup {"none"}]]
Topology == [GPU -> GpuStatus]

\* The zero value of GpuStatus: free, and an empty usage map.
EmptyStatus == [by |-> NoPod, usage |-> [u \in Uid |-> "none"]]

\* generateGpuDetails: what a new topology ConfigMap holds.
FreshTopology == [g \in GPU |-> EmptyStatus]
-----------------------------------------------------------------------------
IsDedicatedGpuPod(p) == Kind[p] \in {"dedicated", "reservation"}
IsGpuReservationPod(p) == Kind[p] = "reservation"
IsSharedGpuPod(p) == Kind[p] = "shared"
IsDraPod(p) == Kind[p] = "dra"

Free(topo) == {g \in GPU : topo[g].by = NoPod}
Held(topo, p) == {g \in GPU : topo[g].by = p}

\* Lookups that compare AllocatedBy.Pod alone and ignore the namespace.
HeldByName(topo, name) ==
    {g \in GPU : topo[g].by \in Pods /\ NameOf[topo[g].by] = name}

First(S) == CHOOSE g \in S : \A h \in S : g <= h

\* Mutants: the loop takes allocated GPUs too; the loop stops one short.
FirstGpusFreeOrNot(topo, n) == {g \in GPU : g <= n}
FirstFreeOneShort(topo, n) ==
    {g \in Free(topo) : Cardinality({h \in Free(topo) : h <= g}) < n}

\* The loop over nodeTopology.Gpus takes free GPUs in index order until the
\* request is met, or silently fewer when the node runs out of them.
FirstFree(topo, n) ==
    {g \in Free(topo) : Cardinality({h \in Free(topo) : h <= g}) <= n}

\* Mutant: an entry that exists is not recalculated.
SetUsageOnce(status, e) ==
    [status EXCEPT !.usage = [@ EXCEPT ![<<e.pod, e.uid>>] = IF @ = "none" THEN e.phase ELSE @]]

\* calculateUsage: an entry of PodGpuUsageStatus for the pod of event e.
SetUsage(status, e) ==
    [status EXCEPT !.usage = [@ EXCEPT ![<<e.pod, e.uid>>] = e.phase]]

\* A pod takes the GPUs in S; a reservation pod gets no usage entry.
Allocate(topo, S, e) ==
    [g \in GPU |->
        IF g \notin S THEN topo[g]
        ELSE LET taken == [topo[g] EXCEPT !.by = e.pod]
             IN  IF IsGpuReservationPod(e.pod) THEN taken ELSE SetUsage(taken, e)]

\* The branches of the update handlers that refresh the usage of the pod's GPUs.
RefreshUsage(topo, e) ==
    [g \in GPU |-> IF topo[g].by = e.pod /\ ~IsGpuReservationPod(e.pod)
                   THEN SetUsage(topo[g], e) ELSE topo[g]]

\* Mutant: only the first GPU is reset.
ReleaseFirst(topo, p) ==
    IF Held(topo, p) = {} THEN topo ELSE [topo EXCEPT ![First(Held(topo, p))] = EmptyStatus]

\* handleDedicatedGpuPodDeletion and handleDraGpuPodDeletion.
Release(topo, p) == [g \in GPU |-> IF topo[g].by = p THEN EmptyStatus ELSE topo[g]]

\* Sets or deletes one pod's entry on the GPU of its reservation pod.
SetSharedUsage(topo, g, e) == [topo EXCEPT ![g] = SetUsage(@, e)]
DropSharedUsage(topo, g, e) == SetSharedUsage(topo, g, [e EXCEPT !.phase = "none"])
-----------------------------------------------------------------------------
\* Mutant: no isAlreadyAllocated test.
DedicatedAdditionAlways(topo, e) == Allocate(topo, FirstFree(topo, Request[e.pod]), e)

\* handleDedicatedGpuPodAddition without the annotation it may patch.
DedicatedAddition(topo, e) ==
    IF Held(topo, e.pod) # {} THEN topo
    ELSE Allocate(topo, FirstFree(topo, Request[e.pod]), e)

\* The allocation of handleDraGpuPodAddition for the devices of the claims;
\* devices held by another pod are skipped.
DraAllocation(topo, e, devices) == Allocate(topo, devices \cap Free(topo), e)

DraAddition(topo, e, devices) ==
    IF Held(topo, e.pod) # {} THEN topo ELSE DraAllocation(topo, e, devices)

\* Mutant: no late allocation.
DraUpdateUsageOnly(topo, e, devices) == RefreshUsage(topo, e)

\* handleDraGpuPodUpdate: late allocation, or a usage refresh.
DraUpdate(topo, e, devices) ==
    IF Held(topo, e.pod) # {} THEN RefreshUsage(topo, e) ELSE DraAllocation(topo, e, devices)
=============================================================================

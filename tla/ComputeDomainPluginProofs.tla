---------------------- MODULE ComputeDomainPluginProofs ----------------------
(***************************************************************************)
(* Type correctness and crash consistency of the ComputeDomain plugin, for *)
(* every set of claims, domains and channels and every bound.              *)
(***************************************************************************)
EXTENDS ComputeDomainPlugin, WellFoundedInduction, TLAPS

\* What a call that holds the mutex has already secured on disk.  Prepare writes
\* the spec file before the checkpoint and Unprepare the checkpoint before it
\* deletes the spec file; the invariant says what each relies on in between.
MidCall ==
    op # Idle =>
        /\ op.pc \in {"spec", "write"} =>
              DomainOf[op.call.claim] \in dirs
        /\ op.pc = "spec" => IF op.known THEN op.devices = prepared[op.call.claim]
                             ELSE prepared[op.call.claim] = {}
        /\ op.pc \in {"spec", "write"} => op.devices # {}
        /\ op.pc = "write" => /\ spec[op.call.claim] = op.devices
                              /\ prepared[op.call.claim] = {}
        /\ op.pc = "delete" => prepared[op.call.claim] = {}

Inv == TypeOK /\ PreparedHasSpec /\ DomainsAgree /\ MidCall

USE DEF disk, bounds

\* A sequence of claims without one of its elements.
LEMMA RemoveAtEffect ==
    ASSUME NEW S, NEW s \in Seq(S), NEW i \in 1..Len(s)
    PROVE  /\ RemoveAt(s, i) \in Seq(S)
           /\ Len(RemoveAt(s, i)) = Len(s) - 1
           /\ \A j \in 1..(Len(s) - 1) : RemoveAt(s, i)[j] = IF j < i THEN s[j] ELSE s[j + 1]
<1> DEFINE a == SubSeq(s, 1, i - 1)
           b == SubSeq(s, i + 1, Len(s))
<1>1. Len(s) \in Nat /\ i \in Nat
    OBVIOUS
<1>2. a \in Seq(S) /\ Len(a) = i - 1 /\ \A j \in 1..(i - 1) : a[j] = s[j]
    BY <1>1
<1>3. b \in Seq(S) /\ Len(b) = Len(s) - i /\ \A j \in 1..(Len(s) - i) : b[j] = s[i + j]
    BY <1>1
<1>4. RemoveAt(s, i) = a \o b
    BY DEF RemoveAt
<1> HIDE DEF a, b
<1>5. a \o b \in Seq(S) /\ Len(a \o b) = Len(s) - 1
    <2>1. a \in Seq(S) /\ b \in Seq(S)
        BY <1>2, <1>3
    <2>2. a \o b \in Seq(S) /\ Len(a \o b) = Len(a) + Len(b)
        BY <2>1
    <2>3. QED
        BY <1>1, <1>2, <1>3, <2>2
<1>6. ASSUME NEW j \in 1..(Len(s) - 1)
      PROVE  (a \o b)[j] = IF j < i THEN s[j] ELSE s[j + 1]
    <2>1. CASE j < i
        BY <1>1, <1>2, <1>3, <2>1
    <2>2. CASE ~(j < i)
        <3>1. j - Len(a) \in 1..Len(b)
            BY <1>1, <1>2, <1>3, <2>2
        <3>2. (a \o b)[j] = b[j - Len(a)]
            BY <1>1, <1>2, <1>3, <2>2, <3>1
        <3>3. b[j - Len(a)] = s[i + (j - Len(a))]
            BY <1>3, <3>1
        <3>4. QED
            BY <1>1, <1>2, <2>2, <3>2, <3>3
    <2>3. QED
        BY <2>1, <2>2
<1>7. QED
    BY <1>4, <1>5, <1>6

\* A non-empty set of positions has a least one.
LEMMA LeastPosition ==
    ASSUME NEW I \in SUBSET Nat, I # {}
    PROVE  Min(I) \in I
<1>1. PICK x \in I : \A y \in I : ~(<<y, x>> \in OpToRel(<, Nat))
    BY WFMin, NatLessThanWellFounded
<1>2. \A y \in I : ~(y < x)
    BY <1>1 DEF OpToRel
<1>3. \E m \in I : \A y \in I : m <= y
    BY <1>2
<1>4. QED
    BY <1>3 DEF Min

\* Unprepare's loop over Claims: the claim leaves a list without repetitions.
LEMMA RemoveFirstEffect ==
    ASSUME NEW S, NEW s \in Seq(S), NEW e
    PROVE  /\ RemoveFirst(s, e) \in Seq(S)
           /\ IsInjective(s) => /\ IsInjective(RemoveFirst(s, e))
                                /\ Range(RemoveFirst(s, e)) = Range(s) \ {e}
<1> DEFINE I == {i \in 1..Len(s) : s[i] = e}
           r == RemoveFirst(s, e)
<1>0. Len(s) \in Nat /\ DOMAIN s = 1..Len(s)
    OBVIOUS
<1>1. CASE I = {}
    <2>1. r = s
        BY <1>1 DEF RemoveFirst
    <2>2. e \notin Range(s)
        BY <1>0, <1>1 DEF Range
    <2>3. QED
        BY <2>1, <2>2
<1>2. CASE I # {}
    <2>1. PICK i \in I : r = RemoveAt(s, i)
        <3>1. SelectInSeq(s, LAMBDA v : v = e) = Min(I)
            BY <1>2 DEF SelectInSeq
        <3>2. Min(I) \in I
            <4>1. I \in SUBSET Nat
                BY <1>0
            <4> HIDE DEF I
            <4>2. QED
                BY <1>2, <4>1, LeastPosition
        <3>3. QED
            BY <1>2, <3>1, <3>2 DEF RemoveFirst
    <2>2. /\ r \in Seq(S) /\ Len(r) = Len(s) - 1
          /\ \A j \in 1..(Len(s) - 1) : r[j] = IF j < i THEN s[j] ELSE s[j + 1]
        BY <2>1, RemoveAtEffect
    <2> HIDE DEF r
    <2>3. DOMAIN r = 1..(Len(s) - 1) /\ i \in 1..Len(s) /\ s[i] = e
        BY <2>1, <2>2
    <2>4. ASSUME IsInjective(s) PROVE IsInjective(r)
        <3>1. ASSUME NEW j \in DOMAIN r, NEW k \in DOMAIN r, r[j] = r[k] PROVE j = k
            <4>1. ASSUME NEW m \in DOMAIN s, NEW n \in DOMAIN s, s[m] = s[n] PROVE m = n
                BY <2>4, <4>1 DEF IsInjective
            <4>2. QED
                BY <1>0, <2>2, <2>3, <3>1, <4>1
        <3>2. QED
            BY <3>1 DEF IsInjective
    <2>5. ASSUME IsInjective(s) PROVE Range(r) = Range(s) \ {e}
        <3>0. ASSUME NEW m \in DOMAIN s, NEW n \in DOMAIN s, s[m] = s[n] PROVE m = n
            BY <2>5, <3>0 DEF IsInjective
        <3>1. ASSUME NEW x \in Range(r) PROVE x \in Range(s) /\ x # e
            <4>1. PICK j \in DOMAIN r : x = r[j]
                BY <3>1 DEF Range
            <4>2. PICK k \in DOMAIN s : x = s[k] /\ k # i
                BY <1>0, <2>2, <2>3, <4>1
            <4>3. QED
                BY <1>0, <2>3, <3>0, <4>2 DEF Range
        <3>2. ASSUME NEW x \in Range(s), x # e PROVE x \in Range(r)
            <4>1. PICK k \in DOMAIN s : x = s[k]
                BY <3>2 DEF Range
            <4>2. k # i
                BY <2>3, <3>2, <4>1
            <4>3. PICK j \in DOMAIN r : r[j] = s[k]
                <5>1. CASE k < i
                    <6>1. k \in DOMAIN r /\ r[k] = s[k]
                        BY <1>0, <2>2, <2>3, <4>1, <5>1
                    <6>2. QED
                        BY <6>1
                <5>2. CASE k > i
                    <6>1. k - 1 \in DOMAIN r /\ r[k - 1] = s[k]
                        BY <1>0, <2>2, <2>3, <4>1, <5>2
                    <6>2. QED
                        BY <6>1
                <5>3. QED
                    BY <1>0, <2>3, <4>1, <4>2, <5>1, <5>2
            <4>4. QED
                BY <4>1, <4>3 DEF Range
        <3>3. QED
            BY <3>1, <3>2
    <2>6. QED
        BY <2>2, <2>4, <2>5 DEF r
<1>3. QED
    BY <1>1, <1>2

\* Prepare's append to Claims: a claim joins a list that does not have it.
LEMMA AppendEffect ==
    ASSUME NEW S, NEW s \in Seq(S), NEW e \in S, e \notin Range(s), IsInjective(s)
    PROVE  /\ Append(s, e) \in Seq(S)
           /\ IsInjective(Append(s, e))
           /\ Range(Append(s, e)) = Range(s) \cup {e}
<1> DEFINE r == Append(s, e)
<1>1. /\ Len(s) \in Nat /\ DOMAIN s = 1..Len(s)
      /\ r \in Seq(S) /\ DOMAIN r = 1..(Len(s) + 1)
      /\ r[Len(s) + 1] = e /\ \A j \in 1..Len(s) : r[j] = s[j]
    OBVIOUS
<1> HIDE DEF r
<1>2. \A j \in 1..Len(s) : s[j] # e
    BY <1>1 DEF Range
<1>3. ASSUME NEW j \in DOMAIN r, NEW k \in DOMAIN r, r[j] = r[k] PROVE j = k
    <2>1. CASE j \in 1..Len(s) /\ k \in 1..Len(s)
        BY <1>1, <1>3, <2>1 DEF IsInjective
    <2>2. QED
        BY <1>1, <1>2, <1>3, <2>1
<1>4. Range(r) = Range(s) \cup {e}
    <2>1. ASSUME NEW x \in Range(r) PROVE x \in Range(s) \cup {e}
        BY <1>1, <2>1 DEF Range
    <2>2. ASSUME NEW x \in Range(s) PROVE x \in Range(r)
        BY <1>1, <2>2 DEF Range
    <2>3. e \in Range(r)
        BY <1>1 DEF Range
    <2>4. QED
        BY <2>1, <2>2, <2>3
<1>5. QED
    BY <1>1, <1>3, <1>4 DEF IsInjective, r

\* The call that holds the mutex is well formed.
LEMMA OpType ==
    ASSUME TypeOK, op # Idle
    PROVE  /\ op \in [call : Call, pc : Step, devices : SUBSET Channels, known : BOOLEAN]
           /\ op.call \in Call /\ op.call.claim \in Claims /\ op.pc \in Step
           /\ op.devices \in SUBSET Channels /\ op.known \in BOOLEAN
<1>1. op \in [call : Call, pc : Step, devices : SUBSET Channels, known : BOOLEAN]
    BY DEF TypeOK
<1>2. QED
    BY <1>1 DEF Call

\* The answers of a call are well typed.
LEMMA ReturnType ==
    ASSUME TypeOK, op # Idle
    PROVE  /\ Return => /\ op' = Idle
                        /\ kubelet' \in [Claims -> {"none", "preparing", "prepared", "unpreparing"}]
           /\ ReturnError => op' = Idle /\ kubelet' = kubelet
BY OpType DEF Return, ReturnError, TypeOK

\* The initial state: an empty checkpoint.
LEMMA InitInv == Init => Inv
<1> SUFFICES ASSUME Init PROVE Inv
    OBVIOUS
<1>1. TypeOK
    <2>1. up \in BOOLEAN
        BY DEF Init
    <2>2. domains \in [Domains -> Seq(Claims)] /\ calls \subseteq Call /\ dirs \subseteq Domains
        BY DEF Init
    <2>3. QED
        BY <2>1, <2>2 DEF Init, TypeOK
<1>2. PreparedHasSpec /\ MidCall
    BY DEF Init, PreparedHasSpec, MidCall
<1>3. DomainsAgree
    BY DEF Init, DomainsAgree, IsInjective, Range
<1>4. QED
    BY <1>1, <1>2, <1>3 DEF Inv

\* A step that leaves the disk alone and ends the running call, or none.
LEMMA QuietInv ==
    ASSUME Inv, TypeOK', UNCHANGED disk, op' = Idle \/ op' = op
    PROVE  Inv'
<1>1. PreparedHasSpec' /\ DomainsAgree'
    BY DEF Inv, PreparedHasSpec, DomainsAgree
<1>2. MidCall'
    BY DEF Inv, MidCall
<1>3. QED
    BY <1>1, <1>2 DEF Inv

\* The kubelet's own steps.
LEMMA KubeletInv ==
    ASSUME Inv, NEW c \in Claims
    PROVE  /\ KubeletWants(c) => Inv'
           /\ KubeletCalls(c) => Inv'
           /\ KubeletTimeout(c) => Inv'
<1>0. TypeOK
    BY DEF Inv
<1>1. ASSUME KubeletWants(c) PROVE Inv'
    <2>1. TypeOK'
        BY <1>0, <1>1 DEF KubeletWants, TypeOK
    <2>2. QED
        BY <1>1, <2>1, QuietInv DEF KubeletWants
<1>2. ASSUME KubeletCalls(c) PROVE Inv'
    <2>1. calls' \subseteq Call
        BY <1>0, <1>2 DEF KubeletCalls, TypeOK, Call
    <2>2. TypeOK'
        BY <1>0, <1>2, <2>1 DEF KubeletCalls, TypeOK
    <2>3. QED
        BY <1>2, <2>2, QuietInv DEF KubeletCalls
<1>3. ASSUME KubeletTimeout(c) PROVE Inv'
    <2>0. timeouts + 1 \in Nat /\ timeouts' = timeouts + 1 /\ UNCHANGED <<disk, up, kubelet, faults, crashes>>
        BY <1>0, <1>3 DEF KubeletTimeout, TypeOK
    <2>1. CASE UNCHANGED op
        <3>1. calls' \subseteq Call
            <4>1. ASSUME NEW call \in calls PROVE [call EXCEPT !.id = timeouts + 1] \in Call
                BY <1>0, <2>0, <4>1 DEF TypeOK, Call
            <4>2. QED
                BY <1>0, <1>3, <2>0, <4>1 DEF KubeletTimeout, TypeOK
        <3>2. TypeOK'
            BY <1>0, <2>0, <2>1, <3>1 DEF TypeOK
        <3>3. QED
            BY <2>0, <2>1, <3>2, QuietInv
    <2>2. CASE op # Idle /\ op' = [op EXCEPT !.call.id = timeouts + 1] /\ UNCHANGED calls
        <3>1. op \in [call : Call, pc : Step, devices : SUBSET Channels, known : BOOLEAN]
            BY <1>0, <2>2, OpType
        <3>2. /\ op' \in [call : Call, pc : Step, devices : SUBSET Channels, known : BOOLEAN]
              /\ op'.call.claim = op.call.claim /\ op'.pc = op.pc
              /\ op'.devices = op.devices /\ op'.known = op.known
            BY <2>0, <2>2, <3>1 DEF Call
        <3>3. TypeOK'
            BY <1>0, <2>0, <2>2, <3>2 DEF TypeOK
        <3>4. PreparedHasSpec' /\ DomainsAgree'
            BY <2>0 DEF Inv, PreparedHasSpec, DomainsAgree
        <3>5. MidCall'
            BY <2>0, <2>2, <3>2 DEF Inv, MidCall
        <3>6. QED
            BY <3>3, <3>4, <3>5 DEF Inv
    <2>3. QED
        BY <1>3, <2>1, <2>2 DEF KubeletTimeout
<1>4. QED
    BY <1>1, <1>2, <1>3

\* A call takes the mutex.
LEMMA LockInv == ASSUME Inv, NEW call \in calls, Lock(call) PROVE Inv'
<1>1. call \in Call /\ "read" \in Step
    BY DEF Inv, TypeOK, Step
<1>0. {} \in SUBSET Channels /\ FALSE \in BOOLEAN
    OBVIOUS
<1>2. /\ op' \in [call : Call, pc : Step, devices : SUBSET Channels, known : BOOLEAN]
      /\ op'.pc = "read"
    <2>1. op' = Busy(call, "read", {}, FALSE)
        BY DEF Lock
    <2>2. QED
        BY <1>0, <1>1, <2>1 DEF Busy
<1>3. TypeOK'
    BY <1>2 DEF Lock, Inv, TypeOK
<1>4. PreparedHasSpec' /\ DomainsAgree' /\ MidCall'
    BY <1>2 DEF Lock, Inv, PreparedHasSpec, DomainsAgree, MidCall
<1>5. QED
    BY <1>3, <1>4 DEF Inv

\* Failures, starts and crashes.
LEMMA ProcessInv == Inv /\ (DiskFails \/ Start \/ Crash) => Inv'
<1> SUFFICES ASSUME Inv, DiskFails \/ Start \/ Crash PROVE Inv'
    OBVIOUS
<1>0. TypeOK
    BY DEF Inv
<1>1. CASE DiskFails
    <2>1. op' = Idle /\ kubelet' \in [Claims -> {"none", "preparing", "prepared", "unpreparing"}]
        BY <1>0, <1>1, ReturnType DEF DiskFails, TypeOK
    <2>2. TypeOK'
        BY <1>0, <1>1, <2>1 DEF DiskFails, TypeOK
    <2>3. QED
        BY <1>1, <2>1, <2>2, QuietInv DEF DiskFails
<1>2. CASE Start
    <2>1. TypeOK'
        BY <1>0, <1>2 DEF Start, TypeOK
    <2>2. QED
        BY <1>2, <2>1, QuietInv DEF Start
<1>3. CASE Crash
    <2>1. up' \in BOOLEAN /\ calls' \subseteq Call
        BY <1>3 DEF Crash
    <2>2. TypeOK'
        BY <1>0, <1>3, <2>1 DEF Crash, TypeOK
    <2>3. QED
        BY <1>3, <2>2, QuietInv DEF Crash
<1>4. QED
    BY <1>1, <1>2, <1>3

\* A running call moves on: the next state's call differs in its place only.
LEMMA PcType ==
    ASSUME TypeOK, op # Idle, NEW pc \in Step, op' = [op EXCEPT !.pc = pc]
    PROVE  /\ op' \in [call : Call, pc : Step, devices : SUBSET Channels, known : BOOLEAN]
           /\ op'.pc = pc /\ op'.call = op.call
           /\ op'.devices = op.devices /\ op'.known = op.known
BY OpType

\* The steps of Prepare and Unprepare.
LEMMA PluginInv == Inv /\ PluginStep => Inv'
<1> SUFFICES ASSUME Inv, PluginStep PROVE Inv'
    OBVIOUS
<1> DEFINE c == op.call.claim
           Ops == [call : Call, pc : Step, devices : SUBSET Channels, known : BOOLEAN]
           Views == [Claims -> {"none", "preparing", "prepared", "unpreparing"}]
<1>0. TypeOK /\ PreparedHasSpec /\ DomainsAgree /\ MidCall /\ UNCHANGED <<up, calls, bounds>>
    BY DEF Inv, PluginStep
<1>1. CASE PrepareRead
    <2>0. /\ op # Idle /\ op.pc = "read" /\ c \in Claims /\ op.call \in Call
          /\ UNCHANGED <<prepared, domains, spec>> /\ "spec" \in Step
          /\ TRUE \in BOOLEAN /\ FALSE \in BOOLEAN
        BY <1>0, <1>1, OpType DEF PrepareRead, At, Step
    <2>1. DomainsAgree'
        BY <1>0, <2>0 DEF DomainsAgree
    <2>2. CASE prepared[c] # {}
        <3>1. /\ op' = Busy(op.call, "spec", prepared[c], TRUE)
              /\ UNCHANGED <<dirs, kubelet>>
            BY <1>1, <2>2 DEF PrepareRead
        <3>2. prepared[c] \in SUBSET Channels /\ DomainOf[c] \in dirs
            BY <1>0, <2>0, <2>2 DEF TypeOK, PreparedHasSpec
        <3>3. /\ op' \in Ops /\ op'.call = op.call /\ op'.pc = "spec"
              /\ op'.devices = prepared[c] /\ op'.known = TRUE
            BY <2>0, <3>1, <3>2 DEF Busy
        <3>4. TypeOK' /\ PreparedHasSpec'
            BY <1>0, <2>0, <3>1, <3>3 DEF TypeOK, PreparedHasSpec
        <3>5. MidCall'
            BY <2>0, <2>2, <3>1, <3>2, <3>3 DEF MidCall
        <3>6. QED
            BY <2>1, <3>4, <3>5 DEF Inv
    <2>3. CASE prepared[c] = {} /\ WellFormed(c)
        <3>1. /\ op' = Busy(op.call, "spec", ChosenDevices(c), FALSE)
              /\ dirs' = dirs \cup {DomainOf[c]} /\ UNCHANGED kubelet
            BY <1>1, <2>3 DEF PrepareRead, WithDomainDir
        <3>2. ChosenDevices(c) \in SUBSET Channels /\ ChosenDevices(c) # {}
            BY ComputeDomainPluginAssumption DEF ChosenDevices
        <3>3. /\ op' \in Ops /\ op'.call = op.call /\ op'.pc = "spec"
              /\ op'.devices = ChosenDevices(c) /\ op'.known = FALSE
            BY <2>0, <3>1, <3>2 DEF Busy
        <3>4. dirs' \subseteq Domains
            BY <1>0, <2>0, <2>3, <3>1, ComputeDomainPluginAssumption DEF TypeOK, WellFormed
        <3>5. TypeOK' /\ PreparedHasSpec'
            BY <1>0, <2>0, <3>1, <3>3, <3>4 DEF TypeOK, PreparedHasSpec
        <3>6. MidCall'
            BY <2>0, <2>3, <3>1, <3>2, <3>3 DEF MidCall
        <3>7. QED
            BY <2>1, <3>5, <3>6 DEF Inv
    <2>4. CASE prepared[c] = {} /\ ~WellFormed(c)
        <3>1. ReturnError /\ UNCHANGED dirs
            BY <1>1, <2>4 DEF PrepareRead
        <3>2. TypeOK' /\ op' = Idle
            BY <1>0, <2>0, <3>1 DEF ReturnError, TypeOK
        <3>3. QED
            BY <2>0, <3>1, <3>2, QuietInv
    <2>5. QED
        BY <2>2, <2>3, <2>4
<1>2. CASE PrepareSpec
    <2>0. /\ op # Idle /\ op.pc = "spec" /\ c \in Claims /\ op.devices \in SUBSET Channels
          /\ spec' = [spec EXCEPT ![c] = op.devices] /\ UNCHANGED <<prepared, domains, dirs>>
          /\ "write" \in Step
        BY <1>0, <1>2, OpType DEF PrepareSpec, WithClaimSpec, At, Step
    <2>1. DomainsAgree'
        BY <1>0, <2>0 DEF DomainsAgree
    <2>2. spec' \in [Claims -> SUBSET Channels]
        BY <1>0, <2>0 DEF TypeOK
    <2>3. op.devices = prepared[c] \/ prepared[c] = {}
        BY <1>0, <2>0 DEF MidCall
    <2>4. PreparedHasSpec'
        BY <1>0, <2>0, <2>3 DEF TypeOK, PreparedHasSpec
    <2>5. CASE op.known
        <3>1. op' = Idle /\ kubelet' \in Views
            BY <1>0, <1>2, <2>0, <2>5, ReturnType DEF PrepareSpec, WithClaimSpec
        <3>2. TypeOK' /\ MidCall'
            BY <1>0, <2>0, <2>2, <3>1 DEF TypeOK, MidCall
        <3>3. QED
            BY <2>1, <2>4, <3>2 DEF Inv
    <2>6. CASE ~op.known
        <3>1. op' = [op EXCEPT !.pc = "write"] /\ UNCHANGED kubelet
            BY <1>2, <2>6 DEF PrepareSpec, WithClaimSpec
        <3>2. /\ op' \in Ops /\ op'.pc = "write" /\ op'.call = op.call
              /\ op'.devices = op.devices
            BY <1>0, <2>0, <3>1, PcType
        <3>3. TypeOK'
            BY <1>0, <2>0, <2>2, <3>1, <3>2 DEF TypeOK
        <3>4. spec'[c] = op.devices
            BY <1>0, <2>0 DEF TypeOK
        <3>5. MidCall'
            BY <1>0, <2>0, <2>6, <3>2, <3>4 DEF MidCall
        <3>6. QED
            BY <2>1, <2>4, <3>3, <3>5 DEF Inv
    <2>7. QED
        BY <2>5, <2>6
<1>3. CASE PrepareWrite
    <2>0. /\ op # Idle /\ op.pc = "write" /\ c \in Claims /\ op.devices \in SUBSET Channels
          /\ prepared' = [prepared EXCEPT ![c] = op.devices]
          /\ domains' = [domains EXCEPT ![DomainOf[c]] = Append(@, c)]
          /\ UNCHANGED <<spec, dirs>>
        BY <1>0, <1>3, OpType DEF PrepareWrite, JoinDomain, At
    <2>1. /\ DomainOf[c] \in dirs /\ spec[c] = op.devices /\ prepared[c] = {}
          /\ op.devices # {}
        BY <1>0, <2>0 DEF MidCall
    <2>2. op' = Idle /\ kubelet' \in Views
        BY <1>0, <1>3, <2>0, ReturnType DEF PrepareWrite, JoinDomain
    <2>3. PreparedHasSpec'
        BY <1>0, <2>0, <2>1 DEF TypeOK, PreparedHasSpec
    <2>4. DomainOf[c] \in Domains /\ domains \in [Domains -> Seq(Claims)]
        BY <1>0, <2>1 DEF TypeOK
    <2>5. LET s == domains[DomainOf[c]]
          IN  /\ Append(s, c) \in Seq(Claims) /\ IsInjective(Append(s, c))
              /\ Range(Append(s, c)) = Range(s) \cup {c}
        <3> DEFINE s == domains[DomainOf[c]]
        <3>1. s \in Seq(Claims) /\ IsInjective(s) /\ c \notin Range(s)
            BY <1>0, <2>1, <2>4 DEF DomainsAgree
        <3> HIDE DEF s
        <3>2. /\ Append(s, c) \in Seq(Claims) /\ IsInjective(Append(s, c))
              /\ Range(Append(s, c)) = Range(s) \cup {c}
            BY <2>0, <3>1, AppendEffect
        <3>3. QED
            BY <3>2 DEF s
    <2>6. TypeOK'
        BY <1>0, <2>0, <2>2, <2>4, <2>5 DEF TypeOK
    <2>7. DomainsAgree'
        <3>1. ASSUME NEW d \in Domains
              PROVE  /\ IsInjective(domains'[d])
                     /\ Range(domains'[d]) = {b \in Claims : prepared'[b] # {} /\ DomainOf[b] = d}
            <4>0. /\ IsInjective(domains[d])
                  /\ Range(domains[d]) = {b \in Claims : prepared[b] # {} /\ DomainOf[b] = d}
                BY <1>0 DEF DomainsAgree
            <4>1. \A b \in Claims : prepared'[b] = IF b = c THEN op.devices ELSE prepared[b]
                BY <1>0, <2>0 DEF TypeOK
            <4>2. CASE d = DomainOf[c]
                <5>1. domains'[d] = Append(domains[d], c)
                    BY <2>0, <2>4, <4>2
                <5>2. {b \in Claims : prepared'[b] # {} /\ DomainOf[b] = d} =
                      {b \in Claims : prepared[b] # {} /\ DomainOf[b] = d} \cup {c}
                    BY <2>0, <2>1, <4>1, <4>2
                <5>3. QED
                    BY <2>5, <4>0, <4>2, <5>1, <5>2
            <4>3. CASE d # DomainOf[c]
                <5>1. domains'[d] = domains[d]
                    BY <2>0, <2>4, <4>3
                <5>2. {b \in Claims : prepared'[b] # {} /\ DomainOf[b] = d} =
                      {b \in Claims : prepared[b] # {} /\ DomainOf[b] = d}
                    BY <2>0, <2>1, <4>1, <4>3
                <5>3. QED
                    BY <4>0, <5>1, <5>2
            <4>4. QED
                BY <4>2, <4>3
        <3>2. QED
            BY <3>1 DEF DomainsAgree
    <2>8. MidCall'
        BY <2>2 DEF MidCall
    <2>9. QED
        BY <2>3, <2>6, <2>7, <2>8 DEF Inv
<1>4. CASE UnprepareRead
    <2>0. op # Idle /\ op.pc = "read" /\ UNCHANGED disk /\ "forget" \in Step
        BY <1>4 DEF UnprepareRead, At, Step
    <2>1. CASE prepared[c] = {}
        <3>1. op' = Idle /\ kubelet' \in Views
            BY <1>0, <1>4, <2>0, <2>1, ReturnType DEF UnprepareRead
        <3>2. TypeOK'
            BY <1>0, <2>0, <3>1 DEF TypeOK
        <3>3. QED
            BY <2>0, <3>1, <3>2, QuietInv
    <2>2. CASE prepared[c] # {}
        <3>1. op' = [op EXCEPT !.pc = "forget"] /\ UNCHANGED kubelet
            BY <1>4, <2>2 DEF UnprepareRead
        <3>2. op' \in Ops /\ op'.pc = "forget"
            BY <1>0, <2>0, <3>1, PcType
        <3>3. TypeOK'
            BY <1>0, <2>0, <3>1, <3>2 DEF TypeOK
        <3>4. PreparedHasSpec' /\ DomainsAgree' /\ MidCall'
            BY <1>0, <2>0, <3>2 DEF PreparedHasSpec, DomainsAgree, MidCall
        <3>5. QED
            BY <3>3, <3>4 DEF Inv
    <2>3. QED
        BY <2>1, <2>2
<1>5. CASE UnprepareWrite
    <2>0. /\ op # Idle /\ c \in Claims /\ "delete" \in Step
          /\ prepared' = [prepared EXCEPT ![c] = {}]
          /\ domains' = [d \in Domains |-> RemoveFirst(domains[d], c)]
          /\ op' = [op EXCEPT !.pc = "delete"] /\ UNCHANGED <<spec, dirs, kubelet>>
        BY <1>0, <1>5, OpType DEF UnprepareWrite, LeaveDomains, At, Step
    <2>1. op' \in Ops /\ op'.pc = "delete" /\ op'.call = op.call
        BY <1>0, <2>0, PcType
    <2>2. \A b \in Claims : prepared'[b] = IF b = c THEN {} ELSE prepared[b]
        BY <1>0, <2>0 DEF TypeOK
    <2>3. ASSUME NEW d \in Domains
          PROVE  /\ domains'[d] \in Seq(Claims) /\ IsInjective(domains'[d])
                 /\ Range(domains'[d]) = {b \in Claims : prepared'[b] # {} /\ DomainOf[b] = d}
        <3>1. /\ domains[d] \in Seq(Claims) /\ IsInjective(domains[d])
              /\ Range(domains[d]) = {b \in Claims : prepared[b] # {} /\ DomainOf[b] = d}
            BY <1>0 DEF TypeOK, DomainsAgree
        <3>2. domains'[d] = RemoveFirst(domains[d], c)
            BY <2>0
        <3>3. /\ domains'[d] \in Seq(Claims) /\ IsInjective(domains'[d])
              /\ Range(domains'[d]) = Range(domains[d]) \ {c}
            BY <3>1, <3>2, RemoveFirstEffect
        <3>4. {b \in Claims : prepared'[b] # {} /\ DomainOf[b] = d} =
              {b \in Claims : prepared[b] # {} /\ DomainOf[b] = d} \ {c}
            BY <2>2
        <3>5. QED
            BY <3>1, <3>3, <3>4
    <2>4. TypeOK'
        <3>1. domains' \in [Domains -> Seq(Claims)] /\ prepared' \in [Claims -> SUBSET Channels]
            BY <1>0, <2>0, <2>3 DEF TypeOK
        <3>2. QED
            BY <1>0, <2>0, <2>1, <3>1 DEF TypeOK
    <2>5. PreparedHasSpec' /\ MidCall'
        BY <1>0, <2>0, <2>1, <2>2 DEF PreparedHasSpec, MidCall
    <2>6. DomainsAgree'
        BY <2>3 DEF DomainsAgree
    <2>7. QED
        BY <2>4, <2>5, <2>6 DEF Inv
<1>6. CASE UnprepareDelete
    <2>0. /\ op # Idle /\ op.pc = "delete" /\ c \in Claims
          /\ spec' = [spec EXCEPT ![c] = {}] /\ UNCHANGED <<prepared, domains, dirs>>
        BY <1>0, <1>6, OpType DEF UnprepareDelete, WithClaimSpec, At
    <2>1. op' = Idle /\ kubelet' \in Views
        BY <1>0, <1>6, <2>0, ReturnType DEF UnprepareDelete, WithClaimSpec
    <2>2. prepared[c] = {}
        BY <1>0, <2>0 DEF MidCall
    <2>3. TypeOK'
        BY <1>0, <2>0, <2>1 DEF TypeOK
    <2>4. PreparedHasSpec' /\ DomainsAgree' /\ MidCall'
        BY <1>0, <2>0, <2>1, <2>2 DEF TypeOK, PreparedHasSpec, DomainsAgree, MidCall
    <2>5. QED
        BY <2>3, <2>4 DEF Inv
<1>7. QED
    BY <1>1, <1>2, <1>3, <1>4, <1>5, <1>6 DEF PluginStep

\* The invariant is inductive.
LEMMA NextInv == Inv /\ [Next]_vars => Inv'
<1> SUFFICES ASSUME Inv, [Next]_vars PROVE Inv'
    OBVIOUS
<1>1. CASE Next
    BY <1>1, KubeletInv, LockInv, PluginInv, ProcessInv DEF Next
<1>2. CASE UNCHANGED vars
    <2>1. TypeOK'
        BY <1>2 DEF vars, Inv, TypeOK
    <2>2. QED
        BY <1>2, <2>1, QuietInv DEF vars
<1>3. QED
    BY <1>1, <1>2

\* What the plugin keeps on disk and in its mutex section, at every instant.
THEOREM PluginInvariance == Spec => []Inv
BY InitInv, NextInv, PTL DEF Spec

\* The plugin's state and its files stay well typed.
THEOREM PluginTypeCorrect == Spec => []TypeOK
<1>1. Inv => TypeOK
    BY DEF Inv
<1>2. QED
    BY PluginInvariance, <1>1, PTL

\* No crash, failed write or repeated call leaves a claim in the checkpoint without
\* the spec file and device directory that containers need.
THEOREM PreparedAlwaysHasSpec == Spec => []PreparedHasSpec
<1>1. Inv => PreparedHasSpec
    BY DEF Inv
<1>2. QED
    BY PluginInvariance, <1>1, PTL

\* No sequence of calls, however repeated or interrupted, makes the two halves of
\* the checkpoint, PreparedClaims and Domains, disagree.
THEOREM DomainsAlwaysAgree == Spec => []DomainsAgree
<1>1. Inv => DomainsAgree
    BY DEF Inv
<1>2. QED
    BY PluginInvariance, <1>1, PTL
-----------------------------------------------------------------------------
\* What the kubelet was told, as long as it gives up on no call.

Wanted(call) == IF call.type = "prepare" THEN "preparing" ELSE "unpreparing"

\* Every call in the plugin is the one the kubelet waits for, and for that claim the
\* only one; a call that deletes the spec file is an Unprepare.
Answerable ==
    /\ \A call \in calls : call.id = 0 /\ kubelet[call.claim] = Wanted(call)
    /\ op # Idle =>
          /\ op.call.id = 0 /\ kubelet[op.call.claim] = Wanted(op.call)
          /\ \A call \in calls : call.claim # op.call.claim
          /\ op.pc = "delete" => op.call.type = "unprepare"

ToldInv == timeouts = 0 => Answerable /\ \A c \in Claims : kubelet[c] = "prepared" => prepared[c] # {}

\* An answer is about a claim no other call is about.
LEMMA Answered ==
    ASSUME Inv, Answerable, op # Idle, Return, UNCHANGED calls
    PROVE  /\ Answerable'
           /\ \A c \in Claims : kubelet'[c] = "prepared" =>
                 \/ kubelet[c] = "prepared" /\ c # op.call.claim
                 \/ c = op.call.claim /\ op.call.type = "prepare"
<1>1. /\ TypeOK /\ op.call \in Call /\ op.call.claim \in Claims /\ calls \subseteq Call
      /\ kubelet \in [Claims -> {"none", "preparing", "prepared", "unpreparing"}]
    BY OpType DEF Inv, TypeOK
<1>2. /\ op' = Idle /\ op.call.id = 0
      /\ kubelet' = [kubelet EXCEPT ![op.call.claim] =
                        IF op.call.type = "prepare" THEN "prepared" ELSE "none"]
    BY DEF Return, Answerable
<1>3. QED
    BY <1>1, <1>2 DEF Answerable, Wanted, Call

\* The steps of the plugin: only a Prepare that has the claim in the checkpoint says so,
\* and only an Unprepare takes it out.
LEMMA ToldPlugin == ASSUME Inv, ToldInv, PluginStep PROVE ToldInv'
<1> SUFFICES ASSUME timeouts = 0 PROVE Answerable' /\ \A c \in Claims : kubelet'[c] = "prepared" => prepared'[c] # {}
    BY DEF ToldInv, PluginStep
<1> DEFINE c == op.call.claim
<1>0. /\ TypeOK /\ MidCall /\ Answerable /\ UNCHANGED calls
      /\ \A b \in Claims : kubelet[b] = "prepared" => prepared[b] # {}
      /\ op # Idle
    BY DEF Inv, ToldInv, PluginStep, PrepareRead, PrepareSpec, PrepareWrite, UnprepareRead,
           UnprepareWrite, UnprepareDelete, At
<1>1. c \in Claims /\ op.call \in Call /\ kubelet[c] # "prepared"
    BY <1>0, OpType DEF Answerable, Wanted
<1>2. CASE Return
    <2>1. /\ Answerable'
          /\ \A b \in Claims : kubelet'[b] = "prepared" =>
                \/ kubelet[b] = "prepared" /\ b # c
                \/ b = c /\ op.call.type = "prepare"
        BY <1>0, <1>2, Answered
    <2>2. \A b \in Claims \ {c} : prepared'[b] = prepared[b]
        BY <1>0, <1>1 DEF PluginStep, PrepareRead, PrepareSpec, PrepareWrite, UnprepareRead,
           UnprepareWrite, UnprepareDelete, TypeOK
    <2>3. op.call.type = "prepare" => prepared'[c] # {}
        <3>1. CASE PrepareSpec
            BY <1>0, <1>1, <1>2, <3>1, PcType DEF PrepareSpec, MidCall, Return, At, Idle
        <3>2. CASE PrepareWrite
            BY <1>0, <1>1, <3>2 DEF PrepareWrite, MidCall, At, TypeOK
        <3>3. CASE PrepareRead
            <4>1. CASE op'.pc = "spec"
                BY <1>2, <4>1 DEF Return, Idle
            <4>2. CASE ReturnError
                BY <1>0, <1>1, <1>2, <4>2 DEF Return, ReturnError, Answerable, TypeOK
            <4>3. QED
                BY <3>3, <4>1, <4>2 DEF PrepareRead, Busy
        <3>4. CASE UnprepareRead \/ UnprepareWrite \/ UnprepareDelete
            BY <3>4 DEF UnprepareRead, UnprepareWrite, UnprepareDelete, At
        <3>5. QED
            BY <3>1, <3>2, <3>3, <3>4 DEF PluginStep
    <2>4. QED
        BY <1>0, <1>1, <2>1, <2>2, <2>3
<1>3. CASE ~Return
    <2>1. /\ UNCHANGED kubelet
          /\ op' # Idle => op'.call = op.call /\ (op'.pc = "delete" => op.call.type = "unprepare")
        <3>1. CASE PrepareRead
            <4>1. \/ op' = Idle /\ UNCHANGED kubelet
                  \/ \E devices, known : op' = Busy(op.call, "spec", devices, known) /\ UNCHANGED kubelet
                BY <3>1 DEF PrepareRead, ReturnError
            <4>2. QED
                BY <4>1 DEF Busy
        <3>2. CASE PrepareSpec \/ UnprepareRead \/ UnprepareWrite
            <4>1. PICK pc \in {"write", "forget", "delete"} :
                      op' = [op EXCEPT !.pc = pc] /\ UNCHANGED kubelet
                      /\ (pc = "delete" => op.call.type = "unprepare")
                BY <1>3, <3>2 DEF PrepareSpec, UnprepareRead, UnprepareWrite, At
            <4>2. op'.pc = pc /\ op'.call = op.call
                BY <1>0, <4>1, PcType DEF Step
            <4>3. QED
                BY <4>1, <4>2
        <3>3. CASE PrepareWrite \/ UnprepareDelete
            BY <1>3, <3>3 DEF PrepareWrite, UnprepareDelete
        <3>4. QED
            BY <3>1, <3>2, <3>3 DEF PluginStep
    <2>2. \A b \in Claims \ {c} : prepared'[b] = prepared[b]
        BY <1>0, <1>1 DEF PluginStep, PrepareRead, PrepareSpec, PrepareWrite, UnprepareRead,
           UnprepareWrite, UnprepareDelete, TypeOK
    <2>3. Answerable'
        BY <1>0, <2>1 DEF Answerable, Wanted
    <2>4. QED
        BY <1>0, <1>1, <2>1, <2>2, <2>3
<1>4. QED
    BY <1>2, <1>3

\* The kubelet, the mutex, failures and restarts.
LEMMA ToldOthers ==
    ASSUME Inv, ToldInv, Next, ~PluginStep
    PROVE  ToldInv'
<1> SUFFICES ASSUME timeouts' = 0
             PROVE  Answerable' /\ \A c \in Claims : kubelet'[c] = "prepared" => prepared'[c] # {}
    BY DEF ToldInv
<1>0. TypeOK /\ timeouts \in Nat /\ calls \subseteq Call
      /\ (op # Idle => op.call \in Call /\ op.call.claim \in Claims)
    BY OpType DEF Inv, TypeOK
<1>1. /\ timeouts = 0 /\ ~(\E c \in Claims : KubeletTimeout(c)) /\ UNCHANGED prepared
    <2>1. ASSUME NEW c \in Claims, KubeletTimeout(c) PROVE FALSE
        BY <1>0, <2>1 DEF KubeletTimeout
    <2>2. ASSUME NEW c \in Claims, KubeletWants(c) \/ KubeletCalls(c) PROVE UNCHANGED <<timeouts, prepared>>
        BY <2>2 DEF KubeletWants, KubeletCalls
    <2>3. ASSUME NEW call \in calls, Lock(call) PROVE UNCHANGED <<timeouts, prepared>>
        BY <2>3 DEF Lock
    <2>4. ASSUME DiskFails \/ Start \/ Crash PROVE UNCHANGED <<timeouts, prepared>>
        BY <2>4 DEF DiskFails, Start, Crash
    <2>5. UNCHANGED <<timeouts, prepared>>
        BY <2>1, <2>2, <2>3, <2>4 DEF Next
    <2>6. QED
        BY <2>1, <2>5
<1>2. Answerable /\ \A b \in Claims : kubelet[b] = "prepared" => prepared[b] # {}
    BY <1>1 DEF ToldInv
<1>3. ASSUME NEW c \in Claims, KubeletWants(c) PROVE Answerable' /\ \A b \in Claims : kubelet'[b] = "prepared" => prepared[b] # {}
    <2>1. /\ UNCHANGED <<calls, op>>
          /\ \A b \in Claims \ {c} : kubelet'[b] = kubelet[b]
          /\ kubelet'[c] # "prepared"
        BY <1>0, <1>3 DEF KubeletWants, TypeOK
    <2>2. (\A call \in calls : call.claim # c) /\ (op # Idle => op.call.claim # c)
        BY <1>2, <1>3 DEF KubeletWants, Awaited, InPlugin, Answerable
    <2>3. Answerable'
        BY <1>0, <1>2, <2>1, <2>2 DEF Answerable, Wanted, Call
    <2>4. QED
        BY <1>2, <2>1, <2>3
<1>4. ASSUME NEW c \in Claims, KubeletCalls(c) PROVE Answerable' /\ UNCHANGED kubelet
    <2>1. PICK call \in Call : /\ calls' = calls \cup {call} /\ call.id = 0 /\ call.claim = c
                               /\ kubelet[c] = Wanted(call)
        <3>1. ASSUME NEW ty \in {"prepare", "unprepare"}
              PROVE  LET call == [type |-> ty, claim |-> c, id |-> 0]
                     IN  call \in Call /\ call.id = 0 /\ call.claim = c /\ call.type = ty
            BY DEF Call
        <3>2. QED
            BY <1>4, <3>1 DEF KubeletCalls, Wanted
    <2>2. op # Idle => op.call.claim # c
        BY <1>2, <1>4 DEF KubeletCalls, Awaited, InPlugin, Answerable
    <2>3. UNCHANGED <<op, kubelet>>
        BY <1>4 DEF KubeletCalls
    <2>4. QED
        BY <1>2, <2>1, <2>2, <2>3 DEF Answerable, Wanted
<1>5. ASSUME NEW call \in calls, Lock(call) PROVE Answerable' /\ UNCHANGED kubelet
    <2>1. /\ op' # Idle /\ op'.call = call /\ op'.pc = "read" /\ calls' = calls \ {call} /\ UNCHANGED kubelet
        BY <1>5 DEF Lock, Busy, Idle
    <2>2. ASSUME NEW other \in calls \ {call} PROVE other.claim # call.claim
        BY <1>0, <1>2 DEF Answerable, Wanted, Call
    <2>3. QED
        BY <1>2, <2>1, <2>2 DEF Answerable, Wanted
<1>6. CASE DiskFails
    <2>1. CASE op.pc = "delete"
        <3>1. Return /\ UNCHANGED calls /\ op # Idle /\ op.call.type = "unprepare"
            BY <1>2, <1>6, <2>1 DEF DiskFails, Answerable
        <3>2. QED
            BY <1>1, <1>2, <3>1, Answered
    <2>2. CASE op.pc # "delete"
        BY <1>1, <1>2, <1>6, <2>2 DEF DiskFails, ReturnError, Answerable, Wanted
    <2>3. QED
        BY <2>1, <2>2
<1>7. CASE Start \/ Crash
    BY <1>1, <1>2, <1>7 DEF Start, Crash, Answerable, Wanted
<1>8. QED
    BY <1>1, <1>2, <1>3, <1>4, <1>5, <1>6, <1>7 DEF Next

\* What the kubelet was told is prepared is in the checkpoint and has its spec file,
\* over any retries, failed writes and crashes, while it gives up on no call.
THEOREM ToldPreparedAlwaysIs == Spec => []ToldPreparedIsPrepared
<1>1. Init => ToldInv
    BY DEF Init, ToldInv, Answerable
<1>2. Inv /\ ToldInv /\ [Next]_vars => ToldInv'
    <2> SUFFICES ASSUME Inv, ToldInv, [Next]_vars PROVE ToldInv'
        OBVIOUS
    <2>1. CASE UNCHANGED vars
        BY <2>1 DEF vars, ToldInv, Answerable, Wanted
    <2>2. QED
        BY <2>1, ToldPlugin, ToldOthers
<1>3. Inv /\ ToldInv => ToldPreparedIsPrepared
    BY DEF Inv, ToldInv, PreparedHasSpec, ToldPreparedIsPrepared
<1>4. QED
    BY <1>1, <1>2, <1>3, PluginInvariance, PTL DEF Spec
=============================================================================

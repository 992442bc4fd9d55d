------------------------ MODULE BoundEffectCommit_proofs -----------------------
(***************************************************************************)
(* Proofs about BoundEffectCommit for every number of adapters, leases,      *)
(* events and releases, whatever operations and host events there are and    *)
(* however a trajectory is decided: nothing is used of Decision.             *)
(*                                                                         *)
(* The three invariants speak of different times of a lease: Remembers says  *)
(* what it keeps of its issue, InCallback what holds while its effect runs,   *)
(* and Accounted, InChain and Projected what is left behind.                 *)
(***************************************************************************)
EXTENDS BoundEffectCommit, FiniteSetTheorems, SequenceTheorems, TLAPS
--------------------------------------------------------------------------------

(* The inductive invariant                                                    *)

Places == {"idle", "gated", "proposed", "leased", "callback"}
Args == [op : Operations \cup {NoLease}, head : 0 .. MaxEvents, observed : 0 .. MaxObserved,
         lease : 0 .. MaxLease]

Types ==
    /\ causal \in BOOLEAN /\ reentered \in BOOLEAN /\ contained \in BOOLEAN
    /\ fence \in Adapters \cup {Nobody}
    /\ observed \in 0 .. MaxObserved /\ evidence \in Evidence
    /\ trajectory \in Seq(Operations \cup HostEvents) /\ Len(trajectory) <= MaxEvents
    /\ leases \in [LeaseIds -> Leases \cup {NoLease}]
    /\ causalReceipts \subseteq Receipts /\ objectiveReceipts \subseteq Receipts
    /\ ran \in [LeaseIds -> Nat]
    /\ released \in Seq(Releases) /\ Len(released) <= MaxRelease
    /\ pc \in [Adapters -> Places] /\ arg \in [Adapters -> Args]

\* The fence is held exactly by the thread whose callback runs.
Fenced ==
    /\ \A a \in Adapters : fence = a <=> pc[a] = "callback"
    /\ \A a \in Adapters : pc[a] # "idle" => arg[a].op \in Operations
    /\ \A a \in Adapters : pc[a] = "callback" => arg[a].lease \in Issued
    /\ fence = Nobody => ~reentered

\* Outside a containment the guard's evidence is the last release receipt.
ReceiptAt(n) == IF n = 0 THEN "none" ELSE released[n]
LastReceipt == ~contained => evidence = ReceiptAt(Len(released))

\* What a lease remembers of the moment it was issued at
Remembers(l) ==
    /\ leases[l].head <= Len(trajectory) /\ leases[l].releases <= Len(released)
    /\ leases[l].state.evidence = ReceiptAt(leases[l].releases)

NoReceipt(l) == \A r \in causalReceipts \cup objectiveReceipts : r.lease # l

\* The lease whose callback adapter a runs
InCallback(a) ==
    LET l == arg[a].lease IN
    /\ leases[l].consumed /\ arg[a].op = leases[l].op
    /\ ran[l] = 1 /\ NoReceipt(l)
    /\ ~reentered => /\ leases[l].state = ObjectiveState /\ FloorAllows
                     /\ causal => leases[l].head = LedgerHead

\* Both brokers hold a receipt of a lease that has run, and agree on a failure.
Closed(l) ==
    /\ \E o \in Outcomes : Receipt(l, o) \in objectiveReceipts
    /\ causal => /\ \E o \in Outcomes : Receipt(l, o) \in causalReceipts
                 /\ Receipt(l, "FAILED") \in objectiveReceipts <=> Receipt(l, "FAILED") \in causalReceipts

Accounted(l) ==
    /\ ran[l] <= 1
    /\ (l \notin Issued \/ ~leases[l].consumed) => ran[l] = 0 /\ NoReceipt(l)
    /\ Ran(l) /\ l \notin Running => Closed(l)
    /\ Receipt(l, "SUCCEEDED") \in objectiveReceipts => Ran(l)

OneReceipt ==
    /\ \A r, s \in causalReceipts : r.lease = s.lease => r = s
    /\ \A r, s \in objectiveReceipts : r.lease = s.lease => r = s

\* A success of the causal broker is an event of the chain, and the event of an
\* operation is a success of one lease.
Succeeded(l) == Receipt(l, "SUCCEEDED") \in causalReceipts
InChain(l) == Succeeded(l) => /\ l \in Issued /\ Len(trajectory) > leases[l].head
                              /\ trajectory[leases[l].head + 1] = leases[l].op
Witnessed ==
    /\ \A k \in DOMAIN trajectory : trajectory[k] \in Operations =>
         \E l \in Issued : leases[l].op = trajectory[k] /\ Succeeded(l)
    /\ \A l, m \in Issued : Succeeded(l) /\ Succeeded(m) /\ leases[l].op = leases[m].op => l = m

\* A callback ran where the projection allowed it.
Projected(l) ==
    causal /\ Ran(l) => Decision(Append(SubSeq(trajectory, 1, leases[l].head), leases[l].op)) = "ALLOW"

IInv ==
    /\ Types /\ Fenced /\ LastReceipt /\ OneReceipt /\ Witnessed
    /\ \A l \in Issued : Remembers(l)
    /\ \A a \in Adapters : pc[a] = "callback" => InCallback(a)
    /\ \A l \in LeaseIds : Accounted(l) /\ InChain(l) /\ Projected(l)
-----------------------------------------------------------------------------
(* Sequences, places and leases *)

\* A chain that grows keeps its prefixes.
LEMMA PrefixKept ==
    ASSUME NEW S, NEW s \in Seq(S), NEW e \in S, NEW n \in Nat, n <= Len(s)
    PROVE  SubSeq(Append(s, e), 1, n) = SubSeq(s, 1, n)
<1>1. PICK t : t = Append(s, e)
  OBVIOUS
<1>2. /\ t \in Seq(S) /\ Len(t) = Len(s) + 1 /\ Len(s) \in Nat
      /\ \A i \in 1 .. Len(s) : t[i] = s[i] /\ s[i] \in S
  BY <1>1
<1>3. \A i \in 1 .. n : i \in 1 .. Len(s) /\ t[i] = s[i] /\ t[i] \in S
  BY <1>2
<1>4. /\ SubSeq(t, 1, n) \in Seq(S) /\ Len(SubSeq(t, 1, n)) = n
      /\ \A i \in 1 .. n : SubSeq(t, 1, n)[i] = t[i]
  <2>1. /\ SubSeq(t, 1, n) \in Seq(S)
        /\ Len(SubSeq(t, 1, n)) = IF 1 <= n THEN n - 1 + 1 ELSE 0
        /\ \A i \in 1 .. n - 1 + 1 : SubSeq(t, 1, n)[i] = t[1 + i - 1]
    BY <1>3, SubSeqProperties
  <2> QED
    BY <2>1
<1>5. /\ SubSeq(s, 1, n) \in Seq(S) /\ Len(SubSeq(s, 1, n)) = n
      /\ \A i \in 1 .. n : SubSeq(s, 1, n)[i] = s[i]
  <2>1. /\ SubSeq(s, 1, n) \in Seq(S)
        /\ Len(SubSeq(s, 1, n)) = IF 1 <= n THEN n - 1 + 1 ELSE 0
        /\ \A i \in 1 .. n - 1 + 1 : SubSeq(s, 1, n)[i] = s[1 + i - 1]
    BY <1>2, <1>3, SubSeqProperties
  <2> QED
    BY <2>1
<1>6. SubSeq(t, 1, n) = SubSeq(s, 1, n)
  BY <1>3, <1>4, <1>5, SeqEqual
<1> QED
  BY <1>1, <1>6

LEMMA Bounds == MaxLease \in Nat /\ MaxEvents \in Nat /\ MaxObserved \in Nat /\ MaxRelease \in Nat
  BY BoundAssumption

LEMMA IdleArg == Idle \in Args /\ Idle.op = NoLease
  BY Bounds DEF Idle, Args

LEMMA GotoEffect ==
    ASSUME Types, NEW a \in Adapters, NEW step \in Places, NEW what \in Args, Goto(a, step, what)
    PROVE  /\ pc' \in [Adapters -> Places] /\ arg' \in [Adapters -> Args]
           /\ pc'[a] = step /\ arg'[a] = what
           /\ \A b \in Adapters : b # a => pc'[b] = pc[b] /\ arg'[b] = arg[b]
  BY DEF Goto, Types

LEMMA IssuedLeases ==
    ASSUME Types, NEW l \in Issued
    PROVE  l \in LeaseIds /\ leases[l] \in Leases /\ leases[l] # NoLease
  BY DEF Issued, Types

\* A chain holds an id once, and the ids tell events apart.
LEMMA FreshEvent ==
    ASSUME Types, NEW e \in Operations \cup HostEvents, e.id \notin Ids
    PROVE  \A k \in DOMAIN trajectory : trajectory[k] # e
  BY DEF Ids

LEMMA ReceiptFacts ==
    /\ \A l \in LeaseIds, o \in Outcomes :
         Receipt(l, o) \in Receipts /\ Receipt(l, o).lease = l /\ Receipt(l, o).outcome = o
    /\ \A r \in Receipts : r = Receipt(r.lease, r.outcome) /\ r.lease \in LeaseIds /\ r.outcome \in Outcomes
    /\ {"SUCCEEDED", "FAILED", "NOT_EXECUTED", "EFFECT_SUCCEEDED_EVIDENCE_FAILED"} = Outcomes
    /\ "none" \notin Outcomes
  BY DEF Receipt, Receipts, Outcomes
-----------------------------------------------------------------------------
(* The steps of Next, by what they touch *)

\* A step of an adapter that only moves itself, outside a callback
Walks(a) ==
    /\ fence = Nobody /\ pc[a] # "callback"
    /\ \E step \in Places \ {"callback"}, what \in Args :
         Goto(a, step, what) /\ (step # "idle" => what.op \in Operations)
    /\ UNCHANGED <<causal, fence, reentered, ledgerVars, containmentVars, brokerVars>>

\* A lease that is burned without its callback, and what is recorded of it
Burns(a, l) ==
    /\ fence = Nobody /\ pc[a] # "callback" /\ l \in Issued /\ ~leases[l].consumed
    /\ Burn(l) /\ Goto(a, "idle", Idle)
    /\ \E c \in {"NOT_EXECUTED", "FAILED", "none"}, o \in {"NOT_EXECUTED", "FAILED", "none"} : Record(l, c, o)
    /\ UNCHANGED <<causal, fence, reentered, ledgerVars, containmentVars, ran>>

\* A callback that comes to its end
Ends(a) == CallbackFails(a) \/ CallbackSucceeds(a) \/ EvidenceFails(a)

Action ==
    \/ \E own \in BOOLEAN : IngestObservation(own)
    \/ \E own \in BOOLEAN : \E e \in HostEvents : AppendEvent(own, e)
    \/ EnterContainment
    \/ \E r \in Releases : ExitContainment(r)
    \/ UNCHANGED vars
    \/ \E a \in Adapters : Walks(a) \/ Ends(a)
    \/ \E a \in Adapters, l \in LeaseIds : Issue(a, l) \/ Burns(a, l) \/ ConsumeStart(a, l)

LEMMA FreeFence ==
    ASSUME MayHold(FALSE) PROVE fence = Nobody
  BY DEF MayHold

LEMMA Walking ==
    ASSUME Types, NEW a \in Adapters, fence = Nobody, pc[a] # "callback",
           NEW step \in Places \ {"callback"}, NEW what \in Args, Goto(a, step, what),
           step # "idle" => what.op \in Operations,
           UNCHANGED <<causal, fence, reentered, ledgerVars, containmentVars, brokerVars>>
    PROVE  Walks(a)
  BY DEF Walks

LEMMA AdapterCases ==
    ASSUME IInv, NEW a \in Adapters, AdapterNext(a) PROVE Action
<1>0. Types /\ Fenced /\ arg[a] \in Args
  BY DEF IInv, Types
<1>1. ASSUME NEW op \in Operations, Gate(a, op) PROVE Action
  <2>1. PICK what : what = [Idle EXCEPT !.op = op, !.observed = observed]
    OBVIOUS
  <2>2. what \in Args /\ what.op \in Operations
    BY <1>0, <2>1, IdleArg DEF Args, Types
  <2>3. /\ pc[a] = "idle" /\ MayHold(FALSE) /\ Goto(a, "gated", what)
        /\ UNCHANGED <<causal, fence, reentered, ledgerVars, containmentVars, brokerVars>>
    BY <1>1, <2>1 DEF Gate
  <2>4. Walks(a)
    BY <1>0, <2>2, <2>3, FreeFence, Walking DEF Places
  <2> QED
    BY <2>4 DEF Action
<1>2. CASE GateRefused(a)
  BY <1>2 DEF GateRefused, Action
<1>3. CASE Propose(a)
  <2>1. PICK what : what = [arg[a] EXCEPT !.head = LedgerHead]
    OBVIOUS
  <2>2. LedgerHead \in 0 .. MaxEvents
    BY <1>0, Bounds DEF LedgerHead, Types
  <2>3. /\ pc[a] = "gated" /\ MayHold(FALSE) /\ Goto(a, "proposed", what)
        /\ UNCHANGED <<causal, fence, reentered, ledgerVars, containmentVars, brokerVars>>
    BY <1>3, <2>1 DEF Propose
  <2>4. what \in Args /\ what.op \in Operations
    BY <1>0, <2>1, <2>2, <2>3 DEF Args, Fenced
  <2>5. Walks(a)
    BY <1>0, <2>3, <2>4, FreeFence, Walking DEF Places
  <2> QED
    BY <2>5 DEF Action
<1>4. CASE IssueRefused(a)
  <2>1. /\ pc[a] # "callback" /\ MayHold(FALSE) /\ Goto(a, "idle", Idle)
        /\ UNCHANGED <<causal, fence, reentered, ledgerVars, containmentVars, brokerVars>>
    BY <1>4 DEF IssueRefused
  <2>2. Walks(a)
    BY <1>0, <2>1, IdleArg, FreeFence, Walking DEF Places
  <2> QED
    BY <2>2 DEF Action
<1>5. ASSUME NEW l \in LeaseIds, Presents(a, l) PROVE fence = Nobody /\ pc[a] # "callback" /\ l \in Issued
  BY <1>5, FreeFence DEF Presents
<1>6. ASSUME NEW l \in LeaseIds, ConsumeReplayed(a, l) \/ ConsumeUnverified(a, l) PROVE Action
  <2>1. /\ Presents(a, l) /\ Goto(a, "idle", Idle)
        /\ UNCHANGED <<causal, fence, reentered, ledgerVars, containmentVars, brokerVars>>
    BY <1>6 DEF ConsumeReplayed, ConsumeUnverified, Live, Return, brokerVars
  <2>2. Walks(a)
    BY <1>0, <1>5, <2>1, IdleArg, Walking DEF Places
  <2> QED
    BY <2>2 DEF Action
<1>7. ASSUME NEW l \in LeaseIds, ConsumeInvalid(a, l) \/ ConsumeInvalidBelow(a, l) \/ ConsumeRefusedBelow(a, l)
      PROVE  Action
  <2>1. /\ Presents(a, l) /\ ~leases[l].consumed /\ Burn(l) /\ Goto(a, "idle", Idle)
        /\ UNCHANGED <<causal, fence, reentered, ledgerVars, containmentVars, ran>>
    BY <1>7 DEF ConsumeInvalid, ConsumeInvalidBelow, ConsumeRefusedBelow, Live, Return
  <2>2. \E c \in {"NOT_EXECUTED", "FAILED", "none"}, o \in {"NOT_EXECUTED", "FAILED", "none"} : Record(l, c, o)
    BY <1>7 DEF ConsumeInvalid, ConsumeInvalidBelow, ConsumeRefusedBelow
  <2>3. Burns(a, l)
    BY <1>5, <2>1, <2>2 DEF Burns
  <2> QED
    BY <2>3 DEF Action
<1> QED
  BY <1>1, <1>2, <1>3, <1>4, <1>6, <1>7 DEF AdapterNext, Action, Ends

LEMMA NextCases ==
    ASSUME IInv, [Next]_vars PROVE Action
  BY AdapterCases DEF Next, HostNext, Action
-----------------------------------------------------------------------------
(* What a step leaves alone *)

LEMMA NoCallback ==
    ASSUME Fenced, fence = Nobody
    PROVE  (\A b \in Adapters : pc[b] # "callback") /\ Running = {}
  BY NobodyAssumption DEF Fenced, Running

\* Nobody's callback runs, before a step and after it.
Quiet == /\ \A b \in Adapters : pc[b] # "callback" /\ pc'[b] # "callback"
         /\ Running = {} /\ Running' = {}

LEMMA StaysQuiet ==
    ASSUME Fenced, fence = Nobody, \A b \in Adapters : pc'[b] = "callback" => pc[b] = "callback"
    PROVE  Quiet
  BY NoCallback DEF Quiet, Running

\* The leases and what was recorded of them stay.
LEMMA BrokersStay ==
    ASSUME UNCHANGED <<causal, brokerVars>>
    PROVE  /\ Issued' = Issued /\ (OneReceipt' <=> OneReceipt)
           /\ \A l : (NoReceipt(l)' <=> NoReceipt(l)) /\ (Closed(l)' <=> Closed(l))
           /\ \A l : (Succeeded(l)' <=> Succeeded(l)) /\ (Ran(l)' <=> Ran(l))
           /\ UNCHANGED <<leases, causalReceipts, objectiveReceipts, ran>>
  BY DEF brokerVars, Issued, OneReceipt, NoReceipt, Closed, Succeeded, Ran

LEMMA AccountStays ==
    ASSUME UNCHANGED <<causal, brokerVars>>, Running' = Running, NEW l, Accounted(l)
    PROVE  Accounted(l)'
  BY BrokersStay DEF Accounted

\* The chain stays too.
LEMMA ChainStays ==
    ASSUME UNCHANGED <<causal, brokerVars, trajectory>>
    PROVE  /\ (Witnessed' <=> Witnessed)
           /\ \A l : (InChain(l)' <=> InChain(l)) /\ (Projected(l)' <=> Projected(l))
  BY BrokersStay DEF Witnessed, InChain, Projected

LEMMA RememberStays ==
    ASSUME UNCHANGED <<leases, trajectory, released>>, NEW l, Remembers(l)
    PROVE  Remembers(l)'
  BY DEF Remembers, ReceiptAt
-----------------------------------------------------------------------------
(* Steps that touch no lease *)

LEMMA StutterStep ==
    ASSUME IInv, UNCHANGED vars PROVE IInv'
<1>1. /\ UNCHANGED <<causal, fence, reentered, observed, contained, evidence, trajectory, leases,
                     causalReceipts, objectiveReceipts, ran, released, pc, arg>>
      /\ UNCHANGED <<causal, brokerVars>>
  BY DEF vars, brokerVars
<1>2. Running' = Running
  BY <1>1 DEF Running
<1>3. Types'
  BY <1>1 DEF IInv, Types
<1>4. Fenced' /\ LastReceipt'
  BY <1>1, BrokersStay DEF IInv, Fenced, LastReceipt, ReceiptAt
<1>5. \A a \in Adapters : pc'[a] = "callback" => InCallback(a)'
  BY <1>1, BrokersStay DEF IInv, InCallback, ObjectiveState, FloorAllows, LedgerHead
<1> QED
  BY <1>1, <1>2, <1>3, <1>4, <1>5, BrokersStay, AccountStays, ChainStays, RememberStays DEF IInv

LEMMA WalksStep ==
    ASSUME IInv, NEW a \in Adapters, Walks(a) PROVE IInv'
<1>0. Types /\ Fenced /\ LastReceipt
  BY DEF IInv
<1>1. /\ fence = Nobody /\ pc[a] # "callback"
      /\ UNCHANGED <<causal, fence, reentered, observed, contained, evidence, trajectory, leases,
                     causalReceipts, objectiveReceipts, ran, released>>
      /\ UNCHANGED <<causal, brokerVars, trajectory>>
  BY DEF Walks, ledgerVars, containmentVars, brokerVars
<1>2. PICK step \in Places \ {"callback"}, what \in Args :
         Goto(a, step, what) /\ (step # "idle" => what.op \in Operations)
  BY DEF Walks
<1>3. /\ pc' \in [Adapters -> Places] /\ arg' \in [Adapters -> Args]
      /\ pc'[a] = step /\ arg'[a] = what
      /\ \A b \in Adapters : b # a => pc'[b] = pc[b] /\ arg'[b] = arg[b]
  BY <1>0, <1>2, GotoEffect
<1>4. Quiet
  BY <1>0, <1>1, <1>2, <1>3, StaysQuiet
<1>5. Types'
  BY <1>0, <1>1, <1>3 DEF Types
<1>6. Fenced'
  BY <1>0, <1>1, <1>2, <1>3, <1>4, NobodyAssumption DEF Fenced, Quiet
<1>7. LastReceipt'
  BY <1>0, <1>1 DEF LastReceipt, ReceiptAt
<1> QED
  BY <1>1, <1>4, <1>5, <1>6, <1>7, BrokersStay, AccountStays, ChainStays, RememberStays DEF IInv, Quiet

\* An observation or an event of the host: from another thread while no
\* callback runs, or from the callback itself.
LEMMA OwnOrQuiet ==
    ASSUME Types, Fenced, NEW own \in BOOLEAN, MayHold(own), reentered' = own, UNCHANGED <<fence, pc, arg>>
    PROVE  /\ \A a \in Adapters : pc'[a] = "callback" => reentered'
           /\ reentered' \in BOOLEAN /\ (fence' = Nobody => ~reentered')
           /\ Running' = Running
<1>1. fence = Nobody => \A a \in Adapters : pc[a] # "callback"
  BY NoCallback
<1>2. Running' = Running
  BY DEF Running
<1> QED
  BY <1>1, <1>2 DEF MayHold

LEMMA IngestStep ==
    ASSUME IInv, NEW own \in BOOLEAN, IngestObservation(own) PROVE IInv'
<1>0. Types /\ Fenced /\ LastReceipt
  BY DEF IInv
<1>1. /\ MayHold(own) /\ reentered' = own /\ observed' = observed + 1 /\ observed < MaxObserved
      /\ UNCHANGED <<causal, fence, contained, evidence, trajectory, leases,
                     causalReceipts, objectiveReceipts, ran, released, pc, arg>>
      /\ UNCHANGED <<causal, brokerVars, trajectory>>
  BY DEF IngestObservation, containmentVars, brokerVars
<1>2. /\ \A a \in Adapters : pc'[a] = "callback" => reentered'
      /\ reentered' \in BOOLEAN /\ (fence' = Nobody => ~reentered')
      /\ Running' = Running
  BY <1>0, <1>1, OwnOrQuiet
<1>3. Types'
  BY <1>0, <1>1, <1>2, Bounds DEF Types
<1>4. Fenced'
  BY <1>0, <1>1, <1>2, BrokersStay DEF Fenced
<1>5. LastReceipt'
  BY <1>0, <1>1 DEF LastReceipt, ReceiptAt
<1>6. \A a \in Adapters : pc'[a] = "callback" => InCallback(a)'
  BY <1>1, <1>2, BrokersStay DEF IInv, InCallback
<1> QED
  BY <1>1, <1>2, <1>3, <1>4, <1>5, <1>6, BrokersStay, AccountStays, ChainStays, RememberStays DEF IInv

\* The chain has grown by an event.
Grown(e) ==
    /\ trajectory' \in Seq(Operations \cup HostEvents) /\ Len(trajectory') = Len(trajectory) + 1
    /\ \A k \in 1 .. Len(trajectory) : trajectory'[k] = trajectory[k]
    /\ trajectory'[Len(trajectory) + 1] = e
    /\ Len(trajectory) \in Nat
    /\ DOMAIN trajectory = 1 .. Len(trajectory) /\ DOMAIN trajectory' = 1 .. Len(trajectory) + 1

LEMMA ChainGrows ==
    ASSUME Types, NEW e \in Operations \cup HostEvents, trajectory' = Append(trajectory, e)
    PROVE  Grown(e)
  BY DEF Types, Grown

LEMMA HeadType ==
    ASSUME Types, NEW l \in Issued
    PROVE  /\ leases[l].head \in Nat /\ leases[l].releases \in Nat /\ leases[l].op \in Operations
           /\ leases[l].state \in [observed : 0 .. MaxObserved, contained : BOOLEAN, evidence : Evidence]
<1>1. leases[l] \in Leases
  BY IssuedLeases
<1> QED
  BY <1>1, Bounds DEF Leases

LEMMA ProjectionKept ==
    ASSUME IInv, NEW e \in Operations \cup HostEvents, trajectory' = Append(trajectory, e), NEW l \in Issued
    PROVE  SubSeq(trajectory', 1, leases[l].head) = SubSeq(trajectory, 1, leases[l].head)
<1>1. leases[l].head \in Nat /\ leases[l].head <= Len(trajectory)
  BY HeadType DEF IInv, Remembers
<1> QED
  BY <1>1, PrefixKept DEF IInv, Types

LEMMA InChainKept ==
    ASSUME IInv, NEW e, Grown(e), NEW l \in LeaseIds, leases' = leases, Succeeded(l)
    PROVE  /\ l \in Issued' /\ Len(trajectory') > leases'[l].head
           /\ trajectory'[leases'[l].head + 1] = leases'[l].op
<1>1. l \in Issued /\ Len(trajectory) > leases[l].head /\ trajectory[leases[l].head + 1] = leases[l].op
  BY DEF IInv, InChain
<1>2. leases[l].head \in Nat
  BY <1>1, HeadType DEF IInv
<1>3. leases[l].head + 1 \in 1 .. Len(trajectory)
  BY <1>1, <1>2 DEF Grown
<1> QED
  BY <1>1, <1>2, <1>3 DEF Grown, Issued

LEMMA AppendStep ==
    ASSUME IInv, NEW own \in BOOLEAN, NEW e \in HostEvents, AppendEvent(own, e) PROVE IInv'
<1>0. Types /\ Fenced /\ LastReceipt
  BY DEF IInv
<1>1. /\ MayHold(own) /\ reentered' = own /\ Len(trajectory) < MaxEvents
      /\ trajectory' = Append(trajectory, e)
      /\ UNCHANGED <<causal, fence, observed, contained, evidence, leases,
                     causalReceipts, objectiveReceipts, ran, released, pc, arg>>
      /\ UNCHANGED <<causal, brokerVars>>
  BY DEF AppendEvent, containmentVars, brokerVars, LedgerHead
<1>2. /\ \A a \in Adapters : pc'[a] = "callback" => reentered'
      /\ reentered' \in BOOLEAN /\ (fence' = Nobody => ~reentered')
      /\ Running' = Running
  BY <1>0, <1>1, OwnOrQuiet
<1>3. Grown(e)
  BY <1>0, <1>1, ChainGrows
<1>4. Types'
  BY <1>0, <1>1, <1>2, <1>3, Bounds DEF Types, Grown
<1>5. Fenced'
  BY <1>0, <1>1, <1>2, BrokersStay DEF Fenced
<1>6. LastReceipt'
  BY <1>0, <1>1 DEF LastReceipt, ReceiptAt
<1>7. \A a \in Adapters : pc'[a] = "callback" => InCallback(a)'
  BY <1>1, <1>2, BrokersStay DEF IInv, InCallback
<1>8. \A l \in Issued' : Remembers(l)'
  <2> SUFFICES ASSUME NEW l \in Issued PROVE Remembers(l)'
    BY <1>1, BrokersStay
  <2>1. Remembers(l) /\ leases[l].head \in Nat
    BY <1>0, HeadType DEF IInv
  <2> QED
    BY <1>1, <1>3, <2>1 DEF Remembers, ReceiptAt, Grown
<1>9. Witnessed'
  <2>1. e \notin Operations
    BY KindsAssumption
  <2>2. \A k \in DOMAIN trajectory' : trajectory'[k] \in Operations => k \in DOMAIN trajectory /\ trajectory'[k] = trajectory[k]
    BY <1>3, <2>1 DEF Grown
  <2> QED
    BY <1>1, <2>2, BrokersStay DEF IInv, Witnessed
<1>10. ASSUME NEW l \in LeaseIds PROVE InChain(l)' /\ Projected(l)'
  <2>1. InChain(l)'
    BY <1>1, <1>3, InChainKept, BrokersStay DEF InChain
  <2>2. Projected(l)'
    <3>1. Ran(l) => l \in Issued
      BY DEF IInv, Accounted, Ran
    <3>2. ASSUME Ran(l) PROVE SubSeq(trajectory', 1, leases[l].head) = SubSeq(trajectory, 1, leases[l].head)
      BY <1>1, <3>1, <3>2, ProjectionKept
    <3>3. causal /\ Ran(l) => Decision(Append(SubSeq(trajectory, 1, leases[l].head), leases[l].op)) = "ALLOW"
      BY DEF IInv, Projected
    <3>4. (Ran(l)' <=> Ran(l)) /\ causal' = causal /\ leases' = leases
      BY <1>1, BrokersStay
    <3> QED
      BY <3>2, <3>3, <3>4, Zenon DEF Projected
  <2> QED
    BY <2>1, <2>2
<1> QED
  BY <1>1, <1>2, <1>4, <1>5, <1>6, <1>7, <1>8, <1>9, <1>10, BrokersStay, AccountStays DEF IInv

LEMMA EnterStep ==
    ASSUME IInv, EnterContainment PROVE IInv'
<1>0. Types /\ Fenced
  BY DEF IInv
<1>1. /\ fence = Nobody /\ contained' = TRUE /\ evidence' = "incident"
      /\ UNCHANGED <<causal, fence, reentered, observed, released, trajectory, leases,
                     causalReceipts, objectiveReceipts, ran, pc, arg>>
      /\ UNCHANGED <<causal, brokerVars, trajectory>>
  BY FreeFence DEF EnterContainment, brokerVars
<1>2. Quiet
  BY <1>0, <1>1, StaysQuiet
<1>3. Types'
  BY <1>0, <1>1 DEF Types, Evidence
<1>4. Fenced'
  BY <1>0, <1>1, BrokersStay DEF Fenced
<1>5. LastReceipt'
  BY <1>1 DEF LastReceipt
<1> QED
  BY <1>1, <1>2, <1>3, <1>4, <1>5, BrokersStay, AccountStays, ChainStays, RememberStays DEF IInv, Quiet

LEMMA ExitStep ==
    ASSUME IInv, NEW r \in Releases, ExitContainment(r) PROVE IInv'
<1>0. Types /\ Fenced
  BY DEF IInv
<1>1. /\ fence = Nobody /\ Len(released) < MaxRelease /\ contained' = FALSE /\ evidence' = r
      /\ released' = Append(released, r)
      /\ UNCHANGED <<causal, fence, reentered, observed, trajectory, leases,
                     causalReceipts, objectiveReceipts, ran, pc, arg>>
      /\ UNCHANGED <<causal, brokerVars, trajectory>>
  BY FreeFence DEF ExitContainment, brokerVars
<1>2. /\ released' \in Seq(Releases) /\ Len(released') = Len(released) + 1 /\ Len(released) \in Nat
      /\ released'[Len(released) + 1] = r
      /\ \A k \in 1 .. Len(released) : released'[k] = released[k]
  BY <1>0, <1>1 DEF Types
<1>3. Quiet
  BY <1>0, <1>1, StaysQuiet
<1>4. Types'
  <2>1. evidence' \in Evidence /\ contained' \in BOOLEAN
    BY <1>1 DEF Evidence
  <2>2. Len(released') <= MaxRelease
    BY <1>1, <1>2, Bounds
  <2> QED
    BY <1>0, <1>1, <1>2, <2>1, <2>2 DEF Types
<1>5. Fenced'
  BY <1>0, <1>1, BrokersStay DEF Fenced
<1>6. LastReceipt'
  BY <1>1, <1>2 DEF LastReceipt, ReceiptAt
<1>7. \A l \in Issued' : Remembers(l)'
  <2> SUFFICES ASSUME NEW l \in Issued PROVE Remembers(l)'
    BY <1>1, BrokersStay
  <2>1. Remembers(l) /\ leases[l].head \in Nat /\ leases[l].releases \in Nat
    BY <1>0, HeadType DEF IInv
  <2> QED
    BY <1>1, <1>2, <2>1 DEF Remembers, ReceiptAt
<1> QED
  BY <1>1, <1>3, <1>4, <1>5, <1>6, <1>7, BrokersStay, AccountStays, ChainStays DEF IInv, Quiet
-----------------------------------------------------------------------------
(* A lease is issued *)

LEMMA NewLease ==
    ASSUME Types, NEW a \in Adapters, NEW l \in LeaseIds, Issue(a, l), arg[a].op \in Operations
    PROVE  \E n \in Leases :
           /\ leases' = [leases EXCEPT ![l] = n] /\ ~n.consumed
           /\ n.op = arg[a].op /\ n.head = Len(trajectory) /\ n.releases = Len(released)
           /\ n.state.evidence = evidence
<1>1. PICK n : n = [op |-> arg[a].op, head |-> LedgerHead, state |-> ObjectiveState,
                    releases |-> Len(released), consumed |-> FALSE]
  OBVIOUS
<1>2. leases' = [leases EXCEPT ![l] = n]
  BY <1>1 DEF Issue
<1>3. ObjectiveState \in [observed : 0 .. MaxObserved, contained : BOOLEAN, evidence : Evidence]
  BY DEF ObjectiveState, Types
<1>4. ObjectiveState.evidence = evidence
  BY DEF ObjectiveState
<1>5. LedgerHead \in 0 .. MaxEvents /\ Len(released) \in 0 .. MaxRelease
  BY Bounds DEF LedgerHead, Types
<1>6. n \in Leases
  BY <1>1, <1>3, <1>5 DEF Leases
<1> QED
  BY <1>1, <1>2, <1>4, <1>6 DEF LedgerHead

LEMMA IssueStep ==
    ASSUME IInv, NEW a \in Adapters, NEW l \in LeaseIds, Issue(a, l) PROVE IInv'
<1>0. Types /\ Fenced /\ LastReceipt /\ \A m \in LeaseIds : Accounted(m)
  BY DEF IInv
<1>1. /\ pc[a] \in {"gated", "proposed"} /\ fence = Nobody /\ ~contained
      /\ l \notin Issued
      /\ Goto(a, "leased", [Idle EXCEPT !.op = arg[a].op, !.lease = l])
      /\ UNCHANGED <<causal, fence, reentered, observed, contained, evidence, trajectory,
                     causalReceipts, objectiveReceipts, ran, released>>
  <2>1. l \notin 1 .. l - 1
    BY DEF LeaseIds
  <2> QED
    BY <2>1, FreeFence DEF Issue, FloorAllows, ledgerVars, containmentVars
<1>2. arg[a] \in Args /\ arg[a].op \in Operations
  BY <1>0, <1>1 DEF Types, Fenced
<1>3. PICK n \in Leases :
         /\ leases' = [leases EXCEPT ![l] = n] /\ ~n.consumed
         /\ n.op = arg[a].op /\ n.head = Len(trajectory) /\ n.releases = Len(released)
         /\ n.state.evidence = evidence
  BY <1>0, <1>2, NewLease
<1>4. /\ leases' \in [LeaseIds -> Leases \cup {NoLease}] /\ leases'[l] = n
      /\ \A m \in LeaseIds : m # l => leases'[m] = leases[m]
  BY <1>0, <1>3 DEF Types
<1>5. Issued' = Issued \cup {l} /\ Issued \subseteq LeaseIds
  BY <1>3, <1>4, NoLeaseAssumption DEF Issued
<1>6. PICK what : what = [Idle EXCEPT !.op = arg[a].op, !.lease = l]
  OBVIOUS
<1>7. what \in Args /\ what.op \in Operations
  <2>1. l \in 0 .. MaxLease
    BY Bounds DEF LeaseIds
  <2> QED
    BY <1>2, <1>6, <2>1, IdleArg DEF Args
<1>8. /\ pc' \in [Adapters -> Places] /\ arg' \in [Adapters -> Args]
      /\ pc'[a] = "leased" /\ arg'[a] = what
      /\ \A b \in Adapters : b # a => pc'[b] = pc[b] /\ arg'[b] = arg[b]
  BY <1>0, <1>1, <1>6, <1>7, GotoEffect DEF Places
<1>9. Quiet
  BY <1>0, <1>1, <1>8, StaysQuiet
<1>10. Types'
  BY <1>0, <1>1, <1>4, <1>8 DEF Types
<1>11. Fenced'
  BY <1>0, <1>1, <1>7, <1>8, <1>9, NobodyAssumption DEF Fenced, Quiet
<1>12. LastReceipt' /\ OneReceipt'
  BY <1>1 DEF IInv, LastReceipt, ReceiptAt, OneReceipt
<1>13. /\ \A m : (NoReceipt(m)' <=> NoReceipt(m)) /\ (Closed(m)' <=> Closed(m))
       /\ \A m : (Succeeded(m)' <=> Succeeded(m)) /\ (Ran(m)' <=> Ran(m))
  BY <1>1 DEF NoReceipt, Closed, Succeeded, Ran
<1>14. NoReceipt(l) /\ ran[l] = 0 /\ ~Succeeded(l)
  <2>1. NoReceipt(l) /\ ran[l] = 0
    BY <1>0, <1>1 DEF Accounted
  <2>2. Receipt(l, "SUCCEEDED").lease = l
    BY DEF Receipt
  <2> QED
    BY <2>1, <2>2 DEF NoReceipt, Succeeded
<1>15. ASSUME NEW m \in Issued' PROVE Remembers(m)'
  <2>1. CASE m = l
    <3>1. evidence = ReceiptAt(Len(released))
      BY <1>0, <1>1 DEF LastReceipt
    <3>2. Len(trajectory) \in Nat /\ Len(released) \in Nat
      BY <1>0 DEF Types
    <3> QED
      BY <1>1, <1>3, <1>4, <2>1, <3>1, <3>2 DEF Remembers, ReceiptAt
  <2>2. CASE m # l
    <3>1. m \in Issued /\ leases'[m] = leases[m] /\ Remembers(m)
      BY <1>4, <1>5, <1>15, <2>2 DEF IInv
    <3> QED
      BY <1>1, <3>1 DEF Remembers, ReceiptAt
  <2> QED
    BY <2>1, <2>2
<1>16. ASSUME NEW m \in LeaseIds PROVE Accounted(m)' /\ InChain(m)' /\ Projected(m)'
  <2>1. CASE m = l
    <3>1. ran'[m] = 0 /\ NoReceipt(m)' /\ ~Succeeded(m)' /\ ~Ran(m)
      BY <1>1, <1>13, <1>14, <2>1 DEF Ran
    <3>2. Receipt(m, "SUCCEEDED") \notin objectiveReceipts
      <4>1. Receipt(m, "SUCCEEDED").lease = m
        BY DEF Receipt
      <4> QED
        BY <1>14, <2>1, <4>1 DEF NoReceipt
    <3> QED
      BY <1>1, <1>13, <3>1, <3>2 DEF Accounted, InChain, Projected
  <2>2. CASE m # l
    <3>1. leases'[m] = leases[m] /\ (m \in Issued' <=> m \in Issued)
      BY <1>4, <1>5, <2>2
    <3>2. Accounted(m) /\ InChain(m) /\ Projected(m)
      BY DEF IInv
    <3>3. Accounted(m)'
      BY <1>1, <1>9, <1>13, <3>1, <3>2 DEF Accounted, Quiet
    <3>4. InChain(m)'
      BY <1>1, <1>13, <3>1, <3>2 DEF InChain
    <3>5. Projected(m)'
      BY <1>1, <1>13, <3>1, <3>2, Zenon DEF Projected
    <3> QED
      BY <3>3, <3>4, <3>5
  <2> QED
    BY <2>1, <2>2
<1>17. Witnessed'
  <2>1. \A m \in Issued : m # l /\ leases'[m] = leases[m]
    BY <1>1, <1>4, <1>5
  <2> QED
    BY <1>1, <1>5, <1>13, <1>14, <2>1 DEF IInv, Witnessed
<1> QED
  BY <1>9, <1>10, <1>11, <1>12, <1>15, <1>16, <1>17 DEF IInv, Quiet
-----------------------------------------------------------------------------
(* A lease is consumed *)

\* A burned lease is otherwise what it was.
SameBut(m) ==
    /\ leases'[m].op = leases[m].op /\ leases'[m].head = leases[m].head
    /\ leases'[m].state = leases[m].state /\ leases'[m].releases = leases[m].releases

LEMMA BurnEffect ==
    ASSUME Types, NEW l \in Issued, Burn(l)
    PROVE  /\ leases' \in [LeaseIds -> Leases \cup {NoLease}] /\ Issued' = Issued
           /\ leases'[l].consumed /\ \A m \in LeaseIds : m # l => leases'[m] = leases[m]
           /\ \A m \in Issued : SameBut(m)
<1>1. l \in LeaseIds /\ leases[l] \in Leases
  BY IssuedLeases
<1>2. PICK n : n = [leases[l] EXCEPT !.consumed = TRUE]
  OBVIOUS
<1>3. /\ n \in Leases /\ n.consumed /\ n.op = leases[l].op /\ n.head = leases[l].head
      /\ n.state = leases[l].state /\ n.releases = leases[l].releases
  BY <1>1, <1>2 DEF Leases
<1>4. leases' = [leases EXCEPT ![l] = n]
  BY <1>2 DEF Burn
<1>5. /\ leases' \in [LeaseIds -> Leases \cup {NoLease}] /\ leases'[l] = n
      /\ \A m \in LeaseIds : m # l => leases'[m] = leases[m]
  BY <1>1, <1>3, <1>4 DEF Types
<1>6. Issued' = Issued
  BY <1>1, <1>3, <1>5, NoLeaseAssumption DEF Issued
<1>7. \A m \in Issued : SameBut(m)
  BY <1>3, <1>5 DEF SameBut, Issued
<1> QED
  BY <1>3, <1>5, <1>6, <1>7

\* What a record adds to the receipts of a broker
Adds(R, S, l, o) ==
    /\ R \subseteq S /\ S \subseteq Receipts
    /\ \A r \in S : r \in R \/ (o # "none" /\ r = Receipt(l, o))
    /\ o # "none" => Receipt(l, o) \in S

OfCausal(c) == IF causal THEN c ELSE "none"

LEMMA RecordEffect ==
    ASSUME Types, NEW l \in LeaseIds, NEW c \in Outcomes \cup {"none"}, NEW o \in Outcomes \cup {"none"},
           Record(l, c, o)
    PROVE  /\ Adds(causalReceipts, causalReceipts', l, OfCausal(c))
           /\ Adds(objectiveReceipts, objectiveReceipts', l, o)
<1>1. /\ c # "none" => Receipt(l, c) \in Receipts
      /\ o # "none" => Receipt(l, o) \in Receipts
  BY ReceiptFacts
<1> QED
  BY <1>1 DEF Record, Adds, Types, OfCausal

LEMMA AddsOthers ==
    ASSUME NEW R, NEW S, NEW l, NEW o, Adds(R, S, l, o), NEW m, m # l, NEW x
    PROVE  /\ (Receipt(m, x) \in S <=> Receipt(m, x) \in R)
           /\ ((\A r \in S : r.lease # m) <=> (\A r \in R : r.lease # m))
<1>1. Receipt(l, o).lease = l /\ Receipt(m, x).lease = m
  BY DEF Receipt
<1> QED
  BY <1>1 DEF Adds

LEMMA AddsOne ==
    ASSUME NEW R, NEW S, NEW l, NEW o, Adds(R, S, l, o),
           \A r \in R : r.lease # l, \A r, s \in R : r.lease = s.lease => r = s
    PROVE  \A r, s \in S : r.lease = s.lease => r = s
<1>1. Receipt(l, o).lease = l
  BY DEF Receipt
<1> QED
  BY <1>1 DEF Adds

\* The receipts of another lease stay.
LEMMA RecordOthers ==
    ASSUME NEW l, NEW c, NEW o, NEW m, m # l, causal' = causal,
           Adds(causalReceipts, causalReceipts', l, c),
           Adds(objectiveReceipts, objectiveReceipts', l, o)
    PROVE  /\ (NoReceipt(m)' <=> NoReceipt(m)) /\ (Closed(m)' <=> Closed(m))
           /\ (Succeeded(m)' <=> Succeeded(m))
           /\ (Receipt(m, "SUCCEEDED") \in objectiveReceipts' <=> Receipt(m, "SUCCEEDED") \in objectiveReceipts)
<1>1. ASSUME NEW x
      PROVE  /\ Receipt(m, x) \in causalReceipts' <=> Receipt(m, x) \in causalReceipts
             /\ (\A r \in causalReceipts' : r.lease # m) <=> (\A r \in causalReceipts : r.lease # m)
  BY AddsOthers
<1>2. ASSUME NEW x
      PROVE  /\ Receipt(m, x) \in objectiveReceipts' <=> Receipt(m, x) \in objectiveReceipts
             /\ (\A r \in objectiveReceipts' : r.lease # m) <=> (\A r \in objectiveReceipts : r.lease # m)
  BY AddsOthers
<1>3. NoReceipt(m)' <=> NoReceipt(m)
  <2>1. (\A r \in causalReceipts' : r.lease # m) <=> (\A r \in causalReceipts : r.lease # m)
    BY <1>1
  <2>2. (\A r \in objectiveReceipts' : r.lease # m) <=> (\A r \in objectiveReceipts : r.lease # m)
    BY <1>2
  <2> QED
    BY <2>1, <2>2 DEF NoReceipt
<1>4. (Closed(m)' <=> Closed(m)) /\ (Succeeded(m)' <=> Succeeded(m))
  BY <1>1, <1>2 DEF Closed, Succeeded
<1> QED
  BY <1>2, <1>3, <1>4

LEMMA RecordOne ==
    ASSUME OneReceipt, NEW l, NEW c, NEW o, NoReceipt(l),
           Adds(causalReceipts, causalReceipts', l, c),
           Adds(objectiveReceipts, objectiveReceipts', l, o)
    PROVE  OneReceipt'
<1>1. /\ \A r \in causalReceipts : r.lease # l
      /\ \A r \in objectiveReceipts : r.lease # l
      /\ \A r, s \in causalReceipts : r.lease = s.lease => r = s
      /\ \A r, s \in objectiveReceipts : r.lease = s.lease => r = s
  BY DEF NoReceipt, OneReceipt
<1>2. \A r, s \in causalReceipts' : r.lease = s.lease => r = s
  BY <1>1, AddsOne
<1>3. \A r, s \in objectiveReceipts' : r.lease = s.lease => r = s
  BY <1>1, AddsOne
<1> QED
  BY <1>2, <1>3 DEF OneReceipt

LEMMA NotRecorded ==
    ASSUME NEW l, NoReceipt(l), NEW x
    PROVE  Receipt(l, x) \notin causalReceipts /\ Receipt(l, x) \notin objectiveReceipts
<1>1. Receipt(l, x).lease = l
  BY DEF Receipt
<1> QED
  BY <1>1 DEF NoReceipt

\* What stays of the other leases when l is burned or recorded
LEMMA OtherLease ==
    ASSUME IInv, NEW l \in LeaseIds, NEW m \in LeaseIds, m # l, UNCHANGED <<causal, trajectory>>,
           leases'[m] = leases[m], Issued' = Issued, ran'[m] = ran[m],
           m \in Running => m \in Running',
           (NoReceipt(m)' <=> NoReceipt(m)) /\ (Closed(m)' <=> Closed(m)) /\ (Succeeded(m)' <=> Succeeded(m)),
           Receipt(m, "SUCCEEDED") \in objectiveReceipts' <=> Receipt(m, "SUCCEEDED") \in objectiveReceipts
    PROVE  Accounted(m)' /\ InChain(m)' /\ Projected(m)'
<1>1. Accounted(m) /\ InChain(m) /\ Projected(m)
  BY DEF IInv
<1>2. Ran(m)' <=> Ran(m)
  BY DEF Ran
<1>3. Accounted(m)'
  BY <1>1, <1>2 DEF Accounted
<1>4. InChain(m)'
  BY <1>1 DEF InChain
<1>5. Projected(m)'
  BY <1>1, <1>2, Zenon DEF Projected
<1> QED
  BY <1>3, <1>4, <1>5

LEMMA BurnsStep ==
    ASSUME IInv, NEW a \in Adapters, NEW l \in LeaseIds, Burns(a, l) PROVE IInv'
<1>0. Types /\ Fenced /\ LastReceipt /\ OneReceipt /\ Witnessed
  BY DEF IInv
<1>1. /\ fence = Nobody /\ pc[a] # "callback" /\ l \in Issued /\ ~leases[l].consumed
      /\ Burn(l) /\ Goto(a, "idle", Idle)
      /\ UNCHANGED <<causal, fence, reentered, observed, contained, evidence, trajectory, ran, released>>
  BY DEF Burns, ledgerVars, containmentVars
<1>2. PICK c \in {"NOT_EXECUTED", "FAILED", "none"}, o \in {"NOT_EXECUTED", "FAILED", "none"} : Record(l, c, o)
  BY DEF Burns
<1>3. /\ leases' \in [LeaseIds -> Leases \cup {NoLease}] /\ Issued' = Issued
      /\ leases'[l].consumed /\ \A m \in LeaseIds : m # l => leases'[m] = leases[m]
      /\ \A m \in Issued : SameBut(m)
  BY <1>0, <1>1, BurnEffect
<1>4. /\ Adds(causalReceipts, causalReceipts', l, OfCausal(c))
      /\ Adds(objectiveReceipts, objectiveReceipts', l, o)
  <2>1. c \in Outcomes \cup {"none"} /\ o \in Outcomes \cup {"none"}
    BY ReceiptFacts
  <2> QED
    BY <1>0, <1>2, <2>1, RecordEffect
<1>5. /\ pc' \in [Adapters -> Places] /\ arg' \in [Adapters -> Args]
      /\ pc'[a] = "idle" /\ arg'[a] = Idle
      /\ \A b \in Adapters : b # a => pc'[b] = pc[b] /\ arg'[b] = arg[b]
  BY <1>0, <1>1, IdleArg, GotoEffect DEF Places
<1>6. Quiet
  BY <1>0, <1>1, <1>5, StaysQuiet
<1>7. Types'
  BY <1>0, <1>1, <1>3, <1>4, <1>5 DEF Types, Adds
<1>8. Fenced'
  BY <1>0, <1>1, <1>5, <1>6, NobodyAssumption DEF Fenced, Quiet
<1>9. ran[l] = 0 /\ NoReceipt(l)
  BY <1>1 DEF IInv, Accounted
<1>10. LastReceipt' /\ OneReceipt'
  BY <1>0, <1>1, <1>4, <1>9, RecordOne DEF LastReceipt, ReceiptAt
<1>11. \A m \in Issued' : Remembers(m)'
  BY <1>1, <1>3 DEF IInv, Remembers, ReceiptAt, SameBut
<1>12. /\ ~Succeeded(l) /\ ~Succeeded(l)'
       /\ Receipt(l, "SUCCEEDED") \notin objectiveReceipts'
  <2>1. /\ Receipt(l, "SUCCEEDED") \notin causalReceipts /\ Receipt(l, "SUCCEEDED") \notin objectiveReceipts
    BY <1>9, NotRecorded
  <2>2. Receipt(l, OfCausal(c)) # Receipt(l, "SUCCEEDED") /\ Receipt(l, o) # Receipt(l, "SUCCEEDED")
    BY DEF Receipt, OfCausal
  <2> QED
    BY <1>4, <2>1, <2>2 DEF Adds, Succeeded
<1>13. ASSUME NEW m \in LeaseIds, m # l
       PROVE  /\ (NoReceipt(m)' <=> NoReceipt(m)) /\ (Closed(m)' <=> Closed(m)) /\ (Succeeded(m)' <=> Succeeded(m))
              /\ Receipt(m, "SUCCEEDED") \in objectiveReceipts' <=> Receipt(m, "SUCCEEDED") \in objectiveReceipts
  BY <1>1, <1>4, <1>13, RecordOthers
<1>14. ASSUME NEW m \in LeaseIds PROVE Accounted(m)' /\ InChain(m)' /\ Projected(m)'
  <2>1. CASE m = l
    <3>1. ran'[m] = 0 /\ ~Ran(m)'
      BY <1>1, <1>9, <2>1 DEF Ran
    <3> QED
      BY <1>1, <1>3, <1>12, <2>1, <3>1 DEF Accounted, InChain, Projected
  <2>2. CASE m # l
    BY <1>1, <1>3, <1>6, <1>13, <2>2, OtherLease DEF Quiet
  <2> QED
    BY <2>1, <2>2
<1>15. Witnessed'
  <2>1. \A m \in Issued : Succeeded(m)' <=> Succeeded(m)
    BY <1>12, <1>13 DEF Issued
  <2> QED
    BY <1>0, <1>1, <1>3, <2>1 DEF Witnessed, SameBut
<1> QED
  BY <1>6, <1>7, <1>8, <1>10, <1>11, <1>14, <1>15 DEF IInv, Quiet

\* Every layer burns its lease and the callback starts.
LEMMA StartStep ==
    ASSUME IInv, NEW a \in Adapters, NEW l \in LeaseIds, ConsumeStart(a, l) PROVE IInv'
<1>0. Types /\ Fenced /\ LastReceipt /\ OneReceipt /\ Witnessed
  BY DEF IInv
<1>1. /\ fence = Nobody /\ pc[a] # "callback" /\ l \in Issued /\ ~leases[l].consumed
      /\ TrajectoryMatches(l) /\ ObjectiveMatches(l) /\ Burn(l)
      /\ ran' = [ran EXCEPT ![l] = @ + 1] /\ fence' = a
      /\ Goto(a, "callback", [Idle EXCEPT !.op = leases[l].op, !.lease = l])
      /\ UNCHANGED <<causal, reentered, observed, contained, evidence, trajectory, released,
                     causalReceipts, objectiveReceipts>>
  BY FreeFence DEF ConsumeStart, Live, Presents, ledgerVars, containmentVars
<1>2. /\ leases' \in [LeaseIds -> Leases \cup {NoLease}] /\ Issued' = Issued
      /\ leases'[l].consumed /\ \A m \in LeaseIds : m # l => leases'[m] = leases[m]
      /\ \A m \in Issued : SameBut(m)
  BY <1>0, <1>1, BurnEffect
<1>3. ran[l] = 0 /\ NoReceipt(l)
  BY <1>1 DEF IInv, Accounted
<1>4. /\ ran' \in [LeaseIds -> Nat] /\ ran'[l] = 1
      /\ \A m \in LeaseIds : m # l => ran'[m] = ran[m]
  BY <1>0, <1>1, <1>3 DEF Types
<1>5. PICK what : what = [Idle EXCEPT !.op = leases[l].op, !.lease = l]
  OBVIOUS
<1>6. what \in Args /\ what.op = leases[l].op /\ what.op \in Operations /\ what.lease = l
  <2>1. l \in 0 .. MaxLease
    BY Bounds DEF LeaseIds
  <2>2. leases[l].op \in Operations
    BY <1>0, <1>1, HeadType
  <2> QED
    BY <1>5, <2>1, <2>2, IdleArg DEF Args
<1>7. /\ pc' \in [Adapters -> Places] /\ arg' \in [Adapters -> Args]
      /\ pc'[a] = "callback" /\ arg'[a] = what
      /\ \A b \in Adapters : b # a => pc'[b] = pc[b] /\ arg'[b] = arg[b]
  BY <1>0, <1>1, <1>5, <1>6, GotoEffect DEF Places
<1>8. Running = {} /\ \A b \in Adapters : pc[b] # "callback"
  BY <1>0, <1>1, NoCallback
<1>9. \A b \in Adapters : pc'[b] = "callback" <=> b = a
  BY <1>7, <1>8
<1>10. Running' = {l}
  BY <1>6, <1>7, <1>9 DEF Running
<1>11. Types'
  BY <1>0, <1>1, <1>2, <1>4, <1>7 DEF Types
<1>12. Fenced'
  <2>1. fence' # Nobody
    BY <1>1, NobodyAssumption
  <2>2. \A b \in Adapters : pc'[b] # "idle" => arg'[b].op \in Operations
    BY <1>0, <1>6, <1>7 DEF Fenced
  <2> QED
    BY <1>1, <1>2, <1>6, <1>7, <1>9, <2>1, <2>2 DEF Fenced
<1>13. LastReceipt' /\ OneReceipt'
  BY <1>0, <1>1 DEF LastReceipt, ReceiptAt, OneReceipt
<1>14. \A m \in Issued' : Remembers(m)'
  BY <1>1, <1>2 DEF IInv, Remembers, ReceiptAt, SameBut
<1>15. /\ \A m : (NoReceipt(m)' <=> NoReceipt(m)) /\ (Closed(m)' <=> Closed(m))
       /\ \A m : Succeeded(m)' <=> Succeeded(m)
  BY <1>1 DEF NoReceipt, Closed, Succeeded
<1>16. InCallback(a)'
  <2>1. leases'[l].state = ObjectiveState' /\ FloorAllows'
    BY <1>1, <1>2 DEF ObjectiveMatches, SameBut, ObjectiveState, FloorAllows
  <2>2. causal => leases'[l].head = LedgerHead'
    BY <1>1, <1>2 DEF TrajectoryMatches, SameBut, LedgerHead
  <2>3. arg'[a].lease = l /\ arg'[a].op = leases'[l].op
    BY <1>1, <1>2, <1>6, <1>7 DEF SameBut
  <2> QED
    BY <1>1, <1>2, <1>3, <1>4, <1>15, <2>1, <2>2, <2>3 DEF InCallback
<1>17. ASSUME NEW m \in LeaseIds PROVE Accounted(m)' /\ InChain(m)' /\ Projected(m)'
  <2>1. CASE m = l
    <3>1. /\ Receipt(l, "SUCCEEDED") \notin causalReceipts /\ Receipt(l, "SUCCEEDED") \notin objectiveReceipts
      BY <1>3, NotRecorded
    <3>2. Accounted(l)'
      BY <1>1, <1>2, <1>4, <1>10, <3>1 DEF Accounted
    <3>3. InChain(l)'
      BY <1>1, <3>1 DEF InChain, Succeeded
    <3>4. Projected(l)'
      <4>1. CASE causal
        <5>1. leases[l].head = Len(trajectory) /\ Decision(Append(trajectory, leases[l].op)) = "ALLOW"
          BY <1>1, <4>1 DEF TrajectoryMatches, ProjectedAllow, LedgerHead
        <5>2. SubSeq(trajectory, 1, Len(trajectory)) = trajectory
          BY <1>0, SubSeqFull DEF Types
        <5>3. Decision(Append(SubSeq(trajectory, 1, leases[l].head), leases[l].op)) = "ALLOW"
          BY <5>1, <5>2, Zenon
        <5>4. leases'[l].head = leases[l].head /\ leases'[l].op = leases[l].op /\ trajectory' = trajectory
          BY <1>1, <1>2 DEF SameBut
        <5> QED
          BY <5>3, <5>4, Zenon DEF Projected
      <4>2. CASE ~causal
        BY <1>1, <4>2 DEF Projected
      <4> QED
        BY <4>1, <4>2
    <3> QED
      BY <2>1, <3>2, <3>3, <3>4
  <2>2. CASE m # l
    BY <1>1, <1>2, <1>4, <1>8, <1>15, <2>2, OtherLease
  <2> QED
    BY <2>1, <2>2
<1>18. Witnessed'
  BY <1>0, <1>1, <1>2, <1>15 DEF Witnessed, SameBut
<1> QED
  BY <1>9, <1>11, <1>12, <1>13, <1>14, <1>16, <1>17, <1>18 DEF IInv
-----------------------------------------------------------------------------
(* A callback comes to its end *)

\* What the ends have in common: the fence is free and receipts are written.
Ended(a, c, o) ==
    /\ Record(arg[a].lease, c, o) /\ Release(a)
    /\ UNCHANGED <<causal, observed, contained, evidence, released, leases, ran>>

LEMMA EndCases ==
    ASSUME NEW a \in Adapters, Ends(a)
    PROVE  /\ pc[a] = "callback"
           /\ \/ Ended(a, "FAILED", "FAILED") /\ trajectory' = trajectory
              \/ /\ Ended(a, "SUCCEEDED", "SUCCEEDED") /\ ~causal /\ trajectory' = trajectory
              \/ /\ Ended(a, "SUCCEEDED", "SUCCEEDED") /\ causal /\ Appendable(arg[a].lease)
                 /\ trajectory' = Append(trajectory, arg[a].op)
              \/ /\ Ended(a, "EFFECT_SUCCEEDED_EVIDENCE_FAILED", "SUCCEEDED") /\ trajectory' = trajectory
  BY DEF Ends, CallbackFails, CallbackSucceeds, EvidenceFails, Ended, ledgerVars, containmentVars

\* What an end leaves: a free fence, and one receipt of each broker.
Settled(l, succeeded) ==
    /\ \A b \in Adapters : pc'[b] # "callback"
    /\ pc' \in [Adapters -> Places] /\ arg' \in [Adapters -> Args]
    /\ fence' = Nobody /\ reentered' = FALSE
    /\ causalReceipts' \subseteq Receipts /\ objectiveReceipts' \subseteq Receipts
    /\ Fenced' /\ OneReceipt' /\ LastReceipt'
    /\ \A m \in LeaseIds : Accounted(m)'
    /\ \A m \in LeaseIds : m # l => (Succeeded(m)' <=> Succeeded(m))
    /\ ~Succeeded(l) /\ (Succeeded(l)' <=> succeeded)

LEMMA EndSettles ==
    ASSUME IInv, NEW a \in Adapters, pc[a] = "callback", NEW c \in Outcomes, NEW o \in Outcomes,
           Ended(a, c, o), c = "FAILED" <=> o = "FAILED", NEW l, l = arg[a].lease,
           NEW succeeded, succeeded <=> (causal /\ c = "SUCCEEDED")
    PROVE  Settled(l, succeeded)
<1>0. Types /\ Fenced /\ LastReceipt /\ OneReceipt
  BY DEF IInv
<1>1. l \in Issued /\ l \in LeaseIds /\ fence = a
  BY <1>0 DEF Fenced, Issued
<1>2. InCallback(a)
  BY DEF IInv
<1>3. leases[l].consumed /\ ran[l] = 1 /\ NoReceipt(l)
  BY <1>2 DEF InCallback
<1>4. /\ Record(l, c, o) /\ fence' = Nobody /\ reentered' = FALSE /\ Goto(a, "idle", Idle)
      /\ UNCHANGED <<causal, observed, contained, evidence, released, leases, ran>>
  BY DEF Ended, Release
<1>5. /\ pc' \in [Adapters -> Places] /\ arg' \in [Adapters -> Args]
      /\ pc'[a] = "idle" /\ arg'[a] = Idle
      /\ \A b \in Adapters : b # a => pc'[b] = pc[b] /\ arg'[b] = arg[b]
  BY <1>0, <1>4, IdleArg, GotoEffect DEF Places
<1>6. \A b \in Adapters : pc[b] = "callback" <=> b = a
  BY <1>0, <1>1 DEF Fenced
<1>7. \A b \in Adapters : pc'[b] # "callback"
  BY <1>5, <1>6
<1>8. Running = {l} /\ Running' = {}
  BY <1>1, <1>6, <1>7 DEF Running
<1>9. /\ Adds(causalReceipts, causalReceipts', l, OfCausal(c))
      /\ Adds(objectiveReceipts, objectiveReceipts', l, o)
  BY <1>0, <1>1, <1>4, RecordEffect
<1>10. causalReceipts' \subseteq Receipts /\ objectiveReceipts' \subseteq Receipts
  BY <1>9 DEF Adds
<1>11. Issued' = Issued
  BY <1>4 DEF Issued
<1>12. Fenced'
  BY <1>0, <1>4, <1>5, <1>7, NobodyAssumption DEF Fenced
<1>13. OneReceipt'
  BY <1>0, <1>3, <1>9, RecordOne
<1>14. LastReceipt'
  BY <1>0, <1>4 DEF LastReceipt, ReceiptAt
<1>15. ASSUME NEW x \in Outcomes
       PROVE  /\ Receipt(l, x) \in objectiveReceipts' <=> x = o
              /\ Receipt(l, x) \in causalReceipts' <=> (causal /\ x = c)
  <2>1. Receipt(l, x) \notin causalReceipts /\ Receipt(l, x) \notin objectiveReceipts
    BY <1>3, NotRecorded
  <2>2. /\ x # "none" /\ c # "none" /\ o # "none"
        /\ \A y : Receipt(l, x) = Receipt(l, y) <=> x = y
    BY ReceiptFacts DEF Receipt
  <2>3. Receipt(l, x) \in objectiveReceipts' <=> x = o
    BY <1>9, <2>1, <2>2 DEF Adds
  <2>4. Receipt(l, x) \in causalReceipts' <=> (causal /\ x = c)
    BY <1>9, <2>1, <2>2 DEF Adds, OfCausal
  <2> QED
    BY <2>3, <2>4
<1>16. "FAILED" \in Outcomes /\ "SUCCEEDED" \in Outcomes
  BY DEF Outcomes
<1>17. ~Succeeded(l)
  BY <1>3, NotRecorded DEF Succeeded
<1>18. Succeeded(l)' <=> succeeded
  BY <1>15, <1>16 DEF Succeeded
<1>19. Closed(l)'
  <2>1. \E x \in Outcomes : Receipt(l, x) \in objectiveReceipts'
    BY <1>15
  <2>2. causal => \E x \in Outcomes : Receipt(l, x) \in causalReceipts'
    BY <1>15
  <2>3. causal => (Receipt(l, "FAILED") \in objectiveReceipts' <=> Receipt(l, "FAILED") \in causalReceipts')
    BY <1>15, <1>16
  <2> QED
    BY <1>4, <2>1, <2>2, <2>3 DEF Closed
<1>20. ASSUME NEW m \in LeaseIds, m # l
       PROVE  /\ (NoReceipt(m)' <=> NoReceipt(m)) /\ (Closed(m)' <=> Closed(m)) /\ (Succeeded(m)' <=> Succeeded(m))
              /\ Receipt(m, "SUCCEEDED") \in objectiveReceipts' <=> Receipt(m, "SUCCEEDED") \in objectiveReceipts
  BY <1>4, <1>9, <1>20, RecordOthers
<1>21. ASSUME NEW m \in LeaseIds PROVE Accounted(m)'
  <2>1. CASE m = l
    BY <1>1, <1>3, <1>4, <1>11, <1>19, <2>1 DEF Accounted, Ran
  <2>2. CASE m # l
    <3>1. Accounted(m)
      BY DEF IInv
    <3> QED
      BY <1>4, <1>8, <1>11, <1>20, <2>2, <3>1 DEF Accounted, Ran
  <2> QED
    BY <2>1, <2>2
<1> QED
  BY <1>4, <1>5, <1>7, <1>10, <1>12, <1>13, <1>14, <1>17, <1>18, <1>20, <1>21 DEF Settled

\* An end without a success of the causal broker leaves the chain alone.
LEMMA EndWithoutEvent ==
    ASSUME IInv, NEW a \in Adapters, pc[a] = "callback", NEW c, NEW o, Ended(a, c, o),
           NEW l, l = arg[a].lease, Settled(l, FALSE), trajectory' = trajectory
    PROVE  IInv'
<1>1. UNCHANGED <<causal, observed, contained, evidence, released, leases, ran, trajectory>>
  BY DEF Ended
<1>2. Issued' = Issued
  BY <1>1 DEF Issued
<1>3. \A m \in LeaseIds : Succeeded(m)' <=> Succeeded(m)
  BY DEF Settled
<1>4. Types'
  BY <1>1, NobodyAssumption DEF IInv, Types, Settled
<1>5. Witnessed'
  BY <1>1, <1>2, <1>3 DEF IInv, Witnessed, Issued
<1>6. \A m \in Issued' : Remembers(m)'
  BY <1>1, <1>2, RememberStays DEF IInv
<1>7. ASSUME NEW m \in LeaseIds PROVE InChain(m)' /\ Projected(m)'
  <2>1. InChain(m)'
    BY <1>1, <1>2, <1>3 DEF IInv, InChain
  <2>2. Projected(m)'
    <3>1. Projected(m)
      BY DEF IInv
    <3> QED
      BY <1>1, <3>1, Zenon DEF Projected, Ran
  <2> QED
    BY <2>1, <2>2
<1> QED
  BY <1>4, <1>5, <1>6, <1>7 DEF IInv, Settled

\* A success of the causal broker appends the event where the lease says.
LEMMA EndWithEvent ==
    ASSUME IInv, NEW a \in Adapters, pc[a] = "callback", NEW c, NEW o, Ended(a, c, o),
           NEW l, l = arg[a].lease, Settled(l, TRUE), Appendable(l),
           trajectory' = Append(trajectory, arg[a].op)
    PROVE  IInv'
<1>0. Types /\ Fenced /\ Witnessed
  BY DEF IInv
<1>1. UNCHANGED <<causal, observed, contained, evidence, released, leases, ran>>
  BY DEF Ended
<1>2. Issued' = Issued
  BY <1>1 DEF Issued
<1>3. PICK e : e = arg[a].op
  OBVIOUS
<1>4. l \in Issued /\ l \in LeaseIds /\ e = leases[l].op /\ e \in Operations
  BY <1>0, <1>3 DEF IInv, InCallback, Fenced, Issued
<1>5. leases[l].head = Len(trajectory) /\ Len(trajectory) < MaxEvents /\ e.id \notin Ids
  BY <1>3, <1>4 DEF Appendable, LedgerHead
<1>6. Grown(e) /\ trajectory' = Append(trajectory, e)
  BY <1>0, <1>3, <1>4, ChainGrows
<1>7. \A k \in DOMAIN trajectory : trajectory[k] # e
  BY <1>0, <1>4, <1>5, FreshEvent
<1>8. /\ ~Succeeded(l) /\ Succeeded(l)'
      /\ \A m \in LeaseIds : m # l => (Succeeded(m)' <=> Succeeded(m))
  BY <1>3 DEF Settled
<1>9. Types'
  <2>1. Len(trajectory') <= MaxEvents
    BY <1>5, <1>6, Bounds DEF Grown
  <2> QED
    BY <1>0, <1>1, <1>6, <2>1 DEF Types, Settled, Grown
<1>10. \A m \in Issued' : Remembers(m)'
  <2> SUFFICES ASSUME NEW m \in Issued PROVE Remembers(m)'
    BY <1>2
  <2>1. Remembers(m) /\ leases[m].head \in Nat
    BY <1>0, HeadType DEF IInv
  <2> QED
    BY <1>1, <1>6, <2>1 DEF Remembers, ReceiptAt, Grown
<1>11. ASSUME NEW m \in LeaseIds, Succeeded(m)
       PROVE  /\ m \in Issued /\ leases[m].head + 1 \in DOMAIN trajectory
              /\ trajectory[leases[m].head + 1] = leases[m].op
  <2>1. m \in Issued /\ Len(trajectory) > leases[m].head /\ trajectory[leases[m].head + 1] = leases[m].op
    BY <1>11 DEF IInv, InChain
  <2>2. leases[m].head \in Nat
    BY <1>0, <2>1, HeadType
  <2> QED
    BY <1>6, <2>1, <2>2 DEF Grown
<1>12. \A m \in LeaseIds : Succeeded(m) => leases[m].op # e
  BY <1>7, <1>11
<1>13. Witnessed'
  <2>1. ASSUME NEW k \in DOMAIN trajectory', trajectory'[k] \in Operations
        PROVE  \E m \in Issued : leases[m].op = trajectory'[k] /\ Succeeded(m)'
    <3>1. CASE k \in DOMAIN trajectory
      <4>1. trajectory'[k] = trajectory[k]
        BY <1>6, <3>1 DEF Grown
      <4>2. PICK m \in Issued : leases[m].op = trajectory[k] /\ Succeeded(m)
        BY <1>0, <2>1, <3>1, <4>1 DEF Witnessed
      <4>3. Succeeded(m)'
        BY <1>8, <4>2 DEF Issued
      <4> QED
        BY <4>1, <4>2, <4>3
    <3>2. CASE k \notin DOMAIN trajectory
      <4>1. trajectory'[k] = e
        BY <1>6, <2>1, <3>2 DEF Grown
      <4> QED
        BY <1>4, <1>8, <4>1
    <3> QED
      BY <3>1, <3>2
  <2>2. ASSUME NEW i \in Issued, NEW j \in Issued, Succeeded(i)', Succeeded(j)', leases[i].op = leases[j].op
        PROVE  i = j
    <3>1. i \in LeaseIds /\ j \in LeaseIds
      BY DEF Issued
    <3>2. (i = l \/ Succeeded(i)) /\ (j = l \/ Succeeded(j))
      BY <1>8, <2>2, <3>1
    <3> QED
      BY <1>0, <1>4, <1>12, <2>2, <3>1, <3>2 DEF Witnessed
  <2> QED
    BY <1>1, <1>2, <2>1, <2>2 DEF Witnessed
<1>14. ASSUME NEW m \in LeaseIds PROVE InChain(m)'
  <2>1. CASE m = l
    BY <1>1, <1>2, <1>4, <1>5, <1>6, <2>1 DEF InChain, Grown
  <2>2. CASE m # l
    BY <1>1, <1>6, <1>8, <2>2, InChainKept DEF InChain
  <2> QED
    BY <2>1, <2>2
<1>15. ASSUME NEW m \in LeaseIds PROVE Projected(m)'
  <2>1. Ran(m) => m \in Issued
    BY DEF IInv, Accounted, Ran
  <2>2. ASSUME Ran(m) PROVE SubSeq(trajectory', 1, leases[m].head) = SubSeq(trajectory, 1, leases[m].head)
    BY <1>4, <1>6, <2>1, <2>2, ProjectionKept
  <2>3. causal /\ Ran(m) => Decision(Append(SubSeq(trajectory, 1, leases[m].head), leases[m].op)) = "ALLOW"
    BY DEF IInv, Projected
  <2>4. (Ran(m)' <=> Ran(m)) /\ causal' = causal /\ leases' = leases
    BY <1>1 DEF Ran
  <2> QED
    BY <2>2, <2>3, <2>4, Zenon DEF Projected
<1> QED
  BY <1>9, <1>10, <1>13, <1>14, <1>15 DEF IInv, Settled

LEMMA EndsStep ==
    ASSUME IInv, NEW a \in Adapters, Ends(a) PROVE IInv'
<1>1. pc[a] = "callback"
  BY EndCases
<1>2. PICK l : l = arg[a].lease
  OBVIOUS
<1>3. {"FAILED", "SUCCEEDED", "EFFECT_SUCCEEDED_EVIDENCE_FAILED"} \subseteq Outcomes
  BY DEF Outcomes
<1>4. CASE Ended(a, "FAILED", "FAILED") /\ trajectory' = trajectory
  <2>1. Settled(l, FALSE)
    BY <1>1, <1>2, <1>3, <1>4, EndSettles
  <2> QED
    BY <1>1, <1>2, <1>4, <2>1, EndWithoutEvent
<1>5. CASE Ended(a, "SUCCEEDED", "SUCCEEDED") /\ ~causal /\ trajectory' = trajectory
  <2>1. Settled(l, FALSE)
    BY <1>1, <1>2, <1>3, <1>5, EndSettles
  <2> QED
    BY <1>1, <1>2, <1>5, <2>1, EndWithoutEvent
<1>6. CASE /\ Ended(a, "SUCCEEDED", "SUCCEEDED") /\ causal /\ Appendable(arg[a].lease)
           /\ trajectory' = Append(trajectory, arg[a].op)
  <2>1. Settled(l, TRUE)
    BY <1>1, <1>2, <1>3, <1>6, EndSettles
  <2> QED
    BY <1>1, <1>2, <1>6, <2>1, EndWithEvent
<1>7. CASE Ended(a, "EFFECT_SUCCEEDED_EVIDENCE_FAILED", "SUCCEEDED") /\ trajectory' = trajectory
  <2>1. Settled(l, FALSE)
    BY <1>1, <1>2, <1>3, <1>7, EndSettles
  <2> QED
    BY <1>1, <1>2, <1>7, <2>1, EndWithoutEvent
<1> QED
  BY <1>4, <1>5, <1>6, <1>7, EndCases
-----------------------------------------------------------------------------
(* The theorems *)

LEMMA Inductive ==
    ASSUME IInv, [Next]_vars PROVE IInv'
<1>1. Action
  BY NextCases
<1> QED
  BY <1>1, IngestStep, AppendStep, EnterStep, ExitStep, StutterStep, WalksStep, EndsStep, IssueStep,
     BurnsStep, StartStep DEF Action

LEMMA Initially ==
    ASSUME Init PROVE IInv
<1>1. /\ causal \in BOOLEAN /\ fence = Nobody /\ reentered = FALSE
      /\ observed = 0 /\ contained = FALSE /\ evidence = "none" /\ trajectory = <<>>
      /\ leases = [l \in LeaseIds |-> NoLease]
      /\ causalReceipts = {} /\ objectiveReceipts = {}
      /\ ran = [l \in LeaseIds |-> 0] /\ released = <<>>
      /\ pc = [a \in Adapters |-> "idle"] /\ arg = [a \in Adapters |-> Idle]
  BY DEF Init
<1>2. Issued = {}
  BY <1>1 DEF Issued
<1>3. Types
  <2>1. /\ trajectory \in Seq(Operations \cup HostEvents) /\ Len(trajectory) = 0 /\ DOMAIN trajectory = {}
        /\ released \in Seq(Releases) /\ Len(released) = 0
    BY <1>1
  <2>2. arg \in [Adapters -> Args] /\ pc \in [Adapters -> Places]
    BY <1>1, IdleArg DEF Places
  <2>3. leases \in [LeaseIds -> Leases \cup {NoLease}] /\ ran \in [LeaseIds -> Nat]
    BY <1>1
  <2>4. /\ observed \in 0 .. MaxObserved /\ Len(trajectory) <= MaxEvents /\ Len(released) <= MaxRelease
        /\ evidence \in Evidence
    BY <1>1, <2>1, Bounds DEF Evidence
  <2> QED
    BY <1>1, <2>1, <2>2, <2>3, <2>4 DEF Types
<1>4. \A a \in Adapters : pc[a] = "idle"
  BY <1>1
<1>5. Fenced
  BY <1>1, <1>4, NobodyAssumption DEF Fenced
<1>6. LastReceipt /\ OneReceipt
  BY <1>1 DEF LastReceipt, ReceiptAt, OneReceipt
<1>7. Witnessed
  BY <1>1, <1>2 DEF Witnessed
<1>8. ASSUME NEW l \in LeaseIds PROVE Accounted(l) /\ InChain(l) /\ Projected(l)
  <2>1. ran[l] = 0
    BY <1>1
  <2> QED
    BY <1>1, <2>1 DEF Accounted, InChain, Projected, Ran, NoReceipt, Succeeded
<1> QED
  BY <1>2, <1>3, <1>4, <1>5, <1>6, <1>7, <1>8 DEF IInv

LEMMA Single ==
    ASSUME NEW S, NEW x, x \in S, \A y \in S : y = x
    PROVE  Cardinality(S) = 1
<1>1. S = {x}
  OBVIOUS
<1>2. Cardinality({x}) = 1
  BY FS_Singleton
<1> QED
  BY <1>1, <1>2

LEMMA ImpliesType ==
    ASSUME IInv PROVE TypeOK
<1>1. Types /\ Fenced
  BY DEF IInv
<1>2. \A k \in DOMAIN trajectory : trajectory[k] \in Operations \cup HostEvents
  BY <1>1 DEF Types
<1>3. \A l \in Issued : leases[l] \in Leases
  BY <1>1, IssuedLeases
<1> QED
  BY <1>1, <1>2, <1>3 DEF TypeOK, Types, Fenced, Places

LEMMA ImpliesBound ==
    ASSUME IInv PROVE EffectInBoundState
<1> SUFFICES ASSUME NEW l \in Running, ~reentered
             PROVE  /\ leases[l].state = ObjectiveState /\ FloorAllows
                    /\ causal => leases[l].head = LedgerHead
                    /\ \/ Len(released) = leases[l].releases
                       \/ /\ leases[l].releases > 0
                          /\ released[leases[l].releases] = released[Len(released)]
  BY DEF EffectInBoundState
<1>0. Types /\ Fenced /\ LastReceipt
  BY DEF IInv
<1>1. PICK a \in Adapters : pc[a] = "callback" /\ arg[a].lease = l
  BY DEF Running
<1>2. /\ leases[l].state = ObjectiveState /\ FloorAllows
      /\ causal => leases[l].head = LedgerHead
  BY <1>1 DEF IInv, InCallback
<1>3. l \in Issued
  BY <1>0, <1>1 DEF Fenced
<1>4. PICK n : n = leases[l].releases
  OBVIOUS
<1>5. n \in Nat /\ n <= Len(released) /\ leases[l].state.evidence = ReceiptAt(n) /\ Len(released) \in Nat
  BY <1>0, <1>3, <1>4, HeadType DEF IInv, Remembers, Types
<1>6. leases[l].state.evidence = evidence /\ ~contained
  BY <1>2 DEF ObjectiveState, FloorAllows
<1>7. ReceiptAt(n) = ReceiptAt(Len(released))
  BY <1>0, <1>5, <1>6 DEF LastReceipt
<1>8. \A k \in 1 .. Len(released) : released[k] # "none"
  BY <1>0, KindsAssumption DEF Types
<1>9. Len(released) = n \/ (n > 0 /\ released[n] = released[Len(released)])
  BY <1>5, <1>7, <1>8 DEF ReceiptAt
<1> QED
  BY <1>2, <1>4, <1>9

LEMMA ImpliesAllowed ==
    ASSUME IInv PROVE EffectsKeepTrajectoryAllowed
<1>1. \A l \in LeaseIds : Projected(l)
  BY DEF IInv
<1> QED
  BY <1>1, Zenon DEF Projected, EffectsKeepTrajectoryAllowed

LEMMA ImpliesEvidence ==
    ASSUME IInv PROVE EvidenceMatchesEffects
<1>0. Types /\ OneReceipt /\ Witnessed /\ \A l \in LeaseIds : Accounted(l) /\ InChain(l)
  BY DEF IInv
<1>1. ASSUME NEW l \in LeaseIds, Receipt(l, "SUCCEEDED") \in causalReceipts
      PROVE  LedgerHead > leases[l].head /\ trajectory[leases[l].head + 1] = leases[l].op
  BY <1>0, <1>1 DEF InChain, Succeeded, LedgerHead
<1>2. ASSUME NEW k \in DOMAIN trajectory, trajectory[k] \in Operations
      PROVE  Cardinality({l \in Issued : /\ leases[l].op = trajectory[k]
                                         /\ Receipt(l, "SUCCEEDED") \in causalReceipts}) = 1
  <2>1. PICK S : S = {l \in Issued : /\ leases[l].op = trajectory[k]
                                     /\ Receipt(l, "SUCCEEDED") \in causalReceipts}
    OBVIOUS
  <2>2. PICK l \in Issued : leases[l].op = trajectory[k] /\ Succeeded(l)
    BY <1>0, <1>2 DEF Witnessed
  <2>3. l \in S /\ \A m \in S : m = l
    BY <1>0, <2>1, <2>2 DEF Witnessed, Succeeded
  <2>4. Cardinality(S) = 1
    BY <2>3, Single
  <2> QED
    BY <2>1, <2>4
<1>3. ASSUME NEW l \in Issued, NEW R, R \subseteq Receipts, \A r, s \in R : r.lease = s.lease => r = s,
             NEW o, Receipt(l, o) \in R
      PROVE  Cardinality({r \in R : r.lease = l}) = 1
  <2>1. PICK S : S = {r \in R : r.lease = l}
    OBVIOUS
  <2>2. Receipt(l, o).lease = l
    BY DEF Receipt
  <2>3. Receipt(l, o) \in S /\ \A s \in S : s = Receipt(l, o)
    BY <1>3, <2>1, <2>2
  <2>4. Cardinality(S) = 1
    BY <2>3, Single
  <2> QED
    BY <2>1, <2>4
<1>4. ASSUME NEW l \in LeaseIds, NEW R, R \subseteq Receipts, NEW x \in Outcomes
      PROVE  x \in {q.outcome : q \in {r \in R : r.lease = l}} <=> Receipt(l, x) \in R
  BY <1>4, ReceiptFacts
<1>5. ASSUME NEW l \in Issued
      PROVE  /\ ran[l] <= 1
             /\ Ran(l) /\ l \notin Running =>
                  /\ Cardinality({r \in objectiveReceipts : r.lease = l}) = 1
                  /\ causal => Cardinality({r \in causalReceipts : r.lease = l}) = 1
                  /\ causal => ("FAILED" \in {q.outcome : q \in {r \in objectiveReceipts : r.lease = l}}
                                <=> "FAILED" \in {q.outcome : q \in {r \in causalReceipts : r.lease = l}})
             /\ "SUCCEEDED" \in {q.outcome : q \in {r \in objectiveReceipts : r.lease = l}} => Ran(l)
  <2>1. /\ l \in LeaseIds /\ Accounted(l) /\ "FAILED" \in Outcomes /\ "SUCCEEDED" \in Outcomes
        /\ causalReceipts \subseteq Receipts /\ objectiveReceipts \subseteq Receipts
        /\ \A r, s \in causalReceipts : r.lease = s.lease => r = s
        /\ \A r, s \in objectiveReceipts : r.lease = s.lease => r = s
    BY <1>0 DEF Issued, Outcomes, Types, OneReceipt
  <2>2. /\ "FAILED" \in {q.outcome : q \in {r \in objectiveReceipts : r.lease = l}} <=> Receipt(l, "FAILED") \in objectiveReceipts
        /\ "FAILED" \in {q.outcome : q \in {r \in causalReceipts : r.lease = l}} <=> Receipt(l, "FAILED") \in causalReceipts
        /\ "SUCCEEDED" \in {q.outcome : q \in {r \in objectiveReceipts : r.lease = l}} <=> Receipt(l, "SUCCEEDED") \in objectiveReceipts
    BY <1>4, <2>1
  <2>3. ASSUME Ran(l), l \notin Running PROVE Closed(l)
    BY <2>1, <2>3 DEF Accounted
  <2>4. ASSUME Ran(l), l \notin Running PROVE Cardinality({r \in objectiveReceipts : r.lease = l}) = 1
    <3>1. PICK o \in Outcomes : Receipt(l, o) \in objectiveReceipts
      BY <2>3, <2>4 DEF Closed
    <3> QED
      BY <1>3, <2>1, <3>1
  <2>5. ASSUME Ran(l), l \notin Running, causal PROVE Cardinality({r \in causalReceipts : r.lease = l}) = 1
    <3>1. PICK o \in Outcomes : Receipt(l, o) \in causalReceipts
      BY <2>3, <2>5 DEF Closed
    <3> QED
      BY <1>3, <2>1, <3>1
  <2>6. ASSUME Ran(l), l \notin Running, causal
        PROVE  Receipt(l, "FAILED") \in objectiveReceipts <=> Receipt(l, "FAILED") \in causalReceipts
    BY <2>3, <2>6 DEF Closed
  <2>7. ran[l] <= 1 /\ (Receipt(l, "SUCCEEDED") \in objectiveReceipts => Ran(l))
    BY <2>1 DEF Accounted
  <2> QED
    BY <2>2, <2>4, <2>5, <2>6, <2>7
<1> QED
  BY <1>1, <1>2, <1>5 DEF EvidenceMatchesEffects

\* Who holds the fence, what a lease remembers, what a running effect may rely on
\* and what it leaves behind hold in every state.
THEOREM Invariance == Spec => []IInv
<1>1. Init => IInv
  BY Initially
<1>2. IInv /\ [Next]_vars => IInv'
  BY Inductive
<1> QED
  BY <1>1, <1>2, PTL DEF Spec

\* The variables keep their types, and the fence is held exactly by the thread
\* whose callback runs.
THEOREM TypeCorrect == Spec => []TypeOK
  BY Invariance, ImpliesType, PTL

\* EffectInBoundState for every number of adapters, leases, observations and
\* releases: under the fence of the two brokers an effect runs in the objective
\* state, and on the trajectory, its lease was issued for.
THEOREM EffectsInTheirState == Spec => []EffectInBoundState
  BY Invariance, ImpliesBound, PTL

\* EffectsKeepTrajectoryAllowed, however analyze_trajectory decides: the second
\* projection at consumption is what makes it true.
THEOREM TrajectoryStaysAllowed == Spec => []EffectsKeepTrajectoryAllowed
  BY Invariance, ImpliesAllowed, PTL

\* EvidenceMatchesEffects: the receipts of the two brokers and the chain of the
\* trajectory ledger tell of every effect, once.
THEOREM EvidenceTells == Spec => []EvidenceMatchesEffects
  BY Invariance, ImpliesEvidence, PTL

==============================================================================

------------------------- MODULE MediatedEffects_proofs -------------------------
(***************************************************************************)
(* Proofs about MediatedEffects, for every set of calls and threads, every *)
(* budget, expiry, lease time and number of containments.                  *)
(*                                                                         *)
(* The inductive invariant has one part for each part of the system.  None *)
(* of the properties is inductive alone: that a lease has at most one      *)
(* effect rests on which threads are past its consumption (CredInv,        *)
(* FileInv), that an install is told truly on what its receipts say of the *)
(* call in hand (InstallInv), and that charges cover effects on the charge *)
(* already made for the hop or the run in hand (ProcPaid, NetPaid).        *)
(***************************************************************************)
EXTENDS MediatedEffects, FiniteSetTheorems, TLAPS

CapType ==
    /\ now \in Nat
    /\ status \in [Types -> {"none", "active", "revoked", "expired"}]
    /\ uses \in [Types -> Nat] /\ reliedAt \in [Types -> Nat]
    /\ contained \in [Gates -> BOOLEAN] /\ incidents \in [Gates -> Nat]
    /\ effects \in [EffectTypes -> [Calls -> Nat]]
    /\ part \in Parts /\ inFlight \in [EffectTypes -> SUBSET Calls]

CredType ==
    /\ credSeen \subseteq Calls
    /\ credLease \in [Calls -> [state : {"none", "issued", "consumed"}, issued : Nat, expires : Nat]]
    /\ injector \in [Threads -> [pc : {"idle", "leased", "consumed"}, call : Calls \cup {NoCall}]]
    /\ \A t \in Threads : injector[t].pc # "idle" => injector[t].call \in Calls
    /\ credReceipts \subseteq [call : Calls, decision : {"ALLOW", "BLOCK"},
                               outcome : {"SUCCEEDED", "FAILED", "NOT_INJECTED"}]

ReplacerPcs == {"idle", "taken", "compared", "written", "checked", "renamed"}

FileType ==
    /\ fileSeen \subseteq Calls
    /\ fileLease \in [Calls -> [state : {"none", "issued", "consumed"}, expected : Contents,
                                desired : Contents, issued : Nat, expires : Nat]]
    /\ target \in Contents /\ version \in Nat /\ temps \subseteq Calls
    /\ replacer \in [Threads -> [pc : ReplacerPcs, call : Calls \cup {NoCall}, seen : Nat]]
    /\ \A t \in Threads : replacer[t].pc # "idle" => replacer[t].call \in Calls
    /\ fileReceipts \subseteq [call : Calls, outcome : {"SUCCEEDED", "FAILED"}]
    /\ renames \subseteq [call : Calls, replaced : Contents, at : Nat, checked : Nat]

RuntimeType ==
    /\ runtime \in [pc : {"idle", "hop", "send", "gate", "run"}, call : Calls \cup {NoCall},
                    at : Nat, url : Urls \cup {BadUrl}, https : BOOLEAN, hop : Nat]
    /\ runtime.pc # "idle" => runtime.call \in Calls
    /\ installSeen \subseteq Calls
    /\ installs \subseteq [call : Calls, package : {"ALLOW", "BLOCK"},
                           process : {"ALLOW", "BLOCK", "NOT_REQUESTED"},
                           outcome : {"SUCCEEDED", "FAILED", "NOT_EXECUTED"}]

TypeOK == CapType /\ CredType /\ FileType /\ RuntimeType

\* A lease is issued for a call once, and one thread at most is past its
\* consumption; the injection has happened only when that thread has left.
CredInv ==
    /\ \A c \in Calls : credLease[c].state # "none" => c \in credSeen
    /\ \A c \in Calls : effects["credential.access"][c] > 0 =>
         /\ credLease[c].state = "consumed" /\ effects["credential.access"][c] = 1
         /\ \E r \in credReceipts : r.call = c /\ r.decision = "ALLOW"
    /\ \A t \in Threads : injector[t].pc = "consumed" =>
         /\ credLease[injector[t].call].state = "consumed"
         /\ effects["credential.access"][injector[t].call] = 0
         /\ \A u \in Threads : injector[u].pc = "consumed" /\ injector[u].call = injector[t].call => u = t
    /\ \A r \in credReceipts : r.outcome = "SUCCEEDED" => effects["credential.access"][r.call] = 1

\* The same for a replacement, which a receipt ends.
Replacing(t) ==
    /\ fileLease[replacer[t].call].state = "consumed"
    /\ effects["filesystem.write"][replacer[t].call] = IF replacer[t].pc = "renamed" THEN 1 ELSE 0
    /\ replacer[t].pc = "renamed" => replacer[t].call \notin temps
    /\ \A r \in fileReceipts : r.call # replacer[t].call
    /\ \A u \in Threads : replacer[u].pc # "idle" /\ replacer[u].call = replacer[t].call => u = t

FileEnded(r) ==
    /\ fileLease[r.call].state = "consumed"
    /\ r.outcome = "SUCCEEDED" => /\ effects["filesystem.write"][r.call] = 1
                                  /\ r.call \notin temps
                                  /\ [r EXCEPT !.outcome = "FAILED"] \notin fileReceipts

Replaced(c) ==
    /\ fileLease[c].state = "consumed" /\ effects["filesystem.write"][c] = 1
    /\ (\E t \in Threads : replacer[t].pc # "idle" /\ replacer[t].call = c) \/ \E r \in fileReceipts : r.call = c

FileInv ==
    /\ \A c \in Calls : fileLease[c].state # "none" => c \in fileSeen
    /\ \A c \in Calls : effects["filesystem.write"][c] > 0 => Replaced(c)
    /\ \A t \in Threads : replacer[t].pc # "idle" => Replacing(t)
    /\ \A r \in fileReceipts : FileEnded(r)

\* A thread that has looked twice has seen the expected content at the
\* version it remembers.
Looked(t) ==
    /\ replacer[t].seen <= version
    /\ replacer[t].seen = version => target = fileLease[replacer[t].call].expected

RenameOK(w) ==
    /\ fileLease[w.call].state = "consumed"
    /\ w.replaced = fileLease[w.call].expected \/ w.at > w.checked

LookInv ==
    /\ \A t \in Threads : replacer[t].pc = "checked" => Looked(t)
    /\ \A w \in renames : RenameOK(w)

\* A call is installed once, and its receipt is written when it ends.
InstallInv ==
    /\ \A c \in Calls : effects["process.execute"][c] > 0 =>
         c \in installSeen /\ effects["process.execute"][c] = 1
    /\ runtime.pc \in {"gate", "run"} =>
         /\ runtime.call \in installSeen
         /\ effects["process.execute"][runtime.call] = 0
         /\ \A r \in installs : r.call = runtime.call => r.process = "NOT_REQUESTED"
    /\ \A r \in installs :
         /\ r.process # "NOT_REQUESTED" => r.call \in installSeen
         /\ r.process = "BLOCK" => effects["process.execute"][r.call] = 0
         /\ r.outcome = "SUCCEEDED" =>
              r.process = "ALLOW" /\ effects["process.execute"][r.call] = 1

\* Charges are made before what they pay for: by a lease, or for the hop or
\* the run in hand.
PaidBy(lease) == {c \in Calls : lease[c].state # "none"} \X {1}

CredPaid == IsFiniteSet(PaidBy(credLease)) /\ Cardinality(PaidBy(credLease)) <= uses["credential.access"]
FilePaid == IsFiniteSet(PaidBy(fileLease)) /\ Cardinality(PaidBy(fileLease)) <= uses["filesystem.write"]

Owed(pc) == IF runtime.pc = pc THEN 1 ELSE 0

ProcPaid ==
    /\ IsFiniteSet(UnitsOf(effects["process.execute"]))
    /\ Cardinality(UnitsOf(effects["process.execute"])) + Owed("run") <= uses["process.execute"]

NetPaid ==
    /\ IsFiniteSet(UnitsOf(effects["network.connect"]))
    /\ Cardinality(UnitsOf(effects["network.connect"])) + Owed("send") <= uses["network.connect"]

Budgets == \A k \in Types : uses[k] <= MaxUses[k]

\* Whoever is past a closed gate was past it when it closed.
CredGate == contained["credential broker"] => CredentialsInFlight \subseteq inFlight["credential.access"]
FileGate == contained["file broker"] => FilesInFlight \subseteq inFlight["filesystem.write"]
NetGate == contained["mediator"] /\ runtime.pc \in {"hop", "send"} => runtime.call \in inFlight["network.connect"]
ProcGate == contained["mediator"] /\ runtime.pc = "run" => runtime.call \in inFlight["process.execute"]

Core == CapType /\ Budgets /\ BackdatingGainsNothing
CredAll == CredType /\ CredInv /\ CredPaid /\ CredGate
FileAll == FileType /\ FileInv /\ LookInv /\ FilePaid /\ FileGate
RunAll == RuntimeType /\ InstallInv /\ ProcPaid /\ NetPaid /\ NetGate /\ ProcGate

IInv == Core /\ CredAll /\ FileAll /\ RunAll

(* ------------------------- the shared authority ------------------------- *)

LEMMA OneMore ==
    ASSUME NEW S, NEW T, NEW x, IsFiniteSet(S), x \notin S, T = S \cup {x}
    PROVE  IsFiniteSet(T) /\ Cardinality(T) = Cardinality(S) + 1
BY FS_AddElement

LEMMA NoneYet ==
    ASSUME NEW S, S = {}
    PROVE  IsFiniteSet(S) /\ Cardinality(S) = 0
BY FS_EmptySet

\* One more effect of a call is one more unit.
LEMMA UnitsGrow ==
    ASSUME NEW e \in [Calls -> Nat], NEW c \in Calls, IsFiniteSet(UnitsOf(e)),
           NEW f, f = [e EXCEPT ![c] = @ + 1]
    PROVE  IsFiniteSet(UnitsOf(f)) /\ Cardinality(UnitsOf(f)) = Cardinality(UnitsOf(e)) + 1
<1>1. f \in [Calls -> Nat] /\ f[c] = e[c] + 1 /\ \A d \in Calls \ {c} : f[d] = e[d]
  OBVIOUS
<1>2. ASSUME NEW g \in [Calls -> Nat]
      PROVE  \A x : x \in UnitsOf(g) <=> \E d \in Calls, n \in Nat : x = <<d, n>> /\ 1 <= n /\ n <= g[d]
  <2>1. \A x : x \in UnitsOf(g) <=> \E d \in Calls : x \in {d} \X (1 .. g[d])
    BY Zenon DEF UnitsOf
  <2>2. ASSUME NEW x, NEW d \in Calls
        PROVE  x \in {d} \X (1 .. g[d]) <=> \E n \in Nat : x = <<d, n>> /\ 1 <= n /\ n <= g[d]
    BY <1>2
  <2> QED
    BY <2>1, <2>2, Zenon
<1>3. <<c, e[c] + 1>> \notin UnitsOf(e)
  BY <1>2
<1>4. UnitsOf(f) = UnitsOf(e) \cup {<<c, e[c] + 1>>}
  <2>1. ASSUME NEW x \in UnitsOf(f) PROVE x \in UnitsOf(e) \cup {<<c, e[c] + 1>>}
    <3>1. PICK d \in Calls, n \in Nat : x = <<d, n>> /\ 1 <= n /\ n <= f[d]
      BY <2>1, <1>1, <1>2
    <3>2. CASE d = c /\ n = e[c] + 1
      BY <3>1, <3>2
    <3>3. CASE ~(d = c /\ n = e[c] + 1)
      <4>1. n <= e[d]
        BY <3>1, <3>3, <1>1
      <4> QED
        BY <4>1, <3>1, <1>2
    <3> QED
      BY <3>2, <3>3
  <2>2. ASSUME NEW x \in UnitsOf(e) PROVE x \in UnitsOf(f)
    <3>1. PICK d \in Calls, n \in Nat : x = <<d, n>> /\ 1 <= n /\ n <= e[d]
      BY <2>2, <1>2
    <3>2. n <= f[d]
      BY <3>1, <1>1
    <3> QED
      BY <3>1, <3>2, <1>1, <1>2
  <2>3. <<c, e[c] + 1>> \in UnitsOf(f)
    <3>1. e[c] + 1 \in Nat /\ 1 <= e[c] + 1 /\ e[c] + 1 <= f[c]
      BY <1>1
    <3>2. \E d \in Calls, n \in Nat : <<c, e[c] + 1>> = <<d, n>> /\ 1 <= n /\ n <= f[d]
      BY <3>1
    <3> QED
      BY <3>2, <1>1, <1>2, Zenon
  <2>4. \A x : x \in UnitsOf(f) <=> x \in UnitsOf(e) \cup {<<c, e[c] + 1>>}
    BY <2>1, <2>2, <2>3
  <2> QED
    BY <2>4, Zenon
<1>5. PICK u : u = <<c, e[c] + 1>>
  OBVIOUS
<1>6. u \notin UnitsOf(e) /\ UnitsOf(f) = UnitsOf(e) \cup {u}
  BY <1>3, <1>4, <1>5, Zenon
<1> QED
  BY <1>6, OneMore, Zenon

\* Units that leases of distinct calls pay for.
LEMMA UnitsWithin ==
    ASSUME NEW e \in [Calls -> Nat], NEW S, NEW n \in Nat, IsFiniteSet(S), Cardinality(S) <= n,
           \A c \in Calls : e[c] > 0 => e[c] = 1 /\ <<c, 1>> \in S
    PROVE  IsFiniteSet(UnitsOf(e)) /\ Cardinality(UnitsOf(e)) <= n
<1>1. ASSUME NEW x \in UnitsOf(e) PROVE x \in S
  <2>1. PICK c \in Calls : x \in {c} \X (1 .. e[c])
    BY Zenon DEF UnitsOf
  <2>2. PICK i \in 1 .. e[c] : x = <<c, i>>
    BY <2>1
  <2>3. e[c] > 0 /\ i \in Nat /\ i >= 1 /\ i <= e[c]
    BY <2>2
  <2>4. e[c] = 1 /\ <<c, 1>> \in S
    BY <2>3
  <2>5. i = 1
    BY <2>3, <2>4
  <2> QED
    BY <2>2, <2>4, <2>5
<1>2. UnitsOf(e) \subseteq S
  BY <1>1
<1>3. IsFiniteSet(UnitsOf(e)) /\ Cardinality(UnitsOf(e)) <= Cardinality(S)
  BY <1>2, FS_Subset
<1>4. Cardinality(S) \in Nat /\ Cardinality(UnitsOf(e)) \in Nat
  BY <1>3, FS_CardinalityType
<1> QED
  BY <1>3, <1>4

\* A lease for a call that had none is one more thing paid.
LEMMA LeasePaid ==
    ASSUME NEW old, NEW new, NEW c \in Calls, IsFiniteSet(PaidBy(old)), old[c].state = "none",
           new[c].state # "none", \A d \in Calls \ {c} : new[d] = old[d]
    PROVE  IsFiniteSet(PaidBy(new)) /\ Cardinality(PaidBy(new)) = Cardinality(PaidBy(old)) + 1
<1>1. <<c, 1>> \notin PaidBy(old)
  BY DEF PaidBy
<1>2. PaidBy(new) = PaidBy(old) \cup {<<c, 1>>}
  BY DEF PaidBy
<1> QED
  BY <1>1, <1>2, FS_AddElement

\* A charge, at a time when the capability can be charged.
LEMMA Charged ==
    ASSUME CapType, Budgets, BackdatingGainsNothing, NEW k \in Types, NEW t \in Nat,
           Eligible(k, t), Charge(k), UNCHANGED <<now, gates, effects, part, inFlight>>,
           k \in {"credential.access", "filesystem.write", "package.install"} => t = now
    PROVE  /\ CapType' /\ Budgets' /\ BackdatingGainsNothing'
           /\ uses'[k] = uses[k] + 1 /\ \A j \in Types \ {k} : uses'[j] = uses[j]
<1> USE UsesAssumption, TimeAssumption
<1>1. CapType'
  BY DEF CapType, Charge, gates
<1>2. uses'[k] = uses[k] + 1 /\ \A j \in Types \ {k} : uses'[j] = uses[j]
  BY DEF CapType, Charge
<1>3. reliedAt'[k] = now /\ \A j \in Types \ {k} : reliedAt'[j] = reliedAt[j]
  BY DEF CapType, Charge
<1>4. Budgets'
  BY <1>2 DEF CapType, Budgets, Eligible
<1>5. BackdatingGainsNothing'
  BY <1>2, <1>3 DEF CapType, BackdatingGainsNothing, Eligible, Types
<1> QED
  BY <1>1, <1>2, <1>4, <1>5

\* A recheck when a lease is consumed.
LEMMA Rechecked ==
    ASSUME CapType, Budgets, BackdatingGainsNothing, NEW k \in Types,
           StillActive(k, now), Recheck(k), UNCHANGED <<now, gates, effects, part, inFlight>>
    PROVE  CapType' /\ Budgets' /\ BackdatingGainsNothing'
<1> USE UsesAssumption, TimeAssumption
<1>1. CapType'
  BY DEF CapType, Recheck, gates
<1>2. uses' = uses /\ reliedAt'[k] = now /\ \A j \in Types \ {k} : reliedAt'[j] = reliedAt[j]
  BY DEF CapType, Recheck
<1> QED
  BY <1>1, <1>2 DEF CapType, Budgets, BackdatingGainsNothing, StillActive, Types

\* An effect.
LEMMA Effected ==
    ASSUME CapType, Budgets, BackdatingGainsNothing, NEW k \in EffectTypes, NEW c \in Calls,
           Reached(k, c), UNCHANGED <<now, authority, gates, part, inFlight>>
    PROVE  /\ CapType' /\ Budgets' /\ BackdatingGainsNothing'
           /\ effects'[k] = [effects[k] EXCEPT ![c] = @ + 1]
           /\ effects'[k][c] = effects[k][c] + 1
           /\ \A d \in Calls \ {c} : effects'[k][d] = effects[k][d]
           /\ \A j \in EffectTypes \ {k} : effects'[j] = effects[j]
<1>1. effects \in [EffectTypes -> [Calls -> Nat]]
  BY DEF CapType
<1>2. /\ effects'[k] = [effects[k] EXCEPT ![c] = @ + 1]
      /\ \A j \in EffectTypes \ {k} : effects'[j] = effects[j]
  BY <1>1 DEF Reached
<1>3. effects'[k] \in [Calls -> Nat]
  BY <1>1, <1>2
<1>4. effects' \in [EffectTypes -> [Calls -> Nat]]
  BY <1>1, <1>2, <1>3 DEF Reached
<1>5. CapType'
  BY <1>4 DEF CapType, authority, gates
<1>6. Budgets' /\ BackdatingGainsNothing'
  BY DEF Budgets, BackdatingGainsNothing, authority
<1> QED
  BY <1>1, <1>2, <1>5, <1>6

\* Nothing of the authority.
LEMMA CapFrame ==
    ASSUME CapType, Budgets, BackdatingGainsNothing, UNCHANGED <<capVars, part, inFlight>>
    PROVE  CapType' /\ Budgets' /\ BackdatingGainsNothing'
BY DEF CapType, Budgets, BackdatingGainsNothing, capVars

\* What a step of one part leaves of the others.
Elsewhere(k) ==
    /\ \A j \in EffectTypes \ {k} : effects'[j] = effects[j]
    /\ \A j \in Types \ {k} : uses'[j] = uses[j]
    /\ contained' = contained

\* What is past each gate.
LEMMA PastGates ==
    /\ EffectTypes = {"credential.access", "filesystem.write", "process.execute", "network.connect"}
    /\ GateOf("credential.access") = "credential broker" /\ PastGate("credential.access") = CredentialsInFlight
    /\ GateOf("filesystem.write") = "file broker" /\ PastGate("filesystem.write") = FilesInFlight
    /\ GateOf("process.execute") = "mediator" /\ GateOf("network.connect") = "mediator"
    /\ PastGate("process.execute") = IF runtime.pc = "run" THEN {runtime.call} ELSE {}
    /\ PastGate("network.connect") = IF runtime.pc \in {"hop", "send"} THEN {runtime.call} ELSE {}
<1>1. RuntimeInFlight("network.connect") = IF runtime.pc \in {"hop", "send"} THEN {runtime.call} ELSE {}
  BY DEF RuntimeInFlight
<1>2. RuntimeInFlight("process.execute") = IF runtime.pc = "run" THEN {runtime.call} ELSE {}
  BY DEF RuntimeInFlight
<1>3. EffectTypes = {"credential.access", "filesystem.write", "process.execute", "network.connect"}
  BY DEF EffectTypes, Types
<1>4. /\ GateOf("credential.access") = "credential broker" /\ PastGate("credential.access") = CredentialsInFlight
      /\ GateOf("filesystem.write") = "file broker" /\ PastGate("filesystem.write") = FilesInFlight
      /\ GateOf("process.execute") = "mediator" /\ PastGate("process.execute") = RuntimeInFlight("process.execute")
      /\ GateOf("network.connect") = "mediator" /\ PastGate("network.connect") = RuntimeInFlight("network.connect")
  BY DEF GateOf, PastGate
<1> QED
  BY <1>1, <1>2, <1>3, <1>4, Zenon

(* ------------------------------ credentials ----------------------------- *)

LEMMA CredFrame ==
    ASSUME CredAll, UNCHANGED credVars, effects'["credential.access"] = effects["credential.access"],
           uses'["credential.access"] = uses["credential.access"],
           contained' = contained, inFlight' = inFlight
    PROVE  CredAll'
<1>1. CredType'
  BY DEF CredAll, CredType, credVars
<1>2. CredInv'
  BY DEF CredAll, CredInv, credVars
<1>3. CredPaid'
  BY DEF CredAll, CredPaid, PaidBy, credVars
<1>4. CredGate'
  BY DEF CredAll, CredGate, CredentialsInFlight, credVars
<1> QED
  BY <1>1, <1>2, <1>3, <1>4 DEF CredAll

\* A step that only ends a thread's call, with a receipt that does not say
\* SUCCEEDED, or refuses another one.
LEMMA CredentialAside ==
    ASSUME CredAll, NEW t \in Threads, NEW S \in SUBSET Calls, NEW d \in {"ALLOW", "BLOCK"},
           NEW o \in {"FAILED", "NOT_INJECTED"}, NEW c \in Calls,
           credSeen' = credSeen \cup S, CredReceipt(c, d, o),
           injector' \in {injector, [injector EXCEPT ![t] = Idle]},
           UNCHANGED <<credLease, capVars, inFlight>>
    PROVE  CredAll'
<1> DEFINE new == [call |-> c, decision |-> d, outcome |-> o]
<1>1. credReceipts' = credReceipts \cup {new}
  BY DEF CredReceipt
<1>2. new \in [call : Calls, decision : {"ALLOW", "BLOCK"}, outcome : {"SUCCEEDED", "FAILED", "NOT_INJECTED"}]
      /\ new.outcome # "SUCCEEDED"
  OBVIOUS
<1> HIDE DEF new
<1>3. \A u \in Threads : injector'[u] = injector[u] \/ injector'[u].pc = "idle"
  BY DEF CredAll, CredType, Idle
<1>4. CredType'
  BY <1>1, <1>2 DEF CredAll, CredType, Idle
<1>5. CredInv'
  BY <1>1, <1>2, <1>3 DEF CredAll, CredInv, capVars
<1>6. CredPaid'
  BY DEF CredAll, CredPaid, PaidBy, capVars
<1>7. CredGate'
  BY <1>3 DEF CredAll, CredGate, CredentialsInFlight, capVars
<1> QED
  BY <1>4, <1>5, <1>6, <1>7 DEF CredAll

LEMMA CredentialKept ==
    ASSUME Core, CredAll, CredentialStep, UNCHANGED <<part, inFlight>>
    PROVE  Core' /\ CredAll' /\ Elsewhere("credential.access")
<1> DEFINE K == "credential.access"
<1>0. K \in Types /\ K \in EffectTypes /\ EffectTypes \subseteq Types
  BY DEF Types, EffectTypes
<1>n. now \in Nat /\ CapType /\ Budgets /\ BackdatingGainsNothing
  BY DEF Core, CapType
<1>s. ASSUME UNCHANGED capVars PROVE Core' /\ Elsewhere(K)
  BY <1>s, <1>n, CapFrame DEF Core, Elsewhere, capVars
<1>t. PICK t \in Threads :
        \/ \E c \in Calls, m \in BindingMatches, d \in 0 .. now :
             CredentialRefused(t, c, m, d) \/ CredentialAuthorize(t, c, m, d)
        \/ CredentialConsume(t) \/ CredentialLeaseRefused(t)
        \/ Inject(t) \/ ProviderFails(t)
  BY DEF CredentialStep
<1>1. ASSUME NEW c \in Calls, NEW m \in BindingMatches, NEW d \in 0 .. now, CredentialRefused(t, c, m, d)
      PROVE  Core' /\ CredAll' /\ Elsewhere(K)
  <2>1. UNCHANGED capVars /\ CredAll'
    BY <1>1, CredentialAside DEF CredentialRefused
  <2> QED
    BY <2>1, <1>s
<1>2. ASSUME NEW c \in Calls, NEW m \in BindingMatches, NEW d \in 0 .. now, CredentialAuthorize(t, c, m, d)
      PROVE  Core' /\ CredAll' /\ Elsewhere(K)
  <2>1. Core' /\ uses'[K] = uses[K] + 1 /\ \A j \in Types \ {K} : uses'[j] = uses[j]
    <3>1. Eligible(K, now) /\ Charge(K) /\ UNCHANGED <<now, gates, effects, part, inFlight>>
      BY <1>2 DEF CredentialAuthorize, CredentialAdmits, CredentialTime
    <3> QED
      BY <3>1, <1>0, <1>n, Charged DEF Core
  <2>2. Elsewhere(K)
    BY <2>1, <1>2 DEF Elsewhere, CredentialAuthorize, gates
  <2>3. /\ c \notin credSeen /\ credLease[c].state = "none" /\ credLease'[c].state = "issued"
        /\ \A x \in Calls \ {c} : credLease'[x] = credLease[x]
    BY <1>2 DEF CredentialAuthorize, CredentialReplayed, CredAll, CredType, CredInv
  <2>4. /\ injector[t].pc = "idle" /\ injector'[t] = [pc |-> "leased", call |-> c]
        /\ \A u \in Threads \ {t} : injector'[u] = injector[u]
    BY <1>2 DEF CredentialAuthorize, CredAll, CredType
  <2>5. CredType'
    <3>1. now + Ttl \in Nat
      BY <1>n, UsesAssumption
    <3> QED
      BY <1>2, <1>n, <3>1 DEF CredentialAuthorize, CredAll, CredType
  <2>6. CredInv'
    <3>1. credSeen' = credSeen \cup {c} /\ credReceipts' = credReceipts /\ effects' = effects
      BY <1>2 DEF CredentialAuthorize
    <3>2. effects[K][c] = 0
      BY <2>3, <1>n, <1>0 DEF CredAll, CredInv, CapType
    <3>3. \A u \in Threads : injector'[u].pc = "consumed" =>
            injector'[u] = injector[u] /\ injector[u].call # c /\ injector[u].call \in Calls
      BY <2>3, <2>4 DEF CredAll, CredInv, CredType
    <3> QED
      BY <3>1, <3>2, <3>3, <2>3 DEF CredAll, CredInv
  <2>7. CredPaid'
    <3>1. IsFiniteSet(PaidBy(credLease')) /\ Cardinality(PaidBy(credLease')) = Cardinality(PaidBy(credLease)) + 1
      BY <2>3, LeasePaid DEF CredAll, CredPaid
    <3>2. Cardinality(PaidBy(credLease)) \in Nat /\ uses[K] \in Nat
      BY FS_CardinalityType, <1>n, <1>0 DEF CredAll, CredPaid, CapType
    <3> QED
      BY <3>1, <3>2, <2>1 DEF CredAll, CredPaid, PaidBy
  <2>8. CredGate'
    <3>1. CredentialsInFlight' \subseteq CredentialsInFlight
      <4>1. \A u \in Threads : injector'[u].pc = "consumed" => injector'[u] = injector[u]
        BY <2>4
      <4> QED
        BY <4>1 DEF CredentialsInFlight
    <3> QED
      BY <3>1, <1>2 DEF CredAll, CredGate, CredentialAuthorize, gates
  <2> QED
    BY <2>1, <2>2, <2>5, <2>6, <2>7, <2>8 DEF CredAll
<1>3. ASSUME CredentialConsume(t) PROVE Core' /\ CredAll' /\ Elsewhere(K)
  <2> DEFINE c == injector[t].call
  <2>1. Core' /\ Elsewhere(K)
    <3>1. StillActive(K, now) /\ Recheck(K) /\ UNCHANGED <<now, gates, effects, part, inFlight>>
      BY <1>3 DEF CredentialConsume, CredentialLive
    <3>2. Core'
      BY <3>1, <1>0, <1>n, Rechecked DEF Core
    <3> QED
      BY <3>1, <3>2 DEF Elsewhere, Recheck, gates
  <2>2. /\ c \in Calls /\ credLease[c].state = "issued" /\ credLease'[c].state = "consumed"
        /\ \A x \in Calls \ {c} : credLease'[x] = credLease[x]
    BY <1>3 DEF CredentialConsume, CredentialLive, CredAll, CredType
  <2>3. /\ injector'[t].pc = "consumed" /\ injector'[t].call = c
        /\ \A u \in Threads \ {t} : injector'[u] = injector[u]
    BY <1>3 DEF CredentialConsume, CredAll, CredType
  <2>4. CredType'
    BY <1>3, <2>2 DEF CredentialConsume, CredAll, CredType
  <2>5. UNCHANGED <<credSeen, credReceipts, effects, contained, uses, inFlight>> /\ ~contained["credential broker"]
    BY <1>3 DEF CredentialConsume, CredentialLive, gates, Recheck
  <2>6. effects[K][c] = 0 /\ c \in credSeen
    BY <2>2, <1>n, <1>0 DEF CredAll, CredInv, CapType
  <2> HIDE DEF c
  <2>7. CredInv'
    <3>1. \A u \in Threads \ {t} : injector[u].pc = "consumed" => injector[u].call # c /\ injector[u].call \in Calls
      BY <2>2 DEF CredAll, CredInv, CredType
    <3>2. \A x \in Calls : effects[K][x] > 0 => x # c /\ credLease'[x] = credLease[x]
      BY <2>2, <2>6
    <3>3. \A u \in Threads : injector'[u].pc = "consumed" =>
            \/ u = t /\ injector'[u].call = c
            \/ u # t /\ injector'[u] = injector[u] /\ injector[u].call # c /\ injector[u].call \in Calls
      BY <2>3, <3>1
    <3>4. ASSUME NEW v \in Threads, injector'[v].pc = "consumed"
          PROVE  /\ credLease'[injector'[v].call].state = "consumed"
                 /\ effects'[K][injector'[v].call] = 0
                 /\ \A u \in Threads : injector'[u].pc = "consumed" /\ injector'[u].call = injector'[v].call => u = v
      <4>1. CASE v = t
        BY <3>3, <3>4, <4>1, <2>2, <2>5, <2>6
      <4>2. CASE v # t
        <5>1. /\ credLease[injector[v].call].state = "consumed" /\ effects[K][injector[v].call] = 0
              /\ \A u \in Threads : injector[u].pc = "consumed" /\ injector[u].call = injector[v].call => u = v
          BY <3>3, <3>4, <4>2 DEF CredAll, CredInv
        <5> QED
          BY <3>3, <3>4, <4>2, <5>1, <2>2, <2>5
      <4> QED
        BY <4>1, <4>2
    <3>5. (\A x \in Calls : credLease[x].state # "none" => x \in credSeen)'
      BY <2>2, <2>5, <2>6 DEF CredAll, CredInv
    <3>6. \A x \in Calls : effects'[K][x] > 0 =>
            /\ credLease'[x].state = "consumed" /\ effects'[K][x] = 1
            /\ \E r \in credReceipts' : r.call = x /\ r.decision = "ALLOW"
      BY <2>5, <3>2 DEF CredAll, CredInv
    <3>7. \A r \in credReceipts' : r.outcome = "SUCCEEDED" => effects'[K][r.call] = 1
      BY <2>5 DEF CredAll, CredInv
    <3> QED
      BY <3>4, <3>5, <3>6, <3>7 DEF CredInv
  <2>8. CredPaid'
    <3>1. PaidBy(credLease') = PaidBy(credLease)
      BY <2>2 DEF PaidBy
    <3> QED
      BY <3>1, <2>5 DEF CredAll, CredPaid, PaidBy
  <2>9. CredGate'
    BY <2>5 DEF CredGate
  <2> QED
    BY <2>1, <2>4, <2>7, <2>8, <2>9 DEF CredAll
<1>4. ASSUME CredentialLeaseRefused(t) PROVE Core' /\ CredAll' /\ Elsewhere(K)
  <2>1. injector[t].call \in Calls
    BY <1>4 DEF CredentialLeaseRefused, CredAll, CredType
  <2>2. /\ UNCHANGED <<credLease, capVars, inFlight>> /\ credSeen' = credSeen \cup {}
        /\ injector' \in {injector, [injector EXCEPT ![t] = Idle]}
        /\ CredReceipt(injector[t].call, "BLOCK", "NOT_INJECTED")
    BY <1>4 DEF CredentialLeaseRefused
  <2>3. CredAll'
    BY <2>1, <2>2, CredentialAside
  <2>4. UNCHANGED capVars
    BY <2>2
  <2> QED
    BY <2>3, <2>4, <1>s
<1>5. ASSUME Inject(t) PROVE Core' /\ CredAll' /\ Elsewhere(K)
  <2> DEFINE c == injector[t].call
  <2>1. PICK o \in {"SUCCEEDED", "FAILED"} : CredReceipt(c, "ALLOW", o)
    BY <1>5 DEF Inject
  <2> DEFINE new == [call |-> c, decision |-> "ALLOW", outcome |-> o]
  <2>2. /\ c \in Calls /\ credLease[c].state = "consumed" /\ effects[K][c] = 0
        /\ \A u \in Threads : injector[u].pc = "consumed" /\ injector[u].call = c => u = t
    BY <1>5 DEF Inject, CredAll, CredType, CredInv
  <2>3. Reached(K, c) /\ UNCHANGED <<now, authority, gates, part, inFlight>>
    BY <1>5 DEF Inject
  <2>4. /\ Core' /\ effects'[K][c] = effects[K][c] + 1
        /\ \A x \in Calls \ {c} : effects'[K][x] = effects[K][x]
        /\ \A j \in EffectTypes \ {K} : effects'[j] = effects[j]
    BY <2>2, <2>3, <1>0, <1>n, Effected DEF Core
  <2>5. Elsewhere(K)
    BY <2>3, <2>4 DEF Elsewhere, authority, gates
  <2>6. /\ injector'[t].pc = "idle" /\ \A u \in Threads \ {t} : injector'[u] = injector[u]
        /\ credReceipts' = credReceipts \cup {new}
        /\ UNCHANGED <<credSeen, credLease, uses, contained>>
    BY <1>5, <2>1, <2>3 DEF Inject, CredReceipt, CredAll, CredType, Idle, authority, gates
  <2>7. new.call = c /\ new.decision = "ALLOW"
        /\ new \in [call : Calls, decision : {"ALLOW", "BLOCK"}, outcome : {"SUCCEEDED", "FAILED", "NOT_INJECTED"}]
    BY <2>2
  <2>8. CredType'
    BY <1>5, <2>6, <2>7 DEF Inject, CredAll, CredType, Idle
  <2> HIDE DEF c, new
  <2>9. CredInv'
    <3>0. effects'[K][c] = 1
      BY <2>2, <2>4
    <3>1. \A u \in Threads : injector'[u].pc = "consumed" =>
            injector'[u] = injector[u] /\ injector[u].call # c /\ injector[u].call \in Calls
      BY <2>2, <2>6 DEF CredAll, CredType
    <3>2. \A r \in credReceipts : r.call \in Calls
      BY DEF CredAll, CredType
    <3> QED
      BY <2>2, <2>4, <2>6, <2>7, <3>0, <3>1, <3>2 DEF CredAll, CredInv
  <2>10. CredPaid' /\ CredGate'
    BY <2>3, <2>6 DEF CredAll, CredPaid, PaidBy, CredGate, CredentialsInFlight
  <2> QED
    BY <2>4, <2>5, <2>8, <2>9, <2>10 DEF CredAll
<1>6. ASSUME ProviderFails(t) PROVE Core' /\ CredAll' /\ Elsewhere(K)
  <2>1. injector[t].call \in Calls
    BY <1>6 DEF ProviderFails, CredAll, CredType
  <2>2. /\ UNCHANGED <<credLease, capVars, inFlight>> /\ credSeen' = credSeen \cup {}
        /\ injector' \in {injector, [injector EXCEPT ![t] = Idle]}
        /\ CredReceipt(injector[t].call, "ALLOW", "FAILED")
    BY <1>6 DEF ProviderFails
  <2>3. CredAll'
    BY <2>1, <2>2, CredentialAside
  <2>4. UNCHANGED capVars
    BY <2>2
  <2> QED
    BY <2>3, <2>4, <1>s
<1> QED
  BY <1>t, <1>1, <1>2, <1>3, <1>4, <1>5, <1>6

(* --------------------------------- files -------------------------------- *)

LEMMA InFlightFiles ==
    \A c : c \in FilesInFlight <=> \E t \in Threads : replacer[t].pc # "idle" /\ replacer[t].call = c
BY DEF FilesInFlight

LEMMA FileFrame ==
    ASSUME FileAll, UNCHANGED fileVars, effects'["filesystem.write"] = effects["filesystem.write"],
           uses'["filesystem.write"] = uses["filesystem.write"],
           contained' = contained, inFlight' = inFlight
    PROVE  FileAll'
<1> USE DEF fileVars
<1>1. FileType'
  BY DEF FileAll, FileType
<1>2. FileInv'
  BY DEF FileAll, FileInv, Replacing, FileEnded, Replaced
<1>3. LookInv'
  BY DEF FileAll, LookInv, Looked, RenameOK
<1>4. FilePaid'
  BY DEF FileAll, FilePaid, PaidBy
<1>5. FileGate'
  BY DEF FileAll, FileGate, FilesInFlight
<1> QED
  BY <1>1, <1>2, <1>3, <1>4, <1>5 DEF FileAll

\* A thread in the middle of a replacement goes one step further.
LEMMA ReplacerAdvances ==
    ASSUME FileAll, CapType, NEW t \in Threads, NEW pc \in {"compared", "written", "checked"}, NEW n \in Nat,
           replacer[t].pc \in {"taken", "compared", "written"},
           replacer' = [replacer EXCEPT ![t].pc = pc, ![t].seen = n],
           pc = "checked" => n = version /\ target = fileLease[replacer[t].call].expected,
           temps' \in {temps, temps \cup {replacer[t].call}},
           UNCHANGED <<fileSeen, fileLease, fileReceipts, fileWorld, capVars, inFlight>>
    PROVE  FileAll'
<1> USE DEF fileWorld, capVars, FileAll
<1>1. /\ replacer'[t].pc = pc /\ replacer'[t].call = replacer[t].call /\ replacer'[t].seen = n
      /\ \A u \in Threads \ {t} : replacer'[u] = replacer[u]
      /\ replacer[t].call \in Calls
  BY DEF FileType
<1>2. replacer' \in [Threads -> [pc : ReplacerPcs, call : Calls \cup {NoCall}, seen : Nat]]
  BY DEF FileType, ReplacerPcs
<1>3. FileType'
  BY <1>1, <1>2 DEF FileType
<1>4. \A u \in Threads : replacer'[u].call = replacer[u].call /\ (replacer'[u].pc = "idle" <=> replacer[u].pc = "idle")
                         /\ (replacer'[u].pc = "renamed" <=> replacer[u].pc = "renamed")
  BY <1>1
<1>5. \A u \in Threads : replacer[u].pc # "idle" => Replacing(u)
  BY DEF FileInv
<1>6. ASSUME NEW u \in Threads, replacer'[u].pc # "idle" PROVE Replacing(u)'
  <2>1. Replacing(u) /\ Replacing(t)
    BY <1>4, <1>5, <1>6
  <2>2. replacer'[u].pc = "renamed" => replacer[u].call # replacer[t].call
    BY <2>1, <1>4 DEF Replacing
  <2>3. \A v \in Threads : replacer'[v].pc # "idle" /\ replacer'[v].call = replacer'[u].call => v = u
    BY <2>1, <1>4 DEF Replacing
  <2>4. replacer'[u].pc = "renamed" => replacer'[u].call \notin temps'
    BY <2>1, <2>2, <1>4 DEF Replacing
  <2>5. effects'["filesystem.write"][replacer'[u].call] = IF replacer'[u].pc = "renamed" THEN 1 ELSE 0
    BY <2>1, <1>4 DEF Replacing
  <2>6. fileLease'[replacer'[u].call].state = "consumed" /\ \A r \in fileReceipts' : r.call # replacer'[u].call
    BY <2>1, <1>4 DEF Replacing
  <2> QED
    BY <2>3, <2>4, <2>5, <2>6 DEF Replacing
<1>7. ASSUME NEW r \in fileReceipts PROVE FileEnded(r)'
  <2>1. FileEnded(r) /\ r.call # replacer[t].call
    BY <1>5 DEF FileInv, Replacing
  <2> QED
    BY <2>1 DEF FileEnded
<1>8. ASSUME NEW c \in Calls, effects["filesystem.write"][c] > 0 PROVE Replaced(c)'
  <2>1. Replaced(c)
    BY <1>8 DEF FileInv
  <2>2. (\E u \in Threads : replacer[u].pc # "idle" /\ replacer[u].call = c)
          => \E u \in Threads : replacer'[u].pc # "idle" /\ replacer'[u].call = c
    BY <1>4, Zenon
  <2> QED
    BY <2>1, <2>2 DEF Replaced
<1>9. FileInv'
  BY <1>6, <1>7, <1>8 DEF FileInv
<1>10. ASSUME NEW u \in Threads, replacer'[u].pc = "checked" PROVE Looked(u)'
  <2>1. CASE u = t
    BY <1>1, <1>10, <2>1 DEF Looked, FileType
  <2>2. CASE u # t
    BY <1>1, <1>10, <2>2 DEF Looked, LookInv
  <2> QED
    BY <2>1, <2>2
<1>11. LookInv'
  BY <1>10 DEF LookInv, RenameOK
<1>12. FilePaid'
  BY DEF FilePaid, PaidBy
<1>13. FilesInFlight' \subseteq FilesInFlight
  <2>1. \A u \in Threads : replacer'[u].pc # "idle" => replacer[u].pc # "idle" /\ replacer'[u].call = replacer[u].call
    BY <1>4
  <2>2. ASSUME NEW x \in FilesInFlight' PROVE x \in FilesInFlight
    <3>1. PICK u \in Threads : replacer'[u].pc # "idle" /\ replacer'[u].call = x
      BY DEF FilesInFlight
    <3>2. replacer[u].pc # "idle" /\ replacer[u].call = x
      BY <2>1, <3>1
    <3> QED
      BY <3>2 DEF FilesInFlight
  <2> QED
    BY <2>2
<1>14. FileGate'
  BY <1>13 DEF FileGate
<1> QED
  BY <1>3, <1>9, <1>11, <1>12, <1>14

\* A thread leaves a replacement with a receipt.
LEMMA ReplacerLeaves ==
    ASSUME FileAll, CapType, NEW t \in Threads, NEW o \in {"SUCCEEDED", "FAILED"},
           replacer[t].pc # "idle", o = "SUCCEEDED" => replacer[t].pc = "renamed",
           replacer' = [replacer EXCEPT ![t] = AtRest],
           fileReceipts' = fileReceipts \cup {[call |-> replacer[t].call, outcome |-> o]},
           temps' \in {temps, temps \ {replacer[t].call}},
           UNCHANGED <<fileSeen, fileLease, fileWorld, capVars, inFlight>>
    PROVE  FileAll'
<1> USE DEF fileWorld, capVars, FileAll
<1>1. /\ replacer'[t].pc = "idle" /\ \A u \in Threads \ {t} : replacer'[u] = replacer[u]
      /\ replacer[t].call \in Calls
  BY DEF FileType, AtRest
<1>2. PICK c \in Calls : c = replacer[t].call
  BY <1>1
<1>3. PICK new : new = [call |-> c, outcome |-> o]
  OBVIOUS
<1>4. new \in [call : Calls, outcome : {"SUCCEEDED", "FAILED"}] /\ new.call = c /\ new.outcome = o
      /\ fileReceipts' = fileReceipts \cup {new}
  BY <1>2, <1>3
<1>5. FileType'
  BY <1>1, <1>4 DEF FileType, AtRest, ReplacerPcs
<1>6. Replacing(t) /\ \A u \in Threads : replacer[u].pc # "idle" => Replacing(u)
  BY DEF FileInv
<1>7. ASSUME NEW u \in Threads, replacer'[u].pc # "idle" PROVE Replacing(u)'
  <2>1. u # t /\ replacer'[u] = replacer[u] /\ Replacing(u)
    BY <1>1, <1>6, <1>7
  <2>2. replacer[u].call # c
    BY <1>6, <2>1, <1>2 DEF Replacing
  <2>3. \A v \in Threads : replacer'[v].pc # "idle" => replacer'[v] = replacer[v]
    BY <1>1
  <2> QED
    BY <2>1, <2>2, <2>3, <1>4 DEF Replacing
<1>8. ASSUME NEW r \in fileReceipts PROVE FileEnded(r)'
  <2>1. FileEnded(r) /\ r.call # c /\ r \in [call : Calls, outcome : {"SUCCEEDED", "FAILED"}]
    BY <1>6, <1>2 DEF FileInv, Replacing, FileType
  <2>2. [r EXCEPT !.outcome = "FAILED"] # new
    BY <2>1, <1>4
  <2> QED
    BY <2>1, <2>2, <1>4 DEF FileEnded
<1>9. FileEnded(new)'
  <2>1. fileLease'[new.call].state = "consumed"
    BY <1>2, <1>4, <1>6 DEF Replacing
  <2>2. ASSUME o = "SUCCEEDED"
        PROVE  effects'["filesystem.write"][c] = 1 /\ c \notin temps'
    BY <2>2, <1>2, <1>6 DEF Replacing
  <2>3. ASSUME o = "SUCCEEDED" PROVE [new EXCEPT !.outcome = "FAILED"] \notin fileReceipts'
    <3>1. [new EXCEPT !.outcome = "FAILED"].call = c /\ [new EXCEPT !.outcome = "FAILED"] # new
      BY <1>4, <2>3
    <3>2. \A r \in fileReceipts : r.call # c
      BY <1>6, <1>2 DEF Replacing
    <3> QED
      BY <3>1, <3>2, <1>4
  <2> QED
    BY <1>4, <2>1, <2>2, <2>3 DEF FileEnded
<1>10. ASSUME NEW d \in Calls, effects["filesystem.write"][d] > 0 PROVE Replaced(d)'
  <2>1. Replaced(d)
    BY <1>10 DEF FileInv
  <2>2. CASE d = c
    BY <2>1, <2>2, <1>4 DEF Replaced
  <2>3. CASE d # c
    <3>1. \A u \in Threads : replacer[u].call = d => replacer'[u] = replacer[u]
      BY <1>1, <1>2, <2>3
    <3> QED
      BY <2>1, <3>1, <1>4 DEF Replaced
  <2> QED
    BY <2>2, <2>3
<1>11. FileInv'
  BY <1>4, <1>7, <1>8, <1>9, <1>10 DEF FileInv
<1>12. LookInv'
  BY <1>1 DEF LookInv, Looked, RenameOK
<1>13. FilePaid'
  BY DEF FilePaid, PaidBy
<1>14. FilesInFlight' \subseteq FilesInFlight
  BY <1>1 DEF FilesInFlight
<1>15. FileGate'
  BY <1>14 DEF FileGate
<1> QED
  BY <1>5, <1>11, <1>12, <1>13, <1>15

LEMMA LeaseIssued ==
    ASSUME Core, FileAll, NEW c \in Calls, NEW p, NEW before \in Contents, NEW after \in Contents,
           FileAuthorize(c, p, before, after), UNCHANGED <<part, inFlight>>
    PROVE  Core' /\ FileAll' /\ Elsewhere("filesystem.write")
<1> DEFINE K == "filesystem.write"
<1>1. K \in Types /\ K \in EffectTypes /\ EffectTypes \subseteq Types
  BY DEF Types, EffectTypes
<1>2. now \in Nat /\ CapType /\ Budgets /\ BackdatingGainsNothing
  BY DEF Core, CapType
<1>3. Eligible(K, now) /\ Charge(K) /\ UNCHANGED <<now, gates, effects, part, inFlight>>
  BY DEF FileAuthorize, FileAdmits
<1>4. Core' /\ uses'[K] = uses[K] + 1 /\ \A j \in Types \ {K} : uses'[j] = uses[j]
  BY <1>1, <1>2, <1>3, Charged DEF Core
<1>5. Elsewhere(K)
  BY <1>3, <1>4 DEF Elsewhere, gates
<1>6. UNCHANGED <<temps, replacer, fileReceipts, target, version, renames, effects, contained, inFlight>>
      /\ fileSeen' = fileSeen \cup {c}
  BY DEF FileAuthorize, fileWorld, gates
<1>7. /\ c \notin fileSeen /\ fileLease[c].state = "none" /\ fileLease'[c].state = "issued"
      /\ \A d \in Calls \ {c} : fileLease'[d] = fileLease[d]
  BY DEF FileAuthorize, FileAdmits, FileAll, FileType, FileInv
<1>8. FileType'
  <2>1. now + Ttl \in Nat
    BY <1>2, UsesAssumption
  <2> QED
    BY <1>2, <1>6, <2>1 DEF FileAuthorize, FileAll, FileType
<1>9. \A d \in Calls : fileLease[d].state = "consumed" => fileLease'[d] = fileLease[d]
  BY <1>7
<1>10. FileInv'
  <2>1. \A d \in Calls : fileLease'[d].state # "none" => d \in fileSeen'
    BY <1>6, <1>7 DEF FileAll, FileInv
  <2>2. ASSUME NEW d \in Calls, effects[K][d] > 0 PROVE Replaced(d)'
    BY <2>2, <1>6, <1>9 DEF FileAll, FileInv, Replaced
  <2>3. ASSUME NEW t \in Threads, replacer[t].pc # "idle" PROVE Replacing(t)'
    BY <2>3, <1>6, <1>9 DEF FileAll, FileInv, FileType, Replacing
  <2>4. ASSUME NEW r \in fileReceipts PROVE FileEnded(r)'
    BY <2>4, <1>6, <1>9 DEF FileAll, FileInv, FileType, FileEnded
  <2> QED
    BY <2>1, <2>2, <2>3, <2>4, <1>6 DEF FileInv
<1>11. LookInv'
  <2>1. ASSUME NEW t \in Threads, replacer[t].pc = "checked" PROVE Looked(t)'
    <3>1. fileLease'[replacer[t].call] = fileLease[replacer[t].call]
      BY <2>1, <1>9 DEF FileAll, FileInv, FileType, Replacing
    <3> QED
      BY <2>1, <3>1, <1>6 DEF FileAll, LookInv, Looked
  <2>2. ASSUME NEW w \in renames PROVE RenameOK(w)'
    BY <2>2, <1>6, <1>9 DEF FileAll, FileType, LookInv, RenameOK
  <2> QED
    BY <2>1, <2>2, <1>6 DEF LookInv
<1>12. FilePaid'
  <2>1. IsFiniteSet(PaidBy(fileLease')) /\ Cardinality(PaidBy(fileLease')) = Cardinality(PaidBy(fileLease)) + 1
    BY <1>7, LeasePaid DEF FileAll, FilePaid
  <2>2. Cardinality(PaidBy(fileLease)) \in Nat /\ uses[K] \in Nat
    BY FS_CardinalityType, <1>1, <1>2 DEF FileAll, FilePaid, CapType
  <2> QED
    BY <2>1, <2>2, <1>4 DEF FileAll, FilePaid, PaidBy
<1>13. FileGate'
  BY <1>6 DEF FileAll, FileGate, FilesInFlight
<1> QED
  BY <1>4, <1>5, <1>8, <1>10, <1>11, <1>12, <1>13 DEF FileAll

LEMMA LeaseConsumed ==
    ASSUME Core, FileAll, NEW t \in Threads, NEW c \in Calls, FileConsume(t, c), UNCHANGED <<part, inFlight>>
    PROVE  Core' /\ FileAll' /\ Elsewhere("filesystem.write")
<1> DEFINE K == "filesystem.write"
<1>1. K \in Types /\ K \in EffectTypes
  BY DEF Types, EffectTypes
<1>2. StillActive(K, now) /\ Recheck(K) /\ UNCHANGED <<now, gates, effects, part, inFlight>>
  BY DEF FileConsume, FileLive
<1>3. Core'
  BY <1>1, <1>2, Rechecked DEF Core
<1>4. Elsewhere(K)
  BY <1>2 DEF Elsewhere, Recheck, gates
<1>5. UNCHANGED <<fileSeen, temps, fileReceipts, target, version, renames, effects, contained, inFlight, uses>>
      /\ ~contained["file broker"]
  BY DEF FileConsume, FileLive, fileWorld, gates, Recheck
<1>6. /\ fileLease[c].state = "issued" /\ fileLease' = [fileLease EXCEPT ![c].state = "consumed"]
      /\ replacer[t].pc = "idle" /\ replacer' = [replacer EXCEPT ![t] = [pc |-> "taken", call |-> c, seen |-> 0]]
  BY DEF FileConsume, FileLive
<1>7. fileLease'[c].state = "consumed" /\ \A d \in Calls \ {c} : fileLease'[d] = fileLease[d]
  BY <1>6 DEF FileAll, FileType
<1>8. /\ replacer'[t].pc = "taken" /\ replacer'[t].call = c
      /\ \A u \in Threads \ {t} : replacer'[u] = replacer[u]
  BY <1>6 DEF FileAll, FileType
<1>9. FileType'
  <2>1. fileLease' \in [Calls -> [state : {"none", "issued", "consumed"}, expected : Contents,
                                desired : Contents, issued : Nat, expires : Nat]]
    BY <1>6 DEF FileAll, FileType
  <2>2. replacer' \in [Threads -> [pc : ReplacerPcs, call : Calls \cup {NoCall}, seen : Nat]]
    BY <1>6 DEF FileAll, FileType, ReplacerPcs
  <2> QED
    BY <2>1, <2>2, <1>5, <1>8 DEF FileAll, FileType
<1>10. c \in fileSeen /\ effects[K][c] = 0
  BY <1>6, <1>1 DEF FileAll, FileInv, Replaced, Core, CapType
<1>11. \A u \in Threads : replacer[u].pc # "idle" =>
         replacer[u].call # c /\ replacer[u].call \in Calls /\ u # t /\ replacer'[u] = replacer[u]
  BY <1>6, <1>8 DEF FileAll, FileInv, FileType, Replacing
<1>12. \A r \in fileReceipts : r.call # c /\ r.call \in Calls
  BY <1>6 DEF FileAll, FileInv, FileType, FileEnded
<1>13. FileInv'
  <2>1. \A d \in Calls : fileLease'[d].state # "none" => d \in fileSeen'
    BY <1>5, <1>7, <1>10 DEF FileAll, FileInv
  <2>2. ASSUME NEW d \in Calls, effects[K][d] > 0 PROVE Replaced(d)'
    <3>1. Replaced(d) /\ d # c
      BY <2>2, <1>10 DEF FileAll, FileInv
    <3> QED
      BY <3>1, <1>5, <1>7, <1>11 DEF Replaced
  <2>3. Replacing(t)'
    <3>1. \A u \in Threads : replacer'[u].pc # "idle" /\ replacer'[u].call = c => u = t
      BY <1>8, <1>11
    <3> QED
      BY <3>1, <1>5, <1>7, <1>8, <1>10, <1>12 DEF Replacing
  <2>4. ASSUME NEW u \in Threads \ {t}, replacer'[u].pc # "idle" PROVE Replacing(u)'
    <3>1. Replacing(u) /\ replacer'[u] = replacer[u] /\ replacer[u].call # c /\ replacer[u].call \in Calls
      BY <2>4, <1>8, <1>11 DEF FileAll, FileInv
    <3>2. \A v \in Threads : replacer'[v].pc # "idle" /\ replacer'[v].call = replacer[u].call => v = u
      BY <3>1, <1>8, <1>11 DEF Replacing
    <3> QED
      BY <3>1, <3>2, <1>5, <1>7 DEF Replacing
  <2>5. ASSUME NEW r \in fileReceipts PROVE FileEnded(r)'
    BY <2>5, <1>5, <1>7, <1>12 DEF FileAll, FileInv, FileEnded
  <2> QED
    BY <2>1, <2>2, <2>3, <2>4, <2>5, <1>5 DEF FileInv
<1>14. LookInv'
  <2>1. ASSUME NEW u \in Threads, replacer'[u].pc = "checked" PROVE Looked(u)'
    <3>1. replacer'[u] = replacer[u] /\ replacer[u].call # c /\ replacer[u].call \in Calls
      BY <2>1, <1>8, <1>11
    <3> QED
      BY <2>1, <3>1, <1>5, <1>7 DEF FileAll, LookInv, Looked
  <2>2. ASSUME NEW w \in renames PROVE RenameOK(w)'
    <3>1. w.call \in Calls /\ w.call # c
      BY <1>6 DEF FileAll, FileType, LookInv, RenameOK
    <3> QED
      BY <3>1, <1>5, <1>7 DEF FileAll, LookInv, RenameOK
  <2> QED
    BY <2>1, <2>2, <1>5 DEF LookInv
<1>15. FilePaid'
  <2>1. PaidBy(fileLease') = PaidBy(fileLease)
    BY <1>6, <1>7 DEF PaidBy
  <2> QED
    BY <2>1, <1>5 DEF FileAll, FilePaid, PaidBy
<1>16. FileGate'
  BY <1>5 DEF FileGate
<1> QED
  BY <1>3, <1>4, <1>9, <1>13, <1>14, <1>15, <1>16 DEF FileAll

\* The target changes under whoever has looked.
LEMMA VersionMoves ==
    ASSUME LookInv, FileType, version' = version + 1, UNCHANGED fileLease, NEW t \in Threads, replacer'[t] = replacer[t],
           replacer[t].pc = "checked"
    PROVE  Looked(t)'
BY DEF LookInv, Looked, FileType

LEMMA RenameKept ==
    ASSUME Core, FileAll, NEW t \in Threads, Rename(t), UNCHANGED <<part, inFlight>>
    PROVE  Core' /\ FileAll' /\ Elsewhere("filesystem.write")
<1> DEFINE K == "filesystem.write"
<1>1. K \in EffectTypes /\ EffectTypes \subseteq Types
  BY DEF Types, EffectTypes
<1>2. PICK c \in Calls : c = replacer[t].call
  BY DEF Rename, FileAll, FileType
<1>3. /\ Reached(K, c) /\ UNCHANGED <<now, authority, gates, part, inFlight>>
      /\ UNCHANGED <<fileSeen, fileLease, fileReceipts>>
      /\ replacer[t].pc = "checked" /\ replacer' = [replacer EXCEPT ![t].pc = "renamed"]
      /\ target' = fileLease[c].desired /\ version' = version + 1 /\ temps' = temps \ {c}
      /\ renames' = renames \cup {[call |-> c, replaced |-> target, at |-> version, checked |-> replacer[t].seen]}
  BY <1>2 DEF Rename
<1>4. /\ Core' /\ effects'[K][c] = effects[K][c] + 1
      /\ \A d \in Calls \ {c} : effects'[K][d] = effects[K][d]
      /\ \A j \in EffectTypes \ {K} : effects'[j] = effects[j]
  BY <1>1, <1>3, Effected DEF Core
<1>5. Elsewhere(K) /\ uses' = uses /\ contained' = contained
  BY <1>3, <1>4 DEF Elsewhere, authority, gates
<1>6. /\ replacer'[t].pc = "renamed" /\ replacer'[t].call = c /\ replacer'[t].seen = replacer[t].seen
      /\ \A u \in Threads \ {t} : replacer'[u] = replacer[u]
  BY <1>2, <1>3 DEF FileAll, FileType
<1>7. Replacing(t) /\ effects'[K][c] = 1
  BY <1>2, <1>3, <1>4 DEF FileAll, FileInv, Replacing
<1>8. PICK w : w = [call |-> c, replaced |-> target, at |-> version, checked |-> replacer[t].seen]
  OBVIOUS
<1>9. renames' = renames \cup {w} /\ w.call = c /\ w.replaced = target /\ w.at = version /\ w.checked = replacer[t].seen
  BY <1>3, <1>8
<1>10. FileType'
  <2>1. replacer' \in [Threads -> [pc : ReplacerPcs, call : Calls \cup {NoCall}, seen : Nat]]
    BY <1>3 DEF FileAll, FileType, ReplacerPcs
  <2>2. w \in [call : Calls, replaced : Contents, at : Nat, checked : Nat]
    BY <1>8 DEF FileAll, FileType
  <2>3. target' \in Contents /\ version' \in Nat
    BY <1>3 DEF FileAll, FileType
  <2> QED
    BY <1>2, <1>3, <1>6, <1>9, <2>1, <2>2, <2>3 DEF FileAll, FileType
<1>11. \A u \in Threads : replacer'[u].call = replacer[u].call /\ (replacer'[u].pc = "idle" <=> replacer[u].pc = "idle")
  BY <1>2, <1>3, <1>6
<1>12. \A u \in Threads \ {t} : replacer[u].pc # "idle" => replacer[u].call # c /\ replacer[u].call \in Calls
  BY <1>2, <1>7 DEF Replacing, FileAll, FileType
<1>13. \A r \in fileReceipts : r.call # c /\ r.call \in Calls
  BY <1>2, <1>7 DEF Replacing, FileAll, FileType
<1>14. FileInv'
  <2>1. ASSUME NEW d \in Calls, effects'[K][d] > 0 PROVE Replaced(d)'
    <3>1. CASE d = c
      BY <3>1, <1>2, <1>3, <1>6, <1>7 DEF Replaced, Replacing
    <3>2. CASE d # c
      <4>1. Replaced(d) /\ effects'[K][d] = effects[K][d]
        BY <2>1, <3>2, <1>4 DEF FileAll, FileInv
      <4>2. (\E u \in Threads : replacer[u].pc # "idle" /\ replacer[u].call = d)
              => \E u \in Threads : replacer'[u].pc # "idle" /\ replacer'[u].call = d
        BY <1>11, Zenon
      <4> QED
        BY <4>1, <4>2, <1>3 DEF Replaced
    <3> QED
      BY <3>1, <3>2
  <2>2. Replacing(t)'
    <3>1. \A u \in Threads : replacer'[u].pc # "idle" /\ replacer'[u].call = replacer'[t].call => u = t
      BY <1>2, <1>6, <1>7, <1>11 DEF Replacing
    <3> QED
      BY <3>1, <1>2, <1>3, <1>6, <1>7 DEF Replacing
  <2>3. ASSUME NEW u \in Threads \ {t}, replacer'[u].pc # "idle" PROVE Replacing(u)'
    <3>1. Replacing(u) /\ replacer'[u] = replacer[u] /\ replacer[u].call # c /\ replacer[u].call \in Calls
      BY <2>3, <1>6, <1>12 DEF FileAll, FileInv
    <3>2. \A v \in Threads : replacer'[v].pc # "idle" /\ replacer'[v].call = replacer'[u].call => v = u
      BY <3>1, <1>11 DEF Replacing
    <3>3. effects'[K][replacer[u].call] = effects[K][replacer[u].call]
      BY <3>1, <1>4
    <3> QED
      BY <3>1, <3>2, <3>3, <1>3 DEF Replacing
  <2>4. ASSUME NEW r \in fileReceipts PROVE FileEnded(r)'
    <3>1. FileEnded(r) /\ effects'[K][r.call] = effects[K][r.call]
      BY <1>4, <1>13 DEF FileAll, FileInv
    <3> QED
      BY <3>1, <1>3 DEF FileEnded
  <2> QED
    BY <2>1, <2>2, <2>3, <2>4, <1>3 DEF FileAll, FileInv
<1>15. LookInv'
  <2>1. ASSUME NEW u \in Threads, replacer'[u].pc = "checked" PROVE Looked(u)'
    BY <2>1, <1>3, <1>6, VersionMoves DEF FileAll
  <2>2. ASSUME NEW x \in renames PROVE RenameOK(x)'
    BY <2>2, <1>3 DEF FileAll, LookInv, RenameOK
  <2>3. RenameOK(w)'
    <3>1. Looked(t) /\ version \in Nat /\ replacer[t].seen \in Nat
      BY <1>3 DEF FileAll, LookInv, FileType
    <3>2. w.replaced = fileLease[c].expected \/ w.at > w.checked
      BY <3>1, <1>2, <1>9 DEF Looked
    <3> QED
      BY <3>2, <1>2, <1>3, <1>7, <1>9 DEF RenameOK, Replacing
  <2> QED
    BY <2>1, <2>2, <2>3, <1>9 DEF LookInv
<1>16. FilePaid'
  BY <1>3, <1>5 DEF FileAll, FilePaid, PaidBy
<1>17. FileGate'
  <2>1. ASSUME NEW x \in FilesInFlight' PROVE x \in FilesInFlight
    <3>1. PICK u \in Threads : replacer'[u].pc # "idle" /\ replacer'[u].call = x
      BY DEF FilesInFlight
    <3>2. replacer[u].pc # "idle" /\ replacer[u].call = x
      BY <1>11, <3>1
    <3> QED
      BY <3>2 DEF FilesInFlight
  <2> QED
    BY <2>1, <1>3, <1>5 DEF FileAll, FileGate
<1> QED
  BY <1>4, <1>5, <1>10, <1>14, <1>15, <1>16, <1>17 DEF FileAll

LEMMA FileKept ==
    ASSUME Core, FileAll, FileStep, UNCHANGED <<part, inFlight>>
    PROVE  Core' /\ FileAll' /\ Elsewhere("filesystem.write")
<1> DEFINE Goal == Core' /\ FileAll' /\ Elsewhere("filesystem.write")
<1>c. CapType /\ version \in Nat
  BY DEF Core, FileAll, FileType
<1>s. ASSUME UNCHANGED capVars, FileAll' PROVE Goal
  BY <1>s, CapFrame DEF Core, Elsewhere, capVars
<1>1. ASSUME NEW c \in Calls, NEW p \in Placements, FileRefused(c, p) PROVE Goal
  <2>1. /\ fileSeen' = fileSeen \cup {c} /\ UNCHANGED capVars
        /\ UNCHANGED <<fileLease, temps, replacer, fileReceipts, target, version, renames, inFlight>>
    BY <1>1 DEF FileRefused, fileWorld
  <2>2. FileType' /\ FileInv'
    BY <2>1 DEF FileAll, FileType, FileInv, Replacing, FileEnded, Replaced, capVars
  <2>3. LookInv' /\ FilePaid' /\ FileGate'
    BY <2>1 DEF FileAll, LookInv, Looked, RenameOK, FilePaid, PaidBy, FileGate, FilesInFlight, capVars
  <2> QED
    BY <2>1, <2>2, <2>3, <1>s DEF FileAll
<1>2. ASSUME NEW c \in Calls, NEW p \in Placements, NEW before \in Contents, NEW after \in Contents,
             FileAuthorize(c, p, before, after)
      PROVE  Goal
  BY <1>2, LeaseIssued
<1>3. ASSUME NEW t \in Threads, NEW c \in Calls, FileConsume(t, c) PROVE Goal
  BY <1>3, LeaseConsumed
<1>4. ASSUME NEW t \in Threads, FileFails(t) PROVE Goal
  <2>1. FileAll' /\ UNCHANGED capVars
    BY <1>4, <1>c, ReplacerLeaves DEF FileFails
  <2> QED
    BY <2>1, <1>s
<1>5. ASSUME NEW t \in Threads, FirstDigest(t) PROVE Goal
  <2>1. /\ replacer' = [replacer EXCEPT ![t].pc = "compared", ![t].seen = 0] /\ replacer[t].pc = "taken"
        /\ UNCHANGED <<fileSeen, fileLease, fileReceipts, fileWorld, capVars, inFlight>> /\ temps' = temps
    BY <1>5 DEF FirstDigest, Advance
  <2>2. FileAll'
    BY <2>1, <1>c, ReplacerAdvances
  <2> QED
    BY <2>1, <2>2, <1>s
<1>6. ASSUME NEW t \in Threads, WriteTemp(t) PROVE Goal
  <2>1. /\ replacer' = [replacer EXCEPT ![t].pc = "written", ![t].seen = 0] /\ replacer[t].pc = "compared"
        /\ UNCHANGED <<fileSeen, fileLease, fileReceipts, fileWorld, capVars, inFlight>>
        /\ temps' = temps \cup {replacer[t].call}
    BY <1>6 DEF WriteTemp, Advance
  <2>2. FileAll'
    BY <2>1, <1>c, ReplacerAdvances
  <2> QED
    BY <2>1, <2>2, <1>s
<1>7. ASSUME NEW t \in Threads, SecondDigest(t) PROVE Goal
  <2>1. /\ replacer' = [replacer EXCEPT ![t].pc = "checked", ![t].seen = version] /\ replacer[t].pc = "written"
        /\ UNCHANGED <<fileSeen, fileLease, fileReceipts, fileWorld, capVars, inFlight>> /\ temps' = temps
        /\ target = fileLease[replacer[t].call].expected
    BY <1>7 DEF SecondDigest, Advance
  <2>2. FileAll'
    BY <2>1, <1>c, ReplacerAdvances
  <2> QED
    BY <2>1, <2>2, <1>s
<1>8. ASSUME NEW t \in Threads, Rename(t) PROVE Goal
  BY <1>8, RenameKept
<1>9. ASSUME NEW t \in Threads, VerifyReplaced(t) PROVE Goal
  <2>1. FileAll' /\ UNCHANGED capVars
    BY <1>9, <1>c, ReplacerLeaves DEF VerifyReplaced
  <2> QED
    BY <2>1, <1>s
<1>10. ASSUME OtherWriter PROVE Goal
  <2>1. /\ target' \in Contents /\ version' = version + 1
        /\ UNCHANGED <<fileSeen, fileLease, temps, replacer, fileReceipts, renames, capVars, inFlight>>
    BY <1>10 DEF OtherWriter
  <2>2. FileType' /\ FileInv'
    BY <2>1, <1>c DEF FileAll, FileType, FileInv, Replacing, FileEnded, Replaced, capVars
  <2>3. ASSUME NEW u \in Threads, replacer'[u].pc = "checked" PROVE Looked(u)'
    BY <2>1, <2>3, VersionMoves DEF FileAll
  <2>4. LookInv' /\ FilePaid' /\ FileGate'
    BY <2>1, <2>3 DEF FileAll, LookInv, RenameOK, FilePaid, PaidBy, FileGate, FilesInFlight, capVars
  <2> QED
    BY <2>1, <2>2, <2>4, <1>s DEF FileAll
<1> HIDE DEF Goal
<1>11. Goal
  BY <1>1, <1>2, <1>3, <1>4, <1>5, <1>6, <1>7, <1>8, <1>9, <1>10 DEF FileStep
<1> QED
  BY <1>11 DEF Goal

(* -------------------------- the runtime's thread ------------------------ *)

Untouched(k) == effects'[k] = effects[k] /\ uses'[k] = uses[k]

LEMMA RunFrame ==
    ASSUME RunAll, UNCHANGED runtimeVars, Untouched("process.execute"), Untouched("network.connect"),
           contained' = contained, inFlight' = inFlight
    PROVE  RunAll'
<1> USE DEF RunAll, runtimeVars, Untouched
<1>1. RuntimeType' /\ InstallInv'
  BY DEF RuntimeType, InstallInv
<1>2. ProcPaid' /\ NetPaid'
  BY DEF ProcPaid, NetPaid, Owed, UnitsOf
<1>3. NetGate' /\ ProcGate'
  BY DEF NetGate, ProcGate
<1> QED
  BY <1>1, <1>2, <1>3

LEMMA UnitsAreCounted ==
    ASSUME RunAll, CapType
    PROVE  /\ Cardinality(UnitsOf(effects["process.execute"])) \in Nat /\ uses["process.execute"] \in Nat
           /\ Cardinality(UnitsOf(effects["network.connect"])) \in Nat /\ uses["network.connect"] \in Nat
BY FS_CardinalityType DEF RunAll, ProcPaid, NetPaid, CapType, Types

\* The thread ends its call or begins a network call; nothing is charged and
\* nothing reaches the world.
LEMMA RuntimeTurns ==
    ASSUME RunAll, CapType, UNCHANGED <<capVars, inFlight, installSeen, installs>>,
           \/ runtime' \in {runtime, Resting}
           \/ /\ runtime' \in [pc : {"hop"}, call : Calls, at : Nat, url : Urls \cup {BadUrl},
                               https : BOOLEAN, hop : Nat]
              /\ ~contained["mediator"]
    PROVE  RunAll'
<1> USE DEF RunAll, capVars
<1>0. Resting.pc = "idle" /\ Resting \in [pc : {"idle", "hop", "send", "gate", "run"}, call : Calls \cup {NoCall},
                                         at : Nat, url : Urls \cup {BadUrl}, https : BOOLEAN, hop : Nat]
  BY DEF Resting
<1>1. runtime' = runtime \/ runtime'.pc = "idle" \/ (runtime'.pc = "hop" /\ ~contained["mediator"])
  BY <1>0
<1>2. RuntimeType'
  <2>1. CASE runtime' = runtime
    BY <2>1 DEF RuntimeType
  <2>2. CASE runtime' = Resting
    BY <2>2, <1>0 DEF RuntimeType
  <2>3. CASE runtime' \in [pc : {"hop"}, call : Calls, at : Nat, url : Urls \cup {BadUrl},
                           https : BOOLEAN, hop : Nat]
    BY <2>3 DEF RuntimeType
  <2> QED
    BY <2>1, <2>2, <2>3
<1>3. InstallInv'
  BY <1>1 DEF InstallInv
<1>4. Owed("run")' <= Owed("run") /\ Owed("send")' <= Owed("send")
      /\ Owed("run") \in Nat /\ Owed("send") \in Nat /\ Owed("run")' \in Nat /\ Owed("send")' \in Nat
  BY <1>1 DEF Owed
<1>5. UnitsOf(effects["process.execute"])' = UnitsOf(effects["process.execute"])
      /\ UnitsOf(effects["network.connect"])' = UnitsOf(effects["network.connect"])
  BY DEF UnitsOf
<1>6. ProcPaid' /\ NetPaid'
  BY <1>4, <1>5, UnitsAreCounted DEF ProcPaid, NetPaid
<1>7. NetGate' /\ ProcGate'
  BY <1>1 DEF NetGate, ProcGate
<1> QED
  BY <1>2, <1>3, <1>6, <1>7

RunGoal == Core' /\ RunAll' /\ contained' = contained /\ Untouched("credential.access") /\ Untouched("filesystem.write")

LEMMA HopAuthorized ==
    ASSUME Core, RunAll, NEW dns, AuthorizeHop(dns), UNCHANGED <<part, inFlight>>
    PROVE  RunGoal
<1> DEFINE K == "network.connect"
<1>1. runtime.at \in Nat /\ runtime.call \in Calls /\ runtime.pc = "hop"
  BY DEF RunAll, RuntimeType, AuthorizeHop
<1>2. /\ Eligible(K, runtime.at) /\ Charge(K) /\ UNCHANGED <<now, gates, effects, part, inFlight>>
      /\ runtime' = [runtime EXCEPT !.pc = "send"] /\ UNCHANGED <<installSeen, installs>>
  BY DEF AuthorizeHop, NetworkCharged
<1>3. Core' /\ uses'[K] = uses[K] + 1 /\ \A j \in Types \ {K} : uses'[j] = uses[j]
  BY <1>1, <1>2, Charged DEF Core, Types
<1>4. contained' = contained /\ effects' = effects
      /\ Untouched("credential.access") /\ Untouched("filesystem.write") /\ uses'["process.execute"] = uses["process.execute"]
  BY <1>2, <1>3 DEF Untouched, gates, Types
<1>5. runtime'.pc = "send" /\ runtime'.call = runtime.call
  BY <1>2 DEF RunAll, RuntimeType
<1>6. RuntimeType'
  BY <1>1, <1>2 DEF RunAll, RuntimeType
<1>7. InstallInv'
  BY <1>2, <1>4, <1>5 DEF RunAll, InstallInv
<1>8. ProcPaid' /\ NetPaid'
  <2>1. Owed("run")' = Owed("run") /\ Owed("send")' = 1 /\ Owed("send") = 0
    BY <1>1, <1>5 DEF Owed
  <2>2. UnitsOf(effects["process.execute"])' = UnitsOf(effects["process.execute"])
        /\ UnitsOf(effects["network.connect"])' = UnitsOf(effects["network.connect"])
    BY <1>4 DEF UnitsOf
  <2>3. ProcPaid'
    BY <1>4, <2>1, <2>2 DEF RunAll, ProcPaid
  <2>4. NetPaid'
    BY <1>3, <2>1, <2>2, UnitsAreCounted DEF RunAll, NetPaid, Core
  <2> QED
    BY <2>3, <2>4
<1>9. NetGate' /\ ProcGate'
  BY <1>1, <1>2, <1>4, <1>5 DEF RunAll, NetGate, ProcGate
<1> QED
  BY <1>3, <1>4, <1>6, <1>7, <1>8, <1>9 DEF RunGoal, RunAll

LEMMA HopSent ==
    ASSUME Core, RunAll, Sent, UNCHANGED <<part, inFlight>>, NEW u \in Urls, NEW n \in Nat,
           runtime' \in {Resting, [runtime EXCEPT !.pc = "hop", !.url = u, !.hop = n]}
    PROVE  RunGoal
<1> DEFINE K == "network.connect"
<1>1. runtime.call \in Calls /\ runtime.pc = "send"
  BY DEF RunAll, RuntimeType, Sent
<1>2. Reached(K, runtime.call) /\ UNCHANGED <<now, authority, gates, part, inFlight, installSeen, installs>>
  BY DEF Sent
<1>3. /\ Core' /\ effects'[K] = [effects[K] EXCEPT ![runtime.call] = @ + 1]
      /\ \A j \in EffectTypes \ {K} : effects'[j] = effects[j]
  BY <1>1, <1>2, Effected DEF Core, EffectTypes, Types
<1>4. contained' = contained /\ uses' = uses /\ Untouched("credential.access") /\ Untouched("filesystem.write")
      /\ effects'["process.execute"] = effects["process.execute"]
  BY <1>2, <1>3 DEF Untouched, gates, authority, EffectTypes, Types
<1>5. runtime'.pc = "idle" \/ (runtime'.pc = "hop" /\ runtime'.call = runtime.call)
  <2>1. CASE runtime' = Resting
    BY <2>1 DEF Resting
  <2>2. CASE runtime' = [runtime EXCEPT !.pc = "hop", !.url = u, !.hop = n]
    BY <2>2 DEF RunAll, RuntimeType
  <2> QED
    BY <2>1, <2>2
<1>6. RuntimeType'
  <2>1. CASE runtime' = Resting
    BY <1>2, <2>1 DEF RunAll, RuntimeType, Resting
  <2>2. CASE runtime' = [runtime EXCEPT !.pc = "hop", !.url = u, !.hop = n]
    BY <1>1, <1>2, <2>2 DEF RunAll, RuntimeType
  <2> QED
    BY <2>1, <2>2
<1>7. InstallInv'
  BY <1>2, <1>4, <1>5 DEF RunAll, InstallInv
<1>8. ProcPaid'
  <2>1. Owed("run")' = 0 /\ Owed("run") = 0
    BY <1>1, <1>5 DEF Owed
  <2>2. UnitsOf(effects["process.execute"])' = UnitsOf(effects["process.execute"])
    BY <1>4 DEF UnitsOf
  <2> QED
    BY <1>4, <2>1, <2>2 DEF RunAll, ProcPaid
<1>9. NetPaid'
  <2>1. Owed("send")' = 0 /\ Owed("send") = 1
    BY <1>1, <1>5 DEF Owed
  <2>2. effects[K] \in [Calls -> Nat]
    BY DEF Core, CapType, EffectTypes, Types
  <2>3. PICK f : f = effects'[K]
    OBVIOUS
  <2>4. IsFiniteSet(UnitsOf(f)) /\ Cardinality(UnitsOf(f)) = Cardinality(UnitsOf(effects[K])) + 1
    BY <1>1, <1>3, <2>2, <2>3, UnitsGrow DEF RunAll, NetPaid
  <2>5. UnitsOf(effects[K])' = UnitsOf(f)
    BY <2>3 DEF UnitsOf
  <2> QED
    BY <1>4, <2>1, <2>4, <2>5, UnitsAreCounted DEF RunAll, NetPaid, Core
<1>10. NetGate' /\ ProcGate'
  BY <1>1, <1>2, <1>4, <1>5 DEF RunAll, NetGate, ProcGate
<1> QED
  BY <1>3, <1>4, <1>6, <1>7, <1>8, <1>9, <1>10 DEF RunGoal, RunAll

LEMMA NetworkKept ==
    ASSUME Core, RunAll, NetworkStep, UNCHANGED <<part, inFlight>>
    PROVE  RunGoal
<1>c. CapType /\ now \in Nat
  BY DEF Core, CapType
<1>s. ASSUME UNCHANGED capVars, RunAll' PROVE RunGoal
  BY <1>s, CapFrame DEF Core, RunGoal, Untouched, capVars
<1>u. [scheme |-> "https", host |-> "granted"] \in Urls
  BY DEF Urls
<1>1. ASSUME NEW c \in Calls, NEW w \in BOOLEAN, NetworkRefused(c, w) PROVE RunGoal
  <2>1. UNCHANGED <<capVars, inFlight, installSeen, installs, runtime>>
    BY <1>1 DEF NetworkRefused
  <2> QED
    BY <2>1, <1>c, <1>s, RuntimeTurns
<1>2. ASSUME NEW c \in Calls, NEW u \in Urls, NEW d \in 0 .. now, NetworkBegin(c, u, d) PROVE RunGoal
  <2>1. UNCHANGED <<capVars, inFlight, installSeen, installs>> /\ ~contained["mediator"]
    BY <1>2 DEF NetworkBegin
  <2>2. runtime' \in [pc : {"hop"}, call : Calls, at : Nat, url : Urls \cup {BadUrl}, https : BOOLEAN, hop : Nat]
    BY <1>2, <1>c DEF NetworkBegin
  <2> QED
    BY <2>1, <2>2, <1>c, <1>s, RuntimeTurns
<1>3. ASSUME NEW dns \in Answers, AuthorizeHop(dns) PROVE RunGoal
  BY <1>3, HopAuthorized
<1>4. ASSUME NEW dns \in Answers, HopBlocked(dns) PROVE RunGoal
  <2>1. UNCHANGED <<capVars, inFlight, installSeen, installs>> /\ runtime' = Resting
    BY <1>4 DEF HopBlocked, NetworkBlocked
  <2> QED
    BY <2>1, <1>c, <1>s, RuntimeTurns
<1>5. ASSUME NEW u \in Urls, HopRedirect(u) PROVE RunGoal
  <2>1. Sent /\ runtime' = [runtime EXCEPT !.pc = "hop", !.url = u, !.hop = runtime.hop + 1]
    BY <1>5 DEF HopRedirect
  <2>2. runtime.hop + 1 \in Nat
    BY DEF RunAll, RuntimeType
  <2> QED
    BY <2>1, <2>2, HopSent
<1>6. ASSUME NoResolver PROVE RunGoal
  <2>1. UNCHANGED <<capVars, inFlight, installSeen, installs>> /\ runtime' = Resting
    BY <1>6 DEF NoResolver, NetworkBlocked
  <2> QED
    BY <2>1, <1>c, <1>s, RuntimeTurns
<1>7. ASSUME HopFinal \/ HopRefused \/ TransportRaises PROVE RunGoal
  <2>1. Sent /\ runtime' = Resting
    BY <1>7 DEF HopFinal, HopRefused, TransportRaises
  <2> QED
    BY <2>1, <1>u, HopSent
<1>8. ASSUME ResolverRaises PROVE RunGoal
  <2>1. UNCHANGED <<capVars, inFlight, installSeen, installs>> /\ runtime' = Resting
    BY <1>8 DEF ResolverRaises
  <2> QED
    BY <2>1, <1>c, <1>s, RuntimeTurns
<1> QED
  BY <1>1, <1>2, <1>3, <1>4, <1>5, <1>6, <1>7, <1>8 DEF NetworkStep

\* A new receipt of an install.
LEMMA InstallNoted ==
    ASSUME RuntimeType, NEW c \in Calls, NEW a \in {"ALLOW", "BLOCK"}, NEW p \in {"ALLOW", "BLOCK", "NOT_REQUESTED"},
           NEW o \in {"SUCCEEDED", "FAILED", "NOT_EXECUTED"}, InstallReceipt(c, a, p, o)
    PROVE  \E r \in [call : Calls, package : {"ALLOW", "BLOCK"}, process : {"ALLOW", "BLOCK", "NOT_REQUESTED"},
                     outcome : {"SUCCEEDED", "FAILED", "NOT_EXECUTED"}] :
             installs' = installs \cup {r} /\ r.call = c /\ r.process = p /\ r.outcome = o
<1>1. PICK r : r = [call |-> c, package |-> a, process |-> p, outcome |-> o]
  OBVIOUS
<1>2. r \in [call : Calls, package : {"ALLOW", "BLOCK"}, process : {"ALLOW", "BLOCK", "NOT_REQUESTED"},
             outcome : {"SUCCEEDED", "FAILED", "NOT_EXECUTED"}]
      /\ r.call = c /\ r.process = p /\ r.outcome = o
  BY <1>1
<1>3. installs' = installs \cup {r}
  BY <1>1 DEF InstallReceipt
<1> QED
  BY <1>2, <1>3

\* The thread ends an install: what it owed is done or given up.
LEMMA InstallEnds ==
    ASSUME Core, RunAll, NEW p \in {"ALLOW", "BLOCK"}, NEW o \in {"SUCCEEDED", "FAILED", "NOT_EXECUTED"},
           runtime.pc = IF p = "ALLOW" THEN "run" ELSE "gate", runtime' = Resting,
           InstallReceipt(runtime.call, "ALLOW", p, o), UNCHANGED <<installSeen, contained, inFlight>>,
           uses' = uses, \A j \in EffectTypes \ {"process.execute"} : effects'[j] = effects[j],
           \/ effects' = effects /\ o # "SUCCEEDED"
           \/ /\ p = "ALLOW"
              /\ effects'["process.execute"] = [effects["process.execute"] EXCEPT ![runtime.call] = @ + 1]
    PROVE  RunAll'
<1> DEFINE K == "process.execute"
<1>1. PICK c \in Calls : c = runtime.call
  BY DEF RunAll, RuntimeType
<1>2. PICK r \in [call : Calls, package : {"ALLOW", "BLOCK"}, process : {"ALLOW", "BLOCK", "NOT_REQUESTED"},
                  outcome : {"SUCCEEDED", "FAILED", "NOT_EXECUTED"}] :
        installs' = installs \cup {r} /\ r.call = c /\ r.process = p /\ r.outcome = o
  BY <1>1, InstallNoted DEF RunAll
<1>3. runtime.pc \in {"gate", "run"} /\ runtime'.pc = "idle"
  BY DEF Resting
<1>4. RuntimeType'
  BY <1>2 DEF RunAll, RuntimeType, Resting
<1>5. effects[K] \in [Calls -> Nat] /\ effects["network.connect"]' = effects["network.connect"]
  BY DEF Core, CapType, EffectTypes, Types
<1>6. /\ c \in installSeen /\ effects[K][c] = 0 /\ \A x \in installs : x.call = c => x.process = "NOT_REQUESTED"
  BY <1>1, <1>3 DEF RunAll, InstallInv
<1>7. /\ \A d \in Calls \ {c} : effects'[K][d] = effects[K][d]
      /\ (effects'[K][c] = 0 /\ o # "SUCCEEDED") \/ (effects'[K][c] = 1 /\ p = "ALLOW")
  <2>1. CASE effects' = effects /\ o # "SUCCEEDED"
    BY <2>1, <1>6
  <2>2. CASE p = "ALLOW" /\ effects'[K] = [effects[K] EXCEPT ![c] = @ + 1]
    BY <2>2, <1>5, <1>6
  <2> QED
    BY <2>1, <2>2, <1>1
<1>8. InstallInv'
  <2>1. \A d \in Calls : effects'[K][d] > 0 => d \in installSeen' /\ effects'[K][d] = 1
    BY <1>6, <1>7 DEF RunAll, InstallInv
  <2>2. ASSUME NEW x \in installs'
        PROVE  /\ x.process # "NOT_REQUESTED" => x.call \in installSeen'
               /\ x.process = "BLOCK" => effects'[K][x.call] = 0
               /\ x.outcome = "SUCCEEDED" => x.process = "ALLOW" /\ effects'[K][x.call] = 1
    <3>1. CASE x = r
      BY <3>1, <1>2, <1>6, <1>7
    <3>2. CASE x \in installs
      <4>1. /\ x.process # "NOT_REQUESTED" => x.call \in installSeen
            /\ x.process = "BLOCK" => effects[K][x.call] = 0
            /\ x.outcome = "SUCCEEDED" => x.process = "ALLOW" /\ effects[K][x.call] = 1
            /\ x.call \in Calls
        BY <3>2 DEF RunAll, InstallInv, RuntimeType
      <4>2. CASE x.call = c
        BY <4>1, <4>2, <3>2, <1>6
      <4>3. CASE x.call # c
        BY <4>1, <4>3, <1>7
      <4> QED
        BY <4>2, <4>3
    <3> QED
      BY <3>1, <3>2, <1>2
  <2> QED
    BY <2>1, <2>2, <1>3 DEF InstallInv
<1>9. ProcPaid'
  <2>1. PICK f : f = effects'[K]
    OBVIOUS
  <2>2. UnitsOf(effects[K])' = UnitsOf(f)
    BY <2>1 DEF UnitsOf
  <2>3. Owed("run")' = 0 /\ Owed("run") = (IF p = "ALLOW" THEN 1 ELSE 0)
    BY <1>3 DEF Owed
  <2>4. CASE effects' = effects
    BY <2>1, <2>2, <2>3, <2>4, UnitsAreCounted DEF RunAll, ProcPaid, Core
  <2>5. CASE p = "ALLOW" /\ effects'[K] = [effects[K] EXCEPT ![c] = @ + 1]
    <3>1. IsFiniteSet(UnitsOf(f)) /\ Cardinality(UnitsOf(f)) = Cardinality(UnitsOf(effects[K])) + 1
      BY <2>1, <2>5, <1>5, UnitsGrow DEF RunAll, ProcPaid
    <3> QED
      BY <2>2, <2>3, <2>5, <3>1, UnitsAreCounted DEF RunAll, ProcPaid, Core
  <2> QED
    BY <2>4, <2>5, <1>1
<1>10. NetPaid'
  <2>1. Owed("send")' = 0 /\ Owed("send") = 0
    BY <1>3 DEF Owed
  <2>2. UnitsOf(effects["network.connect"])' = UnitsOf(effects["network.connect"])
    BY <1>5 DEF UnitsOf
  <2> QED
    BY <2>1, <2>2 DEF RunAll, NetPaid
<1>11. NetGate' /\ ProcGate'
  BY <1>3 DEF NetGate, ProcGate
<1> QED
  BY <1>4, <1>8, <1>9, <1>10, <1>11 DEF RunAll

LEMMA InstallStarts ==
    ASSUME Core, RunAll, NEW c \in Calls, NEW r, NEW w, InstallBegin(c, r, w), UNCHANGED <<part, inFlight>>
    PROVE  RunGoal
<1>1. /\ Eligible("package.install", now) /\ Charge("package.install") /\ UNCHANGED <<now, gates, effects, part, inFlight>>
      /\ c \notin installSeen /\ installSeen' = installSeen \cup {c} /\ installs' = installs /\ runtime.pc = "idle"
  BY DEF InstallBegin, InstallAdmits
<1>2. now \in Nat
  BY DEF Core, CapType
<1>3. Core' /\ \A j \in Types \ {"package.install"} : uses'[j] = uses[j]
  BY <1>1, <1>2, Charged DEF Core, Types
<1>4. contained' = contained /\ effects' = effects /\ Untouched("credential.access") /\ Untouched("filesystem.write")
      /\ Untouched("process.execute") /\ Untouched("network.connect")
  BY <1>1, <1>3 DEF Untouched, gates, Types
<1>5. runtime' = runtime \/ (runtime'.pc = "gate" /\ runtime'.call = c)
  BY DEF InstallBegin, Resting
<1>6. RuntimeType'
  <2>1. CASE runtime' = runtime
    BY <1>1, <2>1 DEF RunAll, RuntimeType
  <2>2. CASE runtime' = [Resting EXCEPT !.pc = "gate", !.call = c, !.at = now]
    BY <1>1, <1>2, <2>2 DEF RunAll, RuntimeType, Resting
  <2> QED
    BY <2>1, <2>2 DEF InstallBegin
<1>7. InstallInv'
  <2>1. effects["process.execute"][c] = 0
    BY <1>1 DEF RunAll, InstallInv, Core, CapType, EffectTypes, Types
  <2>2. \A x \in installs : x.call = c => x.process = "NOT_REQUESTED"
    BY <1>1 DEF RunAll, InstallInv
  <2> QED
    BY <1>1, <1>4, <1>5, <2>1, <2>2 DEF RunAll, InstallInv
<1>8. ProcPaid' /\ NetPaid'
  <2>1. Owed("run")' = Owed("run") /\ Owed("send")' = Owed("send")
    BY <1>1, <1>5 DEF Owed
  <2>2. UnitsOf(effects["process.execute"])' = UnitsOf(effects["process.execute"])
        /\ UnitsOf(effects["network.connect"])' = UnitsOf(effects["network.connect"])
    BY <1>4 DEF UnitsOf
  <2> QED
    BY <1>4, <2>1, <2>2 DEF RunAll, ProcPaid, NetPaid, Untouched
<1>9. NetGate' /\ ProcGate'
  BY <1>1, <1>4, <1>5 DEF RunAll, NetGate, ProcGate
<1> QED
  BY <1>3, <1>4, <1>6, <1>7, <1>8, <1>9 DEF RunGoal, RunAll

LEMMA ProcessCharged ==
    ASSUME Core, RunAll, GatePassed, UNCHANGED <<part, inFlight>>
    PROVE  RunGoal
<1> DEFINE K == "process.execute"
<1>1. runtime.at \in Nat /\ runtime.call \in Calls /\ runtime.pc = "gate"
  BY DEF RunAll, RuntimeType, GatePassed
<1>2. /\ Eligible(K, runtime.at) /\ Charge(K) /\ UNCHANGED <<now, gates, effects, part, inFlight>>
      /\ runtime' = [runtime EXCEPT !.pc = "run"] /\ UNCHANGED <<installSeen, installs>> /\ ~contained["mediator"]
  BY DEF GatePassed, GateAdmits
<1>3. Core' /\ uses'[K] = uses[K] + 1 /\ \A j \in Types \ {K} : uses'[j] = uses[j]
  BY <1>1, <1>2, Charged DEF Core, Types
<1>4. contained' = contained /\ effects' = effects
      /\ Untouched("credential.access") /\ Untouched("filesystem.write") /\ uses'["network.connect"] = uses["network.connect"]
  BY <1>2, <1>3 DEF Untouched, gates, Types
<1>5. runtime'.pc = "run" /\ runtime'.call = runtime.call
  BY <1>2 DEF RunAll, RuntimeType
<1>6. RuntimeType'
  BY <1>1, <1>2 DEF RunAll, RuntimeType
<1>7. InstallInv'
  BY <1>1, <1>2, <1>4, <1>5 DEF RunAll, InstallInv
<1>8. ProcPaid' /\ NetPaid'
  <2>1. Owed("send")' = Owed("send") /\ Owed("run")' = 1 /\ Owed("run") = 0
    BY <1>1, <1>5 DEF Owed
  <2>2. UnitsOf(effects["process.execute"])' = UnitsOf(effects["process.execute"])
        /\ UnitsOf(effects["network.connect"])' = UnitsOf(effects["network.connect"])
    BY <1>4 DEF UnitsOf
  <2>3. NetPaid'
    BY <1>4, <2>1, <2>2 DEF RunAll, NetPaid
  <2>4. ProcPaid'
    BY <1>3, <2>1, <2>2, UnitsAreCounted DEF RunAll, ProcPaid, Core
  <2> QED
    BY <2>3, <2>4
<1>9. NetGate' /\ ProcGate'
  BY <1>2, <1>4, <1>5 DEF RunAll, NetGate, ProcGate
<1> QED
  BY <1>3, <1>4, <1>6, <1>7, <1>8, <1>9 DEF RunGoal, RunAll

LEMMA InstallKept ==
    ASSUME Core, RunAll, InstallStep, UNCHANGED <<part, inFlight>>
    PROVE  RunGoal
<1>s. ASSUME UNCHANGED capVars, RunAll' PROVE RunGoal
  BY <1>s, CapFrame DEF Core, RunGoal, Untouched, capVars
<1>1. ASSUME NEW c \in Calls, NEW q \in InstallRequests, InstallRefused(c, q) PROVE RunGoal
  <2>1. UNCHANGED <<capVars, inFlight, runtime>> /\ installSeen' = installSeen \cup {c} /\ runtime.pc = "idle"
        /\ InstallReceipt(c, "BLOCK", "NOT_REQUESTED", "NOT_EXECUTED")
    BY <1>1 DEF InstallRefused
  <2>2. PICK r \in [call : Calls, package : {"ALLOW", "BLOCK"}, process : {"ALLOW", "BLOCK", "NOT_REQUESTED"},
                    outcome : {"SUCCEEDED", "FAILED", "NOT_EXECUTED"}] :
          installs' = installs \cup {r} /\ r.call = c /\ r.process = "NOT_REQUESTED" /\ r.outcome = "NOT_EXECUTED"
    BY <2>1, InstallNoted DEF RunAll
  <2>3. RuntimeType' /\ InstallInv'
    BY <2>1, <2>2 DEF RunAll, RuntimeType, InstallInv, capVars
  <2>4. ProcPaid' /\ NetPaid' /\ NetGate' /\ ProcGate'
    BY <2>1 DEF RunAll, ProcPaid, NetPaid, UnitsOf, Owed, NetGate, ProcGate, capVars
  <2> QED
    BY <2>1, <2>3, <2>4, <1>s DEF RunAll
<1>2. ASSUME NEW c \in Calls, NEW q \in InstallRequests, NEW w \in Workspaces, InstallBegin(c, q, w) PROVE RunGoal
  BY <1>2, InstallStarts
<1>3. ASSUME GateRefused PROVE RunGoal
  <2>1. UNCHANGED <<capVars, inFlight, installSeen>> /\ runtime' = Resting /\ runtime.pc = "gate"
        /\ InstallReceipt(runtime.call, "ALLOW", "BLOCK", "NOT_EXECUTED")
    BY <1>3 DEF GateRefused
  <2>2. RunAll'
    BY <2>1, InstallEnds DEF capVars
  <2> QED
    BY <2>1, <2>2, <1>s
<1>4. ASSUME GatePassed PROVE RunGoal
  BY <1>4, ProcessCharged
<1>5. ASSUME ExecutorFails PROVE RunGoal
  <2>1. UNCHANGED <<capVars, inFlight, installSeen>> /\ runtime' = Resting /\ runtime.pc = "run"
        /\ InstallReceipt(runtime.call, "ALLOW", "ALLOW", "FAILED")
    BY <1>5 DEF ExecutorFails
  <2>2. RunAll'
    BY <2>1, InstallEnds DEF capVars
  <2> QED
    BY <2>1, <2>2, <1>s
<1>6. ASSUME NEW o \in {"SUCCEEDED", "FAILED"}, RunInstaller(o) PROVE RunGoal
  <2>1. /\ UNCHANGED <<now, authority, gates, part, inFlight, installSeen>> /\ runtime' = Resting /\ runtime.pc = "run"
        /\ InstallReceipt(runtime.call, "ALLOW", "ALLOW", o) /\ Reached("process.execute", runtime.call)
    BY <1>6 DEF RunInstaller
  <2>2. runtime.call \in Calls
    BY <2>1 DEF RunAll, RuntimeType
  <2>3. /\ Core' /\ effects'["process.execute"] = [effects["process.execute"] EXCEPT ![runtime.call] = @ + 1]
        /\ \A j \in EffectTypes \ {"process.execute"} : effects'[j] = effects[j]
    BY <2>1, <2>2, Effected DEF Core, EffectTypes, Types
  <2>4. uses' = uses /\ contained' = contained
    BY <2>1 DEF authority, gates
  <2>5. RunAll'
    BY <2>1, <2>3, <2>4, InstallEnds
  <2> QED
    BY <2>3, <2>4, <2>5 DEF RunGoal, Untouched, EffectTypes, Types
<1> QED
  BY <1>1, <1>2, <1>3, <1>4, <1>5, <1>6 DEF InstallStep

(* ---------------------- capabilities and containment -------------------- *)

LEMMA AuthorityKept ==
    ASSUME IInv, AuthorityStep, UNCHANGED <<part, inFlight, credVars, fileVars, runtimeVars>>
    PROVE  IInv'
<1> USE DEF IInv, Core
<1>1. UNCHANGED <<uses, reliedAt, contained, incidents, effects>>
  BY DEF AuthorityStep, Admit, Revoke, ExpireDue, Tick, authority, gates
<1>2. status' \in [Types -> {"none", "active", "revoked", "expired"}] /\ now' \in Nat
  <2>1. CASE \E k \in TypesOf(part) : Admit(k) \/ Revoke(k)
    BY <2>1 DEF Admit, Revoke, CapType
  <2>2. CASE ExpireDue
    BY <2>2 DEF ExpireDue, CapType
  <2>3. CASE Tick
    BY <2>3 DEF Tick, authority, CapType
  <2> QED
    BY <2>1, <2>2, <2>3 DEF AuthorityStep
<1>3. Core'
  BY <1>1, <1>2 DEF CapType, Budgets, BackdatingGainsNothing
<1>4. CredAll' /\ FileAll' /\ RunAll'
  BY <1>1, CredFrame, FileFrame, RunFrame DEF Untouched
<1> QED
  BY <1>3, <1>4

LEMMA ContainmentKept ==
    ASSUME IInv, NEW g \in Gates, EnterContainment(g) \/ ExitContainment(g),
           UNCHANGED <<part, credVars, fileVars, runtimeVars>>
    PROVE  IInv'
<1> USE DEF IInv
<1>1. UNCHANGED <<now, status, uses, reliedAt, effects>>
  BY DEF EnterContainment, ExitContainment, authority
<1>2. CredentialsInFlight \subseteq Calls /\ FilesInFlight \subseteq Calls
      /\ (runtime.pc # "idle" => runtime.call \in Calls)
  BY DEF CredentialsInFlight, FilesInFlight, CredAll, FileAll, RunAll, CredType, FileType, RuntimeType
<1>3. \A k \in EffectTypes : PastGate(k) \subseteq Calls
  BY <1>2, PastGates
<1>4. inFlight' \in [EffectTypes -> SUBSET Calls] /\ contained' \in [Gates -> BOOLEAN] /\ incidents' \in [Gates -> Nat]
  <2>1. CASE EnterContainment(g)
    BY <2>1, <1>3 DEF EnterContainment, Core, CapType
  <2>2. CASE ExitContainment(g)
    BY <2>2 DEF ExitContainment, Core, CapType
  <2> QED
    BY <2>1, <2>2
<1>5. Core'
  BY <1>1, <1>4 DEF Core, CapType, Budgets, BackdatingGainsNothing
<1>6. ASSUME NEW k \in EffectTypes, contained'[GateOf(k)]
      PROVE  inFlight'[k] = PastGate(k) \/ (inFlight'[k] = inFlight[k] /\ contained[GateOf(k)])
  <2>1. CASE EnterContainment(g)
    BY <1>6, <2>1 DEF EnterContainment, Core, CapType
  <2>2. CASE ExitContainment(g)
    BY <1>6, <2>2 DEF ExitContainment, Core, CapType
  <2> QED
    BY <2>1, <2>2
<1>7. CredAll'
  <2>1. CredentialsInFlight' = CredentialsInFlight
    BY DEF CredentialsInFlight, credVars
  <2>2. CredGate'
    BY <1>6, <2>1, PastGates DEF CredAll, CredGate
  <2>3. CredType' /\ CredInv' /\ CredPaid'
    BY <1>1 DEF CredAll, CredType, CredInv, CredPaid, PaidBy, credVars
  <2> QED
    BY <2>2, <2>3 DEF CredAll
<1>8. FileAll'
  <2>1. FilesInFlight' = FilesInFlight
    BY DEF FilesInFlight, fileVars
  <2>2. FileGate'
    BY <1>6, <2>1, PastGates DEF FileAll, FileGate
  <2>3. FileType' /\ FileInv' /\ LookInv' /\ FilePaid'
    BY <1>1 DEF FileAll, FileType, FileInv, Replacing, FileEnded, Replaced, LookInv, Looked, RenameOK,
                FilePaid, PaidBy, fileVars
  <2> QED
    BY <2>2, <2>3 DEF FileAll
<1>9. RunAll'
  <2>1. NetGate'
    BY <1>6, PastGates DEF RunAll, NetGate, runtimeVars
  <2>2. ProcGate'
    BY <1>6, PastGates DEF RunAll, ProcGate, runtimeVars
  <2>3. RuntimeType' /\ InstallInv' /\ ProcPaid' /\ NetPaid'
    BY <1>1 DEF RunAll, RuntimeType, InstallInv, ProcPaid, NetPaid, Owed, UnitsOf, runtimeVars
  <2> QED
    BY <2>1, <2>2, <2>3 DEF RunAll
<1> QED
  BY <1>5, <1>7, <1>8, <1>9

(* ------------------------------- theorems ------------------------------- *)

LEMMA InitInv == Init => IInv
<1> SUFFICES ASSUME Init PROVE IInv
  OBVIOUS
<1>0. {"credential.access", "filesystem.write", "process.execute", "network.connect"} \subseteq Types \cap EffectTypes
      /\ {"credential broker", "file broker", "mediator"} = Gates
  BY DEF Types, EffectTypes, Gates
<1>1. Core
  BY UsesAssumption, TimeAssumption
  DEF Init, CapInit, Core, CapType, Budgets, BackdatingGainsNothing, Types, EffectTypes
<1>2. /\ \A k \in EffectTypes : effects[k] = [c \in Calls |-> 0]
      /\ \A k \in Types : uses[k] = 0
      /\ \A g \in Gates : contained[g] = FALSE
  BY DEF Init, CapInit
<1>3. CredAll
  <2>1. /\ credSeen = {} /\ credReceipts = {} /\ credLease = [c \in Calls |-> NoLease]
        /\ injector = [t \in Threads |-> Idle]
    BY DEF Init, CredInit
  <2>2. PaidBy(credLease) = {}
    BY <2>1 DEF PaidBy, NoLease
  <2>3. CredPaid
    <3>1. IsFiniteSet(PaidBy(credLease)) /\ Cardinality(PaidBy(credLease)) = 0
      BY <2>2, NoneYet
    <3>2. uses["credential.access"] = 0
      BY <1>0, <1>2
    <3> QED
      BY <3>1, <3>2 DEF CredPaid
  <2>4. CredType
    BY <2>1 DEF CredType, Idle, NoLease
  <2>5. effects["credential.access"] = [c \in Calls |-> 0]
    BY <1>0, <1>2
  <2>6. (\A c \in Calls : credLease[c].state = "none") /\ \A t \in Threads : injector[t].pc = "idle"
    BY <2>1 DEF Idle, NoLease
  <2>7. CredInv
    BY <2>1, <2>5, <2>6 DEF CredInv
  <2>8. CredGate
    BY <1>0, <1>2 DEF CredGate
  <2> QED
    BY <2>3, <2>4, <2>7, <2>8 DEF CredAll
<1>4. FileAll
  <2>1. /\ target \in Contents /\ version = 0 /\ temps = {} /\ renames = {} /\ fileSeen = {} /\ fileReceipts = {}
        /\ fileLease = [c \in Calls |-> Unleased] /\ replacer = [t \in Threads |-> AtRest]
    BY DEF Init, FileInit
  <2>2. PaidBy(fileLease) = {}
    BY <2>1 DEF PaidBy, Unleased
  <2>3. FilePaid
    <3>1. IsFiniteSet(PaidBy(fileLease)) /\ Cardinality(PaidBy(fileLease)) = 0
      BY <2>2, NoneYet
    <3>2. uses["filesystem.write"] = 0
      BY <1>0, <1>2
    <3> QED
      BY <3>1, <3>2 DEF FilePaid
  <2>4. FileType
    BY <2>1 DEF FileType, Unleased, AtRest, ReplacerPcs
  <2>5. effects["filesystem.write"] = [c \in Calls |-> 0]
    BY <1>0, <1>2
  <2>6. (\A c \in Calls : fileLease[c].state = "none") /\ \A t \in Threads : replacer[t].pc = "idle"
    BY <2>1 DEF AtRest, Unleased
  <2>7. FileInv /\ LookInv
    BY <2>1, <2>5, <2>6 DEF FileInv, LookInv
  <2>8. FileGate
    BY <1>0, <1>2 DEF FileGate
  <2> QED
    BY <2>3, <2>4, <2>7, <2>8 DEF FileAll
<1>5. RunAll
  <2>1. runtime = Resting /\ installSeen = {} /\ installs = {}
    BY DEF Init, RuntimeInit
  <2>2. runtime.pc = "idle"
    BY <2>1 DEF Resting
  <2>3. ASSUME NEW k \in EffectTypes PROVE UnitsOf(effects[k]) = {}
    BY <1>2 DEF UnitsOf
  <2>4. ProcPaid /\ NetPaid
    <3>1. \A k \in EffectTypes : IsFiniteSet(UnitsOf(effects[k])) /\ Cardinality(UnitsOf(effects[k])) = 0
      BY <2>3, NoneYet
    <3>2. uses["process.execute"] = 0 /\ uses["network.connect"] = 0 /\ Owed("run") = 0 /\ Owed("send") = 0
      BY <1>0, <1>2, <2>2 DEF Owed
    <3>3. /\ IsFiniteSet(UnitsOf(effects["process.execute"])) /\ Cardinality(UnitsOf(effects["process.execute"])) = 0
          /\ IsFiniteSet(UnitsOf(effects["network.connect"])) /\ Cardinality(UnitsOf(effects["network.connect"])) = 0
      BY <3>1, <1>0, Zenon
    <3> QED
      BY <3>2, <3>3 DEF ProcPaid, NetPaid
  <2>5. RuntimeType
    BY <2>1 DEF RuntimeType, Resting
  <2>6. effects["process.execute"] = [c \in Calls |-> 0]
    BY <1>0, <1>2
  <2>7. InstallInv /\ NetGate /\ ProcGate
    BY <2>1, <2>2, <2>6 DEF InstallInv, NetGate, ProcGate
  <2> QED
    BY <2>4, <2>5, <2>7 DEF RunAll
<1> QED
  BY <1>1, <1>3, <1>4, <1>5 DEF IInv

LEMMA NextInv == IInv /\ [Next]_vars => IInv'
<1> SUFFICES ASSUME IInv, [Next]_vars PROVE IInv'
  OBVIOUS
<1> USE DEF IInv
<1>t. {"credential.access", "filesystem.write", "process.execute", "network.connect"} \subseteq Types \cap EffectTypes
  BY DEF Types, EffectTypes
<1>1. CASE CredentialStep /\ UNCHANGED <<part, inFlight, fileVars, runtimeVars>>
  <2>1. Core' /\ CredAll' /\ Elsewhere("credential.access")
    BY <1>1, CredentialKept
  <2>2. Untouched("filesystem.write") /\ Untouched("process.execute") /\ Untouched("network.connect") /\ contained' = contained
    BY <2>1, <1>t DEF Elsewhere, Untouched
  <2>3. FileAll' /\ RunAll'
    BY <1>1, <2>2, FileFrame, RunFrame DEF Untouched
  <2> QED
    BY <2>1, <2>3
<1>2. CASE FileStep /\ UNCHANGED <<part, inFlight, credVars, runtimeVars>>
  <2>1. Core' /\ FileAll' /\ Elsewhere("filesystem.write")
    BY <1>2, FileKept
  <2>2. Untouched("credential.access") /\ Untouched("process.execute") /\ Untouched("network.connect") /\ contained' = contained
    BY <2>1, <1>t DEF Elsewhere, Untouched
  <2>3. CredAll' /\ RunAll'
    BY <1>2, <2>2, CredFrame, RunFrame DEF Untouched
  <2> QED
    BY <2>1, <2>3
<1>3. CASE (NetworkStep \/ InstallStep) /\ UNCHANGED <<part, inFlight, credVars, fileVars>>
  <2>1. RunGoal
    BY <1>3, NetworkKept, InstallKept
  <2>2. CredAll' /\ FileAll'
    BY <1>3, <2>1, CredFrame, FileFrame DEF RunGoal, Untouched
  <2> QED
    BY <2>1, <2>2 DEF RunGoal
<1>4. CASE AuthorityStep /\ UNCHANGED <<part, inFlight, credVars, fileVars, runtimeVars>>
  BY <1>4, AuthorityKept
<1>5. CASE (\E g \in Gates : EnterContainment(g) \/ ExitContainment(g)) /\ UNCHANGED <<part, credVars, fileVars, runtimeVars>>
  BY <1>5, ContainmentKept
<1>6. CASE UNCHANGED vars
  <2>1. UNCHANGED <<capVars, part, inFlight, credVars, fileVars, runtimeVars>>
    BY <1>6 DEF vars
  <2>2. Core'
    BY <2>1, CapFrame DEF Core
  <2>3. CredAll' /\ FileAll' /\ RunAll'
    BY <2>1, CredFrame, FileFrame, RunFrame DEF Untouched, capVars
  <2> QED
    BY <2>2, <2>3
<1> QED
  BY <1>1, <1>2, <1>3, <1>4, <1>5, <1>6 DEF Next

LEMMA Invariance == Spec => []IInv
BY InitInv, NextInv, PTL DEF Spec

\* Type correctness of the authority, the leases, the threads and the receipts.
THEOREM TypeCorrect == Spec => []TypeOK
<1>1. IInv => TypeOK
  BY DEF IInv, Core, CredAll, FileAll, RunAll, TypeOK
<1> QED
  BY <1>1, Invariance, PTL

\* Over all calls, threads, replays, redirects and retries, a capability has
\* no more effects in the world than charged uses, and no more uses than
\* max_uses; a lease or an install has at most one effect.
THEOREM ChargesCover == Spec => []ChargesCoverEffects
<1>1. ASSUME IInv PROVE ChargesCoverEffects
  <2>1. EffectTypes = {"credential.access", "filesystem.write", "process.execute", "network.connect"}
        /\ EffectTypes \subseteq Types
    BY DEF EffectTypes, Types
  <2>2. /\ effects \in [EffectTypes -> [Calls -> Nat]] /\ uses \in [Types -> Nat]
        /\ \A k \in Types : uses[k] <= MaxUses[k]
    BY <1>1 DEF IInv, Core, CapType, Budgets
  <2>3. Cardinality(UnitsOf(effects["credential.access"])) <= uses["credential.access"]
        /\ \A c \in Calls : effects["credential.access"][c] <= 1
    <3>1. \A c \in Calls : effects["credential.access"][c] > 0 =>
            effects["credential.access"][c] = 1 /\ <<c, 1>> \in PaidBy(credLease)
      BY <1>1 DEF IInv, CredAll, CredInv, PaidBy
    <3>2. IsFiniteSet(PaidBy(credLease)) /\ Cardinality(PaidBy(credLease)) <= uses["credential.access"]
      BY <1>1 DEF IInv, CredAll, CredPaid
    <3>3. PICK e \in [Calls -> Nat], n \in Nat : e = effects["credential.access"] /\ n = uses["credential.access"]
      BY <2>1, <2>2
    <3>4. Cardinality(UnitsOf(e)) <= n
      BY <3>1, <3>2, <3>3, UnitsWithin
    <3>5. \A c \in Calls : e[c] <= 1
      <4>1. \A c \in Calls : e[c] > 0 => e[c] = 1
        BY <3>1, <3>3, Zenon
      <4>2. \A c \in Calls : e[c] \in Nat
        OBVIOUS
      <4> QED
        BY <4>1, <4>2
    <3> QED
      BY <3>3, <3>4, <3>5, Zenon
  <2>4. Cardinality(UnitsOf(effects["filesystem.write"])) <= uses["filesystem.write"]
        /\ \A c \in Calls : effects["filesystem.write"][c] <= 1
    <3>1. \A c \in Calls : effects["filesystem.write"][c] > 0 =>
            effects["filesystem.write"][c] = 1 /\ <<c, 1>> \in PaidBy(fileLease)
      BY <1>1 DEF IInv, FileAll, FileInv, Replaced, PaidBy
    <3>2. IsFiniteSet(PaidBy(fileLease)) /\ Cardinality(PaidBy(fileLease)) <= uses["filesystem.write"]
      BY <1>1 DEF IInv, FileAll, FilePaid
    <3>3. PICK e \in [Calls -> Nat], n \in Nat : e = effects["filesystem.write"] /\ n = uses["filesystem.write"]
      BY <2>1, <2>2
    <3>4. Cardinality(UnitsOf(e)) <= n
      BY <3>1, <3>2, <3>3, UnitsWithin
    <3>5. \A c \in Calls : e[c] <= 1
      <4>1. \A c \in Calls : e[c] > 0 => e[c] = 1
        BY <3>1, <3>3, Zenon
      <4>2. \A c \in Calls : e[c] \in Nat
        OBVIOUS
      <4> QED
        BY <4>1, <4>2
    <3> QED
      BY <3>3, <3>4, <3>5, Zenon
  <2>5. /\ Cardinality(UnitsOf(effects["process.execute"])) <= uses["process.execute"]
        /\ Cardinality(UnitsOf(effects["network.connect"])) <= uses["network.connect"]
    <3>1. Owed("run") \in {0, 1} /\ Owed("send") \in {0, 1}
      BY DEF Owed
    <3> QED
      BY <1>1, <3>1, UnitsAreCounted DEF IInv, Core, RunAll, ProcPaid, NetPaid
  <2>6. \A c \in Calls : effects["process.execute"][c] <= 1
    BY <1>1, <2>1, <2>2 DEF IInv, RunAll, InstallInv
  <2> QED
    BY <2>1, <2>2, <2>3, <2>4, <2>5, <2>6 DEF ChargesCoverEffects
<1> QED
  BY <1>1, Invariance, PTL

\* The adapters' receipts tell what was done: SUCCEEDED means done once, an
\* effect is on record unless its call still runs, BLOCK means not run.
THEOREM ReceiptsTell == Spec => []ReceiptsTellEffects
<1>1. ASSUME IInv PROVE ReceiptsTellEffects
  <2>1. /\ \A r \in credReceipts : r.outcome = "SUCCEEDED" => effects["credential.access"][r.call] = 1
        /\ \A c \in Calls : effects["credential.access"][c] > 0 =>
             \E r \in credReceipts : r.call = c /\ r.decision = "ALLOW"
    BY <1>1 DEF IInv, CredAll, CredInv
  <2>2. \A r \in fileReceipts : r.outcome = "SUCCEEDED" =>
          /\ effects["filesystem.write"][r.call] = 1 /\ r.call \notin temps
          /\ [r EXCEPT !.outcome = "FAILED"] \notin fileReceipts
    BY <1>1 DEF IInv, FileAll, FileInv, FileEnded
  <2>3. \A c \in Calls : effects["filesystem.write"][c] > 0 =>
          c \in FilesInFlight \/ \E r \in fileReceipts : r.call = c
    <3>1. \A c \in Calls : effects["filesystem.write"][c] > 0 => Replaced(c)
      BY <1>1 DEF IInv, FileAll, FileInv
    <3> QED
      BY <3>1, InFlightFiles DEF Replaced
  <2>4. \A r \in installs : (r.process = "BLOCK" \/ r.outcome = "SUCCEEDED") =>
          effects["process.execute"][r.call] = IF r.process = "BLOCK" THEN 0 ELSE 1
    BY <1>1 DEF IInv, RunAll, InstallInv
  <2> QED
    BY <2>1, <2>2, <2>3, <2>4 DEF ReceiptsTellEffects
<1> QED
  BY <1>1, Invariance, PTL

\* A replacement overwrites other content than expected only if the target
\* changed after the replacer's second look.
THEOREM LostUpdatesOnlyInWindow == Spec => []StaleWritesOnlyInWindow
<1>1. IInv => StaleWritesOnlyInWindow
  BY DEF IInv, FileAll, LookInv, RenameOK, StaleWritesOnlyInWindow
<1> QED
  BY <1>1, Invariance, PTL

\* Whatever time a request declares, no charge and no consumption of a lease
\* relies on a capability at or after its expiry by the host's clock.
THEOREM HostClockDecides == Spec => []BackdatingGainsNothing
<1>1. IInv => BackdatingGainsNothing
  BY DEF IInv, Core
<1> QED
  BY <1>1, Invariance, PTL

\* While a gate is closed, only calls that were past it when it closed still
\* reach the world.
THEOREM ContainmentPrompt == Spec => ContainmentIsPrompt
<1> DEFINE Prompt == \A k \in EffectTypes, c \in Calls :
                       contained[GateOf(k)] /\ effects'[k][c] > effects[k][c] => c \in inFlight[k]
<1>1. ASSUME IInv, Next PROVE Prompt
  <2> SUFFICES ASSUME NEW k \in EffectTypes, NEW c \in Calls,
                      contained[GateOf(k)], effects'[k][c] > effects[k][c]
               PROVE  c \in inFlight[k]
    OBVIOUS
  <2>0. effects \in [EffectTypes -> [Calls -> Nat]]
    BY <1>1 DEF IInv, Core, CapType
  <2>1. \/ \E t \in Threads : Inject(t) \/ Rename(t)
        \/ Sent \/ \E o \in {"SUCCEEDED", "FAILED"} : RunInstaller(o)
    <3>1. effects' # effects
      BY <2>0
    <3>2. CASE CredentialStep
      BY <3>1, <3>2 DEF CredentialStep, CredentialRefused, CredentialAuthorize, CredentialConsume,
                        CredentialLeaseRefused, ProviderFails, capVars
    <3>3. CASE FileStep
      BY <3>1, <3>3 DEF FileStep, FileRefused, FileAuthorize, FileConsume, FileFails, FirstDigest, WriteTemp,
                        SecondDigest, VerifyReplaced, OtherWriter, capVars
    <3>4. CASE NetworkStep
      BY <3>1, <3>4 DEF NetworkStep, NetworkRefused, NetworkBegin, AuthorizeHop, HopBlocked, HopRedirect,
                        NoResolver, HopFinal, HopRefused, TransportRaises, ResolverRaises, capVars
    <3>5. CASE InstallStep
      BY <3>1, <3>5 DEF InstallStep, InstallRefused, InstallBegin, GateRefused, GatePassed, ExecutorFails, capVars
    <3>6. CASE AuthorityStep \/ \E g \in Gates : EnterContainment(g) \/ ExitContainment(g)
      BY <3>1, <3>6 DEF AuthorityStep, Admit, Revoke, ExpireDue, Tick, EnterContainment, ExitContainment
    <3> QED
      BY <1>1, <3>2, <3>3, <3>4, <3>5, <3>6 DEF Next
  <2>r. ASSUME NEW j \in EffectTypes, NEW d, Reached(j, d) PROVE k = j /\ c = d
    BY <2>0, <2>r DEF Reached
  <2>2. ASSUME NEW t \in Threads, Inject(t) PROVE c \in inFlight[k]
    <3>1. k = "credential.access" /\ c = injector[t].call /\ injector[t].pc = "consumed"
      BY <2>2, <2>r DEF Inject, EffectTypes, Types
    <3>2. c \in CredentialsInFlight
      BY <3>1 DEF CredentialsInFlight
    <3> QED
      BY <1>1, <3>1, <3>2, PastGates DEF IInv, CredAll, CredGate
  <2>3. ASSUME NEW t \in Threads, Rename(t) PROVE c \in inFlight[k]
    <3>1. k = "filesystem.write" /\ c = replacer[t].call /\ replacer[t].pc # "idle"
      BY <2>3, <2>r DEF Rename, EffectTypes, Types
    <3>2. c \in FilesInFlight
      BY <3>1 DEF FilesInFlight
    <3> QED
      BY <1>1, <3>1, <3>2, PastGates DEF IInv, FileAll, FileGate
  <2>4. ASSUME Sent PROVE c \in inFlight[k]
    <3>1. k = "network.connect" /\ c = runtime.call /\ runtime.pc = "send"
      BY <2>4, <2>r DEF Sent, EffectTypes, Types
    <3> QED
      BY <1>1, <3>1, PastGates DEF IInv, RunAll, NetGate
  <2>5. ASSUME NEW o, RunInstaller(o) PROVE c \in inFlight[k]
    <3>1. k = "process.execute" /\ c = runtime.call /\ runtime.pc = "run"
      BY <2>5, <2>r DEF RunInstaller, EffectTypes, Types
    <3> QED
      BY <1>1, <3>1, PastGates DEF IInv, RunAll, ProcGate
  <2> QED
    BY <2>1, <2>2, <2>3, <2>4, <2>5
<1>2. IInv /\ [Next]_vars => [Prompt]_vars
  BY <1>1
<1> QED
  BY <1>2, Invariance, PTL DEF Spec, ContainmentIsPrompt

================================================================================

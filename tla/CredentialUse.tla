----------------------------- MODULE CredentialUse -----------------------------
(***************************************************************************)
(* sdk/liminal_credential_broker and the injector adapter that uses it.    *)
(* CredentialInjector.execute runs in several threads: the broker          *)
(* authorizes a call and issues a lease, consumes the lease, and only then *)
(* are the secret provider and the sink called.  The first two are         *)
(* critical sections of the broker's lock, the last is not.                *)
(***************************************************************************)
EXTENDS ChargedCapabilities

VARIABLES
    credSeen,      \* CredentialBroker._seen_call_ids
    credLease,     \* _leases by call id: one lease at most for each
    injector,      \* injector[t]: where the thread is in execute, and its call
    credReceipts   \* the injector's receipts

credVars == <<credSeen, credLease, injector, credReceipts>>

NoLease == [state |-> "none", issued |-> 0, expires |-> 0]
Idle == [pc |-> "idle", call |-> NoCall]

\* How many of the host's bindings have the request's credential, purpose,
\* destination and header; the binding is used if it is the only one.
BindingMatches == 0 .. 2

CredInit ==
    /\ credSeen = {} /\ credLease = [c \in Calls |-> NoLease]
    /\ injector = [t \in Threads |-> Idle] /\ credReceipts = {}

CredReceipt(c, decision, outcome) ==
    credReceipts' = credReceipts \cup {[call |-> c, decision |-> decision, outcome |-> outcome]}

\* Bad form of CredentialTime: the requester's word is taken.
BugCredentialTime(declared) == declared

\* The decision's time: the request's own at_unix is evidence and decides nothing.
CredentialTime(declared) == now

(* authorize: replay, containment, binding and capability, in this order.   *)
CredentialReplayed(c) == c \in credSeen
CredentialAdmits(matches, declared) ==
    /\ ~contained["credential broker"] /\ matches = 1
    /\ Eligible("credential.access", CredentialTime(declared))

CredentialRefused(t, c, matches, declared) ==
    /\ injector[t].pc = "idle"
    /\ CredentialReplayed(c) \/ ~CredentialAdmits(matches, declared)
    /\ credSeen' = credSeen \cup {c}
    /\ CredReceipt(c, "BLOCK", "NOT_INJECTED")
    /\ UNCHANGED <<credLease, injector, capVars>>

CredentialAuthorize(t, c, matches, declared) ==
    /\ injector[t].pc = "idle"
    /\ ~CredentialReplayed(c) /\ CredentialAdmits(matches, declared)
    /\ credSeen' = credSeen \cup {c}
    /\ Charge("credential.access")
    /\ credLease' = [credLease EXCEPT ![c] =
                       [state |-> "issued", issued |-> now, expires |-> now + Ttl]]
    /\ injector' = [injector EXCEPT ![t] = [pc |-> "leased", call |-> c]]
    /\ UNCHANGED <<credReceipts, now, gates, effects>>

(* consume_for_trusted_adapter                                              *)
\* Bad form of CredentialLive: containment is only looked at by authorize.
BugCredentialLive(c) ==
    /\ credLease[c].state = "issued"
    /\ now < credLease[c].expires /\ now >= credLease[c].issued
    /\ StillActive("credential.access", now)

CredentialLive(c) ==
    /\ ~contained["credential broker"]
    /\ credLease[c].state = "issued"
    /\ now < credLease[c].expires /\ now >= credLease[c].issued
    /\ StillActive("credential.access", now)

CredentialConsume(t) ==
    LET c == injector[t].call IN
    /\ injector[t].pc = "leased" /\ CredentialLive(c)
    /\ credLease' = [credLease EXCEPT ![c].state = "consumed"]
    /\ injector' = [injector EXCEPT ![t].pc = "consumed"]
    /\ Recheck("credential.access")
    /\ UNCHANGED <<credSeen, credReceipts, now, gates, effects>>

CredentialLeaseRefused(t) ==
    /\ injector[t].pc = "leased" /\ ~CredentialLive(injector[t].call)
    /\ CredReceipt(injector[t].call, "BLOCK", "NOT_INJECTED")
    /\ injector' = [injector EXCEPT ![t] = Idle]
    /\ UNCHANGED <<credSeen, credLease, capVars>>

(* The provider and the sink.  What is raised after the sink has the secret *)
(* and what is raised before read the same.                                 *)
Inject(t) ==
    LET c == injector[t].call IN
    /\ injector[t].pc = "consumed"
    /\ Reached("credential.access", c)
    /\ \E outcome \in {"SUCCEEDED", "FAILED"} : CredReceipt(c, "ALLOW", outcome)
    /\ injector' = [injector EXCEPT ![t] = Idle]
    /\ UNCHANGED <<credSeen, credLease, now, authority, gates>>

ProviderFails(t) ==
    /\ injector[t].pc = "consumed"
    /\ CredReceipt(injector[t].call, "ALLOW", "FAILED")
    /\ injector' = [injector EXCEPT ![t] = Idle]
    /\ UNCHANGED <<credSeen, credLease, capVars>>

CredentialStep ==
    \E t \in Threads :
      \/ \E c \in Calls, m \in BindingMatches, d \in 0 .. now :
           CredentialRefused(t, c, m, d) \/ CredentialAuthorize(t, c, m, d)
      \/ CredentialConsume(t) \/ CredentialLeaseRefused(t)
      \/ Inject(t) \/ ProviderFails(t)

\* The calls a closing gate cannot stop any more.
CredentialsInFlight == {injector[t].call : t \in {u \in Threads : injector[u].pc = "consumed"}}
================================================================================

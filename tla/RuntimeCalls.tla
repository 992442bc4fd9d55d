----------------------------- MODULE RuntimeCalls -----------------------------
(***************************************************************************)
(* The calls that go through the runtime mediator, made by one thread of   *)
(* the host (the mediator and the gateway keep no lock):                   *)
(*                                                                         *)
(*   sdk/liminal_runtime_mediation   mediate, mediate_network              *)
(*   sdk/liminal_egress_gateway      EgressGateway.execute, hop by hop     *)
(*   sdk/liminal_package_install_broker  install, through the isolated     *)
(*                                   execution broker to mediate           *)
(*                                                                         *)
(* DNS, transport, the executor and the servers' answers are the host's.   *)
(***************************************************************************)
EXTENDS ChargedCapabilities, Sequences

CONSTANTS MaxRedirects   \* max_redirects of the gateway

ASSUME RedirectsAssumption == MaxRedirects \in Nat

\* Where a URL leads.  Bad URLs (another scheme, userinfo, a fragment, no DNS
\* name) are one URL; what DNS says of a host can differ at every hop.
Urls == [scheme : {"https", "http"}, host : {"granted", "other"}]
BadUrl == [scheme |-> "none", host |-> "none"]
Answers == {"public", "private", "none"}

VARIABLES
    runtime,       \* where the runtime's thread is, with its call
    hops,          \* history: transported hops of the network call, in order
    netReceipt,    \* the mediator's last receipt of a network call
    installSeen,   \* PackageInstallBroker._seen_call_ids
    installs       \* the package broker's receipts

runtimeVars == <<runtime, hops, netReceipt, installSeen, installs>>

Resting == [pc |-> "idle", call |-> NoCall, at |-> 0, url |-> BadUrl, https |-> FALSE, hop |-> 0]

NoReceipt == [call |-> NoCall, admission |-> "none", outcome |-> "none", sent |-> 0]

RuntimeInit ==
    /\ runtime = Resting /\ hops = <<>>
    /\ netReceipt = NoReceipt /\ installSeen = {} /\ installs = {}

(* The mediator's receipt; the hops are what a reader would like to know.   *)
NetReceipt(c, admission, outcome, sent) ==
    netReceipt' = [call |-> c, admission |-> admission, outcome |-> outcome, sent |-> sent]

\* mediate_network while contained, or for a request that the gateway blocks
\* before the first hop (its method, its URL, a secret among its headers).
NetworkRefused(c, wellFormed) ==
    /\ runtime.pc = "idle"
    /\ contained["mediator"] \/ ~wellFormed
    /\ NetReceipt(c, "BLOCK", "NOT_EXECUTED", 0)
    /\ UNCHANGED <<runtime, hops, installSeen, installs, capVars>>

\* The capability is asked for at the time the request declares.
NetworkBegin(c, url, declared) ==
    /\ runtime.pc = "idle" /\ ~contained["mediator"]
    /\ runtime' = [pc |-> "hop", call |-> c, at |-> declared, url |-> url,
                   https |-> url.scheme = "https", hop |-> 0]
    /\ hops' = <<>>
    /\ UNCHANGED <<netReceipt, installSeen, installs, capVars>>

HopAllowed(url, dns) ==
    /\ runtime.https => url.scheme = "https"
    /\ dns = "public"

NetworkCharged(url) == url.host = "granted" /\ Eligible("network.connect", runtime.at)

\* Parsing, the downgrade check, DNS, the capability and the secrets of a hop.
AuthorizeHop(dns) ==
    /\ runtime.pc = "hop" /\ HopAllowed(runtime.url, dns) /\ NetworkCharged(runtime.url)
    /\ Charge("network.connect")
    /\ runtime' = [runtime EXCEPT !.pc = "send"]
    /\ UNCHANGED <<hops, netReceipt, installSeen, installs, now, gates, effects>>

\* EgressBlocked, at whatever hop: the receipt reads as if nothing was sent.
NetworkBlocked ==
    /\ NetReceipt(runtime.call, "BLOCK", "NOT_EXECUTED", Len(hops))
    /\ runtime' = Resting

HopBlocked(dns) ==
    /\ runtime.pc = "hop"
    /\ ~HopAllowed(runtime.url, dns) \/ ~NetworkCharged(runtime.url)
    /\ NetworkBlocked
    /\ UNCHANGED <<hops, installSeen, installs, capVars>>

\* A secret reference without a resolver is found after the hop is charged.
NoResolver ==
    /\ runtime.pc = "send"
    /\ NetworkBlocked
    /\ UNCHANGED <<hops, installSeen, installs, capVars>>

Sent == /\ runtime.pc = "send"
        /\ Reached("network.connect", runtime.call)
        /\ hops' = Append(hops, runtime.url)
        /\ UNCHANGED <<installSeen, installs, now, authority, gates>>

HopFinal ==
    /\ Sent
    /\ NetReceipt(runtime.call, "ALLOW", "SUCCEEDED", Len(hops) + 1)
    /\ runtime' = Resting

HopRedirect(next) ==
    /\ Sent
    /\ runtime.hop < MaxRedirects
    /\ runtime' = [runtime EXCEPT !.pc = "hop", !.url = next, !.hop = @ + 1]
    /\ UNCHANGED netReceipt

\* One redirect too many, a redirect without a place to go or to a bad URL.
HopRefused ==
    /\ Sent
    /\ NetReceipt(runtime.call, "BLOCK", "NOT_EXECUTED", Len(hops) + 1)
    /\ runtime' = Resting

\* Anything else that transport and its answer raise escapes: no receipt.
TransportRaises ==
    /\ Sent
    /\ runtime' = Resting
    /\ UNCHANGED netReceipt

\* So does an error of the resolver or the secret resolver, nothing sent.
ResolverRaises ==
    /\ runtime.pc \in {"hop", "send"}
    /\ runtime' = Resting
    /\ UNCHANGED <<hops, netReceipt, installSeen, installs, capVars>>

(* PackageInstallBroker.install, inside its lock to the end.  The workspace *)
(* of a binding need only be absolute here; the execution plan wants it     *)
(* normalized, and raises when the package capability is charged already.   *)
InstallRequests == [binding : {"known", "unknown"}, staged : {"as bound", "other"}]
Workspaces == {"normalized", "absolute"}

InstallReceipt(c, package, process, outcome) ==
    installs' = installs \cup {[call |-> c, package |-> package, process |-> process,
                                outcome |-> outcome]}

InstallAdmits(c, r) ==
    /\ c \notin installSeen
    /\ r.binding = "known" /\ r.staged = "as bound"
    /\ Eligible("package.install", now)

InstallRefused(c, r) ==
    /\ runtime.pc = "idle" /\ ~InstallAdmits(c, r)
    /\ installSeen' = installSeen \cup {c}
    /\ InstallReceipt(c, "BLOCK", "NOT_REQUESTED", "NOT_EXECUTED")
    /\ UNCHANGED <<runtime, hops, netReceipt, capVars>>

InstallBegin(c, r, workspace) ==
    /\ runtime.pc = "idle" /\ InstallAdmits(c, r)
    /\ installSeen' = installSeen \cup {c}
    /\ Charge("package.install")
    /\ runtime' = IF workspace = "normalized"
                    THEN [Resting EXCEPT !.pc = "gate", !.call = c, !.at = now]
                    ELSE runtime
    /\ UNCHANGED <<hops, netReceipt, installs, now, gates, effects>>

\* mediate: containment, then the process capability, at the install's time.
GateAdmits == ~contained["mediator"] /\ Eligible("process.execute", runtime.at)

GateRefused ==
    /\ runtime.pc = "gate" /\ ~GateAdmits
    /\ InstallReceipt(runtime.call, "ALLOW", "BLOCK", "NOT_EXECUTED")
    /\ runtime' = Resting
    /\ UNCHANGED <<hops, netReceipt, installSeen, capVars>>

GatePassed ==
    /\ runtime.pc = "gate" /\ GateAdmits
    /\ Charge("process.execute")
    /\ runtime' = [runtime EXCEPT !.pc = "run"]
    /\ UNCHANGED <<hops, netReceipt, installSeen, installs, now, gates, effects>>

RunInstaller(outcome) ==
    /\ runtime.pc = "run"
    /\ Reached("process.execute", runtime.call)
    /\ InstallReceipt(runtime.call, "ALLOW", "ALLOW", outcome)
    /\ runtime' = Resting
    /\ UNCHANGED <<hops, netReceipt, installSeen, now, authority, gates>>

ExecutorFails ==
    /\ runtime.pc = "run"
    /\ InstallReceipt(runtime.call, "ALLOW", "ALLOW", "FAILED")
    /\ runtime' = Resting
    /\ UNCHANGED <<hops, netReceipt, installSeen, capVars>>

NetworkStep ==
    \/ \E c \in Calls, w \in BOOLEAN : NetworkRefused(c, w)
    \/ \E c \in Calls, u \in Urls, d \in 0 .. now : NetworkBegin(c, u, d)
    \/ \E dns \in Answers : AuthorizeHop(dns) \/ HopBlocked(dns)
    \/ \E u \in Urls : HopRedirect(u)
    \/ NoResolver \/ HopFinal \/ HopRefused \/ TransportRaises \/ ResolverRaises

InstallStep ==
    \/ \E c \in Calls, r \in InstallRequests :
         InstallRefused(c, r) \/ \E w \in Workspaces : InstallBegin(c, r, w)
    \/ GateRefused \/ GatePassed \/ ExecutorFails
    \/ \E outcome \in {"SUCCEEDED", "FAILED"} : RunInstaller(outcome)

\* Past the mediator's gate: a network call at any of its hops, a running install.
RuntimeInFlight(k) ==
    {runtime.call : x \in {runtime.pc} \cap
       (IF k = "network.connect" THEN {"hop", "send"} ELSE {"run"})}
================================================================================

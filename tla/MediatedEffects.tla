---------------------------- MODULE MediatedEffects ----------------------------
(***************************************************************************)
(* The mediated effects together: credentials, file replacements, network  *)
(* calls and package installs charged to one capability broker, with one   *)
(* clock and a containment that closes the gates one after the other.      *)
(***************************************************************************)
EXTENDS CredentialUse, FileReplacement, RuntimeCalls

Parts == {"credentials", "files", "network", "installs"}

\* The capability types a part charges.
TypesOf(p) == CASE p = "credentials" -> {"credential.access"}
                [] p = "files" -> {"filesystem.write"}
                [] p = "network" -> {"network.connect"}
                [] p = "installs" -> {"package.install", "process.execute"}

VARIABLES
    part,      \* the part in use: two parts share the clock and nothing else
    inFlight   \* history: what was past the gate when it closed, by type

vars == <<part, inFlight, capVars, credVars, fileVars, runtimeVars>>

Init ==
    /\ part \in Parts
    /\ inFlight = [k \in EffectTypes |-> {}]
    /\ CapInit /\ CredInit /\ FileInit /\ RuntimeInit

PastGate(k) == CASE k = "credential.access" -> CredentialsInFlight
                 [] k = "filesystem.write" -> FilesInFlight
                 [] OTHER -> RuntimeInFlight(k)

EnterContainment(g) ==
    /\ ~contained[g] /\ incidents[g] < MaxIncidents
    /\ \E k \in EffectTypes : GateOf(k) = g /\ k \in TypesOf(part)
    /\ contained' = [contained EXCEPT ![g] = TRUE]
    /\ incidents' = [incidents EXCEPT ![g] = @ + 1]
    /\ inFlight' = [k \in EffectTypes |-> IF GateOf(k) = g THEN PastGate(k) ELSE inFlight[k]]
    /\ UNCHANGED <<now, authority, effects>>

ExitContainment(g) ==
    /\ contained[g]
    /\ contained' = [contained EXCEPT ![g] = FALSE]
    /\ UNCHANGED <<incidents, inFlight, now, authority, effects>>

AuthorityStep ==
    \/ \E k \in TypesOf(part) : Admit(k) \/ Revoke(k)
    \/ ExpireDue \/ Tick

Next ==
    \/ /\ part = "credentials" /\ CredentialStep
       /\ UNCHANGED <<part, inFlight, fileVars, runtimeVars>>
    \/ /\ part = "files" /\ FileStep
       /\ UNCHANGED <<part, inFlight, credVars, runtimeVars>>
    \/ /\ part = "network" /\ NetworkStep
       /\ UNCHANGED <<part, inFlight, credVars, fileVars>>
    \/ /\ part = "installs" /\ InstallStep
       /\ UNCHANGED <<part, inFlight, credVars, fileVars>>
    \/ /\ AuthorityStep
       /\ UNCHANGED <<part, inFlight, credVars, fileVars, runtimeVars>>
    \/ /\ \E g \in Gates : EnterContainment(g) \/ ExitContainment(g)
       /\ UNCHANGED <<part, credVars, fileVars, runtimeVars>>

Spec == Init /\ [][Next]_vars

(* ------------------------------ properties ------------------------------ *)

\* The effects of one type counted one by one: <<c, n>> is the n-th of call c.
UnitsOf(e) == UNION {{c} \X (1 .. e[c]) : c \in Calls}

\* What reached the world was paid for: over all calls, threads, replays and
\* retries, a capability has no more effects than charged uses and no more
\* uses than max_uses; a call that goes by a lease or an install id has at
\* most one effect.  Redirects of one network call are paid one by one.
ChargesCoverEffects ==
    \A k \in EffectTypes :
      /\ Cardinality(UnitsOf(effects[k])) <= uses[k] /\ uses[k] <= MaxUses[k]
      /\ k # "network.connect" => \A c \in Calls : effects[k][c] <= 1

\* The receipts the adapters leave tell what was done.  SUCCEEDED means done;
\* what was done has an ALLOW or FAILED receipt, unless the call still runs;
\* BLOCK for the process of an install means the installer never ran for it.
ReceiptsTellEffects ==
    /\ \A r \in credReceipts :
         r.outcome = "SUCCEEDED" => effects["credential.access"][r.call] = 1
    /\ \A c \in Calls : effects["credential.access"][c] > 0 =>
         \E r \in credReceipts : r.call = c /\ r.decision = "ALLOW"
    /\ \A r \in fileReceipts :
         r.outcome = "SUCCEEDED" => /\ effects["filesystem.write"][r.call] = 1
                                    /\ r.call \notin temps
                                    /\ [r EXCEPT !.outcome = "FAILED"] \notin fileReceipts
    /\ \A c \in Calls : effects["filesystem.write"][c] > 0 =>
         c \in FilesInFlight \/ \E r \in fileReceipts : r.call = c
    /\ \A r \in installs : (r.process = "BLOCK" \/ r.outcome = "SUCCEEDED") =>
         effects["process.execute"][r.call] = IF r.process = "BLOCK" THEN 0 ELSE 1

\* A replacement overwrites something other than what its request expected
\* only if the target was changed after the replacer's second look, by another
\* lease's rename or by a writer outside: no earlier change is ever lost.
StaleWritesOnlyInWindow ==
    \A w \in renames : w.replaced = fileLease[w.call].expected \/ w.at > w.checked

\* The host's clock decides.  Whatever time a request declares, a capability
\* for credentials, files or packages is not charged, and no lease on it is
\* consumed, at or after its expiry.
BackdatingGainsNothing ==
    \A k \in {"credential.access", "filesystem.write", "package.install"} :
      uses[k] > 0 => reliedAt[k] < Expires

\* While a gate is closed nothing new reaches the world behind it: only calls
\* that were past it already when it closed, whoever revokes, retries or runs.
ContainmentIsPrompt ==
    [][\A k \in EffectTypes, c \in Calls :
         contained[GateOf(k)] /\ effects'[k][c] > effects[k][c] => c \in inFlight[k]]_vars

================================================================================

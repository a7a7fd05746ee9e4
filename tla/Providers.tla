------------------------------ MODULE Providers ------------------------------
(***************************************************************************)
(* A cloud provider of the server (src/server.ts, routes /api/providers):   *)
(* its credential, stored by an API key or by an OAuth login, the set of    *)
(* providers the user enabled, and the model an agent is given from it      *)
(* (src/model.ts, src/registry.ts).                                         *)
(* An OAuth login runs in the background of the request that starts it.  It *)
(* may ask for input, and what it waits for is kept in one entry per        *)
(* provider (pendingOAuthInputs), which the routes that answer and cancel   *)
(* look up.  Retries, timeouts and the login's own withdrawal of a question *)
(* all race for that entry.  The login itself is the library's; what it may *)
(* do is taken from how the routes use it.                                  *)
(***************************************************************************)
EXTENDS Naturals, FiniteSets

CONSTANTS
  MaxFlows,       \* logins started
  MaxPrompts,     \* questions asked by all of them
  MaxKeys,        \* requests that set or remove a key
  MaxToggles      \* changes of the cloud policy, and edits of the agent's model

ASSUME ProvidersBoundsAssumption ==
  MaxFlows \in Nat /\ MaxPrompts \in Nat /\ MaxKeys \in Nat /\ MaxToggles \in Nat

Flows == 1 .. MaxFlows
NoEntry == [flow |-> 0, prompt |-> 0]

VARIABLES
  flow,           \* flow[f]: "none", "scheduled", "working", "prompting", "rejected", "done"
  prompt,         \* prompt[f]: the last question of f, 0 if none; myEntry of its closure
  asked,          \* questions asked so far
  pending,        \* pendingOAuthInputs.get(name)
  retrying,       \* login requests in their 100 ms wait for the old flow
  credential,     \* auth.json has a credential of the provider
  enabled,        \* explicitlyEnabledProviders.has(name)
  adding, removing,         \* key requests past their first await
  keys,           \* key requests so far
  busy,           \* room.isBusy()
  allowCloud,     \* the room's policy
  toggles,
  assigned,       \* persona.model: the cloud model, or the default
  runsOn          \* the model the seat's session was built on

login == <<flow, prompt, asked, pending, retrying>>
keyring == <<credential, enabled, adding, removing, keys>>
policy == <<allowCloud, toggles, assigned, runsOn>>
providerVars == <<login, keyring, busy, policy>>

Started == {f \in Flows : flow[f] # "none"}
Alive(f) == flow[f] \in {"working", "prompting", "rejected"}
Waits(f) == flow[f] = "prompting"

-----------------------------------------------------------------------------
(* Starting a login: POST /login *)

\* The flow is scheduled with setImmediate; the answer is 202 at once.
Schedule(count) ==
  /\ Cardinality(Started) < MaxFlows
  /\ flow' = [flow EXCEPT ![Cardinality(Started) + 1] = "scheduled"]
  /\ retrying' = count

\* No flow waits for input: the login starts right away.
Login ==
  /\ ~busy /\ pending = NoEntry
  /\ Schedule(retrying)
  /\ UNCHANGED <<prompt, asked, pending, keyring, busy, policy>>

\* A flow waits for input: its question is rejected, and the new login starts
\* after a wait meant for the old one to release its port.
Relogin ==
  /\ ~busy /\ pending # NoEntry
  /\ Cardinality(Started) + retrying < MaxFlows
  /\ pending' = NoEntry
  /\ flow' = IF Waits(pending.flow) THEN [flow EXCEPT ![pending.flow] = "rejected"] ELSE flow
  /\ retrying' = retrying + 1
  /\ UNCHANGED <<prompt, asked, keyring, busy, policy>>

WaitEnds ==
  /\ retrying > 0
  /\ Schedule(retrying - 1)
  /\ UNCHANGED <<prompt, asked, pending, keyring, busy, policy>>

-----------------------------------------------------------------------------
(* A flow in the background *)

FlowBegins(f) ==
  /\ flow[f] = "scheduled"
  /\ flow' = [flow EXCEPT ![f] = "working"]
  /\ UNCHANGED <<prompt, asked, pending, retrying, keyring, busy, policy>>

\* prompt(): the question takes the provider's entry, whoever had it.
Prompts(f) ==
  /\ flow[f] = "working" /\ asked < MaxPrompts
  /\ asked' = asked + 1
  /\ flow' = [flow EXCEPT ![f] = "prompting"]
  /\ prompt' = [prompt EXCEPT ![f] = asked + 1]
  /\ pending' = [flow |-> f, prompt |-> asked + 1]
  /\ UNCHANGED <<retrying, keyring, busy, policy>>

\* A question that needs a list is refused: the login fails.
AsksToSelect(f) ==
  /\ flow[f] = "working"
  /\ flow' = [flow EXCEPT ![f] = "rejected"]
  /\ UNCHANGED <<prompt, asked, pending, retrying, keyring, busy, policy>>

\* The bug of a question that clears the entry without looking whose it is.
DropAnyEntry(f) == NoEntry

\* The entry is dropped only when it is still the flow's own.
DropOwnEntry(f) == IF pending = [flow |-> f, prompt |-> prompt[f]] THEN NoEntry ELSE pending

\* The bug of a flow that fails and leaves its question in the map.
FailsLeavingEntry(f) ==
  /\ Alive(f)
  /\ flow' = [flow EXCEPT ![f] = "done"]
  /\ UNCHANGED <<prompt, asked, pending, retrying, keyring, busy, policy>>

\* The bug of a timeout that forgets the question and rejects nothing.
TimesOutSilently(f) ==
  /\ Waits(f)
  /\ pending' = DropOwnEntry(f)
  /\ UNCHANGED <<flow, prompt, asked, retrying, keyring, busy, policy>>

\* Nobody answers in time: the question fails, and the login with it.
TimesOut(f) ==
  /\ Waits(f)
  /\ flow' = [flow EXCEPT ![f] = "rejected"]
  /\ pending' = DropOwnEntry(f)
  /\ UNCHANGED <<prompt, asked, retrying, keyring, busy, policy>>

\* The login withdraws its question: the browser's callback came first.
Withdraws(f) ==
  /\ Waits(f)
  /\ flow' = [flow EXCEPT ![f] = "working"]
  /\ pending' = DropOwnEntry(f)
  /\ UNCHANGED <<prompt, asked, retrying, keyring, busy, policy>>

\* login() returns: the credential is stored, the lists are sent again, and
\* the finally clears what is left of the flow.
Succeeds(f) ==
  /\ flow[f] = "working"
  /\ flow' = [flow EXCEPT ![f] = "done"]
  /\ credential' = TRUE
  /\ pending' = DropOwnEntry(f)
  /\ UNCHANGED <<prompt, asked, retrying, enabled, adding, removing, keys, busy, policy>>

\* login() throws, a question outstanding or not.
Fails(f) ==
  /\ Alive(f)
  /\ flow' = [flow EXCEPT ![f] = "done"]
  /\ pending' = DropOwnEntry(f)
  /\ UNCHANGED <<prompt, asked, retrying, keyring, busy, policy>>

-----------------------------------------------------------------------------
(* The user's answer: POST /login/input and DELETE /login *)

Answered(to) ==
  /\ pending # NoEntry
  /\ pending' = NoEntry
  /\ flow' = IF Waits(pending.flow) THEN [flow EXCEPT ![pending.flow] = to] ELSE flow
  /\ UNCHANGED <<prompt, asked, retrying, keyring, busy, policy>>

Input == Answered("working")
Cancel == Answered("rejected")

-----------------------------------------------------------------------------
(* Keys: POST and DELETE /api/providers/:name *)

AddKey ==
  /\ ~busy /\ keys < MaxKeys /\ ~adding
  /\ adding' = TRUE /\ credential' = TRUE /\ keys' = keys + 1
  /\ UNCHANGED <<login, enabled, removing, busy, policy>>

\* The key is stored and the catalog refreshed before the provider is enabled.
KeyAdded ==
  /\ adding
  /\ adding' = FALSE /\ enabled' = TRUE
  /\ UNCHANGED <<login, credential, removing, keys, busy, policy>>

RemoveKey ==
  /\ ~busy /\ keys < MaxKeys /\ ~removing
  /\ removing' = TRUE /\ keys' = keys + 1 /\ credential' = FALSE
  /\ UNCHANGED <<login, enabled, adding, busy, policy>>

KeyRemoved ==
  /\ removing
  /\ removing' = FALSE /\ enabled' = FALSE
  /\ UNCHANGED <<login, credential, adding, keys, busy, policy>>

-----------------------------------------------------------------------------
(* The models (model.ts) *)

\* isAllowedModel: the catalog has it, and the policy or the user allows it.
Allowed == credential /\ (allowCloud \/ enabled)

\* resolveModelRef: the policy alone decides; the catalog finds any known model.
ModelResolved(model) == IF model = "cloud" /\ ~allowCloud THEN "default" ELSE model

\* Registry.update: the persona has the model, the session is built again.
Assign(model) ==
  /\ ~busy /\ toggles < MaxToggles /\ model # assigned
  /\ model = "cloud" => Allowed
  /\ assigned' = model /\ runsOn' = ModelResolved(model) /\ toggles' = toggles + 1
  /\ UNCHANGED <<login, keyring, busy, allowCloud>>

\* A change of the policy is for the sessions to come.
SetAllowCloud ==
  /\ toggles < MaxToggles
  /\ allowCloud' = ~allowCloud /\ toggles' = toggles + 1
  /\ UNCHANGED <<login, keyring, busy, assigned, runsOn>>

\* The default room starts or ends a turn.
TurnFlips == busy' = ~busy /\ UNCHANGED <<login, keyring, policy>>

\* The server is restarted: logins are gone, enabled providers are forgotten,
\* and the room's sessions are built from the saved personas and policy.
ServerRestart ==
  /\ toggles < MaxToggles
  /\ toggles' = toggles + 1
  /\ flow' = [f \in Flows |-> IF flow[f] = "none" THEN "none" ELSE "done"]
  /\ pending' = NoEntry /\ retrying' = 0
  /\ enabled' = FALSE /\ adding' = FALSE /\ removing' = FALSE /\ busy' = FALSE
  /\ runsOn' = ModelResolved(assigned)
  /\ UNCHANGED <<prompt, asked, credential, keys, allowCloud, assigned>>

-----------------------------------------------------------------------------

ProvidersInit ==
  /\ flow = [f \in Flows |-> "none"] /\ prompt = [f \in Flows |-> 0] /\ asked = 0
  /\ pending = NoEntry /\ retrying = 0
  /\ credential \in BOOLEAN /\ enabled = FALSE /\ adding = FALSE /\ removing = FALSE
  /\ keys = 0 /\ busy = FALSE /\ toggles = 0
  /\ allowCloud \in BOOLEAN /\ assigned = "default" /\ runsOn = "default"

FlowStep(f) ==
  \/ FlowBegins(f) \/ Prompts(f) \/ AsksToSelect(f) \/ TimesOut(f) \/ Withdraws(f)
  \/ Succeeds(f) \/ Fails(f)

ProvidersNext ==
  \/ Login \/ Relogin \/ WaitEnds
  \/ \E f \in Flows : FlowStep(f)
  \/ Input \/ Cancel
  \/ AddKey \/ KeyAdded \/ RemoveKey \/ KeyRemoved
  \/ \E model \in {"cloud", "default"} : Assign(model)
  \/ SetAllowCloud \/ TurnFlips \/ ServerRestart

\* A login that waits for nobody comes to its end.
Returns(f) == flow[f] \in {"working", "rejected"} /\ (Succeeds(f) \/ Fails(f))

\* Timers fire, and a login the library runs comes to its next event.
ProvidersFairness ==
  \A f \in Flows : /\ WF_providerVars(FlowBegins(f)) /\ WF_providerVars(TimesOut(f))
                   /\ WF_providerVars(Returns(f))

ProvidersSpec == ProvidersInit /\ [][ProvidersNext]_providerVars /\ ProvidersFairness

-----------------------------------------------------------------------------
(* What is claimed of it *)

\* The entry belongs to a question that still waits: an answer is never fed to
\* a login that is over (server.ts: "or the map keeps a resolver nobody will
\* ever call and the next POST to /login/input feeds a dead flow").
EntryAlive == pending # NoEntry => /\ Waits(pending.flow)
                                /\ prompt[pending.flow] = pending.prompt

\* The newest question, while it waits, is the one an answer reaches: no end,
\* timeout or withdrawal of an older login takes its entry (server.ts: "must
\* only clear the map when the entry is still ours, never a newer attempt's").
NewestAnswerable ==
  \A f \in Flows : (Waits(f) /\ prompt[f] = asked) => pending = [flow |-> f, prompt |-> asked]

\* What the routes answer and cancel is the question the user is looking at.
QuestionReached == EntryAlive /\ NewestAnswerable

\* Every login that was started is over some day: an abandoned one does not
\* hold its port forever (server.ts, OAUTH_INPUT_TIMEOUT_MS).
LoginsEnd == \A f \in Flows : (flow[f] # "none") ~> (flow[f] = "done")

\* A login starts when no other holds the port (server.ts: "abort the old flow
\* first so a retry always gets a fresh start").
FreshStart == [][\A f \in Flows : (flow[f] = "scheduled" /\ flow'[f] = "working")
                                    => \A g \in Flows \ {f} : ~Alive(g)]_providerVars

\* An agent that was given a model runs on it, or the edit is refused
\* (registry.ts isAllowedModel: "a model the UI is allowed to assign").
AssignedRuns == [][assigned' # assigned => runsOn' = assigned']_providerVars
=============================================================================

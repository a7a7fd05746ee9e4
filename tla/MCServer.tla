------------------------------ MODULE MCServer ------------------------------
(* What the server has to bring to an end beside its turns: the logins at a  *)
(* cloud provider, the writes of a conversation, the sessions of a route     *)
(* supervisor.  Each is explored alone, the others stay in their initial     *)
(* states.                                                                   *)
EXTENDS Providers, Persistence, RouteSession

\* Three conversations: a live one that is deleted, one to fall back to, and
\* one left to start.
CONSTANTS c1, c2, c3

MCConvs == {c1, c2, c3}

\* Two agents, the first of which proposes the first hop.
CONSTANTS a1, a2

MCSeats == {a1, a2}

VARIABLE part

-----------------------------------------------------------------------------

MCInit ==
  /\ part \in {"provider", "files", "route"}
  /\ ProvidersInit /\ Init /\ RouteInit
  /\ part # "provider" => credential /\ allowCloud
  /\ proposer[1] = a1 /\ (part # "route" => proposer = [r \in Runs |-> a1])

MCNext ==
  \/ part = "provider" /\ ProvidersNext /\ UNCHANGED <<part, vars, routeVars>>
  \/ part = "files" /\ Next /\ UNCHANGED <<part, providerVars, routeVars>>
  \/ part = "route" /\ RouteNext /\ UNCHANGED <<part, vars, providerVars>>

\* The fairness of each specification, asked while it is the one explored.
MCFairness ==
  /\ \A f \in Flows :
       /\ WF_providerVars(part = "provider" /\ FlowBegins(f))
       /\ WF_providerVars(part = "provider" /\ TimesOut(f))
       /\ WF_providerVars(part = "provider" /\ Returns(f))
  /\ WF_vars(part = "files" /\ Lands)
  /\ WF_vars(part = "files" /\ TimerFires)
  /\ WF_vars(part = "files" /\ TurnEnds)
  /\ WF_vars(part = "files" /\ Proceeds)
  /\ \A r \in Runs :
       /\ WF_routeVars(part = "route" /\ (Prepared(r) \/ PrepareFails(r)))
       /\ WF_routeVars(part = "route" /\ SupervisorTimesOut(r))
       /\ WF_routeVars(part = "route" /\ aborting[r] /\ PromptReturns(r))

MCSpec == MCInit /\ [][MCNext]_<<part, providerVars, vars, routeVars>> /\ MCFairness

-----------------------------------------------------------------------------

\* What the server begins it ends: a login, however it is left alone (Providers); a
\* supervisor's session, which is disposed of (RouteSession); a save, unless its write
\* fails or the server is down (Persistence).
WhatBeginsEnds == LoginsEnd /\ RunsEnd /\ SaveLands
=============================================================================

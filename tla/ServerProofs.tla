---------------------------- MODULE ServerProofs ----------------------------
(***************************************************************************)
(* What holds of the server's parts whatever the number of runs, flows,    *)
(* conversations, edits and restarts: the supervisor's decision reaches    *)
(* the run it was asked for, a login's newest question is the one that is  *)
(* answered, and the files of the conversations.                           *)
(***************************************************************************)
EXTENDS RouteSession, Providers, Persistence, FiniteSetTheorems, TLAPS

(* ---- the sessions of route supervisors --------------------------------------- *)

\* No card is stopped or replaced while its run is still being prepared.
InOrder == ~Overtakes

RouteTyped ==
  /\ card \in {0} \union Runs
  /\ stage \in [Runs -> {"none", "preparing", "prompting", "over"}]
  /\ session \in [Runs -> {"none", "live", "disposed"}]
  /\ aborting \in [Runs -> BOOLEAN]
  /\ unwanted \subseteq Runs

\* One run at a time is at work; while it prompts, the room can still abort its
\* session, or has.
OneRun == \A q, r \in Runs : AtWork(q) /\ AtWork(r) => q = r

Abortable == \A r \in Runs :
  stage[r] = "prompting" => session[r] = "live" /\ (abortHandle = r \/ aborting[r])

CardBegun == card # 0 => stage[card] # "none"

UnwantedPrepared == \A r \in unwanted : stage[r] \in {"prompting", "over"}

RouteInv ==
  RouteTyped /\ OneRun /\ Abortable /\ CardBegun /\ UnwantedPrepared /\ NoGhost

LEMMA InitRoute == RouteInit => RouteInv
<1> SUFFICES ASSUME RouteInit PROVE RouteInv
  OBVIOUS
<1>1. RouteTyped
  BY DEF RouteInit, RouteTyped
<1> QED
  BY <1>1 DEF RouteInit, RouteInv, OneRun, Abortable, CardBegun, UnwantedPrepared, NoGhost, AtWork

LEMMA DeliversRoute ==
  ASSUME RouteInv, NEW r \in Runs, stage[r] \in {"preparing", "prompting"}, Delivers(r)
  PROVE  RouteInv'
<1>1. \A q \in Runs : /\ stage'[q] = IF q = r THEN "over" ELSE stage[q]
                      /\ q # r => session'[q] = session[q]
  BY DEF Delivers, RouteInv, RouteTyped
<1>2. UNCHANGED <<card, unwanted, aborting>>
  BY DEF Delivers
<1>3. RouteTyped'
  BY <1>2 DEF Delivers, RouteInv, RouteTyped
<1>4. OneRun' /\ CardBegun' /\ UnwantedPrepared' /\ NoGhost'
  BY <1>1, <1>2 DEF RouteInv, RouteTyped, OneRun, AtWork, CardBegun, UnwantedPrepared, NoGhost
<1>5. Abortable'
  BY <1>1, <1>2 DEF RouteInv, OneRun, AtWork, Abortable
<1> QED
  BY <1>3, <1>4, <1>5 DEF RouteInv

LEMMA StepRoute == InOrder /\ RouteInv /\ [RouteNext]_routeVars => RouteInv'
<1> SUFFICES ASSUME InOrder, RouteInv, [RouteNext]_routeVars PROVE RouteInv'
  OBVIOUS
<1> USE DEF RouteInv, RouteTyped
<1>1. ASSUME NEW r \in Runs, OpensCard(r) PROVE RouteInv'
  <2>1. /\ card' = r /\ stage[r] = "none" /\ \A q \in Runs : ~AtWork(q)
        /\ stage' = [stage EXCEPT ![r] = "preparing"]
        /\ UNCHANGED <<abortHandle, unwanted, aborting, session>>
    BY <1>1 DEF OpensCard, InOrder
  <2> QED
    BY <2>1 DEF OneRun, Abortable, CardBegun, UnwantedPrepared, NoGhost, AtWork
<1>2. ASSUME NEW r \in Runs, Prepared(r) PROVE RouteInv'
  <2>1. /\ stage[r] = "preparing" /\ abortHandle' = r
        /\ stage' = [stage EXCEPT ![r] = "prompting"]
        /\ session' = [session EXCEPT ![r] = "live"]
        /\ UNCHANGED <<card, unwanted, aborting>>
    BY <1>2 DEF Prepared
  <2>2. \A q \in Runs : /\ q # r => ~AtWork(q) /\ stage'[q] = stage[q]
                        /\ stage'[r] = "prompting"
    BY <2>1 DEF OneRun, AtWork
  <2>3. RouteTyped'
    BY <2>1
  <2>4. OneRun' /\ Abortable'
    BY <2>1, <2>2 DEF OneRun, Abortable, AtWork
  <2>5. CardBegun' /\ UnwantedPrepared' /\ NoGhost'
    BY <2>1, <2>2 DEF CardBegun, UnwantedPrepared, NoGhost
  <2> QED
    BY <2>3, <2>4, <2>5
<1>3. ASSUME NEW r \in Runs, PrepareFails(r) \/ PromptReturns(r) PROVE RouteInv'
  BY <1>3, DeliversRoute DEF PrepareFails, PromptReturns
<1>4. ASSUME NEW r \in Runs, NEW verdict, NEW targets, CallsDecision(r, verdict, targets)
      PROVE  RouteInv'
  BY <1>4 DEF CallsDecision, roomSide, OneRun, Abortable, CardBegun, UnwantedPrepared, NoGhost,
              AtWork
<1>5. ASSUME NEW r \in Runs, SupervisorTimesOut(r) PROVE RouteInv'
  BY <1>5 DEF SupervisorTimesOut, roomSide, OneRun, Abortable, CardBegun, UnwantedPrepared,
              NoGhost, AtWork
<1>6. CASE Settles
  BY <1>6 DEF Settles, runSide, OneRun, Abortable, CardBegun, UnwantedPrepared, NoGhost, AtWork
<1>7. CASE HumanSettles
  BY <1>7 DEF HumanSettles, runSide, OneRun, Abortable, CardBegun, UnwantedPrepared, NoGhost,
              AtWork
<1>8. CASE StopRoute
  <2>1. /\ card \in Runs /\ stage[card] \in {"prompting", "over"}
        /\ card' = 0 /\ unwanted' = unwanted \union {card}
        /\ aborting' = [r \in Runs |-> aborting[r] \/ (r = abortHandle /\ session[r] = "live")]
        /\ UNCHANGED <<stage, session>>
    BY <1>8 DEF StopRoute, InOrder, CardBegun
  <2>2. aborting' \in [Runs -> BOOLEAN]
    BY <2>1
  <2>3. \A r \in Runs : stage[r] = "prompting" => aborting'[r] /\ session[r] = "live"
    BY <2>1 DEF Abortable
  <2>4. RouteTyped'
    BY <2>1, <2>2
  <2>5. OneRun' /\ CardBegun' /\ UnwantedPrepared'
    BY <2>1 DEF OneRun, AtWork, CardBegun, UnwantedPrepared
  <2>6. Abortable' /\ NoGhost'
    BY <2>1, <2>3, <2>4 DEF Abortable, NoGhost
  <2> QED
    BY <2>4, <2>5, <2>6
<1>9. CASE UNCHANGED routeVars
  BY <1>9 DEF routeVars, roomSide, runSide, OneRun, Abortable, CardBegun, UnwantedPrepared,
              NoGhost, AtWork
<1> QED
  BY <1>1, <1>2, <1>3, <1>4, <1>5, <1>6, <1>7, <1>8, <1>9 DEF RouteNext, RunStep

\* A Stop leaves no supervisor deciding into the void: the run whose card it
\* takes is aborted or over.  (Not so where a card may be stopped before its
\* session exists: the handle is then not there to call.)
THEOREM RouteNoGhost == ASSUME InOrder PROVE RouteSpec => []NoGhost
<1>1. RouteInit => RouteInv
  BY InitRoute
<1>2. RouteInv /\ [RouteNext]_routeVars => RouteInv'
  BY StepRoute
<1>3. RouteInv => NoGhost
  BY DEF RouteInv
<1> QED
  BY <1>1, <1>2, <1>3, PTL DEF RouteSpec

\* A decision was made by a run, for somebody it was offered: not for whom it
\* judges.
DecisionInv ==
  /\ stage \in [Runs -> {"none", "preparing", "prompting", "over"}]
  /\ offered \in [Runs -> SUBSET Seats]
  /\ \A r \in Runs :
       /\ proposer[r] \notin offered[r]
       /\ stage[r] = "none" => decision[r] = Undecided
       /\ decision[r].verdict = "transfer" =>
            decision[r].targets # {} /\ decision[r].targets \subseteq offered[r]
  /\ DOMAIN decision = Runs

LEMMA UndecidedIsNone == Undecided.verdict # "transfer"
BY DEF Undecided

\* What a call of the tool does to the decisions.
LEMMA DecidesOnce ==
  ASSUME DOMAIN decision = Runs, NEW r \in Runs, NEW verdict, NEW targets, Decides(r, verdict, targets)
  PROVE  /\ DOMAIN decision' = Runs
         /\ \A q \in Runs : decision'[q] = decision[q] \/
              /\ q = r /\ decision[r] = Undecided
              /\ decision'[r].verdict = "transfer" =>
                   decision'[r].targets # {} /\ decision'[r].targets \subseteq offered[r]
<1>1. CASE UNCHANGED decision
  BY <1>1
<1>2. ASSUME NEW d, decision' = [decision EXCEPT ![r] = d], decision[r] = Undecided,
             d.verdict = "transfer" => d.targets # {} /\ d.targets \subseteq offered[r]
      PROVE  /\ DOMAIN decision' = Runs
             /\ \A q \in Runs : decision'[q] = decision[q] \/
                  /\ q = r /\ decision[r] = Undecided
                  /\ decision'[r].verdict = "transfer" =>
                       decision'[r].targets # {} /\ decision'[r].targets \subseteq offered[r]
  BY <1>2
<1> DEFINE plain == [verdict |-> verdict, targets |-> {}]
           some == [verdict |-> verdict, targets |-> targets \intersect offered[r]]
<1>3. CASE decision[r] # Undecided
  BY <1>3, <1>1 DEF Decides, StandsAlready
<1>4. CASE decision[r] = Undecided /\ verdict # "transfer"
  <2>1. decision' = [decision EXCEPT ![r] = plain] /\ plain.verdict # "transfer"
    BY <1>4 DEF Decides, Captures
  <2> QED
    BY <2>1, <1>4, <1>2
<1>5. CASE decision[r] = Undecided /\ verdict = "transfer" /\ targets \intersect offered[r] # {}
  <2>1. /\ decision' = [decision EXCEPT ![r] = some]
        /\ some.targets # {} /\ some.targets \subseteq offered[r]
    BY <1>5 DEF Decides, Captures
  <2> QED
    BY <2>1, <1>5, <1>2
<1>6. CASE decision[r] = Undecided /\ verdict = "transfer" /\ targets \intersect offered[r] = {}
  BY <1>6, <1>1 DEF Decides
<1> QED
  BY <1>3, <1>4, <1>5, <1>6

LEMMA InitDecision == RouteInit => DecisionInv
BY UndecidedIsNone DEF RouteInit, DecisionInv

LEMMA StepDecision == DecisionInv /\ [RouteNext]_routeVars => DecisionInv'
<1> SUFFICES ASSUME DecisionInv, [RouteNext]_routeVars PROVE DecisionInv'
  OBVIOUS
<1> USE DEF DecisionInv
<1>1. ASSUME NEW r \in Runs, OpensCard(r) PROVE DecisionInv'
  <2>1. /\ stage[r] = "none" /\ stage' = [stage EXCEPT ![r] = "preparing"]
        /\ offered' = [offered EXCEPT ![r] = Seats \ {proposer[r]}]
        /\ UNCHANGED <<proposer, decision>>
    BY <1>1 DEF OpensCard
  <2> QED
    BY <2>1, UndecidedIsNone
<1>2. ASSUME NEW r \in Runs, Prepared(r) PROVE DecisionInv'
  BY <1>2 DEF Prepared
<1>3. ASSUME NEW r \in Runs, PrepareFails(r) \/ PromptReturns(r) PROVE DecisionInv'
  BY <1>3 DEF PrepareFails, PromptReturns, Delivers
<1>4. ASSUME NEW r \in Runs, NEW verdict, NEW targets, CallsDecision(r, verdict, targets)
      PROVE  DecisionInv'
  <2>1. Decides(r, verdict, targets) /\ stage[r] = "prompting" /\ UNCHANGED <<stage, offered, proposer>>
    BY <1>4 DEF CallsDecision
  <2> QED
    BY <2>1, DecidesOnce
<1>5. ASSUME NEW r \in Runs, SupervisorTimesOut(r) PROVE DecisionInv'
  BY <1>5 DEF SupervisorTimesOut
<1>6. CASE Settles \/ HumanSettles \/ StopRoute
  BY <1>6 DEF Settles, HumanSettles, StopRoute, runSide
<1>7. CASE UNCHANGED routeVars
  BY <1>7 DEF routeVars, runSide
<1> QED
  BY <1>1, <1>2, <1>3, <1>4, <1>5, <1>6, <1>7 DEF RouteNext, RunStep

\* A supervisor's verdict stands once it was taken, whatever its model calls
\* after it, and transfers to somebody it was offered, never to the proposer.
THEOREM RouteFirstStands == RouteSpec => FirstStands
<1> DEFINE Stands ==
      \A r \in Runs :
        /\ decision[r] # Undecided => decision'[r] = decision[r]
        /\ decision'[r].verdict = "transfer" =>
             /\ decision'[r].targets # {}
             /\ decision'[r].targets \subseteq (offered[r] \ {proposer[r]})
<1>1. RouteInit => DecisionInv
  BY InitDecision
<1>2. DecisionInv /\ [RouteNext]_routeVars => DecisionInv'
  BY StepDecision
<1>3. DecisionInv /\ [RouteNext]_routeVars => [Stands]_routeVars
  <2> SUFFICES ASSUME DecisionInv, RouteNext PROVE Stands
    OBVIOUS
  <2>1. CASE UNCHANGED decision
    BY <2>1 DEF DecisionInv
  <2>2. ASSUME NEW r \in Runs, NEW verdict, NEW targets, CallsDecision(r, verdict, targets)
        PROVE  Stands
    <3>1. Decides(r, verdict, targets) /\ DOMAIN decision = Runs
      BY <2>2 DEF CallsDecision, DecisionInv
    <3> QED
      BY <3>1, DecidesOnce DEF DecisionInv
  <2>3. UNCHANGED decision \/
          \E r \in Runs, verdict \in {"accept", "refuse", "transfer"}, targets \in SUBSET Seats :
            CallsDecision(r, verdict, targets)
    BY DEF RouteNext, RunStep, OpensCard, Prepared, PrepareFails, PromptReturns, Delivers,
           SupervisorTimesOut, Settles, HumanSettles, StopRoute, runSide
  <2> QED
    BY <2>1, <2>2, <2>3
<1> QED
  BY <1>1, <1>2, <1>3, PTL DEF RouteSpec, FirstStands

(* ---- logins at a provider ------------------------------------------------------ *)

FlowStates == {"none", "scheduled", "working", "prompting", "rejected", "done"}

Entries == [flow : Flows, prompt : Nat]

\* Logins are started one after the other, and no question is newer than the
\* last one asked.
LoginInv ==
  /\ flow \in [Flows -> FlowStates]
  /\ prompt \in [Flows -> Nat] /\ asked \in Nat
  /\ pending \in Entries \union {NoEntry}
  /\ \E n \in 0 .. MaxFlows : Started = 1 .. n
  /\ \A f \in Flows : prompt[f] <= asked
  /\ QuestionReached

LEMMA InitLogin == ProvidersInit => LoginInv
<1> SUFFICES ASSUME ProvidersInit PROVE LoginInv
  OBVIOUS
<1>1. Started = 1 .. 0 /\ 0 \in 0 .. MaxFlows
  BY ProvidersBoundsAssumption DEF ProvidersInit, Started
<1> QED
  BY <1>1 DEF ProvidersInit, LoginInv, FlowStates, QuestionReached, EntryAlive, NewestAnswerable,
              Waits

\* A new login gets a place that none had before it.
LEMMA PlaceIsNew ==
  ASSUME LoginInv, Cardinality(Started) < MaxFlows
  PROVE  /\ Cardinality(Started) + 1 \in Flows
         /\ flow[Cardinality(Started) + 1] = "none"
         /\ Cardinality(Started) + 1 \in 1 .. MaxFlows
         /\ Started = 1 .. Cardinality(Started)
         /\ Cardinality(Started) \in Nat
<1>1. PICK n \in 0 .. MaxFlows : Started = 1 .. n
  BY DEF LoginInv
<1>2. n \in Nat
  BY <1>1, ProvidersBoundsAssumption
<1>3. Cardinality(1 .. n) = n
  BY <1>2, FS_Interval
<1>4. Cardinality(Started) = n /\ n + 1 \in Flows /\ n + 1 \notin Started
  BY <1>1, <1>2, <1>3, ProvidersBoundsAssumption DEF Flows
<1> QED
  BY <1>1, <1>2, <1>4 DEF Started, Flows

LEMMA ScheduleLogin ==
  ASSUME LoginInv, NEW count, Schedule(count), UNCHANGED <<prompt, asked, pending>>
  PROVE  LoginInv'
<1> DEFINE f == Cardinality(Started) + 1
<1>1. f \in Flows /\ flow[f] = "none" /\ Started = 1 .. (f - 1) /\ f \in 1 .. MaxFlows
  BY PlaceIsNew, ProvidersBoundsAssumption DEF Schedule
<1>2. flow' = [flow EXCEPT ![f] = "scheduled"]
  BY DEF Schedule
<1> HIDE DEF f
<1>3. flow' \in [Flows -> FlowStates]
  BY <1>1, <1>2 DEF LoginInv, FlowStates
<1>4. Started' = 1 .. f
  <2>1. Started' = Started \union {f}
    BY <1>1, <1>2 DEF Started, LoginInv
  <2> QED
    BY <2>1, <1>1
<1>5. \E n \in 0 .. MaxFlows : Started' = 1 .. n
  BY <1>1, <1>4
<1>6. \A g \in Flows : Waits(g)' <=> Waits(g)
  BY <1>1, <1>2 DEF Waits, LoginInv
<1>7. QuestionReached'
  <2>1. pending # NoEntry => pending.flow \in Flows
    BY DEF LoginInv, Entries
  <2> QED
    BY <2>1, <1>6 DEF LoginInv, QuestionReached, EntryAlive, NewestAnswerable, Waits
<1> QED
  BY <1>3, <1>5, <1>7 DEF LoginInv

\* A login that leaves its question, or has none: the entry goes if it is its
\* own, and stays if it is another's.
LEMMA LeavesQuestion ==
  ASSUME LoginInv, NEW f \in Flows, flow[f] # "none",
         NEW to \in FlowStates \ {"none", "prompting"},
         flow' = [flow EXCEPT ![f] = to], pending' = DropOwnEntry(f), UNCHANGED <<prompt, asked>>
  PROVE  LoginInv'
<1>1. \A g \in Flows : flow'[g] = IF g = f THEN to ELSE flow[g]
  BY DEF LoginInv
<1>2. flow' \in [Flows -> FlowStates]
  BY DEF LoginInv
<1>3. Started' = Started
  BY <1>1 DEF Started, LoginInv
<1>4. pending' \in {pending, NoEntry}
  BY DEF DropOwnEntry
<1>5. EntryAlive'
  <2> SUFFICES ASSUME pending' # NoEntry
               PROVE  Waits(pending.flow)' /\ prompt[pending.flow] = pending.prompt
    BY <1>4 DEF EntryAlive
  <2>1. /\ pending # NoEntry /\ pending \in Entries /\ pending.flow \in Flows
        /\ Waits(pending.flow) /\ prompt[pending.flow] = pending.prompt
        /\ pending' = pending
    BY <1>4 DEF LoginInv, QuestionReached, EntryAlive, Entries
  <2>2. pending.flow # f
    <3>1. ASSUME pending.flow = f PROVE pending = [flow |-> f, prompt |-> prompt[f]]
      BY <3>1, <2>1 DEF Entries
    <3> QED
      BY <3>1 DEF DropOwnEntry
  <2> QED
    BY <1>1, <2>1, <2>2 DEF Waits
<1>6. NewestAnswerable'
  <2> SUFFICES ASSUME NEW g \in Flows, Waits(g)', prompt[g] = asked
               PROVE  pending' = [flow |-> g, prompt |-> asked]
    BY DEF NewestAnswerable, Waits
  <2>1. g # f /\ Waits(g)
    BY <1>1 DEF Waits
  <2>2. pending = [flow |-> g, prompt |-> asked]
    BY <2>1 DEF LoginInv, QuestionReached, NewestAnswerable
  <2> QED
    BY <2>1, <2>2 DEF DropOwnEntry
<1> QED
  BY <1>2, <1>3, <1>4, <1>5, <1>6 DEF LoginInv, QuestionReached

\* The entry is taken from whoever waits for it, if anybody still does.
LEMMA TakesQuestion ==
  ASSUME LoginInv, pending # NoEntry, pending' = NoEntry,
         NEW to \in FlowStates \ {"none", "prompting"},
         flow' = [flow EXCEPT ![pending.flow] = to], UNCHANGED <<prompt, asked>>
  PROVE  LoginInv'
<1> DEFINE f == pending.flow
<1>1. f \in Flows /\ Waits(f)
  BY DEF LoginInv, QuestionReached, EntryAlive, Entries
<1> HIDE DEF f
<1>2. flow' = [flow EXCEPT ![f] = to]
  BY DEF f
<1>3. \A g \in Flows : flow'[g] = IF g = f THEN to ELSE flow[g]
  BY <1>2 DEF LoginInv
<1>4. flow' \in [Flows -> FlowStates]
  BY <1>2 DEF LoginInv
<1>5. Started' = Started
  BY <1>1, <1>3 DEF Started, Waits
<1>6. EntryAlive'
  BY DEF EntryAlive
<1>7. NewestAnswerable'
  <2> SUFFICES ASSUME NEW g \in Flows, Waits(g)', prompt[g] = asked PROVE FALSE
    BY DEF NewestAnswerable, Waits
  <2>1. g # f /\ Waits(g)
    BY <1>3 DEF Waits
  <2>2. pending = [flow |-> g, prompt |-> asked]
    BY <2>1 DEF LoginInv, QuestionReached, NewestAnswerable
  <2> QED
    BY <2>1, <2>2 DEF f
<1> QED
  BY <1>4, <1>5, <1>6, <1>7 DEF LoginInv, QuestionReached

LEMMA PromptsLogin == ASSUME LoginInv, NEW f \in Flows, Prompts(f) PROVE LoginInv'
<1>1. /\ flow[f] = "working" /\ asked' = asked + 1
      /\ flow' = [flow EXCEPT ![f] = "prompting"]
      /\ prompt' = [prompt EXCEPT ![f] = asked + 1]
      /\ pending' = [flow |-> f, prompt |-> asked + 1]
  BY DEF Prompts
<1>2. /\ flow' \in [Flows -> FlowStates] /\ prompt' \in [Flows -> Nat] /\ asked' \in Nat
      /\ pending' \in Entries
  BY <1>1 DEF LoginInv, FlowStates, Entries
<1>3. Started' = Started
  BY <1>1 DEF Started, LoginInv
<1>4. \A g \in Flows : prompt'[g] <= asked' /\ (g # f => prompt'[g] # asked')
  BY <1>1 DEF LoginInv
<1>5. Waits(f)' /\ prompt'[f] = asked'
  BY <1>1 DEF LoginInv, Waits
<1>6. EntryAlive'
  BY <1>1, <1>5 DEF EntryAlive, Waits
<1>7. NewestAnswerable'
  BY <1>1, <1>4 DEF NewestAnswerable
<1> QED
  BY <1>2, <1>3, <1>4, <1>6, <1>7 DEF LoginInv, QuestionReached

LEMMA RestartLogin == ASSUME LoginInv, ServerRestart PROVE LoginInv'
<1>1. /\ flow' = [f \in Flows |-> IF flow[f] = "none" THEN "none" ELSE "done"]
      /\ pending' = NoEntry /\ UNCHANGED <<prompt, asked>>
  BY DEF ServerRestart
<1>2. flow' \in [Flows -> FlowStates]
  BY <1>1 DEF FlowStates
<1>3. Started' = Started
  BY <1>1 DEF Started
<1>4. QuestionReached'
  BY <1>1 DEF QuestionReached, EntryAlive, NewestAnswerable, Waits
<1> QED
  BY <1>1, <1>2, <1>3, <1>4 DEF LoginInv

LEMMA StepLogin == LoginInv /\ [ProvidersNext]_providerVars => LoginInv'
<1> SUFFICES ASSUME LoginInv, [ProvidersNext]_providerVars PROVE LoginInv'
  OBVIOUS
<1>1. CASE Login \/ WaitEnds
  BY <1>1, ScheduleLogin DEF Login, WaitEnds
<1>2. CASE Relogin
  <2>1. Waits(pending.flow) /\ pending # NoEntry
    BY <1>2 DEF Relogin, LoginInv, QuestionReached, EntryAlive
  <2> QED
    BY <2>1, <1>2, TakesQuestion DEF Relogin, FlowStates
<1>3. ASSUME NEW f \in Flows, FlowStep(f) PROVE LoginInv'
  <2>1. CASE FlowBegins(f) \/ AsksToSelect(f)
    <3>1. /\ flow[f] \in {"scheduled", "working"} /\ UNCHANGED <<prompt, asked, pending>>
          /\ \E to \in {"working", "rejected"} : flow' = [flow EXCEPT ![f] = to]
      BY <2>1 DEF FlowBegins, AsksToSelect
    <3>2. pending' = DropOwnEntry(f)
      <4>1. pending # [flow |-> f, prompt |-> prompt[f]]
        <5> SUFFICES ASSUME pending = [flow |-> f, prompt |-> prompt[f]] PROVE FALSE
          OBVIOUS
        <5>1. pending.flow = f /\ pending # NoEntry
          BY DEF NoEntry, Flows
        <5> QED
          BY <3>1, <5>1 DEF LoginInv, QuestionReached, EntryAlive, Waits
      <4> QED
        BY <3>1, <4>1 DEF DropOwnEntry
    <3> QED
      BY <3>1, <3>2, LeavesQuestion DEF FlowStates
  <2>2. CASE Prompts(f)
    BY <2>2, PromptsLogin
  <2>3. CASE TimesOut(f) \/ Withdraws(f) \/ Succeeds(f) \/ Fails(f)
    <3>1. /\ flow[f] # "none" /\ UNCHANGED <<prompt, asked>> /\ pending' = DropOwnEntry(f)
          /\ \E to \in {"working", "rejected", "done"} : flow' = [flow EXCEPT ![f] = to]
      BY <2>3 DEF TimesOut, Withdraws, Succeeds, Fails, Waits, Alive
    <3> QED
      BY <3>1, LeavesQuestion DEF FlowStates
  <2> QED
    BY <1>3, <2>1, <2>2, <2>3 DEF FlowStep
<1>4. CASE Input \/ Cancel
  <2>1. Waits(pending.flow) /\ pending # NoEntry
    BY <1>4 DEF Input, Cancel, Answered, LoginInv, QuestionReached, EntryAlive
  <2> QED
    BY <2>1, <1>4, TakesQuestion DEF Input, Cancel, Answered, FlowStates
<1>5. CASE ServerRestart
  BY <1>5, RestartLogin
<1>6. ASSUME UNCHANGED login PROVE LoginInv'
  BY <1>6 DEF login, LoginInv, QuestionReached, EntryAlive, NewestAnswerable, Waits, Started
<1>7. CASE AddKey \/ KeyAdded \/ RemoveKey \/ KeyRemoved
  BY <1>6, <1>7 DEF AddKey, KeyAdded, RemoveKey, KeyRemoved
<1>8. CASE (\E model \in {"cloud", "default"} : Assign(model)) \/ SetAllowCloud \/ TurnFlips
  BY <1>6, <1>8 DEF Assign, SetAllowCloud, TurnFlips
<1>9. CASE UNCHANGED providerVars
  BY <1>6, <1>9 DEF providerVars
<1> QED
  BY <1>1, <1>2, <1>3, <1>4, <1>5, <1>7, <1>8, <1>9 DEF ProvidersNext

\* However many logins are started over one another, time out, are withdrawn,
\* fail or end, the provider's one entry is a question that still waits, and an
\* older login's end never takes the newest question's place.
THEOREM LoginQuestionReached == ProvidersSpec => []QuestionReached
<1>1. ProvidersInit => LoginInv
  BY InitLogin
<1>2. LoginInv /\ [ProvidersNext]_providerVars => LoginInv'
  BY StepLogin
<1>3. LoginInv => QuestionReached
  BY DEF LoginInv
<1> QED
  BY <1>1, <1>2, <1>3, PTL DEF ProvidersSpec
(* ---- conversations and their files --------------------------------------------- *)

\* No request comes while a conversation operation awaits.
OneAtATime == ~Overlaps

Texts == [of : Convs, n : Nat]
Docs == [text : Texts, roster : Nat, at : Nat]
Snapshots == [conv : Convs, text : Texts \union {Live}, roster : Nat, at : Nat]

FilesTyped ==
  /\ convId \in Convs /\ text \in Texts /\ roster \in Nat
  /\ chain \in Seq(Snapshots)
  /\ disk \in [Convs -> Docs \union {NoDoc}]
  /\ clock \in Nat /\ clock > 0 /\ edits \in Nat /\ failures \in Nat
  /\ deleted \subseteq Convs

\* What an operation is waiting with belongs to the conversation it is for, and
\* nothing is saved behind its back while it changes which one is live.
OpFits ==
  /\ op # NoOp => down = "up" /\ ~turn
  /\ op.at \in {"leaving", "left", "resetting", "renaming"} =>
       /\ op.conv \in Convs \ deleted
       /\ op.doc \in Docs /\ op.doc.text.of = op.conv
  /\ op.at \in {"leaving", "left"} => op.conv # convId
  /\ op.at = "resetting" => op.conv = convId
  /\ op.at \in {"leaving", "left", "resetting"} => op.new \in BOOLEAN
  /\ op.at = "left" => ~timer /\ (chain # <<>> => chain[Len(chain)].at = op.save)
  /\ op.at = "resetting" /\ ~op.new => ~timer
  /\ op.at = "deleting" => ~timer /\ chain = <<>>
  /\ roster = Cleared => op.at = "resetting" \/ down = "sealed"
  /\ convId \in deleted => op.at = "deleting"

\* Every text is its own conversation's: the live one's, unless it is about to
\* be replaced, those on the chain and those on disk.
TextsFit ==
  /\ text.of = convId \/ (op.at = "resetting" /\ ~op.new)
  /\ \A i \in DOMAIN chain :
       /\ chain[i].conv \notin deleted
       /\ IF chain[i].text = Live THEN text.of = chain[i].conv
                                  ELSE chain[i].text.of = chain[i].conv
  /\ FilesFit

\* Snapshots are written in the order they were taken.
InTime ==
  /\ \A i, j \in DOMAIN chain : i < j => chain[i].at < chain[j].at
  /\ \A i \in DOMAIN chain : chain[i].at < clock
  /\ \A c \in Convs : Saved(c) =>
       disk[c].at < clock /\ \A i \in DOMAIN chain : disk[c].at < chain[i].at

\* A snapshot taken while the roster was being rebuilt has a whole one behind
\* it, or will have when the reset is over, before any other conversation's.
Mended(c, i) ==
  /\ c = convId
  /\ \/ /\ op.at = "resetting" /\ op.new
        /\ \A k \in DOMAIN chain : k > i => chain[k].conv = c
     \/ \E j \in DOMAIN chain :
          /\ j > i /\ chain[j].roster # Cleared
          /\ \A k \in DOMAIN chain : k > i /\ k <= j => chain[k].conv = c

Newest(c) == \A d \in Convs \ {c} : Saved(d) => disk[d].at < disk[c].at

Mending == failures = 0 =>
  /\ \A i \in DOMAIN chain : chain[i].roster = Cleared => Mended(chain[i].conv, i)
  /\ \A c \in Convs : Saved(c) /\ disk[c].roster = Cleared => Newest(c) /\ Mended(c, 0)
  /\ op.at = "renaming" => op.doc.roster # Cleared

\* What the shutdown found pending is on its way or written, and nothing after
\* it has an empty roster.
OwedKept == down # "up" /\ owed # NoSnapshot /\ failures = 0 =>
  /\ owed.conv \in Convs /\ owed.at \in Nat
  /\ \/ Saved(owed.conv) /\ disk[owed.conv].at >= owed.at
     \/ /\ down = "saving"
        /\ \E i \in DOMAIN chain : chain[i].conv = owed.conv /\ chain[i].at = owed.at
  /\ \A i \in DOMAIN chain : chain[i].at >= owed.at => chain[i].roster # Cleared
  /\ \A c \in Convs : Saved(c) /\ disk[c].at >= owed.at => disk[c].roster # Cleared

FilesInv == FilesTyped /\ OpFits /\ TextsFit /\ InTime /\ Mending /\ OwedKept

(* What records are, and what is done to the chain. *)

LEMMA TextNotLive == \A t \in Texts : t # Live
<1> SUFFICES ASSUME NEW t \in Texts, t = Live PROVE FALSE
  OBVIOUS
<1>1. DOMAIN t = {"of", "n"}
  BY DEF Texts
<1>2. DOMAIN Live = {"now"}
  BY DEF Live
<1> QED
  BY <1>1, <1>2

LEMMA DocNotMissing == \A d \in Docs : d # NoDoc
<1> SUFFICES ASSUME NEW d \in Docs, d = NoDoc PROVE FALSE
  OBVIOUS
<1>1. DOMAIN d = {"text", "roster", "at"}
  BY DEF Docs
<1>2. DOMAIN NoDoc = {"missing"}
  BY DEF NoDoc
<1> QED
  BY <1>1, <1>2

LEMMA OpNames ==
  /\ NoOp.at = "none"
  /\ op = NoOp => op.at = "none"
BY DEF NoOp

LEMMA DocTyped ==
  ASSUME NEW t \in Texts, NEW r \in Nat, NEW at \in Nat
  PROVE  /\ Doc(t, r, at) \in Docs /\ Doc(t, r, at) # NoDoc
         /\ Doc(t, r, at).text = t /\ Doc(t, r, at).roster = r /\ Doc(t, r, at).at = at
<1>1. Doc(t, r, at) \in Docs
  BY DEF Doc, Docs
<1> QED
  BY <1>1, DocNotMissing DEF Doc

LEMMA TextTyped ==
  ASSUME NEW c \in Convs, NEW n \in Nat PROVE Text(c, n) \in Texts /\ Text(c, n).of = c
BY DEF Text, Texts

LEMMA SavedTyped ==
  ASSUME FilesTyped, NEW c \in Convs, Saved(c)
  PROVE  /\ disk[c] \in Docs /\ disk[c].text \in Texts /\ disk[c].text.of \in Convs
         /\ disk[c].roster \in Nat /\ disk[c].at \in Nat
<1>1. disk[c] \in Docs
  BY DEF FilesTyped, Saved
<1> QED
  BY <1>1 DEF Docs, Texts

LEMMA ChainTyped ==
  ASSUME FilesTyped
  PROVE  /\ DOMAIN chain = 1 .. Len(chain) /\ Len(chain) \in Nat
         /\ \A i \in DOMAIN chain :
              /\ chain[i] \in Snapshots /\ chain[i].conv \in Convs
              /\ chain[i].text \in Texts \union {Live}
              /\ chain[i].roster \in Nat /\ chain[i].at \in Nat
<1>1. chain \in Seq(Snapshots)
  BY DEF FilesTyped
<1>2. \A i \in DOMAIN chain : chain[i] \in Snapshots
  BY <1>1
<1> QED
  BY <1>1, <1>2 DEF Snapshots

LEMMA SnapshotTyped ==
  ASSUME FilesTyped
  PROVE  /\ Snapshot \in Snapshots /\ Snapshot.conv = convId /\ Snapshot.text = Live
         /\ Snapshot.roster = roster /\ Snapshot.at = clock
BY DEF FilesTyped, Snapshot, Snapshots

SameFields(s, t) == s.conv = t.conv /\ s.roster = t.roster /\ s.at = t.at

\* A step keeps the chain, but for texts; adds a snapshot; or takes the first.
ChainKeeps ==
  /\ DOMAIN chain' = DOMAIN chain
  /\ \A i \in DOMAIN chain : SameFields(chain'[i], chain[i])

ChainAdds(c, r) ==
  /\ DOMAIN chain' = 1 .. (Len(chain) + 1)
  /\ \A i \in DOMAIN chain : SameFields(chain'[i], chain[i])
  /\ chain'[Len(chain) + 1].conv = c /\ chain'[Len(chain) + 1].roster = r
  /\ chain'[Len(chain) + 1].at = clock

ChainTakes ==
  /\ Len(chain) > 0
  /\ DOMAIN chain' = 1 .. (Len(chain) - 1)
  /\ \A i \in DOMAIN chain' : chain'[i] = chain[i + 1]

\* The live transcript that the chain refers to becomes a text of its own.
LEMMA FrozenChain ==
  ASSUME FilesTyped
  PROVE  /\ Frozen \in Seq(Snapshots) /\ DOMAIN Frozen = DOMAIN chain /\ Len(Frozen) = Len(chain)
         /\ \A i \in DOMAIN chain :
              /\ SameFields(Frozen[i], chain[i])
              /\ Frozen[i].text = IF chain[i].text = Live THEN text ELSE chain[i].text
<1> DEFINE froze(s) == IF s.text = Live THEN [s EXCEPT !.text = text] ELSE s
<1>1. \A s \in Snapshots : /\ froze(s) \in Snapshots /\ SameFields(froze(s), s)
                           /\ froze(s).text = IF s.text = Live THEN text ELSE s.text
  BY DEF FilesTyped, Snapshots, SameFields
<1>2. Frozen = [i \in 1 .. Len(chain) |-> froze(chain[i])]
  BY ChainTyped DEF Frozen
<1>3. \A i \in 1 .. Len(chain) : chain[i] \in Snapshots
  BY ChainTyped
<1> HIDE DEF froze
<1>4. Frozen \in Seq(Snapshots) /\ Len(Frozen) = Len(chain)
  BY <1>1, <1>2, <1>3, ChainTyped
<1> QED
  BY <1>1, <1>2, <1>3, <1>4, ChainTyped

LEMMA Appended ==
  ASSUME NEW s \in Seq(Snapshots), NEW t \in Snapshots
  PROVE  /\ Append(s, t) \in Seq(Snapshots)
         /\ DOMAIN Append(s, t) = 1 .. (Len(s) + 1) /\ DOMAIN s = 1 .. Len(s)
         /\ \A i \in DOMAIN s : Append(s, t)[i] = s[i]
         /\ Append(s, t)[Len(s) + 1] = t
OBVIOUS

\* Saving adds what is live, unless the room is sealed.
LEMMA Saves ==
  ASSUME FilesTyped, SaveCurrent
  PROVE  \/ down = "sealed" /\ UNCHANGED <<chain, clock, timer>>
         \/ /\ down # "sealed" /\ timer' = FALSE /\ clock' = clock + 1
            /\ chain' = Append(chain, Snapshot) /\ chain' \in Seq(Snapshots)
            /\ ChainAdds(convId, roster)
            /\ \A i \in DOMAIN chain : chain'[i] = chain[i]
            /\ chain'[Len(chain) + 1] = Snapshot
<1>1. CASE down = "sealed"
  BY <1>1 DEF SaveCurrent
<1>2. CASE down # "sealed"
  <2>1. chain' = Append(chain, Snapshot) /\ timer' = FALSE /\ clock' = clock + 1
    BY <1>2 DEF SaveCurrent, Enqueue
  <2>2. chain \in Seq(Snapshots)
    BY DEF FilesTyped
  <2> QED
    BY <1>2, <2>1, <2>2, SnapshotTyped, Appended DEF ChainAdds, SameFields
<1> QED
  BY <1>1, <1>2

LEMMA Takes ==
  ASSUME FilesTyped, chain # <<>>, chain' = Tail(chain)
  PROVE  ChainTakes /\ chain' \in Seq(Snapshots) /\ Head(chain) = chain[1] /\ 1 \in DOMAIN chain
<1>1. chain \in Seq(Snapshots)
  BY DEF FilesTyped
<1> QED
  BY <1>1 DEF ChainTakes

LEMMA LastTaken ==
  ASSUME FilesTyped, chain # <<>>, chain' = Tail(chain), chain' # <<>>
  PROVE  chain'[Len(chain')] = chain[Len(chain)]
<1>1. chain \in Seq(Snapshots)
  BY DEF FilesTyped
<1>2. Len(chain') = Len(chain) - 1 /\ chain' \in Seq(Snapshots)
  BY <1>1
<1>3. Len(chain') \in Nat /\ Len(chain') # 0
  BY <1>2
<1>4. \A i \in 1 .. Len(Tail(chain)) : Tail(chain)[i] = chain[i + 1]
  BY <1>1
<1> QED
  BY <1>2, <1>3, <1>4

(* What steps of the chain keep. *)

LEMMA KeepsTime ==
  ASSUME FilesTyped, InTime, ChainKeeps, UNCHANGED <<disk, clock>> PROVE InTime'
BY DEF InTime, ChainKeeps, SameFields, Saved

LEMMA AddsTime ==
  ASSUME FilesTyped, InTime, NEW c, NEW r, ChainAdds(c, r), disk' = disk, clock' = clock + 1
  PROVE  InTime'
<1> DEFINE n == Len(chain)
<1>1. /\ DOMAIN chain = 1 .. n /\ n \in Nat /\ DOMAIN chain' = 1 .. (n + 1) /\ clock \in Nat
      /\ \A i \in DOMAIN chain : chain[i].at \in Nat
  BY ChainTyped DEF ChainAdds, FilesTyped
<1>2. \A i \in 1 .. n : chain'[i].at = chain[i].at /\ chain[i].at < clock
  BY <1>1 DEF ChainAdds, SameFields, InTime
<1>3. chain'[n + 1].at = clock
  BY DEF ChainAdds
<1> HIDE DEF n
<1>4. \A i \in DOMAIN chain' : chain'[i].at < clock'
  <2> SUFFICES ASSUME NEW i \in 1 .. (n + 1) PROVE chain'[i].at < clock + 1
    BY <1>1
  <2>1. CASE i = n + 1
    BY <2>1, <1>1, <1>3
  <2>2. CASE i # n + 1
    <3>1. i \in 1 .. n
      BY <2>2, <1>1
    <3> QED
      BY <3>1, <1>1, <1>2
  <2> QED
    BY <2>1, <2>2
<1>5. \A i, j \in DOMAIN chain' : i < j => chain'[i].at < chain'[j].at
  <2> SUFFICES ASSUME NEW i \in 1 .. (n + 1), NEW j \in 1 .. (n + 1), i < j
               PROVE  chain'[i].at < chain'[j].at
    BY <1>1
  <2>1. i \in 1 .. n
    BY <1>1
  <2>2. CASE j = n + 1
    BY <2>1, <2>2, <1>2, <1>3
  <2>3. CASE j # n + 1
    <3>1. j \in 1 .. n
      BY <2>3, <1>1
    <3> QED
      BY <2>1, <3>1, <1>1, <1>2 DEF InTime
  <2> QED
    BY <2>2, <2>3
<1>6. ASSUME NEW d \in Convs, Saved(d)
      PROVE  disk[d].at < clock + 1 /\ \A i \in DOMAIN chain' : disk[d].at < chain'[i].at
  <2>1. disk[d].at \in Nat /\ disk[d].at < clock /\ \A i \in 1 .. n : disk[d].at < chain[i].at
    BY <1>1, <1>6, SavedTyped DEF InTime
  <2> SUFFICES ASSUME NEW i \in 1 .. (n + 1) PROVE disk[d].at < chain'[i].at
    BY <2>1, <1>1
  <2>2. CASE i = n + 1
    BY <2>1, <2>2, <1>3
  <2>3. CASE i # n + 1
    <3>1. i \in 1 .. n
      BY <2>3, <1>1
    <3> QED
      BY <2>1, <3>1, <1>2
  <2> QED
    BY <2>2, <2>3
<1> QED
  BY <1>4, <1>5, <1>6 DEF InTime, Saved

\* The first of the chain is written, or lost: the rest is as it was, one place
\* further on.
LEMMA Shifted ==
  ASSUME FilesTyped, ChainTakes
  PROVE  /\ Len(chain) \in Nat /\ DOMAIN chain = 1 .. Len(chain)
         /\ 1 \in DOMAIN chain
         /\ \A i \in DOMAIN chain' : /\ i + 1 \in DOMAIN chain /\ chain'[i] = chain[i + 1]
                                     /\ i \in Nat /\ i > 0
         /\ \A i \in DOMAIN chain : i > 1 => i - 1 \in DOMAIN chain' /\ chain'[i - 1] = chain[i]
<1>1. Len(chain) \in Nat /\ DOMAIN chain = 1 .. Len(chain) /\ Len(chain) > 0
  BY ChainTyped DEF ChainTakes
<1>2. DOMAIN chain' = 1 .. (Len(chain) - 1)
  BY DEF ChainTakes
<1>3. \A i \in DOMAIN chain' : i + 1 \in DOMAIN chain /\ i \in Nat /\ i > 0
  BY <1>1, <1>2
<1>4. \A i \in DOMAIN chain : i > 1 => i - 1 \in DOMAIN chain' /\ (i - 1) + 1 = i
  BY <1>1, <1>2
<1> QED
  BY <1>1, <1>3, <1>4 DEF ChainTakes

LEMMA DropsTime ==
  ASSUME FilesTyped, InTime, ChainTakes, UNCHANGED <<disk, clock>> PROVE InTime'
<1>1. \A i, j \in DOMAIN chain' : i < j => chain'[i].at < chain'[j].at
  <2> SUFFICES ASSUME NEW i \in DOMAIN chain', NEW j \in DOMAIN chain', i < j
               PROVE  chain'[i].at < chain'[j].at
    OBVIOUS
  <2>1. /\ i + 1 \in DOMAIN chain /\ j + 1 \in DOMAIN chain /\ i + 1 < j + 1
        /\ chain'[i] = chain[i + 1] /\ chain'[j] = chain[j + 1]
    BY Shifted
  <2> QED
    BY <2>1 DEF InTime
<1> QED
  BY <1>1, Shifted DEF InTime, Saved

\* The head of the chain, of conversation h, becomes h's file.
WrittenHead(h) ==
  /\ h = chain[1].conv /\ h \in Convs
  /\ DOMAIN disk' = Convs
  /\ Saved(h)' /\ disk'[h].roster = chain[1].roster /\ disk'[h].at = chain[1].at
  /\ \A c \in Convs \ {h} : disk'[c] = disk[c]

LEMMA LandsTime ==
  ASSUME FilesTyped, InTime, ChainTakes, clock' = clock, NEW h, WrittenHead(h) PROVE InTime'
<1>1. \A i, j \in DOMAIN chain' : i < j => chain'[i].at < chain'[j].at
  <2> SUFFICES ASSUME NEW i \in DOMAIN chain', NEW j \in DOMAIN chain', i < j
               PROVE  chain'[i].at < chain'[j].at
    OBVIOUS
  <2>1. /\ i + 1 \in DOMAIN chain /\ j + 1 \in DOMAIN chain /\ i + 1 < j + 1
        /\ chain'[i] = chain[i + 1] /\ chain'[j] = chain[j + 1]
    BY Shifted
  <2> QED
    BY <2>1 DEF InTime
<1>2. \A i \in DOMAIN chain' : chain[1].at < chain'[i].at /\ chain'[i].at < clock
  <2> SUFFICES ASSUME NEW i \in DOMAIN chain'
               PROVE  chain[1].at < chain'[i].at /\ chain'[i].at < clock
    OBVIOUS
  <2>1. 1 \in DOMAIN chain /\ i + 1 \in DOMAIN chain /\ 1 < i + 1 /\ chain'[i] = chain[i + 1]
    BY Shifted
  <2> QED
    BY <2>1 DEF InTime
<1>3. ASSUME NEW c \in Convs, Saved(c)'
      PROVE  disk'[c].at < clock /\ \A i \in DOMAIN chain' : disk'[c].at < chain'[i].at
  <2>1. CASE c = h
    BY <2>1, <1>2, Shifted DEF WrittenHead, InTime
  <2>2. CASE c # h
    <3>1. disk'[c] = disk[c] /\ Saved(c)
      BY <2>2, <1>3 DEF WrittenHead, Saved
    <3> QED
      BY <3>1, Shifted DEF InTime
  <2> QED
    BY <2>1, <2>2
<1> QED
  BY <1>1, <1>2, <1>3 DEF InTime

\* A snapshot that lands is younger than the file it replaces.
LEMMA LandsNewer ==
  ASSUME FilesTyped, InTime, ChainTakes, NEW h, WrittenHead(h), NEW c \in Convs, Saved(c)
  PROVE  disk[c].at <= disk'[c].at
<1>1. 1 \in DOMAIN chain /\ chain[1].at \in Nat /\ disk[c].at \in Nat
  BY Shifted, ChainTyped, SavedTyped
<1>2. CASE c = h
  BY <1>1, <1>2 DEF WrittenHead, InTime
<1>3. CASE c # h
  BY <1>1, <1>3 DEF WrittenHead
<1> QED
  BY <1>2, <1>3

(* What they keep of what the shutdown owes. *)

LEMMA KeepsOwed ==
  ASSUME FilesTyped, OwedKept, ChainKeeps, UNCHANGED <<disk, down, owed>>,
         failures' = 0 => failures = 0
  PROVE  OwedKept'
BY DEF OwedKept, ChainKeeps, SameFields, Saved

\* Nothing is owed while the server is up, or once a write failed.
LEMMA OwesNothing == ASSUME down' = "up" \/ failures' # 0 PROVE OwedKept'
BY DEF OwedKept

LEMMA AddsOwed ==
  ASSUME FilesTyped, OwedKept, NEW c, NEW r, ChainAdds(c, r), r # Cleared,
         UNCHANGED <<disk, down, owed, failures>>
  PROVE  OwedKept'
<1> SUFFICES ASSUME down # "up", owed # NoSnapshot, failures = 0
             PROVE  OwedKept'
  BY DEF OwedKept
<1>1. DOMAIN chain \subseteq DOMAIN chain'
  BY ChainTyped DEF ChainAdds
<1>2. \A i \in DOMAIN chain : SameFields(chain'[i], chain[i])
  BY DEF ChainAdds
<1>3. \A i \in DOMAIN chain' : i \in DOMAIN chain \/ chain'[i].roster # Cleared
  BY ChainTyped DEF ChainAdds
<1> QED
  BY <1>1, <1>2, <1>3 DEF OwedKept, SameFields, Saved

LEMMA LandsOwed ==
  ASSUME FilesTyped, InTime, OwedKept, ChainTakes, NEW h, WrittenHead(h),
         UNCHANGED <<down, owed, failures>>
  PROVE  OwedKept'
<1> SUFFICES ASSUME down # "up", owed # NoSnapshot, failures = 0
             PROVE  OwedKept'
  BY DEF OwedKept
<1>1. owed.conv \in Convs /\ owed.at \in Nat /\ 1 \in DOMAIN chain /\ chain[1].at \in Nat
  BY Shifted, ChainTyped DEF OwedKept
<1>2. \A i \in DOMAIN chain' : chain'[i].at >= owed.at => chain'[i].roster # Cleared
  BY Shifted DEF OwedKept
<1>3. ASSUME NEW c \in Convs, Saved(c)', disk'[c].at >= owed.at
      PROVE  disk'[c].roster # Cleared
  <2>1. CASE c = h
    BY <2>1, <1>1, <1>3 DEF WrittenHead, OwedKept
  <2>2. CASE c # h
    BY <2>2, <1>3 DEF WrittenHead, OwedKept, Saved
  <2> QED
    BY <2>1, <2>2
<1>4. ASSUME Saved(owed.conv), disk[owed.conv].at >= owed.at
      PROVE  Saved(owed.conv)' /\ disk'[owed.conv].at >= owed.at
  <2>1. disk[owed.conv].at <= disk'[owed.conv].at /\ disk[owed.conv].at \in Nat
    BY <1>1, <1>4, LandsNewer, SavedTyped
  <2>2. disk'[owed.conv].at \in Nat
    BY <1>1, <1>4, SavedTyped DEF WrittenHead
  <2>3. Saved(owed.conv)'
    BY <1>1, <1>4 DEF WrittenHead, Saved
  <2> QED
    BY <1>1, <1>4, <2>1, <2>2, <2>3
<1>5. ASSUME NEW i \in DOMAIN chain, chain[i].conv = owed.conv, chain[i].at = owed.at
      PROVE  \/ Saved(owed.conv)' /\ disk'[owed.conv].at >= owed.at
             \/ \E j \in DOMAIN chain' : chain'[j].conv = owed.conv /\ chain'[j].at = owed.at
  <2>1. CASE i = 1
    BY <2>1, <1>1, <1>5 DEF WrittenHead
  <2>2. CASE i # 1
    <3>1. i - 1 \in DOMAIN chain' /\ chain'[i - 1] = chain[i]
      BY <2>2, Shifted
    <3> QED
      BY <3>1, <1>5
  <2> QED
    BY <2>1, <2>2
<1>6. \/ Saved(owed.conv)' /\ disk'[owed.conv].at >= owed.at
      \/ /\ down = "saving"
         /\ \E j \in DOMAIN chain' : chain'[j].conv = owed.conv /\ chain'[j].at = owed.at
  BY <1>4, <1>5 DEF OwedKept
<1>7. owed' = owed /\ down' = down
  OBVIOUS
<1> QED
  BY <1>1, <1>2, <1>3, <1>6, <1>7 DEF OwedKept

(* What they keep of the snapshots of an unfinished roster. *)

\* A place that is mended stays so as the chain grows, for a reset that goes on.
LEMMA KeepsMended ==
  ASSUME ChainKeeps, NEW c, NEW i, Mended(c, i), convId' = convId,
         (op.at = "resetting" /\ op.new) => op' = op
  PROVE  Mended(c, i)'
<1>1. CASE op.at = "resetting" /\ op.new /\ \A k \in DOMAIN chain : k > i => chain[k].conv = c
  BY <1>1 DEF Mended, ChainKeeps, SameFields
<1>2. CASE \E j \in DOMAIN chain : /\ j > i /\ chain[j].roster # Cleared
                                   /\ \A k \in DOMAIN chain : k > i /\ k <= j => chain[k].conv = c
  BY <1>2 DEF Mended, ChainKeeps, SameFields
<1> QED
  BY <1>1, <1>2 DEF Mended

LEMMA KeepsMending ==
  ASSUME FilesTyped, Mending, ChainKeeps, UNCHANGED <<disk, convId>>,
         failures' = 0 => failures = 0,
         (op.at = "resetting" /\ op.new) => op' = op,
         op'.at = "renaming" => op' = op \/ (failures = 0 => op'.doc.roster # Cleared)
  PROVE  Mending'
<1> SUFFICES ASSUME failures = 0, failures' = 0 PROVE Mending'
  BY DEF Mending
<1>1. \A i \in DOMAIN chain' : chain'[i].roster = Cleared => Mended(chain[i].conv, i)'
  <2> SUFFICES ASSUME NEW i \in DOMAIN chain', chain'[i].roster = Cleared
               PROVE  Mended(chain[i].conv, i)'
    OBVIOUS
  <2>1. i \in DOMAIN chain /\ SameFields(chain'[i], chain[i])
    BY DEF ChainKeeps
  <2>2. PICK c : c = chain[i].conv
    OBVIOUS
  <2>3. Mended(c, i)
    BY <2>1, <2>2 DEF Mending, SameFields
  <2>4. Mended(c, i)'
    BY <2>3, KeepsMended
  <2>5. chain'[i].conv = c
    BY <2>1, <2>2 DEF SameFields
  <2> QED
    BY <2>4, <2>5
<1>2. \A c \in Convs : Saved(c)' /\ disk'[c].roster = Cleared => Newest(c)' /\ Mended(c, 0)'
  BY KeepsMended DEF Mending, Newest, Saved
<1>3. op'.at = "renaming" => op'.doc.roster # Cleared
  BY DEF Mending
<1> QED
  BY <1>1, <1>2, <1>3 DEF Mending

LEMMA AddsMended ==
  ASSUME FilesTyped, NEW d, NEW r, ChainAdds(d, r), NEW c, NEW i \in 0 .. Len(chain), Mended(c, i),
         convId' = convId,
         (op.at = "resetting" /\ op.new) => d = convId /\ (op' = op \/ r # Cleared)
  PROVE  Mended(c, i)'
<1> DEFINE n == Len(chain)
<1>1. n \in Nat /\ DOMAIN chain = 1 .. n /\ DOMAIN chain' = 1 .. (n + 1)
  BY ChainTyped DEF ChainAdds
<1>2. \A k \in 1 .. n : chain'[k].conv = chain[k].conv /\ chain'[k].roster = chain[k].roster
  BY <1>1 DEF ChainAdds, SameFields
<1>3. chain'[n + 1].conv = d /\ chain'[n + 1].roster = r
  BY DEF ChainAdds
<1>4. i \in 0 .. n
  OBVIOUS
<1> HIDE DEF n
<1>5. CASE op.at = "resetting" /\ op.new /\ \A k \in DOMAIN chain : k > i => chain[k].conv = c
  <2>1. \A k \in DOMAIN chain' : k > i => chain'[k].conv = c
    <3> SUFFICES ASSUME NEW k \in 1 .. (n + 1), k > i PROVE chain'[k].conv = c
      BY <1>1
    <3>1. CASE k = n + 1
      BY <3>1, <1>3, <1>5 DEF Mended
    <3>2. CASE k # n + 1
      <4>1. k \in 1 .. n
        BY <3>2, <1>1
      <4> QED
        BY <4>1, <1>1, <1>2, <1>5
    <3> QED
      BY <3>1, <3>2
  <2>2. CASE op' = op
    BY <2>1, <2>2, <1>5 DEF Mended
  <2>3. CASE r # Cleared
    <3>1. n + 1 \in DOMAIN chain' /\ n + 1 > i
      BY <1>1, <1>4
    <3> QED
      BY <2>1, <2>3, <3>1, <1>3 DEF Mended
  <2> QED
    BY <2>2, <2>3, <1>5
<1>6. CASE \E j \in DOMAIN chain : /\ j > i /\ chain[j].roster # Cleared
                                   /\ \A k \in DOMAIN chain : k > i /\ k <= j => chain[k].conv = c
  <2>1. PICK j \in 1 .. n : /\ j > i /\ chain[j].roster # Cleared
                            /\ \A k \in 1 .. n : k > i /\ k <= j => chain[k].conv = c
    BY <1>1, <1>6
  <2>2. j \in DOMAIN chain' /\ chain'[j].roster # Cleared
    BY <2>1, <1>1, <1>2
  <2>3. \A k \in DOMAIN chain' : k > i /\ k <= j => chain'[k].conv = c
    <3> SUFFICES ASSUME NEW k \in 1 .. (n + 1), k > i, k <= j PROVE chain'[k].conv = c
      BY <1>1
    <3>1. k \in 1 .. n
      BY <1>1
    <3> QED
      BY <3>1, <2>1, <1>2
  <2> QED
    BY <2>1, <2>2, <2>3 DEF Mended
<1> QED
  BY <1>5, <1>6 DEF Mended

LEMMA AddsMending ==
  ASSUME FilesTyped, Mending, NEW d, NEW r, ChainAdds(d, r), UNCHANGED <<disk, convId, failures>>,
         (op.at = "resetting" /\ op.new) => d = convId /\ (op' = op \/ r # Cleared),
         failures = 0 /\ r = Cleared => d = convId /\ op'.at = "resetting" /\ op'.new,
         op'.at = "renaming" => op' = op
  PROVE  Mending'
<1> SUFFICES ASSUME failures = 0 PROVE Mending'
  BY DEF Mending
<1>1. \A i \in DOMAIN chain' : chain'[i].roster = Cleared => Mended(chain[i].conv, i)'
  <2> SUFFICES ASSUME NEW i \in DOMAIN chain', chain'[i].roster = Cleared
               PROVE  Mended(chain[i].conv, i)'
    OBVIOUS
  <2>1. Len(chain) \in Nat /\ DOMAIN chain = 1 .. Len(chain) /\ i \in 1 .. (Len(chain) + 1)
    BY ChainTyped DEF ChainAdds
  <2>2. PICK c : c = chain'[i].conv
    OBVIOUS
  <2>3. CASE i \in DOMAIN chain
    <3>1. c = chain[i].conv /\ chain[i].roster = Cleared
      BY <2>2, <2>3 DEF ChainAdds, SameFields
    <3>2. Mended(c, i) /\ i \in 0 .. Len(chain)
      BY <3>1, <2>1, <2>3 DEF Mending
    <3>3. Mended(c, i)'
      BY <3>2, AddsMended
    <3> QED
      BY <2>2, <3>3
  <2>4. CASE i \notin DOMAIN chain
    <3>1. i = Len(chain) + 1
      BY <2>1, <2>4
    <3>2. chain'[i].conv = convId /\ op'.at = "resetting" /\ op'.new
      BY <3>1 DEF ChainAdds
    <3>3. \A k \in DOMAIN chain' : ~(k > i)
      BY <3>1, <2>1 DEF ChainAdds
    <3> QED
      BY <3>2, <3>3 DEF Mended
  <2> QED
    BY <2>3, <2>4
<1>2. ASSUME NEW c \in Convs, Saved(c)', disk'[c].roster = Cleared PROVE Newest(c)' /\ Mended(c, 0)'
  <2>1. Saved(c) /\ Newest(c) /\ Mended(c, 0)
    BY <1>2 DEF Mending, Saved
  <2>2. 0 \in 0 .. Len(chain)
    BY ChainTyped
  <2>3. Mended(c, 0)'
    BY <2>1, <2>2, AddsMended
  <2> QED
    BY <2>1, <2>3 DEF Newest, Saved
<1>3. op'.at = "renaming" => op'.doc.roster # Cleared
  BY DEF Mending
<1> QED
  BY <1>1, <1>2, <1>3 DEF Mending

LEMMA TakesMended ==
  ASSUME FilesTyped, ChainTakes, NEW c, NEW i \in Nat, Mended(c, i + 1), UNCHANGED <<convId, op>>
  PROVE  Mended(c, i)'
<1>1. CASE /\ op.at = "resetting" /\ op.new
           /\ \A k \in DOMAIN chain : k > i + 1 => chain[k].conv = c
  <2>1. ASSUME NEW k \in DOMAIN chain', k > i PROVE chain'[k].conv = c
    <3>1. k + 1 \in DOMAIN chain /\ chain'[k] = chain[k + 1] /\ k \in Nat
      BY Shifted
    <3>2. k + 1 > i + 1
      BY <3>1, <2>1
    <3> QED
      BY <3>1, <3>2, <1>1
  <2> QED
    BY <2>1, <1>1 DEF Mended
<1>2. CASE \E j \in DOMAIN chain :
             /\ j > i + 1 /\ chain[j].roster # Cleared
             /\ \A k \in DOMAIN chain : k > i + 1 /\ k <= j => chain[k].conv = c
  <2>1. PICK j \in DOMAIN chain :
             /\ j > i + 1 /\ chain[j].roster # Cleared
             /\ \A k \in DOMAIN chain : k > i + 1 /\ k <= j => chain[k].conv = c
    BY <1>2
  <2>2. j \in Nat /\ j > 1
    BY <2>1, Shifted
  <2>3. j - 1 \in DOMAIN chain' /\ chain'[j - 1] = chain[j]
    BY <2>1, <2>2, Shifted
  <2>4. ASSUME NEW k \in DOMAIN chain', k > i, k <= j - 1 PROVE chain'[k].conv = c
    <3>1. k + 1 \in DOMAIN chain /\ chain'[k] = chain[k + 1] /\ k \in Nat
      BY Shifted
    <3>2. k + 1 > i + 1 /\ k + 1 <= j
      BY <3>1, <2>2, <2>4
    <3> QED
      BY <3>1, <3>2, <2>1
  <2>5. j - 1 > i
    BY <2>1, <2>2
  <2> QED
    BY <2>1, <2>3, <2>4, <2>5 DEF Mended
<1> QED
  BY <1>1, <1>2 DEF Mended

LEMMA LandsMending ==
  ASSUME FilesTyped, InTime, Mending, ChainTakes, NEW h, WrittenHead(h),
         UNCHANGED <<convId, op, failures>>
  PROVE  Mending'
<1> SUFFICES ASSUME failures = 0 PROVE Mending'
  BY DEF Mending
<1>1. \A i \in DOMAIN chain' : chain'[i].roster = Cleared => Mended(chain[i].conv, i)'
  <2> SUFFICES ASSUME NEW i \in DOMAIN chain', chain'[i].roster = Cleared
               PROVE  Mended(chain[i].conv, i)'
    OBVIOUS
  <2>1. i + 1 \in DOMAIN chain /\ chain'[i] = chain[i + 1] /\ i \in Nat
    BY Shifted
  <2>2. PICK c : c = chain'[i].conv
    OBVIOUS
  <2>3. Mended(c, i + 1)
    BY <2>1, <2>2 DEF Mending
  <2>4. Mended(c, i)'
    BY <2>1, <2>3, TakesMended
  <2> QED
    BY <2>2, <2>4
<1>2. ASSUME NEW c \in Convs, Saved(c)', disk'[c].roster = Cleared PROVE Newest(c)' /\ Mended(c, 0)'
  <2>0. 1 \in DOMAIN chain
    BY Shifted
  <2>1. CASE c = h
    <3>1. chain[1].roster = Cleared /\ chain[1].conv = c
      BY <2>1, <1>2 DEF WrittenHead
    <3>2. Mended(c, 0 + 1)
      BY <3>1, <2>0 DEF Mending
    <3>3. Mended(c, 0)'
      BY <3>2, TakesMended
    <3>4. Newest(c)'
      BY <2>0, <2>1 DEF Newest, WrittenHead, InTime, Saved
    <3> QED
      BY <3>3, <3>4
  <2>2. CASE c # h
    <3>1. Saved(c) /\ disk[c].roster = Cleared /\ chain[1].conv # c
      BY <2>2, <1>2 DEF WrittenHead, Saved
    <3>2. Mended(c, 0)
      BY <3>1 DEF Mending
    <3>3. \A k \in DOMAIN chain : k > 0 /\ k >= 1
      BY ChainTyped
    <3>4. FALSE
      BY <2>0, <3>1, <3>2, <3>3 DEF Mended
    <3> QED
      BY <3>4
  <2> QED
    BY <2>1, <2>2
<1>3. op'.at = "renaming" => op'.doc.roster # Cleared
  BY DEF Mending
<1> QED
  BY <1>1, <1>2, <1>3 DEF Mending

\* With nothing on the chain and no reset under way every file is whole.
LEMMA AllWhole ==
  ASSUME FilesTyped, Mending, failures = 0, chain = <<>>, op.at # "resetting"
  PROVE  \A c \in Convs : Saved(c) => disk[c].roster # Cleared
BY DEF Mending, Mended

(* What most steps do: keep the chain, or save what is live. *)

FilesRest == FilesTyped /\ TextsFit /\ InTime /\ Mending /\ OwedKept

LEMMA SameChain == UNCHANGED chain => ChainKeeps
BY DEF ChainKeeps, SameFields

LEMMA KeepsRest ==
  ASSUME FilesInv, UNCHANGED <<chain, disk, clock, failures, convId, down, owed, deleted>>,
         text' \in Texts, text'.of = text.of, roster' \in Nat, edits' \in Nat,
         op' = op \/ /\ text.of = convId
                     /\ ~(op.at = "resetting" /\ op.new)
                     /\ op'.at = "renaming" /\ failures = 0 => op'.doc.roster # Cleared
  PROVE  FilesRest'
<1>1. FilesTyped'
  BY DEF FilesInv, FilesTyped
<1>2. TextsFit'
  BY DEF FilesInv, TextsFit, FilesFit, OwnFile, DeletedGone, Saved
<1>3. InTime'
  BY KeepsTime, SameChain DEF FilesInv
<1>4. Mending'
  BY KeepsMending, SameChain DEF FilesInv
<1>5. OwedKept'
  BY KeepsOwed, SameChain DEF FilesInv
<1> QED
  BY <1>1, <1>2, <1>3, <1>4, <1>5 DEF FilesRest

LEMMA SavesRest ==
  ASSUME FilesInv, SaveCurrent,
         UNCHANGED <<convId, roster, disk, down, failures, owed, deleted>>,
         text' \in Texts, text'.of = text.of, text.of = convId, convId \notin deleted,
         edits' \in Nat,
         op' = op \/ (op.at # "resetting" /\ op'.at # "renaming"),
         roster = Cleared => down = "sealed" \/ (op' = op /\ op.at = "resetting" /\ op.new)
  PROVE  FilesRest'
<1>1. CASE down = "sealed"
  <2>1. UNCHANGED <<chain, clock, timer>>
    BY <1>1, Saves DEF FilesInv
  <2> QED
    BY <2>1, KeepsRest DEF FilesInv, FilesTyped
<1>2. CASE down # "sealed"
  <2>1. /\ timer' = FALSE /\ clock' = clock + 1 /\ chain' \in Seq(Snapshots)
        /\ ChainAdds(convId, roster)
        /\ \A i \in DOMAIN chain : chain'[i] = chain[i]
        /\ chain'[Len(chain) + 1] = Snapshot
    BY <1>2, Saves DEF FilesInv
  <2>2. FilesTyped'
    BY <2>1 DEF FilesInv, FilesTyped
  <2>3. TextsFit'
    <3>1. ASSUME NEW i \in DOMAIN chain'
          PROVE  /\ chain'[i].conv \notin deleted
                 /\ IF chain'[i].text = Live THEN text'.of = chain'[i].conv
                                             ELSE chain'[i].text.of = chain'[i].conv
      <4>1. CASE i \in DOMAIN chain
        BY <4>1, <2>1 DEF FilesInv, TextsFit
      <4>2. CASE i \notin DOMAIN chain
        <5>1. i = Len(chain) + 1
          BY <4>2, <2>1, ChainTyped DEF ChainAdds, FilesInv
        <5>2. chain'[i].conv = convId /\ chain'[i].text = Live
          BY <5>1, <2>1, SnapshotTyped DEF FilesInv
        <5> QED
          BY <5>2
      <4> QED
        BY <4>1, <4>2
    <3> QED
      BY <3>1 DEF FilesInv, TextsFit, FilesFit, OwnFile, DeletedGone, Saved
  <2>4. InTime'
    BY <2>1, AddsTime DEF FilesInv
  <2>5. Mending'
    BY <1>2, <2>1, AddsMending DEF FilesInv
  <2>6. OwedKept'
    <3>1. CASE down = "up"
      BY <3>1, OwesNothing
    <3>2. CASE down # "up"
      <4>1. roster # Cleared
        BY <1>2, <3>2, OpNames DEF FilesInv, OpFits
      <4> QED
        BY <4>1, <2>1, AddsOwed DEF FilesInv
    <3> QED
      BY <3>1, <3>2
  <2> QED
    BY <2>2, <2>3, <2>4, <2>5, <2>6 DEF FilesRest
<1> QED
  BY <1>1, <1>2

\* The live text is that of the live conversation, except while a loaded one is
\* on its way.
LEMMA LiveFits ==
  ASSUME FilesInv, ~(op.at = "resetting" /\ ~op.new)
  PROVE  text.of = convId
BY DEF FilesInv, TextsFit

LEMMA TextEdited ==
  ASSUME FilesTyped, NEW n \in Nat
  PROVE  [text EXCEPT !.n = n] \in Texts /\ [text EXCEPT !.n = n].of = text.of
BY DEF FilesTyped, Texts

(* The steps. *)

LEMMA TimerFiresFiles == ASSUME FilesInv, TimerFires PROVE FilesInv'
<1>1. timer /\ SaveCurrent /\ UNCHANGED <<live, turn, disk, op, down, counts, ghosts>>
  BY DEF TimerFires
<1>2. /\ op.at \notin {"left", "deleting"} /\ ~(op.at = "resetting" /\ ~op.new)
      /\ op.at = "resetting" => op.new
  BY <1>1 DEF FilesInv, OpFits
<1>3. text.of = convId /\ convId \notin deleted
  BY <1>2, LiveFits DEF FilesInv, OpFits
<1>4. FilesRest'
  BY <1>1, <1>2, <1>3, SavesRest DEF live, counts, ghosts, FilesInv, FilesTyped, OpFits
<1>5. OpFits'
  BY <1>1, <1>2 DEF FilesInv, OpFits, live, ghosts
<1> QED
  BY <1>4, <1>5 DEF FilesInv, FilesRest

LEMMA TurnEndsFiles == ASSUME FilesInv, TurnEnds PROVE FilesInv'
<1>1. /\ turn /\ SaveCurrent /\ turn' = FALSE
      /\ UNCHANGED <<live, disk, op, down, counts, ghosts>>
  BY DEF TurnEnds
<1>2. op = NoOp /\ op.at = "none"
  BY <1>1, OpNames DEF FilesInv, OpFits
<1>3. text.of = convId /\ convId \notin deleted
  BY <1>2, LiveFits DEF FilesInv, OpFits
<1>4. FilesRest'
  BY <1>1, <1>2, <1>3, SavesRest DEF live, counts, ghosts, FilesInv, FilesTyped, OpFits
<1>5. OpFits'
  BY <1>1, <1>2 DEF FilesInv, OpFits, live, ghosts
<1> QED
  BY <1>4, <1>5 DEF FilesInv, FilesRest

LEMMA PostShellFiles == ASSUME OneAtATime, FilesInv, PostShellRecord PROVE FilesInv'
<1>1. /\ op = NoOp /\ SaveCurrent /\ edits' = edits + 1 /\ text' = [text EXCEPT !.n = edits']
      /\ UNCHANGED <<convId, roster, turn, disk, op, down, ops, failures, restarts, ghosts>>
  BY DEF PostShellRecord, OneAtATime, Quiet, Edits
<1>2. op.at = "none" /\ edits' \in Nat
  BY <1>1, OpNames DEF FilesInv, FilesTyped
<1>3. text.of = convId /\ convId \notin deleted
  BY <1>2, LiveFits DEF FilesInv, OpFits
<1>4. text' \in Texts /\ text'.of = text.of
  BY <1>1, <1>2, TextEdited DEF FilesInv
<1>5. FilesRest'
  BY <1>1, <1>2, <1>3, <1>4, SavesRest DEF ghosts, FilesInv, OpFits
<1>6. OpFits'
  BY <1>1, <1>2 DEF FilesInv, OpFits, ghosts
<1> QED
  BY <1>5, <1>6 DEF FilesInv, FilesRest

LEMMA BeginsFiles == ASSUME OneAtATime, FilesInv, Begins PROVE FilesInv'
<1>1. /\ op = NoOp /\ edits' = edits + 1 /\ text' = [text EXCEPT !.n = edits']
      /\ UNCHANGED <<convId, roster, timer, chain, disk, op, down, clock, failures, ghosts>>
  BY DEF Begins, OneAtATime, Quiet, Edits
<1>2. op.at = "none" /\ edits' \in Nat
  BY <1>1, OpNames DEF FilesInv, FilesTyped
<1>3. text' \in Texts /\ text'.of = text.of
  BY <1>1, <1>2, TextEdited DEF FilesInv
<1>4. FilesRest'
  BY <1>1, <1>2, <1>3, KeepsRest DEF ghosts, FilesInv, FilesTyped
<1>5. OpFits'
  BY <1>1, <1>2 DEF FilesInv, OpFits, ghosts
<1> QED
  BY <1>4, <1>5 DEF FilesInv, FilesRest

LEMMA PostsFiles == ASSUME FilesInv, Posts PROVE FilesInv'
<1>1. /\ turn /\ edits' = edits + 1 /\ text' = [text EXCEPT !.n = edits']
      /\ UNCHANGED <<convId, roster, turn, chain, disk, op, down, clock, failures, ghosts>>
  BY DEF Posts, Edits
<1>2. op = NoOp /\ op.at = "none" /\ edits' \in Nat
  BY <1>1, OpNames DEF FilesInv, OpFits, FilesTyped
<1>3. text' \in Texts /\ text'.of = text.of
  BY <1>1, <1>2, TextEdited DEF FilesInv
<1>4. FilesRest'
  BY <1>1, <1>2, <1>3, KeepsRest DEF ghosts, FilesInv, FilesTyped
<1>5. OpFits'
  BY <1>1, <1>2 DEF FilesInv, OpFits, ghosts
<1> QED
  BY <1>4, <1>5 DEF FilesInv, FilesRest

LEMMA ChangeRosterFiles == ASSUME OneAtATime, FilesInv, ChangeRoster PROVE FilesInv'
<1>1. /\ op = NoOp /\ edits' = edits + 1 /\ roster' = edits'
      /\ UNCHANGED <<convId, text, turn, chain, disk, op, down, clock, failures, ghosts>>
  BY DEF ChangeRoster, OneAtATime, Quiet, Edits
<1>2. op.at = "none" /\ edits' \in Nat /\ edits' # Cleared
  BY <1>1, OpNames DEF FilesInv, FilesTyped, Cleared
<1>3. FilesRest'
  BY <1>1, <1>2, KeepsRest DEF ghosts, FilesInv, FilesTyped
<1>4. OpFits'
  BY <1>1, <1>2 DEF FilesInv, OpFits, ghosts
<1> QED
  BY <1>3, <1>4 DEF FilesInv, FilesRest

LEMMA DisposeAllFiles == ASSUME FilesInv, DisposeAll PROVE FilesInv'
<1>1. /\ down = "sealed" /\ roster' = Cleared
      /\ UNCHANGED <<convId, text, turn, timer, chain, disk, op, down, clock, counts, ghosts>>
  BY DEF DisposeAll
<1>2. FilesRest'
  BY <1>1, KeepsRest DEF counts, ghosts, Cleared, FilesInv, FilesTyped
<1>3. OpFits'
  BY <1>1 DEF FilesInv, OpFits, ghosts
<1> QED
  BY <1>2, <1>3 DEF FilesInv, FilesRest

\* An operation begins: what it will show or write was read from a file, or is
\* new.
LEMMA BeginFiles ==
  ASSUME FilesInv, NEW o, Begin(o), UNCHANGED <<live, turn, timer, chain, disk, down, clock, ghosts>>,
         o # NoOp, NEW c \in Convs \ deleted, c # convId, o.at \in {"leaving", "renaming"},
         o.conv = c, o.doc \in Docs, o.doc.text.of = c,
         o.at = "leaving" => o.new \in BOOLEAN,
         o.at = "renaming" /\ failures = 0 => o.doc.roster # Cleared
  PROVE  FilesInv'
<1>1. /\ ~turn /\ op = NoOp /\ down = "up" /\ op' = o /\ op.at = "none"
      /\ UNCHANGED <<edits, failures, restarts>>
  BY OpNames DEF Begin, MayOperate
<1>2. text.of = convId
  BY <1>1, LiveFits
<1>3. FilesRest'
  BY <1>1, <1>2, KeepsRest DEF live, ghosts, FilesInv, FilesTyped
<1>4. OpFits'
  BY <1>1 DEF FilesInv, OpFits, live, ghosts
<1> QED
  BY <1>3, <1>4 DEF FilesInv, FilesRest

LEMMA SwitchFiles == ASSUME FilesInv, NEW c \in Convs, SwitchConversation(c) PROVE FilesInv'
<1> DEFINE o == [at |-> "leaving", conv |-> c, doc |-> disk[c], new |-> FALSE]
<1>1. /\ c # convId /\ Saved(c) /\ Begin(o)
      /\ UNCHANGED <<live, turn, timer, chain, disk, down, clock, ghosts>>
  BY DEF SwitchConversation
<1>2. disk[c] \in Docs /\ disk[c].text.of = c /\ c \notin deleted
  BY <1>1, SavedTyped DEF FilesInv, TextsFit, FilesFit, OwnFile, DeletedGone
<1>3. o # NoOp /\ o.at = "leaving" /\ o.conv = c /\ o.doc = disk[c] /\ o.new = FALSE
  BY DEF NoOp
<1> QED
  BY <1>1, <1>2, <1>3, BeginFiles

LEMMA NewFiles == ASSUME FilesInv, NEW c \in Convs, NewConversation(c) PROVE FilesInv'
<1> DEFINE o == [at |-> "leaving", conv |-> c, doc |-> Doc(Text(c, 0), roster, 0), new |-> TRUE]
<1>1. /\ Fresh(c) /\ Begin(o)
      /\ UNCHANGED <<live, turn, timer, chain, disk, down, clock, ghosts>>
  BY DEF NewConversation
<1>2. c # convId /\ c \notin deleted
  BY <1>1 DEF Fresh
<1>3. Doc(Text(c, 0), roster, 0) \in Docs /\ Doc(Text(c, 0), roster, 0).text.of = c
  BY TextTyped, DocTyped DEF FilesInv, FilesTyped
<1>4. /\ o # NoOp /\ o.at = "leaving" /\ o.conv = c /\ o.doc = Doc(Text(c, 0), roster, 0)
      /\ o.new = TRUE
  BY DEF NoOp
<1> QED
  BY <1>1, <1>2, <1>3, <1>4, BeginFiles

LEMMA RenameFiles == ASSUME FilesInv, NEW c \in Convs, RenameConversation(c) PROVE FilesInv'
<1> DEFINE o == [at |-> "renaming", conv |-> c, doc |-> disk[c]]
<1>1. /\ c # convId /\ Saved(c) /\ Begin(o)
      /\ UNCHANGED <<live, turn, timer, chain, disk, down, clock, ghosts>>
  BY DEF RenameConversation
<1>2. disk[c] \in Docs /\ disk[c].text.of = c /\ c \notin deleted
  BY <1>1, SavedTyped DEF FilesInv, TextsFit, FilesFit, OwnFile, DeletedGone
<1>3. o # NoOp /\ o.at = "renaming" /\ o.conv = c /\ o.doc = disk[c]
  BY DEF NoOp
<1>4. failures = 0 => disk[c].roster # Cleared
  BY <1>1 DEF FilesInv, Mending, Mended
<1> QED
  BY <1>1, <1>2, <1>3, <1>4, BeginFiles

LEMMA ApplyPresetFiles == ASSUME FilesInv, ApplyPreset PROVE FilesInv'
<1> DEFINE doc == Doc(text, edits', 0)
<1>1. /\ ~turn /\ op = NoOp /\ down = "up" /\ edits' = edits + 1 /\ roster' = Cleared
      /\ op' = [at |-> "resetting", conv |-> convId, doc |-> doc, new |-> TRUE]
      /\ UNCHANGED <<convId, text, turn, timer, chain, disk, down, clock, failures, ghosts>>
  BY DEF ApplyPreset, MayOperate, Edits
<1>2. op.at = "none" /\ edits' \in Nat /\ 0 \in Nat /\ text \in Texts
  BY <1>1, OpNames DEF FilesInv, FilesTyped
<1>3. text.of = convId /\ convId \notin deleted /\ convId \in Convs
  BY <1>2, LiveFits DEF FilesInv, OpFits, FilesTyped
<1>4. doc \in Docs /\ doc.text = text
  BY <1>2, DocTyped
<1> HIDE DEF doc
<1>5. FilesRest'
  BY <1>1, <1>2, <1>3, KeepsRest DEF ghosts, Cleared
<1>6. OpFits'
  BY <1>1, <1>3, <1>4 DEF FilesInv, OpFits, ghosts
<1> QED
  BY <1>5, <1>6 DEF FilesInv, FilesRest

LEMMA LeavesFiles == ASSUME FilesInv, Leaves PROVE FilesInv'
<1>1. /\ op.at = "leaving" /\ SaveCurrent
      /\ op' = [at |-> "left", conv |-> op.conv, doc |-> op.doc, new |-> op.new, save |-> clock]
      /\ UNCHANGED <<live, turn, disk, down, counts, ghosts>>
  BY DEF Leaves
<1>2. /\ down = "up" /\ ~turn /\ op.conv \in Convs \ deleted /\ op.doc \in Docs
      /\ op.doc.text.of = op.conv /\ op.conv # convId /\ op.new \in BOOLEAN
      /\ convId \notin deleted /\ roster # Cleared
  BY <1>1, OpNames DEF FilesInv, OpFits
<1>3. text.of = convId
  BY <1>1, LiveFits
<1>4. FilesRest'
  BY <1>1, <1>2, <1>3, SavesRest DEF live, counts, ghosts, FilesInv, FilesTyped
<1>5. timer' = FALSE /\ chain'[Len(chain')].at = clock
  <2>1. /\ timer' = FALSE /\ DOMAIN chain' = 1 .. (Len(chain) + 1) /\ chain' \in Seq(Snapshots)
        /\ chain'[Len(chain) + 1] = Snapshot
    BY <1>1, <1>2, Saves DEF FilesInv, ChainAdds
  <2>2. Len(chain') = Len(chain) + 1
    BY <2>1, ChainTyped DEF FilesInv
  <2> QED
    BY <2>1, <2>2, SnapshotTyped DEF FilesInv
<1>6. OpFits'
  BY <1>1, <1>2, <1>5 DEF OpFits, live, ghosts
<1> QED
  BY <1>4, <1>6 DEF FilesInv, FilesRest

LEMMA RolledBackFiles == ASSUME FilesInv, RolledBack PROVE FilesInv'
<1>1. op.at = "wiping" /\ SaveCurrent /\ op' = NoOp /\ UNCHANGED <<live, turn, disk, down, counts, ghosts>>
  BY DEF RolledBack
<1>2. convId \notin deleted /\ roster = Cleared => down = "sealed"
  BY <1>1 DEF FilesInv, OpFits
<1>3. text.of = convId /\ convId \notin deleted
  BY <1>1, LiveFits DEF FilesInv, OpFits
<1>4. FilesRest'
  BY <1>1, <1>2, <1>3, SavesRest, OpNames DEF live, counts, ghosts, FilesInv, FilesTyped
<1>5. OpFits'
  BY <1>1, <1>2, OpNames DEF FilesInv, OpFits, live, ghosts
<1> QED
  BY <1>4, <1>5 DEF FilesInv, FilesRest

LEMMA DeleteFiles ==
  ASSUME OneAtATime, FilesInv, NEW c \in Convs, DeleteConversation(c) PROVE FilesInv'
<1>1. /\ ~timer /\ chain = <<>> /\ ~turn /\ op = NoOp /\ down = "up" /\ Saved(c)
      /\ disk' = [disk EXCEPT ![c] = NoDoc] /\ deleted' = deleted \union {c}
      /\ op' = IF c = convId THEN [at |-> "deleting"] ELSE NoOp
      /\ UNCHANGED <<live, turn, timer, chain, down, clock, owed, edits, failures>>
  BY DEF DeleteConversation, OneAtATime, Begin, MayOperate
<1>2. op.at = "none" /\ text.of = convId
  BY <1>1, LiveFits, OpNames
<1>3. \A d \in Convs : Saved(d)' => Saved(d) /\ d # c /\ disk'[d] = disk[d]
  BY <1>1 DEF Saved, FilesInv, FilesTyped
<1>4. ~Saved(c)'
  BY <1>1 DEF Saved, FilesInv, FilesTyped
<1>5. DOMAIN chain = {}
  BY <1>1
<1>6. FilesTyped'
  BY <1>1 DEF FilesInv, FilesTyped, live
<1>7. OpFits'
  BY <1>1, <1>2, OpNames DEF FilesInv, OpFits, live
<1>8. TextsFit'
  <2>1. OwnFile'
    BY <1>3 DEF FilesInv, TextsFit, FilesFit, OwnFile
  <2>2. DeletedGone'
    <3>1. \A d \in deleted' : ~Saved(d)'
      BY <1>1, <1>3, <1>4 DEF FilesInv, FilesTyped, TextsFit, FilesFit, DeletedGone
    <3> QED
      BY <3>1 DEF DeletedGone, Saved
  <2> QED
    BY <2>1, <2>2, <1>1, <1>2, <1>5 DEF TextsFit, FilesFit, live
<1>9. InTime'
  BY <1>1, <1>3, <1>5 DEF FilesInv, InTime
<1>10. Mending'
  <2>1. op'.at # "renaming"
    BY <1>1, OpNames
  <2>2. failures = 0 => \A d \in Convs : Saved(d) => disk[d].roster # Cleared
    BY <1>1, <1>2, AllWhole DEF FilesInv
  <2> QED
    BY <2>1, <2>2, <1>1, <1>3, <1>5 DEF Mending
<1>11. OwedKept'
  BY <1>1, OwesNothing
<1> QED
  BY <1>6, <1>7, <1>8, <1>9, <1>10, <1>11 DEF FilesInv

\* The live conversation changes hands with nothing on the chain.
LEMMA AppliesFiles ==
  ASSUME FilesInv, chain = <<>>, down = "up", ~timer, ~turn,
         op.at \in {"left", "deleting"},
         NEW c \in Convs \ deleted, NEW doc \in Docs, doc.text.of = c, NEW new \in BOOLEAN,
         Applies(c, doc, new), UNCHANGED <<turn, timer, disk, down, clock, counts, ghosts>>
  PROVE  FilesInv'
<1>1. /\ convId' = c /\ roster' = Cleared
      /\ op' = [at |-> "resetting", conv |-> c, doc |-> doc, new |-> new]
      /\ new => text' = doc.text
      /\ ~new => text' = text
  BY DEF Applies
<1>2. chain' = <<>>
  <2>1. CASE new
    <3>1. chain' = Frozen
      BY <2>1 DEF Applies
    <3>2. Frozen \in Seq(Snapshots) /\ Len(Frozen) = 0
      BY FrozenChain DEF FilesInv
    <3> QED
      BY <3>1, <3>2
  <2>2. CASE ~new
    BY <2>2 DEF Applies
  <2> QED
    BY <2>1, <2>2
<1>3. DOMAIN chain' = {} /\ chain' = chain
  BY <1>2
<1>4. UNCHANGED <<disk, clock, edits, failures, deleted, owed, down, turn, timer>>
  BY DEF counts, ghosts
<1>5. FilesTyped'
  <2>1. text' \in Texts
    BY <1>1 DEF FilesInv, FilesTyped, Docs
  <2> QED
    BY <1>1, <1>3, <1>4, <2>1 DEF FilesInv, FilesTyped, Cleared
<1>6. OpFits'
  BY <1>1, <1>3, <1>4 DEF FilesInv, OpFits
<1>7. TextsFit'
  BY <1>1, <1>3, <1>4 DEF FilesInv, TextsFit, FilesFit, OwnFile, DeletedGone, Saved
<1>8. InTime'
  BY <1>3, <1>4 DEF FilesInv, InTime, Saved
<1>9. Mending'
  <2>1. failures = 0 => \A d \in Convs : Saved(d) => disk[d].roster # Cleared
    BY AllWhole DEF FilesInv
  <2> QED
    BY <2>1, <1>1, <1>3, <1>4 DEF Mending, Saved
<1>10. OwedKept'
  BY <1>4, OwesNothing
<1> QED
  BY <1>5, <1>6, <1>7, <1>8, <1>9, <1>10 DEF FilesInv

LEMMA EntersFiles == ASSUME FilesInv, Enters PROVE FilesInv'
<1>1. /\ op.at = "left" /\ Landed(op.save) /\ Applies(op.conv, op.doc, op.new)
      /\ UNCHANGED <<turn, timer, disk, down, clock, counts, ghosts>>
  BY DEF Enters
<1>2. /\ down = "up" /\ ~turn /\ ~timer /\ op.conv \in Convs \ deleted /\ op.doc \in Docs
      /\ op.doc.text.of = op.conv /\ op.new \in BOOLEAN
  BY <1>1, OpNames DEF FilesInv, OpFits
<1>3. chain = <<>>
  <2> SUFFICES ASSUME chain # <<>> PROVE FALSE
    OBVIOUS
  <2>1. chain[Len(chain)].at = op.save
    BY <1>1 DEF FilesInv, OpFits
  <2>2. Len(chain) \in DOMAIN chain
    BY ChainTyped DEF FilesInv, FilesTyped
  <2> QED
    BY <1>1, <2>1, <2>2 DEF Landed
<1> QED
  BY <1>1, <1>2, <1>3, AppliesFiles

LEMMA FallsBackFiles == ASSUME FilesInv, FallsBack PROVE FilesInv'
<1>1. /\ op.at = "deleting" /\ UNCHANGED <<turn, timer, disk, down, clock, counts, ghosts>>
      /\ \/ \E c \in Convs : Recent(c) /\ Applies(c, disk[c], FALSE)
         \/ \E c \in Convs : Fresh(c) /\ Applies(c, Doc(Text(c, 0), 1, 0), TRUE)
  BY DEF FallsBack
<1>2. down = "up" /\ ~turn /\ ~timer /\ chain = <<>>
  BY <1>1, OpNames DEF FilesInv, OpFits
<1>3. ASSUME NEW c \in Convs, Recent(c), Applies(c, disk[c], FALSE) PROVE FilesInv'
  <2>1. c \in Convs \ deleted /\ disk[c] \in Docs /\ disk[c].text.of = c
    BY <1>3, SavedTyped DEF Recent, FilesInv, TextsFit, FilesFit, OwnFile, DeletedGone
  <2> QED
    BY <1>1, <1>2, <1>3, <2>1, AppliesFiles
<1>4. ASSUME NEW c \in Convs, Fresh(c), Applies(c, Doc(Text(c, 0), 1, 0), TRUE) PROVE FilesInv'
  <2>1. c \in Convs \ deleted
    BY <1>4 DEF Fresh
  <2>2. Doc(Text(c, 0), 1, 0) \in Docs /\ Doc(Text(c, 0), 1, 0).text.of = c
    BY TextTyped, DocTyped
  <2> QED
    BY <1>1, <1>2, <1>4, <2>1, <2>2, AppliesFiles
<1> QED
  BY <1>1, <1>3, <1>4

\* What the chain holds of the live transcript becomes a text of its own.
LEMMA FrozenTexts ==
  ASSUME FilesInv
  PROVE  \A i \in DOMAIN Frozen :
           /\ Frozen[i].conv \notin deleted
           /\ Frozen[i].text # Live /\ Frozen[i].text.of = Frozen[i].conv
<1> SUFFICES ASSUME NEW i \in DOMAIN chain
             PROVE  /\ Frozen[i].conv \notin deleted
                    /\ Frozen[i].text # Live /\ Frozen[i].text.of = Frozen[i].conv
  BY FrozenChain DEF FilesInv
<1>1. /\ Frozen[i].conv = chain[i].conv
      /\ Frozen[i].text = IF chain[i].text = Live THEN text ELSE chain[i].text
  BY FrozenChain DEF FilesInv, SameFields
<1>2. text # Live /\ chain[i].text \in Texts \union {Live}
  BY TextNotLive, ChainTyped DEF FilesInv, FilesTyped
<1> QED
  BY <1>1, <1>2 DEF FilesInv, TextsFit

LEMMA RollbackFiles == ASSUME FilesInv, RollbackTo PROVE FilesInv'
<1>1. /\ ~turn /\ op = NoOp /\ down = "up" /\ op' = [at |-> "wiping"]
      /\ text' = [text EXCEPT !.n = 0] /\ chain' = Frozen
      /\ UNCHANGED <<convId, roster, turn, timer, disk, down, clock, edits, failures, ghosts>>
  BY DEF RollbackTo, Begin, MayOperate
<1>2. op.at = "none" /\ text.of = convId
  BY <1>1, LiveFits, OpNames
<1>3. text' \in Texts /\ text'.of = text.of
  BY <1>1, TextEdited DEF FilesInv
<1>4. ChainKeeps /\ chain' \in Seq(Snapshots)
  BY <1>1, FrozenChain DEF ChainKeeps, FilesInv
<1>5. FilesTyped'
  BY <1>1, <1>3, <1>4 DEF FilesInv, FilesTyped, ghosts
<1>6. OpFits'
  BY <1>1, <1>2 DEF FilesInv, OpFits, ghosts
<1>7. TextsFit'
  <2>1. \A i \in DOMAIN chain' : /\ chain'[i].conv \notin deleted
                                 /\ chain'[i].text # Live /\ chain'[i].text.of = chain'[i].conv
    BY <1>1, FrozenTexts
  <2> QED
    BY <2>1, <1>1, <1>2, <1>3 DEF FilesInv, TextsFit, FilesFit, OwnFile, DeletedGone, Saved, ghosts
<1>8. InTime'
  BY <1>1, <1>4, KeepsTime DEF FilesInv
<1>9. Mending'
  BY <1>1, <1>2, <1>4, KeepsMending DEF FilesInv
<1>10. OwedKept'
  BY <1>1, OwesNothing
<1> QED
  BY <1>5, <1>6, <1>7, <1>8, <1>9, <1>10 DEF FilesInv

LEMMA RenamesFiles == ASSUME FilesInv, Renames PROVE FilesInv'
<1> DEFINE snap == [conv |-> op.conv, text |-> op.doc.text, roster |-> op.doc.roster, at |-> clock]
<1>1. /\ op.at = "renaming" /\ clock' = clock + 1 /\ op' = NoOp
      /\ chain' = Append(chain, snap)
      /\ UNCHANGED <<live, turn, timer, disk, down, counts, ghosts>>
  BY DEF Renames, Enqueue
<1>2. /\ down = "up" /\ op.conv \in Convs \ deleted /\ op.doc \in Docs
      /\ op.doc.text.of = op.conv /\ convId \notin deleted /\ roster # Cleared
  BY <1>1, OpNames DEF FilesInv, OpFits
<1>3. snap \in Snapshots /\ snap.text \in Texts
  BY <1>2 DEF Snapshots, Docs, FilesInv, FilesTyped
<1>4. snap.text.of = op.conv /\ snap.conv = op.conv /\ snap.roster = op.doc.roster /\ snap.at = clock
  BY <1>2
<1> HIDE DEF snap
<1>5. /\ chain' \in Seq(Snapshots) /\ \A i \in DOMAIN chain : chain'[i] = chain[i]
      /\ chain'[Len(chain) + 1] = snap /\ DOMAIN chain' = 1 .. (Len(chain) + 1)
      /\ DOMAIN chain = 1 .. Len(chain)
  BY <1>1, <1>3, Appended DEF FilesInv, FilesTyped
<1>6. ChainAdds(op.conv, op.doc.roster)
  BY <1>4, <1>5 DEF ChainAdds, SameFields
<1>7. UNCHANGED <<convId, text, roster, edits, failures, deleted, owed>>
  BY <1>1 DEF live, counts, ghosts
<1>8. FilesTyped'
  BY <1>1, <1>5, <1>7 DEF FilesInv, FilesTyped
<1>9. OpFits'
  BY <1>1, <1>2, <1>7, OpNames DEF FilesInv, OpFits
<1>10. TextsFit'
  <2>1. ASSUME NEW i \in DOMAIN chain'
        PROVE  /\ chain'[i].conv \notin deleted
               /\ IF chain'[i].text = Live THEN text.of = chain'[i].conv
                                           ELSE chain'[i].text.of = chain'[i].conv
    <3>1. CASE i \in DOMAIN chain
      BY <3>1, <1>5 DEF FilesInv, TextsFit
    <3>2. CASE i \notin DOMAIN chain
      <4>1. chain'[i] = snap
        BY <3>2, <1>5
      <4> QED
        BY <4>1, <1>2, <1>3, <1>4, TextNotLive
    <3> QED
      BY <3>1, <3>2
  <2>2. text.of = convId
    BY <1>1, LiveFits
  <2> QED
    BY <2>1, <2>2, <1>1, <1>7 DEF FilesInv, TextsFit, FilesFit, OwnFile, DeletedGone, Saved
<1>11. InTime'
  BY <1>1, <1>6, AddsTime DEF FilesInv
<1>12. Mending'
  <2>1. failures = 0 => op.doc.roster # Cleared
    BY <1>1 DEF FilesInv, Mending
  <2> QED
    BY <2>1, <1>1, <1>6, <1>7, OpNames, AddsMending DEF FilesInv
<1>13. OwedKept'
  BY <1>1, <1>2, OwesNothing
<1> QED
  BY <1>8, <1>9, <1>10, <1>11, <1>12, <1>13 DEF FilesInv

LEMMA RestoredTyped == ASSUME NEW r \in Nat PROVE Restored(r) \in Nat /\ Restored(r) # Cleared
BY DEF Restored, Cleared

\* The roster is there again: what is new, or was given its first roster, is
\* saved behind whatever was saved meanwhile.
LEMMA IsResetFiles == ASSUME FilesInv, IsReset PROVE FilesInv'
<1> DEFINE kept == IF op.new THEN chain ELSE Frozen
           full == Restored(op.doc.roster)
           snap == [Snapshot EXCEPT !.roster = full]
           saves == op.new \/ op.doc.roster = Cleared
<1>1. /\ op.at = "resetting" /\ op # NoOp /\ down = "up" /\ ~turn /\ op.doc \in Docs
      /\ op.doc.text.of = op.conv /\ op.conv = convId /\ convId \notin deleted
      /\ op.new \in BOOLEAN /\ convId \in Convs
      /\ ~op.new => ~timer
  BY OpNames DEF IsReset, FilesInv, OpFits, FilesTyped
<1>2. /\ roster' = full /\ op' = NoOp /\ UNCHANGED <<convId, turn, disk, down, counts, ghosts>>
      /\ text' = IF op.new THEN text ELSE op.doc.text
  BY DEF IsReset
<1>3. /\ saves => chain' = Append(kept, snap) /\ clock' = clock + 1 /\ timer' = FALSE
      /\ ~saves => chain' = kept /\ UNCHANGED <<clock, timer>>
  BY <1>1, <1>2 DEF IsReset
<1>4. full \in Nat /\ full # Cleared /\ op.doc.text \in Texts
  BY <1>1, RestoredTyped DEF Docs
<1>5. /\ kept \in Seq(Snapshots) /\ DOMAIN kept = DOMAIN chain /\ Len(kept) = Len(chain)
      /\ \A i \in DOMAIN chain : SameFields(kept[i], chain[i])
  BY FrozenChain, ChainTyped DEF FilesInv, FilesTyped, SameFields
<1>6. text'.of = convId /\ text' \in Texts
  BY <1>1, <1>2, <1>4 DEF FilesInv, TextsFit, FilesTyped
<1>7. \A i \in DOMAIN kept :
        /\ kept[i].conv \notin deleted
        /\ IF kept[i].text = Live THEN text'.of = kept[i].conv
                                  ELSE kept[i].text.of = kept[i].conv
  <2>1. CASE op.new
    BY <2>1, <1>2 DEF FilesInv, TextsFit
  <2>2. CASE ~op.new
    BY <2>2, FrozenTexts
  <2> QED
    BY <2>1, <2>2
<1>8. /\ snap \in Snapshots /\ snap.conv = convId /\ snap.text = Live /\ snap.roster = full
      /\ snap.at = clock
  BY <1>4, SnapshotTyped DEF FilesInv, Snapshots
<1> HIDE DEF kept, full, snap, saves
<1>9. UNCHANGED <<edits, failures, deleted, owed>>
  BY <1>2 DEF counts, ghosts
<1>10. OpFits'
  BY <1>1, <1>2, <1>4, <1>9, OpNames DEF OpFits
<1>11. OwedKept'
  BY <1>1, <1>2, OwesNothing
<1>12. op'.at = "none"
  BY <1>2, OpNames
<1>13. CASE saves
  <2>1. /\ chain' \in Seq(Snapshots) /\ DOMAIN chain' = 1 .. (Len(chain) + 1)
        /\ DOMAIN chain = 1 .. Len(chain)
        /\ \A i \in DOMAIN chain : chain'[i] = kept[i]
        /\ chain'[Len(chain) + 1] = snap
    BY <1>3, <1>5, <1>8, <1>13, Appended
  <2>2. ChainAdds(convId, full)
    BY <2>1, <1>5, <1>8 DEF ChainAdds
  <2>3. FilesTyped'
    BY <2>1, <1>2, <1>3, <1>4, <1>6, <1>9, <1>13 DEF FilesInv, FilesTyped
  <2>4. TextsFit'
    <3>1. ASSUME NEW i \in DOMAIN chain'
          PROVE  /\ chain'[i].conv \notin deleted
                 /\ IF chain'[i].text = Live THEN text'.of = chain'[i].conv
                                             ELSE chain'[i].text.of = chain'[i].conv
      <4>1. CASE i \in DOMAIN chain
        BY <4>1, <2>1, <1>5, <1>7
      <4>2. CASE i \notin DOMAIN chain
        <5>1. chain'[i] = snap
          BY <4>2, <2>1
        <5> QED
          BY <5>1, <1>1, <1>6, <1>8
      <4> QED
        BY <4>1, <4>2
    <3> QED
      BY <3>1, <1>2, <1>6, <1>9 DEF FilesInv, TextsFit, FilesFit, OwnFile, DeletedGone, Saved
  <2>5. InTime'
    BY <2>2, <1>2, <1>3, <1>13, AddsTime DEF FilesInv
  <2>6. Mending'
    BY <2>2, <1>2, <1>4, <1>9, <1>12, AddsMending DEF FilesInv
  <2> QED
    BY <2>3, <2>4, <2>5, <2>6, <1>10, <1>11 DEF FilesInv
<1>14. CASE ~saves
  <2>1. ChainKeeps /\ chain' = kept /\ UNCHANGED <<clock, timer>> /\ ~op.new
    BY <1>3, <1>5, <1>14 DEF ChainKeeps, saves
  <2>2. FilesTyped'
    BY <2>1, <1>2, <1>4, <1>5, <1>6, <1>9 DEF FilesInv, FilesTyped
  <2>3. TextsFit'
    BY <2>1, <1>2, <1>6, <1>7, <1>9 DEF FilesInv, TextsFit, FilesFit, OwnFile, DeletedGone, Saved
  <2>4. InTime'
    BY <2>1, <1>2, KeepsTime DEF FilesInv
  <2>5. Mending'
    BY <2>1, <1>2, <1>9, <1>12, KeepsMending DEF FilesInv
  <2> QED
    BY <2>2, <2>3, <2>4, <2>5, <1>10, <1>11 DEF FilesInv
<1> QED
  BY <1>13, <1>14

LEMMA LandsWrites ==
  ASSUME FilesTyped, Lands, NEW h, h = chain[1].conv
  PROVE  /\ WrittenHead(h) /\ ChainTakes /\ chain' \in Seq(Snapshots)
         /\ disk' \in [Convs -> Docs \union {NoDoc}]
         /\ TextsFit => disk'[h].text.of = h
<1> DEFINE s == chain[1]
<1>1. ChainTakes /\ chain' \in Seq(Snapshots) /\ Head(chain) = s /\ 1 \in DOMAIN chain
  BY Takes DEF Lands
<1>2. /\ s.conv = h /\ h \in Convs
      /\ s.text \in Texts \union {Live} /\ s.roster \in Nat /\ s.at \in Nat
      /\ TextsFit => IF s.text = Live THEN text.of = h ELSE s.text.of = h
  BY <1>1, ChainTyped DEF TextsFit
<1>3. disk' = [disk EXCEPT ![h] = Resolved(s)]
  BY <1>1, <1>2 DEF Lands
<1> HIDE DEF s
<1> DEFINE t == IF s.text = Live THEN text ELSE s.text
<1>4. t \in Texts /\ (TextsFit => t.of = h)
  BY <1>2 DEF FilesTyped
<1>5. Resolved(s) = Doc(t, s.roster, s.at)
  BY DEF Resolved
<1> HIDE DEF t
<1>6. /\ Resolved(s) \in Docs /\ Resolved(s) # NoDoc /\ Resolved(s).text = t
      /\ Resolved(s).roster = s.roster /\ Resolved(s).at = s.at
  BY <1>2, <1>4, <1>5, DocTyped
<1>7. disk' \in [Convs -> Docs \union {NoDoc}]
  BY <1>2, <1>3, <1>6 DEF FilesTyped
<1>8. disk'[h] = Resolved(s) /\ \A c \in Convs \ {h} : disk'[c] = disk[c]
  BY <1>2, <1>3 DEF FilesTyped
<1>9. DOMAIN disk' = Convs /\ Saved(h)'
  BY <1>6, <1>7, <1>8 DEF Saved
<1>10. WrittenHead(h)
  BY <1>2, <1>6, <1>8, <1>9 DEF WrittenHead, s
<1> QED
  BY <1>1, <1>4, <1>6, <1>7, <1>8, <1>10

LEMMA LandsFiles == ASSUME FilesInv, Lands PROVE FilesInv'
<1>1. UNCHANGED <<live, turn, timer, op, down, clock, counts, ghosts>>
  BY DEF Lands
<1>2. PICK h : h = chain[1].conv
  OBVIOUS
<1>3. /\ WrittenHead(h) /\ ChainTakes /\ chain' \in Seq(Snapshots)
      /\ disk' \in [Convs -> Docs \union {NoDoc}] /\ disk'[h].text.of = h
  BY <1>2, LandsWrites DEF FilesInv
<1>4. FilesTyped'
  BY <1>1, <1>3 DEF FilesInv, FilesTyped, live, counts, ghosts
<1>5. OpFits'
  <2>1. op.at # "deleting"
    BY DEF Lands, FilesInv, OpFits
  <2>2. op.at = "left" /\ chain' # <<>> => chain'[Len(chain')].at = op.save
    <3> SUFFICES ASSUME op.at = "left", chain' # <<>> PROVE chain'[Len(chain')].at = op.save
      OBVIOUS
    <3>1. chain'[Len(chain')] = chain[Len(chain)]
      BY LastTaken DEF Lands, FilesInv
    <3> QED
      BY <3>1 DEF Lands, FilesInv, OpFits
  <2> QED
    BY <2>1, <2>2, <1>1 DEF FilesInv, OpFits, live, ghosts
<1>6. TextsFit'
  <2>1. OwnFile'
    BY <1>3 DEF WrittenHead, FilesInv, TextsFit, FilesFit, OwnFile, Saved
  <2>2. h \notin deleted
    BY <1>2, <1>3, Shifted DEF FilesInv, TextsFit
  <2>3. DeletedGone'
    BY <2>2, <1>1, <1>3 DEF WrittenHead, FilesInv, FilesTyped, TextsFit, FilesFit, DeletedGone,
                            Saved, ghosts
  <2>4. \A i \in DOMAIN chain' :
          /\ chain'[i].conv \notin deleted
          /\ IF chain'[i].text = Live THEN text.of = chain'[i].conv
                                      ELSE chain'[i].text.of = chain'[i].conv
    BY <1>3, Shifted DEF FilesInv, TextsFit
  <2> QED
    BY <2>1, <2>3, <2>4, <1>1 DEF FilesInv, TextsFit, FilesFit, live, ghosts
<1>7. InTime'
  BY <1>1, <1>3, LandsTime DEF FilesInv
<1>8. Mending'
  BY <1>1, <1>3, LandsMending DEF FilesInv, live, counts
<1>9. OwedKept'
  BY <1>1, <1>3, LandsOwed DEF FilesInv, counts, ghosts
<1> QED
  BY <1>4, <1>5, <1>6, <1>7, <1>8, <1>9 DEF FilesInv

LEMMA WriteFailsFiles == ASSUME FilesInv, WriteFails PROVE FilesInv'
<1>1. /\ failures' = failures + 1 /\ failures \in Nat
      /\ UNCHANGED <<live, turn, timer, disk, op, down, clock, edits, ops, restarts, ghosts>>
  BY DEF WriteFails, FilesInv, FilesTyped
<1>2. ChainTakes /\ chain' \in Seq(Snapshots)
  BY Takes DEF WriteFails, FilesInv
<1>3. FilesTyped'
  BY <1>1, <1>2 DEF FilesInv, FilesTyped, live, ghosts
<1>4. OpFits'
  <2>1. op.at # "deleting"
    BY DEF WriteFails, FilesInv, OpFits
  <2>2. op.at = "left" /\ chain' # <<>> => chain'[Len(chain')].at = op.save
    <3> SUFFICES ASSUME op.at = "left", chain' # <<>> PROVE chain'[Len(chain')].at = op.save
      OBVIOUS
    <3>1. chain'[Len(chain')] = chain[Len(chain)]
      BY LastTaken DEF WriteFails, FilesInv
    <3> QED
      BY <3>1 DEF WriteFails, FilesInv, OpFits
  <2> QED
    BY <2>1, <2>2, <1>1 DEF FilesInv, OpFits, live, ghosts
<1>5. TextsFit'
  BY <1>1, <1>2, Shifted DEF FilesInv, TextsFit, FilesFit, OwnFile, DeletedGone, Saved, live, ghosts
<1>6. InTime'
  BY <1>1, <1>2, DropsTime DEF FilesInv
<1>7. Mending' /\ OwedKept'
  BY <1>1, OwesNothing DEF Mending
<1> QED
  BY <1>3, <1>4, <1>5, <1>6, <1>7 DEF FilesInv

\* The shutdown takes what is pending with it: a snapshot of now, or the last
\* on the chain, whose roster is whole as no reset is under way.
LEMMA ShutsDownFiles == ASSUME OneAtATime, FilesInv, ShutsDown PROVE FilesInv'
<1>1. /\ down = "up" /\ op = NoOp /\ down' = "saving" /\ op.at = "none"
      /\ UNCHANGED <<live, turn, disk, op, counts, deleted>>
  BY OpNames DEF ShutsDown, OneAtATime
<1>2. roster # Cleared /\ convId \notin deleted /\ text.of = convId
  BY <1>1, LiveFits DEF FilesInv, OpFits
<1>3. CASE timer
  <2>1. SaveCurrent /\ owed' = [Snapshot EXCEPT !.text = text]
    BY <1>3 DEF ShutsDown
  <2>2. owed'.conv = convId /\ owed'.at = clock /\ clock \in Nat /\ convId \in Convs
    BY <2>1, SnapshotTyped DEF FilesInv, FilesTyped, Snapshots
  <2>3. /\ timer' = FALSE /\ clock' = clock + 1 /\ chain' \in Seq(Snapshots)
        /\ ChainAdds(convId, roster) /\ \A i \in DOMAIN chain : chain'[i] = chain[i]
        /\ chain'[Len(chain) + 1] = Snapshot
    BY <1>1, <2>1, Saves DEF FilesInv
  <2>4. FilesTyped'
    BY <1>1, <2>3 DEF FilesInv, FilesTyped, live, counts
  <2>5. OpFits'
    BY <1>1, <1>2 DEF FilesInv, OpFits, live
  <2>6. \A i \in DOMAIN chain' : i \in DOMAIN chain \/ i = Len(chain) + 1
    BY <2>3, ChainTyped DEF FilesInv, ChainAdds
  <2>7. TextsFit'
    <3>1. ASSUME NEW i \in DOMAIN chain'
          PROVE  /\ chain'[i].conv \notin deleted
                 /\ IF chain'[i].text = Live THEN text.of = chain'[i].conv
                                             ELSE chain'[i].text.of = chain'[i].conv
      <4>1. CASE i \in DOMAIN chain
        BY <4>1, <2>3 DEF FilesInv, TextsFit
      <4>2. CASE i = Len(chain) + 1
        BY <4>2, <2>3, <1>2, SnapshotTyped DEF FilesInv
      <4> QED
        BY <4>1, <4>2, <2>6
    <3> QED
      BY <3>1, <1>1, <1>2 DEF FilesInv, TextsFit, FilesFit, OwnFile, DeletedGone, Saved, live
  <2>8. InTime'
    BY <1>1, <2>3, AddsTime DEF FilesInv
  <2>9. Mending'
    BY <1>1, <1>2, <2>3, AddsMending DEF FilesInv, live, counts
  <2>10. OwedKept'
    <3>1. \E i \in DOMAIN chain' : chain'[i].conv = owed'.conv /\ chain'[i].at = owed'.at
      <4>1. Len(chain) + 1 \in DOMAIN chain'
        BY <2>3, ChainTyped DEF FilesInv, ChainAdds
      <4> QED
        BY <4>1, <2>2, <2>3 DEF ChainAdds
    <3>2. \A i \in DOMAIN chain' : chain'[i].at >= owed'.at => chain'[i].roster # Cleared
      <4> SUFFICES ASSUME NEW i \in DOMAIN chain', chain'[i].at >= clock
                   PROVE  chain'[i].roster # Cleared
        BY <2>2
      <4>1. i \in DOMAIN chain => chain'[i].at < clock /\ chain'[i].at \in Nat
        BY <2>3, ChainTyped DEF FilesInv, InTime
      <4>2. i = Len(chain) + 1
        BY <4>1, <2>2, <2>6
      <4> QED
        BY <4>2, <2>3, <1>2 DEF ChainAdds
    <3>3. \A c \in Convs : Saved(c) => disk[c].at < clock /\ disk[c].at \in Nat
      BY SavedTyped DEF FilesInv, InTime
    <3>4. \A c \in Convs : Saved(c) => ~(disk[c].at >= owed'.at)
      BY <3>3, <2>2
    <3> QED
      BY <1>1, <2>2, <3>1, <3>2, <3>4 DEF OwedKept, Saved
  <2> QED
    BY <2>4, <2>5, <2>7, <2>8, <2>9, <2>10 DEF FilesInv
<1>4. CASE ~timer
  <2>1. /\ owed' = IF chain = <<>> THEN NoSnapshot ELSE Last(chain)
        /\ UNCHANGED <<chain, clock, timer>>
    BY <1>4 DEF ShutsDown
  <2>2. FilesTyped'
    BY <1>1, <2>1 DEF FilesInv, FilesTyped, live, counts
  <2>3. OpFits'
    BY <1>1, <1>2, <2>1 DEF FilesInv, OpFits, live
  <2>4. TextsFit'
    BY <1>1, <2>1 DEF FilesInv, TextsFit, FilesFit, OwnFile, DeletedGone, Saved, live
  <2>5. InTime'
    BY <1>1, <2>1, KeepsTime, SameChain DEF FilesInv
  <2>6. Mending'
    BY <1>1, <2>1, KeepsMending, SameChain DEF FilesInv, live, counts
  <2>7. OwedKept'
    <3>1. CASE chain = <<>>
      BY <3>1, <2>1 DEF OwedKept
    <3>2. CASE chain # <<>>
      <4> DEFINE n == Len(chain)
      <4>1. n \in DOMAIN chain /\ DOMAIN chain = 1 .. n /\ owed' = chain[n]
        BY <3>2, <2>1, ChainTyped DEF FilesInv, FilesTyped, Last
      <4>2. chain[n].conv \in Convs /\ chain[n].at \in Nat
        BY <4>1, ChainTyped DEF FilesInv
      <4>3. failures = 0 => chain[n].roster # Cleared
        <5> SUFFICES ASSUME failures = 0, chain[n].roster = Cleared PROVE FALSE
          OBVIOUS
        <5>1. Mended(chain[n].conv, n)
          BY <4>1 DEF FilesInv, Mending
        <5>2. \A j \in DOMAIN chain : ~(j > n)
          BY <4>1
        <5> QED
          BY <5>1, <5>2, <1>1 DEF Mended
      <4>4. \A i \in DOMAIN chain : chain[i].at >= chain[n].at => i = n
        <5> SUFFICES ASSUME NEW i \in DOMAIN chain, i # n PROVE ~(chain[i].at >= chain[n].at)
          OBVIOUS
        <5>1. i < n
          BY <4>1
        <5>2. chain[i].at < chain[n].at /\ chain[i].at \in Nat
          BY <5>1, <4>1, ChainTyped DEF FilesInv, InTime
        <5> QED
          BY <5>2, <4>2
      <4>5. \A c \in Convs : Saved(c) => ~(disk[c].at >= chain[n].at)
        BY <4>1, <4>2, SavedTyped DEF FilesInv, InTime
      <4> HIDE DEF n
      <4> QED
        BY <1>1, <2>1, <4>1, <4>2, <4>3, <4>4, <4>5 DEF OwedKept, Saved, counts
    <3> QED
      BY <3>1, <3>2
  <2> QED
    BY <2>2, <2>3, <2>4, <2>5, <2>6, <2>7 DEF FilesInv
<1> QED
  BY <1>3, <1>4

\* The room is sealed once nothing that is owed is on the chain.
LEMMA SealsFiles == ASSUME FilesInv, Seals PROVE FilesInv'
<1>1. /\ down = "saving" /\ ~Queued(owed.at) /\ down' = "sealed"
      /\ UNCHANGED <<live, turn, timer, chain, disk, op, clock, counts, ghosts>>
  BY DEF Seals
<1>2. op = NoOp
  BY <1>1 DEF FilesInv, OpFits
<1>3. FilesTyped'
  BY <1>1 DEF FilesInv, FilesTyped, live, counts, ghosts
<1>4. OpFits'
  BY <1>1, <1>2, OpNames DEF FilesInv, OpFits, live, ghosts
<1>5. TextsFit'
  BY <1>1 DEF FilesInv, TextsFit, FilesFit, OwnFile, DeletedGone, Saved, live, ghosts
<1>6. InTime'
  BY <1>1, KeepsTime, SameChain DEF FilesInv
<1>7. Mending'
  BY <1>1, KeepsMending, SameChain DEF FilesInv, live, counts
<1>8. OwedKept'
  <2> SUFFICES ASSUME owed # NoSnapshot, failures = 0 PROVE OwedKept'
    BY <1>1 DEF OwedKept, counts, ghosts
  <2>1. ASSUME NEW i \in DOMAIN chain, chain[i].at = owed.at PROVE FALSE
    <3>1. chain[i].at <= owed.at
      BY <2>1, ChainTyped DEF FilesInv
    <3> QED
      BY <3>1, <1>1 DEF Queued
  <2> QED
    BY <2>1, <1>1 DEF FilesInv, OwedKept, Saved, counts, ghosts
<1> QED
  BY <1>3, <1>4, <1>5, <1>6, <1>7, <1>8 DEF FilesInv

\* The process ends anywhere and comes up with the file written last, which is
\* the only one that can want a roster, or with nothing.
LEMMA RestartFiles == ASSUME FilesInv, Restart PROVE FilesInv'
<1>1. /\ clock' = clock + 1 /\ turn' = FALSE /\ timer' = FALSE /\ op' = NoOp /\ down' = "up"
      /\ UNCHANGED <<disk, edits, failures, deleted>>
  BY DEF Restart
<1>2. PICK c \in Convs :
        /\ convId' = c /\ text' \in Texts /\ text'.of = c /\ c \notin deleted
        /\ roster' \in Nat /\ roster' # Cleared
        /\ chain' \in {<<>>, FirstSave(c)}
        /\ \/ Recent(c) /\ (disk[c].roster = Cleared => chain' = FirstSave(c))
           \/ \A d \in Convs : ~Saved(d)
  <2>1. ASSUME NEW c \in Convs, Recent(c), convId' = c, text' = disk[c].text,
               roster' = Restored(disk[c].roster),
               chain' = IF disk[c].roster = Cleared THEN FirstSave(c) ELSE <<>>
        PROVE  /\ text' \in Texts /\ text'.of = c /\ c \notin deleted
               /\ roster' \in Nat /\ roster' # Cleared
    BY <2>1, SavedTyped, RestoredTyped DEF Recent, FilesInv, TextsFit, FilesFit, OwnFile, DeletedGone
  <2>2. ASSUME NEW c \in Convs, Fresh(c), convId' = c, text' = Text(c, 0), roster' = 1
        PROVE  /\ text' \in Texts /\ text'.of = c /\ c \notin deleted
               /\ roster' \in Nat /\ roster' # Cleared
    BY <2>2, TextTyped DEF Fresh, Cleared
  <2>3. CASE \E c \in Convs :
               /\ Recent(c)
               /\ convId' = c /\ text' = disk[c].text /\ roster' = Restored(disk[c].roster)
               /\ chain' = IF disk[c].roster = Cleared THEN FirstSave(c) ELSE <<>>
    BY <2>1, <2>3
  <2>4. CASE \E c \in Convs :
               /\ ~\E d \in Convs : Saved(d)
               /\ Fresh(c)
               /\ convId' = c /\ text' = Text(c, 0) /\ roster' = 1
               /\ chain' = FirstSave(c)
    BY <2>2, <2>4
  <2> QED
    BY <2>3, <2>4 DEF Restart
<1> DEFINE first == [conv |-> c, text |-> Live, roster |-> 1, at |-> clock]
<1>3. first \in Snapshots /\ first.conv = c /\ first.text = Live /\ first.roster = 1 /\ first.at = clock
  BY DEF Snapshots, FilesInv, FilesTyped
<1>4. FirstSave(c) = <<first>>
  BY DEF FirstSave
<1> HIDE DEF first
<1>5. chain' \in Seq(Snapshots) /\ \A i \in DOMAIN chain' : i = 1 /\ chain'[i] = first
  <2>1. CASE chain' = <<>>
    BY <2>1
  <2>2. CASE chain' = <<first>>
    BY <2>2, <1>3
  <2> QED
    BY <2>1, <2>2, <1>2, <1>4
<1>6. FilesTyped'
  BY <1>1, <1>2, <1>5 DEF FilesInv, FilesTyped
<1>7. OpFits'
  BY <1>1, <1>2, OpNames DEF OpFits
<1>8. TextsFit'
  BY <1>1, <1>2, <1>3, <1>5 DEF FilesInv, TextsFit, FilesFit, OwnFile, DeletedGone, Saved
<1>9. InTime'
  <2>1. \A d \in Convs : Saved(d) => disk[d].at < clock /\ disk[d].at \in Nat
    BY SavedTyped DEF FilesInv, InTime
  <2>2. clock \in Nat
    BY DEF FilesInv, FilesTyped
  <2> QED
    BY <2>1, <2>2, <1>1, <1>3, <1>5 DEF InTime, Saved
<1>10. Mending'
  <2> SUFFICES ASSUME failures = 0 PROVE Mending'
    BY <1>1 DEF Mending
  <2>1. \A i \in DOMAIN chain' : chain'[i].roster # Cleared
    BY <1>3, <1>5 DEF Cleared
  <2>2. ASSUME NEW d \in Convs, Saved(d), disk[d].roster = Cleared
        PROVE  Newest(d) /\ d = c /\ chain' = FirstSave(c)
    <3>1. Newest(d)
      BY <2>2 DEF FilesInv, Mending
    <3>2. Recent(c) /\ Saved(c) /\ disk[d].at <= disk[c].at
      BY <2>2, <1>2 DEF Recent
    <3>3. disk[c].at \in Nat /\ disk[d].at \in Nat
      BY <2>2, <3>2, SavedTyped DEF FilesInv
    <3>4. d = c
      BY <3>1, <3>2, <3>3 DEF Newest
    <3> QED
      BY <2>2, <3>1, <3>4, <1>2
  <2>3. ASSUME chain' = FirstSave(c) PROVE Mended(c, 0)'
    <3>1. chain' = <<first>>
      BY <2>3, <1>4
    <3>2. 1 \in DOMAIN chain' /\ chain'[1] = first
      BY <3>1
    <3>3. \A k \in DOMAIN chain' : chain'[k].conv = c
      BY <1>3, <1>5
    <3> QED
      BY <3>2, <3>3, <2>1, <1>2 DEF Mended
  <2>4. op'.at # "renaming"
    BY <1>1, OpNames
  <2>5. \A d \in Convs : Saved(d)' /\ disk'[d].roster = Cleared => Newest(d)' /\ Mended(d, 0)'
    <3> SUFFICES ASSUME NEW d \in Convs, Saved(d), disk[d].roster = Cleared
                 PROVE  Newest(d)' /\ Mended(d, 0)'
      BY <1>1 DEF Saved
    <3>1. Newest(d) /\ d = c /\ Mended(c, 0)'
      BY <2>2, <2>3
    <3> QED
      BY <3>1, <1>1 DEF Newest, Saved
  <2> QED
    BY <2>1, <2>4, <2>5 DEF Mending
<1>11. OwedKept'
  BY <1>1, OwesNothing
<1> QED
  BY <1>6, <1>7, <1>8, <1>9, <1>10, <1>11 DEF FilesInv

LEMMA InitFiles == Init => FilesInv
<1> SUFFICES ASSUME Init PROVE FilesInv
  OBVIOUS
<1>1. PICK c \in Convs : /\ convId = c /\ text = Text(c, 0)
                         /\ disk = [d \in Convs |-> IF d = c THEN Doc(Text(c, 0), 1, 0) ELSE NoDoc]
  <2>1. \E c \in Convs : TRUE
    BY ConvsAssumption
  <2> QED
    BY <2>1 DEF Init
<1>2. /\ roster = 1 /\ chain = <<>> /\ op = NoOp /\ down = "up" /\ turn = FALSE /\ timer = FALSE
      /\ clock = 1 /\ edits = 1 /\ failures = 0 /\ deleted = {}
  BY DEF Init
<1>3. Text(c, 0) \in Texts /\ Text(c, 0).of = c
  BY TextTyped
<1>4. /\ Doc(Text(c, 0), 1, 0) \in Docs /\ Doc(Text(c, 0), 1, 0).text = Text(c, 0)
      /\ Doc(Text(c, 0), 1, 0).roster = 1 /\ Doc(Text(c, 0), 1, 0).at = 0
  BY <1>3, DocTyped
<1>5. chain \in Seq(Snapshots) /\ DOMAIN chain = {}
  BY <1>2
<1>6. FilesTyped
  BY <1>1, <1>2, <1>3, <1>4, <1>5 DEF FilesTyped
<1>7. \A d \in Convs : Saved(d) => d = c /\ disk[d] = Doc(Text(c, 0), 1, 0)
  BY <1>1 DEF Saved
<1>8. OpFits
  BY <1>2, OpNames DEF OpFits, Cleared
<1>9. TextsFit
  BY <1>1, <1>2, <1>3, <1>4, <1>5, <1>7 DEF TextsFit, FilesFit, OwnFile, DeletedGone
<1>10. InTime
  BY <1>2, <1>4, <1>5, <1>7 DEF InTime
<1>11. Mending
  BY <1>2, <1>4, <1>5, <1>7, OpNames DEF Mending, Cleared
<1>12. OwedKept
  BY <1>2 DEF OwedKept
<1> QED
  BY <1>6, <1>8, <1>9, <1>10, <1>11, <1>12 DEF FilesInv

LEMMA StepFiles == OneAtATime /\ FilesInv /\ [Next]_vars => FilesInv'
<1> SUFFICES ASSUME OneAtATime, FilesInv, [Next]_vars PROVE FilesInv'
  OBVIOUS
<1>1. CASE Lands \/ WriteFails \/ TimerFires
  BY <1>1, LandsFiles, WriteFailsFiles, TimerFiresFiles
<1>2. CASE Begins \/ Posts \/ TurnEnds \/ PostShellRecord \/ ChangeRoster
  BY <1>2, BeginsFiles, PostsFiles, TurnEndsFiles, PostShellFiles, ChangeRosterFiles
<1>3. ASSUME NEW c \in Convs, Operations(c) PROVE FilesInv'
  BY <1>3, SwitchFiles, NewFiles, DeleteFiles, RenameFiles DEF Operations
<1>4. CASE ApplyPreset \/ RollbackTo
  BY <1>4, ApplyPresetFiles, RollbackFiles
<1>5. CASE Proceeds
  BY <1>5, LeavesFiles, EntersFiles, IsResetFiles, FallsBackFiles, RenamesFiles, RolledBackFiles
     DEF Proceeds
<1>6. CASE ShutsDown \/ Seals \/ DisposeAll \/ Restart
  BY <1>6, ShutsDownFiles, SealsFiles, DisposeAllFiles, RestartFiles
<1>7. CASE UNCHANGED vars
  <2>1. /\ UNCHANGED <<chain, disk, clock, failures, convId, down, owed, deleted, text, roster>>
        /\ UNCHANGED <<edits, op, turn, timer>>
    BY <1>7 DEF vars, live, counts, ghosts
  <2>2. FilesRest'
    BY <2>1, KeepsRest DEF FilesInv, FilesTyped
  <2>3. OpFits'
    BY <2>1 DEF FilesInv, OpFits
  <2> QED
    BY <2>2, <2>3 DEF FilesInv, FilesRest
<1> QED
  BY <1>1, <1>2, <1>3, <1>4, <1>5, <1>6, <1>7 DEF Next

LEMMA FilesInvKept == FilesInv => FilesKept
<1> SUFFICES ASSUME FilesInv PROVE FilesKept
  OBVIOUS
<1>1. FilesFit
  BY DEF FilesInv, TextsFit
<1>2. FlushKeeps
  BY DEF FilesInv, OwedKept, FlushKeeps
<1> QED
  BY <1>1, <1>2 DEF FilesKept

\* However a discussion is written, switched, renamed, deleted, rolled back and
\* restarted, its file is its own, a deleted one has none, and what a shutdown
\* found pending is on disk, with a roster, when the room is sealed.  (Requests
\* that come while an operation awaits are left out: there the property fails.)
THEOREM FilesAreKept == ASSUME OneAtATime PROVE Spec => []FilesKept
<1>1. Init => FilesInv
  BY InitFiles
<1>2. FilesInv /\ [Next]_vars => FilesInv'
  BY StepFiles
<1>3. FilesInv => FilesKept
  BY FilesInvKept
<1> QED
  BY <1>1, <1>2, <1>3, PTL DEF Spec

(* The order of writes, whatever else comes while an operation awaits. *)

OpTyped == op.at \in {"leaving", "left", "resetting", "renaming"} =>
             op.conv \in Convs /\ op.doc \in Docs

OrderInv == FilesTyped /\ OpTyped /\ InTime

\* A step that does not touch the chain, the files or the clock.
LEMMA OrderRests ==
  ASSUME OrderInv, UNCHANGED <<chain, disk, clock>>,
         convId' \in Convs, text' \in Texts, roster' \in Nat,
         edits' \in Nat, failures' \in Nat, deleted' \subseteq Convs, OpTyped'
  PROVE  OrderInv'
<1>1. FilesTyped'
  BY DEF OrderInv, FilesTyped
<1> QED
  BY <1>1, KeepsTime, SameChain DEF OrderInv

LEMMA OrderSaves ==
  ASSUME OrderInv, SaveCurrent, UNCHANGED <<convId, disk, failures, deleted>>,
         text' \in Texts, roster' \in Nat, edits' \in Nat, OpTyped'
  PROVE  OrderInv'
<1>1. CASE down = "sealed"
  <2>1. UNCHANGED <<chain, clock>>
    BY <1>1, Saves DEF OrderInv
  <2> QED
    BY <2>1, OrderRests DEF OrderInv, FilesTyped
<1>2. CASE down # "sealed"
  <2>1. clock' = clock + 1 /\ chain' \in Seq(Snapshots) /\ ChainAdds(convId, roster)
    BY <1>2, Saves DEF OrderInv
  <2>2. FilesTyped'
    BY <2>1 DEF OrderInv, FilesTyped
  <2> QED
    BY <2>1, <2>2, AddsTime DEF OrderInv
<1> QED
  BY <1>1, <1>2

LEMMA OrderFrozen ==
  ASSUME OrderInv, chain' = Frozen, UNCHANGED <<disk, clock>>,
         convId' \in Convs, text' \in Texts, roster' \in Nat,
         edits' \in Nat, failures' \in Nat, deleted' \subseteq Convs, OpTyped'
  PROVE  OrderInv'
<1>1. chain' \in Seq(Snapshots) /\ ChainKeeps
  BY FrozenChain DEF OrderInv, ChainKeeps
<1>2. FilesTyped'
  BY <1>1 DEF OrderInv, FilesTyped
<1> QED
  BY <1>1, <1>2, KeepsTime DEF OrderInv

LEMMA OrderApplies ==
  ASSUME OrderInv, NEW c \in Convs, NEW doc \in Docs, NEW new, Applies(c, doc, new),
         UNCHANGED <<disk, clock, counts, ghosts>>
  PROVE  OrderInv'
<1>1. /\ convId' = c /\ roster' = Cleared
      /\ op' = [at |-> "resetting", conv |-> c, doc |-> doc, new |-> new]
  BY DEF Applies
<1>2. OpTyped' /\ doc.text \in Texts /\ roster' \in Nat
  BY <1>1 DEF OpTyped, Docs, Cleared
<1>3. /\ new => text' = doc.text /\ chain' = Frozen
      /\ ~new => UNCHANGED <<text, chain>>
  BY DEF Applies
<1> QED
  BY <1>1, <1>2, <1>3, OrderRests, OrderFrozen DEF OrderInv, FilesTyped, counts, ghosts

LEMMA OrderTurns ==
  ASSUME OrderInv, TimerFires \/ Begins \/ Posts \/ TurnEnds \/ PostShellRecord \/ ChangeRoster
  PROVE  OrderInv'
<1>1. op' = op /\ UNCHANGED <<convId, disk, failures, deleted>> /\ OpTyped'
  BY DEF TimerFires, Begins, Posts, TurnEnds, PostShellRecord, ChangeRoster, live, counts,
         ghosts, OrderInv, OpTyped
<1>2. edits' \in Nat /\ roster' \in Nat
  BY DEF TimerFires, Begins, Posts, TurnEnds, PostShellRecord, ChangeRoster, live, counts,
         Edits, OrderInv, FilesTyped
<1>3. text' \in Texts
  BY <1>2, TextEdited DEF TimerFires, Begins, Posts, TurnEnds, PostShellRecord, ChangeRoster,
                          live, OrderInv, FilesTyped
<1>4. SaveCurrent \/ UNCHANGED <<chain, clock>>
  BY DEF TimerFires, Begins, Posts, TurnEnds, PostShellRecord, ChangeRoster
<1> QED
  BY <1>1, <1>2, <1>3, <1>4, OrderRests, OrderSaves DEF OrderInv, FilesTyped

\* An operation begins with a document of its own.
LEMMA OrderBegins ==
  ASSUME OrderInv, NEW o, Begin(o), UNCHANGED <<live, chain, disk, clock, ghosts>>,
         o.conv \in Convs, o.doc \in Docs
  PROVE  OrderInv'
<1>1. OpTyped' /\ UNCHANGED <<edits, failures>>
  BY DEF Begin, OpTyped
<1> QED
  BY <1>1, OrderRests DEF OrderInv, FilesTyped, live, ghosts

LEMMA OrderDeletes ==
  ASSUME OrderInv, NEW c \in Convs, DeleteConversation(c) PROVE OrderInv'
<1>1. /\ disk' = [disk EXCEPT ![c] = NoDoc] /\ deleted' = deleted \union {c}
      /\ op' = IF c = convId THEN [at |-> "deleting"] ELSE NoOp
      /\ UNCHANGED <<live, chain, clock, edits, failures>>
  BY DEF DeleteConversation, Begin
<1>2. OpTyped'
  BY <1>1, OpNames DEF OpTyped
<1>3. FilesTyped'
  BY <1>1 DEF OrderInv, FilesTyped, live
<1>4. \A d \in Convs : Saved(d)' => Saved(d) /\ disk'[d] = disk[d]
  BY <1>1 DEF Saved, OrderInv, FilesTyped
<1>5. InTime'
  BY <1>1, <1>4 DEF OrderInv, InTime
<1> QED
  BY <1>2, <1>3, <1>5 DEF OrderInv

LEMMA OrderOperates ==
  ASSUME OrderInv, (\E c \in Convs : Operations(c)) \/ ApplyPreset \/ RollbackTo PROVE OrderInv'
<1>1. ASSUME NEW c \in Convs, SwitchConversation(c) PROVE OrderInv'
  <2> DEFINE o == [at |-> "leaving", conv |-> c, doc |-> disk[c], new |-> FALSE]
  <2>1. Begin(o) /\ UNCHANGED <<live, chain, disk, clock, ghosts>> /\ disk[c] \in Docs
    BY <1>1, SavedTyped DEF SwitchConversation, OrderInv
  <2>2. o.conv = c /\ o.doc = disk[c]
    OBVIOUS
  <2> QED
    BY <2>1, <2>2, OrderBegins
<1>2. ASSUME NEW c \in Convs, NewConversation(c) PROVE OrderInv'
  <2> DEFINE doc == Doc(Text(c, 0), roster, 0)
             o == [at |-> "leaving", conv |-> c, doc |-> doc, new |-> TRUE]
  <2>1. Begin(o) /\ UNCHANGED <<live, chain, disk, clock, ghosts>>
    BY <1>2 DEF NewConversation
  <2>2. doc \in Docs
    BY TextTyped, DocTyped DEF OrderInv, FilesTyped
  <2>3. o.conv = c /\ o.doc = doc
    OBVIOUS
  <2> QED
    BY <2>1, <2>2, <2>3, OrderBegins
<1>3. ASSUME NEW c \in Convs, RenameConversation(c) PROVE OrderInv'
  <2> DEFINE o == [at |-> "renaming", conv |-> c, doc |-> disk[c]]
  <2>1. Begin(o) /\ UNCHANGED <<live, chain, disk, clock, ghosts>> /\ disk[c] \in Docs
    BY <1>3, SavedTyped DEF RenameConversation, OrderInv
  <2>2. o.conv = c /\ o.doc = disk[c]
    OBVIOUS
  <2> QED
    BY <2>1, <2>2, OrderBegins
<1>4. CASE ApplyPreset
  <2> DEFINE doc == Doc(text, edits', 0)
  <2>1. /\ edits' = edits + 1 /\ roster' = Cleared
        /\ op' = [at |-> "resetting", conv |-> convId, doc |-> doc, new |-> TRUE]
        /\ UNCHANGED <<convId, text, chain, disk, clock, failures, ghosts>>
    BY <1>4 DEF ApplyPreset, Edits
  <2>2. doc \in Docs /\ edits' \in Nat /\ roster' \in Nat
    BY <2>1, DocTyped DEF OrderInv, FilesTyped, Cleared
  <2> HIDE DEF doc
  <2>3. OpTyped'
    BY <2>1, <2>2 DEF OpTyped, OrderInv, FilesTyped
  <2> QED
    BY <2>1, <2>2, <2>3, OrderRests DEF OrderInv, FilesTyped, ghosts
<1>5. CASE RollbackTo
  <2>1. /\ op' = [at |-> "wiping"] /\ text' = [text EXCEPT !.n = 0] /\ chain' = Frozen
        /\ UNCHANGED <<convId, roster, disk, clock, edits, failures, ghosts>>
    BY <1>5 DEF RollbackTo, Begin
  <2>2. OpTyped' /\ text' \in Texts
    BY <2>1, TextEdited DEF OpTyped, OrderInv
  <2> QED
    BY <2>1, <2>2, OrderFrozen DEF OrderInv, FilesTyped, ghosts
<1> QED
  BY <1>1, <1>2, <1>3, <1>4, <1>5, OrderDeletes DEF Operations

LEMMA OrderReset == ASSUME OrderInv, IsReset PROVE OrderInv'
<1> DEFINE kept == IF op.new THEN chain ELSE Frozen
           full == Restored(op.doc.roster)
           snap == [Snapshot EXCEPT !.roster = full]
           saves == (op.new \/ op.doc.roster = Cleared) /\ down # "sealed"
<1>1. /\ op.doc \in Docs /\ full \in Nat /\ op.doc.text \in Texts
  BY RestoredTyped DEF IsReset, OrderInv, OpTyped, Docs
<1>2. /\ roster' = full /\ op' = NoOp /\ UNCHANGED <<convId, disk, counts, ghosts>>
      /\ text' = IF op.new THEN text ELSE op.doc.text
      /\ saves => chain' = Append(kept, snap) /\ clock' = clock + 1
      /\ ~saves => chain' = kept /\ UNCHANGED clock
  BY DEF IsReset
<1>3. /\ kept \in Seq(Snapshots) /\ DOMAIN kept = DOMAIN chain /\ Len(kept) = Len(chain)
      /\ \A i \in DOMAIN chain : SameFields(kept[i], chain[i])
  BY FrozenChain, ChainTyped DEF OrderInv, FilesTyped, SameFields
<1>4. snap \in Snapshots /\ snap.conv = convId /\ snap.roster = full /\ snap.at = clock
  BY <1>1, SnapshotTyped DEF OrderInv, Snapshots
<1> HIDE DEF kept, full, snap, saves
<1>5. OpTyped'
  BY <1>2, OpNames DEF OpTyped
<1>6. text' \in Texts /\ roster' \in Nat /\ UNCHANGED <<edits, failures, deleted>>
  BY <1>1, <1>2 DEF OrderInv, FilesTyped, counts, ghosts
<1>7. CASE saves
  <2>1. /\ chain' \in Seq(Snapshots) /\ DOMAIN chain' = 1 .. (Len(chain) + 1)
        /\ DOMAIN chain = 1 .. Len(chain)
        /\ \A i \in DOMAIN chain : chain'[i] = kept[i]
        /\ chain'[Len(chain) + 1] = snap
    BY <1>2, <1>3, <1>4, <1>7, Appended
  <2>2. ChainAdds(convId, full)
    BY <2>1, <1>3, <1>4 DEF ChainAdds
  <2>3. FilesTyped'
    BY <2>1, <1>2, <1>6, <1>7 DEF OrderInv, FilesTyped
  <2> QED
    BY <2>2, <2>3, <1>2, <1>5, <1>7, AddsTime DEF OrderInv
<1>8. CASE ~saves
  <2>1. ChainKeeps /\ chain' \in Seq(Snapshots) /\ UNCHANGED <<disk, clock>>
    BY <1>2, <1>3, <1>8 DEF ChainKeeps
  <2>2. FilesTyped'
    BY <2>1, <1>2, <1>6 DEF OrderInv, FilesTyped
  <2> QED
    BY <2>1, <2>2, <1>5, KeepsTime DEF OrderInv
<1> QED
  BY <1>7, <1>8

LEMMA OrderRenames == ASSUME OrderInv, Renames PROVE OrderInv'
<1> DEFINE snap == [conv |-> op.conv, text |-> op.doc.text, roster |-> op.doc.roster, at |-> clock]
<1>1. /\ op.at = "renaming" /\ clock' = clock + 1 /\ op' = NoOp
      /\ chain' = Append(chain, snap) /\ UNCHANGED <<live, disk, counts, ghosts>>
  BY DEF Renames, Enqueue
<1>2. snap \in Snapshots
  BY <1>1 DEF Snapshots, Docs, OrderInv, OpTyped, FilesTyped
<1>3. snap.conv = op.conv /\ snap.roster = op.doc.roster /\ snap.at = clock
  OBVIOUS
<1> HIDE DEF snap
<1>4. chain' \in Seq(Snapshots) /\ ChainAdds(op.conv, op.doc.roster)
  BY <1>1, <1>2, <1>3, Appended DEF ChainAdds, SameFields, OrderInv, FilesTyped
<1>5. FilesTyped'
  BY <1>1, <1>4 DEF OrderInv, FilesTyped, live, counts, ghosts
<1>6. OpTyped'
  BY <1>1, OpNames DEF OpTyped
<1> QED
  BY <1>1, <1>4, <1>5, <1>6, AddsTime DEF OrderInv

LEMMA OrderProceeds == ASSUME OrderInv, Proceeds PROVE OrderInv'
<1>1. CASE Leaves
  <2>1. SaveCurrent /\ UNCHANGED <<live, disk, counts, ghosts>> /\ OpTyped'
    BY <1>1 DEF Leaves, OrderInv, OpTyped
  <2> QED
    BY <2>1, OrderSaves DEF OrderInv, FilesTyped, live, counts, ghosts
<1>2. CASE Enters
  <2>1. /\ op.conv \in Convs /\ op.doc \in Docs /\ Applies(op.conv, op.doc, op.new)
        /\ UNCHANGED <<disk, clock, counts, ghosts>>
    BY <1>2 DEF Enters, OrderInv, OpTyped
  <2> QED
    BY <2>1, OrderApplies
<1>3. CASE FallsBack
  <2>1. UNCHANGED <<disk, clock, counts, ghosts>>
    BY <1>3 DEF FallsBack
  <2>2. ASSUME NEW c \in Convs, Recent(c), Applies(c, disk[c], FALSE) PROVE OrderInv'
    BY <2>1, <2>2, SavedTyped, OrderApplies DEF Recent, OrderInv
  <2>3. ASSUME NEW c \in Convs, Applies(c, Doc(Text(c, 0), 1, 0), TRUE) PROVE OrderInv'
    BY <2>1, <2>3, TextTyped, DocTyped, OrderApplies
  <2> QED
    BY <1>3, <2>2, <2>3 DEF FallsBack
<1>4. CASE RolledBack
  <2>1. SaveCurrent /\ UNCHANGED <<live, disk, counts, ghosts>> /\ OpTyped'
    BY <1>4, OpNames DEF RolledBack, OpTyped
  <2> QED
    BY <2>1, OrderSaves DEF OrderInv, FilesTyped, live, counts, ghosts
<1> QED
  BY <1>1, <1>2, <1>3, <1>4, OrderReset, OrderRenames DEF Proceeds

LEMMA OrderWrites == ASSUME OrderInv, Lands \/ WriteFails PROVE OrderInv'
<1>1. /\ op' = op /\ UNCHANGED <<live, clock, edits, deleted>> /\ failures' \in Nat
      /\ chain # <<>> /\ chain' = Tail(chain)
  BY DEF Lands, WriteFails, counts, ghosts, OrderInv, FilesTyped
<1>2. ChainTakes /\ chain' \in Seq(Snapshots)
  BY <1>1, Takes DEF OrderInv
<1>3. OpTyped'
  BY <1>1 DEF OrderInv, OpTyped
<1>4. CASE Lands
  <2>1. PICK h : h = chain[1].conv
    OBVIOUS
  <2>2. WrittenHead(h) /\ disk' \in [Convs -> Docs \union {NoDoc}]
    BY <1>4, <2>1, LandsWrites DEF OrderInv
  <2>3. FilesTyped'
    BY <1>1, <1>2, <2>2 DEF OrderInv, FilesTyped, live
  <2> QED
    BY <1>1, <1>2, <1>3, <2>2, <2>3, LandsTime DEF OrderInv
<1>5. CASE WriteFails
  <2>1. disk' = disk
    BY <1>5 DEF WriteFails
  <2>2. FilesTyped'
    BY <1>1, <1>2, <2>1 DEF OrderInv, FilesTyped, live
  <2> QED
    BY <1>1, <1>2, <1>3, <2>1, <2>2, DropsTime DEF OrderInv
<1> QED
  BY <1>4, <1>5

LEMMA OrderShutsDown == ASSUME OrderInv, ShutsDown \/ Seals \/ DisposeAll PROVE OrderInv'
<1>1. op' = op /\ UNCHANGED <<convId, text, disk, counts, deleted>> /\ OpTyped'
  BY DEF ShutsDown, Seals, DisposeAll, live, ghosts, OrderInv, OpTyped
<1>2. roster' \in Nat
  BY DEF ShutsDown, Seals, DisposeAll, live, Cleared, OrderInv, FilesTyped
<1>3. SaveCurrent \/ UNCHANGED <<chain, clock>>
  BY DEF ShutsDown, Seals, DisposeAll
<1> QED
  BY <1>1, <1>2, <1>3, OrderRests, OrderSaves DEF OrderInv, FilesTyped, counts

LEMMA OrderRestarts == ASSUME OrderInv, Restart PROVE OrderInv'
<1>1. clock' = clock + 1 /\ op' = NoOp /\ UNCHANGED <<disk, edits, failures, deleted>>
  BY DEF Restart
<1>2. PICK c \in Convs : /\ convId' = c /\ text' \in Texts /\ roster' \in Nat
                         /\ chain' \in {<<>>, FirstSave(c)}
  BY SavedTyped, RestoredTyped, TextTyped DEF Restart, Recent, OrderInv
<1> DEFINE first == [conv |-> c, text |-> Live, roster |-> 1, at |-> clock]
<1>3. first \in Snapshots /\ first.at = clock
  BY DEF Snapshots, OrderInv, FilesTyped
<1>4. FirstSave(c) = <<first>>
  BY DEF FirstSave
<1> HIDE DEF first
<1>5. chain' \in Seq(Snapshots) /\ \A i \in DOMAIN chain' : i = 1 /\ chain'[i] = first
  <2>1. CASE chain' = <<>>
    BY <2>1
  <2>2. CASE chain' = <<first>>
    BY <2>2, <1>3
  <2> QED
    BY <2>1, <2>2, <1>2, <1>4
<1>6. FilesTyped'
  BY <1>1, <1>2, <1>5 DEF OrderInv, FilesTyped
<1>7. OpTyped'
  BY <1>1, OpNames DEF OpTyped
<1>8. InTime'
  <2>1. \A d \in Convs : Saved(d) => disk[d].at < clock /\ disk[d].at \in Nat
    BY SavedTyped DEF OrderInv, InTime
  <2>2. clock \in Nat
    BY DEF OrderInv, FilesTyped
  <2> QED
    BY <2>1, <2>2, <1>1, <1>3, <1>5 DEF InTime, Saved
<1> QED
  BY <1>6, <1>7, <1>8 DEF OrderInv

LEMMA StepOrder == OrderInv /\ [Next]_vars => OrderInv'
<1> SUFFICES ASSUME OrderInv, [Next]_vars PROVE OrderInv'
  OBVIOUS
<1>1. CASE UNCHANGED vars
  <2>1. UNCHANGED <<chain, disk, clock, failures, convId, deleted, text, roster, edits, op>>
    BY <1>1 DEF vars, live, counts, ghosts
  <2>2. OpTyped'
    BY <2>1 DEF OrderInv, OpTyped
  <2> QED
    BY <2>1, <2>2, OrderRests DEF OrderInv, FilesTyped
<1> QED
  BY <1>1, OrderTurns, OrderOperates, OrderProceeds, OrderWrites, OrderShutsDown, OrderRestarts
     DEF Next

\* No file goes back to an older snapshot: the chain writes them in the order in
\* which they were taken, over deletions, reloads and restarts, and whatever else
\* is asked while a conversation operation awaits.
THEOREM FilesNeverOlder == Spec => NoOlder
<1> DEFINE Younger == \A c \in Convs : Saved(c) /\ disk'[c] # NoDoc => disk[c].at <= disk'[c].at
<1>1. Init => OrderInv
  BY InitFiles DEF FilesInv, OrderInv, Init, OpTyped, NoOp
<1>2. OrderInv /\ [Next]_vars => OrderInv'
  BY StepOrder
<1>3. OrderInv /\ [Next]_vars => [Younger]_vars
  <2> SUFFICES ASSUME OrderInv, Next PROVE Younger
    OBVIOUS
  <2>1. CASE Lands
    <3>1. PICK h : h = chain[1].conv
      OBVIOUS
    <3>2. WrittenHead(h) /\ ChainTakes
      BY <2>1, <3>1, LandsWrites DEF OrderInv
    <3> QED
      BY <3>2, LandsNewer DEF OrderInv
  <2>2. CASE \E c \in Convs : DeleteConversation(c)
    <3>1. PICK d \in Convs : disk' = [disk EXCEPT ![d] = NoDoc]
      BY <2>2 DEF DeleteConversation
    <3>2. \A c \in Convs : disk'[c] # NoDoc => disk'[c] = disk[c]
      BY <3>1 DEF OrderInv, FilesTyped
    <3>3. \A c \in Convs : Saved(c) => disk[c].at <= disk[c].at
      BY SavedTyped DEF OrderInv
    <3> QED
      BY <3>2, <3>3
  <2>3. CASE UNCHANGED disk
    <3>1. \A c \in Convs : Saved(c) => disk[c].at <= disk[c].at
      BY SavedTyped DEF OrderInv
    <3> QED
      BY <2>3, <3>1
  <2>4. Lands \/ (\E c \in Convs : DeleteConversation(c)) \/ UNCHANGED disk
    BY DEF Next, WriteFails, TimerFires, Begins, Posts, TurnEnds, PostShellRecord, ChangeRoster,
           Operations, SwitchConversation, NewConversation, RenameConversation, ApplyPreset,
           RollbackTo, Proceeds, Leaves, Enters, IsReset, FallsBack, Renames, RolledBack,
           ShutsDown, Seals, DisposeAll, Restart
  <2> QED
    BY <2>1, <2>2, <2>3, <2>4
<1> QED
  BY <1>1, <1>2, <1>3, PTL DEF Spec, NoOlder
=============================================================================

----------------------------- MODULE ConfigView -----------------------------
(***************************************************************************)
(* ConfigManager: the active OTEL configuration of the selected device     *)
(* group, the configurations the group has had, and the deployment or      *)
(* activation of one.  A deployment goes on with the two fetches of the    *)
(* rendering it was started in, so that after another group was selected   *)
(* it shows the configuration of the old one.                              *)
(*                                                                         *)
(* Of that list only what can be activated is kept, what is not active.    *)
(* Contents stands for all fields of the form, the environment variables   *)
(* and the feature flags.  What the form holds is left out: it is loaded   *)
(* with the active configuration, but keeps the variables and flags of an  *)
(* earlier one when that has none, and can be edited at any time, so that  *)
(* any content may be deployed.  Left out are also the names of the groups *)
(* and the rollout panel, which are only shown.                            *)
(***************************************************************************)
EXTENDS PageCalls, Functions

CONSTANTS
  DeviceGroups,    \* groups of devices
  DefaultGroup,    \* the group the page starts with
  Contents,        \* configurations
  MaxConfigCalls,  \* calls under way (bound)
  MaxChanges,      \* deployments and activations under way (bound)
  MaxMade          \* configurations that are ever made (bound)

ASSUME DefaultAssumption == DefaultGroup \in DeviceGroups

VARIABLES
  config,   \* the page
  deployed, \* at the gateway, the active configuration of each group: a set of at most one
  made,     \* the configurations each group has had
  late      \* deployments and activations of a page that was left

serverVars == <<deployed, made, late>>

Reads == {"active", "saved"}

\* What the page shows: configurations, and the group they are of.
Listed(group, contents) == [group |-> group, contents |-> contents]
NoConfig == Listed(None, {})

\* A call of this page: chain is the handler that goes on with its answer, from the
\* group selected in the rendering it was sent from, content what is to be deployed
\* or activated, answer the set of the configurations the gateway answered.
ConfigCall(what, group, chain, content) ==
  [what |-> what, group |-> group, overtaken |-> FALSE, chain |-> chain,
   from |-> group, content |-> content, served |-> FALSE, answer |-> {}]

Fetch(view, what, group, chain) ==
  [view EXCEPT !.calls = Append(@, ConfigCall(what, group, chain, None)), !.fresh = @ \ {what}]

\* The effect of deviceGroup.
GroupEffect(view) == Fetch(Fetch(view, "active", view.group, None), "saved", view.group, None)

\* The page is opened.  Both of its effects ask for the configurations; the first
\* of the two calls, which has no effect of its own, is left out.
ConfigMounted ==
  GroupEffect([group |-> DefaultGroup, active |-> NoConfig, saved |-> NoConfig,
               loading |-> FALSE, calls |-> <<>>, fresh |-> {}])

ConfigRoom(n) == Len(config.calls) + n <= MaxConfigCalls

\* A deployment or activation may be sent.
ChangeRoom ==
  /\ ConfigRoom(1)
  /\ Cardinality(late) + Len(SelectSeq(config.calls, LAMBDA call : call.what \notin Reads)) < MaxChanges

MadeBy(g, content) ==
  content \in made[g] \/ FoldFunction(LAMBDA s, n : Cardinality(s) + n, 0, made) < MaxMade

ConfigSelect(g) ==
  /\ g # config.group /\ ConfigRoom(2)
  /\ config' = GroupEffect([config EXCEPT !.group = g])
  /\ UNCHANGED serverVars

ConfigReload ==
  /\ ConfigRoom(1)
  /\ config' = Fetch(config, "active", config.group, None)
  /\ UNCHANGED serverVars

\* handleDeploy, which the button refuses while one is under way.
Deploy(content) ==
  /\ ~config.loading /\ ChangeRoom /\ MadeBy(config.group, content)
  /\ config' = [config EXCEPT !.loading = TRUE,
                  !.calls = Append(@, ConfigCall("deploy", config.group, "deploy", content))]
  /\ UNCHANGED serverVars

\* handleActivateConfig, for a configuration of the list.
Activate(content) ==
  /\ content \in config.saved.contents /\ ChangeRoom
  /\ config' = [config EXCEPT
                  !.calls = Append(@, [ConfigCall("activate", config.saved.group, "activate", content)
                                         EXCEPT !.from = config.group])]
  /\ UNCHANGED serverVars

-----------------------------------------------------------------------------
\* The gateway serves the calls.

\* A deployment or an activation takes effect: what was read before is stale.
Written(call) ==
  /\ deployed' = [deployed EXCEPT ![call.group] = {call.content}]
  /\ made' = [made EXCEPT ![call.group] = @ \cup {call.content}]

Outdated(calls) ==
  [j \in DOMAIN calls |-> IF calls[j].what \in Reads /\ calls[j].served
                          THEN [calls[j] EXCEPT !.overtaken = TRUE] ELSE calls[j]]

ServeRead(i) ==
  LET call == config.calls[i] IN
  /\ call.what \in Reads /\ ~call.served
  /\ config' = [config EXCEPT !.calls[i].served = TRUE,
                  !.calls[i].answer = IF call.what = "active" THEN deployed[call.group]
                                      ELSE made[call.group] \ deployed[call.group]]
  /\ UNCHANGED serverVars

ServeWrite(i) ==
  LET call == config.calls[i] IN
  /\ call.what \notin Reads /\ ~call.served
  /\ Written(call)
  /\ config' = [config EXCEPT !.calls = Outdated([@ EXCEPT ![i].served = TRUE]), !.fresh = {}]
  /\ UNCHANGED late

\* A call of a page that was left takes effect only now.
ServeLate(call) ==
  /\ Written(call)
  /\ late' = late \ {call}
  /\ config' = [config EXCEPT !.calls = Outdated(@), !.fresh = {}]

-----------------------------------------------------------------------------
\* The page goes on with the answers.

\* The answer is the newest there is for the group that is selected now.
Newest(i) == InTurn(config.calls, i) /\ config.calls[i].group = config.group

Freshened(i) ==
  IF Newest(i) THEN config.fresh \cup {config.calls[i].what}
  ELSE config.fresh \ {config.calls[i].what}

\* After the fetch of the active configuration a chain asks for the others.
GoOn(view, i) ==
  IF config.calls[i].chain = None THEN view
  ELSE Fetch(view, "saved", config.calls[i].group, config.calls[i].chain)

\* Mutation: without an active configuration the one shown stays.
ShowActiveIfAny(i) ==
  LET call == config.calls[i]
      view == [config EXCEPT !.calls = Answered(@, i), !.fresh = Freshened(i)]
  IN  config' = GoOn(IF call.answer = {} THEN view
                     ELSE [view EXCEPT !.active = Listed(call.group, call.answer)], i)

\* fetchActiveConfig.
ShowActive(i) ==
  LET call == config.calls[i]
      view == [config EXCEPT !.calls = Answered(@, i), !.fresh = Freshened(i)]
      active == IF call.answer = {} THEN NoConfig ELSE Listed(call.group, call.answer)
  IN  config' = GoOn([view EXCEPT !.active = active], i)

\* A deployment ends with the answer to the last of its calls.
Done(view, call) == IF call.chain = "deploy" THEN [view EXCEPT !.loading = FALSE] ELSE view

ShowSaved(i) ==
  LET call == config.calls[i] IN
  config' = Done([config EXCEPT !.calls = Answered(@, i), !.fresh = Freshened(i),
                    !.saved = Listed(call.group, call.answer)], call)

\* createOTELConfig or activateOTELConfig has succeeded.
Refresh(i) ==
  LET call == config.calls[i] IN
  config' = Fetch([config EXCEPT !.calls = Answered(@, i)], "active", call.from, call.chain)

\* A call fails, before or after it took effect.
CallFails(i) ==
  LET call == config.calls[i]
      view == [config EXCEPT !.calls = Answered(@, i), !.fresh = @ \ {call.what}]
  IN  config' = IF call.what = "active" THEN GoOn([view EXCEPT !.active = NoConfig], i) ELSE Done(view, call)

ConfigAnswer(i) ==
  /\ LET call == config.calls[i] IN
     \/ call.served /\ call.what = "active" /\ ShowActive(i)
     \/ call.served /\ call.what = "saved" /\ ShowSaved(i)
     \/ call.served /\ call.what \notin Reads /\ Refresh(i)
     \/ CallFails(i)
  /\ UNCHANGED serverVars

ConfigNext ==
  \/ \E g \in DeviceGroups : ConfigSelect(g)
  \/ \E c \in Contents : Deploy(c) \/ Activate(c)
  \/ ConfigReload
  \/ \E i \in DOMAIN config.calls : ServeRead(i) \/ ServeWrite(i) \/ ConfigAnswer(i)
  \/ \E call \in late : ServeLate(call)
=============================================================================

--------------------------- MODULE CollectorView ---------------------------
(***************************************************************************)
(* CollectorConfig: the endpoints the apps may send their telemetry to,    *)
(* one of them selected, and the credentials for those of Dash0.  Saving   *)
(* puts headers made of the credentials into the saved Dash0 endpoints,    *)
(* not into those of the form, which have headers only once they have been *)
(* loaded from the browser's storage.                                      *)
(*                                                                         *)
(* Of an endpoint its name counts only as far as it begins with Dash0; the *)
(* address and the protocol are copied along and left out.  A credential   *)
(* stands for the token and the dataset together.                          *)
(***************************************************************************)
EXTENDS Naturals, Sequences, SequencesExt, FiniteSets

CONSTANTS
  Tokens,      \* credentials
  Renamed,     \* the places of endpoints that may be renamed (bound)
  MaxEndpoints \* endpoints in the form (bound)

VARIABLES
  collector, \* the form
  storage    \* collector_config in localStorage

NoToken == "no token"

Endpoint(dash0, enabled) == [dash0 |-> dash0, enabled |-> enabled, headers |-> NoToken]

\* Dash0 US and EU, a local collector, and one of one's own.
DefaultEndpoints ==
  <<Endpoint(TRUE, TRUE), Endpoint(TRUE, FALSE), Endpoint(FALSE, FALSE), Endpoint(FALSE, FALSE)>>

NothingSaved == [endpoints |-> <<>>, token |-> NoToken]

\* The form is opened: what was saved is loaded.
CollectorMounted ==
  IF storage = NothingSaved THEN [endpoints |-> DefaultEndpoints, token |-> NoToken] ELSE storage

TypeToken(token) == collector' = [collector EXCEPT !.token = token] /\ UNCHANGED storage

\* The radio buttons share a name: the others are switched off.
Choose(i) ==
  /\ collector' = [collector EXCEPT !.endpoints =
                     [j \in DOMAIN @ |-> [@[j] EXCEPT !.enabled = (i = j)]]]
  /\ UNCHANGED storage

\* The name is changed so that it begins with Dash0, or no longer does.
Rename(i) ==
  /\ i \in Renamed
  /\ collector' = [collector EXCEPT !.endpoints[i].dash0 = ~@]
  /\ UNCHANGED storage

AddEndpoint ==
  /\ Len(collector.endpoints) < MaxEndpoints
  /\ collector' = [collector EXCEPT !.endpoints = Append(@, Endpoint(FALSE, FALSE))]
  /\ UNCHANGED storage

\* Only endpoints after the first three, and none of Dash0, have the button.
RemoveEndpoint(i) ==
  /\ i > 3 /\ ~collector.endpoints[i].dash0
  /\ collector' = [collector EXCEPT !.endpoints = RemoveAt(@, i)]
  /\ UNCHANGED storage

\* Mutation: headers an endpoint has already are kept.
WithMissingHeaders(endpoint) ==
  IF endpoint.dash0 /\ collector.token # NoToken /\ endpoint.headers = NoToken
  THEN [endpoint EXCEPT !.headers = collector.token] ELSE endpoint

\* Without credentials an endpoint keeps the headers it was loaded with.
WithHeaders(endpoint) ==
  IF endpoint.dash0 /\ collector.token # NoToken
  THEN [endpoint EXCEPT !.headers = collector.token] ELSE endpoint

\* handleSave.
Save ==
  /\ storage' = [endpoints |-> [i \in DOMAIN collector.endpoints |-> WithHeaders(collector.endpoints[i])],
                 token |-> collector.token]
  /\ UNCHANGED collector

\* exportConfig, which changes nothing: the headers of the first active endpoint,
\* if there is one.
Exported ==
  LET active == SelectSeq(collector.endpoints, LAMBDA e : e.enabled)
  IN  IF active = <<>> THEN {} ELSE {Head(active).headers}

CollectorNext ==
  \/ \E token \in Tokens \cup {NoToken} : TypeToken(token)
  \/ \E i \in DOMAIN collector.endpoints : Choose(i) \/ Rename(i) \/ RemoveEndpoint(i)
  \/ AddEndpoint \/ Save
=============================================================================

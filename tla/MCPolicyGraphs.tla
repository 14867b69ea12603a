--------------------------- MODULE MCPolicyGraphs ---------------------------
(* Nested gates over narrowed conditions, a gate beside plain triggers, two   *)
(* states with a timeout, a graph whose nodes only v2 or no compiler knows,   *)
(* two states of one name, and a state as it comes from the palette.          *)
EXTENDS PolicyMeaning

Node(id, type) == [id |-> id, type |-> type, name |-> "", flag |-> FALSE]
State(id, first) == [id |-> id, type |-> "state", name |-> id, flag |-> first]

Palette(nodes, gone) == [nodes |-> nodes, gone |-> gone]

MCPalettes ==
  { Palette(<<Node("g", "all"), Node("h", "any"),
              [Node("r", "http_error_match") EXCEPT !.flag = TRUE],
              [Node("e", "event_match") EXCEPT !.flag = TRUE]>>, {}),
    Palette(<<Node("h", "any"), Node("r", "http_error_match"), Node("e", "event_match"),
              Node("f", "flush_window")>>, {}),
    Palette(<<Node("t", "timeout_matcher"), State("s1", TRUE), State("s2", FALSE),
              Node("f", "flush_window")>>, {"gone"}),
    Palette(<<Node("c", "crash_marker"), Node("a", "send_alert"), Node("f", "flush_window"),
              Node("x", "cohort_static")>>, {}),
    Palette(<<State("s", TRUE), [State("u", FALSE) EXCEPT !.name = "s"],
              Node("e", "event_match")>>, {}),
    Palette(<<Node("e", "event_match"), State("idle", FALSE)>>, {"gone"}) }
=============================================================================

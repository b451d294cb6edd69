---------------------------- MODULE MCAlertEngine ----------------------------
(* Two rules, in three ways of filling their rows: between them every kind *)
(* of condition, every channel, and the rows the engine cannot use.        *)
EXTENDS AlertEngine

CONSTANTS r1, r2

Row(kind, channel) ==
    [kind |-> kind, targeted |-> TRUE, channel |-> channel, parses |-> TRUE]

MCConfigs == {
    r1 :> Row("probe_down", "email")
        @@ r2 :> [Row("cpu_high", "slack") EXCEPT !.parses = FALSE],
    r1 :> Row("cpu_high", "slack") @@ r2 :> Row("memory_high", "discord"),
    r1 :> Row("probe_slow", "telegram")
        @@ r2 :> [Row("probe_down", "email") EXCEPT !.targeted = FALSE]}

MCRules == {r1, r2}
MCValues == {0, 3}

==============================================================================

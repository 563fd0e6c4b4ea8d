------------------------- MODULE MCSchedulerConfig -------------------------
(***************************************************************************)
(* Instances of SchedulerConfig for TLC.                                   *)
(***************************************************************************)
EXTENDS SchedulerConfig

Row(interval, hours, provider, key) ==
  [f \in Fields |-> CASE f = "scheduler_interval_hours" -> interval
                      [] f = "max_weekly_hours" -> hours
                      [] f = "llm_provider" -> provider
                      [] OTHER -> key]

MCBootstrap == Row(2, 40, "GROQ", Null)
MCDefaults == Row(4, 40, "GEMINI", Null)

MCPatches ==
  { <<"scheduler_interval_hours", 1>>, <<"scheduler_interval_hours", 2>>,
    <<"scheduler_interval_hours", 0>>, <<"max_weekly_hours", 30>>,
    <<"max_weekly_hours", 169>>, <<"llm_api_key", "k">> }
=============================================================================

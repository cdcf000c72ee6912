------------------------ MODULE MCLangGraphWorkflow ------------------------
(* LangGraphWorkflow on a small instance: an intent of each branch.         *)
EXTENDS LangGraphWorkflow

CONSTANTS r1, r2

MCIntents == {"create_digital_twin", "query_telemetry", "unknown"}

============================================================================

--------------------------- MODULE MCGuardianScan ---------------------------
(* GuardianScan with values for TLC: small limits, and messages that       *)
(* between them violate every check.                                       *)
EXTENDS GuardianScan

Plain == [from |-> "agent_1", marks |-> {}, ingests |-> FALSE, source |-> "agent_1",
          content |-> 1, size |-> 1, tool |-> "", target |-> "", admin |-> FALSE,
          writesDb |-> FALSE, opensVault |-> FALSE, crossesTenant |-> FALSE, success |-> TRUE,
          signature |-> "right", channel |-> "", sender |-> "", complete |-> TRUE,
          sealed |-> TRUE, flagged |-> FALSE]

MCMessages ==
  {Plain,
   [Plain EXCEPT !.success = FALSE, !.tool = "agent_3", !.size = 2],
   [Plain EXCEPT !.from = "agent_2", !.success = FALSE, !.ingests = TRUE,
                 !.source = "agent_2", !.target = "agent_3_in"],
   [Plain EXCEPT !.from = "agent_2", !.marks = {"role", "tease", "hidden"}, !.channel = "agent_3_in",
                 !.sender = "agent_2", !.sealed = FALSE],
   [Plain EXCEPT !.from = "agent_4", !.marks = {"role"}, !.channel = "agent_3_in",
                 !.sender = "agent_4", !.flagged = TRUE, !.writesDb = TRUE],
   [Plain EXCEPT !.from = "stranger", !.ingests = TRUE, !.source = "stranger", !.content = 2,
                 !.size = 3, !.marks = {"format", "external", "blob"}, !.signature = "none"]}
\* Messages whose checks do not depend on what came before.
MCRare ==
  {[Plain EXCEPT !.admin = TRUE, !.opensVault = TRUE, !.crossesTenant = TRUE, !.target = "agent_3_in"],
   [Plain EXCEPT !.from = "agent_4", !.signature = "wrong", !.marks = {"secret", "override"},
                 !.sender = "agent_4", !.complete = FALSE]}
MCAll == MCMessages \cup MCRare
=============================================================================

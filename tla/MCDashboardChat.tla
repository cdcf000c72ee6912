--------------------------- MODULE MCDashboardChat ---------------------------
(* DashboardChat with values for TLC. *)
EXTENDS DashboardChat, TLC

Symmetry == Permutations(Chats) \cup Permutations(Polls)
=============================================================================

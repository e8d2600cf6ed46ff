----------------------------- MODULE MCMcpServer -----------------------------
(***************************************************************************)
(* McpServer for TLC, and the configuration the server starts from, whose  *)
(* property is about operators only and evaluated in the initial state.    *)
(***************************************************************************)
EXTENDS McpServer, TLC

C == INSTANCE Config

\* Workers are interchangeable; no liveness is checked with this symmetry.
WorkerSymmetry == Permutations(Workers)

\* config.Load lays the YAML file, the environment and the flags over one
\* another in the order the README gives.
Precedence == Init => C!Precedence
=============================================================================

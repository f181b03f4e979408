--------------------------- MODULE MCAgentRuntime ---------------------------
(* AgentRuntime for TLC. *)
EXTENDS AgentRuntime

\* A failure the policy retries, one it stops on, and one that the guard
\* alone calls terminal.
AgentFailures == {"kpatch_constraint", "compile_failed", "build_env_missing"}

RetryOnly == {"kpatch_constraint"}

=============================================================================

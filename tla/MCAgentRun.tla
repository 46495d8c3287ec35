------------------------------ MODULE MCAgentRun ------------------------------
\* Instances of AgentRun for TLC: the batches a model may ask for.
EXTENDS AgentRun, TLC

\* No call, a parallel-safe batch larger than the semaphore, and a serial one.
Plans == {<<>>, <<"read", "read">>, <<"read", "bash">>}
Safe == {"read"}
==============================================================================

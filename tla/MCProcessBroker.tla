--------------------------- MODULE MCProcessBroker ---------------------------
(* One execution or one duplex session of a broker and its close().       *)
EXTENDS ProcessBroker
CONSTANTS execution, session
MCExecutions == {execution}
MCSessions == {session}
MCWorkloads == {{execution}, {session}}
=============================================================================

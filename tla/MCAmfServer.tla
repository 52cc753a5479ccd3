------------------------------ MODULE MCAmfServer ------------------------------
(***************************************************************************)
(* AmfServer for TLC: every backend, with and without TLS and timeout.     *)
(***************************************************************************)
EXTENDS AmfServer

Plain(backend) == [backend |-> backend, tls |-> FALSE, timeout |-> TRUE]

AllConfigs ==
  {Plain("sctp"), Plain("sctp-kernel"), Plain("quic")}
    \cup [backend : {"sctp", "sctp-kernel"}, tls : {TRUE}, timeout : BOOLEAN]
===============================================================================

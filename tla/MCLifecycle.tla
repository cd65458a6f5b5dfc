---------------------------- MODULE MCLifecycle -----------------------------
(* Two servers, a driver that may fail to start and its fallback.            *)
EXTENDS Lifecycle
TwoDrivers == <<"epoll", "select">>
SomeProtocols == {{"chat"}}
=============================================================================

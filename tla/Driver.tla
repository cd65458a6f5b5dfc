------------------------------- MODULE Driver -------------------------------
(***************************************************************************)
(* What the server expects of its I/O driver (struct websocket_driver in   *)
(* php_websocket.h): wait() reports a descriptor for which a condition the *)
(* server asked for holds, and it times out only when there is none.  An   *)
(* edge-triggered driver may also time out on a condition it has already   *)
(* reported.                                                               *)
(***************************************************************************)
EXTENDS Naturals

CONSTANT Fds         \* descriptors: positive numbers

Events == {"read", "write"}

\* Output is never watched alone.
Masks == {{}, {"read"}, Events}

VARIABLES
  edge,              \* the driver is edge-triggered
  interest,          \* per descriptor: the conditions the server asked for
  cond,              \* per descriptor: the conditions that hold in the kernel
  report             \* what the last wait() returned: a descriptor, or 0

vars == <<edge, interest, cond, report>>

Init ==
  /\ edge \in BOOLEAN
  /\ interest \in [Fds -> Masks]
  /\ cond \in [Fds -> SUBSET Events]
  /\ report = 0

\* The server or the peers do something: no report changes by it.
Changes ==
  /\ interest' \in [Fds -> Masks]
  /\ cond' \in [Fds -> SUBSET Events]
  /\ UNCHANGED <<edge, report>>

Ready == {fd \in Fds : interest[fd] \cap cond[fd] # {}}

Waits ==
  /\ report' \in Ready \cup (IF Ready = {} \/ edge THEN {0} ELSE {})
  /\ UNCHANGED <<edge, interest, cond>>

Next == Changes \/ Waits

Spec == Init /\ [][Next]_vars
=============================================================================

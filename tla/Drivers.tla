------------------------------ MODULE Drivers -------------------------------
(***************************************************************************)
(* The four I/O drivers (drivers/epoll.c, poll.c, select.c, kqueue.c).     *)
(* poll and select keep an array of descriptors and report the first ready *)
(* one; epoll and kqueue keep their table in the kernel, where its order   *)
(* means nothing.  kqueue reports activations (EV_CLEAR), the others       *)
(* report conditions.  Module DriverLoop makes the calls.                  *)
(***************************************************************************)
EXTENDS Naturals, Sequences, SequencesExt

CONSTANT NumFds  \* bound: descriptors

ASSUME DriversAssumption == NumFds \in Nat \ {0}

Kinds == {"epoll", "poll", "select", "kqueue"}

VARIABLES
  config,  \* what does not change: kind (the driver), fdSetSize, and the loop's options
  table,   \* poll_fds, select_fds, or the kernel's list: [fd, events]
  cond,    \* per descriptor: the conditions that hold in the kernel
  active,  \* kqueue: the activated <<descriptor, filter>> pairs
  report   \* what the last wait() returned: a descriptor, or 0

driverVars == <<config, table, cond, active, report>>

Fds == 1..NumFds
Filters == {"read", "write"}
kind == config.kind

-----------------------------------------------------------------------------
(* The table. *)

Index(t, fd) == SelectInSeq(t, LAMBDA e : e.fd = fd)
Events(t, fd) == IF Index(t, fd) = 0 THEN {} ELSE t[Index(t, fd)].events

\* An entry is changed, or appended.
Put(t, fd, events) ==
  IF Index(t, fd) = 0 THEN Append(t, [fd |-> fd, events |-> events])
  ELSE [t EXCEPT ![Index(t, fd)].events = events]

\* FD_SETSIZE: select() cannot watch a descriptor that is not below it.
CanWatch(fd) == kind = "select" => fd < config.fdSetSize

\* epoll sets the whole mask of a descriptor, the others add to it.
WatchRead(t, fd) ==
  Put(t, fd, IF kind = "epoll" THEN {"read"} ELSE Events(t, fd) \cup {"read"})

WatchWrite(t, fd) ==
  Put(t, fd, IF kind = "epoll" THEN {"read", "write"} ELSE Events(t, fd) \cup {"write"})

\* Mutant: the last entry of the array is dropped without moving the others.
RemoveLast(t, fd) == IF Index(t, fd) = 0 THEN t ELSE Front(t)

\* remove_fd_at(): the entries behind move up.
Unwatch(t, fd) == IF Index(t, fd) = 0 THEN t ELSE RemoveAt(t, Index(t, fd))

\* An entry without events leaves the array; epoll only resets its mask.
UnwatchWrite(t, fd) ==
  IF Index(t, fd) = 0 THEN t
  ELSE IF kind = "epoll" THEN Put(t, fd, {"read"})
  ELSE IF Events(t, fd) \subseteq {"write"} THEN Unwatch(t, fd)
  ELSE Put(t, fd, Events(t, fd) \ {"write"})

-----------------------------------------------------------------------------
(* The kernel. *)

\* The watched conditions that hold.
Holding(t, k, fd) == Events(t, fd) \cap k[fd]

\* What kqueue remembers after a call and a change of conditions: activations of
\* filters that are gone go, a filter added to a holding condition is active,
\* and so is one for which something new arrived.
Activated(t, k, arrived) ==
  IF kind # "kqueue" THEN {}
  ELSE {a \in Fds \X Filters :
          /\ a[2] \in Events(t, a[1])
          /\ \/ a \in active
             \/ a \in arrived
             \/ a[2] \notin Events(table, a[1]) /\ a[2] \in k[a[1]]}

\* What wait() may return.
Reportable ==
  LET ready == {i \in DOMAIN table : Holding(table, cond, table[i].fd) # {}}
  IN  CASE kind = "epoll" -> {table[i].fd : i \in ready}
        [] kind \in {"poll", "select"} ->
             {table[i].fd : i \in {j \in ready : \A k \in ready : j <= k}}
        [] kind = "kqueue" -> {a[1] : a \in {b \in active : b[2] \in cond[b[1]]}}

\* kevent() clears the activation it reports.
Cleared(fd) ==
  {active \ {a} : a \in {b \in active : b[1] = fd /\ b[2] \in cond[fd]}}
    \cup (IF kind = "kqueue" THEN {} ELSE {active})

WaitReports(fd) ==
  /\ fd \in Reportable
  /\ report' = fd
  /\ active' \in Cleared(fd)
  /\ UNCHANGED <<config, table, cond>>

WaitTimesOut ==
  /\ Reportable = {} /\ table # <<>>
  /\ report' = 0
  /\ UNCHANGED <<config, table, cond, active>>
=============================================================================

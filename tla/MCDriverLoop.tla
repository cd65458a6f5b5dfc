---------------------------- MODULE MCDriverLoop ----------------------------
EXTENDS DriverLoop

Config(k, size, conns, chatty, supply) ==
  [kind |-> k, fdSetSize |-> size, maxConnections |-> conns, chatty |-> chatty,
   supply |-> supply]

\* Descriptor 1 is the listener.  A limit of 3 lets descriptors run out, a limit
\* of 1 has connections rejected while one is left, and the second connection of
\* select is one too many for fd_set.  Peers that come to rest and peers, or a
\* backlog, that never do.
AllDrivers ==
  {Config("poll", 4, 2, {2}, <<2, 0, 2>>), Config("poll", 4, 1, {1}, <<0, 1, 1>>),
   Config("select", 4, 2, {}, <<2, 2, 2>>), Config("select", 4, 3, {}, <<3, 2, 0>>),
   Config("select", 3, 2, {}, <<2, 1, 0>>),
   Config("epoll", 4, 2, {2}, <<2, 0, 2>>), Config("epoll", 4, 3, {1, 2}, <<0, 0, 0>>),
   Config("kqueue", 4, 3, {}, <<3, 2, 0>>), Config("kqueue", 4, 1, {2}, <<3, 0, 0>>)}
=============================================================================

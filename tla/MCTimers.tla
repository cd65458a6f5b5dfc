------------------------------ MODULE MCTimers ------------------------------
(* The timers with timeouts of a few turns of the loop.                      *)
EXTENDS Timers

Usual == [handshake |-> 2, idle |-> 4, ping |-> 1, pong |-> 2]
\* The values the code replaces by its defaults.
Unset == [handshake |-> 0, idle |-> -1, ping |-> -1, pong |-> 0]
\* An idle timeout that ends before a pong may come.
Hasty == [handshake |-> 2, idle |-> 2, ping |-> 1, pong |-> 2]
UsualDefaults == [handshake |-> 2, idle |-> 3, ping |-> 0, pong |-> 1]

Setup(options, monotonic, time, conns, units) ==
  [options |-> options, monotonic |-> monotonic, callback_time |-> time,
   conns |-> conns, units |-> units]

\* Two peers and callbacks that take no time, callbacks that take a turn of the
\* loop, one peer while the wall clock is set back, and one of a hasty server.
AllSetups == {Setup(Usual, TRUE, 0, 2, 3), Setup(Usual, TRUE, 1, 2, 2),
              Setup(Unset, FALSE, 1, 1, 3), Setup(Hasty, FALSE, 0, 1, 3)}
\* Callbacks as long as the pong timeout.
SlowCallbacks == {Setup(Usual, TRUE, 2, 2, 3)}
=============================================================================

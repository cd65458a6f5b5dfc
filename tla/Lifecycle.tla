----------------------------- MODULE Lifecycle ------------------------------
(***************************************************************************)
(* Server objects and the module's globals (websocket_server.c, websocket.c*)
(* and the frame of websocket_server_runtime_run()): what the script, the  *)
(* callbacks and PHP itself may do to servers before, during and after     *)
(* run(), over several requests of one process.  The loop's turns are      *)
(* module Server; here a turn is a callback or nothing.                    *)
(***************************************************************************)
EXTENDS Naturals, Sequences, Functions

CONSTANTS
  Servers,    \* server objects
  Built,      \* the drivers compiled in, best first
  Addresses,  \* how many addresses getaddrinfo() returns, at most
  Protocols,  \* lists of subprotocols the script gives
  MaxRuns,    \* bound: calls of run() that start
  MaxRequests \* bound: requests

ASSUME LifecycleAssumption ==
  /\ Built \in Seq({"epoll", "kqueue", "poll", "select"}) /\ Built # <<>>
  /\ Addresses \in Nat /\ MaxRuns \in Nat /\ MaxRequests \in Nat

VARIABLES
  driver, running, stopped,  \* WEBSOCKET_G()
  servers,    \* the fields of the objects
  watched,    \* servers whose listener is in the driver's table
  phase,      \* who runs: the script, a callback, or a point of run()
  active,     \* the server whose run() is on the stack
  left,       \* addresses create_listener() has not tried
  peer,       \* the active server has an upgraded connection
  exception,  \* EG(exception)
  runs, requests

lifeVars == <<driver, running, stopped, servers, watched, phase, active, left, peer, exception, runs, requests>>

None == "none"

\* create_object(), before the constructor and before listen().
Fresh == [made |-> FALSE, listening |-> FALSE, running |-> FALSE, listener |-> FALSE,
          subprotocols |-> {}, on_error |-> FALSE]

\* GINIT and RINIT.
Init ==
  /\ driver = None /\ running = FALSE /\ stopped = FALSE
  /\ servers = [s \in Servers |-> Fresh] /\ watched = {}
  /\ phase = "script" /\ active = None /\ left = 0
  /\ peer = FALSE /\ exception = FALSE
  /\ runs = 0 /\ requests = 1

-----------------------------------------------------------------------------
(* What PHP code may call, from the script, a callback or, after a fatal   *)
(* error, a shutdown function.                                             *)

Php == phase \in {"script", "callback", "onclose", "shutdown"}
Calls(s) == Php /\ servers[s].made
Global == <<driver, running, stopped>>
Frame == <<watched, phase, active, left, peer, exception, runs, requests>>

Construct(s) ==
  /\ Php /\ ~servers[s].made
  /\ servers' = [servers EXCEPT ![s] = [Fresh EXCEPT !.made = TRUE]]
  /\ UNCHANGED <<Global, Frame>>

\* listen() only stores the address: run() binds it.
Listen(s) ==
  /\ Calls(s) /\ servers' = [servers EXCEPT ![s].listening = TRUE]
  /\ UNCHANGED <<Global, Frame>>

\* onError(); the other handlers are registered the same way.  The loop calls
\* the others (module Server) and never this one.
OnError(s) ==
  /\ Calls(s) /\ servers' = [servers EXCEPT ![s].on_error = TRUE]
  /\ UNCHANGED <<Global, Frame>>

\* subprotocols() with a valid list; it throws while the server runs.
Subprotocols(s) ==
  /\ Calls(s) /\ ~servers[s].running
  /\ \E p \in Protocols : servers' = [servers EXCEPT ![s].subprotocols = p]
  /\ UNCHANGED <<Global, Frame>>

Stop(s) ==
  /\ Calls(s)
  /\ servers' = [servers EXCEPT ![s].running = FALSE] /\ stopped' = TRUE
  /\ UNCHANGED <<driver, running, Frame>>

\* select_best_driver(): the first whose init() succeeds; None if none does.
SelectBestDriver(usable) ==
  LET good == {i \in DOMAIN Built : Built[i] \in usable}
  IN  IF good = {} THEN None ELSE Built[CHOOSE i \in good : \A j \in good : i <= j]

\* run() sets the flags and calls runtime_run().
Starts(s) ==
  /\ running' = TRUE /\ stopped' = FALSE
  /\ servers' = [servers EXCEPT ![s].running = TRUE]
  /\ active' = s /\ phase' = "listen" /\ left' \in 0..Addresses /\ runs' = runs + 1
  /\ UNCHANGED <<watched, peer, exception, requests>>

\* The driver of this request, or the choice of a new one.
ChoosesDriver ==
  \E usable \in SUBSET Range(Built) :
    driver' = IF driver # None THEN driver ELSE SelectBestDriver(usable)

\* Mutant: run() clears stopped before it looks whether a loop runs.
RunClearsStop(s) ==
  /\ Calls(s) /\ runs < MaxRuns /\ servers[s].listening
  /\ \/ ~running /\ ChoosesDriver /\ driver' # None /\ Starts(s)
     \/ running /\ stopped' = FALSE /\ UNCHANGED <<driver, running, servers, Frame>>

\* run() that starts; otherwise it throws and nothing changes.
Run(s) ==
  /\ Calls(s) /\ runs < MaxRuns /\ ~running /\ servers[s].listening
  /\ ChoosesDriver /\ driver' # None /\ Starts(s)

\* The last reference goes, and free_object() closes what is left; the server
\* whose run() is on the stack is referenced by it.
Destroy(s) ==
  /\ Calls(s) /\ s # active
  /\ watched' = IF driver # None THEN watched \ {s} ELSE watched
  /\ servers' = [servers EXCEPT ![s] = Fresh]
  /\ UNCHANGED <<Global, phase, active, left, peer, exception, runs, requests>>

\* A callback returns, or throws.
CallbackReturns ==
  /\ phase \in {"callback", "onclose"}
  /\ phase' = IF phase = "callback" THEN "loop" ELSE "returning"
  /\ UNCHANGED <<Global, servers, watched, active, left, peer, exception, runs, requests>>

CallbackThrows ==
  /\ phase \in {"callback", "onclose"}
  /\ exception' = TRUE /\ phase' = IF phase = "callback" THEN "closing" ELSE "returning"
  /\ UNCHANGED <<Global, servers, watched, active, left, peer, runs, requests>>

\* A fatal error in a callback unwinds run() without its last lines.
FatalError ==
  /\ phase \in {"callback", "onclose"}
  /\ phase' = "shutdown" /\ active' = None
  /\ UNCHANGED <<Global, servers, watched, left, peer, exception, runs, requests>>

-----------------------------------------------------------------------------
(* run(). *)

\* One address: socket(), bind() or listen() fails and its socket is closed; when
\* none is left, or getaddrinfo() found none, run() throws.
ListenerFails ==
  /\ phase = "listen"
  /\ IF left > 1 THEN left' = left - 1 /\ UNCHANGED <<phase, exception>>
     ELSE left' = 0 /\ phase' = "returning" /\ exception' = TRUE
  /\ UNCHANGED <<Global, servers, watched, active, peer, runs, requests>>

ListenerOpens ==
  /\ phase = "listen" /\ left > 0
  /\ servers' = [servers EXCEPT ![active].listener = TRUE]
  /\ left' = 0 /\ phase' = "watch"
  /\ UNCHANGED <<Global, watched, active, peer, exception, runs, requests>>

WatchListener ==
  /\ phase = "watch"
  /\ \/ watched' = watched \cup {active} /\ phase' = "loop" /\ UNCHANGED exception
     \/ exception' = TRUE /\ phase' = "closing" /\ UNCHANGED watched
  /\ UNCHANGED <<Global, servers, active, left, peer, runs, requests>>

Looping == phase = "loop" /\ servers[active].running /\ ~stopped

\* A turn upgrades or ends connections, or neither, and may call a callback.
LoopTurn ==
  /\ Looping
  /\ peer' \in BOOLEAN /\ phase' \in {"callback", "loop"}
  /\ UNCHANGED <<Global, servers, watched, active, left, exception, runs, requests>>

\* wait() fails and run() will throw, or a turn fails without an exception.
LoopFails ==
  /\ Looping
  /\ phase' = "closing" /\ exception' \in BOOLEAN
  /\ UNCHANGED <<Global, servers, watched, active, left, peer, runs, requests>>

LoopEnds ==
  /\ phase = "loop" /\ ~Looping
  /\ phase' = "closing"
  /\ UNCHANGED <<Global, servers, watched, active, left, peer, exception, runs, requests>>

\* Mutant: the listener is closed and stays in the driver's table.
CloseKeepsWatch ==
  /\ phase = "closing"
  /\ servers' = [servers EXCEPT ![active].listener = FALSE]
  /\ peer' = FALSE /\ phase' = IF peer /\ ~exception THEN "onclose" ELSE "returning"
  /\ UNCHANGED <<Global, watched, active, left, exception, runs, requests>>

\* runtime_close(): the listener first, then the connections with their on_close.
RuntimeClose ==
  /\ phase = "closing"
  /\ watched' = watched \ {active}
  /\ servers' = [servers EXCEPT ![active].listener = FALSE]
  /\ peer' = FALSE /\ phase' = IF peer /\ ~exception THEN "onclose" ELSE "returning"
  /\ UNCHANGED <<Global, active, left, exception, runs, requests>>

\* Mutant: with an exception the global flag is forgotten.
RunReturnsEarly ==
  /\ phase = "returning"
  /\ servers' = [servers EXCEPT ![active].running = FALSE] /\ running' = exception
  /\ phase' = "script" /\ active' = None /\ exception' = FALSE
  /\ UNCHANGED <<driver, stopped, watched, left, peer, runs, requests>>

\* The last lines of run(); the script catches what it throws.
RunReturns ==
  /\ phase = "returning"
  /\ servers' = [servers EXCEPT ![active].running = FALSE] /\ running' = FALSE
  /\ phase' = "script" /\ active' = None /\ exception' = FALSE
  /\ UNCHANGED <<driver, stopped, watched, left, peer, runs, requests>>

\* RSHUTDOWN shuts the driver down, the objects that are left are freed without
\* it, and RINIT begins the next request.
RequestEnds ==
  /\ phase \in {"script", "shutdown"} /\ requests < MaxRequests
  /\ driver' = None /\ watched' = {}
  /\ servers' = [s \in Servers |-> Fresh]
  /\ running' = FALSE /\ stopped' = FALSE /\ phase' = "script" /\ active' = None
  /\ peer' = FALSE /\ exception' = FALSE
  /\ requests' = requests + 1
  /\ UNCHANGED <<left, runs>>

User ==
  \/ \E s \in Servers : Construct(s) \/ Listen(s) \/ OnError(s) \/ Subprotocols(s) \/ Stop(s) \/ Run(s) \/ Destroy(s)
  \/ FatalError \/ RequestEnds

\* What run() does by itself, its callbacks included.
RunSteps ==
  \/ CallbackReturns \/ CallbackThrows
  \/ ListenerFails \/ ListenerOpens \/ WatchListener \/ LoopTurn \/ LoopFails \/ LoopEnds
  \/ RuntimeClose \/ RunReturns

Next == User \/ RunSteps

\* Callbacks return and the code of run() goes on.
Spec == Init /\ [][Next]_lifeVars /\ WF_lifeVars(RunSteps)

-----------------------------------------------------------------------------
Listening == {s \in Servers : servers[s].listener}

(***************************************************************************)
(* A listener is open, and in the driver's table, exactly while its        *)
(* server's loop runs: however run() ends, by stop(), an exception, a      *)
(* failing driver or a failing address, the script finds none open, no     *)
(* other server's calls take it away, and a request that died of a fatal   *)
(* error leaves none to the next one.                                      *)
(***************************************************************************)
ListenerFollowsLoop ==
  /\ phase \in {"loop", "callback"} => Listening = {active} /\ watched = {active}
  /\ phase \in {"script", "onclose", "returning", "listen"} => Listening = {} /\ watched = {}

(***************************************************************************)
(* run() is refused only while a loop runs: in the script neither the      *)
(* global flag nor the flag of any server is left over from an earlier run *)
(* or an earlier request.                                                  *)
(***************************************************************************)
RunIsPossible == phase = "script" => ~running /\ \A s \in Servers : ~servers[s].running

(***************************************************************************)
(* Once stop() was called on any server, the run() on the stack ends, or   *)
(* the request dies; no later call in a callback takes the request back.   *)
(***************************************************************************)
StopEndsRun == (stopped /\ active # None) ~> active = None
=============================================================================

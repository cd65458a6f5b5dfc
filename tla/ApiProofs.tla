----------------------------- MODULE ApiProofs ------------------------------
(***************************************************************************)
(* Proofs about what a script calls: the server objects (module            *)
(* Lifecycle), for any number of servers, calls, requests and drivers; the *)
(* UTF-8 validator (modules Utf8 and Texts), for every sequence of bytes;  *)
(* and the frame codec (module Codec), for every payload, key, flags and   *)
(* cut of the wire.                                                        *)
(***************************************************************************)
EXTENDS Lifecycle, Codec, Texts, SequenceFacts

-----------------------------------------------------------------------------
(* Server objects. *)

\* The points of run(), its callbacks included.
RunPhases == {"listen", "watch", "loop", "callback", "closing", "onclose", "returning"}

ServerType ==
  [made : BOOLEAN, listening : BOOLEAN, running : BOOLEAN, listener : BOOLEAN,
   subprotocols : Protocols \cup {{}}, on_error : BOOLEAN]

\* While run() is on the stack its server exists, the global flag is set and
\* no other server is marked as running; after a fatal error the flag stays, so
\* that a shutdown function cannot start a loop.
StackInv ==
  /\ servers \in [Servers -> ServerType]
  /\ phase \in RunPhases \cup {"script", "shutdown"}
  /\ phase = "script" => ~running /\ \A s \in Servers : ~servers[s].running
  /\ phase = "shutdown" => running
  /\ phase \in RunPhases =>
       /\ running /\ active \in Servers /\ servers[active].made
       /\ \A s \in Servers : s # active => ~servers[s].running

\* Who has a listener, and what of it the driver knows, at each point.
ListenerInv ==
  /\ phase \in {"script", "listen", "onclose", "returning"} => Listening = {} /\ watched = {}
  /\ phase = "watch" => Listening = {active} /\ watched = {}
  /\ phase \in {"loop", "callback"} => Listening = {active} /\ watched = {active}
  /\ phase = "closing" => Listening = {active} /\ watched \subseteq {active}

LifeInv == StackInv /\ ListenerInv

-----------------------------------------------------------------------------
\* A fresh process has no server and no loop.
LEMMA InitLifeInv == Init => LifeInv
<1> SUFFICES ASSUME Init PROVE LifeInv
  OBVIOUS
<1>1. Fresh \in ServerType /\ Fresh.listener = FALSE /\ Fresh.running = FALSE
  BY DEF Fresh, ServerType
<1>2. StackInv
  BY <1>1 DEF Init, StackInv, RunPhases
<1>3. ListenerInv
  BY <1>1 DEF Init, ListenerInv, Listening
<1> QED
  BY <1>2, <1>3 DEF LifeInv

\* A call of PHP code that changes server s only: neither its listener nor,
\* upwards, its running flag; and no server disappears while it runs.
LEMMA CallKeepsLifeInv ==
  ASSUME LifeInv, NEW s \in Servers, NEW r \in ServerType,
         servers' = [servers EXCEPT ![s] = r],
         r.running => servers[s].running,
         phase \in RunPhases /\ s = active => r.made,
         phase # "shutdown" => r.listener = servers[s].listener /\ watched' = watched,
         phase' = phase, active' = active, running' = running
  PROVE  LifeInv'
<1>1. servers' \in [Servers -> ServerType]
  BY DEF LifeInv, StackInv
<1>2. \A t \in Servers : /\ phase # "shutdown" => servers'[t].listener = servers[t].listener
                         /\ servers'[t].running => servers[t].running
                         /\ phase \in RunPhases /\ t = active /\ servers[t].made => servers'[t].made
  BY DEF LifeInv, StackInv
<1>3. phase # "shutdown" => Listening' = Listening
  BY <1>2 DEF Listening
<1>4. StackInv'
  BY <1>1, <1>2 DEF LifeInv, StackInv, RunPhases
<1>5. ListenerInv'
  BY <1>3 DEF LifeInv, ListenerInv
<1> QED
  BY <1>4, <1>5 DEF LifeInv

\* Every call of PHP code that does not start run().
LEMMA UserLifeInv ==
  ASSUME LifeInv, NEW s \in Servers,
         \/ Construct(s) \/ Listen(s) \/ OnError(s) \/ Subprotocols(s) \/ Stop(s) \/ Destroy(s)
  PROVE  LifeInv'
<1> DEFINE o == servers[s]
<1>1. o \in ServerType /\ servers \in [Servers -> ServerType]
  BY DEF LifeInv, StackInv
<1>2. phase \in RunPhases /\ s = active => o.made
  BY DEF LifeInv, StackInv
<1>3. phase # "shutdown" /\ (phase \in RunPhases => s # active) =>
        o.listener = FALSE /\ s \notin watched
  BY DEF LifeInv, StackInv, ListenerInv, Listening, RunPhases, ServerType
<1>4. Fresh \in ServerType /\ Fresh.listener = FALSE /\ Fresh.running = FALSE
  BY DEF Fresh, ServerType
<1>5. CASE Construct(s)
  <2> DEFINE r == [Fresh EXCEPT !.made = TRUE]
  <2>1. r \in ServerType /\ r.listener = FALSE /\ ~r.running /\ r.made
    BY <1>4 DEF Fresh, ServerType
  <2>2. phase \in RunPhases => s # active
    BY <1>2, <1>5 DEF Construct
  <2>3. /\ servers' = [servers EXCEPT ![s] = r]
        /\ phase' = phase /\ watched' = watched /\ active' = active /\ running' = running
    BY <1>5 DEF Construct, Global, Frame
  <2> HIDE DEF r
  <2> QED
    BY <1>3, <2>1, <2>2, <2>3, CallKeepsLifeInv
<1>6. CASE Listen(s)
  <2> DEFINE r == [o EXCEPT !.listening = TRUE]
  <2>1. r \in ServerType /\ r.listener = o.listener /\ r.running = o.running /\ r.made = o.made
    BY <1>1 DEF ServerType
  <2>2. /\ servers' = [servers EXCEPT ![s] = r]
        /\ phase' = phase /\ watched' = watched /\ active' = active /\ running' = running
    BY <1>6 DEF Listen, Global, Frame
  <2> HIDE DEF r
  <2> QED
    BY <1>2, <2>1, <2>2, CallKeepsLifeInv
<1>7. CASE OnError(s)
  <2> DEFINE r == [o EXCEPT !.on_error = TRUE]
  <2>1. r \in ServerType /\ r.listener = o.listener /\ r.running = o.running /\ r.made = o.made
    BY <1>1 DEF ServerType
  <2>2. /\ servers' = [servers EXCEPT ![s] = r]
        /\ phase' = phase /\ watched' = watched /\ active' = active /\ running' = running
    BY <1>7 DEF OnError, Global, Frame
  <2> HIDE DEF r
  <2> QED
    BY <1>2, <2>1, <2>2, CallKeepsLifeInv
<1>8. CASE Subprotocols(s)
  <2>1. PICK p \in Protocols : servers' = [servers EXCEPT ![s].subprotocols = p]
    BY <1>8 DEF Subprotocols
  <2> DEFINE r == [o EXCEPT !.subprotocols = p]
  <2>2. r \in ServerType /\ r.listener = o.listener /\ r.running = o.running /\ r.made = o.made
    BY <1>1 DEF ServerType
  <2>3. /\ servers' = [servers EXCEPT ![s] = r]
        /\ phase' = phase /\ watched' = watched /\ active' = active /\ running' = running
    BY <1>8, <2>1 DEF Subprotocols, Global, Frame
  <2> HIDE DEF r
  <2> QED
    BY <1>2, <2>2, <2>3, CallKeepsLifeInv
<1>9. CASE Stop(s)
  <2> DEFINE r == [o EXCEPT !.running = FALSE]
  <2>1. r \in ServerType /\ r.listener = o.listener /\ ~r.running /\ r.made = o.made
    BY <1>1 DEF ServerType
  <2>2. /\ servers' = [servers EXCEPT ![s] = r]
        /\ phase' = phase /\ watched' = watched /\ active' = active /\ running' = running
    BY <1>9 DEF Stop, Frame
  <2> HIDE DEF r
  <2> QED
    BY <1>2, <2>1, <2>2, CallKeepsLifeInv
<1>10. CASE Destroy(s)
  <2>1. /\ servers' = [servers EXCEPT ![s] = Fresh] /\ s # active
        /\ phase' = phase /\ active' = active /\ running' = running
        /\ watched' = IF driver # None THEN watched \ {s} ELSE watched
    BY <1>10 DEF Destroy, Global
  <2>2. phase # "shutdown" => watched' = watched
    BY <1>3, <2>1
  <2> QED
    BY <1>3, <1>4, <2>1, <2>2, CallKeepsLifeInv
<1> QED
  BY <1>5, <1>6, <1>7, <1>8, <1>9, <1>10

\* run() starts only from the script: the global flag keeps callbacks and
\* shutdown functions out.
LEMMA RunLifeInv ==
  ASSUME LifeInv, NEW s \in Servers, Run(s)
  PROVE  LifeInv'
<1>1. phase = "script"
  BY DEF LifeInv, StackInv, Run, Calls, Php, RunPhases
<1>2. /\ servers' = [servers EXCEPT ![s].running = TRUE] /\ servers[s].made
      /\ running' = TRUE /\ active' = s /\ phase' = "listen" /\ watched' = watched
  BY DEF Run, Starts, Calls
<1>3. servers' \in [Servers -> ServerType]
  BY <1>2 DEF LifeInv, StackInv, ServerType
<1>4. \A t \in Servers : /\ servers'[t].listener = servers[t].listener
                         /\ servers'[t].made = servers[t].made
                         /\ t # s => servers'[t] = servers[t]
  BY <1>2 DEF LifeInv, StackInv, ServerType
<1>5. Listening' = Listening
  BY <1>4 DEF Listening
<1>6. StackInv'
  BY <1>1, <1>2, <1>3, <1>4 DEF LifeInv, StackInv, RunPhases
<1>7. ListenerInv'
  BY <1>1, <1>2, <1>5 DEF LifeInv, ListenerInv
<1> QED
  BY <1>6, <1>7 DEF LifeInv

\* The steps of run() that leave the objects and the driver's table alone.
LEMMA TurnLifeInv ==
  ASSUME LifeInv, UNCHANGED <<servers, watched, active, running>>,
         phase \in RunPhases, phase' \in RunPhases,
         \/ phase' = phase
         \/ {phase, phase'} \subseteq {"listen", "onclose", "returning"}
         \/ {phase, phase'} \subseteq {"loop", "callback"}
         \/ phase \in {"watch", "loop", "callback"} /\ phase' = "closing"
  PROVE  LifeInv'
<1>1. Listening' = Listening
  BY DEF Listening
<1>2. StackInv'
  BY DEF LifeInv, StackInv, RunPhases
<1>3. ListenerInv'
  BY <1>1 DEF LifeInv, ListenerInv
<1> QED
  BY <1>2, <1>3 DEF LifeInv

\* The listener opens, is watched, and is closed with the loop.
LEMMA ListenerLifeInv ==
  ASSUME LifeInv, ListenerOpens \/ WatchListener \/ RuntimeClose
  PROVE  LifeInv'
<1>1. active \in Servers /\ running /\ servers[active].made /\ active' = active /\ running' = running
  BY DEF LifeInv, StackInv, ListenerOpens, WatchListener, RuntimeClose, RunPhases, Global
<1>2. CASE ListenerOpens
  <2>1. /\ servers' = [servers EXCEPT ![active].listener = TRUE]
        /\ phase = "listen" /\ phase' = "watch" /\ watched' = watched
    BY <1>2 DEF ListenerOpens
  <2>2. /\ servers' \in [Servers -> ServerType]
        /\ \A t \in Servers : /\ servers'[t].running = servers[t].running
                              /\ servers'[t].made = servers[t].made
                              /\ servers'[t].listener = IF t = active THEN TRUE ELSE servers[t].listener
    BY <1>1, <2>1 DEF LifeInv, StackInv, ServerType
  <2>3. Listening' = {active}
    BY <1>1, <2>1, <2>2 DEF LifeInv, ListenerInv, Listening
  <2>4. StackInv'
    BY <1>1, <2>1, <2>2 DEF LifeInv, StackInv, RunPhases
  <2>5. ListenerInv'
    BY <1>1, <2>1, <2>3 DEF LifeInv, ListenerInv
  <2> QED
    BY <2>4, <2>5 DEF LifeInv
<1>3. CASE WatchListener
  <2>1. /\ servers' = servers /\ phase = "watch"
        /\ \/ watched' = watched \cup {active} /\ phase' = "loop"
           \/ watched' = watched /\ phase' = "closing"
    BY <1>3 DEF WatchListener
  <2>2. Listening' = Listening
    BY <2>1 DEF Listening
  <2>3. StackInv'
    BY <1>1, <2>1 DEF LifeInv, StackInv, RunPhases
  <2>4. ListenerInv'
    BY <1>1, <2>1, <2>2 DEF LifeInv, ListenerInv
  <2> QED
    BY <2>3, <2>4 DEF LifeInv
<1>4. CASE RuntimeClose
  <2>1. /\ servers' = [servers EXCEPT ![active].listener = FALSE]
        /\ phase = "closing" /\ phase' \in {"onclose", "returning"} /\ watched' = watched \ {active}
    BY <1>4 DEF RuntimeClose
  <2>2. /\ servers' \in [Servers -> ServerType]
        /\ \A t \in Servers : /\ servers'[t].running = servers[t].running
                              /\ servers'[t].made = servers[t].made
                              /\ servers'[t].listener = IF t = active THEN FALSE ELSE servers[t].listener
    BY <1>1, <2>1 DEF LifeInv, StackInv, ServerType
  <2>3. Listening' = {} /\ watched' = {}
    BY <1>1, <2>1, <2>2 DEF LifeInv, ListenerInv, Listening
  <2>4. StackInv'
    BY <1>1, <2>1, <2>2 DEF LifeInv, StackInv, RunPhases
  <2>5. ListenerInv'
    BY <1>1, <2>1, <2>3 DEF LifeInv, ListenerInv
  <2> QED
    BY <2>4, <2>5 DEF LifeInv
<1> QED
  BY <1>2, <1>3, <1>4

\* The ends: run() returns, a fatal error unwinds it, the request is over.
LEMMA EndLifeInv ==
  ASSUME LifeInv, RunReturns \/ FatalError \/ RequestEnds
  PROVE  LifeInv'
<1>1. CASE RunReturns
  <2>1. /\ servers' = [servers EXCEPT ![active].running = FALSE] /\ running' = FALSE
        /\ phase = "returning" /\ phase' = "script" /\ watched' = watched
    BY <1>1 DEF RunReturns
  <2>2. active \in Servers /\ \A s \in Servers : s # active => ~servers[s].running
    BY <2>1 DEF LifeInv, StackInv, RunPhases
  <2>3. /\ servers' \in [Servers -> ServerType]
        /\ \A t \in Servers : /\ ~servers'[t].running
                              /\ servers'[t].listener = servers[t].listener
    BY <2>1, <2>2 DEF LifeInv, StackInv, ServerType
  <2>4. Listening' = Listening
    BY <2>3 DEF Listening
  <2>5. StackInv'
    BY <2>1, <2>3 DEF StackInv, RunPhases
  <2>6. ListenerInv'
    BY <2>1, <2>4 DEF LifeInv, ListenerInv
  <2> QED
    BY <2>5, <2>6 DEF LifeInv
<1>2. CASE FatalError
  <2>1. /\ servers' = servers /\ running' = running /\ phase' = "shutdown"
        /\ phase \in RunPhases
    BY <1>2 DEF FatalError, Global, RunPhases
  <2>2. StackInv'
    BY <2>1 DEF LifeInv, StackInv, RunPhases
  <2>3. ListenerInv'
    BY <2>1 DEF ListenerInv
  <2> QED
    BY <2>2, <2>3 DEF LifeInv
<1>3. CASE RequestEnds
  <2>1. /\ servers' = [s \in Servers |-> Fresh] /\ running' = FALSE
        /\ phase' = "script" /\ watched' = {}
    BY <1>3 DEF RequestEnds
  <2>2. Fresh \in ServerType /\ Fresh.listener = FALSE /\ Fresh.running = FALSE
    BY DEF Fresh, ServerType
  <2>3. Listening' = {}
    BY <2>1, <2>2 DEF Listening
  <2>4. StackInv'
    BY <2>1, <2>2 DEF StackInv, RunPhases
  <2>5. ListenerInv'
    BY <2>1, <2>3 DEF ListenerInv
  <2> QED
    BY <2>4, <2>5 DEF LifeInv
<1> QED
  BY <1>1, <1>2, <1>3

\* Every call and every step of the loop keeps the invariant.
LEMMA NextLifeInv == LifeInv /\ [Next]_lifeVars => LifeInv'
<1> SUFFICES ASSUME LifeInv, [Next]_lifeVars
             PROVE  LifeInv'
  OBVIOUS
<1>1. CASE \E s \in Servers : \/ Construct(s) \/ Listen(s) \/ OnError(s) \/ Subprotocols(s)
                              \/ Stop(s) \/ Destroy(s)
  BY <1>1, UserLifeInv
<1>2. CASE \E s \in Servers : Run(s)
  BY <1>2, RunLifeInv
<1>3. CASE CallbackReturns \/ CallbackThrows
  <2>1. UNCHANGED <<servers, watched, active, running>>
    BY <1>3 DEF CallbackReturns, CallbackThrows, Global
  <2>2. \/ phase = "callback" /\ phase' \in {"loop", "closing"}
        \/ phase = "onclose" /\ phase' = "returning"
    BY <1>3 DEF CallbackReturns, CallbackThrows
  <2> QED
    BY <2>1, <2>2, TurnLifeInv DEF RunPhases
<1>4. CASE ListenerFails
  <2>1. UNCHANGED <<servers, watched, active, running>>
    BY <1>4 DEF ListenerFails, Global
  <2>2. phase = "listen" /\ phase' \in {"listen", "returning"}
    BY <1>4 DEF ListenerFails
  <2> QED
    BY <2>1, <2>2, TurnLifeInv DEF RunPhases
<1>5. CASE LoopTurn \/ LoopFails \/ LoopEnds
  <2>1. UNCHANGED <<servers, watched, active, running>>
    BY <1>5 DEF LoopTurn, LoopFails, LoopEnds, Global
  <2>2. phase = "loop" /\ phase' \in {"loop", "callback", "closing"}
    BY <1>5 DEF LoopTurn, LoopFails, LoopEnds, Looping
  <2> QED
    BY <2>1, <2>2, TurnLifeInv DEF RunPhases
<1>6. CASE ListenerOpens \/ WatchListener \/ RuntimeClose
  BY <1>6, ListenerLifeInv
<1>7. CASE RunReturns \/ FatalError \/ RequestEnds
  BY <1>7, EndLifeInv
<1>8. CASE UNCHANGED lifeVars
  BY <1>8 DEF lifeVars, LifeInv, StackInv, ListenerInv, Listening
<1> QED
  BY <1>1, <1>2, <1>3, <1>4, <1>5, <1>6, <1>7, <1>8 DEF Next, User, RunSteps

-----------------------------------------------------------------------------
\* The invariant holds whatever the script and the callbacks call.
THEOREM LifeInvariance == Spec => []LifeInv
  BY InitLifeInv, NextLifeInv, PTL DEF Spec

\* A listener is open and watched exactly while its server's loop runs, however
\* run() of websocket_server.c ends and whatever is called meanwhile.
THEOREM ListenerLifetime == Spec => []ListenerFollowsLoop
<1>1. LifeInv => ListenerFollowsLoop
  BY DEF LifeInv, ListenerInv, ListenerFollowsLoop
<1> QED
  BY <1>1, LifeInvariance, PTL

\* The script can always call run() again: no flag is left set by an earlier run
\* or an earlier request.
THEOREM RunStaysPossible == Spec => []RunIsPossible
<1>1. LifeInv => RunIsPossible
  BY DEF LifeInv, StackInv, RunIsPossible
<1> QED
  BY <1>1, LifeInvariance, PTL

-----------------------------------------------------------------------------
(* UTF-8: one encoding at a time. *)

\* What the leading byte asks for.
LEMMA Tails ==
  ASSUME NEW c \in Byte
  PROVE  /\ c \in 0..127 => TailOf(c) = <<>>
         /\ c \in 194..223 => TailOf(c) = <<Continuations>>
         /\ c = 224 => TailOf(c) = <<160..191, Continuations>>
         /\ c \in (225..236) \cup (238..239) => TailOf(c) = <<Continuations, Continuations>>
         /\ c = 237 => TailOf(c) = <<128..159, Continuations>>
         /\ c = 240 => TailOf(c) = <<144..191, Continuations, Continuations>>
         /\ c \in 241..243 => TailOf(c) = <<Continuations, Continuations, Continuations>>
         /\ c = 244 => TailOf(c) = <<128..143, Continuations, Continuations>>
         /\ c \in (128..193) \cup (245..255) => TailOf(c) = <<{}>>
<1>1. c \in 0..127 => TailOf(c) = <<>>
  BY DEF TailOf, Byte
<1>2. c \in 194..223 => TailOf(c) = <<Continuations>>
  BY DEF TailOf, Byte
<1>3. c = 224 => TailOf(c) = <<160..191, Continuations>>
  BY DEF TailOf, Byte
<1>4. c \in (225..236) \cup (238..239) => TailOf(c) = <<Continuations, Continuations>>
  BY DEF TailOf, Byte
<1>5. c = 237 => TailOf(c) = <<128..159, Continuations>>
  BY DEF TailOf, Byte
<1>6. c = 240 => TailOf(c) = <<144..191, Continuations, Continuations>>
  BY DEF TailOf, Byte
<1>7. c \in 241..243 => TailOf(c) = <<Continuations, Continuations, Continuations>>
  BY DEF TailOf, Byte
<1>8. c = 244 => TailOf(c) = <<128..143, Continuations, Continuations>>
  BY DEF TailOf, Byte
<1>9. ASSUME c \in (128..193) \cup (245..255)
      PROVE  TailOf(c) = <<{}>>
  <2>1. /\ c \notin 0..127 /\ c \notin 194..223 /\ c # 224 /\ c # 237
        /\ c \notin (225..236) \cup (238..239) /\ c # 240 /\ c \notin 241..243 /\ c # 244
    BY <1>9, SMT
  <2> QED
    BY <2>1, Zenon DEF TailOf
<1> QED
  BY <1>1, <1>2, <1>3, <1>4, <1>5, <1>6, <1>7, <1>8, <1>9

\* A continuation byte and its six bits.
LEMMA SixBits ==
  ASSUME NEW b \in Byte
  PROVE  /\ (b \div 64 = 2) <=> b \in 128..191
         /\ b \in 128..191 => Low6(b) = b - 128
  BY DEF Byte, Low6

\* The leading bytes of the two-byte encodings.
LEMMA TwoBytes ==
  ASSUME NEW a \in Byte, NEW b \in Byte, b \in 128..191
  PROVE  a \div 32 = 6 /\ Between((a % 32) * 64 + Low6(b), 128, 2047) <=> a \in 194..223
<1>1. Low6(b) \in 0..63
  BY SixBits, SMT
<1>2. a \div 32 = 6 <=> a \in 192..223
  BY SMT DEF Byte
<1>3. CASE a \in 192..223
  <2>1. a % 32 = a - 192
    BY <1>3, SMT
  <2>2. PICK x \in 0..63 : x = Low6(b)
    BY <1>1
  <2>3. Between((a - 192) * 64 + x, 128, 2047) <=> a \in 194..223
    BY <1>3, SMT DEF Between
  <2> QED
    BY <1>2, <1>3, <2>1, <2>2, <2>3, SMT
<1>4. CASE a \notin 192..223
  <2>1. a \notin 194..223
    BY <1>4, SMT
  <2> QED
    BY <1>2, <1>4, <2>1, SMT
<1> QED
  BY <1>3, <1>4, Zenon

\* What is asked of three and four bytes as an encoding of a code point ...
Encodes3(a, b, c) ==
  /\ a \div 16 = 14
  /\ Between((a % 16) * 4096 + Low6(b) * 64 + Low6(c), 2048, 65535)
  /\ ~Between((a % 16) * 4096 + Low6(b) * 64 + Low6(c), 55296, 57343)
Encodes4(a, b, c, d) ==
  /\ a \div 8 = 30
  /\ Between((a % 8) * 262144 + Low6(b) * 4096 + Low6(c) * 64 + Low6(d), 65536, 1114111)

\* ... and what the code asks of the first two of them.
Lead3(a, b) ==
  \/ a = 224 /\ b \in 160..191
  \/ a \in (225..236) \cup (238..239) /\ b \in Continuations
  \/ a = 237 /\ b \in 128..159
Lead4(a, b) ==
  \/ a = 240 /\ b \in 144..191
  \/ a \in 241..243 /\ b \in Continuations
  \/ a = 244 /\ b \in 128..143

\* The three-byte encodings, byte by byte.
LEMMA ThreeBytes ==
  ASSUME NEW a \in Byte, NEW b \in 128..191, NEW d \in 128..191
  PROVE  Encodes3(a, b, d) <=> Lead3(a, b)
<1>1. Low6(b) = b - 128 /\ Low6(d) = d - 128
  BY SixBits, SMT DEF Byte
<1>2. a \div 16 = 14 <=> a \in 224..239
  BY SMT DEF Byte
<1>3. CASE a \in 224..239
  <2>1. a % 16 = a - 224
    BY <1>3, SMT
  <2>2. PICK x \in 0..63 : x = b - 128
    BY SMT
  <2>3. PICK y \in 0..63 : y = d - 128
    BY SMT
  <2>4. PICK v \in Int : v = (a - 224) * 4096 + x * 64 + y
    BY <1>3, SMT
  <2>5. (a % 16) * 4096 + Low6(b) * 64 + Low6(d) = v
    BY <1>1, <2>1, <2>2, <2>3, <2>4, SMT
  <2>7. (x >= 32 <=> b >= 160) /\ (x <= 31 <=> b <= 159)
    BY <2>2, SMT
  <2>8. Between(v, 2048, 65535) /\ ~Between(v, 55296, 57343)
        <=> \/ a = 224 /\ x >= 32
            \/ a \in (225..236) \cup (238..239)
            \/ a = 237 /\ x <= 31
    <3>1. PICK w \in Int : w = x * 64 + y
      BY SMT
    <3>2. w >= 0 /\ w <= 4095 /\ (w >= 2048 <=> x >= 32) /\ v = (a - 224) * 4096 + w
      BY <1>3, <2>4, <3>1, SMT
    <3>3. CASE a = 224
      BY <3>2, <3>3, SMT DEF Between
    <3>4. CASE a \in 225..236
      BY <3>2, <3>4, SMT DEF Between
    <3>5. CASE a = 237
      BY <3>2, <3>5, SMT DEF Between
    <3>6. CASE a \in 238..239
      BY <3>2, <3>6, SMT DEF Between
    <3> QED
      BY <1>3, <3>3, <3>4, <3>5, <3>6, SMT
  <2> QED
    BY <1>2, <1>3, <2>5, <2>7, <2>8, SMT DEF Encodes3, Lead3, Continuations
<1>4. CASE a \notin 224..239
  <2>1. a # 224 /\ a # 237 /\ a \notin (225..236) \cup (238..239)
    BY <1>4, SMT
  <2> QED
    BY <1>2, <1>4, <2>1, SMT DEF Encodes3, Lead3
<1> QED
  BY <1>3, <1>4, SMT

\* The four-byte encodings, byte by byte.
LEMMA FourBytes ==
  ASSUME NEW a \in Byte, NEW b \in 128..191, NEW d \in 128..191, NEW e \in 128..191
  PROVE  Encodes4(a, b, d, e) <=> Lead4(a, b)
<1>1. Low6(b) = b - 128 /\ Low6(d) = d - 128 /\ Low6(e) = e - 128
  BY SixBits, SMT DEF Byte
<1>2. a \div 8 = 30 <=> a \in 240..247
  BY SMT DEF Byte
<1>3. CASE a \in 240..247
  <2>1. a % 8 = a - 240
    BY <1>3, SMT
  <2>2. PICK x \in 0..63 : x = b - 128
    BY SMT
  <2>3. PICK y \in 0..63 : y = d - 128
    BY SMT
  <2>4. PICK z \in 0..63 : z = e - 128
    BY SMT
  <2>5. PICK v \in Int : v = (a - 240) * 262144 + x * 4096 + y * 64 + z
    BY <1>3, SMT
  <2>6. (a % 8) * 262144 + Low6(b) * 4096 + Low6(d) * 64 + Low6(e) = v
    BY <1>1, <2>1, <2>2, <2>3, <2>4, <2>5, SMT
  <2>8. (x >= 16 <=> b >= 144) /\ (x <= 15 <=> b <= 143)
    BY <2>2, SMT
  <2>9. Between(v, 65536, 1114111) <=> (a = 240 /\ x >= 16) \/ a \in 241..243 \/ (a = 244 /\ x <= 15)
    <3>1. PICK w \in Int : w = x * 4096 + y * 64 + z
      BY SMT
    <3>2. w >= 0 /\ w <= 262143 /\ (w >= 65536 <=> x >= 16) /\ v = (a - 240) * 262144 + w
      BY <1>3, <2>5, <3>1, SMT
    <3>3. CASE a = 240
      BY <3>2, <3>3, SMT DEF Between
    <3>4. CASE a \in 241..243
      BY <3>2, <3>4, SMT DEF Between
    <3>5. CASE a = 244
      BY <3>2, <3>5, SMT DEF Between
    <3>6. CASE a \in 245..247
      BY <3>2, <3>6, SMT DEF Between
    <3> QED
      BY <1>3, <3>3, <3>4, <3>5, <3>6, SMT
  <2> QED
    BY <1>2, <1>3, <2>6, <2>8, <2>9, SMT DEF Encodes4, Lead4, Continuations
<1>4. CASE a \notin 240..247
  <2>1. a # 240 /\ a # 244 /\ a \notin 241..243
    BY <1>4, SMT
  <2> QED
    BY <1>2, <1>4, <2>1, SMT DEF Encodes4, Lead4
<1> QED
  BY <1>3, <1>4, SMT

\* The bytes after the leading one are those that it asks for.
Follow(e, t) == \A j \in DOMAIN t : e[1 + j] \in t[j]
Fits(e) == Len(TailOf(e[1])) = Len(e) - 1 /\ Follow(e, TailOf(e[1]))

\* Tails of no byte to three bytes, spelled out.
LEMMA Follows ==
  ASSUME NEW e, NEW A, NEW B, NEW C
  PROVE  /\ Len(<<>>) = 0 /\ Follow(e, <<>>)
         /\ Len(<<A>>) = 1 /\ (Follow(e, <<A>>) <=> e[2] \in A)
         /\ Len(<<A, B>>) = 2 /\ (Follow(e, <<A, B>>) <=> e[2] \in A /\ e[3] \in B)
         /\ Len(<<A, B, C>>) = 3
         /\ (Follow(e, <<A, B, C>>) <=> e[2] \in A /\ e[3] \in B /\ e[4] \in C)
<1>1. Len(<<>>) = 0 /\ Follow(e, <<>>)
  BY DEF Follow
<1>2. Len(<<A>>) = 1 /\ (Follow(e, <<A>>) <=> e[2] \in A)
  <2>1. DOMAIN <<A>> = {1} /\ <<A>>[1] = A /\ 1 + 1 = 2
    BY SMT
  <2> QED
    BY <2>1 DEF Follow
<1>3. Len(<<A, B>>) = 2 /\ (Follow(e, <<A, B>>) <=> e[2] \in A /\ e[3] \in B)
  <2>1. DOMAIN <<A, B>> = {1, 2} /\ <<A, B>>[1] = A /\ <<A, B>>[2] = B /\ 1 + 1 = 2 /\ 1 + 2 = 3
    BY SMT
  <2> QED
    BY <2>1 DEF Follow
<1>4. Len(<<A, B, C>>) = 3 /\ (Follow(e, <<A, B, C>>) <=> e[2] \in A /\ e[3] \in B /\ e[4] \in C)
  <2>1. /\ DOMAIN <<A, B, C>> = {1, 2, 3} /\ <<A, B, C>>[1] = A /\ <<A, B, C>>[2] = B
        /\ <<A, B, C>>[3] = C /\ 1 + 1 = 2 /\ 1 + 2 = 3 /\ 1 + 3 = 4
    BY SMT
  <2> QED
    BY <2>1 DEF Follow
<1> QED
  BY <1>1, <1>2, <1>3, <1>4

\* The code's ranges for n bytes.
Ranges(n, a, b, c, d) ==
  \/ n = 1 /\ a \in 0..127
  \/ n = 2 /\ a \in 194..223 /\ b \in Continuations
  \/ n = 3 /\ Lead3(a, b) /\ c \in Continuations
  \/ n = 4 /\ Lead4(a, b) /\ c \in Continuations /\ d \in Continuations

\* What fits, by the leading byte.
LEMMA FitsByByte ==
  ASSUME NEW a \in Byte, NEW b, NEW c, NEW d, NEW n \in 1..4, NEW e,
         Len(e) = n, e[1] = a, e[2] = b, e[3] = c, e[4] = d
  PROVE  Fits(e) <=> Ranges(n, a, b, c, d)
<1>1. a \in Int /\ a >= 0 /\ a <= 255
  BY DEF Byte
<1>2. CASE a \in 0..127
  <2>1. TailOf(a) = <<>>
    BY <1>2, Tails
  <2>2. Len(<<>>) = 0 /\ (Follow(e, <<>>) <=> TRUE)
    BY Follows
  <2>3. Fits(e) <=> 0 = n - 1 /\ TRUE
    BY <2>1, <2>2 DEF Fits
  <2> QED
    BY <1>1, <1>2, <2>3, SMT DEF Ranges, Lead3, Lead4
<1>3. CASE a \in 194..223
  <2>1. TailOf(a) = <<Continuations>>
    BY <1>3, Tails
  <2>2. Len(<<Continuations>>) = 1 /\ (Follow(e, <<Continuations>>) <=> b \in Continuations)
    BY Follows
  <2>3. Fits(e) <=> 1 = n - 1 /\ b \in Continuations
    BY <2>1, <2>2 DEF Fits
  <2> QED
    BY <1>1, <1>3, <2>3, SMT DEF Ranges, Lead3, Lead4
<1>4. CASE a = 224
  <2>1. TailOf(a) = <<160..191, Continuations>>
    BY <1>4, Tails
  <2>2. PICK A : A = 160..191
    OBVIOUS
  <2>3. /\ Len(<<A, Continuations>>) = 2
        /\ Follow(e, <<A, Continuations>>)
             <=> b \in A /\ c \in Continuations
    BY Follows
  <2>4. Fits(e) <=> 2 = n - 1 /\ b \in 160..191 /\ c \in Continuations
    BY <2>1, <2>2, <2>3 DEF Fits
  <2> QED
    BY <1>1, <1>4, <2>4, SMT DEF Ranges, Lead3, Lead4
<1>5. CASE a \in (225..236) \cup (238..239)
  <2>1. TailOf(a) = <<Continuations, Continuations>>
    BY <1>5, Tails
  <2>2. /\ Len(<<Continuations, Continuations>>) = 2
        /\ Follow(e, <<Continuations, Continuations>>)
             <=> b \in Continuations /\ c \in Continuations
    BY Follows
  <2>3. Fits(e) <=> 2 = n - 1 /\ b \in Continuations /\ c \in Continuations
    BY <2>1, <2>2 DEF Fits
  <2> QED
    BY <1>1, <1>5, <2>3, SMT DEF Ranges, Lead3, Lead4
<1>6. CASE a = 237
  <2>1. TailOf(a) = <<128..159, Continuations>>
    BY <1>6, Tails
  <2>2. PICK A : A = 128..159
    OBVIOUS
  <2>3. /\ Len(<<A, Continuations>>) = 2
        /\ Follow(e, <<A, Continuations>>)
             <=> b \in A /\ c \in Continuations
    BY Follows
  <2>4. Fits(e) <=> 2 = n - 1 /\ b \in 128..159 /\ c \in Continuations
    BY <2>1, <2>2, <2>3 DEF Fits
  <2> QED
    BY <1>1, <1>6, <2>4, SMT DEF Ranges, Lead3, Lead4
<1>7. CASE a = 240
  <2>1. TailOf(a) = <<144..191, Continuations, Continuations>>
    BY <1>7, Tails
  <2>2. PICK A : A = 144..191
    OBVIOUS
  <2>3. /\ Len(<<A, Continuations, Continuations>>) = 3
        /\ Follow(e, <<A, Continuations, Continuations>>)
             <=> b \in A /\ c \in Continuations /\ d \in Continuations
    BY Follows
  <2>4. Fits(e) <=> 3 = n - 1 /\ b \in 144..191 /\ c \in Continuations /\ d \in Continuations
    BY <2>1, <2>2, <2>3 DEF Fits
  <2> QED
    BY <1>1, <1>7, <2>4, SMT DEF Ranges, Lead3, Lead4
<1>8. CASE a \in 241..243
  <2>1. TailOf(a) = <<Continuations, Continuations, Continuations>>
    BY <1>8, Tails
  <2>2. /\ Len(<<Continuations, Continuations, Continuations>>) = 3
        /\ Follow(e, <<Continuations, Continuations, Continuations>>)
             <=> b \in Continuations /\ c \in Continuations /\ d \in Continuations
    BY Follows
  <2>3. Fits(e) <=> 3 = n - 1 /\ b \in Continuations /\ c \in Continuations /\ d \in Continuations
    BY <2>1, <2>2 DEF Fits
  <2> QED
    BY <1>1, <1>8, <2>3, SMT DEF Ranges, Lead3, Lead4
<1>9. CASE a = 244
  <2>1. TailOf(a) = <<128..143, Continuations, Continuations>>
    BY <1>9, Tails
  <2>2. PICK A : A = 128..143
    OBVIOUS
  <2>3. /\ Len(<<A, Continuations, Continuations>>) = 3
        /\ Follow(e, <<A, Continuations, Continuations>>)
             <=> b \in A /\ c \in Continuations /\ d \in Continuations
    BY Follows
  <2>4. Fits(e) <=> 3 = n - 1 /\ b \in 128..143 /\ c \in Continuations /\ d \in Continuations
    BY <2>1, <2>2, <2>3 DEF Fits
  <2> QED
    BY <1>1, <1>9, <2>4, SMT DEF Ranges, Lead3, Lead4
<1>10. CASE a \in (128..193) \cup (245..255)
  <2>1. TailOf(a) = <<{}>>
    BY <1>10, Tails
  <2>2. PICK A : A = {}
    OBVIOUS
  <2>3. Len(<<A>>) = 1 /\ (Follow(e, <<A>>) <=> b \in A)
    BY Follows
  <2>4. ~Fits(e)
    BY <2>1, <2>2, <2>3 DEF Fits
  <2> QED
    BY <1>1, <1>10, <2>4, SMT DEF Ranges, Lead3, Lead4
<1> QED
  BY <1>1, <1>2, <1>3, <1>4, <1>5, <1>6, <1>7, <1>8, <1>9, <1>10, SMT

\* The code's ranges are the encodings of RFC 3629.
LEMMA Encodings ==
  ASSUME NEW e \in Seq(Byte), Len(e) \in 1..4
  PROVE  IsEncoding(e) <=> Fits(e)
<1> DEFINE a == e[1]
           b == e[2]
           c == e[3]
           d == e[4]
           n == Len(e)
<1>1. n \in 1..4 /\ a \in Byte
  BY ElementOfSeq
<1>2. /\ n >= 2 => b \in Byte
      /\ n >= 3 => c \in Byte
      /\ n >= 4 => d \in Byte
  BY ElementOfSeq
<1>3. Fits(e) <=> Ranges(n, a, b, c, d)
  <2> HIDE DEF a, b, c, d, n
  <2>1. Len(e) = n /\ e[1] = a /\ e[2] = b /\ e[3] = c /\ e[4] = d
    BY DEF a, b, c, d, n
  <2> QED
    BY <1>1, <2>1, FitsByByte
<1>4. CASE n = 1
  <2>1. IsEncoding(e) <=> a \div 128 = 0
    <3>1. 2..n = {}
      BY <1>4
    <3> QED
      BY <1>4, <3>1, SMT DEF IsEncoding
  <2> HIDE DEF a, b, c, d, n
  <2>2. a \div 128 = 0 <=> a \in 0..127
    BY <1>1, SMT DEF Byte
  <2> QED
    BY <1>3, <1>4, <2>1, <2>2, SMT DEF Ranges
<1>5. CASE n = 2
  <2>1. IsEncoding(e) <=> b \div 64 = 2 /\ a \div 32 = 6 /\ Between((a % 32) * 64 + Low6(b), 128, 2047)
    <3>1. 2..n = {2}
      BY <1>5
    <3> QED
      BY <1>5, <3>1, SMT DEF IsEncoding, CodePoint
  <2> HIDE DEF a, b, c, d, n
  <2>2. b \in Byte /\ (b \div 64 = 2 <=> b \in 128..191)
    BY <1>2, <1>5, SixBits
  <2>3. b \in 128..191 =>
          (a \div 32 = 6 /\ Between((a % 32) * 64 + Low6(b), 128, 2047) <=> a \in 194..223)
    BY <1>1, <2>2, TwoBytes
  <2> QED
    BY <1>3, <1>5, <2>1, <2>2, <2>3, SMT DEF Continuations, Ranges
<1>6. CASE n = 3
  <2>1. IsEncoding(e) <=>
          b \div 64 = 2 /\ c \div 64 = 2 /\ Encodes3(a, b, c)
    <3>1. 2..n = {2, 3}
      BY <1>6
    <3> QED
      BY <1>6, <3>1, SMT DEF IsEncoding, CodePoint, Encodes3
  <2> HIDE DEF a, b, c, d, n
  <2>2. b \in Byte /\ (b \div 64 = 2 <=> b \in 128..191)
    BY <1>2, <1>6, SixBits
  <2>3. c \in Byte /\ (c \div 64 = 2 <=> c \in 128..191)
    BY <1>2, <1>6, SixBits
  <2>4. b \in 128..191 /\ c \in 128..191 => (Encodes3(a, b, c) <=> Lead3(a, b))
    BY <1>1, ThreeBytes
  <2>5. Lead3(a, b) => b \in 128..191
    BY SMT DEF Lead3, Continuations
  <2> QED
    BY <1>3, <1>6, <2>1, <2>2, <2>3, <2>4, <2>5, SMT DEF Continuations, Ranges
<1>7. CASE n = 4
  <2>1. IsEncoding(e) <=>
          b \div 64 = 2 /\ c \div 64 = 2 /\ d \div 64 = 2 /\ Encodes4(a, b, c, d)
    <3>1. 2..n = {2, 3, 4}
      BY <1>7
    <3> QED
      BY <1>7, <3>1, SMT DEF IsEncoding, CodePoint, Encodes4
  <2> HIDE DEF a, b, c, d, n
  <2>2. b \in Byte /\ (b \div 64 = 2 <=> b \in 128..191)
    BY <1>2, <1>7, SixBits
  <2>3. c \in Byte /\ (c \div 64 = 2 <=> c \in 128..191)
    BY <1>2, <1>7, SixBits
  <2>4. d \in Byte /\ (d \div 64 = 2 <=> d \in 128..191)
    BY <1>2, <1>7, SixBits
  <2>5. b \in 128..191 /\ c \in 128..191 /\ d \in 128..191 => (Encodes4(a, b, c, d) <=> Lead4(a, b))
    BY <1>1, FourBytes
  <2>6. Lead4(a, b) => b \in 128..191
    BY SMT DEF Lead4, Continuations
  <2> QED
    BY <1>3, <1>7, <2>1, <2>2, <2>3, <2>4, <2>5, <2>6, SMT DEF Continuations, Ranges
<1> QED
  BY <1>1, <1>4, <1>5, <1>6, <1>7

-----------------------------------------------------------------------------
(* Both definitions ask whether the end of the text can be reached by steps *)
(* of one to four bytes.                                                    *)

\* f[i]: the end, n + 1, is reached from i; <<i, k>> in R is a step from i to i + k.
IsReach(f, R, lo, n) ==
  f = [i \in lo..(n + 1) |-> i > n \/ \E k \in 1..4 : <<i, k>> \in R /\ f[i + k]]

\* Its equation.
LEMMA ReachAt ==
  ASSUME NEW f, NEW R, NEW lo, NEW n, IsReach(f, R, lo, n), NEW i \in lo..(n + 1)
  PROVE  f[i] = (i > n \/ \E k \in 1..4 : <<i, k>> \in R /\ f[i + k])
  BY Zenon DEF IsReach

\* Steps stay in the text.
StepsOf(R, n) == R \subseteq {p \in (1..n) \X (1..4) : p[1] + p[2] <= n + 1}

\* The recursive definition defines something.
LEMMA ReachExists ==
  ASSUME NEW n \in Nat, NEW R, StepsOf(R, n)
  PROVE  \E f : IsReach(f, R, 1, n)
<1> DEFINE Bad == {m \in 0..n : ~ \E f : IsReach(f, R, n + 1 - m, n)}
<1>1. ASSUME NEW i, NEW k, <<i, k>> \in R
      PROVE  i \in 1..n /\ k \in 1..4 /\ i + k <= n + 1
  <2>1. <<i, k>> \in {p \in (1..n) \X (1..4) : p[1] + p[2] <= n + 1}
    BY <1>1 DEF StepsOf
  <2> QED
    BY <2>1
<1>2. Bad = {}
  <2> SUFFICES ASSUME Bad # {} PROVE FALSE
    OBVIOUS
  <2>1. PICK x \in Bad : \A y \in Bad : x <= y
    <3>1. Bad \subseteq Nat
      OBVIOUS
    <3> HIDE DEF Bad
    <3> QED
      BY <3>1, LeastNat
  <2>2. x \in 0..n /\ ~ \E f : IsReach(f, R, n + 1 - x, n)
    BY <2>1
  <2>3. CASE x = 0
    <3> DEFINE g == [i \in (n + 1)..(n + 1) |-> TRUE]
    <3>1. \A i \in (n + 1)..(n + 1) : i > n
      OBVIOUS
    <3>2. \A i \in (n + 1)..(n + 1) : g[i] = (i > n \/ \E k \in 1..4 : <<i, k>> \in R /\ g[i + k])
      BY <3>1
    <3>3. g = [i \in (n + 1)..(n + 1) |-> g[i]]
      OBVIOUS
    <3> HIDE DEF g
    <3>4. IsReach(g, R, n + 1, n)
      BY <3>2, <3>3, Zenon DEF IsReach
    <3>5. n + 1 - x = n + 1
      BY <2>3
    <3> QED
      BY <2>2, <3>4, <3>5
  <2>4. CASE x # 0
    <3> DEFINE lo == n + 1 - x
    <3>1. x - 1 \in 0..n /\ lo \in 1..n /\ n + 1 - (x - 1) = lo + 1
      BY <2>2, <2>4
    <3>2. x - 1 \notin Bad
      BY <2>1, <2>2
    <3>3. PICK f : IsReach(f, R, lo + 1, n)
      BY <3>1, <3>2
    <3> DEFINE now == \E k \in 1..4 : <<lo, k>> \in R /\ f[lo + k]
               g == [i \in lo..(n + 1) |-> IF i = lo THEN now ELSE f[i]]
    <3>4. \A i \in (lo + 1)..(n + 1) : f[i] = (i > n \/ \E k \in 1..4 : <<i, k>> \in R /\ f[i + k])
      BY <3>3, Zenon DEF IsReach
    <3>5. ASSUME NEW i \in lo..(n + 1), NEW k \in 1..4, <<i, k>> \in R
          PROVE  g[i + k] = f[i + k]
      <4>1. i + k \in lo..(n + 1) /\ i + k # lo
        BY <1>1, <3>1, <3>5
      <4> QED
        BY <4>1
    <3>6. ASSUME NEW i \in lo..(n + 1)
          PROVE  g[i] = (i > n \/ \E k \in 1..4 : <<i, k>> \in R /\ g[i + k])
      <4>1. CASE i = lo
        <5>1. ~(i > n)
          BY <3>1, <4>1
        <5>2. g[i] = now
          BY <4>1
        <5>3. now = \E k \in 1..4 : <<i, k>> \in R /\ g[i + k]
          BY <3>5, <4>1, Zenon
        <5> HIDE DEF g, now
        <5> QED
          BY <5>1, <5>2, <5>3, Zenon
      <4>2. CASE i # lo
        <5>1. i \in (lo + 1)..(n + 1)
          BY <3>1, <4>2
        <5>2. g[i] = f[i]
          BY <4>2
        <5>3. f[i] = (i > n \/ \E k \in 1..4 : <<i, k>> \in R /\ f[i + k])
          BY <3>4, <5>1
        <5> HIDE DEF g
        <5> QED
          BY <3>5, <5>2, <5>3, Zenon
      <4> QED
        BY <4>1, <4>2
    <3>7. g = [i \in lo..(n + 1) |-> g[i]]
      OBVIOUS
    <3> HIDE DEF g
    <3>8. IsReach(g, R, lo, n)
      BY <3>6, <3>7, Zenon DEF IsReach
    <3> QED
      BY <2>2, <3>8
  <2> QED
    BY <2>3, <2>4
<1>3. n \in 0..n /\ n + 1 - n = 1
  OBVIOUS
<1> QED
  BY <1>2, <1>3

\* And only one thing.
LEMMA ReachUnique ==
  ASSUME NEW n \in Nat, NEW R, StepsOf(R, n), NEW f, NEW g,
         IsReach(f, R, 1, n), IsReach(g, R, 1, n)
  PROVE  f[1] = g[1]
<1> DEFINE Bad == {m \in 0..n : f[n + 1 - m] # g[n + 1 - m]}
<1>1. ASSUME NEW i, NEW k, <<i, k>> \in R
      PROVE  i \in 1..n /\ k \in 1..4 /\ i + k <= n + 1
  <2>1. <<i, k>> \in {p \in (1..n) \X (1..4) : p[1] + p[2] <= n + 1}
    BY <1>1 DEF StepsOf
  <2> QED
    BY <2>1
<1>2. Bad = {}
  <2> SUFFICES ASSUME Bad # {} PROVE FALSE
    OBVIOUS
  <2>1. PICK x \in Bad : \A y \in Bad : x <= y
    <3>1. Bad \subseteq Nat
      OBVIOUS
    <3> HIDE DEF Bad
    <3> QED
      BY <3>1, LeastNat
  <2> DEFINE i == n + 1 - x
  <2>2. x \in 0..n /\ i \in 1..(n + 1) /\ f[i] # g[i]
    BY <2>1
  <2>3. ASSUME NEW k \in 1..4, <<i, k>> \in R
        PROVE  f[i + k] = g[i + k]
    <3>1. x - k \in 0..n /\ n + 1 - (x - k) = i + k /\ x - k < x
      BY <1>1, <2>2, <2>3
    <3>2. x - k \notin Bad
      BY <2>1, <2>2, <3>1
    <3> QED
      BY <3>1, <3>2
  <2> HIDE DEF i
  <2>4. f[i] = (i > n \/ \E k \in 1..4 : <<i, k>> \in R /\ f[i + k])
    BY <2>2, ReachAt
  <2>5. g[i] = (i > n \/ \E k \in 1..4 : <<i, k>> \in R /\ g[i + k])
    BY <2>2, ReachAt
  <2>6. f[i] = g[i]
    BY <2>3, <2>4, <2>5, Zenon
  <2> QED
    BY <2>2, <2>6
<1>3. n \in 0..n /\ n + 1 - n = 1
  OBVIOUS
<1>4. n \notin Bad
  BY <1>2
<1>5. f[n + 1 - n] = g[n + 1 - n]
  BY <1>3, <1>4
<1> QED
  BY <1>3, <1>5

-----------------------------------------------------------------------------
(* The steps of a text are its encodings, and the code takes the same. *)

Steps(s) ==
  {p \in (1..Len(s)) \X (1..4) : /\ p[1] + p[2] - 1 <= Len(s)
                                 /\ IsEncoding(SubSeq(s, p[1], p[1] + p[2] - 1))}

\* What the code takes for a step of k bytes from i.
Taken(s, i, k) ==
  LET tail == TailOf(s[i])
  IN  /\ k = 1 + Len(tail)
      /\ i + Len(tail) <= Len(s)
      /\ \A j \in DOMAIN tail : s[i + j] \in tail[j]

\* Tails are of at most three bytes.
LEMMA TailLength ==
  ASSUME NEW c \in Byte
  PROVE  Len(TailOf(c)) \in 0..3 /\ DOMAIN TailOf(c) = 1..Len(TailOf(c))
<1>1. c \in 0..127 => Len(TailOf(c)) \in 0..3 /\ DOMAIN TailOf(c) = 1..Len(TailOf(c))
  BY Tails
<1>2. c \in 128..223 => Len(TailOf(c)) \in 0..3 /\ DOMAIN TailOf(c) = 1..Len(TailOf(c))
  BY Tails
<1>3. c \in 224..239 => Len(TailOf(c)) \in 0..3 /\ DOMAIN TailOf(c) = 1..Len(TailOf(c))
  BY Tails
<1>4. c \in 240..255 => Len(TailOf(c)) \in 0..3 /\ DOMAIN TailOf(c) = 1..Len(TailOf(c))
  BY Tails
<1> QED
  BY <1>1, <1>2, <1>3, <1>4, SMT DEF Byte

\* The two are the same steps.
LEMMA SameSteps ==
  ASSUME NEW s \in Seq(Byte), NEW i \in 1..Len(s), NEW k \in 1..4
  PROVE  <<i, k>> \in Steps(s) <=> Taken(s, i, k)
<1> DEFINE e == SubSeq(s, i, i + k - 1)
           tail == TailOf(s[i])
<1>1. s[i] \in Byte /\ Len(tail) \in 0..3 /\ DOMAIN tail = 1..Len(tail)
  BY TailLength, ElementOfSeq
<1>2. <<i, k>> \in Steps(s) <=> i + k - 1 <= Len(s) /\ IsEncoding(e)
  BY DEF Steps
<1>3. CASE ~(i + k - 1 <= Len(s))
  <2> HIDE DEF tail
  <2>1. ~(k = 1 + Len(tail) /\ i + Len(tail) <= Len(s))
    BY <1>1, <1>3
  <2> QED
    BY <1>2, <1>3, <2>1 DEF Taken, tail
<1>4. CASE i + k - 1 <= Len(s)
  <2>1. e \in Seq(Byte) /\ Len(e) = k /\ \A j \in 1..k : e[j] = s[i + j - 1]
    <3>1. i \in 1..Len(s) /\ i + k - 1 \in 1..Len(s) /\ i <= i + k - 1
      BY <1>4
    <3> QED
      BY <3>1, SubSeqProperties
  <2>2. IsEncoding(e) <=> Fits(e)
    <3>1. Len(e) \in 1..4
      BY <2>1
    <3> QED
      BY <2>1, <3>1, Encodings
  <2>3. e[1] = s[i]
    BY <2>1
  <2>4. Fits(e) <=> Len(tail) = k - 1 /\ Follow(e, tail)
    BY <2>1, <2>3 DEF Fits
  <2>5. ASSUME Len(tail) = k - 1
        PROVE  Follow(e, tail) <=> \A j \in DOMAIN tail : s[i + j] \in tail[j]
    <3>1. \A j \in DOMAIN tail : e[1 + j] = s[i + j]
      <4> HIDE DEF tail, e
      <4>1. \A j \in DOMAIN tail : 1 + j \in 1..k /\ i + (1 + j) - 1 = i + j
        BY <1>1, <2>5
      <4> QED
        BY <2>1, <4>1
    <3> HIDE DEF tail, e
    <3> QED
      BY <3>1 DEF Follow
  <2> HIDE DEF tail, e
  <2>6. Len(tail) = k - 1 <=> k = 1 + Len(tail)
    BY <1>1
  <2>7. k = 1 + Len(tail) => i + Len(tail) <= Len(s)
    BY <1>1, <1>4
  <2> QED
    BY <1>2, <1>4, <2>2, <2>4, <2>5, <2>6, <2>7, Zenon DEF Taken, tail
<1> QED
  BY <1>3, <1>4

\* The loop of the validator, and the definition of a text, as functions.
IsValid(f, s) ==
  f = [i \in 1..(Len(s) + 1) |->
         IF i > Len(s) THEN TRUE
         ELSE LET tail == TailOf(s[i])
              IN  /\ i + Len(tail) <= Len(s)
                  /\ \A k \in DOMAIN tail : s[i + k] \in tail[k]
                  /\ f[i + 1 + Len(tail)]]
IsOk(f, s) ==
  f = [i \in 1..(Len(s) + 1) |->
         i > Len(s) \/ \E n \in 1..4 : /\ i + n - 1 <= Len(s)
                                       /\ IsEncoding(SubSeq(s, i, i + n - 1))
                                       /\ f[i + n]]

\* Both are reachability over the same steps.
LEMMA BothReach ==
  ASSUME NEW s \in Seq(Byte), NEW f
  PROVE  /\ IsValid(f, s) <=> IsReach(f, Steps(s), 1, Len(s))
         /\ IsOk(f, s) <=> IsReach(f, Steps(s), 1, Len(s))
<1> DEFINE n == Len(s)
           Reach(i) == i > n \/ \E k \in 1..4 : <<i, k>> \in Steps(s) /\ f[i + k]
<1>1. n \in Nat
  OBVIOUS
<1>2. ASSUME NEW i \in 1..(n + 1)
      PROVE  (i > n \/ \E k \in 1..4 : /\ i + k - 1 <= n
                                       /\ IsEncoding(SubSeq(s, i, i + k - 1))
                                       /\ f[i + k])
             = Reach(i)
  <2>1. CASE i > n
    BY <2>1
  <2>2. CASE ~(i > n)
    <3>1. i \in 1..n
      BY <1>1, <2>2
    <3>2. \A k \in 1..4 : <<i, k>> \in Steps(s)
                          <=> i + k - 1 <= n /\ IsEncoding(SubSeq(s, i, i + k - 1))
      BY <3>1 DEF Steps
    <3> QED
      BY <2>2, <3>2, Zenon
  <2> QED
    BY <2>1, <2>2
<1>3. ASSUME NEW i \in 1..(n + 1)
      PROVE  (IF i > n THEN TRUE
              ELSE LET tail == TailOf(s[i])
                   IN  /\ i + Len(tail) <= n
                       /\ \A k \in DOMAIN tail : s[i + k] \in tail[k]
                       /\ f[i + 1 + Len(tail)])
             = Reach(i)
  <2>1. CASE i > n
    BY <2>1
  <2>2. CASE ~(i > n)
    <3>1. i \in 1..n
      BY <1>1, <2>2
    <3>2. \A k \in 1..4 : <<i, k>> \in Steps(s) <=> Taken(s, i, k)
      BY <3>1, SameSteps
    <3>3. Len(TailOf(s[i])) \in 0..3
      BY <3>1, TailLength, ElementOfSeq
    <3> DEFINE m == 1 + Len(TailOf(s[i]))
    <3>4. m \in 1..4 /\ i + 1 + Len(TailOf(s[i])) = i + m
      <4>1. \A x \in 0..3 : 1 + x \in 1..4 /\ i + 1 + x = i + (1 + x)
        BY <3>1
      <4> QED
        BY <3>3, <4>1
    <3>5. \A k : Taken(s, i, k) <=> k = m /\ i + Len(TailOf(s[i])) <= n
                                    /\ \A j \in DOMAIN TailOf(s[i]) : s[i + j] \in TailOf(s[i])[j]
      BY DEF Taken
    <3> HIDE DEF m
    <3> QED
      BY <2>2, <3>2, <3>4, <3>5, Zenon
  <2> QED
    BY <2>1, <2>2
<1>4. IsReach(f, Steps(s), 1, n) <=> f = [i \in 1..(n + 1) |-> Reach(i)]
  BY Zenon DEF IsReach
<1>5. IsOk(f, s) <=> f = [i \in 1..(n + 1) |-> Reach(i)]
  BY <1>2, Zenon DEF IsOk
<1>6. IsValid(f, s) <=> f = [i \in 1..(n + 1) |-> Reach(i)]
  BY <1>3, Zenon DEF IsValid
<1> QED
  BY <1>4, <1>5, <1>6, Zenon

\* The validator accepts exactly the UTF-8 texts, of any length over any bytes.
THEOREM ValidatorExact == \A s \in Seq(Byte) : IsValidUtf8(s) <=> WellFormed(s)
<1> SUFFICES ASSUME NEW s \in Seq(Byte) PROVE IsValidUtf8(s) <=> WellFormed(s)
  OBVIOUS
<1> DEFINE f == CHOOSE h : IsValid(h, s)
           g == CHOOSE h : IsOk(h, s)
<1>1. StepsOf(Steps(s), Len(s))
  <2>1. ASSUME NEW p \in Steps(s)
        PROVE  p \in (1..Len(s)) \X (1..4) /\ p[1] + p[2] <= Len(s) + 1
    BY DEF Steps
  <2> QED
    BY <2>1 DEF StepsOf
<1>2. PICK h : IsReach(h, Steps(s), 1, Len(s))
  BY <1>1, ReachExists
<1>3. IsValid(f, s) /\ IsOk(g, s)
  BY <1>2, BothReach
<1>4. IsReach(f, Steps(s), 1, Len(s)) /\ IsReach(g, Steps(s), 1, Len(s))
  BY <1>3, BothReach
<1>5. f[1] = g[1]
  <2> HIDE DEF f, g
  <2> QED
    BY <1>1, <1>4, ReachUnique
<1>6. IsValidUtf8(s) = f[1]
  BY DEF IsValidUtf8, IsValid
<1>7. WellFormed(s) = g[1]
  BY DEF WellFormed, IsOk
<1> QED
  BY <1>5, <1>6, <1>7, Zenon

TextIsBytes == text \in Seq(Byte)

\* The same of the texts that grow byte by byte.
THEOREM TextsExact == TextsSpec => []ValidatorIsExact
<1>1. TextsInit => TextIsBytes
  BY EmptySeq DEF TextsInit, TextIsBytes
<1>2. TextIsBytes /\ [Grow]_text => TextIsBytes'
  <2> SUFFICES ASSUME text \in Seq(Byte), Grow
               PROVE  text' \in Seq(Byte)
    BY DEF TextIsBytes
  <2>1. PICK b \in TextBytes : text' = Append(text, b)
    BY DEF Grow
  <2>2. b \in Byte
    BY TextsAssumption
  <2> QED
    BY <2>1, <2>2, AppendProperties
<1>3. TextIsBytes => ValidatorIsExact
  BY ValidatorExact DEF ValidatorIsExact, TextIsBytes
<1> QED
  BY <1>1, <1>2, <1>3, PTL DEF TextsSpec

-----------------------------------------------------------------------------
(* Lengths. *)

\* Shifting by eight bits at a time divides by 256 at a time.
LEMMA ShiftedFacts ==
  ASSUME NEW len \in Nat
  PROVE  /\ Shifted(len) \in [0..8 -> Nat]
         /\ Shifted(len)[0] = len
         /\ \A j \in 1..8 : Shifted(len)[j] = Shifted(len)[j - 1] \div 256
<1> DEFINE Is(f) == f = [j \in 0..8 |-> IF j = 0 THEN len ELSE f[j - 1] \div 256]
           g == CHOOSE f : Is(f)
<1>1. \E f : Is(f)
  <2> DEFINE H == [p \in (1..8) \X Nat |-> p[2] \div 256]
  <2>1. H \in StepFunctions(Nat, 8)
    BY DEF StepFunctions
  <2>2. PICK f \in [0..8 -> Nat] : IsRecursion(f, len, H, 8)
    <3>1. 8 \in Nat /\ 0 \in Nat
      OBVIOUS
    <3> HIDE DEF H
    <3> QED
      BY <2>1, <3>1, Recursion
  <2>3. ASSUME NEW j \in 0..8
        PROVE  f[j] = IF j = 0 THEN len ELSE f[j - 1] \div 256
    <3>1. CASE j = 0
      BY <2>2, <3>1 DEF IsRecursion
    <3>2. CASE j # 0
      <4>1. j \in 1..8 /\ f[j - 1] \in Nat
        BY <3>2
      <4>2. f[j] = H[<<j, f[j - 1]>>]
        BY <2>2, <4>1 DEF IsRecursion
      <4>3. H[<<j, f[j - 1]>>] = f[j - 1] \div 256
        BY <4>1
      <4> QED
        BY <3>2, <4>2, <4>3
    <3> QED
      BY <3>1, <3>2
  <2>4. f = [j \in 0..8 |-> f[j]]
    OBVIOUS
  <2> QED
    BY <2>3, <2>4
<1>2. Is(g)
  BY <1>1
<1>3. g = Shifted(len)
  BY DEF Shifted
<1> HIDE DEF g
<1>4. /\ g[0] = len /\ DOMAIN g = 0..8
      /\ \A j \in 1..8 : g[j] = g[j - 1] \div 256
  BY <1>2
<1>5. \A j \in 0..8 : g[j] \in Nat
  <2> DEFINE T == {j \in 0..8 : g[j] \in Nat}
  <2>1. 0 \in T
    BY <1>4
  <2>2. \A k \in 1..8 : k - 1 \in T => k \in T
    BY <1>4
  <2> HIDE DEF T
  <2>3. \A k \in 0..8 : k \in T
    BY <2>1, <2>2, InductionUpTo
  <2> QED
    BY <2>3 DEF T
<1>6. g = [j \in 0..8 |-> g[j]]
  BY <1>2
<1> QED
  BY <1>3, <1>4, <1>5, <1>6

\* What is left after a shift is a number.
LEMMA ShiftedAt ==
  ASSUME NEW len \in Nat, NEW j \in 0..8
  PROVE  Shifted(len)[j] \in Nat
  BY ShiftedFacts

\* One more shift divides once more.
LEMMA ShiftedNext ==
  ASSUME NEW len \in Nat, NEW j \in 1..8
  PROVE  Shifted(len)[j] = Shifted(len)[j - 1] \div 256
  BY ShiftedFacts

\* The bytes of a length.
LEMMA BigEndianFacts ==
  ASSUME NEW len \in Nat, NEW n \in 0..8
  PROVE  /\ BigEndian(len, n) \in Seq(Byte) /\ Len(BigEndian(len, n)) = n
         /\ \A i \in 1..n : BigEndian(len, n)[i] = Shifted(len)[n - i] % 256
<1>1. ASSUME NEW i \in 1..n
      PROVE  n - i \in 0..8 /\ Shifted(len)[n - i] % 256 \in Byte
  <2>1. n - i \in 0..8
    OBVIOUS
  <2>2. PICK x \in Nat : x = Shifted(len)[n - i]
    BY <2>1, ShiftedAt
  <2>3. x % 256 \in Byte
    BY DEF Byte
  <2> QED
    BY <2>1, <2>2, <2>3
<1> QED
  BY <1>1 DEF BigEndian

BytesFollow(in, n) == \A k \in 1..n : in[2 + k] \in Byte
Reads(f, in, n) == f[0] = 0 /\ \A k \in 1..n : f[k] = f[k - 1] * 256 + in[2 + k]

\* Reading n bytes of a length.
LEMMA LengthAtFacts ==
  ASSUME NEW in, NEW n \in Nat, BytesFollow(in, n)
  PROVE  \E f \in [0..n -> Nat] : Reads(f, in, n) /\ LengthAt(in, n) = f[n]
<1> DEFINE Is(f) == f = [k \in 0..n |-> IF k = 0 THEN 0 ELSE f[k - 1] * 256 + in[2 + k]]
           g == CHOOSE f : Is(f)
<1>1. \E f : Is(f)
  <2> DEFINE H == [p \in (1..n) \X Nat |-> p[2] * 256 + in[2 + p[1]]]
  <2>1. H \in StepFunctions(Nat, n)
    BY DEF Byte, BytesFollow, StepFunctions
  <2>2. PICK f \in [0..n -> Nat] : IsRecursion(f, 0, H, n)
    <3>1. 8 \in Nat /\ 0 \in Nat
      OBVIOUS
    <3> HIDE DEF H
    <3> QED
      BY <2>1, <3>1, Recursion
  <2>3. ASSUME NEW j \in 0..n
        PROVE  f[j] = IF j = 0 THEN 0 ELSE f[j - 1] * 256 + in[2 + j]
    <3>1. CASE j = 0
      BY <2>2, <3>1 DEF IsRecursion
    <3>2. CASE j # 0
      <4>1. j \in 1..n /\ f[j - 1] \in Nat
        BY <3>2
      <4>2. f[j] = H[<<j, f[j - 1]>>]
        BY <2>2, <4>1 DEF IsRecursion
      <4>3. H[<<j, f[j - 1]>>] = f[j - 1] * 256 + in[2 + j]
        BY <4>1
      <4> QED
        BY <3>2, <4>2, <4>3
    <3> QED
      BY <3>1, <3>2
  <2>4. f = [j \in 0..n |-> f[j]]
    OBVIOUS
  <2>5. f = [j \in 0..n |-> IF j = 0 THEN 0 ELSE f[j - 1] * 256 + in[2 + j]]
    BY <2>3, <2>4, Zenon
  <2> QED
    BY <2>5
<1>2. Is(g)
  BY <1>1
<1>3. g[n] = LengthAt(in, n)
  BY DEF LengthAt
<1> HIDE DEF g
<1>4. /\ g[0] = 0 /\ DOMAIN g = 0..n
      /\ \A j \in 1..n : g[j] = g[j - 1] * 256 + in[2 + j]
  BY <1>2
<1>5. \A j \in 0..n : g[j] \in Nat
  <2> DEFINE T == {j \in 0..n : g[j] \in Nat}
  <2>1. 0 \in T
    BY <1>4
  <2>2. ASSUME NEW k \in 1..n, k - 1 \in T
        PROVE  k \in T
    <3>1. PICK x \in Nat : x = g[k - 1]
      BY <2>2
    <3>2. PICK b \in Byte : b = in[2 + k]
      BY DEF BytesFollow
    <3>3. x * 256 + b \in Nat
      BY DEF Byte
    <3> QED
      BY <1>4, <3>1, <3>2, <3>3
  <2> HIDE DEF T
  <2>3. \A k \in 0..n : k \in T
    BY <2>1, <2>2, InductionUpTo
  <2> QED
    BY <2>3 DEF T
<1>6. g = [j \in 0..n |-> g[j]]
  BY <1>2
<1>7. g \in [0..n -> Nat]
  BY <1>5, <1>6
<1>8. Reads(g, in, n)
  BY <1>4 DEF Reads
<1> QED
  BY <1>3, <1>7, <1>8

\* Bytes make a number.
LEMMA LengthIsNat ==
  ASSUME NEW in, NEW n \in Nat, BytesFollow(in, n)
  PROVE  LengthAt(in, n) \in Nat
<1>0. n \in Nat /\ BytesFollow(in, n)
  OBVIOUS
<1>1. PICK f \in [0..n -> Nat] : Reads(f, in, n) /\ LengthAt(in, n) = f[n]
  BY <1>0, LengthAtFacts
<1> QED
  BY <1>1

\* The length field of n bytes holds len.
Announces(in, len, n) == \A k \in 1..n : in[2 + k] = BigEndian(len, n)[k]

\* A number and its last byte.
LEMMA LastByte ==
  ASSUME NEW x \in Nat
  PROVE  (x \div 256) * 256 + (x % 256) = x
  BY SMT

\* A length that n bytes can hold is read back from its n bytes.
LEMMA LengthReadBack ==
  ASSUME NEW len \in Nat, NEW n \in 0..8, Shifted(len)[n] = 0,
         NEW in, Announces(in, len, n)
  PROVE  LengthAt(in, n) = len
<1>1. \A k \in 1..n : in[2 + k] \in Byte /\ in[2 + k] = Shifted(len)[n - k] % 256
  <2>1. ASSUME NEW k \in 1..n
        PROVE  BigEndian(len, n)[k] \in Byte /\ BigEndian(len, n)[k] = Shifted(len)[n - k] % 256
    <3>1. BigEndian(len, n) \in Seq(Byte) /\ Len(BigEndian(len, n)) = n
      BY BigEndianFacts, ZenonT(40)
    <3>2. BigEndian(len, n)[k] \in Byte
      BY <3>1, ElementOfSeq
    <3> QED
      BY <3>2 DEF BigEndian
  <2> QED
    BY <2>1 DEF Announces
<1>10. PICK f \in [0..n -> Nat] : Reads(f, in, n) /\ LengthAt(in, n) = f[n]
  <2>1. n \in Nat /\ BytesFollow(in, n)
    BY <1>1 DEF BytesFollow
  <2> QED
    BY <2>1, LengthAtFacts
<1>2. /\ f[0] = 0 /\ LengthAt(in, n) = f[n]
      /\ \A k \in 1..n : f[k] = f[k - 1] * 256 + in[2 + k]
  BY <1>10 DEF Reads
<1> DEFINE T == {k \in 0..n : f[k] = Shifted(len)[n - k]}
<1>3. 0 \in T
  BY <1>2
<1>4. ASSUME NEW k \in 1..n, k - 1 \in T
      PROVE  k \in T
  <2> DEFINE x == Shifted(len)[n - k]
  <2>1. n - k \in 0..8 /\ x \in Nat
    <3>1. n - k \in 0..8
      OBVIOUS
    <3> QED
      BY <3>1, ShiftedAt
  <2>2. n - (k - 1) \in 1..8 /\ (n - (k - 1)) - 1 = n - k
    OBVIOUS
  <2>3. f[k - 1] = x \div 256
    <3>1. f[k - 1] = Shifted(len)[n - (k - 1)]
      BY <1>4
    <3>2. Shifted(len)[n - (k - 1)] = Shifted(len)[(n - (k - 1)) - 1] \div 256
      <4>1. PICK y \in 1..8 : y = n - (k - 1)
        BY <2>2
      <4>2. Shifted(len)[y] = Shifted(len)[y - 1] \div 256
        BY ShiftedNext
      <4> QED
        BY <4>1, <4>2
    <3> QED
      BY <2>2, <3>1, <3>2
  <2>4. f[k] = f[k - 1] * 256 + (x % 256)
    BY <1>1, <1>2
  <2> HIDE DEF x
  <2>5. f[k] = x
    <3>1. (x \div 256) * 256 + (x % 256) = x
      BY <2>1, LastByte
    <3> QED
      BY <2>3, <2>4, <3>1
  <2> QED
    BY <2>5 DEF x
<1>5. n \in T
  <2> HIDE DEF T
  <2>1. n \in Nat /\ \A k \in 1..n : k - 1 \in T => k \in T
    BY <1>4
  <2>2. \A k \in 0..n : k \in T
    BY <1>3, <2>1, InductionUpTo
  <2> QED
    BY <2>2
<1> QED
  BY <1>2, <1>5, ShiftedFacts

\* Two bytes hold what is at most 0xffff.
LEMMA TwoBytesHold ==
  ASSUME NEW len \in Nat, len <= 65535
  PROVE  Shifted(len)[2] = 0
<1>1. /\ Shifted(len)[0] = len /\ Shifted(len)[0 + 1] = Shifted(len)[0] \div 256
      /\ Shifted(len)[1 + 1] = Shifted(len)[1] \div 256
  BY ShiftedFacts
<1>2. PICK x \in Nat : x = len \div 256
  OBVIOUS
<1>3. x <= 255
  BY <1>2, SMT
<1>4. Shifted(len)[1] = x /\ Shifted(len)[2] = x \div 256
  BY <1>1, <1>2
<1> QED
  BY <1>3, <1>4, SMT

\* The sizes that n bytes can hold.
LEMMA SizeFacts ==
  \E size \in [0..LengthBytes -> Nat \ {0}] :
    /\ size[0] = 1 /\ \A n \in 1..LengthBytes : size[n] = 256 * size[n - 1]
    /\ SizeMax = size[LengthBytes] - 1
<1> DEFINE N == LengthBytes
           V == Nat \ {0}
           Is(f) == f = [n \in 0..N |-> IF n = 0 THEN 1 ELSE 256 * f[n - 1]]
           g == CHOOSE f : Is(f)
<1>0. N \in Nat
  BY CodecAssumption
<1>1. \E f : Is(f)
  <2> DEFINE H == [p \in (1..N) \X V |-> 256 * p[2]]
  <2>1. H \in StepFunctions(V, N)
    BY DEF StepFunctions
  <2>2. PICK f \in [0..N -> V] : IsRecursion(f, 1, H, N)
    <3>1. 1 \in V
      OBVIOUS
    <3> HIDE DEF H, V, N
    <3> QED
      BY <1>0, <2>1, <3>1, Recursion
  <2> HIDE DEF N
  <2>3. ASSUME NEW j \in 0..N
        PROVE  f[j] = IF j = 0 THEN 1 ELSE 256 * f[j - 1]
    <3>1. CASE j = 0
      BY <2>2, <3>1 DEF IsRecursion
    <3>2. CASE j # 0
      <4>1. j \in 1..N /\ f[j - 1] \in V
        BY <1>0, <3>2
      <4>2. f[j] = H[<<j, f[j - 1]>>]
        BY <2>2, <4>1 DEF IsRecursion
      <4>3. H[<<j, f[j - 1]>>] = 256 * f[j - 1]
        BY <4>1
      <4> QED
        BY <3>2, <4>2, <4>3
    <3> QED
      BY <3>1, <3>2
  <2>4. f = [j \in 0..N |-> f[j]]
    OBVIOUS
  <2>5. f = [j \in 0..N |-> IF j = 0 THEN 1 ELSE 256 * f[j - 1]]
    BY <2>3, <2>4, Zenon
  <2> QED
    BY <2>5, ZenonT(40)
<1>2. Is(g)
  BY <1>1
<1>3. SizeMax = g[N] - 1
  BY DEF SizeMax
<1> HIDE DEF g, N
<1>4. /\ g[0] = 1 /\ DOMAIN g = 0..N
      /\ \A j \in 1..N : g[j] = 256 * g[j - 1]
  BY <1>0, <1>2
<1>5. \A j \in 0..N : g[j] \in V
  <2> DEFINE T == {j \in 0..N : g[j] \in V}
  <2>1. 0 \in T
    BY <1>0, <1>4
  <2>2. \A k \in 1..N : k - 1 \in T => k \in T
    BY <1>0, <1>4
  <2> HIDE DEF T
  <2>3. \A k \in 0..N : k \in T
    BY <1>0, <2>1, <2>2, InductionUpTo
  <2> QED
    BY <2>3 DEF T
<1>6. g = [j \in 0..N |-> g[j]]
  BY <1>2
<1>7. g \in [0..N -> V]
  BY <1>5, <1>6
<1> QED
  BY <1>3, <1>4, <1>7 DEF N

\* There is a largest size.
LEMMA SizeIsNat == SizeMax \in Nat
<1>1. PICK N \in Nat : N = LengthBytes
  BY CodecAssumption
<1>2. PICK size \in [0..N -> Nat \ {0}] : SizeMax = size[N] - 1
  BY <1>1, SizeFacts
<1>3. size[N] \in Nat \ {0}
  OBVIOUS
<1> QED
  BY <1>2, <1>3

\* The longest form of the length holds what fits in memory.
LEMMA LongFormHolds ==
  ASSUME NEW len \in Nat, len <= SizeMax
  PROVE  SizeMax \in Nat /\ Shifted(len)[LengthBytes] = 0
<1>1. LengthBytes \in 3..8
  BY CodecAssumption
<1>2. PICK N \in 0..8 : N = LengthBytes
  BY <1>1
<1>3. PICK size \in [0..N -> Nat \ {0}] :
        /\ size[0] = 1 /\ \A n \in 1..N : size[n] = 256 * size[n - 1]
        /\ SizeMax = size[N] - 1
  BY <1>2, SizeFacts
<1> DEFINE T == {j \in 0..N : Shifted(len)[j] < size[N - j]}
<1>4. 0 \in T
  <2>1. Shifted(len)[0] = len /\ N - 0 = N /\ size[N] \in Nat
    <3>1. Shifted(len)[0] = len
      BY ShiftedFacts, Zenon
    <3> QED
      BY <3>1
  <2>2. len < size[N]
    BY <1>3, <2>1
  <2> QED
    BY <2>1, <2>2
<1>5. ASSUME NEW j \in 1..N, j - 1 \in T
      PROVE  j \in T
  <2>0. j \in 1..8 /\ j - 1 \in 0..8
    OBVIOUS
  <2>1. Shifted(len)[j] = Shifted(len)[j - 1] \div 256
    BY <2>0, ShiftedNext, ZenonT(40)
  <2>2. PICK x \in Nat : x = Shifted(len)[j - 1]
    BY <2>0, ShiftedAt
  <2>3. N - (j - 1) \in 1..N /\ (N - (j - 1)) - 1 = N - j /\ N - j \in 0..N
    OBVIOUS
  <2>4. PICK y \in Nat : y = size[N - j]
    BY <2>3
  <2>5. size[N - (j - 1)] = 256 * y
    BY <1>3, <2>3, <2>4
  <2>6. x < 256 * y
    BY <1>5, <2>2, <2>5
  <2>7. x \div 256 < y
    BY <2>6, SMT
  <2> QED
    BY <2>1, <2>2, <2>4, <2>7
<1>6. N \in T
  <2> HIDE DEF T
  <2>1. N \in Nat /\ \A k \in 1..N : k - 1 \in T => k \in T
    BY <1>5
  <2>2. \A k \in 0..N : k \in T
    BY <1>4, <2>1, InductionUpTo
  <2> QED
    BY <2>2
<1>7. PICK x \in Nat : x = Shifted(len)[N]
  BY ShiftedAt
<1>8. x < 1
  <2>1. N - N = 0
    OBVIOUS
  <2> QED
    BY <1>3, <1>6, <1>7, <2>1
<1>9. SizeMax \in Nat
  <2>1. size[N] \in Nat \ {0}
    OBVIOUS
  <2> QED
    BY <1>3, <2>1
<1> QED
  BY <1>2, <1>7, <1>8, <1>9

-----------------------------------------------------------------------------
(* Masking. *)

\* The byte of the key for position i.
KeyAt(i) == ((i - 1) % 4) + 1

\* The blocks of eight, the block of four and the rest use the same byte of the key.
LEMMA Blocks ==
  ASSUME NEW n \in Nat, NEW i \in 1..n, NEW in8 \in Int, in8 = n - (n % 8)
  PROVE  /\ (((i - 1) % 8) % 4) + 1 = KeyAt(i)
         /\ n - in8 >= 4 /\ ~(i <= in8) /\ i <= in8 + 4 => i - in8 = KeyAt(i)
         /\ KeyAt(i) \in 1..4
<1>1. PICK q \in Int : in8 = 8 * q
  <2>1. n - (n % 8) = 8 * (n \div 8) /\ n \div 8 \in Int
    BY SMT
  <2> QED
    BY <2>1
<1>2. (((i - 1) % 8) % 4) + 1 = KeyAt(i)
  BY SMT DEF KeyAt
<1>3. ASSUME ~(i <= in8), i <= in8 + 4
      PROVE  i - in8 = KeyAt(i)
  BY <1>1, <1>3, SMT DEF KeyAt
<1>4. KeyAt(i) \in 1..4
  BY SMT DEF KeyAt
<1> QED
  BY <1>2, <1>3, <1>4

\* Masking byte by byte.
LEMMA MaskIs ==
  ASSUME NEW src \in Seq(Byte), NEW mask
  PROVE  MaskPayload(src, mask) = [i \in 1..Len(src) |-> XorByte(src[i], mask[KeyAt(i)])]
<1> DEFINE n == Len(src)
           in8 == n - (n % 8)
           in4 == in8 + (IF n - in8 >= 4 THEN 4 ELSE 0)
<1>1. n \in Nat /\ in8 \in Int
  OBVIOUS
<1>2. ASSUME NEW i \in 1..n
      PROVE  (IF i <= in8 THEN XorByte(src[i], mask[(((i - 1) % 8) % 4) + 1])
              ELSE IF i <= in4 THEN XorByte(src[i], mask[i - in8])
              ELSE XorByte(src[i], mask[((i - 1) % 4) + 1]))
             = XorByte(src[i], mask[KeyAt(i)])
  <2>1. /\ (((i - 1) % 8) % 4) + 1 = KeyAt(i)
        /\ n - in8 >= 4 /\ ~(i <= in8) /\ i <= in8 + 4 => i - in8 = KeyAt(i)
    BY <1>1, Blocks
  <2>2. ~(i <= in8) /\ i <= in4 => n - in8 >= 4 /\ i <= in8 + 4
    <3> HIDE DEF in8
    <3> QED
      BY <1>1
  <2> HIDE DEF in8, in4, n
  <2> QED
    BY <2>1, <2>2 DEF KeyAt
<1> QED
  BY <1>2 DEF MaskPayload

\* Masking gives bytes, and masking again gives the payload.
LEMMA MaskTwice ==
  ASSUME NEW src \in Seq(Byte), NEW mask \in Seq(Byte), Len(mask) = 4
  PROVE  /\ MaskPayload(src, mask) \in Seq(Byte)
         /\ Len(MaskPayload(src, mask)) = Len(src)
         /\ MaskPayload(MaskPayload(src, mask), mask) = src
<1> DEFINE n == Len(src)
           out == MaskPayload(src, mask)
<1>1. n \in Nat
  OBVIOUS
<1>2. ASSUME NEW i \in 1..n
      PROVE  /\ src[i] \in Byte /\ mask[KeyAt(i)] \in Byte
             /\ XorByte(src[i], mask[KeyAt(i)]) \in Byte
             /\ XorByte(XorByte(src[i], mask[KeyAt(i)]), mask[KeyAt(i)]) = src[i]
  <2>1. KeyAt(i) \in 1..4
    <3>1. n - (n % 8) \in Int
      <4> HIDE DEF n
      <4> QED
        BY <1>1
    <3> QED
      BY <1>1, <3>1, Blocks
  <2>2. src[i] \in Byte
    BY ElementOfSeq
  <2>3. mask[KeyAt(i)] \in Byte
    BY <2>1, ElementOfSeq
  <2> QED
    BY <2>2, <2>3, XorAssumption
<1>3. out = [i \in 1..n |-> XorByte(src[i], mask[KeyAt(i)])]
  BY MaskIs
<1> HIDE DEF out
<1>4. out \in Seq(Byte) /\ Len(out) = n
  BY <1>1, <1>2, <1>3
<1>5. MaskPayload(out, mask) = [i \in 1..n |-> XorByte(out[i], mask[KeyAt(i)])]
  BY <1>4, MaskIs
<1>6. \A i \in 1..n : XorByte(out[i], mask[KeyAt(i)]) = src[i]
  BY <1>2, <1>3
<1>7. MaskPayload(out, mask) = [i \in 1..n |-> src[i]]
  BY <1>5, <1>6
<1>8. src = [i \in 1..n |-> src[i]]
  BY <1>1
<1>9. MaskPayload(out, mask) = src
  BY <1>7, <1>8, Zenon
<1> QED
  BY <1>4, <1>9 DEF out

-----------------------------------------------------------------------------
(* The first two bytes. *)

FirstByte(op, flags) ==
  (op % 16) + Bit(flags, {"FIN"}, 128) + Bit(flags, {"COMPRESS", "RSV1"}, 64)
    + Bit(flags, {"RSV2"}, 32) + Bit(flags, {"RSV3"}, 16)

\* Five numbers that share a byte come apart again.
LEMMA BitsApart ==
  ASSUME NEW o \in 0..15, NEW p \in {0, 128}, NEW q \in {0, 64}, NEW r \in {0, 32}, NEW t \in {0, 16},
         NEW v \in Int, v = o + p + q + r + t
  PROVE  /\ v \in Byte /\ v % 16 = o
         /\ v \div 128 = 1 <=> p = 128
         /\ (v \div 64) % 2 = 1 <=> q = 64
         /\ (v \div 32) % 2 = 1 <=> r = 32
         /\ (v \div 16) % 2 = 1 <=> t = 16
<1>1. v \in Byte
  BY SMT DEF Byte
<1>2. v % 16 = o
  BY SMT
<1>3. v \div 128 = 1 <=> p = 128
  BY SMT
<1>4. (v \div 64) % 2 = 1 <=> q = 64
  BY SMT
<1>5. (v \div 32) % 2 = 1 <=> r = 32
  BY SMT
<1>6. (v \div 16) % 2 = 1 <=> t = 16
  BY SMT
<1> QED
  BY <1>1, <1>2, <1>3, <1>4, <1>5, <1>6

\* FIN, the reserved bits and MASK are in their places.
RightBits(b0, b1, flags) ==
  /\ b0 \div 128 = 1 <=> "FIN" \in flags
  /\ (b0 \div 64) % 2 = 1 <=> flags \cap {"COMPRESS", "RSV1"} # {}
  /\ (b0 \div 32) % 2 = 1 <=> "RSV2" \in flags
  /\ (b0 \div 16) % 2 = 1 <=> "RSV3" \in flags
  /\ b1 \div 128 = 1 <=> "MASK" \in flags

Header(b0, b1, op, flags, short) ==
  /\ b0 \in Byte /\ b1 \in Byte /\ b0 % 16 = op /\ b1 % 128 = short
  /\ RightBits(b0, b1, flags) /\ ReadFlags(b0, b1) = WireFlags(flags)

\* unpack() finds the opcode and the flags that pack() put there.
LEMMA HeaderReadBack ==
  ASSUME NEW op \in 0..15, NEW flags \in SUBSET FlagNames, NEW short \in 0..127,
         NEW b0, b0 = FirstByte(op, flags), NEW b1, b1 = Bit(flags, {"MASK"}, 128) + short
  PROVE  Header(b0, b1, op, flags, short)
<1> DEFINE p == Bit(flags, {"FIN"}, 128)
           q == Bit(flags, {"COMPRESS", "RSV1"}, 64)
           r == Bit(flags, {"RSV2"}, 32)
           t == Bit(flags, {"RSV3"}, 16)
           m == Bit(flags, {"MASK"}, 128)
<1>1. /\ p \in {0, 128} /\ (p = 128 <=> "FIN" \in flags)
      /\ q \in {0, 64} /\ (q = 64 <=> "COMPRESS" \in flags \/ "RSV1" \in flags)
      /\ r \in {0, 32} /\ (r = 32 <=> "RSV2" \in flags)
      /\ t \in {0, 16} /\ (t = 16 <=> "RSV3" \in flags)
      /\ m \in {0, 128} /\ (m = 128 <=> "MASK" \in flags)
  BY DEF Bit
<1>2. b0 = (op % 16) + p + q + r + t /\ b1 = m + short
  BY DEF FirstByte
<1> HIDE DEF p, q, r, t, m
<1>3. b0 \in Int /\ b0 = op + p + q + r + t
  BY <1>1, <1>2, SMT
<1>4. /\ b0 \in Byte /\ b0 % 16 = op
      /\ b0 \div 128 = 1 <=> p = 128
      /\ (b0 \div 64) % 2 = 1 <=> q = 64
      /\ (b0 \div 32) % 2 = 1 <=> r = 32
      /\ (b0 \div 16) % 2 = 1 <=> t = 16
  BY <1>1, <1>3, BitsApart
<1>5. b1 \in Byte /\ b1 % 128 = short /\ (b1 \div 128 = 1 <=> m = 128)
  BY <1>1, <1>2, SMT DEF Byte
<1>6. ReadFlags(b0, b1) = WireFlags(flags)
  <2>1. ASSUME NEW f
        PROVE  f \in ReadFlags(b0, b1) <=> f \in WireFlags(flags)
    <3>1. f \in ReadFlags(b0, b1) <=> \/ f = "FIN" /\ b0 \div 128 = 1
                                      \/ f = "RSV1" /\ (b0 \div 64) % 2 = 1
                                      \/ f = "RSV2" /\ (b0 \div 32) % 2 = 1
                                      \/ f = "RSV3" /\ (b0 \div 16) % 2 = 1
                                      \/ f = "MASK" /\ b1 \div 128 = 1
      BY DEF ReadFlags
    <3>2. f \in WireFlags(flags) <=> \/ f \in flags /\ f # "COMPRESS"
                                     \/ f = "RSV1" /\ "COMPRESS" \in flags
      BY DEF WireFlags
    <3>3. f \in flags => f \in FlagNames
      OBVIOUS
    <3> QED
      BY <1>1, <1>4, <1>5, <3>1, <3>2, <3>3 DEF FlagNames
  <2> QED
    BY <2>1
<1>7. RightBits(b0, b1, flags)
  BY <1>1, <1>4, <1>5 DEF RightBits
<1> QED
  BY <1>4, <1>5, <1>6, <1>7 DEF Header

-----------------------------------------------------------------------------
(* Where the parts of a frame are. *)

ExtOf(len) == IF len <= MaxShort THEN 0 ELSE IF len <= Max16 THEN 2 ELSE LengthBytes
ShortOf(len) == IF len <= MaxShort THEN len ELSE IF len <= Max16 THEN MaxShort + 1 ELSE MaxShort + 2
KeyOf(flags) == IF "MASK" \in flags THEN 4 ELSE 0
BodyOf(payload, flags, mask) == IF "MASK" \in flags THEN MaskPayload(payload, mask) ELSE payload
StartOf(payload, flags) == 2 + ExtOf(Len(payload)) + KeyOf(flags)

\* What pack() is given: bytes that fit in memory with their header, and a key.
Packable(payload, op, flags, mask) ==
  /\ payload \in Seq(Byte) /\ Len(payload) + LengthBytes + 6 <= SizeMax
  /\ op \in 0..15 /\ flags \in SUBSET FlagNames
  /\ mask \in Seq(Byte) /\ Len(mask) = 4

\* c is m elements, those of a, and then n elements, those of b.
IsConcat(c, a, m, b, n) ==
  /\ c \in Seq(Byte) /\ Len(c) = m + n
  /\ \A i \in 1..m : c[i] = a[i]
  /\ \A i \in 1..n : c[m + i] = b[i]

\* The elements of two sequences put together.
LEMMA ConcatAt ==
  ASSUME NEW a \in Seq(Byte), NEW b \in Seq(Byte)
  PROVE  IsConcat(a \o b, a, Len(a), b, Len(b))
  BY DEF IsConcat

\* The length is in one of three forms.
LEMMA Forms ==
  ASSUME NEW len \in Nat, len + LengthBytes + 6 <= SizeMax
  PROVE  /\ ExtOf(len) \in 0..8 /\ ShortOf(len) \in 0..127
         /\ ExtOf(len) > 0 => Shifted(len)[ExtOf(len)] = 0
         /\ ShortOf(len) = MaxShort + 1 <=> ExtOf(len) = 2
         /\ ShortOf(len) = MaxShort + 2 <=> ExtOf(len) = LengthBytes
         /\ ExtOf(len) = 0 => ShortOf(len) = len
         /\ ExtOf(len) \in {0, 2, LengthBytes}
         /\ SizeMax \in Nat
<1>1. /\ MaxShort \in 2..125 /\ Max16 \in MaxShort..65535
      /\ LengthBytes \in 3..8
  BY CodecAssumption
<1>2. SizeMax \in Nat
  <2>1. PICK N \in Nat : N = LengthBytes
    BY <1>1
  <2>2. PICK size \in [0..N -> Nat \ {0}] : SizeMax = size[N] - 1
    BY <2>1, SizeFacts
  <2>3. size[N] \in Nat \ {0}
    OBVIOUS
  <2> QED
    BY <2>2, <2>3
<1>3. len <= SizeMax
  BY <1>1, <1>2
<1>4. ExtOf(len) > 0 => Shifted(len)[ExtOf(len)] = 0
  <2>1. CASE len <= MaxShort
    BY <2>1 DEF ExtOf
  <2>2. CASE ~(len <= MaxShort) /\ len <= Max16
    <3>1. len <= 65535
      BY <1>1, <2>2
    <3> QED
      BY <2>2, <3>1, TwoBytesHold DEF ExtOf
  <2>3. CASE ~(len <= MaxShort) /\ ~(len <= Max16)
    BY <1>3, <2>3, LongFormHolds DEF ExtOf
  <2> QED
    BY <2>1, <2>2, <2>3
<1>5. /\ ExtOf(len) \in 0..8 /\ ShortOf(len) \in 0..127
      /\ ShortOf(len) = MaxShort + 1 <=> ExtOf(len) = 2
      /\ ShortOf(len) = MaxShort + 2 <=> ExtOf(len) = LengthBytes
      /\ ExtOf(len) = 0 => ShortOf(len) = len
      /\ ExtOf(len) \in {0, 2, LengthBytes}
  BY <1>1 DEF ExtOf, ShortOf
<1> QED
  BY <1>2, <1>4, <1>5

\* The length field is the short length and the bytes of the long one.
LEMMA LengthFieldIs ==
  ASSUME NEW len \in Nat, len + LengthBytes + 6 <= SizeMax, NEW top \in {0, 128}
  PROVE  LengthField(len, top) = <<top + ShortOf(len)>> \o BigEndian(len, ExtOf(len))
<1>1. CASE len <= MaxShort
  <2>1. BigEndian(len, 0) = <<>>
    BY DEF BigEndian
  <2>2. LengthField(len, top) = <<top + len>> /\ ExtOf(len) = 0 /\ ShortOf(len) = len
    BY <1>1 DEF LengthField, ExtOf, ShortOf
  <2>3. <<top + len>> \o <<>> = <<top + len>>
    OBVIOUS
  <2> QED
    BY <2>1, <2>2, <2>3
<1>2. CASE ~(len <= MaxShort)
  <2>1. MaxShort \in Nat
    BY CodecAssumption
  <2>2. top + MaxShort + 1 = top + (MaxShort + 1) /\ top + MaxShort + 2 = top + (MaxShort + 2)
    BY <2>1
  <2> QED
    BY <1>2, <2>2 DEF LengthField, ExtOf, ShortOf
<1> QED
  BY <1>1, <1>2

\* A packed frame, part by part.
LEMMA Layout ==
  ASSUME NEW payload, NEW op, NEW flags, NEW mask, Packable(payload, op, flags, mask),
         NEW bytes, bytes = PackPayload(payload, op, flags, mask),
         NEW len, len = Len(payload)
  PROVE  /\ bytes \in Seq(Byte) /\ Len(bytes) = StartOf(payload, flags) + len
         /\ bytes[1] = FirstByte(op, flags)
         /\ bytes[2] = Bit(flags, {"MASK"}, 128) + ShortOf(len)
         /\ \A k \in 1..ExtOf(len) : bytes[2 + k] = BigEndian(len, ExtOf(len))[k]
         /\ "MASK" \in flags => \A k \in 1..4 : bytes[2 + ExtOf(len) + k] = mask[k]
         /\ \A k \in 1..len : bytes[StartOf(payload, flags) + k] = BodyOf(payload, flags, mask)[k]
<1> DEFINE top == Bit(flags, {"MASK"}, 128)
           ext == ExtOf(len)
           first == <<FirstByte(op, flags)>>
           short == <<top + ShortOf(len)>>
           big == BigEndian(len, ext)
           body == BodyOf(payload, flags, mask)
           key == IF "MASK" \in flags THEN mask ELSE <<>>
<1>1. /\ payload \in Seq(Byte) /\ len \in Nat /\ len + LengthBytes + 6 <= SizeMax
      /\ op \in 0..15 /\ flags \in SUBSET FlagNames /\ mask \in Seq(Byte) /\ Len(mask) = 4
  BY DEF Packable
<1>2. ext \in 0..8 /\ ShortOf(len) \in 0..127
  BY <1>1, Forms
<1>3. top \in {0, 128}
  BY DEF Bit
<1>4. FirstByte(op, flags) \in Byte /\ top + ShortOf(len) \in Byte
  <2>1. Header(FirstByte(op, flags), top + ShortOf(len), op, flags, ShortOf(len))
    BY <1>1, <1>2, HeaderReadBack
  <2> QED
    BY <2>1 DEF Header
<1>5. big \in Seq(Byte) /\ Len(big) = ext
  BY <1>1, <1>2, BigEndianFacts, ZenonT(40)
<1>6. body \in Seq(Byte) /\ Len(body) = len
  BY <1>1, MaskTwice DEF BodyOf
<1>7. key \in Seq(Byte) /\ Len(key) = KeyOf(flags) /\ ("MASK" \in flags => key = mask)
  <2>1. <<>> \in Seq(Byte) /\ Len(<<>>) = 0
    OBVIOUS
  <2>2. CASE "MASK" \in flags
    BY <1>1, <2>2 DEF KeyOf
  <2>3. CASE "MASK" \notin flags
    <3>1. key = <<>> /\ KeyOf(flags) = 0
      BY <2>3 DEF KeyOf
    <3> QED
      BY <2>1, <2>3, <3>1
  <2> QED
    BY <2>2, <2>3
<1>8. first \in Seq(Byte) /\ Len(first) = 1 /\ first[1] = FirstByte(op, flags)
  BY <1>4
<1>9. short \in Seq(Byte) /\ Len(short) = 1 /\ short[1] = top + ShortOf(len)
  BY <1>4
<1>10. bytes = (first \o (short \o big)) \o (key \o body)
  <2>1. LengthField(len, top) = short \o big
    BY <1>1, <1>3, LengthFieldIs, ZenonT(40)
  <2>2. (IF "MASK" \in flags THEN mask \o MaskPayload(payload, mask) ELSE payload) = key \o body
    <3>1. CASE "MASK" \in flags
      BY <3>1 DEF BodyOf
    <3>2. CASE "MASK" \notin flags
      <4>1. key = <<>> /\ body = payload
        BY <3>2 DEF BodyOf
      <4>2. <<>> \o payload = payload
        BY <1>1
      <4> QED
        BY <3>2, <4>1, <4>2
    <3> QED
      BY <3>1, <3>2
  <2> HIDE DEF big, key, body, short
  <2> QED
    BY <2>1, <2>2 DEF PackPayload, FirstByte
<1> HIDE DEF first, short, big, key, body, top, ext
<1>11. ext \in Nat /\ 1 \in Nat /\ 1 + ext \in Nat /\ KeyOf(flags) \in Nat
  BY <1>2 DEF KeyOf
<1>12. PICK lf : lf = short \o big
  OBVIOUS
<1>13. IsConcat(lf, short, 1, big, ext)
  BY <1>5, <1>9, <1>12, ConcatAt
<1>14. PICK head : head = first \o lf
  OBVIOUS
<1>14a. IsConcat(head, first, 1, lf, 1 + ext)
  <2>1. lf \in Seq(Byte) /\ Len(lf) = 1 + ext
    BY <1>13 DEF IsConcat
  <2> QED
    BY <1>8, <1>14, <2>1, ConcatAt
<1>15. /\ head \in Seq(Byte) /\ Len(head) = 2 + ext /\ head[1] = FirstByte(op, flags)
       /\ head[2] = top + ShortOf(len)
       /\ \A k \in 1..ext : head[2 + k] = big[k]
  <2>1. head \in Seq(Byte) /\ Len(head) = 2 + ext /\ head[1] = FirstByte(op, flags)
    BY <1>8, <1>11, <1>14a DEF IsConcat
  <2>2. head[2] = lf[1] /\ lf[1] = top + ShortOf(len)
    <3>1. 1 \in 1..1 /\ 1 \in 1..(1 + ext) /\ 1 + 1 = 2
      BY <1>11
    <3> QED
      BY <1>9, <1>13, <1>14a, <3>1 DEF IsConcat
  <2>3. \A k \in 1..ext : 1 + k \in 1..(1 + ext) /\ 1 + (1 + k) = 2 + k
    BY <1>11
  <2>4. \A k \in 1..ext : head[2 + k] = lf[1 + k]
    BY <1>14a, <2>3 DEF IsConcat
  <2>5. \A k \in 1..ext : head[2 + k] = big[k]
    BY <1>13, <2>4 DEF IsConcat
  <2> QED
    BY <2>1, <2>2, <2>5
<1>17. PICK rest : rest = key \o body
  OBVIOUS
<1>16. IsConcat(rest, key, KeyOf(flags), body, len)
  BY <1>6, <1>7, <1>17, ConcatAt
<1>18. bytes = head \o rest
  BY <1>10, <1>12, <1>14, <1>17
<1>19. IsConcat(bytes, head, 2 + ext, rest, KeyOf(flags) + len)
  <2>1. rest \in Seq(Byte) /\ Len(rest) = KeyOf(flags) + len
    BY <1>16 DEF IsConcat
  <2> QED
    BY <1>15, <1>18, <2>1, ConcatAt
<1>20. KeyOf(flags) \in {0, 4} /\ ("MASK" \in flags => KeyOf(flags) = 4)
  BY DEF KeyOf
<1>21. StartOf(payload, flags) = 2 + ext + KeyOf(flags)
  BY DEF StartOf, ext
<1>22. Len(bytes) = StartOf(payload, flags) + len
  BY <1>1, <1>2, <1>19, <1>20, <1>21 DEF IsConcat
<1>23. bytes[1] = FirstByte(op, flags) /\ bytes[2] = top + ShortOf(len)
  <2>1. 1 \in 1..(2 + ext) /\ 2 \in 1..(2 + ext)
    BY <1>2
  <2> QED
    BY <1>15, <1>19, <2>1 DEF IsConcat
<1>24. \A k \in 1..ext : bytes[2 + k] = big[k]
  <2>1. \A k \in 1..ext : 2 + k \in 1..(2 + ext)
    BY <1>2
  <2> QED
    BY <1>15, <1>19, <2>1 DEF IsConcat
<1>25. "MASK" \in flags => \A k \in 1..4 : bytes[2 + ext + k] = mask[k]
  <2>1. "MASK" \in flags => \A k \in 1..4 : k \in 1..(KeyOf(flags) + len) /\ k \in 1..KeyOf(flags)
    BY <1>1, <1>20
  <2> QED
    BY <1>7, <1>16, <1>19, <2>1 DEF IsConcat
<1>26. \A k \in 1..len : bytes[StartOf(payload, flags) + k] = body[k]
  <2>1. ASSUME NEW k \in 1..len
        PROVE  /\ KeyOf(flags) + k \in 1..(KeyOf(flags) + len)
               /\ StartOf(payload, flags) + k = 2 + ext + (KeyOf(flags) + k)
    BY <1>1, <1>2, <1>20, <1>21
  <2> QED
    BY <1>16, <1>19, <2>1 DEF IsConcat
<1> QED
  BY <1>19, <1>22, <1>23, <1>24, <1>25, <1>26 DEF IsConcat, top, ext, big, body

-----------------------------------------------------------------------------
(* Unpacking a packed frame. *)

\* unpack() has no objection to the frame.
Readable(payload, op, flags) ==
  /\ OpcodeIsValid(op)
  /\ OpcodeIsControl(op) => "FIN" \in flags /\ Len(payload) <= MaxShort
  /\ op = 8 => Len(payload) # 1 /\ IsValidUtf8(SubSeq(payload, 3, Len(payload)))
  /\ op = 1 /\ "FIN" \in flags => IsValidUtf8(payload)

\* As far as both go, they are the same.
Agrees(in, bytes) == \A i \in 1..Len(in) : i <= Len(bytes) => in[i] = bytes[i]

FrameOf(payload, op, flags) == [op |-> op, flags |-> WireFlags(flags), payload |-> payload]
Unpacked(payload, op, flags, n) ==
  [result |-> "frame", reach |-> n, consumed |-> n, frame |-> FrameOf(payload, op, flags)]

\* A sum that fits in a size_t.
LEMMA SizeSumIs ==
  ASSUME NEW a \in Nat, NEW b \in Nat, b <= SizeMax - a
  PROVE  SizeSum(a, b) = a + b
<1>1. PICK size \in Nat : size = SizeMax
  BY SizeIsNat
<1>2. a + b \in 0..size
  BY <1>1
<1>3. (a + b) % (size + 1) = a + b
  BY <1>1, <1>2, SMT
<1> QED
  BY <1>1, <1>3 DEF SizeSum

\* What unpack() makes of the frame once it knows its parts.
LEMMA InterpretPacked ==
  ASSUME NEW payload \in Seq(Byte), NEW op, NEW flags, NEW pos \in Nat,
         Len(payload) <= SizeMax - pos
  PROVE  LET u == Interpret(op, WireFlags(flags), payload, pos, Len(payload))
         IN  /\ Readable(payload, op, flags) => u = Unpacked(payload, op, flags, pos + Len(payload))
             /\ ~Readable(payload, op, flags) => u.result = "throw"
<1>1. "FIN" \in WireFlags(flags) <=> "FIN" \in flags
  BY DEF WireFlags
<1>2. MaxShort \in Nat /\ Len(payload) \in Nat
  BY CodecAssumption
<1>3. SizeSum(pos, Len(payload)) = pos + Len(payload)
  BY <1>2, SizeSumIs
<1> DEFINE early == \/ ~OpcodeIsValid(op)
                    \/ OpcodeIsControl(op) /\ ("FIN" \notin WireFlags(flags) \/ Len(payload) > MaxShort)
                    \/ op = 8 /\ Len(payload) = 1
           late == \/ op = 8 /\ ~IsValidUtf8(SubSeq(payload, 3, Len(payload)))
                   \/ op = 1 /\ "FIN" \in WireFlags(flags) /\ ~IsValidUtf8(payload)
           end == pos + Len(payload)
           whole == [result |-> "frame", reach |-> end, consumed |-> SizeSum(pos, Len(payload)),
                     frame |-> [op |-> op, flags |-> WireFlags(flags), payload |-> payload]]
           u == Interpret(op, WireFlags(flags), payload, pos, Len(payload))
<1>4. u = IF early THEN Throw(pos) ELSE IF late THEN Throw(end) ELSE whole
  BY Zenon DEF Interpret
<1>5. Len(payload) > MaxShort <=> ~(Len(payload) <= MaxShort)
  BY <1>2
<1>6. Readable(payload, op, flags) <=> ~early /\ ~late
  BY <1>1, <1>5, Zenon DEF Readable
<1>7. whole = Unpacked(payload, op, flags, end)
  BY <1>3 DEF Unpacked, FrameOf
<1> HIDE DEF early, late, whole, end, u
<1>8. Throw(pos).result = "throw" /\ Throw(end).result = "throw"
  BY DEF Throw
<1>9. Readable(payload, op, flags) => u = Unpacked(payload, op, flags, end)
  BY <1>4, <1>6, <1>7
<1>10. ~Readable(payload, op, flags) => u.result = "throw"
  BY <1>4, <1>6, <1>8
<1> QED
  BY <1>9, <1>10 DEF u, end

\* The parts that unpack() looks for, when the header of a packed frame is there.
LEMMA Parts ==
  ASSUME NEW payload, NEW op, NEW flags, NEW mask, Packable(payload, op, flags, mask),
         NEW bytes, bytes = PackPayload(payload, op, flags, mask),
         NEW in \in Seq(Byte), Agrees(in, bytes), Len(in) >= 2
  PROVE  /\ in[1] % 16 = op /\ in[2] % 128 = ShortOf(Len(payload))
         /\ ReadFlags(in[1], in[2]) = WireFlags(flags)
         /\ Needed(in) = ExtOf(Len(payload))
         /\ ("MASK" \in WireFlags(flags) <=> "MASK" \in flags)
<1> DEFINE len == Len(payload)
<1>1. /\ payload \in Seq(Byte) /\ len \in Nat /\ len + LengthBytes + 6 <= SizeMax
      /\ op \in 0..15 /\ flags \in SUBSET FlagNames
  BY DEF Packable
<1>2. /\ bytes \in Seq(Byte) /\ Len(bytes) = StartOf(payload, flags) + len
      /\ bytes[1] = FirstByte(op, flags)
      /\ bytes[2] = Bit(flags, {"MASK"}, 128) + ShortOf(len)
  BY Layout
<1>3. /\ ExtOf(len) \in 0..8 /\ ShortOf(len) \in 0..127
      /\ ShortOf(len) = MaxShort + 1 <=> ExtOf(len) = 2
      /\ ShortOf(len) = MaxShort + 2 <=> ExtOf(len) = LengthBytes
      /\ ExtOf(len) \in {0, 2, LengthBytes}
  BY <1>1, Forms
<1>4. Len(bytes) >= 2
  <2>1. KeyOf(flags) \in {0, 4}
    BY DEF KeyOf
  <2>2. Len(bytes) = 2 + ExtOf(len) + KeyOf(flags) + len
    BY <1>2 DEF StartOf
  <2>3. \A e \in 0..8, k \in {0, 4}, n \in Nat : 2 + e + k + n >= 2
    OBVIOUS
  <2>4. len \in Nat /\ ExtOf(len) \in 0..8
    BY <1>1, <1>3
  <2> QED
    BY <2>1, <2>2, <2>3, <2>4, Zenon
<1>5. in[1] = bytes[1] /\ in[2] = bytes[2]
  <2>1. 1 \in 1..Len(in) /\ 2 \in 1..Len(in) /\ 1 <= Len(bytes) /\ 2 <= Len(bytes)
    BY <1>2, <1>4
  <2> QED
    BY <2>1 DEF Agrees
<1>6. Header(in[1], in[2], op, flags, ShortOf(len))
  BY <1>1, <1>2, <1>3, <1>5, HeaderReadBack
<1>7. Needed(in) = ExtOf(len)
  <2>1. in[2] % 128 = ShortOf(len)
    BY <1>6 DEF Header
  <2>2. MaxShort \in 2..125 /\ LengthBytes \in 3..8
    BY CodecAssumption
  <2> HIDE DEF len
  <2>3. CASE ExtOf(len) = 2
    BY <1>3, <2>1, <2>2, <2>3 DEF Needed
  <2>4. CASE ExtOf(len) = LengthBytes
    <3>1. ShortOf(len) = MaxShort + 2 /\ MaxShort + 2 # MaxShort + 1
      BY <1>3, <2>2, <2>4
    <3> QED
      BY <2>1, <2>4, <3>1 DEF Needed
  <2>5. CASE ExtOf(len) = 0
    <3>1. ShortOf(len) # MaxShort + 2 /\ ShortOf(len) # MaxShort + 1
      BY <1>3, <2>2, <2>5
    <3> QED
      BY <2>1, <2>5, <3>1 DEF Needed
  <2> QED
    BY <1>3, <2>3, <2>4, <2>5
<1>8. "MASK" \in WireFlags(flags) <=> "MASK" \in flags
  BY DEF WireFlags
<1> QED
  BY <1>6, <1>7, <1>8 DEF Header

\* A packed frame is not there until all its bytes are, and then unpack() returns or
\* refuses it, whatever follows it in the buffer.
LEMMA UnpackPacked ==
  ASSUME NEW payload, NEW op, NEW flags, NEW mask, Packable(payload, op, flags, mask),
         NEW bytes, bytes = PackPayload(payload, op, flags, mask),
         NEW in \in Seq(Byte), Agrees(in, bytes)
  PROVE  /\ Len(in) < Len(bytes) => Unpack(in) = Null
         /\ Len(in) >= Len(bytes) =>
              /\ Readable(payload, op, flags) => Unpack(in) = Unpacked(payload, op, flags, Len(bytes))
              /\ ~Readable(payload, op, flags) => Unpack(in).result = "throw"
<1> DEFINE len == Len(payload)
           ext == ExtOf(len)
           start == StartOf(payload, flags)
           body == BodyOf(payload, flags, mask)
<1>1. /\ payload \in Seq(Byte) /\ len \in Nat /\ len + LengthBytes + 6 <= SizeMax
      /\ op \in 0..15 /\ flags \in SUBSET FlagNames /\ mask \in Seq(Byte) /\ Len(mask) = 4
  BY DEF Packable
<1>2. /\ bytes \in Seq(Byte) /\ Len(bytes) = start + len
      /\ \A k \in 1..ext : bytes[2 + k] = BigEndian(len, ext)[k]
      /\ "MASK" \in flags => \A k \in 1..4 : bytes[2 + ext + k] = mask[k]
      /\ \A k \in 1..len : bytes[start + k] = body[k]
  BY Layout, SMTT(30)
<1>3. /\ ext \in 0..8 /\ SizeMax \in Nat /\ ext \in {0, 2, LengthBytes}
      /\ ext > 0 => Shifted(len)[ext] = 0
      /\ ext = 0 => ShortOf(len) = len
  BY <1>1, Forms
<1>4. KeyOf(flags) \in {0, 4} /\ start = 2 + ext + KeyOf(flags) /\ start \in Nat /\ start >= 2
  <2>1. KeyOf(flags) \in {0, 4}
    BY DEF KeyOf
  <2> QED
    BY <1>3, <2>1 DEF StartOf
<1>5. CASE Len(in) < 2
  <2>1. Unpack(in) = Null
    BY <1>5 DEF Unpack
  <2> QED
    BY <1>1, <1>2, <1>4, <1>5, <2>1
<1>6. CASE Len(in) >= 2
  <2>1. /\ in[1] % 16 = op /\ in[2] % 128 = ShortOf(len)
        /\ ReadFlags(in[1], in[2]) = WireFlags(flags)
        /\ Needed(in) = ext
        /\ ("MASK" \in WireFlags(flags) <=> "MASK" \in flags)
    BY <1>6, Parts
  <2> DEFINE read == IF ext = 0 THEN in[2] % 128 ELSE LengthAt(in, ext)
             raw == [i \in 1..read |-> Memory(in, start + i)]
             clear == IF KeyOf(flags) = 0 THEN raw
                      ELSE MaskPayload(raw, SubSeq(in, start - 3, start))
  <2>2. Unpack(in) = IF Len(in) < start THEN Null
                     ELSE IF ~IsThere(in, start, read) THEN Null
                     ELSE Interpret(op, WireFlags(flags), clear, start, read)
    <3>1. ~(Len(in) < 2)
      BY <1>6
    <3>2. (IF "MASK" \in ReadFlags(in[1], in[2]) THEN 4 ELSE 0) = KeyOf(flags)
      BY <2>1 DEF KeyOf
    <3>3. start = 2 + Needed(in) + (IF "MASK" \in ReadFlags(in[1], in[2]) THEN 4 ELSE 0)
      BY <1>4, <2>1, <3>2
    <3>4. Unpack(in) =
            LET e == Needed(in)
                key == IF "MASK" \in ReadFlags(in[1], in[2]) THEN 4 ELSE 0
                pos == 2 + e + key
            IN  IF Len(in) < pos THEN Null
                ELSE LET n == IF e = 0 THEN in[2] % 128 ELSE LengthAt(in, e)
                         r == [i \in 1..n |-> Memory(in, pos + i)]
                     IN  IF ~IsThere(in, pos, n) THEN Null
                         ELSE Interpret(in[1] % 16, ReadFlags(in[1], in[2]),
                                IF key = 0 THEN r ELSE MaskPayload(r, SubSeq(in, pos - 3, pos)),
                                pos, n)
      BY <3>1, Zenon DEF Unpack
    <3> HIDE DEF ext, start
    <3> QED
      BY <2>1, <3>2, <3>3, <3>4
  <2> HIDE DEF clear, raw, read
  <2>3. CASE Len(in) < start
    <3>1. Unpack(in) = Null
      BY <2>2, <2>3
    <3> QED
      BY <1>1, <1>2, <1>4, <2>3, <3>1
  <2>4. CASE ~(Len(in) < start)
    <3>0. Len(in) \in Nat /\ Len(in) >= start
      BY <1>4, <2>4
    <3>1. \A i \in 1..start : i \in 1..Len(in) /\ in[i] = bytes[i]
      <4>1. ASSUME NEW i \in 1..start
            PROVE  i \in 1..Len(in) /\ i <= Len(bytes)
        <5> HIDE DEF start
        <5> QED
          BY <1>1, <1>2, <1>4, <3>0
      <4> QED
        BY <4>1 DEF Agrees
    <3>2. read = len
      <4>1. CASE ext = 0
        BY <1>3, <2>1, <4>1 DEF read
      <4>2. CASE ext # 0
        <5>1. \A k \in 1..ext : 2 + k \in 1..start
          BY <1>3, <1>4
        <5>2. Announces(in, len, ext)
          BY <1>2, <3>1, <5>1 DEF Announces
        <5>3. ext > 0
          BY <1>3, <4>2
        <5>4. LengthAt(in, ext) = len
          BY <1>1, <1>3, <5>2, <5>3, LengthReadBack
        <5> QED
          BY <4>2, <5>4 DEF read
      <4> QED
        BY <4>1, <4>2
    <3>7. len <= SizeMax - start
      <4>1. LengthBytes \in 3..8
        BY CodecAssumption
      <4> QED
        BY <1>1, <1>3, <1>4, <4>1, SMTT(30)
    <3>3. IsThere(in, start, len) <=> Len(in) >= Len(bytes)
      <4>1. SizeSum(start, len) = start + len
        <5> HIDE DEF start, len
        <5> QED
          BY <1>1, <1>4, <3>7, SizeSumIs
      <4> QED
        BY <1>2, <3>7, <4>1 DEF IsThere
    <3>4. ASSUME Len(in) >= Len(bytes)
          PROVE  clear = payload
      <4>1. body \in Seq(Byte) /\ Len(body) = len
        BY <1>1, MaskTwice DEF BodyOf
      <4>2. ASSUME NEW i \in 1..len
            PROVE  Memory(in, start + i) = body[i]
        <5>1. start + i \in 1..Len(in) /\ start + i <= Len(bytes) /\ start + i <= Len(in)
          <6> HIDE DEF start, len
          <6> QED
            BY <1>1, <1>2, <1>4, <3>0, <3>4
        <5>2. in[start + i] = bytes[start + i]
          BY <5>1 DEF Agrees
        <5> QED
          BY <1>2, <5>1, <5>2 DEF Memory
      <4> HIDE DEF body, start, len, ext
      <4>3. raw = [i \in 1..len |-> body[i]]
        BY <3>2, <4>2 DEF raw
      <4>4. raw = body
        BY <4>1, <4>3
      <4>5. CASE "MASK" \notin flags
        BY <4>4, <4>5 DEF clear, KeyOf, BodyOf, body
      <4>6. CASE "MASK" \in flags
        <5>1. KeyOf(flags) = 4
          BY <4>6 DEF KeyOf
        <5>2. start = 2 + ext + 4 /\ start - 3 = 2 + ext + 1
          BY <1>3, <1>4, <5>1
        <5>3. /\ SubSeq(in, start - 3, start) \in Seq(Byte)
              /\ Len(SubSeq(in, start - 3, start)) = 4
              /\ \A k \in 1..4 : SubSeq(in, start - 3, start)[k] = in[start - 3 + k - 1]
          <6>1. start - 3 \in 1..Len(in) /\ start \in 1..Len(in) /\ start - (start - 3) + 1 = 4
                /\ start - 3 <= start
            BY <1>3, <1>4, <3>0, <5>2
          <6> QED
            BY <6>1, SubSeqProperties
        <5>4. ASSUME NEW k \in 1..4
              PROVE  SubSeq(in, start - 3, start)[k] = mask[k]
          <6>1. start - 3 + k - 1 = 2 + ext + k /\ 2 + ext + k \in 1..start
            BY <1>3, <1>4, <5>2
          <6>2. in[2 + ext + k] = bytes[2 + ext + k]
            BY <3>1, <6>1
          <6> QED
            BY <1>2, <4>6, <5>3, <6>1, <6>2
        <5>5. SubSeq(in, start - 3, start) = mask
          BY <1>1, <5>3, <5>4, SeqEqual
        <5>6. MaskPayload(MaskPayload(payload, mask), mask) = payload
          BY <1>1, MaskTwice
        <5>7. body = MaskPayload(payload, mask)
          BY <4>6 DEF BodyOf, body
        <5>8. clear = MaskPayload(raw, SubSeq(in, start - 3, start))
          BY <5>1 DEF clear
        <5> QED
          BY <4>4, <5>5, <5>6, <5>7, <5>8
      <4> QED
        BY <4>5, <4>6
    <3>5. CASE Len(in) < Len(bytes)
      <4>1. ~(Len(in) >= Len(bytes))
        BY <1>2, <3>0, <3>5
      <4> QED
        BY <2>2, <2>4, <3>2, <3>3, <3>5, <4>1
    <3>6. CASE ~(Len(in) < Len(bytes))
      <4>1. Len(in) >= Len(bytes)
        BY <1>2, <3>0, <3>6
      <4>2. Unpack(in) = Interpret(op, WireFlags(flags), payload, start, len)
        BY <2>2, <2>4, <3>2, <3>3, <3>4, <4>1
      <4>3. /\ Readable(payload, op, flags) => Unpack(in) = Unpacked(payload, op, flags, start + len)
            /\ ~Readable(payload, op, flags) => Unpack(in).result = "throw"
        <5>1. PICK pos \in Nat : pos = start
          BY <1>4
        <5>2. LET u == Interpret(op, WireFlags(flags), payload, pos, Len(payload))
              IN  /\ Readable(payload, op, flags) => u = Unpacked(payload, op, flags, pos + Len(payload))
                  /\ ~Readable(payload, op, flags) => u.result = "throw"
          BY <1>1, <3>7, <5>1, InterpretPacked
        <5> QED
          BY <4>2, <5>1, <5>2
      <4> QED
        BY <1>2, <3>6, <4>3
    <3> QED
      BY <3>5, <3>6
  <2> QED
    BY <2>3, <2>4
<1> QED
  BY <1>5, <1>6

-----------------------------------------------------------------------------
(* What the packing functions check, and what unpack() objects to. *)

\* unpack() has no objection to the frame as it comes from the wire.
IsReadable(f) == Readable(f.payload, f.op, f.flags)

Makers == {"pack", "close", "encode", "peer"}

\* Of a frame with a known maker, unpack() refuses what that maker did not check.
Told(maker, f) == Unchecked(maker, f) <=> ~IsReadable(f)

\* Only FIN matters, which is on the wire as it was given.
LEMMA FrameReadable ==
  ASSUME NEW payload, NEW op, NEW flags, NEW f, f = FrameOf(payload, op, flags)
  PROVE  /\ f.op = op /\ f.payload = payload
         /\ IsReadable(f) <=> Readable(payload, op, flags)
<1>1. f.op = op /\ f.payload = payload /\ f.flags = WireFlags(flags)
  BY DEF FrameOf
<1>2. "FIN" \in WireFlags(flags) <=> "FIN" \in flags
  BY DEF WireFlags
<1> QED
  BY <1>1, <1>2, Zenon DEF IsReadable, Readable

\* The codes and opcodes of the protocol.
LEMMA OpcodesAre ==
  ASSUME NEW op
  PROVE  /\ OpcodeIsValid(op) <=> op \in {0, 1, 2, 8, 9, 10}
         /\ OpcodeIsValid(op) => op \in 0..15
<1>1. DOMAIN Opcodes = {"Continuation", "Text", "Binary", "Close", "Ping", "Pong"}
  BY DEF Opcodes
<1>2. /\ Opcodes["Continuation"] = 0 /\ Opcodes["Text"] = 1 /\ Opcodes["Binary"] = 2
      /\ Opcodes["Close"] = 8 /\ Opcodes["Ping"] = 9 /\ Opcodes["Pong"] = 10
  BY DEF Opcodes
<1>3. OpcodeIsValid(op) <=> op \in {0, 1, 2, 8, 9, 10}
  BY <1>1, <1>2 DEF OpcodeIsValid
<1> QED
  BY <1>3

\* pack() of a string or a Frame.
LEMMA PackPackable ==
  ASSUME NEW payload \in Payloads, NEW op \in PackOpcodes, NEW flags \in FlagSets,
         PackAccepts(payload, op, flags), NEW mask \in Masks
  PROVE  Packable(payload, op, flags, mask)
<1>1. /\ payload \in Seq(Byte) /\ Len(payload) + LengthBytes + 8 <= SizeMax
      /\ mask \in Seq(Byte) /\ Len(mask) = 4 /\ flags \in SUBSET FlagNames
      /\ LengthBytes \in Nat
  BY CodecAssumption
<1>2. op \in 0..15
  BY OpcodesAre DEF PackAccepts
<1>3. Len(payload) + LengthBytes + 6 <= SizeMax
  BY <1>1, SizeIsNat
<1> QED
  BY <1>1, <1>2, <1>3 DEF Packable

\* Of what pack() accepts, unpack() refuses Close frames with a bad payload.
LEMMA PackTold ==
  ASSUME NEW payload, NEW op, NEW flags, PackAccepts(payload, op, flags)
  PROVE  Told("pack", FrameOf(payload, op, flags))
<1> DEFINE f == FrameOf(payload, op, flags)
           bad == op = 8 /\ (Len(payload) = 1 \/ ~IsValidUtf8(SubSeq(payload, 3, Len(payload))))
<1>1. f.op = op /\ f.payload = payload /\ (IsReadable(f) <=> Readable(payload, op, flags))
  BY FrameReadable
<1>2. Readable(payload, op, flags) <=> ~bad
  BY Zenon DEF Readable, PackAccepts
<1>3. "pack" # "encode"
  OBVIOUS
<1> HIDE DEF f
<1>4. Unchecked("pack", f) <=> bad
  BY <1>1, <1>3, Zenon DEF Unchecked
<1> QED
  BY <1>1, <1>2, <1>4 DEF Told, f

\* pack() of a CloseFrame: unpack() refuses none.
LEMMA CloseTold ==
  ASSUME NEW code \in Codes, NEW reason \in Payloads, NEW flags \in FlagSets, NEW mask \in Masks,
         CloseAccepted(code, reason), PackAccepts(ClosePayload(code, reason), 8, flags)
  PROVE  /\ Packable(ClosePayload(code, reason), 8, flags, mask)
         /\ Told("close", FrameOf(ClosePayload(code, reason), 8, flags))
<1> DEFINE payload == ClosePayload(code, reason)
           two == <<code \div 256, code % 256>>
<1>1. /\ reason \in Seq(Byte) /\ Len(reason) + LengthBytes + 8 <= SizeMax
      /\ mask \in Seq(Byte) /\ Len(mask) = 4 /\ flags \in SUBSET FlagNames
      /\ LengthBytes \in Nat /\ MaxShort \in 2..125
  BY CodecAssumption
<1>2. code \in 1000..4999
  BY DEF CloseAccepted, CloseCodeIsValid
<1>11. IsValidUtf8(reason)
  BY DEF CloseAccepted
<1>3. code \div 256 \in Byte /\ code % 256 \in Byte
  BY <1>2, SMT DEF Byte
<1>4. two \in Seq(Byte) /\ Len(two) = 2
  BY <1>3
<1>5. payload = two \o reason
  BY DEF ClosePayload
<1> HIDE DEF two, payload
<1>6. IsConcat(payload, two, 2, reason, Len(reason))
  BY <1>1, <1>4, <1>5, ConcatAt
<1>7. payload \in Seq(Byte) /\ Len(payload) = 2 + Len(reason) /\ Len(reason) \in Nat
  BY <1>1, <1>6 DEF IsConcat
<1>8. SubSeq(payload, 3, Len(payload)) = reason
  <2>1. 3 \in 1..(Len(payload) + 1) /\ Len(payload) \in 0..Len(payload)
    BY <1>7
  <2>2. /\ SubSeq(payload, 3, Len(payload)) \in Seq(Byte)
        /\ Len(SubSeq(payload, 3, Len(payload))) = Len(reason)
        /\ \A k \in 1..Len(reason) : SubSeq(payload, 3, Len(payload))[k] = payload[3 + k - 1]
    BY <1>7
  <2>3. \A k \in 1..Len(reason) : payload[3 + k - 1] = reason[k]
    <3>1. \A k \in 1..Len(reason) : 3 + k - 1 = 2 + k
      BY <1>7
    <3> QED
      BY <1>6, <3>1 DEF IsConcat
  <2> QED
    BY <1>1, <2>2, <2>3, SeqEqual
<1>9. Packable(payload, 8, flags, mask)
  <2>1. Len(payload) + LengthBytes + 6 <= SizeMax
    BY <1>1, <1>7, SizeIsNat
  <2> QED
    BY <1>1, <1>7, <2>1 DEF Packable
<1>10. Readable(payload, 8, flags)
  <2>1. PackAccepts(payload, 8, flags)
    BY DEF payload
  <2>2. Len(payload) # 1
    BY <1>7
  <2>3. IsValidUtf8(SubSeq(payload, 3, Len(payload)))
    BY <1>8, <1>11, Zenon
  <2>4. 8 # 1
    OBVIOUS
  <2> QED
    BY <2>1, <2>2, <2>3, <2>4, Zenon DEF Readable, PackAccepts
<1>12. IsReadable(FrameOf(payload, 8, flags))
  BY <1>10, FrameReadable
<1>13. ~Unchecked("close", FrameOf(payload, 8, flags))
  BY DEF Unchecked
<1> QED
  BY <1>9, <1>12, <1>13 DEF payload, Told

\* encode() is given what can be packed.
LEMMA EncodePackable ==
  ASSUME NEW payload \in Payloads, NEW type \in EncodeTypes,
         NEW flags \in {{"FIN"}, {"FIN", "MASK"}}, NEW mask \in Masks
  PROVE  Packable(payload, TypeOpcode(type), flags, mask)
<1>1. /\ payload \in Seq(Byte) /\ Len(payload) + LengthBytes + 8 <= SizeMax
      /\ mask \in Seq(Byte) /\ Len(mask) = 4 /\ LengthBytes \in Nat
      /\ type \in DOMAIN Opcodes
  BY CodecAssumption
<1>2. Len(payload) + LengthBytes + 6 <= SizeMax
  BY <1>1, SizeIsNat
<1>3. flags \in SUBSET FlagNames
  BY DEF FlagNames
<1>4. TypeOpcode(type) \in 0..15
  <2>1. OpcodeIsValid(TypeOpcode(type))
    BY <1>1 DEF OpcodeIsValid, TypeOpcode
  <2> QED
    BY <2>1, OpcodesAre
<1> QED
  BY <1>1, <1>2, <1>3, <1>4 DEF Packable

\* Of what encode() makes, unpack() refuses control frames that are too long and
\* Close frames with a bad payload.
LEMMA EncodeTold ==
  ASSUME NEW payload \in Seq(Byte), NEW type \in EncodeTypes,
         NEW flags \in {{"FIN"}, {"FIN", "MASK"}}, type = "Text" => IsValidUtf8(payload)
  PROVE  Told("encode", FrameOf(payload, TypeOpcode(type), flags))
<1> DEFINE op == TypeOpcode(type)
           f == FrameOf(payload, op, flags)
           long == OpcodeIsControl(op) /\ Len(payload) > MaxShort
           bad == op = 8 /\ (Len(payload) = 1 \/ ~IsValidUtf8(SubSeq(payload, 3, Len(payload))))
<1>1. OpcodeIsValid(op) /\ (op = 1 => type = "Text")
  <2>1. type \in DOMAIN Opcodes
    BY CodecAssumption
  <2>2. type \in {"Continuation", "Text", "Binary", "Close", "Ping", "Pong"}
    BY <2>1 DEF Opcodes
  <2>3. op = Opcodes[type]
    BY DEF TypeOpcode
  <2>4. /\ Opcodes["Continuation"] = 0 /\ Opcodes["Binary"] = 2 /\ Opcodes["Close"] = 8
        /\ Opcodes["Ping"] = 9 /\ Opcodes["Pong"] = 10
    BY DEF Opcodes
  <2>5. OpcodeIsValid(op)
    BY <2>1, <2>3 DEF OpcodeIsValid
  <2> HIDE DEF op
  <2>6. op = 1 => type = "Text"
    <3>1. op \in {0, 2, 8, 9, 10} \/ type = "Text"
      BY <2>2, <2>3, <2>4, Zenon
    <3> QED
      BY <3>1
  <2> QED
    BY <2>5, <2>6
<1>2. "FIN" \in flags
  OBVIOUS
<1>3. Len(payload) > MaxShort <=> ~(Len(payload) <= MaxShort)
  <2>1. MaxShort \in Nat /\ Len(payload) \in Nat
    BY CodecAssumption
  <2> QED
    BY <2>1
<1>4. f.op = op /\ f.payload = payload /\ (IsReadable(f) <=> Readable(payload, op, flags))
  BY FrameReadable
<1> HIDE DEF op, f
<1>5. Readable(payload, op, flags) <=> ~long /\ ~bad
  BY <1>1, <1>2, <1>3, Zenon DEF Readable
<1>6. Unchecked("encode", f) <=> long \/ bad
  BY <1>4, Zenon DEF Unchecked
<1> QED
  BY <1>4, <1>5, <1>6 DEF Told, f, op

-----------------------------------------------------------------------------
(* What is on its way, cut into frames. *)

\* The bytes are those of the frame, packed with some key.
IsPackOf(bytes, f) ==
  \E flags \in SUBSET FlagNames, mask \in Masks :
    /\ Packable(f.payload, f.op, flags, mask)
    /\ bytes = PackPayload(f.payload, f.op, flags, mask)
    /\ f = FrameOf(f.payload, f.op, flags)

\* The bytes in s are those of the frames in fs, one after the other.
IsCut(cut, s, fs) ==
  /\ cut \in [0..Len(fs) -> 0..Len(s)] /\ cut[0] = 0 /\ cut[Len(fs)] = Len(s)
  /\ \A i \in 1..Len(fs) : /\ cut[i - 1] <= cut[i]
                           /\ IsPackOf(SubSeq(s, cut[i - 1] + 1, cut[i]), fs[i])
Carries(s, fs) == \E cut \in [0..Len(fs) -> 0..Len(s)] : IsCut(cut, s, fs)

Frames == [op : 0..15, flags : SUBSET FlagNames, payload : Seq(Byte)]

\* No frames, no bytes.
LEMMA CarriesNothing ==
  ASSUME NEW s \in Seq(Byte)
  PROVE  Carries(s, <<>>) <=> s = <<>>
<1>1. ASSUME Carries(s, <<>>) PROVE s = <<>>
  <2>1. PICK cut : IsCut(cut, s, <<>>)
    BY <1>1 DEF Carries
  <2>2. Len(s) = 0
    BY <2>1 DEF IsCut
  <2> QED
    BY <2>2
<1>2. Carries(<<>>, <<>>)
  <2> DEFINE cut == [i \in 0..0 |-> 0]
  <2>1. Len(<<>>) = 0 /\ 1..0 = {} /\ cut \in [0..0 -> 0..0] /\ cut[0] = 0
    OBVIOUS
  <2> HIDE DEF cut
  <2>2. IsCut(cut, <<>>, <<>>)
    BY <2>1 DEF IsCut
  <2> QED
    BY <2>1, <2>2 DEF Carries
<1> QED
  BY <1>1, <1>2

\* A packed frame is of two bytes or more.
LEMMA PackedLength ==
  ASSUME NEW b, NEW f, IsPackOf(b, f)
  PROVE  b \in Seq(Byte) /\ Len(b) >= 2 /\ f \in Frames
<1>1. PICK flags \in SUBSET FlagNames, mask \in Masks :
        /\ Packable(f.payload, f.op, flags, mask)
        /\ b = PackPayload(f.payload, f.op, flags, mask)
        /\ f = FrameOf(f.payload, f.op, flags)
  BY DEF IsPackOf
<1> DEFINE payload == f.payload
<1>2. b \in Seq(Byte) /\ Len(b) = StartOf(payload, flags) + Len(payload)
  BY <1>1, Layout
<1>3. payload \in Seq(Byte) /\ f.op \in 0..15 /\ Len(payload) \in Nat
      /\ Len(payload) + LengthBytes + 6 <= SizeMax
  BY <1>1 DEF Packable
<1>4. ExtOf(Len(payload)) \in 0..8
  BY <1>3, Forms
<1>5. KeyOf(flags) \in {0, 4}
  BY DEF KeyOf
<1>6. \A e \in 0..8, k \in {0, 4}, n \in Nat : 2 + e + k + n >= 2
  OBVIOUS
<1>7. Len(b) >= 2
  BY <1>2, <1>3, <1>4, <1>5, <1>6, Zenon DEF StartOf
<1>8. WireFlags(flags) \in SUBSET FlagNames
  BY DEF WireFlags, FlagNames
<1> QED
  BY <1>1, <1>2, <1>3, <1>7, <1>8 DEF Frames, FrameOf

\* One frame more at the end.
LEMMA CarriesMore ==
  ASSUME NEW s \in Seq(Byte), NEW fs \in Seq(Frames), Carries(s, fs), NEW b, NEW f, IsPackOf(b, f)
  PROVE  Carries(s \o b, Append(fs, f))
<1> DEFINE k == Len(fs)
           t == s \o b
           gs == Append(fs, f)
<1>1. b \in Seq(Byte) /\ Len(b) >= 2 /\ f \in Frames
  BY PackedLength
<1>2. PICK cut \in [0..k -> 0..Len(s)] : IsCut(cut, s, fs)
  BY DEF Carries
<1>3. /\ cut[0] = 0 /\ cut[k] = Len(s)
      /\ \A i \in 1..k : cut[i - 1] <= cut[i] /\ IsPackOf(SubSeq(s, cut[i - 1] + 1, cut[i]), fs[i])
  BY <1>2 DEF IsCut
<1>4. k \in Nat /\ Len(gs) = k + 1 /\ gs[k + 1] = f /\ \A i \in 1..k : gs[i] = fs[i]
  BY <1>1
<1>5. /\ t \in Seq(Byte) /\ Len(t) = Len(s) + Len(b) /\ Len(s) \in Nat /\ Len(b) \in Nat
      /\ \A i \in 1..Len(s) : t[i] = s[i]
      /\ \A i \in 1..Len(b) : t[Len(s) + i] = b[i]
  BY <1>1, ConcatAt DEF IsConcat
<1> HIDE DEF t, gs, k
<1> DEFINE c == [i \in 0..(k + 1) |-> IF i = k + 1 THEN Len(t) ELSE cut[i]]
<1>6. /\ c \in [0..(k + 1) -> 0..Len(t)] /\ c[k + 1] = Len(t)
      /\ \A i \in 0..k : c[i] = cut[i]
  <2>1. \A i \in 0..(k + 1) : i # k + 1 => cut[i] \in 0..Len(s)
    BY <1>4
  <2>2. \A x \in 0..Len(s) : x \in 0..Len(t)
    BY <1>5
  <2>3. Len(t) \in 0..Len(t)
    BY <1>5
  <2>4. \A i \in 0..k : i \in 0..(k + 1) /\ i # k + 1
    BY <1>4
  <2> QED
    BY <1>4, <2>1, <2>2, <2>3, <2>4
<1> HIDE DEF c
<1>7. ASSUME NEW i \in 1..(k + 1)
      PROVE  c[i - 1] <= c[i] /\ IsPackOf(SubSeq(t, c[i - 1] + 1, c[i]), gs[i])
  <2>1. CASE i = k + 1
    <3>1. i - 1 = k /\ k \in 0..k /\ i - 1 \in 0..k
      BY <1>4, <2>1
    <3>2. c[i - 1] = Len(s) /\ c[i] = Len(t)
      BY <1>3, <1>6, <2>1, <3>1
    <3>3. SubSeq(t, Len(s) + 1, Len(t)) = b
      <4>1. /\ Len(s) + 1 \in 1..(Len(t) + 1) /\ Len(t) \in (Len(s) + 1)..Len(t)
            /\ Len(s) + 1 \in 1..Len(t) /\ Len(t) - (Len(s) + 1) + 1 = Len(b)
        BY <1>1, <1>5
      <4>2. /\ SubSeq(t, Len(s) + 1, Len(t)) \in Seq(Byte)
            /\ Len(SubSeq(t, Len(s) + 1, Len(t))) = Len(b)
            /\ \A j \in 1..Len(b) : SubSeq(t, Len(s) + 1, Len(t))[j] = t[Len(s) + 1 + j - 1]
        BY <1>5, <4>1, SubSeqProperties
      <4>3. \A j \in 1..Len(b) : t[Len(s) + 1 + j - 1] = b[j]
        <5>1. \A j \in 1..Len(b) : Len(s) + 1 + j - 1 = Len(s) + j
          BY <1>5
        <5> QED
          BY <1>5, <5>1
      <4> QED
        BY <1>1, <4>2, <4>3, SeqEqual
    <3>4. Len(s) <= Len(t)
      BY <1>5
    <3> QED
      BY <1>4, <2>1, <3>2, <3>3, <3>4
  <2>2. CASE i # k + 1
    <3>1. i \in 1..k /\ i - 1 \in 0..k /\ i \in 0..k
      BY <1>4, <2>2
    <3>2. c[i - 1] = cut[i - 1] /\ c[i] = cut[i] /\ gs[i] = fs[i]
      BY <1>4, <1>6, <3>1
    <3>3. PICK m \in 0..Len(s), n \in 0..Len(s) : m = cut[i - 1] /\ n = cut[i]
      BY <3>1
    <3>4. m <= n /\ IsPackOf(SubSeq(s, m + 1, n), fs[i])
      BY <1>3, <3>1, <3>3
    <3>5. m < n
      <4>1. CASE m = n
        <5>1. SubSeq(s, m + 1, n) = <<>>
          BY <4>1
        <5>2. Len(SubSeq(s, m + 1, n)) >= 2
          BY <3>4, PackedLength
        <5> QED
          BY <5>1, <5>2
      <4> QED
        BY <3>4, <4>1
    <3>6. SubSeq(t, m + 1, n) = SubSeq(s, m + 1, n)
      BY <1>5, <3>5
    <3> QED
      BY <3>2, <3>3, <3>4, <3>6
  <2> QED
    BY <2>1, <2>2
<1>8. c[0] = 0
  <2>1. 0 \in 0..k
    BY <1>4
  <2> QED
    BY <1>3, <1>6, <2>1
<1>9. IsCut(c, t, gs)
  BY <1>4, <1>6, <1>7, <1>8 DEF IsCut
<1>10. Carries(t, gs)
  BY <1>4, <1>6, <1>9 DEF Carries
<1> QED
  BY <1>10 DEF t, gs

-----------------------------------------------------------------------------
(* The frames on their way. *)

\* The two parts of a sequence.
LEMMA TwoParts ==
  ASSUME NEW s \in Seq(Byte), NEW n \in 0..Len(s)
  PROVE  /\ SubSeq(s, 1, n) \in Seq(Byte) /\ SubSeq(s, n + 1, Len(s)) \in Seq(Byte)
         /\ Len(SubSeq(s, n + 1, Len(s))) = Len(s) - n
         /\ \A i \in 1..(Len(s) - n) : SubSeq(s, n + 1, Len(s))[i] = s[n + i]
         /\ SubSeq(s, 1, n) \o SubSeq(s, n + 1, Len(s)) = s
<1> DEFINE a == SubSeq(s, 1, n)
           b == SubSeq(s, n + 1, Len(s))
<1>1. Len(s) \in Nat /\ n \in Nat
  BY LenProperties
<1>2. a \in Seq(Byte) /\ Len(a) = n /\ \A i \in 1..n : a[i] = s[i]
  BY <1>1
<1>3. /\ b \in Seq(Byte) /\ Len(b) = Len(s) - n
      /\ \A j \in 1..(Len(s) - n) : b[j] = s[n + j]
  <2>1. CASE n = Len(s)
    <3>1. b = <<>>
      BY <1>1, <2>1
    <3> QED
      BY <1>1, <2>1, <3>1
  <2>2. CASE n # Len(s)
    <3>1. n + 1 \in 1..Len(s) /\ Len(s) \in 1..Len(s) /\ n + 1 <= Len(s)
      BY <1>1, <2>2
    <3>2. /\ b \in Seq(Byte) /\ Len(b) = Len(s) - (n + 1) + 1
          /\ \A j \in 1..(Len(s) - (n + 1) + 1) : b[j] = s[(n + 1) + j - 1]
      BY <3>1, SubSeqProperties
    <3>3. \A j \in 1..(Len(s) - n) : (n + 1) + j - 1 = n + j
      BY <1>1
    <3>4. Len(s) - (n + 1) + 1 = Len(s) - n
      BY <1>1
    <3> HIDE DEF b
    <3> QED
      BY <3>2, <3>3, <3>4
  <2> QED
    BY <2>1, <2>2
<1> HIDE DEF a, b
<1>4. IsConcat(a \o b, a, n, b, Len(s) - n)
  BY <1>2, <1>3, ConcatAt
<1>5. \A i \in 1..Len(s) : (a \o b)[i] = s[i]
  <2>1. ASSUME NEW i \in 1..Len(s), i <= n PROVE (a \o b)[i] = s[i]
    <3>1. i \in 1..n
      BY <1>1, <2>1
    <3> QED
      BY <1>2, <1>4, <3>1 DEF IsConcat
  <2>2. ASSUME NEW i \in 1..Len(s), ~(i <= n) PROVE (a \o b)[i] = s[i]
    <3>1. i - n \in 1..(Len(s) - n) /\ n + (i - n) = i
      BY <1>1, <2>2
    <3>2. (a \o b)[n + (i - n)] = b[i - n] /\ b[i - n] = s[n + (i - n)]
      BY <1>3, <1>4, <3>1 DEF IsConcat
    <3> QED
      BY <3>1, <3>2
  <2> QED
    BY <2>1, <2>2
<1>6. a \o b = s
  <2>1. a \o b \in Seq(Byte) /\ Len(a \o b) = Len(s)
    BY <1>1, <1>4 DEF IsConcat
  <2> QED
    BY <1>5, <2>1, SeqEqual
<1> QED
  BY <1>2, <1>3, <1>6 DEF a, b

\* A part of what follows position n.
LEMMA PartOfRest ==
  ASSUME NEW s \in Seq(Byte), NEW n \in 0..Len(s), NEW a \in Nat, NEW b \in Nat,
         1 <= a, a <= b + 1, n + b <= Len(s)
  PROVE  SubSeq(SubSeq(s, n + 1, Len(s)), a, b) = SubSeq(s, n + a, n + b)
<1> DEFINE t == SubSeq(s, n + 1, Len(s))
<1>1. Len(s) \in Nat /\ n \in Nat
  BY LenProperties
<1>2. /\ t \in Seq(Byte) /\ Len(t) = Len(s) - n
      /\ \A j \in 1..(Len(s) - n) : t[j] = s[n + j]
  BY TwoParts
<1> HIDE DEF t
<1>3. CASE a = b + 1
  <2>1. SubSeq(t, a, b) = <<>> /\ SubSeq(s, n + a, n + b) = <<>>
    BY <1>1, <1>2, <1>3
  <2> QED
    BY <2>1 DEF t
<1>4. CASE a <= b
  <2> DEFINE u == SubSeq(t, a, b)
             v == SubSeq(s, n + a, n + b)
             m == b - a + 1
  <2>1. /\ u \in Seq(Byte) /\ Len(u) = m /\ \A j \in 1..m : u[j] = t[a + j - 1]
    <3>1. a \in 1..Len(t) /\ b \in 1..Len(t)
      BY <1>1, <1>2, <1>4
    <3> QED
      BY <1>2, <1>4, <3>1, SubSeqProperties
  <2>2. /\ v \in Seq(Byte) /\ Len(v) = (n + b) - (n + a) + 1
        /\ \A j \in 1..((n + b) - (n + a) + 1) : v[j] = s[(n + a) + j - 1]
    <3>1. n + a \in 1..Len(s) /\ n + b \in 1..Len(s) /\ n + a <= n + b
      BY <1>1, <1>4
    <3> QED
      BY <3>1, SubSeqProperties
  <2>3. (n + b) - (n + a) + 1 = m
    BY <1>1
  <2>4. \A j \in 1..m : /\ a + j - 1 \in 1..(Len(s) - n) /\ (n + a) + j - 1 = n + (a + j - 1)
    BY <1>1, <1>4
  <2> HIDE DEF u, v, m
  <2>5. \A j \in 1..m : u[j] = v[j]
    BY <1>2, <2>1, <2>2, <2>3, <2>4
  <2>6. u = v
    BY <2>1, <2>2, <2>3, <2>5, SeqEqual
  <2> QED
    BY <2>6 DEF u, v, t
<1> QED
  BY <1>3, <1>4

\* The first frame and the rest.
LEMMA CarriesFirst ==
  ASSUME NEW s \in Seq(Byte), NEW fs \in Seq(Frames), Carries(s, fs), fs # <<>>
  PROVE  \E n \in 1..Len(s) : /\ IsPackOf(SubSeq(s, 1, n), fs[1])
                              /\ Carries(SubSeq(s, n + 1, Len(s)), Tail(fs))
<1> DEFINE k == Len(fs)
           gs == Tail(fs)
<1>1. k \in Nat /\ k >= 1 /\ Len(gs) = k - 1 /\ Len(s) \in Nat
      /\ \A i \in 1..(k - 1) : gs[i] = fs[i + 1]
  BY LenProperties, EmptySeq, HeadTailProperties
<1>2. PICK cut \in [0..k -> 0..Len(s)] : IsCut(cut, s, fs)
  BY DEF Carries
<1>3. /\ cut[0] = 0 /\ cut[k] = Len(s)
      /\ \A i \in 1..k : cut[i - 1] <= cut[i] /\ IsPackOf(SubSeq(s, cut[i - 1] + 1, cut[i]), fs[i])
  BY <1>2 DEF IsCut
<1> HIDE DEF k, gs
<1>4. PICK n \in 0..Len(s) : n = cut[1]
  BY <1>1
<1>5. IsPackOf(SubSeq(s, 1, n), fs[1])
  <2>1. 1 \in 1..k /\ 1 - 1 = 0 /\ 0 + 1 = 1
    BY <1>1
  <2> QED
    BY <1>3, <1>4, <2>1
<1>6. n \in 1..Len(s)
  <2>1. CASE n = 0
    <3>1. SubSeq(s, 1, n) = <<>>
      BY <2>1
    <3>2. Len(SubSeq(s, 1, n)) >= 2
      BY <1>5, PackedLength
    <3> QED
      BY <3>1, <3>2
  <2> QED
    BY <1>1, <1>4, <2>1
<1>7. \A i \in 0..(k - 1) : cut[i + 1] \in n..Len(s)
  <2> DEFINE T == {i \in 0..(k - 1) : cut[i + 1] \in n..Len(s)}
             m == k - 1
  <2>1. 0 \in T
    BY <1>1, <1>4
  <2>2. ASSUME NEW i \in 1..m, i - 1 \in T
        PROVE  i \in T
    <3>1. (i - 1) + 1 = i /\ i + 1 \in 1..k /\ (i + 1) - 1 = i /\ i + 1 \in 0..k /\ i \in 0..m
      BY <1>1
    <3>2. cut[i] \in n..Len(s) /\ cut[i] <= cut[i + 1] /\ cut[i + 1] \in 0..Len(s)
      BY <1>3, <2>2, <3>1
    <3>3. cut[i + 1] \in n..Len(s)
      BY <1>1, <3>2
    <3> QED
      BY <3>1, <3>3
  <2>3. m \in Nat
    BY <1>1
  <2> HIDE DEF T, m
  <2>4. \A i \in 0..m : i \in T
    BY <2>1, <2>2, <2>3, InductionUpTo
  <2> QED
    BY <2>4 DEF T, m
<1> DEFINE t == SubSeq(s, n + 1, Len(s))
           c == [i \in 0..(k - 1) |-> cut[i + 1] - n]
<1>8. t \in Seq(Byte) /\ Len(t) = Len(s) - n
  BY TwoParts
<1> HIDE DEF t
<1>9. c \in [0..(k - 1) -> 0..Len(t)] /\ \A i \in 0..(k - 1) : c[i] = cut[i + 1] - n
  <2>1. ASSUME NEW i \in 0..(k - 1)
        PROVE  cut[i + 1] - n \in 0..Len(t)
    <3>1. PICK x \in n..Len(s) : x = cut[i + 1]
      BY <1>7
    <3> QED
      BY <1>1, <1>8, <3>1
  <2> QED
    BY <2>1
<1> HIDE DEF c
<1>10. c[0] = 0 /\ c[k - 1] = Len(t)
  <2>1. 0 \in 0..(k - 1) /\ k - 1 \in 0..(k - 1) /\ (k - 1) + 1 = k /\ 0 + 1 = 1
    BY <1>1
  <2>2. c[0] = n - n /\ c[k - 1] = Len(s) - n
    BY <1>3, <1>4, <1>9, <2>1
  <2> QED
    BY <1>1, <1>8, <2>2
<1>11. ASSUME NEW i \in 1..(k - 1)
       PROVE  c[i - 1] <= c[i] /\ IsPackOf(SubSeq(t, c[i - 1] + 1, c[i]), gs[i])
  <2>1. /\ i - 1 \in 0..(k - 1) /\ i \in 0..(k - 1) /\ (i - 1) + 1 = i
        /\ i + 1 \in 1..k /\ (i + 1) - 1 = i
    BY <1>1
  <2>2. PICK x \in n..Len(s), y \in n..Len(s) : x = cut[i] /\ y = cut[i + 1]
    BY <1>7, <2>1
  <2>3. x <= y /\ IsPackOf(SubSeq(s, x + 1, y), fs[i + 1])
    BY <1>3, <2>1, <2>2
  <2>4. c[i - 1] = x - n /\ c[i] = y - n
    BY <1>9, <2>1, <2>2
  <2>5. SubSeq(t, (x - n) + 1, y - n) = SubSeq(s, x + 1, y)
    <3> DEFINE a == (x - n) + 1
               b == y - n
    <3>1. a \in Nat /\ b \in Nat /\ 1 <= a /\ a <= b + 1 /\ n + b <= Len(s)
          /\ n + a = x + 1 /\ n + b = y
      BY <1>1, <2>3
    <3> HIDE DEF a, b
    <3>2. SubSeq(t, a, b) = SubSeq(s, n + a, n + b)
      BY <3>1, PartOfRest DEF t
    <3> QED
      BY <3>1, <3>2 DEF a, b
  <2>6. x - n <= y - n
    BY <1>1, <2>3
  <2> QED
    BY <1>1, <2>3, <2>4, <2>5, <2>6
<1>12. IsCut(c, t, gs)
  BY <1>1, <1>9, <1>10, <1>11 DEF IsCut
<1>13. Carries(t, gs)
  BY <1>1, <1>9, <1>12 DEF Carries
<1> QED
  BY <1>5, <1>6, <1>13 DEF t, gs

\* What unpack() can return, and where it has stopped reading.
Results(in) ==
  \/ Unpack(in) = Null
  \/ \E n \in Nat : n <= Len(in) /\ Unpack(in) = Throw(n)
  \/ \E n \in 2..Len(in) : \E f :
       Unpack(in) = [result |-> "frame", reach |-> n, consumed |-> n, frame |-> f]

\* Whatever the bytes are, what unpack() reads is in the buffer.
LEMMA UnpackInBuffer ==
  ASSUME NEW in \in Seq(Byte)
  PROVE  Results(in)
<1>1. CASE Len(in) < 2
  BY <1>1 DEF Unpack, Results
<1>2. CASE ~(Len(in) < 2)
  <2> DEFINE ext == Needed(in)
             flags == ReadFlags(in[1], in[2])
             key == IF "MASK" \in flags THEN 4 ELSE 0
             pos == 2 + ext + key
             len == IF ext = 0 THEN in[2] % 128 ELSE LengthAt(in, ext)
             raw == [i \in 1..len |-> Memory(in, pos + i)]
             clear == IF key = 0 THEN raw ELSE MaskPayload(raw, SubSeq(in, pos - 3, pos))
  <2>1. Unpack(in) = IF Len(in) < pos THEN Null
                     ELSE IF ~IsThere(in, pos, len) THEN Null
                     ELSE Interpret(in[1] % 16, flags, clear, pos, len)
    BY <1>2, Zenon DEF Unpack
  <2>2. ext \in Nat /\ key \in {0, 4} /\ pos \in Nat /\ pos >= 2
    <3>1. LengthBytes \in 3..8
      BY CodecAssumption
    <3>2. ext \in Nat
      BY <3>1 DEF Needed
    <3> HIDE DEF ext, flags
    <3> QED
      BY <3>2
  <2> HIDE DEF clear, raw, flags, key
  <2>3. CASE Len(in) < pos
    BY <2>1, <2>3 DEF Results
  <2>4. CASE ~(Len(in) < pos)
    <3>1. len \in Nat
      <4>1. CASE ext = 0
        <5>1. in[2] \in Byte
          <6>1. 2 \in 1..Len(in)
            BY <1>2
          <6> QED
            BY <6>1, ElementOfSeq
        <5>2. \A b \in Byte : b % 128 \in Nat
          BY SMT DEF Byte
        <5> QED
          BY <4>1, <5>1, <5>2
      <4>2. CASE ext # 0
        <5>0. PICK e \in Nat : e = ext
          BY <2>2
        <5>1. BytesFollow(in, e)
          <6>1. ASSUME NEW j \in 1..e
                PROVE  2 + j \in 1..Len(in)
            <7> HIDE DEF ext
            <7> QED
              BY <2>2, <2>4, <5>0
          <6> QED
            BY <6>1, ElementOfSeq DEF BytesFollow
        <5>2. LengthAt(in, e) \in Nat
          BY <5>1, LengthIsNat
        <5> QED
          BY <4>2, <5>0, <5>2
      <4> QED
        BY <4>1, <4>2
    <3> HIDE DEF len, pos
    <3>2. CASE ~IsThere(in, pos, len)
      BY <2>1, <2>4, <3>2 DEF Results
    <3>3. CASE IsThere(in, pos, len)
      <4>1. pos + len \in 2..Len(in) /\ pos <= Len(in) /\ SizeSum(pos, len) = pos + len
        <5>1. SizeSum(pos, len) = pos + len
          BY <2>2, <3>1, <3>3, SizeSumIs DEF IsThere
        <5> QED
          BY <2>2, <2>4, <3>1, <3>3, <5>1 DEF IsThere
      <4>2. Unpack(in) = Interpret(in[1] % 16, flags, clear, pos, len)
        BY <2>1, <2>4, <3>3
      <4>3. PICK n \in 2..Len(in) : n = pos + len /\ n = SizeSum(pos, len)
        BY <4>1
      <4>4. \/ Interpret(in[1] % 16, flags, clear, pos, len) = Throw(pos)
            \/ Interpret(in[1] % 16, flags, clear, pos, len) = Throw(pos + len)
            \/ Interpret(in[1] % 16, flags, clear, pos, len)
                 = [result |-> "frame", reach |-> pos + len, consumed |-> SizeSum(pos, len),
                    frame |-> [op |-> in[1] % 16, flags |-> flags, payload |-> clear]]
        BY Zenon DEF Interpret
      <4>5. n \in Nat /\ n <= Len(in)
        OBVIOUS
      <4> QED
        BY <2>2, <4>1, <4>2, <4>3, <4>4, <4>5 DEF Results
    <3> QED
      BY <3>2, <3>3
  <2> QED
    BY <2>3, <2>4
<1> QED
  BY <1>1, <1>2

-----------------------------------------------------------------------------
(* The invariant. *)

\* What the last pack() or encode() was given and what it made of it.
LastPacked ==
  last.bytes # <<>> =>
    /\ Packable(last.payload, last.op, last.flags, last.mask)
    /\ last.bytes = PackPayload(last.payload, last.op, last.flags, last.mask)

\* The frames that are not yet unpacked are those that the buffer and the wire
\* carry; only frames that unpack() has no objection to are unpacked; and the first
\* one that is not is what unpack() refused.
OnItsWay ==
  AllPacked =>
    /\ got \in Seq(Frames) /\ \A i \in 1..Len(got) : IsReadable(got[i])
    /\ \E fs \in Seq(Frames) :
         /\ sent = got \o fs /\ Carries(buffer \o wire, fs)
         /\ refused => fs # <<>> /\ ~IsReadable(fs[1])

Bytes ==
  /\ buffer \in Seq(Byte) /\ wire \in Seq(Byte)
  /\ sent \in Seq(Frames \cup {Foreign}) /\ makers \in Seq(Makers)

\* Each frame has its maker, and unpack() refuses what that maker did not check.
Made ==
  /\ Len(makers) = Len(sent)
  /\ \A i \in 1..Len(sent) : sent[i] # Foreign => Told(makers[i], sent[i])

CodecInv == Bytes /\ LastPacked /\ Made

\* A frame can be told from what no pack() made.
LEMMA NotForeign == Foreign \notin Frames
<1>1. Foreign.op = -1
  BY DEF Foreign
<1>2. \A f \in Frames : f.op \in 0..15
  BY DEF Frames
<1> QED
  BY <1>1, <1>2

\* One more frame and its maker.
LEMMA OneMoreMade ==
  ASSUME Bytes, Made, NEW f \in Frames \cup {Foreign}, NEW maker \in Makers,
         f # Foreign => Told(maker, f),
         sent' = Append(sent, f), makers' = Append(makers, maker)
  PROVE  Made' /\ sent' \in Seq(Frames \cup {Foreign}) /\ makers' \in Seq(Makers)
<1>1. /\ sent' \in Seq(Frames \cup {Foreign}) /\ Len(sent') = Len(sent) + 1
      /\ sent'[Len(sent) + 1] = f /\ \A i \in 1..Len(sent) : sent'[i] = sent[i]
  BY AppendProperties DEF Bytes
<1>2. /\ makers' \in Seq(Makers) /\ Len(makers') = Len(makers) + 1
      /\ makers'[Len(makers) + 1] = maker /\ \A i \in 1..Len(makers) : makers'[i] = makers[i]
  BY AppendProperties DEF Bytes
<1>3. Len(makers) = Len(sent) /\ Len(sent) \in Nat
  BY DEF Made, Bytes
<1>4. ASSUME NEW i \in 1..Len(sent'), sent'[i] # Foreign
      PROVE  Told(makers'[i], sent'[i])
  <2>1. CASE i = Len(sent) + 1
    BY <1>1, <1>2, <1>3, <1>4, <2>1
  <2>2. CASE i # Len(sent) + 1
    <3>1. i \in 1..Len(sent)
      BY <1>1, <1>3, <2>2
    <3> QED
      BY <1>1, <1>2, <1>3, <1>4, <3>1 DEF Made
  <2> QED
    BY <2>1, <2>2
<1>5. Made'
  BY <1>1, <1>2, <1>3, <1>4 DEF Made
<1> QED
  BY <1>1, <1>2, <1>5

\* The frame that Emit appends, and its bytes.
LEMMA Emitted ==
  ASSUME CodecInv, NEW maker \in Makers, NEW payload, NEW op, NEW flags,
         Emit(maker, payload, op, flags), Told(maker, FrameOf(payload, op, flags)),
         \A mask \in Masks : Packable(payload, op, flags, mask)
  PROVE  /\ CodecInv'
         /\ \E mask \in Masks :
              /\ Packable(payload, op, flags, mask)
              /\ sent' = Append(sent, FrameOf(payload, op, flags))
              /\ wire' = wire \o PackPayload(payload, op, flags, mask)
              /\ UNCHANGED <<buffer, got, refused>>
<1>1. PICK mask \in Masks :
        /\ sent' = Append(sent, FrameOf(payload, op, flags))
        /\ makers' = Append(makers, maker)
        /\ last' = [payload |-> payload, op |-> op, flags |-> flags, mask |-> mask,
                    bytes |-> PackPayload(payload, op, flags, mask)]
        /\ wire' = wire \o PackPayload(payload, op, flags, mask)
        /\ UNCHANGED <<buffer, got, refused>>
  BY DEF Emit, FrameOf
<1>2. Packable(payload, op, flags, mask)
  OBVIOUS
<1> DEFINE bytes == PackPayload(payload, op, flags, mask)
<1>3. bytes \in Seq(Byte)
  BY <1>2, Layout, ZenonT(40)
<1>4. FrameOf(payload, op, flags) \in Frames
  <2>1. WireFlags(flags) \in SUBSET FlagNames
    BY <1>2 DEF Packable, WireFlags, FlagNames
  <2> QED
    BY <1>2, <2>1 DEF FrameOf, Frames, Packable
<1> HIDE DEF bytes
<1>5. Bytes' /\ Made'
  <2>1. wire \o bytes \in Seq(Byte) /\ buffer' \in Seq(Byte)
    BY <1>1, <1>3 DEF Bytes, CodecInv
  <2>2. Made' /\ sent' \in Seq(Frames \cup {Foreign}) /\ makers' \in Seq(Makers)
    BY <1>1, <1>4, OneMoreMade DEF CodecInv
  <2> QED
    BY <1>1, <2>1, <2>2 DEF Bytes, bytes
<1>6. /\ last'.payload = payload /\ last'.op = op /\ last'.flags = flags
      /\ last'.mask = mask /\ last'.bytes = bytes
  BY <1>1 DEF bytes
<1>7. LastPacked'
  BY <1>2, <1>6 DEF LastPacked, bytes
<1> QED
  BY <1>1, <1>2, <1>5, <1>7 DEF CodecInv

\* One more frame is on its way.
LEMMA MoreOnItsWay ==
  ASSUME CodecInv, OnItsWay, NEW maker \in Makers, NEW payload, NEW op, NEW flags,
         Emit(maker, payload, op, flags), Told(maker, FrameOf(payload, op, flags)),
         \A mask \in Masks : Packable(payload, op, flags, mask)
  PROVE  OnItsWay'
<1>1. PICK mask \in Masks :
        /\ Packable(payload, op, flags, mask)
        /\ sent' = Append(sent, FrameOf(payload, op, flags))
        /\ wire' = wire \o PackPayload(payload, op, flags, mask)
        /\ UNCHANGED <<buffer, got, refused>>
  BY Emitted
<1>0. Bytes
  BY DEF CodecInv
<1> DEFINE f == FrameOf(payload, op, flags)
           b == PackPayload(payload, op, flags, mask)
<1>2. IsPackOf(b, f)
  <2>1. f.payload = payload /\ f.op = op
    BY DEF FrameOf
  <2>2. flags \in SUBSET FlagNames
    BY <1>1 DEF Packable
  <2> HIDE DEF f
  <2>3. f = FrameOf(f.payload, f.op, flags)
    BY <2>1 DEF f
  <2> QED
    BY <1>1, <2>1, <2>2, <2>3 DEF IsPackOf
<1>3. b \in Seq(Byte) /\ f \in Frames
  BY <1>2, PackedLength
<1> HIDE DEF f, b
<1> SUFFICES ASSUME AllPacked'
             PROVE  (/\ got \in Seq(Frames) /\ \A i \in 1..Len(got) : IsReadable(got[i])
                     /\ \E fs \in Seq(Frames) :
                          /\ sent = got \o fs /\ Carries(buffer \o wire, fs)
                          /\ refused => fs # <<>> /\ ~IsReadable(fs[1]))'
  BY DEF OnItsWay
<1>4. sent' = Append(sent, f) /\ wire' = wire \o b
  BY <1>1 DEF f, b
<1>5. AllPacked
  <2>1. ASSUME NEW i \in DOMAIN sent PROVE sent[i] # Foreign
    <3>1. i \in DOMAIN sent' /\ sent'[i] = sent[i]
      BY <1>0, <1>3, <1>4 DEF Bytes
    <3> QED
      BY <3>1 DEF AllPacked
  <2> QED
    BY <2>1 DEF AllPacked
<1>6. PICK fs \in Seq(Frames) : /\ sent = got \o fs /\ Carries(buffer \o wire, fs)
                                /\ refused => fs # <<>> /\ ~IsReadable(fs[1])
  BY <1>5 DEF OnItsWay
<1>7. got \in Seq(Frames) /\ \A i \in 1..Len(got) : IsReadable(got[i])
  BY <1>5 DEF OnItsWay
<1>8. buffer \o wire \in Seq(Byte)
  BY <1>0 DEF Bytes
<1>9. Carries((buffer \o wire) \o b, Append(fs, f))
  BY <1>2, <1>6, <1>8, CarriesMore
<1>10. (buffer \o wire) \o b = buffer \o (wire \o b)
  BY <1>0, <1>3, ConcatAssociative, SMTT(30) DEF Bytes
<1>11. Append(got \o fs, f) = got \o Append(fs, f)
  <2>1. <<f>> \in Seq(Frames) /\ got \o fs \in Seq(Frames)
    BY <1>3, <1>7
  <2>2. Append(got \o fs, f) = (got \o fs) \o <<f>> /\ Append(fs, f) = fs \o <<f>>
    BY <1>3, <2>1, AppendIsConcat
  <2>3. (got \o fs) \o <<f>> = got \o (fs \o <<f>>)
    BY <1>7, <2>1, ConcatAssociative
  <2> QED
    BY <2>2, <2>3
<1>12. Append(fs, f) \in Seq(Frames)
  BY <1>3
<1>13. refused => Append(fs, f) # <<>> /\ ~IsReadable(Append(fs, f)[1])
  <2>1. fs # <<>> => Append(fs, f)[1] = fs[1]
    BY <1>3, AppendProperties
  <2>2. Append(fs, f) # <<>>
    BY <1>3, AppendProperties
  <2> QED
    BY <1>6, <2>1, <2>2
<1>14. sent' = got \o Append(fs, f) /\ Carries(buffer \o wire', Append(fs, f))
  BY <1>4, <1>6, <1>9, <1>10, <1>11
<1>15. got' = got /\ buffer' = buffer /\ refused' = refused
  BY <1>1
<1> QED
  BY <1>7, <1>12, <1>13, <1>14, <1>15

\* What is left of two sequences without some of the first.
LEMMA RestOfConcat ==
  ASSUME NEW s \in Seq(Byte), NEW t \in Seq(Byte), NEW n \in Nat, n <= Len(s)
  PROVE  SubSeq(s \o t, n + 1, Len(s \o t)) = SubSeq(s, n + 1, Len(s)) \o t
<1> DEFINE c == s \o t
           rest == SubSeq(s, n + 1, Len(s))
           after == SubSeq(c, n + 1, Len(c))
<1>1. Len(s) \in Nat /\ Len(t) \in Nat /\ IsConcat(c, s, Len(s), t, Len(t))
  BY ConcatAt
<1>2. c \in Seq(Byte) /\ Len(c) = Len(s) + Len(t) /\ n \in 0..Len(c) /\ n \in 0..Len(s)
  BY <1>1 DEF IsConcat
<1>3. /\ rest \in Seq(Byte) /\ Len(rest) = Len(s) - n
      /\ \A i \in 1..(Len(s) - n) : rest[i] = s[n + i]
  BY <1>2, TwoParts
<1> HIDE DEF c
<1>4. /\ after \in Seq(Byte) /\ Len(after) = Len(c) - n
      /\ \A i \in 1..(Len(c) - n) : after[i] = c[n + i]
  BY <1>2, TwoParts
<1> HIDE DEF rest, after
<1>5. IsConcat(rest \o t, rest, Len(s) - n, t, Len(t))
  BY <1>3, ConcatAt
<1>6. Len(c) - n = (Len(s) - n) + Len(t)
  BY <1>1, <1>2
<1>7. \A i \in 1..Len(after) : (rest \o t)[i] = after[i]
  <2>1. ASSUME NEW i \in 1..Len(after), i <= Len(s) - n PROVE (rest \o t)[i] = after[i]
    <3>1. i \in 1..(Len(s) - n) /\ n + i \in 1..Len(s) /\ i \in 1..(Len(c) - n)
      BY <1>1, <1>4, <2>1
    <3>2. (rest \o t)[i] = rest[i] /\ c[n + i] = s[n + i]
      BY <1>1, <1>5, <3>1 DEF IsConcat
    <3> QED
      BY <1>3, <1>4, <3>1, <3>2
  <2>2. ASSUME NEW i \in 1..Len(after), ~(i <= Len(s) - n) PROVE (rest \o t)[i] = after[i]
    <3> DEFINE j == i - (Len(s) - n)
    <3>1. j \in 1..Len(t) /\ (Len(s) - n) + j = i /\ n + i = Len(s) + j /\ i \in 1..(Len(c) - n)
      BY <1>1, <1>2, <1>4, <2>2
    <3> HIDE DEF j
    <3>2. (rest \o t)[(Len(s) - n) + j] = t[j] /\ c[Len(s) + j] = t[j]
      BY <1>1, <1>5, <3>1 DEF IsConcat
    <3> QED
      BY <1>4, <3>1, <3>2
  <2> QED
    BY <2>1, <2>2
<1>8. rest \o t = after
  <2>1. rest \o t \in Seq(Byte) /\ Len(rest \o t) = Len(after)
    BY <1>4, <1>5, <1>6 DEF IsConcat
  <2> QED
    BY <1>4, <1>7, <2>1, SeqEqual
<1> QED
  BY <1>8 DEF c, rest, after

\* The frame at the head of what is on its way: whole in the buffer, and then
\* unpack() returns or refuses it, or not, and then unpack() waits.
LEMMA HeadOfStream ==
  ASSUME Bytes, NEW fs \in Seq(Frames), Carries(buffer \o wire, fs), fs # <<>>
  PROVE  \E n \in Nat :
           /\ n \in 2..Len(buffer \o wire)
           /\ n > Len(buffer) => Unpack(buffer) = Null
           /\ n <= Len(buffer) /\ ~IsReadable(fs[1]) => Unpack(buffer).result = "throw"
           /\ n <= Len(buffer) /\ IsReadable(fs[1]) =>
                /\ Unpack(buffer) = [result |-> "frame", reach |-> n, consumed |-> n, frame |-> fs[1]]
                /\ Carries(SubSeq(buffer, n + 1, Len(buffer)) \o wire, Tail(fs))
<1> DEFINE s == buffer \o wire
<1>1. /\ buffer \in Seq(Byte) /\ wire \in Seq(Byte) /\ s \in Seq(Byte)
      /\ Len(s) = Len(buffer) + Len(wire) /\ Len(buffer) \in Nat /\ Len(wire) \in Nat
      /\ \A i \in 1..Len(buffer) : s[i] = buffer[i]
  BY DEF Bytes
<1> HIDE DEF s
<1>2. PICK n \in 1..Len(s) : /\ IsPackOf(SubSeq(s, 1, n), fs[1])
                             /\ Carries(SubSeq(s, n + 1, Len(s)), Tail(fs))
  BY <1>1, CarriesFirst DEF s
<1> DEFINE b == SubSeq(s, 1, n)
           f == fs[1]
<1>3. /\ n \in Nat /\ b \in Seq(Byte) /\ Len(b) = n
      /\ \A i \in 1..n : b[i] = s[i]
  BY <1>1
<1> HIDE DEF b, f
<1>4. PICK flags \in SUBSET FlagNames, mask \in Masks :
        /\ Packable(f.payload, f.op, flags, mask)
        /\ b = PackPayload(f.payload, f.op, flags, mask)
        /\ f = FrameOf(f.payload, f.op, flags)
  BY <1>2 DEF IsPackOf, b, f
<1>5. n >= 2
  <2>1. IsPackOf(b, f)
    BY <1>2 DEF b, f
  <2>2. Len(b) >= 2
    BY <2>1, PackedLength
  <2> QED
    BY <1>3, <2>2
<1>6. Agrees(buffer, b)
  <2>1. ASSUME NEW i \in 1..Len(buffer), i <= Len(b)
        PROVE  buffer[i] = b[i]
    <3>1. i \in 1..n
      BY <1>1, <1>3, <2>1
    <3> QED
      BY <1>1, <1>3, <3>1
  <2> QED
    BY <2>1 DEF Agrees
<1>13. IsReadable(f) <=> Readable(f.payload, f.op, flags)
  BY <1>4, FrameReadable
<1>7. /\ Len(buffer) < n => Unpack(buffer) = Null
      /\ Len(buffer) >= n =>
           /\ IsReadable(f) => Unpack(buffer) = Unpacked(f.payload, f.op, flags, n)
           /\ ~IsReadable(f) => Unpack(buffer).result = "throw"
  BY <1>1, <1>3, <1>4, <1>6, <1>13, UnpackPacked
<1>8. Unpacked(f.payload, f.op, flags, n)
        = [result |-> "frame", reach |-> n, consumed |-> n, frame |-> f]
  BY <1>4 DEF Unpacked
<1>9. ASSUME n <= Len(buffer)
      PROVE  SubSeq(s, n + 1, Len(s)) = SubSeq(buffer, n + 1, Len(buffer)) \o wire
  BY <1>1, <1>3, <1>9, RestOfConcat DEF s
<1>10. n > Len(buffer) => Unpack(buffer) = Null
  BY <1>1, <1>3, <1>7
<1>14. n <= Len(buffer) /\ ~IsReadable(f) => Unpack(buffer).result = "throw"
  BY <1>1, <1>3, <1>7
<1>11. ASSUME n <= Len(buffer), IsReadable(f)
       PROVE  /\ Unpack(buffer) = [result |-> "frame", reach |-> n, consumed |-> n, frame |-> f]
              /\ Carries(SubSeq(buffer, n + 1, Len(buffer)) \o wire, Tail(fs))
  <2>1. Len(buffer) >= n
    BY <1>1, <1>3, <1>11
  <2> QED
    BY <1>2, <1>7, <1>8, <1>9, <1>11, <2>1
<1>12. n \in 2..Len(s)
  BY <1>1, <1>5
<1> QED
  BY <1>3, <1>10, <1>11, <1>12, <1>14 DEF f, s

\* Concatenation is associative.
LEMMA Regroup ==
  ASSUME NEW a \in Seq(Byte), NEW b \in Seq(Byte), NEW c \in Seq(Byte)
  PROVE  (a \o b) \o c = a \o (b \o c)
  BY ConcatAssociative

\* The steps that move bytes keep the types.
LEMMA BytesMove ==
  ASSUME Bytes
  PROVE  /\ SendRaw /\ Made => Bytes' /\ Made'
         /\ Deliver => Bytes' /\ (buffer \o wire)' = buffer \o wire
         /\ Read => Bytes'
<1>1. ASSUME SendRaw, Made PROVE Bytes' /\ Made'
  <2>1. PICK raw \in RawFrames : wire' = wire \o raw
    BY <1>1 DEF SendRaw
  <2>2. raw \in Seq(Byte)
    BY CodecAssumption
  <2>3. wire' \in Seq(Byte)
    BY <2>1, <2>2 DEF Bytes
  <2>4. sent' = Append(sent, Foreign) /\ makers' = Append(makers, "peer") /\ buffer' = buffer
    BY <1>1 DEF SendRaw
  <2>5. Made' /\ sent' \in Seq(Frames \cup {Foreign}) /\ makers' \in Seq(Makers)
    <3>1. Foreign \in Frames \cup {Foreign} /\ "peer" \in Makers
      BY DEF Makers
    <3> QED
      BY <1>1, <2>4, <3>1, OneMoreMade
  <2> QED
    BY <2>3, <2>4, <2>5 DEF Bytes
<1>2. ASSUME Deliver PROVE Bytes' /\ (buffer \o wire)' = buffer \o wire
  <2>1. PICK n \in 1..Len(wire) : /\ buffer' = buffer \o SubSeq(wire, 1, n)
                                  /\ wire' = SubSeq(wire, n + 1, Len(wire))
    BY <1>2 DEF Deliver
  <2>6. PICK a, b : a = SubSeq(wire, 1, n) /\ b = SubSeq(wire, n + 1, Len(wire))
    OBVIOUS
  <2>2. a \in Seq(Byte) /\ b \in Seq(Byte) /\ a \o b = wire
    BY <2>6, TwoParts DEF Bytes
  <2>3. sent' = sent /\ makers' = makers
    BY <1>2 DEF Deliver
  <2>4. buffer' \in Seq(Byte) /\ wire' \in Seq(Byte)
    BY <2>1, <2>2, <2>6 DEF Bytes
  <2>5. buffer' \o wire' = buffer \o wire
    <3>2. buffer \in Seq(Byte)
      BY DEF Bytes
    <3>1. (buffer \o a) \o b = buffer \o (a \o b)
      BY <2>2, <3>2, Regroup
    <3> QED
      BY <2>1, <2>2, <2>6, <3>1
  <2> QED
    BY <2>3, <2>4, <2>5 DEF Bytes
<1>3. ASSUME Read PROVE Bytes'
  <2>1. CASE /\ Unpack(buffer).result = "frame"
             /\ buffer' = SubSeq(buffer, Unpack(buffer).consumed + 1, Len(buffer))
    <3>1. PICK n \in 2..Len(buffer) : Unpack(buffer).consumed = n
      <4>1. Results(buffer)
        BY UnpackInBuffer DEF Bytes
      <4> QED
        BY <2>1, <4>1 DEF Results, Null, Throw
    <3>2. SubSeq(buffer, n + 1, Len(buffer)) \in Seq(Byte)
      BY DEF Bytes
    <3> QED
      BY <1>3, <2>1, <3>1, <3>2 DEF Bytes, Read
  <2>2. CASE buffer' = buffer
    BY <1>3, <2>2 DEF Bytes, Read
  <2> QED
    BY <1>3, <2>1, <2>2 DEF Read
<1> QED
  BY <1>1, <1>2, <1>3

\* A frame with a known maker, of bytes that fit in memory.
Packs(maker, payload, op, flags) ==
  /\ Emit(maker, payload, op, flags) /\ Told(maker, FrameOf(payload, op, flags))
  /\ \A mask \in Masks : Packable(payload, op, flags, mask)

\* pack() and encode() add one to what was packed.
LEMMA PackingPacks ==
  ASSUME Pack \/ PackClose \/ Encode
  PROVE  \E maker \in Makers : \E payload, op, flags : Packs(maker, payload, op, flags)
<1>1. ASSUME Pack PROVE \E payload, op, flags : Packs("pack", payload, op, flags)
  <2>1. PICK payload \in Payloads, op \in PackOpcodes, flags \in FlagSets :
          PackAccepts(payload, op, flags) /\ Emit("pack", payload, op, flags)
    BY <1>1 DEF Pack
  <2>2. \A mask \in Masks : Packable(payload, op, flags, mask)
    BY <2>1, PackPackable
  <2>3. Told("pack", FrameOf(payload, op, flags))
    BY <2>1, PackTold
  <2> QED
    BY <2>1, <2>2, <2>3 DEF Packs
<1>2. ASSUME PackClose PROVE \E payload, op, flags : Packs("close", payload, op, flags)
  <2>1. PICK code \in Codes, reason \in Payloads, flags \in FlagSets :
          /\ CloseAccepted(code, reason)
          /\ PackAccepts(ClosePayload(code, reason), 8, flags)
          /\ Emit("close", ClosePayload(code, reason), 8, flags)
    BY <1>2 DEF PackClose
  <2>2. \A mask \in Masks : /\ Packable(ClosePayload(code, reason), 8, flags, mask)
                            /\ Told("close", FrameOf(ClosePayload(code, reason), 8, flags))
    BY <2>1, CloseTold
  <2>3. Masks # {}
    BY <2>1 DEF Emit
  <2> QED
    BY <2>1, <2>2, <2>3 DEF Packs
<1>3. ASSUME Encode PROVE \E payload, op, flags : Packs("encode", payload, op, flags)
  <2>1. PICK payload \in Payloads, type \in EncodeTypes, flags \in {{"FIN"}, {"FIN", "MASK"}} :
          (type = "Text" => IsValidUtf8(payload)) /\ Emit("encode", payload, TypeOpcode(type), flags)
    BY <1>3 DEF Encode
  <2>2. \A mask \in Masks : Packable(payload, TypeOpcode(type), flags, mask)
    BY EncodePackable
  <2>3. Told("encode", FrameOf(payload, TypeOpcode(type), flags))
    <3>1. payload \in Seq(Byte)
      BY CodecAssumption
    <3> QED
      BY <2>1, <3>1, EncodeTold
  <2> QED
    BY <2>1, <2>2, <2>3 DEF Packs
<1>4. "pack" \in Makers /\ "close" \in Makers /\ "encode" \in Makers
  BY DEF Makers
<1> QED
  BY <1>1, <1>2, <1>3, <1>4

\* The types, the makers and what the last frame was packed from, in every state.
LEMMA CodecInvariance == CodecSpec => []CodecInv
<1>1. CodecInit => CodecInv
  <2> SUFFICES ASSUME CodecInit PROVE CodecInv
    OBVIOUS
  <2>1. <<>> \in Seq(Makers) /\ Len(<<>>) = 0 /\ 1..0 = {}
    OBVIOUS
  <2>2. Bytes /\ LastPacked
    BY <2>1, EmptySeq DEF CodecInit, Bytes, LastPacked
  <2>3. Made
    BY <2>1 DEF CodecInit, Made
  <2> QED
    BY <2>2, <2>3 DEF CodecInv
<1>2. CodecInv /\ [CodecNext]_codecVars => CodecInv'
  <2> SUFFICES ASSUME CodecInv, [CodecNext]_codecVars
               PROVE  CodecInv'
    OBVIOUS
  <2>0. Bytes /\ LastPacked /\ Made
    BY DEF CodecInv
  <2>1. ASSUME Pack \/ PackClose \/ Encode PROVE CodecInv'
    <3>1. PICK maker \in Makers : \E payload, op, flags : Packs(maker, payload, op, flags)
      BY <2>1, PackingPacks
    <3>2. PICK payload, op, flags : Packs(maker, payload, op, flags)
      BY <3>1
    <3> QED
      BY <3>2, Emitted DEF Packs
  <2>2. ASSUME SendRaw PROVE CodecInv'
    BY <2>0, <2>2, BytesMove DEF CodecInv, SendRaw, LastPacked
  <2>3. ASSUME Deliver PROVE CodecInv'
    BY <2>0, <2>3, BytesMove DEF CodecInv, Deliver, LastPacked, Made
  <2>4. ASSUME Read PROVE CodecInv'
    BY <2>0, <2>4, BytesMove DEF CodecInv, Read, LastPacked, Made
  <2>5. ASSUME UNCHANGED codecVars PROVE CodecInv'
    BY <2>0, <2>5 DEF CodecInv, codecVars, Bytes, LastPacked, Made
  <2> QED
    BY <2>1, <2>2, <2>3, <2>4, <2>5 DEF CodecNext
<1> QED
  BY <1>1, <1>2, PTL DEF CodecSpec

\* unpack() returns or refuses the frame that was packed first among those on
\* their way.
LEMMA ReadKeeps ==
  ASSUME CodecInv, OnItsWay, Read
  PROVE  OnItsWay'
<1> SUFFICES ASSUME AllPacked'
             PROVE  (/\ got \in Seq(Frames) /\ \A i \in 1..Len(got) : IsReadable(got[i])
                     /\ \E fs \in Seq(Frames) :
                          /\ sent = got \o fs /\ Carries(buffer \o wire, fs)
                          /\ refused => fs # <<>> /\ ~IsReadable(fs[1]))'
  BY DEF OnItsWay
<1>1. AllPacked /\ sent' = sent /\ wire' = wire
  BY DEF AllPacked, Read
<1>2. Bytes /\ buffer \in Seq(Byte) /\ wire \in Seq(Byte) /\ buffer \o wire \in Seq(Byte)
  BY DEF CodecInv, Bytes
<1>3. got \in Seq(Frames) /\ \A i \in 1..Len(got) : IsReadable(got[i])
  BY <1>1 DEF OnItsWay
<1>4. PICK fs \in Seq(Frames) : sent = got \o fs /\ Carries(buffer \o wire, fs)
  BY <1>1 DEF OnItsWay
<1>5. fs # <<>>
  <2> SUFFICES ASSUME fs = <<>> PROVE FALSE
    OBVIOUS
  <2>1. buffer \o wire = <<>>
    BY <1>2, <1>4, CarriesNothing
  <2>2. Len(buffer) = 0
    BY <1>2, <2>1
  <2>3. Unpack(buffer) = Null
    BY <2>2 DEF Unpack
  <2> QED
    BY <2>3 DEF Read, Null
<1>6. PICK n \in Nat :
        /\ n \in 2..Len(buffer \o wire)
        /\ n > Len(buffer) => Unpack(buffer) = Null
        /\ n <= Len(buffer) /\ ~IsReadable(fs[1]) => Unpack(buffer).result = "throw"
        /\ n <= Len(buffer) /\ IsReadable(fs[1]) =>
             /\ Unpack(buffer) = [result |-> "frame", reach |-> n, consumed |-> n, frame |-> fs[1]]
             /\ Carries(SubSeq(buffer, n + 1, Len(buffer)) \o wire, Tail(fs))
  BY <1>2, <1>4, <1>5, HeadOfStream
<1>7. n <= Len(buffer)
  <2>1. CASE n > Len(buffer)
    BY <1>6, <2>1 DEF Read, Null
  <2> QED
    BY <1>2, <2>1
<1>8. CASE ~IsReadable(fs[1])
  <2>1. Unpack(buffer).result = "throw"
    BY <1>6, <1>7, <1>8
  <2>2. got' = got /\ buffer' = buffer
    BY <2>1 DEF Read
  <2> QED
    BY <1>1, <1>3, <1>4, <1>5, <1>8, <2>2
<1>9. CASE IsReadable(fs[1])
  <2>1. /\ Unpack(buffer) = [result |-> "frame", reach |-> n, consumed |-> n, frame |-> fs[1]]
        /\ Carries(SubSeq(buffer, n + 1, Len(buffer)) \o wire, Tail(fs))
    BY <1>6, <1>7, <1>9
  <2>2. /\ Unpack(buffer).result = "frame" /\ Unpack(buffer).consumed = n
        /\ Unpack(buffer).frame = fs[1]
    BY <2>1
  <2>3. /\ got' = Append(got, fs[1]) /\ refused' = refused /\ ~refused
        /\ buffer' = SubSeq(buffer, n + 1, Len(buffer))
    BY <2>2 DEF Read
  <2>4. fs[1] \in Frames /\ Tail(fs) \in Seq(Frames) /\ fs = <<fs[1]>> \o Tail(fs)
    BY <1>5, FirstAndRest
  <2>5. got \o fs = Append(got, fs[1]) \o Tail(fs)
    <3>1. PICK f \in Frames, gs \in Seq(Frames) : f = fs[1] /\ gs = Tail(fs)
      BY <2>4
    <3>2. fs = <<f>> \o gs /\ <<f>> \in Seq(Frames)
      BY <2>4, <3>1
    <3>3. (got \o <<f>>) \o gs = got \o (<<f>> \o gs)
      BY <1>3, <3>2, ConcatAssociative
    <3>4. Append(got, f) = got \o <<f>>
      BY <1>3, AppendIsConcat
    <3> QED
      BY <3>1, <3>2, <3>3, <3>4
  <2>6. /\ Append(got, fs[1]) \in Seq(Frames)
        /\ \A i \in 1..Len(Append(got, fs[1])) : IsReadable(Append(got, fs[1])[i])
    <3>1. PICK g : g = Append(got, fs[1])
      OBVIOUS
    <3>2. /\ g \in Seq(Frames) /\ Len(g) = Len(got) + 1 /\ g[Len(got) + 1] = fs[1]
          /\ \A i \in 1..Len(got) : g[i] = got[i]
      BY <1>3, <2>4, <3>1, AppendProperties
    <3>3. ASSUME NEW i \in 1..Len(g) PROVE IsReadable(g[i])
      <4>1. i \in 1..Len(got) \/ i = Len(got) + 1
        BY <1>3, <3>2
      <4> QED
        BY <1>3, <1>9, <3>2, <4>1
    <3> QED
      BY <3>1, <3>2, <3>3
  <2> QED
    BY <1>1, <1>4, <2>1, <2>3, <2>4, <2>5, <2>6
<1> QED
  BY <1>8, <1>9

\* What was packed is unpacked or on its way, in order.
LEMMA StreamInvariance == CodecSpec => []OnItsWay
<1>1. CodecInit => OnItsWay
  <2> SUFFICES ASSUME CodecInit PROVE OnItsWay
    OBVIOUS
  <2>1. /\ got = <<>> /\ sent = <<>> /\ ~refused /\ buffer = <<>> /\ wire = <<>>
    BY DEF CodecInit
  <2>2. <<>> \in Seq(Frames) /\ <<>> \o <<>> = <<>> /\ <<>> \in Seq(Byte) /\ 1..Len(<<>>) = {}
    OBVIOUS
  <2>3. Carries(<<>>, <<>>)
    BY <2>2, CarriesNothing
  <2> QED
    BY <2>1, <2>2, <2>3 DEF OnItsWay
<1>2. OnItsWay /\ CodecInv /\ [CodecNext]_codecVars => OnItsWay'
  <2> SUFFICES ASSUME CodecInv, OnItsWay, [CodecNext]_codecVars
               PROVE  OnItsWay'
    OBVIOUS
  <2>0. Bytes /\ Made
    BY DEF CodecInv
  <2>1. ASSUME Pack \/ PackClose \/ Encode PROVE OnItsWay'
    <3>1. PICK maker \in Makers : \E payload, op, flags : Packs(maker, payload, op, flags)
      BY <2>1, PackingPacks
    <3>2. PICK payload, op, flags : Packs(maker, payload, op, flags)
      BY <3>1
    <3> QED
      BY <3>2, MoreOnItsWay DEF Packs
  <2>2. ASSUME SendRaw PROVE OnItsWay'
    <3>1. sent' = Append(sent, Foreign) /\ sent \in Seq(Frames \cup {Foreign})
      BY <2>0, <2>2 DEF SendRaw, Bytes
    <3>2. Len(sent) + 1 \in DOMAIN sent' /\ sent'[Len(sent) + 1] = Foreign
      BY <3>1, AppendProperties, LenProperties
    <3>3. ~AllPacked'
      BY <3>2 DEF AllPacked
    <3> QED
      BY <3>3 DEF OnItsWay
  <2>3. ASSUME Deliver PROVE OnItsWay'
    <3>1. (buffer \o wire)' = buffer \o wire /\ UNCHANGED <<sent, got, refused>>
      BY <2>0, <2>3, BytesMove DEF Deliver
    <3>2. AllPacked' => AllPacked
      BY <3>1 DEF AllPacked
    <3> QED
      BY <3>1, <3>2 DEF OnItsWay
  <2>4. ASSUME Read PROVE OnItsWay'
    BY <2>4, ReadKeeps
  <2>5. ASSUME UNCHANGED codecVars PROVE OnItsWay'
    BY <2>5 DEF codecVars, OnItsWay, AllPacked
  <2> QED
    BY <2>1, <2>2, <2>3, <2>4, <2>5 DEF CodecNext
<1> QED
  BY <1>1, <1>2, CodecInvariance, PTL DEF CodecSpec

\* What a reader unpacks is what was packed, in order, and nothing is kept back but
\* what follows a frame that is refused; and exactly the frames that their maker did
\* not check are refused, for all payloads, keys, flags and cuts.
THEOREM RoundTrips == CodecSpec => []RoundTrip
<1>1. CodecInv /\ OnItsWay => RoundTrip
  <2> SUFFICES ASSUME CodecInv, OnItsWay, AllPacked
               PROVE  /\ Len(got) <= Len(sent) /\ got = SubSeq(sent, 1, Len(got))
                      /\ \A i \in 1..Len(got) : ~Unchecked(makers[i], sent[i])
                      /\ refused => /\ Len(got) < Len(sent)
                                    /\ Unchecked(makers[Len(got) + 1], sent[Len(got) + 1])
                      /\ wire = <<>> /\ ~refused /\ Unpack(buffer) = Null => got = sent /\ buffer = <<>>
    BY DEF RoundTrip
  <2>1. got \in Seq(Frames) /\ \A i \in 1..Len(got) : IsReadable(got[i])
    BY DEF OnItsWay
  <2>2. PICK fs \in Seq(Frames) : /\ sent = got \o fs /\ Carries(buffer \o wire, fs)
                                  /\ refused => fs # <<>> /\ ~IsReadable(fs[1])
    BY DEF OnItsWay
  <2>3. /\ sent \in Seq(Frames) /\ Len(sent) = Len(got) + Len(fs)
        /\ Len(got) \in Nat /\ Len(fs) \in Nat
        /\ \A i \in 1..Len(got) : sent[i] = got[i]
        /\ \A i \in 1..Len(fs) : sent[Len(got) + i] = fs[i]
    BY <2>1, <2>2
  <2>4. ASSUME NEW i \in 1..Len(sent)
        PROVE  Unchecked(makers[i], sent[i]) <=> ~IsReadable(sent[i])
    <3>1. i \in DOMAIN sent
      BY <2>3
    <3>2. sent[i] # Foreign
      BY <3>1 DEF AllPacked
    <3> QED
      BY <3>2 DEF CodecInv, Made, Told
  <2>5. Len(got) <= Len(sent) /\ got = SubSeq(sent, 1, Len(got))
    <3>1. /\ SubSeq(sent, 1, Len(got)) \in Seq(Frames) /\ Len(SubSeq(sent, 1, Len(got))) = Len(got)
          /\ \A i \in 1..Len(got) : SubSeq(sent, 1, Len(got))[i] = sent[i]
      BY <2>3
    <3> QED
      BY <2>1, <2>3, <3>1, SeqEqual
  <2>6. ASSUME NEW i \in 1..Len(got) PROVE ~Unchecked(makers[i], sent[i])
    <3>1. i \in 1..Len(sent) /\ sent[i] = got[i]
      BY <2>3
    <3> QED
      BY <2>1, <2>4, <3>1
  <2>7. ASSUME refused
        PROVE  /\ Len(got) < Len(sent)
               /\ Unchecked(makers[Len(got) + 1], sent[Len(got) + 1])
    <3>1. Len(fs) > 0
      BY <2>2, <2>3, <2>7
    <3>2. Len(got) + 1 \in 1..Len(sent) /\ sent[Len(got) + 1] = fs[1] /\ Len(got) < Len(sent)
      BY <2>3, <3>1
    <3> QED
      BY <2>2, <2>4, <2>7, <3>2
  <2>8. ASSUME wire = <<>>, Unpack(buffer) = Null
        PROVE  got = sent /\ buffer = <<>>
    <3>1. Bytes /\ buffer \in Seq(Byte)
      BY DEF CodecInv, Bytes
    <3>2. buffer \o wire = buffer
      BY <2>8, <3>1
    <3>3. fs = <<>>
      <4> SUFFICES ASSUME fs # <<>> PROVE FALSE
        OBVIOUS
      <4>1. PICK n \in Nat :
              /\ n \in 2..Len(buffer \o wire)
              /\ n > Len(buffer) => Unpack(buffer) = Null
              /\ n <= Len(buffer) /\ ~IsReadable(fs[1]) => Unpack(buffer).result = "throw"
              /\ n <= Len(buffer) /\ IsReadable(fs[1]) =>
                   /\ Unpack(buffer) = [result |-> "frame", reach |-> n, consumed |-> n, frame |-> fs[1]]
                   /\ Carries(SubSeq(buffer, n + 1, Len(buffer)) \o wire, Tail(fs))
        BY <2>2, <3>1, HeadOfStream
      <4>2. n > Len(buffer)
        <5>1. CASE n <= Len(buffer)
          <6>1. Unpack(buffer).result = "throw" \/ Unpack(buffer).result = "frame"
            BY <4>1, <5>1
          <6> QED
            BY <2>8, <6>1 DEF Null
        <5> QED
          BY <3>1, <5>1
      <4>3. Len(buffer) >= n
        BY <3>2, <4>1
      <4> QED
        BY <3>1, <4>2, <4>3
    <3>4. buffer = <<>>
      BY <2>2, <3>1, <3>2, <3>3, CarriesNothing
    <3> QED
      BY <2>1, <2>2, <3>3, <3>4
  <2> QED
    BY <2>5, <2>6, <2>7, <2>8
<1> QED
  BY <1>1, CodecInvariance, StreamInvariance, PTL

\* What unpack() reads is in the buffer, whatever the bytes are, and no sum wraps.
THEOREM StaysInBuffer == CodecSpec => []UnpackStaysInBuffer
<1>1. CodecInv => UnpackStaysInBuffer
  <2> SUFFICES ASSUME CodecInv PROVE UnpackStaysInBuffer
    OBVIOUS
  <2>1. PICK u : u = Unpack(buffer)
    OBVIOUS
  <2>2. Results(buffer) /\ Len(buffer) \in Nat
    BY UnpackInBuffer DEF CodecInv, Bytes
  <2>3. CASE u = Null
    BY <2>1, <2>3 DEF UnpackStaysInBuffer, Null
  <2>4. CASE \E n \in Nat : n <= Len(buffer) /\ u = Throw(n)
    BY <2>1, <2>4 DEF UnpackStaysInBuffer, Throw
  <2>5. CASE \E n \in 2..Len(buffer) : \E f :
               u = [result |-> "frame", reach |-> n, consumed |-> n, frame |-> f]
    BY <2>1, <2>2, <2>5 DEF UnpackStaysInBuffer
  <2> QED
    BY <2>1, <2>2, <2>3, <2>4, <2>5 DEF Results
<1> QED
  BY <1>1, CodecInvariance, PTL

\* The bytes of every frame packed are those of RFC 6455.
THEOREM WireIsRfc == CodecSpec => []WireFormat
<1>1. CodecInv => WireFormat
  <2> SUFFICES ASSUME CodecInv, last.bytes # <<>> PROVE WireFormat
    BY DEF WireFormat
  <2>0. PICK payload, op, flags, mask, bytes, len :
          /\ payload = last.payload /\ op = last.op /\ flags = last.flags /\ mask = last.mask
          /\ bytes = last.bytes /\ len = Len(payload)
    OBVIOUS
  <2> DEFINE ext == ExtOf(len)
             body == StartOf(payload, flags)
  <2>1. Packable(payload, op, flags, mask) /\ bytes = PackPayload(payload, op, flags, mask)
    BY <2>0 DEF CodecInv, LastPacked
  <2>2. /\ payload \in Seq(Byte) /\ len \in Nat /\ len + LengthBytes + 6 <= SizeMax
        /\ op \in 0..15 /\ flags \in SUBSET FlagNames /\ mask \in Seq(Byte) /\ Len(mask) = 4
    BY <2>0, <2>1 DEF Packable
  <2>3. /\ bytes \in Seq(Byte) /\ Len(bytes) = body + len
        /\ bytes[1] = FirstByte(op, flags)
        /\ bytes[2] = Bit(flags, {"MASK"}, 128) + ShortOf(len)
        /\ \A k \in 1..ext : bytes[2 + k] = BigEndian(len, ext)[k]
        /\ "MASK" \in flags => \A k \in 1..4 : bytes[2 + ext + k] = mask[k]
        /\ \A k \in 1..len : bytes[body + k] = BodyOf(payload, flags, mask)[k]
    BY <2>0, <2>1, Layout
  <2>4. /\ ext \in 0..8 /\ ext \in {0, 2, LengthBytes} /\ ShortOf(len) \in 0..127
        /\ ext > 0 => Shifted(len)[ext] = 0
    BY <2>2, Forms
  <2>5. Header(bytes[1], bytes[2], op, flags, ShortOf(len))
    BY <2>2, <2>3, <2>4, HeaderReadBack
  <2>6. ext > 0 => LengthAt(bytes, ext) = len
    <3>1. ASSUME ext > 0 PROVE LengthAt(bytes, ext) = len
      <4>1. Announces(bytes, len, ext)
        BY <2>3 DEF Announces
      <4> HIDE DEF ext
      <4> QED
        BY <2>2, <2>4, <3>1, <4>1, LengthReadBack
    <3> QED
      BY <3>1
  <2>7. body = 2 + ext + KeyOf(flags) /\ KeyOf(flags) \in {0, 4}
    BY <2>0 DEF StartOf, KeyOf
  <2>8. ASSUME NEW i \in 1..len
        PROVE  bytes[body + i] =
                 IF KeyOf(flags) = 0 THEN payload[i]
                 ELSE XorByte(payload[i], bytes[body - 3 + ((i - 1) % 4)])
    <3>1. bytes[body + i] = BodyOf(payload, flags, mask)[i]
      BY <2>3
    <3>2. CASE "MASK" \notin flags
      BY <3>1, <3>2 DEF BodyOf, KeyOf
    <3>3. CASE "MASK" \in flags
      <4>1. MaskPayload(payload, mask) = [j \in 1..len |-> XorByte(payload[j], mask[KeyAt(j)])]
        <5>1. payload \in Seq(Byte) /\ len = Len(payload)
          BY <2>0, <2>2
        <5>2. MaskPayload(payload, mask)
                = [j \in 1..Len(payload) |-> XorByte(payload[j], mask[KeyAt(j)])]
          BY <5>1, MaskIs
        <5> QED
          BY <5>1, <5>2
      <4>2. bytes[body + i] = XorByte(payload[i], mask[KeyAt(i)])
        BY <3>1, <3>3, <4>1 DEF BodyOf
      <4>3. KeyOf(flags) = 4
        BY <3>3 DEF KeyOf
      <4>4. PICK r \in 0..3 : r = (i - 1) % 4
        <5>1. i \in Nat /\ i >= 1
          BY <2>2
        <5> QED
          BY <5>1, SMT
      <4>5. KeyAt(i) = r + 1
        BY <4>4 DEF KeyAt
      <4>6. body - 3 + r = 2 + ext + (r + 1) /\ r + 1 \in 1..4
        <5> HIDE DEF body, ext
        <5> QED
          BY <2>4, <2>7, <4>3, <4>4
      <4>7. bytes[body - 3 + r] = mask[r + 1]
        BY <2>3, <3>3, <4>6
      <4> HIDE DEF body
      <4>8. bytes[body - 3 + ((i - 1) % 4)] = mask[KeyAt(i)]
        BY <4>4, <4>5, <4>7
      <4> QED
        BY <4>2, <4>3, <4>8
    <3> QED
      BY <3>2, <3>3
  <2>9. ShortOf(len) = IF ext = 0 THEN len ELSE IF ext = 2 THEN MaxShort + 1 ELSE MaxShort + 2
    <3>1. LengthBytes \in 3..8
      BY CodecAssumption
    <3> QED
      BY <3>1 DEF ExtOf, ShortOf
  <2>10. KeyOf(flags) = 4 <=> "MASK" \in flags
    BY DEF KeyOf
  <2>11. /\ bytes[1] \in Byte /\ bytes[2] \in Byte /\ bytes[1] % 16 = op
         /\ bytes[2] % 128 = ShortOf(len) /\ RightBits(bytes[1], bytes[2], flags)
    BY <2>5 DEF Header
  <2>12. \A i \in 1..KeyOf(flags) : bytes[2 + ext + i] = mask[i]
    <3>1. CASE "MASK" \in flags
      BY <2>3, <2>10, <3>1
    <3>2. CASE "MASK" \notin flags
      <4>1. 1..KeyOf(flags) = {}
        BY <3>2 DEF KeyOf
      <4> QED
        BY <4>1
    <3> QED
      BY <3>1, <3>2
  <2>13. /\ last.payload = payload /\ last.op = op /\ last.flags = flags /\ last.mask = mask
         /\ last.bytes = bytes /\ Len(last.payload) = len
    BY <2>0
  <2>14. ExtOf(len) = IF len <= MaxShort THEN 0 ELSE IF len <= Max16 THEN 2 ELSE LengthBytes
    BY DEF ExtOf
  <2>15. KeyOf(flags) = IF "MASK" \in flags THEN 4 ELSE 0
    BY DEF KeyOf
  <2> HIDE DEF ext, body
  <2>16. /\ Len(bytes) = body + len
         /\ bytes[1] \in Byte /\ bytes[1] % 16 = op /\ RightBits(bytes[1], bytes[2], flags)
         /\ bytes[2] \in Byte /\ (bytes[2] \div 128 = 1 <=> KeyOf(flags) = 4)
         /\ bytes[2] % 128 = IF ext = 0 THEN len ELSE IF ext = 2 THEN MaxShort + 1 ELSE MaxShort + 2
         /\ ext > 0 => LengthAt(bytes, ext) = len
         /\ \A i \in 1..KeyOf(flags) : bytes[2 + ext + i] = mask[i]
         /\ \A i \in 1..len : bytes[body + i] =
              IF KeyOf(flags) = 0 THEN payload[i]
              ELSE XorByte(payload[i], bytes[body - 3 + ((i - 1) % 4)])
    BY <2>3, <2>6, <2>8, <2>9, <2>10, <2>11, <2>12, Zenon DEF RightBits, ext
  <2> QED
    BY <2>7, <2>13, <2>16, Zenon DEF WireFormat, RightBits, ext, ExtOf, KeyOf
<1> QED
  BY <1>1, CodecInvariance, PTL
=============================================================================

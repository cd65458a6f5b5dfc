-------------------------- MODULE DriverLoopProofs --------------------------
(***************************************************************************)
(* Proofs about module DriverLoop, for each driver, any number of          *)
(* descriptors, any limits and any peers: the array of a driver is an      *)
(* implementation of the interface the server is written for.              *)
(***************************************************************************)
EXTENDS DriverLoop, FiniteSetTheorems, SequenceFacts

(* The inductive invariant. *)

Entry == [fd : Fds, events : (SUBSET Filters) \ {{}}]

\* A descriptor has at most one entry, and an entry watches something.
IsTable(t) ==
  /\ t \in Seq(Entry)
  /\ \A i, j \in 1..Len(t) : t[i].fd = t[j].fd => i = j

States == {"free", "handshake", "upgraded", "open", "draining", "closed"}
LoopStates ==
  [pc : {"wait", "serve", "sweep", "failed"}, cur : Nat, n : Nat, missed : BOOLEAN,
   due : SUBSET ConnFds]

TypeOK ==
  /\ config \in Configs
  /\ cond \in [Fds -> SUBSET Filters]
  /\ active \subseteq Fds \X Filters
  /\ st \in [Fds -> States \cup {"listening"}]
  /\ \A fd \in Fds : st[fd] = "listening" <=> fd = Listener
  /\ loop \in LoopStates

\* What is watched is what the server asked for.  A connection that has closed
\* may still be watched, until the purge that ends the turn.
Agreed ==
  /\ IsTable(table)
  /\ \A fd \in Fds : st[fd] # "closed" => Events(table, fd) = Wanted(fd)
  /\ loop.pc # "sweep" => \A fd \in Fds : st[fd] # "closed"

\* An activation is one of a filter that is installed.
ActiveWatched ==
  kind = "kqueue" => \A a \in active : a[2] \in Events(table, a[1])

DriverLoopInv == TypeOK /\ Agreed /\ ActiveWatched

-----------------------------------------------------------------------------
(* The operations on the array. *)

\* Index finds the entry of a descriptor, if there is one.
LEMMA IndexFacts ==
  ASSUME NEW t, IsTable(t), NEW fd
  PROVE  /\ Index(t, fd) = 0 => \A i \in 1..Len(t) : t[i].fd # fd
         /\ Index(t, fd) # 0 => Index(t, fd) \in 1..Len(t) /\ t[Index(t, fd)].fd = fd
         /\ \A i \in 1..Len(t) : t[i].fd = fd => Index(t, fd) = i
<1> DEFINE I == {i \in 1..Len(t) : t[i].fd = fd}
<1>1. Index(t, fd) = IF I # {} THEN Min(I) ELSE 0
  BY DEF Index, SelectInSeq
<1>2. Len(t) \in Nat
  BY DEF IsTable
<1>3. I \subseteq Nat
  BY <1>2
<1>4. I # {} => Min(I) \in I
  BY <1>3, MinIsLeast
<1>5. \A i, j \in 1..Len(t) : t[i].fd = t[j].fd => i = j
  BY DEF IsTable
<1>6. CASE I = {}
  <2>1. Index(t, fd) = 0
    BY <1>1, <1>6
  <2>2. \A i \in 1..Len(t) : t[i].fd # fd
    BY <1>6
  <2> QED
    BY <2>1, <2>2
<1>7. CASE I # {}
  <2>1. Index(t, fd) \in I
    BY <1>1, <1>4, <1>7
  <2>2. Index(t, fd) \in 1..Len(t) /\ t[Index(t, fd)].fd = fd
    BY <2>1
  <2>3. Index(t, fd) # 0
    BY <1>2, <2>2
  <2> QED
    BY <1>5, <2>2, <2>3
<1> QED
  BY <1>6, <1>7

\* The mask of a descriptor is that of its entry, and empty without one.
LEMMA EventsFacts ==
  ASSUME NEW t, IsTable(t), NEW fd
  PROVE  /\ \A i \in 1..Len(t) : t[i].fd = fd => Events(t, fd) = t[i].events
         /\ (\A i \in 1..Len(t) : t[i].fd # fd) => Events(t, fd) = {}
         /\ Events(t, fd) # {} => \E i \in 1..Len(t) : t[i].fd = fd
         /\ Events(t, fd) \subseteq Filters
         /\ Events(t, fd) = {} <=> Index(t, fd) = 0
<1>1. Len(t) \in Nat /\ \A i \in 1..Len(t) : t[i] \in Entry
  BY DEF IsTable
<1>2. 0 \notin 1..Len(t)
  BY <1>1
<1>3. \A i \in 1..Len(t) : t[i].events \subseteq Filters /\ t[i].events # {}
  BY <1>1 DEF Entry
<1> QED
  BY <1>2, <1>3, IndexFacts DEF Events

\* An entry is changed or appended: nobody else's mask changes.
LEMMA PutFacts ==
  ASSUME NEW t, IsTable(t), NEW fd \in Fds, NEW e \in SUBSET Filters, e # {}
  PROVE  /\ IsTable(Put(t, fd, e))
         /\ \A g : Events(Put(t, fd, e), g) = IF g = fd THEN e ELSE Events(t, g)
<1> DEFINE p == Put(t, fd, e)
           x == Index(t, fd)
<1>1. t \in Seq(Entry) /\ Len(t) \in Nat /\ \A i \in 1..Len(t) : t[i] \in Entry
  BY DEF IsTable
<1>2. \A i, j \in 1..Len(t) : t[i].fd = t[j].fd => i = j
  BY DEF IsTable
<1>3. CASE x = 0
  <2>1. p = Append(t, [fd |-> fd, events |-> e])
    BY <1>3 DEF Put
  <2>2. [fd |-> fd, events |-> e] \in Entry
    BY DEF Entry
  <2> HIDE DEF p
  <2>3. /\ p \in Seq(Entry) /\ Len(p) = Len(t) + 1
        /\ \A i \in 1..Len(t) : p[i] = t[i]
        /\ p[Len(t) + 1] = [fd |-> fd, events |-> e]
    BY <1>1, <2>1, <2>2
  <2>4. \A i \in 1..Len(t) : t[i].fd # fd
    BY <1>3, IndexFacts
  <2>5. \A i, j \in 1..Len(p) : p[i].fd = p[j].fd => i = j
    <3> SUFFICES ASSUME NEW i \in 1..Len(p), NEW j \in 1..Len(p), p[i].fd = p[j].fd
                 PROVE  i = j
      OBVIOUS
    <3>1. i \in 1..Len(t) \/ i = Len(t) + 1
      BY <1>1, <2>3
    <3>2. j \in 1..Len(t) \/ j = Len(t) + 1
      BY <1>1, <2>3
    <3> QED
      BY <1>2, <2>3, <2>4, <3>1, <3>2
  <2>6. IsTable(p)
    BY <2>3, <2>5 DEF IsTable
  <2>7. ASSUME NEW g PROVE Events(p, g) = IF g = fd THEN e ELSE Events(t, g)
    <3>1. CASE g = fd
      <4>1. Len(t) + 1 \in 1..Len(p) /\ p[Len(t) + 1].fd = g /\ p[Len(t) + 1].events = e
        BY <1>1, <2>3, <3>1
      <4> QED
        BY <2>6, <3>1, <4>1, EventsFacts
    <3>2. CASE g # fd /\ \E i \in 1..Len(t) : t[i].fd = g
      <4>1. PICK i \in 1..Len(t) : t[i].fd = g
        BY <3>2
      <4>2. i \in 1..Len(p) /\ p[i] = t[i]
        BY <1>1, <2>3
      <4> QED
        BY <2>6, <3>2, <4>1, <4>2, EventsFacts
    <3>3. CASE g # fd /\ ~(\E i \in 1..Len(t) : t[i].fd = g)
      <4>1. \A i \in 1..Len(p) : i \in 1..Len(t) \/ i = Len(t) + 1
        BY <1>1, <2>3
      <4>2. \A i \in 1..Len(p) : p[i].fd # g
        BY <2>3, <3>3, <4>1
      <4>8. Events(p, g) = {}
        BY <2>6, <4>2, EventsFacts
      <4>9. Events(t, g) = {}
        BY <3>3, EventsFacts
      <4> QED
        BY <3>3, <4>8, <4>9
    <3> QED
      BY <3>1, <3>2, <3>3
  <2> QED
    BY <2>6, <2>7 DEF p
<1>4. CASE x # 0
  <2>1. p = [t EXCEPT ![x].events = e]
    BY <1>4 DEF Put
  <2>2. x \in 1..Len(t) /\ t[x].fd = fd
    BY <1>4, IndexFacts
  <2> HIDE DEF p, x
  <2>3. [t[x] EXCEPT !.events = e] \in Entry /\ [t[x] EXCEPT !.events = e].fd = fd
        /\ [t[x] EXCEPT !.events = e].events = e
    BY <1>1, <2>2 DEF Entry
  <2>4. /\ p \in Seq(Entry) /\ Len(p) = Len(t)
        /\ \A i \in 1..Len(t) : p[i] = IF i = x THEN [t[x] EXCEPT !.events = e] ELSE t[i]
    BY <1>1, <2>1, <2>2, <2>3
  <2>5. \A i \in 1..Len(t) : p[i].fd = t[i].fd /\ (i # x => p[i] = t[i])
    BY <2>2, <2>3, <2>4
  <2>6. p[x].events = e
    BY <2>2, <2>3, <2>4
  <2>7. IsTable(p)
    BY <1>2, <2>4, <2>5 DEF IsTable
  <2>8. ASSUME NEW g PROVE Events(p, g) = IF g = fd THEN e ELSE Events(t, g)
    <3>1. CASE g = fd
      BY <2>2, <2>4, <2>5, <2>6, <2>7, <3>1, EventsFacts
    <3>2. CASE g # fd /\ \E i \in 1..Len(t) : t[i].fd = g
      <4>1. PICK i \in 1..Len(t) : t[i].fd = g
        BY <3>2
      <4>2. i \in 1..Len(p) /\ p[i] = t[i]
        BY <2>2, <2>4, <2>5, <3>2, <4>1
      <4> QED
        BY <2>7, <3>2, <4>1, <4>2, EventsFacts
    <3>3. CASE g # fd /\ ~(\E i \in 1..Len(t) : t[i].fd = g)
      <4>1. \A i \in 1..Len(p) : p[i].fd # g
        BY <2>4, <2>5, <3>3
      <4>8. Events(p, g) = {}
        BY <2>7, <4>1, EventsFacts
      <4>9. Events(t, g) = {}
        BY <3>3, EventsFacts
      <4> QED
        BY <3>3, <4>8, <4>9
    <3> QED
      BY <3>1, <3>2, <3>3
  <2> QED
    BY <2>7, <2>8 DEF p
<1> QED
  BY <1>3, <1>4

\* remove_fd_at() removes one descriptor and no other.
LEMMA UnwatchFacts ==
  ASSUME NEW t, IsTable(t), NEW fd
  PROVE  /\ IsTable(Unwatch(t, fd))
         /\ \A g : Events(Unwatch(t, fd), g) = IF g = fd THEN {} ELSE Events(t, g)
<1> DEFINE r == Unwatch(t, fd)
           x == Index(t, fd)
<1>1. t \in Seq(Entry) /\ Len(t) \in Nat /\ \A i \in 1..Len(t) : t[i] \in Entry
  BY DEF IsTable
<1>2. \A i, j \in 1..Len(t) : t[i].fd = t[j].fd => i = j
  BY DEF IsTable
<1>3. CASE x = 0
  BY <1>3, EventsFacts DEF Unwatch
<1>4. CASE x # 0
  <2>1. r = RemoveAt(t, x)
    BY <1>4 DEF Unwatch
  <2>2. x \in 1..Len(t) /\ t[x].fd = fd
    BY <1>4, IndexFacts
  <2> HIDE DEF r, x
  <2>3. /\ r \in Seq(Entry) /\ Len(r) = Len(t) - 1
        /\ \A j \in 1..(Len(t) - 1) : r[j] = IF j < x THEN t[j] ELSE t[j + 1]
    BY <1>1, <2>1, <2>2, RemoveFacts
  <2>4. \A j \in 1..Len(r) :
          \E i \in 1..Len(t) : i # x /\ r[j] = t[i] /\ i = IF j < x THEN j ELSE j + 1
    BY <1>1, <2>2, <2>3
  <2>5. \A i \in 1..Len(t) : i # x =>
          \E j \in 1..Len(r) : r[j] = t[i]
    <3> SUFFICES ASSUME NEW i \in 1..Len(t), i # x
                 PROVE  \E j \in 1..Len(r) : r[j] = t[i]
      OBVIOUS
    <3>1. CASE i < x
      <4>1. i \in 1..Len(r) /\ r[i] = t[i]
        BY <1>1, <2>2, <2>3, <3>1
      <4> QED
        BY <4>1
    <3>2. CASE i > x
      <4>1. i - 1 \in 1..Len(r) /\ ~(i - 1 < x) /\ (i - 1) + 1 = i
        BY <1>1, <2>2, <2>3, <3>2
      <4>2. r[i - 1] = t[i]
        BY <2>3, <4>1
      <4> QED
        BY <4>1, <4>2
    <3> QED
      BY <1>1, <2>2, <3>1, <3>2
  <2>6. \A i, j \in 1..Len(r) : r[i].fd = r[j].fd => i = j
    <3> SUFFICES ASSUME NEW i \in 1..Len(r), NEW j \in 1..Len(r), r[i].fd = r[j].fd
                 PROVE  i = j
      OBVIOUS
    <3>1. PICK a \in 1..Len(t) : r[i] = t[a] /\ a = IF i < x THEN i ELSE i + 1
      BY <2>4
    <3>2. PICK b \in 1..Len(t) : r[j] = t[b] /\ b = IF j < x THEN j ELSE j + 1
      BY <2>4
    <3>3. a = b
      BY <1>2, <3>1, <3>2
    <3> QED
      BY <1>1, <2>2, <2>3, <3>1, <3>2, <3>3
  <2>7. IsTable(r)
    BY <2>3, <2>6 DEF IsTable
  <2>8. ASSUME NEW g PROVE Events(r, g) = IF g = fd THEN {} ELSE Events(t, g)
    <3>1. CASE g = fd
      <4>1. \A j \in 1..Len(r) : r[j].fd # fd
        BY <1>2, <2>2, <2>4
      <4> QED
        BY <2>7, <3>1, <4>1, EventsFacts
    <3>2. CASE g # fd /\ \E i \in 1..Len(t) : t[i].fd = g
      <4>1. PICK i \in 1..Len(t) : t[i].fd = g
        BY <3>2
      <4>2. PICK j \in 1..Len(r) : r[j] = t[i]
        BY <2>2, <2>5, <3>2, <4>1
      <4> QED
        BY <2>7, <3>2, <4>1, <4>2, EventsFacts
    <3>3. CASE g # fd /\ ~(\E i \in 1..Len(t) : t[i].fd = g)
      <4>1. \A j \in 1..Len(r) : r[j].fd # g
        BY <2>4, <3>3
      <4>2. Events(r, g) = {}
        BY <2>7, <4>1, EventsFacts
      <4>3. Events(t, g) = {}
        BY <3>3, EventsFacts
      <4> QED
        BY <3>3, <4>2, <4>3
    <3> QED
      BY <3>1, <3>2, <3>3
  <2> QED
    BY <2>7, <2>8 DEF r
<1> QED
  BY <1>3, <1>4

\* unwatch_write() leaves the masks of the others alone.
LEMMA UnwatchWriteFacts ==
  ASSUME NEW t, IsTable(t), NEW fd \in Fds
  PROVE  /\ IsTable(UnwatchWrite(t, fd))
         /\ \A g : g # fd => Events(UnwatchWrite(t, fd), g) = Events(t, g)
<1>1. CASE Index(t, fd) = 0
  BY <1>1 DEF UnwatchWrite
<1>2. CASE Index(t, fd) # 0 /\ kind = "epoll"
  <2>1. UnwatchWrite(t, fd) = Put(t, fd, {"read"})
    BY <1>2 DEF UnwatchWrite
  <2>2. {"read"} \in SUBSET Filters /\ {"read"} # {}
    BY DEF Filters
  <2> QED
    BY <2>1, <2>2, PutFacts
<1>3. CASE Index(t, fd) # 0 /\ kind # "epoll" /\ Events(t, fd) \subseteq {"write"}
  <2>1. UnwatchWrite(t, fd) = Unwatch(t, fd)
    BY <1>3 DEF UnwatchWrite
  <2> QED
    BY <2>1, UnwatchFacts
<1>4. CASE Index(t, fd) # 0 /\ kind # "epoll" /\ ~(Events(t, fd) \subseteq {"write"})
  <2>1. UnwatchWrite(t, fd) = Put(t, fd, Events(t, fd) \ {"write"})
    BY <1>4 DEF UnwatchWrite
  <2>2. Events(t, fd) \subseteq Filters
    BY EventsFacts
  <2>3. Events(t, fd) \ {"write"} \in SUBSET Filters /\ Events(t, fd) \ {"write"} # {}
    BY <1>4, <2>2
  <2> QED
    BY <2>1, <2>3, PutFacts
<1> QED
  BY <1>1, <1>2, <1>3, <1>4

\* One call of the purge.
After(t, gone, n) == IF n \in gone THEN Unwatch(t, n) ELSE t

\* The tables after 0, 1, ... n calls.
IsPurge(f, t, gone, n) ==
  f = [m \in 0..n |-> IF m = 0 THEN t ELSE After(f[m - 1], gone, m)]

\* The recursive definition of the purge defines something.
LEMMA PurgeExists ==
  ASSUME NEW t, NEW gone, NEW n \in Nat
  PROVE  \E f : IsPurge(f, t, gone, n)
<1> DEFINE Bad == {m \in Nat : ~ \E f : IsPurge(f, t, gone, m)}
<1> SUFFICES ASSUME Bad # {} PROVE FALSE
  OBVIOUS
<1>1. PICK x \in Bad : \A y \in Bad : x <= y
  <2>1. Bad \subseteq Nat
    OBVIOUS
  <2> HIDE DEF Bad
  <2> QED
    BY <2>1, LeastNat
<1>2. CASE x = 0
  <2>1. IsPurge([m \in 0..0 |-> t], t, gone, 0)
    BY DEF IsPurge
  <2> QED
    BY <1>2, <2>1
<1>3. CASE x # 0
  <2>1. x - 1 \in Nat /\ x - 1 \notin Bad /\ x \in Nat
    BY <1>1, <1>3
  <2>2. PICK f : IsPurge(f, t, gone, x - 1)
    BY <2>1
  <2> DEFINE g == [m \in 0..x |-> IF m = x THEN After(f[x - 1], gone, x) ELSE f[m]]
  <2>3. \A m \in 0..(x - 1) : f[m] = IF m = 0 THEN t ELSE After(f[m - 1], gone, m)
    BY <2>2 DEF IsPurge
  <2>4. ASSUME NEW m \in 0..x
        PROVE  g[m] = IF m = 0 THEN t ELSE After(g[m - 1], gone, m)
    <3>1. CASE m = x
      <4>1. g[m] = After(f[x - 1], gone, x)
        BY <3>1
      <4>2. m - 1 \in 0..x /\ m - 1 # x /\ m # 0
        BY <1>3, <2>1, <3>1
      <4>3. g[m - 1] = f[m - 1]
        BY <4>2
      <4> QED
        BY <3>1, <4>1, <4>2, <4>3
    <3>2. CASE m = 0
      <4>1. m # x /\ m \in 0..(x - 1)
        BY <1>3, <2>1, <3>2
      <4>2. g[m] = f[m] /\ f[m] = t
        BY <2>3, <3>2, <4>1
      <4> QED
        BY <3>2, <4>2
    <3>3. CASE m # x /\ m # 0
      <4>1. m \in 0..(x - 1) /\ m - 1 \in 0..x /\ m - 1 # x
        BY <2>1, <3>3
      <4>2. g[m] = f[m] /\ g[m - 1] = f[m - 1]
        BY <3>3, <4>1
      <4>3. f[m] = After(f[m - 1], gone, m)
        BY <2>3, <3>3, <4>1
      <4> QED
        BY <3>3, <4>2, <4>3
    <3> QED
      BY <3>1, <3>2, <3>3
  <2>5. g = [m \in 0..x |-> g[m]]
    OBVIOUS
  <2> HIDE DEF g
  <2>6. IsPurge(g, t, gone, x)
    BY <2>4, <2>5 DEF IsPurge
  <2> QED
    BY <1>1, <2>6
<1> QED
  BY <1>2, <1>3

\* The purge unwatches the descriptors it closes, and no other.
LEMMA PurgedFacts ==
  ASSUME NEW t, IsTable(t), NEW gone, gone \subseteq Fds
  PROVE  /\ IsTable(Purged(t, gone))
         /\ \A g \in Fds : Events(Purged(t, gone), g) =
                             IF g \in gone THEN {} ELSE Events(t, g)
<1> DEFINE f == CHOOSE h : IsPurge(h, t, gone, NumFds)
<1>1. Purged(t, gone) = f[NumFds]
  BY DEF Purged, IsPurge, After
<1>2. NumFds \in Nat /\ Fds = 1..NumFds
  BY DriversAssumption DEF Fds
<1>3. IsPurge(f, t, gone, NumFds)
  BY <1>2, PurgeExists
<1> HIDE DEF f
<1>4. \A m \in 0..NumFds : f[m] = IF m = 0 THEN t ELSE After(f[m - 1], gone, m)
  BY <1>3 DEF IsPurge
<1> DEFINE Ok(m) == /\ IsTable(f[m])
                    /\ \A g \in Fds : Events(f[m], g) =
                         IF g \in gone /\ g <= m THEN {} ELSE Events(t, g)
           Bad == {m \in 0..NumFds : ~Ok(m)}
<1>5. Bad = {}
  <2> SUFFICES ASSUME Bad # {} PROVE FALSE
    OBVIOUS
  <2>1. PICK x \in Bad : \A y \in Bad : x <= y
    <3>1. Bad \subseteq Nat
      OBVIOUS
    <3> HIDE DEF Bad
    <3> QED
      BY <3>1, LeastNat
  <2>2. CASE x = 0
    <3>1. f[0] = t
      BY <1>2, <1>4
    <3>2. \A g \in Fds : ~(g <= 0)
      BY <1>2
    <3> QED
      BY <2>1, <2>2, <3>1, <3>2
  <2>3. CASE x # 0
    <3>1. x - 1 \in 0..NumFds /\ x \in 1..NumFds /\ x - 1 \notin Bad
      BY <1>2, <2>1, <2>3
    <3>2. Ok(x - 1)
      BY <3>1
    <3>3. f[x] = After(f[x - 1], gone, x)
      BY <1>4, <2>1, <2>3
    <3>4. \A g \in Fds : g <= x <=> g <= x - 1 \/ g = x
      BY <1>2, <3>1
    <3>5. CASE x \in gone
      <4>1. f[x] = Unwatch(f[x - 1], x)
        BY <3>3, <3>5 DEF After
      <4>2. /\ IsTable(f[x])
            /\ \A g : Events(f[x], g) = IF g = x THEN {} ELSE Events(f[x - 1], g)
        BY <3>2, <4>1, UnwatchFacts
      <4>3. Ok(x)
        BY <3>2, <3>4, <3>5, <4>2
      <4> QED
        BY <2>1, <4>3
    <3>6. CASE x \notin gone
      <4>1. f[x] = f[x - 1]
        BY <3>3, <3>6 DEF After
      <4>2. Ok(x)
        BY <3>2, <3>4, <3>6, <4>1
      <4> QED
        BY <2>1, <4>2
    <3> QED
      BY <3>5, <3>6
  <2> QED
    BY <2>2, <2>3
<1>6. Ok(NumFds)
  BY <1>2, <1>5
<1>7. \A g \in Fds : g <= NumFds
  BY <1>2
<1> QED
  BY <1>1, <1>6, <1>7

-----------------------------------------------------------------------------
(* The invariant. *)

\* What the server wants in each state of a connection.
LEMMA WantedFacts ==
  ASSUME TypeOK, NEW fd \in Fds
  PROVE  /\ st[fd] \in {"listening", "handshake", "upgraded", "open"} => Wanted(fd) = {"read"}
         /\ st[fd] = "draining" => Wanted(fd) = {"read", "write"}
         /\ st[fd] \in {"free", "closed"} => Wanted(fd) = {}
<1>1. CASE st[fd] \in {"listening", "handshake", "upgraded", "open"}
  BY <1>1 DEF Wanted
<1>2. CASE st[fd] = "draining"
  BY <1>2 DEF Wanted
<1>3. CASE st[fd] \in {"free", "closed"}
  BY <1>3 DEF Wanted
<1> QED
  BY <1>1, <1>2, <1>3

\* What the kernel decides: conditions and activations have their types, and an
\* activation has its filter.
KernelKept ==
  /\ config' = config
  /\ cond' \in [Fds -> SUBSET Filters]
  /\ active' \subseteq Fds \X Filters
  /\ ActiveWatched'

\* The kernel's part of an action keeps it.
LEMMA KernelFacts ==
  ASSUME NEW t, NEW arrived, Kernel(t, arrived)
  PROVE  table' = t /\ KernelKept
<1>1. table' = t /\ config' = config /\ active' = Activated(t, cond', arrived)
  BY DEF Kernel
<1>2. kind' = kind
  BY <1>1 DEF kind
<1>3. cond' \in [Fds -> SUBSET Filters]
  BY DEF Kernel, Filters
<1>4. active' \subseteq Fds \X Filters
  BY <1>1 DEF Activated
<1>5. kind = "kqueue" => \A a \in active' : a[2] \in Events(t, a[1])
  BY <1>1 DEF Activated
<1>6. ActiveWatched'
  BY <1>1, <1>2, <1>5 DEF ActiveWatched
<1> QED
  BY <1>1, <1>3, <1>4, <1>6 DEF KernelKept

\* What is left to show of an action that changes states and the table.
LEMMA Assemble ==
  ASSUME TypeOK, IsTable(table'), KernelKept,
         st' \in [Fds -> States \cup {"listening"}],
         \A fd \in Fds : st'[fd] = "listening" <=> fd = Listener,
         loop' \in LoopStates,
         \A fd \in Fds : st'[fd] # "closed" => Events(table', fd) = Wanted(fd)',
         loop'.pc # "sweep" => \A fd \in Fds : st'[fd] # "closed"
  PROVE  DriverLoopInv'
<1>1. TypeOK'
  BY DEF TypeOK, KernelKept
<1>2. Agreed'
  BY DEF Agreed
<1> QED
  BY <1>1, <1>2 DEF DriverLoopInv, KernelKept

\* An action that changes neither states nor the table.
LEMMA AssembleSame ==
  ASSUME DriverLoopInv, NEW arrived, Kernel(table, arrived), st' = st,
         loop' \in LoopStates,
         loop'.pc # "sweep" => loop.pc # "sweep"
  PROVE  DriverLoopInv'
<1>1. \A fd \in Fds : Wanted(fd)' = Wanted(fd)
  BY DEF Wanted
<1>2. IsTable(table) /\ TypeOK
  BY DEF DriverLoopInv, Agreed
<1>3. table' = table /\ KernelKept
  BY KernelFacts
<1> QED
  BY <1>1, <1>2, <1>3, Assemble DEF DriverLoopInv, Agreed, TypeOK

\* The wait changes neither states nor the table, and forgets an activation.
LEMMA AssembleWait ==
  ASSUME DriverLoopInv, UNCHANGED <<config, table, cond, st>>, active' \subseteq active,
         loop' \in LoopStates,
         loop'.pc # "sweep" => loop.pc # "sweep"
  PROVE  DriverLoopInv'
<1>1. \A fd \in Fds : Wanted(fd)' = Wanted(fd)
  BY DEF Wanted
<1>2. TypeOK'
  BY DEF DriverLoopInv, TypeOK
<1>3. Agreed'
  BY <1>1 DEF DriverLoopInv, Agreed
<1>4. ActiveWatched'
  BY DEF DriverLoopInv, ActiveWatched, kind
<1> QED
  BY <1>2, <1>3, <1>4 DEF DriverLoopInv

\* A new descriptor is a free one.
LEMMA FreeFacts ==
  ASSUME TypeOK, Free # {}
  PROVE  Min(Free) \in ConnFds /\ st[Min(Free)] = "free"
<1>1. Free \subseteq Nat
  BY DriversAssumption DEF Free, ConnFds, Fds
<1> QED
  BY <1>1, MinIsLeast DEF Free

\* The first state.
LEMMA InitInv ==
  ASSUME Init
  PROVE  DriverLoopInv
<1>1. Listener \in Fds
  BY DriversAssumption DEF Listener, Fds
<1>2. TypeOK
  BY <1>1 DEF Init, TypeOK, States, LoopStates, Filters
<1>3. /\ table = <<[fd |-> Listener, events |-> {"read"}]>>
      /\ [fd |-> Listener, events |-> {"read"}] \in Entry
  BY <1>1 DEF Init, Entry, Filters
<1>4. /\ table \in Seq(Entry) /\ Len(table) = 1
      /\ table[1] = [fd |-> Listener, events |-> {"read"}]
  BY <1>3
<1>5. IsTable(table)
  BY <1>4 DEF IsTable
<1>6. \A i \in 1..Len(table) : i = 1
  BY <1>4
<1>7. ASSUME NEW fd \in Fds PROVE Events(table, fd) = Wanted(fd)
  <2>1. CASE fd = Listener
    <3>1. Wanted(fd) = {"read"}
      BY <1>2, <2>1, WantedFacts DEF TypeOK
    <3>2. 1 \in 1..Len(table) /\ table[1].fd = fd /\ table[1].events = {"read"}
      BY <1>4, <2>1
    <3> QED
      BY <1>5, <3>1, <3>2, EventsFacts
  <2>2. CASE fd # Listener
    <3>1. Wanted(fd) = {}
      BY <1>2, <2>2, WantedFacts DEF Init
    <3>2. \A i \in 1..Len(table) : table[i].fd # fd
      BY <1>4, <1>6, <2>2
    <3> QED
      BY <1>5, <3>1, <3>2, EventsFacts
  <2> QED
    BY <2>1, <2>2
<1>8. \A fd \in Fds : st[fd] # "closed"
  BY DEF Init
<1>9. ActiveWatched
  BY DEF Init, ActiveWatched
<1> QED
  BY <1>2, <1>5, <1>7, <1>8, <1>9 DEF DriverLoopInv, Agreed

\* An action on one connection: the others keep state and mask.
LEMMA AssembleOne ==
  ASSUME DriverLoopInv, NEW fd \in ConnFds, NEW s \in States,
         st' = [st EXCEPT ![fd] = s], IsTable(table'), KernelKept,
         \A g \in Fds : g # fd => Events(table', g) = Events(table, g),
         s \in {"handshake", "upgraded", "open"} => Events(table', fd) = {"read"},
         s = "draining" => Events(table', fd) = {"read", "write"},
         s = "free" => Events(table', fd) = {},
         loop' \in LoopStates,
         loop'.pc # "sweep" => loop.pc # "sweep" /\ s # "closed"
  PROVE  DriverLoopInv'
<1>1. TypeOK /\ Agreed /\ fd \in Fds /\ fd # Listener
  BY DEF DriverLoopInv, ConnFds
<1>2. /\ st' \in [Fds -> States \cup {"listening"}]
      /\ \A g \in Fds : st'[g] = IF g = fd THEN s ELSE st[g]
  BY <1>1 DEF TypeOK
<1>3. \A g \in Fds : st'[g] = "listening" <=> g = Listener
  BY <1>1, <1>2 DEF TypeOK, States
<1>4. ASSUME NEW g \in Fds, st'[g] # "closed" PROVE Events(table', g) = Wanted(g)'
  <2>1. CASE g # fd
    <3>1. st'[g] = st[g]
      BY <1>2, <2>1
    <3>2. Wanted(g)' = Wanted(g)
      BY <3>1 DEF Wanted
    <3> QED
      BY <1>1, <1>4, <2>1, <3>1, <3>2 DEF Agreed
  <2>2. CASE g = fd
    <3>1. st'[g] = s /\ s # "closed"
      BY <1>2, <1>4, <2>2
    <3>2. CASE s \in {"handshake", "upgraded", "open"}
      BY <2>2, <3>1, <3>2 DEF Wanted
    <3>3. CASE s = "draining"
      BY <2>2, <3>1, <3>3 DEF Wanted
    <3>4. CASE s = "free"
      BY <2>2, <3>1, <3>4 DEF Wanted
    <3> QED
      BY <3>1, <3>2, <3>3, <3>4 DEF States
  <2> QED
    BY <2>1, <2>2
<1>5. loop'.pc # "sweep" => \A g \in Fds : st'[g] # "closed"
  BY <1>1, <1>2 DEF Agreed
<1> QED
  BY <1>1, <1>2, <1>3, <1>4, <1>5, Assemble

\* accept_connection() watches the input of the new connection.
LEMMA AcceptInv ==
  ASSUME DriverLoopInv, Accept
  PROVE  DriverLoopInv'
<1> DEFINE fd == Min(Free)
           e == IF kind = "epoll" THEN {"read"} ELSE Events(table, fd) \cup {"read"}
<1>1. TypeOK /\ Agreed /\ IsTable(table)
  BY DEF DriverLoopInv, Agreed
<1>2. fd \in ConnFds /\ st[fd] = "free"
  BY <1>1, FreeFacts DEF Accept, Accepting
<1>3. fd \in Fds
  BY <1>2 DEF ConnFds
<1>4. Events(table, fd) = {}
  BY <1>1, <1>2, <1>3, WantedFacts DEF Agreed
<1>5. e = {"read"} /\ {"read"} \in SUBSET Filters
  BY <1>4 DEF Filters
<1>6. WatchRead(table, fd) = Put(table, fd, {"read"})
  BY <1>5 DEF WatchRead
<1>7. /\ IsTable(WatchRead(table, fd))
      /\ \A g : Events(WatchRead(table, fd), g) = IF g = fd THEN {"read"} ELSE Events(table, g)
  BY <1>1, <1>3, <1>5, <1>6, PutFacts
<1>8. /\ st' = [st EXCEPT ![fd] = "handshake"]
      /\ Kernel(WatchRead(table, fd), {})
      /\ loop' = [loop EXCEPT !.n = @ + 1] /\ loop.pc = "serve"
  BY DEF Accept, Accepting, Serving, At
<1> HIDE DEF fd
<1>9. loop' \in LoopStates /\ loop'.pc = loop.pc
  BY <1>1, <1>8 DEF TypeOK, LoopStates
<1>10. "handshake" \in States
  BY DEF States
<1>11. table' = WatchRead(table, fd) /\ KernelKept
  BY <1>8, KernelFacts
<1>12. /\ IsTable(table') /\ Events(table', fd) = {"read"}
       /\ \A g \in Fds : g # fd => Events(table', g) = Events(table, g)
  BY <1>7, <1>11
<1> QED
  BY <1>2, <1>8, <1>9, <1>10, <1>11, <1>12, AssembleOne

\* A visit watches the output of a connection that begins to drain, and unwatches
\* the socket that it closes, if the purge is not to do it.
LEMMA LeavesInv ==
  ASSUME DriverLoopInv, NEW fd \in ConnFds, NEW ends, Leaves(fd, ends),
         st[fd] \in {"handshake", "upgraded", "open", "draining"},
         \A to \in ends :
           \/ to.st \in {"draining", "closed"}
           \/ to.st \in {"handshake", "upgraded", "open"} /\ st[fd] # "draining",
         loop' \in LoopStates, loop'.pc = "sweep"
  PROVE  DriverLoopInv'
<1>1. TypeOK /\ Agreed /\ IsTable(table) /\ fd \in Fds
  BY DEF DriverLoopInv, Agreed, ConnFds
<1>2. /\ st[fd] = "draining" => Events(table, fd) = {"read", "write"}
      /\ st[fd] # "draining" => Events(table, fd) = {"read"}
  BY <1>1, WantedFacts DEF Agreed
<1>3. PICK to \in ends : /\ st' = [st EXCEPT ![fd] = to.st]
                         /\ \E t \in Rewatched(fd, to.st) : Kernel(t, {})
  BY DEF Leaves
<1>4. PICK t \in Rewatched(fd, to.st) : Kernel(t, {})
  BY <1>3
<1>5. table' = t /\ KernelKept
  BY <1>4, KernelFacts
<1>6. to.st \in States
  BY DEF States
<1>7. CASE to.st \in {"handshake", "upgraded", "open"}
  <2>1. table' = table
    BY <1>4, <1>5, <1>7 DEF Rewatched
  <2>2. Events(table', fd) = {"read"}
    BY <1>2, <1>7, <2>1
  <2>3. IsTable(table') /\ \A g \in Fds : g # fd => Events(table', g) = Events(table, g)
    BY <1>1, <2>1
  <2> QED
    BY <1>3, <1>5, <1>6, <1>7, <2>2, <2>3, AssembleOne
<1>8. CASE to.st = "draining"
  <2>1. table' = WatchWrite(table, fd)
    BY <1>4, <1>5, <1>8 DEF Rewatched
  <2>2. {"read"} \cup {"write"} = {"read", "write"}
        /\ {"read", "write"} \cup {"write"} = {"read", "write"}
    OBVIOUS
  <2>3. table' = Put(table, fd, {"read", "write"})
    BY <1>2, <2>1, <2>2 DEF WatchWrite
  <2>4. {"read", "write"} \in SUBSET Filters /\ {"read", "write"} # {}
    BY DEF Filters
  <2>5. /\ IsTable(table')
        /\ \A g : Events(table', g) = IF g = fd THEN {"read", "write"} ELSE Events(table, g)
    BY <1>1, <2>3, <2>4, PutFacts
  <2>6. /\ \A g \in Fds : g # fd => Events(table', g) = Events(table, g)
        /\ Events(table', fd) = {"read", "write"}
    BY <2>5
  <2> QED
    BY <1>3, <1>5, <1>6, <1>8, <2>5, <2>6, AssembleOne
<1>9. CASE to.st = "closed"
  <2>1. table' = table \/ table' = Unwatch(UnwatchWrite(table, fd), fd)
    BY <1>4, <1>5, <1>9 DEF Rewatched
  <2>2. /\ IsTable(UnwatchWrite(table, fd))
        /\ \A g : g # fd => Events(UnwatchWrite(table, fd), g) = Events(table, g)
    BY <1>1, UnwatchWriteFacts
  <2>3. IsTable(table') /\ \A g : g # fd => Events(table', g) = Events(table, g)
    BY <1>1, <2>1, <2>2, UnwatchFacts
  <2>4. \A g \in Fds : g # fd => Events(table', g) = Events(table, g)
    BY <2>3
  <2> QED
    BY <1>3, <1>5, <1>6, <1>9, <2>3, <2>4, AssembleOne
<1> QED
  BY <1>7, <1>8, <1>9

\* The ends of a visit to each kind of connection, as LeavesInv wants them.
LEMMA EndsFacts ==
  ASSUME NEW fd
  PROVE  /\ \A to \in HandshakeLeft(fd) :
              to.st \in {"handshake", "upgraded", "draining", "closed"}
         /\ \A to \in OpenLeft(fd) : to.st \in {"open", "draining", "closed"}
         /\ \A to \in DrainingLeft(fd) : to.st \in {"draining", "closed"}
         /\ \A to \in Left({st[fd], "draining", "closed"}, {rx[fd]}) :
              to.st \in {st[fd], "draining", "closed"}
  BY DEF HandshakeLeft, OpenLeft, DrainingLeft, Left

\* process_connection_fd(), whatever the connection's state.
LEMMA ServeInv ==
  ASSUME DriverLoopInv, NEW fd \in Fds,
         ServeHandshake(fd) \/ ServeOpen(fd) \/ ServeDraining(fd)
  PROVE  DriverLoopInv'
<1>1. TypeOK
  BY DEF DriverLoopInv
<1>2. st[fd] \in {"handshake", "upgraded", "open", "draining"}
  BY DEF ServeHandshake, ServeOpen, ServeDraining, Open
<1>3. fd \in ConnFds
  BY <1>1, <1>2 DEF TypeOK, ConnFds
<1>4. loop' = [loop EXCEPT !.pc = "sweep", !.due = Due']
  BY DEF ServeHandshake, ServeOpen, ServeDraining, BeginSweep
<1>5. Due' \subseteq ConnFds
  BY DEF Due
<1>6. loop' \in LoopStates /\ loop'.pc = "sweep"
  BY <1>1, <1>4, <1>5 DEF TypeOK, LoopStates
<1>7. CASE ServeHandshake(fd)
  <2>1. st[fd] = "handshake" /\ Leaves(fd, HandshakeLeft(fd))
    BY <1>7 DEF ServeHandshake
  <2>2. \A to \in HandshakeLeft(fd) :
          \/ to.st \in {"draining", "closed"}
          \/ to.st \in {"handshake", "upgraded", "open"} /\ st[fd] # "draining"
    BY <2>1, EndsFacts
  <2> QED
    BY <1>2, <1>3, <1>6, <2>1, <2>2, LeavesInv
<1>8. CASE ServeOpen(fd)
  <2>1. st[fd] \in {"upgraded", "open"} /\ Leaves(fd, OpenLeft(fd))
    BY <1>8 DEF ServeOpen, Open
  <2>2. \A to \in OpenLeft(fd) :
          \/ to.st \in {"draining", "closed"}
          \/ to.st \in {"handshake", "upgraded", "open"} /\ st[fd] # "draining"
    BY <2>1, EndsFacts
  <2> QED
    BY <1>2, <1>3, <1>6, <2>1, <2>2, LeavesInv
<1>9. CASE ServeDraining(fd)
  <2>1. st[fd] = "draining" /\ Leaves(fd, DrainingLeft(fd))
    BY <1>9 DEF ServeDraining
  <2>2. \A to \in DrainingLeft(fd) :
          \/ to.st \in {"draining", "closed"}
          \/ to.st \in {"handshake", "upgraded", "open"} /\ st[fd] # "draining"
    BY <2>1, EndsFacts
  <2> QED
    BY <1>2, <1>3, <1>6, <2>1, <2>2, LeavesInv
<1> QED
  BY <1>7, <1>8, <1>9

\* One visit of the sweep.
LEMMA SweepInv ==
  ASSUME DriverLoopInv, NEW fd \in Fds,
         SweepHandshake(fd) \/ SweepOpen(fd) \/ SweepDraining(fd)
  PROVE  DriverLoopInv'
<1>1. TypeOK
  BY DEF DriverLoopInv
<1>2. st[fd] \in {"handshake", "upgraded", "open", "draining"}
  BY DEF SweepHandshake, SweepOpen, SweepDraining, Open
<1>3. fd \in ConnFds
  BY <1>1, <1>2 DEF TypeOK, ConnFds
<1>4. loop' = [loop EXCEPT !.due = @ \ {fd}] /\ loop.pc = "sweep"
  BY DEF SweepHandshake, SweepOpen, SweepDraining, SweepVisits, At
<1>5. loop' \in LoopStates /\ loop'.pc = "sweep"
  BY <1>1, <1>4 DEF TypeOK, LoopStates
<1>6. CASE SweepHandshake(fd)
  <2>1. st[fd] = "handshake" /\ Leaves(fd, HandshakeLeft(fd))
    BY <1>6 DEF SweepHandshake, SweepVisits
  <2>2. \A to \in HandshakeLeft(fd) :
          \/ to.st \in {"draining", "closed"}
          \/ to.st \in {"handshake", "upgraded", "open"} /\ st[fd] # "draining"
    BY <2>1, EndsFacts
  <2> QED
    BY <1>2, <1>3, <1>5, <2>1, <2>2, LeavesInv
<1>7. CASE SweepOpen(fd)
  <2>1. /\ st[fd] \in {"upgraded", "open"}
        /\ Leaves(fd, Left({st[fd], "draining", "closed"}, {rx[fd]}))
    BY <1>7 DEF SweepOpen, SweepVisits, Open
  <2>2. \A to \in Left({st[fd], "draining", "closed"}, {rx[fd]}) :
          \/ to.st \in {"draining", "closed"}
          \/ to.st \in {"handshake", "upgraded", "open"} /\ st[fd] # "draining"
    BY <2>1, EndsFacts
  <2> QED
    BY <1>2, <1>3, <1>5, <2>1, <2>2, LeavesInv
<1>8. CASE SweepDraining(fd)
  <2>1. st[fd] = "draining" /\ Leaves(fd, DrainingLeft(fd))
    BY <1>8 DEF SweepDraining, SweepVisits
  <2>2. \A to \in DrainingLeft(fd) :
          \/ to.st \in {"draining", "closed"}
          \/ to.st \in {"handshake", "upgraded", "open"} /\ st[fd] # "draining"
    BY <2>1, EndsFacts
  <2> QED
    BY <1>2, <1>3, <1>5, <2>1, <2>2, LeavesInv
<1> QED
  BY <1>6, <1>7, <1>8

\* The purge that ends a turn leaves no closed connection and no entry of one.
LEMMA PurgeInv ==
  ASSUME DriverLoopInv, Purge
  PROVE  DriverLoopInv'
<1> DEFINE gone == {fd \in ConnFds : st[fd] = "closed"}
<1>1. TypeOK /\ Agreed /\ IsTable(table)
  BY DEF DriverLoopInv, Agreed
<1>2. /\ st' = [fd \in Fds |-> IF fd \in gone THEN "free" ELSE st[fd]]
      /\ Kernel(Purged(table, gone), {})
  BY DEF Purge
<1>3. gone \subseteq Fds /\ Listener \notin gone
  BY DEF ConnFds
<1>4. \A fd \in Fds : st[fd] = "closed" <=> fd \in gone
  BY <1>1 DEF TypeOK, ConnFds
<1>5. loop' = [loop EXCEPT !.pc = "wait"]
  BY DEF Purge, Goto
<1> HIDE DEF gone
<1>6. loop' \in LoopStates
  BY <1>1, <1>5 DEF TypeOK, LoopStates
<1>7. /\ st' \in [Fds -> States \cup {"listening"}]
      /\ \A fd \in Fds : st'[fd] = IF fd \in gone THEN "free" ELSE st[fd]
  BY <1>1, <1>2 DEF TypeOK, States
<1>8. \A fd \in Fds : st'[fd] = "listening" <=> fd = Listener
  BY <1>1, <1>3, <1>7 DEF TypeOK
<1>9. \A fd \in Fds : st'[fd] # "closed"
  BY <1>4, <1>7
<1>10. /\ IsTable(Purged(table, gone))
       /\ \A fd \in Fds : Events(Purged(table, gone), fd) =
                            IF fd \in gone THEN {} ELSE Events(table, fd)
  BY <1>1, <1>3, PurgedFacts
<1>11. ASSUME NEW fd \in Fds PROVE Events(Purged(table, gone), fd) = Wanted(fd)'
  <2>1. CASE fd \in gone
    <3>1. st'[fd] = "free"
      BY <1>7, <2>1
    <3>2. Wanted(fd)' = {}
      BY <3>1 DEF Wanted
    <3> QED
      BY <1>10, <2>1, <3>2
  <2>2. CASE fd \notin gone
    <3>1. st'[fd] = st[fd] /\ st[fd] # "closed"
      BY <1>4, <1>7, <2>2
    <3>2. Wanted(fd)' = Wanted(fd)
      BY <3>1 DEF Wanted
    <3> QED
      BY <1>1, <1>10, <2>2, <3>1, <3>2 DEF Agreed
  <2> QED
    BY <2>1, <2>2
<1>12. table' = Purged(table, gone) /\ KernelKept
  BY <1>2, KernelFacts
<1>13. IsTable(table') /\ \A fd \in Fds : Events(table', fd) = Wanted(fd)'
  BY <1>10, <1>11, <1>12
<1> QED
  BY <1>1, <1>6, <1>7, <1>8, <1>9, <1>12, <1>13, Assemble

\* Every step keeps the invariant.
LEMMA NextInv ==
  ASSUME DriverLoopInv, [Next]_vars
  PROVE  DriverLoopInv'
<1>0. Due \subseteq ConnFds
  BY DEF Due
<1>1. TypeOK /\ loop \in LoopStates
  BY DEF DriverLoopInv, TypeOK
<1>2. ASSUME NEW fd \in Fds, PeerSends(fd) PROVE DriverLoopInv'
  <2>1. Kernel(table, {<<fd, "read">>}) /\ st' = st /\ loop' = loop
    BY <1>2 DEF PeerSends
  <2> QED
    BY <1>1, <2>1, AssembleSame
<1>3. ASSUME NEW fd \in Fds, PeerReads(fd) PROVE DriverLoopInv'
  <2>1. Kernel(table, {<<fd, "write">>}) /\ st' = st /\ loop' = loop
    BY <1>3 DEF PeerReads
  <2> QED
    BY <1>1, <2>1, AssembleSame
<1>4. ASSUME NEW fd \in Fds, Reports(fd) PROVE DriverLoopInv'
  <2>1. UNCHANGED <<config, table, cond, st>>
    BY <1>4 DEF Reports, WaitReports
  <2>2. active' \subseteq active
    BY <1>4 DEF Reports, WaitReports, Cleared
  <2>3. loop.pc = "wait" /\ loop' = [loop EXCEPT !.pc = "serve", !.cur = fd, !.n = 0,
                                            !.missed = @ /\ fd # Listener]
    BY <1>4 DEF Reports, At
  <2> DEFINE m == loop.missed /\ fd # Listener
  <2>5. loop' = [loop EXCEPT !.pc = "serve", !.cur = fd, !.n = 0, !.missed = m]
    BY <2>3
  <2>6. m \in BOOLEAN /\ fd \in Nat
    BY <1>1, DriversAssumption DEF LoopStates, Fds
  <2> HIDE DEF m
  <2>4. loop' \in LoopStates
    BY <1>1, <2>5, <2>6 DEF LoopStates
  <2> QED
    BY <2>1, <2>2, <2>3, <2>4, AssembleWait
<1>5. ASSUME TimesOut PROVE DriverLoopInv'
  <2>1. UNCHANGED <<config, table, cond, st, active>>
    BY <1>5 DEF TimesOut, WaitTimesOut
  <2>2. loop' = [loop EXCEPT !.pc = "sweep", !.cur = 0, !.n = 0, !.due = Due]
    BY <1>5 DEF TimesOut
  <2>3. loop' \in LoopStates /\ loop'.pc = "sweep"
    BY <1>1, <1>0, <2>2 DEF LoopStates
  <2> QED
    BY <2>1, <2>3, AssembleWait
<1>6. ASSUME AcceptRejects PROVE DriverLoopInv'
  <2>1. Kernel(table, {}) /\ st' = st /\ loop' = [loop EXCEPT !.n = @ + 1]
    BY <1>6 DEF AcceptRejects
  <2>2. loop' \in LoopStates /\ loop'.pc = loop.pc
    BY <1>1, <2>1 DEF LoopStates
  <2> QED
    BY <2>1, <2>2, AssembleSame
<1>7. ASSUME AcceptThrows PROVE DriverLoopInv'
  <2>1. Kernel(table, {}) /\ st' = st /\ loop' = [loop EXCEPT !.pc = "failed"]
    BY <1>7 DEF AcceptThrows, Goto
  <2>2. loop' \in LoopStates /\ loop.pc = "serve"
    BY <1>1, <1>7, <2>1 DEF LoopStates, AcceptThrows, Accepting, Serving, At
  <2> QED
    BY <2>1, <2>2, AssembleSame
<1>8. ASSUME AcceptEnds PROVE DriverLoopInv'
  <2>1. UNCHANGED <<config, table, cond, st, active>>
    BY <1>8 DEF AcceptEnds, driverVars
  <2>2. loop' = [loop EXCEPT !.pc = "sweep", !.due = Due,
                            !.missed = rx[Listener] > 0 /\ loop.n < BatchLimit]
    BY <1>8 DEF AcceptEnds
  <2>3. loop' \in LoopStates /\ loop'.pc = "sweep"
    BY <1>1, <1>0, <2>2 DEF LoopStates
  <2> QED
    BY <2>1, <2>3, AssembleWait
<1>9. ASSUME UNCHANGED vars PROVE DriverLoopInv'
  <2>1. UNCHANGED <<config, table, cond, st, active, loop>>
    BY <1>9 DEF vars, driverVars
  <2> QED
    BY <1>1, <2>1, AssembleWait
<1>10. ASSUME AcceptFails PROVE DriverLoopInv'
  <2>1. /\ Kernel(table, {}) /\ st' = st
        /\ loop' = [loop EXCEPT !.pc = "sweep", !.due = Due, !.n = @ + 1,
                               !.missed = rx[Listener] > 1]
    BY <1>10 DEF AcceptFails
  <2> DEFINE m == rx[Listener] > 1
             k == loop.n + 1
  <2>3. m \in BOOLEAN /\ k \in Nat
    BY <1>1 DEF LoopStates
  <2>4. loop' = [loop EXCEPT !.pc = "sweep", !.due = Due, !.n = k, !.missed = m]
    BY <2>1
  <2> HIDE DEF m, k
  <2>2. loop' \in LoopStates /\ loop'.pc = "sweep"
    BY <1>0, <1>1, <2>3, <2>4 DEF LoopStates
  <2> QED
    BY <2>1, <2>2, AssembleSame
<1>11. CASE Turn
  BY <1>4, <1>5, <1>6, <1>7, <1>8, <1>10, <1>11, AcceptInv, ServeInv, SweepInv, PurgeInv
  DEF Turn
<1> QED
  BY <1>2, <1>3, <1>9, <1>11 DEF Next

\* What is watched is what the server asked for, whatever the driver: the array
\* has one entry per descriptor, and no entry outlives the turn in which its
\* connection closed.
THEOREM WatchedAsAsked == Spec => []DriverLoopInv
<1>1. Init => DriverLoopInv
  BY InitInv
<1>2. DriverLoopInv /\ [Next]_vars => DriverLoopInv'
  BY NextInv
<1> QED
  BY <1>1, <1>2, PTL DEF Spec

-----------------------------------------------------------------------------
(* The refinement. *)

\* What the server asked for stands for the abstract driver's interests.
interests == [fd \in Fds |-> Wanted(fd)]

\* The server's wishes are masks of the interface, before and after a step.
LEMMA InterestType ==
  /\ interests \in [Fds -> Abstract!Masks]
  /\ interests' \in [Fds -> Abstract!Masks]
<1>1. ASSUME NEW fd \in Fds PROVE Wanted(fd) \in Abstract!Masks
  BY DEF Wanted, Abstract!Masks, Abstract!Events
<1>2. ASSUME NEW fd \in Fds PROVE Wanted(fd)' \in Abstract!Masks
  BY DEF Wanted, Abstract!Masks, Abstract!Events
<1> QED
  BY <1>1, <1>2 DEF interests

\* What wait() reports is ready: poll and select find it in the array, epoll and
\* kqueue in the kernel.
LEMMA ReportIsReady ==
  ASSUME DriverLoopInv, At("wait"), NEW fd \in Reportable
  PROVE  fd \in Fds /\ Wanted(fd) \cap cond[fd] # {}
<1>1. IsTable(table) /\ \A g \in Fds : Events(table, g) = Wanted(g)
  BY DEF DriverLoopInv, Agreed, At
<1>2. kind \in Kinds
  BY DriverLoopAssumption DEF DriverLoopInv, TypeOK, kind
<1>3. CASE kind # "kqueue"
  <2>1. PICK i \in DOMAIN table : /\ Holding(table, cond, table[i].fd) # {}
                                  /\ fd = table[i].fd
    BY <1>2, <1>3 DEF Reportable, Kinds
  <2>2. table[i] \in Entry
    BY <1>1, <2>1 DEF IsTable
  <2>3. fd \in Fds
    BY <2>1, <2>2 DEF Entry
  <2> QED
    BY <1>1, <2>1, <2>3 DEF Holding
<1>4. CASE kind = "kqueue"
  <2>1. PICK a \in active : a[2] \in cond[a[1]] /\ fd = a[1]
    BY <1>4 DEF Reportable
  <2>2. fd \in Fds
    BY <2>1 DEF DriverLoopInv, TypeOK
  <2>3. a[2] \in Events(table, a[1])
    BY <1>4, <2>1 DEF DriverLoopInv, ActiveWatched
  <2> QED
    BY <1>1, <2>1, <2>2, <2>3
<1> QED
  BY <1>3, <1>4

\* A level-triggered driver that times out has nothing ready.
LEMMA TimeoutIsQuiet ==
  ASSUME DriverLoopInv, At("wait"), Reportable = {}, kind # "kqueue", NEW fd \in Fds
  PROVE  Wanted(fd) \cap cond[fd] = {}
<1> SUFFICES ASSUME Wanted(fd) \cap cond[fd] # {} PROVE FALSE
  OBVIOUS
<1>1. IsTable(table) /\ Events(table, fd) = Wanted(fd)
  BY DEF DriverLoopInv, Agreed, At
<1>2. kind \in {"epoll", "poll", "select"}
  BY DriverLoopAssumption DEF DriverLoopInv, TypeOK, kind, Kinds
<1> DEFINE ready == {i \in DOMAIN table : Holding(table, cond, table[i].fd) # {}}
<1>3. DOMAIN table = 1..Len(table) /\ Len(table) \in Nat
  BY <1>1 DEF IsTable
<1>4. PICK i \in 1..Len(table) : table[i].fd = fd
  BY <1>1, EventsFacts
<1>5. i \in ready
  BY <1>1, <1>3, <1>4 DEF Holding
<1>6. ready \subseteq Nat
  BY <1>3
<1> HIDE DEF ready
<1>7. CASE kind = "epoll"
  <2>1. Reportable = {table[j].fd : j \in ready}
    BY <1>7 DEF Reportable, ready
  <2> QED
    BY <1>5, <2>1
<1>8. CASE kind \in {"poll", "select"}
  <2>1. Reportable = {table[j].fd : j \in {m \in ready : \A k \in ready : m <= k}}
    BY <1>8 DEF Reportable, ready
  <2>2. PICK x \in ready : \A k \in ready : x <= k
    BY <1>5, <1>6, LeastNat
  <2> QED
    BY <2>1, <2>2
<1> QED
  BY <1>2, <1>7, <1>8

\* An action that is none of the driver's changes no report.
LEMMA ChangesOnly ==
  ASSUME KernelKept, report' = report
  PROVE  Abstract!Changes
<1>1. (kind = "kqueue")' = (kind = "kqueue")
  BY DEF KernelKept, kind
<1>2. cond' \in [Fds -> SUBSET Abstract!Events]
  BY DEF KernelKept, Filters, Abstract!Events
<1> QED
  BY <1>1, <1>2, InterestType DEF Abstract!Changes, interests

\* A turn of the loop, a call of the server and an action of a peer are steps of
\* the interface.
LEMMA StepImplements ==
  ASSUME DriverLoopInv, [Next]_vars
  PROVE  [Abstract!Next]_(Abstract!vars)
<1>1. ASSUME NEW fd \in Fds, Reports(fd) PROVE Abstract!Waits
  <2>1. /\ At("wait") /\ fd \in Reportable /\ report' = fd
        /\ UNCHANGED <<config, cond, st>>
    BY <1>1 DEF Reports, WaitReports
  <2>2. Wanted(fd) \cap cond[fd] # {}
    BY <2>1, ReportIsReady
  <2>3. fd \in Abstract!Ready
    BY <2>2 DEF Abstract!Ready
  <2>4. interests' = interests /\ (kind = "kqueue")' = (kind = "kqueue")
    BY <2>1 DEF interests, Wanted, kind
  <2> QED
    BY <2>1, <2>3, <2>4 DEF Abstract!Waits, interests
<1>2. ASSUME TimesOut PROVE Abstract!Waits
  <2>1. /\ At("wait") /\ Reportable = {} /\ report' = 0
        /\ UNCHANGED <<config, cond, st>>
    BY <1>2 DEF TimesOut, WaitTimesOut
  <2>2. Abstract!Ready = {} \/ kind = "kqueue"
    BY <2>1, TimeoutIsQuiet DEF Abstract!Ready
  <2>3. interests' = interests /\ (kind = "kqueue")' = (kind = "kqueue")
    BY <2>1 DEF interests, Wanted, kind
  <2> QED
    BY <2>1, <2>2, <2>3 DEF Abstract!Waits, interests
<1>3. ASSUME NEW t, NEW arrived, Kernel(t, arrived), report' = report
      PROVE  Abstract!Changes
  BY <1>3, KernelFacts, ChangesOnly
<1>4. ASSUME NEW fd \in Fds, PeerSends(fd) PROVE Abstract!Changes
  BY <1>3, <1>4 DEF PeerSends
<1>5. ASSUME NEW fd \in Fds, PeerReads(fd) PROVE Abstract!Changes
  BY <1>3, <1>5 DEF PeerReads
<1>6. ASSUME NEW fd, NEW ends, Leaves(fd, ends) PROVE Abstract!Changes
  <2>1. PICK t : Kernel(t, {}) /\ report' = report
    BY <1>6 DEF Leaves
  <2> QED
    BY <1>3, <2>1
<1>7. ASSUME NEW fd \in Fds, ServeHandshake(fd) \/ ServeOpen(fd) \/ ServeDraining(fd)
      PROVE  Abstract!Changes
  BY <1>6, <1>7 DEF ServeHandshake, ServeOpen, ServeDraining
<1>8. ASSUME NEW fd \in Fds, SweepHandshake(fd) \/ SweepOpen(fd) \/ SweepDraining(fd)
      PROVE  Abstract!Changes
  BY <1>6, <1>8 DEF SweepHandshake, SweepOpen, SweepDraining, SweepVisits
<1>9. ASSUME Accept PROVE Abstract!Changes
  BY <1>3, <1>9 DEF Accept
<1>10. ASSUME AcceptRejects PROVE Abstract!Changes
  BY <1>3, <1>10 DEF AcceptRejects
<1>11. ASSUME AcceptThrows PROVE Abstract!Changes
  BY <1>3, <1>11 DEF AcceptThrows
<1>12. ASSUME Purge PROVE Abstract!Changes
  <2>1. PICK gone : Kernel(Purged(table, gone), {}) /\ report' = report
    BY <1>12 DEF Purge
  <2> QED
    BY <1>3, <2>1
<1>13. ASSUME UNCHANGED <<config, cond, report, st>> PROVE UNCHANGED Abstract!vars
  BY <1>13 DEF Abstract!vars, Wanted, kind
<1>14. ASSUME AcceptEnds PROVE UNCHANGED Abstract!vars
  BY <1>13, <1>14 DEF AcceptEnds, driverVars
<1>15. ASSUME UNCHANGED vars PROVE UNCHANGED Abstract!vars
  BY <1>13, <1>15 DEF vars, driverVars
<1>16. ASSUME AcceptFails PROVE Abstract!Changes
  BY <1>3, <1>16 DEF AcceptFails
<1>17. CASE Turn
  BY <1>1, <1>2, <1>7, <1>8, <1>9, <1>10, <1>11, <1>12, <1>14, <1>16, <1>17
  DEF Turn, Abstract!Next
<1> QED
  BY <1>4, <1>5, <1>15, <1>17 DEF Next, Abstract!Next

\* The four drivers are one to the server, whatever they watch and in whatever
\* order: what wait() reports is a descriptor with a condition that the server
\* asked for, and it times out only when there is none (kqueue: or when it has
\* been reported).
THEOREM DriversImplement == Spec => ImplementsDriver
<1>1. Init => Abstract!Init
  <2> SUFFICES ASSUME Init PROVE Abstract!Init
    OBVIOUS
  <2>1. cond \in [Fds -> SUBSET Abstract!Events] /\ report = 0
    BY DEF Init, Abstract!Events
  <2> QED
    BY <2>1, InterestType DEF Abstract!Init, interests
<1>2. DriverLoopInv /\ [Next]_vars => [Abstract!Next]_(Abstract!vars)
  BY StepImplements
<1> QED
  BY <1>1, <1>2, WatchedAsAsked, PTL DEF Spec, ImplementsDriver, Abstract!Spec
=============================================================================

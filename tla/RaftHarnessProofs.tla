------------------------- MODULE RaftHarnessProofs -------------------------
(***************************************************************************)
(* Proofs about RaftHarness, for any number of servers, restarts, Calls    *)
(* and procedures of the tester: what was acknowledged is durable, no      *)
(* Persister loses an update, the links are as connect and disconnect left *)
(* them, and old instances stay silenced.                                  *)
(*                                                                         *)
(* The network's own invariant is taken from LabRPCProofs: every step of   *)
(* the harness is a step of the network or leaves it alone.                *)
(***************************************************************************)
EXTENDS RaftHarness, TLAPS, SequenceTheorems

NP == INSTANCE LabRPCProofs WITH
        EndNames <- Servers \X Gens \X Servers, ServerNames <- Servers,
        Instances <- Servers \X Gens, Hanging <- {}

-----------------------------------------------------------------------------
(* The steps that the tester has still to take: one procedure on one       *)
(* server, in order.                                                       *)

Elements(seq) == {seq[p] : p \in 1..Len(seq)}
Pending       == Elements(todo)
Due(name, i)  == <<name, i, i>> \in Pending

Loops        == {"enableOut", "enableIn", "disableOut", "disableIn", "makeEnd", "wire"}
ConnectSteps == {"online", "enableOut", "enableIn"}
AfterOffline == {"disableOut", "disableIn", "delete", "copy", "kill", "readState", "replace",
                 "names", "makeEnd", "wire", "fresh", "make", "add"}
AfterDelete  == {"copy", "kill", "readState", "replace", "names", "makeEnd", "wire",
                 "fresh", "make", "add"}
AfterCopy    == {"kill", "readState", "replace", "names", "makeEnd", "wire", "fresh", "make"}

\* The place of each step in its procedure.
Rank == [setunreliable |-> 0,
         online |-> 1, enableOut |-> 2, enableIn |-> 3,
         offline |-> 1, disableOut |-> 2, disableIn |-> 3, delete |-> 4, copy |-> 5,
         kill |-> 6, readState |-> 7, replace |-> 8, names |-> 9, makeEnd |-> 10,
         wire |-> 10, fresh |-> 11, make |-> 12, add |-> 13]

Names == {"setunreliable", "online", "enableOut", "enableIn"}
           \cup {"offline"} \cup AfterOffline
Steps == {t \in Names \X Servers \X Servers : t[1] \notin Loops => t[2] = t[3]}

Precedes(s, t) ==
  /\ s[2] = t[2]
  /\ s[1] \in ConnectSteps <=> t[1] \in ConnectSteps
  /\ Rank[s[1]] <= Rank[t[1]]
  /\ s[1] \notin Loops => Rank[s[1]] < Rank[t[1]]

Ordered(seq) ==
  /\ seq \in Seq(Steps)
  /\ \A p, q \in 1..Len(seq) : p < q => Precedes(seq[p], seq[q])

-----------------------------------------------------------------------------
(* The inductive invariant.                                                *)

ConfigTypes ==
  /\ connected \in [Servers -> BOOLEAN]
  /\ gen \in [Servers -> 0..MaxStarts] /\ rafts \in [Servers -> 0..MaxStarts]
  /\ heap \in Seq(Contents)
  /\ saved \in [Servers -> 0..Len(heap)]
  /\ disk \in [Servers \X Gens -> 0..Len(heap)]
  /\ mem \in [Servers \X Gens -> SUBSET Calls]
  /\ saving \subseteq Calls
  /\ raftlog \subseteq Calls /\ picks \in 0..(2*N + MaxPicks)

\* make_config starts the servers in turn; a server has as many sets of
\* names as it was started.
Progress ==
  /\ Ordered(todo)
  /\ \A t \in Pending : t[1] = "setunreliable" \/ t[2] <= picks
  /\ \A i \in Servers : i <= picks => gen[i] > 0 \/ Due("names", i)
  /\ \A i \in Servers : i > picks => gen[i] = 0
  /\ \A i \in Servers : Due("names", i) => gen[i] < MaxStarts

\* The links: an end may be enabled although it should not, or the reverse,
\* only while the procedure that will change this is under way.
Links ==
  /\ \A t \in Pending : t[1] \in {"enableOut", "enableIn"} =>
       Due("online", t[2]) \/ connected[t[2]]
  /\ \A t \in Pending : t[1] \in AfterOffline => Due("offline", t[2]) \/ ~connected[t[2]]
  /\ \A i, j \in Servers : Due("online", i) =>
       <<"enableOut", i, j>> \in Pending /\ <<"enableIn", i, j>> \in Pending
  /\ \A i, j \in Servers : Due("offline", i) =>
       <<"disableOut", i, j>> \in Pending /\ <<"disableIn", i, j>> \in Pending
  /\ \A i, j \in Servers, g \in Gens : g # gen[i] => ~enabled[<<i, g, j>>]
  /\ \A i, j \in Servers : gen[i] # 0 =>
       /\ enabled[EndName(i, j)] /\ ~(connected[i] /\ connected[j]) =>
            <<"disableOut", i, j>> \in Pending \/ <<"disableIn", j, i>> \in Pending
       /\ connected[i] /\ connected[j] /\ ~enabled[EndName(i, j)] =>
            <<"enableOut", i, j>> \in Pending \/ <<"enableIn", j, i>> \in Pending

\* Which Persister belongs to whom.
Owners ==
  /\ \A a, b \in Servers \X Gens : disk[a] # 0 /\ disk[a] = disk[b] => a = b
  /\ \A a \in Servers \X Gens, i \in Servers :
       disk[a] # 0 /\ disk[a] = saved[i] => a = <<i, gen[i]>>
  /\ \A i, j \in Servers : saved[i] # 0 /\ saved[i] = saved[j] => i = j
  /\ \A i \in Servers, g \in Gens : disk[<<i, g>>] # 0 =>
       g <= gen[i] /\ (g = gen[i] => ~Due("make", i) \/ Due("names", i))

\* Where crash1 and start1 are: the server is deleted before its Persister is
\* superseded, and no instance writes to the one the next instance will get.
Crashing ==
  /\ \A t \in Pending : t[1] \in AfterDelete => Due("delete", t[2]) \/ servers[t[2]] = Nil
  /\ \A t \in Pending : t[1] \in AfterCopy =>
       Due("copy", t[2]) \/ \A a \in Servers \X Gens : disk[a] # 0 => disk[a] # saved[t[2]]
  /\ \A i \in Servers : Due("replace", i) =>
       \/ Due("readState", i)
       \/ ~Due("copy", i) /\ (saved[i] # 0 => raftlog = heap[saved[i]].state)
  /\ \A i \in Servers : Due("make", i) => Due("fresh", i) \/ saved[i] # 0
  /\ \A i \in Servers : Due("add", i) =>
       \/ Due("make", i)
       \/ Pending = {<<"add", i, i>>} /\ saved[i] # 0 /\ disk[<<i, gen[i]>>] = saved[i]

\* What the Persisters and the instances hold.
Contained ==
  /\ \A n \in 1..Len(heap) : heap[n].state = heap[n].snapshot
  /\ \A a \in Servers \X Gens : disk[a] # 0 => heap[disk[a]].state = mem[a]

\* The registered instance is the latest one, and writes to saved[i].
Registered ==
  \A i \in Servers : servers[i] # Nil =>
    servers[i] = <<i, gen[i]>> /\ saved[i] # 0 /\ disk[servers[i]] = saved[i]

\* The handlers: what they have saved, and for whom.
Handlers ==
  \A c \in Calls :
    /\ proc[c] \in {"deliver", "await", "replied", "gaveup", "answering", "late"}
         \/ handler[c] # "none"
       => /\ server[c] \in Servers \X Gens /\ server[c][1] = target[c]
          /\ disk[server[c]] # 0
    /\ c \in saving =>
         handler[c] \in {"running", "finished", "exit"} /\ c \in mem[server[c]]
    /\ handler[c] \in {"finished", "exit"} => c \in saving
    /\ finishedLive[c] =>
         /\ handler[c] \in {"finished", "exit"}
         /\ saved[target[c]] # 0 /\ c \in heap[saved[target[c]]].state

ConfigInv == /\ ConfigTypes /\ Progress /\ Links /\ Owners /\ Crashing
             /\ Contained /\ Registered /\ Handlers

HarnessInv == NP!IInv /\ ConfigInv

-----------------------------------------------------------------------------
(* The tester's procedures.                                                *)

(* The place of each step, one by one.                                     *)
LEMMA RankIs ==
  /\ Rank["setunreliable"] = 0 /\ Rank["online"] = 1
  /\ Rank["enableOut"] = 2 /\ Rank["enableIn"] = 3
  /\ Rank["offline"] = 1 /\ Rank["disableOut"] = 2 /\ Rank["disableIn"] = 3
  /\ Rank["delete"] = 4 /\ Rank["copy"] = 5 /\ Rank["kill"] = 6
  /\ Rank["readState"] = 7 /\ Rank["replace"] = 8 /\ Rank["names"] = 9
  /\ Rank["makeEnd"] = 10 /\ Rank["wire"] = 10 /\ Rank["fresh"] = 11
  /\ Rank["make"] = 12 /\ Rank["add"] = 13
  BY DEF Rank

(* Two ordered sequences, the first of which comes before the second, are  *)
(* ordered when put together (\o in crash1 and start1).                    *)
LEMMA ConcatOrdered ==
  ASSUME NEW s, NEW t, Ordered(s), Ordered(t),
         \A x \in Elements(s), y \in Elements(t) : Precedes(x, y)
  PROVE  Ordered(s \o t) /\ Elements(s \o t) = Elements(s) \cup Elements(t)
<1> DEFINE st == s \o t
<1>1. s \in Seq(Steps) /\ t \in Seq(Steps)
  BY DEF Ordered
<1>2. /\ st \in Seq(Steps) /\ Len(st) = Len(s) + Len(t)
      /\ Len(s) \in Nat /\ Len(t) \in Nat
      /\ \A p \in 1..Len(s) : st[p] = s[p]
      /\ \A p \in 1..Len(t) : st[p + Len(s)] = t[p]
  BY <1>1, SMT
<1> HIDE DEF st
<1>3. ASSUME NEW p \in 1..Len(st)
      PROVE  (p \in 1..Len(s) /\ st[p] = s[p])
             \/ (p - Len(s) \in 1..Len(t) /\ p > Len(s) /\ st[p] = t[p - Len(s)])
  <2>1. CASE p <= Len(s)
    BY <1>2, <2>1
  <2>2. CASE p > Len(s)
    <3>1. p - Len(s) \in 1..Len(t) /\ (p - Len(s)) + Len(s) = p
      BY <1>2, <2>2
    <3> QED
      BY <1>2, <2>2, <3>1
  <2> QED
    BY <1>2, <2>1, <2>2
<1>4. Elements(st) = Elements(s) \cup Elements(t)
  <2>1. ASSUME NEW p \in 1..Len(st) PROVE st[p] \in Elements(s) \cup Elements(t)
    BY <1>3 DEF Elements
  <2>2. ASSUME NEW p \in 1..Len(s) PROVE s[p] \in Elements(st)
    <3>1. p \in 1..Len(st)
      BY <1>2
    <3> QED
      BY <1>2, <3>1 DEF Elements
  <2>3. ASSUME NEW p \in 1..Len(t) PROVE t[p] \in Elements(st)
    <3>1. p + Len(s) \in 1..Len(st)
      BY <1>2
    <3> QED
      BY <1>2, <3>1 DEF Elements
  <2> QED
    BY <2>1, <2>2, <2>3 DEF Elements
<1>5. ASSUME NEW p \in 1..Len(st), NEW q \in 1..Len(st), p < q
      PROVE  Precedes(st[p], st[q])
  <2>1. CASE p > Len(s)
    <3>1. /\ p - Len(s) \in 1..Len(t) /\ st[p] = t[p - Len(s)]
          /\ q - Len(s) \in 1..Len(t) /\ st[q] = t[q - Len(s)]
          /\ p - Len(s) < q - Len(s)
      BY <1>2, <1>3, <1>5, <2>1
    <3> QED
      BY <3>1 DEF Ordered
  <2>2. CASE q <= Len(s)
    <3>1. /\ p \in 1..Len(s) /\ st[p] = s[p] /\ q \in 1..Len(s) /\ st[q] = s[q]
      BY <1>2, <1>5, <2>2
    <3> QED
      BY <1>5, <3>1 DEF Ordered
  <2>3. CASE p <= Len(s) /\ q > Len(s)
    <3>1. /\ p \in 1..Len(s) /\ st[p] = s[p]
          /\ q - Len(s) \in 1..Len(t) /\ st[q] = t[q - Len(s)]
      BY <1>2, <1>3, <2>3
    <3>2. st[p] \in Elements(s) /\ st[q] \in Elements(t)
      BY <3>1 DEF Elements
    <3> QED
      BY <3>2
  <2> QED
    BY <1>2, <1>5, <2>1, <2>2, <2>3
<1> QED
  BY <1>2, <1>4, <1>5 DEF Ordered, st

(* A single step, and a loop over the servers.                             *)
LEMMA SingleOrdered ==
  ASSUME NEW t \in Steps
  PROVE  Ordered(<<t>>) /\ Elements(<<t>>) = {t}
<1>1. <<t>> \in Seq(Steps) /\ Len(<<t>>) = 1 /\ <<t>>[1] = t
  OBVIOUS
<1> QED
  BY <1>1 DEF Ordered, Elements

LEMMA LoopOrdered ==
  ASSUME NEW name \in Loops, NEW i \in Servers
  PROVE  /\ Ordered(ForEach(name, i))
         /\ Elements(ForEach(name, i)) = {<<name, i, j>> : j \in Servers}
<1> DEFINE seq == ForEach(name, i)
<1>1. seq \in [1..N -> Steps] /\ N \in Nat
  BY HarnessAssumption DEF ForEach, Steps, Servers, Loops, Names, AfterOffline
<1>2. seq \in Seq(Steps) /\ Len(seq) = N
  BY <1>1
<1>3. \A p \in 1..N : seq[p] = <<name, i, p>>
  BY DEF ForEach, Servers
<1> HIDE DEF seq
<1>4. Rank[name] \in Nat
  BY RankIs DEF Loops
<1>5. ASSUME NEW p \in 1..Len(seq), NEW q \in 1..Len(seq) PROVE Precedes(seq[p], seq[q])
  BY <1>2, <1>3, <1>4 DEF Precedes
<1> QED
  BY <1>2, <1>3, <1>5 DEF Ordered, Elements, Servers, seq

LEMMA MakeEndsOrdered ==
  ASSUME NEW i \in Servers
  PROVE  /\ Ordered(MakeEnds(i))
         /\ Elements(MakeEnds(i)) \subseteq
              {t \in Steps : t[1] \in {"makeEnd", "wire"} /\ t[2] = i}
<1> DEFINE seq == MakeEnds(i)
<1>1. N \in Nat /\ 2*N \in Nat
  BY HarnessAssumption
<1>2. ASSUME NEW k \in 1..2*N
      PROVE  /\ seq[k] \in Steps
             /\ seq[k][1] \in {"makeEnd", "wire"} /\ seq[k][2] = i
  <2>1. (k + 1) \div 2 \in Servers
    BY <1>1, SMT DEF Servers
  <2>2. seq[k] = <<IF k % 2 = 1 THEN "makeEnd" ELSE "wire", i, (k + 1) \div 2>>
    BY DEF MakeEnds
  <2>3. (IF k % 2 = 1 THEN "makeEnd" ELSE "wire") \in {"makeEnd", "wire"}
    OBVIOUS
  <2> HIDE DEF seq
  <2> QED
    BY <2>1, <2>2, <2>3 DEF Steps, Loops, Names, AfterOffline
<1>3. seq \in [1..2*N -> Steps]
  <2>1. seq = [k \in 1..2*N |-> seq[k]]
    BY DEF MakeEnds
  <2> HIDE DEF seq
  <2> QED
    BY <1>2, <2>1
<1>4. seq \in Seq(Steps) /\ Len(seq) = 2*N
  BY <1>1, <1>3
<1> HIDE DEF seq
<1>5. ASSUME NEW p \in 1..Len(seq), NEW q \in 1..Len(seq) PROVE Precedes(seq[p], seq[q])
  BY <1>2, <1>4, RankIs DEF Precedes, ConnectSteps, Loops
<1> QED
  BY <1>2, <1>4, <1>5 DEF Ordered, Elements, seq

\* What a procedure on server i consists of: a step that relies on an earlier
\* one comes with it.
Procedure(seq, i) ==
  LET Has(name) == <<name, i, i>> \in Elements(seq)
  IN  /\ Ordered(seq)
      /\ \A t \in Elements(seq) :
           /\ t[2] = i /\ t[1] # "setunreliable"
           /\ t[1] \in {"enableOut", "enableIn"} => Has("online")
           /\ t[1] \in AfterOffline => Has("offline")
           /\ t[1] \in AfterDelete => Has("delete")
           /\ t[1] \in AfterCopy => Has("copy")
           /\ t[1] = "replace" => Has("readState")
           /\ t[1] = "make" => Has("fresh") /\ Has("names")
           /\ t[1] = "add" => Has("make")
      /\ \A j \in Servers :
           /\ Has("online") => /\ <<"enableOut", i, j>> \in Elements(seq)
                               /\ <<"enableIn", i, j>> \in Elements(seq)
           /\ Has("offline") => /\ <<"disableOut", i, j>> \in Elements(seq)
                                /\ <<"disableIn", i, j>> \in Elements(seq)

\* The steps of a loop over the servers.
ForAll(name, i) == {<<name, i, j>> : j \in Servers}

LEMMA DisconnectSteps ==
  ASSUME NEW i \in Servers
  PROVE  /\ Ordered(disconnect(i))
         /\ Elements(disconnect(i)) = {<<"offline", i, i>>} \cup ForAll("disableOut", i)
                                        \cup ForAll("disableIn", i)
<1> DEFINE a == << <<"offline", i, i>> >>
           b == ForEach("disableOut", i)
           c == ForEach("disableIn", i)
<1>1. Ordered(a) /\ Elements(a) = {<<"offline", i, i>>}
  <2>1. <<"offline", i, i>> \in Steps
    BY DEF Steps, Names
  <2> QED
    BY <2>1, SingleOrdered
<1>2. Ordered(b) /\ Elements(b) = ForAll("disableOut", i)
  BY LoopOrdered DEF Loops, ForAll
<1>3. Ordered(c) /\ Elements(c) = ForAll("disableIn", i)
  BY LoopOrdered DEF Loops, ForAll
<1>4. disconnect(i) = (a \o b) \o c
  BY DEF disconnect
<1> HIDE DEF a, b, c
<1>5. Ordered(a \o b) /\ Elements(a \o b) = Elements(a) \cup Elements(b)
  <2>1. \A x \in Elements(a), y \in Elements(b) : Precedes(x, y)
    BY <1>1, <1>2, RankIs DEF ForAll, Precedes, ConnectSteps, Loops
  <2> QED
    BY <1>1, <1>2, <2>1, ConcatOrdered
<1>6. /\ Ordered((a \o b) \o c)
      /\ Elements((a \o b) \o c) = Elements(a \o b) \cup Elements(c)
  <2>1. \A x \in Elements(a \o b), y \in Elements(c) : Precedes(x, y)
    BY <1>1, <1>2, <1>3, <1>5, RankIs DEF ForAll, Precedes, ConnectSteps, Loops
  <2> QED
    BY <1>3, <1>5, <2>1, ConcatOrdered
<1> QED
  BY <1>1, <1>2, <1>3, <1>4, <1>5, <1>6

LEMMA ConnectProcedure ==
  ASSUME NEW i \in Servers
  PROVE  Procedure(connect(i), i) /\ \A t \in Elements(connect(i)) : t[1] \in ConnectSteps
<1> DEFINE a == << <<"online", i, i>> >>
           b == ForEach("enableOut", i)
           c == ForEach("enableIn", i)
<1>1. Ordered(a) /\ Elements(a) = {<<"online", i, i>>}
  <2>1. <<"online", i, i>> \in Steps
    BY DEF Steps, Names
  <2> QED
    BY <2>1, SingleOrdered
<1>2. Ordered(b) /\ Elements(b) = ForAll("enableOut", i)
  BY LoopOrdered DEF Loops, ForAll
<1>3. Ordered(c) /\ Elements(c) = ForAll("enableIn", i)
  BY LoopOrdered DEF Loops, ForAll
<1>4. connect(i) = (a \o b) \o c
  BY DEF connect
<1> HIDE DEF a, b, c
<1>5. Ordered(a \o b) /\ Elements(a \o b) = Elements(a) \cup Elements(b)
  <2>1. \A x \in Elements(a), y \in Elements(b) : Precedes(x, y)
    BY <1>1, <1>2, RankIs DEF ForAll, Precedes, ConnectSteps, Loops
  <2> QED
    BY <1>1, <1>2, <2>1, ConcatOrdered
<1>6. /\ Ordered((a \o b) \o c)
      /\ Elements((a \o b) \o c) = Elements(a \o b) \cup Elements(c)
  <2>1. \A x \in Elements(a \o b), y \in Elements(c) : Precedes(x, y)
    BY <1>1, <1>2, <1>3, <1>5, RankIs DEF ForAll, Precedes, ConnectSteps, Loops
  <2> QED
    BY <1>3, <1>5, <2>1, ConcatOrdered
<1>7. Elements(connect(i)) = {<<"online", i, i>>} \cup ForAll("enableOut", i)
                             \cup ForAll("enableIn", i)
  BY <1>1, <1>2, <1>3, <1>4, <1>5, <1>6
<1>8. \A t \in Elements(connect(i)) : t[2] = i /\ t[1] \in ConnectSteps
  BY <1>7 DEF ForAll, ConnectSteps
<1> QED
  BY <1>4, <1>6, <1>7, <1>8
     DEF Procedure, ConnectSteps, AfterOffline, AfterDelete, AfterCopy, ForAll

LEMMA DisconnectProcedure ==
  ASSUME NEW i \in Servers
  PROVE  /\ Procedure(disconnect(i), i)
         /\ \A t \in Elements(disconnect(i)) : t[1] \in {"offline", "disableOut", "disableIn"}
<1>1. \A t \in Elements(disconnect(i)) :
        t[2] = i /\ t[1] \in {"offline", "disableOut", "disableIn"}
  BY DisconnectSteps DEF ForAll
<1> QED
  BY <1>1, DisconnectSteps
     DEF Procedure, AfterOffline, AfterDelete, AfterCopy, ForAll

LEMMA CrashSteps ==
  ASSUME NEW i \in Servers
  PROVE  /\ Ordered(crash1(i))
         /\ Elements(crash1(i)) =
              Elements(disconnect(i)) \cup
              {<<"delete", i, i>>, <<"copy", i, i>>, <<"kill", i, i>>,
               <<"readState", i, i>>, <<"replace", i, i>>}
<1> DEFINE k == << <<"delete", i, i>>, <<"copy", i, i>>, <<"kill", i, i>>,
                   <<"readState", i, i>>, <<"replace", i, i>> >>
<1>1. /\ Len(k) = 5 /\ k[1] = <<"delete", i, i>> /\ k[2] = <<"copy", i, i>>
      /\ k[3] = <<"kill", i, i>> /\ k[4] = <<"readState", i, i>> /\ k[5] = <<"replace", i, i>>
  OBVIOUS
<1>2. k \in Seq(Steps)
  <2>1. /\ <<"delete", i, i>> \in Steps /\ <<"copy", i, i>> \in Steps
        /\ <<"kill", i, i>> \in Steps /\ <<"readState", i, i>> \in Steps
        /\ <<"replace", i, i>> \in Steps
    BY DEF Steps, Names, AfterOffline
  <2> QED
    BY <2>1
<1>3. crash1(i) = disconnect(i) \o k
  BY DEF crash1
<1> HIDE DEF k
<1>4. ASSUME NEW p \in 1..5, NEW q \in 1..5, p < q PROVE Precedes(k[p], k[q])
  BY <1>1, <1>4, RankIs DEF Precedes, ConnectSteps
<1>5. Ordered(k)
  BY <1>1, <1>2, <1>4 DEF Ordered
<1>6. Elements(k) = {<<"delete", i, i>>, <<"copy", i, i>>, <<"kill", i, i>>,
                     <<"readState", i, i>>, <<"replace", i, i>>}
  <2>1. 1..5 = {1, 2, 3, 4, 5}
    OBVIOUS
  <2> QED
    BY <1>1, <2>1 DEF Elements
<1>7. \A x \in Elements(disconnect(i)), y \in Elements(k) : Precedes(x, y)
  BY <1>6, DisconnectSteps, RankIs DEF ForAll, Precedes, ConnectSteps
<1> QED
  BY <1>3, <1>5, <1>6, <1>7, DisconnectSteps, ConcatOrdered

LEMMA CrashProcedure ==
  ASSUME NEW i \in Servers
  PROVE  /\ Procedure(crash1(i), i)
         /\ \A t \in Elements(crash1(i)) : t[1] # "names"
<1>1. \A t \in Elements(crash1(i)) :
        /\ t[2] = i
        /\ t[1] \in {"offline", "disableOut", "disableIn", "delete", "copy", "kill",
                     "readState", "replace"}
  BY CrashSteps, DisconnectSteps DEF ForAll
<1>2. /\ <<"offline", i, i>> \in Elements(crash1(i)) /\ <<"delete", i, i>> \in Elements(crash1(i))
      /\ <<"copy", i, i>> \in Elements(crash1(i)) /\ <<"readState", i, i>> \in Elements(crash1(i))
      /\ \A j \in Servers : /\ <<"disableOut", i, j>> \in Elements(crash1(i))
                            /\ <<"disableIn", i, j>> \in Elements(crash1(i))
  BY CrashSteps, DisconnectSteps DEF ForAll
<1> QED
  BY <1>1, <1>2, CrashSteps DEF Procedure

LEMMA StartProcedure ==
  ASSUME NEW i \in Servers
  PROVE  Procedure(start1(i), i) /\ <<"names", i, i>> \in Elements(start1(i))
<1> DEFINE b == << <<"names", i, i>> >>
           c == MakeEnds(i)
           d == << <<"fresh", i, i>>, <<"make", i, i>>, <<"add", i, i>> >>
           cr == crash1(i)
<1>1. Ordered(b) /\ Elements(b) = {<<"names", i, i>>}
  <2>1. <<"names", i, i>> \in Steps
    BY DEF Steps, Names, AfterOffline
  <2> QED
    BY <2>1, SingleOrdered
<1>2. /\ Ordered(c)
      /\ \A t \in Elements(c) : t[1] \in {"makeEnd", "wire"} /\ t[2] = i
  BY MakeEndsOrdered
<1>3. Ordered(d) /\ Elements(d) = {<<"fresh", i, i>>, <<"make", i, i>>, <<"add", i, i>>}
  <2>1. /\ Len(d) = 3 /\ d[1] = <<"fresh", i, i>> /\ d[2] = <<"make", i, i>>
        /\ d[3] = <<"add", i, i>>
    OBVIOUS
  <2>2. d \in Seq(Steps)
    <3>1. <<"fresh", i, i>> \in Steps /\ <<"make", i, i>> \in Steps /\ <<"add", i, i>> \in Steps
      BY DEF Steps, Names, AfterOffline
    <3> QED
      BY <3>1
  <2> HIDE DEF d
  <2>3. ASSUME NEW p \in 1..3, NEW q \in 1..3, p < q PROVE Precedes(d[p], d[q])
    BY <2>1, <2>3, RankIs DEF Precedes, ConnectSteps
  <2>4. 1..3 = {1, 2, 3}
    OBVIOUS
  <2> QED
    BY <2>1, <2>2, <2>3, <2>4 DEF Ordered, Elements
<1>4. Ordered(cr) /\ \A t \in Elements(cr) :
        /\ t[2] = i
        /\ t[1] \in {"offline", "disableOut", "disableIn", "delete", "copy", "kill",
                     "readState", "replace"}
  BY CrashSteps, DisconnectSteps DEF ForAll
<1>5. start1(i) = ((cr \o b) \o c) \o d
  BY DEF start1
<1>6. /\ <<"offline", i, i>> \in Elements(cr) /\ <<"delete", i, i>> \in Elements(cr)
      /\ <<"copy", i, i>> \in Elements(cr) /\ <<"readState", i, i>> \in Elements(cr)
      /\ \A j \in Servers : /\ <<"disableOut", i, j>> \in Elements(cr)
                            /\ <<"disableIn", i, j>> \in Elements(cr)
  BY CrashSteps, DisconnectSteps DEF ForAll
<1> HIDE DEF b, c, d, cr
<1>7. Ordered(cr \o b) /\ Elements(cr \o b) = Elements(cr) \cup Elements(b)
  <2>1. \A x \in Elements(cr), y \in Elements(b) : Precedes(x, y)
    BY <1>1, <1>4, RankIs DEF Precedes, ConnectSteps
  <2> QED
    BY <1>1, <1>4, <2>1, ConcatOrdered
<1>8. /\ Ordered((cr \o b) \o c)
      /\ Elements((cr \o b) \o c) = Elements(cr) \cup Elements(b) \cup Elements(c)
  <2>1. \A x \in Elements(cr \o b), y \in Elements(c) : Precedes(x, y)
    BY <1>1, <1>2, <1>4, <1>7, RankIs DEF Precedes, ConnectSteps
  <2> QED
    BY <1>2, <1>7, <2>1, ConcatOrdered
<1>9. /\ Ordered(start1(i))
      /\ Elements(start1(i)) = Elements(cr) \cup Elements(b) \cup Elements(c) \cup Elements(d)
  <2>1. \A x \in Elements((cr \o b) \o c), y \in Elements(d) : Precedes(x, y)
    BY <1>1, <1>2, <1>3, <1>4, <1>8, RankIs DEF Precedes, ConnectSteps
  <2> QED
    BY <1>3, <1>5, <1>8, <2>1, ConcatOrdered
<1>10. \A t \in Elements(start1(i)) :
         t[2] = i /\ t[1] \notin {"setunreliable", "online", "enableOut", "enableIn"}
  BY <1>1, <1>2, <1>3, <1>4, <1>9
<1> QED
  BY <1>1, <1>3, <1>6, <1>9, <1>10 DEF Procedure

-----------------------------------------------------------------------------
(* A step of the tester takes the head of todo: the rest is still in order *)
(* and comes after it.                                                     *)
LEMMA Taken ==
  ASSUME Ordered(todo), NEW name, Step(name)
  PROVE  /\ name \in Names /\ I \in Servers /\ J \in Servers
         /\ name \notin Loops => J = I
         /\ Ordered(todo)'
         /\ Pending = Pending' \cup {<<name, I, J>>}
         /\ \A t \in Pending' : t \in Steps /\ Precedes(<<name, I, J>>, t)
<1>1. todo \in Seq(Steps) /\ todo # <<>> /\ todo' = Tail(todo)
  BY DEF Ordered, Step
<1>2. /\ Len(todo) \in Nat /\ Len(todo) > 0
      /\ todo[1] = Head(todo)
      /\ todo' \in Seq(Steps) /\ Len(todo') = Len(todo) - 1
      /\ \A p \in 1..Len(todo') : todo'[p] = todo[p + 1]
  BY <1>1
<1>3. Head(todo) \in Steps
  BY <1>1
<1>4. /\ Head(todo) = <<name, I, J>>
      /\ name \in Names /\ I \in Servers /\ J \in Servers /\ (name \notin Loops => J = I)
  BY <1>3 DEF Steps, Step, I, J
<1>5. ASSUME NEW p \in 1..Len(todo')
      PROVE  /\ p + 1 \in 1..Len(todo) /\ todo'[p] = todo[p + 1]
             /\ todo'[p] \in Steps /\ Precedes(todo[1], todo'[p])
  <2>1. p + 1 \in 1..Len(todo) /\ 1 \in 1..Len(todo) /\ 1 < p + 1
    BY <1>2
  <2> QED
    BY <1>1, <1>2, <2>1 DEF Ordered
<1>6. Ordered(todo)'
  <2>1. ASSUME NEW p \in 1..Len(todo'), NEW q \in 1..Len(todo'), p < q
        PROVE  Precedes(todo'[p], todo'[q])
    <3>1. p + 1 < q + 1
      BY <2>1, <1>2
    <3> QED
      BY <1>5, <3>1 DEF Ordered
  <2> QED
    BY <1>2, <2>1 DEF Ordered, Precedes
<1>7. Pending = Pending' \cup {<<name, I, J>>}
  <2>1. ASSUME NEW p \in 1..Len(todo)
        PROVE  todo[p] = <<name, I, J>> \/ todo[p] \in Pending'
    <3>1. CASE p = 1
      BY <1>2, <1>4, <3>1
    <3>2. CASE p # 1
      <4>1. p - 1 \in 1..Len(todo') /\ (p - 1) + 1 = p
        BY <1>2, <3>2
      <4>2. todo'[p - 1] = todo[p]
        BY <1>2, <4>1
      <4> QED
        BY <4>1, <4>2 DEF Pending, Elements
    <3> QED
      BY <3>1, <3>2
  <2>2. <<name, I, J>> \in Pending
    <3>1. 1 \in 1..Len(todo)
      BY <1>2
    <3> QED
      BY <1>2, <1>4, <3>1 DEF Pending, Elements
  <2>3. ASSUME NEW p \in 1..Len(todo') PROVE todo'[p] \in Pending
    BY <1>5 DEF Pending, Elements
  <2> QED
    BY <2>1, <2>2, <2>3 DEF Pending, Elements
<1> QED
  BY <1>2, <1>4, <1>5, <1>6, <1>7 DEF Pending, Elements

(* A step outside the loops is taken once.                                 *)
LEMMA TakenOnce ==
  ASSUME ConfigInv, NEW name \in Names \ Loops, Step(name)
  PROVE  /\ Ordered(todo) /\ Ordered(todo)' /\ I \in Servers /\ J = I
         /\ Pending = Pending' \cup {<<name, I, I>>}
<1>1. Ordered(todo)
  BY DEF ConfigInv, Progress
<1>2. J = I
  BY <1>1, Taken
<1> QED
  BY <1>1, <1>2, Taken

(* What can still be due after each step, on the same server only.         *)
LEMMA Later ==
  ASSUME Ordered(todo), NEW name, Step(name), NEW t \in Pending'
  PROVE  /\ t[2] = I /\ t[1] \in Names
         /\ t = <<t[1], t[2], t[3]>> /\ t[3] \in Servers
         /\ t[1] \notin Loops => t[3] = I
         /\ name \notin Loops => t[1] # name
         /\ name \in ConnectSteps => t[1] \in {"enableOut", "enableIn"}
         /\ name \in {"offline", "disableOut", "disableIn"} => t[1] \in AfterOffline
         /\ name = "delete" => t[1] \in AfterDelete
         /\ name = "copy" => t[1] \in AfterCopy \cup {"add"}
         /\ name = "kill" => t[1] \in {"readState", "replace", "names", "makeEnd", "wire",
                                      "fresh", "make", "add"}
         /\ name = "readState" => t[1] \in {"replace", "names", "makeEnd", "wire",
                                           "fresh", "make", "add"}
         /\ name = "replace" => t[1] \in {"names", "makeEnd", "wire", "fresh", "make", "add"}
         /\ name \in {"names", "makeEnd", "wire"}
              => t[1] \in {"makeEnd", "wire", "fresh", "make", "add"}
         /\ name = "fresh" => t[1] \in {"make", "add"}
         /\ name = "make" => t[1] = "add"
         /\ name # "add"
<1>1. name \in Names /\ t \in Steps /\ Precedes(<<name, I, J>>, t)
  BY Taken
<1>2. /\ t[2] = I /\ t[1] \in Names /\ t = <<t[1], t[2], t[3]>> /\ t[3] \in Servers
      /\ t[1] \notin Loops => t[3] = I
  BY <1>1 DEF Steps, Precedes
<1>3. /\ name \in ConnectSteps <=> t[1] \in ConnectSteps
      /\ Rank[name] <= Rank[t[1]]
      /\ name \notin Loops => Rank[name] < Rank[t[1]]
  BY <1>1 DEF Precedes
<1>4. Rank[t[1]] = Rank[t[1]] /\ Rank[name] \in Nat
  BY <1>1, RankIs DEF Names, AfterOffline
<1>5. name \in {"setunreliable", "online", "offline", "delete", "copy", "kill", "readState",
                "replace", "names", "fresh", "make", "add"} <=> name \notin Loops
  BY <1>1 DEF Names, AfterOffline, Loops
<1> QED
  BY <1>1, <1>2, <1>3, <1>4, <1>5, RankIs
     DEF Names, AfterOffline, AfterDelete, AfterCopy, ConnectSteps

LEMMA DueAfter ==
  ASSUME Ordered(todo), NEW name, Step(name)
  PROVE  \A n \in Names \ Loops, k \in Servers :
           Due(n, k)' <=> Due(n, k) /\ ~(n = name /\ k = I)
<1> SUFFICES ASSUME NEW n \in Names \ Loops, NEW k \in Servers
             PROVE  Due(n, k)' <=> Due(n, k) /\ ~(n = name /\ k = I)
  OBVIOUS
<1>1. Pending = Pending' \cup {<<name, I, J>>} /\ (name \notin Loops => J = I)
  BY Taken
<1>2. Due(n, k)' => ~(n = name /\ k = I)
  <2>1. SUFFICES ASSUME <<n, k, k>> \in Pending', n = name PROVE FALSE
    BY DEF Due
  <2> QED
    BY <2>1, Later
<1> QED
  BY <1>1, <1>2 DEF Due

-----------------------------------------------------------------------------
(* What the network's invariant says about the variables used here.        *)
LEMMA NetTypes ==
  ASSUME NP!IInv
  PROVE  /\ ends \subseteq Servers \X Gens \X Servers
         /\ enabled \in [Servers \X Gens \X Servers -> BOOLEAN]
         /\ connections \in [Servers \X Gens \X Servers -> Servers \cup {Nil}]
         /\ servers \in [Servers -> (Servers \X Gens) \cup {Nil}]
         /\ proc \in [Calls -> NP!ProcStates] /\ handler \in [Calls -> NP!HandlerStates]
         /\ target \in [Calls -> Servers \cup {Nil}]
         /\ server \in [Calls -> (Servers \X Gens) \cup {Nil}]
         /\ finishedLive \in [Calls -> BOOLEAN]
  BY DEF NP!IInv, NP!TypeOK

\* What the steps of a Call leave alone.
Quiet == UNCHANGED <<enabled, servers, cfgVars, todo, diskVars>>

(* A step that leaves the links, the registrations and the harness alone   *)
(* can only disturb what is said about the handlers.                       *)
LEMMA QuietKeeps ==
  ASSUME ConfigInv, Quiet
  PROVE  (ConfigTypes /\ Progress /\ Links /\ Owners /\ Crashing
          /\ Contained /\ Registered)'
<1>1. UNCHANGED <<enabled, servers, connected, gen, saved, rafts, raftlog, picks, todo,
                  heap, disk, mem, saving>>
  BY DEF Quiet, cfgVars, diskVars
<1>2. UNCHANGED Pending
  BY <1>1 DEF Pending, Elements
<1>3. ConfigTypes'
  BY <1>1 DEF ConfigInv, ConfigTypes
<1>4. Progress'
  <2>1. Ordered(todo)'
    BY <1>1 DEF ConfigInv, Progress, Ordered, Precedes
  <2> QED
    BY <1>1, <1>2, <2>1 DEF ConfigInv, Progress, Due
<1>5. Links'
  BY <1>1, <1>2 DEF ConfigInv, Links, Due, EndName
<1>6. Owners'
  BY <1>1, <1>2 DEF ConfigInv, Owners, Due
<1>7. Crashing'
  BY <1>1, <1>2 DEF ConfigInv, Crashing, Due
<1>8. Contained' /\ Registered'
  BY <1>1 DEF ConfigInv, Contained, Registered
<1> QED
  BY <1>3, <1>4, <1>5, <1>6, <1>7, <1>8

(* The tester begins a procedure.                                          *)
LEMMA BeginKeeps ==
  ASSUME HarnessInv, NEW i \in Servers, NEW seq, Procedure(seq, i), Begin(seq),
         picks < 2*N + MaxPicks, i <= picks + 1,
         <<"names", i, i>> \in Elements(seq) => gen[i] < MaxStarts,
         picks < N => i = picks + 1 /\ <<"names", i, i>> \in Elements(seq)
  PROVE  ConfigInv'
<1> USE DEF HarnessInv, ConfigInv
<1>1. /\ Pending = {} /\ Pending' = Elements(seq) /\ picks' = picks + 1
      /\ UNCHANGED <<netVars, connected, gen, saved, rafts, raftlog, diskVars>>
  BY DEF Begin, Pending, Elements
<1>2. /\ Ordered(todo)'
      /\ \A t \in Pending' : t[2] = i /\ t[1] # "setunreliable"
      /\ \A t \in Pending' :
           /\ t[1] \in {"enableOut", "enableIn"} => Due("online", i)'
           /\ t[1] \in AfterOffline => Due("offline", i)'
           /\ t[1] \in AfterDelete => Due("delete", i)'
           /\ t[1] \in AfterCopy => Due("copy", i)'
           /\ t[1] = "replace" => Due("readState", i)'
           /\ t[1] = "make" => Due("fresh", i)' /\ Due("names", i)'
           /\ t[1] = "add" => Due("make", i)'
      /\ \A j \in Servers :
           /\ Due("online", i)' => /\ <<"enableOut", i, j>> \in Pending'
                                   /\ <<"enableIn", i, j>> \in Pending'
           /\ Due("offline", i)' => /\ <<"disableOut", i, j>> \in Pending'
                                    /\ <<"disableIn", i, j>> \in Pending'
  <2>1. todo' = seq
    BY DEF Begin
  <2>2. Ordered(todo)'
    BY <2>1 DEF Procedure, Ordered, Precedes
  <2> QED
    BY <1>1, <2>2 DEF Procedure, Due
<1>3. \A n, k : <<n, k, k>> \in Pending' => k = i
  BY <1>2
<1>4. ConfigTypes'
  BY <1>1, HarnessAssumption DEF ConfigTypes, diskVars
<1>5. Progress'
  <2>1. \A t \in Pending' : t[2] <= picks'
    BY <1>1, <1>2
  <2>2. ASSUME NEW k \in Servers, k <= picks' PROVE gen'[k] > 0 \/ Due("names", k)'
    <3>1. CASE k <= picks
      BY <1>1, <3>1 DEF Progress, Due
    <3>2. CASE k > picks
      <4>1. picks < N /\ k = picks + 1
        BY <1>1, <2>2, <3>2, HarnessAssumption DEF ConfigTypes, Servers
      <4> QED
        BY <1>1, <4>1 DEF Due
    <3> QED
      BY <3>1, <3>2, HarnessAssumption DEF ConfigTypes, Servers
  <2>3. ASSUME NEW k \in Servers, k > picks' PROVE gen'[k] = 0
    BY <1>1, <2>3, HarnessAssumption DEF Progress, ConfigTypes, Servers
  <2>4. ASSUME NEW k \in Servers, Due("names", k)' PROVE gen'[k] < MaxStarts
    BY <1>1, <1>3, <2>4 DEF Due
  <2> QED
    BY <1>2, <2>1, <2>2, <2>3, <2>4 DEF Progress
<1>6. Links'
  BY <1>1, <1>2, <1>3 DEF Links, netVars, EndName, Due
<1>7. Owners'
  <2>1. UNCHANGED <<disk, saved, gen>>
    BY <1>1 DEF diskVars
  <2> QED
    BY <1>2, <1>3, <2>1 DEF Owners, Due
<1>8. Crashing'
  BY <1>2, <1>3 DEF Crashing, Due
<1>9. Contained' /\ Registered'
  BY <1>1 DEF Contained, Registered, diskVars, netVars
<1>10. Handlers'
  BY <1>1 DEF Handlers, diskVars, netVars
<1> QED
  BY <1>4, <1>5, <1>6, <1>7, <1>8, <1>9, <1>10

-----------------------------------------------------------------------------
(* What a step of a procedure keeps merely because of what it leaves alone.*)

LEMMA ProgressKept ==
  ASSUME ConfigInv, NEW name, Step(name), name # "names", UNCHANGED <<picks, gen>>
  PROVE  Progress'
<1>1. Ordered(todo) /\ Ordered(todo)' /\ Pending' \subseteq Pending
  BY Taken DEF ConfigInv, Progress
<1>2. \A k \in Servers : Due("names", k)' <=> Due("names", k)
  BY <1>1, DueAfter DEF Names, AfterOffline, Loops
<1> QED
  BY <1>1, <1>2 DEF ConfigInv, Progress

LEMMA LinksKept ==
  ASSUME ConfigInv, NEW name, Step(name), UNCHANGED <<connected, enabled, gen>>,
         name \notin {"online", "offline", "enableOut", "enableIn", "disableOut", "disableIn"}
  PROVE  Links'
<1>1. Ordered(todo) /\ Pending = Pending' \cup {<<name, I, J>>}
  BY Taken DEF ConfigInv, Progress
<1>2. Links
  BY DEF ConfigInv
<1>3. \A k \in Servers : /\ Due("online", k)' <=> Due("online", k)
                         /\ Due("offline", k)' <=> Due("offline", k)
  BY <1>1, DueAfter DEF Names, AfterOffline, Loops
<1>4. \A n \in {"enableOut", "enableIn", "disableOut", "disableIn"} : \A i, j :
        <<n, i, j>> \in Pending' <=> <<n, i, j>> \in Pending
  BY <1>1
<1>5. \A t \in Pending' : t[2] \in Servers
  BY <1>1, Later, Taken
<1> QED
  BY <1>1, <1>2, <1>3, <1>4, <1>5 DEF Links, EndName

LEMMA OwnersKept ==
  ASSUME ConfigInv, NEW name, Step(name), name # "names", UNCHANGED <<disk, saved, gen>>
  PROVE  Owners'
<1>1. Ordered(todo)
  BY DEF ConfigInv, Progress
<1>2. \A k \in Servers : /\ Due("make", k)' => Due("make", k)
                         /\ Due("names", k)' <=> Due("names", k)
  BY <1>1, DueAfter DEF Names, AfterOffline, Loops
<1> QED
  BY <1>2 DEF ConfigInv, Owners

LEMMA CrashingKept ==
  ASSUME ConfigInv, NEW name, Step(name),
         name \notin {"delete", "copy", "readState", "fresh", "make"},
         UNCHANGED <<servers, disk, saved, raftlog, heap, gen>>
  PROVE  Crashing'
<1>1. Ordered(todo) /\ Pending = Pending' \cup {<<name, I, J>>}
  BY Taken DEF ConfigInv, Progress
<1>2. Crashing
  BY DEF ConfigInv
<1>3. \A n \in {"delete", "copy", "readState", "fresh", "make"} : \A k :
        <<n, k, k>> \in Pending' <=> <<n, k, k>> \in Pending
  BY <1>1
<1> QED
  BY <1>1, <1>2, <1>3 DEF Crashing, Due

\* No Persister loses an update, no instance forgets one.
Unlost ==
  /\ \A i \in Servers : saved[i] # 0 =>
       saved'[i] # 0 /\ heap[saved[i]].state \subseteq heap'[saved'[i]].state
  /\ \A a \in Servers \X Gens : disk[a] # 0 => disk'[a] # 0 /\ mem[a] \subseteq mem'[a]

LEMMA HandlersKept ==
  ASSUME HarnessInv, Unlost,
         UNCHANGED <<proc, handler, server, target, finishedLive, saving>>
  PROVE  Handlers'
<1> SUFFICES ASSUME NEW c \in Calls PROVE Handlers!(c)'
  BY DEF Handlers
<1>1. Handlers!(c)
  BY DEF HarnessInv, ConfigInv, Handlers
<1>2. /\ handler[c] # "none" \/ c \in saving
         => server[c] \in Servers \X Gens /\ target[c] \in Servers /\ disk[server[c]] # 0
  BY <1>1
<1> QED
  BY <1>1, <1>2 DEF Unlost

(* What the steps before this one have established.                        *)
LEMMA Where ==
  ASSUME ConfigInv, NEW name, Step(name)
  PROVE  /\ name \in AfterOffline => ~connected[I]
         /\ name \in AfterDelete => servers[I] = Nil
         /\ name \in AfterCopy =>
              \A a \in Servers \X Gens : disk[a] # 0 => disk[a] # saved[I]
         /\ name = "replace" /\ saved[I] # 0 => raftlog = heap[saved[I]].state
         /\ name = "make" => saved[I] # 0 /\ disk[<<I, gen[I]>>] = 0
         /\ name = "add" => saved[I] # 0 /\ disk[<<I, gen[I]>>] = saved[I]
         /\ name \in {"makeEnd", "wire", "fresh", "make", "add"} => gen[I] \in Gens
         /\ name = "names" => gen[I] < MaxStarts
<1> DEFINE h == <<name, I, J>>
<1>1. Ordered(todo)
  BY DEF ConfigInv, Progress
<1>2. /\ Pending = Pending' \cup {h} /\ I \in Servers
      /\ h[1] = name /\ h[2] = I /\ (name \notin Loops => h = <<name, I, I>>)
      /\ gen[I] \in 0..MaxStarts /\ picks \in Nat
  <2>1. Pending = Pending' \cup {h} /\ I \in Servers /\ (name \notin Loops => J = I)
    BY <1>1, Taken
  <2>2. gen \in [Servers -> 0..MaxStarts] /\ picks \in Nat
    BY HarnessAssumption DEF ConfigInv, ConfigTypes
  <2> QED
    BY <2>1, <2>2
<1>3. h \in Pending
  BY <1>2
<1> HIDE DEF h
<1>4. name \in AfterOffline => ~connected[I]
  <2>1. name \in AfterOffline => <<"offline", I, I>> \notin Pending
    BY <1>1, <1>2, Later, RankIs, Taken DEF AfterOffline, Precedes, Loops, Steps
  <2> QED
    BY <1>2, <1>3, <2>1 DEF ConfigInv, Links, Due
<1>5. name \in AfterDelete => servers[I] = Nil
  <2>1. name \in AfterDelete => <<"delete", I, I>> \notin Pending
    BY <1>1, <1>2, Later, RankIs, Taken DEF AfterDelete, Precedes, Loops, Steps
  <2> QED
    BY <1>2, <1>3, <2>1 DEF ConfigInv, Crashing, Due
<1>6. name \in AfterCopy =>
        \A a \in Servers \X Gens : disk[a] # 0 => disk[a] # saved[I]
  <2>1. name \in AfterCopy => <<"copy", I, I>> \notin Pending
    BY <1>1, <1>2, Later, RankIs, Taken DEF AfterCopy, Precedes, Loops, Steps
  <2> QED
    BY <1>2, <1>3, <2>1 DEF ConfigInv, Crashing, Due
<1>7. name = "replace" /\ saved[I] # 0 => raftlog = heap[saved[I]].state
  <2>1. name = "replace" => Due("replace", I) /\ ~Due("readState", I)
    BY <1>1, <1>2, <1>3, Later DEF Loops, Due
  <2> QED
    BY <1>2, <2>1 DEF ConfigInv, Crashing
<1>8. name = "make" => saved[I] # 0
  <2>1. name = "make" => Due("make", I) /\ ~Due("fresh", I)
    BY <1>1, <1>2, <1>3, Later DEF Loops, Due
  <2> QED
    BY <1>2, <2>1 DEF ConfigInv, Crashing
<1>9. name = "add" => saved[I] # 0 /\ disk[<<I, gen[I]>>] = saved[I]
  <2>1. name = "add" => Due("add", I) /\ ~Due("make", I)
    BY <1>1, <1>2, <1>3, Later DEF Loops, Due
  <2> QED
    BY <1>2, <2>1 DEF ConfigInv, Crashing
<1>10. name \in {"makeEnd", "wire", "fresh", "make", "add"} => gen[I] \in Gens
  <2>1. name \in {"makeEnd", "wire", "fresh", "make", "add"} =>
          <<"names", I, I>> \notin Pending
    BY <1>1, <1>2, Later DEF Loops
  <2>2. name # "setunreliable" => I <= picks
    BY <1>2, <1>3 DEF ConfigInv, Progress
  <2> QED
    BY <1>2, <2>1, <2>2 DEF ConfigInv, Progress, Due, Gens
<1>11. name = "make" => disk[<<I, gen[I]>>] = 0
  <2>1. name = "make" => Due("make", I) /\ ~Due("names", I)
    BY <1>1, <1>2, <1>3, Later DEF Loops, Due
  <2> QED
    BY <1>2, <1>10, <2>1 DEF ConfigInv, Owners
<1>12. name = "names" => gen[I] < MaxStarts
  <2>1. name = "names" => Due("names", I)
    BY <1>2, <1>3 DEF Loops, Due
  <2> QED
    BY <1>2, <2>1 DEF ConfigInv, Progress
<1> QED
  BY <1>4, <1>5, <1>6, <1>7, <1>8, <1>9, <1>10, <1>11, <1>12

-----------------------------------------------------------------------------
(* The steps of the tester's procedures, one by one.                       *)

\* What the operations on the Network leave alone.
CallsAlone == UNCHANGED <<proc, handler, server, target, finishedLive>>

LEMMA UnchangedKept ==
  ASSUME HarnessInv, CallsAlone, UNCHANGED <<connected, gen, saved, rafts, raftlog, picks,
                                             heap, disk, mem, saving>>
  PROVE  ConfigTypes' /\ Contained' /\ Handlers'
<1>1. ConfigTypes' /\ Contained'
  BY DEF HarnessInv, ConfigInv, ConfigTypes, Contained
<1>2. Unlost
  BY DEF Unlost
<1> QED
  BY <1>1, <1>2, HandlersKept DEF CallsAlone

LEMMA SetunreliableKeeps ==
  ASSUME HarnessInv, Setunreliable
  PROVE  ConfigInv'
<1>1. /\ Step("setunreliable") /\ CallsAlone
      /\ UNCHANGED <<enabled, servers, connected, gen, saved, rafts, raftlog, picks, heap,
                     disk, mem, saving>>
  BY DEF Setunreliable, Net!Reliable, Net!statVars, Net!callVars, Net!localVars, cfgVars,
         diskVars, CallsAlone
<1>2. ConfigTypes' /\ Contained' /\ Handlers'
  BY <1>1, UnchangedKept
<1>3. Progress' /\ Links' /\ Owners' /\ Crashing'
  BY <1>1, ProgressKept, LinksKept, OwnersKept, CrashingKept DEF HarnessInv
<1>4. Registered'
  BY <1>1 DEF HarnessInv, ConfigInv, Registered
<1> QED
  BY <1>2, <1>3, <1>4 DEF ConfigInv

LEMMA KillKeeps ==
  ASSUME HarnessInv, Kill
  PROVE  ConfigInv'
<1>1. /\ Step("kill") /\ CallsAlone
      /\ UNCHANGED <<enabled, servers, connected, gen, saved, raftlog, picks, heap,
                     disk, mem, saving>>
      /\ rafts' = [rafts EXCEPT ![I] = 0]
  BY DEF Kill, netVars, diskVars, CallsAlone
<1>2. ConfigTypes' /\ Contained'
  <2>1. rafts \in [Servers -> 0..MaxStarts] /\ 0 \in 0..MaxStarts
    BY HarnessAssumption DEF HarnessInv, ConfigInv, ConfigTypes
  <2>2. rafts' \in [Servers -> 0..MaxStarts]
    BY <1>1, <2>1
  <2> QED
    BY <1>1, <2>2 DEF HarnessInv, ConfigInv, ConfigTypes, Contained
<1>3. Handlers'
  BY <1>1, HandlersKept DEF CallsAlone, Unlost
<1>4. Progress' /\ Links' /\ Owners' /\ Crashing'
  BY <1>1, ProgressKept, LinksKept, OwnersKept, CrashingKept DEF HarnessInv
<1>5. Registered'
  BY <1>1 DEF HarnessInv, ConfigInv, Registered
<1> QED
  BY <1>2, <1>3, <1>4, <1>5 DEF ConfigInv

LEMMA SetConnectedKeeps ==
  ASSUME HarnessInv, SetConnected
  PROVE  ConfigInv'
<1>1. /\ CallsAlone
      /\ UNCHANGED <<enabled, servers, gen, saved, rafts, raftlog, picks, heap,
                     disk, mem, saving>>
  BY DEF SetConnected, netVars, diskVars, CallsAlone
<1>2. PICK name \in {"online", "offline"} :
        Step(name) /\ connected' = [connected EXCEPT ![I] = (name = "online")]
  <2>1. CASE Step("online") /\ connected' = [connected EXCEPT ![I] = TRUE]
    BY <2>1
  <2>2. CASE Step("offline") /\ connected' = [connected EXCEPT ![I] = FALSE]
    <3>1. ("offline" = "online") = FALSE
      OBVIOUS
    <3> QED
      BY <2>2, <3>1
  <2> QED
    BY <2>1, <2>2 DEF SetConnected
<1>3. Ordered(todo) /\ connected \in [Servers -> BOOLEAN]
  BY DEF HarnessInv, ConfigInv, Progress, ConfigTypes
<1>4. I \in Servers /\ J = I
  BY <1>2, <1>3, Taken DEF Loops
<1>5. connected' \in [Servers -> BOOLEAN] /\ connected'[I] = (name = "online")
      /\ \A k \in Servers : k # I => connected'[k] = connected[k]
  BY <1>2, <1>3, <1>4
<1>6. ConfigTypes' /\ Contained'
  BY <1>1, <1>5 DEF HarnessInv, ConfigInv, ConfigTypes, Contained
<1>7. Handlers'
  BY <1>1, HandlersKept DEF CallsAlone, Unlost
<1>8. Progress' /\ Owners' /\ Crashing'
  BY <1>1, <1>2, ProgressKept, OwnersKept, CrashingKept DEF HarnessInv
<1>9. Links'
  <2>1. Pending = Pending' \cup {<<name, I, I>>}
    BY <1>2, <1>3, <1>4, Taken
  <2>2. \A t \in Pending' : /\ t[2] = I
                            /\ name = "online" => t[1] \in {"enableOut", "enableIn"}
                            /\ name = "offline" => t[1] \in AfterOffline
    BY <1>2, <1>3, Later DEF ConnectSteps
  <2>3. Links
    BY DEF HarnessInv, ConfigInv
  <2>4. ASSUME NEW t \in Pending'
        PROVE  /\ t[1] \in {"enableOut", "enableIn"} => connected'[t[2]]
               /\ t[1] \in AfterOffline => ~connected'[t[2]]
               /\ t[1] # "online" /\ t[1] # "offline"
    BY <1>2, <1>5, <2>2 DEF AfterOffline
  <2>5. \A n \in {"enableOut", "enableIn", "disableOut", "disableIn"} : \A i, j :
        <<n, i, j>> \in Pending' <=> <<n, i, j>> \in Pending
    BY <2>1
  <2>6. \A i, j \in Servers, g \in Gens : g # gen'[i] => ~enabled'[<<i, g, j>>]
    BY <1>1, <2>3 DEF Links
  <2>7. \A j \in Servers :
          /\ name = "online" => /\ <<"enableOut", I, j>> \in Pending'
                                /\ <<"enableIn", I, j>> \in Pending'
          /\ name = "offline" => /\ <<"disableOut", I, j>> \in Pending'
                                 /\ <<"disableIn", I, j>> \in Pending'
    BY <1>4, <2>1, <2>3, <2>5 DEF Links, Due
  <2>8. ASSUME NEW i \in Servers, NEW j \in Servers, gen'[i] # 0
        PROVE  /\ enabled'[<<i, gen[i], j>>] /\ ~(connected'[i] /\ connected'[j]) =>
                   <<"disableOut", i, j>> \in Pending' \/ <<"disableIn", j, i>> \in Pending'
               /\ connected'[i] /\ connected'[j] /\ ~enabled'[<<i, gen[i], j>>] =>
                   <<"enableOut", i, j>> \in Pending' \/ <<"enableIn", j, i>> \in Pending'
    <3>1. CASE i # I /\ j # I
      BY <1>1, <1>5, <2>3, <2>5, <2>8, <3>1 DEF Links, EndName
    <3>2. CASE i = I \/ j = I
      <4>1. CASE name = "online"
        BY <1>1, <1>3, <1>5, <2>3, <2>5, <2>7, <2>8, <3>2, <4>1 DEF Links, EndName
      <4>2. CASE name = "offline"
        BY <1>1, <1>3, <1>5, <2>3, <2>5, <2>7, <2>8, <3>2, <4>2 DEF Links, EndName
      <4> QED
        BY <4>1, <4>2
    <3> QED
      BY <3>1, <3>2
  <2> QED
    BY <1>1, <2>4, <2>6, <2>8 DEF Links, Due, EndName
<1>10. Registered'
  BY <1>1 DEF HarnessInv, ConfigInv, Registered
<1> QED
  BY <1>6, <1>7, <1>8, <1>9, <1>10 DEF ConfigInv

LEMMA EnableEndKeeps ==
  ASSUME HarnessInv, EnableEnd
  PROVE  ConfigInv'
<1>1. /\ CallsAlone
      /\ UNCHANGED <<servers, connected, gen, saved, rafts, raftlog, picks, heap,
                     disk, mem, saving>>
  BY DEF EnableEnd, Net!Enable, Net!statVars, Net!callVars, Net!localVars, netVars, cfgVars,
         diskVars, CallsAlone
<1>2. PICK name \in {"enableOut", "enableIn"} :
        /\ Step(name)
        /\ \/ ~connected[J] /\ UNCHANGED enabled
           \/ /\ connected[J]
              /\ name = "enableOut" => EndName(I, J) \in ends
                                       /\ enabled' = [enabled EXCEPT ![EndName(I, J)] = TRUE]
              /\ name = "enableIn"  => EndName(J, I) \in ends
                                       /\ enabled' = [enabled EXCEPT ![EndName(J, I)] = TRUE]
  BY DEF EnableEnd, Net!Enable, netVars
<1>3. Ordered(todo) /\ NP!IInv /\ Links
  BY DEF HarnessInv, ConfigInv, Progress
<1>4. I \in Servers /\ J \in Servers /\ Pending = Pending' \cup {<<name, I, J>>}
  BY <1>2, <1>3, Taken
<1>5. ConfigTypes' /\ Contained' /\ Handlers'
  BY <1>1, UnchangedKept
<1>6. Progress' /\ Owners' /\ Crashing'
  BY <1>1, <1>2, ProgressKept, OwnersKept, CrashingKept DEF HarnessInv
<1>7. Links'
  <2>1. \A t \in Pending' : t[1] \in {"enableOut", "enableIn"} /\ t[2] = I
    BY <1>2, <1>3, Later DEF ConnectSteps
  <2>2. connected[I]
    <3>1. <<"online", I, I>> \notin Pending
      BY <1>2, <1>4, <2>1
    <3> DEFINE t == <<name, I, J>>
    <3>2. t \in Pending /\ t[1] \in {"enableOut", "enableIn"} /\ t[2] = I
      BY <1>2, <1>4
    <3> HIDE DEF t
    <3> QED
      BY <1>3, <3>1, <3>2 DEF Links, Due
  <2>3. enabled \in [Servers \X Gens \X Servers -> BOOLEAN]
        /\ ends \subseteq Servers \X Gens \X Servers
    BY <1>3, NetTypes
  <2>4. \A i, j \in Servers, g \in Gens :
          \/ enabled'[<<i, g, j>>] = enabled[<<i, g, j>>]
          \/ enabled'[<<i, g, j>>] /\ g = gen[i] /\ connected[i] /\ connected[j]
    <3>1. CASE UNCHANGED enabled
      BY <3>1
    <3>2. CASE /\ connected[J] /\ EndName(I, J) \in ends
               /\ enabled' = [enabled EXCEPT ![EndName(I, J)] = TRUE]
      BY <2>2, <2>3, <3>2 DEF EndName
    <3>3. CASE /\ connected[J] /\ EndName(J, I) \in ends
               /\ enabled' = [enabled EXCEPT ![EndName(J, I)] = TRUE]
      BY <2>2, <2>3, <3>3 DEF EndName
    <3> QED
      BY <1>2, <3>1, <3>2, <3>3
  <2>5. ASSUME NEW i \in Servers, NEW j \in Servers, connected[i], connected[j],
               ~enabled'[<<i, gen[i], j>>], gen[i] # 0
        PROVE  <<"enableOut", i, j>> \in Pending' \/ <<"enableIn", j, i>> \in Pending'
    <3>1. gen[i] \in Gens
      BY <2>5, HarnessAssumption DEF HarnessInv, ConfigInv, ConfigTypes, Gens
    <3>2. ~enabled[<<i, gen[i], j>>]
      BY <2>4, <2>5, <3>1
    <3>3. <<"enableOut", i, j>> \in Pending \/ <<"enableIn", j, i>> \in Pending
      BY <1>3, <2>5, <3>2 DEF Links, EndName
    <3>4. <<name, I, J>> # <<"enableOut", i, j>>
      BY <1>2, <2>3, <2>5 DEF EndName
    <3>5. <<name, I, J>> # <<"enableIn", j, i>>
      BY <1>2, <2>3, <2>5 DEF EndName
    <3> QED
      BY <1>4, <3>3, <3>4, <3>5
  <2>6. ASSUME NEW i \in Servers, NEW j \in Servers, gen[i] # 0,
               enabled'[<<i, gen[i], j>>], ~(connected[i] /\ connected[j])
        PROVE  <<"disableOut", i, j>> \in Pending' \/ <<"disableIn", j, i>> \in Pending'
    <3>1. gen[i] \in Gens
      BY <2>6, HarnessAssumption DEF HarnessInv, ConfigInv, ConfigTypes, Gens
    <3>2. enabled[<<i, gen[i], j>>]
      BY <2>4, <2>6, <3>1
    <3> QED
      BY <1>2, <1>3, <1>4, <2>6, <3>2 DEF Links, EndName
  <2>7. \A i, j \in Servers, g \in Gens : g # gen'[i] => ~enabled'[<<i, g, j>>]
    BY <1>1, <1>3, <2>4 DEF Links
  <2> QED
    BY <1>1, <2>1, <2>2, <2>5, <2>6, <2>7 DEF Links, Due, EndName, AfterOffline
<1>8. Registered'
  BY <1>1 DEF HarnessInv, ConfigInv, Registered
<1> QED
  BY <1>5, <1>6, <1>7, <1>8 DEF ConfigInv

LEMMA DisableEndKeeps ==
  ASSUME HarnessInv, DisableEnd
  PROVE  ConfigInv'
<1>1. /\ CallsAlone
      /\ UNCHANGED <<servers, connected, gen, saved, rafts, raftlog, picks, heap,
                     disk, mem, saving>>
  BY DEF DisableEnd, Net!Enable, Net!statVars, Net!callVars, Net!localVars, netVars, cfgVars,
         diskVars, CallsAlone
<1>2. PICK name \in {"disableOut", "disableIn"} :
        /\ Step(name)
        /\ name = "disableOut" =>
             IF gen[I] # 0 THEN /\ EndName(I, J) \in ends
                                /\ enabled' = [enabled EXCEPT ![EndName(I, J)] = FALSE]
                           ELSE UNCHANGED enabled
        /\ name = "disableIn" =>
             IF gen[J] # 0 THEN /\ EndName(J, I) \in ends
                                /\ enabled' = [enabled EXCEPT ![EndName(J, I)] = FALSE]
                           ELSE UNCHANGED enabled
  BY DEF DisableEnd, Net!Enable, netVars
<1>3. Ordered(todo) /\ NP!IInv /\ Links
  BY DEF HarnessInv, ConfigInv, Progress
<1>4. I \in Servers /\ J \in Servers /\ Pending = Pending' \cup {<<name, I, J>>}
  BY <1>2, <1>3, Taken
<1>5. ConfigTypes' /\ Contained' /\ Handlers'
  BY <1>1, UnchangedKept
<1>6. Progress' /\ Owners' /\ Crashing'
  BY <1>1, <1>2, ProgressKept, OwnersKept, CrashingKept DEF HarnessInv
<1>7. Links'
  <2>1. \A t \in Pending' : t[1] \in AfterOffline /\ t[2] = I
    BY <1>2, <1>3, Later
  <2>2. ~connected[I]
    BY <1>2, <1>3, <1>4, <2>1 DEF Links, Due, AfterOffline
  <2>3. enabled \in [Servers \X Gens \X Servers -> BOOLEAN]
        /\ ends \subseteq Servers \X Gens \X Servers
    BY <1>3, NetTypes
  <2>4. \A i, j \in Servers, g \in Gens :
          \/ enabled'[<<i, g, j>>] = enabled[<<i, g, j>>]
          \/ ~enabled'[<<i, g, j>>] /\ ~(connected[i] /\ connected[j])
    BY <1>2, <2>2, <2>3 DEF EndName
  <2>5. ASSUME NEW i \in Servers, NEW j \in Servers, connected[i], connected[j],
               ~enabled'[<<i, gen[i], j>>], gen[i] # 0
        PROVE  <<"enableOut", i, j>> \in Pending' \/ <<"enableIn", j, i>> \in Pending'
    <3>1. gen[i] \in Gens
      BY <2>5, HarnessAssumption DEF HarnessInv, ConfigInv, ConfigTypes, Gens
    <3>2. ~enabled[<<i, gen[i], j>>]
      BY <2>4, <2>5, <3>1
    <3> QED
      BY <1>2, <1>3, <1>4, <2>5, <3>2 DEF Links, EndName
  <2>6. ASSUME NEW i \in Servers, NEW j \in Servers, gen[i] # 0,
               enabled'[<<i, gen[i], j>>], ~(connected[i] /\ connected[j])
        PROVE  <<"disableOut", i, j>> \in Pending' \/ <<"disableIn", j, i>> \in Pending'
    <3>1. gen[i] \in Gens
      BY <2>6, HarnessAssumption DEF HarnessInv, ConfigInv, ConfigTypes, Gens
    <3>2. enabled[<<i, gen[i], j>>]
      BY <2>4, <2>6, <3>1
    <3>3. <<"disableOut", i, j>> \in Pending \/ <<"disableIn", j, i>> \in Pending
      BY <1>3, <2>6, <3>2 DEF Links, EndName
    <3>4. <<name, I, J>> # <<"disableOut", i, j>>
      BY <1>2, <2>3, <2>6 DEF EndName
    <3>5. <<name, I, J>> # <<"disableIn", j, i>>
      BY <1>2, <2>3, <2>6 DEF EndName
    <3> QED
      BY <1>4, <3>3, <3>4, <3>5
  <2>7. \A i, j \in Servers, g \in Gens : g # gen'[i] => ~enabled'[<<i, g, j>>]
    BY <1>1, <1>3, <2>4 DEF Links
  <2> QED
    BY <1>1, <2>1, <2>2, <2>5, <2>6, <2>7 DEF Links, Due, EndName, AfterOffline
<1>8. Registered'
  BY <1>1 DEF HarnessInv, ConfigInv, Registered
<1> QED
  BY <1>5, <1>6, <1>7, <1>8 DEF ConfigInv

LEMMA DeleteServerKeeps ==
  ASSUME HarnessInv, DeleteServer
  PROVE  ConfigInv'
<1>1. /\ Step("delete") /\ CallsAlone
      /\ UNCHANGED <<enabled, connected, gen, saved, rafts, raftlog, picks, heap,
                     disk, mem, saving>>
      /\ servers' = [servers EXCEPT ![I] = Nil]
  BY DEF DeleteServer, Net!DeleteServer, Net!statVars, Net!callVars, Net!localVars, cfgVars,
         diskVars, CallsAlone
<1>2. /\ Ordered(todo) /\ I \in Servers /\ J = I /\ Pending = Pending' \cup {<<"delete", I, I>>}
      /\ servers \in [Servers -> (Servers \X Gens) \cup {Nil}]
  <2>1. "delete" \in Names \ Loops /\ ConfigInv /\ NP!IInv
    BY DEF HarnessInv, Names, AfterOffline, Loops
  <2> QED
    BY <1>1, <2>1, TakenOnce, NetTypes
<1>3. servers'[I] = Nil /\ \A k \in Servers : k # I => servers'[k] = servers[k]
  BY <1>1, <1>2
<1>4. ConfigTypes' /\ Contained' /\ Handlers'
  BY <1>1, UnchangedKept
<1>5. Progress' /\ Links' /\ Owners'
  BY <1>1, ProgressKept, LinksKept, OwnersKept DEF HarnessInv
<1>6. Crashing'
  <2>1. \A t \in Pending' : t[2] = I /\ t[1] # "delete"
    BY <1>1, <1>2, Later DEF Loops
  <2>2. \A n \in {"copy", "readState", "fresh", "make"} : \A k :
          <<n, k, k>> \in Pending' <=> <<n, k, k>> \in Pending
    BY <1>2
  <2> QED
    BY <1>1, <1>2, <1>3, <2>1, <2>2 DEF HarnessInv, ConfigInv, Crashing, Due
<1>7. Registered'
  BY <1>1, <1>3 DEF HarnessInv, ConfigInv, Registered
<1> QED
  BY <1>4, <1>5, <1>6, <1>7 DEF ConfigInv

LEMMA ReadRaftStateKeeps ==
  ASSUME HarnessInv, ReadRaftState
  PROVE  ConfigInv'
<1>1. /\ Step("readState") /\ CallsAlone
      /\ UNCHANGED <<enabled, servers, connected, gen, saved, rafts, picks, heap,
                     disk, mem, saving>>
      /\ raftlog' = IF saved[I] # 0 THEN heap[saved[I]].state ELSE raftlog
  BY DEF ReadRaftState, netVars, diskVars, CallsAlone
<1>2. Ordered(todo) /\ I \in Servers /\ J = I /\ Pending = Pending' \cup {<<"readState", I, I>>}
  <2>1. "readState" \in Names \ Loops /\ ConfigInv
    BY DEF HarnessInv, Names, AfterOffline, Loops
  <2> QED
    BY <1>1, <2>1, TakenOnce
<1>3. ConfigTypes' /\ Contained'
  <2>1. heap \in Seq(Contents) /\ saved \in [Servers -> 0..Len(heap)] /\ raftlog \subseteq Calls
    BY DEF HarnessInv, ConfigInv, ConfigTypes
  <2>2. saved[I] # 0 => heap[saved[I]] \in Contents
    BY <1>2, <2>1
  <2>3. raftlog' \subseteq Calls
    BY <1>1, <2>1, <2>2 DEF Contents
  <2> QED
    BY <1>1, <2>3 DEF HarnessInv, ConfigInv, ConfigTypes, Contained
<1>4. Handlers'
  BY <1>1, HandlersKept DEF CallsAlone, Unlost
<1>5. Progress' /\ Links' /\ Owners'
  BY <1>1, ProgressKept, LinksKept, OwnersKept DEF HarnessInv
<1>6. Crashing'
  <2>1. \A t \in Pending' : t[2] = I /\ t[1] # "copy"
    BY <1>1, <1>2, Later DEF Loops
  <2>2. \A n \in {"delete", "copy", "fresh", "make"} : \A k :
          <<n, k, k>> \in Pending' <=> <<n, k, k>> \in Pending
    BY <1>2
  <2> QED
    BY <1>1, <1>2, <2>1, <2>2 DEF HarnessInv, ConfigInv, Crashing, Due
<1>7. Registered'
  BY <1>1 DEF HarnessInv, ConfigInv, Registered
<1> QED
  BY <1>3, <1>4, <1>5, <1>6, <1>7 DEF ConfigInv

LEMMA FreshEndnamesKeeps ==
  ASSUME HarnessInv, FreshEndnames
  PROVE  ConfigInv'
<1>1. /\ Step("names") /\ CallsAlone
      /\ UNCHANGED <<enabled, servers, connected, saved, rafts, raftlog, picks, heap,
                     disk, mem, saving>>
      /\ gen' = [gen EXCEPT ![I] = @ + 1]
  BY DEF FreshEndnames, netVars, diskVars, CallsAlone
<1>2. Ordered(todo) /\ I \in Servers /\ J = I /\ Pending = Pending' \cup {<<"names", I, I>>}
  <2>1. "names" \in Names \ Loops /\ ConfigInv
    BY DEF HarnessInv, Names, AfterOffline, Loops
  <2> QED
    BY <1>1, <2>1, TakenOnce
<1>3. \A t \in Pending' : t[2] = I /\ t[1] \in {"makeEnd", "wire", "fresh", "make", "add"}
  BY <1>1, <1>2, Later
<1>4. /\ ~connected[I] /\ servers[I] = Nil /\ gen[I] < MaxStarts
      /\ \A a \in Servers \X Gens : disk[a] # 0 => disk[a] # saved[I]
  BY <1>1, Where DEF HarnessInv, AfterOffline, AfterDelete, AfterCopy
<1>5. gen \in [Servers -> 0..MaxStarts] /\ MaxStarts \in Nat
  BY HarnessAssumption DEF HarnessInv, ConfigInv, ConfigTypes
<1>6. /\ gen' \in [Servers -> 0..MaxStarts] /\ gen'[I] = gen[I] + 1
      /\ \A k \in Servers : k # I => gen'[k] = gen[k]
  BY <1>1, <1>2, <1>4, <1>5
<1>7. ConfigTypes' /\ Contained'
  BY <1>1, <1>6 DEF HarnessInv, ConfigInv, ConfigTypes, Contained
<1>8. Handlers'
  BY <1>1, HandlersKept DEF CallsAlone, Unlost
<1>9. Progress'
  <2>1. Ordered(todo)'
    BY <1>1, <1>2, Taken
  <2>2. \A k \in Servers : ~Due("names", k)' /\ (k # I => ~Due("names", k))
    BY <1>2, <1>3 DEF Due
  <2>3. I <= picks
    <3>1. <<"names", I, I>> \in Pending
      BY <1>2
    <3> QED
      BY <3>1 DEF HarnessInv, ConfigInv, Progress
  <2>4. \A t \in Pending' : t[2] <= picks
    BY <1>3, <2>3
  <2>5. \A i \in Servers : i <= picks => gen'[i] > 0
    <3> SUFFICES ASSUME NEW i \in Servers, i <= picks PROVE gen'[i] > 0
      OBVIOUS
    <3>1. CASE i = I
      BY <1>5, <1>6, <3>1
    <3>2. CASE i # I
      BY <1>6, <2>2, <3>2 DEF HarnessInv, ConfigInv, Progress
    <3> QED
      BY <3>1, <3>2
  <2>6. \A i \in Servers : i > picks => gen'[i] = 0
    <3>1. picks \in Nat /\ Servers \subseteq Nat
      BY HarnessAssumption DEF HarnessInv, ConfigInv, ConfigTypes, Servers
    <3> QED
      BY <1>2, <1>6, <2>3, <3>1 DEF HarnessInv, ConfigInv, Progress
  <2> QED
    BY <1>1, <2>1, <2>2, <2>4, <2>5, <2>6 DEF Progress
<1>10. Links'
  <2>1. Links
    BY DEF HarnessInv, ConfigInv
  <2>2. \A j \in Servers, g \in Gens : ~enabled[<<I, g, j>>]
    <3> SUFFICES ASSUME NEW j \in Servers, NEW g \in Gens, enabled[<<I, g, j>>] PROVE FALSE
      OBVIOUS
    <3>1. g = gen[I] /\ gen[I] # 0
      BY <1>2, <2>1 DEF Links, Gens
    <3>2. <<"disableOut", I, j>> \in Pending \/ <<"disableIn", j, I>> \in Pending
      BY <1>2, <1>4, <2>1, <3>1 DEF Links, EndName
    <3> QED
      BY <1>2, <1>3, <3>2
  <2>3. \A i, j \in Servers, g \in Gens : g # gen'[i] => ~enabled'[<<i, g, j>>]
    BY <1>1, <1>6, <2>1, <2>2 DEF Links
  <2>4. \A n \in {"enableOut", "enableIn", "disableOut", "disableIn", "online", "offline"} : \A i, j :
        <<n, i, j>> \in Pending' <=> <<n, i, j>> \in Pending
    BY <1>2
  <2>5. \A t \in Pending' : /\ t[1] \notin {"enableOut", "enableIn"}
                            /\ t[1] \in AfterOffline => ~connected'[t[2]]
                            /\ t[1] \notin {"online", "offline"}
    BY <1>1, <1>3, <1>4
  <2>6. ASSUME NEW i \in Servers, NEW j \in Servers, gen'[i] # 0
        PROVE  /\ enabled'[<<i, gen'[i], j>>] /\ ~(connected'[i] /\ connected'[j]) =>
                   <<"disableOut", i, j>> \in Pending' \/ <<"disableIn", j, i>> \in Pending'
               /\ connected'[i] /\ connected'[j] /\ ~enabled'[<<i, gen'[i], j>>] =>
                   <<"enableOut", i, j>> \in Pending' \/ <<"enableIn", j, i>> \in Pending'
    <3>1. CASE i = I
      <4>1. gen'[i] \in Gens
        BY <1>5, <1>6, <2>6 DEF Gens
      <4> QED
        BY <1>1, <1>4, <2>2, <3>1, <4>1
    <3>2. CASE i # I
      BY <1>1, <1>6, <2>1, <2>4, <2>6, <3>2 DEF Links, EndName
    <3> QED
      BY <3>1, <3>2
  <2> QED
    BY <2>3, <2>5, <2>6 DEF Links, Due, EndName
<1>11. Owners'
  <2>1. ASSUME NEW i \in Servers, NEW g \in Gens, disk[<<i, g>>] # 0
        PROVE  g <= gen'[i] /\ (g = gen'[i] => ~Due("make", i)' \/ Due("names", i)')
    <3>1. CASE i = I
      <4>1. g <= gen[I] /\ g \in Nat /\ gen[I] \in Nat
        BY <1>2, <1>5, <2>1, <3>1 DEF HarnessInv, ConfigInv, Owners, Gens
      <4> QED
        BY <1>6, <3>1, <4>1
    <3>2. CASE i # I
      BY <1>2, <1>3, <1>6, <2>1, <3>2 DEF HarnessInv, ConfigInv, Owners, Due
    <3> QED
      BY <3>1, <3>2
  <2> QED
    BY <1>1, <1>4, <1>6, <2>1 DEF HarnessInv, ConfigInv, Owners
<1>12. Crashing'
  <2>1. \A n \in {"delete", "copy", "readState", "fresh", "make"} : \A k :
          <<n, k, k>> \in Pending' <=> <<n, k, k>> \in Pending
    BY <1>2
  <2>2. <<"add", I, I>> \in Pending' => <<"make", I, I>> \in Pending'
    <3>1. <<"names", I, I>> \in Pending /\ <<"names", I, I>> # <<"add", I, I>>
      BY <1>2
    <3>2. Pending # {<<"add", I, I>>}
      BY <3>1
    <3>3. Due("add", I) => Due("make", I)
      BY <1>2, <3>2 DEF HarnessInv, ConfigInv, Crashing
    <3> QED
      BY <1>2, <2>1, <3>3 DEF Due
  <2>3. <<"make", I, I>> \in Pending' => <<"fresh", I, I>> \in Pending' \/ saved[I] # 0
    <3>1. Due("make", I) => Due("fresh", I) \/ saved[I] # 0
      BY <1>2 DEF HarnessInv, ConfigInv, Crashing
    <3> QED
      BY <2>1, <3>1 DEF Due
  <2>4. \A n, k : <<n, k, k>> \in Pending' =>
                     k = I /\ n \in {"fresh", "make", "add", "makeEnd", "wire"}
    BY <1>3
  <2> QED
    BY <1>1, <1>3, <1>4, <2>2, <2>3, <2>4 DEF Crashing, Due
<1>13. Registered'
  BY <1>1, <1>4, <1>6 DEF HarnessInv, ConfigInv, Registered
<1> QED
  BY <1>7, <1>8, <1>9, <1>10, <1>11, <1>12, <1>13 DEF ConfigInv

LEMMA MakeEndKeeps ==
  ASSUME HarnessInv, MakeEnd
  PROVE  ConfigInv'
<1>1. /\ CallsAlone
      /\ UNCHANGED <<servers, connected, gen, saved, rafts, raftlog, picks, heap,
                     disk, mem, saving>>
  BY DEF MakeEnd, Net!MakeEnd, Net!Connect, Net!statVars, Net!callVars, Net!localVars,
         cfgVars, diskVars, CallsAlone
<1>2. PICK name \in {"makeEnd", "wire"} :
        /\ Step(name)
        /\ UNCHANGED enabled \/ enabled' = [enabled EXCEPT ![EndName(I, J)] = FALSE]
  BY DEF MakeEnd, Net!MakeEnd, Net!Connect
<1>3. ConfigTypes' /\ Contained' /\ Handlers'
  BY <1>1, UnchangedKept
<1>4. Progress' /\ Owners' /\ Crashing'
  BY <1>1, <1>2, ProgressKept, OwnersKept, CrashingKept DEF HarnessInv
<1>5. Links'
  <2>1. Ordered(todo) /\ NP!IInv /\ Links
    BY DEF HarnessInv, ConfigInv, Progress
  <2>2. I \in Servers /\ J \in Servers /\ Pending = Pending' \cup {<<name, I, J>>}
    BY <1>2, <2>1, Taken
  <2>3. ~connected[I] /\ gen[I] \in Gens
    BY <1>2, Where DEF HarnessInv, AfterOffline
  <2>4. enabled \in [Servers \X Gens \X Servers -> BOOLEAN]
    BY <2>1, NetTypes
  <2>5. \A i, j \in Servers, g \in Gens :
          \/ enabled'[<<i, g, j>>] = enabled[<<i, g, j>>]
          \/ ~enabled'[<<i, g, j>>] /\ i = I
    <3>1. CASE UNCHANGED enabled
      BY <3>1
    <3>2. CASE enabled' = [enabled EXCEPT ![EndName(I, J)] = FALSE]
      BY <2>4, <3>2 DEF EndName
    <3> QED
      BY <1>2, <3>1, <3>2
  <2>6. \A i \in Servers : gen[i] # 0 => gen[i] \in Gens
    BY HarnessAssumption DEF HarnessInv, ConfigInv, ConfigTypes, Gens
  <2>7. \A t \in Pending' : t[1] \in {"makeEnd", "wire", "fresh", "make", "add"} /\ t[2] = I
    BY <1>2, <2>1, Later
  <2>8. ASSUME NEW i \in Servers, NEW j \in Servers, gen[i] # 0
        PROVE  /\ enabled'[<<i, gen[i], j>>] => connected[i] /\ connected[j]
               /\ connected[i] /\ connected[j] => enabled'[<<i, gen[i], j>>]
    <3>1. /\ ~(<<"disableOut", i, j>> \in Pending \/ <<"disableIn", j, i>> \in Pending)
          /\ ~(<<"enableOut", i, j>> \in Pending \/ <<"enableIn", j, i>> \in Pending)
      BY <1>2, <2>2, <2>7
    <3>2. /\ enabled[<<i, gen[i], j>>] => connected[i] /\ connected[j]
          /\ connected[i] /\ connected[j] => enabled[<<i, gen[i], j>>]
      BY <2>1, <2>8, <3>1 DEF Links, EndName
    <3> QED
      BY <2>3, <2>5, <2>6, <2>8, <3>2
  <2>9. \A i, j \in Servers, g \in Gens : g # gen[i] => ~enabled'[<<i, g, j>>]
    BY <2>1, <2>5 DEF Links
  <2> QED
    BY <1>1, <2>3, <2>7, <2>8, <2>9 DEF Links, Due, EndName
<1>6. Registered'
  BY <1>1 DEF HarnessInv, ConfigInv, Registered
<1> QED
  BY <1>3, <1>4, <1>5, <1>6 DEF ConfigInv

LEMMA AddServerKeeps ==
  ASSUME HarnessInv, AddServer
  PROVE  ConfigInv'
<1>1. /\ Step("add") /\ CallsAlone
      /\ UNCHANGED <<enabled, connected, gen, saved, rafts, raftlog, picks, heap,
                     disk, mem, saving>>
      /\ servers' = [servers EXCEPT ![I] = <<I, gen[I]>>]
  BY DEF AddServer, Net!AddServer, Net!statVars, Net!callVars, Net!localVars, cfgVars,
         diskVars, CallsAlone
<1>2. "add" \in Names \ Loops /\ ConfigInv /\ NP!IInv
  BY DEF HarnessInv, Names, AfterOffline, Loops
<1>3. Ordered(todo) /\ I \in Servers
  BY <1>1, <1>2, TakenOnce
<1>4. Pending' = {}
  BY <1>1, <1>3, Later
<1>5. ConfigTypes' /\ Contained' /\ Handlers'
  BY <1>1, UnchangedKept
<1>6. Progress' /\ Links' /\ Owners'
  BY <1>1, ProgressKept, LinksKept, OwnersKept DEF HarnessInv
<1>7. Crashing'
  BY <1>4 DEF Crashing, Due
<1>8. Registered'
  <2>1. saved[I] # 0 /\ disk[<<I, gen[I]>>] = saved[I]
    BY <1>1, <1>2, Where
  <2>2. servers \in [Servers -> (Servers \X Gens) \cup {Nil}]
    BY <1>2, NetTypes
  <2>3. servers'[I] = <<I, gen[I]>> /\ \A k \in Servers : k # I => servers'[k] = servers[k]
    BY <1>1, <1>3, <2>2
  <2> QED
    BY <1>1, <1>3, <2>1, <2>3 DEF HarnessInv, ConfigInv, Registered
<1> QED
  BY <1>5, <1>6, <1>7, <1>8 DEF ConfigInv

LEMMA MakeKeeps ==
  ASSUME HarnessInv, Make
  PROVE  ConfigInv' /\ Unlost
<1> DEFINE new == <<I, gen[I]>>
<1>1. /\ Step("make") /\ CallsAlone
      /\ UNCHANGED <<enabled, servers, connected, gen, saved, raftlog, picks, heap, saving>>
      /\ rafts' = [rafts EXCEPT ![I] = gen[I]]
      /\ disk' = [disk EXCEPT ![new] = saved[I]]
      /\ mem' = [mem EXCEPT ![new] = heap[saved[I]].state]
  BY DEF Make, netVars, CallsAlone
<1>2. "make" \in Names \ Loops /\ ConfigInv
  BY DEF HarnessInv, Names, AfterOffline, Loops
<1>3. Ordered(todo) /\ I \in Servers /\ Pending = Pending' \cup {<<"make", I, I>>}
  BY <1>1, <1>2, TakenOnce
<1>4. \A t \in Pending' : t = <<"add", I, I>>
  <2>1. \A t \in Pending' : t[1] = "add" /\ t[2] = I /\ t = <<t[1], t[2], t[3]>>
                            /\ (t[1] \notin Loops => t[3] = I)
    BY <1>1, <1>3, Later
  <2>2. "add" \notin Loops
    BY DEF Loops
  <2> QED
    BY <2>1, <2>2
<1>5. /\ servers[I] = Nil /\ saved[I] # 0 /\ disk[new] = 0 /\ gen[I] \in Gens
      /\ \A a \in Servers \X Gens : disk[a] # 0 => disk[a] # saved[I]
  BY <1>1, <1>2, Where DEF AfterDelete, AfterCopy
<1>6. /\ heap \in Seq(Contents) /\ saved \in [Servers -> 0..Len(heap)]
      /\ disk \in [Servers \X Gens -> 0..Len(heap)] /\ mem \in [Servers \X Gens -> SUBSET Calls]
      /\ rafts \in [Servers -> 0..MaxStarts] /\ gen \in [Servers -> 0..MaxStarts]
  BY <1>2 DEF ConfigInv, ConfigTypes
<1>7. new \in Servers \X Gens
  BY <1>3, <1>5
<1>8. heap[saved[I]] \in Contents
  BY <1>3, <1>5, <1>6
<1> HIDE DEF new
<1>9. /\ disk'[new] = saved[I] /\ mem'[new] = heap[saved[I]].state
      /\ \A a \in Servers \X Gens : a # new => disk'[a] = disk[a] /\ mem'[a] = mem[a]
      /\ disk' \in [Servers \X Gens -> 0..Len(heap)]
      /\ mem' \in [Servers \X Gens -> SUBSET Calls]
      /\ rafts' \in [Servers -> 0..MaxStarts]
  BY <1>1, <1>3, <1>6, <1>7, <1>8 DEF Contents
<1>10. Unlost
  BY <1>1, <1>5, <1>9 DEF Unlost
<1>11. ConfigTypes' /\ Handlers'
  <2>1. ConfigTypes'
    BY <1>1, <1>2, <1>9 DEF ConfigInv, ConfigTypes
  <2> QED
    BY <1>1, <1>10, <2>1, HandlersKept DEF CallsAlone
<1>12. Contained'
  BY <1>1, <1>2, <1>9 DEF ConfigInv, Contained
<1>13. Progress' /\ Links'
  BY <1>1, <1>2, ProgressKept, LinksKept
<1>14. Owners'
  <2>1. Owners /\ \A k \in Servers : saved[k] = saved[I] => k = I
    BY <1>2, <1>3, <1>5 DEF ConfigInv, Owners
  <2>2. ASSUME NEW a \in Servers \X Gens, NEW b \in Servers \X Gens,
               disk'[a] # 0, disk'[a] = disk'[b]
        PROVE  a = b
    <3>1. CASE a # new /\ b # new
      <4>1. disk[a] # 0 /\ disk[a] = disk[b]
        BY <1>9, <2>2, <3>1
      <4> QED
        BY <2>1, <4>1 DEF Owners
    <3>2. CASE a = new /\ b # new
      BY <1>5, <1>9, <2>2, <3>2
    <3>3. CASE a # new /\ b = new
      BY <1>5, <1>9, <2>2, <3>3
    <3> QED
      BY <3>1, <3>2, <3>3
  <2>3. \A a \in Servers \X Gens, i \in Servers :
          disk'[a] # 0 /\ disk'[a] = saved[i] => a = <<i, gen[i]>>
    BY <1>9, <2>1 DEF Owners, new
  <2>4. ASSUME NEW i \in Servers, NEW g \in Gens, disk'[<<i, g>>] # 0
        PROVE  g <= gen[i] /\ (g = gen[i] => ~Due("make", i)')
    <3>1. ~Due("make", i)'
      BY <1>4 DEF Due
    <3>2. CASE <<i, g>> = new
      <4>1. g = gen[i]
        BY <3>2 DEF new
      <4> QED
        BY <1>5, <1>6, <3>1, <4>1 DEF Gens
    <3>3. CASE <<i, g>> # new
      <4>1. disk[<<i, g>>] # 0
        BY <1>9, <2>4, <3>3
      <4> QED
        BY <2>1, <3>1, <4>1 DEF Owners
    <3> QED
      BY <3>2, <3>3
  <2> QED
    BY <1>1, <2>1, <2>2, <2>3, <2>4 DEF Owners
<1>15. Crashing'
  <2>1. \A t \in Pending' : t[1] = "add" /\ t[2] = I
    BY <1>4
  <2>2. <<"delete", I, I>> \notin Pending'
    BY <2>1
  <2>3. ASSUME NEW i \in Servers, <<"add", i, i>> \in Pending'
        PROVE  /\ Pending' = {<<"add", i, i>>}
               /\ saved[i] # 0 /\ disk'[<<i, gen[i]>>] = saved[i]
    <3>1. i = I
      BY <2>1, <2>3
    <3> QED
      BY <1>4, <1>5, <1>9, <2>3, <3>1 DEF new
  <2>4. \A n, k : <<n, k, k>> \in Pending' => n = "add"
    BY <2>1
  <2> QED
    BY <1>1, <1>5, <2>1, <2>3, <2>4 DEF Crashing, Due, AfterCopy
<1>16. Registered'
  <2>1. ASSUME NEW i \in Servers, servers[i] # Nil
        PROVE  servers[i] = <<i, gen[i]>> /\ saved[i] # 0 /\ disk'[servers[i]] = saved[i]
    <3>1. servers[i] = <<i, gen[i]>> /\ saved[i] # 0 /\ disk[servers[i]] = saved[i] /\ i # I
      BY <1>2, <1>5, <2>1 DEF ConfigInv, Registered
    <3>2. disk'[<<i, gen[i]>>] = disk[<<i, gen[i]>>]
      BY <1>1, <1>6, <3>1 DEF new
    <3> QED
      BY <3>1, <3>2
  <2> QED
    BY <1>1, <2>1 DEF Registered
<1> QED
  BY <1>10, <1>11, <1>12, <1>13, <1>14, <1>15, <1>16 DEF ConfigInv

(* crash1's Copy, crash1's new Persister and start1's all supersede        *)
(* saved[i] with one that has the same content, while i is not registered. *)
LEMMA SupersedeKeeps ==
  ASSUME HarnessInv, NEW name \in {"copy", "replace", "fresh"}, Step(name), CallsAlone,
         UNCHANGED <<enabled, servers, connected, gen, rafts, raftlog, picks, disk, mem, saving>>,
         NEW content \in Contents, Supersede(I, content),
         content.state = content.snapshot,
         saved[I] # 0 => content.state = heap[saved[I]].state
  PROVE  ConfigInv' /\ Unlost
<1>1. name \in Names \ Loops /\ ConfigInv
  BY DEF HarnessInv, Names, AfterOffline, Loops
<1>2. Ordered(todo) /\ I \in Servers /\ Pending = Pending' \cup {<<name, I, I>>}
  BY <1>1, TakenOnce
<1>3. /\ heap \in Seq(Contents) /\ saved \in [Servers -> 0..Len(heap)]
      /\ disk \in [Servers \X Gens -> 0..Len(heap)]
  BY <1>1 DEF ConfigInv, ConfigTypes
<1>4. servers[I] = Nil
  BY <1>1, Where DEF AfterDelete
<1>5. /\ heap' \in Seq(Contents) /\ Len(heap') = Len(heap) + 1 /\ Len(heap) \in Nat
      /\ heap'[Len(heap) + 1] = content
      /\ \A n \in 1..Len(heap) : heap'[n] = heap[n]
  BY <1>3 DEF Supersede
<1>6. /\ saved'[I] = Len(heap) + 1 /\ saved' \in [Servers -> 0..Len(heap')]
      /\ \A k \in Servers : k # I => saved'[k] = saved[k]
  BY <1>2, <1>3, <1>5 DEF Supersede
<1>7. Unlost
  <2>1. ASSUME NEW i \in Servers, saved[i] # 0
        PROVE  saved'[i] # 0 /\ heap[saved[i]].state \subseteq heap'[saved'[i]].state
    <3>1. CASE i = I
      BY <1>5, <1>6, <2>1, <3>1
    <3>2. CASE i # I
      <4>1. saved'[i] = saved[i] /\ saved[i] \in 1..Len(heap)
        BY <1>3, <1>6, <2>1, <3>2
      <4> QED
        BY <1>5, <2>1, <4>1
    <3> QED
      BY <3>1, <3>2
  <2> QED
    BY <2>1 DEF Unlost
<1>8. ConfigTypes'
  <2>1. disk' \in [Servers \X Gens -> 0..Len(heap')]
    BY <1>3, <1>5
  <2> QED
    BY <1>1, <1>5, <1>6, <2>1 DEF ConfigInv, ConfigTypes
<1>9. Handlers'
  BY <1>7, HandlersKept DEF CallsAlone
<1>10. Progress' /\ Links'
  BY <1>1, ProgressKept, LinksKept
<1>11. Contained'
  <2>1. ASSUME NEW n \in 1..Len(heap') PROVE heap'[n].state = heap'[n].snapshot
    <3>1. CASE n = Len(heap) + 1
      BY <1>5, <3>1
    <3>2. CASE n # Len(heap) + 1
      <4>1. n \in 1..Len(heap)
        BY <1>5, <3>2
      <4> QED
        BY <1>1, <1>5, <4>1 DEF ConfigInv, Contained
    <3> QED
      BY <3>1, <3>2
  <2>2. ASSUME NEW a \in Servers \X Gens, disk[a] # 0 PROVE heap'[disk[a]].state = mem[a]
    <3>1. disk[a] \in 1..Len(heap)
      BY <1>3, <2>2
    <3> QED
      BY <1>1, <1>5, <2>2, <3>1 DEF ConfigInv, Contained
  <2> QED
    BY <2>1, <2>2 DEF Contained
<1>12. \A a \in Servers \X Gens : disk[a] # saved'[I]
  BY <1>3, <1>5, <1>6
<1>13. Owners'
  <2>1. Owners
    BY <1>1 DEF ConfigInv
  <2>2. \A a \in Servers \X Gens, i \in Servers :
          disk[a] # 0 /\ disk[a] = saved'[i] => a = <<i, gen[i]>>
    BY <1>6, <1>12, <2>1 DEF Owners
  <2>3. ASSUME NEW i \in Servers, NEW j \in Servers, saved'[i] # 0, saved'[i] = saved'[j]
        PROVE  i = j
    <3>1. \A k \in Servers : k # I => saved'[k] # saved'[I]
      BY <1>3, <1>5, <1>6
    <3>2. CASE i # I /\ j # I
      BY <1>6, <2>1, <2>3, <3>2 DEF Owners
    <3> QED
      BY <2>3, <3>1, <3>2
  <2>4. \A k \in Servers : /\ Due("make", k)' <=> Due("make", k)
                           /\ Due("names", k)' <=> Due("names", k)
    BY <1>2 DEF Due
  <2>5. \A i \in Servers, g \in Gens : disk[<<i, g>>] # 0 =>
          g <= gen[i] /\ (g = gen[i] => ~Due("make", i)' \/ Due("names", i)')
    BY <2>1, <2>4 DEF Owners
  <2>6. \A a, b \in Servers \X Gens : disk[a] # 0 /\ disk[a] = disk[b] => a = b
    BY <2>1 DEF Owners
  <2> QED
    BY <2>2, <2>3, <2>5, <2>6 DEF Owners
<1>14. Crashing'
  <2>1. Crashing
    BY <1>1 DEF ConfigInv
  <2>2. \A t \in Pending' : /\ t[2] = I
                            /\ name = "copy" => t[1] \in AfterCopy \cup {"add"}
                            /\ name = "replace" => t[1] # "replace"
                            /\ name = "fresh" => t[1] \in {"make", "add"}
    BY <1>2, Later DEF Loops
  <2>3. \A t \in Pending' : t[1] \in AfterDelete => servers'[t[2]] = Nil
    BY <1>4, <2>2
  <2>4. \A t \in Pending' : \A a \in Servers \X Gens : disk'[a] # saved'[t[2]]
    BY <1>12, <2>2
  <2>5. ASSUME NEW i \in Servers, <<"replace", i, i>> \in Pending'
        PROVE  <<"readState", i, i>> \in Pending'
    <3>1. i = I /\ name = "copy"
      BY <2>2, <2>5
    <3>2. Due("replace", I) /\ Due("copy", I)
      BY <1>2, <2>5, <3>1 DEF Due
    <3>3. Due("readState", I)
      BY <1>2, <2>1, <3>2 DEF Crashing
    <3> QED
      BY <1>2, <3>1, <3>3 DEF Due
  <2>6. ASSUME NEW i \in Servers, <<"make", i, i>> \in Pending' PROVE saved'[i] # 0
    BY <1>5, <1>6, <2>2, <2>6
  <2>7. ASSUME NEW i \in Servers, <<"add", i, i>> \in Pending'
        PROVE  <<"make", i, i>> \in Pending'
    <3>1. i = I /\ Due("add", I)
      BY <1>2, <2>2, <2>7 DEF Due
    <3>2. <<name, I, I>> \in Pending /\ <<name, I, I>> # <<"add", I, I>>
      BY <1>2
    <3>3. Pending # {<<"add", I, I>>}
      BY <3>2
    <3>4. Due("make", I)
      BY <1>2, <2>1, <3>1, <3>3 DEF Crashing
    <3> QED
      BY <1>2, <3>1, <3>4 DEF Due
  <2> QED
    BY <2>3, <2>4, <2>5, <2>6, <2>7 DEF Crashing, Due
<1>15. Registered'
  BY <1>1, <1>4, <1>6 DEF ConfigInv, Registered
<1> QED
  BY <1>7, <1>8, <1>9, <1>10, <1>11, <1>13, <1>14, <1>15 DEF ConfigInv

(* crash1 on a server that was never started has no Persister to copy.     *)
LEMMA NothingToCopy ==
  ASSUME HarnessInv, NEW name \in {"copy", "replace"}, Step(name), CallsAlone, saved[I] = 0,
         UNCHANGED <<enabled, servers, connected, gen, saved, rafts, raftlog, picks, heap,
                     disk, mem, saving>>
  PROVE  ConfigInv'
<1>1. ConfigTypes' /\ Contained' /\ Handlers'
  BY UnchangedKept
<1>2. Progress' /\ Links' /\ Owners'
  BY ProgressKept, LinksKept, OwnersKept DEF HarnessInv
<1>3. Registered'
  BY DEF HarnessInv, ConfigInv, Registered
<1>4. Crashing'
  <2>1. CASE name = "replace"
    BY <2>1, CrashingKept DEF HarnessInv
  <2>2. CASE name = "copy"
    <3>1. "copy" \in Names \ Loops /\ ConfigInv /\ Crashing
      BY DEF HarnessInv, ConfigInv, Names, AfterOffline, Loops
    <3>2. Ordered(todo) /\ I \in Servers /\ Pending = Pending' \cup {<<"copy", I, I>>}
      BY <2>2, <3>1, TakenOnce
    <3>3. \A t \in Pending' : t[2] = I /\ t[1] # "copy"
      BY <2>2, <3>1, <3>2, Later
    <3>4. servers[I] = Nil
      BY <2>2, <3>1, Where DEF AfterDelete
    <3>5. ASSUME NEW i \in Servers, <<"replace", i, i>> \in Pending'
          PROVE  <<"readState", i, i>> \in Pending'
      <4>1. i = I /\ Due("replace", I) /\ Due("copy", I)
        BY <3>2, <3>3, <3>5 DEF Due
      <4>2. Due("readState", I)
        BY <3>1, <3>2, <4>1 DEF Crashing
      <4> QED
        BY <3>2, <4>1, <4>2 DEF Due
    <3>6. ASSUME NEW i \in Servers, <<"make", i, i>> \in Pending'
          PROVE  <<"fresh", i, i>> \in Pending' \/ saved[i] # 0
      <4>1. Due("make", i)
        BY <3>2, <3>6 DEF Due
      <4>2. Due("fresh", i) \/ saved[i] # 0
        BY <3>1, <4>1 DEF Crashing
      <4> QED
        BY <3>2, <4>2 DEF Due
    <3>7. ASSUME NEW i \in Servers, <<"add", i, i>> \in Pending'
          PROVE  <<"make", i, i>> \in Pending'
      <4>1. i = I /\ Due("add", I)
        BY <3>2, <3>3, <3>7 DEF Due
      <4>2. <<"copy", I, I>> \in Pending /\ <<"copy", I, I>> # <<"add", I, I>>
        BY <3>2
      <4>3. Pending # {<<"add", I, I>>}
        BY <4>2
      <4>4. Due("make", I)
        BY <3>1, <3>2, <4>1, <4>3 DEF Crashing
      <4> QED
        BY <3>2, <4>1, <4>4 DEF Due
    <3> QED
      BY <3>3, <3>4, <3>5, <3>6, <3>7 DEF Crashing, Due
  <2> QED
    BY <2>1, <2>2
<1> QED
  BY <1>1, <1>2, <1>3, <1>4 DEF ConfigInv

LEMMA PersisterKeeps ==
  ASSUME HarnessInv, CopySaved \/ ReplaceSaved \/ FreshPersister
  PROVE  ConfigInv' /\ Unlost
<1>1. /\ CallsAlone
      /\ UNCHANGED <<enabled, servers, connected, gen, rafts, raftlog, picks, disk, mem, saving>>
  BY DEF CopySaved, ReplaceSaved, FreshPersister, netVars, CallsAlone
<1>2. ConfigInv /\ Ordered(todo)
  BY DEF HarnessInv, ConfigInv, Progress
<1>3. /\ heap \in Seq(Contents) /\ saved \in [Servers -> 0..Len(heap)]
      /\ raftlog \subseteq Calls
  BY <1>2 DEF ConfigInv, ConfigTypes
<1>4. I \in Servers
  BY <1>2, Taken DEF CopySaved, ReplaceSaved, FreshPersister
<1>5. saved[I] # 0 => /\ saved[I] \in 1..Len(heap) /\ heap[saved[I]] \in Contents
                      /\ heap[saved[I]].state = heap[saved[I]].snapshot
  <2>1. saved[I] # 0 => saved[I] \in 1..Len(heap)
    BY <1>3, <1>4
  <2> QED
    BY <1>2, <1>3, <2>1 DEF ConfigInv, Contained
<1>6. ASSUME NEW name \in {"copy", "replace"}, Step(name), saved[I] = 0, UNCHANGED <<heap, saved>>
      PROVE  ConfigInv' /\ Unlost
  BY <1>1, <1>6, NothingToCopy DEF Unlost
<1>7. CASE CopySaved
  <2>1. Step("copy")
    BY <1>7 DEF CopySaved
  <2>2. CASE saved[I] # 0
    <3>1. Supersede(I, heap[saved[I]])
      BY <1>7, <2>2 DEF CopySaved, Copy
    <3> QED
      BY <1>1, <1>5, <2>1, <2>2, <3>1, SupersedeKeeps
  <2>3. CASE saved[I] = 0
    BY <1>6, <1>7, <2>1, <2>3 DEF CopySaved
  <2> QED
    BY <2>2, <2>3
<1>8. CASE ReplaceSaved
  <2>1. Step("replace")
    BY <1>8 DEF ReplaceSaved
  <2>2. CASE saved[I] # 0
    <3> DEFINE content == [state |-> raftlog, snapshot |-> heap[saved[I]].snapshot]
    <3>1. Supersede(I, content)
      BY <1>8, <2>2 DEF ReplaceSaved
    <3>2. raftlog = heap[saved[I]].state
      BY <1>2, <2>1, <2>2, Where
    <3>3. /\ content \in Contents /\ content.state = content.snapshot
          /\ content.state = heap[saved[I]].state
      BY <1>3, <1>5, <2>2, <3>2 DEF Contents
    <3> HIDE DEF content
    <3> QED
      BY <1>1, <2>1, <3>1, <3>3, SupersedeKeeps
  <2>3. CASE saved[I] = 0
    BY <1>6, <1>8, <2>1, <2>3 DEF ReplaceSaved
  <2> QED
    BY <2>2, <2>3
<1>9. CASE FreshPersister
  <2> DEFINE content == IF saved[I] # 0 THEN heap[saved[I]] ELSE [state |-> {}, snapshot |-> {}]
  <2>1. Step("fresh") /\ Supersede(I, content)
    BY <1>9 DEF FreshPersister, Copy
  <2>2. [state |-> {}, snapshot |-> {}] \in Contents
    BY DEF Contents
  <2>3. /\ content \in Contents /\ content.state = content.snapshot
        /\ saved[I] # 0 => content.state = heap[saved[I]].state
    BY <1>5, <2>2
  <2> HIDE DEF content
  <2> QED
    BY <1>1, <2>1, <2>3, SupersedeKeeps
<1> QED
  BY <1>7, <1>8, <1>9

-----------------------------------------------------------------------------
(* The handlers and the network.                                           *)

LEMMA SaveKeeps ==
  ASSUME HarnessInv, NEW c \in Calls, SaveStateAndSnapshot(c)
  PROVE  ConfigInv' /\ Unlost
<1> DEFINE inst == server[c]
           new  == mem[inst] \cup {c}
           both == [state |-> new, snapshot |-> new]
<1>1. /\ handler[c] = "running" /\ c \notin saving /\ saving' = saving \cup {c}
      /\ mem' = [mem EXCEPT ![inst] = new]
      /\ heap' = [heap EXCEPT ![disk[inst]] = both]
      /\ CallsAlone
      /\ UNCHANGED <<enabled, servers, connected, gen, saved, rafts, raftlog, picks, todo, disk>>
  BY DEF SaveStateAndSnapshot, netVars, cfgVars, CallsAlone
<1>2. ConfigInv
  BY DEF HarnessInv
<1>3. inst \in Servers \X Gens /\ disk[inst] # 0
  BY <1>1, <1>2 DEF ConfigInv, Handlers
<1>4. /\ heap \in Seq(Contents) /\ saved \in [Servers -> 0..Len(heap)]
      /\ disk \in [Servers \X Gens -> 0..Len(heap)] /\ mem \in [Servers \X Gens -> SUBSET Calls]
      /\ Len(heap) \in Nat
  BY <1>2 DEF ConfigInv, ConfigTypes
<1>5. disk[inst] \in 1..Len(heap) /\ both \in Contents /\ new \in SUBSET Calls
      /\ both.state = new /\ both.snapshot = new
  BY <1>3, <1>4 DEF Contents
<1> HIDE DEF inst, both
<1>6. /\ heap' \in Seq(Contents) /\ Len(heap') = Len(heap)
      /\ heap'[disk[inst]] = both
      /\ \A n \in 1..Len(heap) : n # disk[inst] => heap'[n] = heap[n]
  BY <1>1, <1>4, <1>5
<1>7. /\ mem' \in [Servers \X Gens -> SUBSET Calls] /\ mem'[inst] = new
      /\ \A a \in Servers \X Gens : a # inst => mem'[a] = mem[a]
  BY <1>1, <1>3, <1>4, <1>5
<1>8. \A n \in 1..Len(heap) : heap[n].state \subseteq heap'[n].state
  <2>1. heap[disk[inst]].state = mem[inst]
    BY <1>2, <1>3 DEF ConfigInv, Contained
  <2> QED
    BY <1>5, <1>6, <2>1
<1>9. Unlost
  <2>1. \A i \in Servers : saved[i] # 0 => saved[i] \in 1..Len(heap)
    BY <1>4
  <2> QED
    BY <1>1, <1>7, <1>8, <2>1 DEF Unlost
<1>10. ConfigTypes'
  BY <1>1, <1>2, <1>6, <1>7 DEF ConfigInv, ConfigTypes
<1>11. UNCHANGED Pending /\ Progress' /\ Links' /\ Owners'
  <2>1. UNCHANGED Pending
    BY <1>1 DEF Pending, Elements
  <2>2. Progress'
    <3>1. Ordered(todo)'
      BY <1>1, <1>2 DEF ConfigInv, Progress, Ordered, Precedes
    <3> QED
      BY <1>1, <1>2, <2>1, <3>1 DEF ConfigInv, Progress, Due
  <2>3. Links'
    BY <1>1, <1>2, <2>1 DEF ConfigInv, Links, Due, EndName
  <2>4. Owners'
    BY <1>1, <1>2, <2>1 DEF ConfigInv, Owners, Due
  <2> QED
    BY <2>1, <2>2, <2>3, <2>4
<1>12. Contained'
  <2>1. \A n \in 1..Len(heap') : heap'[n].state = heap'[n].snapshot
    BY <1>2, <1>5, <1>6 DEF ConfigInv, Contained
  <2>2. ASSUME NEW a \in Servers \X Gens, disk[a] # 0 PROVE heap'[disk[a]].state = mem'[a]
    <3>1. CASE a = inst
      BY <1>5, <1>6, <1>7, <3>1
    <3>2. CASE a # inst
      <4>1. disk[a] # disk[inst] /\ disk[a] \in 1..Len(heap)
        BY <1>2, <1>3, <1>4, <2>2, <3>2 DEF ConfigInv, Owners
      <4> QED
        BY <1>2, <1>6, <1>7, <2>2, <3>2, <4>1 DEF ConfigInv, Contained
    <3> QED
      BY <3>1, <3>2
  <2> QED
    BY <1>1, <2>1, <2>2 DEF Contained
<1>13. Crashing'
  <2>1. ASSUME NEW i \in Servers, Due("replace", i)
        PROVE  \/ Due("readState", i)
               \/ ~Due("copy", i) /\ (saved[i] # 0 => raftlog = heap'[saved[i]].state)
    <3>1. CASE Due("readState", i)
      BY <3>1
    <3>2. CASE ~Due("readState", i)
      <4>1. ~Due("copy", i) /\ (saved[i] # 0 => raftlog = heap[saved[i]].state)
        BY <1>2, <2>1, <3>2 DEF ConfigInv, Crashing
      <4> DEFINE t == <<"replace", i, i>>
      <4>2. t \in Pending /\ t[1] \in AfterCopy /\ t[2] = i
        BY <2>1 DEF Due, AfterCopy
      <4> HIDE DEF t
      <4>3. disk[inst] # saved[i]
        BY <1>2, <1>3, <4>1, <4>2 DEF ConfigInv, Crashing
      <4> QED
        BY <1>4, <1>6, <4>1, <4>3
    <3> QED
      BY <3>1, <3>2
  <2> QED
    BY <1>1, <1>2, <1>11, <2>1 DEF ConfigInv, Crashing, Due
<1>14. Registered'
  BY <1>1, <1>2 DEF ConfigInv, Registered
<1>15. Handlers'
  <2> SUFFICES ASSUME NEW d \in Calls PROVE Handlers!(d)'
    BY DEF Handlers
  <2>1. Handlers!(d)
    BY <1>2 DEF ConfigInv, Handlers
  <2>2. UNCHANGED <<proc, handler, server, target, finishedLive>>
    BY <1>1 DEF CallsAlone
  <2>3. d \in saving' => handler[d] \in {"running", "finished", "exit"} /\ d \in mem'[server[d]]
    <3>1. CASE d = c
      BY <1>1, <1>7, <3>1 DEF inst
    <3>2. CASE d # c
      <4>1. d \in saving' => /\ handler[d] \in {"running", "finished", "exit"}
                             /\ d \in mem[server[d]] /\ server[d] \in Servers \X Gens
        BY <1>1, <2>1, <3>2
      <4> QED
        BY <1>7, <4>1
    <3> QED
      BY <3>1, <3>2
  <2>4. finishedLive[d] => saved'[target[d]] # 0 /\ d \in heap'[saved'[target[d]]].state
    <3>1. finishedLive[d] => target[d] \in Servers
      BY <2>1
    <3> QED
      BY <1>9, <2>1, <3>1 DEF Unlost
  <2> QED
    BY <1>1, <2>1, <2>2, <2>3, <2>4
<1> QED
  BY <1>9, <1>10, <1>11, <1>12, <1>13, <1>14, <1>15 DEF ConfigInv

(* The steps of a Call, except those of its handler: processReq reads the  *)
(* server it will deliver to, then everything else follows from that.      *)
LEMMA CallStepKeeps ==
  ASSUME HarnessInv, NEW c \in Calls, UNCHANGED <<cfgVars, todo, diskVars>>,
         \/ \E e : Net!Call(c, e)
         \/ Net!AcceptReq(c) \/ Net!AbortCall(c) \/ Net!ProcessReq(c)
         \/ Net!Dispatch(c) \/ Net!Drain(c)
  PROVE  ConfigInv'
<1>1. ConfigInv /\ NP!IInv
  BY DEF HarnessInv
<1>2. /\ Handlers!(c)
      /\ proc \in [Calls -> NP!ProcStates] /\ handler \in [Calls -> NP!HandlerStates]
      /\ target \in [Calls -> Servers \cup {Nil}]
      /\ server \in [Calls -> (Servers \X Gens) \cup {Nil}]
  BY <1>1, NetTypes DEF ConfigInv, Handlers
<1>3. /\ proc[c] = "start" => handler[c] = "none" /\ callEnd[c] \in Servers \X Gens \X Servers
      /\ proc[c] \in {"none", "deliver"} => handler[c] = "none"
  BY <1>1 DEF NP!IInv, NP!Phases
<1> USE DEF Net!netVars, Net!statVars, Net!localVars, Net!callVars, Net!ProcGoto
<1>4. /\ UNCHANGED <<enabled, servers, finishedLive>>
      /\ \A d \in Calls : d # c =>
           UNCHANGED <<proc[d], handler[d], server[d], target[d]>>
      /\ Handlers!(c)'
  <2> USE UNCHANGED <<cfgVars, todo, diskVars>> DEF cfgVars, diskVars
  <2>1. ASSUME NEW e, Net!Call(c, e) PROVE <1>4!:
    BY <1>2, <2>1 DEF Net!Call
  <2>2. CASE Net!AcceptReq(c)
    BY <1>2, <1>3, <2>2 DEF Net!AcceptReq
  <2>3. CASE Net!AbortCall(c)
    BY <1>2, <2>3 DEF Net!AbortCall
  <2>4. CASE Net!ReadEndnameInfo(c)
    <3> DEFINE t == connections[callEnd[c]]
    <3>1. t \in Servers /\ servers[t] # Nil
      BY <1>1, <1>3, <2>4, NetTypes DEF Net!ReadEndnameInfo, Net!Reachable, Net!ServerOf
    <3>2. servers[t] = <<t, gen[t]>> /\ disk[servers[t]] # 0 /\ servers[t] \in Servers \X Gens
      BY <1>1, <3>1, NetTypes DEF ConfigInv, Registered
    <3>3. target' = [target EXCEPT ![c] = t] /\ server' = [server EXCEPT ![c] = servers[t]]
      BY <2>4, <3>1, NilAssumption DEF Net!ReadEndnameInfo, Net!ServerOf
    <3> HIDE DEF t
    <3> QED
      BY <1>2, <1>3, <2>4, <3>1, <3>2, <3>3 DEF Net!ReadEndnameInfo
  <2>5. CASE Net!Unreachable(c)
    BY <1>2, <1>3, <2>5 DEF Net!Unreachable
  <2>6. CASE Net!DropRequest(c)
    BY <1>2, <2>6 DEF Net!DropRequest
  <2>7. CASE Net!Deliver(c)
    BY <1>2, <1>3, <2>7 DEF Net!Deliver
  <2>8. CASE Net!ReceiveReply(c)
    BY <1>2, <2>8 DEF Net!ReceiveReply
  <2>9. CASE Net!GiveUp(c)
    BY <1>2, <2>9 DEF Net!GiveUp
  <2>10. CASE Net!Conclude(c)
    BY <1>2, <2>10 DEF Net!Conclude
  <2>11. CASE Net!AnswerFalse(c)
    BY <1>2, <2>11 DEF Net!AnswerFalse
  <2>12. CASE Net!AnswerReply(c)
    BY <1>2, <2>12 DEF Net!AnswerReply
  <2>13. CASE Net!Dispatch(c)
    BY <1>2, <2>13 DEF Net!Dispatch
  <2>14. CASE Net!Drain(c)
    BY <1>2, <2>14 DEF Net!Drain
  <2> QED
    BY <2>1, <2>2, <2>3, <2>4, <2>5, <2>6, <2>7, <2>8, <2>9, <2>10, <2>11, <2>12, <2>13, <2>14
       DEF Net!ProcessReq
<1>5. Handlers'
  <2>1. ASSUME NEW d \in Calls, d # c PROVE Handlers!(d)'
    <3>1. Handlers!(d)
      BY <1>1 DEF ConfigInv, Handlers
    <3>2. UNCHANGED <<proc[d], handler[d], server[d], target[d], finishedLive, saving, saved,
                      heap, disk, mem>>
      BY <1>4, <2>1 DEF cfgVars, diskVars
    <3> QED
      BY <3>1, <3>2
  <2> QED
    BY <1>4, <2>1 DEF Handlers
<1> QED
  BY <1>1, <1>4, <1>5, QuietKeeps DEF Quiet, ConfigInv

(* A handler returns after it has saved its update: if its server is still *)
(* registered, the update is where the next instance will look for it.     *)
LEMMA FinishKeeps ==
  ASSUME HarnessInv, NEW c \in Calls, Finish(c)
  PROVE  ConfigInv'
<1>1. /\ c \in saving /\ handler[c] = "running"
      /\ handler' = [handler EXCEPT ![c] = "finished"]
      /\ finishedLive' = [finishedLive EXCEPT ![c] = (servers[target[c]] = server[c])]
      /\ Quiet /\ UNCHANGED <<proc, server, target>>
  BY DEF Finish, Net!Finish, Net!netVars, Net!statVars, Net!localVars, Quiet
<1>2. ConfigInv /\ NP!IInv
  BY DEF HarnessInv
<1>3. handler \in [Calls -> NP!HandlerStates] /\ finishedLive \in [Calls -> BOOLEAN]
      /\ servers \in [Servers -> (Servers \X Gens) \cup {Nil}]
  BY <1>2, NetTypes
<1>4. /\ handler'[c] = "finished" /\ finishedLive'[c] = (servers[target[c]] = server[c])
      /\ \A d \in Calls : d # c => UNCHANGED <<handler[d], finishedLive[d]>>
  BY <1>1, <1>3
<1>5. UNCHANGED <<saving, saved, heap, disk, mem>>
  BY <1>1 DEF Quiet, cfgVars, diskVars
<1>6. \A d \in Calls : Handlers!(d)
  BY <1>2 DEF ConfigInv, Handlers
<1>7. servers[target[c]] = server[c] =>
        saved[target[c]] # 0 /\ c \in heap[saved[target[c]]].state
  <2> SUFFICES ASSUME servers[target[c]] = server[c]
               PROVE  saved[target[c]] # 0 /\ c \in heap[saved[target[c]]].state
    OBVIOUS
  <2>1. /\ server[c] \in Servers \X Gens /\ target[c] \in Servers /\ disk[server[c]] # 0
        /\ c \in mem[server[c]]
    BY <1>1, <1>6
  <2>2. saved[target[c]] # 0 /\ disk[server[c]] = saved[target[c]]
    BY <1>2, <2>1, NilAssumption DEF ConfigInv, Registered
  <2>3. heap[disk[server[c]]].state = mem[server[c]]
    BY <1>2, <2>1 DEF ConfigInv, Contained
  <2> QED
    BY <2>1, <2>2, <2>3
<1>8. Handlers'
  <2>1. ASSUME NEW d \in Calls, d # c PROVE Handlers!(d)'
    BY <1>1, <1>4, <1>5, <1>6, <2>1
  <2>2. Handlers!(c)'
    BY <1>1, <1>4, <1>5, <1>6, <1>7
  <2> QED
    BY <2>1, <2>2 DEF Handlers
<1> QED
  BY <1>1, <1>2, <1>8, QuietKeeps DEF ConfigInv

-----------------------------------------------------------------------------
(* Every step of the harness keeps its part of the invariant, and loses    *)
(* no update.                                                              *)
LEMMA NextConfig ==
  ASSUME HarnessInv, [Next]_vars
  PROVE  ConfigInv' /\ Unlost
<1>1. ConfigInv /\ NP!IInv
  BY DEF HarnessInv
<1>2. ASSUME UNCHANGED <<cfgVars, diskVars>> PROVE Unlost
  BY <1>2 DEF Unlost, cfgVars, diskVars
<1>3. ASSUME Quiet, CallsAlone PROVE ConfigInv' /\ Unlost
  <2>1. UNCHANGED <<connected, gen, saved, rafts, raftlog, picks, heap, disk, mem, saving>>
    BY <1>3 DEF Quiet, cfgVars, diskVars
  <2> QED
    BY <1>1, <1>3, <2>1, QuietKeeps, UnchangedKept DEF ConfigInv, Unlost
<1>4. ASSUME NEW i, NEW seq, Begin(seq) PROVE Unlost
  BY <1>4 DEF Begin, Unlost, diskVars
<1>5. /\ N \in Nat \ {0} /\ MaxPicks \in Nat /\ picks \in Nat /\ MaxStarts \in Nat \ {0}
  BY <1>1, HarnessAssumption DEF ConfigInv, ConfigTypes
<1>6. CASE MakeConfig
  <2>1. CASE picks < N /\ Begin(start1(picks + 1))
    <3> DEFINE i == picks + 1
    <3>1. i \in Servers /\ i > picks /\ picks < 2*N + MaxPicks
      BY <1>5, <2>1 DEF Servers
    <3>2. gen[i] = 0
      BY <1>1, <3>1 DEF ConfigInv, Progress
    <3>3. Procedure(start1(i), i) /\ <<"names", i, i>> \in Elements(start1(i))
      BY <3>1, StartProcedure
    <3>4. 0 < MaxStarts /\ i <= picks + 1
      BY <1>5
    <3> QED
      BY <1>4, <2>1, <3>1, <3>2, <3>3, <3>4, BeginKeeps
  <2>2. CASE picks \in N..(2*N - 1) /\ Begin(connect(picks + 1 - N))
    <3> DEFINE i == picks + 1 - N
    <3>1. i \in Servers /\ i <= picks + 1 /\ picks < 2*N + MaxPicks /\ ~(picks < N)
      BY <1>5, <2>2 DEF Servers
    <3>2. Procedure(connect(i), i) /\ <<"names", i, i>> \notin Elements(connect(i))
      BY <3>1, ConnectProcedure DEF ConnectSteps
    <3> HIDE DEF i
    <3>3. Begin(connect(i))
      BY <2>2 DEF i
    <3> QED
      BY <1>4, <3>1, <3>2, <3>3, BeginKeeps
  <2> QED
    BY <1>6, <2>1, <2>2 DEF MakeConfig
<1>7. ASSUME NEW i \in Victims, Pick(i) PROVE ConfigInv' /\ Unlost
  <2>1. i \in Servers /\ i <= picks + 1 /\ ~(picks < N) /\ picks < 2*N + MaxPicks
    BY <1>5, <1>7, HarnessAssumption DEF Pick, Idle, Servers
  <2>2. ASSUME NEW seq, Begin(seq), Procedure(seq, i),
               <<"names", i, i>> \in Elements(seq) => gen[i] < MaxStarts
        PROVE  ConfigInv' /\ Unlost
    BY <1>4, <2>1, <2>2, BeginKeeps
  <2>3. CASE Begin(crash1(i))
    BY <2>1, <2>2, <2>3, CrashProcedure
  <2>4. CASE gen[i] < MaxStarts /\ Begin(start1(i))
    BY <2>1, <2>2, <2>4, StartProcedure
  <2>5. CASE Begin(disconnect(i))
    BY <2>1, <2>2, <2>5, DisconnectProcedure
  <2>6. CASE Begin(connect(i))
    <3>1. <<"names", i, i>> \notin Elements(connect(i))
      BY <2>1, ConnectProcedure DEF ConnectSteps
    <3> QED
      BY <2>1, <2>2, <2>6, <3>1, ConnectProcedure
  <2> QED
    BY <1>7, <2>3, <2>4, <2>5, <2>6 DEF Pick
<1>8. CASE Setlongreordering \/ Cleanup
  BY <1>3, <1>8 DEF Setlongreordering, Cleanup, Net!LongReordering, Net!Cleanup, Net!statVars,
     Net!callVars, Net!localVars, Quiet, CallsAlone
<1>9. CASE Setunreliable
  BY <1>2, <1>9, SetunreliableKeeps DEF Setunreliable
<1>10. CASE SetConnected
  BY <1>10, SetConnectedKeeps DEF SetConnected, Unlost, diskVars
<1>11. CASE EnableEnd
  BY <1>2, <1>11, EnableEndKeeps DEF EnableEnd
<1>12. CASE DisableEnd
  BY <1>2, <1>12, DisableEndKeeps DEF DisableEnd
<1>13. CASE DeleteServer
  BY <1>2, <1>13, DeleteServerKeeps DEF DeleteServer
<1>14. CASE CopySaved \/ ReplaceSaved \/ FreshPersister
  BY <1>14, PersisterKeeps
<1>15. CASE Kill
  BY <1>15, KillKeeps DEF Kill, Unlost, diskVars
<1>16. CASE ReadRaftState
  BY <1>16, ReadRaftStateKeeps DEF ReadRaftState, Unlost, diskVars
<1>17. CASE FreshEndnames
  BY <1>17, FreshEndnamesKeeps DEF FreshEndnames, Unlost, diskVars
<1>18. CASE MakeEnd
  BY <1>2, <1>18, MakeEndKeeps DEF MakeEnd
<1>19. CASE Make
  BY <1>19, MakeKeeps
<1>20. CASE AddServer
  BY <1>2, <1>20, AddServerKeeps DEF AddServer
<1>21. CASE Network
  <2>1. UNCHANGED <<cfgVars, todo, diskVars>> /\ Unlost
    BY <1>2, <1>21 DEF Network
  <2>2. CASE Net!NetLoopExit
    BY <1>3, <2>1, <2>2 DEF Net!NetLoopExit, Net!statVars, Net!callVars, Net!localVars, Quiet,
       CallsAlone
  <2>3. ASSUME NEW c \in Calls, \/ Net!AcceptReq(c) \/ Net!AbortCall(c) \/ Net!ProcessReq(c)
                                \/ Net!Dispatch(c) \/ Net!Drain(c)
        PROVE  ConfigInv'
    BY <2>1, <2>3, CallStepKeeps
  <2> QED
    BY <1>21, <2>1, <2>2, <2>3 DEF Network
<1>22. ASSUME NEW c \in Calls, Call(c) PROVE ConfigInv' /\ Unlost
  BY <1>2, <1>22, CallStepKeeps DEF Call
<1>23. ASSUME NEW c \in Calls, SaveStateAndSnapshot(c) PROVE ConfigInv' /\ Unlost
  BY <1>23, SaveKeeps
<1>24. ASSUME NEW c \in Calls, Finish(c) PROVE ConfigInv' /\ Unlost
  BY <1>2, <1>24, FinishKeeps DEF Finish
<1>25. CASE UNCHANGED vars
  BY <1>3, <1>25 DEF vars, netVars, Quiet, CallsAlone
<1> QED
  BY <1>6, <1>7, <1>8, <1>9, <1>10, <1>11, <1>12, <1>13, <1>14, <1>15, <1>16, <1>17, <1>18,
     <1>19, <1>20, <1>21, <1>22, <1>23, <1>24, <1>25 DEF Next, Tester

(* Every step of the harness is a step of the network or leaves it alone.  *)
LEMMA NetStep ==
  ASSUME HarnessInv, [Next]_vars
  PROVE  [NP!Next]_(NP!vars)
<1>1. ConfigInv /\ NP!IInv
  BY DEF HarnessInv
<1>2. ends \subseteq Servers \X Gens \X Servers /\ Ordered(todo)
  BY <1>1, NetTypes DEF ConfigInv, Progress
<1> USE DEF NP!netVars, NP!statVars, NP!localVars, NP!callVars,
            Net!netVars, Net!statVars, Net!localVars, Net!callVars
<1>3. ASSUME UNCHANGED netVars PROVE UNCHANGED NP!vars
  BY <1>3 DEF netVars, NP!vars
<1>4. ASSUME NEW e, NEW yes \in BOOLEAN, Net!Enable(e, yes) PROVE NP!Next
  BY <1>2, <1>4 DEF Net!Enable, NP!Enable, NP!Next, NP!Tester
<1>5. CASE MakeConfig \/ \E i \in Victims : Pick(i)
  <2>1. UNCHANGED netVars
    BY <1>5 DEF MakeConfig, Pick, Begin
  <2> QED
    BY <1>3, <2>1
<1>6. CASE Setlongreordering
  <2>1. NP!LongReordering(TRUE)
    BY <1>6 DEF Setlongreordering, Net!LongReordering, NP!LongReordering
  <2> QED
    BY <2>1 DEF NP!Next, NP!Tester
<1>7. CASE Cleanup
  <2>1. NP!Cleanup
    BY <1>7 DEF Cleanup, Net!Cleanup, NP!Cleanup
  <2> QED
    BY <2>1 DEF NP!Next, NP!Tester
<1>8. CASE Setunreliable
  <2>1. NP!Reliable(~Unreliable)
    BY <1>8 DEF Setunreliable, Net!Reliable, NP!Reliable
  <2>2. (~Unreliable) \in BOOLEAN
    BY Zenon
  <2> QED
    BY <2>1, <2>2 DEF NP!Next, NP!Tester
<1>9. CASE SetConnected \/ CopySaved \/ Kill \/ ReadRaftState \/ ReplaceSaved
           \/ FreshEndnames \/ FreshPersister \/ Make
  <2>1. UNCHANGED netVars
    BY <1>9 DEF SetConnected, CopySaved, Kill, ReadRaftState, ReplaceSaved, FreshEndnames,
       FreshPersister, Make
  <2> QED
    BY <1>3, <2>1
<1>10. CASE EnableEnd
  BY <1>3, <1>4, <1>10 DEF EnableEnd
<1>11. CASE DisableEnd
  BY <1>3, <1>4, <1>11 DEF DisableEnd
<1>12. CASE DeleteServer
  <2>1. I \in Servers
    BY <1>2, <1>12, Taken DEF DeleteServer
  <2>2. NP!DeleteServer(I)
    BY <1>12 DEF DeleteServer, Net!DeleteServer, NP!DeleteServer
  <2> QED
    BY <2>1, <2>2 DEF NP!Next, NP!Tester
<1>13. CASE MakeEnd
  <2>1. PICK name \in {"makeEnd", "wire"} : Step(name)
    BY <1>13 DEF MakeEnd
  <2>2. I \in Servers /\ J \in Servers /\ gen[I] \in Gens
    BY <1>1, <1>2, <2>1, Taken, Where
  <2>3. EndName(I, J) \in Servers \X Gens \X Servers
    BY <2>2 DEF EndName
  <2>4. CASE Net!MakeEnd(EndName(I, J))
    <3>1. NP!MakeEnd(EndName(I, J))
      BY <2>4 DEF Net!MakeEnd, NP!MakeEnd
    <3> QED
      BY <2>3, <3>1 DEF NP!Next, NP!Tester
  <2>5. CASE Net!Connect(EndName(I, J), J)
    <3>1. NP!Connect(EndName(I, J), J)
      BY <2>5 DEF Net!Connect, NP!Connect
    <3> QED
      BY <2>2, <2>3, <3>1 DEF NP!Next, NP!Tester
  <2> QED
    BY <1>13, <2>4, <2>5 DEF MakeEnd
<1>14. CASE AddServer
  <2>1. I \in Servers /\ gen[I] \in Gens
    BY <1>1, <1>2, <1>14, Taken, Where DEF AddServer
  <2>2. NP!AddServer(I, <<I, gen[I]>>) /\ <<I, gen[I]>> \in Servers \X Gens
    BY <1>14, <2>1 DEF AddServer, Net!AddServer, NP!AddServer
  <2> QED
    BY <2>1, <2>2 DEF NP!Next, NP!Tester
<1>15. ASSUME NEW c \in Calls, NEW e \in Servers \X Gens \X Servers, Net!Call(c, e)
       PROVE  NP!Next
  <2>1. NP!Call(c, e)
    BY <1>15 DEF Net!Call, NP!Call
  <2> QED
    BY <2>1 DEF NP!Next
<1>16. ASSUME NEW c \in Calls, Net!ProcessReq(c) PROVE NP!ProcessReq(c)
  <2> USE <1>16 DEF Net!ProcessReq, NP!ProcessReq, Net!ProcGoto, NP!ProcGoto
  <2>1. Net!ReadEndnameInfo(c) => NP!ReadEndnameInfo(c)
    BY DEF Net!ReadEndnameInfo, NP!ReadEndnameInfo, Net!Reachable, NP!Reachable,
           Net!ServerOf, NP!ServerOf
  <2>2. Net!Unreachable(c) => NP!Unreachable(c)
    BY DEF Net!Unreachable, NP!Unreachable, Net!Reachable, NP!Reachable,
           Net!ServerOf, NP!ServerOf
  <2>3. Net!DropRequest(c) => NP!DropRequest(c)
    BY DEF Net!DropRequest, NP!DropRequest
  <2>4. Net!Deliver(c) => NP!Deliver(c)
    BY DEF Net!Deliver, NP!Deliver
  <2>5. Net!ReceiveReply(c) => NP!ReceiveReply(c)
    BY DEF Net!ReceiveReply, NP!ReceiveReply
  <2>6. Net!GiveUp(c) => NP!GiveUp(c)
    BY DEF Net!GiveUp, NP!GiveUp, Net!IsServerDead, NP!IsServerDead
  <2>7. Net!Conclude(c) => NP!Conclude(c)
    BY DEF Net!Conclude, NP!Conclude, Net!IsServerDead, NP!IsServerDead
  <2>8. Net!AnswerFalse(c) => NP!AnswerFalse(c)
    BY DEF Net!AnswerFalse, NP!AnswerFalse
  <2>9. Net!AnswerReply(c) => NP!AnswerReply(c)
    BY DEF Net!AnswerReply, NP!AnswerReply
  <2> QED
    BY <2>1, <2>2, <2>3, <2>4, <2>5, <2>6, <2>7, <2>8, <2>9
<1>17. CASE Network
  <2>1. CASE Net!NetLoopExit
    <3>1. NP!NetLoopExit
      BY <2>1 DEF Net!NetLoopExit, NP!NetLoopExit
    <3> QED
      BY <3>1 DEF NP!Next
  <2>2. ASSUME NEW c \in Calls, \/ Net!AcceptReq(c) \/ Net!AbortCall(c) \/ Net!ProcessReq(c)
                                \/ Net!Dispatch(c) \/ Net!Drain(c)
        PROVE  NP!Next
    <3>1. Net!AcceptReq(c) => NP!AcceptReq(c)
      BY DEF Net!AcceptReq, NP!AcceptReq
    <3>2. Net!AbortCall(c) => NP!AbortCall(c)
      BY DEF Net!AbortCall, NP!AbortCall
    <3>3. Net!Dispatch(c) => NP!Dispatch(c)
      BY DEF Net!Dispatch, NP!Dispatch
    <3>4. Net!Drain(c) => NP!Drain(c)
      BY DEF Net!Drain, NP!Drain
    <3> QED
      BY <1>16, <2>2, <3>1, <3>2, <3>3, <3>4 DEF NP!Next
  <2> QED
    BY <1>17, <2>1, <2>2 DEF Network
<1>18. ASSUME NEW c \in Calls, Call(c) PROVE NP!Next
  BY <1>15, <1>18 DEF Call
<1>19. ASSUME NEW c \in Calls, SaveStateAndSnapshot(c) PROVE UNCHANGED netVars
  BY <1>19 DEF SaveStateAndSnapshot
<1>20. ASSUME NEW c \in Calls, Finish(c) PROVE NP!Next
  <2>1. NP!Finish(c)
    BY <1>20 DEF Finish, Net!Finish, NP!Finish
  <2> QED
    BY <2>1 DEF NP!Next
<1>21. CASE UNCHANGED vars
  BY <1>3, <1>21 DEF vars
<1> QED
  BY <1>3, <1>5, <1>6, <1>7, <1>8, <1>9, <1>10, <1>11, <1>12, <1>13, <1>14, <1>17, <1>18,
     <1>19, <1>20, <1>21 DEF Next, Tester

-----------------------------------------------------------------------------
(* The invariant holds initially and is kept by every step.                *)
LEMMA InitHarness == Init => HarnessInv
<1> SUFFICES ASSUME Init PROVE HarnessInv
  OBVIOUS
<1>1. NP!IInv
  <2>1. NP!Init
    BY DEF Init, Net!Init, NP!Init
  <2> QED
    BY <2>1, NP!InitIInv, NilAssumption
<1>2. 1 \in Servers /\ N \in Nat \ {0} /\ MaxStarts \in Nat \ {0} /\ MaxPicks \in Nat
  BY HarnessAssumption DEF Servers
<1>3. ConfigTypes
  <2>1. heap \in Seq(Contents) /\ Len(heap) = 0
    BY DEF Init
  <2> QED
    BY <1>2, <2>1 DEF Init, ConfigTypes
<1>4. Ordered(todo) /\ Pending = {<<"setunreliable", 1, 1>>}
  <2>1. <<"setunreliable", 1, 1>> \in Steps
    BY <1>2 DEF Steps, Names
  <2> QED
    BY <2>1, SingleOrdered DEF Init, Pending
<1>5. Progress
  BY <1>2, <1>4 DEF Init, Progress, Servers, Due
<1>6. Links
  BY <1>4 DEF Init, Net!Init, Links, Due, EndName, AfterOffline
<1>7. Owners /\ Contained
  BY DEF Init, Owners, Contained
<1>8. Crashing
  BY <1>4 DEF Crashing, Due, AfterDelete, AfterCopy
<1>9. Registered /\ Handlers
  BY DEF Init, Net!Init, Registered, Handlers
<1> QED
  BY <1>1, <1>3, <1>5, <1>6, <1>7, <1>8, <1>9 DEF HarnessInv, ConfigInv

LEMMA NextHarness == HarnessInv /\ [Next]_vars => HarnessInv'
<1> SUFFICES ASSUME HarnessInv, [Next]_vars PROVE HarnessInv'
  OBVIOUS
<1>1. ConfigInv'
  BY NextConfig
<1>2. NP!IInv'
  <2>1. [NP!Next]_(NP!vars) /\ NP!IInv
    BY NetStep DEF HarnessInv
  <2> QED
    BY <2>1, NP!NextIInv, NilAssumption
<1> QED
  BY <1>1, <1>2 DEF HarnessInv

LEMMA HarnessInvariant == Spec => []HarnessInv
<1> QED
  BY InitHarness, NextHarness, PTL DEF Spec

(* The harness and the network under it keep their types, for any number   *)
(* of servers, restarts and Calls.                                         *)
THEOREM TypesHold == Spec => []TypeOK
<1>1. HarnessInv => TypeOK
  <2> SUFFICES ASSUME HarnessInv PROVE TypeOK
    OBVIOUS
  <2>1. Net!TypeOK
    BY DEF HarnessInv, NP!IInv, NP!TypeOK, Net!TypeOK, NP!ClientStates, Net!ClientStates,
       NP!ProcStates, Net!ProcStates, NP!HandlerStates, Net!HandlerStates
  <2>2. ASSUME NEW k \in DOMAIN todo PROVE todo[k][2] \in Servers /\ todo[k][3] \in Servers
    <3>1. todo \in Seq(Steps)
      BY DEF HarnessInv, ConfigInv, Progress, Ordered
    <3>2. todo[k] \in Steps
      BY <2>2, <3>1
    <3> QED
      BY <3>2 DEF Steps
  <2> QED
    BY <2>1, <2>2 DEF HarnessInv, ConfigInv, ConfigTypes, TypeOK
<1> QED
  BY <1>1, HarnessInvariant, PTL

(* A caller told true has its update in the Persister that the next        *)
(* instance will read: processReq passes a reply on only when the handler  *)
(* finished while its server was registered, and crash1 deletes the server *)
(* before it touches the Persister.                                        *)
THEOREM AckedDurableHolds == Spec => []AckedDurable
<1>1. HarnessInv => AckedDurable
  <2> SUFFICES ASSUME HarnessInv, NEW c \in Calls, client[c] = "ok"
               PROVE  saved[target[c]] # 0 /\ c \in heap[saved[target[c]]].state
    BY DEF AckedDurable
  <2>1. finishedLive[c]
    BY DEF HarnessInv, NP!IInv, NP!Freshness
  <2> QED
    BY <2>1 DEF HarnessInv, ConfigInv, Handlers
<1> QED
  BY <1>1, HarnessInvariant, PTL

(* The Persister that the next instance will read holds a raft state and a *)
(* snapshot that were saved together, although crash1 reads them in two    *)
(* calls: no instance writes to it any more by then.                       *)
THEOREM InSyncHolds == Spec => []InSync
<1>1. HarnessInv => InSync
  <2> SUFFICES ASSUME HarnessInv, NEW i \in Servers, saved[i] # 0
               PROVE  heap[saved[i]].state = heap[saved[i]].snapshot
    BY DEF InSync
  <2>1. saved[i] \in 1..Len(heap)
    BY DEF HarnessInv, ConfigInv, ConfigTypes
  <2> QED
    BY <2>1 DEF HarnessInv, ConfigInv, Contained
<1> QED
  BY <1>1, HarnessInvariant, PTL

(* No end of an old instance is ever enabled again.                        *)
THEOREM OldInstanceSilencedHolds == Spec => []OldInstanceSilenced
<1>1. HarnessInv => OldInstanceSilenced
  <2> SUFFICES ASSUME HarnessInv, NEW i \in Servers, NEW j \in Servers, NEW g \in Gens,
                      g < gen[i]
               PROVE  ~enabled[<<i, g, j>>]
    BY DEF OldInstanceSilenced
  <2>1. g # gen[i]
    BY HarnessAssumption DEF HarnessInv, ConfigInv, ConfigTypes, Gens
  <2> QED
    BY <2>1 DEF HarnessInv, ConfigInv, Links
<1> QED
  BY <1>1, HarnessInvariant, PTL

(* Between two procedures of the tester the link from i to j works exactly *)
(* when both are connected.                                                *)
THEOREM WiredHolds == Spec => []Wired
<1>1. HarnessInv => Wired
  <2> SUFFICES ASSUME HarnessInv, Idle, NEW i \in Servers, NEW j \in Servers
               PROVE  enabled[EndName(i, j)] <=> connected[i] /\ connected[j]
    BY DEF Wired
  <2>1. Pending = {}
    BY DEF Idle, Pending, Elements
  <2>2. i <= picks
    BY HarnessAssumption DEF Idle, HarnessInv, ConfigInv, ConfigTypes, Servers
  <2>3. gen[i] # 0
    BY <2>1, <2>2 DEF HarnessInv, ConfigInv, Progress, Due
  <2> QED
    BY <2>1, <2>3 DEF HarnessInv, ConfigInv, Links
<1> QED
  BY <1>1, HarnessInvariant, PTL

(* Superseding a Persister never loses an update, and an old instance that *)
(* still writes never overwrites what its successor persisted.             *)
THEOREM NothingLostHolds == Spec => NothingLost
<1>1. HarnessInv /\ [Next]_vars =>
        [\A i \in Servers : saved[i] # 0 =>
            heap[saved[i]].state \subseteq heap'[saved'[i]].state]_vars
  BY NextConfig DEF Unlost
<1> QED
  BY <1>1, HarnessInvariant, PTL DEF Spec, NothingLost
=============================================================================

------------------------- MODULE ApplyCheckerProofs -------------------------
(***************************************************************************)
(* Proofs about ApplyChecker, for any number of servers, indices, commands,*)
(* instances and requests, with and without snapshots: the appliers notice *)
(* every disagreement between commands and every gap.                      *)
(***************************************************************************)
EXTENDS MCApplyChecker, TLAPS, FiniteSetTheorems, WellFoundedInduction

\* What the tester's locals are while it counts and while it starts a server.
TesterLocals ==
  /\ tester \in Counting => count <= k /\ index \in Indices
  /\ tester = "starting" => k \in Servers

\* The applier of an instance that has not been started does nothing.
Unstarted == \A inst \in Instances : inst[2] > started[inst[1]] => applier[inst] = "off"

TypeInv == TypeOK /\ TesterLocals /\ Unstarted

LEMMA InitTypes == Init => TypeInv
<1> SUFFICES ASSUME Init PROVE TypeInv
  OBVIOUS
<1>1. LogTypes
  BY ApplyAssumption DEF Init, LogTypes, Servers, Indices, Instances
<1>2. TesterTypes /\ TesterLocals
  BY ApplyAssumption DEF Init, TesterTypes, TesterLocals, Counting
<1>3. exited \in BOOLEAN
  BY DEF Init
<1>4. Unstarted
  BY ApplyAssumption DEF Init, Unstarted, Servers, Instances
<1> QED
  BY <1>1, <1>2, <1>3, <1>4 DEF TypeInv, TypeOK

\* The appliers' steps keep the types.
LEMMA ApplierTypes ==
  ASSUME TypeInv, NEW i \in Servers, NEW g \in 1..MaxGen, Applier(i, g)
  PROVE  TypeInv'
<1>0. <<i, g>> \in Instances
  BY DEF Instances
<1>1. LogTypes'
  <2> USE DEF TypeInv, TypeOK, LogTypes
  <2>1. ASSUME NEW x \in Indices, NEW v \in Commands, ApplyCommand(i, g, x, v)
        PROVE  LogTypes'
    <3> USE <1>0, <2>1 DEF ApplyCommand, CheckLogs
    <3>1. logs' \in [Servers -> [Indices -> Commands \cup {None}]]
      OBVIOUS
    <3>2. applier' \in [Instances -> {"off", "reading", "failed", "snapshot"}]
      OBVIOUS
    <3>3. lastApplied' \in [Instances -> 0..MaxIndex]
      BY ApplyAssumption DEF Indices
    <3>4. UNCHANGED <<called, rafts, started>>
      BY DEF serverVars
    <3>5. installed' \subseteq Servers \X Indices
      OBVIOUS
    <3> QED
      BY <3>1, <3>2, <3>3, <3>4, <3>5
  <2>2. ASSUME NEW x \in Indices, NEW v \in Commands, ApplySnapshot(i, g, x, v)
        PROVE  LogTypes'
    <3> USE <1>0, <2>2 DEF ApplySnapshot
    <3>1. logs' \in [Servers -> [Indices -> Commands \cup {None}]]
      <4>1. [y \in Indices |-> IF y = x THEN v ELSE None] \in [Indices -> Commands \cup {None}]
        OBVIOUS
      <4> QED
        BY <4>1
    <3>2. lastApplied' \in [Instances -> 0..MaxIndex]
      <4>1. lastApplied' = lastApplied \/ lastApplied' = [lastApplied EXCEPT ![<<i, g>>] = x]
        OBVIOUS
      <4>2. x \in 0..MaxIndex
        BY ApplyAssumption DEF Indices
      <4> QED
        BY <4>1, <4>2
    <3>3. UNCHANGED <<applier, rafts, started>>
      BY DEF serverVars
    <3>4. installed' \subseteq Servers \X Indices
      OBVIOUS
    <3>5. called' \in (0..MaxGen) \X (0..MaxGen)
      <4>1. called' = <<g, rafts[i]>> /\ rafts[i] \in 0..MaxGen /\ g \in 0..MaxGen
        BY ApplyAssumption
      <4> QED
        BY <4>1
    <3> QED
      BY <3>1, <3>2, <3>3, <3>4, <3>5
  <2>3. CASE DecodeError(i, g)
    <3> USE <1>0, <2>3 DEF DecodeError
    <3>1. logs' \in [Servers -> [Indices -> Commands \cup {None}]]
      OBVIOUS
    <3>2. UNCHANGED <<applier, lastApplied, rafts, started>>
      BY DEF serverVars
    <3>3. installed' \subseteq Servers \X Indices
      OBVIOUS
    <3>4. called' \in (0..MaxGen) \X (0..MaxGen)
      BY ApplyAssumption
    <3> QED
      BY <3>1, <3>2, <3>3, <3>4
  <2>4. CASE TakeSnapshot(i, g)
    <3> USE <1>0, <2>4 DEF TakeSnapshot
    <3>1. applier' \in [Instances -> {"off", "reading", "failed", "snapshot"}]
      OBVIOUS
    <3>2. UNCHANGED <<logs, lastApplied, installed, rafts, started>>
      BY DEF serverVars
    <3>3. called' \in (0..MaxGen) \X (0..MaxGen)
      BY ApplyAssumption
    <3> QED
      BY <3>1, <3>2, <3>3
  <2>5. CASE ApplyError(i, g)
    BY <2>5 DEF ApplyError, logVars, serverVars
  <2> QED
    BY <2>1, <2>2, <2>3, <2>4, <2>5 DEF Applier
<1>2. UNCHANGED testerVars /\ (exited' = exited \/ exited' = TRUE)
  BY DEF Applier, ApplyCommand, ApplySnapshot, DecodeError, TakeSnapshot, ApplyError
<1>3. TesterTypes' /\ TesterLocals'
  BY <1>2 DEF TypeInv, TypeOK, TesterTypes, TesterLocals, testerVars, countVars
<1>4. exited' \in BOOLEAN
  BY <1>2 DEF TypeInv, TypeOK
<1>5. Unstarted'
  <2>1. /\ started' = started
        /\ \/ applier' = applier
           \/ /\ applier[<<i, g>>] # "off"
              /\ \E s : applier' = [applier EXCEPT ![<<i, g>>] = s]
    BY DEF Applier, ApplyCommand, CheckLogs, ApplySnapshot, DecodeError, TakeSnapshot, ApplyError,
           logVars, serverVars
  <2> QED
    BY <1>0, <2>1 DEF TypeInv, TypeOK, LogTypes, Unstarted
<1> QED
  BY <1>1, <1>3, <1>4, <1>5 DEF TypeInv, TypeOK

\* The tester's steps keep the types.
LEMMA TesterStepTypes ==
  ASSUME TypeInv, Tester
  PROVE  TypeInv'
<1>1. LogTypes'
  <2> USE DEF TypeInv, TypeOK, LogTypes, logVars, serverVars
  <2>1. ASSUME NEW i \in Servers, crash1(i)
        PROVE  LogTypes'
    <3>1. rafts' \in [Servers -> 0..MaxGen]
      BY <2>1, ApplyAssumption DEF crash1
    <3> QED
      BY <2>1, <3>1 DEF crash1
  <2>2. ASSUME NEW i \in Servers, start1(i)
        PROVE  LogTypes'
    <3>1. started' \in [Servers -> 0..MaxGen]
      BY <2>2, ApplyAssumption DEF start1
    <3>2. <<i, started[i] + 1>> \in Instances
      BY <2>2, ApplyAssumption DEF start1, Instances
    <3>3. applier' \in [Instances -> {"off", "reading", "failed", "snapshot"}]
      BY <2>2, <3>2 DEF start1
    <3> QED
      BY <2>2, <3>1, <3>3 DEF start1
  <2>3. CASE Made
    <3>1. rafts' \in [Servers -> 0..MaxGen]
      BY <2>3, ApplyAssumption DEF Made, TesterLocals
    <3> QED
      BY <2>3, <3>1 DEF Made
  <2>4. CASE UNCHANGED <<logVars, serverVars>>
    BY <2>4
  <2> QED
    BY <2>1, <2>2, <2>3, <2>4
    DEF Tester, NCommitted, CallOne, Start, OneReturns, OneRecounts, OneRetries, OneFails,
        CallWait, WaitRecounts, WaitMovedOn, WaitFinal, WaitReturns, Proceed
<1>2. TesterTypes' /\ TesterLocals'
  <2> USE ApplyAssumption DEF TypeInv, TypeOK, LogTypes, TesterTypes, TesterLocals, Counting,
                              Servers, Indices, testerVars, countVars, BeginCount, EndCall
  <2>1. ASSUME NEW i \in Servers, crash1(i)
        PROVE  TesterTypes' /\ TesterLocals'
    BY <2>1 DEF crash1
  <2>2. ASSUME NEW i \in Servers, start1(i)
        PROVE  TesterTypes' /\ TesterLocals'
    BY <2>2 DEF start1
  <2>3. CASE Made
    BY <2>3 DEF Made
  <2>4. CASE NCommitted
    <3>1. logs[k + 1][index] \in Commands \cup {None}
      BY <2>4 DEF NCommitted
    <3>2. k' = k + 1 /\ k < N /\ tester \in Counting /\ UNCHANGED <<tester, args, index>>
      BY <2>4 DEF NCommitted
    <3>3. \/ UNCHANGED <<count, cmd>>
          \/ count' = count + 1 /\ cmd' = logs[k + 1][index]
      BY <2>4 DEF NCommitted
    <3>4. count' <= k' /\ count' \in 0..N /\ k' \in 0..N
      <4>1. N \in Nat /\ k \in Nat /\ count \in Nat /\ count <= k
        BY <3>2
      <4>2. count' = count \/ count' = count + 1
        BY <3>3
      <4> HIDE DEF TypeInv
      <4> QED
        BY <3>2, <4>1, <4>2
    <3>5. cmd' \in Commands \cup {None}
      BY <3>1, <3>3
    <3> QED
      BY <3>2, <3>4, <3>5
  <2>5. ASSUME NEW a \in Requests, CallOne(a)
        PROVE  TesterTypes' /\ TesterLocals'
    BY <2>5 DEF CallOne
  <2>6. ASSUME NEW i \in Servers, NEW x \in Indices, Start(i, x)
        PROVE  TesterTypes' /\ TesterLocals'
    BY <2>6 DEF Start
  <2>7. CASE OneReturns
    BY <2>7 DEF OneReturns
  <2>8. CASE OneRecounts
    BY <2>8 DEF OneRecounts, Counted
  <2>9. CASE OneFails
    BY <2>9 DEF OneFails
  <2>10. CASE OneRetries
    <3>1. args' = args /\ tester = "one"
      BY <2>10 DEF OneRetries, Counted
    <3>2. \/ tester' = "trying" /\ index' = 0 /\ BeginCount
          \/ UNCHANGED <<tester, index, countVars>>
      BY <2>10 DEF OneRetries
    <3> QED
      BY <3>1, <3>2
  <2>11. ASSUME NEW x \in Indices, NEW a \in Requests, CallWait(x, a)
        PROVE  TesterTypes' /\ TesterLocals'
    BY <2>11 DEF CallWait
  <2>12. CASE WaitRecounts
    BY <2>12 DEF WaitRecounts, Counted
  <2>13. CASE WaitMovedOn \/ Proceed
    BY <2>13 DEF WaitMovedOn, Proceed
  <2>14. CASE WaitFinal \/ WaitReturns
    BY <2>14 DEF WaitFinal, WaitReturns, Counted
  <2> QED
    BY <2>1, <2>2, <2>3, <2>4, <2>5, <2>6, <2>7, <2>8, <2>9, <2>10, <2>11, <2>12, <2>13, <2>14
    DEF Tester
<1>3. exited' = exited \/ exited' = TRUE
  BY DEF Tester, crash1, start1, Made, NCommitted, CallOne, Start, OneReturns, OneRecounts,
         OneRetries, OneFails, CallWait, WaitRecounts, WaitMovedOn, WaitFinal, WaitReturns, Proceed
<1>4. exited' \in BOOLEAN
  BY <1>3 DEF TypeInv, TypeOK
<1>5. Unstarted'
  <2>1. ASSUME NEW i \in Servers, start1(i)
        PROVE  Unstarted'
    <3> DEFINE new == <<i, started[i] + 1>>
    <3>1. /\ started' = [started EXCEPT ![i] = started[i] + 1]
          /\ applier' = [applier EXCEPT ![new] = "reading"]
      BY <2>1 DEF start1
    <3>2. SUFFICES ASSUME NEW inst \in Instances, inst[2] > started'[inst[1]]
                   PROVE  applier'[inst] = "off"
      BY DEF Unstarted
    <3>3. inst[1] \in Servers /\ inst[2] \in 1..MaxGen /\ started[inst[1]] \in 0..MaxGen
      BY DEF TypeInv, TypeOK, LogTypes, Instances
    <3>4. inst[2] > started[inst[1]] /\ inst # new
      BY <3>1, <3>2, <3>3, ApplyAssumption DEF TypeInv, TypeOK, LogTypes
    <3> QED
      BY <3>1, <3>4 DEF TypeInv, TypeOK, LogTypes, Unstarted
  <2>2. CASE UNCHANGED <<applier, started>>
    BY <2>2 DEF TypeInv, Unstarted
  <2> QED
    BY <2>1, <2>2
    DEF Tester, crash1, Made, NCommitted, CallOne, Start, OneReturns, OneRecounts, OneRetries,
        OneFails, CallWait, WaitRecounts, WaitMovedOn, WaitFinal, WaitReturns, Proceed,
        logVars, serverVars
<1> QED
  BY <1>1, <1>2, <1>4, <1>5 DEF TypeInv, TypeOK

LEMMA NextTypes == TypeInv /\ [Next]_vars => TypeInv'
<1> SUFFICES ASSUME TypeInv, [Next]_vars
             PROVE  TypeInv'
  OBVIOUS
<1>1. ASSUME NEW inst \in Instances, Applier(inst[1], inst[2])
      PROVE  TypeInv'
  <2>1. inst[1] \in Servers /\ inst[2] \in 1..MaxGen
    BY DEF Instances
  <2> QED
    BY <1>1, <2>1, ApplierTypes
<1>2. CASE Tester
  BY <1>2, TesterStepTypes
<1>3. CASE UNCHANGED vars
  BY <1>3 DEF vars, logVars, serverVars, testerVars, countVars, TypeInv, TypeOK,
              LogTypes, TesterTypes, TesterLocals, Unstarted
<1> QED
  BY <1>1, <1>2, <1>3 DEF Next

\* Every variable of the appliers and of the tester keeps its type; nCommitted
\* never counts more servers than there are.
THEOREM TypeCorrect == Spec => []TypeOK
<1>1. TypeInv => TypeOK
  BY DEF TypeInv
<1> QED
  BY <1>1, InitTypes, NextTypes, PTL DEF Spec

-----------------------------------------------------------------------------
(* An alarm is never taken back, so it is enough to look at steps that     *)
(* raise none.                                                             *)

LEMMA AlarmStays ==
  ASSUME TypeInv, [Next]_vars, Alarm
  PROVE  Alarm'
<1> USE DEF Alarm
<1>1. CASE exited
  <2>1. ~Next
    BY <1>1 DEF Next, Applier, ApplyCommand, ApplySnapshot, DecodeError, TakeSnapshot, ApplyError,
                Tester, crash1, start1, Made, NCommitted, CallOne, Start, OneReturns, OneRecounts,
                OneRetries, OneFails, CallWait, WaitRecounts, WaitMovedOn, WaitFinal, WaitReturns,
                Proceed, Counted
  <2> QED
    BY <1>1, <2>1 DEF vars
<1>2. ASSUME NEW inst \in Instances, applier[inst] = "failed"
      PROVE  Alarm'
  <2>1. ASSUME NEW other \in Instances, Applier(other[1], other[2])
        PROVE  Alarm'
    <3>1. other = <<other[1], other[2]>>
      BY DEF Instances
    <3>2. \/ exited'
          \/ applier' = applier
          \/ /\ applier[other] # "failed"
             /\ \E s : applier' = [applier EXCEPT ![other] = s]
      BY <2>1, <3>1 DEF Applier, ApplyCommand, CheckLogs, ApplySnapshot, DecodeError,
                        TakeSnapshot, ApplyError
    <3> QED
      BY <1>2, <3>2 DEF TypeInv, TypeOK, LogTypes
  <2>2. CASE Tester
    <3>1. ASSUME NEW i \in Servers, start1(i)
          PROVE  Alarm'
      <4>1. applier' = [applier EXCEPT ![<<i, started[i] + 1>>] = "reading"]
        BY <3>1 DEF start1
      <4>2. CASE inst # <<i, started[i] + 1>>
        BY <1>2, <4>1, <4>2 DEF TypeInv, TypeOK, LogTypes
      <4>3. CASE inst = <<i, started[i] + 1>>
        <5>1. started[i] \in 0..MaxGen
          BY DEF TypeInv, TypeOK, LogTypes
        <5> QED
          BY <1>2, <4>3, <5>1, ApplyAssumption DEF TypeInv, Unstarted
      <4> QED
        BY <4>2, <4>3
    <3>2. CASE applier' = applier
      BY <1>2, <3>2
    <3> QED
      BY <2>2, <3>1, <3>2
      DEF Tester, crash1, Made, NCommitted, CallOne, Start, OneReturns, OneRecounts, OneRetries,
          OneFails, CallWait, WaitRecounts, WaitMovedOn, WaitFinal, WaitReturns, Proceed, logVars
  <2>3. CASE UNCHANGED vars
    BY <1>2, <2>3 DEF vars, logVars
  <2> QED
    BY <2>1, <2>2, <2>3 DEF Next
<1> QED
  BY <1>1, <1>2

\* The appliers notice: without an alarm, equal entries stay equal and logs
\* without gaps stay without gaps.
Noticed == Detected /\ Contiguous

LEMMA ApplierNotices ==
  ASSUME TypeInv, Noticed, ~Alarm, ~Alarm',
         NEW i \in Servers, NEW g \in 1..MaxGen, Applier(i, g)
  PROVE  Noticed'
<1>0. <<i, g>> \in Instances
  BY DEF Instances
<1>1. ASSUME NEW x \in Indices, NEW v \in Commands, ApplyCommand(i, g, x, v)
      PROVE  Noticed'
  <2>1. ~Mismatch(i, x, v) /\ ~OutOfOrder(i, x)
    <3>1. applier'[<<i, g>>] # "failed"
      BY <1>0 DEF Alarm
    <3> QED
      BY <1>0, <1>1, <3>1 DEF ApplyCommand, CheckLogs, TypeInv, TypeOK, LogTypes
  <2>2. /\ logs' = [logs EXCEPT ![i][x] = v]
        /\ installed' = installed \ {<<i, x>>}
    BY <1>1 DEF ApplyCommand, CheckLogs
  <2>3. \A j \in Servers, y \in Indices :
          logs'[j][y] = IF j = i /\ y = x THEN v ELSE logs[j][y]
    BY <2>2 DEF TypeInv, TypeOK, LogTypes
  <2>4. \A j \in Servers, y \in Indices :
          <<j, y>> \in installed' <=> <<j, y>> \in installed /\ ~(j = i /\ y = x)
    BY <2>2
  <2>5. v # None
    BY ApplyAssumption
  <2>6. Detected'
    <3>1. SUFFICES ASSUME NEW a \in Servers, NEW b \in Servers, NEW y \in Indices,
                          Differ(a, b, y)', <<a, y>> \notin installed', <<b, y>> \notin installed'
                   PROVE  FALSE
      BY DEF Detected
    <3>2. \A j \in Servers : logs[j][x] # None => logs[j][x] = v
      BY <2>1 DEF Mismatch, Committed
    <3>3. y # x
      BY <3>1, <3>2, <2>3, <2>5 DEF Differ, Committed
    <3>4. Differ(a, b, y) /\ <<a, y>> \notin installed /\ <<b, y>> \notin installed
      BY <3>1, <3>3, <2>3, <2>4 DEF Differ, Committed
    <3> QED
      BY <3>4 DEF Noticed, Detected
  <2>7. Contiguous'
    <3>1. SUFFICES ASSUME NEW a \in Servers, NEW y \in Indices, Committed(a, y)',
                          <<a, y>> \notin installed', y > 1, ~Committed(a, y - 1)'
                   PROVE  FALSE
      BY DEF Contiguous
    <3>2. y - 1 \in Indices
      BY <3>1, ApplyAssumption DEF Indices
    <3>3. logs[a][y - 1] = None
      BY <3>1, <3>2, <2>3, <2>5 DEF Committed
    <3>4. CASE a = i /\ y = x
      <4>1. Committed(i, x - 1)
        BY <3>1, <3>4, <2>1 DEF OutOfOrder
      <4> QED
        BY <3>3, <3>4, <4>1 DEF Committed
    <3>5. CASE ~(a = i /\ y = x)
      <4>1. Committed(a, y) /\ <<a, y>> \notin installed /\ ~Committed(a, y - 1)
        BY <3>1, <3>2, <3>3, <3>5, <2>3, <2>4 DEF Committed
      <4> QED
        BY <3>1, <4>1 DEF Noticed, Contiguous
    <3> QED
      BY <3>4, <3>5
  <2> QED
    BY <2>6, <2>7 DEF Noticed
<1>2. ASSUME NEW x \in Indices, NEW v \in Commands, ApplySnapshot(i, g, x, v)
      PROVE  Noticed'
  <2>1. CASE UNCHANGED <<logs, installed>>
    BY <2>1 DEF Noticed, Detected, Contiguous, Differ, Committed
  <2>2. CASE /\ logs' = [logs EXCEPT ![i] = [y \in Indices |-> IF y = x THEN v ELSE None]]
             /\ installed' = {e \in installed : e[1] # i} \cup {<<i, x>>}
    <3>1. \A j \in Servers, y \in Indices :
            logs'[j][y] = IF j = i THEN IF y = x THEN v ELSE None ELSE logs[j][y]
      BY <2>2 DEF TypeInv, TypeOK, LogTypes
    <3>2. \A j \in Servers, y \in Indices :
            <<j, y>> \in installed' <=> IF j = i THEN y = x ELSE <<j, y>> \in installed
      BY <2>2
    <3>3. Detected'
      <4>1. SUFFICES ASSUME NEW a \in Servers, NEW b \in Servers, NEW y \in Indices,
                            Differ(a, b, y)', <<a, y>> \notin installed', <<b, y>> \notin installed'
                     PROVE  FALSE
        BY DEF Detected
      <4>2. a # i /\ b # i
        BY <3>1, <3>2, <4>1 DEF Differ, Committed
      <4>3. Differ(a, b, y) /\ <<a, y>> \notin installed /\ <<b, y>> \notin installed
        BY <3>1, <3>2, <4>1, <4>2 DEF Differ, Committed
      <4> QED
        BY <4>3 DEF Noticed, Detected
    <3>4. Contiguous'
      <4>1. SUFFICES ASSUME NEW a \in Servers, NEW y \in Indices, Committed(a, y)',
                            <<a, y>> \notin installed', y > 1, ~Committed(a, y - 1)'
                     PROVE  FALSE
        BY DEF Contiguous
      <4>2. y - 1 \in Indices
        BY <4>1, ApplyAssumption DEF Indices
      <4>3. a # i
        BY <3>1, <3>2, <4>1 DEF Committed
      <4>4. Committed(a, y) /\ <<a, y>> \notin installed /\ ~Committed(a, y - 1)
        BY <3>1, <3>2, <4>1, <4>2, <4>3 DEF Committed
      <4> QED
        BY <4>1, <4>4 DEF Noticed, Contiguous
    <3> QED
      BY <3>3, <3>4 DEF Noticed
  <2> QED
    BY <1>2, <2>1, <2>2 DEF ApplySnapshot
<1>3. CASE DecodeError(i, g) \/ ApplyError(i, g)
  BY <1>3 DEF DecodeError, ApplyError, Alarm
<1>4. CASE TakeSnapshot(i, g)
  BY <1>4 DEF TakeSnapshot, Noticed, Detected, Contiguous, Differ, Committed
<1> QED
  BY <1>1, <1>2, <1>3, <1>4 DEF Applier

LEMMA NextNotices == TypeInv /\ Noticed /\ [Next]_vars => Noticed'
<1> SUFFICES ASSUME TypeInv, Noticed, [Next]_vars
             PROVE  Noticed'
  OBVIOUS
<1>1. CASE Alarm'
  BY <1>1 DEF Noticed, Detected, Contiguous
<1>2. CASE ~Alarm'
  <2>1. ~Alarm
    BY <1>2, AlarmStays
  <2>2. ASSUME NEW inst \in Instances, Applier(inst[1], inst[2])
        PROVE  Noticed'
    <3>1. inst[1] \in Servers /\ inst[2] \in 1..MaxGen
      BY DEF Instances
    <3> QED
      BY <1>2, <2>1, <2>2, <3>1, ApplierNotices
  <2>3. CASE UNCHANGED <<logs, installed>>
    BY <1>2, <2>1, <2>3 DEF Noticed, Detected, Contiguous, Differ, Committed
  <2>4. CASE Tester
    BY <2>3, <2>4
    DEF Tester, crash1, start1, Made, NCommitted, CallOne, Start, OneReturns, OneRecounts,
        OneRetries, OneFails, CallWait, WaitRecounts, WaitMovedOn, WaitFinal, WaitReturns,
        Proceed, logVars
  <2>5. CASE UNCHANGED vars
    BY <2>3, <2>5 DEF vars, logVars
  <2> QED
    BY <2>2, <2>4, <2>5 DEF Next
<1> QED
  BY <1>1, <1>2

LEMMA InitNotices == Init => Noticed
  BY DEF Init, Noticed, Detected, Contiguous, Differ, Committed

\* Whatever the Rafts commit and in whatever order the instances of a server
\* deliver it, the appliers never let two servers hold different commands for
\* an index unnoticed, unless a snapshot brought one of them.
THEOREM DetectedHolds == Spec => []Detected
<1>1. Noticed => Detected
  BY DEF Noticed
<1> QED
  BY <1>1, InitTypes, NextTypes, InitNotices, NextNotices, PTL DEF Spec

\* Nor do they let a server's log have a gap unnoticed, but before the entry a
\* snapshot brought.
THEOREM ContiguousHolds == Spec => []Contiguous
<1>1. Noticed => Contiguous
  BY DEF Noticed
<1> QED
  BY <1>1, InitTypes, NextTypes, InitNotices, NextNotices, PTL DEF Spec

-----------------------------------------------------------------------------
(* Without snapshots nCommitted never counts too many, although it reads   *)
(* one log at a time: without an alarm a committed entry never changes.    *)

LEMMA EntriesStay ==
  ASSUME TypeInv, [Next]_vars, ~Alarm', ~Snapshot
  PROVE  \A j \in Servers, x \in Indices : Committed(j, x) => logs'[j][x] = logs[j][x]
<1>1. CASE logs' = logs
  BY <1>1
<1>2. ASSUME NEW inst \in Instances, NEW x \in Indices, NEW v \in Commands,
             ApplyCommand(inst[1], inst[2], x, v)
      PROVE  \A j \in Servers, y \in Indices : Committed(j, y) => logs'[j][y] = logs[j][y]
  <2> DEFINE i == inst[1]
  <2>1. inst = <<i, inst[2]>> /\ i \in Servers
    BY DEF Instances
  <2>2. applier'[inst] # "failed"
    BY DEF Alarm
  <2>3. ~Mismatch(i, x, v) /\ logs' = [logs EXCEPT ![i][x] = v]
    BY <1>2, <2>1, <2>2 DEF ApplyCommand, CheckLogs, TypeInv, TypeOK, LogTypes
  <2>4. \A j \in Servers, y \in Indices :
          logs'[j][y] = IF j = i /\ y = x THEN v ELSE logs[j][y]
    BY <2>1, <2>3 DEF TypeInv, TypeOK, LogTypes
  <2>5. Committed(i, x) => logs[i][x] = v
    BY <2>1, <2>3 DEF Mismatch
  <2> QED
    BY <2>4, <2>5
<1>3. CASE Tester \/ UNCHANGED vars
  BY <1>1, <1>3
  DEF Tester, crash1, start1, Made, NCommitted, CallOne, Start, OneReturns, OneRecounts,
      OneRetries, OneFails, CallWait, WaitRecounts, WaitMovedOn, WaitFinal, WaitReturns,
      Proceed, logVars, vars
<1>4. ASSUME NEW inst \in Instances,
             TakeSnapshot(inst[1], inst[2]) \/ ApplyError(inst[1], inst[2])
      PROVE  logs' = logs
  BY <1>4 DEF TakeSnapshot, ApplyError, logVars
<1> QED
  BY <1>1, <1>2, <1>3, <1>4 DEF Next, Applier, ApplySnapshot, DecodeError

\* The servers up to k that hold cmd at the index watched.
Holders == {j \in 1..k : Committed(j, index) /\ logs[j][index] = cmd}

\* While the tester counts, and when one or wait has returned, at least count
\* servers up to k hold cmd; and what has returned was found sufficient.
Enough ==
  /\ tester \in Counting \cup {"agreed", "waited"} => count <= Cardinality(Holders)
  /\ tester = "agreed" => Agreement
  /\ tester = "waited" => count >= args.expected

CountInv == Alarm \/ Enough

LEMMA SubsetOfInterval ==
  ASSUME NEW m \in Nat, NEW S \in SUBSET (1..m)
  PROVE  IsFiniteSet(S) /\ Cardinality(S) \in Nat
<1>1. IsFiniteSet(1..m)
  BY FS_Interval
<1> QED
  BY <1>1, FS_Subset, FS_CardinalityType

LEMMA HoldersFinite ==
  ASSUME TypeInv
  PROVE  /\ Holders \subseteq 1..k /\ IsFiniteSet(Holders)
         /\ Cardinality(Holders) \in Nat
<1>1. k \in Nat /\ Holders \subseteq 1..k
  BY ApplyAssumption DEF TypeInv, TypeOK, TesterTypes, Holders
<1> QED
  BY <1>1, SubsetOfInterval

LEMMA HoldersFiniteNext ==
  ASSUME TypeInv'
  PROVE  IsFiniteSet(Holders') /\ Cardinality(Holders') \in Nat
<1>1. k' \in Nat /\ Holders' \subseteq 1..k'
  BY ApplyAssumption DEF TypeInv, TypeOK, TesterTypes, Holders
<1> QED
  BY <1>1, SubsetOfInterval

\* One turn of the loop.
LEMMA NCommittedCounts ==
  ASSUME TypeInv, TypeInv', Enough, ~Alarm', NCommitted
  PROVE  Enough'
<1> DEFINE cmd1 == logs[k + 1][index]
<1>1. /\ tester \in Counting /\ k \in 0..N-1 /\ k' = k + 1 /\ index \in Indices /\ count \in Nat
      /\ UNCHANGED <<logs, tester, args, index>>
  BY ApplyAssumption DEF NCommitted, logVars, TypeInv, TypeOK, TesterTypes, TesterLocals
<1>2. tester' \notin {"agreed", "waited"}
  BY <1>1 DEF Counting
<1>3. /\ Holders \subseteq 1..k /\ IsFiniteSet(Holders) /\ Cardinality(Holders) \in Nat
      /\ IsFiniteSet(Holders') /\ Cardinality(Holders') \in Nat
  BY HoldersFinite, HoldersFiniteNext
<1>4. count <= Cardinality(Holders)
  BY <1>1 DEF Enough
<1>5. \A j \in 1..k : j \in 1..k' /\ Committed(j, index)' = Committed(j, index)
  BY <1>1 DEF Committed
<1>6. CASE UNCHANGED <<count, cmd>>
  <2>1. Holders \subseteq Holders'
    BY <1>1, <1>5, <1>6 DEF Holders
  <2>2. Cardinality(Holders) <= Cardinality(Holders')
    BY <1>3, <2>1, FS_Subset
  <2>3. count' <= Cardinality(Holders')
    BY <1>1, <1>3, <1>4, <1>6, <2>2
  <2> QED
    BY <1>2, <2>3 DEF Enough
<1>7. CASE cmd1 # None /\ ~(count > 0 /\ cmd # cmd1) /\ count' = count + 1 /\ cmd' = cmd1
  <2>1. k + 1 \in Holders'
    BY <1>1, <1>7 DEF Holders, Committed
  <2>2. k + 1 \notin Holders
    BY <1>1, <1>3
  <2>3. CASE count = 0
    <3>1. Cardinality(Holders') # 0
      BY <1>3, <2>1, FS_EmptySet
    <3>2. count' <= Cardinality(Holders')
      BY <1>3, <1>7, <2>3, <3>1
    <3> QED
      BY <1>2, <3>2 DEF Enough
  <2>4. CASE count # 0
    <3>1. cmd' = cmd
      BY <1>1, <1>7, <2>4
    <3>2. Holders \cup {k + 1} \subseteq Holders'
      BY <1>1, <1>5, <2>1, <3>1 DEF Holders
    <3>3. /\ IsFiniteSet(Holders \cup {k + 1})
          /\ Cardinality(Holders \cup {k + 1}) = Cardinality(Holders) + 1
      BY <1>3, <2>2, FS_AddElement
    <3>4. Cardinality(Holders) + 1 <= Cardinality(Holders')
      BY <1>3, <3>2, <3>3, FS_Subset
    <3>5. count' <= Cardinality(Holders')
      BY <1>1, <1>3, <1>4, <1>7, <3>4
    <3> QED
      BY <1>2, <3>5 DEF Enough
  <2> QED
    BY <2>3, <2>4
<1> QED
  BY <1>6, <1>7 DEF NCommitted

\* A call of nCommitted begins: nothing is counted yet.
LEMMA BeginCounts ==
  ASSUME TypeInv', BeginCount, tester' \notin {"agreed", "waited"}
  PROVE  Enough'
<1>1. count' = 0 /\ Cardinality(Holders') \in Nat
  BY HoldersFiniteNext DEF BeginCount
<1> QED
  BY <1>1 DEF Enough

\* The appliers only add to what was counted.
LEMMA StillEnough ==
  ASSUME TypeInv, TypeInv', [Next]_vars, Enough, ~Alarm', ~Snapshot, UNCHANGED testerVars
  PROVE  Enough'
<1>1. Holders \subseteq Holders'
  <2>1. SUFFICES ASSUME NEW j \in Holders PROVE j \in Holders'
    OBVIOUS
  <2>2. j \in 1..k /\ j \in Servers /\ Committed(j, index) /\ logs[j][index] = cmd
    BY ApplyAssumption DEF Holders, TypeInv, TypeOK, TesterTypes, Servers
  <2>3. index \in Indices /\ logs'[j][index] = logs[j][index]
    BY <2>2, EntriesStay DEF Committed
  <2> QED
    BY <2>2, <2>3 DEF Holders, Committed, testerVars, countVars
<1>2. Cardinality(Holders) <= Cardinality(Holders')
  BY <1>1, HoldersFiniteNext, FS_Subset
<1>3. /\ Cardinality(Holders) \in Nat /\ Cardinality(Holders') \in Nat
      /\ count \in Nat
  BY HoldersFinite, HoldersFiniteNext, ApplyAssumption DEF TypeInv, TypeOK, TesterTypes
<1> QED
  BY <1>2, <1>3 DEF Enough, Agreement, testerVars, countVars

LEMMA NextCounts ==
  ASSUME ~Snapshot
  PROVE  TypeInv /\ CountInv /\ [Next]_vars => CountInv'
<1> SUFFICES ASSUME TypeInv, CountInv, [Next]_vars, ~Alarm'
             PROVE  Enough'
  BY DEF CountInv
<1>1. TypeInv'
  BY NextTypes
<1>2. ~Alarm /\ Enough
  BY AlarmStays DEF CountInv
<1>3. ~exited'
  BY DEF Alarm
<1>4. CASE UNCHANGED testerVars
  BY <1>1, <1>2, <1>4, StillEnough
<1>5. ASSUME NEW inst \in Instances, Applier(inst[1], inst[2])
      PROVE  UNCHANGED testerVars
  BY <1>5 DEF Applier, ApplyCommand, ApplySnapshot, DecodeError, TakeSnapshot, ApplyError
<1>6. CASE Tester
  <2>1. CASE NCommitted
    BY <1>1, <1>2, <2>1, NCommittedCounts
  <2>2. ASSUME NEW i \in Servers, NEW x \in Indices, Start(i, x)
        PROVE  Enough'
    BY <1>1, <2>2, BeginCounts DEF Start
  <2>3. ASSUME NEW x \in Indices, NEW a \in Requests, CallWait(x, a)
        PROVE  Enough'
    BY <1>1, <2>3, BeginCounts DEF CallWait
  <2>4. CASE OneRecounts \/ WaitRecounts \/ WaitFinal
    BY <1>1, <2>4, BeginCounts DEF OneRecounts, WaitRecounts, WaitFinal, Counted
  <2>5. CASE WaitMovedOn \/ Proceed
    BY <1>1, <2>5, BeginCounts DEF WaitMovedOn, Proceed, EndCall
  <2>6. CASE OneRetries
    BY <1>1, <1>3, <2>6, BeginCounts DEF OneRetries
  <2>7. CASE OneReturns
    <3>1. tester = "one" /\ tester' = "agreed" /\ Agreement
          /\ UNCHANGED <<logs, args, index, k, count, cmd>>
      BY <2>7 DEF OneReturns, Counted, logVars, countVars
    <3>2. Holders' = Holders
      BY <3>1 DEF Holders, Committed
    <3> QED
      BY <1>2, <3>1, <3>2 DEF Enough, Agreement, Counting
  <2>8. CASE WaitReturns
    <3>1. /\ tester = "final" /\ tester' = "waited" /\ ~(count < args.expected)
          /\ UNCHANGED <<logs, args, index, k, count, cmd>>
      BY <1>3, <2>8 DEF WaitReturns, Counted, logVars, countVars
    <3>2. Holders' = Holders
      BY <3>1 DEF Holders, Committed
    <3>3. count \in Nat /\ args.expected \in Nat
      BY ApplyAssumption, RequestsAssumption DEF TypeInv, TypeOK, TesterTypes, NoArgs
    <3> QED
      BY <1>2, <3>1, <3>2, <3>3 DEF Enough, Counting
  <2>9. ASSUME NEW i \in Servers, start1(i) \/ crash1(i)
        PROVE  Enough'
    <3>1. CASE start1(i)
      BY <3>1 DEF start1, Enough, Counting
    <3>2. CASE crash1(i)
      BY <1>4, <3>2 DEF crash1
    <3> QED
      BY <2>9, <3>1, <3>2
  <2>10. CASE Made
    BY <2>10 DEF Made, Enough, Counting
  <2>11. ASSUME NEW a \in Requests, CallOne(a)
         PROVE  Enough'
    BY <2>11 DEF CallOne, Enough, Counting
  <2>12. CASE OneFails
    BY <1>3, <2>12 DEF OneFails
  <2> QED
    BY <1>6, <2>1, <2>2, <2>3, <2>4, <2>5, <2>6, <2>7, <2>8, <2>9, <2>10, <2>11, <2>12 DEF Tester
<1>7. CASE UNCHANGED vars
  BY <1>4, <1>7 DEF vars
<1> QED
  BY <1>4, <1>5, <1>6, <1>7 DEF Next

LEMMA EnoughSuffices == TypeInv /\ CountInv => CountSound
<1> SUFFICES ASSUME TypeInv, Enough, tester \in {"agreed", "waited"}
             PROVE  /\ tester = "agreed" => Cardinality(Holding(args.cmd)) >= args.expected
                    /\ tester = "waited" => Cardinality(Holding(cmd)) >= args.expected
  BY DEF CountInv, CountSound
<1>1. Holders \subseteq Holding(cmd)
  BY ApplyAssumption DEF Holders, Holding, TypeInv, TypeOK, TesterTypes, Servers
<1>2. IsFiniteSet(Holding(cmd))
  <2>1. IsFiniteSet(Servers)
    BY ApplyAssumption, FS_Interval DEF Servers
  <2>2. Holding(cmd) \subseteq Servers
    BY DEF Holding
  <2> QED
    BY <2>1, <2>2, FS_Subset
<1>3. Cardinality(Holders) <= Cardinality(Holding(cmd)) /\ Cardinality(Holding(cmd)) \in Nat
  BY <1>1, <1>2, FS_Subset, FS_CardinalityType
<1>4. Cardinality(Holders) \in Nat /\ count \in Nat /\ args.expected \in Nat
  BY HoldersFinite, ApplyAssumption, RequestsAssumption
     DEF TypeInv, TypeOK, TesterTypes, NoArgs
<1>5. count <= Cardinality(Holders)
  BY DEF Enough
<1>6. tester = "agreed" => args.cmd = cmd /\ count >= args.expected
  BY DEF Enough, Agreement
<1>7. tester = "waited" => count >= args.expected
  BY DEF Enough
<1>8. count >= args.expected => Cardinality(Holding(cmd)) >= args.expected
  BY <1>3, <1>4, <1>5
<1> QED
  BY <1>6, <1>7, <1>8

\* For any number of servers, indices, instances and requests, if make_config
\* uses applier: whenever one() or wait() returns, at least as many servers as
\* were asked for hold the command, or an applier is raising an error.
THEOREM CountSoundHolds == ~Snapshot => (Spec => []CountSound)
<1> SUFFICES ASSUME ~Snapshot PROVE Spec => []CountSound
  OBVIOUS
<1>1. Init => CountInv
  BY DEF Init, CountInv, Enough, Counting
<1> QED
  BY <1>1, InitTypes, NextTypes, NextCounts, EnoughSuffices, PTL DEF Spec

-----------------------------------------------------------------------------
(* The leader checks, for any number of servers, terms and rounds:         *)
(* although the tester looks at one server after the other, its alarms are *)
(* justified and what it passes holds of the servers that stayed.          *)

\* What the checks answer.
Verdicts ==
  [kind : {"running", "tooMany", "none", "disagree", "unexpected", "leaderless"}]
    \cup [kind : {"leader"}, of : Leader!Terms \X Leader!Servers \X BOOLEAN]
    \cup [kind : {"terms"}, all : SUBSET Leader!Terms]

Types ==
  /\ term \in [Leader!Servers -> Leader!Terms] /\ leads \in [Leader!Servers -> BOOLEAN]
  /\ online \subseteq Leader!Servers
  /\ check \in {"idle", "oneLeader", "terms", "noLeader"}
  /\ next \in Nat \ {0}
  /\ seen \subseteq Leader!Terms \X Leader!Servers \X BOOLEAN
  /\ verdict \in Verdicts
  /\ steady \subseteq Leader!Servers

\* Whoever leads, and whoever was seen leading in this round, has claimed to.
SeenClaimed ==
  /\ Leader!Claims \subseteq claimed
  /\ \A x \in seen : x[3] => <<x[1], x[2]>> \in claimed

\* Of a server that has not changed in this round the tester has seen what is
\* still the case, if its turn has come, and it asks only connected ones.
SeenSteady ==
  /\ \A x \in seen : x[2] \in online
  /\ \A x \in seen : x[2] \in steady => x[1] = term[x[2]] /\ x[3] = leads[x[2]]
  /\ check # "idle" => \A s \in Leader!Watched : s < next => <<term[s], s, leads[s]>> \in seen

\* The inductive invariant.
LeaderInv ==
  /\ Types /\ SeenClaimed /\ SeenSteady
  /\ Leader!NoFalseAlarm /\ Leader!OneLeaderSound /\ Leader!TermsSound

-----------------------------------------------------------------------------
(* Facts about the operators.                                              *)

LEMMA LeastExists ==
  ASSUME NEW T, T \subseteq Nat, T # {}
  PROVE  \E x \in T : \A y \in T : x <= y
<1> DEFINE Less == {p \in Nat \X Nat : p[1] < p[2]}
<1>1. IsWellFoundedOn(Less, Nat)
  BY NatLessThanWellFounded DEF OpToRel
<1>2. \A a, b \in Nat : <<a, b>> \in Less <=> a < b
  OBVIOUS
<1> HIDE DEF Less
<1>3. PICK x \in T : \A y \in T : <<y, x>> \notin Less
  BY <1>1, WFMin
<1>4. \A y \in T : ~(y < x)
  BY <1>2, <1>3
<1>5. \A y \in T : x <= y
  BY <1>4
<1> QED
  BY <1>5

\* lastTermWithLeader is the largest term with a leader.
LEMMA NewestLeaderIs ==
  ASSUME MaxTerm \in Nat, Types, Leader!Leaders # {}
  PROVE  Leader!NewestLeader \in Leader!Leaders /\ \A y \in Leader!Leaders : y[1] <= Leader!NewestLeader[1]
<1> DEFINE Ages == {MaxTerm - x[1] : x \in Leader!Leaders}
<1>1. \A x \in Leader!Leaders : x[1] \in 0..MaxTerm
  BY DEF Leader!Leaders, Types, Leader!Terms
<1>2. Ages \subseteq Nat /\ Ages # {}
  BY <1>1
<1>3. PICK a \in Ages : \A b \in Ages : a <= b
  <2> HIDE DEF Ages
  <2> QED
    BY <1>2, LeastExists
<1>4. PICK x \in Leader!Leaders : a = MaxTerm - x[1]
  OBVIOUS
<1>5. \A y \in Leader!Leaders : y[1] <= x[1]
  <2>1. SUFFICES ASSUME NEW y \in Leader!Leaders PROVE y[1] <= x[1]
    OBVIOUS
  <2>2. a <= MaxTerm - y[1]
    BY <1>3
  <2> QED
    BY <1>1, <1>4, <2>2
<1> QED
  BY <1>5 DEF Leader!NewestLeader

\* len(terms) > 1 exactly if two of the terms seen differ.
LEMMA SeveralTerms ==
  ASSUME MaxTerm \in Nat, Types
  PROVE  Cardinality(Leader!SeenTerms) > 1 <=> \E x, y \in seen : x[1] # y[1]
<1>1. Leader!SeenTerms \subseteq Leader!Terms
  BY DEF Leader!SeenTerms, Types
<1>2. IsFiniteSet(Leader!SeenTerms)
  <2>1. IsFiniteSet(Leader!Terms)
    BY FS_Interval DEF Leader!Terms
  <2> QED
    BY <1>1, <2>1, FS_Subset
<1>3. Cardinality(Leader!SeenTerms) \in Nat
  BY <1>2, FS_CardinalityType
<1>4. ASSUME NEW x \in seen, NEW y \in seen, x[1] # y[1]
      PROVE  Cardinality(Leader!SeenTerms) > 1
  <2>1. x[1] \in Leader!SeenTerms /\ y[1] \in Leader!SeenTerms
    BY DEF Leader!SeenTerms
  <2>2. Leader!SeenTerms # {} /\ ~\E t : Leader!SeenTerms = {t}
    BY <1>4, <2>1
  <2>3. Cardinality(Leader!SeenTerms) # 0 /\ Cardinality(Leader!SeenTerms) # 1
    BY <1>2, <2>2, FS_EmptySet, FS_Singleton
  <2> QED
    BY <1>3, <2>3
<1>5. ASSUME \A x, y \in seen : x[1] = y[1]
      PROVE  ~(Cardinality(Leader!SeenTerms) > 1)
  <2>1. CASE seen = {}
    <3>1. Leader!SeenTerms = {}
      BY <2>1 DEF Leader!SeenTerms
    <3> QED
      BY <3>1, FS_EmptySet
  <2>2. CASE seen # {}
    <3>1. PICK x \in seen : TRUE
      BY <2>2
    <3>2. Leader!SeenTerms = {x[1]}
      BY <1>5 DEF Leader!SeenTerms
    <3>3. Cardinality(Leader!SeenTerms) = 1
      BY <3>2, FS_Singleton
    <3> QED
      BY <3>3
  <2> QED
    BY <2>1, <2>2
<1> QED
  BY <1>4, <1>5

-----------------------------------------------------------------------------
(* The steps.                                                              *)

LEMMA InitLeader == ASSUME Peers \in Nat, MaxTerm \in Nat PROVE Leader!Init => LeaderInv
<1> SUFFICES ASSUME Leader!Init PROVE LeaderInv
  OBVIOUS
<1>1. Types
  BY DEF Leader!Init, Types, Verdicts, Leader!Terms
<1>2. SeenClaimed /\ SeenSteady
  BY DEF Leader!Init, SeenClaimed, SeenSteady, Leader!Claims
<1>3. Leader!NoFalseAlarm /\ Leader!OneLeaderSound /\ Leader!TermsSound
  BY DEF Leader!Init, Leader!NoFalseAlarm, Leader!OneLeaderSound, Leader!TermsSound, Leader!Watched
<1> QED
  BY <1>1, <1>2, <1>3 DEF LeaderInv

\* Some server changes: claims only grow, and it is steady no longer.
LEMMA ChangeKeeps ==
  ASSUME Peers \in Nat, MaxTerm \in Nat, LeaderInv, NEW s \in Leader!Servers, Leader!Change(s)
  PROVE  LeaderInv'
<1> USE DEF LeaderInv
<1>1. PICK t \in term[s]..MaxTerm, l \in BOOLEAN :
        term' = [term EXCEPT ![s] = t] /\ leads' = [leads EXCEPT ![s] = l]
  BY DEF Leader!Change
<1>2. /\ claimed' = claimed \cup Leader!Claims' /\ steady' = steady \ {s}
      /\ UNCHANGED <<online, check, next, iters, seen, verdict>>
  BY DEF Leader!Change
<1>3. t \in Leader!Terms
  BY DEF Types, Leader!Terms
<1>4. Types'
  BY <1>1, <1>2, <1>3 DEF Types
<1>5. SeenClaimed'
  BY <1>2 DEF SeenClaimed
<1>6. \A w \in Leader!Servers \ {s} : term'[w] = term[w] /\ leads'[w] = leads[w]
  BY <1>1 DEF Types
<1>7. Leader!Watched' = Leader!Watched \ {s} /\ Leader!Watched \subseteq Leader!Servers
  BY <1>2 DEF Leader!Watched, Types
<1>8. SeenSteady'
  <2>1. \A x \in seen : x[2] \in steady' =>
          x[2] \in steady /\ term'[x[2]] = term[x[2]] /\ leads'[x[2]] = leads[x[2]]
    BY <1>2, <1>6 DEF Types
  <2> QED
    BY <1>2, <1>6, <1>7, <2>1 DEF SeenSteady
<1>9. Leader!NoFalseAlarm'
  BY <1>2 DEF Leader!NoFalseAlarm
<1>10. Leader!OneLeaderSound'
  BY <1>2, <1>6, <1>7 DEF Leader!OneLeaderSound
<1>11. Leader!TermsSound'
  <2> USE <1>2, <1>6, <1>7 DEF Leader!TermsSound
  <2>1. (check = "idle" /\ verdict.kind = "terms" => \A w \in Leader!Watched : verdict.all = {term[w]})'
    OBVIOUS
  <2>2. (check = "idle" /\ verdict.kind = "disagree" /\ online \subseteq steady =>
           \E v, w \in online : term[v] # term[w])'
    BY DEF Types
  <2>3. (check = "idle" /\ verdict.kind = "leaderless" => \A w \in Leader!Watched : ~leads[w])'
    OBVIOUS
  <2>4. (check = "idle" /\ verdict.kind = "unexpected" => claimed # {})'
    OBVIOUS
  <2> QED
    BY <2>1, <2>2, <2>3, <2>4
<1> QED
  BY <1>4, <1>5, <1>8, <1>9, <1>10, <1>11

\* A check begins, or checkOneLeader looks again.
LEMMA StartRoundKeeps ==
  ASSUME LeaderInv, NEW kind, Leader!StartRound(kind), check' \in {"oneLeader", "terms", "noLeader"},
         verdict' \in Verdicts
  PROVE  LeaderInv'
<1> USE DEF LeaderInv, Leader!StartRound
<1>1. Types'
  BY DEF Types
<1>2. SeenClaimed' /\ SeenSteady'
  BY DEF SeenClaimed, SeenSteady, Leader!Claims, Leader!Watched, Types, Leader!Servers
<1>3. Leader!NoFalseAlarm' /\ Leader!OneLeaderSound' /\ Leader!TermsSound'
  BY DEF Leader!NoFalseAlarm, Leader!OneLeaderSound, Leader!TermsSound
<1> QED
  BY <1>1, <1>2, <1>3

\* The tester looks at server i.
LEMMA GetStateKeeps ==
  ASSUME Peers \in Nat, LeaderInv, Leader!GetState
  PROVE  LeaderInv'
<1> USE DEF LeaderInv
<1>1. /\ check # "idle" /\ next \in Leader!Servers /\ next' = next + 1
      /\ seen' = IF next \in online THEN seen \cup {<<term[next], next, leads[next]>>} ELSE seen
      /\ UNCHANGED <<term, leads, claimed, steady, online, check, iters, verdict>>
  BY DEF Leader!GetState, Types, Leader!Servers, Leader!rafts
<1>2. term[next] \in Leader!Terms /\ leads[next] \in BOOLEAN
  BY <1>1 DEF Types
<1>3. Types'
  BY <1>1, <1>2 DEF Types
<1>4. \A x \in seen' : x \in seen \/ (x = <<term[next], next, leads[next]>> /\ next \in online)
  BY <1>1
<1>5. SeenClaimed'
  <2>1. Leader!Claims' = Leader!Claims
    BY <1>1 DEF Leader!Claims
  <2>2. leads[next] => <<term[next], next>> \in Leader!Claims
    BY <1>1 DEF Leader!Claims
  <2> QED
    BY <1>1, <1>4, <2>1, <2>2 DEF SeenClaimed
<1>6. SeenSteady'
  <2>1. \A s \in Leader!Watched : s < next + 1 => s < next \/ s = next
    BY DEF Leader!Watched, Types, Leader!Servers
  <2>2. \A s \in Leader!Watched : s < next' => <<term[s], s, leads[s]>> \in seen'
    BY <1>1, <2>1 DEF SeenSteady, Leader!Watched
  <2> QED
    BY <1>1, <1>4, <2>2 DEF SeenSteady, Leader!Watched
<1>7. Leader!NoFalseAlarm' /\ Leader!OneLeaderSound' /\ Leader!TermsSound'
  BY <1>1 DEF Leader!NoFalseAlarm, Leader!OneLeaderSound, Leader!TermsSound
<1> QED
  BY <1>3, <1>5, <1>6, <1>7

\* A check ends: its verdict has to be sound.
LEMMA ConcludeKeeps ==
  ASSUME LeaderInv, NEW v \in Verdicts, Leader!Conclude(v),
         Leader!NoFalseAlarm', Leader!OneLeaderSound', Leader!TermsSound'
  PROVE  LeaderInv'
<1> USE DEF LeaderInv, Leader!Conclude, Leader!rafts
<1>1. Types'
  BY DEF Types
<1>2. SeenClaimed' /\ SeenSteady'
  BY DEF SeenClaimed, SeenSteady, Leader!Claims
<1> QED
  BY <1>1, <1>2

\* When the loop over the servers is done, all that stayed have been seen.
LEMMA AllSeen ==
  ASSUME Peers \in Nat, LeaderInv, check # "idle", next > Peers
  PROVE  /\ \A s \in Leader!Watched : <<term[s], s, leads[s]>> \in seen
         /\ \A s \in Leader!Watched : leads[s] => <<term[s], s, leads[s]>> \in Leader!Leaders
<1>1. next \in Nat /\ Leader!Watched \subseteq 1..Peers
  BY DEF LeaderInv, Types, Leader!Watched, Leader!Servers
<1>2. \A s \in Leader!Watched : s < next
  <2>1. SUFFICES ASSUME NEW s \in 1..Peers PROVE s < next
    BY <1>1
  <2> QED
    BY <1>1
<1> QED
  BY <1>2 DEF LeaderInv, SeenSteady, Leader!Leaders

LEMMA OneLeaderKeeps ==
  ASSUME Peers \in Nat, MaxTerm \in Nat, LeaderInv, Leader!checkOneLeader
  PROVE  LeaderInv'
<1>0. /\ \A s \in Leader!Watched : leads[s] => <<term[s], s, leads[s]>> \in Leader!Leaders
      /\ next > Peers
  BY AllSeen DEF Leader!checkOneLeader
<1> USE DEF Leader!Conclude, Leader!rafts
<1>1. CASE Leader!TooMany /\ Leader!Conclude([kind |-> "tooMany"])
  <2>1. PICK x \in Leader!Leaders, y \in Leader!Leaders : x[1] = y[1] /\ x[2] # y[2]
    BY <1>1 DEF Leader!TooMany
  <2>2. <<x[1], x[2]>> \in claimed /\ <<y[1], y[2]>> \in claimed
    BY DEF Leader!Leaders, LeaderInv, SeenClaimed
  <2>3. claimed' = claimed
    BY <1>1
  <2>4. Leader!NoFalseAlarm'
    BY <2>1, <2>2, <2>3 DEF Leader!NoFalseAlarm
  <2>5. Leader!OneLeaderSound' /\ Leader!TermsSound'
    BY <1>1 DEF Leader!OneLeaderSound, Leader!TermsSound
  <2> QED
    BY <1>1, <2>4, <2>5, ConcludeKeeps DEF Verdicts
<1>2. CASE ~Leader!TooMany /\ Leader!Leaders # {} /\ Leader!Conclude([kind |-> "leader", of |-> Leader!NewestLeader])
  <2> DEFINE top == Leader!NewestLeader
  <2>1. top \in Leader!Leaders /\ \A y \in Leader!Leaders : y[1] <= top[1]
    BY <1>2, NewestLeaderIs DEF LeaderInv
  <2>2. top \in Leader!Terms \X Leader!Servers \X BOOLEAN
    BY <2>1 DEF Leader!Leaders, LeaderInv, Types
  <2> HIDE DEF top
  <2>3. verdict' = [kind |-> "leader", of |-> top] /\ UNCHANGED <<term, leads, steady, online>>
    BY <1>2 DEF top
  <2>4. Leader!OneLeaderSound'
    <3>1. Leader!Watched' = Leader!Watched
      BY <2>3 DEF Leader!Watched
    <3>2. SUFFICES ASSUME NEW s \in Leader!Watched, leads[s]
                   PROVE  /\ term[s] <= top[1]
                          /\ \A w \in Leader!Watched \ {s} : leads[w] => term[w] # term[s]
      BY <2>3, <3>1 DEF Leader!OneLeaderSound
    <3>3. <<term[s], s, leads[s]>> \in Leader!Leaders
      BY <1>0, <3>2
    <3>4. term[s] <= top[1]
      BY <2>1, <3>3
    <3>5. ASSUME NEW w \in Leader!Watched, w # s, leads[w], term[w] = term[s]
          PROVE  FALSE
      <4>1. <<term[w], w, leads[w]>> \in Leader!Leaders
        BY <1>0, <3>5
      <4> QED
        BY <1>2, <3>3, <3>5, <4>1 DEF Leader!TooMany
    <3> QED
      BY <3>4, <3>5
  <2>5. Leader!NoFalseAlarm' /\ Leader!TermsSound'
    BY <2>3 DEF Leader!NoFalseAlarm, Leader!TermsSound
  <2>6. [kind |-> "leader", of |-> top] \in Verdicts
    BY <2>2 DEF Verdicts
  <2> QED
    BY <1>2, <2>4, <2>5, <2>6, ConcludeKeeps DEF top
<1>3. CASE Leader!Leaders = {} /\ Leader!Conclude([kind |-> "none"])
  <2>1. Leader!OneLeaderSound'
    BY <1>0, <1>3 DEF Leader!OneLeaderSound, Leader!Watched
  <2>2. Leader!NoFalseAlarm' /\ Leader!TermsSound'
    BY <1>3 DEF Leader!NoFalseAlarm, Leader!TermsSound
  <2> QED
    BY <1>3, <2>1, <2>2, ConcludeKeeps DEF Verdicts
<1> QED
  BY <1>1, <1>2, <1>3 DEF Leader!checkOneLeader

LEMMA TermsKeep ==
  ASSUME Peers \in Nat, MaxTerm \in Nat, LeaderInv, Leader!checkTerms
  PROVE  LeaderInv'
<1> USE DEF Leader!Conclude, Leader!rafts
<1>a. Leader!Cardinality(Leader!SeenTerms) = Cardinality(Leader!SeenTerms)
  BY Zenon DEF Leader!Cardinality, Cardinality
<1>0. check = "terms" /\ (Leader!Fatal <=> \E x, y \in seen : x[1] # y[1])
  BY <1>a, SeveralTerms DEF Leader!checkTerms, Leader!Fatal, LeaderInv
<1>1. CASE Leader!Fatal /\ Leader!Conclude([kind |-> "disagree"])
  <2>1. Leader!TermsSound'
    <3>1. SUFFICES ASSUME online \subseteq steady
                   PROVE  \E s, w \in online : term[s] # term[w]
      BY <1>1 DEF Leader!TermsSound
    <3>2. PICK x \in seen, y \in seen : x[1] # y[1]
      BY <1>0, <1>1
    <3>3. x[1] = term[x[2]] /\ y[1] = term[y[2]] /\ x[2] \in online /\ y[2] \in online
      BY <3>1 DEF LeaderInv, SeenSteady
    <3> QED
      BY <3>2, <3>3
  <2>2. Leader!NoFalseAlarm' /\ Leader!OneLeaderSound'
    BY <1>1 DEF Leader!NoFalseAlarm, Leader!OneLeaderSound
  <2> QED
    BY <1>1, <2>1, <2>2, ConcludeKeeps DEF Verdicts
<1>2. CASE ~Leader!Fatal /\ next > Peers /\ Leader!Conclude([kind |-> "terms", all |-> Leader!SeenTerms])
  <2>1. \A s \in Leader!Watched : <<term[s], s, leads[s]>> \in seen
    BY <1>0, <1>2, AllSeen
  <2>2. \A s \in Leader!Watched : Leader!SeenTerms = {term[s]}
    BY <1>0, <1>2, <2>1 DEF Leader!SeenTerms
  <2>3. Leader!TermsSound'
    BY <1>2, <2>2 DEF Leader!TermsSound, Leader!Watched
  <2>4. Leader!NoFalseAlarm' /\ Leader!OneLeaderSound'
    BY <1>2 DEF Leader!NoFalseAlarm, Leader!OneLeaderSound
  <2>5. [kind |-> "terms", all |-> Leader!SeenTerms] \in Verdicts
    BY DEF Verdicts, Leader!SeenTerms, LeaderInv, Types
  <2> QED
    BY <1>2, <2>3, <2>4, <2>5, ConcludeKeeps
<1> QED
  BY <1>1, <1>2 DEF Leader!checkTerms

LEMMA NoLeaderKeeps ==
  ASSUME Peers \in Nat, MaxTerm \in Nat, LeaderInv, Leader!checkNoLeader
  PROVE  LeaderInv'
<1> USE DEF Leader!Conclude, Leader!rafts
<1>0. check = "noLeader" /\ (Leader!Fatal <=> Leader!Leaders # {})
  BY DEF Leader!checkNoLeader, Leader!Fatal
<1>1. CASE Leader!Fatal /\ Leader!Conclude([kind |-> "unexpected"])
  <2>1. claimed # {}
    BY <1>0, <1>1 DEF Leader!Leaders, LeaderInv, SeenClaimed
  <2>2. Leader!NoFalseAlarm' /\ Leader!OneLeaderSound' /\ Leader!TermsSound'
    BY <1>1, <2>1 DEF Leader!NoFalseAlarm, Leader!OneLeaderSound, Leader!TermsSound
  <2> QED
    BY <1>1, <2>2, ConcludeKeeps DEF Verdicts
<1>2. CASE ~Leader!Fatal /\ next > Peers /\ Leader!Conclude([kind |-> "leaderless"])
  <2>1. \A s \in Leader!Watched : ~leads[s]
    BY <1>0, <1>2, AllSeen
  <2>2. Leader!NoFalseAlarm' /\ Leader!OneLeaderSound' /\ Leader!TermsSound'
    BY <1>2, <2>1 DEF Leader!NoFalseAlarm, Leader!OneLeaderSound, Leader!TermsSound, Leader!Watched
  <2> QED
    BY <1>2, <2>2, ConcludeKeeps DEF Verdicts
<1> QED
  BY <1>1, <1>2 DEF Leader!checkNoLeader

LEMMA NextLeader ==
  ASSUME Peers \in Nat, MaxTerm \in Nat
  PROVE  LeaderInv /\ [Leader!Next]_(Leader!vars) => LeaderInv'
<1> SUFFICES ASSUME LeaderInv, [Leader!Next]_(Leader!vars) PROVE LeaderInv'
  OBVIOUS
<1>1. ASSUME NEW c \in {"oneLeader", "terms", "noLeader"}, Leader!Begin(c)
      PROVE  LeaderInv'
  BY <1>1, StartRoundKeeps DEF Leader!Begin, Verdicts, Leader!NoVerdict
<1>2. CASE Leader!LookAgain
  BY <1>2, StartRoundKeeps DEF Leader!LookAgain, LeaderInv, Types
<1>3. CASE UNCHANGED Leader!vars
  BY <1>3 DEF Leader!vars, LeaderInv, Types, SeenClaimed, SeenSteady, Leader!Claims, Leader!Watched,
              Leader!NoFalseAlarm, Leader!OneLeaderSound, Leader!TermsSound
<1> QED
  BY <1>1, <1>2, <1>3, ChangeKeeps, GetStateKeeps, OneLeaderKeeps, TermsKeep, NoLeaderKeeps
     DEF Leader!Next

\* In the composition that TLC runs the leader checks are sound for any number
\* of servers, terms and rounds.
THEOREM LeaderChecksSoundHolds ==
  Peers \in Nat /\ MaxTerm \in Nat => (EitherSpec => []LeaderChecksSound)
<1> SUFFICES ASSUME Peers \in Nat, MaxTerm \in Nat
             PROVE  EitherSpec => []LeaderChecksSound
  OBVIOUS
<1>1. EitherInit => LeaderInv
  BY InitLeader DEF EitherInit
<1>2. LeaderInv /\ [EitherNext]_<<part, vars, leaderVars>> => LeaderInv'
  <2>1. UNCHANGED leaderVars => UNCHANGED Leader!vars
    BY DEF leaderVars, Leader!vars
  <2>2. [EitherNext]_<<part, vars, leaderVars>> => [Leader!Next]_(Leader!vars)
    BY <2>1 DEF EitherNext
  <2> QED
    BY <2>2, NextLeader
<1>3. LeaderInv => LeaderChecksSound
  BY DEF LeaderInv, LeaderChecksSound
<1> QED
  BY <1>1, <1>2, <1>3, PTL DEF EitherSpec
=============================================================================

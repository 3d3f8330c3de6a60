---------------------------- MODULE ReaderProofs ----------------------------
(***************************************************************************)
(* Proofs about the reader of a node, for every chain, every capacity of   *)
(* the channels, every stop block and start block, and any number of       *)
(* launches, failures and restarts.                                        *)
(***************************************************************************)
EXTENDS Reader, TLAPS

-----------------------------------------------------------------------------
(* Types.                                                                  *)

Fields ==
  {"lines", "closed", "versioned", "pump", "line", "at", "on", "block", "blocks", "consumer"}

\* What a launch made, and what its goroutines hold: a block that waits to be
\* pushed is one.
LaunchOK(l) ==
  /\ DOMAIN l = Fields
  /\ l.lines \in Seq(0 .. MaxBlock) /\ Len(l.lines) =< LinesCap
  /\ l.blocks \in Seq(Blocks) /\ Len(l.blocks) =< BlocksCap
  /\ l.closed \in BOOLEAN /\ l.versioned \in BOOLEAN
  /\ l.pump \in {"off", "read", "line", "send"}
  /\ l.at \in {"off", "pick", "read", "push", "failed", "drain", "done"}
  /\ l.on \in Launches
  /\ l.line \in 0 .. MaxBlock /\ l.block \in 0 .. MaxBlock
  /\ l.at = "push" => l.block \in Blocks
  /\ l.consumer \in {"off", "wait", "hung", "done"}

\* Where Launch is under way, or has returned before the process is there.
Starting == {"lines", "reader", "create"}

\* No goroutine runs for a launch that is still to come.
Launched ==
  /\ DOMAIN launch = Launches
  /\ \A g \in Launches : LaunchOK(launch[g])
  /\ \A g \in Launches : g > gen => launch[g] = Unlaunched
  /\ op \in Starting => gen > 0

\* The other variables.
Plain ==
  /\ source \in Sources /\ stop \in Stops
  /\ proc \in {"none", "running", "stopping", "exited"}
  /\ printed \in 0 .. MaxBlock /\ stdout \in Seq(0 .. MaxBlock)
  /\ Len(stdout) =< StdoutCap
  /\ gen \in 0 .. MaxLaunches /\ ended \in 0 .. MaxLaunches
  /\ plugin \in {"up", "asked", "down"}
  /\ op \in {"launch", "lines", "reader", "create", "idle", "stopping"}
  /\ sup \in {"up", "stop", "stopping", "plugins", "closing", "done", "dead"}
  /\ lock \in {"free", "op", "sup"}
  /\ local \subseteq Blocks /\ remote \subseteq Blocks
  /\ kept \subseteq Blocks /\ skipped \subseteq Blocks /\ crossed \in BOOLEAN
  /\ from \in 1 .. MaxBlock + 1 /\ mark \in 0 .. MaxBlock
  /\ failures \in 0 .. MaxFailures /\ restarts \in 0 .. MaxRestarts

Types == Plain /\ Launched

\* A launch whose lines are not in the fields of the plugin is as it was made.
Starts == op = "lines" => launch[gen] = Fresh

\* A queue: its first element, the rest, and one more at its end.
LEMMA Queue ==
  ASSUME NEW S, NEW s \in Seq(S)
  PROVE  /\ Len(s) \in Nat
         /\ \A e \in S : Append(s, e) \in Seq(S) /\ Len(Append(s, e)) = Len(s) + 1
         /\ s # <<>> => Head(s) \in S /\ Tail(s) \in Seq(S)
              /\ Len(Tail(s)) \in Nat /\ Len(Tail(s)) = Len(s) - 1
OBVIOUS

\* An empty queue.
LEMMA EmptyQueue == ASSUME NEW S PROVE <<>> \in Seq(S) /\ Len(<<>>) = 0
OBVIOUS

\* What a launch holds before it, and when it is made.
LEMMA NewLaunch ==
  /\ LaunchOK(Unlaunched) /\ LaunchOK(Fresh)
  /\ Unlaunched.pump = "off" /\ Unlaunched.at = "off" /\ Unlaunched.consumer = "off"
  /\ Unlaunched.lines = <<>> /\ Unlaunched.blocks = <<>>
  /\ Fresh.pump = "off" /\ Fresh.at = "pick" /\ Fresh.consumer = "wait"
  /\ Fresh.lines = <<>> /\ Fresh.blocks = <<>> /\ ~Fresh.closed /\ ~Unlaunched.closed
  /\ ~Fresh.versioned
<1>1. \A S : <<>> \in Seq(S) /\ Len(<<>>) = 0
  BY EmptyQueue
<1>. QED BY <1>1, ReaderAssumption DEF LaunchOK, Unlaunched, Fresh, Fields, Launches, Blocks

\* The goroutines of one launch are launched, and the launch is there.
LEMMA Active ==
  ASSUME Types, NEW g \in Launches,
         launch[g].pump # "off" \/ launch[g].at # "off" \/ launch[g].consumer # "off"
  PROVE  gen \in Launches /\ g =< gen
BY NewLaunch DEF Types, Plain, Launched, Launches

\* A step of one launch: the others stay as they are.
LEMMA OneLaunch ==
  ASSUME Types, NEW g \in Launches, g =< gen, gen' = gen, op' \in Starting => op \in Starting,
         DOMAIN launch' = Launches, \A h \in Launches : h # g => launch'[h] = launch[h],
         LaunchOK(launch'[g])
  PROVE  Launched'
BY DEF Types, Launched, Plain, Launches

\* The step of a launch that takes a line from the channel of another.
LEMMA TwoLaunches ==
  ASSUME Types, NEW g \in Launches, NEW r \in Launches, g =< gen, r =< gen,
         gen' = gen, op' \in Starting => op \in Starting, DOMAIN launch' = Launches,
         \A h \in Launches : h # g /\ h # r => launch'[h] = launch[h],
         LaunchOK(launch'[g]), LaunchOK(launch'[r])
  PROVE  Launched'
BY DEF Types, Launched, Plain, Launches

\* Taking the head of a queue that has one.
LEMMA Shorter ==
  ASSUME NEW S, NEW c \in Nat, NEW q \in Seq(S), Len(q) =< c, q # <<>>
  PROVE  Head(q) \in S /\ Tail(q) \in Seq(S) /\ Len(Tail(q)) =< c
BY Queue

\* A queue of one element.
LEMMA Single == ASSUME NEW S, NEW e \in S PROVE <<e>> \in Seq(S) /\ Len(<<e>>) = 1
OBVIOUS

\* The bound on failures holds.
LEMMA FailureCounted ==
  ASSUME Plain, MayFail PROVE failures' \in 0 .. MaxFailures
BY ReaderAssumption DEF Plain, MayFail

\* What a launch that has lines, or blocks, has at their heads.
LEMMA Heads ==
  ASSUME NEW l, LaunchOK(l)
  PROVE  /\ l.lines # <<>> =>
              /\ Head(l.lines) \in 0 .. MaxBlock /\ Tail(l.lines) \in Seq(0 .. MaxBlock)
              /\ Len(Tail(l.lines)) =< LinesCap
         /\ l.blocks # <<>> =>
              /\ Head(l.blocks) \in Blocks /\ Tail(l.blocks) \in Seq(Blocks)
              /\ Len(Tail(l.blocks)) =< BlocksCap
BY Shorter, ReaderAssumption DEF LaunchOK

\* The loop of a launch takes a line, and goes on with it.
LEMMA NextBlock ==
  ASSUME NEW l, LaunchOK(l), NEW n \in 0 .. MaxBlock, NEW k \in {"read", "pick", "push"},
         k = "push" => n \in Blocks
  PROVE  LaunchOK([l EXCEPT !.block = n, !.at = k])
<1>. DEFINE m == [l EXCEPT !.block = n, !.at = k]
<1>1. DOMAIN m = Fields /\ m.block = n /\ m.at = k
      /\ m.lines = l.lines /\ m.blocks = l.blocks /\ m.closed = l.closed /\ m.pump = l.pump
      /\ m.versioned = l.versioned /\ m.on = l.on /\ m.line = l.line
      /\ m.consumer = l.consumer
  BY DEF LaunchOK, Fields
<1>. HIDE DEF m
<1>2. LaunchOK(m)
  BY <1>1 DEF LaunchOK
<1>. QED BY <1>2 DEF m

\* The lines of a launch are others, and its reader may have read the announce.
LEMMA NextLines ==
  ASSUME NEW l, LaunchOK(l), NEW t \in Seq(0 .. MaxBlock), Len(t) =< LinesCap
  PROVE  /\ LaunchOK([l EXCEPT !.lines = t])
         /\ LaunchOK([l EXCEPT !.lines = t, !.versioned = TRUE])
BY DEF LaunchOK, Fields

\* A restart of the node, or its crash, forgets every launch.
LEMMA Forgotten ==
  ASSUME Forget PROVE Launched'
BY NewLaunch DEF Forget, Launched, Starting

\* The launch whose channel the fields hold: there is none before the first one.
LEMMA LinesThere ==
  ASSUME Types, Starts
  PROVE  /\ LinesOf \in 0 .. gen /\ ReaderOf \in 0 .. gen
         /\ \A g \in Launches :
              launch[g].pump \in {"line", "send"} \/ launch[g].at \notin {"off", "pick"} =>
                /\ gen \in Launches /\ g =< gen
                /\ LinesOf \in Launches /\ LinesOf =< gen
<1>1. gen \in Nat /\ (op \in Starting => gen > 0)
  BY ReaderAssumption DEF Types, Plain, Launched
<1>2. LinesOf \in 0 .. gen /\ ReaderOf \in 0 .. gen
  BY <1>1 DEF LinesOf, ReaderOf, Starting
<1>3. ASSUME NEW g \in Launches,
             launch[g].pump \in {"line", "send"} \/ launch[g].at \notin {"off", "pick"}
      PROVE  /\ gen \in Launches /\ g =< gen
             /\ LinesOf \in Launches /\ LinesOf =< gen
  <2>1. gen \in Launches /\ g =< gen
    BY <1>3, Active
  <2>2. CASE op = "lines"
    <3>1. g # gen
      BY <1>3, <2>2, NewLaunch DEF Starts
    <3>. QED BY <2>1, <2>2, <3>1, ReaderAssumption DEF LinesOf, Launches
  <2>3. CASE op # "lines"
    BY <2>1, <2>3 DEF LinesOf, Launches
  <2>. QED BY <2>1, <2>2, <2>3
<1>. QED BY <1>2, <1>3

\* The first state.
LEMMA TypesInit == Init => Types
<1>1. \A S : <<>> \in Seq(S) /\ Len(<<>>) = 0
  BY EmptyQueue
<1>2. Init => Launched
  BY NewLaunch DEF Init, Launched, Starting
<1>3. /\ \A m \in Nat : 0 \in 0 .. m
      /\ 1 \in 1 .. MaxBlock + 1 /\ MaxBlock \in Nat /\ StdoutCap >= 0
      /\ MaxLaunches \in Nat /\ MaxFailures \in Nat /\ MaxRestarts \in Nat
  BY ReaderAssumption
<1>4. Init => Plain
  BY <1>1, <1>3 DEF Init, Plain
<1>. QED BY <1>2, <1>4 DEF Types

\* One step of the node, action by action.
LEMMA TypesStep == Types /\ Starts /\ [Next]_vars => Types'
<1>. SUFFICES ASSUME Types, Starts, [Next]_vars PROVE Types'
  OBVIOUS
<1>. USE DEF setup, node, control, files, history
<1>1. CASE Launch
  <2>1. Plain'
    BY <1>1, ReaderAssumption DEF Launch, Types, Plain
  <2>2. gen \in 0 .. MaxLaunches /\ launch' = [launch EXCEPT ![gen + 1] = Fresh]
        /\ gen' = gen + 1 /\ gen < MaxLaunches
    BY <1>1 DEF Launch, Types, Plain
  <2>3. Launched'
    BY <2>2, NewLaunch, ReaderAssumption DEF Types, Launched, Launches
  <2>. QED BY <2>1, <2>3 DEF Types
<1>2. CASE Create
  <2>1. Plain'
    <3>1. stdout' = <<Init_>> /\ Init_ \in 0 .. MaxBlock
      BY <1>2, ReaderAssumption DEF Create, Init_
    <3>2. stdout' \in Seq(0 .. MaxBlock) /\ Len(stdout') = 1
      BY <3>1, Single
    <3>3. Len(stdout') =< StdoutCap /\ proc' = "running" /\ op' = "idle"
          /\ UNCHANGED <<setup, printed, gen, plugin, sup, lock, ended, files, history,
                         failures, restarts>>
      BY <1>2, <3>2, ReaderAssumption DEF Create
    <3>. QED BY <3>2, <3>3 DEF Types, Plain
  <2>2. gen \in Launches /\ launch' = [launch EXCEPT ![gen].pump = "read"] /\ gen' = gen
        /\ op' = "idle"
    BY <1>2 DEF Create, Types, Plain, Launched, Launches, Starting
  <2>3. LaunchOK(launch'[gen])
    BY <2>2 DEF Types, Launched, LaunchOK, Fields
  <2>4. Launched'
    BY <2>2, <2>3, OneLaunch DEF Types, Launched, Plain, Launches, Starting
  <2>. QED BY <2>1, <2>4 DEF Types
<1>3. CASE PrintBlock
  BY <1>3, Queue, ReaderAssumption DEF PrintBlock, Types, Plain, Launched
<1>4. CASE ProcessExits
  BY <1>4, ReaderAssumption DEF ProcessExits, MayFail, Types, Plain, Launched
<1>5. CASE ProcessStopped
  BY <1>5 DEF ProcessStopped, Types, Plain, Launched
<1>6. CASE Reload
  BY <1>6 DEF Reload, Types, Plain, Launched, Starting
<1>7. CASE ReloadStopped
  BY <1>7 DEF ReloadStopped, Drained, Types, Plain, Launched, Starting
<1>8. CASE TakeLine
  <2>1. gen \in Launches /\ stdout # <<>> /\ gen' = gen /\ op' = op /\ stdout' = Tail(stdout)
        /\ launch' = [launch EXCEPT ![gen].pump = "line", ![gen].line = Head(stdout)]
    BY <1>8 DEF TakeLine, Types, Plain, Launches
  <2>2. Head(stdout) \in 0 .. MaxBlock /\ stdout' \in Seq(0 .. MaxBlock)
        /\ Len(stdout') =< StdoutCap
    BY <2>1, Shorter, ReaderAssumption DEF Types, Plain
  <2>3. Plain'
    BY <1>8, <2>2 DEF TakeLine, Types, Plain
  <2>4. LaunchOK(launch'[gen])
    BY <2>1, <2>2 DEF Types, Launched, LaunchOK, Fields
  <2>5. Launched'
    BY <2>1, <2>4, OneLaunch DEF Types, Launched, Plain, Launches
  <2>. QED BY <2>3, <2>5 DEF Types
<1>9. ASSUME NEW g \in Launches, LogLine(g) PROVE Types'
  <2>1. gen \in Launches /\ g =< gen
    BY <1>9, Active DEF LogLine
  <2>2. DOMAIN launch' = Launches /\ gen' = gen /\ op' = op
        /\ \A h \in Launches : h # g => launch'[h] = launch[h]
    BY <1>9 DEF LogLine, Types, Launched
  <2>3. LaunchOK(launch[g]) /\ DOMAIN launch = Launches
    BY DEF Types, Launched
  <2>4. LaunchOK(launch'[g])
    BY <1>9, <2>1, <2>3 DEF LogLine, LaunchOK, Fields
  <2>5. Launched'
    BY <2>1, <2>2, <2>4, OneLaunch
  <2>6. Plain'
    BY <1>9, <2>3 DEF LogLine, Types, Plain
  <2>. QED BY <2>5, <2>6 DEF Types
<1>10. ASSUME NEW g \in Launches, PickReader(g) PROVE Types'
  <2>1. gen \in Launches /\ g =< gen /\ ReaderOf \in Launches
    <3>1. gen \in Launches /\ g =< gen /\ g =< ReaderOf /\ ReaderOf \in 0 .. gen
      BY <1>10, Active, LinesThere DEF PickReader
    <3>. QED BY <3>1, ReaderAssumption DEF Launches
  <2>2. DOMAIN launch' = Launches /\ gen' = gen /\ op' = op
        /\ \A h \in Launches : h # g => launch'[h] = launch[h]
    BY <1>10 DEF PickReader, Types, Launched
  <2>3. LaunchOK(launch[g]) /\ DOMAIN launch = Launches
    BY DEF Types, Launched
  <2>4. LaunchOK(launch'[g])
    BY <1>10, <2>1, <2>3 DEF PickReader, LaunchOK, Fields
  <2>5. Launched'
    BY <2>1, <2>2, <2>4, OneLaunch
  <2>6. Plain'
    BY <1>10, <2>3 DEF PickReader, Types, Plain
  <2>. QED BY <2>5, <2>6 DEF Types
<1>11. ASSUME NEW g \in Launches, FailedLoop(g) PROVE Types'
  <2>1. gen \in Launches /\ g =< gen /\ LinesOf \in Launches
    BY <1>11, LinesThere DEF FailedLoop
  <2>2. DOMAIN launch' = Launches /\ gen' = gen /\ op' = op
        /\ \A h \in Launches : h # g => launch'[h] = launch[h]
    BY <1>11 DEF FailedLoop, Types, Launched
  <2>3. LaunchOK(launch[g]) /\ DOMAIN launch = Launches
    BY DEF Types, Launched
  <2>4. LaunchOK(launch'[g])
    BY <1>11, <2>1, <2>3 DEF FailedLoop, LaunchOK, Fields
  <2>5. Launched'
    BY <2>1, <2>2, <2>4, OneLaunch
  <2>6. Plain'
    BY <1>11, <2>3 DEF FailedLoop, Types, Plain
  <2>. QED BY <2>5, <2>6 DEF Types
<1>12. ASSUME NEW g \in Launches, LinesEnd(g) PROVE Types'
  <2>1. gen \in Launches /\ g =< gen
    BY <1>12, Active DEF LinesEnd
  <2>2. DOMAIN launch' = Launches /\ gen' = gen /\ op' = op
        /\ \A h \in Launches : h # g => launch'[h] = launch[h]
    BY <1>12 DEF LinesEnd, Types, Launched
  <2>3. LaunchOK(launch[g]) /\ DOMAIN launch = Launches
    BY DEF Types, Launched
  <2>4. LaunchOK(launch'[g])
    BY <1>12, <2>1, <2>3 DEF LinesEnd, LaunchOK, Fields
  <2>5. Launched'
    BY <2>1, <2>2, <2>4, OneLaunch
  <2>6. Plain'
    BY <1>12, <2>3 DEF LinesEnd, Types, Plain
  <2>. QED BY <2>5, <2>6 DEF Types
<1>13. ASSUME NEW g \in Launches, PushBlock(g) PROVE Types'
  <2>1. gen \in Launches /\ g =< gen
    BY <1>13, Active DEF PushBlock
  <2>2. DOMAIN launch' = Launches /\ gen' = gen /\ op' = op
        /\ \A h \in Launches : h # g => launch'[h] = launch[h]
    BY <1>13 DEF PushBlock, Types, Launched
  <2>3. LaunchOK(launch[g]) /\ DOMAIN launch = Launches
    BY DEF Types, Launched
  <2>4. LaunchOK(launch'[g])
    <3>1. PICK q : q = Append(launch[g].blocks, launch[g].block)
      OBVIOUS
    <3>2. launch'[g] = [launch[g] EXCEPT !.blocks = q, !.block = 0, !.at = "pick"]
      <4>1. launch' = [launch EXCEPT ![g].blocks = q, ![g].block = 0, ![g].at = "pick"]
        BY <1>13, <2>3, <3>1 DEF PushBlock
      <4>. QED BY <2>3, <4>1
    <3>3. q \in Seq(Blocks) /\ Len(q) =< BlocksCap
      <4>1. /\ launch[g].block \in Blocks /\ launch[g].blocks \in Seq(Blocks)
            /\ Len(launch[g].blocks) < BlocksCap
        BY <1>13, <2>3 DEF PushBlock, LaunchOK
      <4>2. /\ q \in Seq(Blocks) /\ Len(q) = Len(launch[g].blocks) + 1
            /\ Len(launch[g].blocks) \in Nat
        BY <3>1, <4>1, Queue
      <4>. QED BY <4>1, <4>2, ReaderAssumption
    <3>4. 0 \in 0 .. MaxBlock
      BY ReaderAssumption
    <3>. QED BY <2>3, <3>2, <3>3, <3>4 DEF LaunchOK, Fields
  <2>5. Launched'
    BY <2>1, <2>2, <2>4, OneLaunch
  <2>6. Plain'
    BY <1>13 DEF PushBlock, Types, Plain, Ask
  <2>. QED BY <2>5, <2>6 DEF Types
<1>14. ASSUME NEW g \in Launches, StoreBlock(g) PROVE Types'
  <2>1. gen \in Launches /\ g =< gen
    BY <1>14, Active DEF StoreBlock, TakeBlock
  <2>2. DOMAIN launch' = Launches /\ gen' = gen /\ op' = op
        /\ \A h \in Launches : h # g => launch'[h] = launch[h]
    BY <1>14 DEF StoreBlock, TakeBlock, Types, Launched
  <2>3. LaunchOK(launch[g]) /\ DOMAIN launch = Launches
    BY DEF Types, Launched
  <2>4. LaunchOK(launch'[g])
    BY <1>14, <2>1, <2>3, Heads DEF StoreBlock, TakeBlock, LaunchOK, Fields
  <2>5. Launched'
    BY <2>1, <2>2, <2>4, OneLaunch
  <2>6. Plain'
    BY <1>14, <2>3, Heads DEF StoreBlock, TakeBlock, Types, Plain
  <2>. QED BY <2>5, <2>6 DEF Types
<1>15. ASSUME NEW g \in Launches, BlocksEnd(g) PROVE Types'
  <2>1. gen \in Launches /\ g =< gen
    BY <1>15, Active DEF BlocksEnd
  <2>2. DOMAIN launch' = Launches /\ gen' = gen /\ op' = op
        /\ \A h \in Launches : h # g => launch'[h] = launch[h]
    BY <1>15 DEF BlocksEnd, Types, Launched
  <2>3. LaunchOK(launch[g]) /\ DOMAIN launch = Launches
    BY DEF Types, Launched
  <2>4. LaunchOK(launch'[g])
    BY <1>15, <2>1, <2>3 DEF BlocksEnd, LaunchOK, Fields
  <2>5. Launched'
    BY <2>1, <2>2, <2>4, OneLaunch
  <2>6. Plain'
    BY <1>15, <2>3 DEF BlocksEnd, Types, Plain
  <2>. QED BY <2>5, <2>6 DEF Types
<1>16. ASSUME NEW g \in Launches, StoreFails(g) PROVE Types'
  <2>1. gen \in Launches /\ g =< gen
    BY <1>16, Active DEF StoreFails, TakeBlock
  <2>2. DOMAIN launch' = Launches /\ gen' = gen /\ op' = op
        /\ \A h \in Launches : h # g => launch'[h] = launch[h]
    BY <1>16 DEF StoreFails, TakeBlock, Types, Launched
  <2>3. LaunchOK(launch[g]) /\ DOMAIN launch = Launches
    BY DEF Types, Launched
  <2>4. LaunchOK(launch'[g])
    BY <1>16, <2>1, <2>3, Heads, FailureCounted DEF StoreFails, TakeBlock, LaunchOK, Fields
  <2>5. Launched'
    BY <2>1, <2>2, <2>4, OneLaunch
  <2>6. Plain'
    <3>1. Head(launch[g].blocks) \in Blocks
      BY <1>16, <2>3, Heads DEF StoreFails, TakeBlock
    <3>2. failures' \in 0 .. MaxFailures
      BY <1>16, FailureCounted DEF StoreFails, Types
    <3>. QED BY <1>16, <3>1, <3>2 DEF StoreFails, Types, Plain, Ask
  <2>. QED BY <2>5, <2>6 DEF Types
<1>17. ASSUME NEW g \in Launches, StoreHangs(g) PROVE Types'
  <2>1. gen \in Launches /\ g =< gen
    BY <1>17, Active DEF StoreHangs
  <2>2. DOMAIN launch' = Launches /\ gen' = gen /\ op' = op
        /\ \A h \in Launches : h # g => launch'[h] = launch[h]
    BY <1>17 DEF StoreHangs, Types, Launched
  <2>3. LaunchOK(launch[g]) /\ DOMAIN launch = Launches
    BY DEF Types, Launched
  <2>4. LaunchOK(launch'[g])
    BY <1>17, <2>1, <2>3, Heads, FailureCounted DEF StoreHangs, LaunchOK, Fields
  <2>5. Launched'
    BY <2>1, <2>2, <2>4, OneLaunch
  <2>6. Plain'
    BY <1>17, <2>3, Heads, FailureCounted DEF StoreHangs, Types, Plain
  <2>. QED BY <2>5, <2>6 DEF Types
<1>18. ASSUME NEW g \in Launches, ReadLine(g) PROVE Types'
  <2>1. PICK r \in Launches : r = launch[g].on /\ LaunchOK(launch[r]) /\ LaunchOK(launch[g])
    BY DEF Types, Launched, LaunchOK
  <2>2. gen \in Launches /\ g =< gen /\ r =< gen
    <3>1. launch[g].at # "off" /\ launch[r].lines # <<>>
      BY <1>18, <2>1 DEF ReadLine
    <3>. QED BY <3>1, Active, NewLaunch DEF Types, Launched, Plain, Launches
  <2>3. DOMAIN launch' = Launches /\ gen' = gen /\ op' = op
        /\ \A h \in Launches : h # g /\ h # r => launch'[h] = launch[h]
    BY <1>18, <2>1 DEF ReadLine, Types, Launched
  <2>4. Head(launch[r].lines) \in 0 .. MaxBlock
        /\ Tail(launch[r].lines) \in Seq(0 .. MaxBlock)
        /\ Len(Tail(launch[r].lines)) =< LinesCap
    BY <1>18, <2>1, Heads DEF ReadLine
  <2>5. PICK n, k, t :
          /\ t = Tail(launch[r].lines)
          /\ n \in 0 .. MaxBlock /\ k \in {"read", "pick", "push"}
          /\ k = "push" => n \in Blocks
          /\ launch' = [launch EXCEPT ![r].lines = t, ![r].versioned = TRUE,
                                     ![g].block = n, ![g].at = k]
    <3>. DEFINE line == Head(launch[r].lines)
                n == IF line < FirstStreamable THEN 0 ELSE line
                k == IF line = Init_ THEN "read"
                     ELSE IF line < FirstStreamable THEN "pick" ELSE "push"
    <3>1. n \in 0 .. MaxBlock /\ k \in {"read", "pick", "push"}
          /\ (k = "push" => n \in Blocks)
      BY <2>4, ReaderAssumption DEF Blocks, Init_
    <3>2. launch' = [launch EXCEPT ![r].lines = Tail(launch[r].lines), ![r].versioned = TRUE,
                                   ![g].block = n, ![g].at = k]
      BY <1>18, <2>1 DEF ReadLine, Types, Launched
    <3>. QED BY <3>1, <3>2
  <2>6. LaunchOK(launch'[r]) /\ LaunchOK(launch'[g])
    <3>1. /\ n \in 0 .. MaxBlock /\ k \in {"read", "pick", "push"}
          /\ k = "push" => n \in Blocks
          /\ t \in Seq(0 .. MaxBlock) /\ Len(t) =< LinesCap
      BY <2>4, <2>5
    <3>2. CASE r = g
      <4>. DEFINE l == [launch[g] EXCEPT !.lines = t, !.versioned = TRUE]
      <4>1. launch'[g] = [l EXCEPT !.block = n, !.at = k]
        BY <3>2, <2>1, <2>5 DEF Types, Launched, LaunchOK, Fields
      <4>2. LaunchOK(l)
        BY <2>1, <3>1, NextLines
      <4>. HIDE DEF l
      <4>3. LaunchOK([l EXCEPT !.block = n, !.at = k])
        BY <3>1, <4>2, NextBlock
      <4>. QED BY <3>2, <4>1, <4>3
    <3>3. CASE r # g
      <4>1. launch'[g] = [launch[g] EXCEPT !.block = n, !.at = k]
            /\ launch'[r] = [launch[r] EXCEPT !.lines = t, !.versioned = TRUE]
        BY <3>3, <2>1, <2>5 DEF Types, Launched
      <4>2. LaunchOK([launch[g] EXCEPT !.block = n, !.at = k])
        BY <3>1, <2>1, NextBlock
      <4>3. LaunchOK([launch[r] EXCEPT !.lines = t, !.versioned = TRUE])
        BY <3>1, <2>1, NextLines
      <4>. QED BY <4>1, <4>2, <4>3
    <3>. QED BY <3>2, <3>3
  <2>7. LaunchOK(launch'[g])
    BY <2>6
  <2>8. Launched'
    BY <2>2, <2>3, <2>6, <2>7, TwoLaunches
  <2>9. Plain'
    BY <1>18 DEF ReadLine, Types, Plain
  <2>. QED BY <2>8, <2>9 DEF Types
<1>19. ASSUME NEW g \in Launches, ReadFails(g) PROVE Types'
  <2>1. PICK r \in Launches : r = launch[g].on /\ LaunchOK(launch[r]) /\ LaunchOK(launch[g])
    BY DEF Types, Launched, LaunchOK
  <2>2. gen \in Launches /\ g =< gen /\ r =< gen
    <3>1. launch[g].at # "off" /\ launch[r].lines # <<>>
      BY <1>19, <2>1 DEF ReadFails
    <3>. QED BY <3>1, Active, NewLaunch DEF Types, Launched, Plain, Launches
  <2>3. DOMAIN launch' = Launches /\ gen' = gen /\ op' = op
        /\ \A h \in Launches : h # g /\ h # r => launch'[h] = launch[h]
    BY <1>19, <2>1 DEF ReadFails, Types, Launched
  <2>4. Head(launch[r].lines) \in 0 .. MaxBlock
        /\ Tail(launch[r].lines) \in Seq(0 .. MaxBlock)
        /\ Len(Tail(launch[r].lines)) =< LinesCap
    BY <1>19, <2>1, Heads DEF ReadFails
  <2>5. LaunchOK(launch'[r])
    BY <1>19, <2>1, <2>4 DEF ReadFails, Types, Launched, LaunchOK, Fields
  <2>6. LaunchOK(launch'[g])
    BY <1>19, <2>1, <2>4 DEF ReadFails, Types, Launched, LaunchOK, Fields
  <2>7. Launched'
    BY <2>2, <2>3, <2>5, <2>6, TwoLaunches
  <2>8. Plain'
    BY <1>19, FailureCounted DEF ReadFails, Types, Plain
  <2>. QED BY <2>7, <2>8 DEF Types
<1>20. ASSUME NEW g \in Launches, DrainLine(g) PROVE Types'
  <2>1. PICK r \in Launches : r = launch[g].on /\ LaunchOK(launch[r]) /\ LaunchOK(launch[g])
    BY DEF Types, Launched, LaunchOK
  <2>2. gen \in Launches /\ g =< gen /\ r =< gen
    <3>1. launch[g].at # "off" /\ launch[r].lines # <<>>
      BY <1>20, <2>1 DEF DrainLine
    <3>. QED BY <3>1, Active, NewLaunch DEF Types, Launched, Plain, Launches
  <2>3. DOMAIN launch' = Launches /\ gen' = gen /\ op' = op
        /\ \A h \in Launches : h # g /\ h # r => launch'[h] = launch[h]
    BY <1>20, <2>1 DEF DrainLine, Types, Launched
  <2>4. Head(launch[r].lines) \in 0 .. MaxBlock
        /\ Tail(launch[r].lines) \in Seq(0 .. MaxBlock)
        /\ Len(Tail(launch[r].lines)) =< LinesCap
    BY <1>20, <2>1, Heads DEF DrainLine
  <2>5. LaunchOK(launch'[r])
    BY <1>20, <2>1, <2>4 DEF DrainLine, Types, Launched, LaunchOK, Fields
  <2>6. LaunchOK(launch'[g])
    BY <1>20, <2>1, <2>4 DEF DrainLine, Types, Launched, LaunchOK, Fields
  <2>7. Launched'
    BY <2>2, <2>3, <2>5, <2>6, TwoLaunches
  <2>8. Plain'
    BY <1>20 DEF DrainLine, Types, Plain
  <2>. QED BY <2>7, <2>8 DEF Types
<1>21. ASSUME NEW g \in Launches, SendLine(g) PROVE Types'
  <2>1. PICK r \in Launches : r = LinesOf /\ gen \in Launches /\ g =< gen /\ r =< gen
    BY <1>21, LinesThere DEF SendLine
  <2>2. LaunchOK(launch[g]) /\ LaunchOK(launch[r])
    BY <2>1 DEF Types, Launched
  <2>3. /\ Append(launch[r].lines, launch[g].line) \in Seq(0 .. MaxBlock)
        /\ Len(Append(launch[r].lines, launch[g].line)) =< LinesCap
    BY <1>21, <2>1, <2>2, Queue, ReaderAssumption DEF SendLine, LaunchOK
  <2>4. DOMAIN launch' = Launches /\ gen' = gen /\ op' = op
        /\ \A h \in Launches : h # g /\ h # r => launch'[h] = launch[h]
    BY <1>21, <2>1 DEF SendLine, Types, Launched
  <2>5. PICK q : q = Append(launch[r].lines, launch[g].line)
    OBVIOUS
  <2>6. launch' = [launch EXCEPT ![r].lines = q, ![g].pump = "read", ![g].line = 0]
    BY <1>21, <2>1, <2>5 DEF SendLine, Types, Launched
  <2>7. LaunchOK(launch'[r]) /\ LaunchOK(launch'[g])
    <3>1. 0 \in 0 .. MaxBlock
      BY ReaderAssumption
    <3>2. CASE r = g
      <4>1. launch'[g] = [launch[g] EXCEPT !.lines = q, !.pump = "read", !.line = 0]
        BY <3>2, <2>1, <2>6 DEF Types, Launched
      <4>2. LaunchOK(launch'[g])
        BY <4>1, <3>1, <3>2, <2>2, <2>3, <2>5 DEF LaunchOK, Fields
      <4>. QED BY <3>2, <4>2
    <3>3. CASE r # g
      <4>1. launch'[g] = [launch[g] EXCEPT !.pump = "read", !.line = 0]
            /\ launch'[r] = [launch[r] EXCEPT !.lines = q]
        BY <3>3, <2>1, <2>6 DEF Types, Launched
      <4>2. LaunchOK(launch'[g])
        BY <4>1, <3>1, <2>2 DEF LaunchOK, Fields
      <4>3. LaunchOK(launch'[r])
        BY <4>1, <2>2, <2>3, <2>5 DEF LaunchOK, Fields
      <4>. QED BY <4>2, <4>3
    <3>. QED BY <3>2, <3>3
  <2>8. LaunchOK(launch'[g])
    BY <2>7
  <2>9. Launched'
    BY <2>1, <2>4, <2>7, <2>8, TwoLaunches DEF Types, Plain, Launches
  <2>10. Plain'
    BY <1>21 DEF SendLine, Types, Plain
  <2>. QED BY <2>9, <2>10 DEF Types
<1>22. ASSUME NEW b \in Blocks, UploadFile(b) PROVE Types'
  BY <1>22 DEF UploadFile, Types, Plain, Launched
<1>23. ASSUME NEW b \in Blocks, RemoveFile(b) PROVE Types'
  BY <1>23 DEF RemoveFile, Types, Plain, Launched
<1>24. CASE PluginTerminates
  BY <1>24 DEF PluginTerminates, Types, Plain, Launched
<1>25. CASE AskShutdown
  BY <1>25 DEF AskShutdown, Types, Plain, Launched
<1>26. CASE SuperviserAsked
  BY <1>26 DEF SuperviserAsked, Types, Plain, Launched
<1>27. CASE SuperviserStops
  BY <1>27 DEF SuperviserStops, Types, Plain, Launched
<1>28. CASE SuperviserStopped
  BY <1>28 DEF SuperviserStopped, Drained, Types, Plain, Launched
<1>29. CASE ReadFlowDone
  BY <1>29 DEF ReadFlowDone, Types, Plain, Launched
<1>30. CASE StdinEnds
  BY <1>30 DEF StdinEnds, Types, Plain, Launched
<1>31. CASE StdinTerminates
  BY <1>31 DEF StdinTerminates, Types, Plain, Launched
<1>32. CASE EndLogPlugins
  <2>1. Plain'
    BY <1>32 DEF EndLogPlugins, Types, Plain
  <2>2. CASE LinesOf = 0
    BY <1>32, <2>1, <2>2 DEF EndLogPlugins, Types, Launched
  <2>3. CASE LinesOf # 0
    <3>1. PICK r \in Launches : r = LinesOf /\ r =< gen
      BY <2>3, LinesThere, ReaderAssumption DEF Types, Plain, Launches
    <3>2. gen' = gen /\ op' = op /\ launch' = [launch EXCEPT ![r].closed = TRUE]
      BY <1>32, <2>3, <3>1 DEF EndLogPlugins
    <3>3. LaunchOK(launch'[r])
      BY <3>2 DEF Types, Launched, LaunchOK, Fields
    <3>4. DOMAIN launch' = Launches /\ \A h \in Launches : h # r => launch'[h] = launch[h]
      BY <3>2 DEF Types, Launched
    <3>5. Launched'
      BY <3>1, <3>2, <3>3, <3>4, OneLaunch
    <3>. QED BY <2>1, <3>5 DEF Types
  <2>. QED BY <2>2, <2>3
<1>33. CASE Crash
  <2>1. Launched'
    BY <1>33, Forgotten DEF Crash
  <2>2. Plain'
    <3>1. /\ UNCHANGED <<source, stop, local, remote, failures, printed, from, restarts>>
          /\ proc' = "none" /\ stdout' = <<>> /\ gen' = 0 /\ plugin' = "up" /\ op' = "launch"
          /\ lock' = "free" /\ ended' = 0 /\ kept' = {} /\ skipped' = {} /\ mark' = 0
          /\ sup' = "dead" /\ crossed' = FALSE
      BY <1>33 DEF Crash, Forget
    <3>2. stdout' \in Seq(0 .. MaxBlock) /\ Len(stdout') =< StdoutCap
      BY <3>1, EmptyQueue, ReaderAssumption
    <3>3. 0 \in 0 .. MaxBlock /\ 0 \in 0 .. MaxLaunches
      BY ReaderAssumption
    <3>. QED BY <3>1, <3>2, <3>3 DEF Types, Plain
  <2>. QED BY <2>1, <2>2 DEF Types
<1>34. CASE Restart
  <2>1. Launched'
    BY <1>34, Forgotten DEF Restart
  <2>2. printed' \in 0 .. MaxBlock /\ from' \in 1 .. MaxBlock + 1
    <3>1. PICK p \in 0 .. printed : printed' = p /\ from' = p + 1
      BY <1>34 DEF Restart
    <3>2. printed \in 0 .. MaxBlock
      BY DEF Types, Plain
    <3>3. p \in Nat /\ p =< MaxBlock
      BY <3>2, ReaderAssumption
    <3>. QED BY <3>1, <3>3, ReaderAssumption
  <2>3. restarts' \in 0 .. MaxRestarts
    BY <1>34, ReaderAssumption DEF Restart, Types, Plain
  <2>4. Plain'
    <3>1. /\ UNCHANGED <<source, stop, local, remote, failures>>
          /\ proc' = "none" /\ stdout' = <<>> /\ gen' = 0 /\ plugin' = "up" /\ op' = "launch"
          /\ lock' = "free" /\ ended' = 0 /\ kept' = {} /\ skipped' = {} /\ mark' = 0
          /\ sup' = "up" /\ crossed' = FALSE
      BY <1>34 DEF Restart, Forget
    <3>2. stdout' \in Seq(0 .. MaxBlock) /\ Len(stdout') =< StdoutCap
      BY <3>1, EmptyQueue, ReaderAssumption
    <3>3. 0 \in Nat /\ 0 =< MaxLaunches /\ 0 \in 0 .. MaxBlock /\ 0 \in 0 .. MaxLaunches
      BY ReaderAssumption
    <3>. QED BY <3>1, <3>2, <3>3, <2>2, <2>3 DEF Types, Plain
  <2>. QED BY <2>1, <2>4 DEF Types
<1>35. CASE UNCHANGED vars
  BY <1>35 DEF vars, Types, Plain, Launched
<1>36. CASE LaunchLines \/ LaunchReader
  BY <1>36 DEF LaunchLines, LaunchReader, Types, Plain, Launched, Starting
<1>37. ASSUME NEW g \in Launches, ReadTooEarly(g) PROVE Types'
  <2>1. PICK r \in Launches : r = launch[g].on /\ LaunchOK(launch[r]) /\ LaunchOK(launch[g])
    BY DEF Types, Launched, LaunchOK
  <2>2. gen \in Launches /\ g =< gen /\ r =< gen
    <3>1. launch[g].at # "off" /\ launch[r].lines # <<>>
      BY <1>37, <2>1 DEF ReadTooEarly
    <3>. QED BY <3>1, Active, NewLaunch DEF Types, Launched, Plain, Launches
  <2>3. DOMAIN launch' = Launches /\ gen' = gen /\ op' = op
        /\ \A h \in Launches : h # g /\ h # r => launch'[h] = launch[h]
    BY <1>37, <2>1 DEF ReadTooEarly, Types, Launched
  <2>4. Tail(launch[r].lines) \in Seq(0 .. MaxBlock)
        /\ Len(Tail(launch[r].lines)) =< LinesCap
    BY <1>37, <2>1, Heads DEF ReadTooEarly
  <2>5. LaunchOK(launch'[r])
    BY <1>37, <2>1, <2>4 DEF ReadTooEarly, Types, Launched, LaunchOK, Fields
  <2>6. LaunchOK(launch'[g])
    BY <1>37, <2>1, <2>4 DEF ReadTooEarly, Types, Launched, LaunchOK, Fields
  <2>7. Launched'
    BY <2>2, <2>3, <2>5, <2>6, TwoLaunches
  <2>8. Plain'
    BY <1>37 DEF ReadTooEarly, Types, Plain
  <2>. QED BY <2>7, <2>8 DEF Types
<1>. QED
  BY <1>1, <1>2, <1>3, <1>4, <1>5, <1>6, <1>7, <1>8, <1>9, <1>10, <1>11, <1>12, <1>13,
     <1>14, <1>15, <1>16, <1>17, <1>18, <1>19, <1>20, <1>21, <1>22, <1>23, <1>24, <1>25,
     <1>26, <1>27, <1>28, <1>29, <1>30, <1>31, <1>32, <1>33, <1>34, <1>35, <1>36, <1>37
  DEF Next, PipelineStep, Failure, UploadStep, ShutdownStep

\* No goroutine has anything to do with a launch that is not in the fields yet.
LEMMA StartsInit == Init => Starts
BY DEF Init, Starts

\* One step of the node, action by action.
LEMMA StartsStep == Types /\ Starts /\ [Next]_vars => Starts'
<1>. SUFFICES ASSUME Types, Starts, [Next]_vars, op' = "lines" PROVE launch'[gen'] = Fresh
  BY DEF Starts
<1>. USE DEF setup, node, control, files, history
<1>1. CASE Launch
  <2>1. gen + 1 \in Launches
    BY <1>1, ReaderAssumption DEF Launch, Types, Plain, Launches
  <2>. QED BY <1>1, <2>1 DEF Launch, Types, Launched
<1>2. CASE Restart
  BY <1>2 DEF Restart, Forget
<1>3. CASE Crash
  BY <1>3 DEF Crash, Forget
<1>4. CASE LaunchLines \/ LaunchReader \/ Create \/ Reload \/ ReloadStopped
  BY <1>4 DEF LaunchLines, LaunchReader, Create, Reload, ReloadStopped
<1>5. CASE PrintBlock \/ ProcessExits \/ ProcessStopped \/ AskShutdown
  BY <1>5 DEF PrintBlock, ProcessExits, ProcessStopped, AskShutdown, Starts
<1>6. CASE PluginTerminates \/ SuperviserAsked \/ SuperviserStops \/ SuperviserStopped
  BY <1>6
  DEF PluginTerminates, SuperviserAsked, SuperviserStops, SuperviserStopped, Starts
<1>7. CASE ReadFlowDone \/ StdinEnds \/ StdinTerminates
  BY <1>7 DEF ReadFlowDone, StdinEnds, StdinTerminates, Starts
<1>8. ASSUME NEW b \in Blocks, UploadFile(b) \/ RemoveFile(b) PROVE launch'[gen'] = Fresh
  BY <1>8 DEF UploadFile, RemoveFile, Starts
<1>9. CASE UNCHANGED vars
  BY <1>9 DEF vars, Starts
<1>10. ASSUME op = "lines", gen' = gen, NEW g \in Launches, NEW r \in Launches,
              g # gen, r # gen,
              \A h \in Launches : h # g /\ h # r => launch'[h] = launch[h]
       PROVE  launch'[gen'] = Fresh
  <2>1. gen \in Launches
    BY <1>10 DEF Types, Plain, Launched, Launches, Starting
  <2>. QED BY <1>10, <2>1 DEF Starts
<1>11. CASE EndLogPlugins
  <2>1. op = "lines" /\ gen' = gen /\ gen \in Nat /\ LinesOf = gen - 1
    BY <1>11, ReaderAssumption DEF EndLogPlugins, LinesOf, Types, Plain
  <2>2. \A h \in Launches : h # LinesOf => launch'[h] = launch[h]
    BY <1>11 DEF EndLogPlugins, Types, Launched
  <2>3. gen \in Launches /\ gen # LinesOf
    BY <2>1 DEF Types, Plain, Launched, Launches, Starting
  <2>. QED BY <2>1, <2>2, <2>3 DEF Starts
<1>12. ASSUME op = "lines", gen' = gen, NEW g \in Launches,
              launch[g].pump # "off" \/ launch[g].at \notin {"off", "pick"}
                \/ launch[g].blocks # <<>>,
              \A h \in Launches : h # g => launch'[h] = launch[h]
       PROVE  launch'[gen'] = Fresh
  <2>1. g # gen
    BY <1>12, NewLaunch DEF Starts
  <2>. QED BY <1>10, <1>12, <2>1
<1>13. CASE TakeLine
  <2>1. gen \in Launches
    BY <1>13 DEF TakeLine, Types, Plain, Launches
  <2>2. \A h \in Launches : h # gen => launch'[h] = launch[h]
    BY <1>13 DEF TakeLine, Types, Launched
  <2>. QED BY <1>12, <1>13, <2>1, <2>2 DEF TakeLine
<1>14. ASSUME NEW g \in Launches, LogLine(g) PROVE launch'[gen'] = Fresh
  <2>1. \A h \in Launches : h # g => launch'[h] = launch[h]
    BY <1>14 DEF LogLine, Types, Launched
  <2>. QED BY <1>12, <1>14, <2>1 DEF LogLine
<1>15. ASSUME NEW g \in Launches, SendLine(g) PROVE launch'[gen'] = Fresh
  <2>5. op = "lines" /\ gen' = gen /\ LinesOf \in Launches
    BY <1>15, LinesThere DEF SendLine
  <2>1. op = "lines" /\ gen' = gen /\ gen \in Nat /\ LinesOf = gen - 1 /\ LinesOf \in Launches
    BY <2>5, ReaderAssumption DEF LinesOf, Types, Plain
  <2>2. \A h \in Launches : h # g /\ h # LinesOf => launch'[h] = launch[h]
    BY <1>15 DEF SendLine, Types, Launched
  <2>3. g # gen
    BY <1>15, <2>1, NewLaunch DEF SendLine, Starts
  <2>4. LinesOf # gen
    BY <2>1
  <2>. QED BY <1>10, <2>1, <2>2, <2>3, <2>4
<1>16. ASSUME NEW g \in Launches, PickReader(g) PROVE launch'[gen'] = Fresh
  <2>1. op = "lines" /\ gen' = gen /\ gen \in Nat /\ g =< gen - 1
    BY <1>16, ReaderAssumption DEF PickReader, ReaderOf, Types, Plain
  <2>2. \A h \in Launches : h # g => launch'[h] = launch[h]
    BY <1>16 DEF PickReader, Types, Launched
  <2>3. g # gen
    BY <2>1
  <2>. QED BY <1>10, <2>1, <2>2, <2>3
<1>17. ASSUME NEW g \in Launches,
              ReadLine(g) \/ ReadFails(g) \/ ReadTooEarly(g) \/ DrainLine(g)
       PROVE  launch'[gen'] = Fresh
  <2>1. PICK r \in Launches : r = launch[g].on
    BY DEF Types, Launched, LaunchOK
  <2>2. op = "lines" /\ gen' = gen /\ launch[g].at \in {"read", "drain"}
        /\ launch[r].lines # <<>>
    BY <1>17, <2>1 DEF ReadLine, ReadFails, ReadTooEarly, DrainLine
  <2>3. g # gen /\ r # gen
    BY <2>2, NewLaunch DEF Starts
  <2>4. CASE ReadLine(g)
    <3>1. \A h \in Launches : h # g /\ h # r => launch'[h] = launch[h]
      BY <2>1, <2>4 DEF ReadLine, Types, Launched
    <3>. QED BY <1>10, <2>2, <2>3, <3>1
  <2>5. CASE ReadFails(g)
    <3>1. \A h \in Launches : h # g /\ h # r => launch'[h] = launch[h]
      BY <2>1, <2>5 DEF ReadFails, Types, Launched
    <3>. QED BY <1>10, <2>2, <2>3, <3>1
  <2>6. CASE ReadTooEarly(g)
    <3>1. \A h \in Launches : h # g /\ h # r => launch'[h] = launch[h]
      BY <2>1, <2>6 DEF ReadTooEarly, Types, Launched
    <3>. QED BY <1>10, <2>2, <2>3, <3>1
  <2>7. CASE DrainLine(g)
    <3>1. \A h \in Launches : h # g /\ h # r => launch'[h] = launch[h]
      BY <2>1, <2>7 DEF DrainLine, Types, Launched
    <3>. QED BY <1>10, <2>2, <2>3, <3>1
  <2>. QED BY <1>17, <2>4, <2>5, <2>6, <2>7
<1>18. ASSUME NEW g \in Launches, FailedLoop(g) \/ LinesEnd(g) PROVE launch'[gen'] = Fresh
  <2>1. \A h \in Launches : h # g => launch'[h] = launch[h]
    BY <1>18 DEF FailedLoop, LinesEnd, Types, Launched
  <2>. QED BY <1>12, <1>18, <2>1 DEF FailedLoop, LinesEnd
<1>19. ASSUME NEW g \in Launches, PushBlock(g) \/ BlocksEnd(g) PROVE launch'[gen'] = Fresh
  <2>1. \A h \in Launches : h # g => launch'[h] = launch[h]
    BY <1>19 DEF PushBlock, BlocksEnd, Types, Launched
  <2>. QED BY <1>12, <1>19, <2>1 DEF PushBlock, BlocksEnd
<1>20. ASSUME NEW g \in Launches, StoreBlock(g) \/ StoreFails(g) \/ StoreHangs(g)
       PROVE  launch'[gen'] = Fresh
  <2>1. \A h \in Launches : h # g => launch'[h] = launch[h]
    BY <1>20 DEF StoreBlock, StoreFails, StoreHangs, TakeBlock, Types, Launched
  <2>. QED BY <1>12, <1>20, <2>1 DEF StoreBlock, StoreFails, StoreHangs, TakeBlock
<1>. QED
  BY <1>1, <1>2, <1>3, <1>4, <1>5, <1>6, <1>7, <1>8, <1>9, <1>11, <1>13, <1>14, <1>15,
     <1>16, <1>17, <1>18, <1>19, <1>20
  DEF Next, PipelineStep, Failure, UploadStep, ShutdownStep

\* Theorem: every variable of the reader keeps its type, whatever the launches,
\* the readers and the shutdown do (mindreader.go, superviser.go).
THEOREM ReaderTypes == Spec => []TypeOK
<1>1. Types => TypeOK
  BY DEF Types, Plain, Launched, LaunchOK, TypeOK
<1>. QED BY <1>1, TypesInit, TypesStep, StartsInit, StartsStep, PTL DEF Spec

-----------------------------------------------------------------------------
(* The channel of lines is closed once.                                    *)

\* The shutdown closes the channel with the lock of the plugins, which no
\* sender holds then, and none takes it to send once the plugin is down.
Closes ==
  (\E g \in Launches : launch[g].closed) =>
    plugin = "down" /\ \A h \in Launches : launch[h].pump # "send"

\* A step that closes nothing and lets nobody send.
LEMMA NobodySends ==
  ASSUME Closes, plugin = "down" => plugin' = "down",
         \A h \in Launches : /\ launch'[h].closed => launch[h].closed
                             /\ launch'[h].pump = "send" => launch[h].pump = "send"
  PROVE  Closes'
BY DEF Closes

\* What the reading loop of a launch g does with the line x of the channel of r.
Reads(g, r, x) ==
  /\ r = launch[g].on /\ launch[r].lines # <<>> /\ x = Head(launch[r].lines)
  /\ launch[g].at = "read" /\ (x = Init_ \/ launch[r].versioned)
  /\ launch' = [launch EXCEPT
       ![r].lines = Tail(@), ![r].versioned = TRUE,
       ![g].block = IF x < FirstStreamable THEN 0 ELSE x,
       ![g].at = IF x = Init_ THEN "read" ELSE IF x < FirstStreamable THEN "pick" ELSE "push"]

\* ReadLine, with its reader and its line named.
LEMMA LineRead ==
  ASSUME Types, NEW g \in Launches, ReadLine(g)
  PROVE  \E r \in Launches, x \in 0 .. MaxBlock : Reads(g, r, x)
<1>1. launch[g].on \in Launches /\ launch[launch[g].on].lines # <<>>
      /\ LaunchOK(launch[launch[g].on])
  BY DEF ReadLine, Types, Launched, LaunchOK
<1>. DEFINE r == launch[g].on
            x == Head(launch[r].lines)
<1>2. x \in 0 .. MaxBlock
  BY <1>1, Heads
<1>3. Reads(g, r, x)
  BY <1>1 DEF ReadLine, Reads
<1>. QED BY <1>1, <1>2, <1>3

\* No channel is closed at first.
LEMMA ClosesInit == Init => Closes
BY NewLaunch DEF Init, Closes

\* A step that closes a channel finds nobody that sends, and nobody starts
\* to send on a closed one: LogLine reads that the plugin is down.
LEMMA ClosesStep == Types /\ Starts /\ Closes /\ [Next]_vars => Closes'
<1>. SUFFICES ASSUME Types, Starts, Closes, [Next]_vars PROVE Closes'
  OBVIOUS
<1>. USE DEF setup, node, control, files, history
<1>1. /\ DOMAIN launch = Launches
      /\ \A g \in Launches : DOMAIN launch[g] = Fields /\ LaunchOK(launch[g])
      /\ gen \in 0 .. MaxLaunches
  BY DEF Types, Plain, Launched, LaunchOK
<1>2. CASE Launch
  <2>1. launch' = [launch EXCEPT ![gen + 1] = Fresh] /\ plugin' = plugin
    BY <1>2 DEF Launch
  <2>2. gen + 1 \in Launches /\ launch[gen + 1] = Unlaunched
    BY <1>2, ReaderAssumption DEF Launch, Types, Plain, Launched, Launches
  <2>3. \A h \in Launches : /\ launch'[h].closed => launch[h].closed
                            /\ launch'[h].pump = "send" => launch[h].pump = "send"
    BY <1>1, <2>1, <2>2, NewLaunch
  <2>. QED BY <2>1, <2>3, NobodySends
<1>3. CASE Create
  <2>1. \A h \in Launches : /\ launch'[h].closed => launch[h].closed
                            /\ launch'[h].pump = "send" => launch[h].pump = "send"
    BY <1>1, <1>3 DEF Create, Fields
  <2>. QED BY <1>3, <2>1, NobodySends DEF Create
<1>4. CASE PrintBlock
  BY <1>4 DEF PrintBlock, Closes
<1>5. CASE ProcessExits
  BY <1>5 DEF ProcessExits, Closes
<1>6. CASE ProcessStopped
  BY <1>6 DEF ProcessStopped, Closes
<1>7. CASE Reload
  BY <1>7 DEF Reload, Closes
<1>8. CASE ReloadStopped
  BY <1>8 DEF ReloadStopped, Closes
<1>9. CASE TakeLine
  <2>1. \A h \in Launches : /\ launch'[h].closed => launch[h].closed
                            /\ launch'[h].pump = "send" => launch[h].pump = "send"
    BY <1>1, <1>9 DEF TakeLine, Fields
  <2>. QED BY <1>9, <2>1, NobodySends DEF TakeLine
<1>10. ASSUME NEW g \in Launches, LogLine(g) PROVE Closes'
  <2>1. CASE plugin = "down"
    <3>1. \A h \in Launches : /\ launch'[h].closed => launch[h].closed
                              /\ launch'[h].pump = "send" => launch[h].pump = "send"
      BY <1>1, <1>10, <2>1 DEF LogLine, Fields
    <3>. QED BY <1>10, <3>1, NobodySends DEF LogLine
  <2>2. CASE plugin # "down"
    <3>1. \A h \in Launches : ~launch[h].closed
      BY <2>2, <1>1 DEF Closes, LaunchOK
    <3>2. \A h \in Launches : launch'[h].closed => launch[h].closed
      BY <1>1, <1>10, <2>2 DEF LogLine, Fields
    <3>. QED BY <3>1, <3>2 DEF Closes
  <2>. QED BY <2>1, <2>2
<1>11. ASSUME NEW g \in Launches, SendLine(g) PROVE Closes'
  <2>1. \A h \in Launches : /\ launch'[h].closed => launch[h].closed
                            /\ launch'[h].pump = "send" => launch[h].pump = "send"
    BY <1>1, <1>11 DEF SendLine, Fields
  <2>. QED BY <1>11, <2>1, NobodySends DEF SendLine
<1>12. ASSUME NEW g \in Launches, PickReader(g) PROVE Closes'
  <2>1. \A h \in Launches : /\ launch'[h].closed => launch[h].closed
                            /\ launch'[h].pump = "send" => launch[h].pump = "send"
    BY <1>1, <1>12 DEF PickReader, Fields
  <2>. QED BY <1>12, <2>1, NobodySends DEF PickReader
<1>13. ASSUME NEW g \in Launches, ReadLine(g) PROVE Closes'
  <2>1. PICK r \in Launches, x \in 0 .. MaxBlock : Reads(g, r, x)
    BY <1>13, LineRead
  <2>2. PICK t, n, k :
          launch' = [launch EXCEPT ![r].lines = t, ![r].versioned = TRUE, ![g].block = n,
                                   ![g].at = k]
    <3>. DEFINE n == IF x < FirstStreamable THEN 0 ELSE x
                k == IF x = Init_ THEN "read"
                     ELSE IF x < FirstStreamable THEN "pick" ELSE "push"
    <3>1. launch' = [launch EXCEPT ![r].lines = Tail(launch[r].lines), ![r].versioned = TRUE,
                                   ![g].block = n, ![g].at = k]
      BY <1>1, <2>1 DEF Reads
    <3>. QED BY <3>1
  <2>3. \A h \in Launches : /\ launch'[h].closed => launch[h].closed
                            /\ launch'[h].pump = "send" => launch[h].pump = "send"
    BY <1>1, <2>2 DEF Fields
  <2>. QED BY <1>13, <2>3, NobodySends DEF ReadLine
<1>14. ASSUME NEW g \in Launches, FailedLoop(g) PROVE Closes'
  <2>1. \A h \in Launches : /\ launch'[h].closed => launch[h].closed
                            /\ launch'[h].pump = "send" => launch[h].pump = "send"
    BY <1>1, <1>14 DEF FailedLoop, Fields
  <2>. QED BY <1>14, <2>1, NobodySends DEF FailedLoop
<1>15. ASSUME NEW g \in Launches, DrainLine(g) PROVE Closes'
  <2>1. \A h \in Launches : /\ launch'[h].closed => launch[h].closed
                            /\ launch'[h].pump = "send" => launch[h].pump = "send"
    BY <1>1, <1>15 DEF DrainLine, Fields, LaunchOK
  <2>. QED BY <1>15, <2>1, NobodySends DEF DrainLine
<1>16. ASSUME NEW g \in Launches, LinesEnd(g) PROVE Closes'
  <2>1. \A h \in Launches : /\ launch'[h].closed => launch[h].closed
                            /\ launch'[h].pump = "send" => launch[h].pump = "send"
    BY <1>1, <1>16 DEF LinesEnd, Fields
  <2>. QED BY <1>16, <2>1, NobodySends DEF LinesEnd
<1>17. ASSUME NEW g \in Launches, PushBlock(g) PROVE Closes'
  <2>1. \A h \in Launches : /\ launch'[h].closed => launch[h].closed
                            /\ launch'[h].pump = "send" => launch[h].pump = "send"
    BY <1>1, <1>17 DEF PushBlock, Fields
  <2>. QED BY <1>17, <2>1, NobodySends DEF PushBlock, Ask
<1>18. ASSUME NEW g \in Launches, StoreBlock(g) PROVE Closes'
  <2>1. \A h \in Launches : /\ launch'[h].closed => launch[h].closed
                            /\ launch'[h].pump = "send" => launch[h].pump = "send"
    BY <1>1, <1>18 DEF StoreBlock, Fields, TakeBlock
  <2>. QED BY <1>18, <2>1, NobodySends DEF StoreBlock
<1>19. ASSUME NEW g \in Launches, BlocksEnd(g) PROVE Closes'
  <2>1. \A h \in Launches : /\ launch'[h].closed => launch[h].closed
                            /\ launch'[h].pump = "send" => launch[h].pump = "send"
    BY <1>1, <1>19 DEF BlocksEnd, Fields
  <2>. QED BY <1>19, <2>1, NobodySends DEF BlocksEnd
<1>20. ASSUME NEW g \in Launches, ReadFails(g) PROVE Closes'
  <2>1. PICK r, t :
          /\ r \in Launches
          /\ launch' = [launch EXCEPT ![r].lines = t, ![g].at = "failed"]
    BY <1>1, <1>20 DEF ReadFails, LaunchOK
  <2>2. \A h \in Launches : /\ launch'[h].closed => launch[h].closed
                            /\ launch'[h].pump = "send" => launch[h].pump = "send"
    BY <1>1, <2>1 DEF Fields
  <2>. QED BY <1>20, <2>2, NobodySends DEF ReadFails
<1>21. ASSUME NEW g \in Launches, StoreFails(g) PROVE Closes'
  <2>1. \A h \in Launches : /\ launch'[h].closed => launch[h].closed
                            /\ launch'[h].pump = "send" => launch[h].pump = "send"
    BY <1>1, <1>21 DEF StoreFails, Fields, TakeBlock
  <2>. QED BY <1>21, <2>1, NobodySends DEF StoreFails, Ask
<1>22. ASSUME NEW g \in Launches, StoreHangs(g) PROVE Closes'
  <2>1. \A h \in Launches : /\ launch'[h].closed => launch[h].closed
                            /\ launch'[h].pump = "send" => launch[h].pump = "send"
    BY <1>1, <1>22 DEF StoreHangs, Fields
  <2>. QED BY <1>22, <2>1, NobodySends DEF StoreHangs
<1>23. ASSUME NEW b \in Blocks, UploadFile(b) \/ RemoveFile(b) PROVE Closes'
  BY <1>23 DEF UploadFile, RemoveFile, Closes
<1>24. CASE PluginTerminates
  BY <1>24 DEF PluginTerminates, Closes
<1>25. CASE AskShutdown
  BY <1>25 DEF AskShutdown, Closes
<1>26. CASE SuperviserAsked
  BY <1>26 DEF SuperviserAsked, Closes
<1>27. CASE SuperviserStops
  BY <1>27 DEF SuperviserStops, Closes
<1>28. CASE SuperviserStopped
  BY <1>28 DEF SuperviserStopped, Closes
<1>29. CASE ReadFlowDone
  BY <1>29 DEF ReadFlowDone, Closes
<1>30. CASE StdinEnds
  BY <1>30 DEF StdinEnds, Closes
<1>31. CASE StdinTerminates
  BY <1>31 DEF StdinTerminates, Closes
<1>32. CASE EndLogPlugins
  <2>1. CASE LinesOf = 0
    BY <1>32, <2>1 DEF EndLogPlugins, Closes
  <2>2. CASE LinesOf # 0
    <3>1. plugin' = "down" /\ launch' = [launch EXCEPT ![LinesOf].closed = TRUE]
          /\ \A h \in Launches : launch[h].pump # "send"
      BY <1>32, <2>2 DEF EndLogPlugins, PluginsLocked
    <3>2. \A h \in Launches : launch'[h].pump = launch[h].pump
      BY <1>1, <3>1 DEF Fields
    <3>. QED BY <3>1, <3>2 DEF Closes
  <2>. QED BY <2>1, <2>2
<1>33. CASE Crash \/ Restart
  <2>1. \A h \in Launches : ~launch'[h].closed
    BY <1>33, NewLaunch DEF Crash, Restart, Forget
  <2>. QED BY <2>1 DEF Closes
<1>34. CASE UNCHANGED vars
  BY <1>34 DEF vars, Closes
<1>35. CASE LaunchLines \/ LaunchReader
  BY <1>35 DEF LaunchLines, LaunchReader, Closes
<1>36. ASSUME NEW g \in Launches, ReadTooEarly(g) PROVE Closes'
  <2>1. PICK r, t :
          /\ r \in Launches
          /\ launch' = [launch EXCEPT ![r].lines = t, ![g].at = "failed"]
    BY <1>1, <1>36 DEF ReadTooEarly, LaunchOK
  <2>2. \A h \in Launches : /\ launch'[h].closed => launch[h].closed
                            /\ launch'[h].pump = "send" => launch[h].pump = "send"
    BY <1>1, <2>1 DEF Fields
  <2>. QED BY <1>36, <2>2, NobodySends DEF ReadTooEarly
<1>. QED
  BY <1>2, <1>3, <1>4, <1>5, <1>6, <1>7, <1>8, <1>9, <1>10, <1>11, <1>12, <1>13, <1>14,
     <1>15, <1>16, <1>17, <1>18, <1>19, <1>20, <1>21, <1>22, <1>23, <1>24, <1>25, <1>26,
     <1>27, <1>28, <1>29, <1>30, <1>31, <1>32, <1>33, <1>34, <1>35, <1>36
  DEF Next, PipelineStep, Failure, UploadStep, ShutdownStep

\* Theorem: no line is sent on the channel that the shutdown has closed, whatever
\* the launch whose goroutine holds a line, and wherever a reload is, between the
\* fields that a launch sets (mindreader.go, Launch, LogLine and Stop).
THEOREM ClosedIsNotSentOn == Spec => []NoSendOnClosed
<1>1. Types /\ Starts /\ Closes => NoSendOnClosed
  <2>. SUFFICES ASSUME Types, Starts, Closes, NEW g \in Launches, launch[g].pump = "send"
                PROVE  ~launch[LinesOf].closed
    BY DEF NoSendOnClosed
  <2>1. LinesOf \in Launches
    BY LinesThere
  <2>. QED BY <2>1 DEF Closes
<1>. QED
  BY <1>1, TypesInit, TypesStep, StartsInit, StartsStep, ClosesInit, ClosesStep, PTL DEF Spec

-----------------------------------------------------------------------------
(* The stages of the last launch, from the store back to the process.      *)

\* What the last launch holds.
Now == IF gen = 0 THEN Unlaunched ELSE launch[gen]

Elems(s) == {s[i] : i \in 1 .. Len(s)}

Stored == kept \cup skipped
Queued == Elems(Now.blocks)
Pushed == IF Now.at = "push" THEN {Now.block} ELSE {}
Lined == Elems(Now.lines)
Sent == IF Now.pump = "send" THEN {Now.line} ELSE {}
Held == IF Now.pump \in {"line", "send"} THEN {Now.line} ELSE {}
Output == Elems(stdout)

Written == {a \in Blocks : Archived(a)}

\* The blocks of X come before the ones of Y.  The announce is no block.
Before(X, Y) == \A x \in X, y \in Y : y # 0 => x < y

Sorted(s) == \A i, j \in 1 .. Len(s) : i < j /\ s[j] # 0 => s[i] < s[j]

Chain(K, B, P, L, H, O) ==
  /\ Before(K, B) /\ Before(K \cup B, P) /\ Before(K \cup B \cup P, L)
  /\ Before(K \cup B \cup P \cup L, H) /\ Before(K \cup B \cup P \cup L \cup H, O)

\* No block of A is missing in S below one that S has.
Closed(A, S) == \A b \in S, a \in A : a < b => a \in S

\* The empty queue holds nothing.
LEMMA ElemsOfEmpty == Elems(<<>>) = {} /\ Sorted(<<>>)
BY DEF Elems, Sorted

\* A queue of one element.
LEMMA ElemsOfOne == ASSUME NEW e PROVE Elems(<<e>>) = {e} /\ Sorted(<<e>>)
BY DEF Elems, Sorted

\* The elements of a queue have the type of the queue.
LEMMA ElemsOfSeq == ASSUME NEW S, NEW s \in Seq(S) PROVE Elems(s) \subseteq S
BY DEF Elems

\* One more element, above the others, at the end.
LEMMA ElemsOfAppend ==
  ASSUME NEW s \in Seq(Nat), NEW e \in Nat, Sorted(s), Before(Elems(s), {e})
  PROVE  Elems(Append(s, e)) = Elems(s) \cup {e} /\ Sorted(Append(s, e))
<1>. DEFINE t == Append(s, e)
<1>1. Len(t) = Len(s) + 1 /\ Len(s) \in Nat /\ t[Len(s) + 1] = e
      /\ \A i \in 1 .. Len(s) : t[i] = s[i]
  OBVIOUS
<1>. HIDE DEF t
<1>2. Elems(t) = Elems(s) \cup {e}
  BY <1>1 DEF Elems
<1>3. \A i \in 1 .. Len(s) : e # 0 => s[i] < e
  BY DEF Before, Elems
<1>4. Sorted(t)
  BY <1>1, <1>3 DEF Sorted
<1>. QED BY <1>2, <1>4 DEF t

\* The first element is below the others, and they stay in order without it.
LEMMA ElemsOfTail ==
  ASSUME NEW s \in Seq(Nat), s # <<>>, Sorted(s)
  PROVE  /\ Elems(s) = {Head(s)} \cup Elems(Tail(s)) /\ Sorted(Tail(s))
         /\ Before({Head(s)}, Elems(Tail(s)))
<1>. DEFINE t == Tail(s)
<1>1. /\ Len(t) = Len(s) - 1 /\ Len(s) \in Nat /\ Len(s) > 0 /\ Head(s) = s[1]
      /\ \A i \in 1 .. Len(t) : t[i] = s[i + 1]
  OBVIOUS
<1>. HIDE DEF t
<1>2. \A i \in 2 .. Len(s) : i - 1 \in 1 .. Len(t) /\ s[i] = t[i - 1]
  BY <1>1
<1>3. Elems(s) = {s[1]} \cup Elems(t)
  <2>1. ASSUME NEW x \in Elems(s) PROVE x \in {s[1]} \cup Elems(t)
    <3>1. PICK i \in 1 .. Len(s) : x = s[i]
      BY DEF Elems
    <3>2. i = 1 \/ i \in 2 .. Len(s)
      BY <1>1
    <3>. QED BY <3>1, <3>2, <1>2 DEF Elems
  <2>2. ASSUME NEW x \in Elems(t) PROVE x \in Elems(s)
    <3>1. PICK i \in 1 .. Len(t) : x = t[i]
      BY DEF Elems
    <3>2. i + 1 \in 1 .. Len(s) /\ x = s[i + 1]
      BY <3>1, <1>1
    <3>. QED BY <3>2 DEF Elems
  <2>3. s[1] \in Elems(s)
    BY <1>1 DEF Elems
  <2>. QED BY <2>1, <2>2, <2>3
<1>4. Sorted(t)
  <2>1. ASSUME NEW i \in 1 .. Len(t), NEW j \in 1 .. Len(t), i < j, t[j] # 0
        PROVE  t[i] < t[j]
    <3>1. i + 1 \in 1 .. Len(s) /\ j + 1 \in 1 .. Len(s) /\ i + 1 < j + 1
          /\ t[i] = s[i + 1] /\ t[j] = s[j + 1]
      BY <1>1, <2>1
    <3>. QED BY <2>1, <3>1 DEF Sorted
  <2>. QED BY <2>1 DEF Sorted
<1>5. Before({s[1]}, Elems(t))
  <2>1. ASSUME NEW j \in 1 .. Len(t), t[j] # 0 PROVE s[1] < t[j]
    <3>1. 1 \in 1 .. Len(s) /\ j + 1 \in 1 .. Len(s) /\ 1 < j + 1 /\ t[j] = s[j + 1]
      BY <1>1
    <3>. QED BY <2>1, <3>1 DEF Sorted
  <2>. QED BY <2>1 DEF Before, Elems
<1>. QED BY <1>1, <1>3, <1>4, <1>5 DEF t

\* The lower part of a set that misses nothing misses nothing.
LEMMA LowerPart ==
  ASSUME NEW A, A \subseteq Nat \ {0}, NEW X, X \subseteq Nat, NEW Y, Y \subseteq Nat,
         Closed(A, X \cup Y), Before(X, Y)
  PROVE  Closed(A, X)
<1>. SUFFICES ASSUME NEW b \in X, NEW a \in A, a < b PROVE a \in X
  BY DEF Closed
<1>1. a \in X \cup Y
  BY DEF Closed
<1>2. a \notin Y
  <2>. SUFFICES ASSUME a \in Y PROVE FALSE
    OBVIOUS
  <2>1. b < a
    BY DEF Before
  <2>2. a \in Nat /\ b \in Nat
    OBVIOUS
  <2>. QED BY <2>1, <2>2
<1>. QED BY <1>1, <1>2

\* Neither does one that leaves out what is not to be there.
LEMMA LeftOut ==
  ASSUME NEW A, NEW X, NEW Y, Closed(A, X), Y \subseteq X, \A a \in X \ Y : a \notin A
  PROVE  Closed(A, Y)
BY DEF Closed

\* The order of the stages: some are emptied, or the first element of one is
\* moved to the last place of the next, or left out.
LEMMA Fewer ==
  ASSUME NEW K, NEW B, NEW P, NEW L, NEW H, NEW O, Chain(K, B, P, L, H, O),
         NEW B2, B2 \subseteq B, NEW P2, P2 \subseteq P, NEW L2, L2 \subseteq L,
         NEW H2, H2 \subseteq H, NEW O2, O2 \subseteq O
  PROVE  Chain(K, B2, P2, L2, H2, O2)
BY DEF Chain, Before

\* The head of the output is taken: superviser.start holds it.
LEMMA OneTaken ==
  ASSUME NEW K, NEW B, NEW P, NEW L, NEW h, NEW O, Before({h}, O),
         Chain(K, B, P, L, {}, {h} \cup O)
  PROVE  Chain(K, B, P, L, {h}, O)
BY DEF Chain, Before

\* The line that is held goes to the end of the lines.
LEMMA OneSent ==
  ASSUME NEW K, NEW B, NEW P, NEW L, NEW h, NEW O, Chain(K, B, P, L, {h}, O)
  PROVE  Chain(K, B, P, L \cup {h}, {}, O)
BY DEF Chain, Before

\* The first line is read: its block waits to be pushed.
LEMMA OneRead ==
  ASSUME NEW K, NEW B, NEW L, NEW h, NEW H, NEW O, Before({h}, L),
         Chain(K, B, {}, {h} \cup L, H, O)
  PROVE  Chain(K, B, {h}, L, H, O)
BY DEF Chain, Before

\* The block that waits goes to the end of the queue of blocks.
LEMMA OnePushed ==
  ASSUME NEW K, NEW B, NEW L, NEW h, NEW H, NEW O, Chain(K, B, {h}, L, H, O)
  PROVE  Chain(K, B \cup {h}, {}, L, H, O)
BY DEF Chain, Before

\* The first of the blocks is stored, or given up.
LEMMA OneStored ==
  ASSUME NEW K, NEW B, NEW P, NEW L, NEW h, NEW H, NEW O, Before({h}, B),
         Chain(K, {h} \cup B, P, L, H, O)
  PROVE  Chain(K \cup {h}, B, P, L, H, O)
BY DEF Chain, Before

\* The process prints a block above all the others.
LEMMA OnePrinted ==
  ASSUME NEW K, NEW B, NEW P, NEW L, NEW H, NEW O, NEW n, Chain(K, B, P, L, H, O),
         \A x \in K \cup B \cup P \cup L \cup H : x < n
  PROVE  Chain(K, B, P, L, H, O \cup {n})
BY DEF Chain, Before

\* A queue over a larger set.
LEMMA SeqInto == ASSUME NEW S, NEW T, S \subseteq T, NEW s \in Seq(S) PROVE s \in Seq(T)
OBVIOUS

\* What the stages hold.
LEMMA StageTypes ==
  ASSUME Types
  PROVE  /\ LaunchOK(Now) /\ DOMAIN Now = Fields
         /\ Stored \subseteq Nat /\ Queued \subseteq Nat /\ Pushed \subseteq Nat
         /\ Lined \subseteq Nat /\ Sent \subseteq Held /\ Held \subseteq Nat
         /\ Output \subseteq Nat
         /\ Now.lines \in Seq(Nat) /\ Now.blocks \in Seq(Nat) /\ stdout \in Seq(Nat)
         /\ Written \subseteq Nat \ {0}
         /\ Queued \subseteq Blocks /\ Pushed \subseteq Blocks /\ Stored \subseteq Blocks
<1>1. LaunchOK(Now)
  BY NewLaunch DEF Now, Types, Plain, Launched, Launches
<1>2. Now.lines \in Seq(0 .. MaxBlock) /\ Now.blocks \in Seq(Blocks)
      /\ stdout \in Seq(0 .. MaxBlock)
  BY <1>1 DEF LaunchOK, Types, Plain
<1>3. 0 .. MaxBlock \subseteq Nat /\ Blocks \subseteq Nat /\ Written \subseteq Nat \ {0}
  BY ReaderAssumption DEF Blocks, Written
<1>4. /\ Lined \subseteq 0 .. MaxBlock /\ Queued \subseteq Blocks
      /\ Output \subseteq 0 .. MaxBlock
  BY <1>2, ElemsOfSeq DEF Lined, Queued, Output
<1>5. Now.lines \in Seq(Nat) /\ Now.blocks \in Seq(Nat) /\ stdout \in Seq(Nat)
  BY <1>2, <1>3, SeqInto
<1>6. Pushed \subseteq Blocks /\ Sent \subseteq Held /\ Held \subseteq 0 .. MaxBlock
  BY <1>1 DEF LaunchOK, Pushed, Sent, Held
<1>7. Stored \subseteq Blocks
  BY DEF Stored, Types, Plain
<1>. QED BY <1>1, <1>3, <1>4, <1>5, <1>6, <1>7 DEF LaunchOK

\* The launches before the last one have nothing left to do but to end.
Idle ==
  \A g \in Launches : g < gen =>
    /\ launch[g].lines = <<>> /\ launch[g].pump = "read"
    /\ launch[g].at \in {"read", "done"} /\ launch[g].on = g
    /\ launch[g].blocks = <<>> /\ launch[g].consumer \in {"wait", "done"}

\* The loop of the last one reads its lines, once Launch has returned.  There is
\* no output before its process is created, and none is left once Stop has returned.
Own ==
  /\ Idle
  /\ Now.at \in {"read", "drain"} => Now.on = gen
  /\ proc = "none" => stdout = <<>>
  /\ op \in {"launch"} \cup Starting => proc = "none"
  /\ op \in Starting => Now.pump = "off"
  /\ op \in {"lines", "reader"} => Now.at = "pick"
  /\ gen = 0 => /\ op = "launch" /\ kept = {} /\ skipped = {}
                /\ sup # "dead" => printed = from - 1

\* The last launch takes a step: m is what it holds then.
Turn(m) ==
  /\ gen \in Launches /\ gen' = gen /\ Now' = m
  /\ \A h \in Launches : h # gen => launch'[h] = launch[h]

\* How the last launch takes its step.
LEMMA OneTurn ==
  ASSUME gen \in Launches, gen' = gen, NEW m, launch'[gen] = m,
         \A h \in Launches : h # gen => launch'[h] = launch[h]
  PROVE  Turn(m)
BY ReaderAssumption DEF Turn, Now, Launches

\* Only the last launch has something to do, except for its end.
LEMMA LastActs ==
  ASSUME Types, Own, NEW g \in Launches
  PROVE  /\ launch[g].pump \in {"line", "send"} => g = gen
         /\ launch[g].at \in {"pick", "push", "failed", "drain"} => g = gen
         /\ launch[g].blocks # <<>> => g = gen
         /\ launch[g].at = "read" /\ launch[launch[g].on].lines # <<>> => g = gen
         /\ g = gen => /\ gen \in Launches /\ Now = launch[gen]
                       /\ launch[g].at \in {"read", "drain"} => launch[g].on = gen
<1>1. CASE g > gen
  <2>1. launch[g] = Unlaunched /\ gen \in Int
    BY <1>1 DEF Types, Launched, Plain
  <2>2. g # gen /\ g \in Int
    BY <1>1, <2>1 DEF Launches
  <2>. QED BY <2>1, <2>2, NewLaunch
<1>2. CASE g = gen
  BY <1>2 DEF Own, Now, Launches
<1>3. CASE g < gen
  <2>1. g # gen
    BY <1>3 DEF Types, Plain, Launches
  <2>. QED BY <1>3, <2>1 DEF Own, Idle
<1>. QED BY <1>1, <1>2, <1>3 DEF Types, Plain, Launches

\* TakeLine is a step of the last launch.
LEMMA TakeLineTurn ==
  ASSUME Types, TakeLine
  PROVE  Now.pump = "read" /\ Turn([Now EXCEPT !.pump = "line", !.line = Head(stdout)])
<1>1. gen \in Launches /\ Now = launch[gen] /\ gen' = gen
  BY DEF TakeLine, Now, Types, Plain, Launches
<1>2. launch'[gen] = [launch[gen] EXCEPT !.pump = "line", !.line = Head(stdout)]
  BY <1>1 DEF TakeLine, Types, Launched
<1>3. \A h \in Launches : h # gen => launch'[h] = launch[h]
  BY DEF TakeLine, Types, Launched
<1>. QED BY <1>1, <1>2, <1>3, OneTurn DEF TakeLine

\* LogLine is a step of the last launch: no other one holds a line.
LEMMA LogLineTurn ==
  ASSUME Types, Own, NEW g \in Launches, LogLine(g)
  PROVE  /\ Now.pump = "line"
         /\ plugin = "down" => Turn([Now EXCEPT !.pump = "read", !.line = 0])
         /\ plugin # "down" => Turn([Now EXCEPT !.pump = "send"])
<1>1. g = gen /\ gen \in Launches /\ Now = launch[gen] /\ gen' = gen
  BY LastActs DEF LogLine
<1>2. plugin = "down" => launch'[gen] = [launch[gen] EXCEPT !.pump = "read", !.line = 0]
  BY <1>1 DEF LogLine, Types, Launched
<1>3. plugin # "down" => launch'[gen] = [launch[gen] EXCEPT !.pump = "send"]
  BY <1>1 DEF LogLine, Types, Launched
<1>4. \A h \in Launches : h # gen => launch'[h] = launch[h]
  BY <1>1 DEF LogLine, Types, Launched
<1>5. plugin = "down" => Turn([Now EXCEPT !.pump = "read", !.line = 0])
  BY <1>1, <1>2, <1>4, OneTurn
<1>6. plugin # "down" => Turn([Now EXCEPT !.pump = "send"])
  BY <1>1, <1>3, <1>4, OneTurn
<1>. QED BY <1>1, <1>5, <1>6 DEF LogLine

\* SendLine is a step of the last launch.
LEMMA SendLineTurn ==
  ASSUME Types, Own, NEW g \in Launches, SendLine(g)
  PROVE  /\ Now.pump = "send"
         /\ Turn([Now EXCEPT !.lines = Append(Now.lines, Now.line), !.pump = "read",
                             !.line = 0])
<1>1. g = gen /\ gen \in Launches /\ Now = launch[gen] /\ gen' = gen /\ LinesOf = gen
  BY LastActs DEF SendLine, LinesOf, Own, Starting
<1>2. PICK q : q = Append(Now.lines, Now.line)
  OBVIOUS
<1>3. launch'[gen] = [launch[gen] EXCEPT !.lines = q, !.pump = "read", !.line = 0]
  BY <1>1, <1>2 DEF SendLine, Types, Launched
<1>4. \A h \in Launches : h # gen => launch'[h] = launch[h]
  BY <1>1 DEF SendLine, Types, Launched
<1>5. Turn([Now EXCEPT !.lines = q, !.pump = "read", !.line = 0])
  BY <1>1, <1>3, <1>4, OneTurn
<1>. QED BY <1>1, <1>2, <1>5 DEF SendLine

\* PickReader is a step of the last launch.
LEMMA PickReaderTurn ==
  ASSUME Types, Own, NEW g \in Launches, PickReader(g)
  PROVE  /\ Now.at = "pick" /\ op \notin {"lines", "reader"}
         /\ Turn([Now EXCEPT !.at = "read", !.on = gen])
<1>1. g = gen /\ gen \in Launches /\ Now = launch[gen] /\ gen' = gen /\ ReaderOf = gen
  <2>1. g = gen /\ gen \in Launches /\ Now = launch[gen] /\ gen' = gen /\ g =< ReaderOf
    BY LastActs DEF PickReader
  <2>2. ReaderOf = gen \/ ReaderOf < gen
    BY <2>1 DEF ReaderOf, Launches
  <2>. QED BY <2>1, <2>2 DEF Launches, ReaderOf
<1>2. launch'[gen] = [launch[gen] EXCEPT !.at = "read", !.on = gen]
  BY <1>1 DEF PickReader, Types, Launched
<1>3. \A h \in Launches : h # gen => launch'[h] = launch[h]
  BY <1>1 DEF PickReader, Types, Launched
<1>4. op \notin {"lines", "reader"}
  BY <1>1 DEF ReaderOf, Launches
<1>. QED BY <1>1, <1>2, <1>3, <1>4, OneTurn DEF PickReader

\* FailedLoop is a step of the last launch.
LEMMA FailedLoopTurn ==
  ASSUME Types, Own, NEW g \in Launches, FailedLoop(g)
  PROVE  /\ Now.at = "failed"
         /\ Turn([Now EXCEPT !.at = "drain", !.on = gen])
<1>1. g = gen /\ gen \in Launches /\ Now = launch[gen] /\ gen' = gen /\ LinesOf = gen
  BY LastActs DEF FailedLoop, LinesOf, Own
<1>2. launch'[gen] = [launch[gen] EXCEPT !.at = "drain", !.on = gen]
  BY <1>1 DEF FailedLoop, Types, Launched
<1>3. \A h \in Launches : h # gen => launch'[h] = launch[h]
  BY <1>1 DEF FailedLoop, Types, Launched
<1>. QED BY <1>1, <1>2, <1>3, OneTurn DEF FailedLoop

\* PushBlock is a step of the last launch.
LEMMA PushBlockTurn ==
  ASSUME Types, Own, NEW g \in Launches, PushBlock(g)
  PROVE  /\ g = gen /\ Now = launch[gen] /\ Now.at = "push"
         /\ Turn([Now EXCEPT !.blocks = Append(Now.blocks, Now.block), !.block = 0,
                             !.at = "pick"])
<1>1. g = gen /\ gen \in Launches /\ Now = launch[gen] /\ gen' = gen
  BY LastActs DEF PushBlock
<1>2. PICK q : q = Append(Now.blocks, Now.block)
  OBVIOUS
<1>3. launch'[gen] = [launch[gen] EXCEPT !.blocks = q, !.block = 0, !.at = "pick"]
  BY <1>1, <1>2 DEF PushBlock, Types, Launched
<1>4. \A h \in Launches : h # gen => launch'[h] = launch[h]
  BY <1>1 DEF PushBlock, Types, Launched
<1>5. Turn([Now EXCEPT !.blocks = q, !.block = 0, !.at = "pick"])
  BY <1>1, <1>3, <1>4, OneTurn
<1>. QED BY <1>1, <1>2, <1>5 DEF PushBlock

\* The consumer of the last launch takes a block.
LEMMA TakeBlockTurn ==
  ASSUME Types, Own, NEW g \in Launches, TakeBlock(g), gen' = gen
  PROVE  /\ g = gen /\ Now = launch[gen] /\ Now.consumer = "wait" /\ Now.blocks # <<>>
         /\ Turn([Now EXCEPT !.blocks = Tail(Now.blocks)])
<1>1. g = gen /\ gen \in Launches /\ Now = launch[gen] /\ gen' = gen
  BY LastActs DEF TakeBlock
<1>2. PICK q : q = Tail(Now.blocks)
  OBVIOUS
<1>3. launch'[gen] = [launch[gen] EXCEPT !.blocks = q]
  BY <1>1, <1>2 DEF TakeBlock, Types, Launched
<1>4. \A h \in Launches : h # gen => launch'[h] = launch[h]
  BY <1>1 DEF TakeBlock, Types, Launched
<1>5. Turn([Now EXCEPT !.blocks = q])
  BY <1>1, <1>3, <1>4, OneTurn
<1>. QED BY <1>1, <1>2, <1>5 DEF TakeBlock

\* StoreHangs is a step of the last launch.
LEMMA StoreHangsTurn ==
  ASSUME Types, Own, NEW g \in Launches, StoreHangs(g)
  PROVE  /\ Now.consumer = "wait" /\ Now.blocks # <<>>
         /\ Turn([Now EXCEPT !.blocks = Tail(Now.blocks), !.consumer = "hung"])
<1>1. g = gen /\ gen \in Launches /\ Now = launch[gen] /\ gen' = gen
  BY LastActs DEF StoreHangs
<1>2. PICK q : q = Tail(Now.blocks)
  OBVIOUS
<1>3. launch'[gen] = [launch[gen] EXCEPT !.blocks = q, !.consumer = "hung"]
  BY <1>1, <1>2 DEF StoreHangs, Types, Launched
<1>4. \A h \in Launches : h # gen => launch'[h] = launch[h]
  BY <1>1 DEF StoreHangs, Types, Launched
<1>5. Turn([Now EXCEPT !.blocks = q, !.consumer = "hung"])
  BY <1>1, <1>3, <1>4, OneTurn
<1>. QED BY <1>1, <1>2, <1>5 DEF StoreHangs

\* ReadFails is a step of the last launch: it reads the lines of its own.
LEMMA ReadFailsTurn ==
  ASSUME Types, Own, NEW g \in Launches, ReadFails(g)
  PROVE  /\ Now.at = "read" /\ Now.lines # <<>>
         /\ Turn([Now EXCEPT !.lines = Tail(Now.lines), !.at = "failed"])
<1>1. g = gen /\ gen \in Launches /\ Now = launch[gen] /\ launch[g].on = gen /\ gen' = gen
  BY LastActs DEF ReadFails
<1>2. PICK q : q = Tail(Now.lines)
  OBVIOUS
<1>3. launch'[gen] = [launch[gen] EXCEPT !.lines = q, !.at = "failed"]
  BY <1>1, <1>2 DEF ReadFails, Types, Launched
<1>4. \A h \in Launches : h # gen => launch'[h] = launch[h]
  BY <1>1 DEF ReadFails, Types, Launched
<1>5. Turn([Now EXCEPT !.lines = q, !.at = "failed"])
  BY <1>1, <1>3, <1>4, OneTurn
<1>. QED BY <1>1, <1>2, <1>5 DEF ReadFails

\* ReadTooEarly is a step of the last launch, which has not read the announce.
LEMMA ReadTooEarlyTurn ==
  ASSUME Types, Own, NEW g \in Launches, ReadTooEarly(g)
  PROVE  /\ Now.at = "read" /\ Now.lines # <<>> /\ Head(Now.lines) # Init_ /\ ~Now.versioned
         /\ Turn([Now EXCEPT !.lines = Tail(Now.lines), !.at = "failed"])
<1>1. g = gen /\ gen \in Launches /\ Now = launch[gen] /\ launch[g].on = gen /\ gen' = gen
  BY LastActs DEF ReadTooEarly
<1>2. PICK q : q = Tail(Now.lines)
  OBVIOUS
<1>3. launch'[gen] = [launch[gen] EXCEPT !.lines = q, !.at = "failed"]
  BY <1>1, <1>2 DEF ReadTooEarly, Types, Launched
<1>4. \A h \in Launches : h # gen => launch'[h] = launch[h]
  BY <1>1 DEF ReadTooEarly, Types, Launched
<1>5. Turn([Now EXCEPT !.lines = q, !.at = "failed"])
  BY <1>1, <1>3, <1>4, OneTurn
<1>. QED BY <1>1, <1>2, <1>5 DEF ReadTooEarly

\* DrainLine is a step of the last launch, which drains the lines of its own.
LEMMA DrainLineTurn ==
  ASSUME Types, Own, NEW g \in Launches, DrainLine(g)
  PROVE  /\ Now.at = "drain" /\ Now.lines # <<>>
         /\ Turn([Now EXCEPT !.lines = Tail(Now.lines)])
<1>1. g = gen /\ gen \in Launches /\ Now = launch[gen] /\ launch[g].on = gen /\ gen' = gen
  BY LastActs DEF DrainLine
<1>2. PICK q : q = Tail(Now.lines)
  OBVIOUS
<1>3. launch'[gen] = [launch[gen] EXCEPT !.lines = q]
  BY <1>1, <1>2 DEF DrainLine, Types, Launched
<1>4. \A h \in Launches : h # gen => launch'[h] = launch[h]
  BY <1>1 DEF DrainLine, Types, Launched
<1>5. Turn([Now EXCEPT !.lines = q])
  BY <1>1, <1>3, <1>4, OneTurn
<1>. QED BY <1>1, <1>2, <1>5 DEF DrainLine

\* ReadLine is a step of the last launch, which reads the lines of its own.
LEMMA ReadLineTurn ==
  ASSUME Types, Own, NEW g \in Launches, ReadLine(g)
  PROVE  \E x \in Nat, n \in Nat, k \in {"read", "pick", "push"} :
           /\ Now.at = "read" /\ Now.lines # <<>> /\ x = Head(Now.lines)
           /\ x = 0 \/ Now.versioned
           /\ k = "push" => n = x /\ x # 0
           /\ k # "push" => x = 0 \/ x < FirstStreamable
           /\ Turn([Now EXCEPT !.lines = Tail(Now.lines), !.versioned = TRUE,
                               !.block = n, !.at = k])
<1>1. PICK r \in Launches, x \in 0 .. MaxBlock : Reads(g, r, x)
  BY LineRead
<1>2. g = gen /\ gen \in Launches /\ Now = launch[gen] /\ r = gen /\ gen' = gen
  BY <1>1, LastActs DEF Reads, ReadLine, node
<1>. DEFINE n == IF x < FirstStreamable THEN 0 ELSE x
            k == IF x = Init_ THEN "read" ELSE IF x < FirstStreamable THEN "pick" ELSE "push"
<1>3. x \in Nat /\ n \in Nat /\ k \in {"read", "pick", "push"}
      /\ (k = "push" => n = x /\ x # 0) /\ (k # "push" => x = 0 \/ x < FirstStreamable)
  BY ReaderAssumption DEF Init_
<1>4. PICK t : t = Tail(Now.lines)
  OBVIOUS
<1>5. launch' = [launch EXCEPT ![gen].lines = t, ![gen].versioned = TRUE,
                               ![gen].block = n, ![gen].at = k]
  BY <1>1, <1>2, <1>4 DEF Reads, Types, Launched
<1>6. /\ Now.at = "read" /\ Now.lines # <<>> /\ x = Head(Now.lines)
      /\ x = 0 \/ Now.versioned
  BY <1>1, <1>2 DEF Reads, Init_
<1>. HIDE DEF n, k
<1>7. launch'[gen] = [launch[gen] EXCEPT !.lines = t, !.versioned = TRUE, !.block = n,
                                         !.at = k]
  BY <1>2, <1>5 DEF Types, Launched
<1>8. \A h \in Launches : h # gen => launch'[h] = launch[h]
  BY <1>2, <1>5 DEF Types, Launched
<1>9. Turn([Now EXCEPT !.lines = t, !.versioned = TRUE, !.block = n, !.at = k])
  BY <1>2, <1>7, <1>8, OneTurn
<1>. QED BY <1>3, <1>4, <1>6, <1>9

\* The two steps that an earlier launch may take as well.
LEMMA LinesEndTurn ==
  ASSUME Types, Own, NEW g \in Launches, LinesEnd(g)
  PROVE  /\ g = gen => /\ Now.at \in {"read", "drain"} /\ Now.lines = <<>> /\ Now.closed
                       /\ Turn([Now EXCEPT !.at = "done"])
         /\ g # gen => Now' = Now /\ gen' = gen /\ Idle'
<1>1. gen' = gen /\ launch' = [launch EXCEPT ![g].at = "done"] /\ g =< gen
      /\ gen \in Launches /\ launch[g].at \in {"read", "drain"}
  BY Active DEF LinesEnd, node, Types, Plain, Launched
<1>2. CASE g = gen
  BY <1>1, <1>2 DEF Turn, Now, Types, Launched, LinesEnd, Launches, Own
<1>3. CASE g # gen
  <2>1. g < gen
    BY <1>1, <1>3 DEF Launches
  <2>2. Now' = Now
    BY <1>1, <1>3 DEF Now
  <2>3. Idle'
    BY <1>1, <2>1 DEF Own, Idle, Types, Launched, LaunchOK, Fields
  <2>. QED BY <1>1, <1>3, <2>2, <2>3
<1>. QED BY <1>2, <1>3

\* The consumer of any launch may end.
LEMMA BlocksEndTurn ==
  ASSUME Types, Own, NEW g \in Launches, BlocksEnd(g)
  PROVE  /\ g = gen => /\ Now.consumer = "wait" /\ Now.blocks = <<>> /\ Now.at = "done"
                       /\ Turn([Now EXCEPT !.consumer = "done"])
         /\ g # gen => Now' = Now /\ gen' = gen /\ Idle'
<1>1. gen' = gen /\ launch' = [launch EXCEPT ![g].consumer = "done"] /\ g =< gen
      /\ gen \in Launches
  BY Active DEF BlocksEnd, node, Types, Plain, Launched
<1>2. CASE g = gen
  BY <1>1, <1>2 DEF Turn, Now, Types, Launched, BlocksEnd, Launches
<1>3. CASE g # gen
  <2>1. g < gen
    BY <1>1, <1>3 DEF Launches
  <2>2. Now' = Now
    BY <1>1, <1>3 DEF Now
  <2>3. Idle'
    BY <1>1, <2>1 DEF Own, Idle, Types, Launched, LaunchOK, Fields
  <2>. QED BY <1>1, <1>3, <2>2, <2>3
<1>. QED BY <1>2, <1>3

\* The launches before the last one are not the ones that take a step.
LEMMA TurnIdle == ASSUME Idle, NEW m, Turn(m) PROVE Idle'
BY DEF Idle, Turn, Launches

\* A step of the last launch keeps its loop on its own lines.
LEMMA OwnTurn ==
  ASSUME Types, Own, NEW m, Turn(m), m.at \in {"read", "drain"} => m.on = gen,
         op' = op, proc' = proc, op \in Starting => m.pump = "off",
         op \in {"lines", "reader"} => m.at = "pick", proc = "none" => stdout' = stdout
  PROVE  Own'
<1>1. Idle'
  BY TurnIdle DEF Own
<1>2. gen' # 0
  BY DEF Turn, Launches
<1>. QED BY <1>1, <1>2 DEF Own, Turn

\* The launches stay as they are, and so do the blocks.
LEMMA OwnAside ==
  ASSUME Own, launch' = launch, gen' = gen, kept' = kept, skipped' = skipped,
         printed' = printed, from' = from, sup # "dead",
         op' \in {"launch"} \cup Starting => proc' = "none", op' \in Starting => op \in Starting,
         op' \in {"lines", "reader"} => op \in {"lines", "reader"},
         proc' = "none" => stdout' = <<>>, gen = 0 => op' = "launch"
  PROVE  Own' /\ Now' = Now
BY DEF Own, Idle, Now

\* No launch, no output, no block.
LEMMA OwnInit == Init => Own
BY ReaderAssumption DEF Init, Own, Now, Idle, Unlaunched, Launches, Starting

\* A restart of the node, or its crash, is like its start.
LEMMA OwnForgotten ==
  ASSUME Forget, sup' = "dead" \/ printed' = from' - 1 PROVE Own'
BY ReaderAssumption DEF Forget, Own, Now, Idle, Unlaunched, Launches, Starting

\* Stop finds lines that are not those of the last launch: there are none before
\* the first one, and the fields still hold the ones before during the next.
LEMMA EndElsewhere ==
  ASSUME Types, EndLogPlugins, LinesOf = 0 \/ op = "lines" PROVE Now' = Now
<1>1. gen' = gen /\ gen \in Nat
  BY ReaderAssumption DEF EndLogPlugins, Types, Plain
<1>2. CASE LinesOf = 0
  BY <1>1, <1>2 DEF EndLogPlugins, Now
<1>3. CASE LinesOf # 0 /\ op = "lines"
  <2>1. LinesOf # gen /\ launch' = [launch EXCEPT ![LinesOf].closed = TRUE]
    BY <1>1, <1>3 DEF EndLogPlugins, LinesOf
  <2>2. gen # 0 => gen \in Launches
    BY <1>1 DEF Types, Plain, Launches
  <2>. QED BY <1>1, <2>1, <2>2 DEF Now, Types, Launched
<1>. QED BY <1>2, <1>3

\* One step of the node, action by action: a launch finds the last one quiet.
LEMMA OwnStep == ASSUME Types, Own, [Next]_vars, ~crossed' PROVE Own'
<1>. USE DEF setup, node, control, files, history, Starting
<1>1. LaunchOK(Now) /\ DOMAIN Now = Fields
  BY StageTypes
<1>2. CASE Restart
  <2>1. PICK p \in 0 .. printed : printed' = p /\ from' = p + 1
    BY <1>2 DEF Restart
  <2>2. p \in Int
    BY <2>1
  <2>. QED BY <1>2, <2>1, <2>2, OwnForgotten DEF Restart
<1>3. CASE Crash
  BY <1>3, OwnForgotten DEF Crash
<1>4. CASE UNCHANGED vars
  BY <1>4 DEF vars, Own, Idle, Now
<1>5. CASE Launch
  <2>1. /\ gen' = gen + 1 /\ launch' = [launch EXCEPT ![gen + 1] = Fresh]
        /\ op' = "lines" /\ op = "launch"
        /\ UNCHANGED <<proc, stdout, printed, kept, skipped, from, sup>>
    BY <1>5 DEF Launch
  <2>4. gen + 1 \in Launches /\ gen \in Nat
    BY <1>5, ReaderAssumption DEF Launch, Types, Plain, Launches
  <2>5. Quiet
    BY <1>5 DEF Launch
  <2>2. Now' = Fresh
    BY <2>1, <2>4 DEF Now, Types, Launched
  <2>3. Idle'
    <3>. SUFFICES ASSUME NEW g \in Launches, g < gen + 1
                  PROVE  /\ launch'[g].lines = <<>> /\ launch'[g].pump = "read"
                         /\ launch'[g].at \in {"read", "done"} /\ launch'[g].on = g
                         /\ launch'[g].blocks = <<>>
                         /\ launch'[g].consumer \in {"wait", "done"}
      BY <2>1 DEF Idle
    <3>1. launch'[g] = launch[g]
      BY <2>1, <2>4 DEF Types, Launched, Launches
    <3>2. g < gen \/ (g = gen /\ gen > 0)
      BY <2>4 DEF Launches
    <3>3. CASE g < gen
      BY <3>1, <3>3 DEF Own, Idle
    <3>4. CASE g = gen /\ gen > 0
      BY <2>5, <3>1, <3>4 DEF Quiet
    <3>. QED BY <3>2, <3>3, <3>4
  <2>6. gen' # 0 /\ proc = "none" /\ (proc = "none" => stdout = <<>>)
    BY <2>1, <2>4 DEF Own
  <2>. QED BY <2>1, <2>2, <2>3, <2>6, NewLaunch DEF Own
<1>6. CASE Create
  <2>1. /\ gen \in Launches /\ gen' = gen /\ op' = "idle" /\ proc' = "running"
        /\ launch' = [launch EXCEPT ![gen].pump = "read"]
    BY <1>6 DEF Create, Types, Plain, Launched, Launches
  <2>2. Turn([Now EXCEPT !.pump = "read"])
    BY <2>1 DEF Turn, Now, Types, Launched, Launches
  <2>3. Idle'
    BY <2>2, TurnIdle DEF Own
  <2>4. Now'.at = Now.at /\ Now'.on = Now.on /\ gen # 0
    BY <1>1, <2>2 DEF Turn, Launches, Fields
  <2>. QED BY <2>1, <2>3, <2>4 DEF Own
<1>7. ASSUME PrintBlock, sup # "dead" PROVE Own'
  <2>1. gen # 0
    BY <1>7 DEF PrintBlock, Own
  <2>. QED BY <1>7, <2>1 DEF PrintBlock, Own, Idle, Now
<1>8. ASSUME ProcessExits, sup # "dead" PROVE Own'
  BY <1>8, OwnAside DEF ProcessExits, Own
<1>9. ASSUME ProcessStopped, sup # "dead" PROVE Own'
  BY <1>9, OwnAside DEF ProcessStopped, Own
<1>10. ASSUME Reload, sup # "dead" PROVE Own'
  BY <1>10, OwnAside DEF Reload, Own
<1>11. ASSUME ReloadStopped, sup # "dead" PROVE Own'
  BY <1>11, OwnAside DEF ReloadStopped, Drained, Own
<1>12. ASSUME PluginTerminates, sup # "dead" PROVE Own'
  BY <1>12, OwnAside DEF PluginTerminates, Own
<1>13. ASSUME AskShutdown, sup # "dead" PROVE Own'
  BY <1>13, OwnAside DEF AskShutdown, Own
<1>14. ASSUME SuperviserAsked, sup # "dead" PROVE Own'
  BY <1>14, OwnAside DEF SuperviserAsked, Own
<1>15. ASSUME SuperviserStops, sup # "dead" PROVE Own'
  BY <1>15, OwnAside DEF SuperviserStops, Own
<1>16. ASSUME SuperviserStopped, sup # "dead" PROVE Own'
  BY <1>16, OwnAside DEF SuperviserStopped, Drained, Own
<1>17. ASSUME ReadFlowDone, sup # "dead" PROVE Own'
  BY <1>17, OwnAside DEF ReadFlowDone, Own
<1>18. ASSUME StdinEnds, sup # "dead" PROVE Own'
  BY <1>18, OwnAside DEF StdinEnds, Own
<1>19. ASSUME StdinTerminates, sup # "dead" PROVE Own'
  BY <1>19, OwnAside DEF StdinTerminates, Own
<1>20. ASSUME NEW b \in Blocks, UploadFile(b) \/ RemoveFile(b), sup # "dead" PROVE Own'
  BY <1>20, OwnAside DEF UploadFile, RemoveFile, Own
<1>21. ASSUME EndLogPlugins, sup # "dead" PROVE Own'
  <2>1. CASE LinesOf = 0
    BY <1>21, <2>1, OwnAside DEF EndLogPlugins, Own
  <2>3. CASE LinesOf # 0 /\ op = "lines"
    <3>1. /\ gen \in Launches /\ LinesOf = gen - 1 /\ LinesOf < gen /\ LinesOf # gen
          /\ gen' = gen /\ op' = op /\ proc' = proc /\ stdout' = stdout
          /\ launch' = [launch EXCEPT ![LinesOf].closed = TRUE]
      BY <1>21, <2>3 DEF EndLogPlugins, Types, Plain, Launched, Launches, LinesOf
    <3>2. Now' = Now
      BY <3>1 DEF Now, Types, Launched
    <3>3. Idle'
      BY <3>1 DEF Own, Idle, Types, Launched, LaunchOK, Fields
    <3>4. gen # 0
      BY <3>1 DEF Launches
    <3>. QED BY <3>1, <3>2, <3>3, <3>4 DEF Own
  <2>2. CASE LinesOf # 0 /\ op # "lines"
    <3>1. gen \in Launches /\ gen' = gen /\ op' = op /\ proc' = proc /\ stdout' = stdout
          /\ launch' = [launch EXCEPT ![gen].closed = TRUE] /\ gen # 0
      BY <1>21, <2>2 DEF EndLogPlugins, Types, Plain, Launches, LinesOf
    <3>2. Now = launch[gen] /\ launch'[gen] = [launch[gen] EXCEPT !.closed = TRUE]
          /\ \A h \in Launches : h # gen => launch'[h] = launch[h]
      BY <3>1 DEF Now, Types, Launched
    <3>3. Turn([Now EXCEPT !.closed = TRUE])
      BY <3>1, <3>2, OneTurn
    <3>. QED BY <1>1, <3>1, <3>3, OwnTurn DEF Own, Fields
  <2>. QED BY <2>1, <2>2, <2>3
<1>22. CASE TakeLine
  <2>1. Now.pump = "read" /\ stdout # <<>>
        /\ Turn([Now EXCEPT !.pump = "line", !.line = Head(stdout)])
    BY <1>22, TakeLineTurn DEF TakeLine
  <2>. QED BY <1>1, <1>22, <2>1, OwnTurn DEF TakeLine, Own, Fields
<1>23. ASSUME NEW g \in Launches, LogLine(g) PROVE Own'
  <2>1. Now.pump = "line" /\ op' = op /\ proc' = proc /\ stdout' = stdout
    BY <1>23, LogLineTurn DEF LogLine
  <2>2. CASE plugin = "down"
    <3>1. Turn([Now EXCEPT !.pump = "read", !.line = 0])
      BY <1>23, <2>2, LogLineTurn
    <3>. QED BY <1>1, <2>1, <3>1, OwnTurn DEF Own, Fields
  <2>3. CASE plugin # "down"
    <3>1. Turn([Now EXCEPT !.pump = "send"])
      BY <1>23, <2>3, LogLineTurn
    <3>. QED BY <1>1, <2>1, <3>1, OwnTurn DEF Own, Fields
  <2>. QED BY <2>2, <2>3
<1>24. ASSUME NEW g \in Launches, SendLine(g) PROVE Own'
  <2>1. PICK q : q = Append(Now.lines, Now.line)
                 /\ Turn([Now EXCEPT !.lines = q, !.pump = "read", !.line = 0])
    BY <1>24, SendLineTurn
  <2>2. Now.pump = "send"
    BY <1>24, SendLineTurn
  <2>. QED BY <1>1, <1>24, <2>1, <2>2, OwnTurn DEF SendLine, Own, Fields
<1>25. ASSUME NEW g \in Launches, PickReader(g) PROVE Own'
  <2>1. Turn([Now EXCEPT !.at = "read", !.on = gen])
    BY <1>25, PickReaderTurn
  <2>2. op \notin {"lines", "reader"}
    BY <1>25, PickReaderTurn
  <2>. QED BY <1>1, <1>25, <2>1, <2>2, OwnTurn DEF PickReader, Own, Fields
<1>26. ASSUME NEW g \in Launches, FailedLoop(g) PROVE Own'
  <2>1. Turn([Now EXCEPT !.at = "drain", !.on = gen])
    BY <1>26, FailedLoopTurn
  <2>2. Now.at = "failed"
    BY <1>26, FailedLoopTurn
  <2>. QED BY <1>1, <1>26, <2>1, <2>2, OwnTurn DEF FailedLoop, Own, Fields
<1>27. ASSUME NEW g \in Launches, PushBlock(g) PROVE Own'
  <2>1. PICK q : q = Append(Now.blocks, Now.block)
                 /\ Turn([Now EXCEPT !.blocks = q, !.block = 0, !.at = "pick"])
    BY <1>27, PushBlockTurn
  <2>. QED BY <1>1, <1>27, <2>1, OwnTurn DEF PushBlock, Own, Fields
<1>28. ASSUME NEW g \in Launches, StoreBlock(g) PROVE Own'
  <2>1. PICK q : q = Tail(Now.blocks) /\ Turn([Now EXCEPT !.blocks = q])
    BY <1>28, TakeBlockTurn DEF StoreBlock
  <2>. QED BY <1>1, <1>28, <2>1, OwnTurn DEF StoreBlock, Own, Fields
<1>29. ASSUME NEW g \in Launches, StoreFails(g) PROVE Own'
  <2>1. PICK q : q = Tail(Now.blocks) /\ Turn([Now EXCEPT !.blocks = q])
    BY <1>29, TakeBlockTurn DEF StoreFails
  <2>. QED BY <1>1, <1>29, <2>1, OwnTurn DEF StoreFails, Own, Fields
<1>30. ASSUME NEW g \in Launches, StoreHangs(g) PROVE Own'
  <2>1. PICK q : q = Tail(Now.blocks) /\ Turn([Now EXCEPT !.blocks = q, !.consumer = "hung"])
    BY <1>30, StoreHangsTurn
  <2>. QED BY <1>1, <1>30, <2>1, OwnTurn DEF StoreHangs, Own, Fields
<1>31. ASSUME NEW g \in Launches, ReadFails(g) PROVE Own'
  <2>1. PICK q : q = Tail(Now.lines) /\ Turn([Now EXCEPT !.lines = q, !.at = "failed"])
    BY <1>31, ReadFailsTurn
  <2>2. Now.at = "read"
    BY <1>31, ReadFailsTurn
  <2>. QED BY <1>1, <1>31, <2>1, <2>2, OwnTurn DEF ReadFails, Own, Fields
<1>36. ASSUME NEW g \in Launches, ReadTooEarly(g) PROVE Own'
  <2>1. PICK q : q = Tail(Now.lines) /\ Turn([Now EXCEPT !.lines = q, !.at = "failed"])
    BY <1>36, ReadTooEarlyTurn
  <2>2. Now.at = "read"
    BY <1>36, ReadTooEarlyTurn
  <2>. QED BY <1>1, <1>36, <2>1, <2>2, OwnTurn DEF ReadTooEarly, Own, Fields
<1>37. ASSUME LaunchLines, sup # "dead" PROVE Own'
  BY <1>37, OwnAside DEF LaunchLines, Own
<1>38. ASSUME LaunchReader, sup # "dead" PROVE Own'
  BY <1>38, OwnAside DEF LaunchReader, Own
<1>32. ASSUME NEW g \in Launches, DrainLine(g) PROVE Own'
  <2>1. PICK q : q = Tail(Now.lines) /\ Turn([Now EXCEPT !.lines = q])
    BY <1>32, DrainLineTurn
  <2>. QED BY <1>1, <1>32, <2>1, OwnTurn DEF DrainLine, Own, Fields
<1>33. ASSUME NEW g \in Launches, ReadLine(g) PROVE Own'
  <2>1. PICK x \in Nat, n \in Nat, k \in {"read", "pick", "push"} :
          Turn([Now EXCEPT !.lines = Tail(Now.lines), !.versioned = TRUE, !.block = n,
                           !.at = k])
    BY <1>33, ReadLineTurn
  <2>2. Now.at = "read"
    BY <1>33, ReadLineTurn
  <2>. QED BY <1>1, <1>33, <2>1, <2>2, OwnTurn DEF ReadLine, Own, Fields
<1>34. ASSUME NEW g \in Launches, LinesEnd(g), sup # "dead" PROVE Own'
  <2>1. CASE g = gen
    <3>1. Turn([Now EXCEPT !.at = "done"])
      BY <1>34, <2>1, LinesEndTurn
    <3>2. Now.at \in {"read", "drain"}
      BY <1>34, <2>1, LinesEndTurn
    <3>. QED BY <1>1, <1>34, <3>1, <3>2, OwnTurn DEF LinesEnd, Own, Fields
  <2>2. CASE g # gen
    <3>1. Now' = Now /\ gen' = gen /\ Idle'
      BY <1>34, <2>2, LinesEndTurn
    <3>. QED BY <1>34, <3>1 DEF LinesEnd, Own
  <2>. QED BY <2>1, <2>2
<1>35. ASSUME NEW g \in Launches, BlocksEnd(g), sup # "dead" PROVE Own'
  <2>1. CASE g = gen
    <3>1. Turn([Now EXCEPT !.consumer = "done"])
      BY <1>35, <2>1, BlocksEndTurn
    <3>. QED BY <1>1, <1>35, <3>1, OwnTurn DEF BlocksEnd, Own, Fields
  <2>2. CASE g # gen
    <3>1. Now' = Now /\ gen' = gen /\ Idle'
      BY <1>35, <2>2, BlocksEndTurn
    <3>. QED BY <1>35, <3>1 DEF BlocksEnd, Own
  <2>. QED BY <2>1, <2>2
<1>. QED
  BY <1>2, <1>3, <1>4, <1>5, <1>6, <1>7, <1>8, <1>9, <1>10, <1>11, <1>12, <1>13, <1>14,
     <1>15, <1>16, <1>17, <1>18, <1>19, <1>20, <1>21, <1>22, <1>23, <1>24, <1>25, <1>26,
     <1>27, <1>28, <1>29, <1>30, <1>31, <1>32, <1>33, <1>34, <1>35, <1>36, <1>37, <1>38
  DEF Next, PipelineStep, Failure, UploadStep, ShutdownStep

\* The blocks between the process and the store, and what is missing among
\* them: nothing below a stored block; nothing below a queued one, while the
\* queue is stored; nothing below one that is read, or that is being sent, while
\* the lines are read; nothing at all, while the plugin is up.
InOrder ==
  /\ Sorted(Now.blocks) /\ Sorted(Now.lines) /\ Sorted(stdout)
  /\ Chain(Stored, Queued, Pushed, Lined, Held, Output)
  /\ sup # "dead" =>
       \A b \in Stored \cup Queued \cup Pushed \cup Lined \cup Held \cup Output : b =< printed

Reading == Now.consumer # "hung" /\ Now.at \notin {"failed", "drain", "done"}

NoGaps ==
  /\ Closed(Written, Stored)
  /\ Now.consumer # "hung" => Closed(Written, Stored \cup Queued)
  /\ Reading => Closed(Written, Stored \cup Queued \cup Pushed \cup Lined \cup Sent)
  /\ Reading /\ plugin # "down" /\ sup # "dead" =>
       \A a \in Written : a =< printed =>
         a \in Stored \cup Queued \cup Pushed \cup Lined \cup Held \cup Output

Flow == InOrder /\ NoGaps

\* The blocks go forward: none goes back, or is lost.
Forward ==
  \A a \in Written :
    /\ a \in Stored => a \in Stored'
    /\ a \in Stored \cup Queued => a \in (Stored \cup Queued)'
    /\ a \in Stored \cup Queued \cup Pushed \cup Lined \cup Sent =>
         a \in (Stored \cup Queued \cup Pushed \cup Lined \cup Sent)'

\* A step that moves no block.
LEMMA SameStages ==
  ASSUME Flow, sup # "dead", Stored' = Stored, Queued' = Queued, Pushed' = Pushed,
         Lined' = Lined, Sent' = Sent, Held' = Held, Output' = Output,
         Written' = Written, printed' = printed,
         Sorted(Now.blocks)', Sorted(Now.lines)', Sorted(stdout)',
         Now.consumer = "hung" => Now'.consumer = "hung", Reading' => Reading,
         plugin = "down" => plugin' = "down"
  PROVE  Flow' /\ Forward
<1>1. Flow'
  BY DEF Flow, InOrder, NoGaps
<1>2. Forward
  BY DEF Forward
<1>. QED BY <1>1, <1>2

\* A step that does not touch the last launch, the output and the stored blocks.
LEMMA SameNow ==
  ASSUME Flow, sup # "dead", Now' = Now, stdout' = stdout, kept' = kept,
         skipped' = skipped, from' = from, printed' = printed,
         plugin = "down" => plugin' = "down"
  PROVE  Flow' /\ Forward
<1>1. /\ Stored' = Stored /\ Queued' = Queued /\ Pushed' = Pushed
      /\ Lined' = Lined /\ Sent' = Sent /\ Held' = Held /\ Output' = Output
      /\ Reading' = Reading
  BY DEF Stored, Queued, Pushed, Lined, Sent, Held, Output, Reading
<1>2. Written' = Written
  BY DEF Written, Archived
<1>3. Sorted(Now.blocks)' /\ Sorted(Now.lines)' /\ Sorted(stdout)'
  BY DEF Flow, InOrder
<1>. QED BY <1>1, <1>2, <1>3, SameStages

\* Nothing is there yet.
LEMMA NothingYet ==
  ASSUME Now = Unlaunched, stdout = <<>>, kept = {}, skipped = {},
         sup # "dead" => \A a \in Written : ~(a =< printed)
  PROVE  Flow
<1>1. /\ Queued = {} /\ Lined = {} /\ Output = {} /\ Stored = {}
      /\ Pushed = {} /\ Sent = {} /\ Held = {}
  BY ElemsOfEmpty, NewLaunch DEF Queued, Lined, Output, Stored, Pushed, Sent, Held
<1>2. Sorted(Now.blocks) /\ Sorted(Now.lines) /\ Sorted(stdout)
  BY ElemsOfEmpty, NewLaunch
<1>3. InOrder
  BY <1>1, <1>2 DEF InOrder, Chain, Before
<1>4. NoGaps
  BY <1>1 DEF NoGaps, Closed
<1>. QED BY <1>3, <1>4 DEF Flow

\* At first nothing is printed.
LEMMA FlowInit == Init => Flow
<1>. SUFFICES ASSUME Init PROVE Flow
  OBVIOUS
<1>1. Now = Unlaunched
  BY DEF Init, Now
<1>2. \A a \in Written : ~(a =< printed)
  BY ReaderAssumption DEF Init, Written, Blocks
<1>. QED BY <1>1, <1>2, NothingYet DEF Init

\* A restart of the node goes on from a block it has printed, or the next one.
LEMMA FlowForgotten ==
  ASSUME Forget, sup' = "dead" \/ (printed' \in Nat /\ from' = printed' + 1) PROVE Flow'
<1>1. Now' = Unlaunched /\ stdout' = <<>> /\ kept' = {} /\ skipped' = {}
  BY DEF Forget, Now
<1>2. sup' # "dead" => \A a \in Written' : ~(a =< printed')
  BY DEF Written, Archived, Blocks
<1>3. /\ Queued' = {} /\ Lined' = {} /\ Output' = {} /\ Stored' = {}
      /\ Pushed' = {} /\ Sent' = {} /\ Held' = {}
  BY <1>1, ElemsOfEmpty, NewLaunch DEF Queued, Lined, Output, Stored, Pushed, Sent, Held
<1>4. Sorted(Now.blocks)' /\ Sorted(Now.lines)' /\ Sorted(stdout)'
  BY <1>1, ElemsOfEmpty, NewLaunch
<1>5. InOrder'
  BY <1>3, <1>4 DEF InOrder, Chain, Before
<1>6. NoGaps'
  BY <1>2, <1>3 DEF NoGaps, Closed
<1>. QED BY <1>5, <1>6 DEF Flow

\* A launch finds nothing left to do of the last one.
LEMMA LaunchFlow ==
  ASSUME Types, Own, Flow, Launch, sup # "dead", ~crossed'
  PROVE  Flow' /\ Forward
<1>1. /\ gen' = gen + 1 /\ launch' = [launch EXCEPT ![gen + 1] = Fresh]
      /\ UNCHANGED <<stdout, printed, kept, skipped, from, sup, plugin>>
  BY DEF Launch, node, files
<1>8. gen + 1 \in Launches /\ gen \in Nat
  BY ReaderAssumption DEF Launch, Types, Plain, Launches
<1>9. Quiet
  BY DEF Launch
<1>2. Now' = Fresh
  BY <1>1, <1>8 DEF Now, Types, Launched
<1>3. /\ Now.lines = <<>> /\ Now.blocks = <<>> /\ Now.pump \in {"off", "read"}
      /\ Now.at \in {"off", "read"} /\ Now.consumer \in {"off", "wait"}
  BY <1>8, <1>9, NewLaunch DEF Now, Quiet
<1>4. /\ Queued = {} /\ Lined = {} /\ Pushed = {} /\ Sent = {} /\ Held = {} /\ Reading
  BY <1>3, ElemsOfEmpty DEF Queued, Lined, Pushed, Sent, Held, Reading
<1>5. /\ Queued' = {} /\ Lined' = {} /\ Pushed' = {} /\ Sent' = {} /\ Held' = {}
  BY <1>2, ElemsOfEmpty, NewLaunch DEF Queued, Lined, Pushed, Sent, Held
<1>6. Stored' = Stored /\ Output' = Output /\ Written' = Written
  BY <1>1 DEF Stored, Output, Written, Archived
<1>7. Sorted(Now.blocks)' /\ Sorted(Now.lines)' /\ Sorted(stdout)'
  BY <1>1, <1>2, ElemsOfEmpty, NewLaunch DEF Flow, InOrder
<1>. QED BY <1>1, <1>3, <1>4, <1>5, <1>6, <1>7, SameStages

\* The process starts with the announce of the protocol.
LEMMA CreateFlow ==
  ASSUME Types, Own, Flow, Create, sup # "dead"
  PROVE  Flow' /\ Forward
<1>1. /\ gen \in Launches /\ gen' = gen /\ stdout = <<>> /\ stdout' = <<0>>
      /\ launch' = [launch EXCEPT ![gen].pump = "read"] /\ Now.pump = "off"
      /\ UNCHANGED <<printed, kept, skipped, from, sup, plugin>>
  BY DEF Create, Types, Plain, Launched, Launches, Own, setup, files, history, Init_, Starting
<1>2. Now = launch[gen] /\ launch'[gen] = [launch[gen] EXCEPT !.pump = "read"]
      /\ Now' = launch'[gen]
  BY <1>1 DEF Now, Types, Launched, Launches
<1>3. /\ Now'.blocks = Now.blocks /\ Now'.lines = Now.lines /\ Now'.at = Now.at
      /\ Now'.block = Now.block /\ Now'.consumer = Now.consumer /\ Now'.pump = "read"
  BY <1>2, StageTypes DEF Fields
<1>4. /\ Queued' = Queued /\ Lined' = Lined /\ Pushed' = Pushed /\ Sent = {} /\ Sent' = {}
      /\ Held = {} /\ Held' = {} /\ Reading' = Reading /\ Output = {} /\ Output' = {0}
  BY <1>1, <1>3, ElemsOfEmpty, ElemsOfOne
  DEF Queued, Lined, Pushed, Sent, Held, Reading, Output
<1>5. Stored' = Stored /\ Written' = Written /\ 0 =< printed'
  BY <1>1, ReaderAssumption DEF Stored, Written, Archived, Types, Plain
<1>6. Sorted(Now.blocks)' /\ Sorted(Now.lines)' /\ Sorted(stdout)'
  BY <1>1, <1>3, ElemsOfOne DEF Flow, InOrder
<1>7. Chain(Stored, Queued, Pushed, Lined, Held, Output)'
  BY <1>4, <1>5 DEF Flow, InOrder, Chain, Before
<1>8. InOrder'
  BY <1>1, <1>4, <1>5, <1>6, <1>7 DEF Flow, InOrder
<1>9. NoGaps'
  BY <1>1, <1>3, <1>4, <1>5 DEF Flow, NoGaps
<1>10. Forward
  BY <1>4, <1>5 DEF Forward
<1>. QED BY <1>8, <1>9, <1>10 DEF Flow

\* The process prints the next block.
LEMMA PrintFlow ==
  ASSUME Types, Own, Flow, PrintBlock, sup # "dead"
  PROVE  Flow' /\ Forward
<1>1. /\ printed' = printed + 1 /\ stdout' = Append(stdout, printed + 1) /\ printed \in Nat
      /\ UNCHANGED <<launch, gen, kept, skipped, from, sup, plugin>>
  BY ReaderAssumption DEF PrintBlock, Types, Plain, control, history
<1>2. Now' = Now /\ Stored' = Stored /\ Written' = Written
  BY <1>1 DEF Now, Stored, Written, Archived
<1>3. /\ Queued' = Queued /\ Pushed' = Pushed /\ Lined' = Lined /\ Sent' = Sent
      /\ Held' = Held /\ Reading' = Reading
  BY <1>2 DEF Queued, Pushed, Lined, Sent, Held, Reading
<1>4. \A b \in Stored \cup Queued \cup Pushed \cup Lined \cup Held \cup Output :
        b \in Nat /\ b =< printed /\ b < printed + 1
  BY <1>1, StageTypes DEF Flow, InOrder
<1>5. Output' = Output \cup {printed + 1} /\ Sorted(stdout)'
  <2>1. Before(Elems(stdout), {printed + 1})
    BY <1>4 DEF Before, Output
  <2>. QED BY <1>1, <2>1, ElemsOfAppend, StageTypes DEF Flow, InOrder, Output
<1>6. Chain(Stored, Queued, Pushed, Lined, Held, Output)'
  BY <1>2, <1>3, <1>4, <1>5, OnePrinted DEF Flow, InOrder
<1>7. InOrder'
  BY <1>1, <1>2, <1>3, <1>4, <1>5, <1>6 DEF Flow, InOrder
<1>8. NoGaps'
  <2>1. ASSUME NEW a \in Written, a =< printed + 1, Reading, plugin # "down"
        PROVE  a \in Stored \cup Queued \cup Pushed \cup Lined \cup Held \cup Output'
    <3>1. a =< printed \/ a = printed + 1
      BY <1>1, <2>1, StageTypes
    <3>. QED BY <1>5, <2>1, <3>1 DEF Flow, NoGaps
  <2>. QED BY <1>1, <1>2, <1>3, <2>1 DEF Flow, NoGaps
<1>9. Forward
  BY <1>2, <1>3 DEF Forward
<1>. QED BY <1>7, <1>8, <1>9 DEF Flow

\* The moves of the blocks, stage by stage.
LEMMA TakeLineFlow ==
  ASSUME Types, Own, Flow, TakeLine, sup # "dead"
  PROVE  Flow' /\ Forward
<1>. DEFINE h == Head(stdout)
<1>1. /\ Now.pump = "read" /\ stdout # <<>> /\ stdout' = Tail(stdout)
      /\ Turn([Now EXCEPT !.pump = "line", !.line = h])
      /\ UNCHANGED <<printed, kept, skipped, from, sup, plugin>>
  BY TakeLineTurn DEF TakeLine, control, history
<1>2. /\ Now'.pump = "line" /\ Now'.line = h /\ Now'.at = Now.at /\ Now'.block = Now.block
      /\ Now'.lines = Now.lines /\ Now'.blocks = Now.blocks /\ Now'.consumer = Now.consumer
  BY <1>1, StageTypes DEF Turn, Fields
<1>3. Output = {h} \cup Output' /\ Sorted(stdout)' /\ Before({h}, Output')
  BY <1>1, ElemsOfTail, StageTypes DEF Output, Flow, InOrder
<1>4. /\ Queued' = Queued /\ Pushed' = Pushed /\ Lined' = Lined /\ Sent' = {} /\ Sent = {}
      /\ Held = {} /\ Held' = {h} /\ Reading' = Reading
  BY <1>1, <1>2 DEF Queued, Pushed, Lined, Sent, Held, Reading
<1>5. Stored' = Stored /\ Written' = Written
  BY <1>1 DEF Stored, Written, Archived
<1>6. Chain(Stored, Queued, Pushed, Lined, Held, Output)'
  BY <1>3, <1>4, <1>5, OneTaken DEF Flow, InOrder
<1>7. InOrder'
  BY <1>1, <1>2, <1>3, <1>4, <1>5, <1>6 DEF Flow, InOrder
<1>8. NoGaps'
  BY <1>1, <1>2, <1>3, <1>4, <1>5 DEF Flow, NoGaps
<1>9. Forward
  BY <1>4, <1>5 DEF Forward
<1>. QED BY <1>7, <1>8, <1>9 DEF Flow

\* A line that finds the plugin down is dropped, and the ones after it as well.
LEMMA LogLineFlow ==
  ASSUME Types, Own, Flow, NEW g \in Launches, LogLine(g), sup # "dead"
  PROVE  Flow' /\ Forward
<1>1. /\ Now.pump = "line" /\ UNCHANGED <<stdout, printed, kept, skipped, from, sup, plugin>>
      /\ plugin = "down" => Turn([Now EXCEPT !.pump = "read", !.line = 0])
      /\ plugin # "down" => Turn([Now EXCEPT !.pump = "send"])
  BY LogLineTurn DEF LogLine, node, control, history
<1>2. Stored' = Stored /\ Written' = Written /\ Output' = Output
  BY <1>1 DEF Stored, Written, Archived, Output
<1>3. /\ Now'.at = Now.at /\ Now'.block = Now.block /\ Now'.consumer = Now.consumer
      /\ Now'.lines = Now.lines /\ Now'.blocks = Now.blocks
      /\ plugin = "down" => Now'.pump = "read"
      /\ plugin # "down" => Now'.pump = "send" /\ Now'.line = Now.line
  BY <1>1, StageTypes DEF Turn, Fields
<1>4. /\ Queued' = Queued /\ Pushed' = Pushed /\ Lined' = Lined /\ Sent = {}
      /\ Reading' = Reading
  BY <1>1, <1>3 DEF Queued, Pushed, Lined, Sent, Reading
<1>5. Sorted(Now.blocks)' /\ Sorted(Now.lines)' /\ Sorted(stdout)'
  BY <1>1, <1>3 DEF Flow, InOrder
<1>6. ASSUME plugin = "down" PROVE Flow'
  <2>1. Sent' = {} /\ Held' = {}
    BY <1>3, <1>6 DEF Sent, Held
  <2>2. Chain(Stored, Queued, Pushed, Lined, Held, Output)'
    BY <1>2, <1>4, <2>1, Fewer DEF Flow, InOrder
  <2>3. InOrder'
    BY <1>1, <1>2, <1>4, <1>5, <2>1, <2>2 DEF Flow, InOrder
  <2>4. NoGaps'
    BY <1>1, <1>2, <1>3, <1>4, <1>6, <2>1 DEF Flow, NoGaps
  <2>. QED BY <2>3, <2>4 DEF Flow
<1>7. ASSUME plugin # "down" PROVE Flow'
  <2>1. Held' = Held /\ Sent' = Held
    BY <1>1, <1>3, <1>7 DEF Sent, Held
  <2>2. InOrder'
    BY <1>1, <1>2, <1>4, <1>5, <2>1 DEF Flow, InOrder
  <2>. DEFINE X == Stored \cup Queued \cup Pushed \cup Lined \cup Held
  <2>3. Reading => Closed(Written, X)
    <3>. SUFFICES ASSUME Reading PROVE Closed(Written, X)
      OBVIOUS
    <3>1. ASSUME NEW c \in X \cup Output, NEW a \in Written, a < c PROVE a \in X \cup Output
      <4>1. a \in Nat /\ c \in Nat /\ c =< printed /\ printed \in Nat
        BY StageTypes, ReaderAssumption DEF Flow, InOrder, Types, Plain
      <4>2. a =< printed
        BY <3>1, <4>1
      <4>. QED BY <1>7, <4>2 DEF Flow, NoGaps
    <3>2. Closed(Written, X \cup Output)
      BY <3>1 DEF Closed
    <3>3. X \subseteq Nat /\ Output \subseteq Nat /\ Written \subseteq Nat \ {0}
      BY StageTypes
    <3>4. Before(X, Output)
      BY DEF Flow, InOrder, Chain
    <3>. HIDE DEF X
    <3>. QED BY <3>2, <3>3, <3>4, LowerPart
  <2>4. NoGaps'
    BY <1>1, <1>2, <1>3, <1>4, <1>7, <2>1, <2>3 DEF Flow, NoGaps
  <2>. QED BY <2>2, <2>4 DEF Flow
<1>8. Forward
  BY <1>2, <1>4 DEF Forward
<1>. QED BY <1>6, <1>7, <1>8

\* A line is sent on the channel that the last launch reads.
LEMMA SendLineFlow ==
  ASSUME Types, Own, Flow, NEW g \in Launches, SendLine(g), sup # "dead"
  PROVE  Flow' /\ Forward
<1>. DEFINE h == Now.line
<1>1. /\ Now.pump = "send" /\ UNCHANGED <<stdout, printed, kept, skipped, from, sup, plugin>>
  BY SendLineTurn DEF SendLine, node, control, history
<1>2. PICK q : q = Append(Now.lines, h)
               /\ Turn([Now EXCEPT !.lines = q, !.pump = "read", !.line = 0])
  BY SendLineTurn
<1>3. /\ Now'.at = Now.at /\ Now'.block = Now.block /\ Now'.consumer = Now.consumer
      /\ Now'.lines = q /\ Now'.blocks = Now.blocks /\ Now'.pump = "read"
  BY <1>2, StageTypes DEF Turn, Fields
<1>4. /\ Queued' = Queued /\ Pushed' = Pushed /\ Sent = {h} /\ Held = {h} /\ Sent' = {}
      /\ Held' = {} /\ Reading' = Reading
  BY <1>1, <1>3 DEF Queued, Pushed, Sent, Held, Reading
<1>5. Stored' = Stored /\ Written' = Written /\ Output' = Output
  BY <1>1 DEF Stored, Written, Archived, Output
<1>6. Lined' = Lined \cup {h} /\ Sorted(Now.lines)'
  <2>1. Before(Elems(Now.lines), {h})
    BY <1>4 DEF Flow, InOrder, Chain, Before, Lined
  <2>2. h \in Nat
    BY <1>4, StageTypes
  <2>3. Now.lines \in Seq(Nat) /\ Sorted(Now.lines)
    BY StageTypes DEF Flow, InOrder
  <2>4. Elems(q) = Elems(Now.lines) \cup {h} /\ Sorted(q)
    BY <1>2, <2>1, <2>2, <2>3, ElemsOfAppend
  <2>. QED BY <1>3, <2>4 DEF Lined
<1>7. Chain(Stored, Queued, Pushed, Lined, Held, Output)'
  BY <1>4, <1>5, <1>6, OneSent DEF Flow, InOrder
<1>8. InOrder'
  BY <1>1, <1>3, <1>4, <1>5, <1>6, <1>7 DEF Flow, InOrder
<1>9. NoGaps'
  BY <1>1, <1>3, <1>4, <1>5, <1>6 DEF Flow, NoGaps
<1>10. Forward
  BY <1>4, <1>5, <1>6 DEF Forward
<1>. QED BY <1>8, <1>9, <1>10 DEF Flow

\* A line that is lost: nothing that comes after it is read.
LEMMA LostFlow ==
  ASSUME Types, Own, Flow, sup # "dead", Now.lines # <<>>,
         NEW k \in {"failed", "drain"},
         NEW t, t = Tail(Now.lines), Turn([Now EXCEPT !.lines = t, !.at = k]),
         Now.at # "push",
         UNCHANGED <<stdout, printed, kept, skipped, from, sup, plugin>>
  PROVE  Flow'
<1>1. /\ Now'.at = k /\ Now'.block = Now.block /\ Now'.consumer = Now.consumer
      /\ Now'.lines = t /\ Now'.blocks = Now.blocks /\ Now'.pump = Now.pump
      /\ Now'.line = Now.line
  BY StageTypes DEF Turn, Fields
<1>2. /\ Queued' = Queued /\ Pushed = {} /\ Pushed' = {} /\ Sent' = Sent /\ Held' = Held
      /\ ~Reading' /\ Stored' = Stored /\ Output' = Output
  BY <1>1 DEF Queued, Pushed, Sent, Held, Reading, Stored, Output
<1>3. Written' = Written
  BY DEF Written, Archived
<1>4. Lined = {Head(Now.lines)} \cup Lined' /\ Sorted(Now.lines)'
  BY <1>1, ElemsOfTail, StageTypes DEF Lined, Flow, InOrder
<1>5. Chain(Stored, Queued, Pushed, Lined, Held, Output)'
  BY <1>2, <1>4, Fewer DEF Flow, InOrder
<1>6. InOrder'
  BY <1>1, <1>2, <1>4, <1>5 DEF Flow, InOrder
<1>7. NoGaps'
  BY <1>1, <1>2, <1>3 DEF Flow, NoGaps
<1>. QED BY <1>6, <1>7 DEF Flow

\* A line is read; the announce and the blocks below the first one leave.
LEMMA ReadLineFlow ==
  ASSUME Types, Own, Flow, NEW g \in Launches, ReadLine(g), sup # "dead"
  PROVE  Flow' /\ Forward
<1>1. PICK x \in Nat, n \in Nat, k \in {"read", "pick", "push"} :
           /\ Now.at = "read" /\ Now.lines # <<>> /\ x = Head(Now.lines)
           /\ x = 0 \/ Now.versioned
           /\ k = "push" => n = x /\ x # 0
           /\ k # "push" => x = 0 \/ x < FirstStreamable
           /\ Turn([Now EXCEPT !.lines = Tail(Now.lines), !.versioned = TRUE,
                               !.block = n, !.at = k])
  BY ReadLineTurn
<1>2. PICK t : t = Tail(Now.lines)
               /\ Turn([Now EXCEPT !.lines = t, !.versioned = TRUE, !.block = n, !.at = k])
  BY <1>1
<1>3. /\ Now'.at = k /\ Now'.block = n /\ Now'.consumer = Now.consumer /\ Now'.lines = t
      /\ Now'.blocks = Now.blocks /\ Now'.pump = Now.pump /\ Now'.line = Now.line
  BY <1>2, StageTypes DEF Turn, Fields
<1>4. UNCHANGED <<stdout, printed, kept, skipped, from, sup, plugin>>
  BY DEF ReadLine, node, control, history
<1>5. /\ Queued' = Queued /\ Pushed = {} /\ Sent' = Sent /\ Held' = Held
      /\ Reading' = Reading /\ Pushed' = IF k = "push" THEN {x} ELSE {}
  BY <1>1, <1>3 DEF Queued, Pushed, Sent, Held, Reading
<1>6. Stored' = Stored /\ Written' = Written /\ Output' = Output
  BY <1>4 DEF Stored, Written, Archived, Output
<1>7. Lined = {x} \cup Lined' /\ Sorted(Now.lines)' /\ Before({x}, Lined')
  BY <1>1, <1>2, <1>3, ElemsOfTail, StageTypes DEF Lined, Flow, InOrder
<1>8. Sorted(Now.blocks)' /\ Sorted(stdout)'
  BY <1>3, <1>4 DEF Flow, InOrder
<1>9. ASSUME k = "push" PROVE Flow'
  <2>1. Chain(Stored, Queued, Pushed, Lined, Held, Output)'
    BY <1>5, <1>6, <1>7, <1>9, OneRead DEF Flow, InOrder
  <2>2. InOrder'
    BY <1>4, <1>5, <1>6, <1>7, <1>8, <1>9, <2>1 DEF Flow, InOrder
  <2>3. NoGaps'
    BY <1>3, <1>4, <1>5, <1>6, <1>7, <1>9 DEF Flow, NoGaps
  <2>. QED BY <2>2, <2>3 DEF Flow
<1>10. ASSUME k # "push" PROVE Flow'
  <2>1. x \notin Written
    BY <1>1, <1>10, ReaderAssumption DEF Written, Archived, Blocks
  <2>2. Chain(Stored, Queued, Pushed, Lined, Held, Output)'
    BY <1>5, <1>6, <1>7, <1>10, Fewer DEF Flow, InOrder
  <2>3. InOrder'
    BY <1>4, <1>5, <1>6, <1>7, <1>8, <1>10, <2>2 DEF Flow, InOrder
  <2>. DEFINE X == Stored \cup Queued \cup Pushed \cup Lined \cup Sent
              Y == Stored \cup Queued \cup Lined' \cup Sent
  <2>4. Reading => Closed(Written, Y)
    <3>1. Y \subseteq X /\ \A a \in X \ Y : a = x
      BY <1>5, <1>7
    <3>2. Reading => Closed(Written, X)
      BY DEF Flow, NoGaps
    <3>. HIDE DEF X, Y
    <3>. QED BY <2>1, <3>1, <3>2, LeftOut
  <2>5. NoGaps'
    BY <1>3, <1>4, <1>5, <1>6, <1>7, <1>10, <2>1, <2>4 DEF Flow, NoGaps
  <2>. QED BY <2>3, <2>5 DEF Flow
<1>11. k # "push" => x \notin Written
  BY <1>1, ReaderAssumption DEF Written, Archived, Blocks
<1>12. Forward
  BY <1>5, <1>6, <1>7, <1>11 DEF Forward
<1>. QED BY <1>9, <1>10, <1>12

\* A block is pushed to the consumer.
LEMMA PushBlockFlow ==
  ASSUME Types, Own, Flow, NEW g \in Launches, PushBlock(g), sup # "dead"
  PROVE  Flow' /\ Forward
<1>. DEFINE h == Now.block
<1>1. /\ Now.at = "push" /\ UNCHANGED <<stdout, printed, kept, skipped, from, sup>>
      /\ plugin = "down" => plugin' = "down"
  BY PushBlockTurn DEF PushBlock, Ask, node, history
<1>2. PICK q : q = Append(Now.blocks, h)
               /\ Turn([Now EXCEPT !.blocks = q, !.block = 0, !.at = "pick"])
  BY PushBlockTurn
<1>3. /\ Now'.at = "pick" /\ Now'.consumer = Now.consumer /\ Now'.lines = Now.lines
      /\ Now'.blocks = q /\ Now'.pump = Now.pump /\ Now'.line = Now.line
  BY <1>2, StageTypes DEF Turn, Fields
<1>4. /\ Lined' = Lined /\ Sent' = Sent /\ Held' = Held /\ Pushed = {h} /\ Pushed' = {}
      /\ Reading' = Reading /\ Reading = (Now.consumer # "hung")
  BY <1>1, <1>3 DEF Lined, Pushed, Sent, Held, Reading
<1>5. Stored' = Stored /\ Written' = Written /\ Output' = Output
  BY <1>1 DEF Stored, Written, Archived, Output
<1>6. Queued' = Queued \cup {h} /\ Sorted(Now.blocks)'
  <2>1. Before(Elems(Now.blocks), {h})
    BY <1>4 DEF Flow, InOrder, Chain, Before, Queued
  <2>2. h \in Nat
    BY <1>4, StageTypes
  <2>3. Now.blocks \in Seq(Nat) /\ Sorted(Now.blocks)
    BY StageTypes DEF Flow, InOrder
  <2>4. Elems(q) = Elems(Now.blocks) \cup {h} /\ Sorted(q)
    BY <1>2, <2>1, <2>2, <2>3, ElemsOfAppend
  <2>. QED BY <1>3, <2>4 DEF Queued
<1>7. Chain(Stored, Queued, Pushed, Lined, Held, Output)'
  BY <1>4, <1>5, <1>6, OnePushed DEF Flow, InOrder
<1>8. InOrder'
  BY <1>1, <1>3, <1>4, <1>5, <1>6, <1>7 DEF Flow, InOrder
<1>9. Now.consumer # "hung" => Closed(Written, Stored \cup Queued \cup {h})
  <2>. DEFINE X == Stored \cup Queued \cup {h}
              Y == Lined \cup Sent
  <2>1. Now.consumer # "hung" => Closed(Written, X \cup Y)
    BY <1>4 DEF Flow, NoGaps
  <2>2. X \subseteq Nat /\ Y \subseteq Nat /\ Written \subseteq Nat \ {0}
    BY <1>4, StageTypes
  <2>3. Before(X, Y)
    BY <1>4, StageTypes DEF Flow, InOrder, Chain, Before
  <2>. HIDE DEF X, Y
  <2>. QED BY <2>1, <2>2, <2>3, LowerPart DEF X
<1>10. NoGaps'
  BY <1>1, <1>3, <1>4, <1>5, <1>6, <1>9 DEF Flow, NoGaps
<1>11. Forward
  BY <1>4, <1>5, <1>6 DEF Forward
<1>. QED BY <1>8, <1>10, <1>11 DEF Flow

\* A block that is stored, or whose write fails.
LEMMA TakenFlow ==
  ASSUME Types, Own, Flow, sup # "dead", Now.blocks # <<>>, Now.consumer = "wait",
         Turn([Now EXCEPT !.blocks = Tail(Now.blocks)]),
         UNCHANGED <<stdout, printed, from, sup>>, plugin = "down" => plugin' = "down",
         \/ Stored' = Stored \cup {Head(Now.blocks)}
         \/ Stored' = Stored /\ Head(Now.blocks) \notin Written
  PROVE  Flow' /\ Forward
<1>. DEFINE h == Head(Now.blocks)
<1>1. PICK q : q = Tail(Now.blocks) /\ Turn([Now EXCEPT !.blocks = q])
  OBVIOUS
<1>2. /\ Now'.at = Now.at /\ Now'.block = Now.block /\ Now'.consumer = Now.consumer
      /\ Now'.lines = Now.lines /\ Now'.blocks = q /\ Now'.pump = Now.pump
      /\ Now'.line = Now.line
  BY <1>1, StageTypes DEF Turn, Fields
<1>3. /\ Lined' = Lined /\ Sent' = Sent /\ Held' = Held /\ Pushed' = Pushed
      /\ Reading' = Reading /\ Output' = Output
  BY <1>2 DEF Lined, Pushed, Sent, Held, Reading, Output
<1>4. Written' = Written
  BY DEF Written, Archived
<1>5. Queued = {h} \cup Queued' /\ Sorted(Now.blocks)' /\ Before({h}, Queued')
  BY <1>1, <1>2, ElemsOfTail, StageTypes DEF Queued, Flow, InOrder
<1>6. Sorted(Now.lines)' /\ Sorted(stdout)'
  BY <1>2 DEF Flow, InOrder
<1>7. ASSUME Stored' = Stored \cup {h} PROVE Flow'
  <2>1. Chain(Stored, Queued, Pushed, Lined, Held, Output)'
    BY <1>3, <1>5, <1>7, OneStored DEF Flow, InOrder
  <2>2. InOrder'
    BY <1>3, <1>5, <1>6, <1>7, <2>1 DEF Flow, InOrder
  <2>3. Closed(Written, Stored \cup {h})
    <3>. DEFINE X == Stored \cup {h}
                Y == Queued'
    <3>1. Closed(Written, X \cup Y)
      <4>1. X \cup Y = Stored \cup Queued
        BY <1>5
      <4>. QED BY <4>1 DEF Flow, NoGaps
    <3>2. X \subseteq Nat /\ Y \subseteq Nat /\ Written \subseteq Nat \ {0}
      BY <1>5, StageTypes
    <3>3. Before(X, Y)
      BY <1>5 DEF Flow, InOrder, Chain, Before
    <3>. HIDE DEF X, Y
    <3>. QED BY <3>1, <3>2, <3>3, LowerPart DEF X
  <2>4. NoGaps'
    BY <1>2, <1>3, <1>4, <1>5, <1>7, <2>3 DEF Flow, NoGaps
  <2>. QED BY <2>2, <2>4 DEF Flow
<1>8. ASSUME Stored' = Stored /\ h \notin Written PROVE Flow'
  <2>1. Chain(Stored, Queued, Pushed, Lined, Held, Output)'
    BY <1>3, <1>5, <1>8, Fewer DEF Flow, InOrder
  <2>2. InOrder'
    BY <1>3, <1>5, <1>6, <1>8, <2>1 DEF Flow, InOrder
  <2>3. ASSUME NEW Z, Closed(Written, Stored \cup Queued \cup Z)
        PROVE  Closed(Written, Stored \cup Queued' \cup Z)
    <3>. DEFINE X == Stored \cup Queued \cup Z
                Y == Stored \cup Queued' \cup Z
    <3>1. Y \subseteq X /\ \A a \in X \ Y : a = h
      BY <1>5
    <3>2. Closed(Written, X)
      BY <2>3
    <3>. HIDE DEF X, Y
    <3>3. Closed(Written, Y)
      BY <1>8, <3>1, <3>2, LeftOut
    <3>. QED BY <3>3 DEF Y
  <2>4. Closed(Written, Stored \cup Queued')
    <3>1. Closed(Written, Stored \cup Queued \cup {})
      BY DEF Flow, NoGaps
    <3>2. Closed(Written, Stored \cup Queued' \cup {})
      BY <2>3, <3>1
    <3>. QED BY <3>2
  <2>5. Reading => Closed(Written, Stored \cup Queued' \cup Pushed \cup Lined \cup Sent)
    <3>. DEFINE Z == Pushed \cup Lined \cup Sent
    <3>1. \A S : S \cup Pushed \cup Lined \cup Sent = S \cup Z
      OBVIOUS
    <3>2. Reading => Closed(Written, Stored \cup Queued \cup Z)
      BY <3>1 DEF Flow, NoGaps
    <3>. HIDE DEF Z
    <3>3. Reading => Closed(Written, Stored \cup Queued' \cup Z)
      BY <2>3, <3>2
    <3>. QED BY <3>1, <3>3
  <2>6. NoGaps'
    BY <1>2, <1>3, <1>4, <1>5, <1>8, <2>4, <2>5 DEF Flow, NoGaps
  <2>. QED BY <2>2, <2>6 DEF Flow
<1>9. Forward
  <2>1. Stored \subseteq Stored' /\ (h \in Stored' \/ h \notin Written)
    OBVIOUS
  <2>. QED BY <1>3, <1>5, <2>1 DEF Forward
<1>. QED BY <1>7, <1>8, <1>9

\* A store that hangs: no block is stored any more.
LEMMA StoreHangsFlow ==
  ASSUME Types, Own, Flow, NEW g \in Launches, StoreHangs(g), sup # "dead" PROVE Flow'
<1>1. PICK q : q = Tail(Now.blocks) /\ Turn([Now EXCEPT !.blocks = q, !.consumer = "hung"])
  BY StoreHangsTurn
<1>2. /\ Now.blocks # <<>>
      /\ UNCHANGED <<stdout, printed, kept, skipped, from, sup, plugin>>
  BY StoreHangsTurn DEF StoreHangs, node, control, history
<1>3. /\ Now'.at = Now.at /\ Now'.block = Now.block /\ Now'.consumer = "hung"
      /\ Now'.lines = Now.lines /\ Now'.blocks = q /\ Now'.pump = Now.pump
      /\ Now'.line = Now.line
  BY <1>1, StageTypes DEF Turn, Fields
<1>4. /\ Lined' = Lined /\ Sent' = Sent /\ Held' = Held /\ Pushed' = Pushed
      /\ ~Reading' /\ Output' = Output /\ Stored' = Stored
  BY <1>2, <1>3 DEF Lined, Pushed, Sent, Held, Reading, Output, Stored
<1>5. Written' = Written
  BY <1>2 DEF Written, Archived
<1>6. Queued = {Head(Now.blocks)} \cup Queued' /\ Sorted(Now.blocks)'
  BY <1>1, <1>2, <1>3, ElemsOfTail, StageTypes DEF Queued, Flow, InOrder
<1>7. Chain(Stored, Queued, Pushed, Lined, Held, Output)'
  BY <1>4, <1>6, Fewer DEF Flow, InOrder
<1>8. InOrder'
  BY <1>2, <1>3, <1>4, <1>6, <1>7 DEF Flow, InOrder
<1>9. NoGaps'
  BY <1>3, <1>4, <1>5 DEF Flow, NoGaps
<1>. QED BY <1>8, <1>9 DEF Flow

\* A step that moves the loop, the consumer or the channel of the last launch, and
\* no block.
LEMMA SameQueues ==
  ASSUME Types, Flow, sup # "dead", NEW m, Now' = m,
         m.lines = Now.lines, m.blocks = Now.blocks, m.pump = Now.pump, m.line = Now.line,
         m.block = Now.block, m.at = "push" => Now.at = "push",
         Now.at = "push" => m.at = "push", Now.consumer = "hung" => m.consumer = "hung",
         m.consumer = "hung" => Now.consumer = "hung",
         Now.at \in {"failed", "drain", "done"} => m.at \in {"failed", "drain", "done"},
         UNCHANGED <<stdout, printed, kept, skipped, from>>,
         plugin = "down" => plugin' = "down"
  PROVE  Flow' /\ Forward
<1>1. /\ Queued' = Queued /\ Pushed' = Pushed /\ Lined' = Lined /\ Sent' = Sent
      /\ Held' = Held /\ Output' = Output /\ Stored' = Stored
      /\ Reading' => Reading
  BY DEF Queued, Pushed, Lined, Sent, Held, Output, Reading, Stored
<1>2. Written' = Written
  BY DEF Written, Archived
<1>3. Sorted(Now.blocks)' /\ Sorted(Now.lines)' /\ Sorted(stdout)'
  BY DEF Flow, InOrder
<1>. QED BY <1>1, <1>2, <1>3, SameStages

\* The steps that lose blocks.
Losing ==
  \/ Crash \/ Restart
  \/ \E g \in Launches : ReadFails(g) \/ ReadTooEarly(g) \/ DrainLine(g) \/ StoreHangs(g)

\* One step of the node, action by action.
LEMMA FlowStep ==
  ASSUME Types, Own, Flow, [Next]_vars, ~crossed' PROVE Flow' /\ (Forward \/ Losing)
<1>. USE DEF setup, node, control, files, history
<1>1. LaunchOK(Now) /\ DOMAIN Now = Fields
  BY StageTypes
<1>2. ASSUME Restart PROVE Flow'
  <2>1. PICK p \in 0 .. printed : printed' = p /\ from' = p + 1
    BY <1>2 DEF Restart
  <2>2. p \in Nat
    BY <2>1
  <2>. QED BY <1>2, <2>1, <2>2, FlowForgotten DEF Restart
<1>3. ASSUME Crash PROVE Flow'
  BY <1>3, FlowForgotten DEF Crash
<1>4. ASSUME UNCHANGED vars PROVE Flow' /\ Forward
  <2>1. Now' = Now /\ UNCHANGED <<stdout, kept, skipped, from, printed, plugin, sup>>
    BY <1>4 DEF vars, Now
  <2>2. CASE sup # "dead"
    BY <2>1, <2>2, SameNow
  <2>3. CASE sup = "dead"
    <3>1. /\ Stored' = Stored /\ Queued' = Queued /\ Pushed' = Pushed
          /\ Lined' = Lined /\ Sent' = Sent /\ Held' = Held /\ Output' = Output
          /\ Reading' = Reading /\ Written' = Written
      BY <2>1 DEF Stored, Queued, Pushed, Lined, Sent, Held, Output, Reading, Written,
                  Archived
    <3>. QED BY <2>1, <3>1 DEF Flow, InOrder, NoGaps, Forward
  <2>. QED BY <2>2, <2>3
<1>5. ASSUME Launch, sup # "dead" PROVE Flow' /\ Forward
  BY <1>5, LaunchFlow
<1>6. ASSUME Create, sup # "dead" PROVE Flow' /\ Forward
  BY <1>6, CreateFlow
<1>7. ASSUME PrintBlock, sup # "dead" PROVE Flow' /\ Forward
  BY <1>7, PrintFlow
<1>8. ASSUME TakeLine, sup # "dead" PROVE Flow' /\ Forward
  BY <1>8, TakeLineFlow
<1>9. ASSUME NEW g \in Launches, LogLine(g), sup # "dead" PROVE Flow' /\ Forward
  BY <1>9, LogLineFlow
<1>10. ASSUME NEW g \in Launches, SendLine(g), sup # "dead" PROVE Flow' /\ Forward
  BY <1>10, SendLineFlow
<1>11. ASSUME NEW g \in Launches, ReadLine(g), sup # "dead" PROVE Flow' /\ Forward
  BY <1>11, ReadLineFlow
<1>12. ASSUME NEW g \in Launches, PushBlock(g), sup # "dead" PROVE Flow' /\ Forward
  BY <1>12, PushBlockFlow
<1>13. ASSUME NEW g \in Launches, StoreHangs(g), sup # "dead" PROVE Flow'
  BY <1>13, StoreHangsFlow
<1>14. ASSUME NEW g \in Launches, ReadFails(g), sup # "dead" PROVE Flow'
  <2>1. PICK t : t = Tail(Now.lines) /\ Turn([Now EXCEPT !.lines = t, !.at = "failed"])
    BY <1>14, ReadFailsTurn
  <2>2. /\ Now.at # "push" /\ Now.lines # <<>>
        /\ UNCHANGED <<stdout, printed, kept, skipped, from, sup, plugin>>
    BY <1>14, ReadFailsTurn DEF ReadFails
  <2>. QED BY <2>1, <2>2, <1>14, LostFlow
<1>36. ASSUME NEW g \in Launches, ReadTooEarly(g), sup # "dead" PROVE Flow'
  <2>1. PICK t : t = Tail(Now.lines) /\ Turn([Now EXCEPT !.lines = t, !.at = "failed"])
    BY <1>36, ReadTooEarlyTurn
  <2>2. /\ Now.at # "push" /\ Now.lines # <<>>
        /\ UNCHANGED <<stdout, printed, kept, skipped, from, sup, plugin>>
    BY <1>36, ReadTooEarlyTurn DEF ReadTooEarly
  <2>. QED BY <2>1, <2>2, <1>36, LostFlow
<1>15. ASSUME NEW g \in Launches, DrainLine(g), sup # "dead" PROVE Flow'
  <2>1. PICK t : t = Tail(Now.lines) /\ Turn([Now EXCEPT !.lines = t])
    BY <1>15, DrainLineTurn
  <2>2. /\ Now.at = "drain" /\ Now.lines # <<>>
        /\ UNCHANGED <<stdout, printed, kept, skipped, from, sup, plugin>>
    BY <1>15, DrainLineTurn DEF DrainLine
  <2>3. Turn([Now EXCEPT !.lines = t, !.at = "drain"])
    BY <1>1, <2>1, <2>2 DEF Fields
  <2>. QED BY <2>1, <2>2, <2>3, <1>15, LostFlow
<1>16. ASSUME NEW g \in Launches, StoreBlock(g), sup # "dead" PROVE Flow' /\ Forward
  <2>1. /\ Turn([Now EXCEPT !.blocks = Tail(Now.blocks)])
        /\ g = gen /\ Now = launch[gen] /\ Now.consumer = "wait" /\ Now.blocks # <<>>
    BY <1>16, TakeBlockTurn DEF StoreBlock
  <2>2. UNCHANGED <<stdout, printed, from, sup, plugin>>
    BY <1>16 DEF StoreBlock
  <2>3. \/ Stored' = Stored \cup {Head(Now.blocks)}
        \/ Stored' = Stored /\ Head(Now.blocks) \notin Written
    <3>1. kept' = kept \cup ({Head(Now.blocks)} \ (0 .. StartBlock - 1)) /\ skipped' = skipped
      BY <1>16, <2>1 DEF StoreBlock
    <3>2. CASE Head(Now.blocks) \in 0 .. StartBlock - 1
      <4>1. Head(Now.blocks) \notin Written
        BY <3>2, ReaderAssumption DEF Written, Archived, Blocks
      <4>. QED BY <3>1, <3>2, <4>1 DEF Stored
    <3>3. CASE Head(Now.blocks) \notin 0 .. StartBlock - 1
      BY <3>1, <3>3 DEF Stored
    <3>. QED BY <3>2, <3>3
  <2>. QED BY <1>16, <2>1, <2>2, <2>3, TakenFlow
<1>17. ASSUME NEW g \in Launches, StoreFails(g), sup # "dead" PROVE Flow' /\ Forward
  <2>1. /\ Turn([Now EXCEPT !.blocks = Tail(Now.blocks)])
        /\ g = gen /\ Now = launch[gen] /\ Now.consumer = "wait" /\ Now.blocks # <<>>
    BY <1>17, TakeBlockTurn DEF StoreFails
  <2>2. /\ UNCHANGED <<stdout, printed, from, sup>>
        /\ plugin = "down" => plugin' = "down"
    BY <1>17 DEF StoreFails, Ask
  <2>3. Stored' = Stored \cup {Head(Now.blocks)}
    BY <1>17, <2>1 DEF StoreFails, Stored
  <2>. QED BY <1>17, <2>1, <2>2, <2>3, TakenFlow
<1>18. ASSUME NEW g \in Launches, PickReader(g), sup # "dead" PROVE Flow' /\ Forward
  <2>1. PICK m : m = [Now EXCEPT !.at = "read", !.on = gen] /\ Turn(m) /\ Now.at = "pick"
    BY <1>18, PickReaderTurn
  <2>2. /\ m.lines = Now.lines /\ m.blocks = Now.blocks /\ m.pump = Now.pump
        /\ m.line = Now.line /\ m.block = Now.block /\ m.consumer = Now.consumer
        /\ m.at = "read"
    BY <1>1, <2>1 DEF Fields
  <2>3. /\ UNCHANGED <<stdout, printed, kept, skipped, from, sup>>
        /\ plugin = "down" => plugin' = "down"
    BY <1>18 DEF PickReader
  <2>. QED BY <1>18, <2>1, <2>2, <2>3, SameQueues DEF Turn
<1>19. ASSUME NEW g \in Launches, FailedLoop(g), sup # "dead" PROVE Flow' /\ Forward
  <2>1. PICK m : m = [Now EXCEPT !.at = "drain", !.on = gen] /\ Turn(m) /\ Now.at = "failed"
    BY <1>19, FailedLoopTurn
  <2>2. /\ m.lines = Now.lines /\ m.blocks = Now.blocks /\ m.pump = Now.pump
        /\ m.line = Now.line /\ m.block = Now.block /\ m.consumer = Now.consumer
        /\ m.at = "drain"
    BY <1>1, <2>1 DEF Fields
  <2>3. /\ UNCHANGED <<stdout, printed, kept, skipped, from, sup>>
        /\ plugin = "down" => plugin' = "down"
    BY <1>19 DEF FailedLoop
  <2>. QED BY <1>19, <2>1, <2>2, <2>3, SameQueues DEF Turn
<1>20. ASSUME NEW g \in Launches, LinesEnd(g), sup # "dead" PROVE Flow' /\ Forward
  <2>1. CASE g = gen
    <3>1. PICK m : m = [Now EXCEPT !.at = "done"] /\ Turn(m) /\ Now.at # "push"
      BY <1>20, <2>1, LinesEndTurn
    <3>2. /\ m.lines = Now.lines /\ m.blocks = Now.blocks /\ m.pump = Now.pump
          /\ m.line = Now.line /\ m.block = Now.block
          /\ m.consumer = Now.consumer /\ m.at = "done"
      BY <1>1, <3>1 DEF Fields
    <3>3. UNCHANGED <<stdout, printed, kept, skipped, from, sup, plugin>>
      BY <1>20 DEF LinesEnd
    <3>. QED BY <1>20, <3>1, <3>2, <3>3, SameQueues DEF Turn
  <2>2. CASE g # gen
    <3>1. Now' = Now
      BY <1>20, <2>2, LinesEndTurn
    <3>. QED BY <1>20, <3>1, SameNow DEF LinesEnd
  <2>. QED BY <2>1, <2>2
<1>21. ASSUME NEW g \in Launches, BlocksEnd(g), sup # "dead" PROVE Flow' /\ Forward
  <2>1. CASE g = gen
    <3>1. PICK m : m = [Now EXCEPT !.consumer = "done"] /\ Turn(m) /\ Now.consumer = "wait"
      BY <1>21, <2>1, BlocksEndTurn
    <3>2. /\ m.lines = Now.lines /\ m.blocks = Now.blocks /\ m.pump = Now.pump
          /\ m.line = Now.line /\ m.block = Now.block
          /\ m.consumer = "done" /\ m.at = Now.at
      BY <1>1, <3>1 DEF Fields
    <3>3. UNCHANGED <<stdout, printed, kept, skipped, from, sup, plugin>>
      BY <1>21 DEF BlocksEnd
    <3>. QED BY <1>21, <3>1, <3>2, <3>3, SameQueues DEF Turn
  <2>2. CASE g # gen
    <3>1. Now' = Now
      BY <1>21, <2>2, BlocksEndTurn
    <3>. QED BY <1>21, <3>1, SameNow DEF BlocksEnd
  <2>. QED BY <2>1, <2>2
<1>22. ASSUME EndLogPlugins, sup # "dead" PROVE Flow' /\ Forward
  <2>1. CASE LinesOf = 0 \/ op = "lines"
    <3>1. Now' = Now
      BY <1>22, <2>1, EndElsewhere
    <3>. QED BY <1>22, <3>1, SameNow DEF EndLogPlugins
  <2>2. CASE LinesOf # 0 /\ op # "lines"
    <3>1. gen \in Launches /\ gen' = gen /\ launch' = [launch EXCEPT ![gen].closed = TRUE]
          /\ plugin' = "down" /\ UNCHANGED <<stdout, printed, kept, skipped, from>>
      BY <1>22, <2>2 DEF EndLogPlugins, Types, Plain, Launches, LinesOf
    <3>2. PICK m : m = [Now EXCEPT !.closed = TRUE] /\ Now' = m
      BY <3>1 DEF Now, Types, Launched, Launches
    <3>3. /\ m.lines = Now.lines /\ m.blocks = Now.blocks /\ m.pump = Now.pump
          /\ m.line = Now.line /\ m.block = Now.block /\ m.at = Now.at
          /\ m.consumer = Now.consumer
      BY <1>1, <3>2 DEF Fields
    <3>. QED BY <1>22, <3>1, <3>2, <3>3, SameQueues
  <2>. QED BY <2>1, <2>2
<1>37. ASSUME LaunchLines \/ LaunchReader, sup # "dead" PROVE Flow' /\ Forward
  BY <1>37, SameNow DEF LaunchLines, LaunchReader, Now
<1>23. ASSUME ProcessExits, sup # "dead" PROVE Flow' /\ Forward
  BY <1>23, SameNow DEF ProcessExits, Now
<1>24. ASSUME ProcessStopped, sup # "dead" PROVE Flow' /\ Forward
  BY <1>24, SameNow DEF ProcessStopped, Now
<1>25. ASSUME Reload, sup # "dead" PROVE Flow' /\ Forward
  BY <1>25, SameNow DEF Reload, Now
<1>26. ASSUME ReloadStopped, sup # "dead" PROVE Flow' /\ Forward
  BY <1>26, SameNow DEF ReloadStopped, Drained, Now
<1>27. ASSUME PluginTerminates, sup # "dead" PROVE Flow' /\ Forward
  BY <1>27, SameNow DEF PluginTerminates, Now
<1>28. ASSUME AskShutdown, sup # "dead" PROVE Flow' /\ Forward
  BY <1>28, SameNow DEF AskShutdown, Now
<1>29. ASSUME SuperviserAsked, sup # "dead" PROVE Flow' /\ Forward
  BY <1>29, SameNow DEF SuperviserAsked, Now
<1>30. ASSUME SuperviserStops, sup # "dead" PROVE Flow' /\ Forward
  BY <1>30, SameNow DEF SuperviserStops, Now
<1>31. ASSUME SuperviserStopped, sup # "dead" PROVE Flow' /\ Forward
  BY <1>31, SameNow DEF SuperviserStopped, Drained, Now
<1>32. ASSUME ReadFlowDone, sup # "dead" PROVE Flow' /\ Forward
  BY <1>32, SameNow DEF ReadFlowDone, Now
<1>33. ASSUME StdinEnds, sup # "dead" PROVE Flow' /\ Forward
  BY <1>33, SameNow DEF StdinEnds, Now
<1>34. ASSUME StdinTerminates, sup # "dead" PROVE Flow' /\ Forward
  BY <1>34, SameNow DEF StdinTerminates, Now
<1>35. ASSUME NEW b \in Blocks, UploadFile(b) \/ RemoveFile(b), sup # "dead"
      PROVE  Flow' /\ Forward
  BY <1>35, SameNow DEF UploadFile, RemoveFile, Now
<1>. QED
  BY <1>2, <1>3, <1>4, <1>5, <1>6, <1>7, <1>8, <1>9, <1>10, <1>11, <1>12, <1>13, <1>14,
     <1>15, <1>16, <1>17, <1>18, <1>19, <1>20, <1>21, <1>22, <1>23, <1>24, <1>25, <1>26,
     <1>27, <1>28, <1>29, <1>30, <1>31, <1>32, <1>33, <1>34, <1>35, <1>36, <1>37
  DEF Next, PipelineStep, Failure, UploadStep, ShutdownStep, Losing

\* Only a crash or a restart forgets that a launch found the last one at work.
LEMMA Crossing == ASSUME [Next]_vars, crossed, ~crossed' PROVE Crash \/ Restart
<1>. USE DEF setup, node, control, files, history
<1>1. CASE Launch
  BY <1>1 DEF Launch
<1>2. CASE LaunchLines \/ LaunchReader \/ Create \/ PrintBlock \/ ProcessExits
           \/ ProcessStopped \/ Reload \/ ReloadStopped \/ AskShutdown
  BY <1>2 DEF LaunchLines, LaunchReader, Create, PrintBlock, ProcessExits, ProcessStopped,
              Reload, ReloadStopped, AskShutdown
<1>3. CASE PipelineStep
  BY <1>3 DEF PipelineStep, TakeLine, LogLine, SendLine, PickReader, ReadLine, ReadTooEarly,
              FailedLoop, DrainLine, LinesEnd, PushBlock, StoreBlock, BlocksEnd
<1>4. CASE ShutdownStep
  BY <1>4 DEF ShutdownStep, PluginTerminates, SuperviserAsked, SuperviserStops,
              SuperviserStopped, EndLogPlugins, ReadFlowDone, StdinEnds, StdinTerminates
<1>5. CASE Failure \/ UploadStep
  BY <1>5 DEF Failure, ReadFails, StoreFails, StoreHangs, UploadStep, UploadFile, RemoveFile
<1>. QED BY <1>1, <1>2, <1>3, <1>4, <1>5 DEF Next, vars

\* The first state after a restart, or a crash.
LEMMA OwnAgain == ASSUME Types, Restart \/ Crash PROVE Own' /\ Flow'
<1>1. ASSUME Restart PROVE Own' /\ Flow'
  <2>1. PICK p \in 0 .. printed : printed' = p /\ from' = p + 1
    BY <1>1 DEF Restart
  <2>2. p \in Nat
    BY <2>1
  <2>. QED BY <1>1, <2>1, <2>2, OwnForgotten, FlowForgotten DEF Restart
<1>2. ASSUME Crash PROVE Own' /\ Flow'
  BY <1>2, OwnForgotten, FlowForgotten DEF Crash
<1>. QED BY <1>1, <1>2

\* As long as every launch finds the last one with nothing to do.
InFlow == ~crossed => Own /\ Flow

LEMMA InFlowStep == ASSUME Types, InFlow, [Next]_vars PROVE InFlow'
<1>. SUFFICES ASSUME ~crossed' PROVE Own' /\ Flow'
  BY DEF InFlow
<1>1. CASE crossed
  BY <1>1, Crossing, OwnAgain
<1>2. CASE ~crossed
  BY <1>2, OwnStep, FlowStep DEF InFlow
<1>. QED BY <1>1, <1>2

\* Theorem: the stored blocks have no hole, for every chain and whatever the
\* capacities of the channels, the reloads, the failures and the shutdowns are, as
\* long as no launch found the last one at work (mindreader.go, superviser.go).
THEOREM StoredWithoutHole == Spec => []NoHole
<1>1. InFlow => NoHole
  BY DEF InFlow, Flow, NoGaps, Closed, NoHole, Stored, Written
<1>2. Types /\ Starts /\ InFlow /\ [Next]_vars => (Types /\ Starts /\ InFlow)'
  BY TypesStep, StartsStep, InFlowStep
<1>3. Init => Types /\ Starts /\ InFlow
  BY TypesInit, StartsInit, OwnInit, FlowInit DEF InFlow
<1>. QED BY <1>1, <1>2, <1>3, PTL DEF Spec

-----------------------------------------------------------------------------
(* The shutdown of a node that has not failed.                             *)

Faultless == failures = 0 /\ source = "process"

\* The process exits because it is told to, with the lock; a loop that is done
\* has seen the end of its lines, and the consumer the end of the blocks.
Calm ==
  /\ skipped = {} /\ Now.at \notin {"failed", "drain"} /\ Now.consumer # "hung"
  /\ proc \in {"stopping", "exited"} => lock # "free"
  /\ lock = "sup" => sup = "stopping"
  /\ sup = "closing" => gen # 0
  /\ Now.at = "done" => Now.closed /\ Now.lines = <<>>
  /\ Now.consumer = "done" => Now.blocks = <<>> /\ Now.at = "done"

\* The announce of the protocol is the first line of a launch, or there is none.
Announced ==
  ~Now.versioned =>
    /\ Now.lines # <<>> => Head(Now.lines) = 0
    /\ Now.lines = <<>> /\ Now.pump = "send" => Now.line = 0
    /\ plugin # "down" /\ Now.lines = <<>> /\ Now.pump = "line" => Now.line = 0
    /\ plugin # "down" /\ Now.lines = <<>> /\ Now.pump = "read" =>
         stdout # <<>> /\ Head(stdout) = 0

\* Only the stop block shuts the plugin down before the superviser does, and all
\* the blocks up to it are queued then.
StopReached ==
  plugin # "up" /\ sup \notin {"closing", "done", "dead"} =>
    stop # 0 /\ \A a \in Written : a =< stop => a \in Stored \cup Queued

\* The blocks that were printed when Stop returned, up to the stop block.
Due == {a \in Written : a < mark /\ (stop = 0 \/ a =< stop)}

\* They go on to the store, and are there once the consumer of the launch that
\* the plugin ended is done.
DueStored ==
  /\ sup \in {"plugins", "closing"} =>
       Due \subseteq Stored \cup Queued \cup Pushed \cup Lined \cup Sent
  /\ sup = "done" \/ (sup = "closing" /\ ended # gen) => Due \subseteq kept

Clean == Faultless => Calm /\ Announced /\ StopReached /\ DueStored

\* A step of a node that has not failed, and that is no failure.
LEMMA NoFailure ==
  ASSUME Types, Own, Clean, [Next]_vars, Faultless'
  PROVE  /\ Faultless /\ stop' = stop /\ Calm /\ Announced /\ StopReached /\ DueStored
         /\ ~(sup # "dead" /\ ProcessExits) /\ ~StdinEnds /\ ~StdinTerminates
         /\ \A g \in Launches : ~ReadFails(g) /\ ~ReadTooEarly(g) /\ ~DrainLine(g)
                                /\ ~StoreHangs(g) /\ ~StoreFails(g) /\ ~FailedLoop(g)
<1>1. failures \in Nat
  BY ReaderAssumption DEF Types, Plain
<1>2. source' = source /\ stop' = stop
  BY DEF Next, vars, setup, Launch, LaunchLines, LaunchReader, ReadTooEarly, Create,
         PrintBlock, ProcessExits, ProcessStopped, Reload, ReloadStopped, PipelineStep,
         TakeLine, LogLine, SendLine, PickReader, ReadLine, FailedLoop, DrainLine,
         LinesEnd, PushBlock, StoreBlock, BlocksEnd, ShutdownStep, PluginTerminates,
         SuperviserAsked, SuperviserStops, SuperviserStopped, EndLogPlugins,
         ReadFlowDone, StdinEnds, StdinTerminates, Failure, ReadFails, StoreFails,
         StoreHangs, UploadStep, UploadFile, RemoveFile, AskShutdown, Crash, Restart,
         Forget
<1>3. failures' = failures \/ failures' = failures + 1
  BY DEF Next, vars, Launch, LaunchLines, LaunchReader, ReadTooEarly, Create,
         PrintBlock, ProcessExits, ProcessStopped, Reload, ReloadStopped, PipelineStep,
         TakeLine, LogLine, SendLine, PickReader, ReadLine, FailedLoop, DrainLine,
         LinesEnd, PushBlock, StoreBlock, BlocksEnd, ShutdownStep, PluginTerminates,
         SuperviserAsked, SuperviserStops, SuperviserStopped, EndLogPlugins,
         ReadFlowDone, StdinEnds, StdinTerminates, Failure, ReadFails, StoreFails,
         StoreHangs, UploadStep, UploadFile, RemoveFile, AskShutdown, Crash, Restart,
         Forget, MayFail
<1>4. Faultless
  BY <1>1, <1>2, <1>3 DEF Faultless
<1>5. Calm /\ Announced /\ StopReached /\ DueStored
  BY <1>4 DEF Clean
<1>6. ~MayFail
  BY <1>1 DEF MayFail, Faultless
<1>7. ASSUME NEW g \in Launches
      PROVE  ~ReadFails(g) /\ ~ReadTooEarly(g) /\ ~DrainLine(g) /\ ~StoreHangs(g)
             /\ ~StoreFails(g) /\ ~FailedLoop(g)
  <2>1. ~ReadFails(g)
    BY <1>6 DEF ReadFails
  <2>4. ~ReadTooEarly(g)
    BY <1>5, ReadTooEarlyTurn DEF Announced, Init_
  <2>2. ~DrainLine(g)
    BY <1>5, DrainLineTurn DEF Calm
  <2>3. ~FailedLoop(g)
    BY <1>5, FailedLoopTurn DEF Calm
  <2>. QED BY <1>6, <2>1, <2>2, <2>3, <2>4 DEF StoreHangs, StoreFails
<1>8. ~(sup # "dead" /\ ProcessExits) /\ ~StdinEnds /\ ~StdinTerminates
  BY <1>4, <1>6 DEF Faultless, ProcessExits, StdinEnds, StdinTerminates
<1>. QED BY <1>2, <1>4, <1>5, <1>7, <1>8

\* What the lines, the blocks and the locks allow at the first step, and after.
LEMMA CalmForgotten == ASSUME Forget, sup' # "closing" PROVE Calm' /\ Announced'
<1>1. Now' = Unlaunched /\ skipped' = {} /\ proc' = "none" /\ lock' = "free"
  BY DEF Forget, Now
<1>. QED BY <1>1, NewLaunch DEF Calm, Announced, Unlaunched

\* A step that does not touch the lines and the blocks.
LEMMA CalmAside ==
  ASSUME Calm, Announced, Now' = Now, skipped' = skipped, gen' = gen, stdout' = stdout,
         plugin = "down" => plugin' = "down",
         proc' \in {"stopping", "exited"} => lock' # "free",
         lock' = "sup" => sup' = "stopping", sup' = "closing" => gen # 0
  PROVE  Calm' /\ Announced'
BY DEF Calm, Announced

\* A step of the last launch.
LEMMA CalmTurn ==
  ASSUME Calm, NEW m, Turn(m), UNCHANGED <<skipped, proc, lock, sup>>,
         m.at \notin {"failed", "drain"}, m.consumer # "hung",
         m.at = "done" => m.closed /\ m.lines = <<>>,
         m.consumer = "done" => m.blocks = <<>> /\ m.at = "done"
  PROVE  Calm'
BY DEF Calm, Turn

\* A step of the last launch that leaves its lines alone, or has read one.
LEMMA AnnouncedTurn ==
  ASSUME Announced, NEW m, Turn(m), stdout' = stdout, plugin = "down" => plugin' = "down",
         ~m.versioned =>
           /\ ~Now.versioned /\ m.lines = Now.lines
           /\ m.pump = Now.pump /\ m.line = Now.line
  PROVE  Announced'
BY DEF Announced, Turn

\* The first lines and the first blocks stay the first.
LEMMA HeadOfAppend ==
  ASSUME NEW S, NEW s \in Seq(S), NEW e \in S
  PROVE  /\ Append(s, e) # <<>>
         /\ s = <<>> => Head(Append(s, e)) = e
         /\ s # <<>> => Head(Append(s, e)) = Head(s)
OBVIOUS

\* The line that is sent to an empty channel is the announce, if none was read.
LEMMA SendLineCalm ==
  ASSUME Types, Own, Closes, Calm, Announced, NEW g \in Launches, SendLine(g)
  PROVE  Calm' /\ Announced'
<1>1. LaunchOK(Now) /\ DOMAIN Now = Fields
  BY StageTypes
<1>2. PICK q : /\ q = Append(Now.lines, Now.line) /\ Now.pump = "send"
               /\ Turn([Now EXCEPT !.lines = q, !.pump = "read", !.line = 0])
  BY SendLineTurn
<1>3. /\ q # <<>> /\ Now.lines = <<>> => Head(q) = Now.line
      /\ Now.lines # <<>> => Head(q) = Head(Now.lines)
  BY <1>1, <1>2, HeadOfAppend DEF LaunchOK
<1>4. PICK m : m = [Now EXCEPT !.lines = q, !.pump = "read", !.line = 0] /\ Turn(m)
  BY <1>2
<1>5. /\ m.lines = q /\ m.pump = "read" /\ m.at = Now.at /\ m.consumer = Now.consumer
      /\ m.blocks = Now.blocks /\ m.versioned = Now.versioned /\ m.closed = Now.closed
  BY <1>1, <1>4 DEF Fields
<1>6. ~Now.closed
  BY <1>2, <1>4, ReaderAssumption DEF Closes, Turn, Now, Launches
<1>7. UNCHANGED <<skipped, proc, lock, sup>>
  BY DEF SendLine, node, control, history
<1>8. Calm'
  BY <1>4, <1>5, <1>6, <1>7, CalmTurn DEF Calm
<1>9. Announced'
  BY <1>2, <1>3, <1>4, <1>5 DEF Announced, Turn
<1>. QED BY <1>8, <1>9

\* The line that is taken is the announce, if none was read or sent.
LEMMA TakeLineCalm ==
  ASSUME Types, Own, Calm, Announced, TakeLine PROVE Calm' /\ Announced'
<1>1. LaunchOK(Now) /\ DOMAIN Now = Fields
  BY StageTypes
<1>2. PICK m : m = [Now EXCEPT !.pump = "line", !.line = Head(stdout)] /\ Turn(m)
  BY TakeLineTurn
<1>3. /\ m.lines = Now.lines /\ m.pump = "line" /\ m.line = Head(stdout) /\ m.at = Now.at
      /\ m.consumer = Now.consumer /\ m.blocks = Now.blocks
      /\ m.versioned = Now.versioned /\ m.closed = Now.closed
  BY <1>1, <1>2 DEF Fields
<1>4. UNCHANGED <<skipped, proc, lock, sup, plugin>> /\ Now.pump = "read"
  BY TakeLineTurn DEF TakeLine, control, history
<1>5. Calm'
  BY <1>2, <1>3, <1>4, CalmTurn DEF Calm
<1>6. Announced'
  BY <1>2, <1>3, <1>4 DEF Announced, Turn
<1>. QED BY <1>5, <1>6

\* A line that is dropped finds the plugin down.
LEMMA LogLineCalm ==
  ASSUME Types, Own, Calm, Announced, NEW g \in Launches, LogLine(g)
  PROVE  Calm' /\ Announced'
<1>1. LaunchOK(Now) /\ DOMAIN Now = Fields
  BY StageTypes
<1>2. /\ UNCHANGED <<skipped, proc, lock, sup, plugin>> /\ Now.pump = "line"
  BY LogLineTurn DEF LogLine, node, control, history
<1>3. CASE plugin = "down"
  <2>1. PICK m : m = [Now EXCEPT !.pump = "read", !.line = 0] /\ Turn(m)
    BY <1>3, LogLineTurn
  <2>2. /\ m.lines = Now.lines /\ m.pump = "read" /\ m.at = Now.at
        /\ m.consumer = Now.consumer /\ m.blocks = Now.blocks
        /\ m.versioned = Now.versioned /\ m.closed = Now.closed
    BY <1>1, <2>1 DEF Fields
  <2>3. Calm'
    BY <1>2, <2>1, <2>2, CalmTurn DEF Calm
  <2>4. Announced'
    BY <1>2, <1>3, <2>1, <2>2 DEF Announced, Turn
  <2>. QED BY <2>3, <2>4
<1>4. CASE plugin # "down"
  <2>1. PICK m : m = [Now EXCEPT !.pump = "send"] /\ Turn(m)
    BY <1>4, LogLineTurn
  <2>2. /\ m.lines = Now.lines /\ m.pump = "send" /\ m.line = Now.line /\ m.at = Now.at
        /\ m.consumer = Now.consumer /\ m.blocks = Now.blocks
        /\ m.versioned = Now.versioned /\ m.closed = Now.closed
    BY <1>1, <2>1 DEF Fields
  <2>3. Calm'
    BY <1>2, <2>1, <2>2, CalmTurn DEF Calm
  <2>4. Announced'
    BY <1>2, <1>4, <2>1, <2>2 DEF Announced, Turn
  <2>. QED BY <2>3, <2>4
<1>. QED BY <1>3, <1>4

\* The steps of the loop and of the consumer.
LEMMA LoopCalm ==
  ASSUME Types, Own, Calm, Announced, NEW g \in Launches,
         PickReader(g) \/ ReadLine(g) \/ PushBlock(g)
  PROVE  Calm' /\ Announced'
<1>1. LaunchOK(Now) /\ DOMAIN Now = Fields
  BY StageTypes
<1>2. /\ UNCHANGED <<skipped, proc, lock, sup, stdout>>
      /\ plugin = "down" => plugin' = "down"
  BY DEF PickReader, ReadLine, PushBlock, Ask, node, control, history
<1>3. \E m : /\ Turn(m) /\ m.at \in {"read", "pick", "push"} /\ m.consumer = Now.consumer
             /\ ~m.versioned => ~Now.versioned /\ m.lines = Now.lines
             /\ m.pump = Now.pump /\ m.line = Now.line /\ Now.at \in {"pick", "read", "push"}
  <2>1. CASE PickReader(g)
    <3>1. PICK m : m = [Now EXCEPT !.at = "read", !.on = gen] /\ Turn(m) /\ Now.at = "pick"
      BY <2>1, PickReaderTurn
    <3>2. /\ m.at = "read" /\ m.consumer = Now.consumer /\ m.versioned = Now.versioned
          /\ m.lines = Now.lines /\ m.pump = Now.pump /\ m.line = Now.line
      BY <1>1, <3>1 DEF Fields
    <3>. QED BY <3>1, <3>2
  <2>2. CASE ReadLine(g)
    <3>1. PICK n \in Nat, k \in {"read", "pick", "push"}, t \in {Tail(Now.lines)} :
            /\ Now.at = "read"
            /\ Turn([Now EXCEPT !.lines = t, !.versioned = TRUE, !.block = n, !.at = k])
      BY <2>2, ReadLineTurn
    <3>2. PICK m : m = [Now EXCEPT !.lines = t, !.versioned = TRUE, !.block = n, !.at = k]
                   /\ Turn(m)
      BY <3>1
    <3>3. /\ m.at = k /\ m.consumer = Now.consumer /\ m.versioned
          /\ m.pump = Now.pump /\ m.line = Now.line
      BY <1>1, <3>2 DEF Fields
    <3>. QED BY <3>1, <3>2, <3>3
  <2>3. CASE PushBlock(g)
    <3>1. PICK q : Turn([Now EXCEPT !.blocks = q, !.block = 0, !.at = "pick"])
      BY <2>3, PushBlockTurn
    <3>2. PICK m : m = [Now EXCEPT !.blocks = q, !.block = 0, !.at = "pick"] /\ Turn(m)
                   /\ Now.at = "push"
      BY <2>3, <3>1, PushBlockTurn
    <3>3. /\ m.at = "pick" /\ m.consumer = Now.consumer /\ m.versioned = Now.versioned
          /\ m.lines = Now.lines /\ m.pump = Now.pump /\ m.line = Now.line
      BY <1>1, <3>2 DEF Fields
    <3>. QED BY <3>2, <3>3
  <2>. QED BY <2>1, <2>2, <2>3
<1>4. PICK m : /\ Turn(m) /\ m.at \in {"read", "pick", "push"} /\ m.consumer = Now.consumer
               /\ ~m.versioned => ~Now.versioned /\ m.lines = Now.lines
               /\ m.pump = Now.pump /\ m.line = Now.line
               /\ Now.at \in {"pick", "read", "push"}
  BY <1>3
<1>5. Calm'
  BY <1>2, <1>4, CalmTurn DEF Calm
<1>6. Announced'
  BY <1>2, <1>4, AnnouncedTurn
<1>. QED BY <1>5, <1>6

\* The loop ends with the lines, and the consumer with the blocks.
LEMMA EndCalm ==
  ASSUME Types, Own, Calm, Announced, NEW g \in Launches,
         LinesEnd(g) \/ StoreBlock(g) \/ BlocksEnd(g)
  PROVE  Calm' /\ Announced'
<1>1. LaunchOK(Now) /\ DOMAIN Now = Fields
  BY StageTypes
<1>2. /\ UNCHANGED <<skipped, proc, lock, sup, stdout, plugin>>
  BY DEF LinesEnd, StoreBlock, BlocksEnd, node, control, history
<1>3. CASE LinesEnd(g) /\ g = gen
  <2>1. PICK m : m = [Now EXCEPT !.at = "done"] /\ Turn(m)
    BY <1>3, LinesEndTurn
  <2>2. /\ m.at = "done" /\ m.lines = Now.lines /\ m.closed = Now.closed
        /\ m.versioned = Now.versioned /\ m.pump = Now.pump /\ m.line = Now.line
        /\ m.consumer = Now.consumer /\ m.blocks = Now.blocks
    BY <1>1, <2>1 DEF Fields
  <2>3. Calm'
    BY <1>2, <1>3, <2>1, <2>2, LinesEndTurn, CalmTurn DEF Calm
  <2>4. Announced'
    BY <1>2, <2>1, <2>2, AnnouncedTurn
  <2>. QED BY <2>3, <2>4
<1>4. CASE BlocksEnd(g) /\ g = gen
  <2>1. PICK m : m = [Now EXCEPT !.consumer = "done"] /\ Turn(m)
    BY <1>4, BlocksEndTurn
  <2>2. /\ m.at = Now.at /\ m.lines = Now.lines /\ m.closed = Now.closed
        /\ m.versioned = Now.versioned /\ m.pump = Now.pump /\ m.line = Now.line
        /\ m.consumer = "done" /\ m.blocks = Now.blocks
    BY <1>1, <2>1 DEF Fields
  <2>3. Calm'
    BY <1>2, <1>4, <2>1, <2>2, BlocksEndTurn, CalmTurn DEF Calm
  <2>4. Announced'
    BY <1>2, <2>1, <2>2, AnnouncedTurn
  <2>. QED BY <2>3, <2>4
<1>5. CASE StoreBlock(g)
  <2>1. PICK t : Turn([Now EXCEPT !.blocks = t]) /\ Now.consumer = "wait"
    BY <1>5, TakeBlockTurn DEF StoreBlock
  <2>2. PICK m : m = [Now EXCEPT !.blocks = t] /\ Turn(m)
    BY <2>1
  <2>3. /\ m.at = Now.at /\ m.lines = Now.lines /\ m.closed = Now.closed
        /\ m.versioned = Now.versioned /\ m.pump = Now.pump /\ m.line = Now.line
        /\ m.consumer = Now.consumer
    BY <1>1, <2>2 DEF Fields
  <2>4. Calm'
    BY <1>2, <2>1, <2>2, <2>3, CalmTurn DEF Calm
  <2>5. Announced'
    BY <1>2, <2>2, <2>3, AnnouncedTurn
  <2>. QED BY <2>4, <2>5
<1>6. CASE g # gen /\ (LinesEnd(g) \/ BlocksEnd(g))
  <2>1. Now' = Now /\ gen' = gen
    BY <1>6, LinesEndTurn, BlocksEndTurn
  <2>. QED BY <1>2, <2>1, CalmAside DEF Calm
<1>. QED BY <1>3, <1>4, <1>5, <1>6

\* One step of the node, action by action.
LEMMA CalmStep ==
  ASSUME Types, Own, Closes, Clean, [Next]_vars, ~crossed', Faultless'
  PROVE  Calm' /\ Announced'
<1>. USE DEF setup, node, control, files, history
<1>1. /\ Faultless /\ stop' = stop /\ Calm /\ Announced /\ StopReached /\ DueStored
      /\ ~(sup # "dead" /\ ProcessExits) /\ ~StdinEnds /\ ~StdinTerminates
      /\ \A g \in Launches : ~ReadFails(g) /\ ~ReadTooEarly(g) /\ ~DrainLine(g)
                             /\ ~StoreHangs(g) /\ ~StoreFails(g) /\ ~FailedLoop(g)
  BY NoFailure
<1>2. LaunchOK(Now) /\ DOMAIN Now = Fields
  BY StageTypes
<1>3. CASE Restart \/ Crash
  BY <1>3, CalmForgotten DEF Restart, Crash
<1>4. CASE UNCHANGED vars
  BY <1>1, <1>4, CalmAside DEF vars, Now, Calm
<1>17. CASE LaunchLines \/ LaunchReader
  BY <1>1, <1>17, CalmAside DEF LaunchLines, LaunchReader, Now, Calm
<1>5. CASE Launch
  <2>1. /\ gen' = gen + 1 /\ launch' = [launch EXCEPT ![gen + 1] = Fresh]
        /\ gen + 1 \in Launches /\ gen \in Nat
        /\ UNCHANGED <<proc, skipped, lock, sup, plugin>>
    BY <1>5, ReaderAssumption DEF Launch, Types, Plain, Launches
  <2>2. Now' = Fresh /\ gen' # 0
    BY <2>1 DEF Now, Types, Launched
  <2>. QED BY <1>1, <2>1, <2>2, NewLaunch DEF Calm, Announced
<1>6. CASE Create
  <2>1. /\ gen \in Launches /\ gen' = gen /\ stdout' = <<0>> /\ proc' = "running"
        /\ launch' = [launch EXCEPT ![gen].pump = "read"]
        /\ UNCHANGED <<skipped, lock, sup, plugin>>
    BY <1>6 DEF Create, Types, Plain, Launched, Launches, Init_, Starting
  <2>2. Now' = [Now EXCEPT !.pump = "read"]
    BY <2>1 DEF Now, Types, Launched, Launches
  <2>3. /\ Now'.lines = Now.lines /\ Now'.pump = "read" /\ Now'.at = Now.at
        /\ Now'.consumer = Now.consumer /\ Now'.blocks = Now.blocks
        /\ Now'.versioned = Now.versioned /\ Now'.closed = Now.closed
    BY <1>2, <2>2 DEF Fields
  <2>4. <<0>> # <<>> /\ Head(<<0>>) = 0
    OBVIOUS
  <2>. QED BY <1>1, <2>1, <2>3, <2>4 DEF Calm, Announced
<1>7. CASE PrintBlock
  <2>1. /\ stdout' = Append(stdout, printed + 1) /\ printed + 1 \in Nat /\ stdout \in Seq(Nat)
        /\ UNCHANGED <<launch, gen, proc, skipped, lock, sup, plugin>>
    BY <1>7, StageTypes, ReaderAssumption DEF PrintBlock, Types, Plain
  <2>2. stdout # <<>> => stdout' # <<>> /\ Head(stdout') = Head(stdout)
    BY <2>1, HeadOfAppend
  <2>3. Now' = Now
    BY <2>1 DEF Now
  <2>. QED BY <1>1, <2>1, <2>2, <2>3 DEF Calm, Announced
<1>8. CASE TakeLine
  BY <1>1, <1>8, TakeLineCalm
<1>9. ASSUME NEW g \in Launches, LogLine(g) PROVE Calm' /\ Announced'
  BY <1>1, <1>9, LogLineCalm
<1>10. ASSUME NEW g \in Launches, SendLine(g) PROVE Calm' /\ Announced'
  BY <1>1, <1>10, SendLineCalm
<1>11. ASSUME NEW g \in Launches, PickReader(g) \/ ReadLine(g) \/ PushBlock(g)
       PROVE  Calm' /\ Announced'
  BY <1>1, <1>11, LoopCalm
<1>12. ASSUME NEW g \in Launches, LinesEnd(g) \/ StoreBlock(g) \/ BlocksEnd(g)
       PROVE  Calm' /\ Announced'
  BY <1>1, <1>12, EndCalm
<1>13. CASE ProcessStopped \/ Reload \/ ReloadStopped \/ PluginTerminates \/ AskShutdown
            \/ SuperviserAsked \/ SuperviserStopped \/ ReadFlowDone
  <2>1. /\ Now' = Now /\ skipped' = skipped /\ gen' = gen /\ stdout' = stdout
        /\ plugin = "down" => plugin' = "down"
    BY <1>13 DEF ProcessStopped, Reload, ReloadStopped, PluginTerminates, AskShutdown,
                 SuperviserAsked, SuperviserStopped, ReadFlowDone, Drained, Now
  <2>2. /\ proc' \in {"stopping", "exited"} => lock' # "free"
        /\ lock' = "sup" => sup' = "stopping"
        /\ sup' = "closing" => gen # 0
    BY <1>1, <1>13
    DEF Calm, Faultless, ProcessStopped, Reload, ReloadStopped, PluginTerminates, AskShutdown,
        SuperviserAsked, SuperviserStopped, ReadFlowDone, Drained
  <2>. QED BY <1>1, <2>1, <2>2, CalmAside
<1>14. CASE SuperviserStops
  <2>1. /\ Now' = Now /\ skipped' = skipped /\ gen' = gen /\ stdout' = stdout
        /\ plugin' = plugin
    BY <1>14 DEF SuperviserStops, Now
  <2>2. /\ proc' \in {"stopping", "exited"} => lock' # "free"
        /\ lock' = "sup" => sup' = "stopping"
        /\ sup' = "closing" => gen # 0
    BY <1>1, <1>14 DEF Calm, SuperviserStops
  <2>. QED BY <1>1, <2>1, <2>2, CalmAside
<1>15. ASSUME NEW b \in Blocks, UploadFile(b) \/ RemoveFile(b) PROVE Calm' /\ Announced'
  BY <1>1, <1>15, CalmAside DEF UploadFile, RemoveFile, Now, Calm
<1>16. CASE EndLogPlugins
  <2>1. CASE LinesOf = 0 \/ op = "lines"
    <3>1. Now' = Now
      BY <1>16, <2>1, EndElsewhere
    <3>2. /\ skipped' = skipped /\ gen' = gen /\ stdout' = stdout /\ proc' = proc
          /\ lock' = lock /\ (plugin = "down" => plugin' = "down")
      BY <1>16 DEF EndLogPlugins
    <3>3. lock' # "sup"
      BY <1>1, <1>16 DEF EndLogPlugins, Calm
    <3>4. sup' = "closing" => gen # 0
      BY <1>16, <2>1 DEF EndLogPlugins, LinesOf, Types, Plain, Launched, Starting
    <3>. QED BY <1>1, <3>1, <3>2, <3>3, <3>4, CalmAside DEF Calm
  <2>2. CASE LinesOf # 0 /\ op # "lines"
    <3>1. gen \in Launches /\ gen' = gen /\ launch' = [launch EXCEPT ![gen].closed = TRUE]
          /\ sup = "plugins" /\ UNCHANGED <<stdout, skipped, proc, lock>> /\ plugin' = "down"
          /\ sup' = "closing" /\ gen # 0
      BY <1>16, <2>2 DEF EndLogPlugins, Types, Plain, Launches, LinesOf
    <3>2. Now' = [Now EXCEPT !.closed = TRUE]
      BY <3>1 DEF Now, Types, Launched
    <3>3. /\ Now'.lines = Now.lines /\ Now'.pump = Now.pump /\ Now'.at = Now.at
          /\ Now'.line = Now.line
          /\ Now'.consumer = Now.consumer /\ Now'.blocks = Now.blocks
          /\ Now'.versioned = Now.versioned /\ Now'.closed
      BY <1>2, <3>2 DEF Fields
    <3>. QED BY <1>1, <3>1, <3>3 DEF Calm, Announced
  <2>. QED BY <2>1, <2>2
<1>. QED
  BY <1>1, <1>3, <1>4, <1>5, <1>6, <1>7, <1>8, <1>9, <1>10, <1>11, <1>12, <1>13, <1>14,
     <1>15, <1>16, <1>17
  DEF Next, PipelineStep, Failure, UploadStep, ShutdownStep

\* With no output left, all the printed blocks but the one that superviser.start
\* may hold have been sent.
LEMMA AllSent ==
  ASSUME Types, Flow, Closes, Calm, StopReached, Output = {},
         sup \notin {"closing", "done", "dead"},
         NEW b \in Written, b < printed, stop = 0 \/ b =< stop
  PROVE  b \in Stored \cup Queued \cup Pushed \cup Lined \cup Sent
<1>1. CASE plugin = "down"
  BY <1>1 DEF StopReached
<1>2. CASE plugin # "down"
  <2>1. ~Now.closed
    BY <1>2, NewLaunch DEF Closes, Now, Types, Plain, Launches
  <2>2. Reading
    BY <2>1 DEF Calm, Reading
  <2>3. b =< printed /\ b \in Nat /\ printed \in Nat /\ b # 0
    BY StageTypes, ReaderAssumption DEF Types, Plain
  <2>4. b \in Stored \cup Queued \cup Pushed \cup Lined \cup Held
    BY <1>2, <2>2, <2>3 DEF Flow, NoGaps
  <2>5. printed \in Written
    BY <2>3, ReaderAssumption DEF Written, Archived, Blocks, Types, Plain
  <2>6. printed \in Stored \cup Queued \cup Pushed \cup Lined \cup Held
    BY <1>2, <2>2, <2>3, <2>5 DEF Flow, NoGaps
  <2>7. b \notin Held
    <3>1. SUFFICES ASSUME b \in Held PROVE FALSE
      OBVIOUS
    <3>2. Held = {b} /\ printed # b
      BY <2>3, <3>1 DEF Held
    <3>3. printed < b
      BY <2>3, <2>6, <3>2 DEF Flow, InOrder, Chain, Before
    <3>. QED BY <2>3, <3>3
  <2>. QED BY <2>4, <2>7
<1>. QED BY <1>1, <1>2

\* The blocks go forward and the shutdown does not end.
LEMMA OnwardEnds ==
  ASSUME Types, Calm, skipped' = {}, StopReached, DueStored, Forward,
         from' = from, mark' = mark, stop' = stop, ended' = ended, gen' = gen,
         plugin' # "up" => plugin # "up",
         sup' = sup \/ (sup \in {"up", "stop"} /\ sup' \in {"stop", "stopping"})
  PROVE  StopReached' /\ DueStored'
<1>1. Written' = Written /\ Due' = Due /\ Due \subseteq Written
  BY DEF Written, Archived, Due
<1>2. \A a \in Written : a \in kept => a \in kept'
  BY DEF Forward, Stored, Calm
<1>3. StopReached'
  BY <1>1 DEF StopReached, Forward
<1>4. DueStored'
  BY <1>1, <1>2 DEF DueStored, Forward
<1>. QED BY <1>3, <1>4

\* The stop block is queued with all the blocks below it.
LEMMA PushBlockEnds ==
  ASSUME Types, Own, Flow, Calm, StopReached, DueStored, Forward, NEW g \in Launches,
         PushBlock(g), skipped' = {}, stop' = stop
  PROVE  StopReached' /\ DueStored'
<1>1. /\ Now.at = "push" /\ g = gen /\ Now = launch[gen] /\ gen' = gen
      /\ UNCHANGED <<from, mark, ended, sup>>
      /\ plugin' # plugin => stop # 0 /\ Now.block >= stop
      /\ Pushed = {Now.block}
  BY PushBlockTurn DEF PushBlock, Ask, setup, node, history, Pushed
<1>2. CASE plugin # "up" \/ plugin' = "up"
  BY <1>1, <1>2, OnwardEnds
<1>3. CASE plugin = "up" /\ plugin' # "up"
  <2>1. Written' = Written
    BY <1>1 DEF Written, Archived
  <2>2. Due' = Due /\ Due \subseteq Written
    BY <1>1, <2>1 DEF Due
  <2>3. DueStored'
    <3>1. \A a \in Written : a \in kept => a \in kept'
      BY DEF Forward, Stored, Calm
    <3>. QED BY <1>1, <2>2, <3>1 DEF DueStored, Forward
  <2>4. Reading /\ Now.block \in Nat /\ stop \in Nat
    BY <1>1, StageTypes, ReaderAssumption DEF Calm, Reading, Types, Plain
  <2>5. Now.block \in (Stored \cup Queued)'
    <3>1. PICK q : q = Append(Now.blocks, Now.block)
                   /\ Turn([Now EXCEPT !.blocks = q, !.block = 0, !.at = "pick"])
      BY PushBlockTurn
    <3>2. Now'.blocks = q
      BY <3>1, StageTypes DEF Turn, Fields
    <3>3. Now.blocks \in Seq(Nat) /\ Sorted(Now.blocks)
      BY StageTypes DEF Flow, InOrder
    <3>4. Before(Elems(Now.blocks), {Now.block})
      BY <1>1 DEF Flow, InOrder, Chain, Before, Queued
    <3>5. Now.block \in Elems(q)
      BY <2>4, <3>1, <3>3, <3>4, ElemsOfAppend
    <3>. QED BY <3>2, <3>5 DEF Queued
  <2>6. ASSUME NEW a \in Written, a =< stop PROVE a \in (Stored \cup Queued)'
    <3>1. a \in Nat /\ a # 0 /\ a =< Now.block
      BY <1>1, <1>3, <2>4, <2>6, StageTypes
    <3>2. CASE a = Now.block
      BY <2>5, <3>2
    <3>3. CASE a < Now.block
      <4>1. a \in Stored \cup Queued \cup Pushed \cup Lined \cup Sent
        BY <1>1, <2>4, <3>3 DEF Flow, NoGaps, Closed
      <4>2. a \notin Lined \cup Sent
        <5>1. Before(Pushed, Lined \cup Sent)
          BY StageTypes DEF Flow, InOrder, Chain, Before
        <5>2. a \in Lined \cup Sent => Now.block < a
          BY <1>1, <3>1, <5>1 DEF Before
        <5>. QED BY <2>4, <3>1, <3>3, <5>2
      <4>. QED BY <1>1, <3>3, <3>1, <2>4, <4>1, <4>2 DEF Forward
    <3>. QED BY <2>4, <3>1, <3>2, <3>3
  <2>7. StopReached'
    BY <1>1, <1>3, <2>1, <2>6 DEF StopReached
  <2>. QED BY <2>3, <2>7
<1>. QED BY <1>2, <1>3

\* The superviser has stopped the process: the blocks that are due are marked.
LEMMA MarkEnds ==
  ASSUME Types, Own, Flow, Closes, Calm, StopReached, stdout = <<>>, Forward,
         sup \notin {"closing", "done", "dead"}, sup' = "plugins", mark' = printed,
         UNCHANGED <<from, plugin>>, stop' = stop
  PROVE  StopReached' /\ DueStored'
<1>1. Written' = Written
  BY DEF Written, Archived
<1>2. StopReached'
  BY <1>1 DEF StopReached, Forward
<1>3. Output = {}
  BY ElemsOfEmpty DEF Output
<1>4. ASSUME NEW b \in Written, b < printed, stop = 0 \/ b =< stop
      PROVE  b \in Stored \cup Queued \cup Pushed \cup Lined \cup Sent
  BY <1>3, <1>4, AllSent
<1>5. DueStored'
  BY <1>1, <1>4 DEF Due, DueStored, Forward
<1>. QED BY <1>2, <1>5

\* The consumer of the launch that the plugin ended is done: all is stored.
LEMMA DoneEnds ==
  ASSUME Types, Closes, Calm, DueStored, ReadFlowDone
  PROVE  DueStored'
<1>1. Due \subseteq kept
  <2>1. CASE ended # gen
    BY <2>1 DEF ReadFlowDone, DueStored
  <2>2. CASE ended = gen
    <3>1. gen \in Launches /\ Now = launch[gen] /\ Now.consumer = "done"
      BY <2>2 DEF ReadFlowDone, Calm, Now, Types, Plain, Launches
    <3>2. Now.blocks = <<>> /\ Now.at = "done" /\ Now.lines = <<>> /\ Now.pump # "send"
      BY <3>1 DEF Calm, Closes
    <3>3. Queued = {} /\ Pushed = {} /\ Lined = {} /\ Sent = {} /\ Stored = kept
      BY <3>2, ElemsOfEmpty DEF Queued, Pushed, Lined, Sent, Stored, Calm
    <3>. QED BY <3>3 DEF ReadFlowDone, DueStored
  <2>. QED BY <2>1, <2>2
<1>2. Due' = Due /\ kept' = kept /\ sup' = "done"
  BY DEF ReadFlowDone, setup, history, Due, Written, Archived
<1>. QED BY <1>1, <1>2 DEF DueStored

\* Nothing is due after a restart, or a crash.
LEMMA EndsForgotten == ASSUME Restart \/ Crash PROVE StopReached' /\ DueStored'
<1>1. mark' = 0 /\ plugin' = "up"
  BY DEF Restart, Crash, Forget
<1>2. \A a \in Written' : ~(a < 0)
  BY DEF Written, Blocks
<1>3. Due' = {}
  BY <1>1, <1>2 DEF Due
<1>. QED BY <1>1, <1>3 DEF StopReached, DueStored

\* One step of the node, action by action.
LEMMA EndsStep ==
  ASSUME Types, Starts, Own, Flow, Closes, Clean, [Next]_vars, ~crossed', Faultless'
  PROVE  StopReached' /\ DueStored'
<1>. USE DEF setup, node, control, files, history
<1>1. /\ Faultless /\ stop' = stop /\ Calm /\ Announced /\ StopReached /\ DueStored
      /\ ~(sup # "dead" /\ ProcessExits) /\ ~StdinEnds /\ ~StdinTerminates
      /\ \A g \in Launches : ~ReadFails(g) /\ ~ReadTooEarly(g) /\ ~DrainLine(g)
                             /\ ~StoreHangs(g) /\ ~StoreFails(g) /\ ~FailedLoop(g)
  BY NoFailure
<1>2. skipped' = {}
  BY CalmStep DEF Calm
<1>3. CASE Restart \/ Crash
  BY <1>3, EndsForgotten
<1>4. Forward \/ Restart \/ Crash
  BY <1>1, FlowStep DEF Losing
<1>5. ASSUME Forward, UNCHANGED vars PROVE StopReached' /\ DueStored'
  BY <1>1, <1>2, <1>5, OnwardEnds DEF vars
<1>6. ASSUME Forward, Launch PROVE StopReached' /\ DueStored'
  <2>1. gen' = gen + 1 /\ UNCHANGED <<kept, from, mark, sup, ended, plugin>> /\ gen \in Nat
    BY <1>6, ReaderAssumption DEF Launch, Types, Plain
  <2>7. Quiet
    BY <1>6 DEF Launch
  <2>2. Written' = Written
    BY <2>1 DEF Written, Archived
  <2>3. Due' = Due /\ Due \subseteq Written
    BY <1>1, <2>1, <2>2 DEF Due
  <2>4. StopReached'
    BY <1>1, <1>6, <2>1, <2>2 DEF StopReached, Forward
  <2>5. sup = "closing" => Due \subseteq kept
    <3>1. SUFFICES ASSUME sup = "closing" PROVE Due \subseteq kept
      OBVIOUS
    <3>2. gen # 0 /\ Now = launch[gen]
      BY <1>1, <3>1 DEF Calm, Now
    <3>3. Now.lines = <<>> /\ Now.pump = "read" /\ Now.at = "read" /\ Now.blocks = <<>>
      BY <2>1, <2>7, <3>2 DEF Quiet
    <3>4. Queued = {} /\ Pushed = {} /\ Lined = {} /\ Sent = {} /\ Stored = kept
      BY <1>1, <3>3, ElemsOfEmpty DEF Queued, Pushed, Lined, Sent, Stored, Calm
    <3>. QED BY <1>1, <3>1, <3>4 DEF DueStored
  <2>6. DueStored'
    BY <1>1, <1>6, <2>1, <2>3, <2>5 DEF DueStored, Forward
  <2>. QED BY <2>4, <2>6
<1>7. ASSUME NEW g \in Launches, Forward, PushBlock(g) PROVE StopReached' /\ DueStored'
  BY <1>1, <1>2, <1>7, PushBlockEnds
<1>8. ASSUME Forward, SuperviserStops PROVE StopReached' /\ DueStored'
  <2>1. CASE proc = "running"
    BY <1>1, <1>2, <1>8, <2>1, OnwardEnds DEF SuperviserStops
  <2>2. CASE proc # "running"
    <3>1. stdout = <<>>
      BY <1>1, <1>8, <2>2 DEF SuperviserStops, Calm, Own, Types, Plain
    <3>. QED BY <1>1, <1>8, <2>2, <3>1, MarkEnds DEF SuperviserStops
  <2>. QED BY <2>1, <2>2
<1>9. ASSUME Forward, SuperviserStopped PROVE StopReached' /\ DueStored'
  <2>1. sup = "stopping"
    BY <1>1, <1>9 DEF SuperviserStopped, Drained, Calm
  <2>. QED BY <1>1, <1>9, <2>1, MarkEnds DEF SuperviserStopped, Drained
<1>10. ASSUME Forward, EndLogPlugins PROVE StopReached' /\ DueStored'
  <2>1. /\ sup = "plugins" /\ UNCHANGED <<kept, from, mark, gen>> /\ ended' = gen
        /\ LinesOf = 0 => sup' = "done"
        /\ LinesOf # 0 => sup' = "closing"
    BY <1>10 DEF EndLogPlugins
  <2>2. Due' = Due /\ Due \subseteq Written
    BY <1>1, <2>1 DEF Due, Written, Archived
  <2>3. StopReached'
    BY <2>1 DEF StopReached
  <2>4. CASE LinesOf = 0
    <3>1. Now = Unlaunched \/ Now = Fresh
      BY <2>4, ReaderAssumption DEF LinesOf, Starts, Now, Types, Plain
    <3>2. Queued = {} /\ Pushed = {} /\ Lined = {} /\ Sent = {} /\ Stored = kept
      BY <1>1, <3>1, NewLaunch, ElemsOfEmpty
      DEF Queued, Pushed, Lined, Sent, Stored, Calm
    <3>. QED BY <1>1, <2>1, <2>2, <2>3, <2>4, <3>2 DEF DueStored
  <2>5. CASE LinesOf # 0
    BY <1>1, <1>10, <2>1, <2>2, <2>3, <2>5 DEF DueStored, Forward
  <2>. QED BY <2>4, <2>5
<1>11. CASE ReadFlowDone
  BY <1>1, <1>11, DoneEnds DEF StopReached, ReadFlowDone
<1>12. ASSUME Forward,
              LaunchLines \/ LaunchReader \/ Create \/ PrintBlock \/ ProcessStopped
              \/ Reload \/ ReloadStopped \/ PluginTerminates \/ AskShutdown
              \/ SuperviserAsked \/ TakeLine
       PROVE  StopReached' /\ DueStored'
  <2>1. /\ UNCHANGED <<from, mark, ended, gen>>
        /\ plugin' # "up" => plugin # "up"
        /\ sup' = sup \/ (sup \in {"up", "stop"} /\ sup' \in {"stop", "stopping"})
    BY <1>1, <1>12
    DEF LaunchLines, LaunchReader, Create, PrintBlock, ProcessStopped, Reload,
        ReloadStopped, PluginTerminates, AskShutdown, SuperviserAsked, TakeLine, Drained,
        Faultless
  <2>. QED BY <1>1, <1>2, <1>12, <2>1, OnwardEnds
<1>13. ASSUME Forward, NEW g \in Launches,
              LogLine(g) \/ SendLine(g) \/ PickReader(g) \/ ReadLine(g) \/ LinesEnd(g)
              \/ StoreBlock(g) \/ BlocksEnd(g)
       PROVE  StopReached' /\ DueStored'
  <2>1. /\ UNCHANGED <<from, mark, ended, gen, plugin, sup>>
    BY <1>13 DEF LogLine, SendLine, PickReader, ReadLine, LinesEnd, StoreBlock, BlocksEnd
  <2>. QED BY <1>1, <1>2, <1>13, <2>1, OnwardEnds
<1>14. ASSUME Forward, NEW b \in Blocks, UploadFile(b) \/ RemoveFile(b)
       PROVE  StopReached' /\ DueStored'
  <2>1. /\ UNCHANGED <<from, mark, ended, gen, plugin, sup>>
    BY <1>14 DEF UploadFile, RemoveFile
  <2>. QED BY <1>1, <1>2, <1>14, <2>1, OnwardEnds
<1>. QED
  BY <1>1, <1>3, <1>4, <1>5, <1>6, <1>7, <1>8, <1>9, <1>10, <1>11, <1>12, <1>13, <1>14
  DEF Next, PipelineStep, Failure, UploadStep, ShutdownStep

\* As long as every launch finds the last one with nothing to do.
Cleanly == ~crossed => Clean

LEMMA CleanlyStep ==
  ASSUME Types, Starts, InFlow, Closes, Cleanly, [Next]_vars PROVE Cleanly'
<1>. SUFFICES ASSUME ~crossed', Faultless'
              PROVE  Calm' /\ Announced' /\ StopReached' /\ DueStored'
  BY DEF Cleanly, Clean
<1>1. CASE crossed
  <2>1. Restart \/ Crash
    BY <1>1, Crossing
  <2>2. Calm' /\ Announced'
    BY <2>1, CalmForgotten DEF Restart, Crash
  <2>. QED BY <2>1, <2>2, EndsForgotten
<1>2. CASE ~crossed
  BY <1>2, CalmStep, EndsStep DEF Cleanly, InFlow
<1>. QED BY <1>1, <1>2

\* Theorem: a shutdown of a node that has not failed stores all the blocks that
\* the process printed, up to the stop block, except for one that superviser.start
\* may hold: for every chain and every capacity, as long as no launch found the last
\* one at work (superviser.go, Shutdown; mindreader.go, Launch and Stop).
THEOREM CleanStopIsComplete == Spec => []CleanStopLosesOneLine
<1>1. ASSUME Types, ~crossed => Clean PROVE CleanStopLosesOneLine
  <2>1. SUFFICES ASSUME sup = "done", source = "process", failures = 0, ~crossed,
                        NEW b \in 1 .. mark - 1, Archived(b), stop = 0 \/ b =< stop
                 PROVE  b \in kept
    BY DEF CleanStopLosesOneLine
  <2>2. b \in Blocks /\ b < mark
    BY <1>1, <2>1, ReaderAssumption DEF Blocks, Types, Plain
  <2>. QED BY <1>1, <2>1, <2>2 DEF Clean, Faultless, DueStored, Due, Written
<1>2. Init => Types /\ Starts /\ InFlow /\ Closes /\ Cleanly
  <2>1. ASSUME Init PROVE Clean
    <3>1. Now = Unlaunched /\ skipped = {} /\ proc = "none" /\ lock = "free" /\ sup = "up"
          /\ plugin = "up"
      BY <2>1 DEF Init, Now
    <3>2. Calm /\ Announced
      BY <3>1, NewLaunch DEF Calm, Announced, Unlaunched
    <3>. QED BY <3>1, <3>2 DEF Clean, StopReached, DueStored
  <2>. QED BY <2>1, TypesInit, StartsInit, OwnInit, FlowInit, ClosesInit DEF InFlow, Cleanly
<1>3. Types /\ Starts /\ InFlow /\ Closes /\ Cleanly /\ [Next]_vars
      => (Types /\ Starts /\ InFlow /\ Closes /\ Cleanly)'
  BY TypesStep, StartsStep, InFlowStep, ClosesStep, CleanlyStep
<1>4. Types /\ Cleanly => CleanStopLosesOneLine
  BY <1>1 DEF Cleanly
<1>. QED BY <1>2, <1>3, <1>4, PTL DEF Spec

=============================================================================

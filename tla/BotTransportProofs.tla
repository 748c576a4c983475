------------------------- MODULE BotTransportProofs -------------------------
(* Proofs about BotTransport: as long as no transfer has failed, host and   *)
(* stick stay in step, for any number of calls.                             *)
EXTENDS BotTransport, TLAPS

\* What is on the pipes at each point of a call, as long as both ends are in
\* step.
PipeShape ==
    /\ pc \in {"idle", "cbw", "senseCbw"} => dev = "ready" /\ inq = <<>>
    /\ pc = "data" => cmd \in {"in", "out"}
    /\ pc = "data" /\ cmd = "out" => dev = "data" /\ devTag = cbwTag /\ inq = <<>>
    /\ pc = "data" /\ cmd = "in" =>
          /\ dev = "ready"
          /\ \E first, s : /\ inq = <<first, Csw(cbwTag, s)>>
                           /\ s = 0 => cbwTag \in good
                           /\ s \in {0, 1}
    /\ pc = "csw" =>
          /\ dev = "ready"
          /\ \E s \in {0, 1} : inq = <<Csw(cbwTag, s)>> /\ (s = 0 => cbwTag \in good)
    /\ pc = "senseData" => dev = "ready" /\ \E a, b : inq = <<a, b>>
    /\ pc = "senseCsw" => dev = "ready" /\ \E a : inq = <<a>>

InStepInv == inStep => PipeShape /\ OwnSuccess

\* Reading one item from the IN pipe.
LEMMA PipeFacts ==
    /\ \A a : <<a>> # <<>> /\ Head(<<a>>) = a /\ Tail(<<a>>) = <<>>
    /\ \A a, b : <<a, b>> # <<>> /\ Head(<<a, b>>) = a /\ Tail(<<a, b>>) = <<b>>
    /\ \A a : Append(<<>>, a) = <<a>>
    /\ \A a, b : <<>> \o <<a, b>> = <<a, b>>
OBVIOUS

\* Nothing is on the pipes at first.
LEMMA InitInStep == Init => InStepInv
BY DEF Init, InStepInv, PipeShape, OwnSuccess

\* Every transfer keeps host and stick in step.
LEMMA NextInStep == InStepInv /\ [Next]_vars => InStepInv'
<1> SUFFICES ASSUME InStepInv, [Next]_vars, inStep' PROVE PipeShape' /\ OwnSuccess'
  BY DEF InStepInv
<1>1. CASE SkipSync
  <2>1. inStep /\ PipeShape /\ pc = "idle"
    BY <1>1 DEF SkipSync, InStepInv
  <2> QED
    BY <1>1, <2>1 DEF SkipSync, PipeShape, OwnSuccess, devVars
<1>2. CASE Call
  BY <1>2 DEF Call, InStepInv, PipeShape, OwnSuccess, devVars
<1>3. CASE Unplug
  BY <1>3 DEF Unplug, hostVars, devVars, InStepInv, PipeShape, OwnSuccess, Csw
<1>4. CASE SendCbw
  <2>1. inStep /\ dev = "ready" /\ inq = <<>> /\ pc = "cbw" /\ cbwTag' = cbwTag /\ cmd' = cmd
    BY <1>4 DEF SendCbw, InStepInv, PipeShape, Goto
  <2>2. OwnSuccess'
    BY <1>4 DEF SendCbw, Goto, OwnSuccess
  <2>3. TakeCbw(cbwTag, cmd) /\ pc' = IF cmd \in {"in", "out"} THEN "data" ELSE "csw"
    BY <1>4 DEF SendCbw, Goto
  <2>4. CASE cmd = "in"
    <3>1. /\ dev' = "ready"
          /\ \E first, s : /\ inq' = <<first, Csw(cbwTag, s)>>
                           /\ s = 0 => cbwTag \in good'
                           /\ s \in {0, 1}
      BY <2>1, <2>3, <2>4, PipeFacts DEF TakeCbw
    <3> QED
      BY <2>1, <2>2, <2>3, <2>4, <3>1 DEF PipeShape, Csw
  <2>5. CASE cmd = "out"
    BY <2>1, <2>2, <2>3, <2>5 DEF TakeCbw, PipeShape
  <2>6. CASE cmd \notin {"in", "out"}
    <3>1. /\ dev' = "ready"
          /\ \E s \in {0, 1} : inq' = <<Csw(cbwTag, s)>> /\ (s = 0 => cbwTag \in good')
      BY <2>1, <2>3, <2>6, PipeFacts DEF TakeCbw
    <3> QED
      BY <2>1, <2>2, <2>3, <2>6, <3>1 DEF PipeShape, Csw
  <2> QED
    BY <2>4, <2>5, <2>6
<1>5. CASE SendCbwFails \/ DataOutFails \/ DataInFails \/ CswFails \/ SenseCbwFails
  BY <1>5 DEF SendCbwFails, DataOutFails, DataInFails, CswFails, SenseCbwFails, Abort
<1>6. CASE DataOut
  <2>1. inStep /\ dev = "data" /\ devTag = cbwTag /\ inq = <<>> /\ cbwTag' = cbwTag /\ pc' = "csw"
    BY <1>6 DEF DataOut, InStepInv, PipeShape, Goto
  <2>2. OwnSuccess'
    BY <2>1 DEF OwnSuccess
  <2>3. /\ dev' = "ready"
        /\ \E s \in {0, 1} : inq' = <<Csw(cbwTag, s)>> /\ (s = 0 => cbwTag \in good')
    BY <1>6, <2>1, PipeFacts DEF DataOut, TakeData
  <2> QED
    BY <2>1, <2>2, <2>3 DEF PipeShape, Csw
<1>7. CASE DataIn
  <2>1. inStep /\ pc = "data" /\ cmd = "in" /\ pc' = "csw" /\ cbwTag' = cbwTag /\ HandOver
    BY <1>7 DEF DataIn, Goto
  <2>2. PICK first, s : /\ inq = <<first, Csw(cbwTag, s)>>
                        /\ s = 0 => cbwTag \in good
                        /\ s \in {0, 1}
    BY <2>1 DEF InStepInv, PipeShape
  <2>3. inq' = <<Csw(cbwTag, s)>> /\ good' = good /\ dev' = dev /\ dev = "ready"
    BY <2>1, <2>2, PipeFacts DEF HandOver, InStepInv, PipeShape
  <2> QED
    BY <2>1, <2>2, <2>3 DEF PipeShape, OwnSuccess, Csw
<1>8. CASE CswGood \/ CswSyncRejected \/ CswBad
  <2>1. inStep /\ pc = "csw" /\ HandOver /\ cbwTag' = cbwTag /\ cmd' = cmd /\ answer' = Head(inq).tag
    BY <1>8 DEF CswGood, CswSyncRejected, CswBad, Return, Goto
  <2>2. PICK s \in {0, 1} : inq = <<Csw(cbwTag, s)>> /\ (s = 0 => cbwTag \in good)
    BY <2>1 DEF InStepInv, PipeShape
  <2>3. Head(inq) = Csw(cbwTag, s) /\ inq' = <<>>
    BY <2>1, <2>2, PipeFacts DEF HandOver
  <2>4. answer' = cbwTag /\ StatusByte(Head(inq)) = {s}
    BY <2>1, <2>3 DEF Csw, StatusByte
  <2>5. dev' = "ready" /\ good' = good
    BY <2>1 DEF HandOver, InStepInv, PipeShape
  <2>6. pc' \in {"idle", "senseCbw"}
    BY <1>8 DEF CswGood, CswSyncRejected, CswBad, Return, Goto
  <2>7. PipeShape'
    BY <2>3, <2>5, <2>6 DEF PipeShape
  <2>8. OwnSuccess'
    BY <1>8, <2>1, <2>2, <2>4, <2>5
    DEF OwnSuccess, CswGood, CswSyncRejected, CswBad, Return, Goto
  <2> QED
    BY <2>7, <2>8
<1>9. CASE SenseCbw
  <2>1. inStep /\ dev = "ready" /\ inq = <<>> /\ pc' = "senseData"
    BY <1>9 DEF SenseCbw, InStepInv, PipeShape, Goto
  <2>2. dev' = "ready" /\ \E a, b : inq' = <<a, b>>
    BY <1>9, <2>1, PipeFacts DEF SenseCbw, TakeCbw
  <2> QED
    BY <2>1, <2>2 DEF PipeShape, OwnSuccess
<1>10. CASE SenseData
  <2>1. inStep /\ HandOver /\ pc = "senseData" /\ pc' = "senseCsw"
    BY <1>10 DEF SenseData, Goto
  <2>2. PICK a, b : inq = <<a, b>>
    BY <2>1 DEF InStepInv, PipeShape
  <2>3. inq' = <<b>> /\ dev' = "ready"
    BY <2>1, <2>2, PipeFacts DEF HandOver, InStepInv, PipeShape
  <2> QED
    BY <2>1, <2>3 DEF PipeShape, OwnSuccess
<1>11. CASE SenseCsw
  <2>1. inStep /\ HandOver /\ pc = "senseCsw" /\ pc' = "idle" /\ res' = -1
    BY <1>11 DEF SenseCsw, Return
  <2>2. PICK a : inq = <<a>>
    BY <2>1 DEF InStepInv, PipeShape
  <2>3. inq' = <<>> /\ dev' = "ready"
    BY <2>1, <2>2, PipeFacts DEF HandOver, InStepInv, PipeShape
  <2> QED
    BY <2>1, <2>3 DEF PipeShape, OwnSuccess
<1>13. CASE NextStick
  BY <1>13 DEF NextStick, PipeShape, OwnSuccess
<1>12. CASE UNCHANGED vars
  BY <1>12 DEF vars, hostVars, devVars, stickVars, InStepInv, PipeShape, OwnSuccess, Csw
<1> QED
  BY <1>1, <1>2, <1>3, <1>4, <1>5, <1>6, <1>7, <1>8, <1>9, <1>10, <1>11, <1>12, <1>13
  DEF Next, Transfer

\* So they stay in step.
LEMMA StaysInStep == Spec => []InStepInv
<1>1. Init => InStepInv
  BY InitInStep
<1>2. InStepInv /\ [Next]_vars => InStepInv'
  BY NextInStep
<1> QED
  BY <1>1, <1>2, PTL DEF Spec

\* Every call leaves the pipes clean as long as no transfer failed.
THEOREM PipesClean == Spec => []CallsLeavePipesClean
<1>1. InStepInv => CallsLeavePipesClean
  BY DEF InStepInv, PipeShape, CallsLeavePipesClean
<1> QED
  BY <1>1, StaysInStep, PTL

\* A success of scsi_command is this command's own as long as no transfer failed.
THEOREM SuccessIsTrue == Spec => []SuccessIsTrueInStep
<1>1. InStepInv => SuccessIsTrueInStep
  BY DEF InStepInv, SuccessIsTrueInStep
<1> QED
  BY <1>1, StaysInStep, PTL

\* Pulling the stick out never turns into a success.
THEOREM GoneFails == Spec => NoSuccessWhenGone
<1>1. [Next]_vars => [gone /\ pc # "idle" /\ pc' = "idle" => res' = -1]_vars
  BY DEF Next, Transfer, SkipSync, Call, Unplug, NextStick, SendCbw, SendCbwFails, DataOut,
     DataOutFails, DataIn, DataInFails, CswGood, CswSyncRejected, CswBad, CswFails, SenseCbw, SenseCbwFails,
     SenseData, SenseCsw, Abort, Return, Goto, hostVars
<1> QED
  BY <1>1, PTL DEF Spec, NoSuccessWhenGone

-----------------------------------------------------------------------------
(* Type correctness.                                                        *)

\* The tags on the pipes are those of commands: a call and a stick that waits for
\* data have one.
Tagged ==
    /\ pc # "idle" => cbwTag # 0
    /\ dev = "data" => devTag # 0

TypeInv == TypeOK /\ Tagged

\* Items stay items when g_tag grows.
LEMMA ItemsGrow ==
    ASSUME NEW t \in Nat, NEW q \in Seq(Items(t))
    PROVE  q \in Seq(Items(t + 1))
<1>1. Items(t) \subseteq Items(t + 1)
  BY DEF Items
<1> QED
  BY <1>1

\* A pipe stays one of items when items are put on it or taken off.
LEMMA PipeGrows ==
    ASSUME NEW S, NEW q \in Seq(S), NEW a \in S, NEW b \in S
    PROVE  /\ Append(q, a) \in Seq(S) /\ q \o <<a, b>> \in Seq(S)
           /\ q # <<>> => Tail(q) \in Seq(S)
<1>1. <<a, b>> \in Seq(S)
  OBVIOUS
<1>2. q \o <<a, b>> \in Seq(S)
  BY <1>1
<1> QED
  BY <1>2

\* What the stick puts on the IN pipe are items.
LEMMA StickItems ==
    ASSUME TypeInv, NEW t \in 1 .. gTag - 1
    PROVE  Data(t) \in Items(gTag) /\ Stall(t) \in Items(gTag)
           /\ \A s \in {0, 1} : Csw(t, s) \in Items(gTag)
BY DEF TypeInv, TypeOK, Data, Stall, Csw, Items

\* A command block taken by the stick keeps its state typed.
LEMMA TakeCbwType ==
    ASSUME TypeInv, NEW t \in 1 .. gTag - 1, NEW c, TakeCbw(t, c)
    PROVE  /\ dev' \in {"ready", "data"} /\ devTag' \in 0 .. gTag - 1
           /\ good' \subseteq 1 .. gTag - 1 /\ inq' \in Seq(Items(gTag))
           /\ dev' = "data" => devTag' # 0
<1>1. inq \in Seq(Items(gTag)) /\ good \subseteq 1 .. gTag - 1 /\ gTag \in Nat
  BY DEF TypeInv, TypeOK
<1>2. CASE dev = "data"
  <2>1. Csw(devTag, 1) \in Items(gTag)
    BY <1>2, StickItems DEF TypeInv, TypeOK, Tagged
  <2>2. inq' = Append(inq, Csw(devTag, 1)) /\ dev' = "ready" /\ UNCHANGED <<devTag, good>>
    BY <1>2 DEF TakeCbw
  <2> QED
    BY <1>1, <2>1, <2>2 DEF TypeInv, TypeOK
<1>3. CASE dev # "data"
  <2>1. \E a, b \in Items(gTag) : inq' \in {inq, Append(inq, a), inq \o <<a, b>>}
    BY <1>3, StickItems DEF TakeCbw
  <2>2. inq' \in Seq(Items(gTag))
    BY <1>1, <2>1, PipeGrows
  <2>3. /\ dev' \in {"ready", "data"} /\ devTag' \in {devTag, t} /\ good' \in {good, good \cup {t}}
        /\ dev' = "data" => devTag' = t
    BY <1>3 DEF TakeCbw, TypeInv, TypeOK
  <2> QED
    BY <1>1, <2>2, <2>3 DEF TypeInv, TypeOK
<1> QED
  BY <1>2, <1>3

\* Data taken or refused, and an item handed over, keep the stick's state typed.
LEMMA StickType ==
    ASSUME TypeInv, TakeData \/ RefuseData \/ HandOver \/ UNCHANGED devVars
    PROVE  /\ dev' \in {"ready", "data"} /\ devTag' \in 0 .. gTag - 1
           /\ good' \subseteq 1 .. gTag - 1 /\ inq' \in Seq(Items(gTag))
           /\ dev' = "data" => devTag' # 0
<1>1. inq \in Seq(Items(gTag)) /\ good \subseteq 1 .. gTag - 1 /\ gTag \in Nat
  BY DEF TypeInv, TypeOK
<1>2. dev = "data" => devTag \in 1 .. gTag - 1 /\ \A s \in {0, 1} : Csw(devTag, s) \in Items(gTag)
  BY StickItems DEF TypeInv, TypeOK, Tagged
<1>3. CASE TakeData
  <2>1. dev = "data" /\ dev' = "ready" /\ devTag' = devTag
    BY <1>3 DEF TakeData
  <2>2. PICK s \in {0, 1} :
           inq' = Append(inq, Csw(devTag, s)) /\ good' \in {good, good \cup {devTag}}
    BY <1>3 DEF TakeData
  <2>3. inq' \in Seq(Items(gTag))
    BY <1>1, <1>2, <2>1, <2>2, PipeGrows
  <2> QED
    BY <1>1, <1>2, <2>1, <2>2, <2>3
<1>4. CASE RefuseData
  BY <1>1, <1>2, <1>4 DEF RefuseData, TypeInv, TypeOK
<1>5. CASE HandOver
  BY <1>1, <1>5 DEF HandOver, TypeInv, TypeOK, Tagged
<1>6. CASE UNCHANGED devVars
  BY <1>1, <1>6 DEF devVars, TypeInv, TypeOK, Tagged
<1> QED
  BY <1>3, <1>4, <1>5, <1>6

\* The first item on the IN pipe carries a tag already handed out.
LEMMA HeadTag ==
    ASSUME TypeInv, inq # <<>>
    PROVE  Head(inq).tag \in 0 .. gTag - 1
<1>1. inq \in Seq(Items(gTag)) /\ gTag \in Nat
  BY DEF TypeInv, TypeOK
<1>2. Head(inq) \in Items(gTag)
  BY <1>1
<1>3. Head(inq).tag \in 1 .. gTag - 1
  BY <1>2 DEF Items
<1> QED
  BY <1>1, <1>3

\* A step of the transport keeps the types.
LEMMA NextType == TypeInv /\ [Next]_vars => TypeInv'
<1> SUFFICES ASSUME TypeInv, [Next]_vars PROVE TypeInv'
  OBVIOUS
<1>0. gTag \in Nat \ {0} /\ cbwTag \in 0 .. gTag - 1
  BY DEF TypeInv, TypeOK
<1>1. CASE SkipSync
  <2>1. calls' \in 0 .. MaxCalls /\ cmd' \in Commands /\ cbwTag' \in 0 .. gTag - 1
        /\ answer' \in 0 .. gTag - 1 /\ res' \in {0, -1} /\ pc' = "idle"
    BY <1>0, <1>1, BoundsAssumption DEF SkipSync, TypeInv, TypeOK, Commands
  <2>2. UNCHANGED <<gTag, syncSupported, pc, inStep, dev, devTag, inq, good, gone, sticks, refused, faults>>
    BY <1>1 DEF SkipSync, devVars, stickVars
  <2> QED
    BY <2>1, <2>2 DEF TypeInv, TypeOK, Tagged
<1>2. CASE Call
  <2>1. inq' \in Seq(Items(gTag'))
    BY <1>0, <1>2, ItemsGrow DEF Call, TypeInv, TypeOK, devVars
  <2>2. calls' \in 0 .. MaxCalls /\ cmd' \in Commands /\ pc' = "cbw"
    BY <1>2, BoundsAssumption DEF Call, TypeInv, TypeOK
  <2>3. /\ gTag' \in Nat \ {0} /\ cbwTag' \in 0 .. gTag' - 1 /\ cbwTag' # 0
        /\ answer' \in 0 .. gTag' - 1 /\ devTag' \in 0 .. gTag' - 1
        /\ good' \subseteq 1 .. gTag' - 1
    BY <1>0, <1>2 DEF Call, TypeInv, TypeOK, devVars
  <2>4. UNCHANGED <<syncSupported, res, inStep, dev, devTag, gone, sticks, refused, faults>>
    BY <1>2 DEF Call, devVars, stickVars
  <2> QED
    BY <2>1, <2>2, <2>3, <2>4 DEF TypeInv, TypeOK, Tagged
<1>3. CASE Unplug
  <2>1. gone' \in BOOLEAN
    BY <1>3 DEF Unplug
  <2>2. UNCHANGED <<hostVars, devVars, sticks, refused, faults, calls>>
    BY <1>3 DEF Unplug
  <2> QED
    BY <2>1, <2>2 DEF TypeInv, TypeOK, Tagged, hostVars, devVars
<1>4. CASE NextStick
  <2>1. sticks' \in 1 .. MaxSticks
    BY <1>4, BoundsAssumption DEF NextStick, TypeInv, TypeOK
  <2>2. gone' \in BOOLEAN /\ refused' \in BOOLEAN /\ inStep' \in BOOLEAN
    BY <1>4 DEF NextStick, TypeInv, TypeOK
  <2>3. /\ dev' = "ready" /\ inq' \in Seq(Items(gTag)) /\ cbwTag' \in 0 .. gTag - 1
        /\ res' \in {0, -1} /\ pc' = "idle"
    BY <1>0, <1>4 DEF NextStick
  <2>4. /\ UNCHANGED <<gTag, syncSupported, pc, answer, devTag, good, faults, calls>>
        /\ cmd' \in Commands
    BY <1>4 DEF NextStick, Commands
  <2> QED
    BY <2>1, <2>2, <2>3, <2>4 DEF TypeInv, TypeOK, Tagged
<1>5. CASE SendCbw \/ SenseCbw
  <2>1. cbwTag \in 1 .. gTag - 1 /\ gTag - 1 \in 1 .. gTag - 1
    BY <1>0, <1>5 DEF SendCbw, SenseCbw, TypeInv, Tagged
  <2>2. /\ dev' \in {"ready", "data"} /\ devTag' \in 0 .. gTag - 1
        /\ good' \subseteq 1 .. gTag - 1 /\ inq' \in Seq(Items(gTag))
        /\ dev' = "data" => devTag' # 0
    BY <1>5, <2>1, TakeCbwType DEF SendCbw, SenseCbw
  <2> QED
    BY <1>5, <2>1, <2>2 DEF SendCbw, SenseCbw, Goto, TypeInv, TypeOK, Tagged, stickVars
<1>6. CASE Transfer /\ ~SendCbw /\ ~SenseCbw
  <2>1. TakeData \/ RefuseData \/ HandOver \/ UNCHANGED devVars
    BY <1>6 DEF Transfer, SendCbwFails, DataOut, DataOutFails, DataIn, DataInFails, CswGood,
       CswSyncRejected, CswBad, CswFails, SenseCbwFails, SenseData, SenseCsw, NoAnswer
  <2>2. /\ dev' \in {"ready", "data"} /\ devTag' \in 0 .. gTag - 1
        /\ good' \subseteq 1 .. gTag - 1 /\ inq' \in Seq(Items(gTag))
        /\ dev' = "data" => devTag' # 0
    BY <2>1, StickType
  <2>3. faults' \in 0 .. MaxFaults /\ calls' = calls
    BY <1>6, BoundsAssumption
    DEF Transfer, SendCbwFails, DataOut, DataOutFails, DataIn, DataInFails, CswGood,
       CswSyncRejected, CswBad, CswFails, SenseCbwFails, SenseData, SenseCsw, NoAnswer, Abort,
       Return, Goto, TypeInv, TypeOK
  <2>4. CASE CswBad
    <3>0. inq # <<>>
      BY <2>4 DEF CswBad, HandOver
    <3>1. Head(inq).tag \in 0 .. gTag - 1
      BY <1>0, <3>0, HeadTag
    <3>2. inq' \in Seq(Items(gTag'))
      BY <1>0, <2>2, <2>4, ItemsGrow DEF CswBad
    <3> QED
      BY <1>0, <2>2, <2>3, <2>4, <3>1, <3>2
      DEF CswBad, Goto, TypeInv, TypeOK, Tagged, stickVars
  <2>5. CASE CswGood \/ CswSyncRejected
    <3>0. inq # <<>>
      BY <2>5 DEF CswGood, CswSyncRejected, HandOver
    <3>1. Head(inq).tag \in 0 .. gTag - 1
      BY <1>0, <3>0, HeadTag
    <3> QED
      BY <2>2, <2>3, <2>5, <3>1
      DEF CswGood, CswSyncRejected, Return, TypeInv, TypeOK, Tagged, stickVars
  <2>6. CASE SendCbwFails \/ DataOutFails \/ DataInFails \/ CswFails \/ SenseCbwFails
    BY <2>2, <2>3, <2>6
    DEF SendCbwFails, DataOutFails, DataInFails, CswFails, SenseCbwFails, Abort, Return,
        TypeInv, TypeOK, Tagged, stickVars
  <2>7. CASE DataOut \/ DataIn \/ SenseData \/ SenseCsw
    BY <2>2, <2>3, <2>7
    DEF DataOut, DataIn, SenseData, SenseCsw, Goto, Return, TypeInv, TypeOK, Tagged, stickVars
  <2> QED
    BY <1>6, <2>4, <2>5, <2>6, <2>7 DEF Transfer
<1>7. CASE UNCHANGED vars
  BY <1>7 DEF vars, hostVars, devVars, stickVars, TypeInv, TypeOK, Tagged
<1> QED
  BY <1>1, <1>2, <1>3, <1>4, <1>5, <1>6, <1>7 DEF Next

\* The initial state is well typed.
LEMMA InitType == Init => TypeInv
<1> SUFFICES ASSUME Init PROVE TypeInv
  OBVIOUS
<1>1. inq \in Seq(Items(gTag)) /\ good \subseteq 1 .. gTag - 1
  BY DEF Init
<1>2. sticks \in 1 .. MaxSticks /\ faults \in 0 .. MaxFaults /\ calls \in 0 .. MaxCalls
  BY BoundsAssumption DEF Init
<1>3. /\ gTag \in Nat \ {0} /\ cbwTag \in 0 .. gTag - 1 /\ answer \in 0 .. gTag - 1
      /\ devTag \in 0 .. gTag - 1 /\ res \in {0, -1}
  BY DEF Init
<1>4. cmd \in Commands /\ dev = "ready" /\ pc = "idle"
  BY DEF Init, Commands
<1>5. syncSupported \in BOOLEAN /\ inStep \in BOOLEAN /\ gone \in BOOLEAN /\ refused \in BOOLEAN
  BY DEF Init
<1> QED
  BY <1>1, <1>2, <1>3, <1>4, <1>5 DEF TypeInv, TypeOK, Tagged

\* Host and stick keep well-typed state, over any number of commands and sticks.
THEOREM TransportTypeCorrect == Spec => []TypeOK
<1>1. TypeInv => TypeOK
  BY DEF TypeInv
<1> QED
  BY <1>1, InitType, NextType, PTL DEF Spec

=============================================================================

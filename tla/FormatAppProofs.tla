--------------------------- MODULE FormatAppProofs ---------------------------
(***************************************************************************)
(* The safety of FormatApp for every number of sticks, sessions, other     *)
(* devices, recreations, reports and deaths of the process: sessions and   *)
(* what they own, then the notification and the foreground of the service. *)
(***************************************************************************)
EXTENDS FormatApp, TLAPS, SequenceTheorems

\* A run that has a start command on its way is queued, and has one such command;
\* runs not started yet are at "none".
Queued ==
    /\ \A i \in Runs : i > starts => pc[i] = "none"
    /\ \A k \in 1 .. Len(svcq) : svcq[k].kind = "start" => pc[svcq[k].run] = "queued"
    /\ \A k, l \in 1 .. Len(svcq) :
          svcq[k].kind = "start" /\ svcq[l].kind = "start" /\ svcq[k].run = svcq[l].run
             => k = l

\* What the native globals are at each label while the button guards the service.
Holding == {"wrap", "init", "work", "leave"}
Globals ==
    ~early =>
        /\ \A i \in Runs : pc[i] \in Holding => gService = i /\ refs = {i}
        /\ \A i \in Runs : pc[i] \in {"work", "leave"} => gHandle = i
        /\ \A i \in Runs : pc[i] \in Native => i \in conns
        /\ (\A i \in Runs : pc[i] \notin Holding) => refs = {}

\* While no event has enabled the button during a run, at most one run is
\* unfinished, and none while the button is enabled.
OneRun ==
    ~early => /\ \A i, j \in Unfinished : i = j
              /\ btnEnabled => Unfinished = {}

\* A thread knows its service.
Homed == \A i \in Runs : pc[i] \notin {"none", "queued", "killed"} => home[i] # Null

AppInv == TypeOK /\ Homed /\ EnabledHasDevice /\ Queued /\ OneRun /\ Globals

-----------------------------------------------------------------------------
(* Type correctness, action by action.                                      *)

\* The elements and the tail of a queue that is not empty.
LEMMA HeadTail ==
    ASSUME NEW S, NEW q \in Seq(S), q # <<>>
    PROVE  Head(q) \in S /\ Tail(q) \in Seq(S)
BY HeadTailProperties

\* Sending keeps the type of the queue.
LEMMA SentType ==
    ASSUME NEW S, NEW q \in Seq(S), NEW m \in S
    PROVE  Sent(q, m) \in Seq(S)
BY AppendProperties DEF Sent

\* The bounds are natural numbers.
LEMMA Bounds ==
    /\ MaxPlugs \in Nat /\ MaxStarts \in Nat /\ MaxOthers \in Nat
    /\ MaxRecreate \in Nat /\ MaxReports \in Nat /\ MaxDeaths \in Nat
BY AppBounds

USE Bounds DEF Sticks, Runs, Services, Null

\* What a step leaves alone keeps its type.
LEMMA Frames ==
    /\ EnvType /\ UNCHANGED <<envVars, asked>> => EnvType'
    /\ UiType /\ UNCHANGED <<uiVars, early>> => UiType'
    /\ QueueType /\ UNCHANGED qVars => QueueType'
    /\ ServiceType /\ UNCHANGED <<svcVars, note, starts>> => ServiceType'
    /\ RunType /\ UNCHANGED <<runVars, natVars>> => RunType'
<1>1. EnvType /\ UNCHANGED <<envVars, asked>> => EnvType'
    BY DEF EnvType, envVars
<1>2. UiType /\ UNCHANGED <<uiVars, early>> => UiType'
    BY DEF UiType, uiVars
<1>3. QueueType /\ UNCHANGED qVars => QueueType'
    BY DEF QueueType, qVars
<1>4. ServiceType /\ UNCHANGED <<svcVars, note, starts>> => ServiceType'
    BY DEF ServiceType, svcVars
<1>5. RunType /\ UNCHANGED <<runVars, natVars>> => RunType'
    BY DEF RunType, runVars, natVars
<1> QED BY <1>1, <1>2, <1>3, <1>4, <1>5

\* The scan leaves a device the type of a device, and keeps the rest typed.
LEMMA ScanType ==
    ASSUME EnvType, UiType, NEW btn \in BOOLEAN, scanForUsbDevices(btn), Noted
    PROVE  /\ myUsbDevice' \in Sticks \cup {Null} /\ status' \in Status
           /\ btnEnabled' \in BOOLEAN /\ early' \in BOOLEAN /\ asked' \subseteq Sticks
<1>1. CASE attached = {}
    BY <1>1 DEF scanForUsbDevices, EnvType, UiType, Status, Noted
<1>2. CASE attached # {}
    BY <1>2 DEF scanForUsbDevices, EnvType, UiType, Status, Noted
<1> QED BY <1>1, <1>2

\* The handlers of the activity keep the types.
LEMMA TypeActivity == TypeOK /\ Activity => TypeOK'
<1> SUFFICES ASSUME TypeOK, Activity PROVE TypeOK'
    OBVIOUS
<1> USE DEF TypeOK
<1>0. EnvType /\ UNCHANGED envVars /\ asked' \subseteq Sticks => EnvType'
    BY DEF EnvType, envVars
<1>1. CASE onCreate
    <2>1. EnvType' /\ UiType'
        BY <1>0, <1>1, ScanType DEF onCreate, UiType
    <2> QED BY <1>1, <2>1, Frames DEF onCreate, runVars
<1>2. CASE OnAttached
    <2>1. EnvType' /\ UiType'
        BY <1>0, <1>2, ScanType DEF OnAttached, UiType
    <2>2. QueueType'
        BY <1>2, HeadTail DEF OnAttached, QueueType
    <2> QED BY <1>2, <2>1, <2>2, Frames DEF OnAttached, runVars
<1>3. CASE OnDetached
    <2>1. UiType'
        BY <1>3 DEF OnDetached, UiType, Status
    <2>2. QueueType'
        BY <1>3, HeadTail DEF OnDetached, QueueType
    <2> QED BY <1>3, <2>1, <2>2, Frames DEF OnDetached, runVars
<1>4. CASE OnPermission
    <2>1. Head(permq) \in PermMessage /\ QueueType'
        BY <1>4, HeadTail DEF OnPermission, QueueType
    <2>2. UiType'
        BY <1>4, <2>1 DEF OnPermission, UiType, Status, PermMessage, Noted
    <2> QED BY <1>4, <2>1, <2>2, Frames DEF OnPermission, runVars
<1>5. CASE OnResult
    <2>1. EnvType' /\ UiType'
        BY <1>0, <1>5, ScanType DEF OnResult, UiType
    <2>2. QueueType'
        BY <1>5, HeadTail DEF OnResult, QueueType
    <2> QED BY <1>5, <2>1, <2>2, Frames DEF OnResult, runVars
<1>6. CASE OnProgress
    <2>1. UiType'
        BY <1>6 DEF OnProgress, UiType, Status
    <2>2. QueueType'
        BY <1>6, HeadTail DEF OnProgress, QueueType
    <2> QED BY <1>6, <2>1, <2>2, Frames DEF OnProgress, runVars
<1> QED BY <1>1, <1>2, <1>3, <1>4, <1>5, <1>6 DEF Activity

\* What the user does keeps the types.
LEMMA TypeUser == TypeOK /\ User => TypeOK'
<1> SUFFICES ASSUME TypeOK, User PROVE TypeOK'
    OBVIOUS
<1> USE DEF TypeOK
<1>1. CASE onDestroy
    <2>1. EnvType'
        BY <1>1 DEF onDestroy, EnvType
    <2>3. UiType'
        BY <1>1 DEF onDestroy, UiType, Status
    <2>2. QueueType'
        BY <1>1 DEF onDestroy, QueueType
    <2> QED BY <1>1, <2>1, <2>2, <2>3, Frames DEF onDestroy, runVars
<1>2. CASE SpinnerChange
    <2>1. UiType'
        BY <1>2 DEF SpinnerChange, UiType, Status
    <2> QED BY <1>2, <2>1, Frames DEF SpinnerChange, runVars
<1>3. CASE Click
    <2>0. starts + 1 \in Runs
        BY <1>3 DEF Click, RunType
    <2>1. UiType'
        BY <1>3 DEF Click, UiType, Status
    <2>2. RunType'
        BY <1>3, <2>0 DEF Click, RunType, UiType, Labels, natVars
    <2>3. cur' \in Services /\ nsvc' \in 0 .. starts'
        <3>1. CASE cur = Null
            BY <1>3, <2>0, <3>1 DEF Click, StartService, ServiceType, RunType
        <3>2. CASE cur # Null
            BY <1>3, <2>0, <3>2 DEF Click, StartService, ServiceType, RunType
        <3> QED BY <3>1, <3>2
    <2>4. [kind |-> "start", run |-> starts + 1, svc |-> cur'] \in SvcMessage
        BY <2>0, <2>3 DEF SvcMessage
    <2>5. svcq' = Append(svcq, [kind |-> "start", run |-> starts + 1, svc |-> cur'])
        BY <1>3 DEF Click, StartService
    <2>6. svcq' \in Seq(SvcMessage)
        BY <2>4, <2>5, AppendProperties DEF ServiceType
    <2>7. ServiceType'
        BY <1>3, <2>3, <2>6 DEF Click, ServiceType
    <2> QED BY <1>3, <2>1, <2>2, <2>7, Frames DEF Click
<1>4. CASE ClickAsksNotification
    <2>1. EnvType'
        BY <1>4 DEF ClickAsksNotification, EnvType
    <2> QED BY <1>4, <2>1, Frames DEF ClickAsksNotification, runVars
<1> QED BY <1>1, <1>2, <1>3, <1>4 DEF User

\* The commands of the service keep the types.
LEMMA TypeService == TypeOK /\ Service => TypeOK'
<1> SUFFICES ASSUME TypeOK, Service PROVE TypeOK'
    OBVIOUS
<1> USE DEF TypeOK
<1>00. svcq \in Seq(SvcMessage) /\ svcq # <<>> /\ svcq' = Tail(svcq)
    BY DEF Service, onStartCommand, ServiceDestroyed, ServiceType
<1>0. Head(svcq) \in SvcMessage /\ svcq' \in Seq(SvcMessage)
    BY <1>00, HeadTail
<1>1. CASE onStartCommand
    <2>1. ServiceType'
        BY <1>0, <1>1 DEF onStartCommand, ServiceType, SvcMessage, Notes
    <2>2. RunType'
        BY <1>0, <1>1 DEF onStartCommand, RunType, SvcMessage, Labels, natVars
    <2> QED BY <1>1, <2>1, <2>2, Frames DEF onStartCommand
<1>2. CASE ServiceDestroyed
    <2>1. ServiceType'
        BY <1>0, <1>2 DEF ServiceDestroyed, ServiceType, SvcMessage, Notes, runVars
    <2> QED BY <1>2, <2>1, Frames DEF ServiceDestroyed
<1> QED BY <1>1, <1>2 DEF Service

\* The environment keeps the types.
LEMMA TypeEnvironment == TypeOK /\ Environment => TypeOK'
<1> SUFFICES ASSUME TypeOK, Environment PROVE TypeOK'
    OBVIOUS
<1> USE DEF TypeOK
<1>1. CASE LockTimeout
    <2>1. ServiceType'
        BY <1>1 DEF LockTimeout, ServiceType, runVars
    <2> QED BY <1>1, <2>1, Frames DEF LockTimeout
<1>2. CASE PlugStick
    <2>1. EnvType' /\ plugs + 1 \in Sticks
        BY <1>2 DEF PlugStick, EnvType
    <2>2. [kind |-> "attached", dev |-> plugs + 1] \in UsbMessage
        BY <2>1 DEF UsbMessage
    <2>3. QueueType'
        BY <1>2, <2>2, SentType DEF PlugStick, QueueType
    <2> QED BY <1>2, <2>1, <2>3, Frames DEF PlugStick, runVars
<1>3. CASE PlugOther
    <2>1. EnvType' /\ [kind |-> "attached", dev |-> Null] \in UsbMessage
        BY <1>3 DEF PlugOther, EnvType, UsbMessage
    <2>2. QueueType'
        BY <1>3, <2>1, SentType DEF PlugOther, QueueType
    <2> QED BY <1>3, <2>1, <2>2, Frames DEF PlugOther, runVars
<1>4. CASE Unplug
    <2>1. PICK d \in attached :
              /\ attached' = attached \ {d} /\ permitted' = permitted \ {d}
              /\ usbq' = Sent(usbq, [kind |-> "detached", dev |-> d])
        BY <1>4 DEF Unplug
    <2>2. EnvType' /\ [kind |-> "detached", dev |-> d] \in UsbMessage
        BY <1>4, <2>1 DEF Unplug, EnvType, UsbMessage
    <2>3. QueueType'
        BY <1>4, <2>1, <2>2, SentType DEF Unplug, QueueType
    <2> QED BY <1>4, <2>2, <2>3, Frames DEF Unplug, runVars
<1>5. CASE Answer
    <2>1. PICK d \in asked, granted \in BOOLEAN :
              /\ granted => d \in attached
              /\ asked' = asked \ {d}
              /\ permitted' = IF granted THEN permitted \cup {d} ELSE permitted
              /\ permq' = Sent(permq, [dev |-> d, granted |-> granted])
        BY <1>5 DEF Answer
    <2>2. EnvType' /\ [dev |-> d, granted |-> granted] \in PermMessage
        BY <1>5, <2>1 DEF Answer, EnvType, PermMessage
    <2>3. QueueType'
        BY <1>5, <2>1, <2>2, SentType DEF Answer, QueueType
    <2> QED BY <1>5, <2>2, <2>3, Frames DEF Answer, runVars
<1>6. CASE ProcessDies
    <2>1. EnvType'
        BY <1>6 DEF ProcessDies, EnvType
    <2>4. UiType'
        BY <1>6 DEF ProcessDies, UiType, Status
    <2>2. QueueType' /\ ServiceType'
        BY <1>6 DEF ProcessDies, QueueType, ServiceType, Notes
    <2>3. RunType'
        BY <1>6 DEF ProcessDies, RunType, Labels
    <2> QED BY <2>1, <2>2, <2>3, <2>4
<1> QED BY <1>1, <1>2, <1>3, <1>4, <1>5, <1>6 DEF Environment

\* A step of a thread keeps the types.
LEMMA TypeWorker ==
    ASSUME TypeOK, Homed, NEW i \in Runs, Worker(i) \/ Report(i)
    PROVE  TypeOK'
<1> USE DEF TypeOK
<1>1. EnvType' /\ UiType' /\ UNCHANGED <<usbq, permq, starts, dev, home>>
    BY DEF Worker, Report, Goto, OpenDevice, EnterNative, WrapDevice, InitDriver, Work,
           LeaveNative, CloseConnection, NotifyOutcome, SendResult, ReleaseLock, StopSelf,
           EnvType, UiType, envVars, uiVars
<1>2. pc' \in [Runs -> Labels]
    BY SMTT(30) DEF Worker, Report, Goto, OpenDevice, EnterNative, WrapDevice, InitDriver, Work,
           LeaveNative, CloseConnection, NotifyOutcome, SendResult, ReleaseLock, StopSelf,
           RunType, Labels, Native, Ending
<1>3. RunType'
    <2>1. ok' \in [Runs -> BOOLEAN]
        <3>1. CASE Work(i)
            BY <3>1 DEF Work, RunType
        <3>2. CASE ~Work(i)
            BY <3>2
               DEF Worker, Report, OpenDevice, EnterNative, WrapDevice, InitDriver, LeaveNative,
                   CloseConnection, NotifyOutcome, SendResult, ReleaseLock, StopSelf, RunType
        <3> QED BY <3>1, <3>2
    <2>2. reports' \in [Runs -> 0 .. MaxReports]
        <3>1. CASE Report(i)
            BY <3>1 DEF Report, RunType
        <3>2. CASE ~Report(i)
            BY <3>2
               DEF Worker, OpenDevice, EnterNative, WrapDevice, InitDriver, Work, LeaveNative,
                   CloseConnection, NotifyOutcome, SendResult, ReleaseLock, StopSelf, RunType
        <3> QED BY <3>1, <3>2
    <2> QED BY <1>1, <1>2, <2>1, <2>2
       DEF Worker, Report, OpenDevice, EnterNative, WrapDevice, InitDriver, Work,
           LeaveNative, CloseConnection, NotifyOutcome, SendResult, ReleaseLock, StopSelf,
           RunType, natVars
<1>4. QueueType'
    <2>1. \A b \in BOOLEAN, k \in {"progress", "result"} :
              Sent(appq, [kind |-> k, success |-> b]) \in Seq(AppMessage)
        BY SentType DEF AppMessage, QueueType
    <2>2. ok[i] \in BOOLEAN
        BY DEF RunType
    <2> QED BY <1>1, <2>1, <2>2
       DEF Worker, Report, OpenDevice, EnterNative, WrapDevice, InitDriver, Work,
           LeaveNative, CloseConnection, NotifyOutcome, SendResult, ReleaseLock, StopSelf,
           QueueType
<1>5. ServiceType'
    <2>1. cur # Null => Append(svcq, [kind |-> "stop", run |-> i, svc |-> cur]) \in Seq(SvcMessage)
        BY AppendProperties DEF SvcMessage, ServiceType
    <2>2. CASE StopSelf(i)
        <3>1. home[i] # Null
            BY <2>2 DEF StopSelf, Homed
        <3> QED BY <1>1, <2>1, <2>2, <3>1 DEF StopSelf, ServiceType
    <2>3. CASE ~StopSelf(i)
        BY <1>1, <2>3
           DEF Worker, Report, OpenDevice, EnterNative, WrapDevice, InitDriver, Work,
               LeaveNative, CloseConnection, NotifyOutcome, SendResult, ReleaseLock,
               ServiceType, svcVars, Notes
    <2> QED BY <2>2, <2>3
<1> QED BY <1>1, <1>3, <1>4, <1>5

-----------------------------------------------------------------------------
(* The inductive invariant, group of actions by group of actions.           *)

\* Steps that touch neither threads nor native globals, and leave the button
\* enabled only when it was, when nothing is unfinished or when that is noted.
LEMMA QuietStep ==
    ASSUME AppInv, UNCHANGED <<svcq, runVars, natVars>>, early => early',
           btnEnabled' => early' \/ btnEnabled \/ Unfinished = {}
    PROVE  Homed' /\ Queued' /\ OneRun' /\ Globals'
<1>1. UNCHANGED <<pc, home, starts, svcq>> /\ Unfinished' = Unfinished
    BY DEF runVars, Unfinished
<1>2. Homed' /\ Queued'
    BY <1>1 DEF AppInv, Homed, Queued
<1>3. OneRun'
    BY <1>1 DEF AppInv, OneRun
<1>4. Globals'
    BY <1>1 DEF AppInv, Globals, natVars
<1> QED BY <1>2, <1>3, <1>4

\* The handlers of the activity.
LEMMA InvActivity == AppInv /\ Activity => AppInv'
<1> SUFFICES ASSUME AppInv, Activity PROVE AppInv'
    OBVIOUS
<1>1. TypeOK'
    BY TypeActivity DEF AppInv
<1>2. early \in BOOLEAN /\ btnEnabled \in BOOLEAN
    BY DEF AppInv, TypeOK, UiType
<1>3. UNCHANGED <<svcq, runVars, natVars>>
    BY DEF Activity, onCreate, OnAttached, OnDetached, OnPermission, OnResult, OnProgress,
           svcVars
<1>4. (early => early') /\ (btnEnabled' => early' \/ btnEnabled \/ Unfinished = {})
    <2>1. CASE Noted
        BY <1>2, <2>1 DEF Noted
    <2>2. CASE OnDetached
        BY <1>2, <2>2 DEF OnDetached
    <2>3. CASE OnProgress
        BY <1>2, <2>3 DEF OnProgress
    <2> QED BY <2>1, <2>2, <2>3 DEF Activity, onCreate, OnAttached, OnPermission, OnResult
<1>5. EnabledHasDevice'
    <2>0. attached \subseteq Sticks /\ EnabledHasDevice
        BY DEF AppInv, TypeOK, EnvType
    <2>1. CASE onCreate
        <3>1. alive' = TRUE /\ scanForUsbDevices(FALSE)
            BY <2>1 DEF onCreate
        <3>2. \A d \in attached : d # Null
            BY <2>0
        <3>3. myUsbDevice' # Null \/ btnEnabled' = FALSE
            BY <3>1, <3>2 DEF scanForUsbDevices
        <3> QED BY <3>1, <3>3 DEF EnabledHasDevice
    <2>2. CASE OnAttached
        <3>1. alive /\ alive' = alive /\ scanForUsbDevices(btnEnabled)
            BY <2>2 DEF OnAttached, uiVars
        <3>2. \A d \in attached : d # Null
            BY <2>0
        <3>3. myUsbDevice' # Null \/ btnEnabled' = FALSE
            BY <3>1, <3>2 DEF scanForUsbDevices
        <3> QED BY <3>1, <3>3 DEF EnabledHasDevice
    <2>3. CASE OnDetached
        BY <2>0, <2>3 DEF OnDetached, EnabledHasDevice
    <2>4. CASE OnPermission
        <3>1. Head(permq) \in PermMessage
            BY <2>4, HeadTail DEF OnPermission, AppInv, TypeOK, QueueType
        <3>2. Head(permq).dev # Null
            BY <3>1 DEF PermMessage
        <3> QED BY <2>0, <2>4, <3>2 DEF OnPermission, EnabledHasDevice
    <2>5. CASE OnResult
        BY <2>0, <2>5 DEF OnResult, scanForUsbDevices, EnabledHasDevice
    <2>6. CASE OnProgress
        BY <2>0, <2>6 DEF OnProgress, EnabledHasDevice
    <2> QED BY <2>1, <2>2, <2>3, <2>4, <2>5, <2>6 DEF Activity
<1> QED BY <1>1, <1>3, <1>4, <1>5, QuietStep DEF AppInv

\* A click starts a run only while none is unfinished, or after an early enabling.
LEMMA InvClick == AppInv /\ Click => AppInv'
<1> SUFFICES ASSUME AppInv, Click PROVE AppInv'
    OBVIOUS
<1>1. TypeOK'
    BY TypeUser DEF AppInv, User
<1>2. starts + 1 \in Runs /\ pc \in [Runs -> Labels]
    BY DEF Click, AppInv, TypeOK, RunType
<1>0. starts \in Nat /\ starts + 1 > starts
    BY DEF AppInv, TypeOK, RunType
<1>3. pc[starts + 1] = "none"
    BY <1>0, <1>2 DEF AppInv, Queued
<1>4. \A j \in Runs : pc'[j] = IF j = starts + 1 THEN "queued" ELSE pc[j]
    BY <1>2 DEF Click
<1>5. UNCHANGED <<home, early, natVars>> /\ starts' = starts + 1
    BY DEF Click
<1>6. Homed'
    BY <1>4, <1>5 DEF AppInv, Homed
<1>7. Globals'
    BY <1>3, <1>4, <1>5 DEF AppInv, Globals, natVars, Holding, Native
<1>8. EnabledHasDevice' /\ btnEnabled' = FALSE
    BY DEF Click, EnabledHasDevice
<1>9. OneRun'
    <2>1. Unfinished' = Unfinished \cup {starts + 1}
        BY <1>2, <1>4 DEF Unfinished
    <2>2. ~early => Unfinished = {}
        BY DEF Click, AppInv, OneRun
    <2> QED BY <1>5, <1>8, <2>1, <2>2 DEF OneRun
<1>10. Queued'
    <2> DEFINE m == [kind |-> "start", run |-> starts + 1, svc |-> cur']
    <2>1. svcq \in Seq(SvcMessage) /\ svcq' = Append(svcq, m)
        BY DEF Click, StartService, AppInv, TypeOK, ServiceType
    <2>2. /\ Len(svcq') = Len(svcq) + 1 /\ svcq'[Len(svcq) + 1] = m
          /\ \A k \in 1 .. Len(svcq) : svcq'[k] = svcq[k] /\ svcq[k].run \in Runs
        <3>1. m \in SvcMessage
            BY <1>1, <1>2, <2>1 DEF SvcMessage, Click, StartService, TypeOK, ServiceType, AppInv,
                                    RunType
        <3>2. \A k \in 1 .. Len(svcq) : svcq[k] \in SvcMessage
            BY <2>1
        <3>3. \A k \in 1 .. Len(svcq) : svcq[k].run \in Runs
            BY <3>2 DEF SvcMessage
        <3> QED BY <2>1, <3>1, <3>3, AppendProperties
    <2>3. \A k \in 1 .. Len(svcq) : svcq[k].kind = "start" => svcq[k].run # starts + 1
        BY <1>3 DEF AppInv, Queued
    <2>4. \A i \in Runs : i > starts' => pc'[i] = "none"
        BY <1>0, <1>4, <1>5 DEF AppInv, Queued
    <2>5. Len(svcq) \in Nat
        BY <2>1
    <2>6. \A k \in 1 .. Len(svcq') : svcq'[k].kind = "start" => pc'[svcq'[k].run] = "queued"
        <3> SUFFICES ASSUME NEW k \in 1 .. Len(svcq'), svcq'[k].kind = "start"
                     PROVE  pc'[svcq'[k].run] = "queued"
            OBVIOUS
        <3>1. CASE k = Len(svcq) + 1
            BY <1>2, <1>4, <2>2, <3>1
        <3>2. CASE k # Len(svcq) + 1
            <4>1. k \in 1 .. Len(svcq)
                BY <2>2, <2>5, <3>2
            <4>2. svcq'[k] = svcq[k] /\ svcq[k].run \in Runs /\ pc[svcq[k].run] = "queued"
                BY <2>2, <4>1 DEF AppInv, Queued
            <4> QED BY <1>4, <4>2
        <3> QED BY <3>1, <3>2
    <2>7. \A k, l \in 1 .. Len(svcq') :
             svcq'[k].kind = "start" /\ svcq'[l].kind = "start" /\ svcq'[k].run = svcq'[l].run
                => k = l
        <3>1. \A k \in 1 .. Len(svcq') : k \in 1 .. Len(svcq) \/ k = Len(svcq) + 1
            BY <2>2, <2>5
        <3>2. m.run = starts + 1
            OBVIOUS
        <3> QED BY <2>2, <2>3, <3>1, <3>2 DEF AppInv, Queued
    <2> QED BY <2>4, <2>6, <2>7 DEF Queued
<1> QED BY <1>1, <1>6, <1>7, <1>8, <1>9, <1>10 DEF AppInv

\* What the user does.
LEMMA InvUser == AppInv /\ User => AppInv'
<1> SUFFICES ASSUME AppInv, User, ~Click PROVE AppInv'
    BY InvClick
<1>1. TypeOK'
    BY TypeUser DEF AppInv
<1>2. UNCHANGED <<svcq, runVars, natVars, early>>
    BY DEF User, onDestroy, SpinnerChange, ClickAsksNotification, svcVars
<1>3. (btnEnabled' => btnEnabled) /\ EnabledHasDevice'
    BY DEF User, onDestroy, SpinnerChange, ClickAsksNotification, uiVars, AppInv,
           EnabledHasDevice
<1> QED BY <1>1, <1>2, <1>3, QuietStep DEF AppInv

\* What is left of the queue when its head is taken.
LEMMA TailQueue ==
    ASSUME AppInv, svcq # <<>>
    PROVE  /\ Head(svcq) = svcq[1] /\ Head(svcq) \in SvcMessage /\ 1 \in 1 .. Len(svcq)
           /\ \A k \in 1 .. Len(Tail(svcq)) :
                 /\ k + 1 \in 1 .. Len(svcq) /\ k + 1 # 1
                 /\ Tail(svcq)[k] = svcq[k + 1] /\ svcq[k + 1] \in SvcMessage
<1>1. svcq \in Seq(SvcMessage)
    BY DEF AppInv, TypeOK, ServiceType
<1>2. Head(svcq) \in SvcMessage /\ Tail(svcq) \in Seq(SvcMessage)
    BY <1>1, HeadTail
<1>3. Len(svcq) \in Nat /\ Len(svcq) # 0 /\ Len(Tail(svcq)) = Len(svcq) - 1
    BY <1>1, HeadTailProperties, EmptySeq
<1>4. Head(svcq) = svcq[1] /\ \A k \in 1 .. Len(svcq) : svcq[k] \in SvcMessage
    BY <1>1
<1>5. \A k \in 1 .. Len(Tail(svcq)) : Tail(svcq)[k] = svcq[k + 1]
    BY <1>1, HeadTailProperties
<1> QED BY <1>2, <1>3, <1>4, <1>5

\* The commands of the service: a queued run gets its thread.
LEMMA InvService == AppInv /\ Service => AppInv'
<1> SUFFICES ASSUME AppInv, Service PROVE AppInv'
    OBVIOUS
<1>1. TypeOK'
    BY TypeService DEF AppInv
<1>2. svcq # <<>> /\ svcq' = Tail(svcq) /\ UNCHANGED <<uiVars, natVars, early, starts>>
    BY DEF Service, onStartCommand, ServiceDestroyed, runVars
<1>3. EnabledHasDevice'
    BY <1>2 DEF AppInv, EnabledHasDevice, uiVars
<1>4. pc \in [Runs -> Labels]
    BY DEF AppInv, TypeOK, RunType
<1>5. CASE onStartCommand
    <2> DEFINE i == Head(svcq).run
    <2>1. i \in Runs /\ pc[i] = "queued" /\ Head(svcq).svc # Null
        BY <1>2, <1>5, TailQueue DEF onStartCommand, AppInv, Queued, SvcMessage
    <2>2. \A j \in Runs : pc'[j] = IF j = i THEN "open" ELSE pc[j]
        BY <1>4, <1>5, <2>1 DEF onStartCommand
    <2>3. \A j \in Runs : home'[j] = IF j = i THEN Head(svcq).svc ELSE home[j]
        BY <1>5, <2>1 DEF onStartCommand, AppInv, TypeOK, RunType
    <2>4. Homed'
        BY <2>1, <2>2, <2>3 DEF AppInv, Homed
    <2>5. Unfinished' = Unfinished
        BY <2>1, <2>2 DEF Unfinished
    <2>6. OneRun'
        BY <1>2, <2>5 DEF AppInv, OneRun, uiVars
    <2>7. Globals'
        BY <1>2, <2>1, <2>2 DEF AppInv, Globals, natVars, Holding, Native
    <2>8. \A k \in 1 .. Len(svcq') : svcq'[k].kind = "start" =>
             /\ svcq'[k].run \in Runs /\ svcq'[k].run # i
             /\ pc[svcq'[k].run] = "queued"
        BY <1>2, <1>5, TailQueue DEF onStartCommand, AppInv, Queued, SvcMessage
    <2>9. \A k, l \in 1 .. Len(svcq') :
             svcq'[k].kind = "start" /\ svcq'[l].kind = "start" /\ svcq'[k].run = svcq'[l].run
                => k + 1 = l + 1
        BY <1>2, TailQueue DEF AppInv, Queued
    <2>10. \A k, l \in 1 .. Len(svcq') : k + 1 = l + 1 => k = l
        OBVIOUS
    <2>11. \A j \in Runs : j > starts' => pc'[j] = "none"
        BY <1>2, <2>1, <2>2 DEF AppInv, Queued
    <2>12. Queued'
        BY <2>2, <2>8, <2>9, <2>10, <2>11 DEF Queued
    <2> QED BY <1>1, <1>3, <2>4, <2>6, <2>7, <2>12 DEF AppInv
<1>6. CASE ServiceDestroyed
    <2>1. UNCHANGED <<pc, home>> /\ Unfinished' = Unfinished
        BY <1>6 DEF ServiceDestroyed, runVars, Unfinished
    <2>2. Homed' /\ OneRun' /\ Globals'
        BY <1>2, <2>1 DEF AppInv, Homed, OneRun, Globals, uiVars, natVars
    <2>3. \A k \in 1 .. Len(svcq') : svcq'[k].kind = "start" => pc[svcq'[k].run] = "queued"
        BY <1>2, TailQueue DEF AppInv, Queued
    <2>4. \A k, l \in 1 .. Len(svcq') :
             svcq'[k].kind = "start" /\ svcq'[l].kind = "start" /\ svcq'[k].run = svcq'[l].run
                => k + 1 = l + 1
        BY <1>2, TailQueue DEF AppInv, Queued
    <2>5. \A k, l \in 1 .. Len(svcq') : k + 1 = l + 1 => k = l
        OBVIOUS
    <2>6. Queued'
        BY <1>2, <2>1, <2>3, <2>4, <2>5 DEF AppInv, Queued
    <2> QED BY <1>1, <1>3, <2>2, <2>6 DEF AppInv
<1> QED BY <1>5, <1>6 DEF Service

\* The environment.
LEMMA InvEnvironment == AppInv /\ Environment => AppInv'
<1> SUFFICES ASSUME AppInv, Environment PROVE AppInv'
    OBVIOUS
<1>1. TypeOK'
    BY TypeEnvironment DEF AppInv
<1>2. CASE ProcessDies
    <2>1. pc' = [i \in Runs |-> IF pc[i] \in {"none", "done"} THEN pc[i] ELSE "killed"]
        BY <1>2 DEF ProcessDies
    <2>2. UNCHANGED <<home, starts>> /\ btnEnabled' = FALSE /\ svcq' = <<>> /\ refs' = {}
        BY <1>2 DEF ProcessDies
    <2>3. Homed' /\ Unfinished' = {}
        BY <2>1, <2>2 DEF AppInv, Homed, Unfinished, Native
    <2>4. EnabledHasDevice' /\ OneRun'
        BY <2>2, <2>3 DEF EnabledHasDevice, OneRun
    <2>5. Queued'
        BY <2>1, <2>2 DEF AppInv, Queued
    <2>6. Globals'
        BY <2>1, <2>2 DEF Globals, Holding, Native
    <2> QED BY <1>1, <2>3, <2>4, <2>5, <2>6 DEF AppInv
<1>3. CASE ~ProcessDies
    <2>1. UNCHANGED <<svcq, runVars, natVars, early, uiVars>>
        BY <1>3 DEF Environment, LockTimeout, PlugStick, PlugOther, Unplug, Answer, svcVars
    <2>2. EnabledHasDevice' /\ btnEnabled' = btnEnabled
        BY <2>1 DEF AppInv, EnabledHasDevice, uiVars
    <2> QED BY <1>1, <2>1, <2>2, QuietStep DEF AppInv
<1> QED BY <1>2, <1>3

\* A step of thread i moves only i, from a label past the queue, and an
\* unfinished run stays or ends.
LEMMA WorkerFrame ==
    ASSUME AppInv, NEW i \in Runs, Worker(i) \/ Report(i)
    PROVE  /\ \A j \in Runs \ {i} : pc'[j] = pc[j]
           /\ pc[i] \notin {"none", "queued", "killed"}
           /\ pc'[i] \notin {"none", "queued", "killed"}
           /\ Unfinished' \subseteq Unfinished
           /\ UNCHANGED <<uiVars, starts, home, early>>
<1>0. pc \in [Runs -> Labels]
    BY DEF AppInv, TypeOK, RunType
<1>1. PICK l \in Labels : pc' = [pc EXCEPT ![i] = l]
    BY DEF Worker, Report, Goto, OpenDevice, EnterNative, WrapDevice, InitDriver, Work,
           LeaveNative, CloseConnection, NotifyOutcome, SendResult, ReleaseLock, StopSelf,
           Labels, Native, Ending, AppInv, TypeOK, RunType
<1>2. pc'[i] = l /\ \A j \in Runs \ {i} : pc'[j] = pc[j]
    BY <1>0, <1>1
<1>3. UNCHANGED <<uiVars, starts, home, early>>
    BY DEF Worker, Report, Goto, OpenDevice, EnterNative, WrapDevice, InitDriver, Work,
           LeaveNative, CloseConnection, NotifyOutcome, SendResult, ReleaseLock, StopSelf
<1>4. /\ pc[i] \notin {"none", "queued", "killed"}
      /\ pc'[i] \notin {"none", "queued", "killed"}
      /\ i \in Unfinished \/ i \notin Unfinished'
    BY <1>0
       DEF Worker, Report, Goto, OpenDevice, EnterNative, WrapDevice, InitDriver, Work,
           LeaveNative, CloseConnection, NotifyOutcome, SendResult, ReleaseLock, StopSelf,
           Unfinished, Native
<1>5. Unfinished' \subseteq Unfinished
    BY <1>2, <1>4 DEF Unfinished
<1> QED BY <1>2, <1>3, <1>4, <1>5

\* The native globals change hands only by the one thread that is in native code.
LEMMA WorkerGlobals ==
    ASSUME AppInv, NEW i \in Runs, Worker(i) \/ Report(i)
    PROVE  Globals'
<1> SUFFICES ASSUME ~early' PROVE
        /\ \A j \in Runs : pc'[j] \in Holding => gService' = j /\ refs' = {j}
        /\ \A j \in Runs : pc'[j] \in {"work", "leave"} => gHandle' = j
        /\ \A j \in Runs : pc'[j] \in Native => j \in conns'
        /\ (\A j \in Runs : pc'[j] \notin Holding) => refs' = {}
    BY DEF Globals
<1>0. ~early /\ pc \in [Runs -> Labels]
    BY WorkerFrame DEF AppInv, TypeOK, RunType
<1>1. /\ \A j \in Runs : pc[j] \in Holding => gService = j /\ refs = {j}
      /\ \A j \in Runs : pc[j] \in {"work", "leave"} => gHandle = j
      /\ \A j \in Runs : pc[j] \in Native => j \in conns
      /\ (\A j \in Runs : pc[j] \notin Holding) => refs = {}
    BY <1>0 DEF AppInv, Globals
<1>2. \A j \in Runs \ {i} : pc'[j] = pc[j]
    BY WorkerFrame
<1>3. i \in Unfinished => \A j \in Runs \ {i} : pc[j] \notin Native
    BY <1>0 DEF AppInv, OneRun, Unfinished
<1> USE DEF Holding, Native
<1>4. CASE OpenDevice(i)
    <2>1. /\ pc[i] = "open" /\ i \in Unfinished /\ UNCHANGED <<gService, gHandle, refs>>
          /\ \/ pc' = [pc EXCEPT ![i] = "enter"] /\ conns' = conns \cup {i}
             \/ pc' = [pc EXCEPT ![i] = "close"] /\ conns' = conns
        BY <1>4 DEF OpenDevice, Goto, Unfinished
    <2>2. CASE pc' = [pc EXCEPT ![i] = "enter"] /\ conns' = conns \cup {i}
        <3>1. pc'[i] = "enter"
            BY <1>0, <2>2
        <3> QED BY <1>1, <1>2, <1>3, <2>1, <2>2, <3>1
    <2>3. CASE pc' = [pc EXCEPT ![i] = "close"] /\ conns' = conns
        <3>1. pc'[i] = "close"
            BY <1>0, <2>3
        <3> QED BY <1>1, <1>2, <1>3, <2>1, <2>3, <3>1
    <2> QED BY <2>1, <2>2, <2>3
<1>5. CASE EnterNative(i)
    <2>1. /\ pc[i] = "enter" /\ pc'[i] = "wrap" /\ i \in Unfinished
          /\ gService' = i /\ refs' = refs \cup {i} /\ UNCHANGED <<conns, gHandle>>
        BY <1>0, <1>5 DEF EnterNative, Goto, Unfinished
    <2>2. refs = {}
        BY <1>1, <1>3, <2>1
    <2> QED BY <1>1, <1>2, <1>3, <2>1, <2>2
<1>6. CASE WrapDevice(i)
    <2>1. /\ pc[i] = "wrap" /\ i \in Unfinished /\ UNCHANGED <<conns, gHandle>>
          /\ \/ pc'[i] = "init" /\ UNCHANGED <<gService, refs>>
             \/ pc'[i] = "close" /\ gService' = Null /\ refs' = refs \ {gService}
        BY <1>0, <1>6 DEF WrapDevice, Goto, Unfinished
    <2> QED BY <1>1, <1>2, <1>3, <2>1
<1>7. CASE InitDriver(i)
    <2>1. /\ pc[i] = "init" /\ pc'[i] = "work" /\ i \in Unfinished
          /\ gHandle' = i /\ UNCHANGED <<conns, gService, refs>>
        BY <1>0, <1>7 DEF InitDriver, Goto, Unfinished
    <2> QED BY <1>1, <1>2, <1>3, <2>1
<1>8. CASE LeaveNative(i)
    <2>1. /\ pc[i] = "leave" /\ pc'[i] = "close" /\ i \in Unfinished
          /\ gService' = Null /\ refs' = refs \ {gService} /\ UNCHANGED <<conns, gHandle>>
        BY <1>0, <1>8 DEF LeaveNative, Goto, Unfinished
    <2> QED BY <1>1, <1>2, <1>3, <2>1
<1>9. CASE Work(i)
    <2>1. pc[i] = "work" /\ pc'[i] = "leave" /\ UNCHANGED natVars
        BY <1>0, <1>9 DEF Work, Goto
    <2> QED BY <1>1, <1>2, <2>1 DEF natVars
<1>10. CASE Report(i)
    <2>1. pc'[i] = pc[i] /\ UNCHANGED natVars
        BY <1>0, <1>10 DEF Report, Goto
    <2> QED BY <1>1, <1>2, <2>1 DEF natVars
<1>11. CASE CloseConnection(i)
    <2>1. /\ pc[i] = "close" /\ pc'[i] = "notify" /\ conns' = conns \ {i}
          /\ UNCHANGED <<gService, gHandle, refs>>
        BY <1>0, <1>11 DEF CloseConnection, Goto
    <2> QED BY <1>1, <1>2, <2>1
<1>12. CASE NotifyOutcome(i) \/ SendResult(i) \/ ReleaseLock(i) \/ StopSelf(i)
    <2>1. pc[i] \notin Native /\ pc'[i] \notin Native /\ UNCHANGED natVars
        BY <1>0, <1>12 DEF NotifyOutcome, SendResult, ReleaseLock, StopSelf, Goto
    <2> QED BY <1>1, <1>2, <2>1 DEF natVars
<1> QED BY <1>4, <1>5, <1>6, <1>7, <1>8, <1>9, <1>10, <1>11, <1>12 DEF Worker

\* The threads.
LEMMA InvWorker ==
    ASSUME AppInv, NEW i \in Runs, Worker(i) \/ Report(i)
    PROVE  AppInv'
<1>1. TypeOK' /\ Globals'
    BY TypeWorker, WorkerGlobals DEF AppInv
<1>2. EnabledHasDevice'
    BY WorkerFrame DEF AppInv, EnabledHasDevice, uiVars
<1>3. OneRun'
    BY WorkerFrame DEF AppInv, OneRun, uiVars
<1>4. Homed'
    BY WorkerFrame DEF AppInv, Homed
<1>5. Queued'
    <2>1. \A j \in Runs : (pc[j] \in {"none", "queued"} => pc'[j] = pc[j])
        BY WorkerFrame
    <2>2. \A k \in 1 .. Len(svcq) : svcq[k].run \in Runs
        <3>1. svcq \in Seq(SvcMessage)
            BY DEF AppInv, TypeOK, ServiceType
        <3>2. \A k \in 1 .. Len(svcq) : svcq[k] \in SvcMessage
            BY <3>1
        <3> QED BY <3>2 DEF SvcMessage
    <2>3. CASE svcq' = svcq
        BY <2>1, <2>2, <2>3, WorkerFrame DEF AppInv, Queued
    <2>4. CASE svcq' # svcq
        <3> DEFINE m == [kind |-> "stop", run |-> i, svc |-> cur]
        <3>1. svcq' = Append(svcq, m) /\ home[i] = cur /\ home[i] # Null
            BY <2>4 DEF Worker, Report, OpenDevice, EnterNative, WrapDevice, InitDriver, Work,
                LeaveNative, CloseConnection, NotifyOutcome, SendResult, ReleaseLock, StopSelf,
                svcVars, AppInv, Homed
        <3>2. svcq \in Seq(SvcMessage) /\ m \in SvcMessage
            BY <3>1 DEF AppInv, TypeOK, ServiceType, SvcMessage
        <3>3. /\ Len(svcq') = Len(svcq) + 1 /\ svcq'[Len(svcq) + 1] = m
              /\ \A k \in 1 .. Len(svcq) : svcq'[k] = svcq[k]
            BY <3>1, <3>2, AppendProperties
        <3>4. \A k \in 1 .. Len(svcq') : svcq'[k].kind = "start" => k \in 1 .. Len(svcq)
            <4>1. Len(svcq) \in Nat /\ m.kind # "start"
                BY <3>2
            <4> QED BY <3>3, <4>1
        <3>5. \A j \in Runs : j > starts' => pc'[j] = "none"
            BY <2>1, WorkerFrame DEF AppInv, Queued
        <3>6. \A k \in 1 .. Len(svcq') : svcq'[k].kind = "start" => pc'[svcq'[k].run] = "queued"
            BY <2>1, <2>2, <3>3, <3>4 DEF AppInv, Queued
        <3>7. \A k, l \in 1 .. Len(svcq') :
                 svcq'[k].kind = "start" /\ svcq'[l].kind = "start"
                       /\ svcq'[k].run = svcq'[l].run => k = l
            BY <3>3, <3>4 DEF AppInv, Queued
        <3> QED BY <3>5, <3>6, <3>7 DEF Queued
    <2> QED BY <2>3, <2>4
<1> QED BY <1>1, <1>2, <1>3, <1>4, <1>5 DEF AppInv

-----------------------------------------------------------------------------
\* The inductive invariant holds of every behaviour.
THEOREM AppInvariance == Spec => []AppInv
<1>1. Init => AppInv
    <2> SUFFICES ASSUME Init PROVE AppInv
        OBVIOUS
    <2>1. EnvType /\ QueueType
        BY DEF Init, EnvType, QueueType
    <2>2. UiType
        BY DEF Init, UiType, Status
    <2>3. ServiceType /\ RunType
        BY DEF Init, ServiceType, RunType, Notes, Labels
    <2>4. Homed /\ Queued /\ Unfinished = {}
        BY DEF Init, Homed, Queued, Unfinished, Native
    <2>5. EnabledHasDevice /\ OneRun /\ Globals
        BY <2>4 DEF Init, EnabledHasDevice, OneRun, Globals, Holding, Native
    <2> QED BY <2>1, <2>2, <2>3, <2>4, <2>5 DEF AppInv, TypeOK
<1>2. AppInv /\ [Next]_vars => AppInv'
    <2> SUFFICES ASSUME AppInv, [Next]_vars PROVE AppInv'
        OBVIOUS
    <2>1. CASE UNCHANGED vars
        <3>1. TypeOK'
            BY <2>1, Frames DEF AppInv, TypeOK, vars, runVars
        <3>2. EnabledHasDevice' /\ UNCHANGED <<svcq, runVars, natVars, early, btnEnabled>>
            BY <2>1 DEF vars, svcVars, uiVars, AppInv, EnabledHasDevice
        <3> QED BY <3>1, <3>2, QuietStep DEF AppInv
    <2> QED BY <2>1, InvActivity, InvUser, InvService, InvEnvironment, InvWorker DEF Next
<1> QED BY <1>1, <1>2, PTL DEF Spec

\* Every variable keeps its type.
THEOREM AppTypeCorrect == Spec => []TypeOK
<1>1. AppInv => TypeOK
    BY DEF AppInv
<1> QED BY <1>1, AppInvariance, PTL

\* An enabled button has a device, for any interleaving of USB events, permission
\* answers, results and recreations of the activity.
THEOREM EnabledHasADevice == Spec => []EnabledHasDevice
<1>1. AppInv => EnabledHasDevice
    BY DEF AppInv
<1> QED BY <1>1, AppInvariance, PTL

\* While no event enables the button during a run, a session that works owns the
\* native globals: its handle, its connection and the only reference.
THEOREM DriverOwned == Spec => []OwnsDriver
<1>1. AppInv => OwnsDriver
    BY DEF AppInv, Globals, OwnsDriver, Holding, Native
<1> QED BY <1>1, AppInvariance, PTL
-----------------------------------------------------------------------------
(* The notification, the foreground and the order of the service's commands. *)

\* Labels of a thread from its start to its outcome, and from there to its end.
Going == {"open", "close", "notify"} \cup Native
Past == {"result", "release", "stop", "done"}

\* The notification says that a format goes on only while one does.
NoteInv == deaths = 0 /\ note = "ongoing" => \E i \in Runs : pc[i] \in Going

\* Services are numbered as they come; the one Android counts is the last.
Numbered ==
    /\ cur # Null => cur = nsvc
    /\ svc <= nsvc
    /\ \A i \in Runs : home[i] <= nsvc
    /\ \A k \in 1 .. Len(svcq) : svc <= svcq[k].svc /\ svcq[k].svc <= nsvc

\* The commands of a service come before those of the next one.
InOrder == \A k, l \in 1 .. Len(svcq) : k < l => svcq[k].svc <= svcq[l].svc

\* One stop at most is on its way, for the object that exists, sent by a thread
\* of it that has ended; Android no longer counts that service.
Stops ==
    /\ \A k \in 1 .. Len(svcq) : svcq[k].kind = "stop" =>
          /\ svcq[k].svc = svc /\ pc[svcq[k].run] = "done" /\ home[svcq[k].run] = svc
          /\ cur # Null => svc < cur
    /\ \A k, l \in 1 .. Len(svcq) : svcq[k].kind = "stop" /\ svcq[l].kind = "stop" => k = l

\* The object of a thread whose service is still counted exists.
Current == \A i \in Runs :
    pc[i] \in Going \cup Past /\ cur # Null /\ home[i] = cur => svc = cur

\* A thread before its outcome is in the foreground or shares its service with
\* one past it.
Shielded == \A i \in Runs : pc[i] \in Going /\ home[i] \notin fg =>
    \E j \in Runs \ {i} : home[j] = home[i] /\ pc[j] \in Past

ServiceInv == Numbered /\ InOrder /\ Stops /\ Current /\ Shielded

\* The numbers of services are natural numbers.
LEMMA ServiceNumbers ==
    ASSUME AppInv
    PROVE  /\ svc \in Nat /\ cur \in Nat /\ nsvc \in Nat
           /\ \A i \in Runs : home[i] \in Nat
           /\ pc \in [Runs -> Labels]
           /\ svcq \in Seq(SvcMessage) /\ Len(svcq) \in Nat
           /\ \A k \in 1 .. Len(svcq) :
                 /\ svcq[k] \in SvcMessage
                 /\ svcq[k].run \in Runs /\ svcq[k].svc \in Nat /\ svcq[k].svc # Null
<1>1. svcq \in Seq(SvcMessage)
    BY DEF AppInv, TypeOK, ServiceType
<1>2. Len(svcq) \in Nat /\ \A k \in 1 .. Len(svcq) : svcq[k] \in SvcMessage
    BY <1>1
<1>3. \A m \in SvcMessage : m.run \in Runs /\ m.svc \in Nat /\ m.svc # Null
    BY DEF SvcMessage
<1>4. svc \in Nat /\ cur \in Nat /\ nsvc \in Nat
    BY DEF AppInv, TypeOK, ServiceType
<1>5. pc \in [Runs -> Labels] /\ \A i \in Runs : home[i] \in Nat
    <2>1. pc \in [Runs -> Labels] /\ home \in [Runs -> Services \cup {Null}]
        BY DEF AppInv, TypeOK, RunType
    <2>2. \A i \in Runs : home[i] \in Services \cup {Null}
        BY <2>1
    <2> QED BY <2>1, <2>2
<1> QED BY <1>1, <1>2, <1>3, <1>4, <1>5

\* A command is put behind those on their way.
LEMMA AppendQueue ==
    ASSUME AppInv, NEW m \in SvcMessage, svcq' = Append(svcq, m)
    PROVE  /\ Len(svcq') = Len(svcq) + 1
           /\ \A k \in 1 .. Len(svcq') :
                 \/ k \in 1 .. Len(svcq) /\ svcq'[k] = svcq[k]
                 \/ k = Len(svcq) + 1 /\ svcq'[k] = m
<1>1. /\ Len(svcq') = Len(svcq) + 1 /\ svcq'[Len(svcq) + 1] = m
      /\ \A k \in 1 .. Len(svcq) : svcq'[k] = svcq[k]
    BY ServiceNumbers, AppendProperties
<1>2. \A k \in 1 .. Len(svcq') : k \in 1 .. Len(svcq) \/ k = Len(svcq) + 1
    BY <1>1, ServiceNumbers
<1> QED BY <1>1, <1>2

\* A step that leaves the service, its commands and the threads alone.
LEMMA ServiceFrame ==
    ASSUME ServiceInv, UNCHANGED <<svcq, cur, nsvc, svc, fg, pc, home>>
    PROVE  ServiceInv'
<1>1. Numbered' /\ InOrder'
    BY DEF ServiceInv, Numbered, InOrder
<1>2. Stops' /\ Current'
    BY DEF ServiceInv, Stops, Current
<1>3. Shielded'
    BY DEF ServiceInv, Shielded
<1> QED BY <1>1, <1>2, <1>3 DEF ServiceInv

\* A click numbers a new service, or counts on the one that is started.
LEMMA ServiceClick ==
    ASSUME AppInv, ServiceInv, Click
    PROVE  ServiceInv'
<1> DEFINE m == [kind |-> "start", run |-> starts + 1, svc |-> cur']
<1>0. starts + 1 \in Runs /\ pc[starts + 1] = "none"
    BY DEF Click, AppInv, TypeOK, RunType, Queued
<1>1. svcq' = Append(svcq, m) /\ UNCHANGED <<svc, fg, home>>
    BY DEF Click, StartService
<1>2. \/ cur = Null /\ cur' = nsvc + 1 /\ nsvc' = nsvc + 1
      \/ cur # Null /\ cur' = cur /\ nsvc' = nsvc
    BY DEF Click, StartService
<1>3. m \in SvcMessage /\ cur' # Null /\ cur' \in Nat
    <2>1. AppInv'
        BY InvClick
    <2>2. cur' \in Services \cup {Null}
        BY <2>1 DEF AppInv, TypeOK, ServiceType
    <2>3. cur' # Null
        BY <1>2, ServiceNumbers
    <2> QED BY <1>0, <2>2, <2>3 DEF SvcMessage
<1>4. \A j \in Runs : pc'[j] = IF j = starts + 1 THEN "queued" ELSE pc[j]
    BY <1>0, ServiceNumbers DEF Click
<1>5. m.kind = "start" /\ m.svc = cur'
    OBVIOUS
<1> HIDE DEF m
<1>6. nsvc <= nsvc' /\ cur' = nsvc' /\ nsvc' \in Nat
    BY <1>2, ServiceNumbers DEF ServiceInv, Numbered
<1>7. Numbered'
    BY <1>1, <1>3, <1>5, <1>6, AppendQueue, ServiceNumbers DEF ServiceInv, Numbered
<1>8. InOrder'
    BY <1>1, <1>3, <1>5, <1>6, AppendQueue, ServiceNumbers DEF ServiceInv, Numbered, InOrder
<1>9. Stops'
    <2>1. \A k \in 1 .. Len(svcq') : svcq'[k].kind = "stop" =>
             k \in 1 .. Len(svcq) /\ svcq'[k] = svcq[k]
        BY <1>1, <1>3, <1>5, AppendQueue
    <2>2. \A k \in 1 .. Len(svcq) : svcq[k].kind = "stop" =>
             svcq[k].run \in Runs /\ svcq[k].run # starts + 1
        BY <1>0, ServiceNumbers DEF ServiceInv, Stops
    <2>3. \A k \in 1 .. Len(svcq) : svcq[k].kind = "stop" => svc < cur'
        BY <1>2, ServiceNumbers DEF ServiceInv, Stops, Numbered
    <2> QED BY <1>1, <1>4, <2>1, <2>2, <2>3 DEF ServiceInv, Stops
<1>10. Current'
    BY <1>1, <1>2, <1>4, ServiceNumbers DEF ServiceInv, Current, Numbered, Going, Past, Native
<1>11. Shielded'
    BY <1>0, <1>1, <1>4 DEF ServiceInv, Shielded, Going, Past, Native
<1> QED BY <1>7, <1>8, <1>9, <1>10, <1>11 DEF ServiceInv

\* A start command: its object is the one that exists, or the next one.
LEMMA ServiceStart ==
    ASSUME AppInv, ServiceInv, onStartCommand
    PROVE  ServiceInv'
<1> DEFINE i == Head(svcq).run
           s == Head(svcq).svc
<1>1. svcq # <<>> /\ svcq' = Tail(svcq) /\ Head(svcq).kind = "start"
    BY DEF onStartCommand
<1>2. i \in Runs /\ pc[i] = "queued" /\ s \in Nat /\ s # Null /\ Head(svcq) = svcq[1]
    BY <1>1, TailQueue, ServiceNumbers DEF AppInv, Queued
<1>3. svc' = s /\ fg' = fg \cup {s} /\ UNCHANGED <<cur, nsvc>>
    BY DEF onStartCommand
<1>4. \A j \in Runs : /\ pc'[j] = IF j = i THEN "open" ELSE pc[j]
                      /\ home'[j] = IF j = i THEN s ELSE home[j]
    BY <1>2 DEF onStartCommand, AppInv, TypeOK, RunType
<1>5. \A k \in 1 .. Len(svcq') :
         /\ k + 1 \in 1 .. Len(svcq) /\ svcq'[k] = svcq[k + 1] /\ 1 \in 1 .. Len(svcq)
         /\ k \in Nat /\ 1 < k + 1
    BY <1>1, TailQueue, ServiceNumbers
<1>6. svc <= s /\ s <= nsvc /\ 1 \in 1 .. Len(svcq)
    BY <1>1, <1>2, TailQueue DEF ServiceInv, Numbered
<1>7. \A k \in 1 .. Len(svcq') : s <= svcq'[k].svc
    BY <1>2, <1>5 DEF ServiceInv, InOrder
<1> HIDE DEF i, s
<1>8. Numbered'
    <2>1. (cur' # Null => cur' = nsvc') /\ svc' <= nsvc'
        BY <1>3, <1>6 DEF ServiceInv, Numbered
    <2>2. \A j \in Runs : home'[j] <= nsvc'
        BY <1>3, <1>4, <1>6 DEF ServiceInv, Numbered
    <2>3. \A k \in 1 .. Len(svcq') : svcq'[k].svc <= nsvc'
        BY <1>3, <1>5 DEF ServiceInv, Numbered
    <2>4. \A k \in 1 .. Len(svcq') : svc' <= svcq'[k].svc
        BY <1>3, <1>7
    <2> QED
        BY <2>1, <2>2, <2>3, <2>4 DEF Numbered
<1>9. InOrder'
    <2>1. ASSUME NEW k \in 1 .. Len(svcq'), NEW l \in 1 .. Len(svcq'), k < l
          PROVE  svcq'[k].svc <= svcq'[l].svc
        <3>1. /\ k + 1 \in 1 .. Len(svcq) /\ l + 1 \in 1 .. Len(svcq) /\ k + 1 < l + 1
              /\ svcq'[k] = svcq[k + 1] /\ svcq'[l] = svcq[l + 1]
            BY <1>5, <2>1
        <3> QED
            BY <3>1 DEF ServiceInv, InOrder
    <2> QED
        BY <2>1 DEF InOrder
<1>10. Stops'
    <2>1. \A k \in 1 .. Len(svcq') : svcq'[k].kind = "stop" =>
             /\ svcq'[k].svc = svc /\ svcq'[k].run \in Runs /\ pc[svcq'[k].run] = "done"
             /\ home[svcq'[k].run] = svc /\ (cur # Null => svc < cur)
        <3>1. ASSUME NEW k \in 1 .. Len(svcq'), svcq'[k].kind = "stop"
              PROVE  /\ svcq'[k].svc = svc /\ svcq'[k].run \in Runs
                     /\ pc[svcq'[k].run] = "done" /\ home[svcq'[k].run] = svc
                     /\ (cur # Null => svc < cur)
            <4>1. k + 1 \in 1 .. Len(svcq) /\ svcq'[k] = svcq[k + 1]
                BY <1>5
            <4>2. svcq[k + 1].run \in Runs
                BY <4>1, ServiceNumbers
            <4> QED BY <3>1, <4>1, <4>2 DEF ServiceInv, Stops
        <3> QED BY <3>1
    <2>2. \A k \in 1 .. Len(svcq') : svcq'[k].kind = "stop" => s = svc
        <3>1. svc \in Nat
            BY ServiceNumbers
        <3> QED BY <1>2, <1>6, <1>7, <2>1, <3>1
    <2>3. ASSUME NEW k \in 1 .. Len(svcq'), NEW l \in 1 .. Len(svcq'),
                 svcq'[k].kind = "stop", svcq'[l].kind = "stop"
          PROVE  k = l
        <3>1. /\ k + 1 \in 1 .. Len(svcq) /\ svcq[k + 1].kind = "stop"
              /\ l + 1 \in 1 .. Len(svcq) /\ svcq[l + 1].kind = "stop"
            BY <1>5, <2>3
        <3>2. k + 1 = l + 1
            BY <3>1 DEF ServiceInv, Stops
        <3> QED BY <3>2
    <2> QED BY <1>2, <1>3, <1>4, <2>1, <2>2, <2>3 DEF Stops
<1>11. Current'
    <2>1. \A j \in Runs : pc[j] \in Going \cup Past /\ cur # Null /\ home[j] = cur => s = cur
        <3>1. svc \in Nat /\ nsvc \in Nat /\ (cur # Null => cur = nsvc)
            BY ServiceNumbers DEF ServiceInv, Numbered
        <3>2. \A j \in Runs :
                 pc[j] \in Going \cup Past /\ cur # Null /\ home[j] = cur => svc = cur
            BY DEF ServiceInv, Current
        <3> QED BY <1>2, <1>6, <3>1, <3>2
    <2> QED BY <1>3, <1>4, <2>1 DEF Current, Going, Past
<1>12. Shielded'
    BY <1>2, <1>3, <1>4 DEF ServiceInv, Shielded, Going, Past, Native
<1> QED BY <1>8, <1>9, <1>10, <1>11, <1>12 DEF ServiceInv

\* A stop destroys the object it was sent for; who sent it is past its outcome.
LEMMA ServiceStop ==
    ASSUME AppInv, ServiceInv, ServiceDestroyed
    PROVE  ServiceInv'
<1>1. svcq # <<>> /\ svcq' = Tail(svcq) /\ Head(svcq).kind = "stop"
    BY DEF ServiceDestroyed
<1>2. svc' = Null /\ fg' = fg \ {svc} /\ UNCHANGED <<cur, nsvc, pc, home>>
    BY DEF ServiceDestroyed, runVars
<1>3. 1 \in 1 .. Len(svcq) /\ svcq[1].kind = "stop"
    BY <1>1, TailQueue
<1>4. \A k \in 1 .. Len(svcq') :
         k + 1 \in 1 .. Len(svcq) /\ svcq'[k] = svcq[k + 1] /\ k \in Nat /\ k + 1 # 1
    BY <1>1, TailQueue, ServiceNumbers
<1>5. Numbered'
    BY <1>2, <1>4, ServiceNumbers DEF ServiceInv, Numbered
<1>6. InOrder'
    BY <1>4 DEF ServiceInv, InOrder
<1>7. Stops'
    <2>1. \A k \in 1 .. Len(svcq') : svcq'[k].kind # "stop"
        BY <1>3, <1>4 DEF ServiceInv, Stops
    <2> QED BY <2>1 DEF Stops
<1>8. Current'
    BY <1>2, <1>3, ServiceNumbers DEF ServiceInv, Stops, Current
<1>9. Shielded'
    <2>1. PICK j \in Runs : pc[j] = "done" /\ home[j] = svc
        BY <1>3, ServiceNumbers DEF ServiceInv, Stops
    <2> QED BY <1>2, <2>1 DEF ServiceInv, Shielded, Going, Past, Native
<1> QED BY <1>5, <1>6, <1>7, <1>8, <1>9 DEF ServiceInv

\* A thread leaves the foreground with its outcome and stops its service at its end.
LEMMA ServiceWorker ==
    ASSUME AppInv, ServiceInv, NEW i \in Runs, Worker(i) \/ Report(i)
    PROVE  ServiceInv'
<1>0. /\ \A j \in Runs \ {i} : pc'[j] = pc[j]
      /\ UNCHANGED home /\ pc \in [Runs -> Labels]
    BY WorkerFrame, ServiceNumbers
<1>1. CASE StopSelf(i)
    <2>1. pc[i] = "stop" /\ pc'[i] = "done" /\ UNCHANGED <<nsvc, svc, fg>>
        BY <1>0, <1>1 DEF StopSelf, Goto
    <2>2. Shielded'
        BY <1>0, <2>1 DEF ServiceInv, Shielded, Going, Past, Native
    <2>3. \A j \in Runs : pc[j] = "done" => pc'[j] = "done"
        BY <1>0, <2>1
    <2>4. CASE home[i] # cur
        <3>1. UNCHANGED <<cur, svcq>>
            BY <1>1, <2>4 DEF StopSelf
        <3>2. Numbered' /\ InOrder'
            BY <1>0, <2>1, <3>1 DEF ServiceInv, Numbered, InOrder
        <3>3. Stops'
            BY <1>0, <2>1, <2>3, <3>1, ServiceNumbers DEF ServiceInv, Stops
        <3>4. Current'
            BY <1>0, <2>1, <3>1 DEF ServiceInv, Current, Going, Past
        <3> QED BY <2>2, <3>2, <3>3, <3>4 DEF ServiceInv
    <2>5. CASE home[i] = cur
        <3> DEFINE m == [kind |-> "stop", run |-> i, svc |-> cur]
        <3>1. cur' = Null /\ svcq' = Append(svcq, m)
            BY <1>1, <2>5 DEF StopSelf
        <3>2. cur # Null /\ cur = svc /\ cur = nsvc
            BY <2>1, <2>5 DEF AppInv, Homed, ServiceInv, Current, Numbered, Past
        <3>3. m \in SvcMessage
            BY <3>2 DEF AppInv, TypeOK, ServiceType, SvcMessage
        <3>4. m.kind = "stop" /\ m.run = i /\ m.svc = cur
            OBVIOUS
        <3> HIDE DEF m
        <3>5. \A k \in 1 .. Len(svcq) : svcq[k].kind # "stop"
            BY <3>2, ServiceNumbers DEF ServiceInv, Stops
        <3>6. Numbered'
            BY <1>0, <2>1, <3>1, <3>2, <3>3, <3>4, AppendQueue, ServiceNumbers
               DEF ServiceInv, Numbered
        <3>7. InOrder'
            BY <3>1, <3>2, <3>3, <3>4, AppendQueue, ServiceNumbers
               DEF ServiceInv, Numbered, InOrder
        <3>8. \A k \in 1 .. Len(svcq') : svcq'[k].kind = "stop" =>
                 k = Len(svcq) + 1 /\ svcq'[k] = m
            BY <3>1, <3>3, <3>5, AppendQueue
        <3>9. Stops'
            BY <1>0, <2>1, <2>5, <3>1, <3>2, <3>4, <3>8 DEF Stops
        <3>10. Current'
            BY <3>1 DEF Current
        <3> QED BY <2>2, <3>6, <3>7, <3>9, <3>10 DEF ServiceInv
    <2> QED BY <2>4, <2>5
<1>2. CASE NotifyOutcome(i)
    <2>1. /\ pc[i] = "notify" /\ pc'[i] = "result" /\ fg' = fg \ {home[i]}
          /\ UNCHANGED <<svcq, cur, nsvc, svc>>
        BY <1>0, <1>2 DEF NotifyOutcome, Goto
    <2>2. Numbered' /\ InOrder'
        BY <1>0, <2>1 DEF ServiceInv, Numbered, InOrder
    <2>3. \A j \in Runs : pc[j] = "done" => pc'[j] = "done"
        BY <1>0, <2>1
    <2>4. Stops'
        BY <1>0, <2>1, <2>3, ServiceNumbers DEF ServiceInv, Stops
    <2>5. Current'
        BY <1>0, <2>1 DEF ServiceInv, Current, Going, Past
    <2>6. Shielded'
        BY <1>0, <2>1 DEF ServiceInv, Shielded, Going, Past, Native
    <2> QED BY <2>2, <2>4, <2>5, <2>6 DEF ServiceInv
<1>3. CASE ~StopSelf(i) /\ ~NotifyOutcome(i)
    <2>1. UNCHANGED <<svcq, cur, nsvc, svc, fg>>
        BY <1>3 DEF Worker, Report, OpenDevice, EnterNative, WrapDevice, InitDriver, Work,
               LeaveNative, CloseConnection, SendResult, ReleaseLock, svcVars
    <2>2. \/ pc[i] \in Going /\ pc'[i] \in Going
          \/ pc[i] \in Past \ {"done"} /\ pc'[i] \in Past
        BY <1>0, <1>3 DEF Worker, Report, OpenDevice, EnterNative, WrapDevice, InitDriver,
               Work, LeaveNative, CloseConnection, SendResult, ReleaseLock, Goto, Going, Past,
               Native
    <2>3. Numbered' /\ InOrder'
        BY <1>0, <2>1 DEF ServiceInv, Numbered, InOrder
    <2>4. \A j \in Runs : pc[j] = "done" => pc'[j] = "done"
        BY <1>0, <2>2 DEF Going, Native
    <2>5. Stops'
        BY <1>0, <2>1, <2>4, ServiceNumbers DEF ServiceInv, Stops
    <2>6. Current'
        BY <1>0, <2>1, <2>2 DEF ServiceInv, Current
    <2>7. Shielded'
        BY <1>0, <2>1, <2>2 DEF ServiceInv, Shielded, Going, Past, Native
    <2> QED BY <2>3, <2>5, <2>6, <2>7 DEF ServiceInv
<1> QED BY <1>1, <1>2, <1>3

\* The service's part of the invariant holds of every behaviour: from it follows
\* that a session loses the foreground only to one that shares its service.
THEOREM ServiceInvariance == Spec => []ServiceInv
<1>1. Init => ServiceInv
    BY DEF Init, ServiceInv, Numbered, InOrder, Stops, Current, Shielded, Going, Past, Native
<1>2. AppInv /\ ServiceInv /\ [Next]_vars => ServiceInv'
    <2> SUFFICES ASSUME AppInv, ServiceInv, [Next]_vars PROVE ServiceInv'
        OBVIOUS
    <2>1. CASE UNCHANGED vars \/ Activity
        BY <2>1, ServiceFrame
           DEF vars, svcVars, runVars, Activity, onCreate, OnAttached, OnDetached, OnPermission,
               OnResult, OnProgress
    <2>2. CASE User /\ ~Click
        BY <2>2, ServiceFrame
           DEF svcVars, runVars, User, onDestroy, SpinnerChange, ClickAsksNotification
    <2>3. CASE Service
        BY <2>3, ServiceStart, ServiceStop DEF Service
    <2>4. CASE Environment /\ ~ProcessDies
        BY <2>4, ServiceFrame
           DEF svcVars, runVars, Environment, LockTimeout, PlugStick, PlugOther, Unplug, Answer
    <2>5. CASE ProcessDies
        <3>1. /\ svcq' = <<>> /\ cur' = Null /\ svc' = Null /\ UNCHANGED <<nsvc, home>>
              /\ \A i \in Runs : pc'[i] \notin Going
            BY <2>5 DEF ProcessDies, Going, Native
        <3> QED BY <3>1, ServiceNumbers
               DEF ServiceInv, Numbered, InOrder, Stops, Current, Shielded
    <2> QED BY <2>1, <2>2, <2>3, <2>4, <2>5, ServiceClick, ServiceWorker DEF Next
<1> QED BY <1>1, <1>2, AppInvariance, PTL DEF Spec

\* A working session is out of the foreground only when another session of the
\* same service object has reported its outcome, however starts, stops, rotations
\* and deaths of the process interleave.
THEOREM ForegroundLostOnlyByShare == Spec => []ForegroundUnlessShared
<1>1. ServiceInv => ForegroundUnlessShared
    BY DEF ServiceInv, Shielded, ForegroundUnlessShared, Going, Past, Native
<1> QED BY <1>1, ServiceInvariance, PTL

\* After the last session of a process that lives the notification says how it
\* ended: a late progress report of one session may overwrite the outcome of
\* another, but then that session still has its own outcome to show.
THEOREM NotificationAlwaysSettles == Spec => []NotificationSettles
<1>1. Init => NoteInv
    BY DEF Init, NoteInv
<1>2. AppInv /\ NoteInv /\ [Next]_vars => NoteInv'
    <2> SUFFICES ASSUME AppInv, NoteInv, [Next]_vars PROVE NoteInv'
        OBVIOUS
    <2>0. pc \in [Runs -> Labels] /\ deaths \in Nat
        BY DEF AppInv, TypeOK, RunType, EnvType
    <2>1. CASE UNCHANGED vars \/ Activity
        BY <2>1
           DEF vars, envVars, runVars, Activity, onCreate, OnAttached, OnDetached,
               OnPermission, OnResult, OnProgress, NoteInv
    <2>2. CASE User
        <3>1. CASE Click
            <4>1. starts + 1 \in Runs /\ pc[starts + 1] = "none"
                BY <3>1 DEF Click, AppInv, TypeOK, RunType, Queued
            <4> QED BY <2>0, <3>1, <4>1 DEF Click, envVars, NoteInv, Going, Native
        <3>2. CASE ~Click
            BY <2>2, <3>2
               DEF runVars, envVars, User, onDestroy, SpinnerChange, ClickAsksNotification,
                   NoteInv
        <3> QED BY <3>1, <3>2
    <2>3. CASE onStartCommand
        <3>1. Head(svcq).run \in Runs
            BY <2>3, TailQueue DEF onStartCommand, SvcMessage
        <3>2. pc'[Head(svcq).run] = "open"
            BY <2>0, <2>3, <3>1 DEF onStartCommand
        <3> QED BY <3>1, <3>2 DEF NoteInv, Going
    <2>4. CASE ServiceDestroyed
        BY <2>4 DEF ServiceDestroyed, envVars, runVars, NoteInv
    <2>5. CASE Environment /\ ~ProcessDies
        BY <2>5
           DEF runVars, Environment, LockTimeout, PlugStick, PlugOther, Unplug, Answer, envVars,
               NoteInv
    <2>6. CASE ProcessDies
        BY <2>0, <2>6 DEF ProcessDies, NoteInv
    <2>7. ASSUME NEW i \in Runs, Worker(i) \/ Report(i) PROVE NoteInv'
        <3>1. (\A j \in Runs \ {i} : pc'[j] = pc[j]) /\ deaths' = deaths
            BY <2>7, WorkerFrame
               DEF Worker, Report, Goto, OpenDevice, EnterNative, WrapDevice, InitDriver, Work,
                   LeaveNative, CloseConnection, NotifyOutcome, SendResult, ReleaseLock,
                   StopSelf, envVars
        <3>2. \/ pc[i] \in Going /\ pc'[i] \in Going
              \/ pc[i] \in Going /\ note' \in {"success", "error"}
              \/ pc[i] \notin Going /\ note' = note
            BY <2>0, <2>7
               DEF Worker, Report, Goto, OpenDevice, EnterNative, WrapDevice, InitDriver, Work,
                   LeaveNative, CloseConnection, NotifyOutcome, SendResult, ReleaseLock,
                   StopSelf, Going, Native
        <3> QED BY <3>1, <3>2 DEF NoteInv
    <2> QED BY <2>1, <2>2, <2>3, <2>4, <2>5, <2>6, <2>7 DEF Next, Service
<1>3. NoteInv => NotificationSettles
    BY DEF NoteInv, NotificationSettles, Unfinished, Going
<1> QED BY <1>1, <1>2, <1>3, AppInvariance, PTL DEF Spec

=============================================================================

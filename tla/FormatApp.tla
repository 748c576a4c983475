------------------------------ MODULE FormatApp ------------------------------
(***************************************************************************)
(* The Android side of the program: MainActivity (the button, the device   *)
(* it stands for, the receivers), FormatService (start commands, worker    *)
(* threads, wake lock, notification) and what a worker does to the globals *)
(* of native-lib.cpp and usb_scsi.cpp.  The session itself is one step     *)
(* here ("work"); FormatSession models its inside.                         *)
(*                                                                         *)
(* Broadcasts of one kind arrive in the order they were sent; those of     *)
(* different kinds in any order.  Only a registered receiver gets one.     *)
(***************************************************************************)
EXTENDS Integers, Sequences, FiniteSets

CONSTANTS
    MaxPlugs,     \* bound: sticks plugged in, one after or beside the other
    MaxStarts,    \* bound: format sessions the user starts
    MaxOthers,    \* bound: other USB devices plugged in (a mouse, a hub)
    MaxRecreate,  \* bound: activities destroyed (rotation, language, leaving)
    MaxReports,   \* bound: progress reports of one session
    MaxDeaths     \* bound: deaths of the process

ASSUME AppBounds ==
    {MaxPlugs, MaxStarts, MaxOthers, MaxRecreate, MaxReports, MaxDeaths} \subseteq Nat

Null == 0
Sticks == 1 .. MaxPlugs   \* UsbDevice objects: a stick plugged in again is new
Runs == 1 .. MaxStarts    \* start commands, and the worker thread of each
Services == 1 .. MaxStarts

\* Where a run is: its start command is queued, then the steps of the thread.
Native == {"enter", "wrap", "init", "work", "leave"}
Ending == {"close", "notify", "result", "release", "stop"}
Labels == {"none", "queued", "open", "done", "killed"} \cup Native \cup Ending

Status == {"waiting", "found", "ready", "disconnected", "checknotif",
           "stage", "success", "error"}

Notes == {"none", "ongoing", "success", "error"}

VARIABLES
    plugs, others, recreated, deaths,  \* counters of the environment
    attached,       \* sticks present (usbManager.deviceList)
    permitted,      \* sticks the app may open (usbManager.hasPermission)
    asked,          \* sticks whose permission dialog is open
    notifOk,        \* POST_NOTIFICATIONS has been granted
    alive,          \* the activity exists, its receivers are registered
    myUsbDevice, btnEnabled, status,   \* MainActivity
    panel, bar,     \* layoutProgress is not gone; progressBar is visible
    usbq, permq, appq,   \* broadcasts on their way to the activity
    svcq,           \* start and stop commands on their way to the service
    cur, nsvc,      \* the service Android counts as started, number so far
    svc,            \* the service object that exists
    lock, fg,       \* service objects that hold the wake lock, are foreground
    note,           \* notification 101
    starts, pc, dev, home, ok, reports,   \* per run: thread, device, service
    conns,          \* open UsbDeviceConnections, by run
    gService, gHandle,   \* g_service_obj, g_usb_handle: whose, or Null
    refs,           \* JNI global references not deleted, by run
    early           \* history: the button was enabled during a run

envVars == <<plugs, others, recreated, deaths, attached, permitted, notifOk>>
uiVars == <<alive, myUsbDevice, btnEnabled, status, panel, bar>>
qVars == <<usbq, permq, appq>>
svcVars == <<svcq, cur, nsvc, svc, lock, fg>>
runVars == <<starts, pc, dev, home, ok, reports>>
natVars == <<conns, gService, gHandle, refs>>
vars == <<envVars, asked, uiVars, qVars, svcVars, note, runVars, natVars, early>>

\* Runs whose FORMAT_RESULT has not been sent.
Unfinished == {i \in Runs : pc[i] \in {"queued", "open", "close", "notify", "result"} \cup Native}

Init ==
    /\ plugs = 0 /\ others = 0 /\ recreated = 0 /\ deaths = 0
    /\ attached = {} /\ permitted = {} /\ asked = {}
    /\ notifOk \in BOOLEAN
    /\ alive = FALSE /\ myUsbDevice = Null /\ btnEnabled = FALSE
    /\ status = "waiting" /\ panel = FALSE /\ bar = TRUE
    /\ usbq = <<>> /\ permq = <<>> /\ appq = <<>>
    /\ svcq = <<>> /\ cur = Null /\ nsvc = 0 /\ svc = Null
    /\ lock = {} /\ fg = {} /\ note = "none"
    /\ starts = 0 /\ pc = [i \in Runs |-> "none"]
    /\ dev = [i \in Runs |-> Null] /\ home = [i \in Runs |-> Null]
    /\ ok = [i \in Runs |-> FALSE] /\ reports = [i \in Runs |-> 0]
    /\ conns = {} /\ gService = Null /\ gHandle = Null /\ refs = {}
    /\ early = FALSE

\* A broadcast reaches the queue only of a receiver registered when it is sent.
Sent(q, m) == IF alive THEN Append(q, m) ELSE q

-----------------------------------------------------------------------------
(* The activity.                                                            *)

\* History: a handler leaves the button enabled while a run is unfinished.
Noted == early' = (early \/ (btnEnabled' /\ Unfinished # {}))

\* setupUsbReady, resetUsbState and the branch that asks for permission, as the
\* scan chooses: the first mass-storage device of deviceList, a hash map, so any.
\* Only the branch that asks leaves the button as it finds it (btn).
scanForUsbDevices(btn) ==
    \/ \E d \in attached :
          /\ myUsbDevice' = d
          /\ \/ /\ d \in permitted
                /\ btnEnabled' = TRUE /\ status' = "ready" /\ UNCHANGED asked
             \/ /\ d \notin permitted
                /\ btnEnabled' = btn /\ status' = "found" /\ asked' = asked \cup {d}
    \/ /\ attached = {}
       /\ myUsbDevice' = Null /\ btnEnabled' = FALSE /\ status' = "disconnected"
       /\ UNCHANGED asked

\* onCreate: a new view (button disabled, panel gone), receivers registered, scan.
onCreate ==
    /\ ~alive /\ alive' = TRUE /\ bar' = TRUE /\ panel' = FALSE
    /\ scanForUsbDevices(FALSE) /\ Noted
    /\ UNCHANGED <<envVars, qVars, svcVars, note, runVars, natVars>>

\* onDestroy: the receivers are unregistered, what was on its way to them is
\* dropped.  Nothing of the service changes.
onDestroy ==
    /\ alive /\ recreated < MaxRecreate
    /\ alive' = FALSE /\ recreated' = recreated + 1
    /\ myUsbDevice' = Null /\ btnEnabled' = FALSE /\ status' = "waiting"
    /\ panel' = FALSE /\ usbq' = <<>> /\ permq' = <<>> /\ appq' = <<>>
    /\ UNCHANGED <<plugs, others, deaths, attached, permitted, notifOk, asked, bar,
                   svcVars, note, runVars, natVars, early>>

\* ACTION_USB_DEVICE_ATTACHED, of any device.
OnAttached ==
    /\ alive /\ usbq # <<>> /\ Head(usbq).kind = "attached"
    /\ usbq' = Tail(usbq)
    /\ scanForUsbDevices(btnEnabled) /\ Noted
    /\ panel' = (panel /\ status' = "found")
    /\ UNCHANGED <<envVars, alive, bar, permq, appq, svcVars, note, runVars, natVars>>

\* ACTION_USB_DEVICE_DETACHED.
OnDetached ==
    /\ alive /\ usbq # <<>> /\ Head(usbq).kind = "detached"
    /\ usbq' = Tail(usbq)
    /\ \/ /\ Head(usbq).dev = myUsbDevice
          /\ myUsbDevice' = Null /\ btnEnabled' = FALSE
          /\ status' = "disconnected" /\ panel' = FALSE
       \/ /\ Head(usbq).dev # myUsbDevice
          /\ UNCHANGED <<myUsbDevice, btnEnabled, status, panel>>
    /\ UNCHANGED <<envVars, asked, alive, bar, permq, appq, svcVars, note, runVars,
                   natVars, early>>

\* The answer to the permission request.
OnPermission ==
    /\ alive /\ permq # <<>> /\ permq' = Tail(permq)
    /\ \/ /\ Head(permq).granted
          /\ myUsbDevice' = Head(permq).dev /\ btnEnabled' = TRUE
          /\ status' = "ready" /\ panel' = FALSE
       \/ /\ ~Head(permq).granted
          /\ UNCHANGED <<myUsbDevice, btnEnabled, status, panel>>
    /\ Noted
    /\ UNCHANGED <<envVars, asked, alive, bar, usbq, appq, svcVars, note, runVars, natVars>>

\* Mutated form: the device is not looked up again after a result.
OnResultNoScan ==
    /\ alive /\ appq # <<>> /\ Head(appq).kind = "result" /\ appq' = Tail(appq)
    /\ btnEnabled' = TRUE /\ Noted
    /\ panel' = TRUE /\ bar' = FALSE
    /\ UNCHANGED <<envVars, asked, alive, myUsbDevice, status, usbq, permq, svcVars, note,
                   runVars, natVars>>

\* Mutated form: the button comes back only after a success.
OnResultOnlySuccess ==
    /\ alive /\ appq # <<>> /\ Head(appq).kind = "result" /\ appq' = Tail(appq)
    /\ btnEnabled' = Head(appq).success /\ Noted
    /\ panel' = TRUE /\ bar' = FALSE
    /\ UNCHANGED <<envVars, asked, alive, myUsbDevice, status, usbq, permq, svcVars, note,
                   runVars, natVars>>

\* FORMAT_RESULT: the outcome is put into the status and the button enabled; the
\* scan that follows sets both again; at last the panel shows the icon.
OnResult ==
    /\ alive /\ appq # <<>> /\ Head(appq).kind = "result" /\ appq' = Tail(appq)
    /\ scanForUsbDevices(TRUE) /\ Noted
    /\ panel' = TRUE /\ bar' = FALSE
    /\ UNCHANGED <<envVars, alive, usbq, permq, svcVars, note, runVars, natVars>>

\* FORMAT_PROGRESS.
OnProgress ==
    /\ alive /\ appq # <<>> /\ Head(appq).kind = "progress" /\ appq' = Tail(appq)
    /\ panel' = TRUE
    /\ status' \in {status, "stage"}   \* a report carries a percentage or a stage
    /\ UNCHANGED <<envVars, asked, alive, myUsbDevice, btnEnabled, bar, usbq, permq,
                   svcVars, note, runVars, natVars, early>>

\* A spinner is moved: the outcome of the last format is put away.
SpinnerChange ==
    /\ alive /\ btnEnabled /\ panel /\ ~bar
    /\ panel' = FALSE /\ status' = "ready"
    /\ UNCHANGED <<envVars, asked, alive, myUsbDevice, btnEnabled, bar, qVars, svcVars,
                   note, runVars, natVars, early>>

\* startForegroundService: Android makes a service unless one is started.
StartService(i) ==
    LET s == IF cur = Null THEN nsvc + 1 ELSE cur
    IN  /\ cur' = s /\ nsvc' = IF cur = Null THEN s ELSE nsvc
        /\ svcq' = Append(svcq, [kind |-> "start", run |-> i, svc |-> s])

\* The button: the device goes into the intent that starts the service.
Click ==
    /\ alive /\ btnEnabled /\ starts < MaxStarts /\ notifOk
    /\ starts' = starts + 1
    /\ pc' = [pc EXCEPT ![starts + 1] = "queued"]
    /\ dev' = [dev EXCEPT ![starts + 1] = myUsbDevice]
    /\ StartService(starts + 1)
    /\ btnEnabled' = FALSE /\ status' = "checknotif" /\ panel' = TRUE /\ bar' = TRUE
    /\ UNCHANGED <<envVars, asked, alive, myUsbDevice, qVars, svc, lock, fg,
                   note, home, ok, reports, natVars, early>>

\* Without the right to notify a click only asks for it; here, it is granted.
ClickAsksNotification ==
    /\ alive /\ btnEnabled /\ ~notifOk /\ notifOk' = TRUE
    /\ UNCHANGED <<plugs, others, recreated, deaths, attached, permitted, asked, uiVars,
                   qVars, svcVars, note, runVars, natVars, early>>

-----------------------------------------------------------------------------
(* The service: commands handled on the main thread.                        *)

\* Mutated form: startForeground reaches only an object that is there already.
onStartCommandBackground ==
    /\ svcq # <<>> /\ Head(svcq).kind = "start" /\ svcq' = Tail(svcq)
    /\ LET i == Head(svcq).run
           s == Head(svcq).svc
       IN  /\ svc' = s /\ lock' = IF svc = s THEN lock ELSE lock \cup {s}
           /\ fg' = IF svc = Null THEN fg ELSE fg \cup {svc}
           /\ note' = "ongoing"
           /\ pc' = [pc EXCEPT ![i] = "open"]
           /\ home' = [home EXCEPT ![i] = s]
    /\ UNCHANGED <<envVars, asked, uiVars, qVars, cur, nsvc, starts, dev, ok, reports,
                   natVars, early>>

\* onStartCommand, after onCreate when there is no service object: the wake lock
\* is acquired once per object, the notification and the thread once per start.
onStartCommand ==
    /\ svcq # <<>> /\ Head(svcq).kind = "start" /\ svcq' = Tail(svcq)
    /\ LET i == Head(svcq).run
           s == Head(svcq).svc
       IN  /\ svc' = s /\ lock' = IF svc = s THEN lock ELSE lock \cup {s}
           /\ fg' = fg \cup {s} /\ note' = "ongoing"
           /\ pc' = [pc EXCEPT ![i] = "open"]
           /\ home' = [home EXCEPT ![i] = s]
    /\ UNCHANGED <<envVars, asked, uiVars, qVars, cur, nsvc, starts, dev, ok, reports,
                   natVars, early>>

\* FormatService.onDestroy.  The threads of the object go on.  Android takes the
\* notification of a foreground service away with it.
ServiceDestroyed ==
    /\ svcq # <<>> /\ Head(svcq).kind = "stop" /\ svcq' = Tail(svcq)
    /\ lock' = lock \ {svc} /\ svc' = Null /\ fg' = fg \ {svc}
    /\ note' = IF svc \in fg THEN "none" ELSE note
    /\ UNCHANGED <<envVars, asked, uiVars, qVars, cur, nsvc, runVars, natVars, early>>

\* The 30 minutes of the wake lock are over.
LockTimeout ==
    /\ \E s \in lock : lock' = lock \ {s}
    /\ UNCHANGED <<envVars, asked, uiVars, qVars, svcq, cur, nsvc, svc, fg, note,
                   runVars, natVars, early>>

-----------------------------------------------------------------------------
(* The worker thread of run i.                                              *)

Goto(i, l) ==
    /\ pc' = [pc EXCEPT ![i] = l]
    /\ UNCHANGED <<envVars, asked, uiVars, usbq, permq, starts, dev, home, early>>

\* Mutated form: nothing catches what openDevice throws.
OpenDeviceUncaught(i) ==
    /\ pc[i] = "open"
    /\ dev[i] \in attached \cap permitted
    /\ conns' = conns \cup {i} /\ Goto(i, "enter")
    /\ UNCHANGED <<appq, note, svcVars, ok, reports, gService, gHandle, refs>>

\* openDevice: a connection, or none (no device in the intent, null, an
\* exception because the stick is gone or not permitted); null is reported.
OpenDevice(i) ==
    /\ pc[i] = "open"
    /\ \/ /\ dev[i] \in attached \cap permitted
          /\ conns' = conns \cup {i} /\ Goto(i, "enter")
          /\ UNCHANGED <<appq, note>>
       \/ /\ UNCHANGED conns /\ Goto(i, "close")
          /\ \/ UNCHANGED <<appq, note>>
             \/ /\ dev[i] # Null /\ note' \in {note, "ongoing"}
                /\ appq' = Sent(appq, [kind |-> "progress", success |-> FALSE])
    /\ UNCHANGED <<svcVars, ok, reports, gService, gHandle, refs>>

\* startStableFormat takes a global reference and opens libusb on the descriptor.
EnterNative(i) ==
    /\ pc[i] = "enter" /\ Goto(i, "wrap")
    /\ gService' = i /\ refs' = refs \cup {i}
    /\ UNCHANGED <<appq, svcVars, note, ok, reports, conns, gHandle>>

\* libusb_init_context and libusb_wrap_sys_device; either may fail.  The reference
\* deleted is the one the global holds.
WrapDevice(i) ==
    /\ pc[i] = "wrap"
    /\ \/ Goto(i, "init") /\ UNCHANGED <<gService, refs>>
       \/ Goto(i, "close") /\ gService' = Null /\ refs' = refs \ {gService}
    /\ UNCHANGED <<appq, svcVars, note, ok, reports, conns, gHandle>>

\* Mutated form: usb_scsi_init keeps the handle it was given first.
InitDriverOnce(i) ==
    /\ pc[i] = "init" /\ Goto(i, "work")
    /\ gHandle' = IF gHandle = Null THEN i ELSE gHandle
    /\ UNCHANGED <<appq, svcVars, note, ok, reports, conns, gService, refs>>

\* usb_scsi_init: from here on every transfer uses this handle.
InitDriver(i) ==
    /\ pc[i] = "init" /\ Goto(i, "work")
    /\ gHandle' = i
    /\ UNCHANGED <<appq, svcVars, note, ok, reports, conns, gService, refs>>

\* report_progress_to_java, report_stage_to_java, reportProgress, reportStage: the
\* notification (at most every 500 or 1000 ms) and a broadcast to the activity.
Report(i) ==
    /\ pc[i] \in {"wrap", "init", "work"} /\ gService # Null /\ reports[i] < MaxReports
    /\ reports' = [reports EXCEPT ![i] = @ + 1]
    /\ note' \in {note, "ongoing"}
    /\ appq' = Sent(appq, [kind |-> "progress", success |-> FALSE])
    /\ Goto(i, pc[i])
    /\ UNCHANGED <<svcVars, ok, natVars>>

\* The partitioning and the engine; the engine's result is the session's.
Work(i) ==
    /\ pc[i] = "work" /\ Goto(i, "leave")
    /\ \E r \in BOOLEAN : ok' = [ok EXCEPT ![i] = r]
    /\ UNCHANGED <<appq, svcVars, note, reports, natVars>>

\* The end of startStableFormat; g_usb_handle keeps the closed handle.
LeaveNative(i) ==
    /\ pc[i] = "leave" /\ Goto(i, "close")
    /\ gService' = Null /\ refs' = refs \ {gService}
    /\ UNCHANGED <<appq, svcVars, note, ok, reports, conns, gHandle>>

\* The finally block, one call a step.
CloseConnection(i) ==
    /\ pc[i] = "close" /\ Goto(i, "notify")
    /\ conns' = conns \ {i}
    /\ UNCHANGED <<appq, svcVars, note, ok, reports, gService, gHandle, refs>>

\* Mutated form: the service leaves the foreground, the notification is not replaced.
NotifyOnlyDetach(i) ==
    /\ pc[i] = "notify" /\ Goto(i, "result")
    /\ fg' = fg \ {home[i]}
    /\ UNCHANGED <<appq, svcq, cur, nsvc, svc, lock, note, ok, reports, natVars>>

NotifyOutcome(i) ==
    /\ pc[i] = "notify" /\ Goto(i, "result")
    /\ fg' = fg \ {home[i]} /\ note' = IF ok[i] THEN "success" ELSE "error"
    /\ UNCHANGED <<appq, svcq, cur, nsvc, svc, lock, ok, reports, natVars>>

SendResult(i) ==
    /\ pc[i] = "result" /\ Goto(i, "release")
    /\ appq' = Sent(appq, [kind |-> "result", success |-> ok[i]])
    /\ UNCHANGED <<svcVars, note, ok, reports, natVars>>

ReleaseLock(i) ==
    /\ pc[i] = "release" /\ Goto(i, "stop")
    /\ lock' = lock \ {home[i]}
    /\ UNCHANGED <<appq, svcq, cur, nsvc, svc, fg, note, ok, reports, natVars>>

\* Mutated form: the service is stopped only after a success.
StopSelfOnSuccess(i) ==
    /\ pc[i] = "stop" /\ Goto(i, "done")
    /\ IF home[i] = cur /\ ok[i]
       THEN cur' = Null /\ svcq' = Append(svcq, [kind |-> "stop", run |-> i, svc |-> cur])
       ELSE UNCHANGED <<cur, svcq>>
    /\ UNCHANGED <<appq, nsvc, svc, lock, fg, note, ok, reports, natVars>>

\* stopSelf() names no start: the object is stopped though a later start waits.
\* A service that was stopped already has no say any more.
StopSelf(i) ==
    /\ pc[i] = "stop" /\ Goto(i, "done")
    /\ IF home[i] = cur
       THEN cur' = Null /\ svcq' = Append(svcq, [kind |-> "stop", run |-> i, svc |-> cur])
       ELSE UNCHANGED <<cur, svcq>>
    /\ UNCHANGED <<appq, nsvc, svc, lock, fg, note, ok, reports, natVars>>

Worker(i) ==
    \/ OpenDevice(i) \/ EnterNative(i) \/ WrapDevice(i) \/ InitDriver(i) \/ Work(i)
    \/ LeaveNative(i) \/ CloseConnection(i) \/ NotifyOutcome(i) \/ SendResult(i)
    \/ ReleaseLock(i) \/ StopSelf(i)

-----------------------------------------------------------------------------
(* The environment.                                                         *)

PlugStick ==
    /\ plugs < MaxPlugs /\ plugs' = plugs + 1
    /\ attached' = attached \cup {plugs + 1}
    /\ usbq' = Sent(usbq, [kind |-> "attached", dev |-> plugs + 1])
    /\ UNCHANGED <<others, recreated, deaths, permitted, asked, notifOk, uiVars, permq,
                   appq, svcVars, note, runVars, natVars, early>>

PlugOther ==
    /\ others < MaxOthers /\ others' = others + 1
    /\ usbq' = Sent(usbq, [kind |-> "attached", dev |-> Null])
    /\ UNCHANGED <<plugs, recreated, deaths, attached, permitted, asked, notifOk, uiVars,
                   permq, appq, svcVars, note, runVars, natVars, early>>

\* Permissions end with the connection.
Unplug ==
    /\ \E d \in attached :
          /\ attached' = attached \ {d} /\ permitted' = permitted \ {d}
          /\ usbq' = Sent(usbq, [kind |-> "detached", dev |-> d])
    /\ UNCHANGED <<plugs, others, recreated, deaths, asked, notifOk, uiVars, permq, appq,
                   svcVars, note, runVars, natVars, early>>

\* The user answers a permission dialog; a stick that is gone is refused.
Answer ==
    /\ \E d \in asked, granted \in BOOLEAN :
          /\ granted => d \in attached
          /\ asked' = asked \ {d}
          /\ permitted' = IF granted THEN permitted \cup {d} ELSE permitted
          /\ permq' = Sent(permq, [dev |-> d, granted |-> granted])
    /\ UNCHANGED <<plugs, others, recreated, deaths, attached, notifOk, uiVars, usbq, appq,
                   svcVars, note, runVars, natVars, early>>

\* The process ends while a run is unfinished: killed, or an engine calls exit().
\* START_NOT_STICKY: nothing is started again.
ProcessDies ==
    /\ deaths < MaxDeaths /\ deaths' = deaths + 1
    /\ Unfinished # {}
    /\ alive' = FALSE /\ myUsbDevice' = Null /\ btnEnabled' = FALSE
    /\ status' = "waiting" /\ panel' = FALSE
    /\ usbq' = <<>> /\ permq' = <<>> /\ appq' = <<>>
    /\ svcq' = <<>> /\ cur' = Null /\ svc' = Null /\ lock' = {} /\ fg' = {}
    /\ note' = IF fg # {} THEN "none" ELSE note
    /\ pc' = [i \in Runs |-> IF pc[i] \in {"none", "done"} THEN pc[i] ELSE "killed"]
    /\ conns' = {} /\ gService' = Null /\ gHandle' = Null /\ refs' = {}
    /\ UNCHANGED <<plugs, others, recreated, attached, permitted, notifOk, asked, bar, nsvc,
                   starts, dev, home, ok, reports, early>>

-----------------------------------------------------------------------------
Activity == onCreate \/ OnAttached \/ OnDetached \/ OnPermission \/ OnResult \/ OnProgress
User == onDestroy \/ SpinnerChange \/ Click \/ ClickAsksNotification
Service == onStartCommand \/ ServiceDestroyed
Environment == LockTimeout \/ PlugStick \/ PlugOther \/ Unplug \/ Answer \/ ProcessDies

Next ==
    \/ Activity \/ User \/ Service \/ Environment
    \/ \E i \in Runs : Worker(i) \/ Report(i)

\* The main thread handles what is queued for it and a thread runs on; nothing
\* makes the user or the USB port do anything.
Fairness ==
    /\ WF_vars(OnAttached) /\ WF_vars(OnDetached) /\ WF_vars(OnPermission)
    /\ WF_vars(OnResult) /\ WF_vars(OnProgress) /\ WF_vars(Service)
    /\ \A i \in Runs : WF_vars(Worker(i))

Spec == Init /\ [][Next]_vars /\ Fairness

-----------------------------------------------------------------------------
(* Properties.                                                              *)

UsbMessage == [kind : {"attached", "detached"}, dev : Sticks \cup {Null}]
PermMessage == [dev : Sticks, granted : BOOLEAN]
AppMessage == [kind : {"progress", "result"}, success : BOOLEAN]
SvcMessage == [kind : {"start", "stop"}, run : Runs, svc : Services]

EnvType ==
    /\ plugs \in 0 .. MaxPlugs /\ others \in 0 .. MaxOthers
    /\ recreated \in 0 .. MaxRecreate /\ deaths \in 0 .. MaxDeaths
    /\ attached \subseteq Sticks /\ permitted \subseteq Sticks /\ asked \subseteq Sticks
    /\ notifOk \in BOOLEAN

UiType ==
    /\ alive \in BOOLEAN /\ btnEnabled \in BOOLEAN /\ early \in BOOLEAN
    /\ myUsbDevice \in Sticks \cup {Null} /\ status \in Status
    /\ panel \in BOOLEAN /\ bar \in BOOLEAN

QueueType == usbq \in Seq(UsbMessage) /\ permq \in Seq(PermMessage) /\ appq \in Seq(AppMessage)

ServiceType ==
    /\ svcq \in Seq(SvcMessage) /\ cur \in Services \cup {Null} /\ nsvc \in 0 .. starts
    /\ svc \in Services \cup {Null} /\ lock \subseteq Services /\ fg \subseteq Services
    /\ note \in Notes

RunType ==
    /\ starts \in 0 .. MaxStarts /\ pc \in [Runs -> Labels]
    /\ dev \in [Runs -> Sticks \cup {Null}] /\ home \in [Runs -> Services \cup {Null}]
    /\ ok \in [Runs -> BOOLEAN] /\ reports \in [Runs -> 0 .. MaxReports]
    /\ conns \subseteq Runs /\ refs \subseteq Runs
    /\ gService \in Runs \cup {Null} /\ gHandle \in Runs \cup {Null}

TypeOK == EnvType /\ UiType /\ QueueType /\ ServiceType /\ RunType

\* MainActivity: an enabled button always has a device to put into the intent,
\* whatever order USB events, permission answers and results are handled in.
EnabledHasDevice == btnEnabled => alive /\ myUsbDevice # Null

\* As long as no event enabled the button during a run, the globals of the native
\* code belong to the session that works: its handle, its connection, its reference; no other reference is
\* left over from an earlier session.
OwnsDriver ==
    ~early => \A i \in Runs : pc[i] = "work" =>
                 gHandle = i /\ gService = i /\ refs = {i} /\ i \in conns

\* When every run has ended and the process lives, the notification no longer
\* says that a format is going on.
NotificationSettles ==
    Unfinished = {} /\ deaths = 0 => note # "ongoing"

\* A session is taken out of the foreground, where Android may end it, only by
\* another session of the same service object that is past its outcome: its result
\* is broadcast before it stops the service, and a click in between is served by
\* that service.
ForegroundUnlessShared ==
    \A i \in Runs : pc[i] = "work" /\ home[i] \notin fg =>
        \E j \in Runs \ {i} :
            home[j] = home[i] /\ pc[j] \in {"result", "release", "stop", "done"}

\* Every start command comes to its end, whatever fails in between.
StartEnds == \A i \in Runs : pc[i] = "queued" ~> pc[i] \in {"done", "killed"}

\* After a click the button comes back, unless the activity or every stick went.
ButtonReturns ==
    \A i \in Runs : pc[i] = "queued" ~> (btnEnabled \/ ~alive \/ attached = {})

\* The service does not stay: it is destroyed and its wake lock released.
ServiceStops == svc # Null ~> (svc = Null /\ lock = {})

-----------------------------------------------------------------------------
(* What the repository says and the code does not do.                       *)

\* Stated in usb_scsi.h: "Initializes the driver for a specific libusb handle."
\* A session that works does so on its own handle.
HandleIsOwn == \A i \in Runs : pc[i] = "work" => gHandle = i
=============================================================================

---------------------------- MODULE BotTransport ----------------------------
(***************************************************************************)
(* scsi_command and usb_transfer of usb_scsi.cpp: one SCSI command as the  *)
(* three transfers of the USB Bulk-Only Transport (command block, data,    *)
(* status), followed by a REQUEST SENSE when the status is not good.  Each *)
(* transfer is a step and may fail; the stick is modelled as the other end *)
(* of the two bulk pipes.                                                  *)
(***************************************************************************)
EXTENDS Integers, Sequences

CONSTANTS
    MaxCalls,   \* bound: calls of scsi_command
    MaxFaults,  \* bound: transfers that time out
    MaxSticks   \* bound: sticks, one after the other

ASSUME BoundsAssumption ==
    MaxCalls \in Nat /\ MaxFaults \in Nat /\ MaxSticks \in Nat \ {0}

\* Commands by what scsi_command tells apart: the direction of the data phase,
\* no data phase (TEST UNIT READY), and SYNCHRONIZE CACHE (opcode 0x35).
Commands == {"in", "out", "none", "sync"}

VARIABLES
    gTag,           \* g_tag
    syncSupported,  \* g_sync_cache_supported
    pc,             \* the next transfer of the open call, or "idle"
    cmd, cbwTag,    \* the command and cbw_pkt.tag
    res,            \* what the last call returned
    answer,         \* history: the tag whose status the last call took
    inStep,         \* history: no transfer has failed outside REQUEST SENSE,
                    \*   and none has timed out
    dev, devTag,    \* stick: expects a command block, or data for devTag
    inq,            \* stick: what it will hand over on the IN pipe, in order
    good,           \* stick: tags of commands it completed with good status
    gone,           \* the stick has been unplugged
    sticks,         \* sticks so far, this one included
    refused,        \* history: some stick has rejected a SYNCHRONIZE CACHE
    faults, calls

hostVars == <<gTag, syncSupported, pc, cmd, cbwTag, res, answer, inStep>>
devVars  == <<dev, devTag, inq, good>>
stickVars == <<gone, sticks, refused>>
vars == <<hostVars, devVars, stickVars, faults, calls>>

-----------------------------------------------------------------------------
(* The stick.                                                               *)

Data(t) == [kind |-> "data", tag |-> t, status |-> 0]
Csw(t, s) == [kind |-> "csw", tag |-> t, status |-> s]
Stall(t) == [kind |-> "stall", tag |-> t, status |-> 0]

\* The stick accepts a command block.  A failing command with a data phase
\* either stalls the pipe or goes through the motions; both end in a bad status.
\* A stick that still waits for data takes the block for that data.
TakeCbw(t, c) ==
    \/ /\ dev = "data"
       /\ dev' = "ready" /\ inq' = Append(inq, Csw(devTag, 1))
       /\ UNCHANGED <<devTag, good>>
    \/ /\ dev = "ready" /\ c = "in"
       /\ \/ inq' = inq \o <<Data(t), Csw(t, 0)>> /\ good' = good \cup {t}
          \/ inq' = inq \o <<Data(t), Csw(t, 1)>> /\ good' = good
          \/ inq' = inq \o <<Stall(t), Csw(t, 1)>> /\ good' = good
       /\ UNCHANGED <<dev, devTag>>
    \/ /\ dev = "ready" /\ c = "out"
       /\ dev' = "data" /\ devTag' = t
       /\ UNCHANGED <<inq, good>>
    \/ /\ dev = "ready" /\ c \in {"none", "sync"}
       /\ \/ inq' = Append(inq, Csw(t, 0)) /\ good' = good \cup {t}
          \/ inq' = Append(inq, Csw(t, 1)) /\ good' = good
       /\ UNCHANGED <<dev, devTag>>

\* The stick takes the data of an OUT command and completes it.
TakeData ==
    /\ dev = "data" /\ dev' = "ready"
    /\ \/ inq' = Append(inq, Csw(devTag, 0)) /\ good' = good \cup {devTag}
       \/ inq' = Append(inq, Csw(devTag, 1)) /\ good' = good
    /\ UNCHANGED devTag

\* The stick stalls the OUT pipe: it rejects the command whose data is due.
RefuseData ==
    /\ IF dev = "data" THEN inq' = Append(inq, Csw(devTag, 1)) ELSE UNCHANGED inq
    /\ dev' = "ready"
    /\ UNCHANGED <<devTag, good>>

\* The next item of the IN pipe is handed over.
HandOver == inq # <<>> /\ inq' = Tail(inq) /\ UNCHANGED <<dev, devTag, good>>

\* Transfers that fail without the stick taking or giving anything: it is gone,
\* it has nothing to give, or it answers after the 60 s of usb_transfer.
NoAnswer(waiting) ==
    /\ \/ gone /\ UNCHANGED faults
       \/ ~gone /\ waiting /\ UNCHANGED faults
       \/ ~gone /\ faults < MaxFaults /\ faults' = faults + 1
    /\ UNCHANGED devVars

-----------------------------------------------------------------------------
(* scsi_command.                                                            *)

Return(r) == pc' = "idle" /\ res' = r /\ UNCHANGED <<syncSupported, cmd, cbwTag>>

\* Return of -1 because usb_transfer failed: nothing more is transferred.
Abort == Return(-1) /\ inStep' = FALSE /\ UNCHANGED <<gTag, answer, calls, stickVars>>

Goto(l) == pc' = l /\ UNCHANGED <<syncSupported, cmd, cbwTag, res, calls, stickVars>>

\* A SYNCHRONIZE CACHE the stick is known not to support succeeds at once.
SkipSync ==
    /\ pc = "idle" /\ calls < MaxCalls /\ ~syncSupported
    /\ cmd' = "sync" /\ res' = 0 /\ cbwTag' = 0 /\ answer' = 0
    /\ calls' = calls + 1
    /\ UNCHANGED <<gTag, syncSupported, pc, inStep, devVars, stickVars, faults>>

Call ==
    /\ pc = "idle" /\ calls < MaxCalls
    /\ \E c \in Commands :
          /\ c = "sync" => syncSupported
          /\ cmd' = c
    /\ pc' = "cbw" /\ cbwTag' = gTag /\ gTag' = gTag + 1
    /\ calls' = calls + 1
    /\ UNCHANGED <<syncSupported, res, answer, inStep, devVars, stickVars, faults>>

SendCbw ==
    /\ pc = "cbw" /\ ~gone
    /\ TakeCbw(cbwTag, cmd)
    /\ Goto(IF cmd \in {"in", "out"} THEN "data" ELSE "csw")
    /\ UNCHANGED <<gTag, answer, inStep, faults>>

\* The stick does not take the block; one that has a status to hand over first
\* may refuse it.
SendCbwFails == pc = "cbw" /\ NoAnswer(inq # <<>>) /\ Abort

DataOut ==
    /\ pc = "data" /\ cmd = "out" /\ ~gone
    /\ TakeData
    /\ Goto("csw")
    /\ UNCHANGED <<gTag, answer, inStep, faults>>

DataOutFails ==
    /\ pc = "data" /\ cmd = "out"
    /\ \/ ~gone /\ RefuseData /\ UNCHANGED faults
       \/ NoAnswer(FALSE)
    /\ Abort

\* Neither the length nor the contents of what arrives is checked.
DataIn ==
    /\ pc = "data" /\ cmd = "in" /\ ~gone
    /\ HandOver /\ Head(inq).kind # "stall"
    /\ Goto("csw")
    /\ UNCHANGED <<gTag, answer, inStep, faults>>

DataInFails ==
    /\ pc = "data" /\ cmd = "in"
    /\ \/ ~gone /\ HandOver /\ Head(inq).kind = "stall" /\ UNCHANGED faults
       \/ NoAnswer(inq = <<>>)
    /\ Abort

\* Mutated form: a bad status is not looked at.
StatusByteIgnored(item) == {0}

\* The status byte of what is read as csw_pkt: signature and tag are not
\* checked, so data read in its place gives an arbitrary byte.
StatusByte(item) == IF item.kind = "csw" THEN {item.status} ELSE {0, 1}

CswGood ==
    /\ pc = "csw" /\ ~gone
    /\ HandOver /\ Head(inq).kind # "stall"
    /\ 0 \in StatusByte(Head(inq))
    /\ answer' = Head(inq).tag
    /\ Return(0)
    /\ UNCHANGED <<gTag, inStep, stickVars, faults, calls>>

\* A stick that rejects SYNCHRONIZE CACHE is not asked again.
CswSyncRejected ==
    /\ pc = "csw" /\ cmd = "sync" /\ ~gone
    /\ HandOver /\ Head(inq).kind # "stall"
    /\ 1 \in StatusByte(Head(inq))
    /\ answer' = Head(inq).tag
    /\ syncSupported' = FALSE /\ refused' = TRUE
    /\ pc' = "idle" /\ res' = 0
    /\ UNCHANGED <<gTag, cmd, cbwTag, inStep, gone, sticks, faults, calls>>

CswBad ==
    /\ pc = "csw" /\ cmd # "sync" /\ ~gone
    /\ HandOver /\ Head(inq).kind # "stall"
    /\ 1 \in StatusByte(Head(inq))
    /\ answer' = Head(inq).tag
    /\ gTag' = gTag + 1
    /\ Goto("senseCbw")
    /\ UNCHANGED <<inStep, faults>>

\* Mutated form: the data went through, so a missing status is taken for good.
CswFailsAsGood ==
    /\ pc = "csw" /\ NoAnswer(inq = <<>>)
    /\ Return(0) /\ inStep' = FALSE /\ UNCHANGED <<gTag, answer, calls, stickVars>>

CswFails ==
    /\ pc = "csw"
    /\ \/ ~gone /\ HandOver /\ Head(inq).kind = "stall" /\ UNCHANGED faults
       \/ NoAnswer(inq = <<>>)
    /\ Abort

(* REQUEST SENSE.  Only the result of its command block is looked at: the   *)
(* status is read even when the sense data could not be.                    *)

SenseCbw ==
    /\ pc = "senseCbw" /\ ~gone
    /\ TakeCbw(gTag - 1, "in")
    /\ Goto("senseData")
    /\ UNCHANGED <<gTag, answer, inStep, faults>>

SenseCbwFails == pc = "senseCbw" /\ NoAnswer(inq # <<>>) /\ Abort

\* Mutated form: the status is not read after the sense data.
SenseDataLast ==
    /\ pc = "senseData" /\ ~gone /\ HandOver
    /\ Return(-1)
    /\ UNCHANGED <<gTag, answer, inStep, faults, calls, stickVars>>

SenseData ==
    /\ pc = "senseData"
    /\ \/ ~gone /\ HandOver /\ UNCHANGED <<faults, inStep>>   \* data, or a cleared stall
       \/ NoAnswer(inq = <<>>) /\ inStep' = FALSE
    /\ Goto("senseCsw")
    /\ UNCHANGED <<gTag, answer>>

SenseCsw ==
    /\ pc = "senseCsw"
    /\ \/ ~gone /\ HandOver /\ UNCHANGED <<faults, inStep>>
       \/ NoAnswer(inq = <<>>) /\ inStep' = FALSE
    /\ Return(-1)
    /\ UNCHANGED <<gTag, answer, calls, stickVars>>

-----------------------------------------------------------------------------
Unplug ==
    /\ ~gone /\ gone' = TRUE
    /\ UNCHANGED <<hostVars, devVars, sticks, refused, faults, calls>>

\* Another stick is plugged in between two calls: its pipes are fresh, but the
\* variables of the driver stay as they are (usb_scsi_init does not touch them).
NextStick ==
    /\ gone /\ pc = "idle" /\ sticks < MaxSticks
    /\ gone' = FALSE /\ sticks' = sticks + 1
    /\ dev' = "ready" /\ inq' = <<>> /\ inStep' = TRUE
    /\ cmd' = "none" /\ cbwTag' = 0 /\ res' = 0
    /\ UNCHANGED <<gTag, syncSupported, pc, answer, devTag, good, refused, faults, calls>>

Init ==
    /\ gTag = 1 /\ syncSupported = TRUE
    /\ pc = "idle" /\ cmd = "none" /\ cbwTag = 0 /\ res = 0 /\ answer = 0
    /\ inStep = TRUE
    /\ dev = "ready" /\ devTag = 0 /\ inq = <<>> /\ good = {}
    /\ gone = FALSE /\ sticks = 1 /\ refused = FALSE /\ faults = 0 /\ calls = 0

Transfer == \/ SendCbw \/ SendCbwFails \/ DataOut \/ DataOutFails \/ DataIn \/ DataInFails
            \/ CswGood \/ CswSyncRejected \/ CswBad \/ CswFails
            \/ SenseCbw \/ SenseCbwFails \/ SenseData \/ SenseCsw

Next == SkipSync \/ Call \/ Unplug \/ NextStick \/ Transfer

Spec == Init /\ [][Next]_vars

-----------------------------------------------------------------------------
(* Properties.                                                              *)

Items(t) == [kind : {"data", "csw", "stall"}, tag : 1 .. t - 1, status : {0, 1}]

\* Host and stick keep well-typed state; tags handed out are below g_tag.
TypeOK ==
    /\ gTag \in Nat \ {0} /\ syncSupported \in BOOLEAN
    /\ pc \in {"idle", "cbw", "data", "csw", "senseCbw", "senseData", "senseCsw"}
    /\ cmd \in Commands /\ cbwTag \in 0 .. gTag - 1 /\ answer \in 0 .. gTag - 1
    /\ res \in {0, -1} /\ inStep \in BOOLEAN /\ gone \in BOOLEAN
    /\ dev \in {"ready", "data"} /\ devTag \in 0 .. gTag - 1
    /\ good \subseteq 1 .. gTag - 1 /\ inq \in Seq(Items(gTag))
    /\ sticks \in 1 .. MaxSticks /\ refused \in BOOLEAN
    /\ faults \in 0 .. MaxFaults /\ calls \in 0 .. MaxCalls

\* Whatever statuses the stick gives, and although REQUEST SENSE ignores
\* whether its transfers worked, a call leaves nothing behind on the pipes: the
\* stick waits for the next command block.
CallsLeavePipesClean == pc = "idle" /\ inStep => dev = "ready" /\ inq = <<>>

\* The last call took its own status, and 0 means that the stick completed this
\* very command (or that it is a SYNCHRONIZE CACHE that a stick has rejected).
OwnSuccess ==
    pc = "idle" /\ res = 0 /\ cbwTag # 0 =>
        answer = cbwTag /\ (cbwTag \in good \/ (cmd = "sync" /\ refused))

\* While no transfer has failed, a 0 from scsi_command is the truth, although
\* neither tag nor signature of the status block is checked.
SuccessIsTrueInStep == inStep => OwnSuccess

\* A stick pulled out before its status was read never yields success.
NoSuccessWhenGone ==
    [][gone /\ pc # "idle" /\ pc' = "idle" => res' = -1]_vars

=============================================================================

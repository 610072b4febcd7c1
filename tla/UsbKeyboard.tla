---------------------------- MODULE UsbKeyboard ----------------------------
(***************************************************************************)
(* The keyboard driver (software/usb_kb/main.c and usb.c) against the      *)
(* CY7C67200 host controller, which is external and runs concurrently.     *)
(*                                                                         *)
(* A request is a list of transfer descriptors (TDs) the driver writes at  *)
(* 0x0500 of the chip's memory; writing pCurrentTDPtr makes the chip       *)
(* execute it. The chip reports through one message register, HPI_SIE1_MSG, *)
(* whose flag in HPI_STATUS reading the register clears; the control word  *)
(* of the first TD (0x0508) tells whether that TD is still active.         *)
(*                                                                         *)
(* One driver action per access to a register the chip also writes. The    *)
(* contents of the lists are abstracted to the number of their request:    *)
(*   1 SetAddress  2 GetDeviceDesc1  3 GetDeviceDesc2  4 GetConfigDesc1    *)
(*   5 GetConfigDesc2  6 SetConfig  7 ClassRequest  8 GetHidDesc           *)
(*   9 GetReportDesc  and NReq + 1, the poll of endpoint 1.                *)
(***************************************************************************)
EXTENDS Integers

CONSTANTS
  NReq,         \* requests of an enumeration: 9 in the code
  BogusAfter,   \* request after which main.c starts the TD at 0x0576: 5
  Tries,        \* looks at the D+/D- bits before a device counts as gone
  SleepEnough,  \* TRUE if a list ends within the sleep after it
  MaxPlugs      \* bound: times the keyboard is inserted or removed

ASSUME CountsAssumption ==
  /\ NReq \in Nat \ {0} /\ BogusAfter \in Nat /\ Tries \in Nat \ {0}
  /\ MaxPlugs \in Nat

ASSUME ChipAssumption == SleepEnough \in BOOLEAN

Poll == NReq + 1

VARIABLES
  \* the driver
  pc, req,
  resent,      \* the current list was sent by the resend loop
  val,         \* usb_ctl_val: the last message word read
  look,        \* hot_plug_count
  toggle,      \* parity of the polls so far: the data sequence bit they carry
  \* the chip
  mem,         \* the request whose list is at 0x0500; 0: none
  ctl,         \* control word of the first TD at 0x0508
  run,         \* how far the chip is with the list at 0x0500
  stray,       \* the TD at 0x0576 was started and has not ended
  fetched,     \* the request the running list belonged to when it started
  msg, flag,   \* HPI_SIE1_MSG and its bit in HPI_STATUS
  cmd, mailbox, mbflag,   \* pending mailbox command, mailbox and its bit
  present,     \* a keyboard is plugged in
  \* history, and the count MaxPlugs bounds
  setup,       \* requests whose first TD was executed in this enumeration
  complete,    \* requests whose list was executed to its end
  strayed,     \* the TD at 0x0576 has ended in a TDListDone message
  plugs

driver == <<pc, req, resent, val, look, toggle>>
msgs   == <<msg, flag>>
boxes  == <<cmd, mailbox, mbflag>>
lists  == <<mem, ctl, run, stray, fetched>>
hist   == <<setup, complete, strayed>>
vars   == <<driver, msgs, boxes, lists, hist, plugs, present>>

Done == "TDListDone"
Change == "DeviceChange"

PCs == {"soft_reset", "ack1", "box1", "box2", "detect", "insert",
        "write", "start", "status", "msg", "clear", "ctl",
        "retry", "retry_clear", "retry_wait", "retry_ctl",
        "key", "check", "recheck", "removed"}

DriverType ==
  /\ pc \in PCs /\ req \in 1 .. Poll /\ val \in {"0", Done, Change}
  /\ look \in 0 .. Tries /\ toggle \in {0, 1}

ChipType ==
  /\ mem \in 0 .. Poll /\ fetched \in 0 .. Poll
  /\ ctl \in {"active", "ok", "failed"}
  /\ run \in {"idle", "pending", "first", "rest"}
  /\ msg \in {"0", Done, Change} /\ mailbox \in {"ack", "garbage"}

HistoryType ==
  /\ setup \subseteq 1 .. Poll /\ complete \subseteq 1 .. Poll
  /\ plugs \in 0 .. MaxPlugs

FlagType == {resent, flag, cmd, mbflag, stray, strayed, present} \subseteq BOOLEAN

TypeOK == DriverType /\ ChipType /\ HistoryType /\ FlagType

Init ==
  /\ pc = "soft_reset" /\ req = 1 /\ resent = FALSE /\ val = "0"
  /\ look = 0 /\ toggle = 0
  /\ mem = 0 /\ ctl = "failed" /\ run = "idle" /\ stray = FALSE /\ fetched = 0
  /\ msg = "0" /\ flag = FALSE
  /\ cmd = FALSE /\ mailbox = "garbage" /\ mbflag = FALSE
  /\ present \in BOOLEAN
  /\ setup = {} /\ complete = {} /\ strayed = FALSE
  /\ plugs = 0

-----------------------------------------------------------------------------
(* The driver: USB_HOT_PLUG to the start of the enumeration. *)

Goto(to) == pc' = to /\ UNCHANGED <<req, resent, val, look, toggle>>

\* UsbSoftReset and step 1a, and the command of step 1b. The BIOS leaves
\* anything in the mailbox.
SoftReset ==
  /\ pc = "soft_reset"
  /\ pc' = "ack1" /\ req' = 1 /\ resent' = FALSE
  /\ run' = "idle" /\ stray' = FALSE /\ msg' = "0" /\ flag' = FALSE
  /\ cmd' = TRUE /\ mailbox' \in {"ack", "garbage"} /\ mbflag' = FALSE
  /\ setup' = {} /\ complete' = {} /\ strayed' = FALSE
  /\ UNCHANGED <<val, look, toggle, mem, ctl, fetched, plugs, present>>

\* Step 1b waits until some bit of HPI_STATUS is set...
AwaitStatus ==
  /\ pc = "ack1" /\ (mbflag \/ flag)
  /\ Goto("box1")
  /\ UNCHANGED <<msgs, boxes, lists, hist, plugs, present>>

\* ... and takes the mailbox for the answer; step 2 sends the reset command
\* and reads the mailbox without waiting at all.
ReadBox(from, next) ==
  /\ pc = from
  /\ Goto(IF mailbox = "ack" THEN next ELSE "soft_reset")
  /\ mbflag' = FALSE /\ UNCHANGED mailbox
  /\ cmd' = (cmd \/ (next = "box2" /\ mailbox = "ack"))
  /\ UNCHANGED <<msgs, lists, hist, plugs, present>>

\* Slip: one look too many.
MoreLooksLate == look <= Tries

MoreLooks == look < Tries

\* Five more looks at the D+/D- bits, then wait for an insertion and restart.
Detect ==
  /\ pc = "detect"
  /\ pc' = IF present THEN "write"
           ELSE IF MoreLooks THEN "detect" ELSE "insert"
  /\ look' = IF present \/ ~MoreLooks THEN 0 ELSE look + 1
  /\ UNCHANGED <<req, resent, val, toggle, msgs, boxes, lists, hist, plugs,
                 present>>

AwaitInsertion ==
  /\ pc \in {"insert", "removed"} /\ present
  /\ Goto("soft_reset")
  /\ UNCHANGED <<msgs, boxes, lists, hist, plugs, present>>

-----------------------------------------------------------------------------
(* The driver: one request. *)

\* The list is written over whatever is at 0x0500; its first TD is active.
WriteList ==
  /\ pc = "write"
  /\ Goto("start")
  /\ mem' = req /\ ctl' = "active"
  /\ UNCHANGED <<run, stray, fetched, msgs, boxes, hist, plugs, present>>

StartList ==
  /\ pc = "start"
  /\ Goto("status")
  /\ run' = "pending"
  /\ UNCHANGED <<mem, ctl, stray, fetched, msgs, boxes, hist, plugs, present>>

\* Slip: the looks follow the sendings at once.
NoSleep == TRUE

\* The 10 ms after a resend, and the 100 ms after GetConfigDesc2 is first sent.
Slept == (resent \/ req = BogusAfter) /\ SleepEnough => run = "idle"

\* No message: send the list again and sleep before the next look.
CheckStatus ==
  /\ pc = "status"
  /\ Slept
  /\ pc' = IF flag THEN "msg" ELSE "write"
  /\ resent' = ~flag
  /\ UNCHANGED <<req, val, look, toggle,
                 msgs, boxes, lists, hist, plugs, present>>

\* Slip: the wait ends with any other message.
IsAnother(word) == word \notin {"0", Done}

IsTDListDone(word) == word = Done

\* UsbWaitTDListDone reads the message, clears the register, and looks again
\* until the message it read is TDListDone.
ReadMsg ==
  /\ pc = "msg"
  /\ pc' = "clear" /\ val' = msg /\ flag' = FALSE
  /\ UNCHANGED <<req, resent, look, toggle,
                 msg, boxes, lists, hist, plugs, present>>

ClearMsg ==
  /\ pc = "clear"
  /\ Goto(IF ~IsTDListDone(val) THEN "msg" ELSE IF req = Poll THEN "key" ELSE "ctl")
  /\ msg' = "0"
  /\ UNCHANGED <<flag, boxes, lists, hist, plugs, present>>

\* On to the next request, or to the poll loop, whose head flips toggle.
\* After GetConfigDesc2 the pointer is set to the TD at 0x0576 on the way.
Advance ==
  /\ pc' = "write" /\ req' = req + 1 /\ resent' = FALSE
  /\ toggle' = IF req' = Poll THEN 1 - toggle ELSE toggle
  /\ stray' = (stray \/ req = BogusAfter)
  /\ UNCHANGED <<val, look, mem, ctl, run, fetched>>

\* Slip: the control word is not looked at.
CtlIsFine == TRUE

\* The word is 0x0003: not active, no retry used up.
CtlIsOk == ctl = "ok"

\* Only the first request starts over when its first TD is not done cleanly
\* (after one UsbGetRetryCnt); the others spin in UsbGetRetryCnt.
CheckCtl ==
  /\ pc = "ctl"
  /\ \/ CtlIsOk /\ Advance
     \/ ~CtlIsOk /\ Goto("retry") /\ UNCHANGED lists
  /\ UNCHANGED <<msgs, boxes, hist, plugs, present>>

ReadMsgOnRetry ==
  /\ pc = "retry"
  /\ flag' = FALSE
  /\ Goto(IF IsTDListDone(msg) THEN "retry_clear" ELSE "retry_ctl")
  /\ UNCHANGED <<msg, boxes, lists, hist, plugs, present>>

ClearMsgOnRetry ==
  /\ pc = "retry_clear"
  /\ Goto("retry_wait") /\ msg' = "0"
  /\ UNCHANGED <<flag, boxes, lists, hist, plugs, present>>

\* Waits for a message after the one it has just thrown away.
AwaitMsgOnRetry ==
  /\ pc = "retry_wait" /\ flag
  /\ Goto("retry_ctl")
  /\ UNCHANGED <<msgs, boxes, lists, hist, plugs, present>>

CheckCtlOnRetry ==
  /\ pc = "retry_ctl"
  /\ \/ req = 1 /\ Goto("soft_reset") /\ UNCHANGED lists
     \/ req > 1 /\ CtlIsOk /\ Advance
     \/ req > 1 /\ ~CtlIsOk /\ Goto("retry") /\ UNCHANGED lists
  /\ UNCHANGED <<msgs, boxes, hist, plugs, present>>

-----------------------------------------------------------------------------
(* The driver: the poll loop after a message. *)

\* The word at 0x0521 goes to the PIO; which word it is, is data.
WriteKeycode ==
  /\ pc = "key"
  /\ Goto("check")
  /\ UNCHANGED <<msgs, boxes, lists, hist, plugs, present>>

NextPoll == pc' = "write" /\ toggle' = 1 - toggle /\ resent' = FALSE

\* A keyboard seen again within the looks counts as never gone.
CheckPresent ==
  /\ pc \in {"check", "recheck"}
  /\ \/ present /\ NextPoll /\ look' = 0
     \/ ~present /\ MoreLooks
        /\ pc' = "recheck" /\ look' = look + 1 /\ UNCHANGED <<toggle, resent>>
     \/ ~present /\ ~MoreLooks
        /\ pc' = "removed" /\ look' = 0 /\ UNCHANGED <<toggle, resent>>
  /\ UNCHANGED <<req, val, msgs, boxes, lists, hist, plugs, present>>

Driver ==
  \/ SoftReset \/ AwaitStatus
  \/ ReadBox("box1", "box2") \/ ReadBox("box2", "detect")
  \/ Detect \/ AwaitInsertion
  \/ WriteList \/ StartList \/ CheckStatus \/ ReadMsg \/ ClearMsg
  \/ CheckCtl \/ ReadMsgOnRetry \/ ClearMsgOnRetry \/ AwaitMsgOnRetry
  \/ CheckCtlOnRetry \/ WriteKeycode \/ CheckPresent

-----------------------------------------------------------------------------
(* The chip and the keyboard. *)

Post(m) == msg' = m /\ flag' = TRUE

FetchFirst ==
  /\ run = "pending" /\ run' = "first" /\ fetched' = mem
  /\ UNCHANGED <<driver, msgs, boxes, mem, ctl, stray, hist, plugs, present>>

\* The keyboard takes the setup packet at once, or it fails or takes retries,
\* which leaves a control word other than 0x0003; without one it fails.
FinishFirst ==
  /\ run = "first" /\ run' = "rest"
  /\ \/ present /\ ctl' = "ok" /\ setup' = setup \cup {fetched}
     \/ present /\ ctl' = "failed" /\ setup' = setup \cup {fetched}
     \/ ctl' = "failed" /\ UNCHANGED setup
  /\ UNCHANGED <<driver, msgs, boxes, mem, stray, fetched, complete, strayed,
                 plugs, present>>

\* The list ends with a message whether the keyboard took part in it or not.
FinishList ==
  /\ run = "rest" /\ run' = "idle"
  /\ Post(Done)
  /\ complete' = IF fetched = mem THEN complete \cup {mem} ELSE complete
  /\ UNCHANGED <<driver, boxes, mem, ctl, stray, fetched, setup, strayed,
                 plugs, present>>

\* Whether the data at 0x0576 ends as a list does is the BIOS's affair.
FinishStray ==
  /\ stray /\ stray' = FALSE
  /\ \/ Post(Done) /\ strayed' = TRUE
     \/ UNCHANGED <<msgs, strayed>>
  /\ UNCHANGED <<driver, boxes, mem, ctl, run, fetched, setup, complete, plugs,
                 present>>

Answer ==
  /\ cmd /\ cmd' = FALSE /\ mailbox' = "ack" /\ mbflag' = TRUE
  /\ UNCHANGED <<driver, msgs, lists, hist, plugs, present>>

\* The BIOS may report the change, over any message not yet read.
PlugOrUnplug ==
  /\ plugs < MaxPlugs /\ plugs' = plugs + 1
  /\ present' = ~present
  /\ Post(Change) \/ UNCHANGED msgs
  /\ UNCHANGED <<driver, boxes, lists, hist>>

Chip == FetchFirst \/ FinishFirst \/ FinishList \/ FinishStray \/ Answer

Next == Driver \/ Chip \/ PlugOrUnplug

Spec == Init /\ [][Next]_vars

\* The processor runs and the chip works; nobody has to plug anything in.
FairSpec ==
  /\ Spec
  /\ WF_vars(Driver) /\ WF_vars(Answer)
  /\ WF_vars(FetchFirst \/ FinishFirst \/ FinishList \/ FinishStray)

-----------------------------------------------------------------------------
(* Properties. *)

\* If a list ends within the sleep after it, the driver leaves a request behind
\* only when the keyboard has taken the setup packet of that very request in
\* this enumeration, whatever messages were lost, stale or not its own. It needs
\* SleepEnough: with a slower list, the old execution of a resent list sets the
\* control word of the next one.
SetupTaken == \A r \in 1 .. req - 1 : pc = "soft_reset" \/ r \in setup

\* main.c:229 "get device descriptor-1 done!" and so on: when the driver
\* announces a request done, the chip has executed its list to the end. A
\* request after the TD at 0x0576 is exempt when that TD has posted a message:
\* SetConfig's wait takes it for SetConfig's own.
DoneMeansExecuted ==
  \A r \in 1 .. req - 1 :
    pc = "soft_reset" \/ r \in complete \/ (strayed /\ r > BogusAfter)

Retrying == {"retry", "retry_clear", "retry_wait", "retry_ctl"}

\* A keyboard that is there from the start is polled, or the enumeration is
\* started over, for ever: no waiting loop hangs, but for the two that do. One
\* is the loop around UsbGetRetryCnt when the first TD was not done cleanly
\* (ResentIfFailed); the other is any wait whose message was thrown away after
\* the one of the TD at 0x0576 was taken for it.
KeepsPolling ==
  []<>(present /\ plugs = 0 /\ ~strayed =>
         pc \in {"key", "soft_reset"} \cup IF ctl = "failed" THEN Retrying ELSE {})

\* main.c:210 "Call the appropriate function again if it wasn't processed
\* successfully.": a request whose first TD was not done cleanly is sent again,
\* or the enumeration is started over.
ResentIfFailed ==
  (pc = "retry" /\ ctl = "failed") ~> (pc \in {"write", "soft_reset"})

-----------------------------------------------------------------------------
(* What the prover needs beside the properties. *)

Judging == {"ctl"} \cup Retrying
Asking == {"start", "status", "msg", "clear"} \cup Judging

\* Which requests the driver can be at.
Place ==
  /\ pc \in {"ack1", "box1", "box2", "detect", "insert"} => req = 1 /\ run = "idle"
  /\ pc \in Judging => req < Poll
  /\ pc \in {"key", "check", "recheck", "removed"} => req = Poll
  /\ pc = "start" => mem > 0
  /\ run \in {"pending", "first", "rest"} => mem > 0
  /\ run \in {"first", "rest"} => fetched > 0
  /\ (stray \/ strayed) /\ pc # "soft_reset" => req > BogusAfter

\* While a request is under way the list of the chip is its own, and its first
\* TD is not yet done as long as the chip is to execute it, except for a list
\* sent again, whose end the driver sleeps through.
OwnList ==
  pc # "soft_reset" /\ req < Poll =>
    /\ pc \in Asking \/ resent => mem = req /\ (run = "first" => fetched = req)
    /\ pc \in Asking /\ ctl = "ok" => req \in setup
    /\ run \in {"pending", "first"} =>
         \/ resent /\ pc \in {"write", "start", "status"}
         \/ pc \in Asking \ {"start"} /\ ctl = "active"
    /\ pc = "start" => resent \/ ctl = "active"

IInv == TypeOK /\ Place /\ OwnList /\ SetupTaken

\* Unless the stray TD has posted, a TDListDone that waits or was taken is the
\* one of the request under way, whose list was executed to its end.
Answered ==
  pc # "soft_reset" /\ req < Poll /\ ~strayed =>
    /\ run = "rest" => fetched = req /\ mem = req
    /\ msg = Done => req \in complete
    /\ pc = "clear" /\ val = Done => req \in complete /\ run = "idle"
    /\ pc \in {"msg", "clear"} /\ msg = Done => run = "idle"
    /\ pc \in Judging => req \in complete /\ run = "idle" /\ msg # Done
    /\ pc \in {"write", "start"} /\ ~resent => msg # Done /\ run = "idle"
    /\ pc = "status" /\ ~resent /\ msg = Done => run = "idle"
    /\ pc \notin {"write"} \cup Asking => msg # Done

PatientInv == IInv /\ Answered /\ DoneMeansExecuted
=============================================================================

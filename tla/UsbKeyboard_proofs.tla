------------------------- MODULE UsbKeyboard_proofs -------------------------
(***************************************************************************)
(* Proofs about UsbKeyboard, for any number of requests, looks, insertions *)
(* and restarts.                                                           *)
(***************************************************************************)
EXTENDS UsbKeyboard, TLAPS

USE DEF Goto, Poll, Done, Change

-----------------------------------------------------------------------------
(* What a step leaves alone. *)

\* The chip's registers and lists, the history and the count of plugs change in
\* these.
LEMMA ChipFrame ==
  ASSUME [Next]_vars
  PROVE  \/ UNCHANGED <<mem, fetched, ctl, run, msg, mailbox, hist, plugs>>
         \/ SoftReset \/ WriteList \/ StartList \/ ClearMsg \/ ClearMsgOnRetry
         \/ (CheckCtl \/ CheckCtlOnRetry) /\ Advance
         \/ Chip \/ PlugOrUnplug
BY DEF Next, vars, Driver, AwaitStatus, ReadBox, Detect, AwaitInsertion, CheckStatus,
  ReadMsg, CheckCtl, ReadMsgOnRetry, AwaitMsgOnRetry, CheckCtlOnRetry, WriteKeycode,
  CheckPresent, msgs, boxes, lists, hist

-----------------------------------------------------------------------------
(* Types. *)

\* The driver's variables keep their bounds.
LEMMA DriverStep == TypeOK /\ Place /\ [Next]_vars => DriverType'
<1> SUFFICES ASSUME DriverType, ChipType, Place, [Next]_vars PROVE DriverType'
  BY DEF TypeOK
<1> USE CountsAssumption DEF DriverType, PCs
<1>1. CASE UNCHANGED driver
  BY <1>1 DEF driver
<1>2. CASE SoftReset
  <2>1. pc' = "ack1" /\ req' = 1 /\ UNCHANGED <<val, look, toggle>>
    BY <1>2 DEF SoftReset
  <2> QED
    BY <2>1
<1>10. CASE AwaitStatus \/ AwaitInsertion \/ WriteList \/ StartList
  BY <1>10 DEF AwaitStatus, AwaitInsertion, WriteList, StartList
<1>3. CASE ReadBox("box1", "box2") \/ ReadBox("box2", "detect")
  BY <1>3 DEF ReadBox
<1>4. CASE Detect
  <2>1. UNCHANGED <<req, val, toggle>> /\ pc' \in {"write", "detect", "insert"}
    BY <1>4 DEF Detect
  <2>2. \/ look' = 0
        \/ look < Tries /\ look' = look + 1
    BY <1>4 DEF Detect, MoreLooks
  <2> QED
    BY <2>1, <2>2
<1>5. CASE CheckStatus \/ ClearMsg
  BY <1>5 DEF CheckStatus, ClearMsg
<1>6. CASE ReadMsg
  BY <1>6 DEF ReadMsg, ChipType
<1>7. CASE ReadMsgOnRetry \/ ClearMsgOnRetry \/ AwaitMsgOnRetry \/ WriteKeycode
  BY <1>7 DEF ReadMsgOnRetry, ClearMsgOnRetry, AwaitMsgOnRetry, WriteKeycode
<1>8. CASE CheckCtl \/ CheckCtlOnRetry
  <2>1. req < Poll
    BY <1>8 DEF CheckCtl, CheckCtlOnRetry, Place, Judging, Retrying
  <2>2. CASE Advance
    <3>1. pc' = "write" /\ req' = req + 1 /\ UNCHANGED <<val, look>>
      BY <2>2 DEF Advance
    <3>2. toggle' = toggle \/ toggle' = 1 - toggle
      BY <2>2 DEF Advance
    <3>3. req' \in 1 .. Poll
      BY <2>1, <3>1
    <3>4. toggle' \in {0, 1}
      BY <3>2
    <3> QED
      BY <3>1, <3>3, <3>4
  <2>3. CASE ~Advance
    BY <1>8, <2>3 DEF CheckCtl, CheckCtlOnRetry
  <2> QED
    BY <2>2, <2>3
<1>9. CASE CheckPresent
  <2>1. UNCHANGED <<req, val>> /\ pc' \in {"write", "recheck", "removed"}
    BY <1>9 DEF CheckPresent, NextPoll
  <2>2. \/ look' = 0
        \/ look < Tries /\ look' = look + 1
    BY <1>9 DEF CheckPresent, MoreLooks
  <2>3. toggle' = toggle \/ toggle' = 1 - toggle
    BY <1>9 DEF CheckPresent, NextPoll
  <2> QED
    BY <2>1, <2>2, <2>3
<1> QED
  BY <1>10, <1>1, <1>2, <1>3, <1>4, <1>5, <1>6, <1>7, <1>8, <1>9
    DEF Next, Driver, Chip, vars, FetchFirst, FinishFirst, FinishList, FinishStray,
      Answer, PlugOrUnplug

\* The chip's registers and the history.
LEMMA ChipStep == TypeOK /\ Place /\ [Next]_vars => ChipType' /\ HistoryType'
<1> SUFFICES ASSUME DriverType, ChipType, HistoryType, Place, [Next]_vars
             PROVE  ChipType' /\ HistoryType'
  BY DEF TypeOK
<1> USE CountsAssumption DEF ChipType, HistoryType, hist
<1>1. CASE UNCHANGED <<mem, fetched, ctl, run, msg, mailbox, hist, plugs>>
  BY <1>1
<1>2. CASE SoftReset
  <2>1. /\ UNCHANGED <<mem, fetched, ctl, plugs>> /\ run' = "idle" /\ msg' = "0"
        /\ mailbox' \in {"ack", "garbage"} /\ setup' = {} /\ complete' = {}
    BY <1>2 DEF SoftReset
  <2> QED
    BY <2>1
<1>3. CASE WriteList
  <2>1. mem' = req /\ ctl' = "active" /\ UNCHANGED <<run, fetched, msg, mailbox, hist, plugs>>
    BY <1>3 DEF WriteList, msgs, boxes
  <2> QED
    BY <2>1 DEF DriverType
<1>4. CASE StartList
  BY <1>4 DEF StartList, msgs, boxes
<1>5. CASE ClearMsg \/ ClearMsgOnRetry
  BY <1>5 DEF ClearMsg, ClearMsgOnRetry, boxes, lists
<1>6. CASE (CheckCtl \/ CheckCtlOnRetry) /\ Advance
  BY <1>6 DEF CheckCtl, CheckCtlOnRetry, Advance, msgs, boxes
<1>7. CASE FetchFirst
  BY <1>7 DEF FetchFirst, msgs, boxes
<1>8. CASE FinishFirst
  <2>1. /\ UNCHANGED <<msg, mailbox, mem, fetched, complete, plugs>> /\ run' = "rest"
        /\ ctl' \in {"ok", "failed"} /\ setup' \in {setup, setup \cup {fetched}}
    BY <1>8 DEF FinishFirst, msgs, boxes
  <2>2. fetched > 0
    BY <1>8 DEF FinishFirst, Place
  <2> QED
    BY <2>1, <2>2
<1>9. CASE FinishList
  <2>1. /\ UNCHANGED <<mailbox, mem, ctl, fetched, setup, plugs>> /\ run' = "idle"
        /\ msg' = Done /\ complete' \in {complete, complete \cup {mem}}
    BY <1>9 DEF FinishList, Post, boxes
  <2>2. mem > 0
    BY <1>9 DEF FinishList, Place
  <2> QED
    BY <2>1, <2>2
<1>10. CASE FinishStray \/ Answer
  BY <1>10 DEF FinishStray, Answer, Post, msgs, boxes, lists
<1>11. CASE PlugOrUnplug
  <2>1. /\ UNCHANGED <<mem, fetched, ctl, run, mailbox, hist>>
        /\ msg' \in {msg, Change}
    BY <1>11 DEF PlugOrUnplug, Post, msgs, boxes, lists
  <2>2. plugs < MaxPlugs /\ plugs' = plugs + 1
    BY <1>11 DEF PlugOrUnplug
  <2> QED
    BY <2>1, <2>2
<1> QED
  BY ChipFrame, <1>1, <1>2, <1>3, <1>4, <1>5, <1>6, <1>7, <1>8, <1>9, <1>10, <1>11
    DEF Chip

\* The flags.
LEMMA FlagStep == FlagType /\ [Next]_vars => FlagType'
<1> SUFFICES ASSUME FlagType, [Next]_vars PROVE FlagType'
  OBVIOUS
<1> USE DEF FlagType
<1>1. CASE UNCHANGED vars
  BY <1>1 DEF vars, driver, msgs, boxes, lists, hist
<1>2. CASE SoftReset \/ AwaitStatus \/ Detect \/ AwaitInsertion \/ WriteList \/ StartList
  BY <1>2 DEF SoftReset, AwaitStatus, Detect, AwaitInsertion, WriteList, StartList,
    msgs, boxes, lists, hist
<1>3. CASE ReadBox("box1", "box2") \/ ReadBox("box2", "detect")
  BY <1>3 DEF ReadBox, msgs, lists, hist
<1>4. CASE CheckStatus \/ ReadMsg \/ ClearMsg \/ ReadMsgOnRetry \/ ClearMsgOnRetry
           \/ AwaitMsgOnRetry \/ WriteKeycode
  BY <1>4 DEF CheckStatus, ReadMsg, ClearMsg, ReadMsgOnRetry, ClearMsgOnRetry,
    AwaitMsgOnRetry, WriteKeycode, msgs, boxes, lists, hist
<1>5. CASE CheckCtl \/ CheckCtlOnRetry \/ CheckPresent
  BY <1>5 DEF CheckCtl, CheckCtlOnRetry, Advance, CheckPresent, NextPoll, msgs, boxes,
    lists, hist
<1>6. CASE Chip \/ PlugOrUnplug
  BY <1>6 DEF Chip, FetchFirst, FinishFirst, FinishList, FinishStray, Answer,
    PlugOrUnplug, Post, driver, msgs, boxes, lists, hist
<1> QED
  BY <1>1, <1>2, <1>3, <1>4, <1>5, <1>6 DEF Next, Driver

-----------------------------------------------------------------------------
(* The requests. *)

\* Which requests the driver can be at.
LEMMA PlaceStep == TypeOK /\ Place /\ [Next]_vars => Place'
<1> SUFFICES ASSUME DriverType, ChipType, Place, [Next]_vars PROVE Place'
  BY DEF TypeOK
<1>a. /\ req \in Nat /\ req > 0 /\ NReq + 1 \in Nat /\ NReq + 1 > 1 /\ mem \in Nat
      /\ BogusAfter \in Nat
  BY CountsAssumption DEF DriverType, ChipType
<1> USE DEF Place, Judging, Retrying
<1>1. CASE UNCHANGED vars
  BY <1>1 DEF vars, driver, lists, hist
<1>2. CASE SoftReset
  BY <1>2, <1>a DEF SoftReset
<1>3. CASE AwaitStatus \/ AwaitInsertion
  BY <1>3 DEF AwaitStatus, AwaitInsertion, lists, hist
<1>4. CASE ReadBox("box1", "box2") \/ ReadBox("box2", "detect")
  BY <1>4 DEF ReadBox, lists, hist
<1>5. CASE Detect
  <2>1. /\ pc' \in {"write", "detect", "insert"} /\ pc = "detect"
        /\ UNCHANGED <<req, lists, hist>>
    BY <1>5 DEF Detect
  <2> QED
    BY <2>1 DEF lists, hist
<1>6. CASE WriteList
  <2>1. /\ pc = "write" /\ pc' = "start" /\ mem' = req
        /\ UNCHANGED <<req, run, fetched, stray, strayed>>
    BY <1>6 DEF WriteList, hist
  <2>2. stray' \/ strayed' => req' > BogusAfter
    BY <2>1
  <2> QED
    BY <2>1, <2>2, <1>a
<1>7. CASE StartList
  <2>1. /\ pc = "start" /\ pc' = "status" /\ run' = "pending"
        /\ UNCHANGED <<mem, req, fetched, stray, strayed>>
    BY <1>7 DEF StartList, hist
  <2> QED
    BY <2>1
<1>8. CASE CheckStatus \/ ReadMsg
  BY <1>8 DEF CheckStatus, ReadMsg, lists, hist
<1>9. CASE ClearMsg
  <2>1. /\ pc' \in {"msg", "key", "ctl"} /\ UNCHANGED <<req, lists, hist>>
        /\ pc' = "key" => req = Poll
        /\ pc' = "ctl" => req # Poll
        /\ pc = "clear"
    BY <1>9 DEF ClearMsg
  <2>2. req # Poll => req < Poll
    BY CountsAssumption DEF DriverType
  <2>3. stray' \/ strayed' => req' > BogusAfter
    BY <2>1 DEF lists, hist
  <2> QED
    BY <2>1, <2>2, <2>3 DEF lists
<1>10. CASE CheckCtl \/ CheckCtlOnRetry
  <2>1. CASE Advance
    <3>1. /\ pc' = "write" /\ req' = req + 1 /\ UNCHANGED <<mem, fetched, run, strayed>>
          /\ stray' = (stray \/ req = BogusAfter) /\ pc # "soft_reset"
      BY <1>10, <2>1 DEF CheckCtl, CheckCtlOnRetry, Advance, hist
    <3>2. stray' \/ strayed' => req' > BogusAfter
      <4>1. stray' \/ strayed' => req > BogusAfter \/ req = BogusAfter
        BY <3>1
      <4> QED
        BY <4>1, <3>1, <1>a
    <3> QED
      BY <3>1, <3>2
  <2>2. CASE ~Advance
    BY <1>10, <2>2 DEF CheckCtl, CheckCtlOnRetry, lists, hist
  <2> QED
    BY <2>1, <2>2
<1>11. CASE ReadMsgOnRetry \/ ClearMsgOnRetry \/ AwaitMsgOnRetry \/ WriteKeycode
  BY <1>11 DEF ReadMsgOnRetry, ClearMsgOnRetry, AwaitMsgOnRetry, WriteKeycode, lists,
    hist
<1>12. CASE CheckPresent
  <2>1. /\ pc' \in {"write", "recheck", "removed"} /\ pc \in {"check", "recheck"}
        /\ UNCHANGED <<req, lists, hist>>
    BY <1>12 DEF CheckPresent, NextPoll
  <2> QED
    BY <2>1 DEF lists, hist
<1>13. CASE FetchFirst
  BY <1>13, <1>a DEF FetchFirst, driver, hist
<1>14. CASE FinishFirst \/ FinishList \/ FinishStray \/ Answer \/ PlugOrUnplug
  BY <1>14 DEF FinishFirst, FinishList, FinishStray, Answer, PlugOrUnplug, driver, lists,
    hist
<1> QED
  BY <1>1, <1>2, <1>3, <1>4, <1>5, <1>6, <1>7, <1>8, <1>9, <1>10, <1>11, <1>12,
     <1>13, <1>14 DEF Next, Driver, Chip

\* The driver leaves a request only when its first TD was done, and if the
\* sleep after a resend outlasts the list that was the TD of this request.
LEMMA OwnListStep == SleepEnough /\ IInv /\ [Next]_vars => OwnList' /\ SetupTaken'
<1> SUFFICES ASSUME SleepEnough, DriverType, Place, OwnList, SetupTaken, [Next]_vars
             PROVE  OwnList' /\ SetupTaken'
  BY DEF IInv, TypeOK
<1>a. req \in Nat /\ req > 0 /\ NReq + 1 \in Nat /\ NReq + 1 > 1
  BY CountsAssumption DEF DriverType
<1> USE DEF OwnList, SetupTaken, Asking, Judging, Retrying
<1>1. CASE UNCHANGED vars
  BY <1>1 DEF vars, driver, lists, hist
<1>2. CASE SoftReset
  <2>1. pc' = "ack1" /\ req' = 1 /\ resent' = FALSE /\ run' = "idle"
    BY <1>2 DEF SoftReset
  <2> QED
    BY <2>1
<1>3. CASE AwaitStatus \/ AwaitInsertion
  BY <1>3 DEF AwaitStatus, AwaitInsertion, lists, hist
<1>4. CASE ReadBox("box1", "box2") \/ ReadBox("box2", "detect")
  BY <1>4 DEF ReadBox, lists, hist
<1>5. CASE Detect
  <2>1. /\ pc' \in {"write", "detect", "insert"} /\ pc = "detect"
        /\ UNCHANGED <<req, resent, lists, hist>>
    BY <1>5 DEF Detect
  <2> QED
    BY <2>1 DEF lists, hist
<1>6. CASE WriteList
  <2>1. /\ pc = "write" /\ pc' = "start" /\ mem' = req /\ ctl' = "active"
        /\ UNCHANGED <<req, resent, run, fetched, setup>>
    BY <1>6 DEF WriteList, hist
  <2> QED
    BY <2>1
<1>7. CASE StartList
  <2>1. /\ pc = "start" /\ pc' = "status" /\ run' = "pending"
        /\ UNCHANGED <<req, resent, mem, ctl, fetched, setup>>
    BY <1>7 DEF StartList, hist
  <2> QED
    BY <2>1
<1>8. CASE CheckStatus
  <2>1. /\ pc = "status" /\ (resent => run = "idle")
        /\ pc' \in {"msg", "write"} /\ (pc' = "write" <=> resent')
        /\ UNCHANGED <<req, lists, setup>>
    <3>1. CASE flag
      <4>1. pc = "status" /\ pc' = "msg" /\ UNCHANGED <<req, lists, setup>>
        BY <1>8, <3>1 DEF CheckStatus, hist
      <4>2. ~resent'
        BY <1>8, <3>1 DEF CheckStatus
      <4>3. resent => run = "idle"
        BY <1>8 DEF CheckStatus, Slept
      <4> QED
        BY <4>1, <4>2, <4>3
    <3>2. CASE ~flag
      BY <1>8, <3>2 DEF CheckStatus, Slept, hist
    <3> QED
      BY <3>1, <3>2
  <2> QED
    BY <2>1 DEF lists
<1>9. CASE ReadMsg
  BY <1>9 DEF ReadMsg, lists, hist
<1>10. CASE ClearMsg
  <2>1. /\ pc = "clear" /\ UNCHANGED <<req, resent, lists, setup>>
        /\ pc' \in {"msg", "ctl"} \/ req = Poll
        /\ pc' # "soft_reset"
    BY <1>10 DEF ClearMsg, hist
  <2> QED
    BY <2>1, <1>a DEF lists
<1>11. CASE CheckCtl \/ CheckCtlOnRetry
  <2>1. CASE Advance /\ CtlIsOk
    <3>1. /\ pc \in Judging /\ pc' = "write" /\ req' = req + 1 /\ ~resent' /\ ctl = "ok"
          /\ UNCHANGED <<run, setup>>
      BY <1>11, <2>1 DEF CheckCtl, CheckCtlOnRetry, Advance, CtlIsOk, hist
    <3>2. req < Poll
      BY <3>1 DEF Place
    <3>3. req \in setup /\ run \notin {"pending", "first"}
      BY <3>1, <3>2
    <3>4. \A r \in 1 .. req' - 1 : r \in 1 .. req - 1 \/ r = req
      BY <3>1, <1>a
    <3> QED
      BY <3>1, <3>3, <3>4
  <2>2. CASE ~(Advance /\ CtlIsOk)
    <3>1. /\ pc \in Judging /\ pc' \in {"retry", "soft_reset"}
          /\ UNCHANGED <<req, resent, lists, setup>>
      BY <1>11, <2>2 DEF CheckCtl, CheckCtlOnRetry, hist
    <3> QED
      BY <3>1 DEF lists
  <2> QED
    BY <2>1, <2>2
<1>12. CASE ReadMsgOnRetry \/ ClearMsgOnRetry \/ AwaitMsgOnRetry \/ WriteKeycode
  BY <1>12 DEF ReadMsgOnRetry, ClearMsgOnRetry, AwaitMsgOnRetry, WriteKeycode, lists, hist
<1>13. CASE CheckPresent
  <2>1. req = Poll /\ UNCHANGED <<req, setup>> /\ pc # "soft_reset"
    BY <1>13 DEF CheckPresent, NextPoll, Place, hist
  <2>2. ~(req < Poll)
    BY <2>1, <1>a
  <2> QED
    BY <2>1, <2>2
<1>14. CASE FetchFirst
  BY <1>14 DEF FetchFirst, driver, hist
<1>15. CASE FinishFirst
  <2>1. /\ run = "first" /\ run' = "rest" /\ UNCHANGED <<pc, req, resent, mem, fetched>>
        /\ setup \subseteq setup' /\ (ctl' = "ok" => fetched \in setup')
    BY <1>15 DEF FinishFirst, driver
  <2>2. CASE pc = "start" /\ ~resent
    BY <2>1, <2>2
  <2>3. CASE ~(pc = "start" /\ ~resent)
    BY <2>1, <2>3
  <2> QED
    BY <2>2, <2>3
<1>16. CASE FinishList \/ FinishStray \/ Answer \/ PlugOrUnplug
  BY <1>16 DEF FinishList, FinishStray, Answer, PlugOrUnplug, driver, lists, hist
<1> QED
  BY <1>1, <1>2, <1>3, <1>4, <1>5, <1>6, <1>7, <1>8, <1>9, <1>10, <1>11, <1>12,
     <1>13, <1>14, <1>15, <1>16 DEF Next, Driver, Chip

\* Unless the TD at 0x0576 has posted, a TDListDone is always the one of the
\* request under way: the sleeps keep a repeated list from ending late.
LEMMA AnsweredStep ==
  ASSUME SleepEnough, IInv, Answered, DoneMeansExecuted, [Next]_vars
  PROVE  Answered' /\ DoneMeansExecuted'
<1>a. DriverType /\ Place /\ OwnList
  BY DEF IInv, TypeOK
<1>b. req \in Nat /\ req > 0 /\ NReq + 1 \in Nat /\ NReq + 1 > 1 /\ req <= NReq + 1
  BY <1>a, CountsAssumption DEF DriverType
<1>c. pc # "soft_reset" /\ req < Poll /\ pc \notin {"write"} \cup Asking => run = "idle"
  BY <1>a, <1>b DEF DriverType, PCs, Place, Asking, Judging, Retrying
<1>d. \A r \in 1 .. req - 1 : r < req
  BY <1>b
<1> USE DEF Answered, DoneMeansExecuted, Asking, Judging, Retrying
<1>1. CASE UNCHANGED vars
  BY <1>1 DEF vars, driver, msgs, lists, hist
<1>2. CASE SoftReset
  <2>1. pc' = "ack1" /\ req' = 1 /\ run' = "idle" /\ msg' = "0"
    BY <1>2 DEF SoftReset
  <2> QED
    BY <2>1
<1>3. CASE AwaitStatus \/ AwaitInsertion
  BY <1>3 DEF AwaitStatus, AwaitInsertion, msgs, lists, hist
<1>4. CASE ReadBox("box1", "box2") \/ ReadBox("box2", "detect")
  BY <1>4 DEF ReadBox, msgs, lists, hist
<1>5. CASE Detect
  <2>1. /\ pc' \in {"write", "detect", "insert"} /\ pc = "detect"
        /\ UNCHANGED <<req, lists, msgs, hist>>
    BY <1>5 DEF Detect
  <2> QED
    BY <2>1, <1>c DEF lists, msgs, hist
<1>6. CASE WriteList
  <2>1. /\ pc = "write" /\ pc' = "start" /\ mem' = req
        /\ UNCHANGED <<req, resent, run, fetched, msgs, hist>>
    BY <1>6 DEF WriteList
  <2> QED
    BY <2>1 DEF msgs, hist
<1>7. CASE StartList
  <2>1. /\ pc = "start" /\ pc' = "status" /\ run' = "pending"
        /\ UNCHANGED <<req, resent, msgs, hist>>
    BY <1>7 DEF StartList
  <2> QED
    BY <2>1 DEF msgs, hist
<1>8. CASE CheckStatus
  <2>1. /\ pc = "status" /\ (resent => run = "idle")
        /\ UNCHANGED <<req, lists, msgs, hist>>
    BY <1>8 DEF CheckStatus, Slept
  <2>2. CASE flag
    <3>1. pc' = "msg"
      BY <1>8, <2>2 DEF CheckStatus
    <3> QED
      BY <2>1, <2>2, <3>1 DEF lists, msgs, hist
  <2>3. CASE ~flag
    <3>1. pc' = "write" /\ resent'
      BY <1>8, <2>3 DEF CheckStatus
    <3> QED
      BY <2>1, <2>3, <3>1 DEF lists, msgs, hist
  <2> QED
    BY <2>2, <2>3
<1>9. CASE ReadMsg
  <2>1. /\ pc = "msg" /\ pc' = "clear" /\ val' = msg
        /\ UNCHANGED <<req, lists, msg, hist>>
    BY <1>9 DEF ReadMsg
  <2> QED
    BY <2>1 DEF lists, hist
<1>10. CASE ClearMsg
  <2>1. /\ pc = "clear" /\ UNCHANGED <<req, lists, hist>>
        /\ pc' = "msg" \/ (pc' = "ctl" /\ val = Done) \/ req = Poll
        /\ pc' # "soft_reset" /\ msg' = "0"
    BY <1>10 DEF ClearMsg, IsTDListDone
  <2> QED
    BY <2>1, <1>b DEF lists, hist
<1>11. CASE CheckCtl \/ CheckCtlOnRetry
  <2>1. UNCHANGED <<msgs, hist>> /\ pc \in Judging
    BY <1>11 DEF CheckCtl, CheckCtlOnRetry
  <2>2. CASE Advance
    <3>1. pc' = "write" /\ req' = req + 1 /\ UNCHANGED run
      BY <2>2 DEF Advance
    <3>2. req < Poll
      BY <2>1, <1>a DEF Place
    <3>3. ~strayed => req \in complete /\ run = "idle" /\ msg # Done
      BY <2>1, <3>2
    <3>4. \A r \in 1 .. req' - 1 : r \in 1 .. req - 1 \/ r = req
      BY <3>1, <1>b
    <3>5. strayed => req > BogusAfter
      BY <2>1, <1>a DEF Place
    <3>6. DoneMeansExecuted'
      BY <2>1, <3>1, <3>3, <3>4, <3>5 DEF hist
    <3>7. Answered'
      BY <2>1, <3>1, <3>3 DEF msgs, hist
    <3> QED
      BY <3>6, <3>7
  <2>3. CASE ~Advance
    <3>1. pc' \in {"retry", "soft_reset"} /\ UNCHANGED <<req, lists>>
      BY <1>11, <2>3 DEF CheckCtl, CheckCtlOnRetry
    <3> QED
      BY <2>1, <3>1 DEF lists, msgs, hist
  <2> QED
    BY <2>2, <2>3
<1>12. CASE ReadMsgOnRetry \/ ClearMsgOnRetry \/ AwaitMsgOnRetry
  <2>1. /\ pc \in Judging /\ pc' \in Judging /\ msg' \in {msg, "0"}
        /\ UNCHANGED <<req, lists, hist>>
    BY <1>12 DEF ReadMsgOnRetry, ClearMsgOnRetry, AwaitMsgOnRetry, msgs
  <2> QED
    BY <2>1 DEF lists, hist
<1>13. CASE WriteKeycode \/ CheckPresent
  <2>1. req = Poll /\ UNCHANGED <<req, hist>> /\ pc # "soft_reset"
    BY <1>13, <1>a DEF WriteKeycode, CheckPresent, NextPoll, Place
  <2>2. ~(req < Poll)
    BY <2>1, <1>b
  <2> QED
    BY <2>1, <2>2 DEF hist
<1>14. CASE FetchFirst
  BY <1>14, <1>c DEF FetchFirst, driver, msgs, hist
<1>15. CASE FinishFirst
  <2>1. /\ run = "first" /\ run' = "rest"
        /\ UNCHANGED <<pc, req, resent, val, mem, fetched, msgs, complete, strayed>>
    BY <1>15 DEF FinishFirst, driver
  <2>2. pc # "soft_reset" /\ req < Poll => fetched = req /\ mem = req
    BY <2>1, <1>a, <1>c DEF OwnList
  <2> QED
    BY <2>1, <2>2, <1>c DEF msgs
<1>16. CASE FinishList
  <2>1. /\ run = "rest" /\ run' = "idle" /\ msg' = Done
        /\ UNCHANGED <<pc, req, resent, val, mem, fetched, strayed>>
        /\ complete' = IF fetched = mem THEN complete \cup {mem} ELSE complete
    BY <1>16 DEF FinishList, Post, driver
  <2>2. pc # "soft_reset" /\ req < Poll /\ ~strayed =>
          fetched = mem /\ mem = req /\ pc \in {"write"} \cup Asking
    BY <2>1, <1>c
  <2> QED
    BY <2>1, <2>2
<1>17. CASE FinishStray
  <2>1. /\ UNCHANGED <<pc, req, resent, val, mem, fetched, run, complete>>
        /\ strayed' \/ UNCHANGED <<msg, strayed>>
    BY <1>17 DEF FinishStray, driver, msgs
  <2>2. strayed' => strayed \/ pc = "soft_reset" \/ req > BogusAfter
    BY <1>17, <1>a DEF FinishStray, Place
  <2> QED
    BY <2>1, <2>2, <1>a DEF Place
<1>18. CASE Answer
  BY <1>18 DEF Answer, driver, msgs, lists, hist
<1>19. CASE PlugOrUnplug
  <2>1. UNCHANGED <<driver, lists, hist>> /\ msg' \in {msg, Change}
    BY <1>19 DEF PlugOrUnplug, Post, msgs
  <2> QED
    BY <2>1 DEF driver, lists, hist
<1> QED
  BY <1>1, <1>2, <1>3, <1>4, <1>5, <1>6, <1>7, <1>8, <1>9, <1>10, <1>11, <1>12,
     <1>13, <1>14, <1>15, <1>16, <1>17, <1>18, <1>19 DEF Next, Driver, Chip

-----------------------------------------------------------------------------
(* The theorems. *)

\* The first state.
LEMMA InitInvariant == Init => IInv
<1> SUFFICES ASSUME Init PROVE IInv
  OBVIOUS
<1>1. DriverType
  BY CountsAssumption DEF Init, DriverType, PCs
<1>2. ChipType /\ HistoryType
  BY CountsAssumption DEF Init, ChipType, HistoryType
<1>3. FlagType
  BY DEF Init, FlagType
<1>4. Place /\ OwnList /\ SetupTaken
  BY DEF Init, Place, Judging, Retrying, OwnList, SetupTaken
<1> QED
  BY <1>1, <1>2, <1>3, <1>4 DEF IInv, TypeOK

\* Types, for any number of requests, looks, insertions and restarts: main.c
\* never goes past its last request, nor the looks past their limit.
THEOREM TypeCorrect == Spec => []TypeOK
<1>1. Init => TypeOK /\ Place
  BY InitInvariant DEF IInv
<1>2. (TypeOK /\ Place) /\ [Next]_vars => (TypeOK /\ Place)'
  BY DriverStep, ChipStep, FlagStep, PlaceStep DEF TypeOK
<1> QED
  BY <1>1, <1>2, PTL DEF Spec

\* No step leaves the invariant.
LEMMA StepInvariant == SleepEnough /\ IInv /\ [Next]_vars => IInv'
BY DriverStep, ChipStep, FlagStep, PlaceStep, OwnListStep DEF IInv, TypeOK

\* If a list ends within the sleep after it (main.c:211, main.c:298), no
\* insertion or removal, no retry and no lost, stale or foreign message makes
\* main.c leave a request behind whose setup packet the keyboard has not taken.
THEOREM SetupNeverSkipped == ASSUME SleepEnough PROVE Spec => []SetupTaken
<1>1. IInv /\ [Next]_vars => IInv'
  BY StepInvariant
<1>2. IInv => SetupTaken
  BY DEF IInv
<1> QED
  BY InitInvariant, <1>1, <1>2, PTL DEF Spec

\* If a list ends within the sleep after it, a request main.c announces as done
\* was executed to the end of its list, whatever was plugged, retried or lost,
\* up to GetConfigDesc2 always, and after it unless the TD at 0x0576 has posted
\* a message: the resend never makes one request's message another's.
THEOREM DoneIsExecuted == ASSUME SleepEnough PROVE Spec => []DoneMeansExecuted
<1>1. Init => PatientInv
  <2>1. Init => Answered /\ DoneMeansExecuted
    BY DEF Init, Answered, DoneMeansExecuted
  <2> QED
    BY <2>1, InitInvariant DEF PatientInv
<1>2. PatientInv /\ [Next]_vars => PatientInv'
  BY StepInvariant, AnsweredStep DEF PatientInv
<1>3. PatientInv => DoneMeansExecuted
  BY DEF PatientInv
<1> QED
  BY <1>1, <1>2, <1>3, PTL DEF Spec
=============================================================================

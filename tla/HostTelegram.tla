----------------------------- MODULE HostTelegram -----------------------------
(***************************************************************************)
(* The telegrams between the host (the Anybus module, AM) and the two      *)
(* controllers: reception and its comparison between the controllers       *)
(* (src/pkgAic/pkgAicMgr), the fragments of messages and the state         *)
(* machines that process and build them (src/pkgAic/pkgAicMsg), and the    *)
(* queues of the safety stack's messages in both directions (aicMsgCsal.c, *)
(* CIPsafety/HALCS/HALCSmsg.c).                                            *)
(*                                                                         *)
(* The scheduler (timeSlicesRunMode) handles telegrams in the slices 3, 4, *)
(* 6, 23 and 38 of a cycle, which the controllers execute in step: a slice *)
(* is one step of both, in which neither reads what the other writes.  The *)
(* host's telegrams reach a receive DMA of each controller at any time; a  *)
(* telegram that ends while a slice is executed may be there for one of    *)
(* them only ("late" for the other).                                       *)
(*                                                                         *)
(* A telegram holds a flag that changes with every new fragment of its     *)
(* sender, a copy of the flag of the last fragment its sender has taken,   *)
(* and a fragment of a message.                                            *)
(***************************************************************************)
EXTENDS Integers, Sequences, TLC

CONSTANTS C1, C2,
          Requests,     \* the host's requests, of the kinds of Parts
          CssMessages,  \* lengths, in fragments, of the stack's messages
          RcqSize,      \* HALCSMSG_cfg_RCQ_SIZE
          UcqSize,      \* AICMSGCSAL_cfg_UCQ_SIZE
          TgmWrap,      \* range of u8_NumTgm
          Numbers,      \* fragments are numbered modulo this
          MaxOpen,      \* bound: requests of the host not answered yet
          MaxFaults,    \* bound: telegrams damaged or lost
          MaxSplit      \* bound: telegrams since one was damaged for one controller only

ASSUME TwoControllers == C1 # C2
ASSUME BoundsAssumption ==
  /\ {RcqSize, UcqSize, MaxFaults, MaxSplit, MaxOpen} \subseteq Nat
  /\ UcqSize > 0 /\ TgmWrap \in Nat /\ TgmWrap > 2 /\ Numbers \in Nat /\ Numbers > 1

C == {C1, C2}
Peer(c) == IF c = C1 THEN C2 ELSE C1

\* Fragments of a request, and of its response.
Parts ==
  [status      |-> [request |-> 1, response |-> 1],
   classId     |-> [request |-> 1, response |-> 2],
   csal        |-> [request |-> 2, response |-> 1],
   config      |-> [request |-> 3, response |-> 1],
   unsupported |-> [request |-> 2, response |-> 1]]

ASSUME RequestsAssumption == Requests \subseteq DOMAIN Parts /\ CssMessages \subseteq Nat \ {0}

VARIABLES
  slice,      \* the next slice: 3, 6, 23 or 38
  dma,        \* receive DMA: "empty", "partial", "late", "bad" or "full"
  buffer,     \* aicUart_sAicRxDmaBuffer
  numTgm,     \* u8_NumTgm
  syncTx,     \* gpio_u8IpcAicSyncSend
  amTgm,      \* aicMsgCtrlSts_u8_AmCtrlSts and aicMsgProc_s_RcvdMsg
  dev,        \* the message layer of a controller, see Data
  failSafe,
  host,       \* the host, see Hosts
  heard,      \* the host has taken the last telegram of the controllers
  faults,
  split       \* history: telegrams since one was damaged for one controller only,
              \* that one included

rxVars == <<dma, buffer, numTgm, syncTx, amTgm>>
vars == <<slice, rxVars, dev, failSafe, host, heard, faults, split>>

-----------------------------------------------------------------------------
(* Data *)

\* A fragment: part p of a request of the host ("req"), of the response to
\* it ("resp"), of a message of the stack ("css", k its length), or of the
\* response to that ("answer"); no is its number, which no code looks at.
Fragment(kind, what, part, no) == [kind |-> kind, what |-> what, part |-> part, no |-> no]
NoFragment == Fragment("none", "none", 0, 0)

Telegrams ==
  [am : BOOLEAN, ack : BOOLEAN,
   frag : [kind : {"none", "req", "answer"}, what : Requests \cup {"none", "css"}, part : 0 .. 3,
           no : 0 .. Numbers - 1]]

FirstTgm == [am |-> FALSE, ack |-> FALSE, frag |-> NoFragment]

\* rx, tx: aicMsgBld_e_RxState, aicMsgBld_e_TxState; left: fragments still
\* missing (u16_CsalMsgOfs and its like); skip: u8_FragmentsToSkip; conf:
\* aicMsgBld_e_ConfAmFrag; req: u16_LastRecvdMsgReqResp; part: fragments of the
\* response or of the stack's message that were built (u8_GetClassIdFragNo,
\* u16_CssMsgOfs); am, asm: flags of aicMsgCtrlSts_u8_AsmCtrlSts; lastAm,
\* lastAck: of u8_LastProcAmCtrlSts; send: aicMsgBld_s_SendMsg; rcq: as_Rcq;
\* ucq: entries used of as_Ucq; taken, sent (history): number of the last
\* fragment taken and built.
FirstMessages ==
  [rx |-> "WF_AM_REQ_RESP_PROC", tx |-> "WF_ASM_REQ_RESP_BUILD", left |-> 0, skip |-> 0,
   conf |-> FALSE, req |-> "none", respPart |-> 0, cssPart |-> 0, am |-> FALSE, asm |-> FALSE,
   lastAm |-> FALSE, lastAck |-> FALSE, send |-> NoFragment, rcq |-> <<>>, ucq |-> 0,
   taken |-> 0, sent |-> 0]

Running(c) == failSafe[c] = "none"
Succ(n) == (n + 1) % Numbers

\* Both controllers execute slice n.
Slice(n, next) ==
  /\ slice = n
  /\ heard
  /\ \A c \in C : Running(c)
  /\ slice' = next
  /\ UNCHANGED <<host, faults, split>>

-----------------------------------------------------------------------------
(* aicMgrRx.c: reception *)

NewTgmReceived(c) == dma[c] \in {"bad", "full"}

\* aicMgrRx_CheckForNewTgm with SplitAndCheckBuffer, by the controllers of cs;
\* the buffer is not read again before the next telegram.
CheckForNewTgm(cs) ==
  LET valid == {c \in cs : dma[c] = "full"}
  IN  /\ dma' = [c \in C |-> CASE c \in cs /\ NewTgmReceived(c) -> "empty"
                               [] dma[c] = "late"               -> "full"
                               [] OTHER                         -> dma[c]]
      /\ buffer' = [c \in C |-> IF c \in cs /\ NewTgmReceived(c) THEN FirstTgm ELSE buffer[c]]
      /\ numTgm' = [c \in C |-> IF c \in valid THEN (numTgm[c] + 1) % TgmWrap ELSE numTgm[c]]
      /\ amTgm' = [c \in C |-> IF c \in valid THEN buffer[c] ELSE amTgm[c]]

\* Slice 3, followed by aicMgrRx_PrepAicSync in slice 4, and slice 23
aicMgrRx_CheckForNewTgm ==
  \/ Slice(3, 6) /\ CheckForNewTgm(C) /\ syncTx' = numTgm' /\ UNCHANGED <<dev, failSafe, heard>>
  \/ Slice(23, 38) /\ CheckForNewTgm(C) /\ UNCHANGED <<syncTx, dev, failSafe, heard>>

\* Mutant: a controller that is one telegram behind does not look again.
Behind_Never(c) == FALSE

\* aicMgrRx_DoAicSync: a controller that is behind looks again.
Behind(c) == (numTgm[c] + 1) % TgmWrap = syncTx[Peer(c)]
Ahead(c) == numTgm[c] = (syncTx[Peer(c)] + 1) % TgmWrap
MustStop(c) == numTgm'[c] # syncTx[Peer(c)] /\ ~Ahead(c)

-----------------------------------------------------------------------------
(* aicMsgProc.c: processing of the host's fragment *)

\* aicMsgCtrlSts_IsNewFragRcvd
IsNewFragRcvd(d) == d.lastAm # d.am

Take(d, frag) == [d EXCEPT !.conf = TRUE, !.taken = frag.no]

FragProc(what) ==
  IF what = "csal" THEN "WF_AM_REQ_HALCCSALMSG_FRAG_PROC" ELSE "WF_AM_REQ_SETCFGSTR_FRAG_PROC"

\* Mutant: one fragment too few is skipped of a request that is refused.
ToSkip_OneLess(what) == Parts[what].request - 2

\* CalcNumOfFragmentsToSkip
ToSkip(what) == Parts[what].request - 1

\* ProcessReqMsg1frag and the branches of ProcessMsg that follow it
FirstOfRequest(d, frag) ==
  LET b == [Take(d, frag) EXCEPT !.req = frag.what]
      rest == Parts[frag.what].request - 1
  IN  CASE frag.what = "unsupported" ->
             [b EXCEPT !.skip = ToSkip(frag.what),
                       !.rx = IF ToSkip(frag.what) > 0 THEN "SKIP_FRAGMENTS" ELSE "WF_ASM_RESP_BUILD"]
        [] frag.what # "unsupported" /\ rest = 0 -> [b EXCEPT !.rx = "WF_ASM_RESP_BUILD"]
        [] OTHER -> [b EXCEPT !.left = rest, !.rx = FragProc(frag.what)]

\* ProcessRespMsg; a response nobody waits for is only logged.
ResponseOfHost(d, frag) ==
  [Take(d, frag) EXCEPT !.tx = IF @ = "WF_AM_RES_PROC" THEN "WF_ASM_REQ_RESP_BUILD" ELSE @]

\* ProcessReqMsgNfrag; a message for the stack is in its queue when complete.
NextOfRequest(d, frag) ==
  LET last == d.left = 1
  IN  [Take(d, frag) EXCEPT !.left = @ - 1,
                            !.rx = IF last THEN "WF_ASM_RESP_BUILD" ELSE @,
                            !.ucq = IF last /\ d.req = "csal" THEN @ + 1 ELSE @]

\* The response to the last request has to be built first.
NotYet(d, frag) == d

SkipFragment(d, frag) ==
  [Take(d, frag) EXCEPT !.skip = @ - 1,
                        !.rx = IF d.skip = 1 THEN "WF_ASM_RESP_BUILD" ELSE @]

ProcessMsg(d, frag) ==
  CASE d.rx = "WF_AM_REQ_RESP_PROC" /\ frag.kind = "answer" -> ResponseOfHost(d, frag)
    [] d.rx = "WF_AM_REQ_RESP_PROC" /\ frag.kind # "answer" -> FirstOfRequest(d, frag)
    [] d.rx = "WF_ASM_RESP_BUILD"                            -> NotYet(d, frag)
    [] d.rx = "SKIP_FRAGMENTS"                               -> SkipFragment(d, frag)
    [] OTHER                                                 -> NextOfRequest(d, frag)

\* aicMsgProc_ProcessMsg with aicMsgCtrlSts_Process
aicMsgProc_ProcessMsg(d, tgm) ==
  LET e == [d EXCEPT !.lastAm = tgm.am, !.lastAck = tgm.ack]
  IN  IF IsNewFragRcvd(e) THEN ProcessMsg(e, tgm.frag) ELSE e

\* Slice 6: aicMgrRx_DoAicSync, aicMgrRx_ProcessTgm
aicMgrRx_ProcessTgm ==
  /\ Slice(6, 23)
  /\ CheckForNewTgm({c \in C : Behind(c)})
  /\ failSafe' = [c \in C |-> IF MustStop(c) THEN "AIC_SYNC_ERR" ELSE "none"]
  /\ dev' = [c \in C |-> IF MustStop(c) THEN dev[c] ELSE aicMsgProc_ProcessMsg(dev[c], amTgm'[c])]
  /\ UNCHANGED <<syncTx, heard>>

-----------------------------------------------------------------------------
(* aicMsgBld.c: the fragment the controller sends *)

\* aicMsgCtrlSts_BuildCtrlStsByte
BuildCtrlStsByte(d, toggle) ==
  [d EXCEPT !.am = IF d.conf THEN d.lastAm ELSE @,
            !.asm = IF toggle THEN ~@ ELSE @,
            !.conf = FALSE]

SendFragment(d, kind, what, part) ==
  BuildCtrlStsByte([d EXCEPT !.send = Fragment(kind, what, part, Succ(d.sent)),
                             !.sent = Succ(@)], TRUE)

\* BuildRespMsg, BuildDefRespMsg, BuildErrRespMsg
BuildRespMsg(d) ==
  LET last == d.respPart + 1 = Parts[d.req].response
  IN  SendFragment([d EXCEPT !.rx = IF last THEN "WF_AM_REQ_RESP_PROC" ELSE @,
                             !.respPart = IF last THEN 0 ELSE @ + 1],
                   "resp", d.req, d.respPart + 1)

\* HALCS_MsgTxReqGet, aicMsgCss_BuildReqMsg, HALCS_MsgTxReqRelease
BuildReqMsg(d) ==
  LET last == d.cssPart + 1 = Head(d.rcq)
  IN  SendFragment([d EXCEPT !.tx = IF last THEN "WF_AM_RES_PROC" ELSE "WF_ASM_REQ_BUILD",
                             !.rcq = IF last THEN Tail(@) ELSE @,
                             !.cssPart = IF last THEN 0 ELSE @ + 1],
                   "css", IF last THEN "last" ELSE "more", d.cssPart + 1)

\* Mutant: the next fragment is built before the host has the last one.
IsAsmFragConf_Always(d) == TRUE

\* aicMsgCtrlSts_IsAsmFragConf
IsAsmFragConf(d) == d.lastAck = d.asm

\* Mutant: no response is built while one of the host is awaited.
MayRespond_NotWaiting(d) == d.tx = "WF_ASM_REQ_RESP_BUILD" /\ d.rx = "WF_ASM_RESP_BUILD"

MayRespond(d) == d.tx # "WF_ASM_REQ_BUILD" /\ d.rx = "WF_ASM_RESP_BUILD"
MayRequest(d) == d.tx # "WF_AM_RES_PROC" /\ ~MayRespond(d) /\ d.rcq # <<>>

aicMsgBld_BuildMsg(d) ==
  CASE IsAsmFragConf(d) /\ MayRespond(d) -> BuildRespMsg(d)
    [] IsAsmFragConf(d) /\ MayRequest(d) -> BuildReqMsg(d)
    [] OTHER                             -> BuildCtrlStsByte(d, FALSE)

-----------------------------------------------------------------------------
(* The safety stack: the background task of each cycle is complete before  *)
(* slice 38 (SAPL_BkgdTaskCheck) and is the same on both controllers.      *)

\* Mutant: a message is written to a queue that is full.
RcqPut_Unchecked(q, len) == Append(q, len)

\* RcqPut: a message that finds the queue full is lost.
RcqPut(q, len) == IF Len(q) < RcqSize THEN Append(q, len) ELSE q

\* SAPL_BkgdComRxProcessHalcMsg takes one message, aicMsgCsal_MsgRelease.
Background(d, put) ==
  [d EXCEPT !.ucq = IF @ > 0 THEN @ - 1 ELSE @,
            !.rcq = IF put = 0 THEN @ ELSE RcqPut(@, put)]

\* Slice 38: aicMgrTx_BuildAsmTgm, aicMgrTx_MergeSendAsmTgm
aicMgrTx_MergeSendAsmTgm ==
  /\ Slice(38, 3)
  /\ \E put \in CssMessages \cup {0} :
       dev' = [c \in C |-> aicMsgBld_BuildMsg(Background(dev[c], put))]
  /\ heard' = FALSE
  /\ UNCHANGED <<rxVars, failSafe>>

-----------------------------------------------------------------------------
(* Hosts: am, ack: its flags; frag: the fragment it offers, with number no *)
(* and confirmed or not; open: requests not answered, of whose first parts *)
(* fragments of the response have come; owes: it has to answer a message   *)
(* of the stack; seen (history): number of the controllers' last fragment. *)

FirstHost ==
  [am |-> FALSE, ack |-> FALSE, frag |-> NoFragment, conf |-> TRUE, open |-> <<>>, parts |-> 0,
   owes |-> FALSE, seen |-> 0]

OfferNext(h, kind, what, part) ==
  [h EXCEPT !.am = ~@, !.frag = Fragment(kind, what, part, Succ(h.frag.no)), !.conf = FALSE]

\* The host with the fragment of its next telegram: a request is completed
\* and a message of the stack is answered before another request.
NextOffers(h) ==
  LET f == h.frag
  IN  CASE ~h.conf -> {h}
        [] h.conf /\ f.kind = "req" /\ f.part < Parts[f.what].request ->
             {OfferNext(h, "req", f.what, f.part + 1)}
        [] h.conf /\ ~(f.kind = "req" /\ f.part < Parts[f.what].request) /\ h.owes ->
             {[OfferNext(h, "answer", "css", 1) EXCEPT !.owes = FALSE]}
        [] OTHER ->
             {h} \cup {[OfferNext(h, "req", r, 1) EXCEPT !.open = Append(@, r)] :
                         r \in IF Len(h.open) < MaxOpen THEN Requests ELSE {}}

\* The telegram ends: for the controllers of late during the next slice, with
\* noise on the line of those of hit, which damages it or loses bytes of it.
\* Bytes that were lost before make it a wrong one.
Transmit(tgm, late, hit, noise) ==
  /\ dma' = [c \in C |-> CASE c \in hit                            -> noise
                           [] c \in late                           -> "late"
                           [] c \notin hit \cup late /\ dma[c] = "partial" -> "bad"
                           [] OTHER                                -> "full"]
  /\ buffer' = [c \in C |-> IF dma'[c] \in {"late", "full"} THEN tgm ELSE buffer[c]]

TgmOf(h) == [am |-> h.am, ack |-> h.ack, frag |-> h.frag]

\* A telegram of the host, which sends none before the last one is handled.
\* (That it ends between slice 23 and the sending of slice 38 is left out: its
\* flags would be as old as those of one that ends before slice 23.)
SendsNext(late, hit, noise) ==
  /\ heard
  /\ slice # 38
  /\ \A c \in C : dma[c] \in {"empty", "partial"}
  /\ \E h \in NextOffers(host) :
       /\ host' = h
       /\ Transmit(TgmOf(h), late, hit, noise)
  /\ UNCHANGED <<slice, numTgm, syncTx, amTgm, dev, failSafe, heard>>

HostSends ==
  /\ \E late \in {{}, {C1}, {C2}} :
       /\ late # {} => \A c \in C : dma[c] = "empty"
       /\ SendsNext(late, {}, "bad")
  /\ split < MaxSplit
  /\ split' = IF split = 0 THEN 0 ELSE split + 1
  /\ UNCHANGED faults

HostIsDisturbed ==
  /\ faults < MaxFaults
  /\ faults' = faults + 1
  /\ \E hit \in {{C1}, {C2}, C}, noise \in {"partial", "bad"} :
       /\ SendsNext({}, hit, noise)
       /\ split < MaxSplit
       /\ split' = IF split = 0 /\ hit = C THEN 0 ELSE split + 1

\* The host takes a fragment of the controllers.
HostTakes(h, f) ==
  CASE f.kind = "resp" /\ f.part = Parts[f.what].response ->
         [h EXCEPT !.open = Tail(@), !.parts = 0]
    [] f.kind = "resp" /\ f.part # Parts[f.what].response -> [h EXCEPT !.parts = f.part]
    [] f.kind = "css" -> [h EXCEPT !.owes = f.what = "last"]

\* The host receives the telegram of slice 38 (that of controller 1).
HostReceives ==
  /\ ~heard
  /\ heard' = TRUE
  /\ LET d == dev[C1]
         new == d.asm # host.ack
         h == IF new THEN HostTakes(host, d.send) ELSE host
     IN  host' = [h EXCEPT !.ack = d.asm, !.seen = IF new THEN d.send.no ELSE @,
                           !.conf = d.am = host.am]
  /\ UNCHANGED <<slice, rxVars, dev, failSafe, faults, split>>

HostMisses ==
  /\ ~heard
  /\ heard' = TRUE
  /\ faults < MaxFaults
  /\ faults' = faults + 1
  /\ UNCHANGED <<slice, rxVars, dev, failSafe, host, split>>

-----------------------------------------------------------------------------

Init ==
  /\ slice = 3
  /\ dma = [c \in C |-> "empty"]
  /\ buffer = [c \in C |-> FirstTgm]
  /\ numTgm = [c \in C |-> 0]
  /\ syncTx = [c \in C |-> 0]
  /\ amTgm = [c \in C |-> FirstTgm]
  /\ dev = [c \in C |-> FirstMessages]
  /\ failSafe = [c \in C |-> "none"]
  /\ host = FirstHost
  /\ heard = TRUE
  /\ faults = 0
  /\ split = 0

Next ==
  \/ aicMgrRx_CheckForNewTgm
  \/ aicMgrRx_ProcessTgm
  \/ aicMgrTx_MergeSendAsmTgm
  \/ HostSends \/ HostIsDisturbed
  \/ HostReceives \/ HostMisses

\* The timer drives the slices, and the host keeps sending telegrams.
Fairness ==
  /\ WF_vars(aicMgrRx_CheckForNewTgm) /\ WF_vars(aicMgrRx_ProcessTgm)
  /\ WF_vars(aicMgrTx_MergeSendAsmTgm)
  /\ WF_vars(HostReceives) /\ SF_vars(HostSends)

Spec == Init /\ [][Next]_vars /\ Fairness

-----------------------------------------------------------------------------

TypeOK ==
  /\ slice \in {3, 6, 23, 38}
  /\ dma \in [C -> {"empty", "partial", "late", "bad", "full"}]
  /\ buffer \in [C -> Telegrams] /\ amTgm \in [C -> Telegrams]
  /\ numTgm \in [C -> 0 .. TgmWrap - 1]
  /\ syncTx \in [C -> 0 .. TgmWrap - 1]
  /\ \A c \in C : Len(dev[c].rcq) <= RcqSize /\ dev[c].ucq \in 0 .. UcqSize

\* Both controllers work with the same telegram after they have compared their
\* counts (aicMgrRx.c:233: "uCs are working with different AIC-messages").
SameTelegram == slice = 23 /\ (\A c \in C : Running(c)) => amTgm[C1] = amTgm[C2]

\* As long as no telegram is damaged for one controller only, both work with
\* the same telegrams, their message layers agree and neither stops, whenever
\* the host's telegrams end and whatever is lost or damaged for both.
InStep == split = 0 => dev[C1] = dev[C2] /\ SameTelegram /\ \A c \in C : Running(c)

\* The host gets the fragments of the responses in order: those to its oldest
\* request, each once, also when it is refused before it is complete.
AnswersInOrder ==
  LET d == dev[C1]
      f == d.send
  IN  d.asm # host.ack /\ f.kind = "resp" =>
        /\ host.open # <<>>
        /\ f.what = Head(host.open)
        /\ f.part = host.parts + 1

Link == INSTANCE HostLink WITH toDevice <- host.frag.no, taken <- dev[C1].taken,
                               toHost <- dev[C1].sent, seen <- host.seen

\* The flags make a link without loss or repetition of the telegrams, of which
\* any may be lost or handled several times (aicMsgCtrlSts.c).
LinkWorks == Link!Spec

\* Every request of the host is answered, though the stack's messages and the
\* host's answers to them use the same fragments.
RequestsAnswered ==
  \A n \in 1 .. MaxOpen : Len(host.open) = n ~> Len(host.open) # n \/ split > 0

=============================================================================

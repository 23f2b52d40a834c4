-------------------------- MODULE HostTelegram_proofs --------------------------
(***************************************************************************)
(* Proofs about the telegrams (HostTelegram.tla), for every set of requests *)
(* of the kinds of Parts and of messages of the stack, all sizes of the     *)
(* queues, every number of open requests and of faults: the message for the *)
(* stack always finds room (TypeOK), the host gets the responses in order   *)
(* (AnswersInOrder), the link implements HostLink (LinkWorks), and the      *)
(* controllers stay in step (InStep).                                       *)
(*                                                                         *)
(* Single is an inductive invariant of the host and the controller it talks *)
(* to, PairInv, relative to it, one of the two controllers.                 *)
(***************************************************************************)
EXTENDS HostTelegram, TLAPS

\* Numbers of fragments, the states of the message layer, and its types.
Numbering == 0 .. Numbers - 1
RxStates == {"WF_AM_REQ_RESP_PROC", "WF_AM_REQ_HALCCSALMSG_FRAG_PROC",
             "WF_AM_REQ_SETCFGSTR_FRAG_PROC", "SKIP_FRAGMENTS", "WF_ASM_RESP_BUILD"}
TxStates == {"WF_ASM_REQ_RESP_BUILD", "WF_ASM_REQ_BUILD", "WF_AM_RES_PROC"}
Whats == Requests \cup {"none", "css", "more", "last"}
Fragments ==
  [kind : {"none", "req", "answer", "resp", "css"}, what : Whats, part : Int, no : Numbering]

Messages ==
  [rx : RxStates, tx : TxStates, left : Int, skip : Int, conf : BOOLEAN,
   req : Whats, respPart : Int, cssPart : Int, am : BOOLEAN, asm : BOOLEAN,
   lastAm : BOOLEAN, lastAck : BOOLEAN, send : Fragments, rcq : Seq(Nat), ucq : Nat,
   taken : Numbering, sent : Numbering]

\* The host, and the fragments it offers.
HostFragments ==
  [kind : {"none", "req", "answer"}, what : Requests \cup {"none", "css"}, part : 0 .. 3,
   no : Numbering]

Hosts ==
  [am : BOOLEAN, ack : BOOLEAN, frag : HostFragments, conf : BOOLEAN, open : Seq(Requests),
   parts : Int, owes : BOOLEAN, seen : Numbering]

\* The type invariant.
HtTypeOK ==
  /\ slice \in {3, 6, 23, 38}
  /\ dma \in [C -> {"empty", "partial", "late", "bad", "full"}]
  /\ buffer \in [C -> Telegrams] /\ amTgm \in [C -> Telegrams]
  /\ numTgm \in [C -> 0 .. TgmWrap - 1]
  /\ syncTx \in [C -> 0 .. TgmWrap - 1]
  /\ dev[C1] \in Messages
  /\ failSafe \in [C -> {"none", "AIC_SYNC_ERR"}]
  /\ host \in Hosts

\* A message of the host waits in the queue for the next task only.
Queues(d) ==
  /\ DOMAIN d = DOMAIN FirstMessages
  /\ d.rcq \in Seq(Nat) /\ Len(d.rcq) <= RcqSize
  /\ d.ucq \in 0 .. 1

\* The task of each cycle has emptied it before the next message is complete.
QueuesInv == \A c \in C : Queues(dev[c]) /\ (slice \in {3, 6} => dev[c].ucq = 0)

\* The device has taken the fragment the host offers.
Taken(d, h) == d.am = h.am \/ d.conf

\* Flags and numbers of a device and the host.
Flags(d, h) ==
  /\ d.conf => d.lastAm = h.am /\ d.am # h.am
  /\ h.conf => d.am = h.am
  /\ IF Taken(d, h) THEN d.taken = h.frag.no ELSE h.frag.no = Succ(d.taken)
  /\ IF d.asm = h.ack THEN h.seen = d.sent
     ELSE d.sent = Succ(h.seen) /\ d.send.no = d.sent /\ d.send.kind \in {"resp", "css"}

\* A telegram of the host has its fragment, or one the device has taken before.
Fits(d, h, t) ==
  /\ IF t.am = h.am THEN t.frag = h.frag ELSE d.am = t.am
  /\ d.conf => t.am = h.am

\* Flags never come to the device after newer ones.
Acks(d, h, t, arrived, b) ==
  /\ d.lastAck = d.asm => t.ack = d.asm
  /\ t.ack = d.asm => h.ack = d.asm
  /\ arrived =>
       /\ b.am = h.am /\ b.frag = h.frag
       /\ t.ack = d.asm => b.ack = d.asm
       /\ b.ack = d.asm => h.ack = d.asm

\* A whole telegram is in the buffer, or will be in the next slice.
Arrived(c) == dma[c] \in {"late", "full"}

\* The link between the host and controller 1, of which the host gets telegrams.
LinkInv ==
  /\ Flags(dev[C1], host)
  /\ Fits(dev[C1], host, amTgm[C1])
  /\ Acks(dev[C1], host, amTgm[C1], Arrived(C1), buffer[C1])
  /\ slice \in {3, 6} => ~dev[C1].conf

\* The response, or its last fragment, that the host has not taken yet.
InFlight(d, h) == d.asm # h.ack /\ d.send.kind = "resp"
LastInFlight(d, h) == InFlight(d, h) /\ d.send.part = Parts[d.send.what].response
\* What the device does with a request; the fragments it waits for.
Idle(d) == d.rx = "WF_AM_REQ_RESP_PROC"
Responds(d) == d.rx = "WF_ASM_RESP_BUILD"
Missing(d) == IF d.rx = "SKIP_FRAGMENTS" THEN d.skip ELSE d.left

\* What the host offers continues what the device has taken.
InSequence(d, h) ==
  LET f == h.frag
  IN  /\ f.kind = "req" => f.what \in Requests /\ f.part \in 1 .. Parts[f.what].request
      /\ ~Taken(d, h) => f.kind # "none"
      /\ ~Idle(d) => d.req \in Requests
      /\ (Idle(d) \/ Responds(d)) /\ f.kind = "req" =>
           f.part = IF Taken(d, h) THEN Parts[f.what].request ELSE 1
      /\ ~Idle(d) /\ ~Responds(d) =>
           /\ f.kind = "req" /\ f.what = d.req
           /\ Missing(d) = Parts[d.req].request - f.part + (IF Taken(d, h) THEN 0 ELSE 1)
           /\ Missing(d) > 0
           /\ ~Taken(d, h) => f.part > 1

\* A request that is offered, and not yet taken.
Offered(d, h) == ~Taken(d, h) /\ h.frag.kind = "req" /\ h.frag.part = 1
One(p) == IF p THEN 1 ELSE 0

\* The requests that are open for the host: that of the response under way, the
\* one the device works at, the one that is offered.
OpenIs(d, h) ==
  /\ Len(h.open) = One(LastInFlight(d, h)) + One(~Idle(d)) + One(Offered(d, h))
  /\ LastInFlight(d, h) => h.open[1] = d.send.what
  /\ ~Idle(d) => h.open[1 + One(LastInFlight(d, h))] = d.req
  /\ Offered(d, h) => h.open[Len(h.open)] = h.frag.what

\* The fragments of a response that are built, sent and received.
PartsAgree(d, h) ==
  /\ d.respPart \in IF Responds(d) THEN 0 .. Parts[d.req].response - 1 ELSE {0}
  /\ IF InFlight(d, h)
     THEN /\ d.send.what \in Requests /\ d.send.part = h.parts + 1
          /\ d.send.part \in 1 .. Parts[d.send.what].response
          /\ IF LastInFlight(d, h) THEN d.respPart = 0
             ELSE Responds(d) /\ d.send.what = d.req /\ d.respPart = d.send.part
     ELSE h.parts = d.respPart

\* What the device and the host know of their requests and responses.
Conversation(d, h) == InSequence(d, h) /\ OpenIs(d, h) /\ PartsAgree(d, h)

\* Both have received the same telegrams, or c one more, which the other one
\* finds in its buffer.
Even ==
  /\ numTgm[C1] = numTgm[C2] /\ amTgm[C1] = amTgm[C2]
  /\ dma[C1] = dma[C2] \/ (Arrived(C1) /\ Arrived(C2))
  /\ Arrived(C1) => buffer[C1] = buffer[C2]
OneAhead(c) ==
  LET p == Peer(c)
  IN  /\ dma[c] = "empty" /\ dma[p] = "full"
      /\ numTgm[c] = (numTgm[p] + 1) % TgmWrap
      /\ amTgm[c] = buffer[p]

\* The controllers are in step unless one telegram was damaged for one only.
PairInv ==
  /\ split \in Nat
  /\ split = 0 =>
       /\ dev[C1] = dev[C2]
       /\ \A c \in C : Running(c)
       /\ Even \/ \E c \in C : OneAhead(c)
       /\ slice = 23 => Even
       /\ slice = 6 => syncTx = numTgm

\* The inductive invariant of the host and controller 1, and that of all.
Single == HtTypeOK /\ QueuesInv /\ LinkInv /\ Conversation(dev[C1], host)
IInv == Single /\ PairInv

-----------------------------------------------------------------------------

\* What the table of requests says of each.
LEMMA PartsAre ==
  \A r \in Requests :
    /\ Parts[r].request \in 1 .. 3 /\ Parts[r].response \in 1 .. 2
    /\ r \in DOMAIN Parts /\ r \notin {"none", "css", "more", "last"}
    /\ Parts[r].request = 1 => r # "unsupported" 
    /\ r \in {"status", "classId", "csal", "config", "unsupported"}
<1> SUFFICES ASSUME NEW r \in Requests
             PROVE  /\ Parts[r].request \in 1 .. 3 /\ Parts[r].response \in 1 .. 2
                    /\ r \in DOMAIN Parts /\ r \notin {"none", "css", "more", "last"}
                    /\ Parts[r].request = 1 => r # "unsupported" 
                    /\ r \in {"status", "classId", "csal", "config", "unsupported"}
  OBVIOUS
<1>1. r \in {"status", "classId", "csal", "config", "unsupported"}
  BY RequestsAssumption DEF Parts
<1> QED
  BY <1>1 DEF Parts

\* Facts about the constants.
LEMMA Bounds ==
  /\ TgmWrap \in Nat /\ TgmWrap > 2 /\ Numbers \in Nat /\ Numbers > 1
  /\ RcqSize \in Nat /\ UcqSize \in Nat
  /\ C1 \in C /\ C2 \in C /\ C = {C1, C2}
  /\ Peer(C1) = C2 /\ Peer(C2) = C1
BY BoundsAssumption, TwoControllers DEF C, Peer

\* A new fragment has another number.
LEMMA SuccIs ==
  \A i \in Numbering : Succ(i) \in Numbering /\ Succ(i) # i
<1> SUFFICES ASSUME NEW i \in Numbering
             PROVE Succ(i) \in Numbering /\ Succ(i) # i
  OBVIOUS
<1>1. CASE i = Numbers - 1
  BY <1>1, Bounds DEF Succ, Numbering
<1>2. CASE i < Numbers - 1
  BY <1>2, Bounds DEF Succ, Numbering
<1> QED
  BY <1>1, <1>2, Bounds DEF Numbering

\* The initial state satisfies the invariant.
LEMMA InitiallyIInv == Init => IInv
<1> SUFFICES ASSUME Init
             PROVE  IInv
  OBVIOUS
<1>1. NoFragment \in Fragments /\ NoFragment \in HostFragments /\ 0 \in Numbering
  BY Bounds DEF NoFragment, Fragment, Fragments, HostFragments, Numbering, Whats
<1>2. FirstMessages \in Messages
  BY <1>1 DEF FirstMessages, Messages, RxStates, TxStates, Whats
<1>3. FirstHost \in Hosts
  BY <1>1 DEF FirstHost, Hosts
<1>4. FirstTgm \in Telegrams
  BY <1>1 DEF FirstTgm, Telegrams, HostFragments, Numbering
<1>5. HtTypeOK
  BY <1>2, <1>3, <1>4, Bounds DEF Init, HtTypeOK
<1>6. QueuesInv
  <2>1. FirstMessages.rcq = << >> /\ FirstMessages.ucq = 0
    BY DEF FirstMessages
  <2>2. Queues(FirstMessages)
    <3>1. << >> \in Seq(Nat) /\ Len(<< >>) = 0
      OBVIOUS
    <3> QED
      BY <2>1, <3>1, Bounds DEF Queues
  <2> QED
    BY <2>1, <2>2 DEF Init, QueuesInv
<1>7. LinkInv
  BY Bounds DEF Init, LinkInv, FirstMessages, FirstHost, FirstTgm, NoFragment, Fragment, Arrived,
     Flags, Fits, Acks, Taken
<1>8. InSequence(FirstMessages, FirstHost)
  BY Bounds DEF InSequence, FirstMessages, FirstHost, Taken, NoFragment, Fragment, Idle, Responds
<1>9. ~LastInFlight(FirstMessages, FirstHost) /\ ~Offered(FirstMessages, FirstHost)
      /\ Idle(FirstMessages)
      /\ ~InFlight(FirstMessages, FirstHost)
  BY DEF LastInFlight, InFlight, Offered, Idle, FirstMessages, FirstHost, Taken, NoFragment,
     Fragment
<1>10. OpenIs(FirstMessages, FirstHost)
  <2>1. FirstHost.open = << >>
    BY DEF FirstHost
  <2> QED
    BY <1>9, <2>1 DEF OpenIs, One
<1>11. PartsAgree(FirstMessages, FirstHost)
  BY <1>9 DEF PartsAgree, FirstMessages, FirstHost, Responds
<1>12. PairInv
  BY Bounds DEF Init, PairInv, Running, Even
<1> QED
  BY <1>5, <1>6, <1>7, <1>8, <1>10, <1>11, <1>12, Bounds DEF IInv, Single, Conversation, Init

-----------------------------------------------------------------------------
(* Slice 6: a fragment of the host *)

\* What processing a fragment leaves alone, and what taking it does.
Kept(d, e) ==
  /\ e.am = d.am /\ e.asm = d.asm /\ e.lastAm = d.lastAm /\ e.lastAck = d.lastAck
  /\ e.rcq = d.rcq /\ e.sent = d.sent /\ e.send = d.send /\ e.respPart = d.respPart
Took(d, e, f) ==
  e \in Messages /\ e.conf /\ e.taken = f.no /\ Kept(d, e) /\ e.ucq \in {d.ucq, d.ucq + 1}

\* The first fragment of a request.
LEMMA FirstOfRequestIs ==
  \A d \in Messages, f \in HostFragments : \A e :
    f.what \in Requests /\ e = FirstOfRequest(d, f) =>
      /\ Took(d, e, f) /\ e.req = f.what /\ ~Idle(e)
      /\ Responds(e) <=> Parts[f.what].request = 1
      /\ ~Responds(e) => Missing(e) = Parts[f.what].request - 1
<1> SUFFICES ASSUME NEW d \in Messages, NEW f \in HostFragments, f.what \in Requests,
                    NEW e, e = FirstOfRequest(d, f)
             PROVE  /\ Took(d, e, f) /\ e.req = f.what /\ ~Idle(e)
                    /\ Responds(e) <=> Parts[f.what].request = 1
                    /\ ~Responds(e) => Missing(e) = Parts[f.what].request - 1
  OBVIOUS
<1> DEFINE rest == Parts[f.what].request - 1
<1>1. rest \in 0 .. 2 /\ (rest = 0 => f.what # "unsupported") /\ f.what \in Whats
  BY PartsAre DEF Whats
<1>2. PICK b : b = [Take(d, f) EXCEPT !.req = f.what]
  OBVIOUS
<1>3. b \in Messages /\ b.conf /\ b.taken = f.no /\ b.req = f.what /\ Kept(d, b) /\ b.ucq = d.ucq
  <2>1. f.no \in Numbering /\ TRUE \in BOOLEAN
    BY DEF HostFragments
  <2>2. b = [d EXCEPT !.conf = TRUE, !.taken = f.no, !.req = f.what]
    BY <1>2 DEF Take, Messages
  <2> QED
    BY <1>1, <2>1, <2>2 DEF Messages, Kept
<1>4. e = CASE f.what = "unsupported" ->
             [b EXCEPT !.skip = rest,
                       !.rx = IF rest > 0 THEN "SKIP_FRAGMENTS" ELSE "WF_ASM_RESP_BUILD"]
        [] f.what # "unsupported" /\ rest = 0 -> [b EXCEPT !.rx = "WF_ASM_RESP_BUILD"]
        [] OTHER -> [b EXCEPT !.left = rest, !.rx = FragProc(f.what)]
  BY <1>2 DEF FirstOfRequest, ToSkip
<1> HIDE DEF rest
<1>5. CASE f.what = "unsupported"
  <2>1. e = [b EXCEPT !.skip = rest,
                      !.rx = IF rest > 0 THEN "SKIP_FRAGMENTS" ELSE "WF_ASM_RESP_BUILD"]
    BY <1>4, <1>5
  <2>2. rest > 0 /\ rest \in Int
    BY <1>1, <1>5
  <2>3. e = [b EXCEPT !.skip = rest, !.rx = "SKIP_FRAGMENTS"]
    BY <2>1, <2>2
  <2>4. e \in Messages
    BY <1>3, <2>2, <2>3 DEF Messages, RxStates
  <2>5. /\ e.rx = "SKIP_FRAGMENTS" /\ e.skip = rest /\ e.conf = b.conf /\ e.taken = b.taken
        /\ e.req = b.req /\ Kept(b, e) /\ e.ucq = b.ucq
    BY <1>3, <2>3 DEF Messages, Kept
  <2> QED
    BY <1>3, <2>2, <2>4, <2>5 DEF Idle, Responds, Missing, rest, Took, Kept
<1>6. CASE f.what # "unsupported" /\ rest = 0
  <2>1. e = [b EXCEPT !.rx = "WF_ASM_RESP_BUILD"]
    BY <1>4, <1>6
  <2>2. e \in Messages
    BY <1>3, <2>1 DEF Messages, RxStates
  <2>3. /\ e.rx = "WF_ASM_RESP_BUILD" /\ e.conf = b.conf /\ e.taken = b.taken
        /\ e.req = b.req /\ Kept(b, e) /\ e.ucq = b.ucq
    BY <1>3, <2>1 DEF Messages, Kept
  <2> QED
    BY <1>1, <1>3, <1>6, <2>2, <2>3 DEF Idle, Responds, rest, Took, Kept
<1>7. CASE f.what # "unsupported" /\ rest # 0
  <2>1. PICK s : s = FragProc(f.what)
    OBVIOUS
  <2>2. e = [b EXCEPT !.left = rest, !.rx = s] /\ rest \in Int
    BY <1>1, <1>4, <1>7, <2>1
  <2>3. s \in RxStates \ {"WF_AM_REQ_RESP_PROC", "SKIP_FRAGMENTS", "WF_ASM_RESP_BUILD"}
    BY <2>1 DEF FragProc, RxStates
  <2>4. e \in Messages
    BY <1>3, <2>2, <2>3 DEF Messages
  <2>5. /\ e.rx = s /\ e.left = rest /\ e.conf = b.conf /\ e.taken = b.taken
        /\ e.req = b.req /\ Kept(b, e) /\ e.ucq = b.ucq
    BY <1>3, <2>2 DEF Messages, Kept
  <2> QED
    BY <1>1, <1>3, <1>7, <2>3, <2>4, <2>5 DEF Idle, Responds, Missing, rest, Took, Kept
<1> QED
  BY <1>5, <1>6, <1>7

\* The next fragment of a request, be it processed or skipped.
LEMMA NextOfRequestIs ==
  \A d \in Messages, f \in HostFragments : \A e :
    /\ ~Idle(d) /\ ~Responds(d)
    /\ e = IF d.rx = "SKIP_FRAGMENTS" THEN SkipFragment(d, f) ELSE NextOfRequest(d, f)
    => /\ Took(d, e, f) /\ e.req = d.req /\ ~Idle(e)
       /\ Responds(e) <=> Missing(d) = 1
       /\ ~Responds(e) => Missing(e) = Missing(d) - 1
<1> SUFFICES ASSUME NEW d \in Messages, NEW f \in HostFragments, NEW e,
                    ~Idle(d), ~Responds(d),
                    e = IF d.rx = "SKIP_FRAGMENTS" THEN SkipFragment(d, f) ELSE NextOfRequest(d, f)
             PROVE  /\ Took(d, e, f) /\ e.req = d.req /\ ~Idle(e)
                    /\ Responds(e) <=> Missing(d) = 1
                    /\ ~Responds(e) => Missing(e) = Missing(d) - 1
  OBVIOUS
<1>1. PICK b : b = Take(d, f)
  OBVIOUS
<1>2. /\ b \in Messages /\ b.conf /\ b.taken = f.no /\ b.req = d.req /\ Kept(d, b)
      /\ b.ucq = d.ucq /\ b.rx = d.rx /\ b.left = d.left /\ b.skip = d.skip
  <2>1. f.no \in Numbering /\ TRUE \in BOOLEAN
    BY DEF HostFragments
  <2>2. b = [d EXCEPT !.conf = TRUE, !.taken = f.no]
    BY <1>1 DEF Take
  <2> QED
    BY <2>1, <2>2 DEF Messages, Kept
<1>3. CASE d.rx = "SKIP_FRAGMENTS"
  <2>1. PICK s : s = IF d.skip = 1 THEN "WF_ASM_RESP_BUILD" ELSE b.rx
    OBVIOUS
  <2>2. e = [b EXCEPT !.skip = b.skip - 1, !.rx = s]
    BY <1>1, <1>3, <2>1 DEF SkipFragment
  <2>3. b.skip - 1 \in Int /\ s \in RxStates
    BY <1>2, <2>1 DEF Messages, RxStates
  <2>4. e \in Messages
    BY <1>2, <2>2, <2>3 DEF Messages
  <2>5. /\ e.rx = s /\ e.skip = b.skip - 1 /\ e.conf = b.conf /\ e.taken = b.taken
        /\ e.req = b.req /\ Kept(b, e) /\ e.ucq = b.ucq
    BY <1>2, <2>2 DEF Messages, Kept
  <2> QED
    BY <1>2, <1>3, <2>1, <2>4, <2>5 DEF Idle, Responds, Missing, Took, Kept
<1>4. CASE d.rx # "SKIP_FRAGMENTS"
  <2>1. PICK s, u : /\ s = IF d.left = 1 THEN "WF_ASM_RESP_BUILD" ELSE b.rx
                    /\ u = IF d.left = 1 /\ d.req = "csal" THEN b.ucq + 1 ELSE b.ucq
    OBVIOUS
  <2>2. e = [b EXCEPT !.left = b.left - 1, !.rx = s, !.ucq = u]
    BY <1>1, <1>4, <2>1 DEF NextOfRequest
  <2>3. b.left - 1 \in Int /\ s \in RxStates /\ u \in Nat
    BY <1>2, <2>1 DEF Messages, RxStates
  <2>4. e \in Messages
    BY <1>2, <2>2, <2>3 DEF Messages
  <2>5. /\ e.rx = s /\ e.left = b.left - 1 /\ e.conf = b.conf /\ e.taken = b.taken
        /\ e.req = b.req /\ Kept(b, e) /\ e.ucq = u
    BY <1>2, <2>2 DEF Messages, Kept
  <2> QED
    BY <1>2, <1>4, <2>1, <2>4, <2>5 DEF Idle, Responds, Missing, Took, Kept
<1> QED
  BY <1>3, <1>4

\* An answer of the host.
LEMMA ResponseOfHostIs ==
  \A d \in Messages, f \in HostFragments : \A e :
    e = ResponseOfHost(d, f) =>
      Took(d, e, f) /\ e.req = d.req /\ e.rx = d.rx /\ e.ucq = d.ucq
<1> SUFFICES ASSUME NEW d \in Messages, NEW f \in HostFragments, NEW e, e = ResponseOfHost(d, f)
             PROVE  Took(d, e, f) /\ e.req = d.req /\ e.rx = d.rx /\ e.ucq = d.ucq
  OBVIOUS
<1>1. PICK x : x = IF d.tx = "WF_AM_RES_PROC" THEN "WF_ASM_REQ_RESP_BUILD" ELSE d.tx
  OBVIOUS
<1>2. f.no \in Numbering /\ TRUE \in BOOLEAN /\ x \in TxStates
  BY <1>1 DEF HostFragments, Messages, TxStates
<1>3. e = [d EXCEPT !.conf = TRUE, !.taken = f.no, !.tx = x]
  BY <1>1 DEF ResponseOfHost, Take, Messages
<1> QED
  BY <1>2, <1>3 DEF Messages, Took, Kept

\* Fields of a device that the conversation is about.
SameTalk(d, e) ==
  /\ e.am = d.am /\ (e.conf <=> d.conf) /\ e.rx = d.rx /\ e.req = d.req /\ e.left = d.left
  /\ e.skip = d.skip /\ e.asm = d.asm /\ e.send = d.send /\ e.respPart = d.respPart

\* A step that leaves these fields alone continues the conversation.
LEMMA SameTalkSameConversation ==
  \A d, e, h : SameTalk(d, e) /\ Conversation(d, h) => Conversation(e, h)
<1> SUFFICES ASSUME NEW d, NEW e, NEW h, SameTalk(d, e), Conversation(d, h)
             PROVE  Conversation(e, h)
  OBVIOUS
<1>1. /\ Taken(e, h) <=> Taken(d, h)
      /\ InFlight(e, h) <=> InFlight(d, h)
      /\ LastInFlight(e, h) <=> LastInFlight(d, h)
      /\ Idle(e) <=> Idle(d)
      /\ Responds(e) <=> Responds(d)
      /\ Missing(e) = Missing(d)
  BY DEF SameTalk, Taken, InFlight, LastInFlight, Idle, Responds, Missing
<1>2. Offered(e, h) <=> Offered(d, h)
  BY <1>1 DEF Offered
<1>3. e.req = d.req /\ e.send = d.send /\ e.respPart = d.respPart
  BY DEF SameTalk
<1>4. InSequence(e, h)
  BY <1>1, <1>3 DEF Conversation, InSequence
<1>5. OpenIs(e, h)
  BY <1>1, <1>2, <1>3 DEF Conversation, OpenIs, One
<1>6. PartsAgree(e, h)
  BY <1>1, <1>3 DEF Conversation, PartsAgree
<1> QED
  BY <1>4, <1>5, <1>6 DEF Conversation

\* The device takes what the host offers.
LEMMA TakenContinues ==
  \A d \in Messages, h \in Hosts : \A e :
    /\ Conversation(d, h) /\ ~Taken(d, h)
    /\ \/ Idle(d) /\ h.frag.kind = "answer" /\ e = ResponseOfHost(d, h.frag)
       \/ Idle(d) /\ h.frag.kind # "answer" /\ e = FirstOfRequest(d, h.frag)
       \/ /\ ~Idle(d) /\ ~Responds(d)
          /\ e = IF d.rx = "SKIP_FRAGMENTS" THEN SkipFragment(d, h.frag)
                                            ELSE NextOfRequest(d, h.frag)
    => Took(d, e, h.frag) /\ Conversation(e, h)
<1> SUFFICES ASSUME NEW d \in Messages, NEW h \in Hosts, NEW e,
                    Conversation(d, h), ~Taken(d, h),
                    \/ Idle(d) /\ h.frag.kind = "answer" /\ e = ResponseOfHost(d, h.frag)
                    \/ Idle(d) /\ h.frag.kind # "answer" /\ e = FirstOfRequest(d, h.frag)
                    \/ /\ ~Idle(d) /\ ~Responds(d)
                       /\ e = IF d.rx = "SKIP_FRAGMENTS" THEN SkipFragment(d, h.frag)
                                                         ELSE NextOfRequest(d, h.frag)
             PROVE  Took(d, e, h.frag) /\ Conversation(e, h)
  OBVIOUS
<1>1. h.frag \in HostFragments /\ h.open \in Seq(Requests)
  BY DEF Hosts
<1>2. PICK f : f = h.frag
  OBVIOUS
<1>3. f \in HostFragments /\ f.kind \in {"none", "req", "answer"}
  BY <1>1, <1>2 DEF HostFragments
<1>4. InSequence(d, h) /\ OpenIs(d, h) /\ PartsAgree(d, h)
  BY DEF Conversation
<1>5. ASSUME Took(d, e, f)
      PROVE  /\ Taken(e, h) /\ ~Offered(e, h)
             /\ InFlight(e, h) <=> InFlight(d, h)
             /\ LastInFlight(e, h) <=> LastInFlight(d, h)
             /\ e.send = d.send /\ e.respPart = d.respPart
  BY <1>5 DEF Took, Kept, Taken, Offered, InFlight, LastInFlight
<1>6. CASE Idle(d) /\ f.kind = "answer" /\ e = ResponseOfHost(d, f)
  <2>1. Took(d, e, f) /\ e.req = d.req /\ e.rx = d.rx
    BY <1>3, <1>6, ResponseOfHostIs
  <2>2. Idle(e) /\ ~Responds(e) /\ ~Responds(d)
    BY <1>6, <2>1 DEF Idle, Responds
  <2>3. ~Offered(d, h)
    BY <1>2, <1>6 DEF Offered
  <2>4. InSequence(e, h)
    BY <1>2, <1>4, <1>5, <1>6, <2>1, <2>2 DEF InSequence
  <2>5. OpenIs(e, h)
    BY <1>4, <1>5, <1>6, <2>1, <2>2, <2>3 DEF OpenIs, One
  <2>6. PartsAgree(e, h)
    BY <1>4, <1>5, <2>1, <2>2 DEF PartsAgree
  <2> QED
    BY <1>2, <2>1, <2>4, <2>5, <2>6 DEF Conversation
<1>7. CASE Idle(d) /\ f.kind # "answer" /\ e = FirstOfRequest(d, f)
  <2>1. f.kind = "req" /\ f.what \in Requests /\ f.part = 1
    BY <1>2, <1>3, <1>4, <1>7 DEF InSequence
  <2>2. /\ Took(d, e, f) /\ e.req = f.what /\ ~Idle(e)
        /\ Responds(e) <=> Parts[f.what].request = 1
        /\ ~Responds(e) => Missing(e) = Parts[f.what].request - 1
    BY <1>3, <1>7, <2>1, FirstOfRequestIs
  <2>3. Offered(d, h) /\ ~Responds(d)
    BY <1>2, <1>7, <2>1 DEF Offered, Idle, Responds
  <2>4. Parts[f.what].request \in 1 .. 3 /\ Parts[f.what].response \in 1 .. 2
    BY <2>1, PartsAre
  <2>5. InSequence(e, h)
    BY <1>2, <1>4, <1>5, <2>1, <2>2, <2>4 DEF InSequence
  <2>6. OpenIs(e, h)
    <3>1. /\ Len(h.open) = One(LastInFlight(d, h)) + 1
          /\ LastInFlight(d, h) => h.open[1] = d.send.what
          /\ h.open[Len(h.open)] = f.what
      BY <1>2, <1>4, <1>7, <2>3 DEF OpenIs, One
    <3>2. One(LastInFlight(d, h)) \in 0 .. 1
      BY DEF One
    <3>3. h.open[1 + One(LastInFlight(d, h))] = f.what
      BY <3>1, <3>2
    <3> QED
      BY <1>5, <2>2, <3>1, <3>3 DEF OpenIs, One
  <2>7. PartsAgree(e, h)
    <3>1. d.respPart = 0 /\ (InFlight(d, h) => LastInFlight(d, h))
      BY <1>4, <2>3 DEF PartsAgree
    <3> QED
      BY <1>4, <1>5, <2>2, <2>4, <3>1 DEF PartsAgree
  <2> QED
    BY <1>2, <2>2, <2>5, <2>6, <2>7 DEF Conversation
<1>8. CASE /\ ~Idle(d) /\ ~Responds(d)
           /\ e = IF d.rx = "SKIP_FRAGMENTS" THEN SkipFragment(d, f) ELSE NextOfRequest(d, f)
  <2>1. /\ Took(d, e, f) /\ e.req = d.req /\ ~Idle(e)
        /\ Responds(e) <=> Missing(d) = 1
        /\ ~Responds(e) => Missing(e) = Missing(d) - 1
    BY <1>3, <1>8, NextOfRequestIs
  <2>2. /\ f.kind = "req" /\ f.what = d.req /\ d.req \in Requests /\ f.part > 1
        /\ Missing(d) = Parts[d.req].request - f.part + 1 /\ Missing(d) > 0
        /\ f.part \in 1 .. Parts[d.req].request
    BY <1>2, <1>4, <1>8 DEF InSequence
  <2>3. Parts[d.req].request \in 1 .. 3 /\ Parts[d.req].response \in 1 .. 2
    BY <2>2, PartsAre
  <2>4. ~Offered(d, h)
    BY <1>2, <2>2, <2>3 DEF Offered
  <2>5. InSequence(e, h)
    BY <1>2, <1>5, <2>1, <2>2, <2>3 DEF InSequence
  <2>6. OpenIs(e, h)
    BY <1>4, <1>5, <1>8, <2>1, <2>4 DEF OpenIs, One
  <2>7. PartsAgree(e, h)
    <3>1. d.respPart = 0 /\ (InFlight(d, h) => LastInFlight(d, h))
      BY <1>4, <1>8 DEF PartsAgree
    <3> QED
      BY <1>4, <1>5, <2>1, <2>3, <3>1 DEF PartsAgree
  <2> QED
    BY <1>2, <2>1, <2>5, <2>6, <2>7 DEF Conversation
<1> QED
  BY <1>2, <1>6, <1>7, <1>8

\* A telegram in slice 6: the flags say whether its fragment is new.
Processed(d, e, h, t) ==
  /\ e \in Messages /\ Flags(e, h) /\ Conversation(e, h)
  /\ e.lastAck = t.ack /\ e.lastAm = t.am /\ e.asm = d.asm /\ e.am = d.am
  /\ e.sent = d.sent /\ (e.taken # d.taken => e.taken = h.frag.no)

\* Processing a telegram keeps what flags and fragments say.
LEMMA ProcessKeeps ==
  \A d \in Messages, h \in Hosts, t \in Telegrams : \A e :
    /\ Flags(d, h) /\ Fits(d, h, t) /\ Conversation(d, h) /\ ~d.conf
    /\ e = aicMsgProc_ProcessMsg(d, t)
    => Processed(d, e, h, t)
<1> SUFFICES ASSUME NEW d \in Messages, NEW h \in Hosts, NEW t \in Telegrams, NEW e,
                    Flags(d, h), Fits(d, h, t), Conversation(d, h), ~d.conf,
                    e = aicMsgProc_ProcessMsg(d, t)
             PROVE  Processed(d, e, h, t)
  OBVIOUS
<1>1. PICK g : g = [d EXCEPT !.lastAm = t.am, !.lastAck = t.ack]
  OBVIOUS
<1>2. /\ g \in Messages /\ SameTalk(d, g) /\ g.lastAm = t.am /\ g.lastAck = t.ack
      /\ g.taken = d.taken /\ g.sent = d.sent
  <2>1. t.am \in BOOLEAN /\ t.ack \in BOOLEAN
    BY DEF Telegrams
  <2> QED
    BY <1>1, <2>1 DEF Messages, SameTalk
<1>3. Conversation(g, h) /\ ~g.conf /\ g.am = d.am /\ g.asm = d.asm /\ g.send = d.send
  BY <1>2, SameTalkSameConversation DEF SameTalk
<1>4. Flags(g, h)
  BY <1>2, <1>3 DEF Flags, Taken
<1>5. e = IF g.lastAm # g.am THEN ProcessMsg(g, t.frag) ELSE g
  BY <1>1 DEF aicMsgProc_ProcessMsg, IsNewFragRcvd
<1>6. CASE e = g
  BY <1>2, <1>3, <1>4, <1>6 DEF Processed
<1>7. CASE g.lastAm # g.am /\ ~Responds(g)
  <2>1. t.am # d.am
    BY <1>2, <1>3, <1>7
  <2>2. t.am = h.am /\ t.frag = h.frag
    BY <2>1 DEF Fits
  <2>3. ~Taken(g, h)
    BY <1>3, <2>1, <2>2 DEF Taken
  <2>4. e = ProcessMsg(g, h.frag)
    BY <1>5, <1>7, <2>2
  <2>5. \/ Idle(g) /\ h.frag.kind = "answer" /\ e = ResponseOfHost(g, h.frag)
        \/ Idle(g) /\ h.frag.kind # "answer" /\ e = FirstOfRequest(g, h.frag)
        \/ /\ ~Idle(g) /\ ~Responds(g)
           /\ e = IF g.rx = "SKIP_FRAGMENTS" THEN SkipFragment(g, h.frag)
                                             ELSE NextOfRequest(g, h.frag)
    BY <1>7, <2>4 DEF ProcessMsg, Idle, Responds
  <2>6. Took(g, e, h.frag) /\ Conversation(e, h)
    BY <1>2, <1>3, <2>3, <2>5, TakenContinues
  <2>7. /\ e \in Messages /\ e.conf /\ e.taken = h.frag.no /\ e.am = d.am /\ e.asm = d.asm
        /\ e.lastAm = h.am /\ e.lastAck = t.ack /\ e.sent = d.sent /\ e.send = d.send
    BY <1>2, <1>3, <2>2, <2>6 DEF Took, Kept
  <2>8. Flags(e, h)
    BY <1>3, <1>4, <2>1, <2>2, <2>7 DEF Flags, Taken
  <2> QED
    BY <2>2, <2>6, <2>7, <2>8 DEF Processed
<1>8. CASE g.lastAm # g.am /\ Responds(g)
  BY <1>5, <1>6, <1>8 DEF ProcessMsg, NotYet, Responds
<1> QED
  BY <1>5, <1>6, <1>7, <1>8

\* The queues are as they were, but for one message of the host.
LEMMA ProcessQueues ==
  \A d, t : Queues(d) /\ d.ucq = 0 => Queues(aicMsgProc_ProcessMsg(d, t))
<1> SUFFICES ASSUME NEW d, NEW t, Queues(d), d.ucq = 0
             PROVE  Queues(aicMsgProc_ProcessMsg(d, t))
  OBVIOUS
<1>1. PICK f : f = t.frag
  OBVIOUS
<1>2. PICK g : g = [d EXCEPT !.lastAm = t.am, !.lastAck = t.ack]
  OBVIOUS
<1>3. PICK b : b = [g EXCEPT !.conf = TRUE, !.taken = f.no]
  OBVIOUS
<1>4. /\ DOMAIN g = DOMAIN FirstMessages /\ DOMAIN b = DOMAIN FirstMessages
      /\ DOMAIN FirstMessages = {"rx", "tx", "left", "skip", "conf", "req", "respPart", "cssPart",
           "am", "asm", "lastAm", "lastAck", "send", "rcq", "ucq", "taken", "sent"}
      /\ g.rcq = d.rcq /\ g.ucq = 0 /\ b.rcq = d.rcq /\ b.ucq = 0
  BY <1>2, <1>3 DEF Queues, FirstMessages
<1>5. aicMsgProc_ProcessMsg(d, t) \in {g, ProcessMsg(g, f)}
  BY <1>1, <1>2 DEF aicMsgProc_ProcessMsg
<1>6. \A e : DOMAIN e = DOMAIN FirstMessages /\ e.rcq = d.rcq /\ e.ucq \in {0, 1} => Queues(e)
  BY DEF Queues
<1>7. Queues(g)
  BY <1>4, <1>6
<1>8. Queues(ResponseOfHost(g, f))
  BY <1>3, <1>4, <1>6 DEF ResponseOfHost, Take
<1>9. Queues(FirstOfRequest(g, f))
  <2>1. PICK a : a = [b EXCEPT !.req = f.what]
    OBVIOUS
  <2>2. DOMAIN a = DOMAIN FirstMessages /\ a.rcq = d.rcq /\ a.ucq = 0
    BY <1>4, <2>1
  <2>3. \A x, y, z : /\ Queues([a EXCEPT !.skip = x, !.rx = y])
                     /\ Queues([a EXCEPT !.rx = x])
                     /\ Queues([a EXCEPT !.left = x, !.rx = y])
    BY <1>4, <1>6, <2>2
  <2> QED
    BY <1>3, <2>1, <2>3 DEF FirstOfRequest, Take
<1>10. Queues(SkipFragment(g, f))
  BY <1>3, <1>4, <1>6 DEF SkipFragment, Take
<1>11. Queues(NextOfRequest(g, f))
  <2>1. PICK x, y, u : /\ x = b.left - 1
                       /\ y = IF g.left = 1 THEN "WF_ASM_RESP_BUILD" ELSE b.rx
                       /\ u = IF g.left = 1 /\ g.req = "csal" THEN b.ucq + 1 ELSE b.ucq
    OBVIOUS
  <2>2. NextOfRequest(g, f) = [b EXCEPT !.left = x, !.rx = y, !.ucq = u]
    BY <1>3, <1>4, <2>1 DEF NextOfRequest, Take
  <2>3. u \in {0, 1}
    BY <1>4, <2>1
  <2> QED
    BY <1>4, <1>6, <2>2, <2>3
<1>12. ProcessMsg(g, f) \in {ResponseOfHost(g, f), FirstOfRequest(g, f), g, SkipFragment(g, f),
                             NextOfRequest(g, f)}
  BY DEF ProcessMsg, NotYet
<1> QED
  BY <1>5, <1>7, <1>8, <1>9, <1>10, <1>11, <1>12

-----------------------------------------------------------------------------
(* Slice 38: the fragment of the device *)

\* What is built is the next fragment of the response or of a message of the
\* stack, or nothing.
Built(d, e) ==
  /\ e \in Messages
  /\ ~e.conf /\ e.am = (IF d.conf THEN d.lastAm ELSE d.am) /\ e.taken = d.taken
  /\ e.lastAck = d.lastAck /\ e.lastAm = d.lastAm
  /\ e.left = d.left /\ e.skip = d.skip /\ e.req = d.req /\ e.ucq = d.ucq

Nothing(d, e) ==
  e.asm = d.asm /\ e.sent = d.sent /\ e.send = d.send /\ e.rx = d.rx /\ e.respPart = d.respPart
  /\ e.rcq = d.rcq

Sent(d, e) ==
  /\ d.lastAck = d.asm /\ e.asm = ~d.asm /\ e.sent = Succ(d.sent) /\ e.send.no = e.sent

Responded(d, e) ==
  LET last == d.respPart + 1 = Parts[d.req].response
  IN  /\ Sent(d, e) /\ Responds(d)
      /\ e.send.kind = "resp" /\ e.send.what = d.req /\ e.send.part = d.respPart + 1
      /\ e.rx = IF last THEN "WF_AM_REQ_RESP_PROC" ELSE d.rx
      /\ e.respPart = IF last THEN 0 ELSE d.respPart + 1

Requested(d, e) ==
  /\ Sent(d, e) /\ e.send.kind = "css" /\ e.rx = d.rx /\ e.respPart = d.respPart

\* Without a fragment to send, only the flag of the taken one is passed on.
LEMMA BuildCtrlIs ==
  \A d \in Messages : \A e : e = BuildCtrlStsByte(d, FALSE) => Built(d, e) /\ Nothing(d, e)
<1> SUFFICES ASSUME NEW d \in Messages, NEW e, e = BuildCtrlStsByte(d, FALSE)
             PROVE  Built(d, e) /\ Nothing(d, e)
  OBVIOUS
<1>1. PICK a : a = IF d.conf THEN d.lastAm ELSE d.am
  OBVIOUS
<1>2. a \in BOOLEAN /\ FALSE \in BOOLEAN
  BY <1>1 DEF Messages
<1>3. e = [d EXCEPT !.am = a, !.asm = d.asm, !.conf = FALSE]
  BY <1>1 DEF BuildCtrlStsByte
<1> QED
  BY <1>1, <1>2, <1>3 DEF Messages, Built, Nothing

\* A fragment is sent when the host has the last one.
LEMMA SendIs ==
  \A d \in Messages, kind \in {"resp", "css"}, what \in Whats, part \in Int : \A e :
    d.lastAck = d.asm /\ e = SendFragment(d, kind, what, part) =>
      /\ Built(d, e) /\ Sent(d, e)
      /\ e.send.kind = kind /\ e.send.what = what /\ e.send.part = part
      /\ e.rx = d.rx /\ e.respPart = d.respPart /\ e.rcq = d.rcq
<1> SUFFICES ASSUME NEW d \in Messages, NEW kind \in {"resp", "css"}, NEW what \in Whats,
                    NEW part \in Int, NEW e,
                    d.lastAck = d.asm, e = SendFragment(d, kind, what, part)
             PROVE  /\ Built(d, e) /\ Sent(d, e)
                    /\ e.send.kind = kind /\ e.send.what = what /\ e.send.part = part
                    /\ e.rx = d.rx /\ e.respPart = d.respPart /\ e.rcq = d.rcq
  OBVIOUS
<1>1. PICK a, b, m : /\ a = (IF d.conf THEN d.lastAm ELSE d.am) /\ b = ~d.asm
                     /\ m = Fragment(kind, what, part, Succ(d.sent))
  OBVIOUS
<1>2. d.sent \in Numbering /\ Succ(d.sent) \in Numbering
  BY SuccIs DEF Messages
<1>3. /\ m \in Fragments /\ m.kind = kind /\ m.what = what /\ m.part = part
      /\ m.no = Succ(d.sent)
  BY <1>1, <1>2 DEF Fragment, Fragments
<1>4. a \in BOOLEAN /\ b \in BOOLEAN /\ FALSE \in BOOLEAN
  BY <1>1 DEF Messages
<1>5. e = [d EXCEPT !.send = m, !.sent = Succ(d.sent), !.am = a, !.asm = b, !.conf = FALSE]
  BY <1>1 DEF SendFragment, BuildCtrlStsByte, Messages
<1>6. e \in Messages
  BY <1>2, <1>3, <1>4, <1>5 DEF Messages
<1>7. /\ e.send = m /\ e.sent = Succ(d.sent) /\ e.am = a /\ e.asm = b /\ ~e.conf
      /\ e.taken = d.taken /\ e.lastAck = d.lastAck /\ e.lastAm = d.lastAm
      /\ e.left = d.left /\ e.skip = d.skip /\ e.req = d.req /\ e.ucq = d.ucq
      /\ e.rx = d.rx /\ e.respPart = d.respPart /\ e.rcq = d.rcq
  BY <1>5 DEF Messages
<1> QED
  BY <1>1, <1>3, <1>6, <1>7 DEF Built, Sent

\* The next fragment of the response.
LEMMA BuildRespIs ==
  \A d \in Messages : \A e :
    d.lastAck = d.asm /\ Responds(d) /\ e = BuildRespMsg(d) =>
      Built(d, e) /\ Responded(d, e) /\ e.rcq = d.rcq
<1> SUFFICES ASSUME NEW d \in Messages, NEW e, d.lastAck = d.asm, Responds(d),
                    e = BuildRespMsg(d)
             PROVE  Built(d, e) /\ Responded(d, e) /\ e.rcq = d.rcq
  OBVIOUS
<1>1. PICK x, p : LET last == d.respPart + 1 = Parts[d.req].response
                  IN  /\ x = IF last THEN "WF_AM_REQ_RESP_PROC" ELSE d.rx
                      /\ p = IF last THEN 0 ELSE d.respPart + 1
  OBVIOUS
<1>2. x \in RxStates /\ p \in Int /\ d.respPart + 1 \in Int /\ d.req \in Whats
  BY <1>1 DEF Messages, RxStates
<1>3. PICK g : g = [d EXCEPT !.rx = x, !.respPart = p]
  OBVIOUS
<1>4. /\ g \in Messages /\ g.rx = x /\ g.respPart = p /\ g.lastAck = d.lastAck
      /\ g.lastAm = d.lastAm /\ g.am = d.am /\ g.asm = d.asm /\ (g.conf <=> d.conf)
      /\ g.sent = d.sent /\ g.taken = d.taken /\ g.left = d.left /\ g.skip = d.skip
      /\ g.req = d.req /\ g.ucq = d.ucq /\ g.rcq = d.rcq
  BY <1>2, <1>3 DEF Messages
<1>5. e = SendFragment(g, "resp", d.req, d.respPart + 1)
  BY <1>1, <1>3 DEF BuildRespMsg
<1>6. /\ Built(g, e) /\ Sent(g, e)
      /\ e.send.kind = "resp" /\ e.send.what = d.req /\ e.send.part = d.respPart + 1
      /\ e.rx = x /\ e.respPart = p /\ e.rcq = d.rcq
  BY <1>2, <1>4, <1>5, SendIs
<1>7. Built(d, e) /\ Sent(d, e)
  BY <1>4, <1>6 DEF Built, Sent
<1> QED
  BY <1>1, <1>6, <1>7 DEF Responded

\* The next fragment of a message of the stack.
LEMMA BuildReqIs ==
  \A d \in Messages : \A e :
    d.lastAck = d.asm /\ d.rcq # << >> /\ e = BuildReqMsg(d) =>
      Built(d, e) /\ Requested(d, e)
<1> SUFFICES ASSUME NEW d \in Messages, NEW e, d.lastAck = d.asm, d.rcq # << >>,
                    e = BuildReqMsg(d)
             PROVE  Built(d, e) /\ Requested(d, e)
  OBVIOUS
<1>1. PICK x, q, p, w : LET last == d.cssPart + 1 = Head(d.rcq)
                        IN  /\ x = IF last THEN "WF_AM_RES_PROC" ELSE "WF_ASM_REQ_BUILD"
                            /\ q = IF last THEN Tail(d.rcq) ELSE d.rcq
                            /\ p = IF last THEN 0 ELSE d.cssPart + 1
                            /\ w = IF last THEN "last" ELSE "more"
  OBVIOUS
<1>2. x \in TxStates /\ p \in Int /\ d.cssPart + 1 \in Int /\ w \in Whats
  BY <1>1 DEF Messages, TxStates, Whats
<1>3. q \in Seq(Nat)
  BY <1>1 DEF Messages
<1>4. PICK g : g = [d EXCEPT !.tx = x, !.rcq = q, !.cssPart = p]
  OBVIOUS
<1>5. /\ g \in Messages /\ g.rx = d.rx /\ g.respPart = d.respPart /\ g.lastAck = d.lastAck
      /\ g.lastAm = d.lastAm /\ g.am = d.am /\ g.asm = d.asm /\ (g.conf <=> d.conf)
      /\ g.sent = d.sent /\ g.taken = d.taken /\ g.left = d.left /\ g.skip = d.skip
      /\ g.req = d.req /\ g.ucq = d.ucq
  BY <1>2, <1>3, <1>4 DEF Messages
<1>6. e = SendFragment(g, "css", w, d.cssPart + 1)
  BY <1>1, <1>4 DEF BuildReqMsg
<1>7. /\ Built(g, e) /\ Sent(g, e)
      /\ e.send.kind = "css" /\ e.rx = d.rx /\ e.respPart = d.respPart
  BY <1>2, <1>5, <1>6, SendIs
<1> QED
  BY <1>5, <1>7 DEF Built, Sent, Requested

\* A message is put into the queue of the stack, one of the host is taken out.
LEMMA BackgroundIs ==
  \A d \in Messages, put \in Nat : \A g :
    Queues(d) /\ g = Background(d, put) =>
      /\ g \in Messages /\ SameTalk(d, g)
      /\ g.lastAm = d.lastAm /\ g.lastAck = d.lastAck /\ g.taken = d.taken /\ g.sent = d.sent
<1> SUFFICES ASSUME NEW d \in Messages, NEW put \in Nat, NEW g, Queues(d), g = Background(d, put)
             PROVE  /\ g \in Messages /\ SameTalk(d, g)
                    /\ g.lastAm = d.lastAm /\ g.lastAck = d.lastAck /\ g.taken = d.taken
                    /\ g.sent = d.sent
  OBVIOUS
<1>1. PICK u, q : /\ u = IF d.ucq > 0 THEN d.ucq - 1 ELSE d.ucq
                  /\ q = IF put = 0 THEN d.rcq ELSE RcqPut(d.rcq, put)
  OBVIOUS
<1>2. u \in Nat /\ q \in Seq(Nat)
  BY <1>1 DEF Messages, RcqPut
<1>3. g = [d EXCEPT !.ucq = u, !.rcq = q]
  BY <1>1 DEF Background
<1> QED
  BY <1>2, <1>3 DEF Messages, SameTalk

\* The queues after the task, and with the fragment of the device.
LEMMA BuildQueues ==
  \A d : \A put \in Nat :
    Queues(d) => /\ Queues(aicMsgBld_BuildMsg(Background(d, put)))
                 /\ aicMsgBld_BuildMsg(Background(d, put)).ucq = 0
<1> SUFFICES ASSUME NEW d, NEW put \in Nat, Queues(d)
             PROVE  /\ Queues(aicMsgBld_BuildMsg(Background(d, put)))
                    /\ aicMsgBld_BuildMsg(Background(d, put)).ucq = 0
  OBVIOUS
<1> DEFINE OK(e) == /\ DOMAIN e = DOMAIN FirstMessages /\ e.rcq \in Seq(Nat)
                    /\ Len(e.rcq) <= RcqSize /\ e.ucq = 0
<1>1. PICK u, q : /\ u = IF d.ucq > 0 THEN d.ucq - 1 ELSE d.ucq
                  /\ q = IF put = 0 THEN d.rcq ELSE RcqPut(d.rcq, put)
  OBVIOUS
<1>2. u = 0 /\ q \in Seq(Nat) /\ Len(q) <= RcqSize
  BY <1>1, Bounds DEF Queues, RcqPut
<1>3. PICK g : g = Background(d, put)
  OBVIOUS
<1>4. g = [d EXCEPT !.ucq = u, !.rcq = q]
  BY <1>1, <1>3 DEF Background
<1>5. DOMAIN FirstMessages = {"rx", "tx", "left", "skip", "conf", "req", "respPart", "cssPart",
        "am", "asm", "lastAm", "lastAck", "send", "rcq", "ucq", "taken", "sent"}
  BY DEF FirstMessages
<1>6. OK(g) /\ g.rcq = q
  BY <1>2, <1>4, <1>5 DEF Queues
<1>7. ASSUME NEW e, OK(e)
      PROVE  /\ \A kind, what, part : OK(SendFragment(e, kind, what, part))
             /\ OK(BuildCtrlStsByte(e, FALSE))
  BY <1>5, <1>7 DEF SendFragment, BuildCtrlStsByte
<1>8. OK(BuildRespMsg(g))
  <2>1. \A x, p : OK([g EXCEPT !.rx = x, !.respPart = p])
    BY <1>5, <1>6
  <2> HIDE DEF OK
  <2> QED
    BY <1>7, <2>1 DEF BuildRespMsg
<1>9. ASSUME g.rcq # << >>
      PROVE  OK(BuildReqMsg(g))
  <2>1. Tail(q) \in Seq(Nat) /\ Len(Tail(q)) <= RcqSize
    BY <1>2, <1>6, <1>9, Bounds
  <2>2. \A x, p : \A r \in {q, Tail(q)} : OK([g EXCEPT !.tx = x, !.rcq = r, !.cssPart = p])
    BY <1>2, <1>5, <1>6, <2>1
  <2>3. PICK x, r, p, w : LET last == g.cssPart + 1 = Head(g.rcq)
                          IN  /\ x = IF last THEN "WF_AM_RES_PROC" ELSE "WF_ASM_REQ_BUILD"
                              /\ r = IF last THEN Tail(g.rcq) ELSE g.rcq
                              /\ p = IF last THEN 0 ELSE g.cssPart + 1
                              /\ w = IF last THEN "last" ELSE "more"
    OBVIOUS
  <2>4. r \in {q, Tail(q)}
    BY <1>6, <2>3
  <2>5. PICK a : a = [g EXCEPT !.tx = x, !.rcq = r, !.cssPart = p]
    OBVIOUS
  <2>6. BuildReqMsg(g) = SendFragment(a, "css", w, g.cssPart + 1)
    BY <2>3, <2>5 DEF BuildReqMsg
  <2> HIDE DEF OK
  <2>7. OK(a)
    BY <2>2, <2>4, <2>5
  <2> QED
    BY <1>7, <2>6, <2>7
<1>10. OK(aicMsgBld_BuildMsg(g))
  <2> HIDE DEF OK
  <2> QED
    BY <1>6, <1>7, <1>8, <1>9 DEF aicMsgBld_BuildMsg, MayRequest
<1> QED
  BY <1>3, <1>10 DEF Queues

\* Slice 38, for the device the host talks to: d before, e after it.
LEMMA BuildKeeps ==
  \A d \in Messages, h \in Hosts, put \in Nat : \A e :
    /\ Flags(d, h) /\ Conversation(d, h) /\ Queues(d)
    /\ d.lastAck = d.asm => h.ack = d.asm
    /\ e = aicMsgBld_BuildMsg(Background(d, put))
    => /\ e \in Messages /\ Flags(e, h) /\ Conversation(e, h)
       /\ ~e.conf /\ e.lastAck = d.lastAck /\ e.taken = d.taken
       /\ e.am = IF Taken(d, h) THEN h.am ELSE d.am
       /\ \/ e.asm = d.asm /\ e.sent = d.sent
          \/ d.lastAck = d.asm /\ e.asm = ~d.asm /\ e.sent = Succ(d.sent) /\ h.seen = d.sent
<1> SUFFICES ASSUME NEW d \in Messages, NEW h \in Hosts, NEW put \in Nat, NEW e,
                    Flags(d, h), Conversation(d, h), Queues(d),
                    d.lastAck = d.asm => h.ack = d.asm,
                    e = aicMsgBld_BuildMsg(Background(d, put))
             PROVE  /\ e \in Messages /\ Flags(e, h) /\ Conversation(e, h)
                    /\ ~e.conf /\ e.lastAck = d.lastAck /\ e.taken = d.taken
                    /\ e.am = IF Taken(d, h) THEN h.am ELSE d.am
                    /\ \/ e.asm = d.asm /\ e.sent = d.sent
                       \/ /\ d.lastAck = d.asm /\ e.asm = ~d.asm /\ e.sent = Succ(d.sent)
                          /\ h.seen = d.sent
  OBVIOUS
<1>1. PICK g : g = Background(d, put)
  OBVIOUS
<1>2. /\ g \in Messages /\ SameTalk(d, g)
      /\ g.lastAm = d.lastAm /\ g.lastAck = d.lastAck /\ g.taken = d.taken /\ g.sent = d.sent
  BY <1>1, BackgroundIs
<1>3. /\ Conversation(g, h) /\ Flags(g, h)
      /\ Taken(g, h) <=> Taken(d, h)
      /\ g.am = d.am /\ g.asm = d.asm /\ (g.conf <=> d.conf)
  BY <1>2, SameTalkSameConversation DEF SameTalk, Flags, Taken
<1>4. \/ Built(g, e) /\ Nothing(g, e)
      \/ Built(g, e) /\ Responded(g, e)
      \/ Built(g, e) /\ Requested(g, e)
  <2>1. e = aicMsgBld_BuildMsg(g)
    BY <1>1
  <2>2. CASE IsAsmFragConf(g) /\ MayRespond(g)
    <3>1. e = BuildRespMsg(g) /\ Responds(g) /\ g.lastAck = g.asm
      BY <2>1, <2>2 DEF aicMsgBld_BuildMsg, MayRespond, MayRequest, Responds, IsAsmFragConf
    <3> QED
      BY <1>2, <3>1, BuildRespIs
  <2>3. CASE IsAsmFragConf(g) /\ ~MayRespond(g) /\ MayRequest(g)
    <3>1. e = BuildReqMsg(g) /\ g.rcq # << >> /\ g.lastAck = g.asm
      BY <2>1, <2>3 DEF aicMsgBld_BuildMsg, MayRequest, IsAsmFragConf
    <3> QED
      BY <1>2, <3>1, BuildReqIs
  <2>4. CASE ~IsAsmFragConf(g) \/ (~MayRespond(g) /\ ~MayRequest(g))
    <3>1. e = BuildCtrlStsByte(g, FALSE)
      BY <2>1, <2>4 DEF aicMsgBld_BuildMsg
    <3> QED
      BY <1>2, <3>1, BuildCtrlIs
  <2> QED
    BY <2>2, <2>3, <2>4
<1>5. /\ e \in Messages /\ ~e.conf /\ e.am = (IF g.conf THEN g.lastAm ELSE g.am)
      /\ e.taken = g.taken /\ e.lastAck = g.lastAck /\ e.left = g.left /\ e.skip = g.skip
      /\ e.req = g.req
  BY <1>4 DEF Built
<1>6. e.am = IF Taken(g, h) THEN h.am ELSE g.am
  BY <1>3, <1>5 DEF Taken, Flags
<1>7. Taken(e, h) <=> Taken(g, h)
  BY <1>5, <1>6 DEF Taken
<1>8. CASE Nothing(g, e)
  <2>1. /\ e.asm = g.asm /\ e.sent = g.sent /\ e.send = g.send /\ e.rx = g.rx
        /\ e.respPart = g.respPart
    BY <1>8 DEF Nothing
  <2>2. Flags(e, h)
    BY <1>3, <1>5, <1>6, <1>7, <2>1 DEF Flags
  <2>3. /\ InFlight(e, h) <=> InFlight(g, h)
        /\ LastInFlight(e, h) <=> LastInFlight(g, h)
        /\ Idle(e) <=> Idle(g)
        /\ Responds(e) <=> Responds(g)
        /\ Missing(e) = Missing(g)
    BY <1>5, <2>1 DEF InFlight, LastInFlight, Idle, Responds, Missing
  <2>4. Offered(e, h) <=> Offered(g, h)
    BY <1>7 DEF Offered
  <2>5. InSequence(e, h)
    BY <1>3, <1>5, <1>7, <2>3 DEF Conversation, InSequence
  <2>6. OpenIs(e, h)
    BY <1>3, <1>5, <2>1, <2>3, <2>4 DEF Conversation, OpenIs, One
  <2>7. PartsAgree(e, h)
    BY <1>3, <1>5, <2>1, <2>3 DEF Conversation, PartsAgree
  <2> QED
    BY <1>2, <1>3, <1>5, <1>6, <2>1, <2>2, <2>5, <2>6, <2>7 DEF Conversation
<1>9. CASE Responded(g, e) \/ Requested(g, e)
  <2>1. /\ g.lastAck = g.asm /\ e.asm = ~g.asm /\ e.sent = Succ(g.sent) /\ e.send.no = e.sent
        /\ e.send.kind \in {"resp", "css"}
    BY <1>9 DEF Responded, Requested, Sent
  <2>2. h.ack = g.asm /\ e.asm # h.ack
    BY <1>2, <1>3, <2>1 DEF Messages
  <2>3. h.seen = g.sent
    BY <1>3, <2>2 DEF Flags
  <2>4. Flags(e, h)
    BY <1>3, <1>5, <1>6, <1>7, <2>1, <2>2, <2>3 DEF Flags
  <2>5. ~InFlight(g, h) /\ ~LastInFlight(g, h)
    BY <2>2 DEF InFlight, LastInFlight
  <2>6. Offered(e, h) <=> Offered(g, h)
    BY <1>7 DEF Offered
  <2>7. InSequence(g, h) /\ OpenIs(g, h) /\ PartsAgree(g, h)
    BY <1>3 DEF Conversation
  <2>8. ASSUME Requested(g, e)
        PROVE  Conversation(e, h)
    <3>1. e.rx = g.rx /\ e.respPart = g.respPart /\ e.send.kind = "css"
      BY <2>8 DEF Requested
    <3>2. /\ ~InFlight(e, h) /\ ~LastInFlight(e, h)
          /\ Idle(e) <=> Idle(g)
          /\ Responds(e) <=> Responds(g)
          /\ Missing(e) = Missing(g)
      BY <1>5, <3>1 DEF InFlight, LastInFlight, Idle, Responds, Missing
    <3>3. InSequence(e, h)
      BY <1>5, <1>7, <2>7, <3>2 DEF InSequence
    <3>4. OpenIs(e, h)
      BY <1>5, <2>5, <2>6, <2>7, <3>2 DEF OpenIs, One
    <3>5. PartsAgree(e, h)
      BY <1>5, <2>5, <2>7, <3>1, <3>2 DEF PartsAgree
    <3> QED
      BY <3>3, <3>4, <3>5 DEF Conversation
  <2>9. ASSUME Responded(g, e)
        PROVE  Conversation(e, h)
    <3>1. PICK n : n = Parts[g.req].response
      OBVIOUS
    <3>2. /\ Responds(g) /\ e.send.kind = "resp" /\ e.send.what = g.req
          /\ e.send.part = g.respPart + 1
          /\ IF g.respPart + 1 = n THEN Idle(e) /\ e.respPart = 0
             ELSE e.rx = g.rx /\ e.respPart = g.respPart + 1
      BY <2>9, <3>1 DEF Responded, Idle
    <3>3. /\ InFlight(e, h)
          /\ LastInFlight(e, h) <=> g.respPart + 1 = n
          /\ Idle(e) <=> g.respPart + 1 = n
          /\ Responds(e) <=> g.respPart + 1 # n
          /\ ~Idle(g)
      BY <2>2, <3>1, <3>2 DEF InFlight, LastInFlight, Idle, Responds
    <3>4. /\ g.req \in Requests /\ g.respPart \in 0 .. Parts[g.req].response - 1
          /\ h.parts = g.respPart
          /\ n \in 1 .. 2
      BY <2>5, <2>7, <3>1, <3>2, <3>3, PartsAre DEF InSequence, PartsAgree
    <3>5. InSequence(e, h)
      BY <1>5, <1>7, <2>7, <3>2, <3>3 DEF InSequence
    <3>6. OpenIs(e, h)
      BY <1>5, <2>5, <2>6, <2>7, <3>2, <3>3 DEF OpenIs, One
    <3>7. PartsAgree(e, h)
      <4>1. e.respPart \in IF Responds(e) THEN 0 .. Parts[e.req].response - 1 ELSE {0}
        BY <1>5, <3>1, <3>2, <3>3, <3>4
      <4>2. CASE g.respPart + 1 = n
        <5>1. /\ InFlight(e, h) /\ LastInFlight(e, h) /\ e.respPart = 0
              /\ e.send.what = g.req /\ e.send.what \in Requests
          BY <3>2, <3>3, <3>4, <4>2
        <5>2. e.send.part = h.parts + 1 /\ e.send.part = n
          BY <3>2, <3>4, <4>2
        <5>3. e.send.part \in 1 .. Parts[e.send.what].response
          BY <3>1, <3>4, <5>1, <5>2
        <5> QED
          BY <4>1, <5>1, <5>2, <5>3 DEF PartsAgree
      <4>3. CASE g.respPart + 1 # n
        BY <1>5, <3>1, <3>2, <3>3, <3>4, <4>1, <4>3 DEF PartsAgree
      <4> QED
        BY <4>2, <4>3
    <3> QED
      BY <3>5, <3>6, <3>7 DEF Conversation
  <2> QED
    BY <1>2, <1>3, <1>5, <1>6, <1>9, <2>1, <2>3, <2>4, <2>8, <2>9
<1> QED
  BY <1>4, <1>8, <1>9

-----------------------------------------------------------------------------
(* The host *)

\* The host when it has received what d has sent last.
Received(d, h) ==
  [(IF d.asm # h.ack THEN HostTakes(h, d.send) ELSE h) EXCEPT
     !.ack = d.asm, !.seen = IF d.asm # h.ack THEN d.send.no ELSE @, !.conf = d.am = h.am]

\* Receiving it keeps what flags and fragments say.
LEMMA ReceiptKeeps ==
  \A d \in Messages, h \in Hosts : \A g :
    Flags(d, h) /\ Conversation(d, h) /\ g = Received(d, h) =>
      /\ g \in Hosts /\ Flags(d, g) /\ Conversation(d, g)
      /\ g.am = h.am /\ g.ack = d.asm /\ g.frag = h.frag
      /\ g.seen # h.seen => d.sent = Succ(h.seen) /\ g.seen = d.sent
<1> SUFFICES ASSUME NEW d \in Messages, NEW h \in Hosts, NEW g, Flags(d, h), Conversation(d, h),
                    g = Received(d, h)
             PROVE  /\ g \in Hosts /\ Flags(d, g) /\ Conversation(d, g)
                    /\ g.am = h.am /\ g.ack = d.asm /\ g.frag = h.frag
                    /\ g.seen # h.seen => d.sent = Succ(h.seen) /\ g.seen = d.sent
  OBVIOUS
<1>1. PICK f : f = d.send
  OBVIOUS
<1>2. /\ f.part \in Int /\ f.no \in Numbering /\ d.asm \in BOOLEAN /\ d.am \in BOOLEAN
      /\ d.sent \in Numbering
  BY <1>1 DEF Messages, Fragments
<1>3. InSequence(d, h) /\ OpenIs(d, h) /\ PartsAgree(d, h)
  BY DEF Conversation
<1>4. h.open \in Seq(Requests) /\ h.parts \in Int /\ h.seen \in Numbering
  BY DEF Hosts
<1>5. PICK o, p, x, b :
        /\ o = IF LastInFlight(d, h) THEN Tail(h.open) ELSE h.open
        /\ p = IF LastInFlight(d, h) THEN 0 ELSE IF InFlight(d, h) THEN f.part ELSE h.parts
        /\ x = IF d.asm # h.ack THEN f.no ELSE h.seen
        /\ b = (d.am = h.am)
  OBVIOUS
<1>16. (b \in BOOLEAN) /\ (b <=> d.am = h.am)
  BY <1>5, Zenon
<1>17. x \in Numbering
  BY <1>2, <1>4, <1>5
<1>18. PICK w \in BOOLEAN :
         g = [h EXCEPT !.open = o, !.parts = p, !.owes = w, !.ack = d.asm, !.seen = x, !.conf = b]
  <2>1. h.owes \in BOOLEAN
    BY DEF Hosts
  <2>2. CASE d.asm = h.ack
    <3>1. ~InFlight(d, h) /\ ~LastInFlight(d, h)
      BY <2>2 DEF InFlight, LastInFlight
    <3>2. o = h.open /\ p = h.parts
      BY <1>5, <3>1
    <3>3. g = [h EXCEPT !.ack = d.asm, !.seen = x, !.conf = b]
      BY <1>5, <2>2 DEF Received
    <3>4. g = [h EXCEPT !.open = o, !.parts = p, !.owes = h.owes, !.ack = d.asm, !.seen = x,
                        !.conf = b]
      BY <3>2, <3>3 DEF Hosts
    <3> QED
      BY <2>1, <3>4
  <2>3. CASE d.asm # h.ack /\ f.kind = "resp" /\ f.part = Parts[f.what].response
    <3>1. LastInFlight(d, h)
      BY <1>1, <2>3 DEF InFlight, LastInFlight
    <3>2. o = Tail(h.open) /\ p = 0
      BY <1>5, <3>1
    <3>3. HostTakes(h, f) = [h EXCEPT !.open = o, !.parts = p]
      BY <2>3, <3>2 DEF HostTakes
    <3>4. g = [h EXCEPT !.open = o, !.parts = p, !.owes = h.owes, !.ack = d.asm, !.seen = x,
                        !.conf = b]
      BY <1>1, <1>5, <2>3, <3>3 DEF Received, Hosts
    <3> QED
      BY <2>1, <3>4
  <2>4. CASE d.asm # h.ack /\ f.kind = "resp" /\ f.part # Parts[f.what].response
    <3>1. InFlight(d, h) /\ ~LastInFlight(d, h)
      BY <1>1, <2>4 DEF InFlight, LastInFlight
    <3>2. o = h.open /\ p = f.part
      BY <1>5, <3>1
    <3>3. HostTakes(h, f) = [h EXCEPT !.open = o, !.parts = p]
      BY <2>4, <3>2 DEF HostTakes, Hosts
    <3>4. g = [h EXCEPT !.open = o, !.parts = p, !.owes = h.owes, !.ack = d.asm, !.seen = x,
                        !.conf = b]
      BY <1>1, <1>5, <2>4, <3>3 DEF Received, Hosts
    <3> QED
      BY <2>1, <3>4
  <2>5. CASE d.asm # h.ack /\ f.kind = "css"
    <3>1. ~InFlight(d, h) /\ ~LastInFlight(d, h)
      BY <1>1, <2>5 DEF InFlight, LastInFlight
    <3>2. o = h.open /\ p = h.parts
      BY <1>5, <3>1
    <3>3. PICK w : w = (f.what = "last")
      OBVIOUS
    <3>4. w \in BOOLEAN
      BY <3>3, Zenon
    <3>5. HostTakes(h, f) = [h EXCEPT !.open = o, !.parts = p, !.owes = w]
      BY <2>5, <3>2, <3>3 DEF HostTakes, Hosts
    <3>6. g = [h EXCEPT !.open = o, !.parts = p, !.owes = w, !.ack = d.asm, !.seen = x,
                        !.conf = b]
      BY <1>1, <1>5, <2>5, <3>5 DEF Received, Hosts
    <3> QED
      BY <3>4, <3>6
  <2>6. d.asm # h.ack => f.kind \in {"resp", "css"}
    BY <1>1 DEF Flags
  <2> QED
    BY <2>2, <2>3, <2>4, <2>5, <2>6
<1>6. o \in Seq(Requests) /\ p \in Int
  <2>1. LastInFlight(d, h) => Len(h.open) > 0
    BY <1>3, <1>4 DEF OpenIs, One
  <2> QED
    BY <1>2, <1>4, <1>5, <2>1
<1>7. g \in Hosts
  BY <1>2, <1>6, <1>16, <1>17, <1>18 DEF Hosts
<1>8. /\ g.open = o /\ g.parts = p /\ g.ack = d.asm /\ g.seen = x /\ (g.conf <=> b)
      /\ g.am = h.am /\ g.frag = h.frag
  BY <1>18 DEF Hosts
<1>9. Taken(d, g) <=> Taken(d, h)
  BY <1>8 DEF Taken
<1>10. x = d.sent /\ (d.sent = h.seen \/ d.sent = Succ(h.seen))
  BY <1>1, <1>5 DEF Flags
<1>11. Flags(d, g)
  BY <1>8, <1>9, <1>10, <1>16 DEF Flags
<1>12. ~InFlight(d, g) /\ ~LastInFlight(d, g) /\ (Offered(d, g) <=> Offered(d, h))
  BY <1>8, <1>9 DEF InFlight, LastInFlight, Offered
<1>13. InSequence(d, g)
  BY <1>3, <1>8, <1>9 DEF InSequence
<1>14. OpenIs(d, g)
  <2>1. CASE LastInFlight(d, h)
    <3>1. o = Tail(h.open) /\ Len(h.open) > 0
      BY <1>3, <1>4, <1>5, <2>1 DEF OpenIs, One
    <3>2. Len(o) = Len(h.open) - 1 /\ \A i \in 1 .. Len(o) : o[i] = h.open[i + 1]
      BY <1>4, <3>1
    <3>3. One(LastInFlight(d, h)) = 1 /\ One(LastInFlight(d, g)) = 0
      BY <2>1, <1>12 DEF One
    <3>4. /\ One(~Idle(d)) \in 0 .. 1 /\ One(Offered(d, h)) \in 0 .. 1
          /\ One(Offered(d, g)) = One(Offered(d, h))
          /\ ~Idle(d) => One(~Idle(d)) = 1
          /\ Offered(d, h) => One(Offered(d, h)) = 1
      BY <1>12 DEF One
    <3>5. Len(o) = One(~Idle(d)) + One(Offered(d, g))
      BY <1>3, <3>2, <3>3, <3>4 DEF OpenIs
    <3>6. ~Idle(d) => o[1] = d.req
      <4>1. ~Idle(d) => h.open[1 + 1] = d.req
        BY <1>3, <3>3 DEF OpenIs
      <4>2. ~Idle(d) => 1 \in 1 .. Len(o)
        BY <1>12, <3>4, <3>5
      <4> QED
        BY <3>2, <4>1, <4>2
    <3>7. Offered(d, g) => o[Len(o)] = g.frag.what
      <4>1. Offered(d, g) => h.open[Len(h.open)] = g.frag.what
        BY <1>3, <1>8, <1>12 DEF OpenIs
      <4>2. Offered(d, g) => Len(o) \in {1, 2}
        BY <3>5 DEF One
      <4>3. Len(h.open) \in Nat /\ Len(o) = Len(h.open) - 1
        BY <1>4, <3>2
      <4>4. PICK l : l = Len(o)
        OBVIOUS
      <4>5. Len(h.open) = l + 1
        BY <4>3, <4>4
      <4>6. ASSUME Offered(d, g)
            PROVE  l \in 1 .. l
        <5>1. l \in {1, 2}
          BY <4>2, <4>4, <4>6
        <5> QED
          BY <5>1
      <4> QED
        BY <3>2, <4>1, <4>4, <4>5, <4>6
    <3> QED
      BY <1>8, <1>12, <3>3, <3>4, <3>5, <3>6, <3>7 DEF OpenIs
  <2>2. CASE ~LastInFlight(d, h)
    BY <1>3, <1>5, <1>8, <1>12, <2>2 DEF OpenIs, One
  <2> QED
    BY <2>1, <2>2
<1>15. PartsAgree(d, g)
  BY <1>1, <1>3, <1>5, <1>8, <1>12 DEF PartsAgree, LastInFlight
<1> QED
  BY <1>7, <1>8, <1>10, <1>11, <1>13, <1>14, <1>15 DEF Conversation

\* What the host does before its next telegram: it offers a new fragment when
\* the device has taken the last one.
Offers(d, h, g) ==
  /\ g.am = ~h.am /\ d.am = h.am /\ d.taken = h.frag.no /\ g.frag.no = Succ(h.frag.no)

\* An offer keeps what flags and fragments say.
LEMMA NextOffersKeep ==
  \A d \in Messages, h \in Hosts : \A g :
    Flags(d, h) /\ Conversation(d, h) /\ g \in NextOffers(h) =>
      /\ g \in Hosts /\ Flags(d, g) /\ Conversation(d, g)
      /\ g.ack = h.ack /\ g.seen = h.seen
      /\ g = h \/ Offers(d, h, g)
<1> SUFFICES ASSUME NEW d \in Messages, NEW h \in Hosts, NEW g, Flags(d, h), Conversation(d, h),
                    g \in NextOffers(h), g # h
             PROVE  /\ g \in Hosts /\ Flags(d, g) /\ Conversation(d, g)
                    /\ g.ack = h.ack /\ g.seen = h.seen /\ Offers(d, h, g)
  OBVIOUS
<1>1. PICK f : f = h.frag
  OBVIOUS
<1>2. /\ f \in HostFragments /\ f.no \in Numbering /\ f.part \in 0 .. 3
      /\ h.open \in Seq(Requests) /\ h.am \in BOOLEAN /\ h.ack \in BOOLEAN
  BY <1>1 DEF Hosts, HostFragments
<1>3. InSequence(d, h) /\ OpenIs(d, h) /\ PartsAgree(d, h)
  BY DEF Conversation
<1>4. h.conf
  BY DEF NextOffers
<1>5. d.am = h.am /\ ~d.conf /\ Taken(d, h) /\ d.taken = f.no
  BY <1>1, <1>4 DEF Flags, Taken
<1> DEFINE Of(kind, what, part, w, o) ==
             g = [OfferNext(h, kind, what, part) EXCEPT !.owes = w, !.open = o]
<1>6. ASSUME NEW kind \in {"req", "answer"}, NEW what \in Requests \cup {"css"},
             NEW part \in 1 .. 3,
             NEW w \in BOOLEAN, NEW o \in Seq(Requests),
             Of(kind, what, part, w, o)
      PROVE  /\ g \in Hosts /\ Flags(d, g) /\ Offers(d, h, g) /\ ~Taken(d, g)
             /\ g.ack = h.ack /\ g.seen = h.seen /\ g.parts = h.parts /\ g.open = o
             /\ g.frag.kind = kind /\ g.frag.what = what /\ g.frag.part = part
  <2>1. PICK fr, a : fr = Fragment(kind, what, part, Succ(f.no)) /\ a = ~h.am
    OBVIOUS
  <2>2. Succ(f.no) \in Numbering
    BY <1>2, SuccIs
  <2>3. /\ fr \in HostFragments /\ fr.no = Succ(f.no) /\ fr.kind = kind /\ fr.what = what
        /\ fr.part = part
    BY <2>1, <2>2 DEF HostFragments, Fragment
  <2>4. a \in BOOLEAN /\ FALSE \in BOOLEAN
    BY <2>1
  <2>5. g = [h EXCEPT !.am = a, !.frag = fr, !.conf = FALSE, !.owes = w, !.open = o]
    BY <1>1, <1>6, <2>1 DEF OfferNext, Hosts
  <2>6. g \in Hosts
    BY <2>3, <2>4, <2>5 DEF Hosts
  <2>7. /\ g.am = a /\ g.frag = fr /\ ~g.conf /\ g.open = o /\ g.ack = h.ack
        /\ g.seen = h.seen /\ g.parts = h.parts
    BY <2>5 DEF Hosts
  <2>8. g.am # d.am
    BY <1>2, <1>5, <2>1, <2>7
  <2>9. ~Taken(d, g)
    BY <1>5, <2>8 DEF Taken
  <2>10. Flags(d, g)
    BY <1>5, <2>3, <2>7, <2>9 DEF Flags
  <2> QED
    BY <1>1, <1>5, <2>1, <2>3, <2>6, <2>7, <2>9, <2>10 DEF Offers
<1> HIDE DEF Of
<1>7. ASSUME NEW o, g.ack = h.ack, g.parts = h.parts, g.open = o, ~Taken(d, g)
      PROVE  /\ InFlight(d, g) <=> InFlight(d, h)
             /\ LastInFlight(d, g) <=> LastInFlight(d, h)
             /\ PartsAgree(d, g)
             /\ ~Offered(d, h)
             /\ Offered(d, g) <=> g.frag.kind = "req" /\ g.frag.part = 1
  <2>1. /\ InFlight(d, g) <=> InFlight(d, h)
        /\ LastInFlight(d, g) <=> LastInFlight(d, h)
    BY <1>7 DEF InFlight, LastInFlight
  <2>2. PartsAgree(d, g)
    BY <1>3, <1>7, <2>1 DEF PartsAgree
  <2> QED
    BY <1>5, <1>7, <2>1, <2>2 DEF Offered
<1>9. CASE f.kind = "req" /\ f.part < Parts[f.what].request
  <2>1. g = OfferNext(h, "req", f.what, f.part + 1)
    BY <1>1, <1>4, <1>9 DEF NextOffers
  <2>2. f.what \in Requests /\ f.part \in 1 .. 3 /\ Parts[f.what].request \in 1 .. 3
    BY <1>1, <1>2, <1>3, <1>9, PartsAre DEF InSequence
  <2>3. Of("req", f.what, f.part + 1, h.owes, h.open)
    BY <2>1 DEF Of, OfferNext, Hosts
  <2>4. h.owes \in BOOLEAN
    BY DEF Hosts
  <2>5. f.part + 1 \in 1 .. 3
    BY <1>9, <2>2
  <2>6. /\ g \in Hosts /\ Flags(d, g) /\ Offers(d, h, g) /\ ~Taken(d, g)
        /\ g.ack = h.ack /\ g.seen = h.seen /\ g.parts = h.parts /\ g.open = h.open
        /\ g.frag.kind = "req" /\ g.frag.what = f.what /\ g.frag.part = f.part + 1
    BY <1>2, <1>6, <2>2, <2>3, <2>4, <2>5
  <2>7. ~Offered(d, g)
    BY <2>2, <2>6 DEF Offered
  <2>8. InSequence(d, g)
    BY <1>1, <1>3, <1>5, <1>9, <2>2, <2>6 DEF InSequence
  <2>9. OpenIs(d, g)
    BY <1>3, <1>7, <2>6, <2>7 DEF OpenIs, One
  <2> QED
    BY <1>7, <2>6, <2>8, <2>9 DEF Conversation
<1>10. ASSUME ~(f.kind = "req" /\ f.part < Parts[f.what].request)
       PROVE  Idle(d) \/ Responds(d)
  BY <1>1, <1>2, <1>3, <1>5, <1>10, PartsAre DEF InSequence
<1>11. CASE ~(f.kind = "req" /\ f.part < Parts[f.what].request) /\ h.owes
  <2>1. g = [OfferNext(h, "answer", "css", 1) EXCEPT !.owes = FALSE]
    BY <1>1, <1>4, <1>11 DEF NextOffers
  <2>2. PICK w : w = FALSE
    OBVIOUS
  <2>7. Of("answer", "css", 1, w, h.open)
    BY <2>1, <2>2 DEF Of, OfferNext, Hosts
  <2>8. w \in BOOLEAN
    BY <2>2, Zenon
  <2>9. /\ h.open \in Seq(Requests) /\ 1 \in 1 .. 3 /\ "css" \in Requests \cup {"css"}
        /\ "answer" \in {"req", "answer"}
    BY <1>2
  <2>3. /\ g \in Hosts /\ Flags(d, g) /\ Offers(d, h, g) /\ ~Taken(d, g)
        /\ g.ack = h.ack /\ g.seen = h.seen /\ g.parts = h.parts /\ g.open = h.open
        /\ g.frag.kind = "answer"
    BY <1>6, <2>7, <2>8, <2>9, Zenon
  <2>4. ~Offered(d, g)
    BY <2>3 DEF Offered
  <2>5. InSequence(d, g)
    BY <1>3, <1>10, <1>11, <2>3 DEF InSequence
  <2>6. OpenIs(d, g)
    BY <1>3, <1>7, <2>3, <2>4 DEF OpenIs, One
  <2> QED
    BY <1>7, <2>3, <2>5, <2>6 DEF Conversation
<1>12. CASE ~(f.kind = "req" /\ f.part < Parts[f.what].request) /\ ~h.owes
  <2>1. PICK r \in Requests : g = [OfferNext(h, "req", r, 1) EXCEPT !.open = Append(@, r)]
    BY <1>1, <1>4, <1>12 DEF NextOffers
  <2>7. 1 \in 1 .. 3 /\ r \in Requests \cup {"css"} /\ "req" \in {"req", "answer"}
    OBVIOUS
  <2>2. h.owes \in BOOLEAN /\ Append(h.open, r) \in Seq(Requests)
    BY <1>2 DEF Hosts
  <2>3. Of("req", r, 1, h.owes, Append(h.open, r))
    BY <2>1 DEF Of, OfferNext, Hosts
  <2>4. /\ g \in Hosts /\ Flags(d, g) /\ Offers(d, h, g) /\ ~Taken(d, g)
        /\ g.ack = h.ack /\ g.seen = h.seen /\ g.parts = h.parts
        /\ g.open = Append(h.open, r)
        /\ g.frag.kind = "req" /\ g.frag.what = r /\ g.frag.part = 1
    BY <1>6, <2>2, <2>3, <2>7
  <2>5. InSequence(d, g)
    BY <1>3, <1>10, <1>12, <2>4, PartsAre DEF InSequence
  <2>6. OpenIs(d, g)
    <3>1. Offered(d, g) /\ ~Offered(d, h) /\ (LastInFlight(d, g) <=> LastInFlight(d, h))
      BY <1>7, <2>4
    <3>2. /\ Len(g.open) = Len(h.open) + 1 /\ g.open[Len(h.open) + 1] = r
          /\ \A i \in 1 .. Len(h.open) : g.open[i] = h.open[i]
      BY <1>2, <2>4
    <3>3. Len(h.open) = One(LastInFlight(d, h)) + One(~Idle(d))
      BY <1>3, <3>1 DEF OpenIs, One
    <3>4. Len(g.open) = One(LastInFlight(d, g)) + One(~Idle(d)) + One(Offered(d, g))
      BY <3>1, <3>2, <3>3 DEF One
    <3>5. LastInFlight(d, g) => g.open[1] = d.send.what
      <4>1. LastInFlight(d, h) => 1 \in 1 .. Len(h.open)
        BY <3>3 DEF One
      <4> QED
        BY <1>3, <3>1, <3>2, <4>1 DEF OpenIs
    <3>6. ~Idle(d) => g.open[1 + One(LastInFlight(d, g))] = d.req
      <4>1. ~Idle(d) => 1 + One(LastInFlight(d, h)) \in 1 .. Len(h.open)
        BY <3>3 DEF One
      <4> QED
        BY <1>3, <3>1, <3>2, <4>1 DEF OpenIs, One
    <3> QED
      BY <2>4, <3>1, <3>2, <3>4, <3>5, <3>6 DEF OpenIs
  <2> QED
    BY <1>7, <2>4, <2>5, <2>6 DEF Conversation
<1> QED
  BY <1>9, <1>11, <1>12

-----------------------------------------------------------------------------
(* The steps, for the device the host talks to *)

RxTypeOK ==
  /\ dma \in [C -> {"empty", "partial", "late", "bad", "full"}]
  /\ buffer \in [C -> Telegrams] /\ amTgm \in [C -> Telegrams]
  /\ numTgm \in [C -> 0 .. TgmWrap - 1]

\* The receive DMA and the buffers when the controllers of cs look for a
\* telegram.
LEMMA CheckIs ==
  ASSUME NEW cs, CheckForNewTgm(cs)
  PROVE  /\ dma' = [c \in C |-> IF c \in cs /\ NewTgmReceived(c) THEN "empty"
                                ELSE IF dma[c] = "late" THEN "full" ELSE dma[c]]
         /\ buffer' = [c \in C |-> IF c \in cs /\ NewTgmReceived(c) THEN FirstTgm ELSE buffer[c]]
         /\ numTgm' = [c \in C |-> IF c \in cs /\ dma[c] = "full" THEN (numTgm[c] + 1) % TgmWrap
                                   ELSE numTgm[c]]
         /\ amTgm' = [c \in C |-> IF c \in cs /\ dma[c] = "full" THEN buffer[c] ELSE amTgm[c]]
<1>1. /\ dma' = [c \in C |-> CASE c \in cs /\ NewTgmReceived(c) -> "empty"
                               [] dma[c] = "late"               -> "full"
                               [] OTHER                         -> dma[c]]
      /\ buffer' = [c \in C |-> IF c \in cs /\ NewTgmReceived(c) THEN FirstTgm ELSE buffer[c]]
      /\ numTgm' = [c \in C |-> IF c \in cs /\ dma[c] = "full" THEN (numTgm[c] + 1) % TgmWrap
                                ELSE numTgm[c]]
      /\ amTgm' = [c \in C |-> IF c \in cs /\ dma[c] = "full" THEN buffer[c] ELSE amTgm[c]]
  BY DEF CheckForNewTgm
<1>2. \A c \in C : (CASE c \in cs /\ NewTgmReceived(c) -> "empty"
                      [] dma[c] = "late"               -> "full"
                      [] OTHER                         -> dma[c]) =
                   IF c \in cs /\ NewTgmReceived(c) THEN "empty"
                   ELSE IF dma[c] = "late" THEN "full" ELSE dma[c]
  BY DEF NewTgmReceived
<1> QED
  BY <1>1, <1>2

\* What is received keeps its types and what it says of the host.
LEMMA CheckKeeps ==
  ASSUME HtTypeOK, NEW cs, CheckForNewTgm(cs)
  PROVE  /\ RxTypeOK'
         /\ \A d, h :
              Fits(d, h, amTgm[C1]) /\ Acks(d, h, amTgm[C1], Arrived(C1), buffer[C1]) =>
                /\ Fits(d, h, amTgm'[C1])
                /\ Acks(d, h, amTgm'[C1], Arrived(C1)', buffer'[C1])
<1>1. RxTypeOK
  BY DEF HtTypeOK, RxTypeOK
<1>2. /\ dma' = [c \in C |-> IF c \in cs /\ NewTgmReceived(c) THEN "empty"
                             ELSE IF dma[c] = "late" THEN "full" ELSE dma[c]]
      /\ buffer' = [c \in C |-> IF c \in cs /\ NewTgmReceived(c) THEN FirstTgm ELSE buffer[c]]
      /\ numTgm' = [c \in C |-> IF c \in cs /\ dma[c] = "full" THEN (numTgm[c] + 1) % TgmWrap
                                ELSE numTgm[c]]
      /\ amTgm' = [c \in C |-> IF c \in cs /\ dma[c] = "full" THEN buffer[c] ELSE amTgm[c]]
  BY CheckIs
<1>3. FirstTgm \in Telegrams
  BY Bounds DEF FirstTgm, Telegrams, NoFragment, Fragment
<1>6. dma' \in [C -> {"empty", "partial", "late", "bad", "full"}]
  BY <1>1, <1>2 DEF RxTypeOK
<1>7. buffer' \in [C -> Telegrams]
  BY <1>1, <1>2, <1>3 DEF RxTypeOK
<1>8. amTgm' \in [C -> Telegrams]
  BY <1>1, <1>2 DEF RxTypeOK
<1>9. numTgm' \in [C -> 0 .. TgmWrap - 1]
  <2>1. \A i \in 0 .. TgmWrap - 1 : (i + 1) % TgmWrap \in 0 .. TgmWrap - 1
    BY Bounds
  <2> QED
    BY <1>1, <1>2, <2>1 DEF RxTypeOK
<1>10. ASSUME NEW d, NEW h, Fits(d, h, amTgm[C1]),
              Acks(d, h, amTgm[C1], Arrived(C1), buffer[C1])
       PROVE  /\ Fits(d, h, amTgm'[C1])
              /\ Acks(d, h, amTgm'[C1], Arrived(C1)', buffer'[C1])
  <2>1. C1 \in C
    BY Bounds
  <2>2. CASE C1 \in cs /\ dma[C1] = "full"
    <3>1. NewTgmReceived(C1) /\ Arrived(C1)
      BY <2>2 DEF NewTgmReceived, Arrived
    <3>2. amTgm'[C1] = buffer[C1] /\ ~Arrived(C1)'
      BY <1>2, <2>1, <2>2, <3>1 DEF Arrived
    <3> QED
      BY <1>10, <3>1, <3>2 DEF Fits, Acks
  <2>3. CASE C1 \in cs /\ dma[C1] = "bad"
    <3>1. NewTgmReceived(C1) /\ ~Arrived(C1)
      BY <2>3 DEF NewTgmReceived, Arrived
    <3>2. amTgm'[C1] = amTgm[C1] /\ ~Arrived(C1)'
      BY <1>2, <2>1, <2>3, <3>1 DEF Arrived
    <3> QED
      BY <1>10, <3>1, <3>2 DEF Fits, Acks
  <2>4. CASE ~(C1 \in cs /\ NewTgmReceived(C1))
    <3>1. amTgm'[C1] = amTgm[C1] /\ buffer'[C1] = buffer[C1]
      BY <1>2, <2>1, <2>4 DEF NewTgmReceived
    <3>2. Arrived(C1)' <=> Arrived(C1)
      BY <1>2, <2>1, <2>4 DEF Arrived
    <3> QED
      BY <1>10, <3>1, <3>2 DEF Fits, Acks
  <2> QED
    BY <2>2, <2>3, <2>4 DEF NewTgmReceived
<1> QED
  BY <1>6, <1>7, <1>8, <1>9, <1>10 DEF RxTypeOK

LinkVars == <<host.frag.no, dev[C1].taken, dev[C1].sent, host.seen>>
LinkStep == Link!Next \/ UNCHANGED LinkVars

\* A slice in which the controllers look for a telegram.
LEMMA SlicesCheck == Single /\ aicMgrRx_CheckForNewTgm => Single' /\ LinkStep
<1> SUFFICES ASSUME Single, aicMgrRx_CheckForNewTgm
             PROVE  Single' /\ LinkStep
  OBVIOUS
<1>1. /\ CheckForNewTgm(C) /\ dev' = dev /\ host' = host /\ failSafe' = failSafe
      /\ \/ slice = 3 /\ slice' = 6 /\ syncTx' = numTgm'
         \/ slice = 23 /\ slice' = 38 /\ syncTx' = syncTx
  BY DEF aicMgrRx_CheckForNewTgm, Slice
<1>2. HtTypeOK /\ QueuesInv /\ LinkInv /\ Conversation(dev[C1], host)
  BY DEF Single
<1>3. /\ RxTypeOK'
      /\ \A d, h :
           Fits(d, h, amTgm[C1]) /\ Acks(d, h, amTgm[C1], Arrived(C1), buffer[C1]) =>
             /\ Fits(d, h, amTgm'[C1])
             /\ Acks(d, h, amTgm'[C1], Arrived(C1)', buffer'[C1])
  BY <1>1, <1>2, CheckKeeps
<1>4. HtTypeOK'
  BY <1>1, <1>2, <1>3 DEF HtTypeOK, RxTypeOK
<1>5. QueuesInv'
  BY <1>1, <1>2 DEF QueuesInv
<1>6. LinkInv'
  BY <1>1, <1>2, <1>3 DEF LinkInv
<1>7. Conversation(dev[C1], host)'
  BY <1>1, <1>2
<1> QED
  BY <1>1, <1>4, <1>5, <1>6, <1>7 DEF Single, LinkStep, LinkVars

\* Slice 6.
LEMMA TelegramProcessed == Single /\ aicMgrRx_ProcessTgm => Single' /\ LinkStep
<1> SUFFICES ASSUME Single, aicMgrRx_ProcessTgm
             PROVE  Single' /\ LinkStep
  OBVIOUS
<1>1. PICK cs : cs = {c \in C : Behind(c)}
  OBVIOUS
<1>2. /\ CheckForNewTgm(cs) /\ host' = host /\ syncTx' = syncTx
      /\ failSafe' = [c \in C |-> IF MustStop(c) THEN "AIC_SYNC_ERR" ELSE "none"]
      /\ dev' = [c \in C |-> IF MustStop(c) THEN dev[c]
                             ELSE aicMsgProc_ProcessMsg(dev[c], amTgm'[c])]
      /\ slice = 6 /\ slice' = 23
  BY <1>1 DEF aicMgrRx_ProcessTgm, Slice
<1>3. HtTypeOK /\ QueuesInv /\ LinkInv /\ Conversation(dev[C1], host)
  BY DEF Single
<1>4. /\ RxTypeOK'
      /\ \A d, h :
           Fits(d, h, amTgm[C1]) /\ Acks(d, h, amTgm[C1], Arrived(C1), buffer[C1]) =>
             /\ Fits(d, h, amTgm'[C1])
             /\ Acks(d, h, amTgm'[C1], Arrived(C1)', buffer'[C1])
  BY <1>2, <1>3, CheckKeeps
<1>5. PICK d, h, e, t : d = dev[C1] /\ h = host /\ e = dev'[C1] /\ t = amTgm'[C1]
  OBVIOUS
<1>6. d \in Messages /\ h \in Hosts /\ t \in Telegrams
  BY <1>3, <1>4, <1>5, Bounds DEF HtTypeOK, RxTypeOK
<1>7. /\ Flags(d, h) /\ Conversation(d, h) /\ ~d.conf /\ Fits(d, h, t)
      /\ Acks(d, h, t, Arrived(C1)', buffer'[C1])
  BY <1>2, <1>3, <1>4, <1>5 DEF LinkInv
<1>8. e = d \/ Processed(d, e, h, t)
  <2>1. e = IF MustStop(C1) THEN d ELSE aicMsgProc_ProcessMsg(d, t)
    BY <1>2, <1>5, Bounds
  <2>2. CASE MustStop(C1)
    BY <2>1, <2>2
  <2>3. CASE ~MustStop(C1)
    BY <1>6, <1>7, <2>1, <2>3, ProcessKeeps
  <2> QED
    BY <2>2, <2>3
<1>9. /\ e \in Messages /\ Flags(e, h) /\ Conversation(e, h) /\ Fits(e, h, t)
      /\ Acks(e, h, t, Arrived(C1)', buffer'[C1])
  <2>1. CASE e = d
    BY <1>6, <1>7, <2>1
  <2>2. CASE Processed(d, e, h, t)
    BY <1>7, <2>2 DEF Processed, Fits, Acks, Flags
  <2> QED
    BY <1>8, <2>1, <2>2
<1>10. HtTypeOK'
  <2>1. failSafe' \in [C -> {"none", "AIC_SYNC_ERR"}]
    BY <1>2
  <2> QED
    BY <1>2, <1>3, <1>4, <1>5, <1>9, <2>1 DEF HtTypeOK, RxTypeOK
<1>11. QueuesInv'
  <2>1. \A c \in C : Queues(dev[c]) /\ dev[c].ucq = 0
    BY <1>2, <1>3 DEF QueuesInv
  <2>2. \A c \in C : Queues(dev'[c])
    BY <1>2, <2>1, ProcessQueues
  <2> QED
    BY <1>2, <2>2 DEF QueuesInv
<1>12. LinkInv'
  BY <1>2, <1>5, <1>9 DEF LinkInv
<1>13. Conversation(dev[C1], host)'
  BY <1>2, <1>5, <1>9
<1>14. LinkStep
  <2>1. e.sent = d.sent /\ (e.taken # d.taken => e.taken = h.frag.no)
    BY <1>8 DEF Processed
  <2> QED
    BY <1>2, <1>5, <2>1
       DEF LinkStep, LinkVars, Link!Next, Link!Step, Link!Take, Link!Same
<1> QED
  BY <1>10, <1>11, <1>12, <1>13, <1>14 DEF Single

\* Slice 38.
LEMMA TelegramBuilt == Single /\ aicMgrTx_MergeSendAsmTgm => Single' /\ LinkStep
<1> SUFFICES ASSUME Single, aicMgrTx_MergeSendAsmTgm
             PROVE  Single' /\ LinkStep
  OBVIOUS
<1>1. PICK put \in CssMessages \cup {0} :
        dev' = [c \in C |-> aicMsgBld_BuildMsg(Background(dev[c], put))]
  BY DEF aicMgrTx_MergeSendAsmTgm
<1>2. /\ host' = host /\ dma' = dma /\ buffer' = buffer /\ numTgm' = numTgm /\ syncTx' = syncTx
      /\ amTgm' = amTgm /\ failSafe' = failSafe /\ slice = 38 /\ slice' = 3
  BY DEF aicMgrTx_MergeSendAsmTgm, Slice, rxVars
<1>3. HtTypeOK /\ QueuesInv /\ LinkInv /\ Conversation(dev[C1], host)
  BY DEF Single
<1>4. put \in Nat
  BY RequestsAssumption
<1>5. PICK d, h, e, t, b :
        d = dev[C1] /\ h = host /\ e = dev'[C1] /\ t = amTgm[C1] /\ b = buffer[C1]
  OBVIOUS
<1>6. d \in Messages /\ h \in Hosts /\ t \in Telegrams /\ b \in Telegrams
  BY <1>3, <1>5, Bounds DEF HtTypeOK
<1>7. /\ Flags(d, h) /\ Conversation(d, h) /\ Fits(d, h, t) /\ Queues(d)
      /\ Acks(d, h, t, Arrived(C1), b)
  BY <1>2, <1>3, <1>5, Bounds DEF LinkInv, QueuesInv
<1>8. e = aicMsgBld_BuildMsg(Background(d, put))
  BY <1>1, <1>5, Bounds
<1>9. d.lastAck = d.asm => h.ack = d.asm
  BY <1>7 DEF Acks
<1>10. /\ e \in Messages /\ Flags(e, h) /\ Conversation(e, h)
       /\ ~e.conf /\ e.lastAck = d.lastAck /\ e.taken = d.taken
       /\ e.am = (IF Taken(d, h) THEN h.am ELSE d.am)
       /\ \/ e.asm = d.asm /\ e.sent = d.sent
          \/ d.lastAck = d.asm /\ e.asm = ~d.asm /\ e.sent = Succ(d.sent) /\ h.seen = d.sent
  BY <1>4, <1>6, <1>7, <1>8, <1>9, BuildKeeps
<1>11. Fits(e, h, t)
  BY <1>7, <1>10 DEF Fits, Taken
<1>12. Acks(e, h, t, Arrived(C1), b)
  <2>1. CASE e.asm = d.asm
    BY <1>7, <1>10, <2>1 DEF Acks
  <2>2. CASE d.lastAck = d.asm /\ e.asm = ~d.asm
    <3>1. d.asm \in BOOLEAN /\ e.asm # d.asm
      BY <1>6, <2>2 DEF Messages
    <3>2. e.lastAck # e.asm /\ t.ack # e.asm /\ (Arrived(C1) => b.ack # e.asm)
      BY <1>7, <1>10, <2>2, <3>1 DEF Acks
    <3> QED
      BY <1>7, <3>2 DEF Acks
  <2> QED
    BY <1>10, <2>1, <2>2
<1>13. HtTypeOK'
  BY <1>2, <1>3, <1>5, <1>10 DEF HtTypeOK
<1>14. QueuesInv'
  <2>1. \A c \in C : Queues(dev'[c]) /\ dev'[c].ucq = 0
    <3>1. TAKE c \in C
    <3>2. PICK x, y : x = dev[c] /\ y = dev'[c]
      OBVIOUS
    <3>3. Queues(x) /\ y = aicMsgBld_BuildMsg(Background(x, put))
      BY <1>1, <1>3, <3>2 DEF QueuesInv
    <3>4. PICK z : z = aicMsgBld_BuildMsg(Background(x, put))
      OBVIOUS
    <3>5. Queues(z) /\ z.ucq = 0
      BY <1>4, <3>3, <3>4, BuildQueues
    <3> QED
      BY <3>2, <3>3, <3>4, <3>5
  <2> QED
    BY <2>1 DEF QueuesInv
<1>15. LinkInv'
  <2>1. Arrived(C1)' <=> Arrived(C1)
    BY <1>2 DEF Arrived
  <2>2. Acks(e, h, t, Arrived(C1)', b)
    BY <1>12, <2>1 DEF Acks
  <2> QED
    BY <1>2, <1>5, <1>10, <1>11, <2>2 DEF LinkInv
<1>16. Conversation(dev[C1], host)'
  BY <1>2, <1>5, <1>10
<1>17. LinkStep
  <2>1. CASE e.sent = d.sent
    BY <1>2, <1>5, <1>10, <2>1 DEF LinkStep, LinkVars
  <2>2. CASE e.sent = Succ(d.sent) /\ h.seen = d.sent
    BY <1>2, <1>5, <1>10, <2>2
       DEF LinkStep, Link!Next, Link!Step, Link!Offer, Link!Same, Succ
  <2> QED
    BY <1>10, <2>1, <2>2
<1> QED
  BY <1>13, <1>14, <1>15, <1>16, <1>17 DEF Single

\* A telegram of the host.
LEMMA TelegramSent ==
  \A late, hit, noise :
    Single /\ noise \in {"bad", "partial"} /\ SendsNext(late, hit, noise) => Single' /\ LinkStep
<1> SUFFICES ASSUME Single, NEW late, NEW hit, NEW noise \in {"bad", "partial"},
                    SendsNext(late, hit, noise)
             PROVE  Single' /\ LinkStep
  OBVIOUS
<1>1. PICK g \in NextOffers(host) : host' = g /\ Transmit(TgmOf(g), late, hit, noise)
  BY DEF SendsNext
<1>2. /\ slice' = slice /\ numTgm' = numTgm /\ syncTx' = syncTx /\ amTgm' = amTgm
      /\ dev' = dev /\ failSafe' = failSafe
      /\ \A c \in C : dma[c] \in {"empty", "partial"}
  BY DEF SendsNext
<1>3. HtTypeOK /\ QueuesInv /\ LinkInv /\ Conversation(dev[C1], host)
  BY DEF Single
<1>4. PICK d, h, t, b : d = dev[C1] /\ h = host /\ t = amTgm[C1] /\ b = TgmOf(g)
  OBVIOUS
<1>5. d \in Messages /\ h \in Hosts /\ t \in Telegrams
  BY <1>3, <1>4, Bounds DEF HtTypeOK
<1>6. /\ Flags(d, h) /\ Conversation(d, h) /\ Fits(d, h, t)
      /\ d.lastAck = d.asm => t.ack = d.asm
      /\ t.ack = d.asm => h.ack = d.asm
  BY <1>3, <1>4 DEF LinkInv, Acks
<1>7. /\ g \in Hosts /\ Flags(d, g) /\ Conversation(d, g) /\ g.ack = h.ack /\ g.seen = h.seen
      /\ g = h \/ Offers(d, h, g)
  BY <1>1, <1>4, <1>5, <1>6, NextOffersKeep
<1>8. b \in Telegrams /\ b.am = g.am /\ b.ack = g.ack /\ b.frag = g.frag
  BY <1>4, <1>7 DEF TgmOf, Hosts, Telegrams, HostFragments, Numbering
<1>9. /\ dma' = [c \in C |-> CASE c \in hit                            -> noise
                               [] c \in late                           -> "late"
                               [] c \notin hit \cup late /\ dma[c] = "partial" -> "bad"
                               [] OTHER                                -> "full"]
      /\ buffer' = [c \in C |-> IF dma'[c] \in {"late", "full"} THEN b ELSE buffer[c]]
  BY <1>1, <1>4 DEF Transmit
<1>10. dma' \in [C -> {"empty", "partial", "late", "bad", "full"}]
  BY <1>9
<1>11. buffer' \in [C -> Telegrams]
  BY <1>3, <1>8, <1>9 DEF HtTypeOK
<1>12. HtTypeOK'
  BY <1>1, <1>2, <1>3, <1>7, <1>10, <1>11 DEF HtTypeOK
<1>13. QueuesInv'
  BY <1>2, <1>3 DEF QueuesInv
<1>14. Fits(d, g, t)
  <2>1. CASE g = h
    BY <1>6, <2>1
  <2>2. CASE Offers(d, h, g)
    <3>1. h.am \in BOOLEAN /\ g.am # h.am /\ d.am = h.am /\ ~d.conf
      BY <1>5, <1>6, <2>2 DEF Hosts, Offers, Flags
    <3>2. t.am = h.am
      BY <1>6, <3>1 DEF Fits
    <3> QED
      BY <3>1, <3>2 DEF Fits
  <2> QED
    BY <1>7, <2>1, <2>2
<1>15. Acks(d, g, t, Arrived(C1)', buffer'[C1])
  <2>1. Arrived(C1)' => buffer'[C1] = b
    BY <1>9, Bounds DEF Arrived
  <2> QED
    BY <1>6, <1>7, <1>8, <2>1 DEF Acks
<1>16. LinkInv'
  BY <1>1, <1>2, <1>3, <1>4, <1>7, <1>14, <1>15 DEF LinkInv
<1>17. Conversation(dev[C1], host)'
  BY <1>1, <1>2, <1>4, <1>7
<1>18. LinkStep
  <2>1. CASE g = h
    BY <1>1, <1>2, <1>4, <2>1 DEF LinkStep, LinkVars
  <2>2. CASE Offers(d, h, g)
    BY <1>1, <1>2, <1>4, <1>7, <2>2
       DEF Offers, LinkStep, Link!Next, Link!Step, Link!Offer, Link!Same, Succ
  <2> QED
    BY <1>7, <2>1, <2>2
<1> QED
  BY <1>12, <1>13, <1>16, <1>17, <1>18 DEF Single

\* The host receives the telegram of the device, or misses it.
LEMMA TelegramReceived == Single /\ (HostReceives \/ HostMisses) => Single' /\ LinkStep
<1> SUFFICES ASSUME Single, HostReceives \/ HostMisses
             PROVE  Single' /\ LinkStep
  OBVIOUS
<1>1. /\ slice' = slice /\ dma' = dma /\ buffer' = buffer /\ numTgm' = numTgm /\ syncTx' = syncTx
      /\ amTgm' = amTgm /\ dev' = dev /\ failSafe' = failSafe
  BY DEF HostReceives, HostMisses, rxVars
<1>2. HtTypeOK /\ QueuesInv /\ LinkInv /\ Conversation(dev[C1], host)
  BY DEF Single
<1>3. PICK d, h, g, t, b :
        d = dev[C1] /\ h = host /\ g = host' /\ t = amTgm[C1] /\ b = buffer[C1]
  OBVIOUS
<1>4. d \in Messages /\ h \in Hosts
  BY <1>2, <1>3, Bounds DEF HtTypeOK
<1>5. /\ Flags(d, h) /\ Conversation(d, h) /\ Fits(d, h, t) /\ Acks(d, h, t, Arrived(C1), b)
  BY <1>2, <1>3 DEF LinkInv
<1>6. CASE g = h
  <2>1. HtTypeOK' /\ QueuesInv' /\ Conversation(dev[C1], host)'
    BY <1>1, <1>2, <1>3, <1>6 DEF HtTypeOK, QueuesInv
  <2>2. LinkInv'
    BY <1>1, <1>2, <1>3, <1>6 DEF LinkInv, Arrived
  <2> QED
    BY <1>1, <1>3, <1>6, <2>1, <2>2 DEF Single, LinkStep, LinkVars
<1>7. CASE HostReceives
  <2>1. g = Received(d, h)
    BY <1>3, <1>7 DEF HostReceives, Received
  <2>2. /\ g \in Hosts /\ Flags(d, g) /\ Conversation(d, g)
        /\ g.am = h.am /\ g.ack = d.asm /\ g.frag = h.frag
        /\ g.seen # h.seen => d.sent = Succ(h.seen) /\ g.seen = d.sent
    BY <1>4, <1>5, <2>1, ReceiptKeeps
  <2>3. Fits(d, g, t) /\ Acks(d, g, t, Arrived(C1), b)
    BY <1>5, <2>2 DEF Fits, Acks
  <2>4. HtTypeOK' /\ QueuesInv' /\ Conversation(dev[C1], host)'
    BY <1>1, <1>2, <1>3, <2>2 DEF HtTypeOK, QueuesInv
  <2>5. LinkInv'
    BY <1>1, <1>2, <1>3, <2>2, <2>3 DEF LinkInv, Arrived
  <2>6. LinkStep
    <3>1. CASE g.seen = h.seen
      BY <1>1, <1>3, <2>2, <3>1 DEF LinkStep, LinkVars
    <3>2. CASE g.seen # h.seen
      <4>1. h.seen \in Numbering
        BY <1>4 DEF Hosts
      <4>2. d.sent # h.seen /\ g.seen = d.sent
        BY <2>2, <3>2, <4>1
      <4> QED
        BY <1>1, <1>3, <2>2, <4>2 DEF LinkStep, Link!Next, Link!Step, Link!Take, Link!Same
    <3> QED
      BY <3>1, <3>2
  <2> QED
    BY <2>4, <2>5, <2>6 DEF Single
<1> QED
  BY <1>3, <1>6, <1>7 DEF HostMisses

\* A stuttering step.
LEMMA NothingHappens == Single /\ UNCHANGED vars => Single' /\ LinkStep
<1> SUFFICES ASSUME Single, UNCHANGED vars
             PROVE  Single' /\ LinkStep
  OBVIOUS
<1>1. /\ slice' = slice /\ dma' = dma /\ buffer' = buffer /\ numTgm' = numTgm /\ syncTx' = syncTx
      /\ amTgm' = amTgm /\ dev' = dev /\ failSafe' = failSafe /\ host' = host
  BY DEF vars, rxVars
<1>2. HtTypeOK' /\ QueuesInv'
  BY <1>1 DEF Single, HtTypeOK, QueuesInv
<1>3. LinkInv' /\ Conversation(dev[C1], host)'
  BY <1>1 DEF Single, LinkInv, Arrived
<1> QED
  BY <1>1, <1>2, <1>3 DEF Single, LinkStep, LinkVars

\* Every step keeps the invariant of the link, and is one of the abstract link or none.
LEMMA SingleStep == Single /\ [Next]_vars => Single' /\ LinkStep
<1> SUFFICES ASSUME Single, [Next]_vars
             PROVE  Single' /\ LinkStep
  OBVIOUS
<1>1. CASE aicMgrRx_CheckForNewTgm
  BY <1>1, SlicesCheck
<1>2. CASE aicMgrRx_ProcessTgm
  BY <1>2, TelegramProcessed
<1>3. CASE aicMgrTx_MergeSendAsmTgm
  BY <1>3, TelegramBuilt
<1>4. CASE HostSends \/ HostIsDisturbed
  <2>1. PICK late, hit, noise : noise \in {"bad", "partial"} /\ SendsNext(late, hit, noise)
    BY <1>4 DEF HostSends, HostIsDisturbed
  <2> QED
    BY <2>1, TelegramSent
<1>5. CASE HostReceives \/ HostMisses
  BY <1>5, TelegramReceived
<1>6. CASE UNCHANGED vars
  BY <1>6, NothingHappens
<1> QED
  BY <1>1, <1>2, <1>3, <1>4, <1>5, <1>6 DEF Next

\* The link at the start.
LEMMA InitiallySingle == Init => Single
BY InitiallyIInv DEF IInv

\* The invariant of the link holds always.
LEMMA AlwaysSingle == Spec => []Single
BY InitiallySingle, SingleStep, PTL DEF Spec

-----------------------------------------------------------------------------

\* The queue for the stack's messages never overflows (aicMsgCsal.c): a cycle
\* completes at most one message, and its task takes it; the queue of the
\* stack's own messages stays within its size.
THEOREM QueuesStayBounded == Spec => []TypeOK
<1>1. Single => TypeOK
  BY Bounds, BoundsAssumption DEF Single, HtTypeOK, QueuesInv, Queues, TypeOK
<1> QED
  BY <1>1, AlwaysSingle, PTL

\* The host gets the fragments of the responses in order, each once, whatever
\* telegrams are lost, damaged or repeated (aicMsgBld.c, aicMsgCtrlSts.c).
THEOREM AnswersComeInOrder == Spec => []AnswersInOrder
<1>1. Single => AnswersInOrder
  <2> SUFFICES ASSUME Single
               PROVE  AnswersInOrder
    OBVIOUS
  <2>1. PICK d, h : d = dev[C1] /\ h = host
    OBVIOUS
  <2>2. OpenIs(d, h) /\ PartsAgree(d, h) /\ h \in Hosts
    BY <2>1 DEF Single, Conversation, HtTypeOK
  <2>3. ASSUME InFlight(d, h)
        PROVE  h.open # << >> /\ d.send.what = Head(h.open) /\ d.send.part = h.parts + 1
    <3>1. d.send.part = h.parts + 1
      BY <2>2, <2>3 DEF PartsAgree
    <3>2. Len(h.open) > 0 /\ d.send.what = h.open[1]
      <4>1. CASE LastInFlight(d, h)
        BY <2>2, <4>1 DEF OpenIs, One
      <4>2. CASE ~LastInFlight(d, h)
        <5>1. Responds(d) /\ d.send.what = d.req /\ ~Idle(d)
          BY <2>2, <2>3, <4>2 DEF PartsAgree, Responds, Idle
        <5> QED
          BY <2>2, <4>2, <5>1 DEF OpenIs, One
      <4> QED
        BY <4>1, <4>2
    <3>3. h.open \in Seq(Requests)
      BY <2>2 DEF Hosts
    <3> QED
      BY <3>1, <3>2, <3>3
  <2> QED
    BY <2>1, <2>3 DEF AnswersInOrder, InFlight
<1> QED
  BY <1>1, AlwaysSingle, PTL

\* The flags implement the link of HostLink: every step of the telegrams is one
\* of the link in one or both directions, or none (aicMsgCtrlSts.c).
THEOREM LinkImplemented == Spec => LinkWorks
<1>1. Init => Link!Init
  BY Bounds DEF Init, Link!Init, FirstMessages, FirstHost, NoFragment, Fragment
<1>2. LinkStep => [Link!Next]_LinkVars
  BY DEF LinkStep
<1> QED
  BY <1>1, <1>2, SingleStep, AlwaysSingle, PTL DEF Spec, LinkWorks, Link!Spec, LinkVars

-----------------------------------------------------------------------------
(* The steps, for the two controllers *)

\* The counts of telegrams of two controllers tell none, one more and one less
\* apart: their range is more than 2.
LEMMA CountsDiffer ==
  \A n \in 0 .. TgmWrap - 1 : (n + 1) % TgmWrap # n /\ (((n + 1) % TgmWrap) + 1) % TgmWrap # n
<1> SUFFICES ASSUME NEW n \in 0 .. TgmWrap - 1
             PROVE  (n + 1) % TgmWrap # n /\ (((n + 1) % TgmWrap) + 1) % TgmWrap # n
  OBVIOUS
<1>1. PICK m : m = (n + 1) % TgmWrap
  OBVIOUS
<1>2. CASE n = TgmWrap - 1
  <2>1. m = 0
    BY <1>1, <1>2, Bounds
  <2>2. (m + 1) % TgmWrap = 1
    BY <2>1, Bounds
  <2> QED
    BY <1>1, <1>2, <2>1, <2>2, Bounds
<1>3. CASE n < TgmWrap - 1
  <2>1. m = n + 1
    BY <1>1, <1>3, Bounds
  <2>2. CASE m = TgmWrap - 1
    <3>1. (m + 1) % TgmWrap = 0
      BY <2>2, Bounds
    <3> QED
      BY <1>1, <2>1, <2>2, <3>1, Bounds
  <2>3. CASE m < TgmWrap - 1
    <3>1. (m + 1) % TgmWrap = m + 1
      BY <2>1, <2>3, Bounds
    <3> QED
      BY <1>1, <2>1, <3>1, Bounds
  <2> QED
    BY <1>3, <2>1, <2>2, <2>3, Bounds
<1> QED
  BY <1>2, <1>3, Bounds

\* When both look for a telegram, and neither or one has one more than the
\* other before, the same holds afterwards.
LEMMA BothCheck ==
  ASSUME HtTypeOK, CheckForNewTgm(C), Even \/ \E c \in C : OneAhead(c)
  PROVE  Even' \/ \E c \in C : OneAhead(c)'
<1>1. /\ dma' = [c \in C |-> IF c \in C /\ NewTgmReceived(c) THEN "empty"
                             ELSE IF dma[c] = "late" THEN "full" ELSE dma[c]]
      /\ buffer' = [c \in C |-> IF c \in C /\ NewTgmReceived(c) THEN FirstTgm ELSE buffer[c]]
      /\ numTgm' = [c \in C |-> IF c \in C /\ dma[c] = "full" THEN (numTgm[c] + 1) % TgmWrap
                                ELSE numTgm[c]]
      /\ amTgm' = [c \in C |-> IF c \in C /\ dma[c] = "full" THEN buffer[c] ELSE amTgm[c]]
  BY CheckIs
<1>2. \A c \in C :
        /\ dma'[c] = IF dma[c] \in {"bad", "full"} THEN "empty"
                     ELSE IF dma[c] = "late" THEN "full" ELSE dma[c]
        /\ dma[c] \notin {"bad", "full"} => buffer'[c] = buffer[c]
        /\ numTgm'[c] = IF dma[c] = "full" THEN (numTgm[c] + 1) % TgmWrap ELSE numTgm[c]
        /\ amTgm'[c] = IF dma[c] = "full" THEN buffer[c] ELSE amTgm[c]
  BY <1>1 DEF NewTgmReceived
<1>3. ASSUME Even, dma[C1] = dma[C2]
      PROVE  Even'
  BY <1>2, <1>3, Bounds DEF Even, Arrived
<1>4. ASSUME Even, NEW c \in C, dma[c] = "full", dma[Peer(c)] = "late"
      PROVE  OneAhead(c)'
  <2>1. Peer(c) \in C /\ buffer[c] = buffer[Peer(c)] /\ numTgm[c] = numTgm[Peer(c)]
    BY <1>4, Bounds DEF Even, Arrived
  <2> QED
    BY <1>2, <1>4, <2>1 DEF OneAhead
<1>5. ASSUME NEW c \in C, OneAhead(c)
      PROVE  Even'
  <2>1. PICK p : p = Peer(c)
    OBVIOUS
  <2>2. p \in C /\ {c, p} = {C1, C2} /\ C1 \in C /\ C2 \in C
    BY <2>1, Bounds
  <2>3. /\ dma[c] = "empty" /\ dma[p] = "full" /\ numTgm[c] = (numTgm[p] + 1) % TgmWrap
        /\ amTgm[c] = buffer[p]
    BY <1>5, <2>1 DEF OneAhead
  <2>4. /\ dma'[c] = "empty" /\ dma'[p] = "empty" /\ numTgm'[c] = numTgm'[p]
        /\ amTgm'[c] = amTgm'[p]
    BY <1>2, <2>2, <2>3
  <2> QED
    BY <2>2, <2>4 DEF Even, Arrived
<1>6. ASSUME Even, Arrived(C1), Arrived(C2), dma[C1] # dma[C2]
      PROVE  \E c \in C : dma[c] = "full" /\ dma[Peer(c)] = "late"
  BY <1>6, Bounds DEF Arrived
<1> QED
  BY <1>3, <1>4, <1>5, <1>6 DEF Even

\* Slices 3 and 23.
LEMMA PairChecks == Single /\ PairInv /\ aicMgrRx_CheckForNewTgm => PairInv'
<1> SUFFICES ASSUME Single, PairInv, aicMgrRx_CheckForNewTgm, split = 0
             PROVE  PairInv'
  BY DEF PairInv, aicMgrRx_CheckForNewTgm, Slice
<1>1. /\ CheckForNewTgm(C) /\ dev' = dev /\ failSafe' = failSafe /\ split' = split
      /\ \/ slice = 3 /\ slice' = 6 /\ syncTx' = numTgm'
         \/ slice = 23 /\ slice' = 38
  BY DEF aicMgrRx_CheckForNewTgm, Slice
<1>2. Even' \/ \E c \in C : OneAhead(c)'
  BY <1>1, BothCheck DEF Single, PairInv
<1> QED
  BY <1>1, <1>2 DEF PairInv, Running

\* After slice 6 both work with the same telegram.
LEMMA PairProcesses == Single /\ PairInv /\ aicMgrRx_ProcessTgm => PairInv'
<1> SUFFICES ASSUME Single, PairInv, aicMgrRx_ProcessTgm, split = 0
             PROVE  PairInv'
  BY DEF PairInv, aicMgrRx_ProcessTgm, Slice
<1>1. PICK cs : cs = {c \in C : Behind(c)}
  OBVIOUS
<1>2. /\ CheckForNewTgm(cs) /\ split' = split /\ slice = 6 /\ slice' = 23
      /\ failSafe' = [c \in C |-> IF MustStop(c) THEN "AIC_SYNC_ERR" ELSE "none"]
      /\ dev' = [c \in C |-> IF MustStop(c) THEN dev[c]
                             ELSE aicMsgProc_ProcessMsg(dev[c], amTgm'[c])]
  BY <1>1 DEF aicMgrRx_ProcessTgm, Slice
<1>3. /\ dma' = [c \in C |-> IF c \in cs /\ NewTgmReceived(c) THEN "empty"
                             ELSE IF dma[c] = "late" THEN "full" ELSE dma[c]]
      /\ buffer' = [c \in C |-> IF c \in cs /\ NewTgmReceived(c) THEN FirstTgm ELSE buffer[c]]
      /\ numTgm' = [c \in C |-> IF c \in cs /\ dma[c] = "full" THEN (numTgm[c] + 1) % TgmWrap
                                ELSE numTgm[c]]
      /\ amTgm' = [c \in C |-> IF c \in cs /\ dma[c] = "full" THEN buffer[c] ELSE amTgm[c]]
  BY <1>2, CheckIs
<1>4. \A c \in C :
        /\ dma'[c] = IF c \in cs /\ dma[c] \in {"bad", "full"} THEN "empty"
                     ELSE IF dma[c] = "late" THEN "full" ELSE dma[c]
        /\ c \notin cs => buffer'[c] = buffer[c]
        /\ numTgm'[c] = IF c \in cs /\ dma[c] = "full" THEN (numTgm[c] + 1) % TgmWrap
                        ELSE numTgm[c]
        /\ amTgm'[c] = IF c \in cs /\ dma[c] = "full" THEN buffer[c] ELSE amTgm[c]
  BY <1>3 DEF NewTgmReceived
<1>5. /\ dev[C1] = dev[C2] /\ syncTx = numTgm /\ (Even \/ \E c \in C : OneAhead(c))
      /\ \A c \in C : numTgm[c] \in 0 .. TgmWrap - 1
  BY <1>2 DEF PairInv, Single, HtTypeOK
<1>6. Even' /\ \A c \in C : ~MustStop(c)
  <2>1. ASSUME Even
        PROVE  Even' /\ \A c \in C : ~MustStop(c)
    <3>1. \A c \in C : Peer(c) \in C /\ numTgm[Peer(c)] = numTgm[c]
      BY <2>1, Bounds DEF Even
    <3>2. \A c \in C : c \notin cs
      BY <1>1, <1>5, <3>1, CountsDiffer DEF Behind
    <3>3. \A c \in C : ~MustStop(c)
      BY <1>4, <1>5, <3>1, <3>2 DEF MustStop
    <3>4. Even'
      BY <1>4, <2>1, <3>2, Bounds DEF Even, Arrived
    <3> QED
      BY <3>3, <3>4
  <2>2. ASSUME NEW c \in C, OneAhead(c)
        PROVE  Even' /\ \A i \in C : ~MustStop(i)
    <3>1. PICK p : p = Peer(c)
      OBVIOUS
    <3>2. p \in C /\ {c, p} = {C1, C2} /\ C1 \in C /\ C2 \in C /\ Peer(p) = c /\ C = {c, p}
      BY <3>1, Bounds
    <3>3. /\ dma[c] = "empty" /\ dma[p] = "full" /\ numTgm[c] = (numTgm[p] + 1) % TgmWrap
          /\ amTgm[c] = buffer[p]
      BY <2>2, <3>1 DEF OneAhead
    <3>4. p \in cs
      BY <1>1, <1>5, <3>2, <3>3 DEF Behind
    <3>5. c \notin cs
      BY <1>1, <1>5, <3>1, <3>2, <3>3, CountsDiffer DEF Behind
    <3>6. /\ dma'[c] = "empty" /\ dma'[p] = "empty" /\ numTgm'[c] = numTgm[c]
          /\ numTgm'[p] = numTgm[c] /\ amTgm'[c] = amTgm'[p]
      BY <1>4, <3>2, <3>3, <3>4, <3>5
    <3>7. Even'
      BY <3>2, <3>6 DEF Even, Arrived
    <3>8. ~MustStop(p)
      BY <1>5, <3>2, <3>6 DEF MustStop
    <3>9. ~MustStop(c)
      BY <1>5, <3>1, <3>3 DEF MustStop, Ahead
    <3> QED
      BY <3>2, <3>7, <3>8, <3>9
  <2> QED
    BY <1>5, <2>1, <2>2
<1>7. dev'[C1] = dev'[C2]
  BY <1>2, <1>5, <1>6, Bounds DEF Even
<1>8. \A c \in C : failSafe'[c] = "none"
  BY <1>2, <1>6
<1> QED
  BY <1>2, <1>6, <1>7, <1>8 DEF PairInv, Running

\* Slice 38.
LEMMA PairBuilds == Single /\ PairInv /\ aicMgrTx_MergeSendAsmTgm => PairInv'
<1> SUFFICES ASSUME PairInv, aicMgrTx_MergeSendAsmTgm
             PROVE  PairInv'
  OBVIOUS
<1>1. PICK put : dev' = [c \in C |-> aicMsgBld_BuildMsg(Background(dev[c], put))]
  BY DEF aicMgrTx_MergeSendAsmTgm
<1>2. /\ dma' = dma /\ buffer' = buffer /\ numTgm' = numTgm /\ syncTx' = syncTx /\ amTgm' = amTgm
      /\ failSafe' = failSafe /\ split' = split /\ slice' = 3
  BY DEF aicMgrTx_MergeSendAsmTgm, Slice, rxVars
<1>3. dev[C1] = dev[C2] => dev'[C1] = dev'[C2]
  BY <1>1, Bounds
<1>4. /\ Even => Even'
      /\ \A c \in C : OneAhead(c) => OneAhead(c)'
      /\ \A c \in C : Running(c) => Running(c)'
  BY <1>2 DEF Even, OneAhead, Running, Arrived
<1> QED
  BY <1>2, <1>3, <1>4 DEF PairInv

\* A telegram that reaches both, or neither, leaves them in step.
LEMMA PairHears == Single /\ PairInv /\ (HostSends \/ HostIsDisturbed) => PairInv'
<1> SUFFICES ASSUME Single, PairInv, HostSends \/ HostIsDisturbed
             PROVE  PairInv'
  OBVIOUS
<1>1. PICK late, hit, noise :
        /\ SendsNext(late, hit, noise)
        /\ \/ /\ hit = {} /\ late \in {{}, {C1}, {C2}}
              /\ late # {} => \A c \in C : dma[c] = "empty"
              /\ split' = IF split = 0 THEN 0 ELSE split + 1
           \/ /\ late = {} /\ noise \in {"partial", "bad"}
              /\ split' = IF split = 0 /\ hit = C THEN 0 ELSE split + 1
  BY DEF HostSends, HostIsDisturbed
<1>2. PICK g : Transmit(TgmOf(g), late, hit, noise)
  BY <1>1 DEF SendsNext
<1>3. /\ slice' = slice /\ numTgm' = numTgm /\ syncTx' = syncTx /\ amTgm' = amTgm
      /\ dev' = dev /\ failSafe' = failSafe
      /\ \A c \in C : dma[c] \in {"empty", "partial"}
  BY <1>1 DEF SendsNext
<1>4. split \in Nat /\ split' \in Nat /\ (split' = 0 => split = 0)
  BY <1>1 DEF PairInv
<1>5. ASSUME split' = 0
      PROVE  Even'
  <2>1. Even
    <3>1. \A c \in C : ~OneAhead(c)
      BY <1>3, Bounds DEF OneAhead
    <3> QED
      BY <1>4, <1>5, <3>1 DEF PairInv
  <2>2. dma[C1] = dma[C2] /\ dma[C1] \in {"empty", "partial"}
    BY <1>3, <2>1, Bounds DEF Even, Arrived
  <2>3. /\ dma' = [c \in C |-> CASE c \in hit                            -> noise
                                 [] c \in late                           -> "late"
                                 [] c \notin hit \cup late /\ dma[c] = "partial" -> "bad"
                                 [] OTHER                                -> "full"]
        /\ buffer' = [c \in C |-> IF dma'[c] \in {"late", "full"} THEN TgmOf(g) ELSE buffer[c]]
    BY <1>2 DEF Transmit
  <2>4. Arrived(C1)' /\ Arrived(C2)' => buffer'[C1] = buffer'[C2]
    BY <2>3, Bounds DEF Arrived
  <2>5. CASE hit = C
    <3>1. late = {} /\ noise \in {"partial", "bad"}
      BY <1>1, <2>5, Bounds
    <3>2. dma'[C1] = noise /\ dma'[C2] = noise
      BY <2>3, <2>5, <3>1, Bounds
    <3> QED
      BY <1>3, <2>1, <3>1, <3>2 DEF Even, Arrived
  <2>6. CASE hit = {} /\ late = {}
    <3>1. \A c \in C : dma'[c] = IF dma[c] = "partial" THEN "bad" ELSE "full"
      BY <2>3, <2>6
    <3>2. dma'[C1] = dma'[C2]
      BY <2>2, <3>1, Bounds
    <3> QED
      BY <1>3, <2>1, <2>4, <3>2 DEF Even, Arrived
  <2>7. CASE hit = {} /\ late \in {{C1}, {C2}}
    <3>1. \A c \in C : dma'[c] \in {"late", "full"}
      BY <1>1, <2>3, <2>7
    <3> QED
      BY <1>3, <2>1, <2>4, <3>1, Bounds DEF Even, Arrived
  <2> QED
    BY <1>1, <1>4, <1>5, <2>5, <2>6, <2>7
<1> QED
  BY <1>3, <1>4, <1>5 DEF PairInv, Running

\* The other steps do not concern the pair.
LEMMA PairWaits == PairInv /\ (HostReceives \/ HostMisses \/ UNCHANGED vars) => PairInv'
<1> SUFFICES ASSUME PairInv, HostReceives \/ HostMisses \/ UNCHANGED vars
             PROVE  PairInv'
  OBVIOUS
<1>1. /\ slice' = slice /\ dma' = dma /\ buffer' = buffer /\ numTgm' = numTgm /\ syncTx' = syncTx
      /\ amTgm' = amTgm /\ dev' = dev /\ failSafe' = failSafe /\ split' = split
  BY DEF HostReceives, HostMisses, rxVars, vars
<1>2. /\ Even => Even'
      /\ \A c \in C : OneAhead(c) => OneAhead(c)'
      /\ \A c \in C : Running(c) => Running(c)'
  BY <1>1 DEF Even, OneAhead, Running, Arrived
<1> QED
  BY <1>1, <1>2 DEF PairInv

\* Every step keeps the controllers in step.
LEMMA PairStep == Single /\ PairInv /\ [Next]_vars => PairInv'
BY PairChecks, PairProcesses, PairBuilds, PairHears, PairWaits DEF Next

\* As long as no telegram is damaged for one controller only, both work with the
\* same telegrams and neither stops (aicMgrRx_DoAicSync).
THEOREM ControllersStayInStep == Spec => []InStep
<1>1. Init => PairInv
  BY InitiallyIInv DEF IInv
<1>2. Spec => []PairInv
  BY <1>1, AlwaysSingle, PairStep, PTL DEF Spec
<1>3. PairInv => InStep
  BY DEF PairInv, InStep, SameTelegram, Even
<1> QED
  BY <1>2, <1>3, PTL

=============================================================================

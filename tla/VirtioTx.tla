------------------------------ MODULE VirtioTx ------------------------------
(***************************************************************************)
(* The sending half of drivers/rpmsg/aw_virtio_rpmsg_bus.c: a fixed set of *)
(* transmit buffers, any number of senders, and senders that sleep when no *)
(* buffer is free.  The "tx complete" interrupt that wakes them is only    *)
(* enabled while somebody sleeps.                                          *)
(*                                                                         *)
(* A step is one section under tx_lock or one step of the kernel's         *)
(* wait_event_interruptible_timeout.  The virtqueue, the wait queue and    *)
(* the remote core are external: a buffer is posted in the avail ring,     *)
(* read by the remote and returned in the used ring, and the remote looks  *)
(* at the interrupt flag after it returned a buffer.                       *)
(***************************************************************************)
EXTENDS Naturals, Sequences, FiniteSets

CONSTANTS
  Senders,   \* threads that send
  NBufs,     \* transmit buffers, num_bufs / 2
  RingSize,  \* descriptors of the tx virtqueue
  NoBuf,     \* the null pointer
  Free,      \* owner of a buffer that may be taken (see TxPool)
  Remote     \* owner of a buffer posted and not returned

ASSUME ConstantsAssumption ==
  /\ NBufs \in Nat \ {0} /\ RingSize \in Nat /\ NBufs <= RingSize
  /\ IsFiniteSet(Senders) /\ NoBuf \notin Nat
  /\ Free # Remote /\ Free \notin Senders /\ Remote \notin Senders

VARIABLES
  last_sbuf, \* buffers handed out for the first time so far
  avail,     \* avail ring: buffers posted, oldest first
  reading,   \* buffers the remote core works on
  used,      \* used ring: buffers returned and not yet reclaimed
  note,      \* the remote returned a buffer and has yet to look at cb
  cb,        \* tx complete interrupts are enabled
  irq,       \* such an interrupt is pending
  sleepers,  \* vrp->sleepers
  sendq,     \* the wait queue vrp->sendq
  pc,        \* pc[t]: where t stands in rpmsg_send_offchannel_raw
  msg,       \* msg[t]: the buffer t got
  block,     \* block[t]: the parameter wait of t's call
  why,       \* why[t]: "late" or "int" once t's time is over or a signal is seen
  sig,       \* sig[t]: t has a signal pending
  data       \* data[b]: the sender that wrote b last

remote == <<avail, reading, used, note, irq>>
wq     == <<sleepers, cb, sendq>>
vars   == <<last_sbuf, remote, wq, pc, msg, block, why, sig, data>>

Bufs == 0..(NBufs - 1)
Waiting == {"try", "enq", "check", "sleep", "down"}

TypeOK ==
  /\ last_sbuf \in 0..NBufs
  /\ avail \in Seq(Bufs) /\ reading \in SUBSET Bufs /\ used \in Seq(Bufs)
  /\ note \in BOOLEAN /\ cb \in BOOLEAN /\ irq \in BOOLEAN
  /\ sleepers \in Nat /\ sendq \in SUBSET Senders
  /\ pc \in [Senders -> {"idle", "get", "up", "fill", "post"} \cup Waiting]
  /\ msg \in [Senders -> Bufs \cup {NoBuf}]
  /\ block \in [Senders -> BOOLEAN] /\ sig \in [Senders -> BOOLEAN]
  /\ why \in [Senders -> {"none", "late", "int"}]
  /\ data \in [Bufs -> Senders]

\* rpmsg_probe: no buffer was handed out, interrupts are suppressed
Init ==
  /\ last_sbuf = 0
  /\ avail = << >> /\ reading = {} /\ used = << >>
  /\ note = FALSE /\ cb = FALSE /\ irq = FALSE
  /\ sleepers = 0 /\ sendq = {}
  /\ pc = [t \in Senders |-> "idle"]
  /\ msg = [t \in Senders |-> NoBuf]
  /\ block = [t \in Senders |-> FALSE]
  /\ why = [t \in Senders |-> "none"]
  /\ sig = [t \in Senders |-> FALSE]
  /\ data \in [Bufs -> Senders]

-----------------------------------------------------------------------------
(* rpmsg_send_offchannel_raw.                                              *)

Goto(t, l) == pc' = [pc EXCEPT ![t] = l]

\* Back to user mode, where a pending signal is dealt with
Return(t) == Goto(t, "idle") /\ sig' = [sig EXCEPT ![t] = FALSE]

\* get_a_tx_buf: the next buffer never used so far, or a returned one.
\* (Mutant: a returned buffer is not taken out of the ring.)
CanGet == last_sbuf < NBufs \/ used # << >>

TakeBufMutant(t) ==
  /\ CanGet
  /\ IF last_sbuf < NBufs
       THEN /\ msg' = [msg EXCEPT ![t] = last_sbuf]
            /\ last_sbuf' = last_sbuf + 1 /\ UNCHANGED used
       ELSE /\ msg' = [msg EXCEPT ![t] = Head(used)]
            /\ UNCHANGED <<last_sbuf, used>>
TakeBuf(t) ==
  /\ CanGet
  /\ IF last_sbuf < NBufs
       THEN /\ msg' = [msg EXCEPT ![t] = last_sbuf]
            /\ last_sbuf' = last_sbuf + 1 /\ UNCHANGED used
       ELSE /\ msg' = [msg EXCEPT ![t] = Head(used)]
            /\ used' = Tail(used) /\ UNCHANGED last_sbuf

NoBufFor(t) == ~CanGet /\ UNCHANGED <<msg, last_sbuf, used>>

\* A call: rpmsg_send (w) or rpmsg_trysend, past the checks of its arguments
Call(t, w) ==
  /\ pc[t] = "idle"
  /\ Goto(t, "get") /\ block' = [block EXCEPT ![t] = w]
  /\ UNCHANGED <<last_sbuf, remote, wq, msg, why, sig, data>>

\* The first attempt; without a buffer rpmsg_trysend returns -ENOMEM
Get(t) ==
  /\ pc[t] = "get"
  /\ \/ TakeBuf(t) /\ Goto(t, "fill") /\ UNCHANGED sig
     \/ NoBufFor(t) /\ block[t] /\ Goto(t, "up") /\ UNCHANGED sig
     \/ NoBufFor(t) /\ ~block[t] /\ Return(t)
  /\ UNCHANGED <<avail, reading, note, irq, wq, block, why, data>>

\* rpmsg_upref_sleepers: the first sleeper enables the interrupt.  (Mutant: the
\* sleeper is not counted.)
UprefMutant(t) ==
  /\ pc[t] = "up" /\ Goto(t, "try")
  /\ cb' = (cb \/ sleepers = 0)
  /\ UNCHANGED <<sleepers, last_sbuf, remote, sendq, msg, block, why, sig, data>>
Upref(t) ==
  /\ pc[t] = "up" /\ Goto(t, "try")
  /\ sleepers' = sleepers + 1
  /\ cb' = (cb \/ sleepers = 0)
  /\ UNCHANGED <<last_sbuf, remote, sendq, msg, block, why, sig, data>>

\* wait_event_interruptible_timeout: the condition, which takes a buffer, is
\* first evaluated before t is in the wait queue
Try(t) ==
  /\ pc[t] = "try"
  /\ \/ TakeBuf(t) /\ Goto(t, "down")
     \/ NoBufFor(t) /\ Goto(t, "enq")
  /\ UNCHANGED <<avail, reading, note, irq, wq, block, why, sig, data>>

\* prepare_to_wait_event enters t in the queue unless a signal is pending
Prepare(t) ==
  /\ pc[t] = "enq" /\ Goto(t, "check")
  /\ sendq' = IF sig[t] THEN sendq \ {t} ELSE sendq \cup {t}
  /\ why' = IF sig[t] /\ why[t] = "none" THEN [why EXCEPT ![t] = "int"] ELSE why
  /\ UNCHANGED <<last_sbuf, remote, sleepers, cb, msg, block, sig, data>>

\* The condition again; then finish_wait, or schedule_timeout
Check(t) ==
  /\ pc[t] = "check"
  /\ \/ TakeBuf(t) /\ Goto(t, "down") /\ sendq' = sendq \ {t}
     \/ NoBufFor(t) /\ why[t] # "none" /\ Goto(t, "down") /\ sendq' = sendq \ {t}
     \/ NoBufFor(t) /\ why[t] = "none" /\ Goto(t, "sleep") /\ UNCHANGED sendq
  /\ UNCHANGED <<avail, reading, note, irq, sleepers, cb, block, why, sig, data>>

\* schedule_timeout returns: t was woken and thereby left the queue, or has a
\* signal ...
Awake(t) ==
  /\ pc[t] = "sleep" /\ (t \notin sendq \/ sig[t])
  /\ Goto(t, "enq")
  /\ UNCHANGED <<last_sbuf, remote, wq, msg, block, why, sig, data>>

\* ... or its 15 seconds are over
Timer(t) ==
  /\ pc[t] = "sleep"
  /\ Goto(t, "enq") /\ why' = [why EXCEPT ![t] = "late"]
  /\ UNCHANGED <<last_sbuf, remote, wq, msg, block, sig, data>>

\* rpmsg_downref_sleepers; then t has a buffer, gives up (-ERESTARTSYS), or,
\* interrupted and without a buffer, begins again.  (Mutants: a sender that gives
\* up is not counted out; one whose time is over begins again, too.)
DownrefMutant(t) ==
  /\ pc[t] = "down"
  /\ why' = [why EXCEPT ![t] = "none"]
  /\ \/ /\ msg[t] # NoBuf /\ Goto(t, "fill") /\ UNCHANGED sig
        /\ sleepers' = sleepers - 1 /\ cb' = (cb /\ sleepers # 1)
     \/ /\ msg[t] = NoBuf /\ why[t] = "late" /\ Return(t)
        /\ UNCHANGED <<sleepers, cb>>
     \/ /\ msg[t] = NoBuf /\ why[t] # "late" /\ Goto(t, "up") /\ UNCHANGED sig
        /\ sleepers' = sleepers - 1 /\ cb' = (cb /\ sleepers # 1)
  /\ UNCHANGED <<last_sbuf, remote, sendq, msg, block, data>>
DownrefRetryMutant(t) ==
  /\ pc[t] = "down"
  /\ sleepers' = sleepers - 1 /\ cb' = (cb /\ sleepers # 1)
  /\ why' = [why EXCEPT ![t] = "none"]
  /\ Goto(t, IF msg[t] # NoBuf THEN "fill" ELSE "up") /\ UNCHANGED sig
  /\ UNCHANGED <<last_sbuf, remote, sendq, msg, block, data>>
Downref(t) ==
  /\ pc[t] = "down"
  /\ sleepers' = sleepers - 1 /\ cb' = (cb /\ sleepers # 1)
  /\ why' = [why EXCEPT ![t] = "none"]
  /\ \/ msg[t] # NoBuf /\ Goto(t, "fill") /\ UNCHANGED sig
     \/ msg[t] = NoBuf /\ why[t] = "late" /\ Return(t)
     \/ msg[t] = NoBuf /\ why[t] # "late" /\ Goto(t, "up") /\ UNCHANGED sig
  /\ UNCHANGED <<last_sbuf, remote, sendq, msg, block, data>>

\* Header and payload are written without a lock
Fill(t) ==
  /\ pc[t] = "fill" /\ Goto(t, "post")
  /\ data' = [data EXCEPT ![msg[t]] = t]
  /\ UNCHANGED <<last_sbuf, remote, wq, msg, block, why, sig>>

\* virtqueue_add_outbuf and virtqueue_kick.  When no descriptor is free the
\* message, and with it its buffer, is lost.
InRing == Len(avail) + Cardinality(reading) + Len(used)

Post(t) ==
  /\ pc[t] = "post" /\ Return(t)
  /\ avail' = IF InRing < RingSize THEN Append(avail, msg[t]) ELSE avail
  /\ msg' = [msg EXCEPT ![t] = NoBuf]
  /\ UNCHANGED <<last_sbuf, reading, used, note, irq, wq, block, why, data>>

Signal(t) ==
  /\ pc[t] # "idle" /\ ~sig[t]
  /\ sig' = [sig EXCEPT ![t] = TRUE]
  /\ UNCHANGED <<last_sbuf, remote, wq, pc, msg, block, why, data>>

-----------------------------------------------------------------------------
(* The remote core and the interrupt.                                      *)

Local == UNCHANGED <<last_sbuf, wq, pc, msg, block, why, sig, data>>

RemoteTake ==
  /\ avail # << >>
  /\ reading' = reading \cup {Head(avail)} /\ avail' = Tail(avail)
  /\ UNCHANGED <<used, note, irq>> /\ Local

RemotePut(b) ==
  /\ b \in reading /\ ~note
  /\ reading' = reading \ {b} /\ used' = Append(used, b) /\ note' = TRUE
  /\ UNCHANGED <<avail, irq>> /\ Local

RemoteNotify ==
  /\ note /\ note' = FALSE /\ irq' = (irq \/ cb)
  /\ UNCHANGED <<avail, reading, used>> /\ Local

\* vring_interrupt calls rpmsg_xmit_done when the used ring has an entry, which
\* wakes all sleepers; a woken thread leaves the queue.  (Mutant: one sleeper
\* is woken, whoever it is.)
XmitDoneMutant ==
  /\ irq /\ irq' = FALSE
  /\ IF used = << >> \/ sendq = {} THEN UNCHANGED sendq
     ELSE \E t \in sendq : sendq' = sendq \ {t}
  /\ UNCHANGED <<last_sbuf, avail, reading, used, note, sleepers, cb,
                 pc, msg, block, why, sig, data>>
XmitDone ==
  /\ irq /\ irq' = FALSE
  /\ sendq' = IF used = << >> THEN sendq ELSE {}
  /\ UNCHANGED <<last_sbuf, avail, reading, used, note, sleepers, cb,
                 pc, msg, block, why, sig, data>>

-----------------------------------------------------------------------------
Step(t) ==
  \/ Get(t) \/ Upref(t) \/ Try(t) \/ Prepare(t) \/ Check(t) \/ Awake(t)
  \/ Downref(t) \/ Fill(t) \/ Post(t)

Next ==
  \/ \E t \in Senders :
       \/ \E w \in BOOLEAN : Call(t, w)
       \/ Step(t) \/ Timer(t) \/ Signal(t)
  \/ RemoteTake \/ \E b \in Bufs : RemotePut(b)
  \/ RemoteNotify \/ XmitDone

\* Threads run on and interrupts are delivered.  The remote core may stop
\* returning buffers.  The timer is strongly fair: a wake-up does not renew
\* the 15 seconds, the wait goes on with what is left of them.
Fairness ==
  /\ \A t \in Senders : WF_vars(Step(t)) /\ SF_vars(Timer(t))
  /\ WF_vars(RemoteNotify) /\ WF_vars(XmitDone)

Spec == Init /\ [][Next]_vars

FairSpec == Spec /\ Fairness

-----------------------------------------------------------------------------
(* Properties.                                                             *)

Elems(s) == {s[i] : i \in DOMAIN s}

\* The places buffer b is in
Places(b) ==
       {<<"new", b>> : x \in {y \in {b} : y >= last_sbuf}}
  \cup {<<"held", t>> : t \in {u \in Senders : msg[u] = b}}
  \cup {<<"avail", i>> : i \in {j \in DOMAIN avail : avail[j] = b}}
  \cup {<<"reading", b>> : x \in {b} \cap reading}
  \cup {<<"used", i>> : i \in {j \in DOMAIN used : used[j] = b}}

\* Every transmit buffer is in exactly one place: two senders never get the
\* same buffer, no buffer is taken while the remote reads it, and a send that
\* times out, is interrupted or finds the ring full loses none.
OnePlace == \A b \in Bufs : \E p \in Places(b) : Places(b) = {p}

\* No sender sleeps on while a buffer is free: whenever the used ring holds a
\* buffer and a sleeper was not woken yet, the remote has still to look at the
\* interrupt flag, and will find it set, or the interrupt is pending.
NoLostWakeup ==
  (used # << >> /\ \E t \in sendq : pc[t] = "sleep") => irq \/ (note /\ cb)

\* virtqueue_add_outbuf always finds a descriptor, so the branch that loses a
\* buffer is dead
RingHasRoom == \A t \in Senders : pc[t] = "post" => InRing < RingSize

\* Once nobody waits for a buffer the interrupt is suppressed again
QuietWhenIdle == (\A t \in Senders : pc[t] \notin Waiting) => ~cb /\ sleepers = 0

\* A sender that no signal reaches returns, with or without a buffer, even if
\* the remote core stops
SendReturns == \A t \in Senders : pc[t] # "idle" ~> pc[t] = "idle" \/ sig[t]

\* The buffers implement TxPool
Own == [b \in Bufs |->
  IF b >= last_sbuf \/ b \in Elems(used) THEN Free
  ELSE IF \E t \in Senders : msg[t] = b THEN CHOOSE t \in Senders : msg[t] = b
  ELSE Remote]

Pool == INSTANCE TxPool WITH own <- Own

\* A buffer changes hands only from free to one sender, to the remote and back,
\* and its contents change only while that sender owns it
PoolSpec == Pool!Spec
=============================================================================

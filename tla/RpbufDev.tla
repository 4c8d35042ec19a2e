------------------------------ MODULE RpbufDev ------------------------------
(***************************************************************************)
(* One buffer device, /dev/rpbuf-NAME, of drivers/rpbuf/rpbuf_dev.c, with  *)
(* the flags of its buffer in rpbuf_core.c.  Threads open and close the    *)
(* device and wait for data; the rpmsg receive context runs the handlers   *)
(* of the remote's messages and their callbacks.  The buffer protocol      *)
(* itself is module RpbufCore: here the remote allocates and frees its     *)
(* buffer, and transmits, whenever it may.                                 *)
(*                                                                         *)
(* buffer->state is read, changed and written without a common lock, so    *)
(* that both halves of such a statement are steps.  Timeouts and signals   *)
(* may come whenever the code waits.  Left out: copies from user space     *)
(* that fail, kill_fasync, poll and transmit.                              *)
(***************************************************************************)
EXTENDS Integers, FiniteSets

CONSTANT Threads  \* threads that use the device

ASSUME DevAssumption == IsFiniteSet(Threads)

VARIABLES
  can,      \* buf_dev->can_be_opened
  file,     \* a file of the device is open
  inst,     \* the rpbuf_buffer exists
  known,    \* the remote has allocated its own
  told,     \* the remote was told of ours
  flags,    \* buffer->state: WORKING, DESTROYED
  stuck,    \* controller_lock was left locked by an allocation
  need_ack, \* buffer->need_ack: the data ask for an acknowledgement
  owed,     \* no acknowledgement was tried for what asked for one, and no failed
            \* copy to user space took it away (history)
  used,     \* buffer->is_used_by_buf_dev
  done,     \* buf_dev->available is complete
  data,     \* recv_data_offset and recv_data_len hold unread data
  pc,       \* pc[t]: where thread t stands
  why,      \* why[t]: what t does: "open", "close", or the timeout of a receive
  woken,    \* waiting threads that were woken
  reg,      \* reg[t]: the flags t read
  rx,       \* where the receive context stands
  rx_sync,  \* the message it handles asks for an acknowledgement
  rx_reg,   \* the flags it read
  rx_lives, \* the buffer it works on still exists
  cut       \* a signal ended the wait of rpbuf_free_buffer (history)

device == <<can, file, done>>
buffer == <<inst, told, used>>
thread == <<pc, why, woken, reg>>
recv   == <<rx, rx_sync, rx_reg, rx_lives>>
acking == <<need_ack, owed>>
fault  == <<stuck, cut>>
vars   == <<device, buffer, known, flags, acking, data, thread, recv, fault>>

Flags == {"WORKING", "DESTROYED"}
Opening == {"alloc", "tell", "tellnow", "use", "wait"}
Freeing == {"mark", "marked", "lock", "fenq", "fcheck", "fsleep", "relock"}
Receiving == {"rlock", "renq", "rcheck", "rsleep", "late", "ack", "send"}

TypeOK ==
  /\ can \in Int /\ can <= 1 /\ file \in BOOLEAN
  /\ inst \in BOOLEAN /\ known \in BOOLEAN /\ told \in BOOLEAN
  /\ flags \in SUBSET Flags /\ need_ack \in BOOLEAN /\ used \in BOOLEAN
  /\ done \in BOOLEAN /\ data \in BOOLEAN /\ stuck \in BOOLEAN /\ owed \in BOOLEAN
  /\ pc \in [Threads -> {"idle", "busy", "put"} \cup Opening \cup Freeing \cup Receiving]
  /\ why \in [Threads -> {"open", "close", "zero", "timed", "forever"}]
  /\ woken \in SUBSET Threads /\ reg \in [Threads -> SUBSET Flags]
  /\ rx \in {"idle", "set", "test", "store", "wake", "reply", "answer", "complete", "gone",
             "clear", "cleared", "end"}
  /\ rx_sync \in BOOLEAN /\ rx_reg \in SUBSET Flags /\ rx_lives \in BOOLEAN
  /\ cut \in BOOLEAN

\* After rpbuf_ctrl_dev_ioctl_create_buf
Init ==
  /\ can = 1 /\ file = FALSE /\ inst = FALSE
  /\ known = FALSE /\ told = FALSE /\ flags = {} /\ need_ack = FALSE /\ used = FALSE
  /\ done = FALSE /\ data = FALSE /\ stuck = FALSE /\ owed = FALSE
  /\ pc = [t \in Threads |-> "idle"] /\ why = [t \in Threads |-> "open"]
  /\ woken = {} /\ reg = [t \in Threads |-> {}]
  /\ rx = "idle" /\ rx_sync = FALSE /\ rx_reg = {} /\ rx_lives = TRUE
  /\ cut = FALSE

Goto(t, l) == pc' = [pc EXCEPT ![t] = l]
Begin(t, w, l) == pc[t] = "idle" /\ why' = [why EXCEPT ![t] = w] /\ Goto(t, l)
Return(t) ==
  Goto(t, "idle") /\ why' = [why EXCEPT ![t] = "open"] /\ woken' = woken \ {t}

\* The buffer is in controller->buffers
Avail == inst /\ known

\* controller_lock is held: by a handler that has not marked the buffer yet, or
\* by nobody who would unlock it
Locked == rx = "set" \/ stuck

\* wake_up of the threads that wait at one of the labels l
Wake(l) == woken' = woken \cup {t \in Threads : pc[t] \in l}

-----------------------------------------------------------------------------
(* rpbuf_buf_dev_open, with rpbuf_alloc_buffer.                            *)

\* atomic_dec_and_test(can_be_opened).  (Mutant: a test of the counter before it
\* is decremented.)
OpenMutant(t) ==
  /\ Begin(t, "open", IF can >= 0 THEN "alloc" ELSE "busy") /\ can' = can - 1
  /\ UNCHANGED <<file, done, buffer, known, flags, acking, data, woken, reg, recv, fault>>
Open(t) ==
  /\ Begin(t, "open", IF can = 1 THEN "alloc" ELSE "busy") /\ can' = can - 1
  /\ UNCHANGED <<file, done, buffer, known, flags, acking, data, woken, reg, recv, fault>>

\* The open fails, with -EBUSY or after an error
OpenFail(t) ==
  /\ pc[t] \in {"busy", "put"} /\ Return(t) /\ can' = can + 1
  /\ UNCHANGED <<file, done, buffer, known, flags, acking, data, reg, recv, fault>>

\* A new buffer; it is usable at once if the remote has its own.  One that was
\* left behind, or no memory, fails the call; and where the payload of a buffer that
\* the remote does not have yet cannot be allocated, controller_lock stays locked.
\* (The flags of a buffer are {} when it is freed, so that they need not be set here.)
Alloc(t) ==
  /\ pc[t] = "alloc" /\ ~Locked /\ done' = FALSE
  /\ \/ /\ ~inst /\ inst' = TRUE /\ UNCHANGED <<told, used, stuck>>
        /\ Goto(t, IF known THEN "tellnow" ELSE "tell")
     \/ Goto(t, "put") /\ UNCHANGED <<buffer, stuck>>
     \/ ~inst /\ ~known /\ stuck' = TRUE /\ Goto(t, "put") /\ UNCHANGED buffer
  /\ UNCHANGED <<can, file, known, flags, acking, data, why, woken, reg, recv, cut>>

\* BUFFER_CREATED, and available_cb for a buffer usable at once.  Without the
\* message the buffer is freed.
Tell(t) ==
  /\ pc[t] \in {"tell", "tellnow"}
  /\ \/ told' = TRUE /\ done' = (done \/ pc[t] = "tellnow") /\ Goto(t, "use")
     \/ UNCHANGED <<told, done>> /\ Goto(t, "mark")
  /\ UNCHANGED <<can, file, inst, used, known, flags, acking, data, why, woken, reg, recv,
                 fault>>

\* From now on the device acknowledges what it receives
Use(t) ==
  /\ pc[t] = "use" /\ Goto(t, "wait") /\ used' = TRUE
  /\ UNCHANGED <<device, inst, told, known, flags, acking, data, why, woken, reg, recv,
                 fault>>

\* The buffer is available ...
Opened(t) ==
  /\ pc[t] = "wait" /\ done /\ done' = FALSE /\ file' = TRUE /\ Return(t)
  /\ UNCHANGED <<can, buffer, known, flags, acking, data, reg, recv, fault>>

\* ... or 15 seconds are over, or the thread is killed
GiveUp(t) ==
  /\ pc[t] = "wait" /\ Goto(t, "mark")
  /\ UNCHANGED <<device, buffer, known, flags, acking, data, why, woken, reg, recv, fault>>

-----------------------------------------------------------------------------
(* rpbuf_buf_dev_release, and rpbuf_free_buffer_internal.                  *)

\* The last reference to the file is gone
Close(t) ==
  /\ file /\ file' = FALSE /\ Begin(t, "close", "mark")
  /\ \A u \in Threads : pc[u] \notin Receiving
  /\ UNCHANGED <<can, done, buffer, known, flags, acking, data, woken, reg, recv, fault>>

\* state |= DESTROYED; BUFFER_DESTROYED is sent, whether that succeeds or not
Mark(t) ==
  /\ \/ /\ pc[t] = "mark" /\ Goto(t, "marked") /\ reg' = [reg EXCEPT ![t] = flags]
        /\ UNCHANGED flags
     \/ /\ pc[t] = "marked" /\ Goto(t, "lock") /\ reg' = [reg EXCEPT ![t] = {}]
        /\ flags' = reg[t] \cup {"DESTROYED"}
  /\ UNCHANGED <<device, buffer, known, acking, data, why, woken, recv, fault>>

\* The end of rpbuf_free_buffer for its two callers.  (Mutant: in open
\* it gives the device back, which the error path does again.)
FreedMutant(t) ==
  \/ why[t] = "open" /\ Goto(t, "put") /\ can' = can + 1 /\ UNCHANGED <<why, woken>>
  \/ why[t] = "close" /\ Return(t) /\ can' = can + 1
Freed(t) ==
  \/ why[t] = "open" /\ Goto(t, "put") /\ UNCHANGED <<can, why, woken>>
  \/ why[t] = "close" /\ Return(t) /\ can' = can + 1

\* Under controller_lock the buffer goes, what the remote allocated stays known;
\* but first a callback that runs is waited for
FreeLock(t) ==
  /\ ~Locked
  /\ \/ /\ pc[t] = "lock" /\ "WORKING" \in flags /\ Goto(t, "fenq")
        /\ UNCHANGED <<can, buffer, flags, acking, why, woken, rx_lives>>
     \/ /\ pc[t] = "relock" \/ (pc[t] = "lock" /\ "WORKING" \notin flags)
        /\ inst' = FALSE /\ told' = FALSE /\ used' = FALSE
        /\ flags' = {} /\ need_ack' = FALSE /\ owed' = FALSE /\ rx_lives' = (rx = "idle")
        /\ Freed(t)
  /\ UNCHANGED <<file, done, known, data, reg, rx, rx_sync, rx_reg, fault>>

\* wait_event_interruptible(buffer->wait, !(buffer->state & WORKING)), without
\* its first test of the condition
FreeWait(t) ==
  /\ \/ /\ pc[t] = "fenq" /\ Goto(t, "fcheck") /\ UNCHANGED woken
     \/ /\ pc[t] = "fcheck" /\ "WORKING" \notin flags
        /\ Goto(t, "relock") /\ woken' = woken \ {t}
     \/ /\ pc[t] = "fcheck" /\ "WORKING" \in flags
        /\ Goto(t, "fsleep") /\ UNCHANGED woken
     \/ /\ pc[t] = "fsleep" /\ t \in woken
        /\ Goto(t, "fenq") /\ woken' = woken \ {t}
  /\ UNCHANGED <<device, buffer, known, flags, acking, data, why, reg, recv, fault>>

\* A signal: -ERESTARTSYS.  Open gives the device back and leaves the buffer
\* behind, release keeps both.
FreeCut(t) ==
  /\ "WORKING" \in flags /\ pc[t] \in {"fcheck", "fsleep"} /\ cut' = TRUE
  /\ IF why[t] = "open" THEN Goto(t, "put") /\ woken' = woken \ {t} /\ UNCHANGED why
     ELSE Return(t)
  /\ UNCHANGED <<device, buffer, known, stuck, flags, acking, data, reg, recv>>

-----------------------------------------------------------------------------
(* rpbuf_buf_dev_ioctl_receive_buf.                                        *)

Quiet == UNCHANGED <<device, buffer, known, flags, reg, recv, fault>>

Receive(t, w) ==
  /\ file /\ Begin(t, w, "rlock")
  /\ Quiet /\ UNCHANGED <<acking, data, woken>>

\* Under recv_lock the data, or their absence, is taken, and copied to user space, or
\* the wait begins.  After a copy that fails nothing is acknowledged.  (Mutant: nor
\* is it by a receive whose time is over.)
ReceiveLockMutant(t) ==
  /\ \/ /\ pc[t] = "late" \/ (pc[t] = "rlock" /\ (data \/ why[t] = "zero"))
        /\ data' = FALSE
        /\ \/ pc[t] # "late" /\ Goto(t, "ack") /\ UNCHANGED <<owed, why, woken>>
           \/ pc[t] = "late" /\ Return(t) /\ UNCHANGED owed
           \/ Return(t) /\ owed' = (owed /\ (~data \/ rx = "store"))
     \/ /\ pc[t] = "rlock" /\ ~data /\ why[t] # "zero"
        /\ Goto(t, "renq") /\ UNCHANGED <<owed, data, why, woken>>
  /\ Quiet /\ UNCHANGED need_ack
ReceiveLock(t) ==
  /\ \/ /\ pc[t] = "late" \/ (pc[t] = "rlock" /\ (data \/ why[t] = "zero"))
        /\ data' = FALSE
        /\ \/ Goto(t, "ack") /\ UNCHANGED <<owed, why, woken>>
           \/ Return(t) /\ owed' = (owed /\ (~data \/ rx = "store"))
     \/ /\ pc[t] = "rlock" /\ ~data /\ why[t] # "zero"
        /\ Goto(t, "renq") /\ UNCHANGED <<owed, data, why, woken>>
  /\ Quiet /\ UNCHANGED need_ack

\* wait_event_interruptible(_timeout) on recv_wq, without its first test of the
\* condition.  (Mutant: it is not tested on the queue either.)
ReceiveWaitMutant(t) ==
  /\ \/ /\ pc[t] = "renq" /\ Goto(t, "rcheck") /\ UNCHANGED woken
     \/ /\ pc[t] = "rcheck"
        /\ Goto(t, "rsleep") /\ UNCHANGED woken
     \/ /\ pc[t] = "rsleep" /\ t \in woken
        /\ Goto(t, "rlock") /\ woken' = woken \ {t}
  /\ Quiet /\ UNCHANGED <<acking, data, why>>
ReceiveWait(t) ==
  /\ \/ /\ pc[t] = "renq" /\ Goto(t, "rcheck") /\ UNCHANGED woken
     \/ /\ pc[t] = "rcheck" /\ data
        /\ Goto(t, "rlock") /\ woken' = woken \ {t}
     \/ /\ pc[t] = "rcheck" /\ ~data
        /\ Goto(t, "rsleep") /\ UNCHANGED woken
     \/ /\ pc[t] = "rsleep" /\ t \in woken
        /\ Goto(t, "renq") /\ woken' = woken \ {t}
  /\ Quiet /\ UNCHANGED <<acking, data, why>>

\* The timeout is over: without data they are looked for once more ...  (Mutant: as
\* after a wake-up, the loop starts again.)
ReceiveTimeoutMutant(t) ==
  /\ why[t] = "timed" /\ pc[t] = "rsleep" /\ woken' = woken \ {t}
  /\ Goto(t, "rlock")
  /\ Quiet /\ UNCHANGED <<acking, data, why>>
ReceiveTimeout(t) ==
  /\ why[t] = "timed" /\ pc[t] = "rsleep" /\ woken' = woken \ {t}
  /\ Goto(t, IF data THEN "rlock" ELSE "late")
  /\ Quiet /\ UNCHANGED <<acking, data, why>>

\* ... or there is a signal
ReceiveCut(t) ==
  /\ ~data /\ pc[t] \in {"rcheck", "rsleep"} /\ Return(t)
  /\ Quiet /\ UNCHANGED <<acking, data>>

\* rpbuf_notify_remotebuffer_complete, called with and without data.  need_ack is
\* cleared before the message is sent, and stays so when that fails
ReceiveAck(t) ==
  /\ \/ /\ pc[t] = "ack" /\ need_ack
        /\ Goto(t, "send") /\ UNCHANGED <<acking, why, woken>>
     \/ /\ pc[t] = "ack" /\ ~need_ack
        /\ Return(t) /\ UNCHANGED acking
     \/ /\ pc[t] = "send" /\ need_ack' = FALSE /\ owed' = FALSE
        /\ Return(t)
  /\ Quiet /\ UNCHANGED data

-----------------------------------------------------------------------------
(* The handlers of the receive context.  One that works on a buffer that    *)
(* was freed reads whatever is there, and changes nothing of the next one.  *)

RxOnly == UNCHANGED <<can, file, buffer, pc, why, reg, fault>>
RxGoto(l) == rx' = l /\ UNCHANGED <<rx_sync, rx_lives>>
RxMove(a, b) == rx = a /\ RxGoto(b) /\ rx_reg' = {}
SetFlags(f) == IF rx_lives THEN flags' = f ELSE UNCHANGED flags

\* BUFFER_CREATED: the remote allocated its buffer; ours becomes usable, and its
\* flags are set anew
RxCreated ==
  /\ rx = "idle" /\ ~Locked /\ ~known /\ known' = TRUE
  /\ IF inst THEN flags' = {"WORKING"} /\ RxGoto("complete")
     ELSE UNCHANGED <<flags, rx, rx_sync, rx_lives>>
  /\ RxOnly /\ UNCHANGED <<done, acking, data, woken, rx_reg>>

\* available_cb
RxComplete ==
  /\ RxMove("complete", "clear") /\ done' = TRUE
  /\ RxOnly /\ UNCHANGED <<known, flags, acking, data, woken>>

\* BUFFER_DESTROYED: ours goes back to local_dummy_buffers
RxDestroyed ==
  /\ rx = "idle" /\ ~Locked /\ known /\ known' = FALSE
  /\ IF inst THEN RxGoto("set") /\ rx_reg' = flags ELSE UNCHANGED recv
  /\ RxOnly /\ UNCHANGED <<done, flags, acking, data, woken>>

\* BUFFER_TRANSMITTED: the buffer is found ...
RxTransmitted(sync) ==
  /\ rx = "idle" /\ ~Locked /\ Avail /\ told
  /\ rx' = "set" /\ rx_sync' = sync /\ rx_reg' = flags /\ UNCHANGED rx_lives
  /\ RxOnly /\ UNCHANGED <<known, done, flags, acking, data, woken>>

\* ... and marked: state |= WORKING
RxSet ==
  /\ RxMove("set", IF Avail THEN "test" ELSE "gone")
  /\ flags' = rx_reg \cup {"WORKING"}
  /\ RxOnly /\ UNCHANGED <<known, done, acking, data, woken>>

\* A buffer that is being freed takes no more data
RxTest ==
  /\ \/ /\ RxMove("test", "clear") /\ (rx_lives => "DESTROYED" \in flags)
        /\ UNCHANGED acking
     \/ /\ RxMove("test", "store") /\ (rx_lives => "DESTROYED" \notin flags)
        /\ need_ack' = (need_ack \/ (rx_sync /\ rx_lives))
        /\ owed' = (owed \/ (rx_sync /\ rx_lives))
  /\ RxOnly /\ UNCHANGED <<known, done, flags, data, woken>>

\* rpbuf_buf_dev_buffer_rx_cb: the data replace what was not read ...
RxStore ==
  /\ RxMove("store", "wake") /\ data' = TRUE
  /\ RxOnly /\ UNCHANGED <<known, done, flags, acking, woken>>

\* ... and the receivers are woken
RxWake ==
  /\ RxMove("wake", IF rx_sync /\ ~used THEN "reply" ELSE "clear")
  /\ Wake({"rcheck", "rsleep"})
  /\ RxOnly /\ UNCHANGED <<known, done, flags, acking, data>>

\* The core itself acknowledges for a buffer that no device uses
RxReply ==
  /\ \/ /\ RxMove("reply", "answer") /\ (rx_lives => need_ack) /\ UNCHANGED acking
     \/ /\ RxMove("reply", "clear") /\ (rx_lives => ~need_ack) /\ UNCHANGED acking
     \/ /\ RxMove("answer", "clear") /\ need_ack' = (need_ack /\ ~rx_lives)
        /\ owed' = (owed /\ ~rx_lives)
  /\ RxOnly /\ UNCHANGED <<known, done, flags, data, woken>>

\* state &= ~WORKING, and after BUFFER_DESTROYED state |= DESTROYED
RxClear ==
  /\ \/ /\ rx = "clear" /\ RxGoto("cleared") /\ rx_reg' = flags
        /\ UNCHANGED flags
     \/ /\ RxMove("cleared", "end")
        /\ SetFlags(rx_reg \ {"WORKING"})
     \/ /\ RxMove("gone", "end")
        /\ SetFlags((flags \ {"WORKING"}) \cup {"DESTROYED"})
  /\ RxOnly /\ UNCHANGED <<known, done, acking, data, woken>>

\* Whoever frees the buffer is woken, if the flag still says that somebody does
RxEnd ==
  /\ rx = "end" /\ rx' = "idle" /\ rx_lives' = TRUE /\ rx_sync' = FALSE /\ rx_reg' = {}
  /\ IF rx_lives /\ "DESTROYED" \in flags THEN Wake({"fcheck", "fsleep"})
     ELSE UNCHANGED woken
  /\ RxOnly /\ UNCHANGED <<known, done, flags, acking, data>>

-----------------------------------------------------------------------------
Step(t) ==
  \/ OpenFail(t) \/ Alloc(t) \/ Tell(t) \/ Use(t) \/ Opened(t) \/ GiveUp(t)
  \/ Mark(t) \/ FreeLock(t) \/ FreeWait(t)
  \/ ReceiveLock(t) \/ ReceiveWait(t) \/ ReceiveAck(t)

RxStep ==
  \/ RxComplete \/ RxSet \/ RxTest \/ RxStore \/ RxWake \/ RxReply \/ RxClear \/ RxEnd

Next ==
  \/ \E t \in Threads :
       \/ Open(t) \/ Close(t) \/ \E w \in {"zero", "timed", "forever"} : Receive(t, w)
       \/ Step(t) \/ FreeCut(t) \/ ReceiveTimeout(t) \/ ReceiveCut(t)
  \/ RxCreated \/ RxDestroyed \/ \E sync \in BOOLEAN : RxTransmitted(sync)
  \/ RxStep

\* Threads and the receive context run on, timeouts end, and whoever waits for
\* controller_lock gets it.  Nobody has to call, to send, or to be interrupted.
Fairness ==
  /\ WF_vars(RxStep)
  /\ \A t \in Threads :
       WF_vars(Step(t)) /\ SF_vars(ReceiveTimeout(t) \/ Alloc(t) \/ FreeLock(t))

Spec == Init /\ [][Next]_vars

FairSpec == Spec /\ Fairness
-----------------------------------------------------------------------------
(* Properties.                                                             *)

Uses(t) == pc[t] \in Opening \cup Freeing \cup {"put"}

\* The device has at most one user: a thread that opens it, one that closes it, or
\* an open file; so that rpbuf_buf_dev needs no lock around its buffer.
OneUser ==
  /\ \A t \in Threads, u \in Threads : t # u => ~(Uses(t) /\ Uses(u))
  /\ file => \A t \in Threads : ~Uses(t)
  /\ \A t \in Threads : pc[t] \in Receiving => file

\* A device that nobody uses is free to be opened again and has no buffer left,
\* whatever failed; but for two failures of the code: a signal that cuts a wait of
\* rpbuf_free_buffer short, and an allocation that leaves controller_lock locked, after
\* which the next open waits in rpbuf_alloc_buffer for ever.
NothingLeft ==
  (~file /\ ~cut /\ ~stuck /\ \A t \in Threads : pc[t] = "idle") => can = 1 /\ ~inst

\* A thread sleeps in a receive while there are data only if it was woken or the
\* callback that stored them is about to wake it.
NoLostWakeup ==
  \A t \in Threads : pc[t] = "rsleep" /\ data => t \in woken \/ rx = "wake"

\* Data that asked for an acknowledgement are not taken without a try to send one,
\* unless the copy to user space failed after they were taken: somebody is still about
\* to look, or the data are about to be stored.
TakenIsAcked ==
  owed /\ ~data => rx = "store" \/ \E t \in Threads : pc[t] \in {"ack", "send"}

\* No thread stays in a receive for ever while there are data, nor, if it gave a
\* timeout, while there are none.
ReceiveReturns ==
  \A t \in Threads :
    ~<>[](pc[t] \in Receiving /\ data) /\ ~<>[](pc[t] \in Receiving /\ why[t] = "timed" /\ ~data)

\* rpbuf_free_buffer_internal: "wait for buffer to complete current callback", and no
\* longer: when the receive context has nothing to do any more, the call that frees
\* the buffer returns.
FreeEnds ==
  <>[](rx = "idle") => \A t \in Threads : pc[t] \in Freeing ~> pc[t] \notin Freeing
=============================================================================

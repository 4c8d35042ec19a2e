---------------------------- MODULE RpmsgEptdev ----------------------------
(***************************************************************************)
(* One endpoint device, /dev/rpmsgN, of drivers/rpmsg/rpmsg_client.c, with *)
(* the dispatch and the destruction of its endpoint in                     *)
(* aw_virtio_rpmsg_bus.c.  Four kinds of threads meet here: the receive    *)
(* context of the bus, user threads that read, poll and write, the remote  *)
(* that sends, and the thread that removes the rpmsg device.               *)
(*                                                                         *)
(* Messages have no identity here: the receive queue is its length.  A     *)
(* step is one section under a lock, one test of shared state, or one step *)
(* of the kernel's wait_event or poll.  Memory that was freed keeps its    *)
(* content.                                                                *)
(***************************************************************************)
EXTENDS Naturals, FiniteSets

CONSTANTS
  Users,   \* user threads, each with a file of its own
  MaxLen,  \* RPMSG_EPT_RX_QUEUE_MAX_LEN
  NoOne,   \* a mutex is not held
  Rx, Rm   \* the receive context and the remover, as holders of a mutex

ASSUME EptdevAssumption ==
  /\ MaxLen \in Nat
  /\ NoOne \notin Users \cup {Rx, Rm} /\ Rx # Rm /\ {Rx, Rm} \cap Users = {}

VARIABLES
  found,   \* the endpoint is in vrp->endpoints
  refs,    \* ept->refcount
  cb,      \* ept->cb: "temp", "official" or "null"
  cb_lock, \* holder of ept->cb_lock
  rx,      \* where the receive context stands
  file,    \* the character device exists
  eptdev,  \* "live", "freed", or "touched": called back into once it was freed
  ept,     \* eptdev->ept is not NULL
  ept_lock,\* holder of eptdev->ept_lock
  queue,   \* length of eptdev->queue
  readq,   \* threads on the wait queue eptdev->readq
  woken,   \* those of them that were woken
  pc,      \* pc[u]: where user thread u stands
  sig,     \* sig[u]: u has a signal pending
  rm       \* where the remover stands

endpoint == <<found, refs, cb, cb_lock>>
device   == <<file, eptdev, ept, ept_lock>>
wait     == <<readq, woken>>
users    == <<pc, sig>>
vars     == <<endpoint, rx, device, queue, wait, users, rm>>

Reading == {"rlock", "rwait", "renq", "rcheck", "rsleep", "rafter", "rtake"}
Polling == {"poll", "preg", "pcheck", "psleep"}
Writing == {"wlock", "wcheck", "wsend", "wspin", "wout"}
Removed == rm \in {"unfind", "clear", "put", "done"}

TypeOK ==
  /\ found \in BOOLEAN /\ refs \in 0..2
  /\ cb \in {"temp", "official", "null"} /\ cb_lock \in {NoOne, Rx, Rm}
  /\ rx \in {"idle", "lock", "call", "append", "wake", "unlock", "put"}
  /\ file \in BOOLEAN /\ eptdev \in {"live", "freed", "touched"}
  /\ ept \in BOOLEAN /\ ept_lock \in {NoOne, Rm} \cup Users
  /\ queue \in Nat
  /\ readq \in SUBSET Users /\ woken \in SUBSET Users
  /\ pc \in [Users -> {"closed", "idle"} \cup Reading \cup Polling \cup Writing]
  /\ sig \in [Users -> BOOLEAN]
  /\ rm \in {"none", "lock", "drain", "null", "wake", "del", "unfind", "clear", "put",
             "done"}

\* After rpmsg_eptdev_probe
Init ==
  /\ found = TRUE /\ refs = 1 /\ cb = "temp" /\ cb_lock = NoOne
  /\ rx = "idle" /\ file = FALSE /\ eptdev = "live" /\ ept = TRUE /\ ept_lock = NoOne
  /\ queue = 0
  /\ readq = {} /\ woken = {}
  /\ pc = [u \in Users |-> "closed"] /\ sig = [u \in Users |-> FALSE]
  /\ rm = "none"

\* wake_up_interruptible(&eptdev->readq)
Wake == woken' = woken \cup readq /\ UNCHANGED readq

-----------------------------------------------------------------------------
(* rpmsg_recv_single and the two callbacks.                                *)

RxGoto(l) == rx' = l /\ UNCHANGED <<device, users, rm>>

\* A callback works with eptdev (priv), which the removal may have freed
Touch == eptdev' = IF eptdev = "live" THEN "live" ELSE "touched"
RxCall(l) == rx' = l /\ Touch /\ UNCHANGED <<file, ept, ept_lock, users, rm>>

\* A message arrives; its endpoint is looked up and kept.  (Mutant: without
\* kref_get.)
RxFindMutant ==
  /\ rx = "idle" /\ found
  /\ RxGoto("lock") /\ UNCHANGED <<endpoint, queue, wait>>
RxFind ==
  /\ rx = "idle" /\ found
  /\ refs' = refs + 1
  /\ RxGoto("lock") /\ UNCHANGED <<found, cb, cb_lock, queue, wait>>

RxLock ==
  /\ rx = "lock" /\ cb_lock = NoOne /\ cb_lock' = Rx
  /\ RxGoto("call") /\ UNCHANGED <<found, refs, cb, queue, wait>>

\* ept->cb is not called any more
RxNoCall ==
  /\ rx = "call" /\ cb = "null"
  /\ RxGoto("unlock") /\ UNCHANGED <<endpoint, queue, wait>>

\* rpmsg_eptdev_temp_cb: RPMSG_CREATE_CLIENT creates the file, or fails to;
\* every other message is ignored
RxTemp ==
  /\ rx = "call" /\ cb = "temp"
  /\ rx' = "unlock" /\ Touch
  /\ \/ file' = TRUE /\ cb' = "official"
     \/ UNCHANGED <<file, cb>>
  /\ UNCHANGED <<found, refs, cb_lock, ept, ept_lock, queue, wait, users, rm>>

\* rpmsg_eptdev_official_cb: the length is tested without queue_lock, a message
\* too many is dropped, or one for which there is no memory, the latter without
\* a wake-up.  (Mutant: the length is not tested.)
RxOfficialMutant ==
  /\ rx = "call" /\ cb = "official"
  /\ RxCall("append") /\ UNCHANGED <<endpoint, queue, wait>>
RxOfficial ==
  /\ rx = "call" /\ cb = "official"
  /\ \/ queue > MaxLen /\ RxCall("wake")
     \/ queue <= MaxLen /\ (RxCall("append") \/ RxCall("unlock"))
  /\ UNCHANGED <<endpoint, queue, wait>>

RxAppend ==
  /\ rx = "append" /\ queue' = queue + 1
  /\ RxCall("wake") /\ UNCHANGED <<endpoint, wait>>

RxWake ==
  /\ rx = "wake" /\ Wake
  /\ RxCall("unlock") /\ UNCHANGED <<endpoint, queue>>

RxUnlock ==
  /\ rx = "unlock" /\ cb_lock' = NoOne
  /\ RxGoto("put") /\ UNCHANGED <<found, refs, cb, queue, wait>>

RxPut ==
  /\ rx = "put" /\ refs' = refs - 1
  /\ RxGoto("idle") /\ UNCHANGED <<found, cb, cb_lock, queue, wait>>

RxStep ==
  RxLock \/ RxNoCall \/ RxTemp \/ RxOfficial \/ RxAppend \/ RxWake \/ RxUnlock \/ RxPut

-----------------------------------------------------------------------------
(* User threads.                                                           *)

UserOnly == UNCHANGED <<endpoint, rx, file, eptdev, ept, rm>>

Goto(u, l) == pc' = [pc EXCEPT ![u] = l] /\ UNCHANGED sig

\* Back to user mode, off the wait queue
Return(u) ==
  /\ pc' = [pc EXCEPT ![u] = "idle"] /\ sig' = [sig EXCEPT ![u] = FALSE]
  /\ readq' = readq \ {u} /\ woken' = woken \ {u}

Open(u) ==
  /\ pc[u] = "closed" /\ file
  /\ Goto(u, "idle") /\ UserOnly /\ UNCHANGED <<ept_lock, queue, wait>>

\* The last file of a removed device: rpmsg_eptdev_release_device
NobodyBut(u) == \A v \in Users \ {u} : pc[v] = "closed"

Release(u) ==
  /\ pc[u] = "idle"
  /\ eptdev' = IF Removed /\ NobodyBut(u) /\ eptdev = "live" THEN "freed" ELSE eptdev
  /\ Goto(u, "closed")
  /\ UNCHANGED <<endpoint, rx, file, ept, rm, ept_lock, queue, wait>>

\* A signal, at the steps before one that looks at it; earlier is no different
Signal(u) ==
  /\ pc[u] \in {"renq", "rsleep", "pcheck", "psleep", "wlock"}
  /\ ~sig[u] /\ sig' = [sig EXCEPT ![u] = TRUE]
  /\ UserOnly /\ UNCHANGED <<pc, ept_lock, queue, wait>>

\* rpmsg_eptdev_read; without an endpoint it returns -EPIPE at once
Read(u) ==
  /\ pc[u] = "idle" /\ ept
  /\ Goto(u, "rlock") /\ UserOnly /\ UNCHANGED <<ept_lock, queue, wait>>

\* Under queue_lock: a message, or -EAGAIN, or the wait begins
ReadLock(u) ==
  /\ pc[u] = "rlock"
  /\ \/ queue > 0 /\ queue' = queue - 1 /\ Return(u)
     \/ queue = 0 /\ UNCHANGED queue /\ Return(u)
     \/ queue = 0 /\ Goto(u, "rwait") /\ UNCHANGED <<queue, wait>>
  /\ UserOnly /\ UNCHANGED ept_lock

\* wait_event_interruptible tests its condition before it enters the queue ...
Ready == queue > 0 \/ ~ept

ReadWait(u) ==
  /\ pc[u] = "rwait" /\ Goto(u, IF Ready THEN "rafter" ELSE "renq")
  /\ UserOnly /\ UNCHANGED <<ept_lock, queue, wait>>

\* ... prepare_to_wait_event, unless a signal is pending ...
ReadEnqueue(u) ==
  /\ pc[u] = "renq" /\ Goto(u, "rcheck")
  /\ readq' = (IF sig[u] THEN readq \ {u} ELSE readq \cup {u})
  /\ woken' = woken \ {u}
  /\ UserOnly /\ UNCHANGED <<ept_lock, queue>>

\* ... and tests it again.  (Mutant: it goes to sleep without the test.)
ReadCheckMutant(u) ==
  /\ pc[u] = "rcheck"
  /\ \/ u \notin readq /\ Return(u)
     \/ u \in readq /\ Goto(u, "rsleep") /\ UNCHANGED wait
  /\ UserOnly /\ UNCHANGED <<ept_lock, queue>>
ReadCheck(u) ==
  /\ pc[u] = "rcheck"
  /\ \/ Ready /\ Goto(u, "rafter") /\ readq' = readq \ {u} /\ woken' = woken \ {u}
     \/ ~Ready /\ u \notin readq /\ Return(u)
     \/ ~Ready /\ u \in readq /\ Goto(u, "rsleep") /\ UNCHANGED wait
  /\ UserOnly /\ UNCHANGED <<ept_lock, queue>>

ReadAwake(u) ==
  /\ pc[u] = "rsleep" /\ (u \in woken \/ sig[u])
  /\ Goto(u, "renq") /\ UserOnly /\ UNCHANGED <<ept_lock, queue, wait>>

\* The endpoint went away (-EPIPE), or a message is taken
ReadAfter(u) ==
  /\ pc[u] = "rafter"
  /\ \/ ~ept /\ Return(u)
     \/ ept /\ Goto(u, "rtake") /\ UNCHANGED wait
  /\ UserOnly /\ UNCHANGED <<ept_lock, queue>>

\* Another reader, or the remover, may have taken it: -EFAULT
ReadTake(u) ==
  /\ pc[u] = "rtake" /\ queue' = (IF queue > 0 THEN queue - 1 ELSE 0)
  /\ Return(u) /\ UserOnly /\ UNCHANGED ept_lock

\* rpmsg_eptdev_poll: POLLERR without an endpoint.  It is called anew after
\* each wake-up, with the thread still on the wait queue
Poll(u) ==
  /\ \/ pc[u] = "idle" /\ ept /\ Goto(u, "preg") /\ UNCHANGED wait
     \/ pc[u] = "poll" /\ ept /\ Goto(u, "preg") /\ UNCHANGED wait
     \/ pc[u] = "poll" /\ ~ept /\ Return(u)
  /\ UserOnly /\ UNCHANGED <<ept_lock, queue>>

PollWait(u) ==
  /\ pc[u] = "preg" /\ Goto(u, "pcheck") /\ readq' = readq \cup {u}
  /\ UserOnly /\ UNCHANGED <<ept_lock, queue, woken>>

PollCheck(u) ==
  /\ pc[u] = "pcheck"
  /\ \/ (queue > 0 \/ sig[u]) /\ Return(u)
     \/ queue = 0 /\ ~sig[u] /\ Goto(u, "psleep") /\ UNCHANGED wait
  /\ UserOnly /\ UNCHANGED <<ept_lock, queue>>

\* The caller's time may also be over
PollAwake(u) ==
  /\ pc[u] = "psleep" /\ (u \in woken \/ sig[u])
  /\ Goto(u, "poll") /\ woken' = woken \ {u}
  /\ UserOnly /\ UNCHANGED <<ept_lock, queue, readq>>

PollTimeout(u) ==
  /\ pc[u] = "psleep" /\ Return(u)
  /\ UserOnly /\ UNCHANGED <<ept_lock, queue>>

\* rpmsg_eptdev_write
Write(u) ==
  /\ pc[u] = "idle"
  /\ Goto(u, "wlock") /\ UserOnly /\ UNCHANGED <<ept_lock, queue, wait>>

WriteLock(u) ==
  /\ pc[u] = "wlock"
  /\ \/ ept_lock = NoOne /\ ept_lock' = u /\ Goto(u, "wcheck") /\ UNCHANGED wait
     \/ sig[u] /\ Return(u) /\ UNCHANGED ept_lock
  /\ UserOnly /\ UNCHANGED queue

WriteCheck(u) ==
  /\ pc[u] = "wcheck"
  /\ \/ ept /\ Goto(u, "wsend") /\ UNCHANGED <<ept_lock, wait>>
     \/ ~ept /\ ept_lock' = NoOne /\ Return(u)
  /\ UserOnly /\ UNCHANGED queue

\* rpmsg_send takes the endpoint, and sends without it (module VirtioTx) ...
WriteSend(u) ==
  /\ pc[u] = "wsend" /\ Goto(u, "wout")
  /\ UserOnly /\ UNCHANGED <<ept_lock, queue, wait>>

\* ... or finds no buffer and gets a signal, which ends each of its waits at
\* once: it goes round until the remote returns a buffer, perhaps for ever
WriteSpin(u) ==
  /\ pc[u] = "wsend" /\ pc' = [pc EXCEPT ![u] = "wspin"]
  /\ sig' = [sig EXCEPT ![u] = TRUE]
  /\ UserOnly /\ UNCHANGED <<ept_lock, queue, wait>>

WriteSpun(u) ==
  /\ pc[u] = "wspin" /\ Goto(u, "wout")
  /\ UserOnly /\ UNCHANGED <<ept_lock, queue, wait>>

\* (Mutant: the error exit of rpmsg_send keeps ept_lock.)
WriteOutMutant(u) ==
  /\ pc[u] = "wout"
  /\ ept_lock' = NoOne \/ UNCHANGED ept_lock
  /\ Return(u) /\ UserOnly /\ UNCHANGED queue
WriteOut(u) ==
  /\ pc[u] = "wout" /\ ept_lock' = NoOne
  /\ Return(u) /\ UserOnly /\ UNCHANGED queue

UserStep(u) ==
  \/ ReadLock(u) \/ ReadWait(u) \/ ReadEnqueue(u) \/ ReadCheck(u) \/ ReadAwake(u)
  \/ ReadAfter(u) \/ ReadTake(u)
  \/ (pc[u] = "poll" /\ Poll(u)) \/ PollWait(u) \/ PollCheck(u) \/ PollAwake(u)
  \/ WriteLock(u) \/ WriteCheck(u) \/ WriteSend(u) \/ WriteOut(u)

-----------------------------------------------------------------------------
(* The removal of the rpmsg device: rpmsg_eptdev_remove, then              *)
(* __rpmsg_destroy_ept.                                                    *)

RmGoto(l) == rm' = l /\ UNCHANGED <<rx, users>>

RmStart ==
  /\ rm = "none"
  /\ RmGoto("lock") /\ UNCHANGED <<endpoint, device, queue, wait>>

RmLock ==
  /\ rm = "lock" /\ ept_lock = NoOne /\ ept_lock' = Rm
  /\ RmGoto("drain") /\ UNCHANGED <<endpoint, file, eptdev, ept, queue, wait>>

\* Discard all SKBs
RmDrain ==
  /\ rm = "drain"
  /\ \/ queue > 0 /\ queue' = queue - 1 /\ RmGoto("drain") /\ UNCHANGED ept_lock
     \/ queue = 0 /\ ept_lock' = NoOne /\ RmGoto("null") /\ UNCHANGED queue
  /\ UNCHANGED <<endpoint, file, eptdev, ept, wait>>

RmNull ==
  /\ rm = "null" /\ ept' = FALSE
  /\ RmGoto("wake") /\ UNCHANGED <<endpoint, file, eptdev, ept_lock, queue, wait>>

\* (Mutant: without the wake-up.)
RmWakeMutant ==
  /\ rm = "wake"
  /\ RmGoto("del") /\ UNCHANGED <<endpoint, device, queue, wait>>
RmWake ==
  /\ rm = "wake" /\ Wake
  /\ RmGoto("del") /\ UNCHANGED <<endpoint, device, queue>>

\* cdev_device_del, when there is a file, and put_device: without an open file
\* eptdev is freed, with its callback still installed.  (Mutant: it is freed in
\* any case.)
RmDeleteMutant ==
  /\ rm = "del" /\ file' = FALSE /\ eptdev' = "freed"
  /\ RmGoto("unfind") /\ UNCHANGED <<endpoint, ept, ept_lock, queue, wait>>
RmDelete ==
  /\ rm = "del" /\ file' = FALSE
  /\ eptdev' = IF \A u \in Users : pc[u] = "closed" THEN "freed" ELSE eptdev
  /\ RmGoto("unfind") /\ UNCHANGED <<endpoint, ept, ept_lock, queue, wait>>

RmUnfind ==
  /\ rm = "unfind" /\ found' = FALSE
  /\ RmGoto("clear") /\ UNCHANGED <<refs, cb, cb_lock, device, queue, wait>>

\* ept->cb is cleared under cb_lock.  (Mutant: without the lock.)
RmClearMutant ==
  /\ rm = "clear" /\ cb' = "null"
  /\ RmGoto("put") /\ UNCHANGED <<found, refs, cb_lock, device, queue, wait>>
RmClear ==
  /\ rm = "clear" /\ cb_lock = NoOne /\ cb' = "null"
  /\ RmGoto("put") /\ UNCHANGED <<found, refs, cb_lock, device, queue, wait>>

RmPut ==
  /\ rm = "put" /\ refs' = refs - 1
  /\ RmGoto("done") /\ UNCHANGED <<found, cb, cb_lock, device, queue, wait>>

RmStep == RmDrain \/ RmNull \/ RmWake \/ RmDelete \/ RmUnfind \/ RmClear \/ RmPut

-----------------------------------------------------------------------------
Next ==
  \/ RxFind \/ RxStep
  \/ \E u \in Users :
       \/ Open(u) \/ Release(u) \/ Read(u) \/ Poll(u) \/ Write(u) \/ Signal(u)
       \/ UserStep(u) \/ PollTimeout(u) \/ WriteSpin(u) \/ WriteSpun(u)
  \/ RmStart \/ RmLock \/ RmStep

\* Threads run on.  A mutex is handed to who waits for it: RmLock is strongly
\* fair.  A file need not be used, the device need not be removed, and a writer
\* that spins (WriteSpin) need not stop.
Fairness ==
  /\ WF_vars(RxStep) /\ WF_vars(RmStep) /\ SF_vars(RmLock)
  /\ \A u \in Users : WF_vars(UserStep(u))

Spec == Init /\ [][Next]_vars

FairSpec == Spec /\ Fairness

-----------------------------------------------------------------------------
(* Properties.                                                             *)

\* The queue holds at most one message more than its limit, whatever reads,
\* discards and appends overlap
QueueBound == queue <= MaxLen + 1

\* A reader does not sleep on while there is a message or the endpoint is gone,
\* nor a poller while there is a message, unless its wake-up is on the way
NoLostWakeup ==
  \A u \in Users \ woken :
    /\ pc[u] = "rsleep" /\ queue > 0 => rx = "wake"
    /\ pc[u] = "rsleep" /\ ~ept => rm = "wake"
    /\ pc[u] = "psleep" /\ queue > 0 => rx = "wake"

\* The endpoint exists while the receive context works with it.  (ept only: the
\* eptdev behind it may be gone, see DeviceHeld.)
EndpointHeld == rx # "idle" => refs > 0

\* Once the endpoint is destroyed its callback neither runs nor will run.  (Before
\* that it may still run, on an eptdev that the removal has freed.)
NoLateCall ==
  rm \in {"put", "done"} =>
    ~found /\ cb = "null" /\ rx \notin {"append", "wake"}

\* Who has the file open has an eptdev, until a callback has worked with a freed
\* one, and perhaps made a file for it.  (The receive context itself has no
\* reference: from RmDelete to RmClear its callbacks may run on a freed eptdev.)
DeviceHeld == \A u \in Users : pc[u] # "closed" => eptdev # "freed"

\* What rpmsg_eptdev_write found under ept_lock stays until it calls rpmsg_send
WriterHasEndpoint == \A u \in Users : pc[u] = "wsend" => ept

\* Once the device is removed every reader returns
ReadReturns ==
  \A u \in Users : rm = "done" /\ pc[u] \in Reading ~> pc[u] \notin Reading

\* The removal ends if the remote stops sending at some time and no writer spins
\* for ever in rpmsg_send, under ept_lock.  (One that does keeps the remover in
\* rpmsg_eptdev_remove for ever.)
RemovalEnds ==
  /\ <>[][~RxFind]_vars
  /\ \A u \in Users : []<>(pc[u] # "wspin")
  => (rm # "none" ~> rm = "done")
=============================================================================

----------------------------- MODULE RpbufCore -----------------------------
(***************************************************************************)
(* The RPBuf buffer protocol of drivers/rpbuf/rpbuf_core.c.  Two cores     *)
(* share named payload buffers.  Each core runs the same code with the     *)
(* role MASTER (Linux, which owns the payload memory) or SLAVE (the remote *)
(* core, which chooses the buffer ids).  A buffer may be used once both    *)
(* cores have allocated it under the same name; until then it waits in one *)
(* of the two "dummy" lists.  The cores only exchange service messages     *)
(* over one FIFO rpmsg channel per direction.                              *)
(*                                                                         *)
(* A step is one critical section of link->controller_lock, one            *)
(* notification sent after that lock was dropped, or the end of a callback *)
(* so that the windows between them are open to the other thread.  The     *)
(* reset that follows a restart of the remote does not take that lock; it  *)
(* may cut a section in two, which is then a step with the reset inside.   *)
(* On each core there is one rpmsg receive context and, for every name,    *)
(* one thread that calls rpbuf_alloc_buffer / rpbuf_free_buffer /          *)
(* rpbuf_transmit_buffer.                                                  *)
(***************************************************************************)
EXTENDS Naturals, Sequences

CONSTANTS
  Names,        \* buffer names
  Lens,         \* buffer lengths callers may ask for
  Ids,          \* ids the slave's idr may hand out (bound)
  Mem,          \* payload memory blocks of the master
  NoPa,         \* the zero address of a buffer that has no payload yet
  QLen,         \* messages an rpmsg direction holds (bound, or vring size)
  Throttled,    \* TRUE: callers never fill a direction; FALSE: trysend fails
  Signals,      \* TRUE: a signal may interrupt the waits of the callers
  AvailableCb,  \* TRUE: buffers are allocated with an available_cb
  MaxXmit,      \* transmits per core and name (bound)
  MaxCrash      \* restarts of the slave core (bound)

ASSUME ConstantsAssumption ==
  /\ Lens \subseteq Nat /\ Ids \subseteq Nat /\ 0 \in Ids
  /\ NoPa \notin Mem
  /\ QLen \in Nat /\ MaxXmit \in Nat /\ MaxCrash \in Nat
  /\ Throttled \in BOOLEAN /\ Signals \in BOOLEAN /\ AvailableCb \in BOOLEAN

VARIABLES
  buf,      \* buf[p][n]: the local rpbuf_buffer of core p named n
  rdb,      \* rdb[p][n]: the entry of p's remote_dummy_buffers named n
  user,     \* user[p][n]: where p's caller for n stands in the rpbuf API
  rx,       \* rx[p]: p's rpmsg receive context
  work,     \* work[p]: the buffer whose callback it runs (RPBUF_FLAGS_WORKING)
  ch,       \* ch[p]: messages sent by p and not yet received, oldest first
  up,       \* up[p]: a service is registered with p's link
  late,     \* the master's receive context entered a handler before the
            \* service was removed, and has not taken controller_lock yet
  stuck,    \* stuck[p]: p's controller_lock was left locked
  mem,      \* payload memory blocks the master has allocated
  sent,     \* sent[p][n]: transmits of n by p so far (history)
  rcvd,     \* rcvd[p][n]: newest transmit whose rx_cb ran on p (history)
  odd,      \* branches taken so far that should not be (history)
  crashes   \* restarts of the slave so far

vars == <<buf, rdb, user, rx, work, ch, up, late, stuck, mem, sent, rcvd, odd, crashes>>

Master == "master"
Slave  == "slave"
Peers  == {Master, Slave}

\* rpbuf_role_toggle
Other(p) == IF p = Master THEN Slave ELSE Master

\* rpbuf_alloc_buffer_instance, and what rpbuf_alloc_buffer fills in
Instance(loc, id, len, pa, allocated) ==
  [loc |-> loc, id |-> id, len |-> len, pa |-> pa, allocated |-> allocated,
   state |-> {}, offline |-> FALSE]
NoBuf == Instance("none", 0, 0, NoPa, FALSE)
NoRdb == [there |-> FALSE, id |-> 0, len |-> 0, pa |-> NoPa,
          allocated |-> FALSE]
At(pc) == [pc |-> pc, avail |-> FALSE, id |-> 0, sync |-> FALSE]
Idle == At("idle")
NoMsg == [cmd |-> "NONE"]
RxIdle == [pc |-> "idle", msg |-> NoMsg, touch |-> FALSE]

\* rpbuf_compose_service_message, one constructor per command.  (Mutant: the
\* id is announced off by one.)
CreatedMutant(n, b, avail) == [cmd |-> "CREATED", name |-> n, id |-> b.id + 1,
                               len |-> b.len, pa |-> b.pa, avail |-> avail]
Created(n, b, avail) == [cmd |-> "CREATED", name |-> n, id |-> b.id,
                         len |-> b.len, pa |-> b.pa, avail |-> avail]
\* name and seq are history: these messages of the code only hold the id
Destroyed(id, n) == [cmd |-> "DESTROYED", id |-> id, name |-> n]
Transmitted(id, sync, n, seq) == [cmd |-> "TRANSMITTED", id |-> id,
                                  sync |-> sync, name |-> n, seq |-> seq]
Ack(id) == [cmd |-> "ACK", id |-> id]

\* "adrift": the buffer exists, but a reset has left it in none of the lists
Buffer == [loc: {"none", "local_dummy", "buffers", "adrift"}, id: Ids,
           len: Lens \cup {0}, pa: Mem \cup {NoPa}, allocated: BOOLEAN,
           state: SUBSET {"GETNOTIFY", "DESTROYED"}, offline: BOOLEAN]
RemoteDummy == [there: BOOLEAN, id: Ids, len: Lens \cup {0},
                pa: Mem \cup {NoPa}, allocated: BOOLEAN]
\* "lost": rpbuf_free_buffer returned an error and the buffer stays; none of
\* its callers tries again
User == [pc: {"idle", "notify", "owned", "check", "xmit", "wait", "free", "destroy",
              "undo", "lost"},
         avail: BOOLEAN, id: Ids, sync: BOOLEAN]
CreatedMsg == [cmd: {"CREATED"}, name: Names, id: Ids, len: Lens \cup {0},
               pa: Mem \cup {NoPa}, avail: BOOLEAN]
Message == CreatedMsg
      \cup [cmd: {"DESTROYED"}, id: Ids, name: Names]
      \cup [cmd: {"TRANSMITTED"}, id: Ids, sync: BOOLEAN, name: Names, seq: Nat]
      \cup [cmd: {"ACK"}, id: Ids]
RxState == {RxIdle} \cup [pc: {"reply"}, msg: CreatedMsg, touch: BOOLEAN]

\* The branches that log "(unexpected)": BUFFER_CREATED for a buffer that is
\* in 'buffers', and a second entry in remote_dummy_buffers
Unexpected == {"again", "overwrite"}

TypeOK ==
  /\ buf \in [Peers -> [Names -> Buffer]]
  /\ rdb \in [Peers -> [Names -> RemoteDummy]]
  /\ user \in [Peers -> [Names -> User]]
  /\ rx \in [Peers -> RxState] /\ work \in [Peers -> SUBSET Names]
  /\ ch \in [Peers -> Seq(Message)]
  /\ up \in [Peers -> BOOLEAN] /\ late \in BOOLEAN /\ stuck \in [Peers -> BOOLEAN]
  /\ mem \in SUBSET Mem
  /\ sent \in [Peers -> [Names -> Nat]] /\ rcvd \in [Peers -> [Names -> Nat]]
  /\ odd \subseteq Unexpected \cup {"mistaken", "clash", "orphan", "overtaken"}
  /\ crashes \in Nat

Init ==
  /\ buf = [p \in Peers |-> [n \in Names |-> NoBuf]]
  /\ rdb = [p \in Peers |-> [n \in Names |-> NoRdb]]
  /\ user = [p \in Peers |-> [n \in Names |-> Idle]]
  /\ rx = [p \in Peers |-> RxIdle]
  /\ work = [p \in Peers |-> {}]
  /\ ch = [p \in Peers |-> << >>]
  /\ up = [p \in Peers |-> TRUE]
  /\ late = FALSE
  /\ stuck = [p \in Peers |-> FALSE]
  /\ mem = {}
  /\ sent = [p \in Peers |-> [n \in Names |-> 0]]
  /\ rcvd = [p \in Peers |-> [n \in Names |-> 0]]
  /\ odd = {}
  /\ crashes = 0

-----------------------------------------------------------------------------
(* The idr of usable buffers, and the channel.                             *)

\* controller->buffers
Available(p) == {n \in Names : buf[p][n].loc = "buffers"}

\* idr_find(&controller->buffers, id) finds n
IdrFinds(p, n, id) == n \in Available(p) /\ buf[p][n].id = id

\* idr_alloc(&controller->buffers, buffer, id, id + 1) succeeds
SlotFree(p, id) == \A n \in Available(p) : buf[p][n].id # id

\* idr_alloc(&controller->local_buffers, buffer, 0, 0): the lowest free id
LowestFree(id) ==
  LET used == {buf[Slave][n].id : n \in {m \in Names : buf[Slave][m].loc # "none"}}
  IN  id \notin used /\ \A j \in Ids : j < id => j \in used

\* rpbuf_notify_by_link succeeds: a service is there and rpmsg_trysend finds
\* a free transmit buffer
CanSend(p) == up[p] /\ (Throttled \/ Len(ch[p]) < QLen)

Push(p, m) == ch' = [ch EXCEPT ![p] = Append(@, m)]

\* Bound: a caller starts a call that sends only while the direction has room
Room(p) == Throttled => Len(ch[p]) < QLen

-----------------------------------------------------------------------------
(* rpbuf_alloc_buffer: the critical section, then BUFFER_CREATED.          *)

MayAlloc(p, n) ==
  /\ ~stuck[p] /\ Room(p)
  /\ user[p][n].pc = "idle" /\ buf[p][n].loc = "none"

Allocated(p, n, b, avail) ==
  /\ buf' = [buf EXCEPT ![p][n] = b]
  /\ user' = [user EXCEPT ![p][n] = [pc |-> "notify", avail |-> avail,
                                     id |-> 0, sync |-> FALSE]]

\* The remote has not announced the name: NULL -> local_dummy_buffers
AllocFirst(p, n, len) ==
  /\ MayAlloc(p, n) /\ ~rdb[p][n].there
  /\ \/ /\ p = Slave
        /\ \E id \in Ids :
             /\ LowestFree(id)
             /\ Allocated(p, n, Instance("local_dummy", id, len, NoPa, FALSE), FALSE)
        /\ UNCHANGED mem
     \/ /\ p = Master
        /\ \E m \in Mem \ mem :
             /\ mem' = mem \cup {m}
             /\ Allocated(p, n, Instance("local_dummy", 0, len, m, TRUE), FALSE)
  /\ UNCHANGED <<rdb, rx, work, ch, up, late, stuck, sent, rcvd, odd, crashes>>

\* No payload memory for a first allocation, which can happen at any time: the
\* error path frees the instance and returns with controller_lock held and the
\* list entry in place
AllocFirstNoMem(n, len) ==
  /\ MayAlloc(Master, n) /\ ~rdb[Master][n].there
  /\ buf' = [buf EXCEPT ![Master][n] = Instance("local_dummy", 0, len, NoPa, FALSE)]
  /\ stuck' = [stuck EXCEPT ![Master] = TRUE]
  /\ UNCHANGED <<rdb, user, rx, work, ch, up, late, mem, sent, rcvd, odd, crashes>>

\* The remote has announced the name: remote_dummy_buffers -> buffers.  A
\* length that differs from the remote's makes the call fail with no effect.
AllocSecondSlave(n, len) ==
  LET d == rdb[Slave][n] IN
  /\ MayAlloc(Slave, n) /\ d.there /\ d.len = len
  /\ \E id \in Ids :
       /\ LowestFree(id)
       /\ IF SlotFree(Slave, id)
            THEN /\ Allocated(Slave, n, Instance("buffers", id, len, d.pa, FALSE), TRUE)
                 /\ rdb' = [rdb EXCEPT ![Slave][n] = NoRdb]
                 /\ UNCHANGED odd
            ELSE odd' = odd \cup {"clash"} /\ UNCHANGED <<buf, user, rdb>>
  /\ UNCHANGED <<rx, work, ch, up, late, stuck, mem, sent, rcvd, crashes>>

\* The master keeps the payload of a dummy entry it freed earlier, else it
\* allocates one; when memory is short the call fails with no effect.  When
\* the id is taken the instance is freed but the entry is marked allocated.
AllocSecondMaster(n, len) ==
  LET d == rdb[Master][n] IN
  /\ MayAlloc(Master, n) /\ d.there /\ d.len = len
  /\ \E pa \in IF d.allocated THEN {d.pa} ELSE Mem \ mem :
       /\ mem' = IF d.allocated THEN mem ELSE mem \cup {pa}
       /\ IF SlotFree(Master, d.id)
            THEN /\ Allocated(Master, n, Instance("buffers", d.id, len, pa, TRUE), TRUE)
                 /\ rdb' = [rdb EXCEPT ![Master][n] = NoRdb]
                 /\ UNCHANGED odd
            ELSE /\ rdb' = [rdb EXCEPT ![Master][n].allocated = TRUE]
                 /\ odd' = odd \cup {"clash"}
                 /\ UNCHANGED <<buf, user>>
  /\ UNCHANGED <<rx, work, ch, up, late, stuck, sent, rcvd, crashes>>

\* The message is filled in from the buffer after the lock was dropped; a
\* failed notification releases the buffer again without telling the remote
AllocNotify(p, n) ==
  /\ user[p][n].pc = "notify"
  /\ IF CanSend(p)
       THEN /\ Push(p, Created(n, buf[p][n], user[p][n].avail))
            /\ user' = [user EXCEPT ![p][n] = At("owned")]
            /\ UNCHANGED buf
       ELSE /\ buf' = [buf EXCEPT ![p][n].state = @ \cup {"DESTROYED"}]
            /\ user' = [user EXCEPT ![p][n] = At("undo")]
            /\ UNCHANGED ch
  /\ UNCHANGED <<rdb, rx, work, up, late, stuck, mem, sent, rcvd, odd, crashes>>

-----------------------------------------------------------------------------
(* rpbuf_free_buffer: BUFFER_DESTROYED, the wait for a callback that still *)
(* runs on the buffer, then the critical section.                          *)

\* The destruction is noted and the id read before the message is sent
FreeStart(p, n) ==
  /\ user[p][n].pc = "owned" /\ Room(p)
  /\ buf' = [buf EXCEPT ![p][n].state = @ \cup {"DESTROYED"}]
  /\ user' = [user EXCEPT ![p][n] = [pc |-> "free", avail |-> FALSE,
                                     id |-> buf[p][n].id, sync |-> FALSE]]
  /\ UNCHANGED <<rdb, rx, work, ch, up, late, stuck, mem, sent, rcvd, odd, crashes>>

\* (Mutant: the remote is not told.)
FreeNotifyMutant(p, n) ==
  /\ user[p][n].pc = "free"
  /\ user' = [user EXCEPT ![p][n] = At("destroy")]
  /\ UNCHANGED <<buf, rdb, rx, work, ch, up, late, stuck, mem, sent, rcvd, odd, crashes>>
FreeNotify(p, n) ==
  /\ user[p][n].pc = "free"
  /\ IF CanSend(p) THEN Push(p, Destroyed(user[p][n].id, n)) ELSE UNCHANGED ch
  /\ user' = [user EXCEPT ![p][n] = At("destroy")]
  /\ UNCHANGED <<buf, rdb, rx, work, up, late, stuck, mem, sent, rcvd, odd, crashes>>

\* p's caller for n is about to move the buffer, or waits for its callback
Freeing(p, n) == user[p][n].pc \in {"destroy", "undo"} /\ ~stuck[p]

\* The entry of remote_dummy_buffers made of a freed buffer
DummyOf(b) == [there |-> TRUE, id |-> b.id, len |-> b.len, pa |-> b.pa,
               allocated |-> b.allocated]

\* If the receive context still holds a pointer to the buffer it is left
\* dangling
Dangling(p, n) ==
  IF rx[p].pc = "reply" /\ rx[p].msg.name = n
    THEN [rx EXCEPT ![p].touch = FALSE] ELSE rx

\* local_dummy_buffers -> NULL, or buffers -> remote_dummy_buffers
FreeLocked(p, n) ==
  LET b == buf[p][n] IN
  /\ Freeing(p, n) /\ n \notin work[p]
  /\ \/ /\ b.loc = "local_dummy"
        /\ mem' = IF b.allocated THEN mem \ {b.pa} ELSE mem
        /\ UNCHANGED <<rdb, odd>>
     \/ /\ b.loc = "buffers"
        /\ rdb' = [rdb EXCEPT ![p][n] = DummyOf(b)]
        /\ odd' = IF rdb[p][n].there THEN odd \cup {"overwrite"} ELSE odd
        /\ UNCHANGED mem
  /\ buf' = [buf EXCEPT ![p][n] = NoBuf]
  /\ user' = [user EXCEPT ![p][n] = Idle]
  /\ rx' = Dangling(p, n)
  /\ UNCHANGED <<work, ch, up, late, stuck, sent, rcvd, crashes>>

\* A signal ends the wait for the callback: -ERESTARTSYS with the buffer still
\* in its list, after BUFFER_DESTROYED was sent
FreeInterrupted(p, n) ==
  /\ Signals
  /\ Freeing(p, n) /\ n \in work[p]
  /\ user' = [user EXCEPT ![p][n] = At("lost")]
  /\ UNCHANGED <<buf, rdb, rx, work, ch, up, late, stuck, mem, sent, rcvd, odd, crashes>>

\* "buffer not found": -EINVAL
FreeNotFound(p, n) ==
  /\ Freeing(p, n) /\ n \notin work[p]
  /\ buf[p][n].loc = "adrift"
  /\ user' = [user EXCEPT ![p][n] = At("lost")]
  /\ UNCHANGED <<buf, rdb, rx, work, ch, up, late, stuck, mem, sent, rcvd, odd, crashes>>

-----------------------------------------------------------------------------
(* rpbuf_transmit_buffer: the availability check, the notification, and,   *)
(* for a synchronous buffer, the wait for BUFFER_ACK or destruction.       *)

\* content.id is read before the availability check takes the lock
TransmitStart(p, n, sync) ==
  /\ user[p][n].pc = "owned" /\ Room(p)
  /\ sent[p][n] < MaxXmit
  /\ user' = [user EXCEPT ![p][n] = [pc |-> "check", avail |-> FALSE,
                                     id |-> buf[p][n].id, sync |-> sync]]
  /\ UNCHANGED <<buf, rdb, rx, work, ch, up, late, stuck, mem, sent, rcvd, odd, crashes>>

\* rpbuf_buffer_is_available, else -EACCES
TransmitCheck(p, n) ==
  /\ user[p][n].pc = "check" /\ ~stuck[p]
  /\ user' = [user EXCEPT ![p][n] =
                IF n \in Available(p) THEN [@ EXCEPT !.pc = "xmit"] ELSE At("owned")]
  /\ UNCHANGED <<buf, rdb, rx, work, ch, up, late, stuck, mem, sent, rcvd, odd, crashes>>

TransmitNotify(p, n) ==
  LET u == user[p][n] IN
  /\ u.pc = "xmit"
  /\ buf' = IF u.sync THEN [buf EXCEPT ![p][n].state = @ \ {"GETNOTIFY"}] ELSE buf
  /\ IF CanSend(p)
       THEN /\ Push(p, Transmitted(u.id, u.sync, n, sent[p][n] + 1))
            /\ sent' = [sent EXCEPT ![p][n] = @ + 1]
            /\ user' = [user EXCEPT ![p][n] =
                          At(IF u.sync THEN "wait" ELSE "owned")]
       ELSE /\ user' = [user EXCEPT ![p][n] = At("owned")]
            /\ UNCHANGED <<ch, sent>>
  /\ UNCHANGED <<rdb, rx, work, up, late, stuck, mem, rcvd, odd, crashes>>

\* rpbuf_wait_for_remotebuffer_complete returns, with 0 or -ECONNRESET
WaitDone(p, n) ==
  /\ user[p][n].pc = "wait"
  /\ buf[p][n].state \cap {"GETNOTIFY", "DESTROYED"} # {}
  /\ buf' = [buf EXCEPT ![p][n].state = @ \ {"GETNOTIFY"}]
  /\ user' = [user EXCEPT ![p][n] = At("owned")]
  /\ UNCHANGED <<rdb, rx, work, ch, up, late, stuck, mem, sent, rcvd, odd, crashes>>

\* ... or a signal ends the wait with -ERESTARTSYS
WaitInterrupted(p, n) ==
  /\ Signals
  /\ user[p][n].pc = "wait"
  /\ user' = [user EXCEPT ![p][n] = At("owned")]
  /\ UNCHANGED <<buf, rdb, rx, work, ch, up, late, stuck, mem, sent, rcvd, odd, crashes>>

-----------------------------------------------------------------------------
(* The handlers of received messages, run by p's rpmsg receive context.    *)
(* A handler's callback runs after its section, with RPBUF_FLAGS_WORKING   *)
(* set; the flag DESTROYED and the acknowledgement that follow a callback  *)
(* are part of the section's step.  The race on `state' that can lose      *)
(* WORKING is the subject of module RpbufDev.                              *)

\* m is the next message for p, and p's receive context takes it: the service
\* is there, or was when the handler was entered
Receive(p, m) ==
  /\ rx[p].pc = "idle" /\ work[p] = {} /\ ~stuck[p]
  /\ up[p] \/ (p = Master /\ late)
  /\ ch[Other(p)] # << >>
  /\ m = Head(ch[Other(p)])

Popped(p) == [ch EXCEPT ![Other(p)] = Tail(@)]

\* A second BUFFER_CREATED for a buffer that is in 'buffers': answered with
\* the local description, unless the remote already considers it available
CreatedExisting(p, m) ==
  /\ Receive(p, m) /\ m.cmd = "CREATED"
  /\ m.name \in Available(p)
  /\ rx' = IF m.avail THEN rx
           ELSE [rx EXCEPT ![p] = [pc |-> "reply", touch |-> FALSE,
                                   msg |-> Created(m.name, buf[p][m.name], TRUE)]]
  /\ odd' = odd \cup {"again"}
  /\ ch' = Popped(p) /\ late' = FALSE
  /\ UNCHANGED <<buf, rdb, user, work, up, stuck, mem, sent, rcvd, crashes>>

\* The local buffer b as the remote's description m completes it: the slave
\* takes the address, the master the id.  (Mutant: the slave keeps the buffer
\* in local_dummy_buffers.)
CompletedMutant(p, b, m, pa) ==
  IF p = Slave
    THEN [b EXCEPT !.pa = m.pa, !.offline = FALSE]
    ELSE [b EXCEPT !.loc = "buffers", !.id = m.id, !.pa = pa,
                   !.allocated = TRUE, !.offline = FALSE]
Completed(p, b, m, pa) ==
  IF p = Slave
    THEN [b EXCEPT !.loc = "buffers", !.pa = m.pa, !.offline = FALSE]
    ELSE [b EXCEPT !.loc = "buffers", !.id = m.id, !.pa = pa,
                   !.allocated = TRUE, !.offline = FALSE]

\* The payloads the handler may find for b: its own, or a new one
PayloadFor(p, b) == IF p = Slave \/ b.allocated THEN {b.pa} ELSE Mem \ mem

\* A callback of n starts (only cores that have available_cb have callbacks)
Working(p, n) == IF AvailableCb THEN [work EXCEPT ![p] = {n}] ELSE work

\* available_cb, when there is no reply to send first, resets the state
AnnouncedMutant(b, c) == c
Announced(b, c) ==
  IF AvailableCb /\ ~b.offline THEN [c EXCEPT !.state = {}] ELSE c

\* local_dummy_buffers -> buffers.  A length mismatch drops the message.  A
\* taken id leaves the buffer in the list with what was assigned before.  A
\* buffer that was usable before a restart of the service is announced again
\* (action Reply); available_cb and its reset of the state come last.
CreatedLocal(p, m) ==
  LET b == buf[p][m.name]
      id == IF p = Slave THEN b.id ELSE m.id
  IN
  /\ Receive(p, m) /\ m.cmd = "CREATED"
  /\ b.loc = "local_dummy" /\ b.len = m.len
  /\ \E pa \in PayloadFor(p, b) :
       /\ mem' = IF p = Master /\ ~b.allocated THEN mem \cup {pa} ELSE mem
       /\ LET c == Completed(p, b, m, pa) IN
          IF SlotFree(p, id)
            THEN /\ buf' = [buf EXCEPT ![p][m.name] = Announced(b, c)]
                 /\ rx' = IF b.offline
                            THEN [rx EXCEPT ![p] =
                                    [pc |-> "reply", touch |-> AvailableCb,
                                     msg |-> Created(m.name, c, TRUE)]]
                            ELSE rx
                 /\ work' = IF b.offline THEN work ELSE Working(p, m.name)
                 /\ UNCHANGED odd
            ELSE /\ buf' = [buf EXCEPT ![p][m.name] =
                              [b EXCEPT !.pa = c.pa, !.allocated = c.allocated]]
                 /\ odd' = odd \cup {"clash"}
                 /\ UNCHANGED <<rx, work>>
  /\ ch' = Popped(p) /\ late' = FALSE
  /\ UNCHANGED <<rdb, user, up, stuck, sent, rcvd, crashes>>

\* The early returns of the branch above: a length that does not match, or
\* no memory for the payload
CreatedRefused(p, m) ==
  LET b == buf[p][m.name] IN
  /\ Receive(p, m) /\ m.cmd = "CREATED"
  /\ b.loc = "local_dummy"
  /\ b.len # m.len \/ PayloadFor(p, b) = {}
  /\ ch' = Popped(p) /\ late' = FALSE
  /\ UNCHANGED <<buf, rdb, user, rx, work, up, stuck, mem, sent, rcvd, odd, crashes>>

Announcement(m, allocated) ==
  [there |-> TRUE, id |-> m.id, len |-> m.len, pa |-> m.pa, allocated |-> allocated]

\* NULL -> remote_dummy_buffers, or the entry there is overwritten: a payload
\* it owned is orphaned, because its address is replaced.  (Mutant:
\* without looking in local_dummy_buffers first.)
CreatedUnknownMutant(p, m) ==
  /\ Receive(p, m) /\ m.cmd = "CREATED"
  /\ buf[p][m.name].loc # "buffers"
  /\ rdb' = [rdb EXCEPT ![p][m.name] = Announcement(m, @.allocated)]
  /\ ch' = Popped(p) /\ late' = FALSE
  /\ UNCHANGED <<buf, user, rx, work, up, stuck, mem, sent, rcvd, odd, crashes>>
CreatedUnknown(p, m) ==
  LET d == rdb[p][m.name] IN
  /\ Receive(p, m) /\ m.cmd = "CREATED"
  /\ buf[p][m.name].loc \in {"none", "adrift"}
  /\ rdb' = [rdb EXCEPT ![p][m.name] = Announcement(m, d.allocated)]
  /\ odd' = odd \cup (IF d.there THEN {"overwrite"} ELSE {})
                 \cup (IF d.allocated THEN {"orphan"} ELSE {})
  /\ ch' = Popped(p) /\ late' = FALSE
  /\ UNCHANGED <<buf, user, rx, work, up, stuck, mem, sent, rcvd, crashes>>

\* The BUFFER_CREATED sent back by the handler after it dropped the lock,
\* then available_cb.  When the notification fails the handler returns early.
Reply(p) ==
  LET r == rx[p] IN
  /\ r.pc = "reply"
  /\ IF CanSend(p)
       THEN /\ r.touch => ~stuck[p]
            /\ Push(p, r.msg)
            /\ buf' = IF r.touch THEN [buf EXCEPT ![p][r.msg.name].state = {}] ELSE buf
            /\ work' = IF r.touch THEN Working(p, r.msg.name) ELSE work
       ELSE UNCHANGED <<ch, buf, work>>
  /\ rx' = [rx EXCEPT ![p] = RxIdle]
  /\ UNCHANGED <<rdb, user, up, late, stuck, mem, sent, rcvd, odd, crashes>>

\* The callback of a handler returns: WORKING is cleared
CallbackEnd(p) ==
  /\ work[p] # {}
  /\ work' = [work EXCEPT ![p] = {}]
  /\ UNCHANGED <<buf, rdb, user, rx, ch, up, late, stuck, mem, sent, rcvd, odd, crashes>>

\* The entries of remote_dummy_buffers that carry an id.  (Mutant: that list is
\* not searched.)
DummiesWithIdMutant(p, id) == {}
DummiesWithId(p, id) == {n \in Names : rdb[p][n].there /\ rdb[p][n].id = id}

\* BUFFER_DESTROYED is matched by id alone, first in remote_dummy_buffers
\* (remote_dummy_buffers -> NULL; the list's order is not modelled, so any of
\* several equal ids may be the first): the name freed may be another one ...
DestroyedDummy(p, m) ==
  /\ Receive(p, m) /\ m.cmd = "DESTROYED"
  /\ \E n \in DummiesWithId(p, m.id) :
       /\ rdb' = [rdb EXCEPT ![p][n] = NoRdb]
       /\ mem' = IF rdb[p][n].allocated THEN mem \ {rdb[p][n].pa} ELSE mem
       /\ odd' = IF n = m.name THEN odd ELSE odd \cup {"mistaken"}
  /\ ch' = Popped(p) /\ late' = FALSE
  /\ UNCHANGED <<buf, user, rx, work, up, stuck, sent, rcvd, crashes>>

\* ... then in buffers (buffers -> local_dummy_buffers, destroyed_cb).
\* (Mutants: the buffer leaves the list and enters no other; a waiting
\* transmitter is woken as if it had been acknowledged.)
DestroyedBufferMutant(p, m) ==
  /\ Receive(p, m) /\ m.cmd = "DESTROYED"
  /\ DummiesWithId(p, m.id) = {}
  /\ \E n \in Names :
       /\ IdrFinds(p, n, m.id)
       /\ buf' = [buf EXCEPT ![p][n].loc = "none"]
  /\ ch' = Popped(p) /\ late' = FALSE
  /\ UNCHANGED <<rdb, user, rx, work, up, stuck, mem, sent, rcvd, odd, crashes>>
DestroyedWakeMutant(p, m) ==
  /\ Receive(p, m) /\ m.cmd = "DESTROYED"
  /\ DummiesWithId(p, m.id) = {}
  /\ \E n \in Names :
       /\ IdrFinds(p, n, m.id)
       /\ buf' = [buf EXCEPT ![p][n] =
                     [buf[p][n] EXCEPT !.loc = "local_dummy",
                                       !.state = buf[p][n].state \cup {"GETNOTIFY"}]]
  /\ ch' = Popped(p) /\ late' = FALSE
  /\ UNCHANGED <<rdb, user, rx, work, up, stuck, mem, sent, rcvd, odd, crashes>>
DestroyedBuffer(p, m) ==
  /\ Receive(p, m) /\ m.cmd = "DESTROYED"
  /\ DummiesWithId(p, m.id) = {}
  /\ \E n \in Names :
       /\ IdrFinds(p, n, m.id)
       /\ buf' = [buf EXCEPT ![p][n] =
                     [buf[p][n] EXCEPT !.loc = "local_dummy",
                                       !.state = buf[p][n].state \cup {"DESTROYED"}]]
       /\ work' = Working(p, n)
       /\ odd' = IF n = m.name THEN odd ELSE odd \cup {"mistaken"}
  /\ ch' = Popped(p) /\ late' = FALSE
  /\ UNCHANGED <<rdb, user, rx, up, stuck, mem, sent, rcvd, crashes>>

\* BUFFER_TRANSMITTED: rx_cb, then BUFFER_ACK for a synchronous transmit
\* (without the service lock, so even while the service goes away)
TransmittedH(p, m) ==
  /\ Receive(p, m) /\ m.cmd = "TRANSMITTED"
  /\ \E n \in Names :
       /\ IdrFinds(p, n, m.id)
       /\ "DESTROYED" \notin buf[p][n].state
       /\ rcvd' = IF n = m.name THEN [rcvd EXCEPT ![p][n] = m.seq] ELSE rcvd
       /\ work' = Working(p, n)
  /\ ch' = IF m.sync /\ CanSend(p)
             THEN [Popped(p) EXCEPT ![p] = Append(@, Ack(m.id))] ELSE Popped(p)
  /\ late' = FALSE
  /\ UNCHANGED <<buf, rdb, user, rx, up, stuck, mem, sent, odd, crashes>>

\* BUFFER_ACK
AckH(p, m) ==
  /\ Receive(p, m) /\ m.cmd = "ACK"
  /\ \E n \in Names :
       /\ IdrFinds(p, n, m.id)
       /\ buf' = [buf EXCEPT ![p][n].state = @ \cup {"GETNOTIFY"}]
  /\ ch' = Popped(p) /\ late' = FALSE
  /\ UNCHANGED <<rdb, user, rx, work, up, stuck, mem, sent, rcvd, odd, crashes>>

\* The message names no buffer here, or one being destroyed: an error is
\* logged and the message is gone
Ignored(p, m) ==
  /\ Receive(p, m)
  /\ \/ /\ m.cmd = "DESTROYED"
        /\ DummiesWithId(p, m.id) = {} /\ SlotFree(p, m.id)
     \/ /\ m.cmd = "TRANSMITTED"
        /\ \A n \in Names : IdrFinds(p, n, m.id) => "DESTROYED" \in buf[p][n].state
     \/ m.cmd = "ACK" /\ SlotFree(p, m.id)
  /\ ch' = Popped(p) /\ late' = FALSE
  /\ UNCHANGED <<buf, rdb, user, rx, work, up, stuck, mem, sent, rcvd, odd, crashes>>

-----------------------------------------------------------------------------
(* Restart of the slave core under a running master.                       *)

\* External: the remote core stops with everything it held
Crash ==
  /\ up[Slave] /\ crashes < MaxCrash
  /\ crashes' = crashes + 1
  /\ up' = [up EXCEPT ![Slave] = FALSE]
  /\ stuck' = [stuck EXCEPT ![Slave] = FALSE]
  /\ buf' = [buf EXCEPT ![Slave] = [n \in Names |-> NoBuf]]
  /\ rdb' = [rdb EXCEPT ![Slave] = [n \in Names |-> NoRdb]]
  /\ user' = [user EXCEPT ![Slave] = [n \in Names |-> Idle]]
  /\ rx' = [rx EXCEPT ![Slave] = RxIdle]
  /\ work' = [work EXCEPT ![Slave] = {}]
  /\ UNCHANGED <<ch, late, mem, sent, rcvd, odd>>

\* rpbuf_reset_controller: buffers -> local_dummy_buffers, and
\* remote_dummy_buffers -> NULL with the payloads.  (Mutant: the buffers are
\* dropped.)
ResetBuffersMutant ==
  [n \in Names |-> IF n \in Available(Master) THEN NoBuf ELSE buf[Master][n]]
ResetBuffers ==
  [n \in Names |->
     IF n \in Available(Master)
       THEN [buf[Master][n] EXCEPT !.loc = "local_dummy", !.offline = TRUE]
       ELSE buf[Master][n]]
NoDummies == [n \in Names |-> NoRdb]
DummyBlocks == {rdb[Master][n].pa :
                  n \in {k \in Names : rdb[Master][k].there /\ rdb[Master][k].allocated}}

\* rpmsg_rpbuf_service_remove -> rpbuf_unregister_service.  Neither it nor the
\* reset takes controller_lock, so the reset may fall inside a section of the
\* master.  (Whoever enters a handler later finds no link: not modelled.)
Unregister == up[Master] /\ ~up[Slave] /\ up' = [up EXCEPT ![Master] = FALSE]
Entered == rx[Master].pc = "idle" /\ work[Master] = {} /\ ch[Slave] # << >>

\* Between two sections; it may overtake a handler that waits for the lock or
\* is about to send its reply
ServiceRemove ==
  /\ Unregister
  /\ late' \in {FALSE, Entered}
  /\ buf' = [buf EXCEPT ![Master] = ResetBuffers]
  /\ rdb' = [rdb EXCEPT ![Master] = NoDummies]
  /\ mem' = mem \ DummyBlocks
  /\ UNCHANGED <<user, rx, work, ch, stuck, sent, rcvd, odd, crashes>>

\* Inside rpbuf_free_buffer_internal, after the search in local_dummy_buffers:
\* idr_remove finds nothing, or the new dummy entry is added after the reset
RemoveInFree(n) ==
  LET b == buf[Master][n] IN
  /\ Unregister
  /\ late' \in {FALSE, Entered}
  /\ Freeing(Master, n) /\ n \notin work[Master] /\ b.loc = "buffers"
  /\ \/ /\ buf' = [buf EXCEPT ![Master] = ResetBuffers]
        /\ rdb' = [rdb EXCEPT ![Master] = NoDummies]
        /\ user' = [user EXCEPT ![Master][n] = At("lost")]
        /\ UNCHANGED rx
     \/ /\ buf' = [buf EXCEPT ![Master] = [ResetBuffers EXCEPT ![n] = NoBuf]]
        /\ rdb' = [rdb EXCEPT ![Master] = [NoDummies EXCEPT ![n] = DummyOf(b)]]
        /\ user' = [user EXCEPT ![Master][n] = Idle]
        /\ rx' = Dangling(Master, n)
  /\ mem' = mem \ DummyBlocks
  /\ UNCHANGED <<work, ch, stuck, sent, rcvd, odd, crashes>>

\* Inside rpbuf_alloc_buffer, after the dummy entry was found: the reset frees
\* the entry and its payload under the allocation (the freed entry is taken
\* to keep its content).  The buffer entered 'buffers' after the reset or
\* before it; the list_del of the freed entry is an oops under the lock, or
\* goes on.
RemoveInAlloc(n, len) ==
  LET d == rdb[Master][n] IN
  /\ Unregister
  /\ late' \in {FALSE, Entered}
  /\ MayAlloc(Master, n) /\ d.there /\ d.len = len
  /\ \E pa \in IF d.allocated THEN {d.pa} ELSE Mem \ mem, after \in BOOLEAN :
       LET b == Instance("buffers", d.id, len, pa, TRUE)
           c == [b EXCEPT !.loc = "local_dummy", !.offline = TRUE]
       IN
       /\ buf' = [buf EXCEPT ![Master] = [ResetBuffers EXCEPT ![n] = IF after THEN b ELSE c]]
       /\ mem' = (mem \ DummyBlocks) \cup (IF d.allocated THEN {} ELSE {pa})
  /\ \/ /\ user' = [user EXCEPT ![Master][n] = [pc |-> "notify", avail |-> TRUE,
                                                id |-> 0, sync |-> FALSE]]
        /\ UNCHANGED stuck
     \/ /\ user' = [user EXCEPT ![Master][n] = At("lost")]
        /\ stuck' = [stuck EXCEPT ![Master] = TRUE]
  /\ rdb' = [rdb EXCEPT ![Master] = NoDummies]
  /\ odd' = odd \cup {"overtaken"}
  /\ UNCHANGED <<rx, work, ch, sent, rcvd, crashes>>

\* Inside the BUFFER_CREATED handler, between idr_alloc and list_del: the
\* buffer enters local_dummy_buffers a second time and is then taken out, or
\* the list is destroyed and its next reader never leaves the lock.  The
\* announcement that follows fails.
RemoveInCreated(m) ==
  LET b == buf[Master][m.name] IN
  /\ Unregister
  /\ Receive(Master, m) /\ m.cmd = "CREATED"
  /\ b.loc = "local_dummy" /\ b.len = m.len /\ SlotFree(Master, m.id)
  /\ \E pa \in PayloadFor(Master, b) :
       LET c == [Completed(Master, b, m, pa) EXCEPT !.loc = "adrift"] IN
       /\ buf' = [buf EXCEPT ![Master] = [ResetBuffers EXCEPT ![m.name] = c]]
       /\ mem' = (mem \ DummyBlocks) \cup (IF b.allocated THEN {} ELSE {pa})
  /\ rdb' = [rdb EXCEPT ![Master] = NoDummies]
  /\ \E broken \in BOOLEAN : stuck' = [stuck EXCEPT ![Master] = broken]
  /\ odd' = odd \cup {"overtaken"}
  /\ ch' = Popped(Master) /\ late' = FALSE
  /\ UNCHANGED <<user, rx, work, sent, rcvd, crashes>>

\* Inside a handler that has found an entry of remote_dummy_buffers: the entry
\* is freed under it
RemoveInDummy(m) ==
  /\ Unregister
  /\ Receive(Master, m)
  /\ \/ m.cmd = "DESTROYED" /\ DummiesWithId(Master, m.id) # {}
     \/ m.cmd = "CREATED" /\ rdb[Master][m.name].there
  /\ buf' = [buf EXCEPT ![Master] = ResetBuffers]
  /\ rdb' = [rdb EXCEPT ![Master] = NoDummies]
  /\ mem' = mem \ DummyBlocks
  /\ \E broken \in BOOLEAN : stuck' = [stuck EXCEPT ![Master] = broken]
  /\ odd' = odd \cup {"overtaken"}
  /\ ch' = Popped(Master) /\ late' = FALSE
  /\ UNCHANGED <<user, rx, work, sent, rcvd, crashes>>

RemoveInside ==
  \/ \E n \in Names : RemoveInFree(n) \/ \E len \in Lens : RemoveInAlloc(n, len)
  \/ ch[Slave] # << >> /\
     LET m == Head(ch[Slave]) IN RemoveInCreated(m) \/ RemoveInDummy(m)

\* rpmsg_rpbuf_service_probe -> rpbuf_register_service, on fresh vrings.  The
\* old endpoint is destroyed first, which waits for its handler (cb_lock).
ServiceProbe ==
  /\ ~up[Master] /\ ~up[Slave]
  /\ rx[Master].pc = "idle" /\ work[Master] = {} /\ ~late
  /\ up' = [p \in Peers |-> TRUE]
  /\ ch' = [p \in Peers |-> << >>]
  /\ late' = FALSE
  /\ UNCHANGED <<buf, rdb, user, rx, work, stuck, mem, sent, rcvd, odd, crashes>>

-----------------------------------------------------------------------------
UserStep(p, n) ==
  \/ AllocNotify(p, n)
  \/ FreeNotify(p, n) \/ FreeLocked(p, n) \/ FreeNotFound(p, n)
  \/ TransmitCheck(p, n) \/ TransmitNotify(p, n) \/ WaitDone(p, n)

UserCall(p, n) ==
  \/ \E len \in Lens :
       \/ AllocFirst(p, n, len)
       \/ p = Master /\ AllocFirstNoMem(n, len)
       \/ p = Slave /\ AllocSecondSlave(n, len)
       \/ p = Master /\ AllocSecondMaster(n, len)
  \/ FreeStart(p, n)
  \/ \E sync \in BOOLEAN : TransmitStart(p, n, sync)

RxStep(p) ==
  \/ Reply(p) \/ CallbackEnd(p)
  \/ ch[Other(p)] # << >> /\
     LET m == Head(ch[Other(p)]) IN
     \/ CreatedExisting(p, m) \/ CreatedLocal(p, m)
     \/ CreatedRefused(p, m) \/ CreatedUnknown(p, m)
     \/ DestroyedDummy(p, m) \/ DestroyedBuffer(p, m)
     \/ TransmittedH(p, m) \/ AckH(p, m) \/ Ignored(p, m)

Next ==
  \/ \E p \in Peers, n \in Names :
       \/ UserCall(p, n) \/ UserStep(p, n)
       \/ WaitInterrupted(p, n) \/ FreeInterrupted(p, n)
  \/ \E p \in Peers : RxStep(p)
  \/ Crash \/ ServiceRemove \/ RemoveInside \/ ServiceProbe

\* A call that was entered runs on, received messages are handled, and the
\* rpmsg bus removes and probes the service after a restart.  Nothing makes
\* a caller start another call.
Fairness ==
  /\ \A p \in Peers, n \in Names : WF_vars(UserStep(p, n))
  /\ \A p \in Peers : WF_vars(RxStep(p))
  /\ WF_vars(ServiceRemove) /\ WF_vars(ServiceProbe)

Spec == Init /\ [][Next]_vars

FairSpec == Spec /\ Fairness

-----------------------------------------------------------------------------
(* Properties.                                                             *)

\* A caller that holds a handle finds its buffer in exactly one of the lists,
\* and no list keeps a buffer that nobody holds, except behind a lock that an
\* allocation failure left locked; unless a reset has overtaken a section of
\* the master that was at work on the lists.
OwnedIsTracked ==
  "overtaken" \notin odd =>
    \A p \in Peers, n \in Names :
      /\ user[p][n].pc # "idle" => buf[p][n].loc \in {"local_dummy", "buffers"}
      /\ buf[p][n].loc # "none" => user[p][n].pc # "idle" \/ stuck[p]

\* BUFFER_DESTROYED takes away "a buffer with the same name" (the comment of
\* the handler, which searches for the id)
DestroyedByName == "mistaken" \notin odd

\* A name is never in remote_dummy_buffers and in a local list at once, so
\* the "(unexpected) overwrite" branch of rpbuf_free_buffer_internal is dead.
Exclusive ==
  \A p \in Peers, n \in Names :
    rdb[p][n].there => buf[p][n].loc \notin {"local_dummy", "buffers"}

\* The holders of payload memory on the master
Owners == {<<"buf", n>> : n \in {k \in Names : buf[Master][k].allocated}}
     \cup {<<"rdb", n>> : n \in {k \in Names : rdb[Master][k].allocated}}
PaOf(o) == IF o[1] = "buf" THEN buf[Master][o[2]].pa ELSE rdb[Master][o[2]].pa

\* What makes the master lose track of a payload: an idr_alloc that failed
\* after the payload was taken, a BUFFER_CREATED that replaced the address of a
\* dummy entry that owned one, a reset inside an allocation or a handler
Leaky == {"clash", "orphan", "overtaken"}

\* Every block of payload memory has exactly one owner on the master through
\* all the moves between the three lists (no leak, no double free, no block
\* shared by two names), unless one of the above has happened.
PayloadOwnership ==
  odd \cap Leaky = {} =>
    /\ \A o \in Owners : PaOf(o) \in mem
    /\ \A a, b \in Owners : PaOf(a) = PaOf(b) => a = b
    /\ \A m \in mem : \E o \in Owners : PaOf(o) = m

\* Between two cores that lose nothing none of the branches that log
\* "(unexpected)" is taken: no BUFFER_CREATED meets a usable buffer, and
\* remote_dummy_buffers never has a second entry for a name.
NothingOdd == odd \cap Unexpected = {}

\* Nothing is in progress: no message, no reply, no callback, no call
Quiescent ==
  /\ \A p \in Peers : ch[p] = << >> /\ rx[p].pc = "idle" /\ work[p] = {} /\ up[p] /\ ~stuck[p]
  /\ \A p \in Peers, n \in Names : user[p][n].pc \in {"idle", "owned", "lost"}

\* When nothing is in progress the cores agree on every name: usable on both
\* sides with one id, length and address, or held by one side and known as a
\* dummy to the other.  A name that a free left behind is excepted: a signal
\* ended that free after the remote was told that the buffer is gone.
Agreement ==
  Quiescent =>
    \A n \in Names : (\A p \in Peers : user[p][n].pc # "lost") =>
      \A p \in Peers :
        LET b == buf[p][n]  o == buf[Other(p)][n]  d == rdb[Other(p)][n] IN
        /\ b.loc = "buffers" =>
             o.loc = "buffers" /\ o.id = b.id /\ o.len = b.len /\ o.pa = b.pa
        /\ b.loc = "local_dummy" => d.there /\ d.len = b.len
        /\ d.there => b.loc = "local_dummy"

\* The slave uses payload memory only while the master keeps it allocated, or
\* the message that takes the buffer away from the slave is on its way
SlavePayloadLive ==
  \A n \in Available(Slave) :
    \/ buf[Slave][n].pa \in mem
    \/ \E i \in DOMAIN ch[Master] :
         ch[Master][i].cmd = "DESTROYED" /\ ch[Master][i].id = buf[Slave][n].id

\* When nothing is in progress a usable buffer accepts data: no earlier
\* destruction is still recorded in its state, which would refuse every rx
UsableAccepts ==
  Quiescent =>
    \A p \in Peers : \A n \in Available(p) :
      user[p][n].pc # "lost" => "DESTROYED" \notin buf[p][n].state

\* The first synchronous transmit of a buffer that returns 0 has been through
\* rx_cb on the remote.  (A later one can be ended by the acknowledgement that
\* an interrupted one left behind, which this does not exclude.)
FirstSyncReceived ==
  \A p \in Peers, n \in Names :
    sent[p][n] = 1 /\ user[p][n].pc = "wait" /\ buf[p][n].state = {"GETNOTIFY"}
      => rcvd[Other(p)][n] = 1

\* rpbuf_transmit_buffer returns, unless an allocation failure left a
\* controller_lock locked
TransmitReturns == \A p \in Peers, n \in Names :
  user[p][n].pc \in {"check", "xmit", "wait"}
    ~> user[p][n].pc \in {"idle", "owned"} \/ \E q \in Peers : stuck[q]

\* A name that both cores allocated and keep becomes usable on both for good,
\* in whatever order their calls and messages crossed
Held(p, n) == user[p][n].pc \in {"owned", "check", "xmit", "wait"}
Converges == \A n \in Names :
  <>[](\A p \in Peers : Held(p, n)) => <>[](\A p \in Peers : n \in Available(p))

=============================================================================

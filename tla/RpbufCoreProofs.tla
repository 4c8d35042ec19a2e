-------------------------- MODULE RpbufCoreProofs --------------------------
(***************************************************************************)
(* Theorems about RpbufCore for every value of its constants.              *)
(***************************************************************************)
EXTENDS RpbufCore, SequenceTheorems, TLAPS

\* The message a receive context takes is a message, and the channels stay
\* channels when it is taken or when one is sent
LEMMA ChannelTypes ==
  ASSUME TypeOK
  PROVE  /\ \A p \in Peers : Other(p) \in Peers
         /\ \A p \in Peers, m \in Message : Append(ch[p], m) \in Seq(Message)
         /\ \A p \in Peers : ch[Other(p)] # << >> => Head(ch[Other(p)]) \in Message
         /\ \A p \in Peers : ch[Other(p)] # << >> => Popped(p) \in [Peers -> Seq(Message)]
<1>1. \A p \in Peers : Other(p) \in Peers
  BY DEF Other, Peers, Master, Slave
<1>2. \A p \in Peers : ch[p] \in Seq(Message)
  BY DEF TypeOK
<1>3. \A p \in Peers, m \in Message : Append(ch[p], m) \in Seq(Message)
  BY <1>2, AppendProperties
<1>4. \A p \in Peers : ch[Other(p)] # << >> => Head(ch[Other(p)]) \in Message
  BY <1>1, <1>2, HeadTailProperties
<1>5. \A p \in Peers : ch[Other(p)] # << >> => Popped(p) \in [Peers -> Seq(Message)]
  BY <1>1, <1>2, HeadTailProperties DEF Popped, TypeOK
<1>6. QED
  BY <1>1, <1>3, <1>4, <1>5

\* The tables hold entries, and stay tables when one entry is replaced
LEMMA Tables ==
  ASSUME TypeOK
  PROVE  \A p \in Peers, n \in Names :
           /\ buf[p][n] \in Buffer /\ rdb[p][n] \in RemoteDummy /\ user[p][n] \in User
           /\ \A b \in Buffer : [buf EXCEPT ![p][n] = b] \in [Peers -> [Names -> Buffer]]
           /\ \A d \in RemoteDummy :
                [rdb EXCEPT ![p][n] = d] \in [Peers -> [Names -> RemoteDummy]]
           /\ \A u \in User : [user EXCEPT ![p][n] = u] \in [Peers -> [Names -> User]]
BY DEF TypeOK

\* The tables are functions
LEMMA TableTypes ==
  ASSUME TypeOK
  PROVE  buf \in [Peers -> [Names -> Buffer]] /\ user \in [Peers -> [Names -> User]]
BY DEF TypeOK

\* The entries the actions build are entries
LEMMA Entries ==
  /\ \A loc \in {"none", "local_dummy", "buffers"}, id \in Ids, len \in Lens \cup {0},
        pa \in Mem \cup {NoPa}, al \in BOOLEAN : Instance(loc, id, len, pa, al) \in Buffer
  /\ NoBuf \in Buffer /\ NoRdb \in RemoteDummy /\ Idle \in User
  /\ \A pc \in {"idle", "notify", "owned", "check", "xmit", "wait", "free", "destroy",
                 "undo", "lost"} : At(pc) \in User
BY ConstantsAssumption DEF Instance, NoBuf, NoRdb, At, Idle, Buffer, RemoteDummy, User

\* The fields the actions assign keep an entry an entry
LEMMA Fields ==
  ASSUME NEW b \in Buffer
  PROVE  /\ \A s \in SUBSET {"GETNOTIFY", "DESTROYED"} : [b EXCEPT !.state = s] \in Buffer
         /\ [b EXCEPT !.loc = "local_dummy", !.offline = TRUE] \in Buffer
         /\ [b EXCEPT !.loc = "adrift"] \in Buffer
         /\ \A pa \in Mem \cup {NoPa}, al \in BOOLEAN :
              [b EXCEPT !.pa = pa, !.allocated = al] \in Buffer
         /\ \A s \in SUBSET {"GETNOTIFY", "DESTROYED"} : 
              [b EXCEPT !.loc = "local_dummy", !.state = s] \in Buffer
BY DEF Buffer

LEMMA DummyFields ==
  ASSUME NEW d \in RemoteDummy
  PROVE  [d EXCEPT !.allocated = TRUE] \in RemoteDummy
BY DEF RemoteDummy

\* Moving a caller to another place keeps the callers' table
Pcs == {"idle", "notify", "owned", "check", "xmit", "wait", "free", "destroy", "undo", "lost"}
LEMMA Moves ==
  ASSUME TypeOK, NEW p \in Peers, NEW n \in Names
  PROVE  /\ \A pc \in Pcs : [user EXCEPT ![p][n] = At(pc)] \in [Peers -> [Names -> User]]
         /\ [user EXCEPT ![p][n] = Idle] \in [Peers -> [Names -> User]]
         /\ \A avail \in BOOLEAN :
              [user EXCEPT ![p][n] = [pc |-> "notify", avail |-> avail, id |-> 0, sync |-> FALSE]]
                \in [Peers -> [Names -> User]]
<1>1. \A avail \in BOOLEAN : [pc |-> "notify", avail |-> avail, id |-> 0, sync |-> FALSE] \in User
  BY ConstantsAssumption DEF User
<1>2. \A pc \in Pcs : At(pc) \in User
  BY Entries DEF Pcs
<1>3. QED
  BY <1>1, <1>2, Entries, Tables

\* A call of rpbuf_alloc_buffer keeps the types
LEMMA AllocTypes ==
  ASSUME TypeOK, NEW p \in Peers, NEW n \in Names, NEW len \in Lens
  PROVE  /\ AllocFirst(p, n, len) => TypeOK'
         /\ AllocFirstNoMem(n, len) => TypeOK'
         /\ AllocSecondSlave(n, len) => TypeOK'
         /\ AllocSecondMaster(n, len) => TypeOK'
<1>0. /\ Master \in Peers /\ Slave \in Peers
      /\ \A q \in Peers : /\ rdb[q][n].id \in Ids /\ rdb[q][n].pa \in Mem \cup {NoPa}
                          /\ [rdb[q][n] EXCEPT !.allocated = TRUE] \in RemoteDummy
  BY ConstantsAssumption, Tables, DummyFields DEF Peers, User, RemoteDummy
<1>1. ASSUME AllocFirst(p, n, len) PROVE TypeOK'
  <2>1. buf' \in [Peers -> [Names -> Buffer]] /\ mem' \in SUBSET Mem
    <3>1. CASE p = Slave
      <4>1. PICK id \in Ids : buf' = [buf EXCEPT ![p][n] = Instance("local_dummy", id, len, NoPa, FALSE)]
        BY <1>1, <3>1 DEF AllocFirst, Allocated, Master, Slave
      <4>2. mem' = mem
        BY <1>1, <3>1 DEF AllocFirst, Master, Slave
      <4>3. Instance("local_dummy", id, len, NoPa, FALSE) \in Buffer
        BY Entries
      <4>4. QED
        BY <4>1, <4>2, <4>3, Tables DEF TypeOK
    <3>2. CASE p = Master
      <4>1. PICK m \in Mem \ mem :
              /\ mem' = mem \cup {m}
              /\ buf' = [buf EXCEPT ![p][n] = Instance("local_dummy", 0, len, m, TRUE)]
        BY <1>1, <3>2 DEF AllocFirst, Allocated, Master, Slave
      <4>2. Instance("local_dummy", 0, len, m, TRUE) \in Buffer
        BY Entries, ConstantsAssumption
      <4>3. QED
        BY <4>1, <4>2, Tables DEF TypeOK
    <3>3. QED
      BY <3>1, <3>2, <1>1 DEF AllocFirst
  <2>2. user' \in [Peers -> [Names -> User]]
    <3>1. user' = [user EXCEPT ![p][n] = [pc |-> "notify", avail |-> FALSE,
                                          id |-> 0, sync |-> FALSE]]
      BY <1>1 DEF AllocFirst, Allocated
    <3>2. QED
      BY <3>1, Moves
  <2>3. QED
    BY <1>1, <2>1, <2>2 DEF AllocFirst, TypeOK
<1>2. ASSUME AllocFirstNoMem(n, len) PROVE TypeOK'
  <2>1. buf' \in [Peers -> [Names -> Buffer]]
    <3>1. Instance("local_dummy", 0, len, NoPa, FALSE) \in Buffer
      BY Entries, ConstantsAssumption
    <3>2. QED
      BY <1>0, <1>2, <3>1, Tables DEF AllocFirstNoMem
  <2>2. stuck' \in [Peers -> BOOLEAN]
    BY <1>2 DEF AllocFirstNoMem, TypeOK
  <2>3. QED
    BY <1>2, <2>1, <2>2 DEF AllocFirstNoMem, TypeOK
<1>3. ASSUME AllocSecondSlave(n, len) PROVE TypeOK'
  <2>1. CASE UNCHANGED <<buf, user, rdb>> /\ odd' = odd \cup {"clash"}
    BY <1>3, <2>1 DEF AllocSecondSlave, TypeOK
  <2>2. CASE \E id \in Ids :
               /\ Allocated(Slave, n, Instance("buffers", id, len, rdb[Slave][n].pa, FALSE), TRUE)
               /\ rdb' = [rdb EXCEPT ![Slave][n] = NoRdb]
               /\ UNCHANGED odd
    <3>1. PICK id \in Ids :
            /\ Allocated(Slave, n, Instance("buffers", id, len, rdb[Slave][n].pa, FALSE), TRUE)
            /\ rdb' = [rdb EXCEPT ![Slave][n] = NoRdb]
            /\ UNCHANGED odd
      BY <2>2
    <3>2. Instance("buffers", id, len, rdb[Slave][n].pa, FALSE) \in Buffer
      BY <1>0, Entries
    <3>3. buf' \in [Peers -> [Names -> Buffer]] /\ user' \in [Peers -> [Names -> User]]
      <4>1. /\ buf' = [buf EXCEPT ![Slave][n] = Instance("buffers", id, len, rdb[Slave][n].pa, FALSE)]
            /\ user' = [user EXCEPT ![Slave][n] = [pc |-> "notify", avail |-> TRUE,
                                                  id |-> 0, sync |-> FALSE]]
        BY <3>1 DEF Allocated
      <4>2. QED
        BY <1>0, <3>2, <4>1, Moves, Tables
    <3>4. rdb' \in [Peers -> [Names -> RemoteDummy]]
      BY <1>0, <3>1, Entries, Tables
    <3>5. QED
      BY <1>3, <3>1, <3>3, <3>4 DEF AllocSecondSlave, TypeOK
  <2>3. QED
    BY <1>3, <2>1, <2>2 DEF AllocSecondSlave
<1>4. ASSUME AllocSecondMaster(n, len) PROVE TypeOK'
  <2> DEFINE d == rdb[Master][n]
  <2>1. PICK pa \in IF d.allocated THEN {d.pa} ELSE Mem \ mem :
          /\ mem' = IF d.allocated THEN mem ELSE mem \cup {pa}
          /\ IF SlotFree(Master, d.id)
               THEN /\ Allocated(Master, n, Instance("buffers", d.id, len, pa, TRUE), TRUE)
                    /\ rdb' = [rdb EXCEPT ![Master][n] = NoRdb]
                    /\ UNCHANGED odd
               ELSE /\ rdb' = [rdb EXCEPT ![Master][n].allocated = TRUE]
                    /\ odd' = odd \cup {"clash"}
                    /\ UNCHANGED <<buf, user>>
    BY <1>4 DEF AllocSecondMaster
  <2>2. pa \in Mem \cup {NoPa} /\ mem' \in SUBSET Mem
    BY <1>0, <2>1 DEF TypeOK
  <2>3. Instance("buffers", d.id, len, pa, TRUE) \in Buffer
    BY <1>0, <2>2, Entries
  <2>4. CASE SlotFree(Master, d.id)
    <3>1. buf' \in [Peers -> [Names -> Buffer]] /\ user' \in [Peers -> [Names -> User]]
      <4>1. /\ buf' = [buf EXCEPT ![Master][n] = Instance("buffers", d.id, len, pa, TRUE)]
            /\ user' = [user EXCEPT ![Master][n] = [pc |-> "notify", avail |-> TRUE,
                                                   id |-> 0, sync |-> FALSE]]
        BY <2>1, <2>4 DEF Allocated
      <4>2. QED
        BY <1>0, <2>3, <4>1, Moves, Tables
    <3>2. rdb' \in [Peers -> [Names -> RemoteDummy]]
      <4>1. rdb' = [rdb EXCEPT ![Master][n] = NoRdb]
        BY <2>1, <2>4
      <4>2. QED
        BY <1>0, <4>1, Entries, Tables
    <3>3. QED
      BY <1>4, <2>1, <2>2, <2>4, <3>1, <3>2 DEF AllocSecondMaster, TypeOK
  <2>5. CASE ~SlotFree(Master, d.id)
    <3>1. rdb' \in [Peers -> [Names -> RemoteDummy]]
      <4>1. rdb' = [rdb EXCEPT ![Master][n].allocated = TRUE]
        BY <2>1, <2>5
      <4>2. QED
        BY <1>0, <4>1, Tables
    <3>2. QED
      BY <1>4, <2>1, <2>2, <2>5, <3>1 DEF AllocSecondMaster, TypeOK
  <2>6. QED
    BY <2>4, <2>5
<1>5. QED
  BY <1>1, <1>2, <1>3, <1>4

\* Leaving a pointer dangling keeps the receive contexts
LEMMA DanglingTypes ==
  ASSUME TypeOK, NEW p \in Peers, NEW n \in Names
  PROVE  Dangling(p, n) \in [Peers -> RxState]
<1>1. rx[p].pc = "reply" => [rx[p] EXCEPT !.touch = FALSE] \in RxState
  <2>1. rx[p].pc = "reply" => rx[p] \in [pc: {"reply"}, msg: CreatedMsg, touch: BOOLEAN]
    BY DEF TypeOK, RxState, RxIdle
  <2>2. \A r \in [pc: {"reply"}, msg: CreatedMsg, touch: BOOLEAN] :
          [r EXCEPT !.touch = FALSE] \in RxState
    BY DEF RxState
  <2>3. QED
    BY <2>1, <2>2
<1>2. Dangling(p, n) = rx
      \/ (rx[p].pc = "reply" /\ Dangling(p, n) = [rx EXCEPT ![p].touch = FALSE])
  BY DEF Dangling
<1>3. QED
  BY <1>1, <1>2 DEF TypeOK

\* A callback keeps the table of what the receive contexts work on
LEMMA WorkTypes ==
  ASSUME TypeOK, NEW p \in Peers, NEW n \in Names
  PROVE  Working(p, n) \in [Peers -> SUBSET Names]
BY DEF Working, TypeOK

\* The other steps of a caller keep the types
LEMMA CallTypes ==
  ASSUME TypeOK, NEW p \in Peers, NEW n \in Names
  PROVE  /\ AllocNotify(p, n) => TypeOK'
         /\ FreeStart(p, n) => TypeOK'
         /\ FreeNotify(p, n) => TypeOK'
         /\ FreeLocked(p, n) => TypeOK'
         /\ FreeInterrupted(p, n) => TypeOK'
         /\ FreeNotFound(p, n) => TypeOK'
         /\ \A sync \in BOOLEAN : TransmitStart(p, n, sync) => TypeOK'
         /\ TransmitCheck(p, n) => TypeOK'
         /\ TransmitNotify(p, n) => TypeOK'
         /\ WaitDone(p, n) => TypeOK'
         /\ WaitInterrupted(p, n) => TypeOK'
<1> DEFINE b == buf[p][n]  u == user[p][n]
<1>0. /\ b \in Buffer /\ u \in User
      /\ b.id \in Ids /\ b.len \in Lens \cup {0} /\ b.pa \in Mem \cup {NoPa}
      /\ b.allocated \in BOOLEAN /\ b.state \in SUBSET {"GETNOTIFY", "DESTROYED"}
      /\ u.id \in Ids /\ u.sync \in BOOLEAN /\ u.avail \in BOOLEAN
  BY Tables DEF Buffer, User
<1>1. /\ Created(n, b, u.avail) \in Message
      /\ Destroyed(u.id, n) \in Message
      /\ Transmitted(u.id, u.sync, n, sent[p][n] + 1) \in Message
  BY <1>0 DEF Created, Destroyed, Transmitted, Message, CreatedMsg, TypeOK
<1>2. \A m \in Message : Push(p, m) => ch' \in [Peers -> Seq(Message)]
  BY ChannelTypes DEF Push, TypeOK
<1>3. \A s \in SUBSET {"GETNOTIFY", "DESTROYED"} :
        [buf EXCEPT ![p][n].state = s] \in [Peers -> [Names -> Buffer]]
  BY <1>0, Fields, Tables
<1>4. ASSUME AllocNotify(p, n) PROVE TypeOK'
  <2>1. buf' \in [Peers -> [Names -> Buffer]]
    <3>1. b.state \cup {"DESTROYED"} \in SUBSET {"GETNOTIFY", "DESTROYED"}
      BY <1>0
    <3>2. QED
      <4>1. UNCHANGED buf \/ buf' = [buf EXCEPT ![p][n].state = b.state \cup {"DESTROYED"}]
        <5>1. \/ CanSend(p) /\ UNCHANGED buf
              \/ buf' = [buf EXCEPT ![p][n].state = @ \cup {"DESTROYED"}]
          BY <1>4, Zenon DEF AllocNotify
        <5>2. QED
          BY <5>1
      <4>2. QED
        BY <1>3, <3>1, <4>1 DEF TypeOK
  <2>2. user' \in [Peers -> [Names -> User]]
    <3>1. \E pc \in Pcs : user' = [user EXCEPT ![p][n] = At(pc)]
      BY <1>4 DEF AllocNotify, Pcs
    <3>2. QED
      BY <3>1, Moves
  <2>3. ch' \in [Peers -> Seq(Message)]
    BY <1>1, <1>2, <1>4 DEF AllocNotify, TypeOK
  <2>4. QED
    BY <1>4, <2>1, <2>2, <2>3 DEF AllocNotify, TypeOK
<1>5. ASSUME FreeStart(p, n) PROVE TypeOK'
  <2>1. b.state \cup {"DESTROYED"} \in SUBSET {"GETNOTIFY", "DESTROYED"}
    BY <1>0
  <2>2. buf' \in [Peers -> [Names -> Buffer]]
    BY <1>3, <1>5, <2>1 DEF FreeStart
  <2>3. [pc |-> "free", avail |-> FALSE, id |-> b.id, sync |-> FALSE] \in User
    BY <1>0 DEF User
  <2>4. user' \in [Peers -> [Names -> User]]
    BY <1>5, <2>3, Tables DEF FreeStart
  <2>5. QED
    BY <1>5, <2>2, <2>4 DEF FreeStart, TypeOK
<1>6. ASSUME FreeNotify(p, n) PROVE TypeOK'
  <2>1. user' \in [Peers -> [Names -> User]]
    BY <1>6, Moves DEF FreeNotify, Pcs
  <2>2. ch' \in [Peers -> Seq(Message)]
    BY <1>1, <1>2, <1>6 DEF FreeNotify, TypeOK
  <2>3. QED
    BY <1>6, <2>1, <2>2 DEF FreeNotify, TypeOK
<1>13. ASSUME FreeLocked(p, n) PROVE TypeOK'
  <2>1. buf' \in [Peers -> [Names -> Buffer]] /\ user' \in [Peers -> [Names -> User]]
    BY <1>13, Entries, Tables, Moves DEF FreeLocked
  <2>2. rdb' \in [Peers -> [Names -> RemoteDummy]] /\ mem' \in SUBSET Mem
    <3>1. DummyOf(b) \in RemoteDummy
      BY <1>0 DEF DummyOf, RemoteDummy
    <3>2. CASE b.loc = "local_dummy"
      BY <1>13, <3>2 DEF FreeLocked, TypeOK
    <3>3. CASE b.loc = "buffers"
      <4>1. mem' = mem /\ rdb' = [rdb EXCEPT ![p][n] = DummyOf(b)]
        BY <1>13, <3>3 DEF FreeLocked
      <4>2. QED
        BY <3>1, <4>1, Tables DEF TypeOK
    <3>4. QED
      BY <1>13, <3>2, <3>3 DEF FreeLocked
  <2>3. rx' \in [Peers -> RxState]
    BY <1>13, DanglingTypes DEF FreeLocked
  <2>4. odd' \subseteq Unexpected \cup {"mistaken", "clash", "orphan", "overtaken"}
    BY <1>13 DEF FreeLocked, TypeOK, Unexpected
  <2>5. QED
    BY <1>13, <2>1, <2>2, <2>3, <2>4 DEF FreeLocked, TypeOK
<1>14. ASSUME FreeInterrupted(p, n) \/ FreeNotFound(p, n) PROVE TypeOK'
  <2>1. user' = [user EXCEPT ![p][n] = At("lost")] /\ "lost" \in Pcs
    BY <1>14 DEF FreeInterrupted, FreeNotFound, Pcs
  <2>3. user' \in [Peers -> [Names -> User]]
    BY <2>1, Moves
  <2>2. QED
    BY <1>14, <2>3 DEF FreeInterrupted, FreeNotFound, TypeOK
<1>7. ASSUME NEW sync \in BOOLEAN, TransmitStart(p, n, sync) PROVE TypeOK'
  <2>1. [pc |-> "check", avail |-> FALSE, id |-> b.id, sync |-> sync] \in User
    BY <1>0 DEF User
  <2>2. user' \in [Peers -> [Names -> User]]
    BY <1>7, <2>1, Tables DEF TransmitStart
  <2>3. QED
    BY <1>7, <2>2 DEF TransmitStart, TypeOK
<1>8. ASSUME TransmitCheck(p, n) PROVE TypeOK'
  <2>1. [u EXCEPT !.pc = "xmit"] \in User
    BY <1>0 DEF User
  <2>2. user' = [user EXCEPT ![p][n] = [u EXCEPT !.pc = "xmit"]]
        \/ user' = [user EXCEPT ![p][n] = At("owned")]
    BY <1>8 DEF TransmitCheck
  <2>3. user' \in [Peers -> [Names -> User]]
    <3>1. [user EXCEPT ![p][n] = [u EXCEPT !.pc = "xmit"]] \in [Peers -> [Names -> User]]
      BY <2>1, Tables
    <3>2. [user EXCEPT ![p][n] = At("owned")] \in [Peers -> [Names -> User]]
      BY Moves DEF Pcs
    <3>3. QED
      BY <2>2, <3>1, <3>2
  <2>4. QED
    BY <1>8, <2>3 DEF TransmitCheck, TypeOK
<1>9. ASSUME TransmitNotify(p, n) PROVE TypeOK'
  <2>1. buf' \in [Peers -> [Names -> Buffer]]
    <3>1. UNCHANGED buf \/ buf' = [buf EXCEPT ![p][n].state = b.state \ {"GETNOTIFY"}]
      BY <1>9 DEF TransmitNotify
    <3>2. b.state \ {"GETNOTIFY"} \in SUBSET {"GETNOTIFY", "DESTROYED"}
      BY <1>0
    <3>3. QED
      BY <1>3, <3>1, <3>2 DEF TypeOK
  <2>2. \E pc \in Pcs : user' = [user EXCEPT ![p][n] = At(pc)]
    BY <1>9 DEF TransmitNotify, Pcs
  <2>3. user' \in [Peers -> [Names -> User]]
    BY <2>2, Moves
  <2>4. ch' \in [Peers -> Seq(Message)]
    <3>1. UNCHANGED ch \/ Push(p, Transmitted(u.id, u.sync, n, sent[p][n] + 1))
      BY <1>9 DEF TransmitNotify
    <3>2. QED
      BY <1>1, <1>2, <3>1 DEF TypeOK
  <2>5. sent' \in [Peers -> [Names -> Nat]]
    <3>1. UNCHANGED sent \/ sent' = [sent EXCEPT ![p][n] = sent[p][n] + 1]
      BY <1>9 DEF TransmitNotify
    <3>2. sent[p][n] + 1 \in Nat
      BY DEF TypeOK
    <3>3. \A k \in Nat : [sent EXCEPT ![p][n] = k] \in [Peers -> [Names -> Nat]]
      BY DEF TypeOK
    <3>4. QED
      BY <3>1, <3>2, <3>3 DEF TypeOK
  <2>6. QED
    BY <1>9, <2>1, <2>3, <2>4, <2>5 DEF TransmitNotify, TypeOK
<1>10. ASSUME WaitDone(p, n) PROVE TypeOK'
  <2>1. b.state \ {"GETNOTIFY"} \in SUBSET {"GETNOTIFY", "DESTROYED"}
    BY <1>0
  <2>2. buf' \in [Peers -> [Names -> Buffer]]
    BY <1>3, <1>10, <2>1 DEF WaitDone
  <2>3. user' \in [Peers -> [Names -> User]]
    BY <1>10, Moves DEF WaitDone, Pcs
  <2>4. QED
    BY <1>10, <2>2, <2>3 DEF WaitDone, TypeOK
<1>11. ASSUME WaitInterrupted(p, n) PROVE TypeOK'
  BY <1>11, Moves DEF WaitInterrupted, TypeOK, Pcs
<1>12. QED
  BY <1>4, <1>5, <1>6, <1>7, <1>8, <1>9, <1>10, <1>11, <1>13, <1>14

\* The handlers of received messages keep the types
LEMMA HandlerTypes ==
  ASSUME TypeOK, NEW p \in Peers, NEW m \in Message, ch[Other(p)] # << >>
  PROVE  /\ CreatedExisting(p, m) => TypeOK'
         /\ CreatedLocal(p, m) => TypeOK'
         /\ CreatedRefused(p, m) => TypeOK'
         /\ CreatedUnknown(p, m) => TypeOK'
         /\ DestroyedDummy(p, m) => TypeOK'
         /\ DestroyedBuffer(p, m) => TypeOK'
         /\ TransmittedH(p, m) => TypeOK'
         /\ AckH(p, m) => TypeOK'
         /\ Ignored(p, m) => TypeOK'
<1>1. Popped(p) \in [Peers -> Seq(Message)]
  BY ChannelTypes
<1>2. /\ m.cmd = "CREATED" => m \in CreatedMsg
      /\ m.cmd = "TRANSMITTED" => m.id \in Ids /\ m.name \in Names /\ m.seq \in Nat
  BY DEF Message, CreatedMsg
<1>3. /\ rx[p] \in RxState
      /\ \A c \in CreatedMsg, t \in BOOLEAN :
           [rx EXCEPT ![p] = [pc |-> "reply", touch |-> t, msg |-> c]] \in [Peers -> RxState]
  BY DEF TypeOK, RxState
<1>4. \A n \in Names, b \in Buffer : Created(n, b, TRUE) \in CreatedMsg
  BY DEF Created, CreatedMsg, Buffer
<1>5. ASSUME CreatedExisting(p, m) PROVE TypeOK'
  <2>1. m \in CreatedMsg /\ m.name \in Names
    BY <1>2, <1>5 DEF CreatedExisting, CreatedMsg
  <2>2. Created(m.name, buf[p][m.name], TRUE) \in CreatedMsg
    BY <1>4, <2>1, Tables
  <2>3. rx' \in [Peers -> RxState]
    <3>1. \/ rx' = rx
          \/ rx' = [rx EXCEPT ![p] = [pc |-> "reply", touch |-> FALSE,
                                      msg |-> Created(m.name, buf[p][m.name], TRUE)]]
      BY <1>5, Zenon DEF CreatedExisting
    <3>2. QED
      BY <1>3, <2>2, <3>1 DEF TypeOK
  <2>4. odd' \subseteq Unexpected \cup {"mistaken", "clash", "orphan", "overtaken"}
    BY <1>5 DEF CreatedExisting, TypeOK, Unexpected
  <2>5. QED
    BY <1>1, <1>5, <2>3, <2>4 DEF CreatedExisting, TypeOK
<1>6. ASSUME CreatedLocal(p, m) PROVE TypeOK'
  <2> DEFINE b == buf[p][m.name]
             id == IF p = Slave THEN b.id ELSE m.id
  <2>1. m \in CreatedMsg /\ m.name \in Names /\ m.id \in Ids /\ m.pa \in Mem \cup {NoPa}
    BY <1>2, <1>6 DEF CreatedLocal, CreatedMsg
  <2>2. PICK pa \in PayloadFor(p, b) :
          /\ mem' = IF p = Master /\ ~b.allocated THEN mem \cup {pa} ELSE mem
          /\ LET c == Completed(p, b, m, pa) IN
             IF SlotFree(p, id)
               THEN /\ buf' = [buf EXCEPT ![p][m.name] = Announced(b, c)]
                    /\ rx' = IF b.offline
                               THEN [rx EXCEPT ![p] =
                                       [pc |-> "reply", touch |-> AvailableCb,
                                        msg |-> Created(m.name, c, TRUE)]]
                               ELSE rx
                    /\ work' = IF b.offline THEN work ELSE Working(p, m.name)
                    /\ UNCHANGED odd
               ELSE /\ buf' = [buf EXCEPT ![p][m.name] =
                                 [b EXCEPT !.pa = c.pa, !.allocated = c.allocated]]
                    /\ odd' = odd \cup {"clash"}
                    /\ UNCHANGED <<rx, work>>
    BY <1>6 DEF CreatedLocal
  <2> DEFINE c == Completed(p, b, m, pa)
  <2>3. b \in Buffer
    BY <2>1, Tables
  <2>4. pa \in Mem \cup {NoPa} /\ (p = Master /\ ~b.allocated => pa \in Mem)
    BY <2>2, <2>3 DEF PayloadFor, Buffer, Master, Slave
  <2>5. c \in Buffer /\ [c EXCEPT !.state = {}] \in Buffer
    BY <2>1, <2>3, <2>4 DEF Completed, Buffer
  <2>6. [b EXCEPT !.pa = c.pa, !.allocated = c.allocated] \in Buffer
    BY <2>3, <2>5 DEF Buffer
  <2>7. mem' \in SUBSET Mem
    BY <2>2, <2>4 DEF TypeOK
  <2>8. CASE SlotFree(p, id)
    <3>1. buf' = [buf EXCEPT ![p][m.name] = c]
          \/ buf' = [buf EXCEPT ![p][m.name] = [c EXCEPT !.state = {}]]
      BY <2>2, <2>8 DEF Announced
    <3>2. rx' = rx \/ rx' = [rx EXCEPT ![p] = [pc |-> "reply", touch |-> AvailableCb,
                                               msg |-> Created(m.name, c, TRUE)]]
      BY <2>2, <2>8
    <3>3. buf' \in [Peers -> [Names -> Buffer]]
      <4> HIDE DEF c
      <4>1. \A x \in Buffer : [buf EXCEPT ![p][m.name] = x] \in [Peers -> [Names -> Buffer]]
        BY <2>1, Tables
      <4>2. QED
        BY <2>5, <3>1, <4>1
    <3>4. rx' \in [Peers -> RxState]
      <4>1. Created(m.name, c, TRUE) \in CreatedMsg /\ AvailableCb \in BOOLEAN
        BY <1>4, <2>1, <2>5, ConstantsAssumption
      <4>2. [rx EXCEPT ![p] = [pc |-> "reply", touch |-> AvailableCb,
                               msg |-> Created(m.name, c, TRUE)]] \in [Peers -> RxState]
        BY <1>3, <4>1
      <4>3. QED
        BY <3>2, <4>2 DEF TypeOK
    <3>5. UNCHANGED odd /\ work' \in [Peers -> SUBSET Names]
      <4>1. UNCHANGED odd /\ (UNCHANGED work \/ work' = Working(p, m.name))
        BY <2>2, <2>8
      <4>2. Working(p, m.name) \in [Peers -> SUBSET Names]
        BY <2>1, WorkTypes
      <4>3. QED
        BY <4>1, <4>2 DEF TypeOK
    <3>6. QED
      BY <1>1, <1>6, <2>7, <3>3, <3>4, <3>5 DEF CreatedLocal, TypeOK
  <2>9. CASE ~SlotFree(p, id)
    <3>1. /\ buf' = [buf EXCEPT ![p][m.name] = [b EXCEPT !.pa = c.pa, !.allocated = c.allocated]]
          /\ odd' = odd \cup {"clash"} /\ UNCHANGED <<rx, work>>
      BY <2>2, <2>9
    <3>2. buf' \in [Peers -> [Names -> Buffer]]
      BY <2>1, <2>6, <3>1, Tables
    <3>3. QED
      BY <1>1, <1>6, <2>7, <3>1, <3>2 DEF CreatedLocal, TypeOK
  <2>10. QED
    BY <2>8, <2>9
<1>7. ASSUME CreatedRefused(p, m) PROVE TypeOK'
  BY <1>1, <1>7 DEF CreatedRefused, TypeOK
<1>8. ASSUME CreatedUnknown(p, m) PROVE TypeOK'
  <2>1. m \in CreatedMsg /\ m.name \in Names
    BY <1>2, <1>8 DEF CreatedUnknown, CreatedMsg
  <2>2. Announcement(m, rdb[p][m.name].allocated) \in RemoteDummy
    BY <2>1, Tables DEF Announcement, CreatedMsg, RemoteDummy
  <2>3. rdb' \in [Peers -> [Names -> RemoteDummy]]
    BY <1>8, <2>1, <2>2, Tables DEF CreatedUnknown
  <2>4. odd' \subseteq Unexpected \cup {"mistaken", "clash", "orphan", "overtaken"}
    BY <1>8 DEF CreatedUnknown, TypeOK, Unexpected
  <2>5. QED
    BY <1>1, <1>8, <2>3, <2>4 DEF CreatedUnknown, TypeOK
<1>9. ASSUME DestroyedDummy(p, m) PROVE TypeOK'
  <2>1. PICK n \in Names :
          /\ rdb' = [rdb EXCEPT ![p][n] = NoRdb]
          /\ mem' = IF rdb[p][n].allocated THEN mem \ {rdb[p][n].pa} ELSE mem
          /\ odd' = IF n = m.name THEN odd ELSE odd \cup {"mistaken"}
    BY <1>9 DEF DestroyedDummy, DummiesWithId
  <2>2. rdb' \in [Peers -> [Names -> RemoteDummy]]
    BY <2>1, Entries, Tables
  <2>3. mem' \in SUBSET Mem
    BY <2>1 DEF TypeOK
  <2>4. odd' \subseteq Unexpected \cup {"mistaken", "clash", "orphan", "overtaken"}
    BY <2>1 DEF TypeOK
  <2>5. QED
    BY <1>1, <1>9, <2>2, <2>3, <2>4 DEF DestroyedDummy, TypeOK
<1>10. ASSUME DestroyedBuffer(p, m) PROVE TypeOK'
  <2>1. PICK n \in Names :
          /\ buf' = [buf EXCEPT ![p][n] =
                       [buf[p][n] EXCEPT !.loc = "local_dummy",
                                         !.state = buf[p][n].state \cup {"DESTROYED"}]]
          /\ work' = Working(p, n)
          /\ odd' = IF n = m.name THEN odd ELSE odd \cup {"mistaken"}
    BY <1>10 DEF DestroyedBuffer
  <2> DEFINE b == buf[p][n]
  <2>2. b \in Buffer /\ b.state \cup {"DESTROYED"} \in SUBSET {"GETNOTIFY", "DESTROYED"}
    BY Tables DEF Buffer
  <2>3. [b EXCEPT !.loc = "local_dummy", !.state = b.state \cup {"DESTROYED"}] \in Buffer
    BY <2>2, Fields
  <2>4. buf' \in [Peers -> [Names -> Buffer]]
    BY <2>1, <2>3, Tables
  <2>5. /\ odd' \subseteq Unexpected \cup {"mistaken", "clash", "orphan", "overtaken"}
        /\ work' \in [Peers -> SUBSET Names]
    BY <2>1, WorkTypes DEF TypeOK
  <2>6. QED
    BY <1>1, <1>10, <2>4, <2>5 DEF DestroyedBuffer, TypeOK
<1>11. ASSUME TransmittedH(p, m) PROVE TypeOK'
  <2>1. m.id \in Ids /\ m.name \in Names /\ m.seq \in Nat
    BY <1>2, <1>11 DEF TransmittedH
  <2>2. ch' \in [Peers -> Seq(Message)]
    <3>1. \A q \in Peers : Popped(p)[q] \in Seq(Message)
      BY <1>1
    <3>2. Ack(m.id) \in Message
      BY <2>1 DEF Ack, Message
    <3>3. Append(Popped(p)[p], Ack(m.id)) \in Seq(Message)
      BY <3>1, <3>2, AppendProperties
    <3>4. ch' = Popped(p) \/ ch' = [Popped(p) EXCEPT ![p] = Append(Popped(p)[p], Ack(m.id))]
      BY <1>11 DEF TransmittedH
    <3>5. QED
      BY <1>1, <3>3, <3>4
  <2>3. rcvd' \in [Peers -> [Names -> Nat]]
    <3>1. rcvd' = rcvd \/ \E n \in Names : rcvd' = [rcvd EXCEPT ![p][n] = m.seq]
      BY <1>11 DEF TransmittedH
    <3>2. rcvd \in [Peers -> [Names -> Nat]] /\ m.seq \in Nat
      BY <2>1 DEF TypeOK
    <3>3. ASSUME NEW n \in Names, rcvd' = [rcvd EXCEPT ![p][n] = m.seq]
          PROVE  rcvd' \in [Peers -> [Names -> Nat]]
      BY <3>2, <3>3
    <3>4. QED
      BY <3>1, <3>2, <3>3
  <2>4. work' \in [Peers -> SUBSET Names]
    BY <1>11, WorkTypes DEF TransmittedH
  <2>5. QED
    BY <1>11, <2>2, <2>3, <2>4 DEF TransmittedH, TypeOK
<1>12. ASSUME AckH(p, m) PROVE TypeOK'
  <2>1. PICK n \in Names : buf' = [buf EXCEPT ![p][n].state = buf[p][n].state \cup {"GETNOTIFY"}]
    BY <1>12 DEF AckH
  <2>2. buf[p][n] \in Buffer
        /\ buf[p][n].state \cup {"GETNOTIFY"} \in SUBSET {"GETNOTIFY", "DESTROYED"}
    BY Tables DEF Buffer
  <2>3. buf' \in [Peers -> [Names -> Buffer]]
    BY <2>1, <2>2, Fields, Tables
  <2>4. QED
    BY <1>1, <1>12, <2>3 DEF AckH, TypeOK
<1>13. ASSUME Ignored(p, m) PROVE TypeOK'
  BY <1>1, <1>13 DEF Ignored, TypeOK
<1>14. QED
  BY <1>5, <1>6, <1>7, <1>8, <1>9, <1>10, <1>11, <1>12, <1>13

\* Sending a reply and the steps of a restart keep the types
LEMMA ReplyTypes ==
  ASSUME TypeOK, NEW p \in Peers, Reply(p)
  PROVE  TypeOK'
<1> DEFINE r == rx[p]
<1>1. r \in [pc: {"reply"}, msg: CreatedMsg, touch: BOOLEAN]
  BY DEF Reply, TypeOK, RxState, RxIdle
<1>2. r.msg \in Message /\ r.msg.name \in Names
  BY <1>1 DEF Message, CreatedMsg
<1>3. ch' \in [Peers -> Seq(Message)]
  <2>1. UNCHANGED ch \/ Push(p, r.msg)
    BY DEF Reply
  <2>2. Append(ch[p], r.msg) \in Seq(Message) /\ ch \in [Peers -> Seq(Message)]
    BY <1>2, ChannelTypes DEF TypeOK
  <2>3. QED
    BY <2>1, <2>2 DEF Push
<1>4. buf' \in [Peers -> [Names -> Buffer]]
  <2>1. UNCHANGED buf \/ buf' = [buf EXCEPT ![p][r.msg.name].state = {}]
    BY DEF Reply
  <2>2. [buf EXCEPT ![p][r.msg.name].state = {}] \in [Peers -> [Names -> Buffer]]
    <3>1. buf[p][r.msg.name] \in Buffer
      BY <1>2, Tables
    <3>2. [buf[p][r.msg.name] EXCEPT !.state = {}] \in Buffer
      BY <3>1, Fields
    <3>3. QED
      BY <1>2, <3>2, Tables
  <2>3. QED
    BY <2>1, <2>2 DEF TypeOK
<1>5. rx' \in [Peers -> RxState]
  BY DEF Reply, TypeOK, RxState
<1>6. work' \in [Peers -> SUBSET Names]
  BY <1>2, WorkTypes DEF Reply, TypeOK
<1>7. QED
  BY <1>3, <1>4, <1>5, <1>6 DEF Reply, TypeOK

LEMMA CallbackTypes ==
  ASSUME TypeOK, NEW p \in Peers, CallbackEnd(p)
  PROVE  TypeOK'
<1>1. work' \in [Peers -> SUBSET Names]
  BY DEF CallbackEnd, TypeOK
<1>2. QED
  BY <1>1 DEF CallbackEnd, TypeOK

\* What the reset makes of the master's tables are tables
LEMMA ResetTypes ==
  ASSUME TypeOK
  PROVE  /\ ResetBuffers \in [Names -> Buffer] /\ NoDummies \in [Names -> RemoteDummy]
         /\ \A n \in Names, b \in Buffer :
              [buf EXCEPT ![Master] = [ResetBuffers EXCEPT ![n] = b]]
                \in [Peers -> [Names -> Buffer]]
         /\ [buf EXCEPT ![Master] = ResetBuffers] \in [Peers -> [Names -> Buffer]]
         /\ [rdb EXCEPT ![Master] = NoDummies] \in [Peers -> [Names -> RemoteDummy]]
         /\ \A n \in Names, d \in RemoteDummy :
              [rdb EXCEPT ![Master] = [NoDummies EXCEPT ![n] = d]]
                \in [Peers -> [Names -> RemoteDummy]]
<1>1. \A n \in Names : buf[Master][n] \in Buffer
  BY Tables DEF Peers
<1>2. \A n \in Names : [buf[Master][n] EXCEPT !.loc = "local_dummy", !.offline = TRUE] \in Buffer
  BY <1>1, Fields
<1>3. ResetBuffers \in [Names -> Buffer]
  BY <1>1, <1>2 DEF ResetBuffers
<1>4. NoDummies \in [Names -> RemoteDummy]
  BY Entries DEF NoDummies
<1>5. QED
  BY <1>3, <1>4 DEF TypeOK

\* The channel the master reads
LEMMA SlaveChannel ==
  ASSUME TypeOK, ch[Slave] # << >>
  PROVE  Head(ch[Slave]) \in Message /\ Popped(Master) \in [Peers -> Seq(Message)]
<1>1. Master \in Peers /\ Other(Master) = Slave
  BY DEF Peers, Other
<1>2. QED
  BY <1>1, ChannelTypes

LEMMA RestartTypes ==
  ASSUME TypeOK
  PROVE  /\ Crash => TypeOK'
         /\ ServiceRemove => TypeOK'
         /\ RemoveInside => TypeOK'
         /\ ServiceProbe => TypeOK'
<1>1. ASSUME Crash PROVE TypeOK'
  <2>1. /\ buf' \in [Peers -> [Names -> Buffer]]
        /\ rdb' \in [Peers -> [Names -> RemoteDummy]]
        /\ user' \in [Peers -> [Names -> User]]
    BY <1>1, Entries DEF Crash, TypeOK
  <2>2. rx' \in [Peers -> RxState]
    BY <1>1 DEF Crash, TypeOK, RxState
  <2>3. /\ up' \in [Peers -> BOOLEAN] /\ stuck' \in [Peers -> BOOLEAN]
        /\ work' \in [Peers -> SUBSET Names]
    BY <1>1 DEF Crash, TypeOK
  <2>4. crashes' \in Nat
    BY <1>1 DEF Crash, TypeOK
  <2>5. QED
    BY <1>1, <2>1, <2>2, <2>3, <2>4 DEF Crash, TypeOK
<1>0. /\ Master \in Peers /\ \A q \in Peers, b \in BOOLEAN :
           /\ [up EXCEPT ![q] = b] \in [Peers -> BOOLEAN]
           /\ [stuck EXCEPT ![q] = b] \in [Peers -> BOOLEAN]
      /\ Entered \in BOOLEAN /\ mem \ DummyBlocks \in SUBSET Mem
      /\ odd \cup {"overtaken"}
           \subseteq Unexpected \cup {"mistaken", "clash", "orphan", "overtaken"}
  BY DEF TypeOK, Peers, Entered, Unexpected
<1>2. ASSUME ServiceRemove PROVE TypeOK'
  <2>1. up' \in [Peers -> BOOLEAN] /\ late' \in BOOLEAN /\ mem' \in SUBSET Mem
    BY <1>0, <1>2 DEF ServiceRemove, Unregister
  <2>2. buf' \in [Peers -> [Names -> Buffer]] /\ rdb' \in [Peers -> [Names -> RemoteDummy]]
    BY <1>2, ResetTypes DEF ServiceRemove
  <2>3. QED
    BY <1>2, <2>1, <2>2 DEF ServiceRemove, TypeOK
<1>4. ASSUME NEW n \in Names, RemoveInFree(n) PROVE TypeOK'
  <2>1. up' \in [Peers -> BOOLEAN] /\ late' \in BOOLEAN /\ mem' \in SUBSET Mem
    BY <1>0, <1>4 DEF RemoveInFree, Unregister
  <2>2. NoBuf \in Buffer /\ DummyOf(buf[Master][n]) \in RemoteDummy
    BY <1>0, Entries, Tables DEF DummyOf, Buffer, RemoteDummy
  <2>3. CASE /\ buf' = [buf EXCEPT ![Master] = ResetBuffers]
             /\ rdb' = [rdb EXCEPT ![Master] = NoDummies]
             /\ user' = [user EXCEPT ![Master][n] = At("lost")]
             /\ UNCHANGED rx
    <3>1. /\ buf' \in [Peers -> [Names -> Buffer]] /\ rdb' \in [Peers -> [Names -> RemoteDummy]]
          /\ user' \in [Peers -> [Names -> User]] /\ rx' \in [Peers -> RxState]
      BY <1>0, <2>3, ResetTypes, Moves DEF Pcs, TypeOK
    <3>2. QED
      BY <1>4, <2>1, <3>1 DEF RemoveInFree, TypeOK
  <2>4. CASE /\ buf' = [buf EXCEPT ![Master] = [ResetBuffers EXCEPT ![n] = NoBuf]]
             /\ rdb' = [rdb EXCEPT ![Master] = [NoDummies EXCEPT ![n] = DummyOf(buf[Master][n])]]
             /\ user' = [user EXCEPT ![Master][n] = Idle]
             /\ rx' = Dangling(Master, n)
    <3>1. /\ buf' \in [Peers -> [Names -> Buffer]] /\ rdb' \in [Peers -> [Names -> RemoteDummy]]
      BY <2>2, <2>4, ResetTypes
    <3>2. user' \in [Peers -> [Names -> User]] /\ rx' \in [Peers -> RxState]
      BY <1>0, <2>4, Moves, DanglingTypes
    <3>3. QED
      BY <1>4, <2>1, <3>1, <3>2 DEF RemoveInFree, TypeOK
  <2>5. QED
    BY <1>4, <2>3, <2>4 DEF RemoveInFree
<1>5. ASSUME NEW n \in Names, NEW len \in Lens, RemoveInAlloc(n, len) PROVE TypeOK'
  <2> DEFINE d == rdb[Master][n]
             b(pa) == Instance("buffers", d.id, len, pa, TRUE)
             c(pa) == [b(pa) EXCEPT !.loc = "local_dummy", !.offline = TRUE]
  <2>1. PICK pa \in IF d.allocated THEN {d.pa} ELSE Mem \ mem, after \in BOOLEAN :
          /\ buf' = [buf EXCEPT ![Master] = [ResetBuffers EXCEPT ![n] = IF after THEN b(pa) ELSE c(pa)]]
          /\ mem' = (mem \ DummyBlocks) \cup (IF d.allocated THEN {} ELSE {pa})
    BY <1>5 DEF RemoveInAlloc
  <2>2. d.id \in Ids /\ pa \in Mem \cup {NoPa} /\ (~d.allocated => pa \in Mem)
    BY <1>0, <2>1, Tables DEF RemoteDummy
  <2>3. b(pa) \in Buffer /\ c(pa) \in Buffer
    <3>1. b(pa) \in Buffer
      BY <2>2, Entries
    <3>2. QED
      BY <3>1, Fields
  <2>4. buf' \in [Peers -> [Names -> Buffer]]
    <3> HIDE DEF b, c
    <3>1. QED
      BY <2>1, <2>3, ResetTypes
  <2>5. /\ up' \in [Peers -> BOOLEAN] /\ late' \in BOOLEAN /\ mem' \in SUBSET Mem
        /\ rdb' \in [Peers -> [Names -> RemoteDummy]]
        /\ odd' \subseteq Unexpected \cup {"mistaken", "clash", "orphan", "overtaken"}
        /\ stuck' \in [Peers -> BOOLEAN]
    <3>1. mem' \in SUBSET Mem
      BY <1>0, <2>1, <2>2
    <3>2. QED
      BY <1>0, <1>5, <3>1, ResetTypes DEF RemoveInAlloc, Unregister, TypeOK
  <2>6. user' \in [Peers -> [Names -> User]]
    <3>1. \/ user' = [user EXCEPT ![Master][n] = [pc |-> "notify", avail |-> TRUE,
                                                 id |-> 0, sync |-> FALSE]]
          \/ user' = [user EXCEPT ![Master][n] = At("lost")]
      BY <1>5 DEF RemoveInAlloc
    <3>2. "lost" \in Pcs /\ TRUE \in BOOLEAN
      BY DEF Pcs
    <3>3. [user EXCEPT ![Master][n] = At("lost")] \in [Peers -> [Names -> User]]
      BY <1>0, <3>2, Moves
    <3>4. [user EXCEPT ![Master][n] = [pc |-> "notify", avail |-> TRUE, id |-> 0, sync |-> FALSE]]
            \in [Peers -> [Names -> User]]
      BY <1>0, <3>2, Moves
    <3>5. QED
      BY <3>1, <3>3, <3>4
  <2>7. QED
    BY <1>5, <2>4, <2>5, <2>6 DEF RemoveInAlloc, TypeOK
<1>6. ASSUME NEW m \in Message, ch[Slave] # << >>, RemoveInCreated(m) PROVE TypeOK'
  <2> DEFINE b == buf[Master][m.name]
  <2>1. m \in CreatedMsg /\ m.name \in Names /\ m.id \in Ids
    BY <1>6 DEF RemoveInCreated, Message, CreatedMsg
  <2>2. PICK pa \in PayloadFor(Master, b) :
          /\ buf' = [buf EXCEPT ![Master] =
                       [ResetBuffers EXCEPT ![m.name] =
                          [Completed(Master, b, m, pa) EXCEPT !.loc = "adrift"]]]
          /\ mem' = (mem \ DummyBlocks) \cup (IF b.allocated THEN {} ELSE {pa})
    BY <1>6 DEF RemoveInCreated
  <2>3. b \in Buffer
    BY <1>0, <2>1, Tables
  <2>4. pa \in Mem \cup {NoPa} /\ (~b.allocated => pa \in Mem)
    BY <2>2, <2>3 DEF PayloadFor, Buffer, Master, Slave
  <2>5. [Completed(Master, b, m, pa) EXCEPT !.loc = "adrift"] \in Buffer
    <3>1. Completed(Master, b, m, pa) \in Buffer
      BY <2>1, <2>3, <2>4 DEF Completed, Buffer, Master, Slave
    <3>2. QED
      BY <3>1, Fields
  <2>6. buf' \in [Peers -> [Names -> Buffer]] /\ mem' \in SUBSET Mem
    BY <1>0, <2>1, <2>2, <2>4, <2>5, ResetTypes
  <2>7. QED
    BY <1>0, <1>6, <2>6, SlaveChannel, ResetTypes DEF RemoveInCreated, Unregister, TypeOK
<1>7. ASSUME NEW m \in Message, ch[Slave] # << >>, RemoveInDummy(m) PROVE TypeOK'
  BY <1>0, <1>7, SlaveChannel, ResetTypes DEF RemoveInDummy, Unregister, TypeOK
<1>8. ASSUME RemoveInside PROVE TypeOK'
  <2>1. ch[Slave] # << >> => Head(ch[Slave]) \in Message
    BY SlaveChannel
  <2>2. QED
    BY <1>4, <1>5, <1>6, <1>7, <1>8, <2>1 DEF RemoveInside
<1>3. ASSUME ServiceProbe PROVE TypeOK'
  <2>1. << >> \in Seq(Message)
    BY EmptySeq
  <2>2. up' \in [Peers -> BOOLEAN] /\ ch' \in [Peers -> Seq(Message)]
    BY <1>3, <2>1 DEF ServiceProbe
  <2>3. QED
    BY <1>3, <2>2 DEF ServiceProbe, TypeOK
<1>9. QED
  BY <1>1, <1>2, <1>3, <1>8

\* Every variable keeps its type in every reachable state
THEOREM TypeCorrect == Spec => []TypeOK
<1>1. Init => TypeOK
  <2> SUFFICES ASSUME Init PROVE TypeOK
    OBVIOUS
  <2>1. << >> \in Seq(Message)
    BY EmptySeq
  <2>2. /\ buf \in [Peers -> [Names -> Buffer]] /\ rdb \in [Peers -> [Names -> RemoteDummy]]
        /\ user \in [Peers -> [Names -> User]]
    BY Entries DEF Init
  <2>3. ch \in [Peers -> Seq(Message)] /\ rx \in [Peers -> RxState]
    BY <2>1 DEF Init, RxState
  <2>4. QED
    BY <2>2, <2>3 DEF Init, TypeOK
<1>2. TypeOK /\ [Next]_vars => TypeOK'
  <2> SUFFICES ASSUME TypeOK, [Next]_vars PROVE TypeOK'
    OBVIOUS
  <2>1. ASSUME NEW p \in Peers, NEW n \in Names, UserCall(p, n) PROVE TypeOK'
    BY <2>1, AllocTypes, CallTypes DEF UserCall
  <2>2. ASSUME NEW p \in Peers, NEW n \in Names, UserStep(p, n) PROVE TypeOK'
    BY <2>2, CallTypes DEF UserStep
  <2>3. ASSUME NEW p \in Peers, NEW n \in Names,
               WaitInterrupted(p, n) \/ FreeInterrupted(p, n)
        PROVE  TypeOK'
    BY <2>3, CallTypes
  <2>4. ASSUME NEW p \in Peers, RxStep(p) PROVE TypeOK'
    <3>1. CASE Reply(p) \/ CallbackEnd(p)
      BY <3>1, ReplyTypes, CallbackTypes
    <3>2. CASE ch[Other(p)] # << >> /\ ~Reply(p) /\ ~CallbackEnd(p)
      <4> DEFINE m == Head(ch[Other(p)])
      <4>1. m \in Message
        BY <3>2, ChannelTypes
      <4>2. \/ CreatedExisting(p, m) \/ CreatedLocal(p, m)
            \/ CreatedRefused(p, m) \/ CreatedUnknown(p, m)
            \/ DestroyedDummy(p, m) \/ DestroyedBuffer(p, m)
            \/ TransmittedH(p, m) \/ AckH(p, m) \/ Ignored(p, m)
        BY <2>4, <3>2 DEF RxStep
      <4> HIDE DEF m
      <4>3. QED
        BY <3>2, <4>1, <4>2, HandlerTypes
    <3>3. QED
      BY <2>4, <3>1, <3>2 DEF RxStep
  <2>5. ASSUME Crash \/ ServiceRemove \/ RemoveInside \/ ServiceProbe PROVE TypeOK'
    BY <2>5, RestartTypes
  <2>6. CASE UNCHANGED vars
    BY <2>6 DEF vars, TypeOK
  <2>7. QED
    BY <2>1, <2>2, <2>3, <2>4, <2>5, <2>6 DEF Next
<1>3. QED
  BY <1>1, <1>2, PTL DEF Spec
-----------------------------------------------------------------------------
(* The lists.  OwnedIsTracked and Exclusive are inductive together with    *)
(* TypeOK: a step changes what one core knows of one name, and moves the   *)
(* buffer, its caller and its dummy entry at once.  A reset that overtakes *)
(* a section keeps the second of the two alone.                            *)

Listed == {"local_dummy", "buffers"}

ListCell(p, n) ==
  /\ "overtaken" \notin odd =>
       /\ user[p][n].pc # "idle" => buf[p][n].loc \in Listed
       /\ buf[p][n].loc \in Listed => user[p][n].pc # "idle" \/ stuck[p]
       /\ buf[p][n].loc # "adrift"
  /\ rdb[p][n].there => buf[p][n].loc \notin Listed

ListInv == TypeOK /\ \A p \in Peers, n \in Names : ListCell(p, n)

LEMMA ListParts == ListInv => OwnedIsTracked /\ Exclusive
<1>1. TypeOK => \A p \in Peers, n \in Names :
        buf[p][n].loc \in {"none", "local_dummy", "buffers", "adrift"}
  BY Tables DEF Buffer
<1>2. QED
  BY <1>1 DEF ListInv, ListCell, Listed, OwnedIsTracked, Exclusive

\* Where p's caller for n, its buffer and its dummy entry stay, apart from
\* what the lists do not tell
SameCell(p, n) ==
  /\ user'[p][n].pc = "idle" <=> user[p][n].pc = "idle"
  /\ buf'[p][n].loc \in Listed <=> buf[p][n].loc \in Listed
  /\ buf'[p][n].loc = "adrift" <=> buf[p][n].loc = "adrift"
  /\ rdb'[p][n].there <=> rdb[p][n].there

LEMMA ListKept ==
  ASSUME NEW p \in Peers, NEW n \in Names, ListCell(p, n), SameCell(p, n),
         stuck[p] => stuck'[p], odd \subseteq odd'
  PROVE  ListCell(p, n)'
BY DEF ListCell, SameCell

\* A step that leaves the other names alone only has to answer for its own
LEMMA OneCell ==
  ASSUME ListInv, NEW p \in Peers, NEW n \in Names,
         \A q \in Peers, k \in Names : q # p \/ k # n =>
           buf'[q][k] = buf[q][k] /\ user'[q][k] = user[q][k] /\ rdb'[q][k] = rdb[q][k],
         \A q \in Peers : stuck[q] => stuck'[q], odd \subseteq odd',
         ListCell(p, n)'
  PROVE  \A q \in Peers, k \in Names : ListCell(q, k)'
<1> SUFFICES ASSUME NEW q \in Peers, NEW k \in Names PROVE ListCell(q, k)'
  OBVIOUS
<1>1. CASE q = p /\ k = n
  BY <1>1
<1>2. CASE q # p \/ k # n
  <2>1. SameCell(q, k) /\ ListCell(q, k)
    BY <1>2 DEF SameCell, ListInv
  <2>2. QED
    BY <2>1, ListKept
<1>3. QED
  BY <1>1, <1>2

\* A call of rpbuf_alloc_buffer puts the buffer in a list when it returns a
\* handle, and leaves the lock only when it loses the buffer
LEMMA AllocLists ==
  ASSUME ListInv, NEW p \in Peers, NEW n \in Names, NEW len \in Lens,
         \/ AllocFirst(p, n, len) \/ AllocFirstNoMem(n, len)
         \/ AllocSecondSlave(n, len) \/ AllocSecondMaster(n, len)
  PROVE  \A q \in Peers, k \in Names : ListCell(q, k)'
<1>0. /\ TypeOK /\ Master \in Peers /\ Slave \in Peers
      /\ \A q \in Peers : rdb[q][n] \in RemoteDummy /\ buf[q][n] \in Buffer
  BY Tables DEF ListInv, Peers
<1> DEFINE Listable(b) == b.loc \in Listed
<1>1. CASE AllocFirst(p, n, len)
  <2>1. PICK b : Listable(b) /\ Allocated(p, n, b, FALSE)
    <3>1. \A id, pa, al : Listable(Instance("local_dummy", id, len, pa, al))
      BY DEF Instance, Listed
    <3> HIDE DEF Listable
    <3>2. QED
      BY <1>1, <3>1 DEF AllocFirst
  <2>2. /\ buf'[p][n] = b /\ user'[p][n].pc # "idle"
        /\ \A q \in Peers, k \in Names : q # p \/ k # n =>
             buf'[q][k] = buf[q][k] /\ user'[q][k] = user[q][k]
    BY <1>0, <2>1 DEF Allocated, TypeOK
  <2>3. UNCHANGED <<rdb, stuck, odd>> /\ ~rdb[p][n].there
    BY <1>1 DEF AllocFirst
  <2>4. QED
    BY <2>1, <2>2, <2>3, OneCell DEF ListCell, Listed
<1>2. CASE AllocFirstNoMem(n, len)
  <2>1. /\ buf'[Master][n].loc = "local_dummy"
        /\ \A q \in Peers, k \in Names : q # Master \/ k # n => buf'[q][k] = buf[q][k]
    <3>1. buf' = [buf EXCEPT ![Master][n] = Instance("local_dummy", 0, len, NoPa, FALSE)]
      BY <1>2 DEF AllocFirstNoMem
    <3>2. Instance("local_dummy", 0, len, NoPa, FALSE).loc = "local_dummy"
      BY DEF Instance
    <3>3. QED
      BY <1>0, <3>1, <3>2 DEF TypeOK
  <2>2. UNCHANGED <<rdb, user, odd>> /\ ~rdb[Master][n].there
    BY <1>2 DEF AllocFirstNoMem
  <2>3. stuck'[Master] /\ \A q \in Peers : stuck[q] => stuck'[q]
    BY <1>0, <1>2 DEF AllocFirstNoMem, TypeOK
  <2>4. ListCell(Master, n)'
    BY <2>1, <2>2, <2>3 DEF ListCell, Listed
  <2>5. QED
    BY <1>0, <2>1, <2>2, <2>3, <2>4, OneCell
<1>3. ASSUME NEW q \in Peers, NEW b, Listable(b), Allocated(q, n, b, TRUE),
             rdb' = [rdb EXCEPT ![q][n] = NoRdb], UNCHANGED <<stuck, odd>>
      PROVE  \A x \in Peers, k \in Names : ListCell(x, k)'
  <2>1. /\ buf'[q][n] = b /\ user'[q][n].pc # "idle" /\ ~rdb'[q][n].there
        /\ \A x \in Peers, k \in Names : x # q \/ k # n =>
             buf'[x][k] = buf[x][k] /\ user'[x][k] = user[x][k] /\ rdb'[x][k] = rdb[x][k]
    BY <1>0, <1>3 DEF Allocated, NoRdb, TypeOK
  <2>2. QED
    BY <1>3, <2>1, OneCell DEF ListCell, Listed
<1>4. CASE AllocSecondSlave(n, len)
  <2>1. UNCHANGED stuck
    BY <1>4 DEF AllocSecondSlave
  <2>2. \/ UNCHANGED <<buf, user, rdb>> /\ odd \subseteq odd'
        \/ UNCHANGED odd
           /\ \E b : /\ Listable(b) /\ Allocated(Slave, n, b, TRUE)
                     /\ rdb' = [rdb EXCEPT ![Slave][n] = NoRdb]
    BY <1>4 DEF AllocSecondSlave, Instance, Listed
  <2>3. CASE UNCHANGED <<buf, user, rdb>> /\ odd \subseteq odd'
    BY <2>1, <2>3 DEF ListInv, ListCell
  <2>4. QED
    BY <1>0, <1>3, <2>1, <2>2, <2>3
<1>5. CASE AllocSecondMaster(n, len)
  <2>1. UNCHANGED stuck /\ rdb[Master][n].there
    BY <1>5 DEF AllocSecondMaster
  <2>2. \/ /\ UNCHANGED <<buf, user>> /\ odd \subseteq odd'
           /\ rdb' = [rdb EXCEPT ![Master][n].allocated = TRUE]
        \/ /\ UNCHANGED odd
           /\ \E b : /\ Listable(b) /\ Allocated(Master, n, b, TRUE)
                     /\ rdb' = [rdb EXCEPT ![Master][n] = NoRdb]
    BY <1>5 DEF AllocSecondMaster, Instance, Listed
  <2>3. CASE /\ UNCHANGED <<buf, user>> /\ odd \subseteq odd'
             /\ rdb' = [rdb EXCEPT ![Master][n].allocated = TRUE]
    <3>1. rdb'[Master][n].there = rdb[Master][n].there
      <4>1. [rdb[Master][n] EXCEPT !.allocated = TRUE].there = rdb[Master][n].there
        BY <1>0 DEF RemoteDummy
      <4>2. QED
        BY <1>0, <2>3, <4>1 DEF TypeOK
    <3>2. \A x \in Peers, k \in Names : x # Master \/ k # n => rdb'[x][k] = rdb[x][k]
      BY <1>0, <2>3 DEF TypeOK
    <3>3. ListCell(Master, n)'
      BY <1>0, <2>1, <2>3, <3>1 DEF ListInv, ListCell
    <3>4. QED
      BY <1>0, <2>1, <2>3, <3>2, <3>3, OneCell
  <2>4. QED
    BY <1>0, <1>3, <2>1, <2>2, <2>3
<1>6. QED
  BY <1>1, <1>2, <1>4, <1>5

\* Assigning the state of a buffer changes nothing else of any buffer
LEMMA StateOnly ==
  ASSUME TypeOK, NEW p \in Peers, NEW n \in Names, NEW s,
         buf' = [buf EXCEPT ![p][n].state = s]
  PROVE  \A q \in Peers, k \in Names :
           /\ buf'[q][k].loc = buf[q][k].loc /\ buf'[q][k].id = buf[q][k].id
           /\ buf'[q][k].pa = buf[q][k].pa /\ buf'[q][k].allocated = buf[q][k].allocated
<1> DEFINE c == [buf[p][n] EXCEPT !.state = s]
<1>1. /\ c.loc = buf[p][n].loc /\ c.id = buf[p][n].id
      /\ c.pa = buf[p][n].pa /\ c.allocated = buf[p][n].allocated
  BY Tables DEF Buffer
<1>2. buf' = [buf EXCEPT ![p][n] = c]
  BY DEF TypeOK
<1> HIDE DEF c
<1>3. QED
  BY <1>1, <1>2 DEF TypeOK

\* Moving a caller between two places inside the API keeps who holds a handle
LEMMA PcOnly ==
  ASSUME TypeOK, NEW p \in Peers, NEW n \in Names, NEW u,
         user[p][n].pc # "idle", u.pc # "idle", user' = [user EXCEPT ![p][n] = u]
  PROVE  \A q \in Peers, k \in Names : user'[q][k].pc = "idle" <=> user[q][k].pc = "idle"
BY DEF TypeOK

\* The steps between allocation and release keep every buffer where it is
Quiet(p, n) ==
  \/ AllocNotify(p, n) \/ FreeStart(p, n) \/ FreeNotify(p, n)
  \/ FreeInterrupted(p, n) \/ FreeNotFound(p, n)
  \/ \E sync \in BOOLEAN : TransmitStart(p, n, sync)
  \/ TransmitCheck(p, n) \/ TransmitNotify(p, n) \/ WaitDone(p, n) \/ WaitInterrupted(p, n)

LEMMA QuietKeeps ==
  ASSUME TypeOK, NEW p \in Peers, NEW n \in Names, Quiet(p, n)
  PROVE  /\ UNCHANGED <<rdb, stuck, mem, odd>>
         /\ \A q \in Peers, k \in Names :
              /\ user'[q][k].pc = "idle" <=> user[q][k].pc = "idle"
              /\ buf'[q][k].loc = buf[q][k].loc /\ buf'[q][k].id = buf[q][k].id
              /\ buf'[q][k].pa = buf[q][k].pa /\ buf'[q][k].allocated = buf[q][k].allocated
<1> USE DEF Quiet
<1>1. UNCHANGED <<rdb, stuck, mem, odd>>
  BY DEF AllocNotify, FreeStart, FreeNotify, FreeInterrupted, FreeNotFound, TransmitStart,
         TransmitCheck, TransmitNotify, WaitDone, WaitInterrupted
<1>2. UNCHANGED buf \/ \E s : buf' = [buf EXCEPT ![p][n].state = s]
  BY DEF AllocNotify, FreeStart, FreeNotify, FreeInterrupted, FreeNotFound, TransmitStart,
         TransmitCheck, TransmitNotify, WaitDone, WaitInterrupted
<1>3. \A q \in Peers, k \in Names :
        /\ buf'[q][k].loc = buf[q][k].loc /\ buf'[q][k].id = buf[q][k].id
        /\ buf'[q][k].pa = buf[q][k].pa /\ buf'[q][k].allocated = buf[q][k].allocated
  <2>1. CASE UNCHANGED buf
    BY <2>1
  <2>2. ASSUME NEW s, buf' = [buf EXCEPT ![p][n].state = s]
        PROVE  \A q \in Peers, k \in Names :
                 /\ buf'[q][k].loc = buf[q][k].loc /\ buf'[q][k].id = buf[q][k].id
                 /\ buf'[q][k].pa = buf[q][k].pa
                 /\ buf'[q][k].allocated = buf[q][k].allocated
    BY <2>2, StateOnly
  <2>3. QED
    BY <1>2, <2>1, <2>2
<1>4. user[p][n].pc # "idle"
      /\ \E u : u.pc # "idle" /\ user' = [user EXCEPT ![p][n] = u]
  <2>1. \A pc : At(pc).pc = pc
    BY DEF At
  <2>2. [user[p][n] EXCEPT !.pc = "xmit"].pc = "xmit"
    BY Tables DEF User
  <2>3. CASE TransmitCheck(p, n)
    BY <2>1, <2>2, <2>3 DEF TransmitCheck
  <2>4. CASE TransmitNotify(p, n)
    BY <2>1, <2>4 DEF TransmitNotify
  <2>5. QED
    BY <2>1, <2>3, <2>4 DEF AllocNotify, FreeStart, FreeNotify, Freeing, FreeInterrupted,
       FreeNotFound, TransmitStart, WaitDone, WaitInterrupted
<1>5. QED
  BY <1>1, <1>3, <1>4, PcOnly

\* rpbuf_free_buffer_internal takes the buffer and the handle away together
LEMMA FreeLists ==
  ASSUME ListInv, NEW p \in Peers, NEW n \in Names, FreeLocked(p, n)
  PROVE  \A q \in Peers, k \in Names : ListCell(q, k)'
<1>1. /\ buf'[p][n].loc = "none" /\ user'[p][n].pc = "idle"
      /\ \A q \in Peers, k \in Names : q # p \/ k # n =>
           buf'[q][k] = buf[q][k] /\ user'[q][k] = user[q][k]
  BY DEF FreeLocked, ListInv, TypeOK, NoBuf, Instance, Idle, At
<1>2. \A q \in Peers, k \in Names : q # p \/ k # n => rdb'[q][k] = rdb[q][k]
  <2>1. UNCHANGED rdb \/ \E d : rdb' = [rdb EXCEPT ![p][n] = d]
    BY DEF FreeLocked
  <2>2. QED
    BY <2>1 DEF ListInv, TypeOK
<1>3. UNCHANGED stuck /\ odd \subseteq odd'
  BY DEF FreeLocked
<1>4. QED
  BY <1>1, <1>2, <1>3, OneCell DEF ListCell, Listed

\* Whatever a message does, a buffer it touches stays in one of the lists,
\* and a dummy entry is made only for a name that is in none of them
LEMMA HandlerLists ==
  ASSUME ListInv, NEW p \in Peers, NEW m \in Message,
         \/ CreatedExisting(p, m) \/ CreatedLocal(p, m)
         \/ CreatedRefused(p, m) \/ CreatedUnknown(p, m)
         \/ DestroyedDummy(p, m) \/ DestroyedBuffer(p, m)
         \/ TransmittedH(p, m) \/ AckH(p, m) \/ Ignored(p, m)
  PROVE  \A q \in Peers, k \in Names : ListCell(q, k)'
<1>1. UNCHANGED <<user, stuck>> /\ odd \subseteq odd'
  BY DEF CreatedExisting, CreatedLocal, CreatedRefused, CreatedUnknown, DestroyedDummy,
         DestroyedBuffer, TransmittedH, AckH, Ignored
<1>2. CASE UNCHANGED <<buf, rdb>>
  BY <1>1, <1>2 DEF ListInv, ListCell
<1>3. ASSUME NEW n \in Names, NEW b, buf[p][n].loc \in Listed, b.loc \in Listed,
             buf' = [buf EXCEPT ![p][n] = b], UNCHANGED rdb
      PROVE  \A q \in Peers, k \in Names : ListCell(q, k)'
  <2>1. /\ buf'[p][n] = b
        /\ \A q \in Peers, k \in Names : q # p \/ k # n => buf'[q][k] = buf[q][k]
    BY <1>3 DEF ListInv, TypeOK
  <2>2. SameCell(p, n)
    BY <1>1, <1>3, <2>1 DEF SameCell, Listed
  <2>3. QED
    BY <1>1, <1>3, <2>1, <2>2, ListKept, OneCell DEF ListInv
<1>4. ASSUME NEW n \in Names, NEW d, d.there => buf[p][n].loc \notin Listed,
             rdb' = [rdb EXCEPT ![p][n] = d], UNCHANGED buf
      PROVE  \A q \in Peers, k \in Names : ListCell(q, k)'
  <2>1. /\ rdb'[p][n].there => buf[p][n].loc \notin Listed
        /\ \A q \in Peers, k \in Names : q # p \/ k # n => rdb'[q][k] = rdb[q][k]
    BY <1>4 DEF ListInv, TypeOK
  <2>2. QED
    BY <1>1, <1>4, <2>1, OneCell DEF ListInv, ListCell
<1>5. \A q \in Peers, k \in Names : buf[q][k] \in Buffer /\ rdb[q][k] \in RemoteDummy
  BY Tables DEF ListInv
<1>6. CASE CreatedLocal(p, m)
  <2> DEFINE b == buf[p][m.name]
  <2>1. m.name \in Names /\ b.loc = "local_dummy" /\ UNCHANGED rdb
    BY <1>6 DEF CreatedLocal, Message, CreatedMsg
  <2>2. PICK pa : LET c == Completed(p, b, m, pa) IN
          \/ buf' = [buf EXCEPT ![p][m.name] = c]
          \/ buf' = [buf EXCEPT ![p][m.name] = [c EXCEPT !.state = {}]]
          \/ buf' = [buf EXCEPT ![p][m.name] = [b EXCEPT !.pa = c.pa, !.allocated = c.allocated]]
    BY <1>6 DEF CreatedLocal, Announced
  <2> DEFINE c == Completed(p, b, m, pa)
  <2>3. c.loc \in Listed /\ [c EXCEPT !.state = {}].loc \in Listed /\ b.loc \in Listed
    BY <1>5, <2>1 DEF Completed, Buffer, Listed
  <2>4. [b EXCEPT !.pa = c.pa, !.allocated = c.allocated].loc \in Listed
    BY <1>5, <2>1 DEF Buffer, Listed
  <2> HIDE DEF c
  <2>5. QED
    BY <1>3, <2>1, <2>2, <2>3, <2>4 DEF c
<1>7. CASE CreatedUnknown(p, m)
  <2>1. m.name \in Names /\ buf[p][m.name].loc \notin Listed
    BY <1>7 DEF CreatedUnknown, Message, CreatedMsg, Listed
  <2>2. UNCHANGED buf /\ \E d : rdb' = [rdb EXCEPT ![p][m.name] = d]
    BY <1>7 DEF CreatedUnknown
  <2>3. QED
    BY <1>4, <2>1, <2>2
<1>8. CASE DestroyedDummy(p, m)
  <2>1. UNCHANGED buf /\ \E n \in Names : rdb' = [rdb EXCEPT ![p][n] = NoRdb]
    BY <1>8 DEF DestroyedDummy, DummiesWithId
  <2>2. ~NoRdb.there
    BY DEF NoRdb
  <2>3. QED
    BY <1>4, <2>1, <2>2
<1>9. CASE DestroyedBuffer(p, m)
  <2>1. PICK n \in Names :
          /\ buf[p][n].loc = "buffers"
          /\ buf' = [buf EXCEPT ![p][n] =
                       [buf[p][n] EXCEPT !.loc = "local_dummy",
                                         !.state = buf[p][n].state \cup {"DESTROYED"}]]
    BY <1>9 DEF DestroyedBuffer, IdrFinds, Available
  <2>2. /\ buf[p][n].loc \in Listed
        /\ [buf[p][n] EXCEPT !.loc = "local_dummy",
                             !.state = buf[p][n].state \cup {"DESTROYED"}].loc \in Listed
    BY <1>5, <2>1 DEF Buffer, Listed
  <2>3. UNCHANGED rdb
    BY <1>9 DEF DestroyedBuffer
  <2>4. QED
    BY <1>3, <2>1, <2>2, <2>3
<1>10. CASE AckH(p, m)
  <2>1. PICK n \in Names :
          /\ buf[p][n].loc = "buffers"
          /\ buf' = [buf EXCEPT ![p][n] =
                       [buf[p][n] EXCEPT !.state = buf[p][n].state \cup {"GETNOTIFY"}]]
    BY <1>10 DEF AckH, IdrFinds, Available
  <2>2. /\ buf[p][n].loc \in Listed
        /\ [buf[p][n] EXCEPT !.state = buf[p][n].state \cup {"GETNOTIFY"}].loc \in Listed
    BY <1>5, <2>1 DEF Buffer, Listed
  <2>3. UNCHANGED rdb
    BY <1>10 DEF AckH
  <2>4. QED
    BY <1>3, <2>1, <2>2, <2>3
<1>11. QED
  BY <1>2, <1>6, <1>7, <1>8, <1>9, <1>10
     DEF CreatedExisting, CreatedRefused, TransmittedH, Ignored

LEMMA ReplyLists ==
  ASSUME ListInv, NEW p \in Peers, Reply(p)
  PROVE  \A q \in Peers, k \in Names : ListCell(q, k)'
<1>1. UNCHANGED <<rdb, user, stuck, odd>>
  BY DEF Reply
<1>2. rx[p].msg.name \in Names
  <2>1. rx[p] \in [pc: {"reply"}, msg: CreatedMsg, touch: BOOLEAN]
    BY DEF Reply, ListInv, TypeOK, RxState, RxIdle
  <2>2. QED
    BY <2>1 DEF CreatedMsg
<1>3. UNCHANGED buf \/ \E s : buf' = [buf EXCEPT ![p][rx[p].msg.name].state = s]
  BY DEF Reply
<1>4. \A q \in Peers, k \in Names : buf'[q][k].loc = buf[q][k].loc
  BY <1>2, <1>3, StateOnly DEF ListInv
<1>5. QED
  BY <1>1, <1>4 DEF ListInv, ListCell

\* The reset leaves a listed buffer listed, and no dummy entry
LEMMA ResetLists ==
  ASSUME TypeOK, NEW k \in Names
  PROVE  /\ ResetBuffers[k].loc \in Listed <=> buf[Master][k].loc \in Listed
         /\ ResetBuffers[k].loc = "adrift" <=> buf[Master][k].loc = "adrift"
         /\ ~NoDummies[k].there
<1>1. buf[Master][k] \in Buffer
  BY Tables DEF Peers
<1>2. [buf[Master][k] EXCEPT !.loc = "local_dummy", !.offline = TRUE].loc = "local_dummy"
  BY <1>1 DEF Buffer
<1>3. QED
  BY <1>1, <1>2 DEF ResetBuffers, Available, NoDummies, NoRdb, Listed

LEMMA RestartLists ==
  ASSUME ListInv, Crash \/ ServiceRemove \/ ServiceProbe
  PROVE  \A q \in Peers, k \in Names : ListCell(q, k)'
<1>1. CASE Crash
  <2>1. ASSUME NEW k \in Names PROVE ListCell(Slave, k)'
    BY <1>1 DEF Crash, ListInv, TypeOK, ListCell, Listed, NoBuf, NoRdb, Instance, Idle, At, Peers
  <2>2. ASSUME NEW k \in Names PROVE ListCell(Master, k)'
    BY <1>1 DEF Crash, ListInv, TypeOK, ListCell, Peers, Master, Slave
  <2>3. QED
    BY <2>1, <2>2 DEF Peers
<1>2. CASE ServiceRemove
  <2>1. UNCHANGED <<user, stuck, odd>>
    BY <1>2 DEF ServiceRemove
  <2>2. ASSUME NEW k \in Names PROVE ListCell(Slave, k)'
    BY <1>2, <2>1 DEF ServiceRemove, ListInv, TypeOK, ListCell, Peers, Master, Slave
  <2>3. ASSUME NEW k \in Names PROVE ListCell(Master, k)'
    <3>1. /\ rdb'[Master][k] = NoDummies[k]
          /\ buf'[Master][k] = ResetBuffers[k]
      BY <1>2 DEF ServiceRemove, ListInv, TypeOK, Peers
    <3>2. ListCell(Master, k)
      BY DEF ListInv, Peers
    <3>3. QED
      BY <2>1, <3>1, <3>2, ResetLists DEF ListCell, ListInv
  <2>4. QED
    BY <2>2, <2>3 DEF Peers
<1>3. CASE ServiceProbe
  BY <1>3 DEF ServiceProbe, ListInv, ListCell
<1>4. QED
  BY <1>1, <1>2, <1>3

\* A reset inside a free takes the buffer and its caller along as the free
\* does, or leaves both
LEMMA RemoveInFreeLists ==
  ASSUME ListInv, NEW n \in Names, RemoveInFree(n)
  PROVE  \A q \in Peers, k \in Names : ListCell(q, k)'
<1>1. UNCHANGED <<stuck, odd>> /\ buf[Master][n].loc = "buffers" /\ TypeOK
  BY DEF RemoveInFree, ListInv
<1>2. ASSUME NEW k \in Names PROVE ListCell(Slave, k)'
  <2>1. /\ buf'[Slave] = buf[Slave] /\ rdb'[Slave] = rdb[Slave]
        /\ user'[Slave] = user[Slave]
    BY <1>1 DEF RemoveInFree, TypeOK, Peers, Master, Slave
  <2>2. ListCell(Slave, k)
    BY DEF ListInv, Peers
  <2>3. QED
    BY <1>1, <2>1, <2>2 DEF ListCell
<1>3. ASSUME NEW k \in Names, k # n PROVE ListCell(Master, k)'
  <2>1. /\ buf'[Master][k] = ResetBuffers[k] /\ rdb'[Master][k] = NoDummies[k]
        /\ user'[Master][k] = user[Master][k]
    BY <1>1, <1>3, ResetTypes DEF RemoveInFree, TypeOK, Peers
  <2>2. ListCell(Master, k)
    BY DEF ListInv, Peers
  <2>3. QED
    BY <1>1, <2>1, <2>2, ResetLists DEF ListCell
<1>4. ListCell(Master, n)'
  <2>1. CASE /\ buf' = [buf EXCEPT ![Master] = ResetBuffers]
             /\ rdb' = [rdb EXCEPT ![Master] = NoDummies]
             /\ user' = [user EXCEPT ![Master][n] = At("lost")]
    <3>1. /\ buf'[Master][n] = ResetBuffers[n] /\ rdb'[Master][n] = NoDummies[n]
          /\ user'[Master][n].pc = "lost"
      BY <1>1, <2>1 DEF TypeOK, Peers, At
    <3>2. QED
      BY <1>1, <3>1, ResetLists DEF ListCell, Listed
  <2>2. CASE /\ buf' = [buf EXCEPT ![Master] = [ResetBuffers EXCEPT ![n] = NoBuf]]
             /\ user' = [user EXCEPT ![Master][n] = Idle]
    <3>1. buf'[Master][n].loc = "none" /\ user'[Master][n].pc = "idle"
      BY <1>1, <2>2, ResetTypes DEF TypeOK, Peers, NoBuf, Instance, Idle, At
    <3>2. QED
      BY <3>1 DEF ListCell, Listed
  <2>3. QED
    BY <2>1, <2>2 DEF RemoveInFree
<1>5. QED
  BY <1>2, <1>3, <1>4 DEF Peers

\* The other resets inside a section of the master leave no dummy entry there
LEMMA OvertakenLists ==
  ASSUME ListInv,
         \/ \E n \in Names, len \in Lens : RemoveInAlloc(n, len)
         \/ \E m \in Message : RemoveInCreated(m) \/ RemoveInDummy(m)
  PROVE  \A q \in Peers, k \in Names : ListCell(q, k)'
<1>1. "overtaken" \in odd' /\ rdb' = [rdb EXCEPT ![Master] = NoDummies] /\ TypeOK
  BY DEF RemoveInAlloc, RemoveInCreated, RemoveInDummy, ListInv
<1>2. buf'[Slave] = buf[Slave]
  <2>1. PICK t : buf' = [buf EXCEPT ![Master] = t]
    BY DEF RemoveInAlloc, RemoveInCreated, RemoveInDummy
  <2>2. QED
    <3>1. buf \in [Peers -> [Names -> Buffer]]
      BY <1>1 DEF TypeOK
    <3>2. QED
      BY <2>1, <3>1 DEF Peers, Master, Slave
<1>3. ASSUME NEW k \in Names PROVE ListCell(Slave, k)'
  <2>1. rdb'[Slave] = rdb[Slave]
    BY <1>1 DEF TypeOK, Peers, Master, Slave
  <2>2. ListCell(Slave, k)
    BY DEF ListInv, Peers
  <2>3. QED
    BY <1>1, <1>2, <2>1, <2>2 DEF ListCell
<1>4. ASSUME NEW k \in Names PROVE ListCell(Master, k)'
  <2>1. rdb'[Master][k] = NoDummies[k]
    BY <1>1 DEF TypeOK, Peers
  <2>2. QED
    BY <1>1, <2>1, ResetLists DEF ListCell
<1>5. QED
  BY <1>3, <1>4 DEF Peers

\* The kinds of steps, as the invariants below tell them apart
Alloc(p, n, len) ==
  \/ AllocFirst(p, n, len) \/ AllocFirstNoMem(n, len)
  \/ AllocSecondSlave(n, len) \/ AllocSecondMaster(n, len)

Handle(p, m) ==
  \/ CreatedExisting(p, m) \/ CreatedLocal(p, m)
  \/ CreatedRefused(p, m) \/ CreatedUnknown(p, m)
  \/ DestroyedDummy(p, m) \/ DestroyedBuffer(p, m)
  \/ TransmittedH(p, m) \/ AckH(p, m) \/ Ignored(p, m)

LEMMA Steps ==
  ASSUME TypeOK, [Next]_vars
  PROVE  \/ \E p \in Peers, n \in Names, len \in Lens : Alloc(p, n, len)
         \/ \E p \in Peers, n \in Names : Quiet(p, n) \/ FreeLocked(p, n)
         \/ \E p \in Peers : Reply(p) \/ CallbackEnd(p) \/ \E m \in Message : Handle(p, m)
         \/ Crash \/ ServiceRemove \/ ServiceProbe
         \/ \E n \in Names : RemoveInFree(n) \/ \E len \in Lens : RemoveInAlloc(n, len)
         \/ \E m \in Message : m = Head(ch[Slave]) /\ (RemoveInCreated(m) \/ RemoveInDummy(m))
         \/ UNCHANGED vars
<1>1. ASSUME NEW p \in Peers, NEW n \in Names, UserCall(p, n)
      PROVE  Quiet(p, n) \/ \E len \in Lens : Alloc(p, n, len)
  BY <1>1 DEF UserCall, Quiet, Alloc
<1>2. ASSUME NEW p \in Peers, NEW n \in Names, UserStep(p, n)
      PROVE  Quiet(p, n) \/ FreeLocked(p, n)
  BY <1>2 DEF UserStep, Quiet
<1>3. ASSUME NEW p \in Peers, RxStep(p)
      PROVE  Reply(p) \/ CallbackEnd(p) \/ \E m \in Message : Handle(p, m)
  <2> DEFINE m == Head(ch[Other(p)])
  <2>1. Reply(p) \/ CallbackEnd(p) \/ (ch[Other(p)] # << >> /\ Handle(p, m))
    BY <1>3 DEF RxStep, Handle
  <2>2. ch[Other(p)] # << >> => m \in Message
    BY ChannelTypes
  <2> HIDE DEF m
  <2>3. QED
    BY <2>1, <2>2
<1>4. \/ \E p \in Peers, n \in Names :
           \/ UserCall(p, n) \/ UserStep(p, n)
           \/ WaitInterrupted(p, n) \/ FreeInterrupted(p, n)
      \/ \E p \in Peers : RxStep(p)
      \/ Crash \/ ServiceRemove \/ RemoveInside \/ ServiceProbe
      \/ UNCHANGED vars
  BY DEF Next
<1>5. \A p \in Peers, n \in Names :
        WaitInterrupted(p, n) \/ FreeInterrupted(p, n) => Quiet(p, n)
  BY DEF Quiet
<1>6. RemoveInside =>
        \/ \E n \in Names : RemoveInFree(n) \/ \E len \in Lens : RemoveInAlloc(n, len)
        \/ \E m \in Message : m = Head(ch[Slave]) /\ (RemoveInCreated(m) \/ RemoveInDummy(m))
  <2>1. ch[Slave] # << >> => Head(ch[Slave]) \in Message
    BY SlaveChannel
  <2>2. QED
    BY <2>1 DEF RemoveInside
<1>7. QED
  BY <1>1, <1>2, <1>3, <1>4, <1>5, <1>6

LEMMA ListStep ==
  ASSUME ListInv, [Next]_vars
  PROVE  \A q \in Peers, k \in Names : ListCell(q, k)'
<1>1. ASSUME NEW p \in Peers, NEW n \in Names, NEW len \in Lens, Alloc(p, n, len)
      PROVE  \A q \in Peers, k \in Names : ListCell(q, k)'
  BY <1>1, AllocLists DEF Alloc
<1>2. ASSUME NEW p \in Peers, NEW n \in Names, Quiet(p, n)
      PROVE  \A q \in Peers, k \in Names : ListCell(q, k)'
  <2>1. /\ UNCHANGED <<rdb, stuck, odd>>
        /\ \A q \in Peers, k \in Names : SameCell(q, k)
    BY <1>2, QuietKeeps DEF ListInv, SameCell
  <2>2. QED
    BY <2>1, ListKept DEF ListInv
<1>3. ASSUME NEW p \in Peers, NEW m \in Message, Handle(p, m)
      PROVE  \A q \in Peers, k \in Names : ListCell(q, k)'
  BY <1>3, HandlerLists DEF Handle
<1>4. CASE UNCHANGED vars
  BY <1>4 DEF vars, ListInv, ListCell
<1>5. TypeOK
  BY DEF ListInv
<1>6. ASSUME NEW p \in Peers, CallbackEnd(p)
      PROVE  \A q \in Peers, k \in Names : ListCell(q, k)'
  BY <1>6 DEF CallbackEnd, ListInv, ListCell
<1>7. ASSUME \/ \E n \in Names : RemoveInFree(n) \/ \E len \in Lens : RemoveInAlloc(n, len)
             \/ \E m \in Message : RemoveInCreated(m) \/ RemoveInDummy(m)
      PROVE  \A q \in Peers, k \in Names : ListCell(q, k)'
  BY <1>7, RemoveInFreeLists, OvertakenLists
<1>8. QED
  BY <1>1, <1>2, <1>3, <1>4, <1>5, <1>6, <1>7, Steps, FreeLists, ReplyLists, RestartLists

\* The lists and the callers agree in every reachable state
THEOREM ListsCorrect == Spec => []ListInv
<1>1. Init => \A p \in Peers, n \in Names : ListCell(p, n)
  BY DEF Init, ListCell, Listed, NoBuf, NoRdb, Instance, Idle, At
<1>2. TypeOK /\ TypeOK' /\ ListInv /\ [Next]_vars => ListInv'
  BY ListStep DEF ListInv
<1>3. Init /\ TypeOK => ListInv
  BY <1>1 DEF ListInv
<1>4. QED
  BY <1>2, <1>3, TypeCorrect, PTL DEF Spec

\* Whoever holds a handle finds its buffer in a list, and no list keeps a
\* buffer nobody holds (rpbuf_alloc_buffer, rpbuf_free_buffer)
THEOREM HandlesTracked == Spec => []OwnedIsTracked
<1>1. ListInv => OwnedIsTracked
  BY ListParts
<1>2. QED
  BY <1>1, ListsCorrect, PTL

\* No name is in remote_dummy_buffers and allocated locally at once: the
\* "(unexpected) overwrite" branch of rpbuf_free_buffer_internal is dead
THEOREM NamesExclusive == Spec => []Exclusive
<1>1. ListInv => Exclusive
  BY ListParts
<1>2. QED
  BY <1>1, ListsCorrect, PTL
=============================================================================

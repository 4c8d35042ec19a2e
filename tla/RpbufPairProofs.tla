--------------------------- MODULE RpbufPairProofs ---------------------------
(***************************************************************************)
(* What the two cores of RpbufCore know of each other: that a usable       *)
(* buffer accepts data, that the first synchronous transmit was received,  *)
(* and that two cores which lose nothing agree on a name.                  *)
(***************************************************************************)
EXTENDS RpbufPayloadProofs

(* The states of buffers.  A buffer whose destruction is noted waits in    *)
(* local_dummy_buffers, from where available_cb takes it with a new state, *)
(* or is about to be freed by its caller, or its caller's free has failed. *)
(* A buffer that a reset put back into that list keeps its state when it   *)
(* is announced again, but had no destruction noted.                       *)

Leaving(p, n) == user[p][n].pc \in {"free", "destroy", "undo", "lost"}

CleanCell(p, n) ==
  LET b == buf[p][n] IN
  /\ b.loc = "buffers" => ~b.offline
  /\ "DESTROYED" \in b.state /\ ~Leaving(p, n) =>
       b.loc \in {"local_dummy", "adrift"} /\ ~b.offline

CleanInv == AvailableCb /\ \A p \in Peers, n \in Names : CleanCell(p, n)

LEMMA CleanImplies == CleanInv => UsableAccepts
BY DEF CleanInv, CleanCell, UsableAccepts, Quiescent, Available, Leaving

\* A step of one buffer's caller, or on one buffer, only has to answer for it
LEMMA OneClean ==
  ASSUME CleanInv, NEW p \in Peers, NEW n \in Names,
         \A q \in Peers, k \in Names : q # p \/ k # n =>
           buf'[q][k] = buf[q][k] /\ user'[q][k] = user[q][k],
         CleanCell(p, n)'
  PROVE  CleanInv'
<1> SUFFICES ASSUME NEW q \in Peers, NEW k \in Names PROVE CleanCell(q, k)'
  BY DEF CleanInv
<1>1. CASE q = p /\ k = n
  BY <1>1
<1>2. CASE q # p \/ k # n
  BY <1>2 DEF CleanInv, CleanCell, Leaving
<1>3. QED
  BY <1>1, <1>2

\* The state of one buffer changes, but no destruction is noted
LEMMA StateClean ==
  ASSUME TypeOK, CleanInv, NEW p \in Peers, NEW n \in Names, NEW s,
         "DESTROYED" \in s => "DESTROYED" \in buf[p][n].state,
         buf' = [buf EXCEPT ![p][n].state = s],
         Leaving(p, n) => user'[p][n].pc \in {"free", "destroy", "undo", "lost"},
         \A q \in Peers, k \in Names : q # p \/ k # n => user'[q][k] = user[q][k]
  PROVE  CleanInv'
<1> DEFINE c == [buf[p][n] EXCEPT !.state = s]
<1>1. c.loc = buf[p][n].loc /\ c.offline = buf[p][n].offline /\ c.state = s
  BY Tables DEF Buffer
<1>2. buf' = [buf EXCEPT ![p][n] = c]
  BY DEF TypeOK
<1> HIDE DEF c
<1>3. /\ buf'[p][n] = c
      /\ \A q \in Peers, k \in Names : q # p \/ k # n => buf'[q][k] = buf[q][k]
  BY <1>2 DEF TypeOK
<1>4. CleanCell(p, n)'
  BY <1>1, <1>3 DEF CleanInv, CleanCell, Leaving
<1>5. QED
  BY <1>3, <1>4, OneClean

\* rpbuf_alloc_buffer starts every buffer with a new state
LEMMA AllocClean ==
  ASSUME TypeOK, CleanInv, NEW p \in Peers, NEW n \in Names, NEW len \in Lens,
         Alloc(p, n, len)
  PROVE  CleanInv'
<1>0. Master \in Peers /\ Slave \in Peers
  BY DEF Peers
<1>1. ASSUME NEW q \in Peers, NEW b, ~b.offline, b.state = {},
             buf' = [buf EXCEPT ![q][n] = b],
             UNCHANGED user \/ \E u : user' = [user EXCEPT ![q][n] = u]
      PROVE  CleanInv'
  <2>1. /\ buf'[q][n] = b
        /\ \A x \in Peers, k \in Names : x # q \/ k # n =>
             buf'[x][k] = buf[x][k] /\ user'[x][k] = user[x][k]
    <3>1. /\ buf'[q][n] = b
          /\ \A x \in Peers, k \in Names : x # q \/ k # n => buf'[x][k] = buf[x][k]
      BY <1>1, TableTypes
    <3>2. \A x \in Peers, k \in Names : x # q \/ k # n => user'[x][k] = user[x][k]
      <4>1. CASE UNCHANGED user
        BY <4>1
      <4>2. ASSUME NEW u, user' = [user EXCEPT ![q][n] = u]
            PROVE  \A x \in Peers, k \in Names : x # q \/ k # n => user'[x][k] = user[x][k]
        BY <4>2, TableTypes
      <4>3. QED
        BY <1>1, <4>1, <4>2
    <3>3. QED
      BY <3>1, <3>2
  <2>2. CleanCell(q, n)'
    BY <1>1, <2>1 DEF CleanCell
  <2>3. QED
    BY <2>1, <2>2, OneClean
<1>2. CASE UNCHANGED <<buf, user>>
  BY <1>2 DEF CleanInv, CleanCell, Leaving
<1>3. ASSUME NEW q \in Peers, NEW b, ~b.offline, b.state = {}, NEW avail,
             Allocated(q, n, b, avail)
      PROVE  CleanInv'
  BY <1>1, <1>3 DEF Allocated
<1>4. CASE AllocFirst(p, n, len)
  <2>1. \E b : ~b.offline /\ b.state = {} /\ Allocated(p, n, b, FALSE)
    BY <1>4 DEF AllocFirst, Instance
  <2>2. QED
    BY <1>3, <2>1
<1>5. CASE AllocFirstNoMem(n, len)
  <2>1. \E b : ~b.offline /\ b.state = {} /\ buf' = [buf EXCEPT ![Master][n] = b]
    BY <1>5 DEF AllocFirstNoMem, Instance
  <2>2. UNCHANGED user
    BY <1>5 DEF AllocFirstNoMem
  <2>3. QED
    BY <1>0, <1>1, <2>1, <2>2
<1>6. CASE AllocSecondSlave(n, len)
  <2>1. UNCHANGED <<buf, user>>
        \/ \E b : ~b.offline /\ b.state = {} /\ Allocated(Slave, n, b, TRUE)
    BY <1>6 DEF AllocSecondSlave, Instance
  <2>2. QED
    BY <1>0, <1>2, <1>3, <2>1
<1>7. CASE AllocSecondMaster(n, len)
  <2>1. UNCHANGED <<buf, user>>
        \/ \E b : ~b.offline /\ b.state = {} /\ Allocated(Master, n, b, TRUE)
    BY <1>7 DEF AllocSecondMaster, Instance
  <2>2. QED
    BY <1>0, <1>2, <1>3, <2>1
<1>8. QED
  BY <1>4, <1>5, <1>6, <1>7 DEF Alloc

\* The caller itself notes a destruction only on its way out
LEMMA QuietClean ==
  ASSUME TypeOK, CleanInv, NEW p \in Peers, NEW n \in Names, Quiet(p, n)
  PROVE  CleanInv'
<1> DEFINE b == buf[p][n]
<1>1. ASSUME NEW u, u.pc = "free" \/ u.pc = "undo", user' = [user EXCEPT ![p][n] = u],
             buf' = [buf EXCEPT ![p][n].state = b.state \cup {"DESTROYED"}]
      PROVE  CleanInv'
  <2> DEFINE c == [b EXCEPT !.state = b.state \cup {"DESTROYED"}]
  <2>1. c.loc = b.loc /\ c.offline = b.offline
    BY Tables DEF Buffer
  <2>2. buf' = [buf EXCEPT ![p][n] = c]
    BY <1>1 DEF TypeOK
  <2> HIDE DEF c
  <2>3. /\ buf'[p][n] = c /\ user'[p][n] = u
        /\ \A q \in Peers, k \in Names : q # p \/ k # n =>
             buf'[q][k] = buf[q][k] /\ user'[q][k] = user[q][k]
    BY <1>1, <2>2 DEF TypeOK
  <2>4. CleanCell(p, n)'
    BY <1>1, <2>1, <2>3 DEF CleanInv, CleanCell, Leaving
  <2>5. QED
    BY <2>3, <2>4, OneClean
<1>2. ASSUME NEW u, user' = [user EXCEPT ![p][n] = u],
             Leaving(p, n) => u.pc \in {"destroy", "lost"},
             UNCHANGED buf \/ buf' = [buf EXCEPT ![p][n].state = b.state \ {"GETNOTIFY"}]
      PROVE  CleanInv'
  <2>1. /\ \A q \in Peers, k \in Names : q # p \/ k # n => user'[q][k] = user[q][k]
        /\ Leaving(p, n) => user'[p][n].pc \in {"free", "destroy", "undo", "lost"}
    BY <1>2 DEF TypeOK, Leaving
  <2>2. CASE UNCHANGED buf
    <3>1. CleanCell(p, n)'
      BY <2>1, <2>2 DEF CleanInv, CleanCell, Leaving
    <3>2. QED
      BY <2>1, <2>2, <3>1, OneClean
  <2>3. CASE buf' = [buf EXCEPT ![p][n].state = b.state \ {"GETNOTIFY"}]
    <3> DEFINE s == b.state \ {"GETNOTIFY"}
    <3>1. "DESTROYED" \in s => "DESTROYED" \in buf[p][n].state
      OBVIOUS
    <3>2. buf' = [buf EXCEPT ![p][n].state = s]
      BY <2>3
    <3> HIDE DEF s
    <3>3. QED
      BY <1>2, <2>1, <3>1, <3>2, StateClean
  <2>4. QED
    BY <1>2, <2>2, <2>3
<1>3. CASE AllocNotify(p, n)
  <2>1. At("owned").pc = "owned" /\ At("undo").pc = "undo" /\ ~Leaving(p, n)
    BY <1>3 DEF AllocNotify, At, Leaving
  <2>2. QED
    BY <1>1, <1>2, <1>3, <2>1 DEF AllocNotify
<1>4. CASE FreeStart(p, n)
  <2> DEFINE u == [pc |-> "free", avail |-> FALSE, id |-> b.id, sync |-> FALSE]
  <2>1. /\ user' = [user EXCEPT ![p][n] = u]
        /\ buf' = [buf EXCEPT ![p][n].state = b.state \cup {"DESTROYED"}]
    BY <1>4 DEF FreeStart
  <2>2. u.pc = "free"
    OBVIOUS
  <2> HIDE DEF u
  <2>3. QED
    BY <1>1, <2>1, <2>2
<1>5. CASE FreeNotify(p, n) \/ FreeInterrupted(p, n) \/ FreeNotFound(p, n)
  <2>1. At("destroy").pc = "destroy" /\ At("lost").pc = "lost" /\ UNCHANGED buf
    BY <1>5 DEF FreeNotify, FreeInterrupted, FreeNotFound, At
  <2>2. QED
    BY <1>2, <1>5, <2>1 DEF FreeNotify, FreeInterrupted, FreeNotFound
<1>6. ASSUME ~Leaving(p, n), \E u : user' = [user EXCEPT ![p][n] = u],
             UNCHANGED buf \/ buf' = [buf EXCEPT ![p][n].state = b.state \ {"GETNOTIFY"}]
      PROVE  CleanInv'
  BY <1>2, <1>6
<1>7. CASE TransmitNotify(p, n)
  BY <1>6, <1>7 DEF TransmitNotify, Leaving
<1>8. CASE WaitDone(p, n)
  BY <1>6, <1>8 DEF WaitDone, Leaving
<1>9. CASE WaitInterrupted(p, n)
  BY <1>6, <1>9 DEF WaitInterrupted, Leaving
<1>10. CASE TransmitCheck(p, n)
  BY <1>6, <1>10 DEF TransmitCheck, Leaving
<1>11. CASE \E sync \in BOOLEAN : TransmitStart(p, n, sync)
  BY <1>6, <1>11 DEF TransmitStart, Leaving
<1>12. QED
  BY <1>3, <1>4, <1>5, <1>7, <1>8, <1>9, <1>10, <1>11 DEF Quiet

\* A handler notes a destruction when it moves the buffer out of 'buffers', and
\* moves it back with a new state, or, after a reset, with none noted
LEMMA HandlerClean ==
  ASSUME TypeOK, CleanInv, NEW p \in Peers, NEW m \in Message, Handle(p, m)
  PROVE  CleanInv'
<1>0. UNCHANGED user /\ \A q \in Peers, k \in Names : buf[q][k] \in Buffer
  BY Tables DEF Handle, CreatedExisting, CreatedLocal, CreatedRefused, CreatedUnknown,
                DestroyedDummy, DestroyedBuffer, TransmittedH, AckH, Ignored
<1>1. CASE UNCHANGED buf
  BY <1>0, <1>1 DEF CleanInv, CleanCell, Leaving
<1>2. ASSUME NEW n \in Names, NEW c, buf' = [buf EXCEPT ![p][n] = c],
             c.loc = "buffers" => ~c.offline,
             "DESTROYED" \in c.state /\ ~Leaving(p, n) =>
               c.loc \in {"local_dummy", "adrift"} /\ ~c.offline
      PROVE  CleanInv'
  <2>1. /\ buf'[p][n] = c
        /\ \A q \in Peers, k \in Names : q # p \/ k # n => buf'[q][k] = buf[q][k]
    BY <1>2 DEF TypeOK
  <2>2. CleanCell(p, n)'
    BY <1>0, <1>2, <2>1 DEF CleanCell, Leaving
  <2>3. QED
    BY <1>0, <2>1, <2>2, OneClean
<1>3. CASE CreatedLocal(p, m)
  <2> DEFINE n == m.name
             b == buf[p][n]
  <2>1. n \in Names /\ b.loc = "local_dummy" /\ CleanCell(p, n) /\ b \in Buffer
    BY <1>0, <1>3 DEF CreatedLocal, Message, CreatedMsg, CleanInv
  <2>2. PICK pa : LET c == Completed(p, b, m, pa) IN
          \/ buf' = [buf EXCEPT ![p][n] = Announced(b, c)]
          \/ buf' = [buf EXCEPT ![p][n] = [b EXCEPT !.pa = c.pa, !.allocated = c.allocated]]
    BY <1>3 DEF CreatedLocal
  <2> DEFINE c == Completed(p, b, m, pa)
             d == Announced(b, c)
             e == [b EXCEPT !.pa = c.pa, !.allocated = c.allocated]
  <2>3. c \in [loc: {"buffers"}, id: {c.id}, len: {c.len}, pa: {c.pa},
               allocated: {c.allocated}, state: {b.state}, offline: {FALSE}]
    BY <2>1 DEF Completed, Buffer
  <2>4. ~d.offline /\ d.state = IF b.offline THEN b.state ELSE {}
    <3> HIDE DEF c
    <3>1. QED
      BY <2>1, <2>3 DEF Announced, Buffer, CleanInv
  <2>5. e.loc = "local_dummy" /\ e.state = b.state /\ e.offline = b.offline
    <3> HIDE DEF c
    <3>1. QED
      BY <2>1 DEF Buffer
  <2>6. buf' = [buf EXCEPT ![p][n] = d] \/ buf' = [buf EXCEPT ![p][n] = e]
    BY <2>2
  <2>7. "DESTROYED" \in b.state /\ ~Leaving(p, n) => ~b.offline
    BY <2>1 DEF CleanCell
  <2> HIDE DEF c, d, e
  <2>8. QED
    BY <1>2, <2>1, <2>4, <2>5, <2>6, <2>7
<1>4. CASE DestroyedBuffer(p, m)
  <2>1. PICK n \in Names :
          /\ buf[p][n].loc = "buffers"
          /\ buf' = [buf EXCEPT ![p][n] =
                       [buf[p][n] EXCEPT !.loc = "local_dummy",
                                         !.state = buf[p][n].state \cup {"DESTROYED"}]]
    BY <1>4 DEF DestroyedBuffer, IdrFinds, Available
  <2> DEFINE c == [buf[p][n] EXCEPT !.loc = "local_dummy",
                                    !.state = buf[p][n].state \cup {"DESTROYED"}]
  <2>2. c.loc = "local_dummy" /\ ~c.offline
    BY <1>0, <2>1 DEF Buffer, CleanInv, CleanCell
  <2>3. buf' = [buf EXCEPT ![p][n] = c]
    BY <2>1
  <2> HIDE DEF c
  <2>4. QED
    BY <1>2, <2>2, <2>3
<1>5. CASE AckH(p, m)
  <2>1. PICK n \in Names : buf' = [buf EXCEPT ![p][n].state = buf[p][n].state \cup {"GETNOTIFY"}]
    BY <1>5 DEF AckH
  <2>2. QED
    <3> DEFINE s == buf[p][n].state \cup {"GETNOTIFY"}
    <3>1. "DESTROYED" \in s => "DESTROYED" \in buf[p][n].state
      OBVIOUS
    <3>2. buf' = [buf EXCEPT ![p][n].state = s]
      BY <2>1
    <3>3. Leaving(p, n) => user'[p][n].pc \in {"free", "destroy", "undo", "lost"}
      BY <1>0 DEF Leaving
    <3> HIDE DEF s
    <3>4. QED
      BY <1>0, <3>1, <3>2, <3>3, StateClean
<1>6. QED
  BY <1>1, <1>3, <1>4, <1>5
     DEF Handle, CreatedExisting, CreatedRefused, CreatedUnknown, DestroyedDummy,
         TransmittedH, Ignored

LEMMA OtherClean ==
  ASSUME TypeOK, CleanInv,
         \/ \E p \in Peers, n \in Names : FreeLocked(p, n)
         \/ \E p \in Peers : Reply(p) \/ CallbackEnd(p)
         \/ Crash \/ ServiceProbe \/ UNCHANGED vars
  PROVE  CleanInv'
<1>0. ~NoBuf.offline /\ NoBuf.loc = "none" /\ NoBuf.state = {} /\ Master # Slave
  BY DEF NoBuf, Instance, Master, Slave
<1>1. ASSUME NEW p \in Peers, NEW n \in Names, FreeLocked(p, n) PROVE CleanInv'
  <2>1. /\ buf'[p][n] = NoBuf
        /\ \A q \in Peers, k \in Names : q # p \/ k # n =>
             buf'[q][k] = buf[q][k] /\ user'[q][k] = user[q][k]
    BY <1>1 DEF FreeLocked, TypeOK
  <2>2. CleanCell(p, n)'
    BY <1>0, <2>1 DEF CleanCell
  <2>3. QED
    BY <2>1, <2>2, OneClean
<1>2. ASSUME NEW p \in Peers, Reply(p) PROVE CleanInv'
  <2>1. rx[p].msg.name \in Names
    <3>1. rx[p] \in [pc: {"reply"}, msg: CreatedMsg, touch: BOOLEAN]
      BY <1>2 DEF Reply, TypeOK, RxState, RxIdle
    <3>2. QED
      BY <3>1 DEF CreatedMsg
  <2>2. UNCHANGED user /\ (UNCHANGED buf \/ buf' = [buf EXCEPT ![p][rx[p].msg.name].state = {}])
    BY <1>2 DEF Reply
  <2>3. CASE UNCHANGED buf
    BY <2>2, <2>3 DEF CleanInv, CleanCell, Leaving
  <2>4. CASE buf' = [buf EXCEPT ![p][rx[p].msg.name].state = {}]
    <3> DEFINE n == rx[p].msg.name  s == {}
    <3>1. "DESTROYED" \in s => "DESTROYED" \in buf[p][n].state
      OBVIOUS
    <3>2. n \in Names /\ buf' = [buf EXCEPT ![p][n].state = s]
      BY <2>1, <2>4
    <3>3. Leaving(p, n) => user'[p][n].pc \in {"free", "destroy", "undo", "lost"}
      BY <2>2 DEF Leaving
    <3> HIDE DEF n, s
    <3>4. QED
      BY <2>2, <3>1, <3>2, <3>3, StateClean
  <2>5. QED
    BY <2>2, <2>3, <2>4
<1>3. CASE Crash
  <2>1. \A k \in Names : /\ buf'[Slave][k] = NoBuf
                         /\ buf'[Master][k] = buf[Master][k]
                         /\ user'[Master][k] = user[Master][k]
    BY <1>0, <1>3 DEF Crash, TypeOK, Peers
  <2>2. QED
    BY <1>0, <2>1 DEF CleanInv, CleanCell, Leaving, Peers
<1>4. CASE ServiceProbe \/ UNCHANGED vars \/ \E p \in Peers : CallbackEnd(p)
  BY <1>4 DEF ServiceProbe, CallbackEnd, vars, CleanInv, CleanCell, Leaving
<1>5. QED
  BY <1>1, <1>2, <1>3, <1>4

\* The buffers a reset leaves are clean, whatever else becomes of one of them
LEMMA ResetClean ==
  ASSUME TypeOK, CleanInv, NEW n \in Names,
         \A k \in Names : /\ k # n => buf'[Master][k] = ResetBuffers[k]
                          /\ buf'[Slave][k] = buf[Slave][k],
         \A q \in Peers, k \in Names : q # Master \/ k # n => user'[q][k] = user[q][k],
         CleanCell(Master, n)'
  PROVE  CleanInv'
<1>0. Master # Slave
  BY DEF Master, Slave
<1>2. ASSUME NEW k \in Names, k # n PROVE CleanCell(Master, k)'
  <2>1. CleanCell(Master, k) /\ buf[Master][k] \in Buffer /\ user'[Master][k] = user[Master][k]
    BY <1>2, Tables DEF CleanInv, Peers
  <2>2. CASE k \in Available(Master)
    <3> DEFINE c == [buf[Master][k] EXCEPT !.loc = "local_dummy", !.offline = TRUE]
    <3>1. c.loc = "local_dummy" /\ c.state = buf[Master][k].state
      BY <2>1 DEF Buffer
    <3>2. buf'[Master][k] = c
      BY <1>2, <2>2 DEF ResetBuffers
    <3> HIDE DEF c
    <3>3. QED
      BY <2>1, <2>2, <3>1, <3>2 DEF CleanCell, Leaving, Available
  <2>3. CASE k \notin Available(Master)
    BY <1>2, <2>1, <2>3 DEF CleanCell, Leaving, ResetBuffers
  <2>4. QED
    BY <2>2, <2>3
<1>3. ASSUME NEW k \in Names PROVE CleanCell(Slave, k)'
  BY <1>0 DEF CleanInv, CleanCell, Leaving, Peers
<1>4. QED
  BY <1>2, <1>3 DEF CleanInv, Peers

LEMMA RemoveClean ==
  ASSUME TypeOK, CleanInv,
         \/ ServiceRemove
         \/ \E n \in Names : RemoveInFree(n) \/ \E len \in Lens : RemoveInAlloc(n, len)
         \/ \E m \in Message : RemoveInCreated(m) \/ RemoveInDummy(m)
  PROVE  CleanInv'
<1>0. /\ ~NoBuf.offline /\ NoBuf.loc = "none" /\ NoBuf.state = {} /\ Master \in Peers
      /\ ResetBuffers \in [Names -> Buffer] /\ Master # Slave
  BY ResetTypes DEF NoBuf, Instance, Peers, Master, Slave
<1>1. ASSUME buf' = [buf EXCEPT ![Master] = ResetBuffers], NEW n \in Names,
             \A q \in Peers, k \in Names : q # Master \/ k # n => user'[q][k] = user[q][k],
             Leaving(Master, n) => Leaving(Master, n)'
      PROVE  CleanInv'
  <2>1. \A k \in Names : /\ k # n => buf'[Master][k] = ResetBuffers[k]
                         /\ buf'[Slave][k] = buf[Slave][k]
    BY <1>0, <1>1 DEF TypeOK, Peers
  <2>2. buf'[Master][n] = ResetBuffers[n] /\ CleanCell(Master, n) /\ buf[Master][n] \in Buffer
    BY <1>0, <1>1, Tables DEF TypeOK, CleanInv
  <2> DEFINE c == [buf[Master][n] EXCEPT !.loc = "local_dummy", !.offline = TRUE]
  <2>3. c.loc = "local_dummy" /\ c.state = buf[Master][n].state
    BY <2>2 DEF Buffer
  <2>4. ResetBuffers[n] = IF n \in Available(Master) THEN c ELSE buf[Master][n]
    BY DEF ResetBuffers
  <2> HIDE DEF c
  <2>5. CleanCell(Master, n)'
    BY <1>1, <2>2, <2>3, <2>4 DEF CleanCell, Available
  <2>6. \A q \in Peers, k \in Names : q # Master \/ k # n => user'[q][k] = user[q][k]
    BY <1>1
  <2>7. QED
    BY <2>1, <2>5, <2>6, ResetClean
<1>2. ASSUME buf' = [buf EXCEPT ![Master] = ResetBuffers], UNCHANGED user PROVE CleanInv'
  <2>1. CASE Names = {}
    BY <2>1 DEF CleanInv
  <2>2. ASSUME NEW n \in Names PROVE CleanInv'
    BY <1>1, <1>2 DEF Leaving
  <2>3. QED
    BY <2>1, <2>2
<1>3. ASSUME NEW n \in Names, NEW b, NEW u,
             buf' = [buf EXCEPT ![Master] = [ResetBuffers EXCEPT ![n] = b]],
             UNCHANGED user \/ user' = [user EXCEPT ![Master][n] = u],
             b.loc = "buffers" => ~b.offline,
             "DESTROYED" \in b.state /\ ~Leaving(Master, n) => b.loc = "adrift" /\ ~b.offline,
             Leaving(Master, n) /\ "DESTROYED" \in b.state => UNCHANGED user
      PROVE  CleanInv'
  <2>1. /\ buf'[Master][n] = b
        /\ \A k \in Names : /\ k # n => buf'[Master][k] = ResetBuffers[k]
                            /\ buf'[Slave][k] = buf[Slave][k]
    <3>1. /\ buf \in [Peers -> [Names -> Buffer]]
          /\ DOMAIN ResetBuffers = Names /\ Master # Slave
      BY <1>0 DEF TypeOK, ResetBuffers
    <3>2. QED
      BY <1>3, <3>1 DEF Peers
  <2>2. \A q \in Peers, k \in Names : q # Master \/ k # n => user'[q][k] = user[q][k]
    <3>1. Master \in Peers
      BY DEF Peers
    <3>2. QED
      BY <1>3, <3>1, TableTypes
  <2>3. CleanCell(Master, n)'
    BY <1>3, <2>1 DEF CleanCell, Leaving
  <2>4. QED
    BY <2>1, <2>2, <2>3, ResetClean
<1>4. CASE ServiceRemove
  BY <1>2, <1>4 DEF ServiceRemove
<1>5. ASSUME NEW n \in Names, RemoveInFree(n) PROVE CleanInv'
  <2>1. CASE /\ buf' = [buf EXCEPT ![Master] = ResetBuffers]
             /\ user' = [user EXCEPT ![Master][n] = At("lost")]
    <3>1. /\ user'[Master][n].pc = "lost"
          /\ \A q \in Peers, k \in Names : q # Master \/ k # n => user'[q][k] = user[q][k]
      BY <1>0, <2>1 DEF TypeOK, At
    <3>2. QED
      BY <1>1, <2>1, <3>1 DEF Leaving
  <2>2. CASE /\ buf' = [buf EXCEPT ![Master] = [ResetBuffers EXCEPT ![n] = NoBuf]]
             /\ user' = [user EXCEPT ![Master][n] = Idle]
    BY <1>0, <1>3, <2>2
  <2>3. QED
    BY <1>5, <2>1, <2>2 DEF RemoveInFree
<1>6. ASSUME NEW n \in Names, NEW len \in Lens, RemoveInAlloc(n, len) PROVE CleanInv'
  <2> DEFINE I(pa) == Instance("buffers", rdb[Master][n].id, len, pa, TRUE)
             J(pa) == [I(pa) EXCEPT !.loc = "local_dummy", !.offline = TRUE]
  <2>1. \A pa : /\ I(pa).loc = "buffers" /\ ~I(pa).offline /\ I(pa).state = {}
                /\ J(pa).loc = "local_dummy" /\ J(pa).state = {}
    BY DEF Instance
  <2>2. \E pa : \E after \in BOOLEAN :
          buf' = [buf EXCEPT ![Master] =
                    [ResetBuffers EXCEPT ![n] = IF after THEN I(pa) ELSE J(pa)]]
    BY <1>6 DEF RemoveInAlloc
  <2>3. \E u : user' = [user EXCEPT ![Master][n] = u]
    BY <1>6 DEF RemoveInAlloc
  <2> HIDE DEF I, J
  <2>4. PICK b : /\ buf' = [buf EXCEPT ![Master] = [ResetBuffers EXCEPT ![n] = b]]
                 /\ b.loc = "buffers" => ~b.offline
                 /\ b.state = {}
    BY <2>1, <2>2
  <2>5. QED
    BY <1>3, <2>3, <2>4
<1>7. ASSUME NEW m \in Message, RemoveInCreated(m) PROVE CleanInv'
  <2> DEFINE n == m.name
             I(pa) == [Completed(Master, buf[Master][n], m, pa) EXCEPT !.loc = "adrift"]
  <2>1. n \in Names /\ UNCHANGED user
    BY <1>7 DEF RemoveInCreated, Message, CreatedMsg
  <2>2. buf[Master][n] \in Buffer
    BY <1>0, <2>1, Tables
  <2>3. \A pa : I(pa).loc = "adrift" /\ ~I(pa).offline
    BY <2>2 DEF Completed, Buffer
  <2>4. \E pa : buf' = [buf EXCEPT ![Master] = [ResetBuffers EXCEPT ![n] = I(pa)]]
    BY <1>7, Zenon DEF RemoveInCreated
  <2> HIDE DEF I, n
  <2>5. PICK b : /\ buf' = [buf EXCEPT ![Master] = [ResetBuffers EXCEPT ![n] = b]]
                 /\ b.loc = "adrift" /\ ~b.offline
    BY <2>3, <2>4
  <2>6. QED
    BY <1>3, <2>1, <2>5
<1>8. ASSUME NEW m \in Message, RemoveInDummy(m) PROVE CleanInv'
  BY <1>2, <1>8 DEF RemoveInDummy
<1>9. QED
  BY <1>4, <1>5, <1>6, <1>7, <1>8

LEMMA CleanStep ==
  ASSUME TypeOK, CleanInv, [Next]_vars
  PROVE  CleanInv'
BY Steps, AllocClean, QuietClean, HandlerClean, OtherClean, RemoveClean

\* Whatever was lost, freed or restarted before, a usable buffer accepts data
\* when nothing is in progress: no earlier destruction is still noted in its
\* state, which would refuse every received transmit.  The callers register an
\* available_cb; without one the handler leaves the old state in place.
THEOREM UsableBuffersAccept == Spec /\ AvailableCb => []UsableAccepts
<1>1. Init /\ AvailableCb => CleanInv
  BY DEF Init, CleanInv, CleanCell, NoBuf, Instance
<1>2. TypeOK /\ CleanInv /\ [Next]_vars => CleanInv'
  BY CleanStep
<1>3. CleanInv => UsableAccepts
  BY CleanImplies
<1>4. QED
  BY <1>1, <1>2, <1>3, TypeCorrect, PTL DEF Spec
-----------------------------------------------------------------------------
(* The channels.                                                           *)

\* Where the messages stand after the oldest was taken, or one was sent
LEMMA TailPlaces ==
  ASSUME NEW S, NEW s \in Seq(S), s # << >>
  PROVE  /\ DOMAIN s \subseteq Nat \ {0} /\ 1 \in DOMAIN s /\ Head(s) = s[1]
         /\ \A k \in DOMAIN s : k # 1 => k - 1 \in DOMAIN Tail(s)
         /\ \A k \in DOMAIN Tail(s) :
              k \in Nat \ {0} /\ k + 1 \in DOMAIN s /\ Tail(s)[k] = s[k + 1]
<1>1. /\ DOMAIN s = 1..Len(s) /\ Len(s) \in Nat \ {0} /\ Head(s) = s[1]
      /\ DOMAIN Tail(s) = 1..(Len(s) - 1)
      /\ \A k \in 1..(Len(s) - 1) : Tail(s)[k] = s[k + 1]
  BY HeadTailProperties, LenProperties, EmptySeq
<1>2. QED
  BY <1>1

LEMMA AppendPlaces ==
  ASSUME NEW S, NEW s \in Seq(S), NEW m \in S
  PROVE  /\ DOMAIN s \subseteq Nat \ {0} /\ Len(s) + 1 \in Nat \ {0}
         /\ DOMAIN Append(s, m) = DOMAIN s \cup {Len(s) + 1}
         /\ Append(s, m)[Len(s) + 1] = m
         /\ \A k \in DOMAIN s : k < Len(s) + 1 /\ Append(s, m)[k] = s[k]
<1>1. /\ DOMAIN s = 1..Len(s) /\ Len(s) \in Nat
      /\ DOMAIN Append(s, m) = 1..(Len(s) + 1)
      /\ Append(s, m)[Len(s) + 1] = m
      /\ \A k \in 1..Len(s) : Append(s, m)[k] = s[k]
  BY AppendProperties, LenProperties
<1>2. QED
  BY <1>1

-----------------------------------------------------------------------------
(* Transmits and acknowledgements, with one name.  An acknowledgement, on  *)
(* its way or noted, was sent after something was received; what is        *)
(* counted as received was sent.  With two names an id may have a new      *)
(* owner when the acknowledgement arrives.                                 *)

OneName == \E n : Names = {n}

\* m is under way from p
Says(p, m) == \E k \in DOMAIN ch[p] : ch[p][k] = m

AckCell(p, n) ==
  LET q == Other(p) IN
  /\ rcvd[q][n] <= sent[p][n]
  /\ \A m \in Message : Says(p, m) /\ m.cmd = "TRANSMITTED" => m.seq \in 1..sent[p][n]
  /\ \A m \in Message : Says(q, m) /\ m.cmd = "ACK" => rcvd[q][n] # 0
  /\ "GETNOTIFY" \in buf[p][n].state => rcvd[q][n] # 0

AckInv == OneName /\ \A p \in Peers, n \in Names : AckCell(p, n)

LEMMA AckImplies == TypeOK /\ AckInv => FirstSyncReceived
<1> SUFFICES ASSUME TypeOK, AckInv, NEW p \in Peers, NEW n \in Names,
                    sent[p][n] = 1, buf[p][n].state = {"GETNOTIFY"}
             PROVE  rcvd[Other(p)][n] = 1
  BY DEF FirstSyncReceived
<1>1. AckCell(p, n) /\ rcvd[Other(p)][n] \in Nat
  BY ChannelTypes DEF AckInv, TypeOK
<1>2. "GETNOTIFY" \in buf[p][n].state
  OBVIOUS
<1>3. rcvd[Other(p)][n] # 0 /\ rcvd[Other(p)][n] <= 1
  BY <1>1, <1>2 DEF AckCell
<1>4. QED
  BY <1>1, <1>3

\* Nothing is received or noted, and only other commands are sent
LEMMA AckKept ==
  ASSUME TypeOK, AckInv, UNCHANGED <<sent, rcvd>>,
         \A q \in Peers, m \in Message :
           Says(q, m)' /\ m.cmd \in {"TRANSMITTED", "ACK"} => Says(q, m),
         \A q \in Peers, k \in Names :
           "GETNOTIFY" \in buf'[q][k].state => "GETNOTIFY" \in buf[q][k].state
  PROVE  AckInv'
<1> SUFFICES ASSUME NEW p \in Peers, NEW n \in Names PROVE AckCell(p, n)'
  BY DEF AckInv
<1>1. AckCell(p, n) /\ Other(p) \in Peers
  BY ChannelTypes DEF AckInv
<1>2. QED
  BY <1>1 DEF AckCell

\* The channels after one message was taken, and after one was sent
LEMMA TakenSays ==
  ASSUME TypeOK, NEW p \in Peers, ch[Other(p)] # << >>, ch' = Popped(p)
  PROVE  \A q \in Peers, m \in Message : Says(q, m)' => Says(q, m)
<1>1. /\ Other(p) \in Peers /\ ch[Other(p)] \in Seq(Message)
      /\ ch'[Other(p)] = Tail(ch[Other(p)])
      /\ \A q \in Peers : q # Other(p) => ch'[q] = ch[q]
  BY ChannelTypes DEF TypeOK, Popped
<1>2. \A k \in DOMAIN Tail(ch[Other(p)]) :
        k + 1 \in DOMAIN ch[Other(p)] /\ Tail(ch[Other(p)])[k] = ch[Other(p)][k + 1]
  BY <1>1, TailPlaces
<1>3. ASSUME NEW q \in Peers, NEW k \in DOMAIN ch'[q]
      PROVE  \E j \in DOMAIN ch[q] : ch[q][j] = ch'[q][k]
  <2>1. CASE q = Other(p)
    BY <1>1, <1>2, <2>1
  <2>2. CASE q # Other(p)
    BY <1>1, <2>2
  <2>3. QED
    BY <2>1, <2>2
<1>4. QED
  BY <1>3 DEF Says

LEMMA SentSays ==
  ASSUME TypeOK, NEW p \in Peers, NEW x \in Message, Push(p, x)
  PROVE  \A q \in Peers, m \in Message : Says(q, m)' => Says(q, m) \/ (q = p /\ m = x)
<1>1. /\ ch[p] \in Seq(Message) /\ ch'[p] = Append(ch[p], x)
      /\ \A q \in Peers : q # p => ch'[q] = ch[q]
  BY DEF TypeOK, Push
<1>2. \A k \in DOMAIN Append(ch[p], x) :
        \/ Append(ch[p], x)[k] = x
        \/ k \in DOMAIN ch[p] /\ Append(ch[p], x)[k] = ch[p][k]
  BY <1>1, AppendPlaces
<1>3. QED
  BY <1>1, <1>2 DEF Says

LEMMA StateAck ==
  ASSUME TypeOK, NEW p \in Peers, NEW n \in Names, NEW b,
         "GETNOTIFY" \in b.state => "GETNOTIFY" \in buf[p][n].state,
         buf' = [buf EXCEPT ![p][n] = b]
  PROVE  \A q \in Peers, k \in Names :
           "GETNOTIFY" \in buf'[q][k].state => "GETNOTIFY" \in buf[q][k].state
BY DEF TypeOK

LEMMA AllocAck ==
  ASSUME TypeOK, AckInv, NEW p \in Peers, NEW n \in Names, NEW len \in Lens,
         Alloc(p, n, len)
  PROVE  AckInv'
<1>0. Master \in Peers /\ Slave \in Peers
  BY DEF Peers
<1>1. UNCHANGED <<sent, rcvd, ch>>
  BY DEF Alloc, AllocFirst, AllocFirstNoMem, AllocSecondSlave, AllocSecondMaster
<1>2. \A q \in Peers, m \in Message : Says(q, m)' => Says(q, m)
  BY <1>1 DEF Says
<1>3. ASSUME NEW q \in Peers, \E b : b.state = {} /\ buf' = [buf EXCEPT ![q][n] = b]
      PROVE  AckInv'
  BY <1>1, <1>2, <1>3, StateAck, AckKept
<1>4. CASE UNCHANGED buf
  BY <1>1, <1>2, <1>4, AckKept
<1>5. CASE AllocFirst(p, n, len)
  <2>1. \E b : b.state = {} /\ buf' = [buf EXCEPT ![p][n] = b]
    BY <1>5 DEF AllocFirst, Allocated, Instance
  <2>2. QED
    BY <1>3, <2>1
<1>6. CASE AllocFirstNoMem(n, len)
  <2>1. \E b : b.state = {} /\ buf' = [buf EXCEPT ![Master][n] = b]
    BY <1>6 DEF AllocFirstNoMem, Instance
  <2>2. QED
    BY <1>0, <1>3, <2>1
<1>7. CASE AllocSecondSlave(n, len)
  <2>1. UNCHANGED buf \/ \E b : b.state = {} /\ buf' = [buf EXCEPT ![Slave][n] = b]
    BY <1>7 DEF AllocSecondSlave, Allocated, Instance
  <2>2. QED
    BY <1>0, <1>3, <1>4, <2>1
<1>8. CASE AllocSecondMaster(n, len)
  <2>1. UNCHANGED buf \/ \E b : b.state = {} /\ buf' = [buf EXCEPT ![Master][n] = b]
    BY <1>8 DEF AllocSecondMaster, Allocated, Instance
  <2>2. QED
    BY <1>0, <1>3, <1>4, <2>1
<1>9. QED
  BY <1>5, <1>6, <1>7, <1>8 DEF Alloc

\* The state of one buffer is assigned, and no acknowledgement noted
LEMMA FieldAck ==
  ASSUME TypeOK, NEW p \in Peers, NEW n \in Names, NEW s,
         "GETNOTIFY" \in s => "GETNOTIFY" \in buf[p][n].state,
         buf' = [buf EXCEPT ![p][n].state = s]
  PROVE  \A q \in Peers, k \in Names :
           "GETNOTIFY" \in buf'[q][k].state => "GETNOTIFY" \in buf[q][k].state
<1> DEFINE c == [buf[p][n] EXCEPT !.state = s]
<1>1. c.state = s
  BY Tables DEF Buffer
<1>2. buf' = [buf EXCEPT ![p][n] = c]
  BY DEF TypeOK
<1> HIDE DEF c
<1>3. QED
  BY <1>1, <1>2, StateAck

\* The transmitter counts what it sends; its other steps send no transmit
LEMMA QuietAck ==
  ASSUME TypeOK, AckInv, NEW p \in Peers, NEW n \in Names, Quiet(p, n)
  PROVE  AckInv'
<1> DEFINE b == buf[p][n]  u == user[p][n]
<1>0. /\ b \in Buffer /\ u \in User /\ sent[p][n] \in Nat
      /\ UNCHANGED rcvd
  BY Tables DEF TypeOK, Quiet, AllocNotify, FreeStart, FreeNotify, FreeInterrupted,
                FreeNotFound, TransmitStart, TransmitCheck, TransmitNotify, WaitDone,
                WaitInterrupted
<1>1. /\ Created(n, b, u.avail) \in Message /\ Destroyed(u.id, n) \in Message
      /\ Transmitted(u.id, u.sync, n, sent[p][n] + 1) \in Message
  BY <1>0 DEF Created, Destroyed, Transmitted, Message, CreatedMsg, Buffer, User
<1>2. \A q \in Peers, k \in Names :
        "GETNOTIFY" \in buf'[q][k].state => "GETNOTIFY" \in buf[q][k].state
  <2>1. \/ UNCHANGED buf
        \/ buf' = [buf EXCEPT ![p][n].state = b.state \cup {"DESTROYED"}]
        \/ buf' = [buf EXCEPT ![p][n].state = b.state \ {"GETNOTIFY"}]
    BY DEF Quiet, AllocNotify, FreeStart, FreeNotify, FreeInterrupted, FreeNotFound,
           TransmitStart, TransmitCheck, TransmitNotify, WaitDone, WaitInterrupted
  <2>2. ASSUME NEW s, "GETNOTIFY" \in s => "GETNOTIFY" \in b.state,
               buf' = [buf EXCEPT ![p][n].state = s]
        PROVE  \A q \in Peers, k \in Names :
                 "GETNOTIFY" \in buf'[q][k].state => "GETNOTIFY" \in buf[q][k].state
    BY <2>2, FieldAck
  <2>3. QED
    BY <2>1, <2>2
<1>3. ASSUME UNCHANGED <<sent, ch>> PROVE AckInv'
  <2>1. \A q \in Peers, m \in Message : Says(q, m)' => Says(q, m)
    BY <1>3 DEF Says
  <2>2. QED
    BY <1>0, <1>2, <1>3, <2>1, AckKept
<1>4. ASSUME NEW x \in Message, x.cmd \notin {"TRANSMITTED", "ACK"}, Push(p, x), UNCHANGED sent
      PROVE  AckInv'
  <2>1. \A q \in Peers, m \in Message :
          Says(q, m)' /\ m.cmd \in {"TRANSMITTED", "ACK"} => Says(q, m)
    BY <1>4, SentSays
  <2>2. QED
    BY <1>0, <1>2, <1>4, <2>1, AckKept
<1>5. CASE AllocNotify(p, n)
  <2>1. UNCHANGED <<sent, ch>> \/ (UNCHANGED sent /\ Push(p, Created(n, b, u.avail)))
    BY <1>5 DEF AllocNotify
  <2>2. Created(n, b, u.avail).cmd = "CREATED"
    BY DEF Created
  <2>3. QED
    BY <1>1, <1>3, <1>4, <2>1, <2>2
<1>6. CASE FreeNotify(p, n)
  <2>1. UNCHANGED <<sent, ch>> \/ (UNCHANGED sent /\ Push(p, Destroyed(u.id, n)))
    BY <1>6 DEF FreeNotify
  <2>2. Destroyed(u.id, n).cmd = "DESTROYED"
    BY DEF Destroyed
  <2>3. QED
    BY <1>1, <1>3, <1>4, <2>1, <2>2
<1>7. CASE TransmitNotify(p, n)
  <2> DEFINE x == Transmitted(u.id, u.sync, n, sent[p][n] + 1)
  <2>1. CASE UNCHANGED <<ch, sent>>
    BY <1>3, <2>1
  <2>2. CASE Push(p, x) /\ sent' = [sent EXCEPT ![p][n] = @ + 1]
    <3>1. x.cmd = "TRANSMITTED" /\ x.seq = sent[p][n] + 1
      BY DEF Transmitted
    <3> HIDE DEF x
    <3>2. \A q \in Peers, m \in Message : Says(q, m)' => Says(q, m) \/ (q = p /\ m = x)
      BY <1>1, <2>2, SentSays DEF x
    <3>3. \A q \in Peers, k \in Names :
            sent'[q][k] = IF q = p /\ k = n THEN sent[p][n] + 1 ELSE sent[q][k]
      BY <2>2 DEF TypeOK
    <3>4. ASSUME NEW q \in Peers, NEW k \in Names PROVE AckCell(q, k)'
      <4>1. /\ AckCell(q, k) /\ k = n /\ Other(q) \in Peers
            /\ rcvd[Other(q)][k] \in Nat /\ sent[q][k] \in Nat
        <5>1. AckCell(q, k) /\ k = n
          BY DEF AckInv, OneName
        <5>2. Other(q) \in Peers
          BY ChannelTypes
        <5>3. rcvd \in [Peers -> [Names -> Nat]] /\ sent \in [Peers -> [Names -> Nat]]
          BY DEF TypeOK
        <5>4. rcvd[Other(q)][k] \in Nat /\ sent[q][k] \in Nat
          BY <5>2, <5>3
        <5>5. QED
          BY <5>1, <5>2, <5>4
      <4>2. sent'[q][k] \in Nat /\ sent[q][k] <= sent'[q][k]
        BY <1>0, <3>3, <4>1
      <4>3. rcvd'[Other(q)][k] <= sent'[q][k]
        BY <1>0, <4>1, <4>2 DEF AckCell
      <4>4. ASSUME NEW m \in Message, Says(q, m)', m.cmd = "TRANSMITTED"
            PROVE  m.seq \in 1..sent'[q][k]
        <5>1. CASE Says(q, m)
          BY <4>1, <4>2, <4>4, <5>1 DEF AckCell
        <5>2. CASE q = p /\ m = x
          BY <1>0, <3>1, <3>3, <4>1, <5>2
        <5>3. QED
          BY <3>2, <4>4, <5>1, <5>2
      <4>5. ASSUME NEW m \in Message, Says(Other(q), m)', m.cmd = "ACK"
            PROVE  rcvd'[Other(q)][k] # 0
        BY <1>0, <3>1, <3>2, <4>1, <4>5 DEF AckCell
      <4>6. "GETNOTIFY" \in buf'[q][k].state => rcvd'[Other(q)][k] # 0
        BY <1>0, <1>2, <4>1 DEF AckCell
      <4>7. QED
        BY <4>3, <4>4, <4>5, <4>6 DEF AckCell
    <3>5. QED
      BY <3>4 DEF AckInv
  <2>3. QED
    BY <1>7, <2>1, <2>2 DEF TransmitNotify
<1>8. QED
  BY <1>3, <1>5, <1>6, <1>7
     DEF Quiet, FreeStart, FreeInterrupted, FreeNotFound, TransmitStart, TransmitCheck,
         WaitDone, WaitInterrupted

\* The receiver has what it acknowledges, and what an acknowledgement was for
LEMMA HandlerAck ==
  ASSUME TypeOK, AckInv, NEW p \in Peers, NEW m \in Message, Handle(p, m)
  PROVE  AckInv'
<1>0. /\ UNCHANGED sent /\ Other(p) \in Peers /\ Other(Other(p)) = p /\ Other(p) # p
      /\ Receive(p, m) /\ \A q \in Peers, k \in Names : buf[q][k] \in Buffer
  <2>1. UNCHANGED sent /\ Receive(p, m)
    BY DEF Handle, CreatedExisting, CreatedLocal, CreatedRefused, CreatedUnknown,
           DestroyedDummy, DestroyedBuffer, TransmittedH, AckH, Ignored
  <2>2. QED
    BY <2>1, Tables DEF Other, Peers, Master, Slave
<1>1. ch[Other(p)] # << >> /\ Says(Other(p), m)
  <2>1. ch[Other(p)] \in Seq(Message) /\ ch[Other(p)] # << >> /\ m = Head(ch[Other(p)])
    BY <1>0 DEF Receive, TypeOK
  <2>2. 1 \in DOMAIN ch[Other(p)] /\ ch[Other(p)][1] = m
    BY <2>1, TailPlaces
  <2>3. QED
    BY <2>1, <2>2 DEF Says
<1>2. \A q \in Peers, k \in Names : AckCell(q, k) /\ rcvd[q][k] \in Nat /\ sent[q][k] \in Nat
  BY DEF AckInv, TypeOK
<1>3. ASSUME ch' = Popped(p), UNCHANGED rcvd,
             \A q \in Peers, k \in Names :
               "GETNOTIFY" \in buf'[q][k].state => "GETNOTIFY" \in buf[q][k].state
      PROVE  AckInv'
  BY <1>0, <1>1, <1>3, TakenSays, AckKept
<1>4. CASE CreatedLocal(p, m)
  <2> DEFINE n == m.name
             b == buf[p][n]
  <2>1. n \in Names /\ b \in Buffer /\ ch' = Popped(p) /\ UNCHANGED rcvd
    BY <1>0, <1>4 DEF CreatedLocal, Message, CreatedMsg
  <2>2. PICK pa : LET c == Completed(p, b, m, pa) IN
          \/ buf' = [buf EXCEPT ![p][n] = Announced(b, c)]
          \/ buf' = [buf EXCEPT ![p][n] = [b EXCEPT !.pa = c.pa, !.allocated = c.allocated]]
    BY <1>4 DEF CreatedLocal
  <2> DEFINE c == Completed(p, b, m, pa)
             d == Announced(b, c)
             e == [b EXCEPT !.pa = c.pa, !.allocated = c.allocated]
  <2>3. c \in [loc: {"buffers"}, id: {c.id}, len: {c.len}, pa: {c.pa},
               allocated: {c.allocated}, state: {b.state}, offline: {FALSE}]
    BY <2>1 DEF Completed, Buffer
  <2>4. d.state \subseteq b.state
    <3> HIDE DEF c
    <3>1. QED
      BY <2>1, <2>3 DEF Announced, Buffer
  <2>5. e.state = b.state
    <3> HIDE DEF c
    <3>1. QED
      BY <2>1 DEF Buffer
  <2>6. buf' = [buf EXCEPT ![p][n] = d] \/ buf' = [buf EXCEPT ![p][n] = e]
    BY <2>2
  <2> HIDE DEF c, d, e
  <2>7. \A q \in Peers, k \in Names :
          "GETNOTIFY" \in buf'[q][k].state => "GETNOTIFY" \in buf[q][k].state
    BY <2>1, <2>4, <2>5, <2>6, StateAck
  <2>8. QED
    BY <1>3, <2>1, <2>7
<1>5. CASE DestroyedBuffer(p, m)
  <2>1. PICK n \in Names :
          buf' = [buf EXCEPT ![p][n] =
                    [buf[p][n] EXCEPT !.loc = "local_dummy",
                                      !.state = buf[p][n].state \cup {"DESTROYED"}]]
    BY <1>5 DEF DestroyedBuffer
  <2> DEFINE c == [buf[p][n] EXCEPT !.loc = "local_dummy",
                                    !.state = buf[p][n].state \cup {"DESTROYED"}]
  <2>2. c.state = buf[p][n].state \cup {"DESTROYED"}
    BY <1>0 DEF Buffer
  <2>3. buf' = [buf EXCEPT ![p][n] = c]
    BY <2>1
  <2> HIDE DEF c
  <2>4. \A q \in Peers, k \in Names :
          "GETNOTIFY" \in buf'[q][k].state => "GETNOTIFY" \in buf[q][k].state
    BY <2>2, <2>3, StateAck
  <2>5. ch' = Popped(p) /\ UNCHANGED rcvd
    BY <1>5 DEF DestroyedBuffer
  <2>6. QED
    BY <1>3, <2>4, <2>5
<1>6. CASE AckH(p, m)
  <2>1. PICK n \in Names : buf' = [buf EXCEPT ![p][n].state = buf[p][n].state \cup {"GETNOTIFY"}]
    BY <1>6 DEF AckH
  <2> DEFINE c == [buf[p][n] EXCEPT !.state = buf[p][n].state \cup {"GETNOTIFY"}]
  <2>2. buf' = [buf EXCEPT ![p][n] = c]
    BY <2>1 DEF TypeOK
  <2> HIDE DEF c
  <2>3. ch' = Popped(p) /\ UNCHANGED rcvd /\ m.cmd = "ACK"
    BY <1>6 DEF AckH
  <2>4. \A q \in Peers, x \in Message : Says(q, x)' => Says(q, x)
    BY <1>1, <2>3, TakenSays
  <2>5. \A q \in Peers, k \in Names : q # p \/ k # n => buf'[q][k] = buf[q][k]
    BY <2>2 DEF TypeOK
  <2>6. rcvd[Other(p)][n] # 0
    BY <1>0, <1>1, <1>2, <2>3 DEF AckCell
  <2>7. ASSUME NEW q \in Peers, NEW k \in Names PROVE AckCell(q, k)'
    <3>1. AckCell(q, k) /\ Other(q) \in Peers
      BY <1>2, ChannelTypes
    <3>2. "GETNOTIFY" \in buf'[q][k].state => rcvd[Other(q)][k] # 0
      BY <2>5, <2>6, <3>1 DEF AckCell
    <3>3. QED
      BY <1>0, <2>3, <2>4, <3>1, <3>2 DEF AckCell
  <2>8. QED
    BY <2>7 DEF AckInv
<1>7. CASE TransmittedH(p, m)
  <2>1. m.cmd = "TRANSMITTED" /\ UNCHANGED buf
    BY <1>7 DEF TransmittedH
  <2>2. PICK n \in Names : rcvd' = [rcvd EXCEPT ![p][n] = m.seq]
    <3>1. m.name \in Names
      BY <2>1 DEF Message, CreatedMsg
    <3>2. \A n \in Names : n = m.name
      BY <3>1 DEF AckInv, OneName
    <3>3. QED
      BY <1>7, <3>2 DEF TransmittedH
  <2>3. m.seq \in Nat \ {0} /\ m.seq <= sent[Other(p)][n]
    BY <1>0, <1>1, <1>2, <2>1 DEF AckCell
  <2>4. \A q \in Peers, x \in Message : Says(q, x)' => Says(q, x) \/ (q = p /\ x.cmd = "ACK")
    <3>1. ASSUME ch' = Popped(p)
          PROVE  \A q \in Peers, x \in Message : Says(q, x)' => Says(q, x)
      BY <1>1, <3>1, TakenSays
    <3>2. ASSUME ch' = [Popped(p) EXCEPT ![p] = Append(@, Ack(m.id))]
          PROVE  \A q \in Peers, x \in Message :
                   Says(q, x)' => Says(q, x) \/ (q = p /\ x.cmd = "ACK")
      <4>1. /\ Ack(m.id) \in Message /\ Ack(m.id).cmd = "ACK"
            /\ ch[Other(p)] \in Seq(Message) /\ ch[p] \in Seq(Message)
        BY <1>0, <2>1 DEF Ack, Message, CreatedMsg, TypeOK
      <4>2. /\ ch'[p] = Append(ch[p], Ack(m.id)) /\ ch'[Other(p)] = Tail(ch[Other(p)])
            /\ \A q \in Peers : q = p \/ q = Other(p)
        BY <1>0, <3>2 DEF Popped, TypeOK, Other, Peers
      <4>3. \A k \in DOMAIN Tail(ch[Other(p)]) :
              k + 1 \in DOMAIN ch[Other(p)] /\ Tail(ch[Other(p)])[k] = ch[Other(p)][k + 1]
        BY <1>1, <4>1, TailPlaces
      <4>4. \A k \in DOMAIN Append(ch[p], Ack(m.id)) :
              \/ Append(ch[p], Ack(m.id))[k] = Ack(m.id)
              \/ k \in DOMAIN ch[p] /\ Append(ch[p], Ack(m.id))[k] = ch[p][k]
        BY <4>1, AppendPlaces
      <4>5. ASSUME NEW q \in Peers, NEW k \in DOMAIN ch'[q]
            PROVE  \/ \E j \in DOMAIN ch[q] : ch[q][j] = ch'[q][k]
                   \/ q = p /\ ch'[q][k] = Ack(m.id)
        <5>1. CASE q = Other(p)
          BY <4>2, <4>3, <5>1
        <5>2. CASE q = p
          BY <4>2, <4>4, <5>2
        <5>3. QED
          BY <4>2, <5>1, <5>2
      <4>6. QED
        BY <4>1, <4>5 DEF Says
    <3>3. QED
      BY <1>7, <3>1, <3>2 DEF TransmittedH
  <2>5. \A q \in Peers, k \in Names : rcvd'[q][k] = IF q = p THEN m.seq ELSE rcvd[q][k]
    BY <2>2 DEF AckInv, OneName, TypeOK
  <2>6. ASSUME NEW q \in Peers, NEW k \in Names PROVE AckCell(q, k)'
    <3>1. AckCell(q, k) /\ Other(q) \in Peers /\ k = n
      BY <1>2, ChannelTypes DEF AckInv, OneName
    <3>2. q # p => q = Other(p) /\ Other(q) = p
      BY <1>0 DEF Other, Peers
    <3>3. rcvd'[Other(q)][k] # 0 \/ rcvd'[Other(q)][k] = rcvd[Other(q)][k]
      BY <2>3, <2>5, <3>1
    <3>4. rcvd'[Other(q)][k] <= sent[q][k]
      BY <1>0, <2>3, <2>5, <3>1, <3>2 DEF AckCell
    <3>5. \A x \in Message : Says(q, x)' /\ x.cmd = "TRANSMITTED" => Says(q, x)
      BY <2>4
    <3>6. \A x \in Message : Says(Other(q), x)' /\ x.cmd = "ACK" => rcvd'[Other(q)][k] # 0
      BY <1>0, <2>3, <2>4, <2>5, <3>1, <3>3 DEF AckCell
    <3>7. QED
      BY <1>0, <2>1, <3>1, <3>3, <3>4, <3>5, <3>6 DEF AckCell
  <2>7. QED
    BY <2>6 DEF AckInv
<1>8. QED
  BY <1>3, <1>4, <1>5, <1>6, <1>7
     DEF Handle, CreatedExisting, CreatedRefused, CreatedUnknown, DestroyedDummy, Ignored

LEMMA OtherAck ==
  ASSUME TypeOK, AckInv,
         \/ \E p \in Peers, n \in Names : FreeLocked(p, n)
         \/ \E p \in Peers : Reply(p) \/ CallbackEnd(p)
         \/ Crash \/ ServiceProbe \/ UNCHANGED vars
  PROVE  AckInv'
<1>0. NoBuf.state = {} /\ Master # Slave
  BY DEF NoBuf, Instance, Master, Slave
<1>1. UNCHANGED <<sent, rcvd>>
  BY DEF FreeLocked, Reply, CallbackEnd, Crash, ServiceProbe, vars
<1>2. ASSUME UNCHANGED ch,
             \A q \in Peers, k \in Names :
               "GETNOTIFY" \in buf'[q][k].state => "GETNOTIFY" \in buf[q][k].state
      PROVE  AckInv'
  <2>1. \A q \in Peers, m \in Message : Says(q, m)' => Says(q, m)
    BY <1>2 DEF Says
  <2>2. QED
    BY <1>1, <1>2, <2>1, AckKept
<1>3. ASSUME NEW p \in Peers, NEW n \in Names, FreeLocked(p, n) PROVE AckInv'
  <2>1. buf' = [buf EXCEPT ![p][n] = NoBuf] /\ UNCHANGED ch
    BY <1>3 DEF FreeLocked
  <2>2. QED
    BY <1>0, <1>2, <2>1, StateAck
<1>4. ASSUME NEW p \in Peers, Reply(p) PROVE AckInv'
  <2> DEFINE x == rx[p].msg
  <2>1. x \in CreatedMsg
    BY <1>4 DEF Reply, TypeOK, RxState, RxIdle
  <2>2. x.cmd = "CREATED" /\ x \in Message /\ x.name \in Names
    BY <2>1 DEF CreatedMsg, Message
  <2>3. \A q \in Peers, k \in Names :
          "GETNOTIFY" \in buf'[q][k].state => "GETNOTIFY" \in buf[q][k].state
    <3>1. UNCHANGED buf \/ buf' = [buf EXCEPT ![p][x.name].state = {}]
      BY <1>4 DEF Reply
    <3> DEFINE s == {}
    <3>2. "GETNOTIFY" \notin s /\ (UNCHANGED buf \/ buf' = [buf EXCEPT ![p][x.name].state = s])
      BY <3>1
    <3> HIDE DEF s
    <3>3. QED
      BY <2>2, <3>2, FieldAck
  <2>4. UNCHANGED ch \/ Push(p, x)
    BY <1>4 DEF Reply
  <2> HIDE DEF x
  <2>5. ASSUME Push(p, x) PROVE AckInv'
    <3>1. \A q \in Peers, m \in Message :
            Says(q, m)' /\ m.cmd \in {"TRANSMITTED", "ACK"} => Says(q, m)
      BY <2>2, <2>5, SentSays
    <3>2. QED
      BY <1>1, <2>3, <3>1, AckKept
  <2>6. QED
    BY <1>2, <2>3, <2>4, <2>5
<1>5. CASE Crash
  <2>1. \A k \in Names : buf'[Slave][k] = NoBuf /\ buf'[Master][k] = buf[Master][k]
    BY <1>0, <1>5 DEF Crash, TypeOK, Peers
  <2>2. UNCHANGED ch
    BY <1>5 DEF Crash
  <2>3. QED
    BY <1>0, <1>2, <2>1, <2>2 DEF Peers
<1>6. CASE ServiceProbe
  <2>1. UNCHANGED buf /\ \A q \in Peers : ch'[q] = << >>
    BY <1>6 DEF ServiceProbe
  <2>2. \A q \in Peers, m \in Message : ~Says(q, m)'
    BY <2>1 DEF Says
  <2>3. QED
    BY <1>1, <2>1, <2>2, AckKept
<1>7. CASE UNCHANGED vars \/ \E p \in Peers : CallbackEnd(p)
  BY <1>2, <1>7 DEF vars, CallbackEnd
<1>8. QED
  BY <1>3, <1>4, <1>5, <1>6, <1>7

\* A removal of the service sends nothing and notes no acknowledgement
LEMMA RemoveAck ==
  ASSUME TypeOK, AckInv,
         \/ ServiceRemove
         \/ \E n \in Names : RemoveInFree(n) \/ \E len \in Lens : RemoveInAlloc(n, len)
         \/ \E m \in Message : RemoveInCreated(m) \/ RemoveInDummy(m)
  PROVE  AckInv'
<1>0. /\ Master \in Peers /\ Slave \in Peers /\ Master # Slave /\ Other(Master) = Slave
      /\ ResetBuffers \in [Names -> Buffer] /\ NoBuf.state = {}
  BY ResetTypes DEF NoBuf, Instance, Peers, Master, Slave, Other
<1>1. UNCHANGED <<sent, rcvd>>
  BY DEF ServiceRemove, RemoveInFree, RemoveInAlloc, RemoveInCreated, RemoveInDummy
<1>2. \A q \in Peers, m \in Message : Says(q, m)' => Says(q, m)
  <2>1. UNCHANGED ch \/ (ch[Slave] # << >> /\ ch' = Popped(Master))
    BY <1>0 DEF ServiceRemove, RemoveInFree, RemoveInAlloc, RemoveInCreated, RemoveInDummy,
                Receive
  <2>2. CASE UNCHANGED ch
    BY <2>2 DEF Says
  <2>3. CASE ch[Slave] # << >> /\ ch' = Popped(Master)
    BY <1>0, <2>3, TakenSays
  <2>4. QED
    BY <2>1, <2>2, <2>3
<1>3. ASSUME NEW k \in Names PROVE ResetBuffers[k].state = buf[Master][k].state
  <2>1. buf[Master][k] \in Buffer
    BY <1>0, Tables
  <2>2. QED
    BY <2>1 DEF ResetBuffers, Buffer
<1>4. ASSUME buf' = [buf EXCEPT ![Master] = ResetBuffers] PROVE AckInv'
  <2>1. \A k \in Names : buf'[Master][k] = ResetBuffers[k] /\ buf'[Slave][k] = buf[Slave][k]
    BY <1>0, <1>4 DEF TypeOK, Peers
  <2>2. \A q \in Peers, k \in Names :
          "GETNOTIFY" \in buf'[q][k].state => "GETNOTIFY" \in buf[q][k].state
    BY <1>3, <2>1 DEF Peers
  <2>3. QED
    BY <1>1, <1>2, <2>2, AckKept
<1>5. ASSUME NEW n \in Names, NEW b,
             buf' = [buf EXCEPT ![Master] = [ResetBuffers EXCEPT ![n] = b]],
             b.state \subseteq buf[Master][n].state
      PROVE  AckInv'
  <2>1. /\ buf'[Master][n] = b
        /\ \A k \in Names : /\ k # n => buf'[Master][k] = ResetBuffers[k]
                            /\ buf'[Slave][k] = buf[Slave][k]
    BY <1>0, <1>5 DEF TypeOK, Peers
  <2>2. \A q \in Peers, k \in Names :
          "GETNOTIFY" \in buf'[q][k].state => "GETNOTIFY" \in buf[q][k].state
    BY <1>3, <1>5, <2>1 DEF Peers
  <2>3. QED
    BY <1>1, <1>2, <2>2, AckKept
<1>6. ASSUME NEW n \in Names, RemoveInFree(n) PROVE AckInv'
  <2>1. \/ buf' = [buf EXCEPT ![Master] = ResetBuffers]
        \/ buf' = [buf EXCEPT ![Master] = [ResetBuffers EXCEPT ![n] = NoBuf]]
    BY <1>6 DEF RemoveInFree
  <2>2. CASE buf' = [buf EXCEPT ![Master] = ResetBuffers]
    BY <1>4, <2>2
  <2>3. CASE buf' = [buf EXCEPT ![Master] = [ResetBuffers EXCEPT ![n] = NoBuf]]
    BY <1>0, <1>5, <2>3
  <2>4. QED
    BY <2>1, <2>2, <2>3
<1>7. ASSUME NEW n \in Names, NEW len \in Lens, RemoveInAlloc(n, len) PROVE AckInv'
  <2> DEFINE I(pa) == Instance("buffers", rdb[Master][n].id, len, pa, TRUE)
             J(pa) == [I(pa) EXCEPT !.loc = "local_dummy", !.offline = TRUE]
  <2>1. \A pa : I(pa).state = {} /\ J(pa).state = {}
    BY DEF Instance
  <2>2. \E pa : \E after \in BOOLEAN :
          buf' = [buf EXCEPT ![Master] =
                    [ResetBuffers EXCEPT ![n] = IF after THEN I(pa) ELSE J(pa)]]
    BY <1>7 DEF RemoveInAlloc
  <2> HIDE DEF I, J
  <2>3. PICK b : /\ buf' = [buf EXCEPT ![Master] = [ResetBuffers EXCEPT ![n] = b]]
                 /\ b.state = {}
    BY <2>1, <2>2
  <2>4. QED
    BY <1>5, <2>3
<1>8. ASSUME NEW m \in Message, RemoveInCreated(m) PROVE AckInv'
  <2> DEFINE n == m.name
             I(pa) == [Completed(Master, buf[Master][n], m, pa) EXCEPT !.loc = "adrift"]
  <2>1. n \in Names
    BY <1>8 DEF RemoveInCreated, Message, CreatedMsg
  <2>2. buf[Master][n] \in Buffer
    BY <1>0, <2>1, Tables
  <2>3. \A pa : I(pa).state = buf[Master][n].state
    BY <2>2 DEF Completed, Buffer
  <2>4. \E pa : buf' = [buf EXCEPT ![Master] = [ResetBuffers EXCEPT ![n] = I(pa)]]
    BY <1>8 DEF RemoveInCreated
  <2> HIDE DEF I, n
  <2>5. PICK b : /\ buf' = [buf EXCEPT ![Master] = [ResetBuffers EXCEPT ![n] = b]]
                 /\ b.state = buf[Master][n].state
    BY <2>3, <2>4
  <2>6. QED
    BY <1>5, <2>1, <2>5
<1>9. CASE ServiceRemove \/ \E m \in Message : RemoveInDummy(m)
  BY <1>4, <1>9 DEF ServiceRemove, RemoveInDummy
<1>10. QED
  BY <1>6, <1>7, <1>8, <1>9

LEMMA AckStep ==
  ASSUME TypeOK, AckInv, [Next]_vars
  PROVE  AckInv'
BY Steps, AllocAck, QuietAck, HandlerAck, OtherAck, RemoveAck

\* With one name in use the first synchronous rpbuf_transmit_buffer that is
\* acknowledged has been through rx_cb on the other core, whatever messages
\* were refused, whoever freed the buffer meanwhile and whatever restarted
THEOREM FirstSync == Spec /\ OneName => []FirstSyncReceived
<1>1. Init /\ OneName => AckInv
  <2>1. ASSUME Init, NEW p \in Peers, NEW n \in Names PROVE AckCell(p, n)
    <3>1. /\ \A q \in Peers : ch[q] = << >> /\ rcvd[q][n] = 0 /\ sent[q][n] = 0
          /\ buf[p][n].state = {} /\ Other(p) \in Peers
      BY <2>1 DEF Init, NoBuf, Instance, Other, Peers
    <3>2. \A q \in Peers, m \in Message : ~Says(q, m)
      BY <3>1 DEF Says
    <3>3. QED
      BY <3>1, <3>2 DEF AckCell
  <2>2. QED
    BY <2>1 DEF AckInv
<1>2. TypeOK /\ AckInv /\ [Next]_vars => AckInv'
  BY AckStep
<1>3. TypeOK /\ AckInv => FirstSyncReceived
  BY AckImplies
<1>4. QED
  BY <1>1, <1>2, <1>3, TypeCorrect, PTL DEF Spec
-----------------------------------------------------------------------------
(* One name and one life of both cores.  Callers never fill a channel and  *)
(* no core has restarted, so that every announcement arrives.  What is     *)
(* still under way then turns what the receiver has on record into what    *)
(* the sender has told: that its caller holds a buffer (Told) or does not. *)
(* With two names the id of a message may have a new owner when it         *)
(* arrives, and after a lost announcement the cores never agree again.     *)

OneLen == \A x, y \in Lens : x = y

\* p has announced its buffer, and not yet its end
Told(p, n) == user[p][n].pc \in {"owned", "check", "xmit", "wait", "free"}

\* Where a buffer and its caller stand when no reset has overtaken a section
Shelf(p, n) ==
  /\ buf[p][n].loc \in {"none", "local_dummy", "buffers"}
  /\ user[p][n].pc # "idle" => buf[p][n].loc # "none"
  /\ buf[p][n].loc # "none" => user[p][n].pc # "idle" \/ stuck[p]
  /\ rdb[p][n].there => buf[p][n].loc = "none"

\* p has the other core's buffer on record, at this address
Knows(p, n) == rdb[p][n].there \/ buf[p][n].loc = "buffers"
KnownPa(p, n) == IF rdb[p][n].there THEN rdb[p][n].pa ELSE buf[p][n].pa

\* The places in a channel of the messages that announce and end buffers
Births(s) == {k \in DOMAIN s : s[k].cmd = "CREATED"}
Deaths(s) == {k \in DOMAIN s : s[k].cmd = "DESTROYED"}

\* Births and deaths alternate, and the last of them says what was told.  A
\* birth under way finds the receiver without a record, or with one that a
\* death before it takes away.  (A length that does not match drops a birth.)
NewsOf(B, D, told, known) ==
  /\ \A j, k \in B : j < k => \E i \in D : j < i /\ i < k
  /\ \A k \in B : (\E i \in D : i < k) \/ ~known
  /\ told => /\ \A i \in D : \E k \in B : i < k
             /\ OneLen /\ ~known => B # {}
  /\ ~told => /\ \A k \in B : \E i \in D : k < i
              /\ known => D # {}

News(p, n) == NewsOf(Births(ch[p]), Deaths(ch[p]), Told(p, n), Knows(Other(p), n))

\* The last birth under way in s carries the address pa, and so does the record
\* when nothing under way ends it
AddressOf(s, known, recorded, pa) ==
  /\ \A k \in Births(s) : (\A i \in Deaths(s) : i < k) => s[k].pa = pa
  /\ known /\ Deaths(s) = {} => recorded = pa

Address(n) ==
  Told(Master, n) =>
    AddressOf(ch[Master], Knows(Slave, n), KnownPa(Slave, n), buf[Master][n].pa)

\* No undo, one id, lengths of calls only, and a payload for every buffer the
\* master's caller holds
Plain(p, n) ==
  LET b == buf[p][n]  d == rdb[p][n]  u == user[p][n] IN
  /\ u.pc # "undo" /\ ~b.offline
  /\ b.id = 0 /\ d.id = 0 /\ u.id = 0
  /\ b.loc # "none" => b.len \in Lens
  /\ d.there => d.len \in Lens
  /\ p = Master /\ u.pc # "idle" => b.allocated

\* A service, no reply, and the id and the lengths in all messages
Spoken(p) ==
  /\ up[p] /\ rx[p].pc = "idle"
  /\ \A m \in Message : Says(p, m) => m.id = 0 /\ (m.cmd = "CREATED" => m.len \in Lens)

PairInv ==
  /\ OneName /\ Throttled /\ odd = {}
  /\ \A p \in Peers, n \in Names : Plain(p, n) /\ News(p, n)
  /\ \A p \in Peers : Spoken(p)
  /\ \A n \in Names : Address(n)

Paired == PayInv /\ PairInv

\* A birth or a death is told, heard, or passed over for another message

LEMMA NewsBirth ==
  ASSUME NEW B \in SUBSET Nat, NEW D \in SUBSET Nat, NEW known, NEW k \in Nat,
         \A j \in B \cup D : j < k, NewsOf(B, D, FALSE, known)
  PROVE  NewsOf(B \cup {k}, D, TRUE, known)
<1>1. /\ \A i, j \in B : i < j => \E x \in D : i < x /\ x < j
      /\ \A j \in B : (\E i \in D : i < j) \/ ~known
      /\ \A j \in B : \E i \in D : j < i
      /\ known => D # {}
  BY DEF NewsOf
<1>2. \A i, j \in B \cup {k} : i < j => \E x \in D : i < x /\ x < j
  <2>1. ASSUME NEW i \in B \cup {k}, NEW j \in B \cup {k}, i < j
        PROVE  \E x \in D : i < x /\ x < j
    <3>1. i \in B
      BY <2>1
    <3>2. CASE j = k
      BY <1>1, <3>1, <3>2
    <3>3. CASE j \in B
      BY <1>1, <2>1, <3>1, <3>3
    <3>4. QED
      BY <3>2, <3>3
  <2>2. QED
    BY <2>1
<1>3. \A j \in B \cup {k} : (\E i \in D : i < j) \/ ~known
  BY <1>1
<1>4. \A i \in D : \E j \in B \cup {k} : i < j
  OBVIOUS
<1>5. QED
  BY <1>2, <1>3, <1>4 DEF NewsOf

LEMMA NewsDeath ==
  ASSUME NEW B \in SUBSET Nat, NEW D \in SUBSET Nat, NEW known, NEW k \in Nat,
         \A j \in B \cup D : j < k, NewsOf(B, D, TRUE, known)
  PROVE  NewsOf(B, D \cup {k}, FALSE, known)
BY DEF NewsOf

\* B2 and D2 are the places B and D once the first message is gone
Shifted(B, B2) == B2 \subseteq Nat \ {0} /\ \A k \in Nat \ {0} : k \in B2 <=> k + 1 \in B

LEMMA NewsLearned ==
  ASSUME NEW B \in SUBSET (Nat \ {0}), NEW D \in SUBSET (Nat \ {0}), NEW B2, NEW D2,
         NEW told, NEW known, NEW knows, Shifted(B, B2), Shifted(D, D2),
         1 \in B, 1 \notin D, OneLen => knows, NewsOf(B, D, told, known)
  PROVE  ~known /\ NewsOf(B2, D2, told, knows)
<1>1. \A k \in B : k = 1 \/ (k - 1 \in B2 /\ k - 1 \in Nat \ {0})
  BY DEF Shifted
<1>2. \A k \in D : k - 1 \in D2 /\ k - 1 \in Nat \ {0}
  BY DEF Shifted
<1>3. \A k \in B2 : k \in Nat \ {0} /\ k + 1 \in B
  BY DEF Shifted
<1>4. \A k \in D2 : k \in Nat \ {0} /\ k + 1 \in D
  BY DEF Shifted
<1>5. ~known
  BY DEF NewsOf
<1>6. \A j, k \in B2 : j < k => \E i \in D2 : j < i /\ i < k
  <2>1. ASSUME NEW j \in B2, NEW k \in B2, j < k PROVE \E i \in D2 : j < i /\ i < k
    <3>1. PICK i \in D : j + 1 < i /\ i < k + 1
      BY <1>3, <2>1 DEF NewsOf
    <3>2. i - 1 \in D2 /\ j < i - 1 /\ i - 1 < k
      BY <1>2, <1>3, <3>1
    <3>3. QED
      BY <3>2
  <2>2. QED
    BY <2>1
<1>7. \A k \in B2 : \E i \in D2 : i < k
  <2>1. ASSUME NEW k \in B2 PROVE \E i \in D2 : i < k
    <3>1. PICK i \in D : 1 < i /\ i < k + 1
      BY <1>3 DEF NewsOf
    <3>2. i - 1 \in D2 /\ i - 1 < k
      BY <1>2, <1>3, <3>1
    <3>3. QED
      BY <3>2
  <2>2. QED
    BY <2>1
<1>8. ASSUME told PROVE \A i \in D2 : \E k \in B2 : i < k
  <2>1. ASSUME NEW i \in D2 PROVE \E k \in B2 : i < k
    <3>1. PICK k \in B : i + 1 < k
      BY <1>4, <1>8 DEF NewsOf
    <3>2. k - 1 \in B2 /\ i < k - 1
      BY <1>1, <1>4, <3>1
    <3>3. QED
      BY <3>2
  <2>2. QED
    BY <2>1
<1>9. ASSUME ~told PROVE D2 # {} /\ \A k \in B2 : \E i \in D2 : k < i
  <2>1. ASSUME NEW k \in B2 \cup {0} PROVE \E i \in D2 : k < i
    <3>1. PICK i \in D : k + 1 < i
      BY <1>3, <1>9 DEF NewsOf
    <3>2. i - 1 \in D2 /\ k < i - 1
      BY <1>2, <1>3, <3>1
    <3>3. QED
      BY <3>2
  <2>2. QED
    BY <2>1
<1>10. QED
  BY <1>5, <1>6, <1>7, <1>8, <1>9 DEF NewsOf

LEMMA NewsPassed ==
  ASSUME NEW B \in SUBSET (Nat \ {0}), NEW D \in SUBSET (Nat \ {0}), NEW B2, NEW D2,
         NEW told, NEW known, NEW knows, Shifted(B, B2), Shifted(D, D2),
         1 \notin B, IF 1 \in D THEN ~knows ELSE knows = known, NewsOf(B, D, told, known)
  PROVE  NewsOf(B2, D2, told, knows)
<1>1. \A k \in B : k - 1 \in B2 /\ k - 1 \in Nat \ {0}
  BY DEF Shifted
<1>2. \A k \in D : k = 1 \/ (k - 1 \in D2 /\ k - 1 \in Nat \ {0})
  BY DEF Shifted
<1>3. \A k \in B2 : k \in Nat \ {0} /\ k + 1 \in B
  BY DEF Shifted
<1>4. \A k \in D2 : k \in Nat \ {0} /\ k + 1 \in D
  BY DEF Shifted
<1>5. \A j, k \in B2 : j < k => \E i \in D2 : j < i /\ i < k
  <2>1. ASSUME NEW j \in B2, NEW k \in B2, j < k PROVE \E i \in D2 : j < i /\ i < k
    <3>1. PICK i \in D : j + 1 < i /\ i < k + 1
      BY <1>3, <2>1 DEF NewsOf
    <3>2. i - 1 \in D2 /\ j < i - 1 /\ i - 1 < k
      BY <1>2, <1>3, <3>1
    <3>3. QED
      BY <3>2
  <2>2. QED
    BY <2>1
<1>6. \A k \in B2 : (\E i \in D2 : i < k) \/ ~knows
  <2>1. ASSUME NEW k \in B2, knows PROVE \E i \in D2 : i < k
    <3>1. 1 \notin D /\ known
      BY <2>1
    <3>2. PICK i \in D : i < k + 1
      BY <1>3, <3>1 DEF NewsOf
    <3>3. i - 1 \in D2 /\ i - 1 < k
      BY <1>2, <1>3, <3>1, <3>2
    <3>4. QED
      BY <3>3
  <2>2. QED
    BY <2>1
<1>7. ASSUME told PROVE (\A i \in D2 : \E k \in B2 : i < k) /\ (OneLen /\ ~knows => B2 # {})
  <2>1. ASSUME NEW i \in D2 PROVE \E k \in B2 : i < k
    <3>1. PICK k \in B : i + 1 < k
      BY <1>4, <1>7 DEF NewsOf
    <3>2. k - 1 \in B2 /\ i < k - 1
      BY <1>1, <1>4, <3>1
    <3>3. QED
      BY <3>2
  <2>2. OneLen /\ ~knows => B # {}
    BY <1>7 DEF NewsOf
  <2>3. QED
    BY <1>1, <2>1, <2>2
<1>8. ASSUME ~told PROVE (\A k \in B2 : \E i \in D2 : k < i) /\ (knows => D2 # {})
  <2>1. ASSUME NEW k \in B2 PROVE \E i \in D2 : k < i
    <3>1. PICK i \in D : k + 1 < i
      BY <1>3, <1>8 DEF NewsOf
    <3>2. i - 1 \in D2 /\ k < i - 1
      BY <1>2, <1>3, <3>1
    <3>3. QED
      BY <3>2
  <2>2. knows => D # {} /\ 1 \notin D
    BY <1>8 DEF NewsOf
  <2>3. QED
    BY <1>2, <2>1, <2>2
<1>9. QED
  BY <1>5, <1>6, <1>7, <1>8 DEF NewsOf

-----------------------------------------------------------------------------
(* What one message more or less does to the places, and to the address.   *)

LEMMA TellsSent ==
  ASSUME NEW s \in Seq(Message), NEW m \in Message
  PROVE  LET k == Len(s) + 1
             t == Append(s, m)
         IN  /\ Births(s) \in SUBSET Nat /\ Deaths(s) \in SUBSET Nat /\ k \in Nat
             /\ \A j \in Births(s) \cup Deaths(s) : j < k
             /\ Births(t) = IF m.cmd = "CREATED" THEN Births(s) \cup {k} ELSE Births(s)
             /\ Deaths(t) = IF m.cmd = "DESTROYED" THEN Deaths(s) \cup {k} ELSE Deaths(s)
BY AppendPlaces DEF Births, Deaths

LEMMA TellsTaken ==
  ASSUME NEW s \in Seq(Message), s # << >>
  PROVE  /\ Births(s) \in SUBSET (Nat \ {0}) /\ Deaths(s) \in SUBSET (Nat \ {0})
         /\ Shifted(Births(s), Births(Tail(s))) /\ Shifted(Deaths(s), Deaths(Tail(s)))
         /\ 1 \in Births(s) <=> Head(s).cmd = "CREATED"
         /\ 1 \in Deaths(s) <=> Head(s).cmd = "DESTROYED"
<1>1. /\ DOMAIN s \subseteq Nat \ {0} /\ 1 \in DOMAIN s /\ Head(s) = s[1]
      /\ \A k \in DOMAIN Tail(s) :
           k \in Nat \ {0} /\ k + 1 \in DOMAIN s /\ Tail(s)[k] = s[k + 1]
  BY TailPlaces
<1>2. \A k \in Nat \ {0} : k + 1 \in DOMAIN s => k \in DOMAIN Tail(s)
  BY TailPlaces
<1>3. QED
  BY <1>1, <1>2 DEF Births, Deaths, Shifted

\* A new birth carries the address, and earlier ones have deaths behind them
LEMMA AddressTold ==
  ASSUME NEW s \in Seq(Message), NEW m \in Message, m.cmd = "CREATED",
         NEW known, NEW recorded, NewsOf(Births(s), Deaths(s), FALSE, known)
  PROVE  AddressOf(Append(s, m), known, recorded, m.pa)
<1>1. /\ Births(Append(s, m)) = Births(s) \cup {Len(s) + 1}
      /\ Deaths(Append(s, m)) = Deaths(s)
      /\ Births(s) \in SUBSET Nat /\ Deaths(s) \in SUBSET Nat
  BY TellsSent
<1>2. Append(s, m)[Len(s) + 1] = m
  BY AppendPlaces
<1>3. \A k \in Births(s) : \E i \in Deaths(s) : k < i
  BY DEF NewsOf
<1>4. known => Deaths(s) # {}
  BY DEF NewsOf
<1>5. \A k \in Births(s) : ~\A i \in Deaths(s) : i < k
  BY <1>1, <1>3
<1>6. QED
  BY <1>1, <1>2, <1>4, <1>5 DEF AddressOf

LEMMA AddressKept ==
  ASSUME NEW s \in Seq(Message), NEW m \in Message, m.cmd \notin {"CREATED", "DESTROYED"},
         NEW known, NEW recorded, NEW pa, AddressOf(s, known, recorded, pa)
  PROVE  AddressOf(Append(s, m), known, recorded, pa)
<1>1. Births(Append(s, m)) = Births(s) /\ Deaths(Append(s, m)) = Deaths(s)
  BY TellsSent
<1>2. \A k \in Births(s) : Append(s, m)[k] = s[k]
  BY AppendPlaces DEF Births
<1>3. QED
  BY <1>1, <1>2 DEF AddressOf

LEMMA AddressHeard ==
  ASSUME NEW s \in Seq(Message), s # << >>,
         NEW known, NEW knows, NEW recorded, NEW records, NEW pa,
         AddressOf(s, known, recorded, pa),
         CASE Head(s).cmd = "CREATED" -> knows => records = Head(s).pa
           [] Head(s).cmd = "DESTROYED" -> ~knows
           [] OTHER -> knows = known /\ (knows => records = recorded)
  PROVE  AddressOf(Tail(s), knows, records, pa)
<1>1. /\ Births(s) \in SUBSET (Nat \ {0}) /\ Deaths(s) \in SUBSET (Nat \ {0})
      /\ Shifted(Births(s), Births(Tail(s))) /\ Shifted(Deaths(s), Deaths(Tail(s)))
      /\ 1 \in Births(s) <=> Head(s).cmd = "CREATED"
      /\ 1 \in Deaths(s) <=> Head(s).cmd = "DESTROYED"
  BY TellsTaken
<1>2. Head(s) = s[1] /\ \A k \in Births(Tail(s)) : Tail(s)[k] = s[k + 1]
  BY TailPlaces DEF Births
<1>3. \A i \in Deaths(s) : i = 1 \/ (i - 1 \in Deaths(Tail(s)) /\ i - 1 \in Nat)
  BY <1>1 DEF Shifted
<1>4. ASSUME NEW k \in Births(Tail(s)), \A i \in Deaths(Tail(s)) : i < k
      PROVE  Tail(s)[k].pa = pa
  <2>1. k \in Nat \ {0} /\ k + 1 \in Births(s)
    BY <1>1 DEF Shifted
  <2>2. \A i \in Deaths(s) : i < k + 1
    BY <1>1, <1>3, <1>4, <2>1
  <2>3. QED
    BY <1>2, <2>1, <2>2 DEF AddressOf
<1>5. ASSUME knows, Deaths(Tail(s)) = {} PROVE records = pa
  <2>1. Head(s).cmd # "DESTROYED"
    BY <1>5
  <2>2. Deaths(s) = {}
    BY <1>1, <1>3, <1>5, <2>1
  <2>3. CASE Head(s).cmd = "CREATED"
    <3>1. records = s[1].pa /\ 1 \in Births(s)
      BY <1>1, <1>2, <1>5, <2>3
    <3>2. QED
      BY <2>2, <3>1 DEF AddressOf
  <2>4. CASE Head(s).cmd # "CREATED"
    BY <1>5, <2>1, <2>2, <2>4 DEF AddressOf
  <2>5. QED
    BY <2>3, <2>4
<1>6. QED
  BY <1>4, <1>5 DEF AddressOf
-----------------------------------------------------------------------------
(* What the steps do to the one name, as far as PairInv tells.             *)

LEMMA PairFacts ==
  ASSUME Paired
  PROVE  /\ TypeOK /\ Throttled /\ \A n, k \in Names : n = k
         /\ \A p \in Peers : /\ Other(p) \in Peers /\ Other(p) # p /\ Other(Other(p)) = p
                             /\ \A q \in Peers : q = p \/ q = Other(p)
         /\ odd = {} /\ Sound
         /\ \A p \in Peers : Spoken(p) /\ CanSend(p) /\ rx[p].pc = "idle"
         /\ \A p \in Peers, n \in Names :
              /\ Plain(p, n) /\ News(p, n) /\ Shelf(p, n) /\ OwnCell(p, n)
              /\ buf[p][n] \in Buffer /\ rdb[p][n] \in RemoteDummy /\ user[p][n] \in User
              /\ \A id : buf[p][n].loc # "buffers" => SlotFree(p, id)
<1>1. TypeOK /\ Throttled /\ \A n, k \in Names : n = k
  BY DEF Paired, PairInv, PayInv, ListInv, OneName
<1>2. \A p \in Peers : /\ Other(p) \in Peers /\ Other(p) # p /\ Other(Other(p)) = p
                       /\ \A q \in Peers : q = p \/ q = Other(p)
  BY DEF Other, Peers, Master, Slave
<1>3. \A p \in Peers, n \in Names :
        /\ Plain(p, n) /\ News(p, n) /\ Shelf(p, n) /\ OwnCell(p, n)
        /\ buf[p][n] \in Buffer /\ rdb[p][n] \in RemoteDummy /\ user[p][n] \in User
  <2>1. ASSUME NEW p \in Peers, NEW n \in Names
        PROVE  /\ Plain(p, n) /\ News(p, n) /\ ListCell(p, n) /\ OwnCell(p, n) /\ odd = {}
               /\ buf[p][n] \in Buffer /\ rdb[p][n] \in RemoteDummy /\ user[p][n] \in User
    BY <1>1, Tables DEF Paired, PairInv, PayInv, ListInv, OwnInv
  <2>2. ASSUME NEW p \in Peers, NEW n \in Names PROVE Shelf(p, n)
    BY <2>1 DEF Shelf, ListCell, Listed, Buffer
  <2>3. QED
    BY <2>1, <2>2
<1>4. \A p \in Peers, n \in Names : \A id : buf[p][n].loc # "buffers" => SlotFree(p, id)
  BY <1>1 DEF SlotFree, Available
<1>5. \A p \in Peers : up[p] => CanSend(p)
  BY <1>1 DEF CanSend
<1>6. \A p \in Peers : Spoken(p) /\ CanSend(p) /\ rx[p].pc = "idle"
  BY <1>5 DEF Paired, PairInv, Spoken
<1>7. odd = {} /\ Sound
  BY SoundParts DEF Paired, PairInv
<1>8. QED
  BY <1>1, <1>2, <1>3, <1>4, <1>6, <1>7

\* Nothing of the other core changes
Apart(p) ==
  \A q \in Peers, k \in Names :
    q # p => buf'[q][k] = buf[q][k] /\ rdb'[q][k] = rdb[q][k] /\ user'[q][k] = user[q][k]

\* p's record of the other core's buffer stays as it is
Recorded(p, n) ==
  /\ Knows(p, n)' <=> Knows(p, n)
  /\ p = Slave /\ Knows(p, n) => KnownPa(p, n)' = KnownPa(p, n)

\* rpbuf_alloc_buffer: the buffer moves under its caller, who tells nothing yet
Starts(p, n) ==
  /\ UNCHANGED <<rx, ch, up, odd>> /\ Apart(p) /\ Recorded(p, n)
  /\ user[p][n].pc = "idle" /\ user'[p][n].pc \in {"idle", "notify"} /\ user'[p][n].id = 0
  /\ buf'[p][n].id = 0 /\ ~buf'[p][n].offline /\ buf'[p][n].len \in Lens
  /\ p = Master /\ user'[p][n].pc # "idle" => buf'[p][n].allocated
  /\ rdb'[p][n].id = 0 /\ (rdb'[p][n].there => rdb'[p][n].len \in Lens)

LEMMA StartsFirst ==
  ASSUME Paired, NEW p \in Peers, NEW n \in Names, NEW b, NEW u,
         user[p][n].pc = "idle", buf[p][n].loc = "none", ~rdb[p][n].there,
         UNCHANGED <<rdb, rx, ch, up, odd>>,
         buf' = [buf EXCEPT ![p][n] = b], b.loc = "local_dummy",
         b.id = 0, ~b.offline, b.len \in Lens,
         user' = [user EXCEPT ![p][n] = u], u.pc \in {"idle", "notify"}, u.id = 0,
         p = Master /\ u.pc # "idle" => b.allocated
  PROVE  Starts(p, n)
<1>1. /\ buf'[p][n] = b /\ user'[p][n] = u
      /\ \A q \in Peers, k \in Names : q # p => buf'[q][k] = buf[q][k] /\ user'[q][k] = user[q][k]
  BY PairFacts DEF TypeOK
<1>2. Plain(p, n)
  BY PairFacts
<1>3. Apart(p) /\ Recorded(p, n)
  BY <1>1 DEF Apart, Recorded, Knows
<1>4. QED
  BY <1>1, <1>2, <1>3 DEF Starts, Plain

LEMMA StartsSecond ==
  ASSUME Paired, NEW p \in Peers, NEW n \in Names, NEW b, NEW u,
         user[p][n].pc = "idle", buf[p][n].loc = "none", rdb[p][n].there,
         UNCHANGED <<rx, ch, up, odd>>,
         buf' = [buf EXCEPT ![p][n] = b], b.loc = "buffers",
         b.id = 0, ~b.offline, b.len \in Lens,
         rdb' = [rdb EXCEPT ![p][n] = NoRdb],
         user' = [user EXCEPT ![p][n] = u], u.pc = "notify", u.id = 0,
         p = Master => b.allocated, p = Slave => b.pa = rdb[p][n].pa
  PROVE  Starts(p, n)
<1>1. /\ buf'[p][n] = b /\ user'[p][n] = u /\ rdb'[p][n] = NoRdb
      /\ \A q \in Peers, k \in Names :
           q # p => buf'[q][k] = buf[q][k] /\ user'[q][k] = user[q][k] /\ rdb'[q][k] = rdb[q][k]
  BY PairFacts DEF TypeOK
<1>2. ~NoRdb.there /\ NoRdb.id = 0
  BY DEF NoRdb
<1>3. Apart(p) /\ Recorded(p, n)
  BY <1>1, <1>2 DEF Apart, Recorded, Knows, KnownPa
<1>4. QED
  BY <1>1, <1>2, <1>3 DEF Starts

LEMMA AllocStarts ==
  ASSUME Paired, NEW p \in Peers, NEW n \in Names, NEW len \in Lens, Alloc(p, n, len)
  PROVE  \E c \in Peers : Starts(c, n)
<1>0. /\ Master \in Peers /\ Slave \in Peers /\ Master # Slave
      /\ \A c \in Peers : rdb[c][n].id = 0
      /\ \A c \in Peers : \A id : buf[c][n].loc # "buffers" => SlotFree(c, id)
  BY PairFacts DEF Peers, Master, Slave, Plain
<1>3. ASSUME NEW id \in Ids, LowestFree(id), buf[Slave][n].loc = "none" PROVE id = 0
  <2>1. \A j \in Ids : j < id => \E m \in Names : buf[Slave][m].loc # "none"
    BY <1>3 DEF LowestFree
  <2>2. ~(0 < id)
    BY <1>3, <2>1, PairFacts, ConstantsAssumption
  <2>3. QED
    BY <2>2, ConstantsAssumption
<1>4. CASE AllocFirst(p, n, len)
  <2>1. /\ user[p][n].pc = "idle" /\ buf[p][n].loc = "none" /\ ~rdb[p][n].there
        /\ UNCHANGED <<rdb, rx, ch, up, odd>>
    BY <1>4 DEF AllocFirst, MayAlloc
  <2>2. PICK pa, al : /\ p = Master => al
                      /\ Allocated(p, n, Instance("local_dummy", 0, len, pa, al), FALSE)
    <3>1. CASE p = Slave
      BY <1>0, <1>3, <1>4, <2>1, <3>1 DEF AllocFirst
    <3>2. CASE p = Master
      BY <1>0, <1>4, <3>2 DEF AllocFirst
    <3>3. QED
      BY <1>4, <3>1, <3>2 DEF AllocFirst
  <2> DEFINE b == Instance("local_dummy", 0, len, pa, al)
  <2>3. b.loc = "local_dummy" /\ b.id = 0 /\ ~b.offline /\ b.len \in Lens /\ b.allocated = al
    BY DEF Instance
  <2> DEFINE u == [pc |-> "notify", avail |-> FALSE, id |-> 0, sync |-> FALSE]
  <2>4. /\ u.pc = "notify" /\ u.id = 0
        /\ buf' = [buf EXCEPT ![p][n] = b] /\ user' = [user EXCEPT ![p][n] = u]
    BY <2>2 DEF Allocated
  <2> HIDE DEF b, u
  <2>5. Starts(p, n)
    BY <2>1, <2>2, <2>3, <2>4, StartsFirst
  <2>6. QED
    BY <2>5
<1>5. CASE AllocFirstNoMem(n, len)
  <2> DEFINE b == Instance("local_dummy", 0, len, NoPa, FALSE)
             u == user[Master][n]
  <2>1. /\ u.pc = "idle" /\ buf[Master][n].loc = "none" /\ ~rdb[Master][n].there
        /\ UNCHANGED <<user, rdb, rx, ch, up, odd>>
        /\ buf' = [buf EXCEPT ![Master][n] = b]
    BY <1>5 DEF AllocFirstNoMem, MayAlloc
  <2>2. b.loc = "local_dummy" /\ b.id = 0 /\ ~b.offline /\ b.len \in Lens
    BY DEF Instance
  <2>3. user' = [user EXCEPT ![Master][n] = u] /\ u.id = 0
    BY <1>0, <2>1, PairFacts DEF TypeOK, Plain
  <2> HIDE DEF b, u
  <2>4. user[Master][n].pc = "idle"
    BY <2>1 DEF u
  <2>5. Starts(Master, n)
    BY <1>0, <2>1, <2>2, <2>3, <2>4, StartsFirst
  <2>6. QED
    BY <1>0, <2>5
<1>6. CASE AllocSecondSlave(n, len)
  <2>1. /\ user[Slave][n].pc = "idle" /\ buf[Slave][n].loc = "none" /\ rdb[Slave][n].there
        /\ UNCHANGED <<rx, ch, up>>
    BY <1>6 DEF AllocSecondSlave, MayAlloc
  <2> DEFINE b == Instance("buffers", 0, len, rdb[Slave][n].pa, FALSE)
  <2>2. /\ Allocated(Slave, n, b, TRUE) /\ rdb' = [rdb EXCEPT ![Slave][n] = NoRdb]
        /\ UNCHANGED odd
    BY <1>0, <1>3, <1>6, <2>1 DEF AllocSecondSlave
  <2>3. /\ b.loc = "buffers" /\ b.id = 0 /\ ~b.offline /\ b.len \in Lens
        /\ b.pa = rdb[Slave][n].pa
    BY DEF Instance
  <2> DEFINE u == [pc |-> "notify", avail |-> TRUE, id |-> 0, sync |-> FALSE]
  <2>4. /\ u.pc = "notify" /\ u.id = 0
        /\ buf' = [buf EXCEPT ![Slave][n] = b] /\ user' = [user EXCEPT ![Slave][n] = u]
    BY <2>2 DEF Allocated
  <2> HIDE DEF b, u
  <2>5. Starts(Slave, n)
    BY <1>0, <2>1, <2>2, <2>3, <2>4, StartsSecond
  <2>6. QED
    BY <1>0, <2>5
<1>7. CASE AllocSecondMaster(n, len)
  <2>1. /\ user[Master][n].pc = "idle" /\ buf[Master][n].loc = "none" /\ rdb[Master][n].there
        /\ UNCHANGED <<rx, ch, up>>
    BY <1>7 DEF AllocSecondMaster, MayAlloc
  <2>2. PICK pa : /\ Allocated(Master, n, Instance("buffers", 0, len, pa, TRUE), TRUE)
                  /\ rdb' = [rdb EXCEPT ![Master][n] = NoRdb]
                  /\ UNCHANGED odd
    BY <1>0, <1>7, <2>1 DEF AllocSecondMaster
  <2> DEFINE b == Instance("buffers", 0, len, pa, TRUE)
  <2>3. b.loc = "buffers" /\ b.id = 0 /\ ~b.offline /\ b.len \in Lens /\ b.allocated
    BY DEF Instance
  <2> DEFINE u == [pc |-> "notify", avail |-> TRUE, id |-> 0, sync |-> FALSE]
  <2>4. /\ u.pc = "notify" /\ u.id = 0
        /\ buf' = [buf EXCEPT ![Master][n] = b] /\ user' = [user EXCEPT ![Master][n] = u]
    BY <2>2 DEF Allocated
  <2> HIDE DEF b, u
  <2>5. Starts(Master, n)
    BY <1>0, <2>1, <2>2, <2>3, <2>4, StartsSecond
  <2>6. QED
    BY <1>0, <2>5
<1>8. QED
  BY <1>4, <1>5, <1>6, <1>7 DEF Alloc

\* The caller tells of its buffer, or of its end, or of data in it
Tells(p, n) ==
  \/ /\ user[p][n].pc = "notify" /\ user'[p][n].pc = "owned"
     /\ \E x \in CreatedMsg : /\ Push(p, x) /\ x.id = 0 /\ x.pa = buf[p][n].pa
                              /\ x.len = buf[p][n].len
  \/ /\ user[p][n].pc = "free" /\ user'[p][n].pc = "destroy"
     /\ \E x \in Message : Push(p, x) /\ x.id = 0 /\ x.cmd = "DESTROYED"
  \/ user[p][n].pc = "destroy" /\ user'[p][n].pc = "lost" /\ UNCHANGED ch
  \/ /\ Told(p, n) /\ Told(p, n)'
     /\ \/ UNCHANGED ch
        \/ \E x \in Message : Push(p, x) /\ x.id = 0 /\ x.cmd = "TRANSMITTED"

\* The steps of a caller between allocation and release
Runs(p, n) ==
  /\ UNCHANGED <<rx, rdb, up, odd>> /\ Apart(p) /\ Tells(p, n) /\ user'[p][n].id = 0
  /\ buf'[p][n].loc = buf[p][n].loc /\ buf'[p][n].id = buf[p][n].id
  /\ buf'[p][n].len = buf[p][n].len /\ buf'[p][n].pa = buf[p][n].pa
  /\ buf'[p][n].allocated = buf[p][n].allocated /\ buf'[p][n].offline = buf[p][n].offline

LEMMA QuietRuns ==
  ASSUME Paired, NEW p \in Peers, NEW n \in Names, Quiet(p, n)
  PROVE  Runs(p, n)
<1> DEFINE b == buf[p][n]  u == user[p][n]
<1>0. /\ b \in Buffer /\ u \in User /\ sent[p][n] \in Nat /\ TypeOK
      /\ CanSend(p) /\ u.id = 0 /\ b.id = 0 /\ u.pc # "undo"
      /\ UNCHANGED <<rdb, rx, up, odd>>
  <2>1. TypeOK /\ b \in Buffer /\ u \in User /\ CanSend(p) /\ Plain(p, n)
    BY PairFacts
  <2>2. sent[p][n] \in Nat
    BY <2>1 DEF TypeOK
  <2>3. u.id = 0 /\ b.id = 0 /\ u.pc # "undo"
    BY <2>1 DEF Plain
  <2>4. UNCHANGED <<rdb, rx, up, odd>>
    BY DEF Quiet, AllocNotify, FreeStart, FreeNotify, FreeInterrupted, FreeNotFound,
           TransmitStart, TransmitCheck, TransmitNotify, WaitDone, WaitInterrupted
  <2>5. QED
    BY <2>1, <2>2, <2>3, <2>4
<1>1. UNCHANGED buf \/ \E s : buf' = [buf EXCEPT ![p][n].state = s]
  BY DEF Quiet, AllocNotify, FreeStart, FreeNotify, FreeInterrupted, FreeNotFound,
         TransmitStart, TransmitCheck, TransmitNotify, WaitDone, WaitInterrupted
<1>2. /\ \A q \in Peers, k \in Names : q # p => buf'[q][k] = buf[q][k]
      /\ buf'[p][n].loc = b.loc /\ buf'[p][n].id = b.id
      /\ buf'[p][n].len = b.len /\ buf'[p][n].pa = b.pa
      /\ buf'[p][n].allocated = b.allocated /\ buf'[p][n].offline = b.offline
  <2>1. CASE UNCHANGED buf
    BY <2>1
  <2>2. ASSUME NEW s, buf' = [buf EXCEPT ![p][n].state = s]
        PROVE  /\ \A q \in Peers, k \in Names : q # p => buf'[q][k] = buf[q][k]
               /\ buf'[p][n].loc = b.loc /\ buf'[p][n].id = b.id
               /\ buf'[p][n].len = b.len /\ buf'[p][n].pa = b.pa
               /\ buf'[p][n].allocated = b.allocated /\ buf'[p][n].offline = b.offline
    <3> DEFINE c == [b EXCEPT !.state = s]
    <3>1. /\ c.loc = b.loc /\ c.id = b.id /\ c.len = b.len /\ c.pa = b.pa
          /\ c.allocated = b.allocated /\ c.offline = b.offline
      BY <1>0 DEF Buffer
    <3>2. buf' = [buf EXCEPT ![p][n] = c]
      BY <1>0, <2>2 DEF TypeOK
    <3> HIDE DEF c
    <3>3. buf'[p][n] = c /\ \A q \in Peers, k \in Names : q # p => buf'[q][k] = buf[q][k]
      BY <1>0, <3>2 DEF TypeOK
    <3>4. QED
      BY <3>1, <3>3
  <2>3. QED
    BY <1>1, <2>1, <2>2
<1>3. ASSUME NEW v, user' = [user EXCEPT ![p][n] = v], v.id = 0,
             \/ u.pc = "notify" /\ v.pc = "owned"
                /\ \E x \in CreatedMsg : Push(p, x) /\ x.id = 0 /\ x.pa = b.pa /\ x.len = b.len
             \/ u.pc = "free" /\ v.pc = "destroy"
                /\ \E x \in Message : Push(p, x) /\ x.id = 0 /\ x.cmd = "DESTROYED"
             \/ u.pc = "destroy" /\ v.pc = "lost" /\ UNCHANGED ch
             \/ /\ u.pc \in {"owned", "check", "xmit", "wait", "free"}
                /\ v.pc \in {"owned", "check", "xmit", "wait", "free"}
                /\ \/ UNCHANGED ch
                   \/ \E x \in Message : Push(p, x) /\ x.id = 0 /\ x.cmd = "TRANSMITTED"
      PROVE  Runs(p, n)
  <2>1. user'[p][n] = v /\ \A q \in Peers, k \in Names : q # p => user'[q][k] = user[q][k]
    BY <1>0, <1>3 DEF TypeOK
  <2>2. Apart(p)
    BY <1>0, <1>2, <2>1 DEF Apart
  <2>3. Tells(p, n)
    BY <1>3, <2>1 DEF Tells, Told
  <2>4. QED
    BY <1>0, <1>2, <1>3, <2>1, <2>2, <2>3 DEF Runs
<1>4. \A pc : At(pc).pc = pc /\ At(pc).id = 0
  BY DEF At
<1>5. CASE AllocNotify(p, n)
  <2> DEFINE x == Created(n, b, u.avail)
  <2>1. x \in CreatedMsg /\ x.id = 0 /\ x.pa = b.pa /\ x.len = b.len
    BY <1>0 DEF Created, CreatedMsg, Buffer, User
  <2>2. Push(p, x) /\ user' = [user EXCEPT ![p][n] = At("owned")] /\ u.pc = "notify"
    BY <1>0, <1>5 DEF AllocNotify
  <2> HIDE DEF x
  <2>3. QED
    BY <1>3, <1>4, <2>1, <2>2
<1>6. CASE FreeNotify(p, n)
  <2> DEFINE x == Destroyed(u.id, n)
  <2>1. x \in Message /\ x.id = 0 /\ x.cmd = "DESTROYED"
    BY <1>0 DEF Destroyed, Message, User
  <2>2. Push(p, x) /\ user' = [user EXCEPT ![p][n] = At("destroy")] /\ u.pc = "free"
    BY <1>0, <1>6 DEF FreeNotify
  <2> DEFINE v == At("destroy")
  <2>3. v.pc = "destroy" /\ v.id = 0 /\ user' = [user EXCEPT ![p][n] = v]
    BY <1>4, <2>2
  <2> HIDE DEF x, v
  <2>4. QED
    BY <1>3, <2>1, <2>2, <2>3
<1>7. CASE TransmitNotify(p, n)
  <2> DEFINE x == Transmitted(u.id, u.sync, n, sent[p][n] + 1)
  <2>1. x \in Message /\ x.id = 0 /\ x.cmd = "TRANSMITTED"
    BY <1>0 DEF Transmitted, Message, User
  <2>2. /\ Push(p, x) /\ u.pc = "xmit"
        /\ user' = [user EXCEPT ![p][n] = At(IF u.sync THEN "wait" ELSE "owned")]
    BY <1>0, <1>7 DEF TransmitNotify
  <2> DEFINE v == At(IF u.sync THEN "wait" ELSE "owned")
  <2>3. v.id = 0 /\ v.pc \in {"owned", "wait"}
    BY <1>4
  <2> HIDE DEF x, v
  <2>4. user' = [user EXCEPT ![p][n] = v]
    BY <2>2 DEF v
  <2>5. QED
    BY <1>3, <2>1, <2>2, <2>3, <2>4
<1>8. CASE TransmitCheck(p, n)
  <2> DEFINE v == IF n \in Available(p) THEN [u EXCEPT !.pc = "xmit"] ELSE At("owned")
  <2>1. v.id = 0 /\ v.pc \in {"owned", "xmit"}
    BY <1>0, <1>4 DEF User
  <2>2. UNCHANGED ch /\ u.pc = "check" /\ user' = [user EXCEPT ![p][n] = v]
    BY <1>8 DEF TransmitCheck
  <2> HIDE DEF v
  <2>3. QED
    BY <1>3, <2>1, <2>2
<1>9. CASE \E sync \in BOOLEAN : TransmitStart(p, n, sync)
  <2>1. \E v : /\ v.id = 0 /\ v.pc = "check" /\ UNCHANGED ch /\ u.pc = "owned"
               /\ user' = [user EXCEPT ![p][n] = v]
    BY <1>0, <1>9 DEF TransmitStart
  <2>2. QED
    BY <1>3, <2>1
<1>10. CASE WaitDone(p, n) \/ WaitInterrupted(p, n)
  <2>1. UNCHANGED ch /\ u.pc = "wait" /\ user' = [user EXCEPT ![p][n] = At("owned")]
    BY <1>10 DEF WaitDone, WaitInterrupted
  <2>2. QED
    BY <1>3, <1>4, <2>1
<1>11. CASE FreeStart(p, n)
  <2> DEFINE v == [pc |-> "free", avail |-> FALSE, id |-> b.id, sync |-> FALSE]
  <2>1. UNCHANGED ch /\ u.pc = "owned" /\ user' = [user EXCEPT ![p][n] = v]
    BY <1>11 DEF FreeStart
  <2>2. v.pc = "free" /\ v.id = 0
    BY <1>0
  <2> HIDE DEF v
  <2>3. QED
    BY <1>3, <2>1, <2>2
<1>12. CASE FreeInterrupted(p, n) \/ FreeNotFound(p, n)
  <2> DEFINE v == At("lost")
  <2>1. UNCHANGED ch /\ u.pc = "destroy" /\ user' = [user EXCEPT ![p][n] = v]
    BY <1>0, <1>12 DEF FreeInterrupted, FreeNotFound, Freeing
  <2>2. v.pc = "lost" /\ v.id = 0
    BY <1>4
  <2> HIDE DEF v
  <2>3. QED
    BY <1>3, <2>1, <2>2
<1>13. QED
  BY <1>5, <1>6, <1>7, <1>8, <1>9, <1>10, <1>11, <1>12 DEF Quiet

\* rpbuf_free_buffer lets the buffer go; what it knew becomes a dummy entry
Ends(p, n) ==
  /\ UNCHANGED <<ch, up, odd>> /\ rx'[p].pc = rx[p].pc /\ Apart(p) /\ Recorded(p, n)
  /\ \A q \in Peers : q # p => rx'[q] = rx[q]
  /\ ~Told(p, n) /\ user'[p][n] = Idle /\ buf'[p][n] = NoBuf
  /\ rdb'[p][n].id = 0 /\ (rdb'[p][n].there => rdb'[p][n].len \in Lens)

LEMMA FreeEnds ==
  ASSUME Paired, NEW p \in Peers, NEW n \in Names, FreeLocked(p, n)
  PROVE  Ends(p, n)
<1> DEFINE b == buf[p][n]
<1>0. /\ TypeOK /\ Plain(p, n) /\ Shelf(p, n) /\ rx[p].pc = "idle" /\ UNCHANGED <<ch, up, odd>>
      /\ user[p][n].pc \in {"destroy", "undo"}
  <2>1. /\ TypeOK /\ Plain(p, n) /\ Shelf(p, n) /\ rx[p].pc = "idle"
        /\ ~(b.loc = "buffers" /\ rdb[p][n].there)
    BY PairFacts DEF Shelf
  <2>2. UNCHANGED <<ch, up, odd>>
    BY <2>1 DEF FreeLocked
  <2>3. QED
    BY <2>1, <2>2 DEF FreeLocked, Freeing
<1>1. UNCHANGED rx
  BY <1>0 DEF FreeLocked, Dangling
<1>2. /\ user'[p][n] = Idle /\ buf'[p][n] = NoBuf /\ NoBuf.loc = "none"
      /\ \A q \in Peers, k \in Names : q # p => buf'[q][k] = buf[q][k] /\ user'[q][k] = user[q][k]
  BY <1>0 DEF FreeLocked, TypeOK, NoBuf, Instance
<1>3. CASE b.loc = "local_dummy"
  <2>1. UNCHANGED rdb /\ ~rdb[p][n].there
    BY <1>0, <1>3 DEF FreeLocked, Shelf
  <2>2. Apart(p) /\ Recorded(p, n)
    BY <1>2, <1>3, <2>1 DEF Apart, Recorded, Knows
  <2>3. QED
    BY <1>0, <1>1, <1>2, <2>1, <2>2 DEF Ends, Told, Plain
<1>4. CASE b.loc = "buffers"
  <2> DEFINE d == DummyOf(b)
  <2>1. d.there /\ d.id = 0 /\ d.len \in Lens /\ d.pa = b.pa
    BY <1>0, <1>4 DEF Plain, DummyOf
  <2>2. rdb' = [rdb EXCEPT ![p][n] = d] /\ ~rdb[p][n].there
    BY <1>0, <1>4 DEF FreeLocked, Shelf
  <2> HIDE DEF d
  <2>3. rdb'[p][n] = d /\ \A q \in Peers, k \in Names : q # p => rdb'[q][k] = rdb[q][k]
    BY <1>0, <2>2 DEF TypeOK
  <2>4. Apart(p) /\ Recorded(p, n)
    BY <1>2, <1>4, <2>1, <2>2, <2>3 DEF Apart, Recorded, Knows, KnownPa
  <2>5. QED
    BY <1>0, <1>1, <1>2, <2>1, <2>3, <2>4 DEF Ends, Told
<1>5. QED
  BY <1>3, <1>4 DEF FreeLocked

\* The message that p's receive context takes
LEMMA Oldest ==
  ASSUME Paired, NEW p \in Peers, NEW m \in Message, Receive(p, m)
  PROVE  LET s == ch[Other(p)] IN
         /\ s \in Seq(Message) /\ s # << >> /\ m = Head(s) /\ Says(Other(p), m)
         /\ m.id = 0 /\ (m.cmd = "CREATED" => m.len \in Lens)
<1> DEFINE s == ch[Other(p)]
<1>1. s \in Seq(Message) /\ s # << >> /\ m = Head(s)
  BY PairFacts DEF TypeOK, Receive
<1>2. 1 \in DOMAIN s /\ s[1] = m
  BY <1>1, TailPlaces
<1>3. Says(Other(p), m)
  BY <1>2 DEF Says
<1>4. m.id = 0 /\ (m.cmd = "CREATED" => m.len \in Lens)
  BY <1>3, PairFacts DEF Spoken
<1>5. QED
  BY <1>1, <1>3, <1>4

\* A birth finds no record: the branch for a buffer that is usable already, and
\* the "(unexpected)" overwriting of a dummy entry, are not taken
LEMMA Unheard ==
  ASSUME Paired, NEW p \in Peers, NEW n \in Names, NEW m \in Message,
         Receive(p, m), m.cmd = "CREATED"
  PROVE  ~Knows(p, n)
<1> DEFINE s == ch[Other(p)]
<1>1. s \in Seq(Message) /\ s # << >> /\ Head(s).cmd = "CREATED"
  BY Oldest
<1>2. 1 \in Births(s) /\ \A i \in Deaths(s) : ~(i < 1)
  BY <1>1, TellsTaken
<1>3. News(Other(p), n) /\ Other(Other(p)) = p
  BY PairFacts
<1>4. QED
  BY <1>2, <1>3 DEF News, NewsOf

\* A handler of p, at the end of which p has heard m
Hears(p, n, m) ==
  /\ UNCHANGED <<user, rx, up, odd>> /\ Apart(p) /\ Receive(p, m)
  /\ ch'[Other(p)] = Tail(ch[Other(p)])
  /\ \/ ch'[p] = ch[p]
     \/ \E x \in Message : ch'[p] = Append(ch[p], x) /\ x.id = 0 /\ x.cmd = "ACK"
  /\ buf'[p][n].id = 0 /\ ~buf'[p][n].offline
  /\ buf'[p][n].loc # "none" => buf'[p][n].len \in Lens
  /\ buf[p][n].allocated => buf'[p][n].allocated /\ buf'[p][n].pa = buf[p][n].pa
  /\ rdb'[p][n].id = 0 /\ (rdb'[p][n].there => rdb'[p][n].len \in Lens)
  /\ CASE m.cmd = "CREATED" -> /\ OneLen => Knows(p, n)'
                               /\ p = Slave /\ Knows(p, n)' => KnownPa(p, n)' = m.pa
       [] m.cmd = "DESTROYED" -> ~Knows(p, n)'
       [] OTHER -> Recorded(p, n)

LEMMA HandlerChannels ==
  ASSUME Paired, NEW p \in Peers, NEW m \in Message, Handle(p, m)
  PROVE  /\ Receive(p, m) /\ UNCHANGED <<user, up>>
         /\ ch'[Other(p)] = Tail(ch[Other(p)])
         /\ \/ ch'[p] = ch[p]
            \/ \E x \in Message : ch'[p] = Append(ch[p], x) /\ x.id = 0 /\ x.cmd = "ACK"
<1>1. Receive(p, m) /\ UNCHANGED <<user, up>>
  BY DEF Handle, CreatedExisting, CreatedLocal, CreatedRefused, CreatedUnknown,
         DestroyedDummy, DestroyedBuffer, TransmittedH, AckH, Ignored
<1>2. ch \in [Peers -> Seq(Message)] /\ Other(p) \in Peers /\ Other(p) # p /\ m.id = 0
  BY <1>1, Oldest, PairFacts DEF TypeOK
<1>3. Ack(m.id) \in Message /\ Ack(m.id).id = 0 /\ Ack(m.id).cmd = "ACK"
  BY <1>2, ConstantsAssumption DEF Ack, Message
<1>4. ch' = Popped(p) \/ ch' = [Popped(p) EXCEPT ![p] = Append(@, Ack(m.id))]
  BY DEF Handle, CreatedExisting, CreatedLocal, CreatedRefused, CreatedUnknown,
         DestroyedDummy, DestroyedBuffer, TransmittedH, AckH, Ignored
<1>5. Popped(p)[p] = ch[p] /\ Popped(p)[Other(p)] = Tail(ch[Other(p)])
      /\ DOMAIN Popped(p) = Peers
  BY <1>2 DEF Popped
<1>6. QED
  BY <1>1, <1>2, <1>3, <1>4, <1>5

\* The entry or the buffer a handler replaces
LEMMA Replaced ==
  ASSUME TypeOK, NEW p \in Peers, NEW n \in Names
  PROVE  /\ \A b : buf' = [buf EXCEPT ![p][n] = b] =>
              buf'[p][n] = b /\ \A q \in Peers, k \in Names : q # p => buf'[q][k] = buf[q][k]
         /\ \A d : rdb' = [rdb EXCEPT ![p][n] = d] =>
              rdb'[p][n] = d /\ \A q \in Peers, k \in Names : q # p => rdb'[q][k] = rdb[q][k]
BY DEF TypeOK

LEMMA CreatedHears ==
  ASSUME Paired, NEW p \in Peers, NEW n \in Names, NEW m \in Message,
         Handle(p, m), m.cmd = "CREATED"
  PROVE  Hears(p, n, m)
<1> DEFINE b == buf[p][n]
<1>0. /\ TypeOK /\ Plain(p, n) /\ Shelf(p, n) /\ OwnCell(p, n) /\ m.name = n /\ odd = {}
      /\ b \in Buffer /\ m.id = 0 /\ m.len \in Lens /\ ~Knows(p, n) /\ SlotFree(p, m.id)
      /\ ~stuck[p] /\ Receive(p, m) /\ rx[p].pc = "idle"
  <2>1. Receive(p, m)
    BY HandlerChannels
  <2>2. m.name \in Names
    BY DEF Message, CreatedMsg
  <2>3. ~Knows(p, n) /\ m.id = 0 /\ m.len \in Lens
    BY <2>1, Unheard, Oldest
  <2>4. b.loc # "buffers"
    BY <2>3 DEF Knows
  <2>5. QED
    BY <2>1, <2>2, <2>3, <2>4, PairFacts DEF Receive, Paired, PairInv
<1>1. ASSUME UNCHANGED <<rx, odd>>, Apart(p),
             buf'[p][n].id = 0, ~buf'[p][n].offline,
             buf'[p][n].loc # "none" => buf'[p][n].len \in Lens,
             b.allocated => buf'[p][n].allocated /\ buf'[p][n].pa = b.pa,
             rdb'[p][n].id = 0, rdb'[p][n].there => rdb'[p][n].len \in Lens,
             OneLen => Knows(p, n)',
             p = Slave /\ Knows(p, n)' => KnownPa(p, n)' = m.pa
      PROVE  Hears(p, n, m)
  BY <1>1, HandlerChannels DEF Hears
<1>2. CASE CreatedLocal(p, m)
  <2>1. /\ UNCHANGED <<user, rdb>> /\ b.loc = "local_dummy" /\ b.len = m.len
        /\ ~rdb[p][n].there /\ b.id = 0 /\ ~b.offline
    BY <1>0, <1>2 DEF CreatedLocal, Plain, Knows
  <2>2. PICK pa \in PayloadFor(p, b) :
          /\ buf' = [buf EXCEPT ![p][n] = Announced(b, Completed(p, b, m, pa))]
          /\ UNCHANGED <<rx, odd>>
    BY <1>0, <1>2, <2>1 DEF CreatedLocal
  <2> DEFINE c == Completed(p, b, m, pa)
             d == Announced(b, c)
  <2>3. /\ c.loc = "buffers" /\ c.id = 0 /\ ~c.offline /\ c.len = b.len
        /\ p = Slave => c.pa = m.pa /\ c.allocated = b.allocated
        /\ p # Slave => c.pa = pa /\ c.allocated
        /\ c \in [loc: {c.loc}, id: {c.id}, len: {c.len}, pa: {c.pa},
                  allocated: {c.allocated}, state: {c.state}, offline: {c.offline}]
    BY <1>0, <2>1 DEF Completed, Buffer
  <2> HIDE DEF c
  <2>4. /\ d.loc = c.loc /\ d.id = c.id /\ d.offline = c.offline /\ d.len = c.len
        /\ d.pa = c.pa /\ d.allocated = c.allocated
    BY <2>3 DEF Announced
  <2> HIDE DEF d
  <2>5. buf'[p][n] = d /\ \A q \in Peers, k \in Names : q # p => buf'[q][k] = buf[q][k]
    <3>1. buf' = [buf EXCEPT ![p][n] = d]
      BY <2>2 DEF d, c
    <3>2. QED
      BY <1>0, <3>1 DEF TypeOK
  <2>6. b.allocated => d.allocated /\ d.pa = b.pa
    BY <1>0, <2>2, <2>3, <2>4 DEF PayloadFor, OwnCell
  <2>7. Apart(p)
    BY <2>1, <2>5 DEF Apart
  <2>8. Knows(p, n)' /\ (p = Slave => KnownPa(p, n)' = m.pa)
    BY <2>1, <2>3, <2>4, <2>5 DEF Knows, KnownPa
  <2>9. rdb'[p][n].id = 0
    BY <1>0, <2>1 DEF Plain
  <2>10. QED
    BY <1>0, <1>1, <2>1, <2>2, <2>3, <2>4, <2>5, <2>6, <2>7, <2>8, <2>9
<1>3. CASE CreatedRefused(p, m)
  <2>1. UNCHANGED <<buf, rdb, user, rx, odd>> /\ b.loc = "local_dummy"
        /\ (b.len # m.len \/ PayloadFor(p, b) = {})
    BY <1>0, <1>3 DEF CreatedRefused
  <2>2. user[p][n].pc # "idle" /\ b.len \in Lens
    BY <1>0, <2>1 DEF Shelf, Plain
  <2>3. PayloadFor(p, b) # {}
    BY <1>0, <2>2 DEF PayloadFor, Plain, Peers
  <2>4. ~OneLen
    BY <1>0, <2>1, <2>2, <2>3 DEF OneLen
  <2>5. ~Knows(p, n)' /\ Apart(p)
    BY <1>0, <2>1 DEF Knows, Apart
  <2>6. QED
    BY <1>0, <1>1, <2>1, <2>4, <2>5 DEF Plain
<1>4. CASE CreatedUnknown(p, m)
  <2> DEFINE d == Announcement(m, rdb[p][n].allocated)
  <2>1. /\ UNCHANGED <<buf, user, rx>> /\ b.loc = "none" /\ rdb' = [rdb EXCEPT ![p][n] = d]
        /\ (~rdb[p][n].there /\ ~rdb[p][n].allocated => odd' = odd)
    BY <1>0, <1>4 DEF CreatedUnknown, Shelf
  <2>2. ~rdb[p][n].allocated /\ ~rdb[p][n].there
    BY <1>0 DEF Knows, OwnCell
  <2>3. d.there /\ d.id = 0 /\ d.len \in Lens /\ d.pa = m.pa
    BY <1>0 DEF Announcement
  <2> HIDE DEF d
  <2>4. rdb'[p][n] = d /\ \A q \in Peers, k \in Names : q # p => rdb'[q][k] = rdb[q][k]
    <3>1. rdb' = [rdb EXCEPT ![p][n] = d] /\ TypeOK
      BY <1>0, <2>1
    <3>2. QED
      BY <3>1 DEF TypeOK
  <2>5. Apart(p) /\ Knows(p, n)' /\ KnownPa(p, n)' = m.pa
    BY <2>1, <2>3, <2>4 DEF Apart, Knows, KnownPa
  <2>6. QED
    BY <1>0, <1>1, <2>1, <2>2, <2>3, <2>4, <2>5 DEF Plain
<1>5. CASE CreatedExisting(p, m)
  BY <1>0, <1>5 DEF CreatedExisting, Available, Knows
<1>6. QED
  BY <1>2, <1>3, <1>4, <1>5
     DEF Handle, DestroyedDummy, DestroyedBuffer, TransmittedH, AckH, Ignored

\* With one id, whatever p has on record goes
LEMMA DestroyedHears ==
  ASSUME Paired, NEW p \in Peers, NEW n \in Names, NEW m \in Message,
         Handle(p, m), m.cmd = "DESTROYED"
  PROVE  Hears(p, n, m)
<1> DEFINE b == buf[p][n]  d == rdb[p][n]
<1>0. /\ TypeOK /\ Plain(p, n) /\ Shelf(p, n) /\ b \in Buffer /\ m.id = 0
      /\ \A k \in Names : k = n
  BY HandlerChannels, Oldest, PairFacts
<1>a. m.name = n
  <2>1. m.name \in Names
    BY DEF Message, CreatedMsg
  <2>2. QED
    BY <1>0, <2>1
<1>1. ASSUME UNCHANGED <<rx, odd>>, Apart(p),
             buf'[p][n].id = 0, ~buf'[p][n].offline,
             buf'[p][n].loc # "none" => buf'[p][n].len \in Lens,
             b.allocated => buf'[p][n].allocated /\ buf'[p][n].pa = b.pa,
             rdb'[p][n].id = 0, rdb'[p][n].there => rdb'[p][n].len \in Lens,
             ~Knows(p, n)'
      PROVE  Hears(p, n, m)
  BY <1>1, HandlerChannels DEF Hears
<1>2. CASE DestroyedDummy(p, m)
  <2>1. UNCHANGED <<buf, rx, odd>> /\ d.there /\ rdb' = [rdb EXCEPT ![p][n] = NoRdb]
    BY <1>0, <1>a, <1>2 DEF DestroyedDummy, DummiesWithId
  <2>2. rdb'[p][n] = NoRdb /\ \A q \in Peers, k \in Names : q # p => rdb'[q][k] = rdb[q][k]
    BY <1>0, <2>1, Replaced
  <2>3. NoRdb.id = 0 /\ ~NoRdb.there /\ b.loc = "none"
    BY <1>0, <2>1 DEF NoRdb, Shelf
  <2>4. UNCHANGED user
    BY HandlerChannels
  <2>5. Apart(p) /\ ~Knows(p, n)'
    BY <2>1, <2>2, <2>3, <2>4 DEF Apart, Knows
  <2>6. QED
    BY <1>0, <1>1, <2>1, <2>2, <2>3, <2>5 DEF Plain
<1>3. CASE DestroyedBuffer(p, m)
  <2> DEFINE c == [b EXCEPT !.loc = "local_dummy", !.state = b.state \cup {"DESTROYED"}]
  <2>1. /\ UNCHANGED <<user, rdb, rx, odd>> /\ b.loc = "buffers"
        /\ buf' = [buf EXCEPT ![p][n] = c]
    BY <1>0, <1>a, <1>3 DEF DestroyedBuffer, IdrFinds, Available
  <2>2. /\ c.loc = "local_dummy" /\ c.id = b.id /\ c.offline = b.offline /\ c.len = b.len
        /\ c.allocated = b.allocated /\ c.pa = b.pa
    BY <1>0 DEF Buffer
  <2> HIDE DEF c
  <2>3. buf'[p][n] = c /\ \A q \in Peers, k \in Names : q # p => buf'[q][k] = buf[q][k]
    BY <1>0, <2>1, Replaced
  <2>4. Apart(p) /\ ~Knows(p, n)'
    BY <1>0, <2>1, <2>2, <2>3 DEF Apart, Knows, Shelf
  <2>5. QED
    BY <1>0, <1>1, <2>1, <2>2, <2>3, <2>4 DEF Plain
<1>4. CASE Ignored(p, m)
  <2>1. UNCHANGED <<buf, rdb, user, rx, odd>> /\ DummiesWithId(p, 0) = {} /\ SlotFree(p, 0)
    BY <1>0, <1>4 DEF Ignored
  <2>2. ~d.there /\ b.loc # "buffers"
    BY <1>0, <2>1 DEF DummiesWithId, SlotFree, Available, Plain
  <2>3. Apart(p) /\ ~Knows(p, n)'
    BY <2>1, <2>2 DEF Apart, Knows
  <2>4. QED
    BY <1>0, <1>1, <2>1, <2>3 DEF Plain
<1>5. QED
  BY <1>2, <1>3, <1>4
     DEF Handle, CreatedExisting, CreatedLocal, CreatedRefused, CreatedUnknown,
         TransmittedH, AckH

LEMMA DataHears ==
  ASSUME Paired, NEW p \in Peers, NEW n \in Names, NEW m \in Message,
         Handle(p, m), m.cmd \notin {"CREATED", "DESTROYED"}
  PROVE  Hears(p, n, m)
<1> DEFINE b == buf[p][n]  d == rdb[p][n]
<1>0. /\ TypeOK /\ Plain(p, n) /\ b \in Buffer /\ \A k \in Names : k = n
      /\ UNCHANGED <<rdb, user, rx, odd>>
  <2>1. UNCHANGED <<rdb, user, rx, odd>>
    BY DEF Handle, CreatedExisting, CreatedLocal, CreatedRefused, CreatedUnknown,
           DestroyedDummy, DestroyedBuffer, TransmittedH, AckH, Ignored
  <2>2. QED
    BY <2>1, PairFacts
<1>1. ASSUME Apart(p), Recorded(p, n),
             buf'[p][n].id = 0, ~buf'[p][n].offline,
             buf'[p][n].loc # "none" => buf'[p][n].len \in Lens,
             b.allocated => buf'[p][n].allocated /\ buf'[p][n].pa = b.pa
      PROVE  Hears(p, n, m)
  BY <1>0, <1>1, HandlerChannels DEF Hears, Plain
<1>2. CASE UNCHANGED buf
  <2>1. Apart(p) /\ Recorded(p, n)
    BY <1>0, <1>2 DEF Apart, Recorded, Knows, KnownPa
  <2>2. QED
    BY <1>0, <1>1, <1>2, <2>1 DEF Plain
<1>3. CASE AckH(p, m)
  <2> DEFINE c == [b EXCEPT !.state = b.state \cup {"GETNOTIFY"}]
  <2>1. buf' = [buf EXCEPT ![p][n].state = b.state \cup {"GETNOTIFY"}]
    BY <1>0, <1>3 DEF AckH
  <2>2. buf' = [buf EXCEPT ![p][n] = c]
    BY <1>0, <2>1 DEF TypeOK
  <2>3. /\ c.loc = b.loc /\ c.id = b.id /\ c.offline = b.offline /\ c.len = b.len
        /\ c.allocated = b.allocated /\ c.pa = b.pa
    BY <1>0 DEF Buffer
  <2> HIDE DEF c
  <2>4. buf'[p][n] = c /\ \A q \in Peers, k \in Names : q # p => buf'[q][k] = buf[q][k]
    BY <1>0, <2>2, Replaced
  <2>5. Apart(p) /\ Recorded(p, n)
    BY <1>0, <2>3, <2>4 DEF Apart, Recorded, Knows, KnownPa
  <2>6. QED
    BY <1>0, <1>1, <2>3, <2>4, <2>5 DEF Plain
<1>4. QED
  BY <1>2, <1>3
     DEF Handle, CreatedExisting, CreatedLocal, CreatedRefused, CreatedUnknown,
         DestroyedDummy, DestroyedBuffer, TransmittedH, AckH, Ignored

-----------------------------------------------------------------------------
(* The steps keep what the cores know of each other.                       *)

LEMMA Truths ==
  ASSUME Paired
  PROVE  \A p \in Peers, n \in Names : /\ Told(p, n) \in BOOLEAN /\ Knows(p, n) \in BOOLEAN
BY DEF Told, Knows

\* With one name, a step has to answer for it on each core
LEMMA PairParts ==
  ASSUME Paired, NEW n \in Names, odd' = odd,
         \A q \in Peers : Plain(q, n)' /\ News(q, n)' /\ Spoken(q)', Address(n)'
  PROVE  PairInv'
<1>1. \A k \in Names : k = n
  BY PairFacts
<1>2. \A q \in Peers, k \in Names : Plain(q, k)' /\ News(q, k)'
  BY <1>1
<1>3. \A k \in Names : Address(k)'
  BY <1>1
<1>4. OneName /\ Throttled /\ odd' = {}
  BY DEF Paired, PairInv
<1>5. QED
  BY <1>2, <1>3, <1>4 DEF PairInv

\* The channels, and what was told and is known, stay as they are
LEMMA NewsSame ==
  ASSUME NEW q \in Peers, NEW n \in Names, News(q, n), ch'[q] = ch[q],
         Told(q, n)' = Told(q, n), Knows(Other(q), n)' = Knows(Other(q), n)
  PROVE  News(q, n)'
BY DEF News

LEMMA SpokenSame ==
  ASSUME NEW q \in Peers, Spoken(q), ch'[q] = ch[q], up'[q] = up[q], rx'[q].pc = rx[q].pc
  PROVE  Spoken(q)'
BY DEF Spoken, Says

LEMMA PairStarts ==
  ASSUME Paired, NEW p \in Peers, NEW n \in Names, Starts(p, n)
  PROVE  PairInv'
<1>0. /\ \A q \in Peers : Plain(q, n) /\ News(q, n) /\ Spoken(q) /\ Other(q) \in Peers
      /\ UNCHANGED <<rx, ch, up, odd>> /\ Apart(p) /\ Recorded(p, n)
      /\ Master \in Peers /\ Slave \in Peers /\ Master # Slave /\ Address(n)
  BY PairFacts DEF Starts, Peers, Master, Slave, Paired, PairInv
<1>1. \A q \in Peers : Told(q, n)' = Told(q, n) /\ Knows(q, n)' = Knows(q, n)
  <2>1. ASSUME NEW q \in Peers, q # p
        PROVE  Told(q, n)' = Told(q, n) /\ Knows(q, n)' = Knows(q, n)
    BY <1>0, <2>1 DEF Apart, Told, Knows
  <2>2. ~Told(p, n) /\ ~Told(p, n)'
    BY DEF Starts, Told
  <2>3. Told(p, n)' = Told(p, n) /\ Knows(p, n)' = Knows(p, n)
    <3>1. Told(p, n)' = Told(p, n)
      BY <2>2 DEF Told
    <3>2. Knows(p, n)' \in BOOLEAN
      BY <1>0 DEF Recorded, Knows, Starts
    <3>3. QED
      BY <1>0, <3>1, <3>2, Truths DEF Recorded
  <2>4. QED
    BY <2>1, <2>3
<1>2. \A q \in Peers : Plain(q, n)'
  <2>1. ASSUME NEW q \in Peers, q # p PROVE Plain(q, n)'
    BY <1>0, <2>1 DEF Apart, Plain
  <2>2. Plain(p, n)'
    BY DEF Starts, Plain
  <2>3. QED
    BY <2>1, <2>2
<1>3. \A q \in Peers : News(q, n)' /\ Spoken(q)'
  BY <1>0, <1>1, NewsSame, SpokenSame
<1>4. Address(n)'
  <2>1. ASSUME Told(Master, n)
        PROVE  AddressOf(ch[Master], Knows(Slave, n), KnownPa(Slave, n)', buf'[Master][n].pa)
    <3>1. p = Slave
      BY <2>1 DEF Starts, Told, Peers
    <3>2. buf'[Master][n] = buf[Master][n]
      BY <1>0, <3>1 DEF Apart
    <3>3. Knows(Slave, n) => KnownPa(Slave, n)' = KnownPa(Slave, n)
      BY <1>0, <3>1 DEF Recorded
    <3>4. AddressOf(ch[Master], Knows(Slave, n), KnownPa(Slave, n), buf[Master][n].pa)
      BY <1>0, <2>1 DEF Address
    <3>5. QED
      BY <3>2, <3>3, <3>4 DEF AddressOf
  <2>2. QED
    BY <1>0, <1>1, <2>1 DEF Address
<1>5. QED
  BY <1>0, <1>2, <1>3, <1>4, PairParts

LEMMA PairEnds ==
  ASSUME Paired, NEW p \in Peers, NEW n \in Names, Ends(p, n)
  PROVE  PairInv'
<1>0. /\ \A q \in Peers : Plain(q, n) /\ News(q, n) /\ Spoken(q) /\ Other(q) \in Peers
      /\ UNCHANGED <<ch, up, odd>> /\ Apart(p) /\ Recorded(p, n)
      /\ \A q \in Peers : rx'[q].pc = rx[q].pc
      /\ Master \in Peers /\ Slave \in Peers /\ Master # Slave /\ Address(n)
  BY PairFacts DEF Ends, Peers, Master, Slave, Paired, PairInv
<1>1. Idle.pc = "idle" /\ Idle.id = 0 /\ NoBuf.loc = "none" /\ NoBuf.id = 0 /\ ~NoBuf.offline
  BY DEF Idle, At, NoBuf, Instance
<1>2. \A q \in Peers : Told(q, n)' = Told(q, n) /\ Knows(q, n)' = Knows(q, n)
  <2>1. ASSUME NEW q \in Peers, q # p
        PROVE  Told(q, n)' = Told(q, n) /\ Knows(q, n)' = Knows(q, n)
    BY <1>0, <2>1 DEF Apart, Told, Knows
  <2>2. ~Told(p, n) /\ ~Told(p, n)'
    BY <1>1 DEF Ends, Told
  <2>3. Told(p, n)' = Told(p, n) /\ Knows(p, n)' = Knows(p, n)
    <3>1. Told(p, n)' = Told(p, n)
      BY <2>2 DEF Told
    <3>2. Knows(p, n)' \in BOOLEAN
      BY <1>0 DEF Recorded, Knows
    <3>3. QED
      BY <1>0, <3>1, <3>2, Truths DEF Recorded
  <2>4. QED
    BY <2>1, <2>3
<1>3. \A q \in Peers : Plain(q, n)'
  <2>1. ASSUME NEW q \in Peers, q # p PROVE Plain(q, n)'
    BY <1>0, <2>1 DEF Apart, Plain
  <2>2. Plain(p, n)'
    BY <1>1 DEF Ends, Plain
  <2>3. QED
    BY <2>1, <2>2
<1>4. \A q \in Peers : News(q, n)' /\ Spoken(q)'
  BY <1>0, <1>2, NewsSame, SpokenSame
<1>5. Address(n)'
  <2>1. ASSUME Told(Master, n)
        PROVE  AddressOf(ch[Master], Knows(Slave, n), KnownPa(Slave, n)', buf'[Master][n].pa)
    <3>1. p = Slave
      BY <2>1 DEF Ends, Peers
    <3>2. buf'[Master][n] = buf[Master][n]
      BY <1>0, <3>1 DEF Apart
    <3>3. Knows(Slave, n) => KnownPa(Slave, n)' = KnownPa(Slave, n)
      BY <1>0, <3>1 DEF Recorded
    <3>4. AddressOf(ch[Master], Knows(Slave, n), KnownPa(Slave, n), buf[Master][n].pa)
      BY <1>0, <2>1 DEF Address
    <3>5. QED
      BY <3>2, <3>3, <3>4 DEF AddressOf
  <2>2. QED
    BY <1>0, <1>2, <2>1 DEF Address
<1>6. QED
  BY <1>0, <1>3, <1>4, <1>5, PairParts

\* One more message keeps what is said of all of them
LEMMA SpokenSent ==
  ASSUME Paired, NEW p \in Peers, NEW x \in Message, ch'[p] = Append(ch[p], x),
         up' = up, rx' = rx,
         x.id = 0, x.cmd = "CREATED" => x.len \in Lens
  PROVE  Spoken(p)'
<1>1. ch[p] \in Seq(Message) /\ Spoken(p)
  BY PairFacts DEF TypeOK
<1>2. \A k \in DOMAIN Append(ch[p], x) :
        Append(ch[p], x)[k] = x \/ (k \in DOMAIN ch[p] /\ Append(ch[p], x)[k] = ch[p][k])
  BY <1>1, AppendPlaces
<1>3. ASSUME NEW m \in Message, Says(p, m)' PROVE m = x \/ Says(p, m)
  BY <1>2, <1>3 DEF Says
<1>4. QED
  BY <1>1, <1>3 DEF Spoken

LEMMA PairRuns ==
  ASSUME Paired, NEW p \in Peers, NEW n \in Names, Runs(p, n)
  PROVE  PairInv'
<1>0. /\ \A q \in Peers : Plain(q, n) /\ News(q, n) /\ Spoken(q) /\ Other(q) \in Peers
      /\ UNCHANGED <<rx, rdb, up, odd>> /\ Apart(p) /\ Tells(p, n)
      /\ Master \in Peers /\ Slave \in Peers /\ Master # Slave /\ Address(n)
      /\ \A q \in Peers : ch[q] \in Seq(Message)
  BY PairFacts DEF Runs, Peers, Master, Slave, Paired, PairInv, TypeOK
<1>1. \A q \in Peers : Knows(q, n)' = Knows(q, n) /\ KnownPa(q, n)' = KnownPa(q, n)
                       /\ buf'[q][n].pa = buf[q][n].pa
  BY <1>0 DEF Runs, Apart, Knows, KnownPa
<1>2. \A q \in Peers : q # p => Told(q, n)' = Told(q, n)
  BY <1>0 DEF Apart, Told
<1>3. \A q \in Peers : Plain(q, n)'
  <2>1. ASSUME NEW q \in Peers, q # p PROVE Plain(q, n)'
    BY <1>0, <2>1 DEF Apart, Plain
  <2>2. user'[p][n].pc \notin {"idle", "undo"} /\ user[p][n].pc # "idle"
    BY <1>0 DEF Tells, Told
  <2>3. Plain(p, n)'
    BY <1>0, <2>2 DEF Runs, Plain
  <2>4. QED
    BY <2>1, <2>3
<1>4. ASSUME UNCHANGED ch, Told(p, n)' = Told(p, n) PROVE PairInv'
  <2>1. \A q \in Peers : News(q, n)' /\ Spoken(q)'
    BY <1>0, <1>1, <1>2, <1>4, NewsSame, SpokenSame
  <2>2. Address(n)'
    BY <1>0, <1>1, <1>2, <1>4 DEF Address
  <2>3. QED
    BY <1>0, <1>3, <2>1, <2>2, PairParts
<1>5. ASSUME NEW x \in Message, Push(p, x), x.id = 0, x.cmd = "CREATED" => x.len \in Lens,
             News(p, n)', p = Master => Address(n)'
      PROVE  PairInv'
  <2>1. ch'[p] = Append(ch[p], x) /\ \A q \in Peers : q # p => ch'[q] = ch[q]
    BY <1>5, PairFacts DEF Push, TypeOK
  <2>2. Spoken(p)'
    BY <1>0, <1>5, <2>1, SpokenSent
  <2>3. \A q \in Peers : News(q, n)' /\ Spoken(q)'
    <3>1. ASSUME NEW q \in Peers, q # p PROVE News(q, n)' /\ Spoken(q)'
      BY <1>0, <1>1, <1>2, <2>1, <3>1, NewsSame, SpokenSame
    <3>2. QED
      BY <1>5, <2>2, <3>1
  <2>4. Address(n)'
    BY <1>0, <1>1, <1>2, <1>5, <2>1 DEF Address
  <2>5. QED
    BY <1>0, <1>3, <2>3, <2>4, PairParts
<1> DEFINE B == Births(ch[p])  D == Deaths(ch[p])  known == Knows(Other(p), n)
           k == Len(ch[p]) + 1  NoMessage == Ack(0)
<1>6. /\ \A x \in Message : Push(p, x) => ch'[p] = Append(ch[p], x)
      /\ NewsOf(B, D, Told(p, n), known) /\ known' = known
      /\ B \in SUBSET Nat /\ D \in SUBSET Nat /\ k \in Nat /\ \A j \in B \cup D : j < k
      /\ \A x \in Message :
           /\ Births(Append(ch[p], x)) = IF x.cmd = "CREATED" THEN B \cup {k} ELSE B
           /\ Deaths(Append(ch[p], x)) = IF x.cmd = "DESTROYED" THEN D \cup {k} ELSE D
  <2>1. \A x \in Message : Push(p, x) => ch'[p] = Append(ch[p], x)
    BY PairFacts DEF Push, TypeOK
  <2>2. NewsOf(B, D, Told(p, n), known)
    BY <1>0 DEF News
  <2>3. known' = known
    BY <1>0, <1>1
  <2>4. ch[p] \in Seq(Message)
    BY <1>0
  <2>5. NoMessage \in Message
    BY ConstantsAssumption DEF Ack, Message
  <2>6. B \in SUBSET Nat /\ D \in SUBSET Nat /\ k \in Nat /\ \A j \in B \cup D : j < k
    BY <2>4, <2>5, TellsSent
  <2>7. \A x \in Message :
           /\ Births(Append(ch[p], x)) = IF x.cmd = "CREATED" THEN B \cup {k} ELSE B
           /\ Deaths(Append(ch[p], x)) = IF x.cmd = "DESTROYED" THEN D \cup {k} ELSE D
    BY <2>4, TellsSent
  <2>8. QED
    BY <2>1, <2>2, <2>3, <2>6, <2>7
<1>7. CASE /\ user[p][n].pc = "notify" /\ user'[p][n].pc = "owned"
           /\ \E x \in CreatedMsg : /\ Push(p, x) /\ x.id = 0 /\ x.pa = buf[p][n].pa
                                    /\ x.len = buf[p][n].len
  <2>1. PICK x \in CreatedMsg : /\ Push(p, x) /\ x.id = 0 /\ x.pa = buf[p][n].pa
                                /\ x.len = buf[p][n].len
    BY <1>7
  <2>2. x \in Message /\ x.cmd = "CREATED"
    BY DEF CreatedMsg, Message
  <2>3. x.len \in Lens
    <3>1. Shelf(p, n) /\ Plain(p, n)
      BY PairFacts
    <3>2. QED
      BY <1>7, <2>1, <3>1 DEF Shelf, Plain
  <2>4. Told(p, n) = FALSE /\ Told(p, n)' = TRUE
    BY <1>7 DEF Told
  <2> HIDE DEF B, D, known, k
  <2>5. NewsOf(B \cup {k}, D, TRUE, known)
    BY <1>6, <2>4, NewsBirth
  <2>6. News(p, n)'
    BY <1>6, <2>1, <2>2, <2>4, <2>5 DEF News, known
  <2>7. p = Master => Address(n)'
    <3>1. SUFFICES ASSUME p = Master PROVE Address(n)'
      OBVIOUS
    <3>2. Other(p) = Slave
      BY <3>1 DEF Other
    <3>3. AddressOf(Append(ch[p], x), Knows(Slave, n), KnownPa(Slave, n), x.pa)
      BY <1>0, <1>6, <2>2, <2>4, <3>2, AddressTold DEF B, D, known
    <3>4. QED
      BY <1>0, <1>1, <1>6, <2>1, <2>2, <3>1, <3>3 DEF Address
  <2>8. QED
    BY <1>5, <2>1, <2>2, <2>3, <2>6, <2>7
<1>8. CASE /\ user[p][n].pc = "free" /\ user'[p][n].pc = "destroy"
           /\ \E x \in Message : Push(p, x) /\ x.id = 0 /\ x.cmd = "DESTROYED"
  <2>1. PICK x \in Message : Push(p, x) /\ x.id = 0 /\ x.cmd = "DESTROYED"
    BY <1>8
  <2>2. Told(p, n) = TRUE /\ Told(p, n)' = FALSE
    BY <1>8 DEF Told
  <2> HIDE DEF B, D, known, k
  <2>3. NewsOf(B, D \cup {k}, FALSE, known)
    BY <1>6, <2>2, NewsDeath
  <2>4. News(p, n)'
    BY <1>6, <2>1, <2>2, <2>3 DEF News, known
  <2>5. p = Master => Address(n)'
    BY <2>2 DEF Address
  <2>6. QED
    BY <1>5, <2>1, <2>4, <2>5
<1>9. CASE /\ Told(p, n) /\ Told(p, n)'
           /\ \/ UNCHANGED ch
              \/ \E x \in Message : Push(p, x) /\ x.id = 0 /\ x.cmd = "TRANSMITTED"
  <2>1. Told(p, n)' = Told(p, n)
    BY <1>9 DEF Told
  <2>2. ASSUME NEW x \in Message, Push(p, x), x.id = 0, x.cmd = "TRANSMITTED"
        PROVE  PairInv'
    <3> HIDE DEF B, D, known, k
    <3>1. News(p, n)'
      BY <1>6, <2>1, <2>2 DEF News, known
    <3>2. p = Master => Address(n)'
      <4>1. SUFFICES ASSUME p = Master PROVE Address(n)'
        OBVIOUS
      <4>2. AddressOf(ch[p], Knows(Slave, n), KnownPa(Slave, n), buf[p][n].pa)
        BY <1>0, <1>9, <4>1 DEF Address
      <4>3. AddressOf(Append(ch[p], x), Knows(Slave, n), KnownPa(Slave, n), buf[p][n].pa)
        BY <1>0, <2>2, <4>2, AddressKept
      <4>4. QED
        BY <1>0, <1>1, <1>6, <2>2, <4>1, <4>3 DEF Address
    <3>3. QED
      BY <1>5, <2>2, <3>1, <3>2
  <2>3. QED
    BY <1>4, <1>9, <2>1, <2>2
<1>10. CASE user[p][n].pc = "destroy" /\ user'[p][n].pc = "lost" /\ UNCHANGED ch
  <2>1. Told(p, n)' = Told(p, n)
    BY <1>10 DEF Told
  <2>2. QED
    BY <1>4, <1>10, <2>1
<1>11. QED
  BY <1>0, <1>7, <1>8, <1>9, <1>10 DEF Tells

LEMMA PairHears ==
  ASSUME Paired, NEW p \in Peers, NEW n \in Names, NEW m \in Message, Hears(p, n, m)
  PROVE  PairInv'
<1> DEFINE r == Other(p)  s == ch[r]
<1>0. /\ \A q \in Peers : Plain(q, n) /\ News(q, n) /\ Spoken(q) /\ Other(q) \in Peers
                          /\ (q = p \/ q = r)
      /\ UNCHANGED <<user, rx, up, odd>> /\ Apart(p)
      /\ r \in Peers /\ r # p /\ Other(r) = p
      /\ Master \in Peers /\ Slave \in Peers /\ Master # Slave /\ Address(n)
      /\ \A q \in Peers : ch[q] \in Seq(Message)
  BY PairFacts DEF Hears, Peers, Master, Slave, Paired, PairInv, TypeOK
<1>1. s # << >> /\ m = Head(s) /\ ch'[r] = Tail(s)
  BY Oldest DEF Hears
<1>2. \A q \in Peers : Told(q, n)' = Told(q, n)
  BY <1>0 DEF Told
<1>3. Knows(r, n)' = Knows(r, n) /\ KnownPa(r, n)' = KnownPa(r, n) /\ buf'[r][n] = buf[r][n]
  BY <1>0 DEF Apart, Knows, KnownPa
<1>4. Knows(p, n) \in BOOLEAN /\ Knows(p, n)' \in BOOLEAN
  <2>1. CASE m.cmd \in {"CREATED", "DESTROYED"}
    BY Truths DEF Knows
  <2>2. CASE m.cmd \notin {"CREATED", "DESTROYED"}
    BY <2>2, Truths DEF Hears, Recorded, Knows
  <2>3. QED
    BY <2>1, <2>2
<1>5. \A q \in Peers : Plain(q, n)'
  <2>1. Plain(r, n)'
    BY <1>0 DEF Apart, Plain
  <2>2. Plain(p, n)'
    BY <1>0 DEF Hears, Plain
  <2>3. QED
    BY <1>0, <2>1, <2>2
<1>6. Spoken(r)'
  <2>1. \A k \in DOMAIN Tail(s) : k + 1 \in DOMAIN s /\ Tail(s)[k] = s[k + 1]
    BY <1>0, <1>1, TailPlaces
  <2>2. ASSUME NEW x \in Message, Says(r, x)' PROVE Says(r, x)
    BY <1>1, <2>1, <2>2 DEF Says
  <2>3. Spoken(r)
    BY <1>0
  <2>4. QED
    BY <1>0, <2>2, <2>3 DEF Spoken
<1>7. News(r, n)'
  <2> DEFINE B == Births(s)  D == Deaths(s)  B2 == Births(Tail(s))  D2 == Deaths(Tail(s))
             known == Knows(p, n)
  <2>1. /\ B \in SUBSET (Nat \ {0}) /\ D \in SUBSET (Nat \ {0})
        /\ Shifted(B, B2) /\ Shifted(D, D2)
        /\ 1 \in B <=> m.cmd = "CREATED"
        /\ 1 \in D <=> m.cmd = "DESTROYED"
    BY <1>0, <1>1, TellsTaken
  <2>2. NewsOf(B, D, Told(r, n), known)
    BY <1>0 DEF News
  <2> HIDE DEF B, D, B2, D2, known
  <2>3. ASSUME NEW knows, knows = Knows(p, n)' PROVE NewsOf(B2, D2, Told(r, n), knows)
    <3>1. CASE m.cmd = "CREATED"
      <4>1. OneLen => knows
        BY <2>3, <3>1 DEF Hears
      <4>2. QED
        BY <2>1, <2>2, <3>1, <4>1, NewsLearned
    <3>2. CASE m.cmd # "CREATED"
      <4>1. IF 1 \in D THEN ~knows ELSE knows = known
        BY <1>4, <2>1, <2>3, <3>2 DEF Hears, Recorded, known
      <4>2. QED
        BY <2>1, <2>2, <3>2, <4>1, NewsPassed
    <3>3. QED
      BY <3>1, <3>2
  <2>4. QED
    BY <1>0, <1>1, <1>2, <2>3 DEF News, B2, D2
\* What the master told is the slave's to hear, and nothing else moves it
<1>8. ASSUME p = Slave PROVE Address(n)'
  <2>1. SUFFICES ASSUME Told(Master, n) PROVE Address(n)'
    BY <1>0, <1>2 DEF Address
  <2>2. r = Master
    BY <1>8 DEF Other, Master, Slave
  <2>3. AddressOf(s, Knows(p, n), KnownPa(p, n), buf[Master][n].pa)
    BY <1>8, <2>1, <2>2, <1>0 DEF Address
  <2>4. ASSUME NEW knows, knows = Knows(p, n)', NEW records, records = KnownPa(p, n)'
        PROVE  AddressOf(Tail(s), knows, records, buf[Master][n].pa)
    <3>1. CASE Head(s).cmd = "CREATED"
      <4>1. knows => records = Head(s).pa
        BY <1>1, <1>8, <2>4, <3>1 DEF Hears
      <4>2. QED
        BY <1>0, <1>1, <2>3, <3>1, <4>1, AddressHeard
    <3>2. CASE Head(s).cmd = "DESTROYED"
      <4>1. ~knows
        BY <1>1, <2>4, <3>2 DEF Hears
      <4>2. QED
        BY <1>0, <1>1, <2>3, <3>2, <4>1, AddressHeard
    <3>3. CASE Head(s).cmd \notin {"CREATED", "DESTROYED"}
      <4>1. Recorded(p, n)
        BY <1>1, <3>3 DEF Hears
      <4>2. knows = Knows(p, n)
        BY <1>4, <2>4, <4>1 DEF Recorded
      <4>3. knows => records = KnownPa(p, n)
        BY <1>8, <2>4, <4>1, <4>2 DEF Recorded
      <4>4. QED
        BY <1>0, <1>1, <2>3, <3>3, <4>2, <4>3, AddressHeard
    <3>4. QED
      BY <3>1, <3>2, <3>3
  <2>5. ch'[Master] = Tail(s) /\ buf'[Master][n].pa = buf[Master][n].pa
    BY <1>1, <1>3, <2>2
  <2>6. AddressOf(ch'[Master], Knows(p, n)', KnownPa(p, n)', buf'[Master][n].pa)
    BY <2>4, <2>5
  <2>7. QED
    BY <1>8, <2>6 DEF Address
<1>9. ASSUME p = Master, AddressOf(ch'[Master], Knows(Slave, n), KnownPa(Slave, n), buf[Master][n].pa)
      PROVE  Address(n)'
  <2>1. SUFFICES ASSUME Told(Master, n) PROVE Address(n)'
    BY <1>0, <1>2 DEF Address
  <2>2. r = Slave
    BY <1>9 DEF Other, Master, Slave
  <2>3. Plain(Master, n) /\ user[Master][n].pc # "idle"
    BY <1>0, <2>1 DEF Told
  <2>4. buf[Master][n].allocated
    BY <2>3 DEF Plain
  <2>5. buf'[Master][n].pa = buf[Master][n].pa
    BY <1>9, <2>4 DEF Hears
  <2>6. Knows(Slave, n)' = Knows(Slave, n) /\ KnownPa(Slave, n)' = KnownPa(Slave, n)
    BY <1>3, <2>2
  <2>7. AddressOf(ch'[Master], Knows(Slave, n)', KnownPa(Slave, n)', buf'[Master][n].pa)
    BY <1>9, <2>5, <2>6
  <2>8. QED
    BY <2>7 DEF Address
<1>10. p = Master /\ ~Told(Master, n) => Address(n)'
  BY <1>0, <1>2 DEF Address
<1>11. p = Master /\ Told(Master, n) =>
         AddressOf(ch[Master], Knows(Slave, n), KnownPa(Slave, n), buf[Master][n].pa)
  BY <1>0 DEF Address
<1>12. p = Master \/ p = Slave
  BY DEF Peers
<1>13. CASE ch'[p] = ch[p]
  <2>1. News(p, n)' /\ Spoken(p)'
    BY <1>0, <1>2, <1>3, <1>13, NewsSame, SpokenSame
  <2>2. p = Master => Address(n)'
    BY <1>9, <1>10, <1>11, <1>13
  <2>3. Address(n)'
    BY <1>8, <1>12, <2>2
  <2>4. \A q \in Peers : News(q, n)' /\ Spoken(q)'
    BY <1>0, <1>6, <1>7, <2>1
  <2>5. QED
    BY <1>0, <1>5, <2>3, <2>4, PairParts
<1>14. CASE \E x \in Message : ch'[p] = Append(ch[p], x) /\ x.id = 0 /\ x.cmd = "ACK"
  <2>1. PICK x \in Message : ch'[p] = Append(ch[p], x) /\ x.id = 0 /\ x.cmd = "ACK"
    BY <1>14
  <2>2. Births(Append(ch[p], x)) = Births(ch[p]) /\ Deaths(Append(ch[p], x)) = Deaths(ch[p])
    BY <1>0, <2>1, TellsSent
  <2>3. News(p, n)'
    BY <1>0, <1>2, <1>3, <2>1, <2>2 DEF News
  <2>4. Spoken(p)'
    BY <1>0, <2>1, SpokenSent
  <2>5. p = Master /\ Told(Master, n) =>
          AddressOf(ch'[Master], Knows(Slave, n), KnownPa(Slave, n), buf[Master][n].pa)
    BY <1>0, <1>11, <2>1, AddressKept
  <2>6. p = Master => Address(n)'
    BY <1>9, <1>10, <2>5
  <2>7. Address(n)'
    BY <1>8, <1>12, <2>6
  <2>8. \A q \in Peers : News(q, n)' /\ Spoken(q)'
    BY <1>0, <1>6, <1>7, <2>3, <2>4
  <2>9. QED
    BY <1>0, <1>5, <2>7, <2>8, PairParts
<1>15. QED
  BY <1>13, <1>14 DEF Hears

LEMMA PairStep ==
  ASSUME Paired, [Next]_vars, ~Crash
  PROVE  PairInv'
<1> PICK n : Names = {n}
  BY DEF Paired, PairInv, OneName
<1>0. /\ n \in Names /\ \A k \in Names : k = n
      /\ \A p \in Peers : rx[p].pc = "idle" /\ up[p]
      /\ TypeOK /\ Master \in Peers /\ Slave \in Peers
  BY PairFacts DEF Spoken, Paired, PairInv, Peers
<1>1. ASSUME NEW p \in Peers, NEW k \in Names, NEW len \in Lens, Alloc(p, k, len)
      PROVE  PairInv'
  BY <1>1, AllocStarts, PairStarts
<1>2. ASSUME NEW p \in Peers, NEW k \in Names, Quiet(p, k) PROVE PairInv'
  BY <1>2, QuietRuns, PairRuns
<1>3. ASSUME NEW p \in Peers, NEW k \in Names, FreeLocked(p, k) PROVE PairInv'
  BY <1>3, FreeEnds, PairEnds
<1>4. ASSUME NEW p \in Peers, NEW m \in Message, Handle(p, m) PROVE PairInv'
  <2>1. Hears(p, n, m)
    BY <1>0, <1>4, CreatedHears, DestroyedHears, DataHears
  <2>2. QED
    BY <1>0, <2>1, PairHears
<1>5. ASSUME NEW p \in Peers, Reply(p) PROVE FALSE
  BY <1>0, <1>5 DEF Reply
<1>6. /\ ~ServiceRemove /\ ~ServiceProbe
      /\ \A k \in Names : ~RemoveInFree(k) /\ \A len \in Lens : ~RemoveInAlloc(k, len)
      /\ \A m \in Message : ~RemoveInCreated(m) /\ ~RemoveInDummy(m)
  BY <1>0 DEF ServiceRemove, ServiceProbe, RemoveInFree, RemoveInAlloc, RemoveInCreated,
              RemoveInDummy, Unregister
<1>7. CASE UNCHANGED vars \/ \E p \in Peers : CallbackEnd(p)
  <2>1. UNCHANGED <<buf, rdb, user, rx, ch, up, odd>>
    BY <1>7 DEF vars, CallbackEnd
  <2>2. \A p \in Peers : /\ Plain(p, n) /\ News(p, n) /\ Spoken(p) /\ Other(p) \in Peers
                         /\ Told(p, n)' = Told(p, n) /\ Knows(p, n)' = Knows(p, n)
                         /\ KnownPa(p, n)' = KnownPa(p, n)
    BY <1>0, <2>1, PairFacts DEF Told, Knows, KnownPa
  <2>3. \A p \in Peers : Plain(p, n)'
    BY <2>1, <2>2 DEF Plain
  <2>4. \A p \in Peers : News(p, n)' /\ Spoken(p)'
    BY <2>1, <2>2, NewsSame, SpokenSame
  <2>5. Address(n)'
    BY <1>0, <2>1, <2>2 DEF Paired, PairInv, Address
  <2>6. QED
    BY <1>0, <2>1, <2>3, <2>4, <2>5, PairParts
<1>8. QED
  BY <1>0, <1>1, <1>2, <1>3, <1>4, <1>5, <1>6, <1>7, Steps

LEMMA PairInit == Init /\ OneName /\ Throttled => PairInv
<1> SUFFICES ASSUME Init, OneName, Throttled PROVE PairInv
  OBVIOUS
<1>1. \A p \in Peers, n \in Names :
        /\ buf[p][n] = NoBuf /\ rdb[p][n] = NoRdb /\ user[p][n] = Idle
        /\ ch[p] = << >> /\ up[p] /\ rx[p] = RxIdle
  BY DEF Init
<1>2. /\ NoBuf.loc = "none" /\ NoBuf.id = 0 /\ ~NoBuf.offline
      /\ ~NoRdb.there /\ NoRdb.id = 0 /\ Idle.pc = "idle" /\ Idle.id = 0
      /\ RxIdle.pc = "idle"
  BY DEF NoBuf, Instance, NoRdb, Idle, At, RxIdle
<1>3. Births(<< >>) = {} /\ Deaths(<< >>) = {}
  BY DEF Births, Deaths
<1>4. \A p \in Peers, n \in Names : ~Told(p, n) /\ ~Knows(p, n) /\ Plain(p, n)
  BY <1>1, <1>2 DEF Told, Knows, Plain
<1>5. Master \in Peers /\ \A p \in Peers : Other(p) \in Peers
  BY DEF Other, Peers
<1>6. \A p \in Peers, n \in Names : News(p, n)
  BY <1>1, <1>3, <1>4, <1>5 DEF News, NewsOf
<1>7. \A p \in Peers : Spoken(p)
  <2>1. \A p \in Peers : ch[p] = << >> /\ up[p] /\ rx[p] = RxIdle
    BY DEF Init
  <2>2. QED
    BY <1>2, <2>1 DEF Spoken, Says
<1>8. \A n \in Names : Address(n)
  BY <1>4, <1>5 DEF Address
<1>9. QED
  BY <1>4, <1>6, <1>7, <1>8 DEF PairInv, Init

\* Restarts are counted, and not taken back
LEMMA Restarts ==
  ASSUME TypeOK, [Next]_vars, crashes' = 0
  PROVE  crashes = 0 /\ ~Crash
<1>1. crashes \in Nat
  BY DEF TypeOK
<1>2. CASE Crash
  BY <1>1, <1>2 DEF Crash
<1>3. ASSUME NEW p \in Peers, NEW n \in Names, NEW len \in Lens, Alloc(p, n, len)
      PROVE  UNCHANGED crashes
  BY <1>3 DEF Alloc, AllocFirst, AllocFirstNoMem, AllocSecondSlave, AllocSecondMaster
<1>4. ASSUME NEW p \in Peers, NEW n \in Names, Quiet(p, n) \/ FreeLocked(p, n)
      PROVE  UNCHANGED crashes
  BY <1>4 DEF Quiet, AllocNotify, FreeStart, FreeNotify, FreeInterrupted, FreeNotFound,
              TransmitStart, TransmitCheck, TransmitNotify, WaitDone, WaitInterrupted,
              FreeLocked
<1>5. ASSUME NEW p \in Peers, NEW m \in Message, Handle(p, m) PROVE UNCHANGED crashes
  BY <1>5 DEF Handle, CreatedExisting, CreatedLocal, CreatedRefused, CreatedUnknown,
              DestroyedDummy, DestroyedBuffer, TransmittedH, AckH, Ignored
<1>6. ASSUME NEW p \in Peers, Reply(p) \/ CallbackEnd(p) PROVE UNCHANGED crashes
  BY <1>6 DEF Reply, CallbackEnd
<1>7. ServiceRemove \/ ServiceProbe \/ UNCHANGED vars => UNCHANGED crashes
  BY DEF ServiceRemove, ServiceProbe, vars
<1>8. ASSUME NEW n \in Names, RemoveInFree(n) \/ \E len \in Lens : RemoveInAlloc(n, len)
      PROVE  UNCHANGED crashes
  BY <1>8 DEF RemoveInFree, RemoveInAlloc
<1>9. ASSUME NEW m \in Message, RemoveInCreated(m) \/ RemoveInDummy(m)
      PROVE  UNCHANGED crashes
  BY <1>9 DEF RemoveInCreated, RemoveInDummy
<1>10. crashes' = crashes \/ Crash
  BY <1>3, <1>4, <1>5, <1>6, <1>7, <1>8, <1>9, Steps
<1>11. QED
  BY <1>2, <1>10

\* The invariant of the pair of cores, in the first life of the slave
Early == crashes = 0 => Paired

LEMMA PairedAlways == Spec /\ OneName /\ Throttled => []Early
<1>1. Init /\ ListInv => PayInv
  <2>1. Init => OwnInv /\ PartitionOf(blocks, mem)
    BY DEF Init, OwnInv, OwnCell, PartitionOf, blocks, NoBuf, NoRdb, Instance, Peers
  <2>2. QED
    BY <2>1 DEF PayInv
<1>2. Init /\ ListInv /\ OneName /\ Throttled => Early
  BY <1>1, PairInit DEF Paired, Early
<1>3. ListInv /\ ListInv' /\ Early /\ [Next]_vars => Early'
  <2> SUFFICES ASSUME ListInv, ListInv', Early, [Next]_vars, crashes' = 0 PROVE Paired'
    BY DEF Early
  <2>1. crashes = 0 /\ ~Crash
    BY Restarts DEF ListInv
  <2>2. Paired /\ PayInv
    BY <2>1 DEF Early, Paired
  <2>3. PairInv'
    BY <2>1, <2>2, PairStep
  <2>4. PayInv'
    BY <2>2, PayStep DEF PayInv, PayKept
  <2>5. QED
    BY <2>3, <2>4 DEF Paired
<1>4. QED
  BY <1>2, <1>3, ListsCorrect, PTL DEF Spec

\* The record a death or an address under way refers to
LEMMA LiveFacts ==
  ASSUME Paired, NEW n \in Names, n \in Available(Slave), Deaths(ch[Master]) = {}
  PROVE  buf[Slave][n].pa = buf[Master][n].pa /\ buf[Master][n].allocated
<1>1. /\ News(Master, n) /\ Plain(Master, n) /\ Shelf(Slave, n) /\ Address(n)
      /\ Other(Master) = Slave
  BY PairFacts DEF Paired, PairInv, Other, Peers
<1>2. buf[Slave][n].loc = "buffers" /\ Knows(Slave, n) /\ ~rdb[Slave][n].there
  BY <1>1 DEF Available, Knows, Shelf
<1>3. Told(Master, n)
  BY <1>1, <1>2 DEF News, NewsOf
<1>4. KnownPa(Slave, n) = buf[Master][n].pa
  BY <1>1, <1>2, <1>3 DEF Address, AddressOf
<1>5. QED
  BY <1>1, <1>2, <1>3, <1>4 DEF KnownPa, Told, Plain

LEMMA PairLive == Paired => SlavePayloadLive
<1> SUFFICES ASSUME Paired, NEW n \in Names, n \in Available(Slave)
             PROVE  \/ buf[Slave][n].pa \in mem
                    \/ \E i \in DOMAIN ch[Master] :
                         /\ ch[Master][i].cmd = "DESTROYED"
                         /\ ch[Master][i].id = buf[Slave][n].id
  BY DEF SlavePayloadLive, Available
<1>1. CASE Deaths(ch[Master]) = {}
  <2>1. buf[Slave][n].pa = buf[Master][n].pa /\ buf[Master][n].allocated
    BY <1>1, LiveFacts
  <2>2. PartitionOf(blocks, mem)
    BY PairFacts DEF Paired, PayInv
  <2>3. QED
    BY <2>1, <2>2 DEF PartitionOf, blocks
<1>2. CASE Deaths(ch[Master]) # {}
  <2>1. PICK k \in DOMAIN ch[Master] : ch[Master][k].cmd = "DESTROYED"
    BY <1>2 DEF Deaths
  <2>2. /\ ch[Master] \in Seq(Message) /\ Spoken(Master) /\ Plain(Slave, n)
    BY PairFacts DEF TypeOK, Peers
  <2>3. ch[Master][k] \in Message /\ Says(Master, ch[Master][k])
    BY <2>2 DEF Says
  <2>4. QED
    BY <2>1, <2>2, <2>3 DEF Spoken, Plain
<1>3. QED
  BY <1>1, <1>2

\* At rest, what a core has on record is what the other has told
LEMMA AtRest ==
  ASSUME Paired, OneLen, Quiescent, NEW p \in Peers, NEW n \in Names,
         \A q \in Peers : user[q][n].pc # "lost"
  PROVE  /\ buf[p][n].loc # "none" <=> Told(p, n)
         /\ Told(p, n) <=> Knows(Other(p), n)
         /\ buf[p][n].loc = "buffers" => buf[Other(p)][n].loc = "buffers"
<1>0. ASSUME NEW q \in Peers
      PROVE  /\ buf[q][n].loc # "none" <=> Told(q, n)
             /\ Told(q, n) <=> Knows(Other(q), n)
  <2>1. /\ ch[q] = << >> /\ ~stuck[q] /\ user[q][n].pc \in {"idle", "owned"}
        /\ Shelf(q, n) /\ News(q, n)
    BY PairFacts DEF Quiescent
  <2>2. Births(<< >>) = {} /\ Deaths(<< >>) = {}
    BY DEF Births, Deaths
  <2>3. buf[q][n].loc # "none" <=> Told(q, n)
    BY <2>1 DEF Shelf, Told
  <2>4. Told(q, n) <=> Knows(Other(q), n)
    BY <2>1, <2>2 DEF News, NewsOf
  <2>5. QED
    BY <2>3, <2>4
<1>1. ASSUME buf[p][n].loc = "buffers" PROVE buf[Other(p)][n].loc = "buffers"
  <2>1. /\ Other(p) \in Peers /\ Other(Other(p)) = p /\ Shelf(Other(p), n)
    BY PairFacts
  <2>2. Knows(Other(p), n) /\ Told(Other(p), n)
    BY <1>0, <1>1, <2>1 DEF Knows
  <2>3. QED
    BY <1>0, <2>1, <2>2 DEF Knows, Shelf
<1>2. QED
  BY <1>0, <1>1

LEMMA PairAgrees == Paired /\ OneLen => Agreement
<1> SUFFICES ASSUME Paired, OneLen, Quiescent, NEW n \in Names,
                    \A q \in Peers : user[q][n].pc # "lost", NEW p \in Peers
             PROVE  LET b == buf[p][n]  o == buf[Other(p)][n]  d == rdb[Other(p)][n] IN
                    /\ b.loc = "buffers" => o.loc = "buffers" /\ o.id = b.id /\ o.len = b.len
                                            /\ o.pa = b.pa
                    /\ b.loc = "local_dummy" => d.there /\ d.len = b.len
                    /\ d.there => b.loc = "local_dummy"
  BY DEF Agreement
<1> DEFINE q == Other(p)
<1>1. /\ q \in Peers /\ Other(q) = p /\ q # p
      /\ Plain(p, n) /\ Plain(q, n) /\ Shelf(p, n) /\ Shelf(q, n)
      /\ buf[p][n] \in Buffer
  BY PairFacts
<1>2. /\ buf[p][n].loc # "none" <=> Told(p, n)
      /\ Told(p, n) <=> Knows(q, n)
      /\ buf[p][n].loc = "buffers" <=> buf[q][n].loc = "buffers"
  BY <1>1, AtRest
<1>3. ASSUME buf[p][n].loc = "buffers"
      PROVE  /\ buf[q][n].loc = "buffers" /\ buf[q][n].id = buf[p][n].id
             /\ buf[q][n].len = buf[p][n].len /\ buf[q][n].pa = buf[p][n].pa
  <2>1. buf[q][n].loc = "buffers"
    BY <1>2, <1>3
  <2>2. buf[q][n].id = buf[p][n].id /\ buf[q][n].len = buf[p][n].len
    BY <1>1, <1>3, <2>1 DEF Plain, OneLen
  <2>3. /\ Slave \in Peers /\ Master \in Peers
        /\ (p = Slave /\ q = Master) \/ (p = Master /\ q = Slave)
    BY <1>1 DEF Other, Peers
  <2>4. ch[Master] = << >> /\ Deaths(<< >>) = {}
    BY <2>3 DEF Quiescent, Deaths
  <2>5. n \in Available(Slave)
    BY <1>3, <2>1, <2>3 DEF Available
  <2>6. buf[Slave][n].pa = buf[Master][n].pa
    BY <2>4, <2>5, LiveFacts
  <2>7. QED
    BY <2>1, <2>2, <2>3, <2>6
<1>4. ASSUME buf[p][n].loc = "local_dummy" PROVE rdb[q][n].there /\ rdb[q][n].len = buf[p][n].len
  <2>1. rdb[q][n].there
    BY <1>2, <1>4 DEF Knows
  <2>2. QED
    BY <1>1, <1>4, <2>1 DEF Plain, OneLen
<1>5. ASSUME rdb[q][n].there PROVE buf[p][n].loc = "local_dummy"
  <2>1. Knows(q, n) /\ buf[q][n].loc = "none"
    BY <1>1, <1>5 DEF Knows, Shelf
  <2>2. buf[p][n].loc # "none" /\ buf[p][n].loc # "buffers"
    BY <1>2, <2>1
  <2>3. QED
    BY <1>1, <2>2 DEF Shelf
<1>6. QED
  BY <1>3, <1>4, <1>5

\* In the first life of the slave, with one name and no lost message, the
\* branches of rpbuf_core.c that log "(unexpected)" are dead, in whatever order
\* the calls and messages of the two cores cross, and whatever signals end the
\* waits: a BUFFER_CREATED never finds a usable buffer or a dummy entry of the
\* name, and a freed buffer never finds a dummy entry beside it.
THEOREM NothingUnexpected == Spec /\ OneName /\ Throttled => [](crashes = 0 => NothingOdd)
<1>1. Early => (crashes = 0 => NothingOdd)
  BY DEF Early, Paired, PairInv, NothingOdd
<1>2. QED
  BY <1>1, PairedAlways, PTL

\* Under the same hypotheses the slave's usable buffer lies in payload memory
\* that the master keeps allocated, until the master's BUFFER_DESTROYED is on
\* its way
THEOREM PayloadLives == Spec /\ OneName /\ Throttled => [](crashes = 0 => SlavePayloadLive)
<1>1. Early => (crashes = 0 => SlavePayloadLive)
  BY PairLive DEF Early
<1>2. QED
  BY <1>1, PairedAlways, PTL

\* Under the same hypotheses, and with one length, the cores agree on the buffer
\* whenever nothing is in progress, however their allocations and releases
\* crossed, unless a free of it has failed: a signal that ends the wait for a
\* callback leaves the buffer behind after the other core was told of its end.
\* With two lengths a core drops what the other announces.
THEOREM CoresAgree == Spec /\ OneName /\ Throttled /\ OneLen => [](crashes = 0 => Agreement)
<1>1. OneLen /\ [Next]_vars => OneLen'
  BY DEF OneLen
<1>2. Early /\ OneLen => (crashes = 0 => Agreement)
  BY PairAgrees DEF Early
<1>3. QED
  BY <1>1, <1>2, PairedAlways, PTL DEF Spec
=============================================================================

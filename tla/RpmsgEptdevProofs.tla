------------------------- MODULE RpmsgEptdevProofs -------------------------
(***************************************************************************)
(* Theorems about RpmsgEptdev for any number of user threads and any queue *)
(* limit.                                                                  *)
(***************************************************************************)
EXTENDS RpmsgEptdev, TLAPS

\* The receive context holds the endpoint from RxFind to RxPut, and cb_lock
\* while it may call back
Locked == cb_lock = (IF rx \in {"call", "append", "wake", "unlock"} THEN Rx ELSE NoOne)
Counted ==
  refs = (IF rm = "done" THEN 0 ELSE 1) + (IF rx = "idle" THEN 0 ELSE 1)

\* How far the removal has come
Removal ==
  /\ cb = "null" <=> rm \in {"put", "done"}
  /\ found <=> rm \notin {"clear", "put", "done"}
  /\ ept <=> rm \in {"none", "lock", "drain", "null"}
  /\ rx \in {"append", "wake"} => cb # "null"

\* The length that rpmsg_eptdev_official_cb tested has not grown since
Room == QueueBound /\ (rx = "append" => queue <= MaxLen)

\* Who sleeps is on the wait queue
Enqueued == \A u \in Users : pc[u] \in {"rsleep", "pcheck", "psleep"} => u \in readq

\* eptdev is freed when the removal finds no open file, or by the last release
\* after it.  Only the temporary callback makes a file.
Memory ==
  /\ eptdev = "freed" => ~file /\ Removed /\ \A u \in Users : pc[u] = "closed"
  /\ eptdev = "live" /\ cb = "temp" => ~file /\ \A u \in Users : pc[u] = "closed"
  /\ eptdev = "live" /\ Removed => ~file /\ cb # "temp"

Inv ==
  /\ TypeOK /\ Locked /\ Counted /\ Removal /\ Room /\ Enqueued /\ NoLostWakeup
  /\ Memory

USE EptdevAssumption

LEMMA InitInv == Init => Inv
<1>1. SUFFICES ASSUME Init PROVE Inv
  OBVIOUS
<1>2. TypeOK
  <2>1. /\ found \in BOOLEAN /\ file \in BOOLEAN /\ ept \in BOOLEAN
        /\ readq \in SUBSET Users /\ woken \in SUBSET Users
    BY <1>1 DEF Init
  <2>2. /\ pc \in [Users -> {"closed", "idle"} \cup Reading \cup Polling \cup Writing]
        /\ sig \in [Users -> BOOLEAN]
    BY <1>1 DEF Init
  <2>3. QED
    BY <1>1, <2>1, <2>2 DEF Init, TypeOK
<1>3. Locked /\ Counted /\ Room /\ Enqueued /\ NoLostWakeup
  BY <1>1 DEF Init, Locked, Counted, Room, QueueBound, Enqueued, NoLostWakeup
<1>4. Removal /\ Memory
  BY <1>1 DEF Init, Removal, Memory, Removed
<1>5. QED
  BY <1>2, <1>3, <1>4 DEF Inv

-----------------------------------------------------------------------------
(* The receive context.                                                    *)

LEMMA RxSteps ==
  ASSUME Inv, RxFind \/ RxStep
  PROVE  Inv'
<1> USE DEF Inv, RxGoto, RxCall, Touch, device, endpoint, wait, users
<1>1. /\ UNCHANGED <<found, ept, ept_lock, pc, sig, readq, rm>>
      /\ cb' = cb \/ (cb = "temp" /\ cb' = "official")
  BY DEF RxFind, RxStep, RxLock, RxNoCall, RxTemp, RxOfficial, RxAppend, RxWake,
         RxUnlock, RxPut, Wake
<1>0. Memory'
  <2>1. UNCHANGED <<file, eptdev, cb>> \/ RxTemp \/ (Touch /\ UNCHANGED <<file, cb>>)
    BY DEF RxFind, RxStep, RxLock, RxNoCall, RxOfficial, RxAppend, RxWake, RxUnlock, RxPut
  <2>2. CASE RxTemp
    BY <1>1, <2>2 DEF RxTemp, Memory, Removed, TypeOK
  <2>3. CASE UNCHANGED <<file, eptdev, cb>>
    BY <1>1, <2>3 DEF Memory, Removed
  <2>4. CASE Touch /\ UNCHANGED <<file, cb>>
    BY <1>1, <2>4 DEF Memory, Removed
  <2>5. QED
    BY <2>1, <2>2, <2>3, <2>4
<1>2. CASE RxFind
  BY <1>0, <1>2 DEF RxFind, TypeOK, Locked, Counted, Removal, Room, QueueBound, Enqueued,
              NoLostWakeup
<1>3. CASE RxLock
  BY <1>0, <1>3 DEF RxLock, TypeOK, Locked, Counted, Removal, Room, QueueBound, Enqueued,
              NoLostWakeup
<1>4. CASE RxNoCall
  BY <1>0, <1>4 DEF RxNoCall, TypeOK, Locked, Counted, Removal, Room, QueueBound, Enqueued,
              NoLostWakeup
<1>5. CASE RxTemp
  BY <1>0, <1>5 DEF RxTemp, TypeOK, Locked, Counted, Removal, Room, QueueBound, Enqueued,
              NoLostWakeup
<1>6. CASE RxOfficial
  BY <1>0, <1>6 DEF RxOfficial, TypeOK, Locked, Counted, Removal, Room, QueueBound, Enqueued,
              NoLostWakeup
<1>7. CASE RxAppend
  BY <1>0, <1>7 DEF RxAppend, TypeOK, Locked, Counted, Removal, Room, QueueBound, Enqueued,
              NoLostWakeup
<1>8. CASE RxWake
  BY <1>0, <1>8 DEF RxWake, Wake, TypeOK, Locked, Counted, Removal, Room, QueueBound, Enqueued,
              NoLostWakeup
<1>9. CASE RxUnlock
  BY <1>0, <1>9 DEF RxUnlock, TypeOK, Locked, Counted, Removal, Room, QueueBound, Enqueued,
              NoLostWakeup
<1>10. CASE RxPut
  BY <1>0, <1>10 DEF RxPut, TypeOK, Locked, Counted, Removal, Room, QueueBound, Enqueued,
               NoLostWakeup
<1>11. QED
  BY <1>0, <1>2, <1>3, <1>4, <1>5, <1>6, <1>7, <1>8, <1>9, <1>10 DEF RxStep

-----------------------------------------------------------------------------
(* User threads.                                                           *)

\* What the other threads do is not touched by a user thread
LEMMA UserLocal ==
  ASSUME Inv, UserOnly, queue' \in Nat, queue' <= queue
  PROVE  Locked' /\ Counted' /\ Removal' /\ Room'
BY DEF Inv, TypeOK, UserOnly, endpoint, Locked, Counted, Removal, Room, QueueBound

\* A thread returns or moves on, and the others sleep as they did
LEMMA UserMoves ==
  ASSUME Inv, NEW u \in Users, NEW l, UserOnly, pc' = [pc EXCEPT ![u] = l],
         queue' \in Nat, queue' <= queue,
         readq \ {u} \subseteq readq', woken \ {u} \subseteq woken',
         l \in {"pcheck", "psleep", "rsleep"} => u \in readq',
         l \in {"psleep", "rsleep"} => queue' = 0,
         l = "rsleep" => ept
  PROVE  Enqueued' /\ NoLostWakeup'
<1>1. pc \in [Users -> {"closed", "idle"} \cup Reading \cup Polling \cup Writing]
  BY DEF Inv, TypeOK
<1>2. \A v \in Users : pc'[v] = IF v = u THEN l ELSE pc[v]
  BY <1>1
<1>3. Enqueued'
  BY <1>2 DEF Inv, Enqueued
<1>4. UNCHANGED <<rx, rm, ept>>
  BY DEF UserOnly
<1>5. NoLostWakeup'
  BY <1>2, <1>4 DEF Inv, TypeOK, NoLostWakeup
<1>6. QED
  BY <1>3, <1>5

\* Only Open enters a file, and only where there is one
LEMMA UserMemory ==
  ASSUME Inv, NEW u \in Users, NEW l, UserOnly, pc' = [pc EXCEPT ![u] = l],
         pc[u] # "closed" \/ file
  PROVE  Memory'
<1>1. pc \in [Users -> {"closed", "idle"} \cup Reading \cup Polling \cup Writing]
  BY DEF Inv, TypeOK
<1>2. UNCHANGED <<file, eptdev, cb, rm>> /\ Memory
  BY DEF Inv, UserOnly, endpoint
<1>3. eptdev # "freed" /\ ~(eptdev = "live" /\ cb = "temp")
  BY <1>2 DEF Memory
<1>4. QED
  BY <1>2, <1>3 DEF Memory, Removed

LEMMA UserTypes ==
  ASSUME Inv, NEW u \in Users, UserOnly, queue' \in Nat,
         NEW l \in {"closed", "idle"} \cup Reading \cup Polling \cup Writing,
         pc' = [pc EXCEPT ![u] = l],
         NEW b \in BOOLEAN, sig' = sig \/ sig' = [sig EXCEPT ![u] = b],
         ept_lock' \in {NoOne, Rm} \cup Users,
         readq' \in SUBSET Users, woken' \in SUBSET Users
  PROVE  TypeOK'
BY DEF Inv, TypeOK, UserOnly, endpoint

LEMMA UserSteps ==
  ASSUME Inv, NEW u \in Users,
         \/ Open(u) \/ Read(u) \/ Poll(u) \/ Write(u)
         \/ UserStep(u) \/ PollTimeout(u) \/ WriteSpin(u) \/ WriteSpun(u)
  PROVE  Inv'
<1> DEFINE Labels == {"closed", "idle"} \cup Reading \cup Polling \cup Writing
<1>1. TypeOK
  BY DEF Inv
<1>2. ASSUME NEW l \in Labels, UserOnly, pc' = [pc EXCEPT ![u] = l], queue' \in Nat,
             pc[u] # "closed" \/ file,
             \/ sig' = sig
             \/ sig' = [sig EXCEPT ![u] = FALSE] \/ sig' = [sig EXCEPT ![u] = TRUE],
             ept_lock' \in {NoOne, Rm} \cup Users,
             queue' <= queue, readq' \in SUBSET Users, woken' \in SUBSET Users,
             readq \ {u} \subseteq readq', woken \ {u} \subseteq woken',
             l \in {"pcheck", "psleep", "rsleep"} => u \in readq',
             l \in {"psleep", "rsleep"} => queue' = 0,
             l = "rsleep" => ept
      PROVE  Inv'
  BY <1>2, UserLocal, UserMoves, UserTypes, UserMemory DEF Inv
<1> USE DEF Goto, Return, wait, users, Reading, Polling, Writing
<1>3. CASE Open(u) \/ Read(u) \/ Write(u)
  BY <1>1, <1>2, <1>3 DEF TypeOK, Open, Read, Write
<1>4. CASE ReadLock(u) \/ ReadWait(u) \/ ReadEnqueue(u)
  BY <1>1, <1>2, <1>4 DEF TypeOK, ReadLock, ReadWait, ReadEnqueue
<1>5. CASE ReadCheck(u)
  BY <1>1, <1>2, <1>5 DEF TypeOK, ReadCheck, Ready
<1>6. CASE ReadAwake(u) \/ ReadAfter(u) \/ ReadTake(u)
  BY <1>1, <1>2, <1>6 DEF TypeOK, ReadAwake, ReadAfter, ReadTake
<1>7. CASE Poll(u) \/ PollWait(u)
  BY <1>1, <1>2, <1>7 DEF TypeOK, Poll, PollWait
<1>8. CASE PollCheck(u)
  <2>1. u \in readq
    BY <1>8 DEF Inv, Enqueued, PollCheck
  <2>2. QED
    BY <1>1, <1>2, <1>8, <2>1 DEF TypeOK, PollCheck
<1>9. CASE PollAwake(u) \/ PollTimeout(u)
  BY <1>1, <1>2, <1>9 DEF TypeOK, PollAwake, PollTimeout
<1>10. CASE WriteLock(u) \/ WriteCheck(u)
  BY <1>1, <1>2, <1>10 DEF TypeOK, WriteLock, WriteCheck
<1>11. CASE WriteSend(u) \/ WriteSpin(u) \/ WriteSpun(u) \/ WriteOut(u)
  BY <1>1, <1>2, <1>11 DEF TypeOK, WriteSend, WriteSpin, WriteSpun, WriteOut
<1>12. QED
  BY <1>3, <1>4, <1>5, <1>6, <1>7, <1>8, <1>9, <1>10, <1>11 DEF UserStep

LEMMA ReleaseStep ==
  ASSUME Inv, NEW u \in Users, Release(u)
  PROVE  Inv'
<1>1. /\ pc[u] = "idle" /\ pc' = [pc EXCEPT ![u] = "closed"]
      /\ eptdev' = IF Removed /\ NobodyBut(u) /\ eptdev = "live" THEN "freed" ELSE eptdev
      /\ UNCHANGED <<found, refs, cb, cb_lock, rx, file, ept, rm, ept_lock, queue,
                     readq, woken, sig>>
  BY DEF Release, Goto, endpoint, wait
<1>2. TypeOK /\ \A v \in Users : pc'[v] = IF v = u THEN "closed" ELSE pc[v]
  BY <1>1 DEF Inv, TypeOK
<1>3. TypeOK'
  BY <1>1, <1>2 DEF TypeOK
<1>4. Locked' /\ Counted' /\ Removal' /\ Room' /\ Enqueued' /\ NoLostWakeup'
  BY <1>1, <1>2 DEF Inv, Locked, Counted, Removal, Room, QueueBound, Enqueued, NoLostWakeup
<1>5. Memory'
  BY <1>1, <1>2 DEF Inv, Memory, Removed, NobodyBut
<1>6. QED
  BY <1>3, <1>4, <1>5 DEF Inv

LEMMA SignalStep ==
  ASSUME Inv, NEW u \in Users, Signal(u)
  PROVE  Inv'
<1>1. UNCHANGED <<found, refs, cb, cb_lock, rx, file, eptdev, ept, rm, ept_lock, queue,
                  readq, woken, pc>>
  BY DEF Signal, UserOnly, endpoint, wait
<1>2. TypeOK'
  BY <1>1 DEF Inv, TypeOK, Signal
<1>3. QED
  BY <1>1, <1>2 DEF Inv, Locked, Counted, Removal, Room, QueueBound, Enqueued,
     NoLostWakeup, Memory, Removed

-----------------------------------------------------------------------------
(* The removal.                                                            *)

LEMMA RmSteps ==
  ASSUME Inv, RmStart \/ RmLock \/ RmStep
  PROVE  Inv'
<1> USE DEF Inv, RmGoto, device, endpoint, wait, users
<1>1. CASE RmStart \/ RmLock
  BY <1>1 DEF RmStart, RmLock, TypeOK, Locked, Counted, Removal, Room, QueueBound,
              Enqueued, NoLostWakeup, Memory, Removed
<1>2. CASE RmDrain
  BY <1>2 DEF RmDrain, TypeOK, Locked, Counted, Removal, Room, QueueBound, Enqueued,
              NoLostWakeup, Memory, Removed
<1>3. CASE RmNull
  BY <1>3 DEF RmNull, TypeOK, Locked, Counted, Removal, Room, QueueBound, Enqueued,
              NoLostWakeup, Memory, Removed
<1>4. CASE RmWake
  BY <1>4 DEF RmWake, Wake, TypeOK, Locked, Counted, Removal, Room, QueueBound, Enqueued,
              NoLostWakeup, Memory, Removed
<1>5. CASE RmDelete \/ RmUnfind
  <2>0. eptdev' \in {"live", "freed", "touched"} /\ Memory'
    BY <1>5 DEF RmDelete, RmUnfind, Memory, Removed, TypeOK
  <2>1. /\ UNCHANGED <<refs, cb, cb_lock, ept, ept_lock, queue, readq, woken, rx, pc, sig>>
        /\ \/ rm = "del" /\ rm' = "unfind" /\ UNCHANGED found
           \/ rm = "unfind" /\ rm' = "clear" /\ found' = FALSE
    BY <1>5 DEF RmDelete, RmUnfind
  <2>2. found' \in BOOLEAN /\ file' \in BOOLEAN
    BY <1>5 DEF RmDelete, RmUnfind, TypeOK
  <2>3. TypeOK'
    BY <2>0, <2>1, <2>2 DEF TypeOK
  <2>4. Removal'
    BY <2>1 DEF Removal
  <2>5. Locked' /\ Counted' /\ Room' /\ Enqueued' /\ NoLostWakeup'
    BY <2>1 DEF Locked, Counted, Room, QueueBound, Enqueued, NoLostWakeup
  <2>6. QED
    BY <2>0, <2>3, <2>4, <2>5
<1>6. CASE RmClear
  BY <1>6 DEF RmClear, TypeOK, Locked, Counted, Removal, Room, QueueBound, Enqueued,
              NoLostWakeup, Memory, Removed
<1>7. CASE RmPut
  BY <1>7 DEF RmPut, TypeOK, Locked, Counted, Removal, Room, QueueBound, Enqueued,
              NoLostWakeup, Memory, Removed
<1>8. QED
  BY <1>1, <1>2, <1>3, <1>4, <1>5, <1>6, <1>7 DEF RmStep

-----------------------------------------------------------------------------
LEMMA NextInv == Inv /\ [Next]_vars => Inv'
<1>1. SUFFICES ASSUME Inv, [Next]_vars PROVE Inv'
  OBVIOUS
<1>2. CASE UNCHANGED vars
  BY <1>1, <1>2 DEF Inv, vars, device, endpoint, wait, users, TypeOK, Locked, Counted,
                    Removal, Room, QueueBound, Enqueued, NoLostWakeup, Memory, Removed
<1>3. QED
  BY <1>1, <1>2, RxSteps, UserSteps, ReleaseStep, SignalStep, RmSteps DEF Next

LEMMA Invariant == Spec => []Inv
BY InitInv, NextInv, PTL DEF Spec

\* Every variable keeps its type
THEOREM TypeCorrect == Spec => []TypeOK
BY Invariant, PTL DEF Inv

\* The receive queue holds at most MaxLen + 1 messages
THEOREM Bounded == Spec => []QueueBound
<1>1. Inv => QueueBound
  BY DEF Inv, Room
<1>2. QED
  BY <1>1, Invariant, PTL

\* No reader sleeps on past a message or the end of its endpoint, no poller past a
\* message
THEOREM WakeupsKept == Spec => []NoLostWakeup
BY Invariant, PTL DEF Inv

\* The endpoint is not freed while the receive context works with it: __ept_release
\* runs when the removal and the receive context have both dropped their references
THEOREM EndpointKept == Spec => []EndpointHeld
<1>1. Inv => EndpointHeld
  BY DEF Inv, Counted, Removal, Locked, EndpointHeld
<1>2. QED
  BY <1>1, Invariant, PTL

\* Who has the file of the device open has an eptdev: neither the removal nor
\* another's close frees it under a reader, poller or writer.  (Nothing is claimed
\* once a callback has worked with an eptdev that the removal freed.)
THEOREM DeviceKept == Spec => []DeviceHeld
<1>1. Inv => DeviceHeld
  BY DEF Inv, Memory, DeviceHeld
<1>2. QED
  BY <1>1, Invariant, PTL

\* Once it is destroyed the endpoint is not called back, whatever the receive
\* context had looked up before
THEOREM EndpointSafe == Spec => [](EndpointHeld /\ NoLateCall)
<1>1. Inv => EndpointHeld /\ NoLateCall
  BY DEF Inv, Counted, Removal, Locked, EndpointHeld, NoLateCall
<1>2. QED
  BY <1>1, Invariant, PTL
=============================================================================

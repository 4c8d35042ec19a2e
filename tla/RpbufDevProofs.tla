--------------------------- MODULE RpbufDevProofs ---------------------------
(***************************************************************************)
(* Theorems about RpbufDev for any finite set of threads.                  *)
(***************************************************************************)
EXTENDS RpbufDev, FiniteSetTheorems, TLAPS

Labels == {"idle", "busy", "put"} \cup Opening \cup Freeing \cup Receiving

\* can_be_opened leaves room for one user, besides those whose open fails; and
\* all that room unless a signal cut short what would have given it back
Busy == {t \in Threads : pc[t] = "busy"}
Taken == file \/ \E t \in Threads : Uses(t)
Counted ==
  LET room == 1 - Cardinality(Busy) - (IF Taken THEN 1 ELSE 0)
  IN  can <= room /\ (~cut => can = room)

Inv == TypeOK /\ OneUser /\ Counted

AtMostOne == can <= 1

USE DevAssumption DEF fault, acking

LEMMA BusyFinite == IsFiniteSet(Busy) /\ Cardinality(Busy) \in Nat
<1>1. IsFiniteSet(Busy)
  BY FS_Subset, Busy \subseteq Threads DEF Busy
<1>2. QED
  BY <1>1, FS_CardinalityType

\* What every state of Counted says of can_be_opened
LEMMA Room == Counted /\ can \in Int => can <= 1 /\ (can = 1 => Busy = {} /\ ~Taken)
<1>1. SUFFICES ASSUME Counted, can \in Int PROVE can <= 1 /\ (can = 1 => Busy = {} /\ ~Taken)
  OBVIOUS
<1>2. Cardinality(Busy) \in Nat
  BY BusyFinite
<1>3. can <= 1 /\ (can = 1 => Cardinality(Busy) = 0 /\ ~Taken)
  BY <1>1, <1>2 DEF Counted
<1>4. Cardinality(Busy) = 0 => Busy = {}
  BY BusyFinite, FS_EmptySet
<1>5. QED
  BY <1>3, <1>4

LEMMA InitInv == Init => Inv
<1>1. SUFFICES ASSUME Init PROVE Inv
  OBVIOUS
<1>2. /\ pc \in [Threads -> Labels] /\ reg \in [Threads -> SUBSET Flags]
      /\ why \in [Threads -> {"open", "close", "zero", "timed", "forever"}]
  BY <1>1 DEF Init, Labels
<1>3. TypeOK
  <2>1. /\ can \in Int /\ can <= 1 /\ flags \in SUBSET Flags /\ woken \in SUBSET Threads
        /\ rx_reg \in SUBSET Flags
    BY <1>1 DEF Init
  <2>2. QED
    BY <1>1, <1>2, <2>1 DEF Init, TypeOK, Labels
<1>4. OneUser /\ ~Taken /\ Busy = {}
  BY <1>1 DEF Init, OneUser, Taken, Busy, Uses, Opening, Freeing, Receiving
<1>5. Counted
  BY <1>1, <1>4, FS_EmptySet DEF Init, Counted
<1>6. QED
  BY <1>3, <1>4, <1>5 DEF Inv

-----------------------------------------------------------------------------
(* One user: the steps by what they do with the device.                    *)

\* A thread moves on, and is a user before and after, or neither
LEMMA SameUse ==
  ASSUME Inv, UNCHANGED <<can, file>>, cut => cut',
         NEW t \in Threads, NEW l \in Labels, pc' = [pc EXCEPT ![t] = l],
         \/ Uses(t) /\ l \in Opening \cup Freeing \cup {"put"}
         \/ pc[t] \in {"idle"} \cup Receiving /\ l \in {"idle"} \cup Receiving /\ (file \/ l = "idle")
  PROVE  OneUser' /\ Counted'
<1>1. pc \in [Threads -> Labels]
  BY DEF Inv, TypeOK, Labels
<1>2. \A u \in Threads : Uses(u)' <=> Uses(u)
  BY <1>1 DEF Uses, Opening, Freeing, Receiving
<1>3. Busy' = Busy
  BY <1>1 DEF Busy, Uses, Opening, Freeing, Receiving
<1>4. OneUser'
  BY <1>1, <1>2 DEF Inv, OneUser, Uses, Opening, Freeing, Receiving
<1>5. Taken' <=> Taken
  BY <1>2 DEF Taken
<1>6. QED
  BY <1>3, <1>4, <1>5 DEF Counted, Inv

\* No thread moves
LEMMA NoMove == Inv /\ UNCHANGED <<can, file, pc, cut>> => OneUser' /\ Counted'
  BY DEF Inv, OneUser, Counted, Busy, Taken, Uses

LEMMA OpenStep ==
  ASSUME Inv, NEW t \in Threads, Open(t)
  PROVE  OneUser' /\ Counted'
<1>1. /\ pc \in [Threads -> Labels] /\ can \in Int /\ can' = can - 1 /\ file' = file
      /\ pc[t] = "idle" /\ cut' = cut
  BY DEF Inv, TypeOK, Labels, Open, Begin
<1>2. IsFiniteSet(Busy) /\ Cardinality(Busy) \in Nat
  BY BusyFinite
<1>3. CASE can = 1
  <2>1. pc' = [pc EXCEPT ![t] = "alloc"]
    BY <1>3 DEF Open, Begin, Goto
  <2>2. Busy = {} /\ ~Taken
    BY <1>1, <1>3, Room DEF Inv
  <2>3. Busy' = {}
    BY <1>1, <2>1, <2>2 DEF Busy
  <2>4. \A u \in Threads : Uses(u)' <=> u = t
    BY <1>1, <2>1, <2>2 DEF Taken, Uses, Opening, Freeing
  <2>5. OneUser'
    BY <1>1, <2>1, <2>2, <2>4 DEF Inv, OneUser, Taken, Receiving
  <2>6. Counted'
    <3>1. Cardinality(Busy') = 0 /\ Taken'
      BY <2>3, <2>4, FS_EmptySet DEF Taken
    <3>2. QED
      BY <1>1, <1>3, <3>1 DEF Counted
  <2>7. QED
    BY <2>5, <2>6
<1>4. CASE can # 1
  <2>1. pc' = [pc EXCEPT ![t] = "busy"]
    BY <1>4 DEF Open, Begin, Goto
  <2>2. Busy' = Busy \cup {t} /\ t \notin Busy
    BY <1>1, <2>1 DEF Busy
  <2>3. Cardinality(Busy') = Cardinality(Busy) + 1
    BY <1>2, <2>2, FS_AddElement
  <2>4. \A u \in Threads : Uses(u)' <=> Uses(u)
    BY <1>1, <2>1 DEF Uses, Opening, Freeing
  <2>5. OneUser'
    BY <1>1, <2>1, <2>4 DEF Inv, OneUser, Receiving
  <2>6. Taken' <=> Taken
    BY <1>1, <2>4 DEF Taken
  <2>7. Counted'
    BY <1>1, <1>2, <2>3, <2>6 DEF Counted, Inv
  <2>8. QED
    BY <2>5, <2>7
<1>5. QED
  BY <1>3, <1>4

\* The user, or an open that failed, gives the device back
LEMMA GiveBack ==
  ASSUME Inv, NEW t \in Threads, pc' = [pc EXCEPT ![t] = "idle"], file' = file,
         cut => cut',
         \/ Uses(t) /\ (can' = can + 1 \/ (can' = can /\ cut'))
         \/ pc[t] = "busy" /\ can' = can + 1
  PROVE  OneUser' /\ Counted'
<1>1. pc \in [Threads -> Labels] /\ can \in Int
  BY DEF Inv, TypeOK, Labels
<1>2. IsFiniteSet(Busy) /\ Cardinality(Busy) \in Nat
  BY BusyFinite
<1>3. \A u \in Threads : Uses(u)' <=> Uses(u) /\ u # t
  BY <1>1 DEF Uses, Opening, Freeing
<1>4. OneUser'
  BY <1>1, <1>3 DEF Inv, OneUser, Receiving
<1>5. CASE Uses(t) /\ (can' = can + 1 \/ (can' = can /\ cut'))
  <2>1. Busy' = Busy
    BY <1>1, <1>5 DEF Busy, Uses, Opening, Freeing
  <2>2. Taken /\ ~Taken'
    BY <1>3, <1>5 DEF Inv, OneUser, Taken
  <2>3. Counted'
    BY <1>1, <1>2, <1>5, <2>1, <2>2 DEF Inv, Counted
  <2>4. QED
    BY <1>4, <2>3
<1>6. CASE pc[t] = "busy" /\ can' = can + 1
  <2>1. Busy' = Busy \ {t} /\ t \in Busy
    BY <1>1, <1>6 DEF Busy
  <2>2. Cardinality(Busy') = Cardinality(Busy) - 1
    BY <1>2, <2>1, FS_RemoveElement
  <2>3. Taken' <=> Taken
    BY <1>3, <1>6 DEF Taken, Uses, Opening, Freeing
  <2>4. Counted'
    BY <1>1, <1>2, <1>6, <2>2, <2>3 DEF Inv, Counted
  <2>5. QED
    BY <1>4, <2>4
<1>7. QED
  BY <1>5, <1>6

\* The file is opened by its user, or closed and has a user again
LEMMA FileStep ==
  ASSUME Inv, NEW t \in Threads, Opened(t) \/ Close(t)
  PROVE  OneUser' /\ Counted'
<1>1. pc \in [Threads -> Labels] /\ can' = can /\ cut' = cut
  BY DEF Inv, TypeOK, Labels, Opened, Close
<1>2. Busy' = Busy
  BY <1>1 DEF Busy, Opened, Close, Begin, Return, Goto
<1>3. CASE Opened(t)
  <2>1. Uses(t) /\ file' /\ pc' = [pc EXCEPT ![t] = "idle"]
    BY <1>3 DEF Opened, Return, Goto, Uses, Opening
  <2>2. \A u \in Threads : ~Uses(u)'
    BY <1>1, <2>1 DEF Inv, OneUser, Uses, Opening, Freeing
  <2>3. OneUser' /\ Taken /\ Taken'
    BY <1>1, <2>1, <2>2 DEF Inv, OneUser, Taken
  <2>4. QED
    BY <1>1, <1>2, <2>3 DEF Counted, Inv
<1>4. CASE Close(t)
  <2>1. /\ file /\ ~file' /\ pc' = [pc EXCEPT ![t] = "mark"]
        /\ \A u \in Threads : pc[u] \notin Receiving
    BY <1>4 DEF Close, Begin, Goto
  <2>2. \A u \in Threads : Uses(u)' <=> u = t
    BY <1>1, <2>1 DEF Inv, OneUser, Uses, Opening, Freeing
  <2>3. OneUser' /\ Taken /\ Taken'
    BY <1>1, <2>1, <2>2 DEF Inv, OneUser, Taken, Receiving
  <2>4. QED
    BY <1>1, <1>2, <2>3 DEF Counted, Inv
<1>5. QED
  BY <1>3, <1>4

-----------------------------------------------------------------------------
(* Type correctness, but for the bound of can_be_opened.                   *)

Whys == {"open", "close", "zero", "timed", "forever"}
Threading ==
  /\ pc \in [Threads -> Labels] /\ why \in [Threads -> Whys]
  /\ woken \in SUBSET Threads /\ reg \in [Threads -> SUBSET Flags]
Plain ==
  /\ can \in Int /\ file \in BOOLEAN
  /\ inst \in BOOLEAN /\ known \in BOOLEAN /\ told \in BOOLEAN
  /\ flags \in SUBSET Flags /\ need_ack \in BOOLEAN /\ used \in BOOLEAN
  /\ done \in BOOLEAN /\ data \in BOOLEAN /\ stuck \in BOOLEAN /\ owed \in BOOLEAN
  /\ rx \in {"idle", "set", "test", "store", "wake", "reply", "answer", "complete", "gone",
             "clear", "cleared", "end"}
  /\ rx_sync \in BOOLEAN /\ rx_reg \in SUBSET Flags /\ rx_lives \in BOOLEAN
  /\ cut \in BOOLEAN

LEMMA RoomLeft == Plain /\ Counted => AtMostOne
  BY Room DEF Plain, AtMostOne

LEMMA Typed == TypeOK <=> Threading /\ Plain /\ can <= 1
  BY DEF TypeOK, Threading, Plain, Labels, Whys

\* The steps of a thread's program counter and of its other variables
LEMMA ThreadMoves ==
  ASSUME Threading, NEW t \in Threads, NEW l \in Labels, pc' = [pc EXCEPT ![t] = l],
         \/ UNCHANGED why
         \/ \E w \in Whys : why' = [why EXCEPT ![t] = w],
         woken' = woken \/ woken' = woken \ {t},
         UNCHANGED reg \/ \E f \in SUBSET Flags : reg' = [reg EXCEPT ![t] = f]
  PROVE  Threading'
<1>1. pc' \in [Threads -> Labels]
  BY DEF Threading
<1>2. why' \in [Threads -> Whys]
  BY DEF Threading
<1>3. reg' \in [Threads -> SUBSET Flags]
  BY DEF Threading
<1>4. QED
  BY <1>1, <1>2, <1>3 DEF Threading

LEMMA OpenTypes ==
  ASSUME Threading, Plain, NEW t \in Threads,
         Open(t) \/ OpenFail(t) \/ Alloc(t) \/ Tell(t) \/ Use(t) \/ Opened(t) \/ GiveUp(t)
  PROVE  Threading' /\ Plain'
<1> USE DEF device, buffer, thread, recv
<1>1. Plain'
  <2>1. CASE Open(t) \/ OpenFail(t)
    BY <2>1 DEF Plain, Open, OpenFail
  <2>2. CASE Alloc(t) \/ Tell(t) \/ Use(t) \/ Opened(t) \/ GiveUp(t)
    <3>1. UNCHANGED <<can, flags, rx, rx_reg>>
      BY <2>2 DEF Alloc, Tell, Use, Opened, GiveUp
    <3>2. file' \in BOOLEAN /\ inst' \in BOOLEAN /\ told' \in BOOLEAN
      BY <2>2 DEF Alloc, Tell, Use, Opened, GiveUp, Plain
    <3>3. known' \in BOOLEAN /\ need_ack' \in BOOLEAN /\ data' \in BOOLEAN
          /\ owed' \in BOOLEAN /\ stuck' \in BOOLEAN
      BY <2>2 DEF Alloc, Tell, Use, Opened, GiveUp, Plain
    <3>4. used' \in BOOLEAN /\ done' \in BOOLEAN
      BY <2>2 DEF Alloc, Tell, Use, Opened, GiveUp, Plain
    <3>5. rx_sync' \in BOOLEAN /\ rx_lives' \in BOOLEAN /\ cut' \in BOOLEAN
      BY <2>2 DEF Alloc, Tell, Use, Opened, GiveUp, Plain
    <3>6. QED
      BY <3>1, <3>2, <3>3, <3>4, <3>5 DEF Plain
  <2>3. QED
    BY <2>1, <2>2
<1>2. \E l \in Labels : pc' = [pc EXCEPT ![t] = l]
  BY DEF Open, OpenFail, Alloc, Tell, Use, Opened, GiveUp, Begin, Return, Goto, Labels, Opening,
         Freeing
<1>3. /\ UNCHANGED why \/ \E w \in Whys : why' = [why EXCEPT ![t] = w]
      /\ woken' = woken \/ woken' = woken \ {t}
      /\ UNCHANGED reg
  BY DEF Open, OpenFail, Alloc, Tell, Use, Opened, GiveUp, Begin, Return, Whys
<1>4. QED
  BY <1>1, <1>2, <1>3, ThreadMoves

LEMMA FreeTypes ==
  ASSUME Threading, Plain, NEW t \in Threads,
         Close(t) \/ Mark(t) \/ FreeLock(t) \/ FreeWait(t) \/ FreeCut(t)
  PROVE  Threading' /\ Plain'
<1> USE DEF device, buffer, thread, recv
<1>1. Plain'
  <2>1. reg[t] \in SUBSET Flags
    BY DEF Threading
  <2>2. CASE Close(t) \/ FreeWait(t) \/ FreeCut(t)
    <3>1. UNCHANGED <<can, flags, rx, rx_reg>>
      BY <2>2 DEF Close, FreeWait, FreeCut
    <3>2. file' \in BOOLEAN /\ inst' \in BOOLEAN /\ told' \in BOOLEAN
      BY <2>2 DEF Close, FreeWait, FreeCut, Plain
    <3>3. known' \in BOOLEAN /\ need_ack' \in BOOLEAN /\ data' \in BOOLEAN
          /\ owed' \in BOOLEAN /\ stuck' \in BOOLEAN
      BY <2>2 DEF Close, FreeWait, FreeCut, Plain
    <3>4. used' \in BOOLEAN /\ done' \in BOOLEAN
      BY <2>2 DEF Close, FreeWait, FreeCut, Plain
    <3>5. rx_sync' \in BOOLEAN /\ rx_lives' \in BOOLEAN /\ cut' \in BOOLEAN
      BY <2>2 DEF Close, FreeWait, FreeCut, Plain
    <3>6. QED
      BY <3>1, <3>2, <3>3, <3>4, <3>5 DEF Plain
  <2>3. CASE Mark(t)
    <3>1. flags' \in SUBSET Flags
      BY <2>1, <2>3 DEF Mark, Plain, Flags
    <3>2. QED
      BY <2>3, <3>1 DEF Mark, Plain
  <2>4. CASE FreeLock(t)
    <3>1. can' \in Int /\ flags' \in SUBSET Flags
      BY <2>4 DEF FreeLock, Freed, Plain
    <3>2. /\ inst' \in BOOLEAN /\ told' \in BOOLEAN /\ used' \in BOOLEAN /\ need_ack' \in BOOLEAN
          /\ rx_lives' \in BOOLEAN
      BY <2>4 DEF FreeLock, Plain
    <3>3. UNCHANGED <<file, known, done, data, rx, rx_sync, rx_reg, fault>> /\ owed' \in BOOLEAN
      BY <2>4 DEF FreeLock, Plain
    <3>4. QED
      BY <3>1, <3>2, <3>3 DEF Plain
  <2>5. QED
    BY <2>2, <2>3, <2>4
<1>2. \E l \in Labels : pc' = [pc EXCEPT ![t] = l]
  BY DEF Close, Mark, FreeLock, Freed, FreeWait, FreeCut, Begin, Return, Goto, Labels, Freeing
<1>3. /\ UNCHANGED why \/ \E w \in Whys : why' = [why EXCEPT ![t] = w]
      /\ woken' = woken \/ woken' = woken \ {t}
  BY DEF Close, Mark, FreeLock, Freed, FreeWait, FreeCut, Begin, Return, Whys
<1>4. UNCHANGED reg \/ \E f \in SUBSET Flags : reg' = [reg EXCEPT ![t] = f]
  BY DEF Close, Mark, FreeLock, FreeWait, FreeCut, Plain
<1>5. QED
  BY <1>1, <1>2, <1>3, <1>4, ThreadMoves

Receives(t) ==
  \/ \E w \in {"zero", "timed", "forever"} : Receive(t, w)
  \/ ReceiveLock(t) \/ ReceiveWait(t) \/ ReceiveTimeout(t) \/ ReceiveCut(t) \/ ReceiveAck(t)

LEMMA ReceiveTypes ==
  ASSUME Threading, Plain, NEW t \in Threads, Receives(t)
  PROVE  Threading' /\ Plain'
<1> USE DEF device, buffer, thread, recv, Quiet
<1>1. Plain'
  <2>1. UNCHANGED <<can, flags, rx, rx_reg>>
    BY DEF Receives, Receive, ReceiveLock, ReceiveWait, ReceiveTimeout, ReceiveCut, ReceiveAck
  <2>2. file' \in BOOLEAN /\ inst' \in BOOLEAN /\ told' \in BOOLEAN
    BY DEF Receives, Receive, ReceiveLock, ReceiveWait, ReceiveTimeout, ReceiveCut, ReceiveAck,
           Plain
  <2>3. known' \in BOOLEAN /\ need_ack' \in BOOLEAN /\ data' \in BOOLEAN
        /\ owed' \in BOOLEAN /\ stuck' \in BOOLEAN
    BY DEF Receives, Receive, ReceiveLock, ReceiveWait, ReceiveTimeout, ReceiveCut, ReceiveAck,
           Plain
  <2>4. used' \in BOOLEAN /\ done' \in BOOLEAN
    BY DEF Receives, Receive, ReceiveLock, ReceiveWait, ReceiveTimeout, ReceiveCut, ReceiveAck,
           Plain
  <2>5. rx_sync' \in BOOLEAN /\ rx_lives' \in BOOLEAN /\ cut' \in BOOLEAN
    BY DEF Receives, Receive, ReceiveLock, ReceiveWait, ReceiveTimeout, ReceiveCut, ReceiveAck,
           Plain
  <2>6. QED
    BY <2>1, <2>2, <2>3, <2>4, <2>5 DEF Plain
<1>2. \E l \in Labels : pc' = [pc EXCEPT ![t] = l]
  BY DEF Receives, Receive, ReceiveLock, ReceiveWait, ReceiveTimeout, ReceiveCut, ReceiveAck,
         Begin, Return, Goto, Labels, Receiving
<1>3. /\ UNCHANGED why \/ \E w \in Whys : why' = [why EXCEPT ![t] = w]
      /\ woken' = woken \/ woken' = woken \ {t}
      /\ UNCHANGED reg
  BY DEF Receives, Receive, ReceiveLock, ReceiveWait, ReceiveTimeout, ReceiveCut, ReceiveAck,
         Begin, Return, Whys
<1>4. QED
  BY <1>1, <1>2, <1>3, ThreadMoves

RxSteps == RxCreated \/ RxDestroyed \/ (\E sync \in BOOLEAN : RxTransmitted(sync)) \/ RxStep

LEMMA RxTypes ==
  ASSUME Threading, Plain, RxSteps
  PROVE  Threading' /\ Plain' /\ UNCHANGED <<can, file, inst, pc, cut>>
<1> USE DEF RxSteps, RxStep, RxOnly, RxMove, RxGoto, buffer, recv
<1>1. /\ UNCHANGED <<can, file, inst, pc, told, used, why, reg, cut>>
      /\ woken' \in SUBSET Threads
  BY DEF Threading, RxCreated, RxDestroyed, RxTransmitted, RxComplete, RxSet, RxTest, RxStore,
         RxWake, RxReply, RxClear, RxEnd, Wake
<1>2. /\ known' \in BOOLEAN /\ need_ack' \in BOOLEAN /\ done' \in BOOLEAN /\ data' \in BOOLEAN
      /\ rx_sync' \in BOOLEAN /\ rx_lives' \in BOOLEAN /\ stuck' \in BOOLEAN
  BY DEF Plain, RxCreated, RxDestroyed, RxTransmitted, RxComplete, RxSet, RxTest, RxStore,
         RxWake, RxReply, RxClear, RxEnd
<1>3. owed' \in BOOLEAN
  BY DEF Plain, RxCreated, RxDestroyed, RxTransmitted, RxComplete, RxSet, RxTest, RxStore,
         RxWake, RxReply, RxClear, RxEnd
<1>4. rx' \in {"idle", "set", "test", "store", "wake", "reply", "answer", "complete", "gone",
               "clear", "cleared", "end"}
  BY DEF Plain, RxCreated, RxDestroyed, RxTransmitted, RxComplete, RxSet, RxTest, RxStore,
         RxWake, RxReply, RxClear, RxEnd
<1>5. flags' \in SUBSET Flags /\ rx_reg' \in SUBSET Flags
  BY DEF Plain, Flags, SetFlags, RxCreated, RxDestroyed, RxTransmitted, RxComplete, RxSet,
         RxTest, RxStore, RxWake, RxReply, RxClear, RxEnd
<1>6. QED
  BY <1>1, <1>2, <1>3, <1>4, <1>5 DEF Threading, Plain

-----------------------------------------------------------------------------
(* One user: the theorem.                                                  *)

LEMMA UseSteps ==
  ASSUME Inv, NEW t \in Threads,
         Alloc(t) \/ Tell(t) \/ Use(t) \/ GiveUp(t) \/ Mark(t) \/ FreeWait(t)
  PROVE  OneUser' /\ Counted'
<1>1. UNCHANGED <<can, file, cut>>
  BY DEF Alloc, Tell, Use, GiveUp, Mark, FreeWait, device
<1>2. Uses(t)
  BY DEF Alloc, Tell, Use, GiveUp, Mark, FreeWait, Uses, Opening, Freeing
<1>3. \E l \in Opening \cup Freeing \cup {"put"} : pc' = [pc EXCEPT ![t] = l]
  BY DEF Alloc, Tell, Use, GiveUp, Mark, FreeWait, Goto, Opening, Freeing
<1>4. QED
  BY <1>1, <1>2, <1>3, SameUse DEF Labels

LEMMA ReceiveSteps ==
  ASSUME Inv, NEW t \in Threads, Receives(t)
  PROVE  OneUser' /\ Counted'
<1>1. UNCHANGED <<can, file, cut>> /\ pc[t] \in {"idle"} \cup Receiving
  BY DEF Receives, Receive, ReceiveLock, ReceiveWait, ReceiveTimeout, ReceiveCut, ReceiveAck,
         Begin, Quiet, device, Receiving
<1>2. \E l \in {"idle"} \cup Receiving : pc' = [pc EXCEPT ![t] = l]
  BY DEF Receives, Receive, ReceiveLock, ReceiveWait, ReceiveTimeout, ReceiveCut, ReceiveAck,
         Begin, Return, Goto, Receiving
<1>3. file
  <2>1. pc[t] \in Receiving => file
    BY DEF Inv, OneUser
  <2>2. pc[t] \in Receiving \/ file
    BY DEF Receives, Receive, ReceiveLock, ReceiveWait, ReceiveTimeout, ReceiveCut, ReceiveAck,
           Receiving
  <2>3. QED
    BY <2>1, <2>2
<1>4. QED
  BY <1>1, <1>2, <1>3, SameUse DEF Labels

LEMMA BackSteps ==
  ASSUME Inv, NEW t \in Threads, OpenFail(t) \/ FreeLock(t) \/ FreeCut(t)
  PROVE  OneUser' /\ Counted'
<1> USE DEF device, buffer, recv
<1>1. CASE OpenFail(t)
  <2>1. /\ pc' = [pc EXCEPT ![t] = "idle"] /\ file' = file /\ can' = can + 1 /\ cut' = cut
        /\ Uses(t) \/ pc[t] = "busy"
    BY <1>1 DEF OpenFail, Return, Goto, Uses
  <2>2. QED
    BY <2>1, GiveBack
<1>2. CASE FreeLock(t) \/ FreeCut(t)
  <2>1. Uses(t) /\ file' = file /\ (cut => cut')
    BY <1>2 DEF FreeLock, FreeCut, Uses, Freeing
  <2>2. \/ /\ pc' = [pc EXCEPT ![t] = "idle"]
           /\ can' = can + 1 \/ (can' = can /\ cut')
        \/ pc' = [pc EXCEPT ![t] = "put"] /\ can' = can
        \/ pc' = [pc EXCEPT ![t] = "fenq"] /\ can' = can
    BY <1>2 DEF FreeLock, FreeCut, Freed, Return, Goto
  <2>3. CASE /\ pc' = [pc EXCEPT ![t] = "idle"]
             /\ can' = can + 1 \/ (can' = can /\ cut')
    BY <2>1, <2>3, GiveBack
  <2>4. CASE /\ can' = can
             /\ pc' = [pc EXCEPT ![t] = "put"] \/ pc' = [pc EXCEPT ![t] = "fenq"]
    BY <2>1, <2>4, SameUse DEF Labels, Freeing
  <2>5. QED
    BY <2>2, <2>3, <2>4
<1>3. QED
  BY <1>1, <1>2

LEMMA NextInv == Inv /\ [Next]_vars => Inv'
<1>1. SUFFICES ASSUME Inv, [Next]_vars PROVE Inv'
  OBVIOUS
<1>2. Threading /\ Plain
  BY <1>1, Typed DEF Inv
<1>3. Threading' /\ Plain' /\ OneUser' /\ Counted'
  <2>1. CASE RxSteps
    BY <1>1, <1>2, <2>1, RxTypes, NoMove
  <2>2. ASSUME NEW t \in Threads, Open(t) PROVE Threading' /\ Plain' /\ OneUser' /\ Counted'
    BY <1>1, <1>2, <2>2, OpenTypes, OpenStep
  <2>3. ASSUME NEW t \in Threads, Opened(t) \/ Close(t)
        PROVE  Threading' /\ Plain' /\ OneUser' /\ Counted'
    BY <1>1, <1>2, <2>3, OpenTypes, FreeTypes, FileStep
  <2>4. ASSUME NEW t \in Threads,
               Alloc(t) \/ Tell(t) \/ Use(t) \/ GiveUp(t) \/ Mark(t) \/ FreeWait(t)
        PROVE  Threading' /\ Plain' /\ OneUser' /\ Counted'
    BY <1>1, <1>2, <2>4, OpenTypes, FreeTypes, UseSteps
  <2>5. ASSUME NEW t \in Threads, OpenFail(t) \/ FreeLock(t) \/ FreeCut(t)
        PROVE  Threading' /\ Plain' /\ OneUser' /\ Counted'
    BY <1>1, <1>2, <2>5, OpenTypes, FreeTypes, BackSteps
  <2>6. ASSUME NEW t \in Threads, Receives(t)
        PROVE  Threading' /\ Plain' /\ OneUser' /\ Counted'
    BY <1>1, <1>2, <2>6, ReceiveTypes, ReceiveSteps
  <2>7. CASE UNCHANGED vars
    <3>1. UNCHANGED <<can, file, pc, cut>>
      BY <2>7 DEF vars, device, thread
    <3>2. OneUser' /\ Counted'
      BY <1>1, <3>1, NoMove
    <3>3. Threading' /\ Plain'
      BY <1>2, <2>7 DEF Threading, Plain, vars, device, buffer, thread, recv
    <3>4. QED
      BY <3>2, <3>3
  <2>8. QED
    BY <1>1, <2>1, <2>2, <2>3, <2>4, <2>5, <2>6, <2>7 DEF Next, Step, Receives, RxSteps
<1>4. can' <= 1
  <2>1. Plain' /\ Counted' => AtMostOne'
    BY RoomLeft, PTL
  <2>2. QED
    BY <1>3, <2>1 DEF AtMostOne
<1>5. TypeOK'
  BY <1>3, <1>4 DEF TypeOK, Threading, Plain, Labels, Whys
<1>6. QED
  BY <1>3, <1>5 DEF Inv

LEMMA Invariant == Spec => []Inv
<1>1. QED
  BY InitInv, NextInv, PTL DEF Spec

\* TypeOK holds for every finite set of threads
THEOREM TypeCorrect == Spec => []TypeOK
<1>1. Inv => TypeOK
  BY DEF Inv
<1>2. QED
  BY Invariant, <1>1, PTL

\* can_be_opened lets one user in at a time, whatever opens, fails and closes in
\* between (OneUser)
THEOREM OneDeviceUser == Spec => []OneUser
<1>1. Inv => OneUser
  BY DEF Inv
<1>2. QED
  BY Invariant, <1>1, PTL

-----------------------------------------------------------------------------
(* Wake-ups and acknowledgements.                                          *)

\* A receiver's program counter, its wake-up and the data
LEMMA WakeupStep == Inv /\ NoLostWakeup /\ [Next]_vars => NoLostWakeup'
<1> USE DEF NoLostWakeup
<1>1. SUFFICES ASSUME Inv, NoLostWakeup, [Next]_vars PROVE NoLostWakeup'
  OBVIOUS
<1>2. pc \in [Threads -> Labels] /\ woken \in SUBSET Threads
  BY <1>1 DEF Inv, TypeOK, Labels
<1>3. ASSUME NEW t \in Threads,
             \/ Open(t) \/ OpenFail(t) \/ Alloc(t) \/ Tell(t) \/ Use(t) \/ Opened(t) \/ GiveUp(t)
             \/ Close(t) \/ Mark(t) \/ FreeLock(t) \/ FreeWait(t) \/ FreeCut(t)
      PROVE  NoLostWakeup'
  <2>1. /\ rx' = rx /\ data' = data /\ woken \ {t} \subseteq woken'
        /\ \E l \in Labels \ {"rsleep"} : pc' = [pc EXCEPT ![t] = l]
    BY <1>2, <1>3 DEF Open, OpenFail, Alloc, Tell, Use, Opened, GiveUp, Close, Mark, FreeLock,
       Freed, FreeWait, FreeCut, Begin, Return, Goto, recv, Labels, Opening, Freeing
  <2>2. QED
    BY <1>1, <1>2, <2>1
<1>4. ASSUME NEW t \in Threads, Receives(t) PROVE NoLostWakeup'
  <2>1. /\ rx' = rx /\ data' \in {data, FALSE} /\ woken \ {t} \subseteq woken'
        /\ \E l \in Labels : pc' = [pc EXCEPT ![t] = l] /\ (l = "rsleep" => ~data)
    BY <1>2, <1>4 DEF Receives, Receive, ReceiveLock, ReceiveWait, ReceiveTimeout, ReceiveCut,
       ReceiveAck, Begin, Return, Goto, Quiet, recv, Labels, Receiving
  <2>2. QED
    BY <1>1, <1>2, <2>1
<1>5. CASE RxSteps
  <2>1. pc' = pc /\ woken \subseteq woken'
    BY <1>5 DEF RxSteps, RxStep, RxOnly, RxCreated, RxDestroyed, RxTransmitted, RxComplete, RxSet,
       RxTest, RxStore, RxWake, RxReply, RxClear, RxEnd, Wake
  <2>2. CASE RxStore
    BY <2>2 DEF RxStore, RxMove, RxGoto
  <2>3. CASE RxWake
    BY <1>2, <2>1, <2>3 DEF RxWake, Wake
  <2>4. CASE ~RxStore /\ ~RxWake
    <3>1. data' = data /\ rx # "wake"
      BY <1>5, <2>4 DEF RxSteps, RxStep, RxCreated, RxDestroyed, RxTransmitted, RxComplete, RxSet,
         RxTest, RxReply, RxClear, RxEnd, RxMove
    <3>2. QED
      BY <1>1, <1>2, <2>1, <3>1
  <2>5. QED
    BY <2>2, <2>3, <2>4
<1>6. CASE UNCHANGED vars
  BY <1>1, <1>6 DEF vars, thread, recv
<1>7. QED
  BY <1>1, <1>3, <1>4, <1>5, <1>6 DEF Next, Step, Receives, RxSteps

\* No receiver sleeps through data (NoLostWakeup)
THEOREM WakeupsKept == Spec => []NoLostWakeup
<1>1. Init => NoLostWakeup
  BY DEF Init, NoLostWakeup
<1>2. QED
  BY Invariant, WakeupStep, <1>1, PTL DEF Spec

\* What waits for an acknowledgement is what need_ack says
OwedAsked == TakenIsAcked /\ (owed => need_ack)

LEMMA AckStep == Inv /\ OwedAsked /\ [Next]_vars => OwedAsked'
<1> USE DEF TakenIsAcked, OwedAsked
<1>1. SUFFICES ASSUME Inv, OwedAsked, [Next]_vars PROVE OwedAsked'
  OBVIOUS
<1>2. /\ pc \in [Threads -> Labels] /\ data \in BOOLEAN /\ need_ack \in BOOLEAN
      /\ owed \in BOOLEAN /\ rx_lives \in BOOLEAN
  BY <1>1 DEF Inv, TypeOK, Labels
<1>3. ASSUME NEW t \in Threads,
             \/ Open(t) \/ OpenFail(t) \/ Alloc(t) \/ Tell(t) \/ Use(t) \/ Opened(t) \/ GiveUp(t)
             \/ Close(t) \/ Mark(t) \/ FreeLock(t) \/ FreeWait(t) \/ FreeCut(t)
      PROVE  OwedAsked'
  <2>1. /\ rx' = rx /\ data' = data /\ (UNCHANGED acking \/ ~owed')
        /\ \E l \in Labels : pc' = [pc EXCEPT ![t] = l]
        /\ pc[t] \notin {"ack", "send"}
    BY <1>2, <1>3 DEF Open, OpenFail, Alloc, Tell, Use, Opened, GiveUp, Close, Mark, FreeLock,
       Freed, FreeWait, FreeCut, Begin, Return, Goto, recv, Labels, Opening, Freeing
  <2>2. QED
    BY <1>1, <1>2, <2>1
<1>4. ASSUME NEW t \in Threads, Receives(t) PROVE OwedAsked'
  <2>1. rx' = rx
    BY <1>4 DEF Receives, Receive, ReceiveLock, ReceiveWait, ReceiveTimeout, ReceiveCut,
       ReceiveAck, Quiet, recv
  <2>2. \/ ~owed'
        \/ /\ UNCHANGED acking
           /\ \/ pc' = [pc EXCEPT ![t] = "ack"]
              \/ pc' = [pc EXCEPT ![t] = "send"]
              \/ /\ data' = data /\ (pc[t] \notin {"ack", "send"} \/ ~need_ack)
                 /\ \E l \in Labels : pc' = [pc EXCEPT ![t] = l]
        \/ /\ UNCHANGED need_ack /\ (owed' => owed /\ (~data \/ rx = "store")) /\ data' = FALSE
           /\ pc[t] \notin {"ack", "send"}
           /\ \E l \in Labels : pc' = [pc EXCEPT ![t] = l]
    BY <1>4 DEF Receives, Receive, ReceiveLock, ReceiveWait, ReceiveTimeout, ReceiveCut,
       ReceiveAck, Begin, Return, Goto, Labels, Receiving
  <2>3. QED
    BY <1>1, <1>2, <2>1, <2>2
<1>5. CASE RxSteps
  <2>1. pc' = pc
    BY <1>5 DEF RxSteps, RxStep, RxOnly, RxCreated, RxDestroyed, RxTransmitted, RxComplete, RxSet,
       RxTest, RxStore, RxWake, RxReply, RxClear, RxEnd
  <2>2. CASE RxStore
    <3>1. data' /\ UNCHANGED acking
      BY <2>2 DEF RxStore
    <3>2. QED
      BY <1>1, <3>1
  <2>3. CASE RxTest
    BY <1>1, <1>2, <2>1, <2>3 DEF RxTest, RxMove, RxGoto
  <2>4. CASE ~RxStore /\ ~RxTest
    <3>1. /\ data' = data /\ rx # "store"
          /\ UNCHANGED acking \/ (owed' => owed /\ (need_ack => need_ack'))
      BY <1>5, <2>4 DEF RxSteps, RxStep, RxCreated, RxDestroyed, RxTransmitted, RxComplete, RxSet,
         RxWake, RxReply, RxClear, RxEnd, RxMove
    <3>2. QED
      BY <1>1, <1>2, <2>1, <3>1
  <2>5. QED
    BY <2>2, <2>3, <2>4
<1>6. CASE UNCHANGED vars
  BY <1>1, <1>6 DEF vars, thread, recv
<1>7. QED
  BY <1>1, <1>3, <1>4, <1>5, <1>6 DEF Next, Step, Receives, RxSteps

\* However many receive, and whatever arrives in between, data that asked for an
\* acknowledgement are not taken without a try to send one, unless they could not be
\* copied to user space (TakenIsAcked)
THEOREM AcksKept == Spec => []TakenIsAcked
<1>1. Init => OwedAsked
  BY DEF Init, TakenIsAcked, OwedAsked
<1>2. OwedAsked => TakenIsAcked
  BY DEF OwedAsked
<1>3. QED
  BY Invariant, AckStep, <1>1, <1>2, PTL DEF Spec

-----------------------------------------------------------------------------
(* What is left behind.                                                    *)

\* A buffer has somebody who frees it, unless a signal cut a wait short: the
\* open file, or the thread that opens or closes it
Holds(t) == pc[t] \in (Opening \ {"alloc"}) \cup Freeing
Held == inst /\ ~cut => file \/ \E t \in Threads : Holds(t)

LEMMA HeldStep == Inv /\ Held /\ [Next]_vars => Held'
<1>1. SUFFICES ASSUME Inv, Held, [Next]_vars PROVE Held'
  OBVIOUS
<1>2. pc \in [Threads -> Labels] /\ OneUser
  BY <1>1 DEF Inv, TypeOK, Labels
\* The buffer stays, and who holds it goes on holding it
<1>3. ASSUME NEW t \in Threads, inst' = inst, file' = file, cut => cut',
             \E l \in Labels : pc' = [pc EXCEPT ![t] = l], Holds(t) => Holds(t)'
      PROVE  Held'
  BY <1>1, <1>2, <1>3 DEF Held, Holds
<1>4. ASSUME NEW t \in Threads, Open(t) \/ OpenFail(t) \/ Receives(t) PROVE Held'
  <2>1. /\ inst' = inst /\ file' = file /\ cut' = cut /\ ~Holds(t)
        /\ \E l \in Labels : pc' = [pc EXCEPT ![t] = l]
    BY <1>4 DEF Open, OpenFail, Receives, Receive, ReceiveLock, ReceiveWait, ReceiveTimeout,
       ReceiveCut, ReceiveAck, Begin, Return, Goto, Quiet, device, buffer, Holds, Labels,
       Opening, Freeing, Receiving
  <2>2. QED
    BY <1>3, <2>1
<1>5. ASSUME NEW t \in Threads, Alloc(t) PROVE Held'
  <2>1. pc[t] = "alloc" /\ file' = file /\ cut' = cut
    BY <1>5 DEF Alloc
  <2>2. CASE inst' /\ \E l \in {"tell", "tellnow"} : pc' = [pc EXCEPT ![t] = l]
    BY <1>2, <2>2 DEF Held, Holds, Opening
  <2>3. CASE inst' = inst /\ pc' = [pc EXCEPT ![t] = "put"]
    BY <1>3, <2>1, <2>3 DEF Holds, Opening, Freeing, Labels
  <2>4. QED
    BY <1>5, <2>2, <2>3 DEF Alloc, Goto, buffer
<1>6. ASSUME NEW t \in Threads,
             Tell(t) \/ Use(t) \/ GiveUp(t) \/ Mark(t) \/ FreeWait(t)
      PROVE  Held'
  <2>1. /\ inst' = inst /\ file' = file /\ cut' = cut
        /\ \E l \in (Opening \ {"alloc"}) \cup Freeing : pc' = [pc EXCEPT ![t] = l]
    BY <1>6 DEF Tell, Use, GiveUp, Mark, FreeWait, Goto, device, buffer, Opening, Freeing
  <2>2. Holds(t)' /\ \E l \in Labels : pc' = [pc EXCEPT ![t] = l]
    BY <1>2, <2>1 DEF Holds, Labels
  <2>3. QED
    BY <1>3, <2>1, <2>2
<1>7. ASSUME NEW t \in Threads, Opened(t) PROVE Held'
  BY <1>7 DEF Opened, Held
<1>8. ASSUME NEW t \in Threads, Close(t) PROVE Held'
  BY <1>2, <1>8 DEF Close, Begin, Goto, Held, Holds, Freeing
<1>9. ASSUME NEW t \in Threads, FreeLock(t) PROVE Held'
  <2>1. CASE ~inst'
    BY <2>1 DEF Held
  <2>2. CASE pc[t] = "lock" /\ Goto(t, "fenq") /\ UNCHANGED buffer
    <3>1. inst' = inst /\ file' = file /\ cut' = cut /\ Holds(t)'
      BY <1>2, <1>9, <2>2 DEF FreeLock, Goto, buffer, Holds, Freeing
    <3>2. QED
      BY <1>3, <2>2, <3>1 DEF Goto, Labels, Freeing
  <2>3. QED
    BY <1>9, <2>1, <2>2 DEF FreeLock
<1>10. ASSUME NEW t \in Threads, FreeCut(t) PROVE Held'
  BY <1>10 DEF FreeCut, Held
<1>11. CASE RxSteps
  <2>1. UNCHANGED <<inst, file, pc, cut>>
    BY <1>1, <1>11, RxTypes, Typed DEF Inv
  <2>2. QED
    BY <1>1, <2>1 DEF Held, Holds
<1>12. CASE UNCHANGED vars
  BY <1>1, <1>12 DEF Held, Holds, vars, device, buffer, thread
<1>13. QED
  BY <1>1, <1>4, <1>5, <1>6, <1>7, <1>8, <1>9, <1>10, <1>11, <1>12
     DEF Next, Step, Receives, RxSteps

LEMMA HeldNothingLeft == Inv /\ Held => NothingLeft
<1>1. SUFFICES ASSUME Inv, Held, ~file, ~cut, \A t \in Threads : pc[t] = "idle"
               PROVE  can = 1 /\ ~inst
  BY DEF NothingLeft
<1>2. Busy = {} /\ ~Taken /\ \A t \in Threads : ~Holds(t)
  BY <1>1 DEF Busy, Taken, Uses, Holds, Opening, Freeing
<1>3. can = 1
  BY <1>1, <1>2, FS_EmptySet DEF Inv, Counted
<1>4. QED
  BY <1>1, <1>2, <1>3 DEF Held

\* After whatever fails, gives up or is closed, in any order and by any threads, a
\* device that nobody uses is free to be opened and has no buffer: open and release
\* (rpbuf_dev.c) undo what they did on each of their ways out, but for a signal that
\* ends the wait of rpbuf_free_buffer and for an allocation of payload memory that
\* fails and leaves controller_lock locked (NothingLeft)
THEOREM NothingStays == Spec => []NothingLeft
<1>1. Init => Held
  BY DEF Init, Held
<1>2. QED
  BY Invariant, HeldStep, HeldNothingLeft, <1>1, PTL DEF Spec
=============================================================================

--------------------------- MODULE VirtioTxProofs ---------------------------
(***************************************************************************)
(* Theorems about VirtioTx for every number of senders and buffers: no     *)
(* transmit buffer is lost or shared, no wake-up is lost, and the buffers  *)
(* implement TxPool.                                                       *)
(***************************************************************************)
EXTENDS VirtioTx, SequenceTheorems, FiniteSetTheorems, TLAPS

-----------------------------------------------------------------------------
(* Sequences without repetition.                                           *)

Distinct(s) == \A i, j \in DOMAIN s : s[i] = s[j] => i = j

LEMMA Appended ==
  ASSUME NEW S, NEW s \in Seq(S), NEW x \in S
  PROVE  /\ Append(s, x) \in Seq(S)
         /\ Elems(Append(s, x)) = Elems(s) \cup {x}
         /\ Distinct(s) /\ x \notin Elems(s) => Distinct(Append(s, x))
<1> DEFINE a == Append(s, x)
<1>1. /\ a \in Seq(S) /\ Len(a) = Len(s) + 1 /\ DOMAIN a = 1..(Len(s) + 1)
      /\ \A i \in 1..Len(s) : a[i] = s[i]
      /\ a[Len(s) + 1] = x /\ DOMAIN s = 1..Len(s) /\ Len(s) \in Nat
  BY AppendProperties, LenProperties
<1> HIDE DEF a
<1>2. Elems(a) = Elems(s) \cup {x}
  BY <1>1 DEF Elems
<1>3. Distinct(s) /\ x \notin Elems(s) => Distinct(a)
  BY <1>1 DEF Elems, Distinct
<1>4. QED
  BY <1>1, <1>2, <1>3 DEF a

LEMMA Beheaded ==
  ASSUME NEW S, NEW s \in Seq(S), s # << >>
  PROVE  /\ Tail(s) \in Seq(S) /\ Head(s) \in Elems(s) /\ Head(s) \in S
         /\ Elems(Tail(s)) \subseteq Elems(s)
         /\ Elems(s) = Elems(Tail(s)) \cup {Head(s)}
         /\ Distinct(s) => Distinct(Tail(s)) /\ Head(s) \notin Elems(Tail(s))
<1> DEFINE a == Tail(s)
<1>1. /\ a \in Seq(S) /\ Len(a) = Len(s) - 1 /\ DOMAIN a = 1..(Len(s) - 1)
      /\ \A i \in 1..(Len(s) - 1) : a[i] = s[i + 1]
      /\ Head(s) = s[1] /\ DOMAIN s = 1..Len(s) /\ Len(s) \in Nat /\ Len(s) >= 1
      /\ Head(s) \in S
  BY HeadTailProperties, EmptySeq, LenProperties
<1> HIDE DEF a
<1>2. Head(s) \in Elems(s) /\ Elems(a) \subseteq Elems(s)
  BY <1>1 DEF Elems
<1>3. Elems(s) \subseteq Elems(a) \cup {Head(s)}
  <2>1. SUFFICES ASSUME NEW i \in 1..Len(s), i # 1
                 PROVE  s[i] \in Elems(a)
    BY <1>1 DEF Elems
  <2>2. i - 1 \in 1..(Len(s) - 1) /\ a[i - 1] = s[i]
    BY <1>1, <2>1
  <2>3. QED
    BY <2>2, <1>1 DEF Elems
<1>4. Distinct(s) => Distinct(a)
  <2>1. SUFFICES ASSUME Distinct(s), NEW i \in 1..(Len(s) - 1), NEW j \in 1..(Len(s) - 1),
                        a[i] = a[j]
                 PROVE  i = j
    BY <1>1 DEF Distinct
  <2>2. i + 1 \in 1..Len(s) /\ j + 1 \in 1..Len(s) /\ s[i + 1] = s[j + 1]
    BY <1>1, <2>1
  <2>3. i + 1 = j + 1
    BY <1>1, <2>1, <2>2 DEF Distinct
  <2>4. QED
    BY <2>3
<1>5. Distinct(s) => Head(s) \notin Elems(a)
  <2>1. SUFFICES ASSUME Distinct(s), NEW i \in 1..(Len(s) - 1), a[i] = Head(s)
                 PROVE  FALSE
    BY <1>1 DEF Elems
  <2>2. i + 1 = 1
    BY <1>1, <2>1 DEF Distinct
  <2>3. QED
    BY <2>2
<1>6. QED
  BY <1>1, <1>2, <1>3, <1>4, <1>5 DEF a

LEMMA Size ==
  ASSUME NEW S, NEW s \in Seq(S), Distinct(s)
  PROVE  IsFiniteSet(Elems(s)) /\ Cardinality(Elems(s)) = Len(s)
<1>1. DOMAIN s = 1..Len(s) /\ Len(s) \in Nat /\ \A i \in 1..Len(s) : s[i] \in Elems(s)
  BY LenProperties DEF Elems
<1>2. s \in [1..Len(s) -> Elems(s)]
  BY <1>1, LenProperties
<1>3. s \in Bijection(1..Len(s), Elems(s))
  BY <1>1, <1>2 DEF Bijection, Injection, IsInjective, Surjection, Distinct, Elems
<1>4. ExistsBijection(1..Len(s), Elems(s))
  BY <1>3 DEF ExistsBijection
<1>5. IsFiniteSet(1..Len(s)) /\ Cardinality(1..Len(s)) = Len(s)
  BY <1>1, FS_Interval
<1>6. QED
  BY <1>4, <1>5, FS_Bijection

-----------------------------------------------------------------------------
(* The inductive invariant.                                                *)

\* A thread holds a buffer exactly from the step that takes it to Post
Holds(t) == msg[t] # NoBuf
Hands ==
  \A t \in Senders :
    /\ pc[t] \in {"idle", "get", "up", "try", "enq", "check", "sleep"} => ~Holds(t)
    /\ pc[t] \in {"fill", "post"} => Holds(t)

\* The five places exclude each other and contain every buffer
Apart ==
  /\ Distinct(avail) /\ Distinct(used)
  /\ \A t, u \in Senders : Holds(t) /\ msg[t] = msg[u] => t = u
  /\ \A t \in Senders : Holds(t) =>
       /\ msg[t] < last_sbuf
       /\ msg[t] \notin Elems(avail) \cup reading \cup Elems(used)
  /\ \A b \in Elems(avail) : b < last_sbuf /\ b \notin reading \cup Elems(used)
  /\ \A b \in reading : b < last_sbuf /\ b \notin Elems(used)
  /\ \A b \in Elems(used) : b < last_sbuf
Covered ==
  \A b \in Bufs : b < last_sbuf =>
    b \in Elems(avail) \cup reading \cup Elems(used) \/ \E t \in Senders : msg[t] = b

\* The sleepers are counted, and the interrupt is enabled for them
Sleepy == {t \in Senders : pc[t] \in Waiting}
Counted == sleepers = Cardinality(Sleepy) /\ (cb <=> sleepers > 0)

Inv == TypeOK /\ Hands /\ Apart /\ Covered /\ Counted /\ NoLostWakeup

LEMMA Numbers ==
  /\ \A b \in Bufs : b \in Nat /\ b < NBufs /\ b # NoBuf
  /\ \A n \in 0..NBufs : n < NBufs => n \in Bufs /\ n + 1 \in 0..NBufs
BY ConstantsAssumption DEF Bufs

LEMMA CountedSet == IsFiniteSet(Sleepy) /\ Cardinality(Sleepy) \in Nat
BY ConstantsAssumption, FS_Subset, FS_CardinalityType DEF Sleepy

\* As long as somebody sleeps the count is positive
LEMMA Somebody ==
  ASSUME Counted, NEW t \in Senders, pc[t] \in Waiting
  PROVE  sleepers > 0 /\ cb
<1>1. Sleepy # {}
  BY DEF Sleepy
<1>2. Cardinality(Sleepy) # 0
  BY <1>1, CountedSet, FS_EmptySet
<1>3. QED
  BY <1>2, CountedSet DEF Counted

-----------------------------------------------------------------------------
(* Taking a buffer.                                                        *)

\* What a thread without a buffer finds out about the one it takes: nobody has
\* it, and then it has it
LEMMA Taken ==
  ASSUME Inv, NEW t \in Senders, ~Holds(t), TakeBuf(t)
  PROVE  LET b == msg'[t] IN
         /\ b \in Bufs /\ msg' = [msg EXCEPT ![t] = b]
         /\ last_sbuf' \in 0..NBufs /\ used' \in Seq(Bufs) /\ Distinct(used')
         /\ last_sbuf <= last_sbuf' /\ b < last_sbuf'
         /\ b \notin Elems(avail) \cup reading /\ \A u \in Senders : msg[u] # b
         /\ b >= last_sbuf \/ b \in Elems(used)
         /\ b \notin Elems(used')
         /\ \A c \in Bufs : c # b => /\ c < last_sbuf' <=> c < last_sbuf
                                     /\ c \in Elems(used') <=> c \in Elems(used)
         /\ Elems(used') \subseteq Elems(used)
         /\ used' # << >> => used # << >>
<1>1. CASE last_sbuf < NBufs
  <2>1. /\ msg' = [msg EXCEPT ![t] = last_sbuf] /\ last_sbuf' = last_sbuf + 1
        /\ used' = used
    BY <1>1 DEF TakeBuf
  <2>2. last_sbuf \in Bufs /\ last_sbuf \in Nat /\ last_sbuf + 1 \in 0..NBufs
    BY <1>1, Numbers DEF Inv, TypeOK
  <2>3. msg'[t] = last_sbuf
    BY <2>1 DEF Inv, TypeOK
  <2>4. /\ last_sbuf \notin Elems(avail) \cup reading \cup Elems(used)
        /\ \A u \in Senders : msg[u] # last_sbuf
    <3>1. \A b \in Elems(avail) \cup reading \cup Elems(used) : b < last_sbuf
      BY DEF Inv, Apart
    <3>2. \A u \in Senders : msg[u] = last_sbuf => Holds(u) /\ msg[u] < last_sbuf
      BY <2>2, Numbers DEF Inv, Apart, Holds
    <3>3. QED
      BY <2>2, <3>1, <3>2
  <2>5. \A c \in Bufs : c # last_sbuf => (c < last_sbuf + 1 <=> c < last_sbuf)
    BY <2>2, Numbers
  <2>6. QED
    BY <2>1, <2>2, <2>3, <2>4, <2>5, Numbers DEF Inv, TypeOK, Apart
<1>2. CASE ~(last_sbuf < NBufs)
  <2>1. /\ msg' = [msg EXCEPT ![t] = Head(used)] /\ last_sbuf' = last_sbuf
        /\ used' = Tail(used) /\ used # << >>
    BY <1>2 DEF TakeBuf, CanGet
  <2>2. used \in Seq(Bufs) /\ Distinct(used)
    BY DEF Inv, TypeOK, Apart
  <2>3. /\ Head(used) \in Bufs /\ Head(used) \in Elems(used)
        /\ used' \in Seq(Bufs) /\ Distinct(used')
        /\ Head(used) \notin Elems(used')
        /\ Elems(used) = Elems(used') \cup {Head(used)}
    BY <2>1, <2>2, Beheaded
  <2>4. msg'[t] = Head(used)
    BY <2>1 DEF Inv, TypeOK
  <2>5. Head(used) < last_sbuf /\ Head(used) \notin Elems(avail) \cup reading
    BY <2>3 DEF Inv, Apart
  <2>6. \A u \in Senders : msg[u] # Head(used)
    <3>1. SUFFICES ASSUME NEW u \in Senders, msg[u] = Head(used) PROVE FALSE
      OBVIOUS
    <3>2. Holds(u)
      BY <3>1, <2>3, Numbers DEF Holds
    <3>3. QED
      BY <3>1, <3>2, <2>3 DEF Inv, Apart
  <2>7. QED
    BY <2>1, <2>2, <2>3, <2>4, <2>5, <2>6 DEF Inv, TypeOK
<1>3. QED
  BY <1>1, <1>2

LEMMA TakeKeeps ==
  ASSUME Inv, NEW t \in Senders, ~Holds(t), TakeBuf(t), UNCHANGED <<avail, reading>>
  PROVE  Apart' /\ Covered'
<1> DEFINE b == msg'[t]
<1>1. /\ b \in Bufs /\ msg' = [msg EXCEPT ![t] = b]
      /\ last_sbuf' \in 0..NBufs /\ Distinct(used')
      /\ last_sbuf <= last_sbuf' /\ b < last_sbuf'
      /\ b \notin Elems(avail) \cup reading /\ \A u \in Senders : msg[u] # b
      /\ b \notin Elems(used')
      /\ \A c \in Bufs : c # b => /\ c < last_sbuf' <=> c < last_sbuf
                                  /\ c \in Elems(used') <=> c \in Elems(used)
      /\ Elems(used') \subseteq Elems(used)
  BY Taken
<1>2. \A u \in Senders : msg'[u] = IF u = t THEN b ELSE msg[u]
  BY <1>1 DEF Inv, TypeOK
<1> HIDE DEF b
<1>3. /\ last_sbuf \in Nat /\ last_sbuf' \in Nat
      /\ \A c \in Elems(avail) \cup reading \cup Elems(used) : c \in Bufs /\ c < last_sbuf
      /\ \A u \in Senders : msg[u] \in Bufs \cup {NoBuf}
  <2>1. Elems(avail) \subseteq Bufs /\ Elems(used) \subseteq Bufs
    BY LenProperties DEF Inv, TypeOK, Elems
  <2>2. QED
    BY <1>1, <2>1 DEF Inv, TypeOK, Apart
<1>4. \A c \in Bufs : c < last_sbuf => c < last_sbuf'
  BY <1>1, <1>3, Numbers
<1>5. \A u \in Senders : msg'[u] # NoBuf =>
        /\ msg'[u] < last_sbuf'
        /\ msg'[u] \notin Elems(avail) \cup reading \cup Elems(used')
  <2>1. SUFFICES ASSUME NEW u \in Senders, msg'[u] # NoBuf, u # t
                 PROVE  /\ msg[u] < last_sbuf'
                        /\ msg[u] \notin Elems(avail) \cup reading \cup Elems(used')
    BY <1>1, <1>2
  <2>2. msg[u] \in Bufs /\ msg[u] < last_sbuf
        /\ msg[u] \notin Elems(avail) \cup reading \cup Elems(used)
    BY <2>1, <1>2, <1>3 DEF Inv, Apart, Holds
  <2>3. QED
    BY <2>2, <1>1, <1>4
<1>6. \A u, w \in Senders : msg'[u] # NoBuf /\ msg'[u] = msg'[w] => u = w
  BY <1>1, <1>2 DEF Inv, Apart, Holds
<1>7. Apart'
  BY <1>1, <1>3, <1>4, <1>5, <1>6 DEF Inv, Apart, Holds
<1>8. Covered'
  <2>1. SUFFICES ASSUME NEW c \in Bufs, c < last_sbuf', c # b
                 PROVE  \/ c \in Elems(avail) \cup reading \cup Elems(used')
                        \/ \E u \in Senders : msg'[u] = c
    BY <1>2 DEF Covered
  <2>2. c < last_sbuf
    BY <2>1, <1>1
  <2>3. CASE c \in Elems(avail) \cup reading \cup Elems(used)
    BY <2>1, <2>3, <1>1
  <2>4. CASE \E u \in Senders : msg[u] = c
    <3>1. PICK u \in Senders : msg[u] = c
      BY <2>4
    <3>2. u # t
      BY <3>1, <2>1, Numbers DEF Holds
    <3>3. QED
      BY <3>1, <3>2, <1>2
  <2>5. QED
    BY <2>2, <2>3, <2>4 DEF Inv, Covered
<1>9. QED
  BY <1>7, <1>8

\* The places of the buffers, when no step touches them
LEMMA PlacesStay ==
  ASSUME Apart, Covered, UNCHANGED <<last_sbuf, avail, reading, used, msg>>
  PROVE  Apart' /\ Covered'
BY DEF Apart, Covered, Holds

\* The count, when a thread moves without falling asleep or waking up
LEMMA CountStays ==
  ASSUME TypeOK, Counted, NEW t \in Senders, NEW l, pc' = [pc EXCEPT ![t] = l],
         pc[t] \in Waiting <=> l \in Waiting, UNCHANGED <<sleepers, cb>>
  PROVE  Counted'
<1>1. Sleepy' = Sleepy
  BY DEF Sleepy, TypeOK
<1>2. QED
  BY <1>1 DEF Counted

\* Wake-ups, when nobody is put to sleep and no buffer is returned
LEMMA WakeupStays ==
  ASSUME NoLostWakeup, UNCHANGED <<irq, note, cb>>, used' # << >> => used # << >>,
         \A t \in sendq' : pc'[t] = "sleep" => t \in sendq /\ pc[t] = "sleep"
  PROVE  NoLostWakeup'
BY DEF NoLostWakeup

-----------------------------------------------------------------------------
(* The steps of a sender.                                                  *)

LEMMA CallStep ==
  ASSUME Inv, NEW t \in Senders, NEW w \in BOOLEAN, Call(t, w)
  PROVE  Inv'
<1>1. TypeOK'
  BY DEF Inv, TypeOK, Call, Goto, remote, wq
<1>2. Hands'
  BY DEF Inv, TypeOK, Hands, Holds, Call, Goto
<1>3. Apart' /\ Covered'
  BY PlacesStay DEF Inv, Call, remote
<1>4. Counted'
  BY CountStays DEF Inv, Call, Goto, wq, Waiting
<1>5. NoLostWakeup'
  BY WakeupStays DEF Inv, TypeOK, Call, Goto, remote, wq
<1>6. QED
  BY <1>1, <1>2, <1>3, <1>4, <1>5 DEF Inv

LEMMA GetStep ==
  ASSUME Inv, NEW t \in Senders, Get(t)
  PROVE  Inv'
<1>1. ~Holds(t)
  BY DEF Inv, Hands, Get
<1>2. CASE TakeBuf(t) /\ Goto(t, "fill") /\ UNCHANGED sig
  <2>1. /\ msg' = [msg EXCEPT ![t] = msg'[t]] /\ msg'[t] \in Bufs
        /\ last_sbuf' \in 0..NBufs /\ used' \in Seq(Bufs)
        /\ used' # << >> => used # << >>
    BY <1>1, <1>2, Taken
  <2>2. TypeOK'
    BY <1>2, <2>1 DEF Inv, TypeOK, Get, Goto, wq
  <2>3. Hands'
    BY <1>2, <2>1, Numbers DEF Inv, TypeOK, Hands, Holds, Goto
  <2>4. Apart' /\ Covered'
    BY <1>1, <1>2, TakeKeeps DEF Get
  <2>5. Counted'
    BY <1>2, CountStays DEF Inv, Get, Goto, wq, Waiting
  <2>6. NoLostWakeup'
    BY <1>2, <2>1, WakeupStays DEF Inv, TypeOK, Get, Goto, wq
  <2>7. QED
    BY <2>2, <2>3, <2>4, <2>5, <2>6 DEF Inv
<1>3. CASE NoBufFor(t) /\ block[t] /\ Goto(t, "up") /\ UNCHANGED sig
  <2>2. TypeOK'
    BY <1>3 DEF Inv, TypeOK, Get, Goto, NoBufFor, wq
  <2>3. Hands'
    BY <1>3 DEF Inv, TypeOK, Hands, Holds, Goto, NoBufFor, Get
  <2>4. Apart' /\ Covered'
    BY <1>3, PlacesStay DEF Inv, Get, NoBufFor
  <2>5. Counted'
    BY <1>3, CountStays DEF Inv, Get, Goto, wq, Waiting
  <2>6. NoLostWakeup'
    BY <1>3, WakeupStays DEF Inv, TypeOK, Get, Goto, NoBufFor, wq
  <2>7. QED
    BY <2>2, <2>3, <2>4, <2>5, <2>6 DEF Inv
<1>4. CASE NoBufFor(t) /\ ~block[t] /\ Return(t)
  <2>2. TypeOK'
    BY <1>4 DEF Inv, TypeOK, Get, Goto, Return, NoBufFor, wq
  <2>3. Hands'
    BY <1>4 DEF Inv, TypeOK, Hands, Holds, Goto, Return, NoBufFor, Get
  <2>4. Apart' /\ Covered'
    BY <1>4, PlacesStay DEF Inv, Get, NoBufFor
  <2>5. Counted'
    BY <1>4, CountStays DEF Inv, Get, Goto, Return, wq, Waiting
  <2>6. NoLostWakeup'
    BY <1>4, WakeupStays DEF Inv, TypeOK, Get, Goto, Return, NoBufFor, wq
  <2>7. QED
    BY <2>2, <2>3, <2>4, <2>5, <2>6 DEF Inv
<1>5. QED
  BY <1>2, <1>3, <1>4 DEF Get

LEMMA UprefStep ==
  ASSUME Inv, NEW t \in Senders, Upref(t)
  PROVE  Inv'
<1>1. TypeOK'
  BY DEF Inv, TypeOK, Upref, Goto, remote, Waiting
<1>2. Hands'
  BY DEF Inv, TypeOK, Hands, Holds, Upref, Goto
<1>3. Apart' /\ Covered'
  BY PlacesStay DEF Inv, Upref, remote
<1>4. Counted'
  <2>1. Sleepy' = Sleepy \cup {t} /\ t \notin Sleepy
    BY DEF Inv, TypeOK, Upref, Goto, Sleepy, Waiting
  <2>2. Cardinality(Sleepy') = Cardinality(Sleepy) + 1
    BY <2>1, CountedSet, FS_AddElement
  <2>3. sleepers \in Nat /\ sleepers' = sleepers + 1 /\ sleepers = Cardinality(Sleepy)
    BY DEF Inv, TypeOK, Counted, Upref
  <2>4. sleepers > 0 \/ sleepers = 0
    BY <2>3
  <2>5. cb' = TRUE
    BY <2>4 DEF Inv, TypeOK, Counted, Upref
  <2>6. QED
    BY <2>2, <2>3, <2>5 DEF Counted
<1>5. NoLostWakeup'
  BY DEF Inv, TypeOK, NoLostWakeup, Upref, Goto, remote
<1>6. QED
  BY <1>1, <1>2, <1>3, <1>4, <1>5 DEF Inv

LEMMA TryStep ==
  ASSUME Inv, NEW t \in Senders, Try(t)
  PROVE  Inv'
<1>1. ~Holds(t)
  BY DEF Inv, Hands, Try
<1>2. CASE TakeBuf(t) /\ Goto(t, "down")
  <2>1. /\ msg' = [msg EXCEPT ![t] = msg'[t]] /\ msg'[t] \in Bufs
        /\ last_sbuf' \in 0..NBufs /\ used' \in Seq(Bufs)
        /\ used' # << >> => used # << >>
    BY <1>1, <1>2, Taken
  <2>2. TypeOK'
    BY <1>2, <2>1 DEF Inv, TypeOK, Try, Goto, wq, Waiting
  <2>3. Hands'
    BY <1>2, <2>1 DEF Inv, TypeOK, Hands, Holds, Goto
  <2>4. Apart' /\ Covered'
    BY <1>1, <1>2, TakeKeeps DEF Try
  <2>5. Counted'
    BY <1>2, CountStays DEF Inv, Try, Goto, wq, Waiting
  <2>6. NoLostWakeup'
    BY <1>2, <2>1, WakeupStays DEF Inv, TypeOK, Try, Goto, wq
  <2>7. QED
    BY <2>2, <2>3, <2>4, <2>5, <2>6 DEF Inv
<1>3. CASE NoBufFor(t) /\ Goto(t, "enq")
  <2>2. TypeOK'
    BY <1>3 DEF Inv, TypeOK, Try, Goto, NoBufFor, wq, Waiting
  <2>3. Hands'
    BY <1>3 DEF Inv, TypeOK, Hands, Holds, Goto, NoBufFor, Try
  <2>4. Apart' /\ Covered'
    BY <1>3, PlacesStay DEF Inv, Try, NoBufFor
  <2>5. Counted'
    BY <1>3, CountStays DEF Inv, Try, Goto, wq, Waiting
  <2>6. NoLostWakeup'
    BY <1>3, WakeupStays DEF Inv, TypeOK, Try, Goto, NoBufFor, wq
  <2>7. QED
    BY <2>2, <2>3, <2>4, <2>5, <2>6 DEF Inv
<1>4. QED
  BY <1>2, <1>3 DEF Try

LEMMA PrepareStep ==
  ASSUME Inv, NEW t \in Senders, Prepare(t)
  PROVE  Inv'
<1>1. TypeOK'
  BY DEF Inv, TypeOK, Prepare, Goto, remote, Waiting
<1>2. Hands'
  BY DEF Inv, TypeOK, Hands, Holds, Prepare, Goto
<1>3. Apart' /\ Covered'
  BY PlacesStay DEF Inv, Prepare, remote
<1>4. Counted'
  BY CountStays DEF Inv, Prepare, Goto, Waiting
<1>5. NoLostWakeup'
  BY WakeupStays DEF Inv, TypeOK, Prepare, Goto, remote
<1>6. QED
  BY <1>1, <1>2, <1>3, <1>4, <1>5 DEF Inv

LEMMA CheckStep ==
  ASSUME Inv, NEW t \in Senders, Check(t)
  PROVE  Inv'
<1>1. ~Holds(t)
  BY DEF Inv, Hands, Check
<1>2. CASE TakeBuf(t) /\ Goto(t, "down") /\ sendq' = sendq \ {t}
  <2>1. /\ msg' = [msg EXCEPT ![t] = msg'[t]] /\ msg'[t] \in Bufs
        /\ last_sbuf' \in 0..NBufs /\ used' \in Seq(Bufs)
        /\ used' # << >> => used # << >>
    BY <1>1, <1>2, Taken
  <2>2. TypeOK'
    BY <1>2, <2>1 DEF Inv, TypeOK, Check, Goto, Waiting
  <2>3. Hands'
    BY <1>2, <2>1 DEF Inv, TypeOK, Hands, Holds, Goto
  <2>4. Apart' /\ Covered'
    BY <1>1, <1>2, TakeKeeps DEF Check
  <2>5. Counted'
    BY <1>2, CountStays DEF Inv, Check, Goto, Waiting
  <2>6. NoLostWakeup'
    BY <1>2, <2>1, WakeupStays DEF Inv, TypeOK, Check, Goto
  <2>7. QED
    BY <2>2, <2>3, <2>4, <2>5, <2>6 DEF Inv
<1>3. CASE NoBufFor(t) /\ why[t] # "none" /\ Goto(t, "down") /\ sendq' = sendq \ {t}
  <2>2. TypeOK'
    BY <1>3 DEF Inv, TypeOK, Check, Goto, NoBufFor, Waiting
  <2>3. Hands'
    BY <1>3 DEF Inv, TypeOK, Hands, Holds, Goto, NoBufFor, Check
  <2>4. Apart' /\ Covered'
    BY <1>3, PlacesStay DEF Inv, Check, NoBufFor
  <2>5. Counted'
    BY <1>3, CountStays DEF Inv, Check, Goto, Waiting
  <2>6. NoLostWakeup'
    BY <1>3, WakeupStays DEF Inv, TypeOK, Check, Goto, NoBufFor
  <2>7. QED
    BY <2>2, <2>3, <2>4, <2>5, <2>6 DEF Inv
<1>4. CASE NoBufFor(t) /\ why[t] = "none" /\ Goto(t, "sleep") /\ UNCHANGED sendq
  <2>2. TypeOK'
    BY <1>4 DEF Inv, TypeOK, Check, Goto, NoBufFor, Waiting
  <2>3. Hands'
    BY <1>4 DEF Inv, TypeOK, Hands, Holds, Goto, NoBufFor, Check
  <2>4. Apart' /\ Covered'
    BY <1>4, PlacesStay DEF Inv, Check, NoBufFor
  <2>5. Counted'
    BY <1>4, CountStays DEF Inv, Check, Goto, Waiting
  <2>6. NoLostWakeup'
    BY <1>4 DEF NoLostWakeup, NoBufFor, CanGet
  <2>7. QED
    BY <2>2, <2>3, <2>4, <2>5, <2>6 DEF Inv
<1>5. QED
  BY <1>2, <1>3, <1>4 DEF Check

LEMMA WakeStep ==
  ASSUME Inv, NEW t \in Senders, Awake(t) \/ Timer(t)
  PROVE  Inv'
<1>1. TypeOK'
  BY DEF Inv, TypeOK, Awake, Timer, Goto, remote, wq, Waiting
<1>2. Hands'
  BY DEF Inv, TypeOK, Hands, Holds, Awake, Timer, Goto
<1>3. Apart' /\ Covered'
  BY PlacesStay DEF Inv, Awake, Timer, remote
<1>4. Counted'
  BY CountStays DEF Inv, Awake, Timer, Goto, wq, Waiting
<1>5. NoLostWakeup'
  BY WakeupStays DEF Inv, TypeOK, Awake, Timer, Goto, remote, wq
<1>6. QED
  BY <1>1, <1>2, <1>3, <1>4, <1>5 DEF Inv

LEMMA DownrefStep ==
  ASSUME Inv, NEW t \in Senders, Downref(t)
  PROVE  Inv'
<1>1. /\ pc[t] \in Waiting /\ pc[t] = "down"
      /\ UNCHANGED <<last_sbuf, avail, reading, used, note, irq, sendq, msg>>
  BY DEF Downref, Waiting, remote
<1>2. PICK l \in {"fill", "idle", "up"} : pc' = [pc EXCEPT ![t] = l]
  BY DEF Downref, Goto, Return
<1>3. sleepers > 0 /\ cb
  BY <1>1, Somebody DEF Inv
<1>4. TypeOK'
  <2>1. sleepers' \in Nat /\ cb' \in BOOLEAN /\ sendq' \in SUBSET Senders
    BY <1>1, <1>3 DEF Inv, TypeOK, Downref
  <2>2. pc' \in [Senders -> {"idle", "get", "up", "fill", "post"} \cup Waiting]
    BY <1>2 DEF Inv, TypeOK
  <2>3. /\ why' \in [Senders -> {"none", "late", "int"}]
        /\ sig' \in [Senders -> BOOLEAN]
    BY DEF Inv, TypeOK, Downref, Return
  <2>4. QED
    BY <1>1, <2>1, <2>2, <2>3 DEF Inv, TypeOK, Downref
<1>5. Hands'
  BY <1>1 DEF Inv, TypeOK, Hands, Holds, Downref, Goto, Return
<1>6. Apart' /\ Covered'
  BY <1>1, PlacesStay DEF Inv
<1>7. Sleepy' = Sleepy \ {t} /\ t \in Sleepy
  BY <1>1, <1>2 DEF Inv, TypeOK, Sleepy, Waiting
<1>8. Cardinality(Sleepy') = Cardinality(Sleepy) - 1
  BY <1>7, CountedSet, FS_RemoveElement
<1>9. Counted'
  <2>1. /\ sleepers \in Nat /\ sleepers > 0 /\ sleepers = Cardinality(Sleepy)
        /\ sleepers' = sleepers - 1
    BY <1>3 DEF Inv, TypeOK, Counted, Downref
  <2>2. sleepers' > 0 <=> sleepers # 1
    BY <2>1
  <2>3. cb' <=> sleepers # 1
    BY <1>3 DEF Downref
  <2>4. QED
    BY <1>8, <2>1, <2>2, <2>3 DEF Counted
<1>10. NoLostWakeup'
  <2>1. SUFFICES ASSUME NEW u \in sendq, pc'[u] = "sleep" PROVE cb'
    BY <1>1, <1>2 DEF Inv, TypeOK, NoLostWakeup
  <2>2. u \in Senders /\ u \in Sleepy'
    BY <2>1, <1>4, <1>1 DEF TypeOK, Sleepy, Waiting
  <2>3. Cardinality(Sleepy') # 0
    BY <2>2, <1>7, CountedSet, FS_EmptySet, FS_RemoveElement
  <2>4. sleepers' > 0
    BY <2>3, <1>9, <1>4 DEF Counted, TypeOK
  <2>5. QED
    BY <2>4, <1>9 DEF Counted
<1>11. QED
  BY <1>4, <1>5, <1>6, <1>9, <1>10 DEF Inv

LEMMA FillStep ==
  ASSUME Inv, NEW t \in Senders, Fill(t)
  PROVE  Inv'
<1>1. TypeOK'
  BY DEF Inv, TypeOK, Fill, Goto, remote, wq
<1>2. Hands'
  BY DEF Inv, TypeOK, Hands, Holds, Fill, Goto
<1>3. Apart' /\ Covered'
  BY PlacesStay DEF Inv, Fill, remote
<1>4. Counted'
  BY CountStays DEF Inv, Fill, Goto, wq, Waiting
<1>5. NoLostWakeup'
  BY WakeupStays DEF Inv, TypeOK, Fill, Goto, remote, wq
<1>6. QED
  BY <1>1, <1>2, <1>3, <1>4, <1>5 DEF Inv

LEMMA SignalStep ==
  ASSUME Inv, NEW t \in Senders, Signal(t)
  PROVE  Inv'
<1>1. /\ UNCHANGED <<last_sbuf, avail, reading, used, note, irq, sleepers, cb, sendq,
                     pc, msg, block, why, data>>
      /\ sig' = [sig EXCEPT ![t] = TRUE]
  BY DEF Signal, remote, wq
<1>2. TypeOK' /\ Hands' /\ Counted' /\ NoLostWakeup'
  BY <1>1 DEF Inv, TypeOK, Hands, Holds, Counted, Sleepy, NoLostWakeup
<1>3. Apart' /\ Covered'
  BY <1>1, PlacesStay DEF Inv
<1>4. QED
  BY <1>2, <1>3 DEF Inv

\* A posted message finds a descriptor
LEMMA Room ==
  ASSUME Inv, NEW t \in Senders, Holds(t)
  PROVE  InRing < RingSize
<1>1. /\ IsFiniteSet(Elems(avail)) /\ Cardinality(Elems(avail)) = Len(avail)
      /\ IsFiniteSet(Elems(used)) /\ Cardinality(Elems(used)) = Len(used)
      /\ Elems(avail) \subseteq Bufs /\ Elems(used) \subseteq Bufs
      /\ Len(avail) \in Nat /\ Len(used) \in Nat
  <2>1. /\ avail \in Seq(Bufs) /\ Distinct(avail)
        /\ used \in Seq(Bufs) /\ Distinct(used)
    BY DEF Inv, TypeOK, Apart
  <2>2. Elems(avail) \subseteq Bufs /\ Elems(used) \subseteq Bufs
    BY <2>1, LenProperties DEF Elems
  <2>3. QED
    BY <2>1, <2>2, Size, LenProperties
<1>2. /\ IsFiniteSet(Bufs) /\ Cardinality(Bufs) = NBufs
      /\ NBufs \in Nat /\ RingSize \in Nat /\ NBufs <= RingSize
  BY FS_Interval, ConstantsAssumption DEF Bufs
<1>3. reading \subseteq Bufs /\ IsFiniteSet(reading)
  BY <1>2, FS_Subset DEF Inv, TypeOK
<1>4. /\ IsFiniteSet(Elems(avail) \cup reading)
      /\ Cardinality(Elems(avail) \cup reading) = Len(avail) + Cardinality(reading)
  <2>1. Elems(avail) \cap reading = {}
    BY DEF Inv, Apart
  <2>2. Cardinality(Elems(avail) \cap reading) = 0
    BY <2>1, FS_EmptySet
  <2>3. /\ IsFiniteSet(Elems(avail) \cup reading)
        /\ Cardinality(Elems(avail) \cup reading)
             = Len(avail) + Cardinality(reading) - Cardinality(Elems(avail) \cap reading)
    BY <1>1, <1>3, FS_Union
  <2>4. Cardinality(reading) \in Nat
    BY <1>3, FS_CardinalityType
  <2>5. QED
    BY <1>1, <2>2, <2>3, <2>4
<1>5. /\ IsFiniteSet((Elems(avail) \cup reading) \cup Elems(used))
      /\ Cardinality((Elems(avail) \cup reading) \cup Elems(used)) = InRing
  <2>1. (Elems(avail) \cup reading) \cap Elems(used) = {}
    BY DEF Inv, Apart
  <2>2. Cardinality((Elems(avail) \cup reading) \cap Elems(used)) = 0
    BY <2>1, FS_EmptySet
  <2>3. /\ IsFiniteSet((Elems(avail) \cup reading) \cup Elems(used))
        /\ Cardinality((Elems(avail) \cup reading) \cup Elems(used))
             = Len(avail) + Cardinality(reading) + Len(used)
               - Cardinality((Elems(avail) \cup reading) \cap Elems(used))
    BY <1>1, <1>4, FS_Union
  <2>4. Cardinality(reading) \in Nat
    BY <1>3, FS_CardinalityType
  <2>5. QED
    BY <1>1, <2>2, <2>3, <2>4 DEF InRing
<1>6. /\ msg[t] \in Bufs
      /\ (Elems(avail) \cup reading) \cup Elems(used) \in SUBSET (Bufs \ {msg[t]})
  BY <1>1, <1>3 DEF Inv, TypeOK, Apart, Holds
<1>7. /\ IsFiniteSet(Bufs \ {msg[t]}) /\ Cardinality(Bufs \ {msg[t]}) = NBufs - 1
  BY <1>2, <1>6, FS_RemoveElement
<1>8. InRing <= NBufs - 1 /\ InRing \in Nat
  BY <1>5, <1>6, <1>7, FS_Subset, FS_CardinalityType
<1>9. QED
  BY <1>2, <1>8

LEMMA PostStep ==
  ASSUME Inv, NEW t \in Senders, Post(t)
  PROVE  Inv'
<1>1. /\ Holds(t) /\ msg[t] \in Bufs
      /\ msg' = [msg EXCEPT ![t] = NoBuf] /\ pc' = [pc EXCEPT ![t] = "idle"]
      /\ UNCHANGED <<last_sbuf, reading, used, note, irq, sleepers, cb, sendq,
                     block, why, data>>
  BY DEF Inv, TypeOK, Hands, Holds, Post, Return, Goto, wq
<1>2. avail' = Append(avail, msg[t])
  BY <1>1, Room DEF Post
<1>3. /\ avail' \in Seq(Bufs) /\ Elems(avail') = Elems(avail) \cup {msg[t]}
      /\ Distinct(avail')
  BY <1>1, <1>2, Appended DEF Inv, TypeOK, Apart
<1>4. TypeOK'
  BY <1>1, <1>3 DEF Inv, TypeOK, Post, Return
<1>5. Hands'
  BY <1>1 DEF Inv, TypeOK, Hands, Holds
<1>6. \A u \in Senders : msg'[u] = IF u = t THEN NoBuf ELSE msg[u]
  BY <1>1 DEF Inv, TypeOK
<1>7. Apart'
  BY <1>1, <1>3, <1>6 DEF Inv, Apart, Holds
<1>8. Covered'
  BY <1>1, <1>3, <1>6, Numbers DEF Inv, Covered
<1>9. Counted'
  BY <1>1, CountStays DEF Inv, Waiting, Post
<1>10. NoLostWakeup'
  BY <1>1, WakeupStays DEF Inv, TypeOK
<1>11. QED
  BY <1>4, <1>5, <1>7, <1>8, <1>9, <1>10 DEF Inv

-----------------------------------------------------------------------------
(* The steps of the remote core and of the interrupt.                      *)

LEMMA RemoteTakeStep ==
  ASSUME Inv, RemoteTake
  PROVE  Inv'
<1>1. /\ avail # << >> /\ avail' = Tail(avail) /\ reading' = reading \cup {Head(avail)}
      /\ UNCHANGED <<last_sbuf, used, note, irq, sleepers, cb, sendq, pc, msg, block,
                     why, sig, data>>
  BY DEF RemoteTake, Local, wq
<1>2. /\ avail' \in Seq(Bufs) /\ Head(avail) \in Bufs
      /\ Elems(avail) = Elems(avail') \cup {Head(avail)}
      /\ Distinct(avail') /\ Head(avail) \notin Elems(avail')
  BY <1>1, Beheaded DEF Inv, TypeOK, Apart
<1>3. TypeOK' /\ Hands' /\ Counted' /\ NoLostWakeup'
  BY <1>1, <1>2 DEF Inv, TypeOK, Hands, Holds, Counted, Sleepy, NoLostWakeup
<1>4. Apart'
  BY <1>1, <1>2 DEF Inv, Apart, Holds
<1>5. Covered'
  BY <1>1, <1>2 DEF Inv, Covered
<1>6. QED
  BY <1>3, <1>4, <1>5 DEF Inv

LEMMA RemotePutStep ==
  ASSUME Inv, NEW b \in Bufs, RemotePut(b)
  PROVE  Inv'
<1>1. /\ b \in reading /\ reading' = reading \ {b} /\ used' = Append(used, b) /\ note'
      /\ UNCHANGED <<last_sbuf, avail, irq, sleepers, cb, sendq, pc, msg, block,
                     why, sig, data>>
  BY DEF RemotePut, Local, wq
<1>2. /\ used' \in Seq(Bufs) /\ Elems(used') = Elems(used) \cup {b} /\ Distinct(used')
  BY <1>1, Appended DEF Inv, TypeOK, Apart
<1>3. TypeOK' /\ Hands' /\ Counted'
  BY <1>1, <1>2 DEF Inv, TypeOK, Hands, Holds, Counted, Sleepy, RemotePut
<1>4. Apart'
  BY <1>1, <1>2 DEF Inv, Apart, Holds
<1>5. Covered'
  BY <1>1, <1>2 DEF Inv, Covered
<1>6. NoLostWakeup'
  <2>1. SUFFICES ASSUME NEW t \in sendq, pc[t] = "sleep" PROVE cb
    BY <1>1 DEF NoLostWakeup
  <2>2. QED
    BY <2>1, Somebody DEF Inv, TypeOK, Waiting
<1>7. QED
  BY <1>3, <1>4, <1>5, <1>6 DEF Inv

LEMMA NotifyStep ==
  ASSUME Inv, RemoteNotify \/ XmitDone
  PROVE  Inv'
<1>1. UNCHANGED <<last_sbuf, avail, reading, used, sleepers, cb, pc, msg, block,
                  why, sig, data>>
  BY DEF RemoteNotify, XmitDone, Local, wq
<1>2. TypeOK' /\ Hands' /\ Counted'
  BY <1>1 DEF Inv, TypeOK, Hands, Holds, Counted, Sleepy, RemoteNotify, XmitDone, Local, wq
<1>3. Apart' /\ Covered'
  BY <1>1, PlacesStay DEF Inv
<1>4. NoLostWakeup'
  BY <1>1 DEF Inv, NoLostWakeup, RemoteNotify, XmitDone, Local, wq
<1>5. QED
  BY <1>2, <1>3, <1>4 DEF Inv

-----------------------------------------------------------------------------
(* The invariant.                                                          *)

LEMMA InitInv == Init => Inv
<1>1. SUFFICES ASSUME Init PROVE Inv
  OBVIOUS
<1>2. /\ Elems(avail) = {} /\ Elems(used) = {} /\ Distinct(avail) /\ Distinct(used)
      /\ avail \in Seq(Bufs) /\ used \in Seq(Bufs)
  BY <1>1, LenProperties, EmptySeq DEF Init, Elems, Distinct
<1>3. TypeOK
  <2>1. /\ last_sbuf \in 0..NBufs /\ sleepers \in Nat
        /\ reading \in SUBSET Bufs /\ sendq \in SUBSET Senders
    BY <1>1, ConstantsAssumption DEF Init
  <2>2. pc \in [Senders -> {"idle", "get", "up", "fill", "post"} \cup Waiting]
    BY <1>1 DEF Init
  <2>3. note \in BOOLEAN /\ cb \in BOOLEAN /\ irq \in BOOLEAN
    BY <1>1 DEF Init
  <2>4. QED
    BY <1>1, <1>2, <2>1, <2>2, <2>3 DEF Init, TypeOK
<1>4. Hands /\ NoLostWakeup
  BY <1>1 DEF Init, Hands, Holds, NoLostWakeup
<1>5. Apart /\ Covered
  BY <1>1, <1>2, Numbers DEF Init, Apart, Covered, Holds
<1>6. Counted
  <2>1. Sleepy = {}
    BY <1>1 DEF Init, Sleepy, Waiting
  <2>2. QED
    BY <1>1, <2>1, FS_EmptySet DEF Init, Counted
<1>7. QED
  BY <1>3, <1>4, <1>5, <1>6 DEF Inv

LEMMA NextStep == Inv /\ [Next]_vars => Inv'
<1>1. SUFFICES ASSUME Inv, [Next]_vars PROVE Inv'
  OBVIOUS
<1>2. ASSUME NEW t \in Senders, NEW w \in BOOLEAN, Call(t, w) PROVE Inv'
  BY <1>1, <1>2, CallStep
<1>3. ASSUME NEW t \in Senders, Step(t) PROVE Inv'
  BY <1>1, <1>3, GetStep, UprefStep, TryStep, PrepareStep, CheckStep, WakeStep,
     DownrefStep, FillStep, PostStep DEF Step
<1>4. ASSUME NEW t \in Senders, Timer(t) \/ Signal(t) PROVE Inv'
  BY <1>1, <1>4, WakeStep, SignalStep
<1>5. ASSUME NEW b \in Bufs, RemotePut(b) PROVE Inv'
  BY <1>1, <1>5, RemotePutStep
<1>6. CASE RemoteTake
  BY <1>1, <1>6, RemoteTakeStep
<1>7. CASE RemoteNotify \/ XmitDone
  BY <1>1, <1>7, NotifyStep
<1>8. CASE UNCHANGED vars
  <2>1. UNCHANGED <<last_sbuf, avail, reading, used, note, irq, sleepers, cb, sendq,
                    pc, msg, block, why, sig, data>>
    BY <1>8 DEF vars, remote, wq
  <2>2. TypeOK' /\ Hands' /\ Counted' /\ NoLostWakeup'
    BY <1>1, <2>1 DEF Inv, TypeOK, Hands, Holds, Counted, Sleepy, NoLostWakeup
  <2>3. QED
    BY <1>1, <2>1, <2>2, PlacesStay DEF Inv
<1>9. QED
  BY <1>1, <1>2, <1>3, <1>4, <1>5, <1>6, <1>7, <1>8 DEF Next

LEMMA Invariant == Spec => []Inv
BY InitInv, NextStep, PTL DEF Spec

\* Every variable keeps its type
THEOREM TypeCorrect == Spec => []TypeOK
BY Invariant, PTL DEF Inv

\* Every transmit buffer is always in exactly one place, however sends, time-outs,
\* signals and the remote core interleave
THEOREM BuffersSafe == Spec => []OnePlace
<1>1. Inv => OnePlace
  <2>1. SUFFICES ASSUME Inv, NEW b \in Bufs
                 PROVE  \E p \in Places(b) : Places(b) = {p}
    BY DEF OnePlace
  <2>2. /\ b \in Nat /\ last_sbuf \in Nat /\ b # NoBuf
    BY <2>1, Numbers DEF Inv, TypeOK
  <2>3. CASE b >= last_sbuf
    <3>1. /\ \A t \in Senders : msg[t] # b
          /\ \A i \in DOMAIN avail : avail[i] # b
          /\ b \notin reading
          /\ \A i \in DOMAIN used : used[i] # b
      <4>1. /\ b \notin Elems(avail) /\ b \notin reading /\ b \notin Elems(used)
        BY <2>1, <2>2, <2>3 DEF Inv, Apart
      <4>2. \A t \in Senders : msg[t] # b
        BY <2>1, <2>2, <2>3 DEF Inv, Apart, Holds
      <4>3. QED
        BY <4>1, <4>2 DEF Elems
    <3>2. Places(b) = {<<"new", b>>}
      BY <2>3, <3>1 DEF Places
    <3>3. QED
      BY <3>2
  <2>4. CASE b < last_sbuf
    <3>1. ~(b >= last_sbuf)
      BY <2>2, <2>4
    <3>2. CASE \E t \in Senders : msg[t] = b
      <4>1. PICK t \in Senders : msg[t] = b
        BY <3>2
      <4>2. \A u \in Senders : msg[u] = b <=> u = t
        BY <2>1, <2>2, <4>1 DEF Inv, Apart, Holds
      <4>3. /\ \A i \in DOMAIN avail : avail[i] # b
            /\ b \notin reading
            /\ \A i \in DOMAIN used : used[i] # b
        BY <2>1, <2>2, <4>1 DEF Inv, Apart, Holds, Elems
      <4>4. Places(b) = {<<"held", t>>}
        BY <3>1, <4>2, <4>3 DEF Places
      <4>5. QED
        BY <4>4
    <3>3. CASE b \in Elems(avail)
      <4>1. PICK i \in DOMAIN avail : avail[i] = b
        BY <3>3 DEF Elems
      <4>2. \A j \in DOMAIN avail : avail[j] = b <=> j = i
        BY <2>1, <4>1 DEF Inv, Apart, Distinct
      <4>3. /\ \A t \in Senders : msg[t] # b
            /\ b \notin reading
            /\ \A j \in DOMAIN used : used[j] # b
        BY <2>1, <2>2, <3>3 DEF Inv, Apart, Holds, Elems
      <4>4. Places(b) = {<<"avail", i>>}
        BY <3>1, <4>2, <4>3 DEF Places
      <4>5. QED
        BY <4>4
    <3>4. CASE b \in reading
      <4>1. /\ \A t \in Senders : msg[t] # b
            /\ \A i \in DOMAIN avail : avail[i] # b
            /\ \A j \in DOMAIN used : used[j] # b
        BY <2>1, <2>2, <3>4 DEF Inv, Apart, Holds, Elems
      <4>2. Places(b) = {<<"reading", b>>}
        BY <3>1, <3>4, <4>1 DEF Places
      <4>3. QED
        BY <4>2
    <3>5. CASE b \in Elems(used)
      <4>1. PICK i \in DOMAIN used : used[i] = b
        BY <3>5 DEF Elems
      <4>2. \A j \in DOMAIN used : used[j] = b <=> j = i
        BY <2>1, <4>1 DEF Inv, Apart, Distinct
      <4>3. /\ \A t \in Senders : msg[t] # b
            /\ b \notin reading
            /\ \A j \in DOMAIN avail : avail[j] # b
        BY <2>1, <2>2, <3>5 DEF Inv, Apart, Holds, Elems
      <4>4. Places(b) = {<<"used", i>>}
        BY <3>1, <4>2, <4>3 DEF Places
      <4>5. QED
        BY <4>4
    <3>6. QED
      BY <2>1, <2>4, <3>2, <3>3, <3>4, <3>5 DEF Inv, Covered
  <2>5. QED
    BY <2>2, <2>3, <2>4
<1>2. QED
  BY <1>1, Invariant, PTL

\* A sender does not sleep on while a buffer is free, unless the remote core or
\* the interrupt is about to wake it
THEOREM WakeupsKept == Spec => []NoLostWakeup
BY Invariant, PTL DEF Inv

\* virtqueue_add_outbuf never fails for want of a descriptor
THEOREM RoomAlways == Spec => []RingHasRoom
<1>1. Inv => RingHasRoom
  BY Room DEF Inv, Hands, RingHasRoom
<1>2. QED
  BY <1>1, Invariant, PTL

\* The interrupt is suppressed while nobody waits for a buffer
THEOREM QuietIdle == Spec => []QuietWhenIdle
<1>1. Inv => QuietWhenIdle
  <2>1. SUFFICES ASSUME Inv, \A t \in Senders : pc[t] \notin Waiting
                 PROVE  ~cb /\ sleepers = 0
    BY DEF QuietWhenIdle
  <2>2. Sleepy = {}
    BY <2>1 DEF Sleepy
  <2>3. QED
    BY <2>1, <2>2, FS_EmptySet DEF Inv, Counted
<1>2. QED
  BY <1>1, Invariant, PTL

-----------------------------------------------------------------------------
(* The refinement of TxPool.                                               *)

\* The owner of a buffer, by the place it is in
Owned(b) ==
  /\ ~(b < last_sbuf) \/ b \in Elems(used) => Own[b] = Free
  /\ \A t \in Senders : msg[t] = b <=> Own[b] = t
  /\ b \in Elems(avail) \cup reading => Own[b] = Remote

LEMMA Owner == Inv => \A b \in Bufs : Owned(b)
<1> SUFFICES ASSUME Inv, NEW b \in Bufs PROVE Owned(b)
  OBVIOUS
<1>1. /\ b \in Nat /\ last_sbuf \in Nat /\ b # NoBuf
      /\ Free # Remote /\ Free \notin Senders /\ Remote \notin Senders
      /\ b >= last_sbuf <=> ~(b < last_sbuf)
  BY Numbers, ConstantsAssumption DEF Inv, TypeOK
<1>2. ~(b < last_sbuf) \/ b \in Elems(used) => Own[b] = Free
  BY <1>1 DEF Own
<1>3. ASSUME NEW t \in Senders, msg[t] = b PROVE Own[b] = t
  <2>1. b < last_sbuf /\ b \notin Elems(used) /\ \A u \in Senders : msg[u] = b => u = t
    BY <1>1, <1>3 DEF Inv, Apart, Holds
  <2>2. Own[b] = CHOOSE u \in Senders : msg[u] = b
    BY <1>1, <1>3, <2>1 DEF Own
  <2>3. QED
    BY <1>3, <2>1, <2>2
<1>4. ASSUME b \in Elems(avail) \cup reading PROVE Own[b] = Remote
  <2>1. b < last_sbuf /\ b \notin Elems(used) /\ \A u \in Senders : msg[u] # b
    BY <1>1, <1>4 DEF Inv, Apart, Holds
  <2>2. QED
    BY <1>1, <2>1 DEF Own
<1>5. ASSUME NEW t \in Senders, Own[b] = t PROVE msg[t] = b
  <2>1. b < last_sbuf /\ b \notin Elems(avail) \cup reading \cup Elems(used)
    BY <1>1, <1>2, <1>4, <1>5
  <2>2. PICK u \in Senders : msg[u] = b
    BY <2>1 DEF Inv, Covered
  <2>3. QED
    BY <1>3, <1>5, <2>2
<1>6. QED
  BY <1>2, <1>3, <1>4, <1>5 DEF Owned

LEMMA OwnerNext == Inv' => \A b \in Bufs : Owned(b)'
<1>1. (Inv => \A b \in Bufs : Owned(b))'
  BY Owner, PTL
<1>2. QED
  BY <1>1 DEF Bufs

\* A buffer that no step moves keeps its owner
LEMMA OwnerStays ==
  ASSUME Inv, Inv', NEW b \in Bufs, b < last_sbuf' <=> b < last_sbuf,
         b \in Elems(used') <=> b \in Elems(used),
         \A t \in Senders : msg'[t] = b <=> msg[t] = b
  PROVE  Own'[b] = Own[b]
<1>1. CASE \E t \in Senders : msg[t] = b
  <2>1. PICK t \in Senders : msg[t] = b /\ msg'[t] = b
    BY <1>1
  <2>2. Own[b] = t
    BY <2>1, Owner DEF Owned
  <2>3. Own'[b] = t
    BY <2>1, OwnerNext DEF Owned
  <2>4. QED
    BY <2>2, <2>3
<1>2. CASE \A t \in Senders : msg[t] # b
  <2>1. b \in Nat /\ last_sbuf \in Nat /\ last_sbuf' \in Nat
    BY Numbers DEF Inv, TypeOK
  <2>2. b >= last_sbuf' <=> b >= last_sbuf
    BY <2>1
  <2>3. QED
    BY <1>2, <2>2 DEF Own
<1>3. QED
  BY <1>1, <1>2

\* A step that moves no buffer to another owner
LEMMA Stutter ==
  ASSUME UNCHANGED <<last_sbuf, used, msg, data>>
  PROVE  UNCHANGED Pool!pool
BY DEF Own, Pool!pool

\* A thread takes a buffer
LEMMA TakeRefines ==
  ASSUME Inv, Inv', NEW t \in Senders, ~Holds(t), TakeBuf(t), UNCHANGED data
  PROVE  \E b \in Bufs : Pool!Acquire(t, b)
<1> DEFINE b == msg'[t]
<1>1. /\ b \in Bufs /\ msg' = [msg EXCEPT ![t] = b]
      /\ \A u \in Senders : msg[u] # b
      /\ b >= last_sbuf \/ b \in Elems(used)
      /\ \A c \in Bufs : c # b => /\ c < last_sbuf' <=> c < last_sbuf
                                  /\ c \in Elems(used') <=> c \in Elems(used)
  BY Taken
<1>2. \A u \in Senders : msg'[u] = IF u = t THEN b ELSE msg[u]
  BY <1>1 DEF Inv, TypeOK
<1> HIDE DEF b
<1>3. Own[b] = Free
  <2>1. b \in Nat /\ last_sbuf \in Nat
    BY <1>1, Numbers DEF Inv, TypeOK
  <2>2. ~(b < last_sbuf) \/ b \in Elems(used)
    BY <1>1, <2>1
  <2>3. QED
    BY <1>1, <2>2, Owner DEF Owned
<1>4. \A c \in Bufs : Own[c] # t
  <2>1. \A c \in Bufs : msg[t] # c
    BY Numbers DEF Holds
  <2>2. QED
    BY <2>1, Owner DEF Owned
<1>5. Own'[b] = t
  BY <1>1, <1>2, OwnerNext DEF Owned
<1>6. \A c \in Bufs : c # b => Own'[c] = Own[c]
  <2>1. SUFFICES ASSUME NEW c \in Bufs, c # b PROVE Own'[c] = Own[c]
    OBVIOUS
  <2>2. \A u \in Senders : msg'[u] = c <=> msg[u] = c
    BY <1>2, <2>1, Numbers DEF Holds
  <2>3. QED
    BY <1>1, <2>1, <2>2, OwnerStays
<1>7. Own' = [Own EXCEPT ![b] = t]
  BY <1>1, <1>5, <1>6 DEF Own, Bufs
<1>8. QED
  BY <1>1, <1>3, <1>4, <1>7 DEF Pool!Acquire

LEMMA FillRefines ==
  ASSUME Inv, Inv', NEW t \in Senders, Fill(t)
  PROVE  \E b \in Bufs : Pool!Write(t, b)
<1>1. /\ msg[t] \in Bufs /\ data' = [data EXCEPT ![msg[t]] = t]
      /\ UNCHANGED <<last_sbuf, used, msg>>
  BY DEF Inv, TypeOK, Hands, Holds, Fill, remote
<1>2. Own[msg[t]] = t
  BY <1>1, Owner DEF Owned
<1>3. UNCHANGED Own
  BY <1>1 DEF Own
<1>4. QED
  BY <1>1, <1>2, <1>3 DEF Pool!Write

\* A message that is about to be posted was written by its sender
Written == \A t \in Senders : pc[t] = "post" => data[msg[t]] = t

LEMMA WrittenStep == Inv /\ Written /\ [Next]_vars => Written'
<1>1. SUFFICES ASSUME Inv, Written, [Next]_vars, NEW t \in Senders, pc'[t] = "post"
               PROVE  data'[msg'[t]] = t
  BY DEF Written
<1>2. CASE \E u \in Senders : Fill(u)
  <2>1. PICK u \in Senders : Fill(u)
    BY <1>2
  <2>2. /\ msg[u] \in Bufs /\ data' = [data EXCEPT ![msg[u]] = u]
        /\ pc' = [pc EXCEPT ![u] = "post"] /\ UNCHANGED msg
    BY <1>1, <2>1 DEF Inv, TypeOK, Hands, Holds, Fill, Goto
  <2>3. CASE u = t
    BY <1>1, <2>2, <2>3 DEF Inv, TypeOK
  <2>4. CASE u # t
    <3>1. pc[t] = "post" /\ Holds(t) /\ msg[t] # msg[u]
      BY <1>1, <2>2, <2>4 DEF Inv, TypeOK, Hands, Apart
    <3>2. QED
      BY <1>1, <2>2, <3>1 DEF Inv, TypeOK, Written
  <2>5. QED
    BY <2>3, <2>4
<1>3. CASE UNCHANGED <<data, pc, msg>>
  BY <1>1, <1>3 DEF Written
<1>4. ASSUME NEW u \in Senders, NEW l, l # "post", pc' = [pc EXCEPT ![u] = l],
             UNCHANGED data, NEW x, msg' = msg \/ msg' = [msg EXCEPT ![u] = x]
      PROVE  data'[msg'[t]] = t
  <2>1. u # t /\ pc[t] = "post"
    BY <1>1, <1>4 DEF Inv, TypeOK
  <2>2. msg'[t] = msg[t]
    BY <1>1, <1>4, <2>1 DEF Inv, TypeOK
  <2>3. QED
    BY <1>1, <1>4, <2>1, <2>2 DEF Written
<1>5. ASSUME NEW u \in Senders, NEW w \in BOOLEAN, Call(u, w)
      PROVE  data'[msg'[t]] = t
  BY <1>4, <1>5 DEF Call, Goto
<1>6. ASSUME NEW u \in Senders, Timer(u) \/ Signal(u) \/ Upref(u) \/ Prepare(u) \/ Awake(u)
      PROVE  data'[msg'[t]] = t
  <2>1. CASE Signal(u)
    BY <1>3, <2>1 DEF Signal
  <2>2. CASE Timer(u) \/ Upref(u) \/ Prepare(u) \/ Awake(u)
    BY <1>4, <2>2 DEF Timer, Upref, Prepare, Awake, Goto
  <2>3. QED
    BY <1>6, <2>1, <2>2
<1>7. ASSUME NEW u \in Senders, Get(u) \/ Try(u) \/ Check(u)
      PROVE  data'[msg'[t]] = t
  <2>1. TakeBuf(u) => msg' = [msg EXCEPT ![u] = last_sbuf]
                      \/ msg' = [msg EXCEPT ![u] = Head(used)]
    BY DEF TakeBuf
  <2>2. NoBufFor(u) => msg' = msg
    BY DEF NoBufFor
  <2>3. UNCHANGED data /\ (TakeBuf(u) \/ NoBufFor(u))
    BY <1>7 DEF Get, Try, Check
  <2>4. PICK l \in {"fill", "up", "idle", "down", "enq", "sleep"} : pc' = [pc EXCEPT ![u] = l]
    BY <1>7 DEF Get, Try, Check, Goto, Return
  <2>5. QED
    BY <1>4, <2>1, <2>2, <2>3, <2>4
<1>8. ASSUME NEW u \in Senders, Downref(u) PROVE data'[msg'[t]] = t
  <2>1. PICK l \in {"fill", "up", "idle"} : pc' = [pc EXCEPT ![u] = l]
    BY <1>8 DEF Downref, Goto, Return
  <2>2. QED
    BY <1>4, <1>8, <2>1 DEF Downref
<1>9. ASSUME NEW u \in Senders, Post(u) PROVE data'[msg'[t]] = t
  BY <1>4, <1>9 DEF Post, Return, Goto
<1>10. CASE RemoteTake \/ RemoteNotify \/ XmitDone \/ \E b \in Bufs : RemotePut(b)
  BY <1>3, <1>10 DEF RemoteTake, RemoteNotify, XmitDone, RemotePut, Local
<1>11. CASE UNCHANGED vars
  BY <1>3, <1>11 DEF vars
<1>12. QED
  BY <1>1, <1>2, <1>5, <1>6, <1>7, <1>8, <1>9, <1>10, <1>11 DEF Next, Step

LEMMA PostRefines ==
  ASSUME Inv, Inv', Written, NEW t \in Senders, Post(t)
  PROVE  \E b \in Bufs : Pool!Post(t, b)
<1> DEFINE b == msg[t]
<1>1. /\ b \in Bufs /\ Holds(t) /\ data[b] = t /\ UNCHANGED <<last_sbuf, used, data>>
      /\ avail' = Append(avail, b)
      /\ \A u \in Senders : msg'[u] = IF u = t THEN NoBuf ELSE msg[u]
  BY Room DEF Inv, TypeOK, Hands, Holds, Written, Post
<1>2. avail \in Seq(Bufs)
  BY DEF Inv, TypeOK
<1> HIDE DEF b
<1>3. b \in Elems(avail')
  BY <1>1, <1>2, Appended
<1>4. Own[b] = t
  BY <1>1, Owner DEF Owned, b
<1>5. Own'[b] = Remote
  BY <1>1, <1>3, OwnerNext DEF Owned
<1>6. \A c \in Bufs : c # b => Own'[c] = Own[c]
  <2>1. SUFFICES ASSUME NEW c \in Bufs, c # b PROVE Own'[c] = Own[c]
    OBVIOUS
  <2>2. \A u \in Senders : msg'[u] = c <=> msg[u] = c
    BY <1>1, <2>1, Numbers DEF b
  <2>3. QED
    BY <1>1, <2>1, <2>2, OwnerStays
<1>7. Own' = [Own EXCEPT ![b] = Remote]
  BY <1>1, <1>5, <1>6 DEF Own, Bufs
<1>8. QED
  BY <1>1, <1>4, <1>7 DEF Pool!Post

LEMMA PutRefines ==
  ASSUME Inv, Inv', NEW b \in Bufs, RemotePut(b)
  PROVE  Pool!Return(b)
<1>1. /\ b \in reading /\ used' = Append(used, b)
      /\ UNCHANGED <<last_sbuf, msg, data>>
  BY DEF RemotePut, Local
<1>2. Elems(used') = Elems(used) \cup {b}
  BY <1>1, Appended DEF Inv, TypeOK
<1>3. Own[b] = Remote
  BY <1>1, Owner DEF Owned
<1>4. Own'[b] = Free
  BY <1>2, OwnerNext DEF Owned
<1>5. \A c \in Bufs : c # b => Own'[c] = Own[c]
  BY <1>1, <1>2, OwnerStays
<1>6. Own' = [Own EXCEPT ![b] = Free]
  BY <1>4, <1>5 DEF Own, Bufs
<1>7. QED
  BY <1>1, <1>3, <1>6 DEF Pool!Return

LEMMA StepRefines == Inv /\ Inv' /\ Written /\ [Next]_vars => [Pool!Next]_(Pool!pool)
<1>1. SUFFICES ASSUME Inv, Inv', Written, [Next]_vars PROVE [Pool!Next]_(Pool!pool)
  OBVIOUS
<1>2. ASSUME NEW t \in Senders, Get(t) \/ Try(t) \/ Check(t)
      PROVE  [Pool!Next]_(Pool!pool)
  <2>1. CASE TakeBuf(t)
    BY <1>1, <1>2, <2>1, TakeRefines DEF Inv, Hands, Get, Try, Check, Pool!Next
  <2>2. CASE NoBufFor(t)
    BY <1>2, <2>2, Stutter DEF Get, Try, Check, NoBufFor
  <2>3. QED
    BY <1>2, <2>1, <2>2 DEF Get, Try, Check
<1>3. ASSUME NEW t \in Senders, Fill(t) PROVE [Pool!Next]_(Pool!pool)
  BY <1>1, <1>3, FillRefines DEF Pool!Next
<1>4. ASSUME NEW t \in Senders, Post(t) PROVE [Pool!Next]_(Pool!pool)
  BY <1>1, <1>4, PostRefines DEF Pool!Next
<1>5. ASSUME NEW b \in Bufs, RemotePut(b) PROVE [Pool!Next]_(Pool!pool)
  BY <1>1, <1>5, PutRefines DEF Pool!Next
<1>6. ASSUME NEW t \in Senders, NEW w \in BOOLEAN, Call(t, w)
      PROVE  [Pool!Next]_(Pool!pool)
  BY <1>6, Stutter DEF Call, remote
<1>7. ASSUME NEW t \in Senders,
             Upref(t) \/ Prepare(t) \/ Awake(t) \/ Timer(t) \/ Downref(t) \/ Signal(t)
      PROVE  [Pool!Next]_(Pool!pool)
  BY <1>7, Stutter DEF Upref, Prepare, Awake, Timer, Downref, Signal, remote
<1>8. CASE RemoteTake \/ RemoteNotify \/ XmitDone
  BY <1>8, Stutter DEF RemoteTake, RemoteNotify, XmitDone, Local
<1>9. CASE UNCHANGED vars
  BY <1>9, Stutter DEF vars, remote
<1>10. QED
  BY <1>1, <1>2, <1>3, <1>4, <1>5, <1>6, <1>7, <1>8, <1>9 DEF Next, Step

\* The sending half of the bus implements TxPool: a buffer goes from free to one
\* sender, from it to the remote core with what that sender wrote, and back
THEOREM Refinement == Spec => PoolSpec
<1>1. Init => Pool!Init
  <2>1. Init => \A b \in Bufs : b >= last_sbuf
    BY Numbers DEF Init
  <2>2. QED
    BY <2>1 DEF Init, Own, Pool!Init
<1>2. Init => Written
  BY DEF Init, Written
<1>3. QED
  BY <1>1, <1>2, Invariant, WrittenStep, StepRefines, PTL
     DEF Spec, PoolSpec, Pool!Spec
=============================================================================

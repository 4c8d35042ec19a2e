------------------------- MODULE RpbufPayloadProofs -------------------------
(***************************************************************************)
(* The payload memory of RpbufCore, for every value of its constants.      *)
(***************************************************************************)
EXTENDS RpbufCoreProofs

(* The payload memory.  On the master every name owns at most one block,   *)
(* through its buffer or through its dummy entry, and the blocks of the    *)
(* names partition the allocated memory.  A step moves, adds or frees the  *)
(* block of one name, except that a removal of the service frees the       *)
(* blocks of all dummy entries.                                            *)

blocks == [n \in Names |-> IF buf[Master][n].allocated THEN {buf[Master][n].pa}
                           ELSE IF rdb[Master][n].allocated THEN {rdb[Master][n].pa}
                           ELSE {}]

PartitionOf(B, M) ==
  /\ \A n \in Names : B[n] \subseteq M
  /\ \A a, b \in Names : a # b => B[a] \cap B[b] = {}
  /\ \A m \in M : \E n \in Names : m \in B[n]

OwnCell(p, n) ==
  /\ p = Slave => ~buf[p][n].allocated /\ ~rdb[p][n].allocated
  /\ buf[p][n].allocated => buf[p][n].loc # "none"
  /\ rdb[p][n].allocated => rdb[p][n].there

OwnInv == \A p \in Peers, n \in Names : OwnCell(p, n)

\* Nothing has happened that makes the master lose track of a payload
Sound == odd \cap Leaky = {}

PayInv == ListInv /\ OwnInv /\ (Sound => PartitionOf(blocks, mem))

\* The two forms of this condition, and that it cannot come back
LEMMA SoundParts ==
  /\ Sound <=> "clash" \notin odd /\ "orphan" \notin odd /\ "overtaken" \notin odd
  /\ odd \subseteq odd' /\ Sound' => Sound
BY DEF Sound, Leaky

LEMMA PayImplies == PayInv => PayloadOwnership
<1> SUFFICES ASSUME PayInv, Sound
             PROVE  /\ \A o \in Owners : PaOf(o) \in mem
                    /\ \A a, b \in Owners : PaOf(a) = PaOf(b) => a = b
                    /\ \A m \in mem : \E o \in Owners : PaOf(o) = m
  BY DEF PayloadOwnership, Sound
<1>1. PartitionOf(blocks, mem)
  BY DEF PayInv
<1>2. \A n \in Names : ~(buf[Master][n].allocated /\ rdb[Master][n].allocated)
  <2>1. ASSUME NEW n \in Names PROVE ~(buf[Master][n].allocated /\ rdb[Master][n].allocated)
    <3>1. OwnCell(Master, n) /\ ListCell(Master, n) /\ buf[Master][n] \in Buffer
      BY Tables DEF PayInv, OwnInv, ListInv, Peers
    <3>2. QED
      BY <3>1, SoundParts DEF OwnCell, ListCell, Listed, Buffer
  <2>2. QED
    BY <2>1
<1>3. \A o \in Owners : o[2] \in Names /\ o \in {<<"buf", o[2]>>, <<"rdb", o[2]>>}
                        /\ blocks[o[2]] = {PaOf(o)}
  <2>1. ASSUME NEW n \in Names, buf[Master][n].allocated
        PROVE  blocks[n] = {PaOf(<<"buf", n>>)}
    BY <2>1 DEF blocks, PaOf
  <2>2. ASSUME NEW n \in Names, rdb[Master][n].allocated
        PROVE  blocks[n] = {PaOf(<<"rdb", n>>)}
    BY <1>2, <2>2 DEF blocks, PaOf
  <2>3. QED
    BY <2>1, <2>2 DEF Owners
<1>4. \A o \in Owners : PaOf(o) \in mem
  BY <1>1, <1>3 DEF PartitionOf
<1>5. ASSUME NEW a \in Owners, NEW b \in Owners, PaOf(a) = PaOf(b) PROVE a = b
  <2>1. a[2] = b[2]
    BY <1>1, <1>3, <1>5 DEF PartitionOf
  <2>2. /\ a = <<"buf", a[2]>> => buf[Master][a[2]].allocated
        /\ a = <<"rdb", a[2]>> => rdb[Master][a[2]].allocated
        /\ b = <<"buf", b[2]>> => buf[Master][b[2]].allocated
        /\ b = <<"rdb", b[2]>> => rdb[Master][b[2]].allocated
    BY DEF Owners
  <2>3. QED
    BY <1>2, <1>3, <2>1, <2>2
<1>6. ASSUME NEW m \in mem PROVE \E o \in Owners : PaOf(o) = m
  <2>1. PICK n \in Names : m \in blocks[n]
    BY <1>1 DEF PartitionOf
  <2>2. CASE buf[Master][n].allocated
    <3>1. <<"buf", n>> \in Owners /\ PaOf(<<"buf", n>>) = m
      BY <2>1, <2>2 DEF Owners, PaOf, blocks
    <3>2. QED
      BY <3>1
  <2>3. CASE ~buf[Master][n].allocated
    <3>1. <<"rdb", n>> \in Owners /\ PaOf(<<"rdb", n>>) = m
      BY <2>1, <2>3 DEF Owners, PaOf, blocks
    <3>2. QED
      BY <3>1
  <2>4. QED
    BY <2>2, <2>3
<1>7. QED
  BY <1>4, <1>5, <1>6

\* The partition survives when one name exchanges its block for memory that
\* no other name owns
LEMMA Exchange ==
  ASSUME NEW B, NEW C, NEW M, NEW n \in Names,
         PartitionOf(B, M), \A k \in Names : k # n => C[k] = B[k],
         C[n] \cap (M \ B[n]) = {}
  PROVE  PartitionOf(C, (M \ B[n]) \cup C[n])
BY DEF PartitionOf

\* What a step must show: the cells, and the partition unless the step is odd
PayKept == OwnInv' /\ (Sound' => PartitionOf(blocks', mem'))

\* A step that leaves the other names alone, on the slave or on the master
LEMMA OneOwner ==
  ASSUME PayInv, NEW p \in Peers, NEW n \in Names,
         \A q \in Peers, k \in Names : q # p \/ k # n =>
           buf'[q][k] = buf[q][k] /\ rdb'[q][k] = rdb[q][k],
         OwnCell(p, n)', odd \subseteq odd',
         p = Slave => UNCHANGED mem,
         p = Master /\ Sound' => /\ mem' = (mem \ blocks[n]) \cup blocks'[n]
                                    /\ blocks'[n] \cap (mem \ blocks[n]) = {}
  PROVE  PayKept
<1>1. OwnInv'
  <2>1. ASSUME NEW q \in Peers, NEW k \in Names, q # p \/ k # n PROVE OwnCell(q, k)'
    BY <2>1 DEF PayInv, OwnInv, OwnCell
  <2>2. QED
    BY <2>1 DEF OwnInv
<1>2. ASSUME Sound' PROVE PartitionOf(blocks', mem')
  <2>1. PartitionOf(blocks, mem)
    BY <1>2, SoundParts DEF PayInv
  <2>2. CASE p = Slave
    <3>1. \A k \in Names : blocks'[k] = blocks[k]
      BY <2>2 DEF blocks, Peers, Master, Slave
    <3>2. QED
      BY <2>1, <2>2, <3>1 DEF PartitionOf
  <2>3. CASE p = Master
    <3>1. \A k \in Names : k # n => blocks'[k] = blocks[k]
      BY <2>3 DEF blocks, Peers
    <3>2. PartitionOf(blocks', (mem \ blocks[n]) \cup blocks'[n])
      BY <1>2, <2>1, <2>3, <3>1, Exchange
    <3>3. QED
      BY <1>2, <2>3, <3>2
  <2>4. QED
    BY <2>2, <2>3 DEF Peers
<1>3. QED
  BY <1>1, <1>2 DEF PayKept

\* A step that keeps every owner and its block
LEMMA SameOwners ==
  ASSUME PayInv, UNCHANGED mem, odd \subseteq odd',
         \A q \in Peers, k \in Names :
           /\ buf'[q][k].allocated = buf[q][k].allocated /\ buf'[q][k].pa = buf[q][k].pa
           /\ buf'[q][k].loc = "none" <=> buf[q][k].loc = "none"
           /\ rdb'[q][k] = rdb[q][k]
  PROVE  PayKept
<1>1. OwnInv'
  BY DEF PayInv, OwnInv, OwnCell
<1>2. \A k \in Names : blocks'[k] = blocks[k]
  BY DEF blocks, Peers
<1>3. Sound' => PartitionOf(blocks, mem)
  BY SoundParts DEF PayInv
<1>4. QED
  BY <1>1, <1>2, <1>3 DEF PayKept, PartitionOf

\* A name that the master neither holds nor knows owns no block; nor does one
\* whose holder is not marked allocated
LEMMA NoBlock ==
  ASSUME NEW n \in Names, ~buf[Master][n].allocated, ~rdb[Master][n].allocated
  PROVE  blocks[n] = {}
BY DEF blocks

LEMMA AllocPay ==
  ASSUME PayInv, NEW p \in Peers, NEW n \in Names, NEW len \in Lens, Alloc(p, n, len)
  PROVE  PayKept
<1>0. /\ Master \in Peers /\ Slave \in Peers /\ Master # Slave /\ TypeOK
      /\ \A q \in Peers : OwnCell(q, n)
  BY DEF PayInv, ListInv, OwnInv, Peers, Master, Slave
<1>1. CASE AllocFirst(p, n, len)
  <2>1. /\ buf[p][n].loc = "none" /\ ~rdb[p][n].there /\ UNCHANGED <<rdb, odd>>
        /\ ~buf[p][n].allocated /\ ~rdb[p][n].allocated
    BY <1>0, <1>1 DEF AllocFirst, MayAlloc, OwnCell
  <2>2. CASE p = Slave
    <3>1. PICK id : buf' = [buf EXCEPT ![p][n] = Instance("local_dummy", id, len, NoPa, FALSE)]
      BY <1>0, <1>1, <2>2 DEF AllocFirst, Allocated
    <3>2. UNCHANGED mem
      BY <1>0, <1>1, <2>2 DEF AllocFirst
    <3>3. /\ ~buf'[p][n].allocated
          /\ \A q \in Peers, k \in Names : q # p \/ k # n => buf'[q][k] = buf[q][k]
      BY <1>0, <3>1 DEF TypeOK, Instance
    <3>4. OwnCell(p, n)'
      BY <2>1, <3>3 DEF OwnCell
    <3>5. QED
      BY <1>0, <2>1, <2>2, <3>2, <3>3, <3>4, OneOwner
  <2>3. CASE p = Master
    <3>1. PICK m \in Mem \ mem :
            /\ mem' = mem \cup {m}
            /\ buf' = [buf EXCEPT ![p][n] = Instance("local_dummy", 0, len, m, TRUE)]
      BY <1>0, <1>1, <2>3 DEF AllocFirst, Allocated
    <3>2. /\ buf'[p][n].allocated /\ buf'[p][n].pa = m /\ buf'[p][n].loc = "local_dummy"
          /\ \A q \in Peers, k \in Names : q # p \/ k # n => buf'[q][k] = buf[q][k]
      <4>1. /\ buf'[p][n] = Instance("local_dummy", 0, len, m, TRUE)
            /\ \A q \in Peers, k \in Names : q # p \/ k # n => buf'[q][k] = buf[q][k]
        BY <1>0, <3>1, TableTypes
      <4>2. QED
        BY <4>1 DEF Instance
    <3>3. OwnCell(p, n)'
      BY <1>0, <2>1, <2>3, <3>2 DEF OwnCell
    <3>4. blocks[n] = {} /\ blocks'[n] = {m}
      BY <2>1, <2>3, <3>2, NoBlock DEF blocks
    <3>5. QED
      BY <1>0, <2>1, <2>3, <3>1, <3>2, <3>3, <3>4, OneOwner
  <2>4. QED
    BY <2>2, <2>3 DEF Peers
<1>2. CASE AllocFirstNoMem(n, len)
  <2>1. /\ buf[Master][n].loc = "none" /\ ~rdb[Master][n].there
        /\ UNCHANGED <<rdb, odd, mem>>
        /\ ~buf[Master][n].allocated /\ ~rdb[Master][n].allocated
    BY <1>0, <1>2 DEF AllocFirstNoMem, MayAlloc, OwnCell
  <2>2. /\ ~buf'[Master][n].allocated
        /\ \A q \in Peers, k \in Names : q # Master \/ k # n => buf'[q][k] = buf[q][k]
    <3>1. buf' = [buf EXCEPT ![Master][n] = Instance("local_dummy", 0, len, NoPa, FALSE)]
      BY <1>2 DEF AllocFirstNoMem
    <3>2. QED
      BY <1>0, <3>1 DEF TypeOK, Instance
  <2>3. OwnCell(Master, n)'
    BY <1>0, <2>1, <2>2 DEF OwnCell
  <2>4. blocks[n] = {} /\ blocks'[n] = {}
    BY <2>1, <2>2, NoBlock DEF blocks
  <2>5. QED
    BY <1>0, <2>1, <2>2, <2>3, <2>4, OneOwner
<1>3. CASE AllocSecondSlave(n, len)
  <2>1. UNCHANGED mem
    BY <1>3 DEF AllocSecondSlave
  <2>2. CASE UNCHANGED <<buf, rdb>> /\ odd' = odd \cup {"clash"}
    BY <2>1, <2>2, SameOwners
  <2>3. ASSUME NEW id, UNCHANGED odd, rdb' = [rdb EXCEPT ![Slave][n] = NoRdb],
               buf' = [buf EXCEPT ![Slave][n] =
                         Instance("buffers", id, len, rdb[Slave][n].pa, FALSE)]
        PROVE  PayKept
    <3>1. /\ ~buf'[Slave][n].allocated /\ ~rdb'[Slave][n].allocated
          /\ \A q \in Peers, k \in Names : q # Slave \/ k # n =>
               buf'[q][k] = buf[q][k] /\ rdb'[q][k] = rdb[q][k]
      BY <1>0, <2>3 DEF TypeOK, Instance, NoRdb
    <3>2. OwnCell(Slave, n)'
      BY <3>1 DEF OwnCell
    <3>3. QED
      BY <1>0, <2>1, <2>3, <3>1, <3>2, OneOwner
  <2>4. QED
    BY <1>3, <2>2, <2>3 DEF AllocSecondSlave, Allocated
<1>4. CASE AllocSecondMaster(n, len)
  <2> DEFINE d == rdb[Master][n]
  <2>1. PICK pa \in IF d.allocated THEN {d.pa} ELSE Mem \ mem :
          /\ mem' = IF d.allocated THEN mem ELSE mem \cup {pa}
          /\ \/ /\ Allocated(Master, n, Instance("buffers", d.id, len, pa, TRUE), TRUE)
                /\ rdb' = [rdb EXCEPT ![Master][n] = NoRdb]
                /\ UNCHANGED odd
             \/ /\ rdb' = [rdb EXCEPT ![Master][n].allocated = TRUE]
                /\ odd' = odd \cup {"clash"}
                /\ UNCHANGED <<buf, user>>
    BY <1>4 DEF AllocSecondMaster
  <2>2. d.there /\ buf[Master][n].loc = "none" /\ ~buf[Master][n].allocated
    BY <1>0, <1>4 DEF AllocSecondMaster, MayAlloc, OwnCell
  <2>3. CASE /\ rdb' = [rdb EXCEPT ![Master][n].allocated = TRUE]
             /\ odd' = odd \cup {"clash"}
             /\ UNCHANGED buf
    <3>1. \A q \in Peers, k \in Names : q # Master \/ k # n => rdb'[q][k] = rdb[q][k]
      BY <1>0, <2>3 DEF TypeOK
    <3>2. rdb'[Master][n].there
      <4>1. [d EXCEPT !.allocated = TRUE].there
        BY <1>0, <2>2, Tables DEF RemoteDummy
      <4>2. QED
        BY <1>0, <2>3, <4>1 DEF TypeOK
    <3>3. OwnCell(Master, n)'
      BY <1>0, <2>2, <2>3, <3>2 DEF OwnCell
    <3>4. ~Sound'
      BY <2>3 DEF Sound, Leaky
    <3>5. QED
      BY <1>0, <2>3, <3>1, <3>3, <3>4, OneOwner
  <2>4. CASE /\ Allocated(Master, n, Instance("buffers", d.id, len, pa, TRUE), TRUE)
             /\ rdb' = [rdb EXCEPT ![Master][n] = NoRdb]
             /\ UNCHANGED odd
    <3>1. /\ buf'[Master][n].allocated /\ buf'[Master][n].pa = pa
          /\ buf'[Master][n].loc = "buffers" /\ ~rdb'[Master][n].allocated
          /\ \A q \in Peers, k \in Names : q # Master \/ k # n =>
               buf'[q][k] = buf[q][k] /\ rdb'[q][k] = rdb[q][k]
      BY <1>0, <2>4 DEF TypeOK, Allocated, Instance, NoRdb
    <3>2. OwnCell(Master, n)'
      BY <1>0, <3>1 DEF OwnCell
    <3>3. blocks'[n] = {pa} /\ blocks[n] = IF d.allocated THEN {d.pa} ELSE {}
      BY <2>2, <3>1 DEF blocks
    <3>4. Sound' => blocks[n] \subseteq mem
      BY <2>4, SoundParts DEF PayInv, PartitionOf
    <3>5. Sound' => /\ mem' = (mem \ blocks[n]) \cup blocks'[n]
                       /\ blocks'[n] \cap (mem \ blocks[n]) = {}
      BY <2>1, <3>3, <3>4
    <3>6. QED
      BY <1>0, <2>4, <3>1, <3>2, <3>5, OneOwner
  <2>5. QED
    BY <2>1, <2>3, <2>4
<1>5. QED
  BY <1>1, <1>2, <1>3, <1>4 DEF Alloc

LEMMA FreePay ==
  ASSUME PayInv, NEW p \in Peers, NEW n \in Names, FreeLocked(p, n)
  PROVE  PayKept
<1> DEFINE b == buf[p][n]
<1>0. /\ TypeOK /\ OwnCell(p, n) /\ Master # Slave
      /\ b.loc \in Listed => ~rdb[p][n].there
  BY DEF PayInv, ListInv, ListCell, OwnInv, Master, Slave
<1>1. /\ ~buf'[p][n].allocated
      /\ \A q \in Peers, k \in Names : q # p \/ k # n => buf'[q][k] = buf[q][k]
  BY <1>0 DEF FreeLocked, TypeOK, NoBuf, Instance
<1>2. UNCHANGED odd /\ b.loc # "none" /\ ~rdb[p][n].allocated
  BY <1>0 DEF FreeLocked, OwnCell, Listed
<1>3. CASE b.loc = "local_dummy"
  <2>1. UNCHANGED rdb /\ mem' = IF b.allocated THEN mem \ {b.pa} ELSE mem
    BY <1>3 DEF FreeLocked
  <2>2. OwnCell(p, n)'
    BY <1>0, <1>1, <2>1 DEF OwnCell
  <2>3. p = Slave => UNCHANGED mem
    BY <1>0, <2>1 DEF OwnCell
  <2>4. p = Master => /\ blocks[n] = IF b.allocated THEN {b.pa} ELSE {}
                      /\ blocks'[n] = {}
    BY <1>1, <1>2, <2>1 DEF blocks
  <2>5. QED
    BY <1>1, <1>2, <2>1, <2>2, <2>3, <2>4, OneOwner
<1>4. CASE b.loc = "buffers"
  <2>1. /\ UNCHANGED mem
        /\ rdb' = [rdb EXCEPT ![p][n] = DummyOf(b)]
    BY <1>4 DEF FreeLocked
  <2>2. /\ rdb'[p][n].there /\ rdb'[p][n].allocated = b.allocated /\ rdb'[p][n].pa = b.pa
        /\ \A q \in Peers, k \in Names : q # p \/ k # n => rdb'[q][k] = rdb[q][k]
    BY <1>0, <2>1 DEF TypeOK, DummyOf
  <2>3. OwnCell(p, n)'
    BY <1>0, <1>1, <2>2 DEF OwnCell
  <2>4. p = Master => blocks'[n] = blocks[n]
    BY <1>0, <1>1, <1>2, <2>2 DEF blocks
  <2>5. p = Master /\ Sound' => blocks[n] \subseteq mem
    BY <1>2, SoundParts DEF PayInv, PartitionOf
  <2>6. QED
    BY <1>1, <1>2, <2>1, <2>2, <2>3, <2>4, <2>5, OneOwner
<1>5. QED
  BY <1>3, <1>4 DEF FreeLocked

LEMMA CreatedLocalPay ==
  ASSUME PayInv, NEW p \in Peers, NEW m \in Message, CreatedLocal(p, m)
  PROVE  PayKept
<1> DEFINE n == m.name
           b == buf[p][n]
<1>1. n \in Names /\ b.loc = "local_dummy" /\ UNCHANGED rdb
  BY DEF CreatedLocal, Message, CreatedMsg
<1>2. /\ TypeOK /\ OwnCell(p, n) /\ Master # Slave /\ b \in Buffer
      /\ ~rdb[p][n].there /\ ~rdb[p][n].allocated
  <2>1. TypeOK /\ OwnCell(p, n) /\ ListCell(p, n)
    BY <1>1 DEF PayInv, ListInv, OwnInv
  <2>2. QED
    BY <1>1, <2>1, Tables DEF ListCell, Listed, OwnCell, Master, Slave
<1>3. PICK pa \in PayloadFor(p, b) :
        /\ mem' = IF p = Master /\ ~b.allocated THEN mem \cup {pa} ELSE mem
        /\ LET c == Completed(p, b, m, pa) IN
           \/ /\ \/ buf' = [buf EXCEPT ![p][n] = c]
                 \/ buf' = [buf EXCEPT ![p][n] = [c EXCEPT !.state = {}]]
              /\ UNCHANGED odd
           \/ /\ buf' = [buf EXCEPT ![p][n] = [b EXCEPT !.pa = c.pa, !.allocated = c.allocated]]
              /\ odd' = odd \cup {"clash"}
  BY DEF CreatedLocal, Announced
<1> DEFINE c == Completed(p, b, m, pa)
<1>4. /\ c.loc = "buffers" /\ [c EXCEPT !.state = {}].loc = "buffers"
      /\ [c EXCEPT !.state = {}].pa = c.pa /\ [c EXCEPT !.state = {}].allocated = c.allocated
  BY <1>2 DEF Completed, Buffer
<1>5. /\ [b EXCEPT !.pa = c.pa, !.allocated = c.allocated].loc = "local_dummy"
      /\ [b EXCEPT !.pa = c.pa, !.allocated = c.allocated].pa = c.pa
      /\ [b EXCEPT !.pa = c.pa, !.allocated = c.allocated].allocated = c.allocated
  BY <1>1, <1>2 DEF Buffer
<1>6. /\ p = Slave => c.allocated = b.allocated
      /\ p = Master => c.allocated /\ c.pa = pa
  BY <1>2 DEF Completed, Buffer
<1> HIDE DEF c
<1>7. /\ buf'[p][n].loc # "none"
      /\ buf'[p][n].allocated = c.allocated /\ buf'[p][n].pa = c.pa
      /\ \A q \in Peers, k \in Names : q # p \/ k # n => buf'[q][k] = buf[q][k]
  <2>1. ASSUME NEW x, x.loc # "none", x.allocated = c.allocated, x.pa = c.pa,
               buf' = [buf EXCEPT ![p][n] = x]
        PROVE  /\ buf'[p][n].loc # "none"
               /\ buf'[p][n].allocated = c.allocated /\ buf'[p][n].pa = c.pa
               /\ \A q \in Peers, k \in Names : q # p \/ k # n => buf'[q][k] = buf[q][k]
    BY <1>1, <1>2, <2>1 DEF TypeOK
  <2>2. \/ buf' = [buf EXCEPT ![p][n] = c]
        \/ buf' = [buf EXCEPT ![p][n] = [c EXCEPT !.state = {}]]
        \/ buf' = [buf EXCEPT ![p][n] = [b EXCEPT !.pa = c.pa, !.allocated = c.allocated]]
    BY <1>3 DEF c
  <2>3. QED
    BY <1>4, <1>5, <2>1, <2>2
<1>8. OwnCell(p, n)'
  BY <1>1, <1>2, <1>6, <1>7 DEF OwnCell
<1>9. odd \subseteq odd' /\ (p = Slave => UNCHANGED mem)
  BY <1>2, <1>3
<1>10. p = Master => /\ blocks'[n] = {pa}
                     /\ blocks[n] = IF b.allocated THEN {b.pa} ELSE {}
  BY <1>1, <1>2, <1>6, <1>7 DEF blocks
<1>11. p = Master => pa \in IF b.allocated THEN {b.pa} ELSE Mem \ mem
  BY <1>2 DEF PayloadFor
<1>12. p = Master /\ Sound' => blocks[n] \subseteq mem
  BY <1>1, <1>9, SoundParts DEF PayInv, PartitionOf
<1>13. p = Master /\ Sound' => /\ mem' = (mem \ blocks[n]) \cup blocks'[n]
                                  /\ blocks'[n] \cap (mem \ blocks[n]) = {}
  BY <1>3, <1>10, <1>11, <1>12
<1>14. QED
  BY <1>1, <1>7, <1>8, <1>9, <1>13, OneOwner

LEMMA DummyPay ==
  ASSUME PayInv, NEW p \in Peers, NEW m \in Message,
         CreatedUnknown(p, m) \/ DestroyedDummy(p, m)
  PROVE  PayKept
<1>0. TypeOK /\ Master # Slave
  BY DEF PayInv, ListInv, Master, Slave
<1>1. CASE CreatedUnknown(p, m)
  <2> DEFINE n == m.name
  <2>1. /\ n \in Names /\ buf[p][n].loc \in {"none", "adrift"} /\ UNCHANGED <<buf, mem>>
        /\ odd \subseteq odd' /\ (rdb[p][n].allocated => "orphan" \in odd')
        /\ rdb' = [rdb EXCEPT ![p][n] = Announcement(m, rdb[p][n].allocated)]
    BY <1>1 DEF CreatedUnknown, Message, CreatedMsg
  <2>2. /\ rdb'[p][n].there /\ rdb'[p][n].allocated = rdb[p][n].allocated
        /\ \A q \in Peers, k \in Names : q # p \/ k # n => rdb'[q][k] = rdb[q][k]
    BY <1>0, <2>1 DEF TypeOK, Announcement
  <2>3. OwnCell(p, n) /\ OwnCell(p, n)'
    BY <2>1, <2>2 DEF PayInv, OwnInv, OwnCell
  <2>4. odd \subseteq odd' /\ (Sound' => ~rdb[p][n].allocated /\ buf[p][n].loc = "none")
    <3>1. ListCell(p, n)
      BY <2>1 DEF PayInv, ListInv
    <3>2. Sound' => ~rdb[p][n].allocated /\ "overtaken" \notin odd
      BY <2>1 DEF Sound, Leaky
    <3>3. QED
      BY <2>1, <3>1, <3>2 DEF ListCell
  <2>5. p = Master /\ Sound' => blocks[n] = {} /\ blocks'[n] = {}
    BY <2>1, <2>2, <2>3, <2>4 DEF blocks, OwnCell
  <2>6. QED
    BY <2>1, <2>2, <2>3, <2>4, <2>5, OneOwner
<1>2. CASE DestroyedDummy(p, m)
  <2>1. PICK n \in Names :
          /\ rdb[p][n].there
          /\ rdb' = [rdb EXCEPT ![p][n] = NoRdb]
          /\ mem' = IF rdb[p][n].allocated THEN mem \ {rdb[p][n].pa} ELSE mem
    BY <1>2 DEF DestroyedDummy, DummiesWithId
  <2>2. UNCHANGED buf /\ odd \subseteq odd'
    BY <1>2 DEF DestroyedDummy
  <2>3. /\ ~rdb'[p][n].allocated
        /\ \A q \in Peers, k \in Names : q # p \/ k # n => rdb'[q][k] = rdb[q][k]
    BY <1>0, <2>1 DEF TypeOK, NoRdb
  <2>4. /\ OwnCell(p, n) /\ buf[p][n].loc \notin Listed /\ buf[p][n] \in Buffer
        /\ Sound' => buf[p][n].loc # "adrift"
    <3>1. OwnCell(p, n) /\ ListCell(p, n) /\ buf[p][n] \in Buffer
      BY <1>0, Tables DEF PayInv, OwnInv, ListInv
    <3>2. Sound' => "overtaken" \notin odd
      BY <2>2 DEF Sound, Leaky
    <3>3. QED
      BY <2>1, <3>1, <3>2 DEF ListCell
  <2>5. OwnCell(p, n)' /\ (p = Slave => UNCHANGED mem)
    BY <2>1, <2>2, <2>3, <2>4 DEF OwnCell
  <2>6. p = Master /\ Sound' => /\ blocks[n] = IF rdb[p][n].allocated THEN {rdb[p][n].pa} ELSE {}
                                /\ blocks'[n] = {}
    <3>1. Sound' => ~buf[p][n].allocated
      BY <2>4 DEF OwnCell, Listed, Buffer
    <3>2. QED
      BY <2>2, <2>3, <3>1 DEF blocks
  <2>7. QED
    BY <2>1, <2>2, <2>3, <2>5, <2>6, OneOwner
<1>3. QED
  BY <1>1, <1>2

LEMMA HandlerPay ==
  ASSUME PayInv, NEW p \in Peers, NEW m \in Message, Handle(p, m)
  PROVE  PayKept
<1>0. TypeOK
  BY DEF PayInv, ListInv
<1>1. CASE UNCHANGED <<buf, rdb, mem>> /\ odd \subseteq odd'
  BY <1>1, SameOwners
<1>2. CASE DestroyedBuffer(p, m)
  <2>1. PICK n \in Names :
          /\ buf[p][n].loc = "buffers"
          /\ buf' = [buf EXCEPT ![p][n] =
                       [buf[p][n] EXCEPT !.loc = "local_dummy",
                                         !.state = buf[p][n].state \cup {"DESTROYED"}]]
    BY <1>2 DEF DestroyedBuffer, IdrFinds, Available
  <2> DEFINE c == [buf[p][n] EXCEPT !.loc = "local_dummy",
                                    !.state = buf[p][n].state \cup {"DESTROYED"}]
  <2>2. c.loc = "local_dummy" /\ c.pa = buf[p][n].pa /\ c.allocated = buf[p][n].allocated
    BY <1>0, Tables DEF Buffer
  <2>3. buf' = [buf EXCEPT ![p][n] = c]
    BY <2>1
  <2> HIDE DEF c
  <2>4. \A q \in Peers, k \in Names :
          /\ buf'[q][k].allocated = buf[q][k].allocated /\ buf'[q][k].pa = buf[q][k].pa
          /\ buf'[q][k].loc = "none" <=> buf[q][k].loc = "none"
    BY <1>0, <2>1, <2>2, <2>3 DEF TypeOK
  <2>5. UNCHANGED <<rdb, mem>> /\ odd \subseteq odd'
    BY <1>2 DEF DestroyedBuffer
  <2>6. QED
    BY <2>4, <2>5, SameOwners
<1>3. CASE AckH(p, m)
  <2>1. PICK n \in Names : buf' = [buf EXCEPT ![p][n].state = buf[p][n].state \cup {"GETNOTIFY"}]
    BY <1>3 DEF AckH
  <2>2. UNCHANGED <<rdb, mem, odd>>
    BY <1>3 DEF AckH
  <2>3. \A q \in Peers, k \in Names :
          /\ buf'[q][k].allocated = buf[q][k].allocated /\ buf'[q][k].pa = buf[q][k].pa
          /\ buf'[q][k].loc = buf[q][k].loc
    BY <1>0, <2>1, StateOnly
  <2>4. QED
    BY <2>2, <2>3, SameOwners
<1>4. QED
  BY <1>1, <1>2, <1>3, CreatedLocalPay, DummyPay
     DEF Handle, CreatedExisting, CreatedRefused, TransmittedH, Ignored

LEMMA OtherPay ==
  ASSUME PayInv,
         \/ \E p \in Peers, n \in Names : Quiet(p, n)
         \/ \E p \in Peers : Reply(p) \/ CallbackEnd(p)
         \/ Crash \/ ServiceProbe
         \/ UNCHANGED vars
  PROVE  PayKept
<1>0. TypeOK /\ Master # Slave
  BY DEF PayInv, ListInv, Master, Slave
<1>1. ASSUME NEW p \in Peers, NEW n \in Names, Quiet(p, n) PROVE PayKept
  BY <1>0, <1>1, QuietKeeps, SameOwners
<1>2. ASSUME NEW p \in Peers, Reply(p) PROVE PayKept
  <2>1. rx[p].msg.name \in Names
    <3>1. rx[p] \in [pc: {"reply"}, msg: CreatedMsg, touch: BOOLEAN]
      BY <1>0, <1>2 DEF Reply, TypeOK, RxState, RxIdle
    <3>2. QED
      BY <3>1 DEF CreatedMsg
  <2>2. UNCHANGED buf \/ \E s : buf' = [buf EXCEPT ![p][rx[p].msg.name].state = s]
    BY <1>2 DEF Reply
  <2>3. UNCHANGED <<rdb, mem, odd>>
    BY <1>2 DEF Reply
  <2>4. ASSUME NEW s, buf' = [buf EXCEPT ![p][rx[p].msg.name].state = s] PROVE PayKept
    <3>1. \A q \in Peers, k \in Names :
            /\ buf'[q][k].allocated = buf[q][k].allocated /\ buf'[q][k].pa = buf[q][k].pa
            /\ buf'[q][k].loc = buf[q][k].loc
      BY <1>0, <2>1, <2>4, StateOnly
    <3>2. QED
      BY <2>3, <3>1, SameOwners
  <2>5. CASE UNCHANGED buf
    BY <2>3, <2>5, SameOwners
  <2>6. QED
    BY <2>2, <2>4, <2>5
<1>3. CASE Crash
  <2>1. /\ UNCHANGED <<mem, odd>>
        /\ \A k \in Names : /\ buf'[Master][k] = buf[Master][k]
                            /\ rdb'[Master][k] = rdb[Master][k]
                            /\ buf'[Slave][k] = NoBuf /\ rdb'[Slave][k] = NoRdb
    BY <1>0, <1>3 DEF Crash, TypeOK, Peers
  <2>2. OwnInv'
    BY <1>0, <2>1 DEF PayInv, OwnInv, OwnCell, Peers, NoBuf, NoRdb, Instance
  <2>3. \A k \in Names : blocks'[k] = blocks[k]
    BY <2>1 DEF blocks
  <2>4. Sound' => PartitionOf(blocks, mem)
    BY <2>1, SoundParts DEF PayInv
  <2>5. QED
    BY <2>1, <2>2, <2>3, <2>4 DEF PayKept, PartitionOf
<1>4. ASSUME NEW p \in Peers, CallbackEnd(p) PROVE PayKept
  BY <1>4, SameOwners DEF CallbackEnd
<1>5. CASE ServiceProbe \/ UNCHANGED vars
  BY <1>5, SameOwners DEF ServiceProbe, vars
<1>6. QED
  BY <1>1, <1>2, <1>3, <1>4, <1>5

\* The reset keeps who owns which payload among the buffers
LEMMA ResetOwners ==
  ASSUME TypeOK, NEW k \in Names
  PROVE  /\ ResetBuffers[k].allocated = buf[Master][k].allocated
         /\ ResetBuffers[k].pa = buf[Master][k].pa
         /\ ResetBuffers[k].loc = "none" <=> buf[Master][k].loc = "none"
         /\ NoDummies[k] = NoRdb
<1>1. buf[Master][k] \in Buffer
  BY Tables DEF Peers
<1>2. LET c == [buf[Master][k] EXCEPT !.loc = "local_dummy", !.offline = TRUE] IN
        /\ c.allocated = buf[Master][k].allocated
        /\ c.pa = buf[Master][k].pa /\ c.loc = "local_dummy"
  BY <1>1 DEF Buffer
<1>3. QED
  BY <1>2 DEF ResetBuffers, Available, NoDummies

\* The partition survives when the blocks of the dummy entries are freed and
\* those of the buffers stay, with their buffers or with new entries
LEMMA ResetPartition ==
  ASSUME PayInv, Sound,
         \A k \in Names : blocks'[k] = IF buf[Master][k].allocated THEN blocks[k] ELSE {}
  PROVE  PartitionOf(blocks', mem \ DummyBlocks)
<1> DEFINE R == DummyBlocks
<1>1. PartitionOf(blocks, mem)
  BY DEF PayInv
<1>2. ASSUME NEW k \in Names
      PROVE  OwnCell(Master, k) /\ (rdb[Master][k].there => ~buf[Master][k].allocated)
  <2>1. OwnCell(Master, k) /\ ListCell(Master, k) /\ buf[Master][k] \in Buffer
    BY Tables DEF PayInv, OwnInv, ListInv, Peers
  <2>2. QED
    BY <2>1, SoundParts DEF OwnCell, ListCell, Listed, Buffer
<1>3. \A k \in Names : ~buf[Master][k].allocated => blocks[k] \subseteq R
  BY <1>2 DEF blocks, OwnCell, DummyBlocks
<1>4. \A x \in R : \E k \in Names : ~buf[Master][k].allocated /\ blocks[k] = {x}
  BY <1>2 DEF blocks, DummyBlocks
<1> HIDE DEF R
<1>5. \A k \in Names : blocks'[k] \subseteq mem \ R
  BY <1>1, <1>4 DEF PartitionOf
<1>6. \A x \in mem \ R : \E k \in Names : x \in blocks'[k]
  BY <1>1, <1>3 DEF PartitionOf
<1>7. PartitionOf(blocks', mem \ R)
  BY <1>1, <1>5, <1>6 DEF PartitionOf
<1>8. QED
  BY <1>7 DEF R

\* A removal of the service, between two sections of the master or inside one
LEMMA RemovePay ==
  ASSUME PayInv,
         \/ ServiceRemove
         \/ \E n \in Names : RemoveInFree(n) \/ \E len \in Lens : RemoveInAlloc(n, len)
         \/ \E m \in Message : RemoveInCreated(m) \/ RemoveInDummy(m)
  PROVE  PayKept
<1>0. TypeOK /\ Master # Slave
  BY DEF PayInv, ListInv, Master, Slave
<1>1. ASSUME buf'[Slave] = buf[Slave], rdb'[Slave] = rdb[Slave],
             \A k \in Names : /\ buf'[Master][k].allocated => buf'[Master][k].loc # "none"
                              /\ rdb'[Master][k].allocated => rdb'[Master][k].there
      PROVE  OwnInv'
  <2>1. ASSUME NEW k \in Names PROVE OwnCell(Master, k)' /\ OwnCell(Slave, k)'
    <3>1. OwnCell(Slave, k)
      BY DEF PayInv, OwnInv, Peers
    <3>2. QED
      BY <1>0, <1>1, <3>1 DEF OwnCell
  <2>2. QED
    BY <2>1 DEF OwnInv, Peers
<1>2. \A k \in Names : /\ buf[Master][k].allocated => buf[Master][k].loc # "none"
                       /\ ResetBuffers[k].allocated => ResetBuffers[k].loc # "none"
                       /\ NoDummies[k].allocated => NoDummies[k].there
  <2>1. \A k \in Names : OwnCell(Master, k)
    BY DEF PayInv, OwnInv, Peers
  <2>2. ASSUME NEW k \in Names
        PROVE  /\ buf[Master][k].allocated => buf[Master][k].loc # "none"
               /\ ResetBuffers[k].allocated => ResetBuffers[k].loc # "none"
               /\ NoDummies[k].allocated => NoDummies[k].there
    BY <1>0, <2>1, ResetOwners DEF OwnCell, NoRdb
  <2>3. QED
    BY <2>2
<1>3. ASSUME buf' = [buf EXCEPT ![Master] = ResetBuffers],
             rdb' = [rdb EXCEPT ![Master] = NoDummies], UNCHANGED odd,
             mem' = mem \ DummyBlocks
      PROVE  PayKept
  <2>1. /\ buf'[Master] = ResetBuffers /\ rdb'[Master] = NoDummies
        /\ buf'[Slave] = buf[Slave] /\ rdb'[Slave] = rdb[Slave]
    BY <1>0, <1>3 DEF TypeOK, Peers
  <2>2. OwnInv'
    BY <1>1, <1>2, <2>1
  <2>3. ASSUME NEW k \in Names
        PROVE  blocks'[k] = IF buf[Master][k].allocated THEN blocks[k] ELSE {}
    <3>1. /\ ResetBuffers[k].allocated = buf[Master][k].allocated
          /\ ResetBuffers[k].pa = buf[Master][k].pa
          /\ ~NoDummies[k].allocated
      BY <1>0, ResetOwners DEF NoRdb
    <3>2. QED
      BY <2>1, <3>1 DEF blocks
  <2>4. QED
    BY <1>3, <2>2, <2>3, ResetPartition, SoundParts DEF PayKept
<1>4. ASSUME NEW n \in Names, RemoveInFree(n) PROVE PayKept
  <2> DEFINE b == buf[Master][n]
             B == [ResetBuffers EXCEPT ![n] = NoBuf]
             D == [NoDummies EXCEPT ![n] = DummyOf(b)]
  <2>1. CASE buf' = [buf EXCEPT ![Master] = B] /\ rdb' = [rdb EXCEPT ![Master] = D]
    <3>1. /\ B[n] = NoBuf /\ D[n] = DummyOf(b)
          /\ \A k \in Names : k # n => B[k] = ResetBuffers[k] /\ D[k] = NoDummies[k]
      BY <1>0, ResetTypes
    <3>2. /\ ~NoBuf.allocated /\ DummyOf(b).there
          /\ DummyOf(b).allocated = b.allocated /\ DummyOf(b).pa = b.pa
      BY DEF NoBuf, Instance, DummyOf
    <3> HIDE DEF B, D
    <3>3. \A k \in Names : /\ B[k].allocated => B[k].loc # "none"
                           /\ D[k].allocated => D[k].there
      BY <1>2, <3>1, <3>2
    <3>4. /\ buf'[Master] = B /\ rdb'[Master] = D
          /\ buf'[Slave] = buf[Slave] /\ rdb'[Slave] = rdb[Slave]
      BY <1>0, <2>1 DEF TypeOK, Peers
    <3>8. OwnInv'
      BY <1>1, <3>3, <3>4
    <3>5. \A k \in Names : blocks'[k] = IF buf[Master][k].allocated THEN blocks[k] ELSE {}
      <4>1. blocks'[n] = IF b.allocated THEN blocks[n] ELSE {}
        BY <3>1, <3>2, <3>4 DEF blocks
      <4>2. ASSUME NEW k \in Names, k # n
            PROVE  blocks'[k] = IF buf[Master][k].allocated THEN blocks[k] ELSE {}
        <5>1. /\ ResetBuffers[k].allocated = buf[Master][k].allocated
              /\ ResetBuffers[k].pa = buf[Master][k].pa
              /\ ~NoDummies[k].allocated
          BY <1>0, ResetOwners DEF NoRdb
        <5>2. QED
          BY <3>1, <3>4, <4>2, <5>1 DEF blocks
      <4>3. QED
        BY <4>1, <4>2
    <3>6. UNCHANGED odd /\ mem' = mem \ DummyBlocks
      BY <1>4 DEF RemoveInFree
    <3>7. QED
      BY <3>5, <3>6, <3>8, ResetPartition, SoundParts DEF PayKept
  <2>2. QED
    BY <1>3, <1>4, <2>1 DEF RemoveInFree
<1>5. ASSUME NEW n \in Names, NEW len \in Lens, RemoveInAlloc(n, len) PROVE PayKept
  <2>1. PICK b : /\ b.loc # "none"
                 /\ buf' = [buf EXCEPT ![Master] = [ResetBuffers EXCEPT ![n] = b]]
    <3> DEFINE I(pa) == Instance("buffers", rdb[Master][n].id, len, pa, TRUE)
               J(pa) == [I(pa) EXCEPT !.loc = "local_dummy", !.offline = TRUE]
    <3>1. \A pa : I(pa).loc # "none" /\ J(pa).loc # "none"
      BY DEF Instance
    <3>2. \E pa : \E after \in BOOLEAN :
            buf' = [buf EXCEPT ![Master] =
                      [ResetBuffers EXCEPT ![n] = IF after THEN I(pa) ELSE J(pa)]]
      BY <1>5 DEF RemoveInAlloc
    <3> HIDE DEF I, J
    <3>3. QED
      BY <3>1, <3>2
  <2>2. OwnInv'
    <3>1. \A k \in Names : [ResetBuffers EXCEPT ![n] = b][k].allocated
                              => [ResetBuffers EXCEPT ![n] = b][k].loc # "none"
      BY <1>0, <1>2, <2>1, ResetTypes
    <3>2. rdb' = [rdb EXCEPT ![Master] = NoDummies]
      BY <1>5 DEF RemoveInAlloc
    <3>3. /\ buf'[Master] = [ResetBuffers EXCEPT ![n] = b] /\ rdb'[Master] = NoDummies
          /\ buf'[Slave] = buf[Slave] /\ rdb'[Slave] = rdb[Slave]
      BY <1>0, <2>1, <3>2 DEF TypeOK, Peers
    <3>4. QED
      BY <1>1, <1>2, <3>1, <3>3
  <2>3. ~Sound'
    BY <1>5 DEF RemoveInAlloc, Sound, Leaky
  <2>4. QED
    BY <2>2, <2>3 DEF PayKept
<1>6. ASSUME NEW m \in Message, RemoveInCreated(m) PROVE PayKept
  <2>1. PICK b : /\ b.loc # "none"
                 /\ buf' = [buf EXCEPT ![Master] = [ResetBuffers EXCEPT ![m.name] = b]]
    <3> DEFINE I(pa) == [Completed(Master, buf[Master][m.name], m, pa) EXCEPT !.loc = "adrift"]
    <3>1. m.name \in Names
      BY <1>6 DEF RemoveInCreated, Message, CreatedMsg
    <3>2. \A pa : I(pa).loc # "none"
      <4>1. buf[Master][m.name] \in Buffer
        BY <1>0, <3>1, Tables DEF Peers
      <4>2. QED
        BY <1>0, <4>1 DEF Completed, Buffer
    <3>3. \E pa : buf' = [buf EXCEPT ![Master] = [ResetBuffers EXCEPT ![m.name] = I(pa)]]
      BY <1>6 DEF RemoveInCreated
    <3> HIDE DEF I
    <3>4. QED
      BY <3>2, <3>3
  <2>2. OwnInv'
    <3>1. \A k \in Names : [ResetBuffers EXCEPT ![m.name] = b][k].allocated
                              => [ResetBuffers EXCEPT ![m.name] = b][k].loc # "none"
      BY <1>0, <1>2, <2>1, ResetTypes
    <3>2. rdb' = [rdb EXCEPT ![Master] = NoDummies]
      BY <1>6 DEF RemoveInCreated
    <3>3. /\ buf'[Master] = [ResetBuffers EXCEPT ![m.name] = b] /\ rdb'[Master] = NoDummies
          /\ buf'[Slave] = buf[Slave] /\ rdb'[Slave] = rdb[Slave]
      BY <1>0, <2>1, <3>2 DEF TypeOK, Peers
    <3>4. QED
      BY <1>1, <1>2, <3>1, <3>3
  <2>3. ~Sound'
    BY <1>6 DEF RemoveInCreated, Sound, Leaky
  <2>4. QED
    BY <2>2, <2>3 DEF PayKept
<1>7. ASSUME NEW m \in Message, RemoveInDummy(m) PROVE PayKept
  <2>1. OwnInv'
    <3>1. /\ buf'[Master] = ResetBuffers /\ rdb'[Master] = NoDummies
          /\ buf'[Slave] = buf[Slave] /\ rdb'[Slave] = rdb[Slave]
      BY <1>0, <1>7 DEF RemoveInDummy, TypeOK, Peers
    <3>2. QED
      BY <1>1, <1>2, <3>1
  <2>2. ~Sound'
    BY <1>7 DEF RemoveInDummy, Sound, Leaky
  <2>3. QED
    BY <2>1, <2>2 DEF PayKept
<1>8. QED
  BY <1>3, <1>4, <1>5, <1>6, <1>7 DEF ServiceRemove

LEMMA PayStep ==
  ASSUME PayInv, [Next]_vars
  PROVE  PayKept
<1>1. TypeOK
  BY DEF PayInv, ListInv
<1>2. QED
  BY <1>1, Steps, AllocPay, FreePay, HandlerPay, OtherPay, RemovePay

\* Through all the moves between the lists, with whatever crossing of calls,
\* messages, signals, failures and restarts, every block of payload memory
\* keeps exactly one owner, until an idr_alloc fails, BUFFER_CREATED replaces
\* the address of a dummy entry that owns its payload, or the reset of a
\* restart cuts an allocation or a handler of the master in two
THEOREM PayloadOwned == Spec => []PayloadOwnership
<1>1. Init => OwnInv /\ PartitionOf(blocks, mem)
  BY DEF Init, OwnInv, OwnCell, PartitionOf, blocks, NoBuf, NoRdb, Instance, Peers
<1>2. ListInv /\ ListInv' /\ PayInv /\ [Next]_vars => PayInv'
  BY PayStep DEF PayInv, PayKept
<1>3. Init /\ ListInv => PayInv
  BY <1>1 DEF PayInv
<1>4. PayInv => PayloadOwnership
  BY PayImplies
<1>5. QED
  BY <1>2, <1>3, <1>4, ListsCorrect, PTL DEF Spec
=============================================================================

--------------------------- MODULE RpmsgCtrlProofs ---------------------------
(***************************************************************************)
(* Theorems about RpmsgCtrl for any set of callers, ids, groups and notify *)
(* objects, any bound on calls, and every choice of failures that is named *)
(* in the theorem.                                                         *)
(***************************************************************************)
EXTENDS RpmsgCtrl, FiniteSetTheorems, WellFoundedInduction, SequenceTheorems, TLAPS

USE ConstantsAssumption

-----------------------------------------------------------------------------
(* Queues of messages and lists of entries.                                *)

\* What a message at the end of a queue changes
LEMMA Appended ==
  ASSUME NEW S, NEW q \in Seq(S), NEW m \in S
  PROVE  /\ Append(q, m) \in Seq(S)
         /\ DOMAIN Append(q, m) = 1..(Len(q) + 1) /\ DOMAIN q = 1..Len(q)
         /\ \A k \in DOMAIN q : Append(q, m)[k] = q[k]
         /\ Append(q, m)[Len(q) + 1] = m
  BY AppendProperties

\* Two messages at the end of a queue
LEMMA Appended2 ==
  ASSUME NEW S, NEW q \in Seq(S), NEW a \in S, NEW b \in S
  PROVE  /\ q \o <<a, b>> \in Seq(S)
         /\ DOMAIN (q \o <<a, b>>) = 1..(Len(q) + 2)
         /\ \A k \in DOMAIN q : (q \o <<a, b>>)[k] = q[k]
         /\ (q \o <<a, b>>)[Len(q) + 1] = a /\ (q \o <<a, b>>)[Len(q) + 2] = b
<1>1. <<a, b>> \in Seq(S) /\ Len(<<a, b>>) = 2 /\ <<a, b>>[1] = a /\ <<a, b>>[2] = b
  OBVIOUS
<1>2. Len(q) \in Nat /\ DOMAIN q = 1..Len(q)
  BY LenProperties
<1>3. /\ q \o <<a, b>> \in Seq(S) /\ Len(q \o <<a, b>>) = Len(q) + 2
      /\ \A k \in 1..(Len(q) + 2) :
           (q \o <<a, b>>)[k] = IF k <= Len(q) THEN q[k] ELSE <<a, b>>[k - Len(q)]
  BY <1>1, ConcatProperties
<1>4. DOMAIN (q \o <<a, b>>) = 1..(Len(q) + 2)
  BY <1>3, LenProperties
<1>5. \A k \in DOMAIN q : (q \o <<a, b>>)[k] = q[k]
  BY <1>2, <1>3
<1>6. (q \o <<a, b>>)[Len(q) + 1] = <<a, b>>[1]
  BY <1>2, <1>3
<1>7. (q \o <<a, b>>)[Len(q) + 2] = <<a, b>>[2]
  BY <1>2, <1>3
<1>8. QED
  BY <1>1, <1>3, <1>4, <1>5, <1>6, <1>7

\* What taking the oldest message changes
LEMMA Taken1 ==
  ASSUME NEW S, NEW q \in Seq(S), q # << >>
  PROVE  /\ Tail(q) \in Seq(S) /\ Head(q) = q[1] /\ Head(q) \in S /\ 1 \in DOMAIN q
         /\ DOMAIN q = 1..Len(q) /\ DOMAIN Tail(q) = 1..(Len(q) - 1)
         /\ \A k \in DOMAIN Tail(q) : k + 1 \in DOMAIN q /\ Tail(q)[k] = q[k + 1]
  BY HeadTailProperties, EmptySeq, LenProperties

\* An entry in front of a list
LEMMA Prepended ==
  ASSUME NEW S, NEW l \in Seq(S), NEW n \in S
  PROVE  /\ <<n>> \o l \in Seq(S)
         /\ DOMAIN (<<n>> \o l) = 1..(Len(l) + 1) /\ DOMAIN l = 1..Len(l)
         /\ (<<n>> \o l)[1] = n
         /\ \A k \in DOMAIN l : (<<n>> \o l)[k + 1] = l[k]
<1>1. <<n>> \in Seq(S) /\ Len(<<n>>) = 1 /\ <<n>>[1] = n
  OBVIOUS
<1>2. QED
  BY <1>1, ConcatProperties, LenProperties

\* A list without one of its entries
LEMMA Shortened ==
  ASSUME NEW S, NEW l \in Seq(S), NEW k \in DOMAIN l
  PROVE  /\ Without(l, k) \in Seq(S)
         /\ DOMAIN l = 1..Len(l) /\ DOMAIN Without(l, k) = 1..(Len(l) - 1)
         /\ \A j \in DOMAIN Without(l, k) :
              /\ j \in DOMAIN l /\ j + 1 \in DOMAIN l
              /\ Without(l, k)[j] = IF j < k THEN l[j] ELSE l[j + 1]
<1>1. Len(l) \in Nat /\ DOMAIN l = 1..Len(l) /\ Len(l) - 1 \in Nat
  BY LenProperties
<1>2. Without(l, k) \in [1..(Len(l) - 1) -> S]
  BY <1>1, ElementOfSeq DEF Without
<1>3. Without(l, k) \in Seq(S)
  BY <1>1, <1>2, IsASeq
<1>4. QED
  BY <1>1, <1>2, <1>3 DEF Without

-----------------------------------------------------------------------------
(* Types.                                                                  *)

NotifyType == [used: BOOLEAN, id: Ids \cup {0}, status: {"none", "failed", "ok"}, done: Nat]
ListType == [nxt: [Cells \cup {Anchor} -> Cells \cup {Anchor}],
             prv: [Cells \cup {Anchor} -> Cells \cup {Anchor}]]
CallType ==
  [pc: {"idle", "found", "send", "mark", "wait", "del", "list", "bind", "drop"},
   op: {"none", "create", "release", "clear", "reset"},
   node: Cells \cup {None}, id: Ids \cup {0}, grp: Groups \cup {None},
   af: BOOLEAN, res: {"none", "unsent", "bad", "ok"}]

\* A caller inside an ioctl has an object; creations and releases have one of
\* their own
CallOk(r) ==
  r.pc # "idle" =>
    /\ r.op # "none" /\ r.node \in Cells
    /\ r.op \in {"create", "release"} => r.node \in Nodes /\ r.id \in Ids
    /\ r.pc \in {"list", "bind"} => r.op = "create"
    /\ r.pc = "found" => r.op = "release"

Callers == th \in [Threads -> CallType] /\ \A t \in Threads : CallOk(th[t])
FilesType ==
  /\ mine \in [Threads -> SUBSET Ids] /\ known \in [Threads -> SUBSET Ids]
  /\ auto \in [Threads -> BOOLEAN] /\ closing \in [Threads -> BOOLEAN]
DevicesType ==
  dev \in [Ids -> {"none", "bound", "removed"}] /\ open \in [Ids -> BOOLEAN]
QueuesType == toR \in Seq(ToRemote) /\ toL \in Seq(ToLinux)

\* The callback of an acknowledgement has that message in hand
AckType ==
  /\ found \in Looked /\ stray \in BOOLEAN
  /\ found # Nothing => toL # << >> /\ Head(toL).k = "ack"

TypeInv ==
  /\ ida \subseteq Ids /\ obj \in [Cells -> NotifyType] /\ wait \in ListType
  /\ epts \in Seq(Nodes) /\ Callers /\ FilesType /\ calls \in [Threads -> Nat]
  /\ DevicesType /\ rem \in [Ids -> Groups \cup {None}] /\ QueuesType /\ hung \in BOOLEAN
  /\ AckType

LEMMA TypeInvImplies == TypeInv => TypeOK
  BY DEF TypeInv, TypeOK, NotifyType, ListType, CallType, Callers, FilesType,
         DevicesType, QueuesType, AckType

LEMMA FreeNotify ==
  /\ FreeObj \in NotifyType
  /\ \A i \in Ids : [FreeObj EXCEPT !.used = TRUE, !.id = i] \in NotifyType
  BY DEF FreeObj, NotifyType

LEMMA IdleCall == Idle \in CallType /\ CallOk(Idle) /\ Idle.pc = "idle"
  BY DEF Idle, CallType, CallOk

LEMMA LinkedType ==
  ASSUME NEW l \in ListType, NEW n \in Cells PROVE Linked(l, n) \in ListType
  BY DEF Linked, ListType

LEMMA UnlinkedType ==
  ASSUME NEW l \in ListType, NEW n \in Cells PROVE Unlinked(l, n) \in ListType
  BY DEF Unlinked, ListType

\* A caller whose call becomes r
LEMMA CallersStep ==
  ASSUME Callers, NEW t \in Threads, NEW r \in CallType, CallOk(r), th' = [th EXCEPT ![t] = r]
  PROVE  Callers'
  BY DEF Callers

LEMMA CallersReturn ==
  ASSUME Callers, NEW t \in Threads, Return(t) PROVE Callers'
  BY IdleCall, CallersStep DEF Return

LEMMA CallersGoto ==
  ASSUME Callers, NEW t \in Threads, th[t].pc # "idle",
         NEW pc \in {"send", "mark", "wait", "del", "list", "bind", "drop"},
         pc \in {"list", "bind"} => th[t].op = "create", Goto(t, pc)
  PROVE  Callers'
<1> DEFINE r == [th[t] EXCEPT !.pc = pc]
<1>1. r \in CallType
  BY DEF Callers, CallType
<1>2. CallOk(r)
  BY DEF Callers, CallType, CallOk
<1>3. th' = [th EXCEPT ![t] = r]
  BY DEF Goto
<1>4. QED
  BY <1>1, <1>2, <1>3, CallersStep

LEMMA InitType == Init => TypeInv
<1>1. SUFFICES ASSUME Init PROVE TypeInv
  OBVIOUS
<1>2. obj \in [Cells -> NotifyType]
  BY <1>1 DEF Init, FreeObj, NotifyType
<1>3. wait \in ListType
  <2>1. [nxt |-> [c \in Cells \cup {Anchor} |-> c], prv |-> [c \in Cells \cup {Anchor} |-> c]]
          \in ListType
    BY DEF ListType
  <2>2. QED
    BY <1>1, <2>1, LinkedType DEF Init, Cells
<1>4. Callers
  BY <1>1, IdleCall DEF Init, Callers
<1>5. FilesType /\ DevicesType /\ QueuesType /\ epts \in Seq(Nodes)
  BY <1>1 DEF Init, FilesType, DevicesType, QueuesType
<1>6. AckType
  BY <1>1 DEF Init, AckType, Looked
<1>7. QED
  BY <1>1, <1>2, <1>3, <1>4, <1>5, <1>6 DEF Init, TypeInv

\* The variables that an action leaves alone keep their types
LEMMA TypeSame ==
  ASSUME TypeInv
  PROVE  /\ UNCHANGED ida => (ida \subseteq Ids)'
         /\ UNCHANGED obj => (obj \in [Cells -> NotifyType])'
         /\ UNCHANGED wait => (wait \in ListType)'
         /\ UNCHANGED epts => (epts \in Seq(Nodes))'
         /\ UNCHANGED th => Callers'
         /\ UNCHANGED files => FilesType'
         /\ UNCHANGED calls => (calls \in [Threads -> Nat])'
         /\ UNCHANGED devs => DevicesType'
         /\ UNCHANGED rem => (rem \in [Ids -> Groups \cup {None}])'
         /\ UNCHANGED <<toR, toL>> => QueuesType'
         /\ UNCHANGED hung => (hung \in BOOLEAN)'
         /\ UNCHANGED toL /\ UNCHANGED pending => AckType'
<1> USE DEF TypeInv
<1>1. UNCHANGED th => Callers'
  BY DEF Callers
<1>2. UNCHANGED files => FilesType'
  BY DEF files, FilesType
<1>3. UNCHANGED devs => DevicesType'
  BY DEF devs, DevicesType
<1>4. UNCHANGED <<toR, toL>> => QueuesType'
  BY DEF QueuesType
<1>5. UNCHANGED toL /\ UNCHANGED pending => AckType'
  BY DEF pending, AckType
<1>6. QED
  BY <1>1, <1>2, <1>3, <1>4, <1>5

\* Freeing an object that the callback may have in hand
LEMMA TypeFreed ==
  ASSUME AckType, NEW cells \in SUBSET Cells, Freed(cells), UNCHANGED <<toL, stray>>
  PROVE  AckType'
<1>1. CASE found.node \notin cells
  BY <1>1 DEF AckType, Freed
<1>2. CASE found.node \in cells
  <2>1. None \notin Cells /\ Nothing.node = None
    BY DEF Cells, Nothing
  <2>2. found # Nothing /\ found.node \in Cells
    BY <1>2, <2>1
  <2>3. found \in [node: Cells, stored: BOOLEAN, live: BOOLEAN]
    BY <2>2 DEF AckType, Looked
  <2>4. found' = [found EXCEPT !.live = FALSE]
    BY <1>2 DEF Freed
  <2>5. found' \in Looked
    BY <2>3, <2>4 DEF Looked
  <2>6. QED
    BY <2>2, <2>5 DEF AckType
<1>3. QED
  BY <1>1, <1>2

LEMMA TypeBeginRelease ==
  ASSUME Callers, NEW t \in Threads, NEW i \in Ids, BeginRelease(t, i)
  PROVE  Callers'
<1>1. CASE Return(t)
  BY <1>1, CallersReturn
<1>2. CASE ~Return(t)
  <2>1. PICK n \in Nodes : th' = [th EXCEPT ![t] = [Idle EXCEPT !.pc = "found", !.op = "release",
                                                     !.node = n, !.id = i]]
    BY <1>2 DEF BeginRelease
  <2> DEFINE r == [Idle EXCEPT !.pc = "found", !.op = "release", !.node = n, !.id = i]
  <2>2. r \in CallType /\ CallOk(r)
    BY DEF Idle, CallType, CallOk, Cells
  <2>3. QED
    BY <2>1, <2>2, CallersStep
<1>3. QED
  BY <1>1, <1>2

\* The steps that start a call
LEMMA TypeNewCall ==
  ASSUME TypeInv, NEW t \in Threads, NewCall(t)
  PROVE  TypeInv'
<1>1. ASSUME NEW g \in Groups, NEW af \in BOOLEAN, Create(t, g, af) PROVE TypeInv'
  <2>1. PICK i \in Ids, n \in Nodes :
          /\ ida' = ida \cup {i}
          /\ obj' = [obj EXCEPT ![n] = [FreeObj EXCEPT !.used = TRUE, !.id = i]]
          /\ wait' = Linked(wait, n)
          /\ th' = [th EXCEPT ![t] = [pc |-> "send", op |-> "create", node |-> n,
                                   id |-> i, grp |-> g, af |-> af, res |-> "none"]]
    BY <1>1 DEF Create
  <2>2. n \in Cells /\ obj' \in [Cells -> NotifyType] /\ wait' \in ListType
    BY <2>1, FreeNotify, LinkedType DEF Cells, TypeInv
  <2> DEFINE r == [pc |-> "send", op |-> "create", node |-> n,
                   id |-> i, grp |-> g, af |-> af, res |-> "none"]
  <2>3. r \in CallType /\ CallOk(r)
    BY <2>2 DEF CallType, CallOk
  <2>4. Callers'
    BY <2>1, <2>3, CallersStep DEF TypeInv
  <2>5. ida' \subseteq Ids /\ calls' \in [Threads -> Nat]
    BY <1>1, <2>1 DEF Create, TypeInv
  <2>6. QED
    BY <1>1, <2>2, <2>4, <2>5, TypeSame DEF Create, TypeInv
<1>2. ASSUME NEW i \in Ids, Destroy(t, i) PROVE TypeInv'
  <2>1. Callers'
    BY <1>2, TypeBeginRelease DEF Destroy, TypeInv
  <2>2. FilesType'
    BY <1>2 DEF Destroy, TypeInv, FilesType
  <2>3. QED
    BY <1>2, <2>1, <2>2, TypeSame DEF Destroy, TypeInv
<1>3. ASSUME NEW op \in {"clear", "reset"}, NEW g \in Groups \cup {None}, Reset(t, op, g)
      PROVE  TypeInv'
  <2>0. Ctrl \in Cells /\ wait' = Linked(wait, Ctrl) /\ obj' = [obj EXCEPT ![Ctrl].done = 0]
    BY <1>3 DEF Reset, Cells
  <2>1. obj' \in [Cells -> NotifyType] /\ wait' \in ListType
    BY <2>0, LinkedType DEF TypeInv, NotifyType
  <2> DEFINE r == [Idle EXCEPT !.pc = "send", !.op = op, !.node = Ctrl, !.grp = g]
  <2>2. r \in CallType /\ CallOk(r)
    BY DEF Idle, CallType, CallOk, Cells
  <2>3. Callers'
    BY <1>3, <2>2, CallersStep DEF Reset, TypeInv
  <2>4. calls' \in [Threads -> Nat]
    BY <1>3 DEF Reset, TypeInv
  <2>5. QED
    BY <1>3, <2>0, <2>1, <2>3, <2>4, TypeSame DEF Reset, TypeInv
<1>4. CASE CloseFile(t)
  <2>1. FilesType'
    BY <1>4 DEF CloseFile, TypeInv, FilesType
  <2>2. QED
    BY <1>4, <2>1, TypeSame DEF CloseFile, TypeInv
<1>5. QED
  BY <1>1, <1>2, <1>3, <1>4 DEF NewCall

\* The steps inside a call
LEMMA TypeCallStep ==
  ASSUME TypeInv, NEW t \in Threads, CallStep(t) \/ WaitTimeout(t)
  PROVE  TypeInv'
<1>0. /\ th[t] \in CallType /\ CallOk(th[t]) /\ Callers
      /\ obj \in [Cells -> NotifyType] /\ wait \in ListType
  BY DEF TypeInv, Callers
<1>1. CASE ReleaseWait(t)
  <2>1. th[t].node \in Cells /\ th[t].pc # "idle"
    BY <1>0, <1>1 DEF ReleaseWait, At, CallOk
  <2>2. obj' \in [Cells -> NotifyType] /\ wait' \in ListType
    BY <1>0, <1>1, <2>1, LinkedType DEF ReleaseWait, NotifyType
  <2>3. Callers'
    BY <1>0, <1>1, <2>1, CallersGoto DEF ReleaseWait
  <2>4. calls' \in [Threads -> Nat]
    BY <1>1 DEF ReleaseWait, TypeInv
  <2>5. QED
    BY <1>1, <2>2, <2>3, <2>4, TypeSame DEF ReleaseWait, TypeInv
<1>2. CASE Send(t)
  <2>1. th[t].pc # "idle"
    BY <1>2 DEF Send
  <2>2. CASE toR' = Append(toR, Request(t)) /\ Goto(t, IF th[t].op = "create" THEN "mark" ELSE "wait")
    <3>1. Request(t) \in ToRemote
      BY <1>0, <2>1 DEF Request, ToRemote, CallType, CallOk, TypeInv
    <3>2. QueuesType'
      BY <1>2, <2>2, <3>1, Appended DEF Send, QueuesType, TypeInv
    <3>3. Callers'
      BY <1>0, <2>1, <2>2, CallersGoto
    <3>4. QED
      BY <1>2, <3>2, <3>3, TypeSame DEF Send, TypeInv
  <2>3. CASE th' = [th EXCEPT ![t].pc = "del", ![t].res = "unsent"] /\ UNCHANGED toR
    <3> DEFINE r == [th[t] EXCEPT !.pc = "del", !.res = "unsent"]
    <3>1. r \in CallType /\ CallOk(r)
      BY <1>0, <2>1 DEF CallType, CallOk
    <3>2. Callers'
      BY <1>0, <2>3, <3>1, CallersStep
    <3>3. QED
      BY <1>2, <2>3, <3>2, TypeSame DEF Send, TypeInv
  <2>4. QED
    BY <1>2, <2>2, <2>3 DEF Send
<1>3. CASE Mark(t)
  <2>1. th[t].node \in Cells /\ th[t].pc # "idle"
    BY <1>0, <1>3 DEF Mark, CallOk
  <2>2. obj' \in [Cells -> NotifyType]
    BY <1>0, <1>3, <2>1 DEF Mark, NotifyType
  <2>3. Callers'
    BY <1>0, <1>3, <2>1, CallersGoto DEF Mark
  <2>4. QED
    BY <1>3, <2>2, <2>3, TypeSame DEF Mark, TypeInv
<1>4. CASE WaitDone(t)
  <2>1. th[t].node \in Cells /\ th[t].pc # "idle"
    BY <1>0, <1>4 DEF WaitDone, CallOk
  <2>2. obj' \in [Cells -> NotifyType]
    BY <1>0, <1>4, <2>1 DEF WaitDone, NotifyType
  <2> DEFINE res == IF obj[th[t].node].status = "ok" THEN "ok" ELSE "bad"
             r == [th[t] EXCEPT !.pc = "del", !.res = res]
  <2>3. r \in CallType /\ CallOk(r)
    BY <1>0, <2>1 DEF CallType, CallOk
  <2>4. Callers'
    BY <1>0, <1>4, <2>3, CallersStep DEF WaitDone
  <2>5. QED
    BY <1>4, <2>2, <2>4, TypeSame DEF WaitDone, TypeInv
<1>5. CASE WaitTimeout(t)
  <2> DEFINE r == [th[t] EXCEPT !.pc = "del", !.res = "bad"]
  <2>1. r \in CallType /\ CallOk(r)
    BY <1>0, <1>5 DEF WaitTimeout, CallType, CallOk
  <2>2. th' = [th EXCEPT ![t].pc = "del", ![t].res = "bad"]
    BY <1>5 DEF WaitTimeout
  <2>4. Callers'
    BY <1>0, <2>1, <2>2, CallersStep
  <2>3. QED
    BY <1>5, <2>4, TypeSame DEF WaitTimeout, TypeInv
<1>6. CASE NotifyDel(t)
  <2>1. th[t].node \in Cells /\ th[t].pc = "del"
    BY <1>0, <1>6 DEF NotifyDel, At, CallOk
  <2>2. wait' \in ListType
    BY <1>0, <1>6, <2>1, UnlinkedType DEF NotifyDel
  <2>3. obj' \in [Cells -> NotifyType]
    BY <1>0, <1>6, <2>1, FreeNotify DEF NotifyDel
  <2>4. Callers'
    <3>1. Return(t) \/ Goto(t, "drop") \/ (th[t].op = "create" /\ Goto(t, "list"))
      BY <1>6 DEF NotifyDel
    <3>2. QED
      BY <1>0, <2>1, <3>1, CallersReturn, CallersGoto
  <2>5. FilesType'
    BY <1>6 DEF NotifyDel, TypeInv, FilesType
  <2>6. AckType'
    <3>1. UNCHANGED <<toL, stray>> /\ (UNCHANGED found \/ Freed({th[t].node}))
      BY <1>6 DEF NotifyDel
    <3>2. AckType /\ {th[t].node} \in SUBSET Cells
      BY <2>1 DEF TypeInv
    <3>3. QED
      BY <3>1, <3>2, TypeFreed, TypeSame DEF pending
  <2>7. QED
    BY <1>6, <2>2, <2>3, <2>4, <2>5, <2>6, TypeSame DEF NotifyDel, TypeInv
<1>7. CASE EptsAdd(t)
  <2>1. /\ th[t].node \in Nodes /\ th[t].id \in Ids
        /\ th[t].op = "create" /\ th[t].pc # "idle"
    BY <1>0, <1>7 DEF EptsAdd, At, CallOk
  <2>2. epts' \in Seq(Nodes)
    BY <1>7, <2>1, Prepended DEF EptsAdd, TypeInv
  <2>3. Callers'
    <3>1. Return(t) \/ Goto(t, "bind")
      BY <1>7 DEF EptsAdd
    <3>2. QED
      BY <1>0, <2>1, <3>1, CallersReturn, CallersGoto
  <2>4. FilesType'
    <3>1. UNCHANGED <<mine, auto, closing>>
          /\ (UNCHANGED known \/ known' = [known EXCEPT ![t] = @ \cup {th[t].id}])
      BY <1>7 DEF EptsAdd
    <3>2. known' \in [Threads -> SUBSET Ids]
      BY <2>1, <3>1 DEF TypeInv, FilesType
    <3>3. QED
      BY <3>1, <3>2 DEF TypeInv, FilesType
  <2>5. QED
    BY <1>7, <2>2, <2>3, <2>4, TypeSame DEF EptsAdd, TypeInv
<1>8. CASE Bind(t)
  <2>1. th[t].id \in Ids
    BY <1>0, <1>8 DEF Bind, CallOk
  <2>2. FilesType'
    BY <1>8, <2>1 DEF Bind, TypeInv, FilesType
  <2>3. Callers'
    BY <1>0, <1>8, CallersReturn DEF Bind
  <2>4. QED
    BY <1>8, <2>2, <2>3, TypeSame DEF Bind, TypeInv
<1>9. CASE EptsDel(t)
  <2>1. epts' \in Seq(Nodes)
    <3>1. epts \in Seq(Nodes)
      BY DEF TypeInv
    <3>2. epts' = << >> \/ \E k \in DOMAIN epts : epts' = Without(epts, k)
      BY <1>9 DEF EptsDel
    <3>3. \A k \in DOMAIN epts : Without(epts, k) \in Seq(Nodes)
      BY <3>1, Shortened
    <3>4. << >> \in Seq(Nodes)
      OBVIOUS
    <3>5. QED
      BY <3>2, <3>3, <3>4
  <2>2. obj' \in [Cells -> NotifyType]
    BY <1>0, <1>9, FreeNotify DEF EptsDel
  <2>3. FilesType'
    BY <1>9 DEF EptsDel, TypeInv, FilesType
  <2>4. Callers'
    BY <1>0, <1>9, CallersReturn DEF EptsDel
  <2>5. AckType'
    <3>1. UNCHANGED <<toL, stray>> /\ Freed(Dropped(t)) /\ AckType
      BY <1>9 DEF EptsDel, TypeInv
    <3>2. Dropped(t) \in SUBSET Cells
      <4>1. th[t].node \in Cells /\ \A k \in DOMAIN epts : epts[k] \in Nodes
        BY <1>0, <1>9, ElementOfSeq, LenProperties DEF EptsDel, At, CallOk, TypeInv
      <4>2. QED
        BY <4>1 DEF Dropped, Cells
    <3>3. QED
      BY <3>1, <3>2, TypeFreed
  <2>6. QED
    BY <1>9, <2>1, <2>2, <2>3, <2>4, <2>5, TypeSame DEF EptsDel, TypeInv
<1>10. CASE AutoRelease(t)
  <2>1. FilesType'
    <3>1. /\ UNCHANGED mine \/ \E i \in Ids : mine' = [mine EXCEPT ![t] = @ \ {i}]
          /\ UNCHANGED auto \/ auto' = [auto EXCEPT ![t] = FALSE]
          /\ UNCHANGED closing \/ closing' = [closing EXCEPT ![t] = FALSE]
          /\ UNCHANGED known
      BY <1>10 DEF AutoRelease, TypeInv, FilesType
    <3>2. mine' \in [Threads -> SUBSET Ids]
      <4>1. \A i \in Ids : mine[t] \ {i} \in SUBSET Ids
        BY DEF TypeInv, FilesType
      <4>2. mine \in [Threads -> SUBSET Ids]
        BY DEF TypeInv, FilesType
      <4>3. ASSUME NEW i \in Ids, mine' = [mine EXCEPT ![t] = @ \ {i}]
            PROVE  mine' \in [Threads -> SUBSET Ids]
        BY <4>1, <4>2, <4>3
      <4>4. QED
        BY <3>1, <4>2, <4>3
    <3>3. auto' \in [Threads -> BOOLEAN] /\ closing' \in [Threads -> BOOLEAN]
      BY <3>1 DEF TypeInv, FilesType
    <3>4. QED
      BY <3>1, <3>2, <3>3 DEF TypeInv, FilesType
  <2>2. Callers'
    <3>1. UNCHANGED th \/ \E i \in Ids : BeginRelease(t, i)
      BY <1>10 DEF AutoRelease, TypeInv, FilesType
    <3>2. QED
      BY <1>0, <3>1, TypeBeginRelease, TypeSame
  <2>3. QED
    BY <1>10, <2>1, <2>2, TypeSame DEF AutoRelease, TypeInv
<1>11. QED
  BY <1>1, <1>2, <1>3, <1>4, <1>5, <1>6, <1>7, <1>8, <1>9, <1>10 DEF CallStep

\* The callback of an acknowledgement: what it changes
LEMMA AckSteps ==
  ASSUME TypeInv, AckFind \/ AckStatus \/ AckComplete
  PROVE  /\ toL # << >> /\ Head(toL).k = "ack" /\ (UNCHANGED toL \/ toL' = Tail(toL))
         /\ UNCHANGED <<ida, wait, epts, th, files, calls, devs, rem, toR>>
         /\ obj' \in [Cells -> NotifyType] /\ hung' \in BOOLEAN /\ AckType'
<1>0. AckType /\ obj \in [Cells -> NotifyType] /\ None \notin Cells
  BY DEF TypeInv, Cells
<1>1. CASE AckFind
  <2>1. found' \in Looked
    <3>1. \A c \in Cells : [node |-> c, stored |-> FALSE, live |-> TRUE]
                              \in [node: Cells, stored: BOOLEAN, live: BOOLEAN]
      OBVIOUS
    <3>2. UNCHANGED found
          \/ \E c \in Cells : found' = [node |-> c, stored |-> FALSE, live |-> TRUE]
      BY <1>1 DEF AckFind
    <3>3. QED
      BY <1>0, <3>1, <3>2 DEF AckType, Looked
  <2>2. found' # Nothing => UNCHANGED toL
    BY <1>1 DEF AckFind
  <2>3. QED
    BY <1>0, <1>1, <2>1, <2>2 DEF AckFind, AckType, TypeInv
<1>2. CASE AckStatus
  <2>1. found # Nothing /\ found \in [node: Cells, stored: BOOLEAN, live: BOOLEAN]
    BY <1>0, <1>2 DEF AckStatus, AckType, Looked
  <2>2. found' \in Looked /\ stray' \in BOOLEAN
    <3>1. found' = [found EXCEPT !.stored = TRUE] /\ stray' = (stray \/ ~found.live)
      BY <1>2 DEF AckStatus, Touch
    <3>2. found' \in [node: Cells, stored: BOOLEAN, live: BOOLEAN]
      BY <2>1, <3>1
    <3>3. QED
      BY <1>0, <2>1, <3>1, <3>2 DEF AckType, Looked
  <2>3. obj' \in [Cells -> NotifyType]
    BY <1>0, <1>2, <2>1 DEF AckStatus, NotifyType
  <2>4. QED
    BY <1>0, <1>2, <2>1, <2>2, <2>3 DEF AckStatus, AckType, TypeInv
<1>3. CASE AckComplete
  <2>1. found # Nothing
    BY <1>3 DEF AckComplete, Nothing
  <2>2. found.node \in Cells /\ found.live \in BOOLEAN
    BY <1>0, <2>1 DEF AckType, Looked
  <2>3. stray' \in BOOLEAN /\ found' = Nothing
    BY <1>0, <1>3, <2>2 DEF AckComplete, AckType, Touch
  <2>4. obj' \in [Cells -> NotifyType]
    <3>1. obj' = [obj EXCEPT ![found.node].done = @ + 1]
      BY <1>3 DEF AckComplete
    <3>2. obj[found.node] \in NotifyType
      BY <1>0, <2>2
    <3>3. [obj[found.node] EXCEPT !.done = @ + 1] \in NotifyType
      BY <3>2 DEF NotifyType
    <3>4. QED
      BY <1>0, <2>2, <3>1, <3>3
  <2>5. QED
    BY <1>0, <1>3, <2>1, <2>3, <2>4 DEF AckComplete, AckType, Looked, TypeInv
<1>4. QED
  BY <1>1, <1>2, <1>3

\* A callback of a device starts after that of an acknowledgement has ended
LEMMA OtherSteps ==
  ASSUME TypeInv, NewCb \/ GoneCb
  PROVE  /\ toL # << >> /\ Head(toL) \in ToLinux /\ toL' = Tail(toL) /\ toL' \in Seq(ToLinux)
         /\ found = Nothing /\ AckType'
<1>1. toL # << >> /\ toL' = Tail(toL) /\ toL \in Seq(ToLinux) /\ Head(toL).k # "ack"
      /\ UNCHANGED pending
  BY DEF NewCb, GoneCb, Take, TypeInv, QueuesType
<1>2. found = Nothing
  BY <1>1 DEF TypeInv, AckType
<1>3. QED
  BY <1>1, <1>2, Taken1 DEF TypeInv, AckType, pending

LEMMA TypeRxStep ==
  ASSUME TypeInv, RxStep
  PROVE  TypeInv'
<1>1. CASE AckFind \/ AckStatus \/ AckComplete
  <2>1. /\ toL # << >> /\ (UNCHANGED toL \/ toL' = Tail(toL))
        /\ UNCHANGED <<ida, wait, epts, th, files, calls, devs, rem, toR>>
        /\ obj' \in [Cells -> NotifyType] /\ hung' \in BOOLEAN /\ AckType'
    BY <1>1, AckSteps
  <2>2. QueuesType'
    <3>1. toL \in Seq(ToLinux) /\ toR \in Seq(ToRemote) /\ Tail(toL) \in Seq(ToLinux)
      BY <2>1, Taken1 DEF TypeInv, QueuesType
    <3>2. QED
      BY <2>1, <3>1 DEF QueuesType
  <2>3. QED
    BY <2>1, <2>2, TypeSame DEF TypeInv
<1>2. CASE NewCb
  <2>1. Head(toL) \in ToLinux /\ toL' \in Seq(ToLinux) /\ AckType'
    BY <1>2, OtherSteps
  <2>2. [cmd |-> "bound", id |-> Head(toL).id, grp |-> None,
         by |-> Head(toL).by, seq |-> Head(toL).seq] \in ToRemote
    BY <2>1 DEF ToLinux, ToRemote
  <2>3. QueuesType'
    BY <1>2, <2>1, <2>2, Appended DEF NewCb, QueuesType, TypeInv
  <2>4. DevicesType'
    BY <1>2 DEF NewCb, DevicesType, TypeInv
  <2>5. QED
    BY <1>2, <2>1, <2>3, <2>4, TypeSame DEF NewCb, TypeInv
<1>3. CASE GoneCb
  <2>1. toL' \in Seq(ToLinux) /\ AckType'
    BY <1>3, OtherSteps
  <2>2. ida' \subseteq Ids /\ DevicesType'
    BY <1>3 DEF GoneCb, LastPut, DevicesType, TypeInv
  <2>3. QueuesType'
    BY <1>3, <2>1 DEF GoneCb, QueuesType, TypeInv
  <2>4. QED
    BY <1>3, <2>1, <2>2, <2>3, TypeSame DEF GoneCb, TypeInv
<1>4. QED
  BY <1>1, <1>2, <1>3 DEF RxStep

LEMMA TypeRemoteStep ==
  ASSUME TypeInv, RemoteStep
  PROVE  TypeInv'
<1> USE DEF Asked
<1> DEFINE m == Head(toR)
<1>1. toR # << >> /\ m \in ToRemote /\ Tail(toR) \in Seq(ToRemote)
  BY Taken1 DEF RemoteStep, RemoteCreate, RemoteBound, RemoteRelease, RemoteReset,
                TypeInv, QueuesType
<1>2. /\ \A ok \in BOOLEAN : Answer(m, ok) \in ToLinux
      /\ \A i \in Ids : Event("gone", m, i) \in ToLinux
      /\ Event("new", m, m.id) \in ToLinux /\ Event("gone", m, m.id) \in ToLinux
      /\ m.grp \in Groups \cup {None}
  BY <1>1 DEF Answer, Event, ToRemote, ToLinux
<1>3. toR' \in Seq(ToRemote)
  BY <1>1 DEF RemoteStep, RemoteCreate, RemoteBound, RemoteRelease, RemoteReset,
              TypeInv, QueuesType
<1>4. rem' \in [Ids -> Groups \cup {None}]
  BY <1>2 DEF RemoteStep, RemoteCreate, RemoteBound, RemoteRelease, RemoteReset, TypeInv
<1> DEFINE Longer == toL' \in Seq(ToLinux) /\ (toL # << >> => toL' # << >> /\ toL'[1] = toL[1])
<1>5. Longer
  <2>1. toL \in Seq(ToLinux) /\ Len(toL) \in Nat /\ DOMAIN toL = 1..Len(toL)
        /\ (toL # << >> => 1 \in DOMAIN toL)
    BY EmptySeq, LenProperties DEF TypeInv, QueuesType
  <2>0. ASSUME NEW x \in ToLinux, toL' = Append(toL, x) PROVE Longer
    BY <2>0, <2>1, Appended
  <2>2. CASE \E ok \in BOOLEAN : toL' = Append(toL, Answer(m, ok))
    BY <1>2, <2>0, <2>2
  <2>3. CASE \/ toL' = Append(toL, Event("new", m, m.id))
             \/ \E i \in Ids : toL' = Append(toL, Event("gone", m, i))
    BY <1>2, <2>0, <2>3
  <2>4. CASE \/ toL' = toL \o <<Answer(m, TRUE), Event("gone", m, m.id)>>
             \/ toL' = toL \o <<Event("gone", m, m.id), Answer(m, TRUE)>>
    <3> DEFINE a == Answer(m, TRUE)
               e == Event("gone", m, m.id)
    <3>0. a \in ToLinux /\ e \in ToLinux
      BY <1>2
    <3> HIDE DEF a, e
    <3>1. ASSUME NEW x \in ToLinux, NEW y \in ToLinux, toL' = toL \o <<x, y>> PROVE Longer
      BY <2>1, <3>1, Appended2
    <3>2. QED
      BY <2>4, <3>0, <3>1 DEF a, e
  <2>5. CASE RemoteCreate
    BY <2>2, <2>3, <2>5 DEF RemoteCreate
  <2>6. CASE RemoteBound
    BY <2>1, <2>2, <2>6 DEF RemoteBound
  <2>7. CASE RemoteRelease
    BY <2>2, <2>4, <2>7 DEF RemoteRelease
  <2>8. CASE RemoteReset
    BY <2>2, <2>3, <2>8 DEF RemoteReset, Affected
  <2>9. QED
    BY <2>5, <2>6, <2>7, <2>8 DEF RemoteStep
<1>6. QueuesType'
  BY <1>3, <1>5 DEF QueuesType
<1>7. UNCHANGED <<ida, obj, wait, epts, th, files, calls, devs, hung, pending>>
  BY DEF RemoteStep, RemoteCreate, RemoteBound, RemoteRelease, RemoteReset, RemoteOnly
<1>8. AckType'
  <2>1. AckType /\ (toL # << >> => Head(toL) = toL[1]) /\ (toL' # << >> => Head(toL') = toL'[1])
    BY <1>5, Taken1 DEF TypeInv, QueuesType
  <2>2. QED
    BY <1>5, <1>7, <2>1 DEF AckType, pending
<1>9. QED
  BY <1>4, <1>6, <1>7, <1>8, TypeSame DEF TypeInv

LEMMA TypeDevices ==
  ASSUME TypeInv, NEW i \in Ids, OpenDev(i) \/ CloseDev(i)
  PROVE  TypeInv'
<1>1. ida' \subseteq Ids /\ DevicesType'
  BY DEF OpenDev, CloseDev, LastPut, TypeInv, DevicesType
<1>2. UNCHANGED <<obj, wait, epts, th, files, calls, rem, toR, toL, hung, pending>>
  BY DEF OpenDev, CloseDev
<1>3. QED
  BY <1>1, <1>2, TypeSame DEF TypeInv

LEMMA TypeStep == TypeInv /\ [Next]_vars => TypeInv'
<1>1. SUFFICES ASSUME TypeInv, [Next]_vars PROVE TypeInv'
  OBVIOUS
<1>2. CASE UNCHANGED vars
  BY <1>1, <1>2, TypeSame DEF vars, TypeInv
<1>3. CASE Next
  BY <1>1, <1>3, TypeNewCall, TypeCallStep, TypeRxStep, TypeRemoteStep, TypeDevices DEF Next
<1>4. QED
  BY <1>1, <1>2, <1>3

\* Every variable has its type.  RpmsgCtrl, all operations: in particular no
\* queue carries, and no list holds, anything but what the code put there.
THEOREM TypeCorrect == Spec => []TypeOK
<1>1. Spec => []TypeInv
  BY InitType, TypeStep, PTL DEF Spec
<1>2. QED
  BY <1>1, TypeInvImplies, PTL

-----------------------------------------------------------------------------
(* Ids.                                                                    *)

\* Before /dev/rpmsg<i> exists the right to make it is in one place: a caller
\* about to send its request, the request, or the announcement
Sending(t) == th[t].pc = "send" /\ th[t].op = "create"
Promised(i) == i \in ida /\ dev[i] = "none"

Tokens ==
  /\ \A i \in Ids : dev[i] # "none" => i \in ida
  /\ \A t \in Threads : Sending(t) => Promised(th[t].id)
  /\ \A k \in DOMAIN toR : toR[k].cmd = "create" => Promised(toR[k].id)
  /\ \A k \in DOMAIN toL : toL[k].k = "new" => Promised(toL[k].id)
  /\ \A t, u \in Threads : Sending(t) /\ Sending(u) /\ th[t].id = th[u].id => t = u
  /\ \A t \in Threads, k \in DOMAIN toR :
       Sending(t) /\ toR[k].cmd = "create" => toR[k].id # th[t].id
  /\ \A t \in Threads, k \in DOMAIN toL :
       Sending(t) /\ toL[k].k = "new" => toL[k].id # th[t].id
  /\ \A j, k \in DOMAIN toR :
       toR[j].cmd = "create" /\ toR[k].cmd = "create" /\ toR[j].id = toR[k].id => j = k
  /\ \A j, k \in DOMAIN toL :
       toL[j].k = "new" /\ toL[k].k = "new" /\ toL[j].id = toL[k].id => j = k
  /\ \A j \in DOMAIN toR, k \in DOMAIN toL :
       toR[j].cmd = "create" /\ toL[k].k = "new" => toR[j].id # toL[k].id

IdInv == TypeInv /\ Tokens

LEMMA TokensExclude == IdInv => IdExclusive
<1>1. SUFFICES ASSUME IdInv PROVE IdExclusive
  OBVIOUS
<1>2. \A i \in Ids : dev[i] # "none" => i \in ida
  BY <1>1 DEF IdInv, Tokens
<1>3. ASSUME NEW c \in Creations
      PROVE  /\ IdOf(c) \in ida /\ dev[IdOf(c)] = "none"
             /\ \/ /\ c[1] = "R" /\ c = <<"R", c[2]>> /\ IdOf(c) = toR[c[2]].id
                   /\ c[2] \in DOMAIN toR /\ toR[c[2]].cmd = "create"
                \/ /\ c[1] = "L" /\ c = <<"L", c[2]>> /\ IdOf(c) = toL[c[2]].id
                   /\ c[2] \in DOMAIN toL /\ toL[c[2]].k = "new"
  BY <1>1 DEF IdInv, Tokens, Promised, Creations, IdOf
<1>4. ASSUME NEW c \in Creations, NEW d \in Creations, IdOf(c) = IdOf(d)
      PROVE  c = d
  <2>1. c[2] = d[2] /\ c[1] = d[1]
    BY <1>1, <1>3, <1>4 DEF IdInv, Tokens
  <2>2. QED
    BY <1>3, <2>1
<1>5. QED
  BY <1>2, <1>3, <1>4 DEF IdExclusive

LEMMA InitTokens == Init => Tokens
  BY DEF Init, Tokens, Sending, Idle

\* A step that makes no request or announcement of a creation, and only frees
\* an id whose device existed
LEMMA TokensKept ==
  ASSUME TypeInv, Tokens, NEW d \in {0, 1}, NEW e \in {0, 1},
         \A k \in DOMAIN toR' :
           toR'[k].cmd = "create" => k + d \in DOMAIN toR /\ toR'[k] = toR[k + d],
         \A k \in DOMAIN toL' :
           toL'[k].k = "new" => k + e \in DOMAIN toL /\ toL'[k] = toL[k + e],
         DOMAIN toR' \subseteq Nat, DOMAIN toL' \subseteq Nat,
         \A t \in Threads : Sending(t)' => Sending(t) /\ th'[t].id = th[t].id,
         \A i \in Ids : Promised(i) => Promised(i)',
         ida \subseteq Ids,
         \A i \in Ids : dev'[i] # "none" => i \in ida'
  PROVE  Tokens'
<1>1. \A i \in Ids : i \in ida /\ dev[i] = "none" => i \in ida' /\ dev'[i] = "none"
  BY DEF Promised
<1>2. \A t \in Threads :
        Sending(t)' => th'[t].id \in ida' /\ dev'[th'[t].id] = "none"
  BY <1>1 DEF Tokens, Promised
<1>9. ASSUME NEW k \in DOMAIN toR', toR'[k].cmd = "create"
      PROVE  toR'[k].id \in ida' /\ dev'[toR'[k].id] = "none"
  <2>1. k + d \in DOMAIN toR /\ toR[k + d].cmd = "create" /\ toR'[k].id = toR[k + d].id
    BY <1>9
  <2>2. toR[k + d].id \in ida /\ dev[toR[k + d].id] = "none"
    BY <2>1 DEF Tokens, Promised
  <2>3. QED
    BY <1>1, <2>1, <2>2
<1>10. ASSUME NEW k \in DOMAIN toL', toL'[k].k = "new"
      PROVE  toL'[k].id \in ida' /\ dev'[toL'[k].id] = "none"
  <2>1. k + e \in DOMAIN toL /\ toL[k + e].k = "new" /\ toL'[k].id = toL[k + e].id
    BY <1>10
  <2>2. toL[k + e].id \in ida /\ dev[toL[k + e].id] = "none"
    BY <2>1 DEF Tokens, Promised
  <2>3. QED
    BY <1>1, <2>1, <2>2
<1>3. \A j, k \in DOMAIN toR' :
        toR'[j].cmd = "create" /\ toR'[k].cmd = "create" /\ toR'[j].id = toR'[k].id => j = k
  BY DEF Tokens
<1>4. \A j, k \in DOMAIN toL' :
        toL'[j].k = "new" /\ toL'[k].k = "new" /\ toL'[j].id = toL'[k].id => j = k
  BY DEF Tokens
<1>5. \A j \in DOMAIN toR', k \in DOMAIN toL' :
       toR'[j].cmd = "create" /\ toL'[k].k = "new" => toR'[j].id # toL'[k].id
  BY DEF Tokens
<1>6. \A t, u \in Threads : (Sending(t) /\ Sending(u) /\ th[t].id = th[u].id)' => t = u
  BY DEF Tokens, Sending
<1>7. /\ \A t \in Threads, k \in DOMAIN toR' :
           Sending(t)' /\ toR'[k].cmd = "create" => toR'[k].id # th'[t].id
      /\ \A t \in Threads, k \in DOMAIN toL' :
           Sending(t)' /\ toL'[k].k = "new" => toL'[k].id # th'[t].id
  BY DEF Tokens
<1>8. QED
  BY <1>2, <1>3, <1>4, <1>5, <1>6, <1>7, <1>9, <1>10 DEF Tokens, Sending, Promised

\* A caller that does not come to the sending of a creation
LEMMA TokensOther ==
  ASSUME TypeInv, Tokens, NEW t \in Threads,
         \/ \E i \in Ids : Destroy(t, i)
         \/ \E op \in {"clear", "reset"}, g \in Groups \cup {None} : Reset(t, op, g)
         \/ CloseFile(t)
         \/ ReleaseWait(t) \/ Mark(t) \/ WaitDone(t) \/ WaitTimeout(t) \/ NotifyDel(t)
         \/ EptsAdd(t) \/ Bind(t) \/ EptsDel(t) \/ AutoRelease(t)
  PROVE  Tokens'
<1>1. UNCHANGED <<ida, dev, toR, toL>>
  BY DEF Destroy, Reset, CloseFile, ReleaseWait, Mark, WaitDone, WaitTimeout, NotifyDel,
         EptsAdd, Bind, EptsDel, AutoRelease, devs
<1>2. th \in [Threads -> CallType] /\ CallOk(th[t])
  BY DEF TypeInv, Callers
<1>3. \/ UNCHANGED th
      \/ /\ \A u \in Threads : u # t => th'[u] = th[u]
         /\ th'[t].pc # "send" \/ th'[t].op # "create"
  <2>1. ASSUME NEW i \in Ids, BeginRelease(t, i)
        PROVE  /\ \A u \in Threads : u # t => th'[u] = th[u]
               /\ th'[t].pc # "send" \/ th'[t].op # "create"
    <3>1. Idle.pc = "idle" /\ (Idle.op = "none")
      BY DEF Idle
    <3>2. \/ th' = [th EXCEPT ![t] = Idle]
          \/ \E n \in Nodes : th' = [th EXCEPT ![t] = [Idle EXCEPT !.pc = "found",
                                          !.op = "release", !.node = n, !.id = i]]
      BY <2>1 DEF BeginRelease, Return
    <3>3. \A n \in Nodes : [Idle EXCEPT !.pc = "found", !.op = "release",
                                        !.node = n, !.id = i].pc = "found"
      BY DEF Idle
    <3>4. QED
      BY <1>2, <3>1, <3>2, <3>3
  <2>2. CASE (\E i \in Ids : Destroy(t, i)) \/ AutoRelease(t)
    <3>1. UNCHANGED th \/ \E i \in Ids : BeginRelease(t, i)
      BY <2>2 DEF Destroy, AutoRelease, TypeInv, FilesType
    <3>2. QED
      BY <2>1, <3>1
  <2>3. CASE \E op \in {"clear", "reset"}, g \in Groups \cup {None} : Reset(t, op, g)
    <3>1. PICK op \in {"clear", "reset"}, g \in Groups \cup {None} :
            th' = [th EXCEPT ![t] = [Idle EXCEPT !.pc = "send", !.op = op,
                                                 !.node = Ctrl, !.grp = g]]
      BY <2>3 DEF Reset
    <3>2. [Idle EXCEPT !.pc = "send", !.op = op, !.node = Ctrl, !.grp = g].op # "create"
      BY DEF Idle
    <3>3. QED
      BY <1>2, <3>1, <3>2
  <2>4. CASE ReleaseWait(t)
    BY <1>2, <2>4 DEF ReleaseWait, At, Goto, CallOk, CallType
  <2>5. CASE Mark(t) \/ WaitDone(t) \/ WaitTimeout(t)
    BY <1>2, <2>5 DEF Mark, WaitDone, WaitTimeout, Goto, CallType
  <2>6. CASE NotifyDel(t) \/ EptsAdd(t) \/ Bind(t) \/ EptsDel(t)
    BY <1>2, <2>6 DEF NotifyDel, EptsAdd, Bind, EptsDel, Goto, Return, Idle, CallType
  <2>7. CASE CloseFile(t)
    BY <2>7 DEF CloseFile
  <2>8. QED
    BY <2>2, <2>3, <2>4, <2>5, <2>6, <2>7
<1>4. \A u \in Threads : Sending(u)' => Sending(u) /\ th'[u].id = th[u].id
  BY <1>3 DEF Sending
<1>5. DOMAIN toR \subseteq Nat /\ DOMAIN toL \subseteq Nat /\ ida \subseteq Ids
  BY LenProperties DEF TypeInv, QueuesType
<1>6. \A i \in Ids : dev[i] # "none" => i \in ida
  BY DEF Tokens
<1>7. /\ \A k \in DOMAIN toR' : k + 0 \in DOMAIN toR /\ toR'[k] = toR[k + 0]
      /\ \A k \in DOMAIN toL' : k + 0 \in DOMAIN toL /\ toL'[k] = toL[k + 0]
      /\ DOMAIN toR' \subseteq Nat /\ DOMAIN toL' \subseteq Nat
  BY <1>1, <1>5
<1>8. /\ \A i \in Ids : Promised(i) => Promised(i)'
      /\ \A i \in Ids : dev'[i] # "none" => i \in ida'
  BY <1>1, <1>6 DEF Promised
<1>9. QED
  BY <1>4, <1>5, <1>7, <1>8, TokensKept

LEMMA TokensCreate ==
  ASSUME TypeInv, Tokens, NEW t \in Threads, NEW g \in Groups, NEW af \in BOOLEAN,
         Create(t, g, af)
  PROVE  Tokens'
<1>1. PICK i \in Ids, n \in Nodes :
        /\ i \notin ida /\ ida' = ida \cup {i}
        /\ th' = [th EXCEPT ![t] = [pc |-> "send", op |-> "create", node |-> n,
                                 id |-> i, grp |-> g, af |-> af, res |-> "none"]]
  BY DEF Create, LowestId
<1>2. UNCHANGED <<dev, toR, toL>> /\ th[t].pc = "idle"
  BY DEF Create, devs, MayCall, At
<1>3. /\ th'[t].pc = "send" /\ th'[t].op = "create" /\ th'[t].id = i
      /\ \A u \in Threads : u # t => th'[u] = th[u]
  BY <1>1 DEF TypeInv, Callers
<1>4. dev[i] = "none"
  BY <1>1 DEF Tokens
<1>5. /\ \A u \in Threads : Sending(u) => th[u].id # i
      /\ \A k \in DOMAIN toR : toR[k].cmd = "create" => toR[k].id # i
      /\ \A k \in DOMAIN toL : toL[k].k = "new" => toL[k].id # i
  BY <1>1 DEF Tokens, Promised
<1>6. \A u \in Threads : Sending(u)' <=> u = t \/ Sending(u)
  BY <1>3 DEF Sending
<1>7. /\ \A j \in Ids : Promised(j) => Promised(j)'
      /\ \A j : j \in ida /\ dev[j] = "none" => j \in ida' /\ dev'[j] = "none"
      /\ \A j \in Ids : dev'[j] # "none" => j \in ida'
      /\ i \in ida' /\ dev'[i] = "none"
  BY <1>1, <1>2, <1>4 DEF Promised, Tokens
<1>8. /\ \A u \in Threads : Sending(u)' => th'[u].id \in ida' /\ dev'[th'[u].id] = "none"
      /\ \A k \in DOMAIN toR : toR[k].cmd = "create" =>
           toR[k].id \in ida' /\ dev'[toR[k].id] = "none"
      /\ \A k \in DOMAIN toL : toL[k].k = "new" =>
           toL[k].id \in ida' /\ dev'[toL[k].id] = "none"
  BY <1>3, <1>6, <1>7 DEF Tokens, Promised
<1>9. \A u, v \in Threads : Sending(u)' /\ Sending(v)' /\ th'[u].id = th'[v].id => u = v
  BY <1>3, <1>5, <1>6 DEF Tokens
<1>10. \A u \in Threads :
         Sending(u)' => /\ \A k \in DOMAIN toR : toR[k].cmd = "create" => toR[k].id # th'[u].id
                        /\ \A k \in DOMAIN toL : toL[k].k = "new" => toL[k].id # th'[u].id
  BY <1>3, <1>5, <1>6 DEF Tokens
<1>11. QED
  BY <1>2, <1>7, <1>8, <1>9, <1>10 DEF Tokens, Promised, Sending

LEMMA TokensSend ==
  ASSUME TypeInv, Tokens, NEW t \in Threads, Send(t)
  PROVE  Tokens'
<1>1. /\ th \in [Threads -> CallType] /\ th[t] \in CallType /\ CallOk(th[t]) /\ ida \subseteq Ids
      /\ toR \in Seq(ToRemote) /\ toL \in Seq(ToLinux)
  BY DEF TypeInv, Callers, QueuesType
<1>2. UNCHANGED <<ida, dev, toL>> /\ th[t].pc = "send"
  BY DEF Send, devs
<1>3. /\ \A u \in Threads : u # t => th'[u] = th[u]
      /\ th'[t].pc # "send"
  <2>1. \/ th' = [th EXCEPT ![t].pc = IF th[t].op = "create" THEN "mark" ELSE "wait"]
        \/ th' = [th EXCEPT ![t].pc = "del", ![t].res = "unsent"]
    BY DEF Send, Goto
  <2>2. QED
    BY <1>1, <2>1 DEF CallType
<1>4. \A u \in Threads : Sending(u)' => u # t /\ Sending(u) /\ th'[u].id = th[u].id
  BY <1>3 DEF Sending
<1>5. /\ DOMAIN toL = 1..Len(toL) /\ Len(toL) \in Nat /\ DOMAIN toR = 1..Len(toR)
      /\ Len(toR) \in Nat
  BY <1>1, LenProperties
<1>6. /\ \A i \in Ids : Promised(i) => Promised(i)'
      /\ \A i \in Ids : dev'[i] # "none" => i \in ida'
      /\ \A k \in DOMAIN toL' : k + 0 \in DOMAIN toL /\ toL'[k] = toL[k + 0]
      /\ DOMAIN toL' \subseteq Nat
  BY <1>2, <1>5 DEF Promised, Tokens
<1>7. CASE UNCHANGED toR
  <2>1. /\ \A k \in DOMAIN toR' : k + 0 \in DOMAIN toR /\ toR'[k] = toR[k + 0]
        /\ DOMAIN toR' \subseteq Nat
    BY <1>5, <1>7
  <2>2. QED
    BY <1>1, <1>4, <1>6, <2>1, TokensKept
<1>8. CASE toR' = Append(toR, Request(t))
  <2>1. Request(t) \in ToRemote
    BY <1>1, <1>2 DEF Request, ToRemote, CallType, CallOk, TypeInv
  <2>2. /\ DOMAIN toR' = 1..(Len(toR) + 1) /\ \A k \in DOMAIN toR : toR'[k] = toR[k]
        /\ toR'[Len(toR) + 1] = Request(t)
    BY <1>1, <1>8, <2>1, Appended
  <2>3. Request(t).cmd = th[t].op /\ Request(t).id = th[t].id
    BY DEF Request
  <2>4. CASE th[t].op # "create"
    <3>1. /\ \A k \in DOMAIN toR' :
               toR'[k].cmd = "create" => k + 0 \in DOMAIN toR /\ toR'[k] = toR[k + 0]
          /\ DOMAIN toR' \subseteq Nat
      BY <1>5, <2>2, <2>3, <2>4
    <3>2. QED
      BY <1>1, <1>4, <1>6, <3>1, TokensKept
  <2>5. CASE th[t].op = "create"
    <3>1. Sending(t)
      BY <1>2, <2>5 DEF Sending
    <3>2. ASSUME NEW k \in DOMAIN toR'
          PROVE  (k \in DOMAIN toR /\ toR'[k] = toR[k])
                 \/ (k = Len(toR) + 1 /\ toR'[k].id = th[t].id /\ toR'[k].cmd = "create")
      BY <1>5, <2>2, <2>3, <2>5
    <3>3. \A k \in DOMAIN toR' : toR'[k].cmd = "create" =>
            toR'[k].id \in ida' /\ dev'[toR'[k].id] = "none"
      BY <1>2, <3>1, <3>2 DEF Tokens, Promised
    <3>4. \A u \in Threads, k \in DOMAIN toR' :
            Sending(u)' /\ toR'[k].cmd = "create" => toR'[k].id # th'[u].id
      BY <1>4, <3>1, <3>2 DEF Tokens
    <3>5. \A j, k \in DOMAIN toR' :
            toR'[j].cmd = "create" /\ toR'[k].cmd = "create" /\ toR'[j].id = toR'[k].id => j = k
      BY <3>1, <3>2 DEF Tokens
    <3>6. \A j \in DOMAIN toR', k \in DOMAIN toL' :
            toR'[j].cmd = "create" /\ toL'[k].k = "new" => toR'[j].id # toL'[k].id
      BY <1>2, <3>1, <3>2 DEF Tokens
    <3>7. /\ \A i \in Ids : dev'[i] # "none" => i \in ida'
          /\ \A k \in DOMAIN toL' : toL'[k].k = "new" =>
               toL'[k].id \in ida' /\ dev'[toL'[k].id] = "none"
          /\ \A j, k \in DOMAIN toL' :
               toL'[j].k = "new" /\ toL'[k].k = "new" /\ toL'[j].id = toL'[k].id => j = k
      BY <1>2 DEF Tokens, Promised
    <3>8. /\ \A u \in Threads : Sending(u)' => th'[u].id \in ida' /\ dev'[th'[u].id] = "none"
          /\ \A u, v \in Threads : Sending(u)' /\ Sending(v)' /\ th'[u].id = th'[v].id => u = v
          /\ \A u \in Threads, k \in DOMAIN toL' :
               Sending(u)' /\ toL'[k].k = "new" => toL'[k].id # th'[u].id
      BY <1>2, <1>4 DEF Tokens, Promised
    <3>9. QED
      BY <3>3, <3>4, <3>5, <3>6, <3>7, <3>8 DEF Tokens, Promised, Sending
  <2>6. QED
    BY <2>4, <2>5
<1>9. QED
  BY <1>7, <1>8 DEF Send

LEMMA TokensRx ==
  ASSUME TypeInv, Tokens, RxStep
  PROVE  Tokens'
<1>1. toL # << >> /\ UNCHANGED th /\ (UNCHANGED toL \/ toL' = Tail(toL))
      /\ (NewCb => toL' = Tail(toL))
  BY AckSteps, OtherSteps DEF RxStep, NewCb, GoneCb
<1>2. /\ toR \in Seq(ToRemote) /\ toL \in Seq(ToLinux) /\ ida \subseteq Ids
      /\ dev \in [Ids -> {"none", "bound", "removed"}]
  BY DEF TypeInv, QueuesType, DevicesType
<1>3. /\ Head(toL) = toL[1] /\ 1 \in DOMAIN toL /\ Head(toL) \in ToLinux
      /\ Len(toL) \in Nat /\ Len(toR) \in Nat /\ DOMAIN toR = 1..Len(toR)
      /\ DOMAIN toL = 1..Len(toL) /\ DOMAIN Tail(toL) = 1..(Len(toL) - 1)
      /\ \A k \in DOMAIN Tail(toL) : k + 1 \in DOMAIN toL /\ Tail(toL)[k] = toL[k + 1]
  BY <1>1, <1>2, Taken1, LenProperties
<1>4. /\ DOMAIN toL' \subseteq Nat /\ DOMAIN toR \subseteq Nat
      /\ \E e \in {0, 1} : \A k \in DOMAIN toL' : k + e \in DOMAIN toL /\ toL'[k] = toL[k + e]
      /\ \A k \in DOMAIN toR : k + 0 \in DOMAIN toR /\ toR[k] = toR[k + 0]
      /\ \A t \in Threads : Sending(t)' => Sending(t) /\ th'[t].id = th[t].id
  <2>1. CASE UNCHANGED toL
    <3>1. \A k \in DOMAIN toL' : k + 0 \in DOMAIN toL /\ toL'[k] = toL[k + 0]
      BY <1>3, <2>1
    <3>2. DOMAIN toL' \subseteq Nat
      BY <1>3, <2>1
    <3>3. QED
      BY <1>1, <1>3, <3>1, <3>2 DEF Sending
  <2>2. CASE toL' = Tail(toL)
    <3>1. \A k \in DOMAIN toL' : k + 1 \in DOMAIN toL /\ toL'[k] = toL[k + 1]
      BY <1>3, <2>2
    <3>2. DOMAIN toL' \subseteq Nat
      BY <1>3, <2>2
    <3>3. QED
      BY <1>1, <1>3, <3>1, <3>2 DEF Sending
  <2>3. QED
    BY <1>1, <2>1, <2>2
<1>5. CASE AckFind \/ AckStatus \/ AckComplete \/ GoneCb
  <2>1. UNCHANGED toR
    BY <1>5, AckSteps DEF GoneCb
  <2>2. \/ UNCHANGED <<ida, dev>>
        \/ UNCHANGED ida /\ \E i : dev[i] = "bound" /\ dev' = [dev EXCEPT ![i] = "removed"]
        \/ \E i : dev[i] = "bound" /\ dev' = [dev EXCEPT ![i] = "none"] /\ ida' = ida \ {i}
    BY <1>5, AckSteps DEF GoneCb, LastPut, devs
  <2>3. /\ \A i \in Ids : Promised(i) => Promised(i)'
        /\ \A i \in Ids : dev'[i] # "none" => i \in ida'
    BY <1>2, <2>2 DEF Promised, Tokens
  <2>4. QED
    BY <1>2, <1>3, <1>4, <2>1, <2>3, TokensKept
<1>6. CASE NewCb
  <2> DEFINE i == Head(toL).id
             b == [cmd |-> "bound", id |-> i, grp |-> None,
                   by |-> Head(toL).by, seq |-> Head(toL).seq]
  <2>1. toL' = Tail(toL)
        /\ Head(toL).k = "new" /\ dev[i] = "none" /\ dev' = [dev EXCEPT ![i] = "bound"]
        /\ toR' = Append(toR, b) /\ UNCHANGED ida
    BY <1>6 DEF NewCb, Take
  <2>2. b \in ToRemote
    BY <1>3 DEF ToLinux, ToRemote
  <2>3. /\ DOMAIN toR' = 1..(Len(toR) + 1) /\ \A k \in DOMAIN toR : toR'[k] = toR[k]
        /\ toR'[Len(toR) + 1] = b
    BY <1>2, <2>1, <2>2, Appended
  <2>4. b.cmd = "bound"
    OBVIOUS
  <2> HIDE DEF b
  <2>5. \A k \in DOMAIN toR' : toR'[k].cmd = "create" => k \in DOMAIN toR /\ toR'[k] = toR[k]
    BY <1>3, <2>3, <2>4
  <2>6. toL[1].k = "new" /\ toL[1].id = i
    BY <1>3, <2>1
  <2>7. i \in ida
    BY <1>3, <2>6 DEF Tokens, Promised
  <2>8. \A j \in Ids : j \in ida /\ dev[j] = "none" /\ j # i => j \in ida' /\ dev'[j] = "none"
    BY <1>2, <2>1
  <2>9. /\ \A t \in Threads : Sending(t) => th[t].id # i
        /\ \A k \in DOMAIN toR : toR[k].cmd = "create" => toR[k].id # i
        /\ \A k \in DOMAIN toL : toL[k].k = "new" /\ k # 1 => toL[k].id # i
    BY <1>3, <2>6 DEF Tokens
  <2>0. ASSUME NEW t \in Threads, Sending(t)'
        PROVE  th'[t].id \in ida' /\ dev'[th'[t].id] = "none"
    <3>1. Sending(t) /\ th'[t].id = th[t].id
      BY <1>4, <2>0
    <3>2. th[t].id \in ida /\ dev[th[t].id] = "none" /\ th[t].id # i
      BY <2>9, <3>1 DEF Tokens, Promised
    <3>3. QED
      BY <1>2, <2>8, <3>1, <3>2
  <2>10. /\ \A t, u \in Threads : (Sending(t) /\ Sending(u) /\ th[t].id = th[u].id)' => t = u
         /\ \A t \in Threads, k \in DOMAIN toR' :
              Sending(t)' /\ toR'[k].cmd = "create" => toR'[k].id # th'[t].id
    BY <1>1, <2>5 DEF Tokens, Sending
  <2>11. \A t \in Threads, k \in DOMAIN toL' :
            Sending(t)' /\ toL'[k].k = "new" => toL'[k].id # th'[t].id
    BY <1>1, <1>3, <2>1 DEF Tokens, Sending
  <2>12. ASSUME NEW k \in DOMAIN toR', toR'[k].cmd = "create"
         PROVE  toR'[k].id \in ida' /\ dev'[toR'[k].id] = "none"
    <3>1. k \in DOMAIN toR /\ toR[k] = toR'[k] /\ toR[k].cmd = "create"
      BY <2>5, <2>12
    <3>2. toR[k].id \in ida /\ dev[toR[k].id] = "none" /\ toR[k].id # i
      BY <2>9, <3>1 DEF Tokens, Promised
    <3>3. QED
      BY <1>2, <2>8, <3>1, <3>2
  <2>13. ASSUME NEW k \in DOMAIN toL', toL'[k].k = "new"
         PROVE  toL'[k].id \in ida' /\ dev'[toL'[k].id] = "none"
    <3>1. k + 1 \in DOMAIN toL /\ toL[k + 1] = toL'[k] /\ k + 1 # 1
      BY <1>3, <2>1
    <3>2. toL[k + 1].id \in ida /\ dev[toL[k + 1].id] = "none" /\ toL[k + 1].id # i
      BY <2>9, <2>13, <3>1 DEF Tokens, Promised
    <3>3. QED
      BY <1>2, <2>8, <3>1, <3>2
  <2>14. \A j, k \in DOMAIN toR' :
            toR'[j].cmd = "create" /\ toR'[k].cmd = "create" /\ toR'[j].id = toR'[k].id => j = k
    BY <2>5 DEF Tokens
  <2>15. \A j, k \in DOMAIN toL' :
            toL'[j].k = "new" /\ toL'[k].k = "new" /\ toL'[j].id = toL'[k].id => j = k
    BY <1>3, <2>1 DEF Tokens
  <2>16. \A j \in DOMAIN toR', k \in DOMAIN toL' :
            toR'[j].cmd = "create" /\ toL'[k].k = "new" => toR'[j].id # toL'[k].id
    BY <1>3, <2>1, <2>5 DEF Tokens
  <2>17. \A j \in Ids : dev'[j] # "none" => j \in ida'
    BY <1>2, <2>1, <2>7 DEF Tokens
  <2>18. QED
    BY <2>0, <2>10, <2>11, <2>12, <2>13, <2>14, <2>15, <2>16, <2>17 DEF Tokens, Promised, Sending
<1>7. QED
  BY <1>5, <1>6 DEF RxStep

LEMMA TokensDevices ==
  ASSUME TypeInv, Tokens, NEW i \in Ids, OpenDev(i) \/ CloseDev(i)
  PROVE  Tokens'
<1>1. /\ UNCHANGED <<th, toR, toL>>
      /\ \/ UNCHANGED <<ida, dev>>
         \/ dev[i] = "removed" /\ dev' = [dev EXCEPT ![i] = "none"] /\ ida' = ida \ {i}
  BY DEF OpenDev, CloseDev, LastPut
<1>2. /\ DOMAIN toR \subseteq Nat /\ DOMAIN toL \subseteq Nat /\ ida \subseteq Ids
      /\ dev \in [Ids -> {"none", "bound", "removed"}]
  BY LenProperties DEF TypeInv, QueuesType, DevicesType
<1>3. /\ \A j \in Ids : Promised(j) => Promised(j)'
      /\ \A j \in Ids : dev'[j] # "none" => j \in ida'
  BY <1>1, <1>2 DEF Promised, Tokens
<1>4. /\ \A k \in DOMAIN toR' : k + 0 \in DOMAIN toR /\ toR'[k] = toR[k + 0]
      /\ \A k \in DOMAIN toL' : k + 0 \in DOMAIN toL /\ toL'[k] = toL[k + 0]
      /\ \A t \in Threads : Sending(t)' => Sending(t) /\ th'[t].id = th[t].id
  BY <1>1, <1>2 DEF Sending
<1>5. DOMAIN toR' \subseteq Nat /\ DOMAIN toL' \subseteq Nat
  BY <1>1, <1>2
<1>6. QED
  BY <1>2, <1>3, <1>4, <1>5, TokensKept


\* What the remote core may do to the queues
LEMMA RemoteQueues ==
  ASSUME TypeInv, RemoteStep
  PROVE  LET m == Head(toR) IN
         /\ toR # << >> /\ m = toR[1] /\ m \in ToRemote
         /\ \/ RemoteReset /\ UNCHANGED toR
            \/ /\ DOMAIN toR' = 1..(Len(toR) - 1)
               /\ \A k \in DOMAIN toR' : k + 1 \in DOMAIN toR /\ toR'[k] = toR[k + 1]
         /\ \A k \in DOMAIN toL : k \in DOMAIN toL' /\ toL'[k] = toL[k]
         /\ \/ /\ DOMAIN toL' = 1..(Len(toL) + 1)
               /\ \/ /\ m.cmd = "create"
                     /\ \/ toL'[Len(toL) + 1] = Event("new", m, m.id)
                        \/ toL'[Len(toL) + 1] = Answer(m, FALSE)
                  \/ m.cmd = "bound" /\ toL'[Len(toL) + 1] = Answer(m, TRUE)
                  \/ m.cmd = "release" /\ toL'[Len(toL) + 1] = Answer(m, FALSE)
                  \/ /\ m.cmd \in {"clear", "reset"}
                     /\ \/ toL'[Len(toL) + 1] = Answer(m, TRUE)
                        \/ \E i \in Ids : toL'[Len(toL) + 1] = Event("gone", m, i)
            \/ m.cmd = "bound" /\ UNCHANGED toL
            \/ /\ m.cmd = "release" /\ DOMAIN toL' = 1..(Len(toL) + 2)
               /\ \/ /\ toL'[Len(toL) + 1] = Answer(m, TRUE)
                     /\ toL'[Len(toL) + 2] = Event("gone", m, m.id)
                  \/ /\ GoneFirst
                     /\ toL'[Len(toL) + 1] = Event("gone", m, m.id)
                     /\ toL'[Len(toL) + 2] = Answer(m, TRUE)
<1> DEFINE m == Head(toR)
<1>1. /\ toR # << >> /\ toR \in Seq(ToRemote) /\ toL \in Seq(ToLinux)
      /\ (UNCHANGED toR /\ RemoteReset) \/ toR' = Tail(toR)
  BY DEF RemoteStep, RemoteCreate, RemoteBound, RemoteRelease, RemoteReset, Asked,
         TypeInv, QueuesType
<1>2. /\ m = toR[1] /\ m \in ToRemote /\ Len(toL) \in Nat /\ DOMAIN toL = 1..Len(toL)
      /\ DOMAIN Tail(toR) = 1..(Len(toR) - 1)
      /\ \A k \in DOMAIN Tail(toR) : k + 1 \in DOMAIN toR /\ Tail(toR)[k] = toR[k + 1]
  BY <1>1, Taken1, LenProperties
<1> DEFINE a == Answer(m, TRUE)
           f == Answer(m, FALSE)
           e == Event("new", m, m.id)
           g == Event("gone", m, m.id)
<1>3. a \in ToLinux /\ f \in ToLinux /\ e \in ToLinux /\ g \in ToLinux
      /\ \A i \in Ids : Event("gone", m, i) \in ToLinux
  BY <1>2 DEF Answer, Event, ToRemote, ToLinux
<1>4. ASSUME NEW x \in ToLinux
      PROVE  /\ DOMAIN Append(toL, x) = 1..(Len(toL) + 1)
             /\ \A k \in DOMAIN toL : k \in DOMAIN Append(toL, x) /\ Append(toL, x)[k] = toL[k]
             /\ Append(toL, x)[Len(toL) + 1] = x
  <2>1. /\ DOMAIN Append(toL, x) = 1..(Len(toL) + 1) /\ Append(toL, x)[Len(toL) + 1] = x
        /\ \A k \in DOMAIN toL : Append(toL, x)[k] = toL[k]
    BY <1>1, Appended
  <2>2. QED
    BY <1>2, <2>1
<1>5. ASSUME NEW x \in ToLinux, NEW y \in ToLinux
      PROVE  /\ DOMAIN (toL \o <<x, y>>) = 1..(Len(toL) + 2)
             /\ \A k \in DOMAIN toL :
                  k \in DOMAIN (toL \o <<x, y>>) /\ (toL \o <<x, y>>)[k] = toL[k]
             /\ (toL \o <<x, y>>)[Len(toL) + 1] = x /\ (toL \o <<x, y>>)[Len(toL) + 2] = y
  <2>1. /\ DOMAIN (toL \o <<x, y>>) = 1..(Len(toL) + 2)
        /\ (toL \o <<x, y>>)[Len(toL) + 1] = x /\ (toL \o <<x, y>>)[Len(toL) + 2] = y
        /\ \A k \in DOMAIN toL : (toL \o <<x, y>>)[k] = toL[k]
    BY <1>1, Appended2
  <2>2. QED
    BY <1>2, <2>1
<1>6. \/ m.cmd = "create" /\ (toL' = Append(toL, e) \/ toL' = Append(toL, f))
      \/ m.cmd = "bound" /\ (toL' = Append(toL, a) \/ UNCHANGED toL)
      \/ m.cmd = "release" /\ \/ toL' = Append(toL, f)
                              \/ toL' = toL \o <<a, g>>
                              \/ GoneFirst /\ toL' = toL \o <<g, a>>
      \/ /\ m.cmd \in {"clear", "reset"}
         /\ \/ toL' = Append(toL, a)
            \/ \E i \in Ids : toL' = Append(toL, Event("gone", m, i))
  BY DEF RemoteStep, RemoteCreate, RemoteBound, RemoteRelease, RemoteReset, Asked, Affected
<1> HIDE DEF m, a, f, e, g
<1>7. /\ \/ RemoteReset /\ UNCHANGED toR
         \/ /\ DOMAIN toR' = 1..(Len(toR) - 1)
            /\ \A k \in DOMAIN toR' : k + 1 \in DOMAIN toR /\ toR'[k] = toR[k + 1]
  BY <1>1, <1>2
<1>8. /\ \A k \in DOMAIN toL : k \in DOMAIN toL' /\ toL'[k] = toL[k]
      /\ \/ /\ DOMAIN toL' = 1..(Len(toL) + 1)
            /\ \/ /\ m.cmd = "create"
                  /\ toL'[Len(toL) + 1] = e \/ toL'[Len(toL) + 1] = f
               \/ m.cmd = "bound" /\ toL'[Len(toL) + 1] = a
               \/ m.cmd = "release" /\ toL'[Len(toL) + 1] = f
               \/ /\ m.cmd \in {"clear", "reset"}
                  /\ \/ toL'[Len(toL) + 1] = a
                     \/ \E i \in Ids : toL'[Len(toL) + 1] = Event("gone", m, i)
         \/ m.cmd = "bound" /\ UNCHANGED toL
         \/ /\ m.cmd = "release" /\ DOMAIN toL' = 1..(Len(toL) + 2)
            /\ \/ toL'[Len(toL) + 1] = a /\ toL'[Len(toL) + 2] = g
               \/ GoneFirst /\ toL'[Len(toL) + 1] = g /\ toL'[Len(toL) + 2] = a
  <2>1. CASE m.cmd = "create"
    BY <1>3, <1>4, <1>6, <2>1
  <2>2. CASE m.cmd = "bound"
    BY <1>3, <1>4, <1>6, <2>2
  <2>3. CASE m.cmd = "release"
    BY <1>3, <1>4, <1>5, <1>6, <2>3
  <2>4. CASE m.cmd \in {"clear", "reset"}
    BY <1>3, <1>4, <1>6, <2>4
  <2>5. QED
    BY <1>6, <2>1, <2>2, <2>3, <2>4
<1>9. QED
  BY <1>1, <1>2, <1>7, <1>8 DEF m, a, f, e, g


LEMMA TokensRemote ==
  ASSUME TypeInv, Tokens, RemoteStep
  PROVE  Tokens'
<1> DEFINE m == Head(toR)
           new == Event("new", m, m.id)
<1>1. /\ m = toR[1] /\ m \in ToRemote /\ 1 \in DOMAIN toR
      /\ DOMAIN toR = 1..Len(toR) /\ Len(toR) \in Nat
      /\ DOMAIN toL = 1..Len(toL) /\ Len(toL) \in Nat /\ ida \subseteq Ids
      /\ UNCHANGED <<ida, dev, th>>
  <2>1. /\ UNCHANGED <<ida, dev, th>> /\ toR # << >>
        /\ toR \in Seq(ToRemote) /\ toL \in Seq(ToLinux) /\ ida \subseteq Ids
    BY DEF RemoteStep, RemoteCreate, RemoteBound, RemoteRelease, RemoteReset, RemoteOnly,
           devs, Asked, TypeInv, QueuesType
  <2>2. QED
    BY <2>1, Taken1, LenProperties
<1>2. /\ new.k = "new" /\ new.id = m.id
      /\ \A ok \in BOOLEAN : Answer(m, ok).k # "new"
      /\ \A i : Event("gone", m, i).k # "new"
  BY DEF Answer, Event
<1> HIDE DEF m, new
<1>3. /\ \/ RemoteReset /\ UNCHANGED toR
         \/ /\ DOMAIN toR' = 1..(Len(toR) - 1)
            /\ \A k \in DOMAIN toR' : k + 1 \in DOMAIN toR /\ toR'[k] = toR[k + 1]
      /\ \A k \in DOMAIN toL : k \in DOMAIN toL' /\ toL'[k] = toL[k]
  BY RemoteQueues DEF m
<1>4. \/ \A k \in DOMAIN toL' : toL'[k].k = "new" => k \in DOMAIN toL
      \/ /\ m.cmd = "create" /\ DOMAIN toL' = 1..(Len(toL) + 1)
         /\ toL'[Len(toL) + 1] = new
  <2>1. \/ /\ DOMAIN toL' = 1..(Len(toL) + 1)
           /\ \/ toL'[Len(toL) + 1].k # "new"
              \/ m.cmd = "create" /\ toL'[Len(toL) + 1] = new
        \/ UNCHANGED toL
        \/ /\ DOMAIN toL' = 1..(Len(toL) + 2)
           /\ toL'[Len(toL) + 1].k # "new" /\ toL'[Len(toL) + 2].k # "new"
    BY <1>2, RemoteQueues DEF m, new
  <2>2. CASE /\ DOMAIN toL' = 1..(Len(toL) + 1) /\ toL'[Len(toL) + 1].k # "new"
    BY <1>1, <2>2
  <2>3. CASE /\ DOMAIN toL' = 1..(Len(toL) + 2)
             /\ toL'[Len(toL) + 1].k # "new" /\ toL'[Len(toL) + 2].k # "new"
    BY <1>1, <2>3
  <2>4. QED
    BY <2>1, <2>2, <2>3
<1>5. DOMAIN toR' \subseteq Nat /\ DOMAIN toL' \subseteq Nat
  <2>1. \/ DOMAIN toL' = 1..(Len(toL) + 1) \/ UNCHANGED toL \/ DOMAIN toL' = 1..(Len(toL) + 2)
    BY RemoteQueues
  <2>2. QED
    BY <1>1, <1>3, <2>1
<1>6. /\ \A t \in Threads : Sending(t)' => Sending(t) /\ th'[t].id = th[t].id
      /\ \A i \in Ids : Promised(i) => Promised(i)'
      /\ \A i \in Ids : dev'[i] # "none" => i \in ida'
  BY <1>1 DEF Sending, Promised, Tokens
<1>7. CASE \A k \in DOMAIN toL' : toL'[k].k = "new" => k \in DOMAIN toL
  <2>1. \A k \in DOMAIN toL' : toL'[k].k = "new" => k + 0 \in DOMAIN toL /\ toL'[k] = toL[k + 0]
    BY <1>1, <1>3, <1>7
  <2>2. CASE UNCHANGED toR
    <3>1. \A k \in DOMAIN toR' : k + 0 \in DOMAIN toR /\ toR'[k] = toR[k + 0]
      BY <1>1, <2>2
    <3>2. QED
      BY <1>1, <1>5, <1>6, <2>1, <3>1, TokensKept
  <2>3. CASE \A k \in DOMAIN toR' : k + 1 \in DOMAIN toR /\ toR'[k] = toR[k + 1]
    BY <1>1, <1>5, <1>6, <2>1, <2>3, TokensKept
  <2>4. QED
    BY <1>3, <2>2, <2>3
<1>8. CASE m.cmd = "create" /\ DOMAIN toL' = 1..(Len(toL) + 1) /\ toL'[Len(toL) + 1] = new
  <2>1. /\ DOMAIN toR' = 1..(Len(toR) - 1)
        /\ \A k \in DOMAIN toR' : k + 1 \in DOMAIN toR /\ toR'[k] = toR[k + 1]
    BY <1>3, <1>8 DEF RemoteReset, Asked, m
  <2>2. ASSUME NEW k \in DOMAIN toL'
        PROVE  \/ k \in DOMAIN toL /\ toL'[k] = toL[k]
               \/ k = Len(toL) + 1 /\ toL'[k].k = "new" /\ toL'[k].id = m.id
    BY <1>1, <1>2, <1>3, <1>8
  <2>3. /\ m.id \in ida /\ dev[m.id] = "none"
        /\ \A t \in Threads : Sending(t) => th[t].id # m.id
        /\ \A k \in DOMAIN toR : toR[k].cmd = "create" /\ k # 1 => toR[k].id # m.id
        /\ \A k \in DOMAIN toL : toL[k].k = "new" => toL[k].id # m.id
    BY <1>1, <1>8 DEF Tokens, Promised
  <2>4. \A k \in DOMAIN toL' : toL'[k].k = "new" =>
          toL'[k].id \in ida' /\ dev'[toL'[k].id] = "none"
    BY <1>1, <2>2, <2>3 DEF Tokens, Promised
  <2>5. \A j, k \in DOMAIN toL' :
          toL'[j].k = "new" /\ toL'[k].k = "new" /\ toL'[j].id = toL'[k].id => j = k
    BY <2>2, <2>3 DEF Tokens
  <2>6. /\ \A t, u \in Threads : (Sending(t) /\ Sending(u) /\ th[t].id = th[u].id)' => t = u
        /\ \A t \in Threads : Sending(t)' => th'[t].id \in ida' /\ dev'[th'[t].id] = "none"
    BY <1>1 DEF Tokens, Sending, Promised
  <2>7. \A t \in Threads, k \in DOMAIN toL' :
          Sending(t)' /\ toL'[k].k = "new" => toL'[k].id # th'[t].id
    BY <1>6, <2>2, <2>3 DEF Tokens
  <2>8. \A t \in Threads, k \in DOMAIN toR' :
          Sending(t)' /\ toR'[k].cmd = "create" => toR'[k].id # th'[t].id
    BY <1>6, <2>1 DEF Tokens
  <2>9. /\ \A k \in DOMAIN toR' : toR'[k].cmd = "create" =>
             toR'[k].id \in ida' /\ dev'[toR'[k].id] = "none" /\ toR'[k].id # m.id
    <3>1. SUFFICES ASSUME NEW k \in DOMAIN toR', toR'[k].cmd = "create"
                   PROVE  toR'[k].id \in ida /\ dev[toR'[k].id] = "none" /\ toR'[k].id # m.id
      BY <1>1
    <3>2. k + 1 \in DOMAIN toR /\ toR[k + 1] = toR'[k] /\ k + 1 # 1
      BY <1>5, <2>1
    <3>3. QED
      BY <2>3, <3>1, <3>2 DEF Tokens, Promised
  <2>10. \A j, k \in DOMAIN toR' :
          toR'[j].cmd = "create" /\ toR'[k].cmd = "create" /\ toR'[j].id = toR'[k].id => j = k
    BY <2>1 DEF Tokens
  <2>11. \A j \in DOMAIN toR', k \in DOMAIN toL' :
          toR'[j].cmd = "create" /\ toL'[k].k = "new" => toR'[j].id # toL'[k].id
    BY <2>1, <2>2, <2>9 DEF Tokens
  <2>12. QED
    BY <1>6, <2>4, <2>5, <2>6, <2>7, <2>8, <2>9, <2>10, <2>11 DEF Tokens, Promised, Sending
<1>9. QED
  BY <1>4, <1>7, <1>8

LEMMA IdStep == IdInv /\ [Next]_vars => IdInv'
<1>1. SUFFICES ASSUME IdInv, [Next]_vars PROVE IdInv'
  OBVIOUS
<1>2. TypeInv /\ Tokens /\ TypeInv'
  BY <1>1, TypeStep DEF IdInv
<1>3. ASSUME UNCHANGED vars PROVE Tokens'
  <2>1. /\ ida' = ida /\ dev' = dev /\ th' = th /\ toR' = toR /\ toL' = toL
    BY <1>3 DEF vars, devs
  <2>2. QED
    BY <1>2, <2>1 DEF Tokens, Sending, Promised
<1>4. ASSUME NEW t \in Threads, NewCall(t) \/ CallStep(t) \/ WaitTimeout(t) PROVE Tokens'
  BY <1>2, <1>4, TokensCreate, TokensOther, TokensSend DEF NewCall, CallStep
<1>5. ASSUME RxStep \/ RemoteStep \/ \E i \in Ids : OpenDev(i) \/ CloseDev(i) PROVE Tokens'
  BY <1>2, <1>5, TokensRx, TokensRemote, TokensDevices
<1>6. Tokens'
  <2>1. \/ UNCHANGED vars
        \/ \E t \in Threads : NewCall(t) \/ CallStep(t) \/ WaitTimeout(t)
        \/ RxStep \/ RemoteStep \/ \E i \in Ids : OpenDev(i) \/ CloseDev(i)
    BY <1>1 DEF Next
  <2>2. QED
    BY <1>3, <1>4, <1>5, <2>1
<1>7. QED
  BY <1>2, <1>6 DEF IdInv

\* An id of rpmsg_ept_ida is never in use twice.  RpmsgCtrl: it is given out by
\* ida_simple_get (rpmsg_master.c) and returned when the last reference to the
\* device is dropped (rpmsg_client.c); between the two the request for the
\* endpoint or its announcement is the only one of its id.  For every choice of
\* timeouts, failing sends, refusals, clears and resets, and in either order of
\* the remote core's answers.
THEOREM IdsExclusive == Spec => []IdExclusive
<1>1. Init => IdInv
  BY InitType, InitTokens DEF IdInv
<1>2. Spec => []IdInv
  BY <1>1, IdStep, PTL DEF Spec
<1>3. QED
  BY <1>2, TokensExclude, PTL

====

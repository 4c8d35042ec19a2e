----------------------------- MODULE RpmsgCtrl -----------------------------
(***************************************************************************)
(* The rpmsg control device (drivers/rpmsg/rpmsg_master.c) and the         *)
(* endpoint devices it makes the remote core create (rpmsg_client.c).      *)
(*                                                                         *)
(* A caller of an ioctl sends a request to the remote core and sleeps, for *)
(* at most 500 ms, on the completion of a "notify" object that is linked   *)
(* in ctrldev->wait.  The receive callback looks the acknowledged id up in *)
(* that list and, without the lock, completes the object, which its caller *)
(* may have freed by then.  Endpoints whose creation succeeded are listed  *)
(* in ctrldev->epts.  The id of an endpoint is released when its device    *)
(* /dev/rpmsg<id> is gone and no file holds it open.                       *)
(*                                                                         *)
(* A step is one section under ctrldev->lock, one send, one store outside  *)
(* the lock or one wake-up of a caller; callbacks of received messages run *)
(* one at a time, and a message is taken off when its callback ends.       *)
(* Freed memory is used again for notify objects only.  The remote         *)
(* core's firmware is external: it is modelled from what this code sends   *)
(* and expects.  Callers destroy only endpoints that were reported to them.*)
(***************************************************************************)
EXTENDS Naturals, Sequences, FiniteSets

CONSTANTS
  Threads,    \* callers, each with a control file of its own
  Ids,        \* endpoint ids rpmsg_ept_ida may hand out (bound)
  Groups,     \* endpoint names
  Nodes,      \* notify objects (bound)
  Anchor,     \* the list head of ctrldev->wait
  Ctrl,       \* ctrldev->ctrl_notify
  None,       \* no group, no node
  MaxCalls,   \* create, clear and reset calls per thread (bound)
  Timeouts,   \* TRUE: a wait may end after WAIT_TIMEOUT
  SendFails,  \* TRUE: rpmsg_send and rpmsg_trysend may fail
  Refuses,    \* TRUE: the remote may refuse to create an endpoint
  Resets,     \* TRUE: callers clear groups and reset the device
  GoneFirst,  \* TRUE: the remote may close an endpoint before it acknowledges
  Opens       \* TRUE: programs open endpoint devices

ASSUME ConstantsAssumption ==
  /\ Ids \subseteq Nat \ {0} /\ MaxCalls \in Nat /\ IsFiniteSet(Nodes)
  /\ Anchor \notin Nodes /\ Ctrl \notin Nodes /\ Anchor # Ctrl
  /\ None \notin Nodes \cup Groups /\ None # Anchor /\ None # Ctrl
  /\ {Timeouts, SendFails, Refuses, Resets, GoneFirst, Opens}
       \subseteq BOOLEAN

VARIABLES
  ida,      \* ids taken in rpmsg_ept_ida
  obj,      \* obj[n]: a notify object
  wait,     \* the pointers of the list ctrldev->wait
  epts,     \* ctrldev->epts, newest first
  th,       \* th[t]: where t stands in an ioctl
  mine,     \* mine[t]: alloc_epts of t's control file
  auto,     \* auto[t]: epts_auto_release of t's control file
  closing,  \* closing[t]: t's file is being released
  known,    \* known[t]: endpoints reported to t and not destroyed by it
  calls,    \* calls[t]: requests made by t so far
  dev,      \* dev[i]: the device /dev/rpmsg<i>
  open,     \* open[i]: a file holds /dev/rpmsg<i> open
  rem,      \* rem[i]: group of the remote's endpoint i, or None
  toR, toL, \* messages to the remote core and to Linux, oldest first
  hung,     \* the receive callback loops, holding ctrldev->lock
  found,    \* the object that the receive callback has looked up
  stray     \* it wrote into an object that was freed meanwhile (history)

files == <<mine, auto, closing, known>>
devs  == <<dev, open>>
pending == <<found, stray>>
vars  == <<ida, obj, wait, epts, th, files, calls, devs, rem, toR, toL, hung, pending>>

FreeObj == [used |-> FALSE, id |-> 0, status |-> "none", done |-> 0]
Idle == [pc |-> "idle", op |-> "none", node |-> None, id |-> 0,
         grp |-> None, af |-> FALSE, res |-> "none"]
Cells == Nodes \cup {Ctrl}

\* stored: the status is written; live: the object was not freed (history)
Nothing == [node |-> None, stored |-> FALSE, live |-> TRUE]
Looked == {Nothing} \cup [node: Cells, stored: BOOLEAN, live: BOOLEAN]

\* struct rpmsg_ctrl_msg and struct rpmsg_ctrl_msg_ack.  by and seq are
\* history: the messages of the code only hold the id.
Request(t) == [cmd |-> th[t].op, id |-> th[t].id, grp |-> th[t].grp,
               by |-> t, seq |-> calls[t]]
Answer(m, ok) == [k |-> "ack", id |-> m.id, ok |-> ok, by |-> m.by, seq |-> m.seq]
Event(k, m, i) == [k |-> k, id |-> i, ok |-> TRUE, by |-> m.by, seq |-> m.seq]

ToRemote == [cmd: {"create", "release", "clear", "reset", "bound"}, id: Ids \cup {0},
             grp: Groups \cup {None}, by: Threads, seq: Nat]
ToLinux == [k: {"ack", "new", "gone"}, id: Ids \cup {0}, ok: BOOLEAN,
            by: Threads, seq: Nat]

TypeOK ==
  /\ ida \subseteq Ids
  /\ obj \in [Cells -> [used: BOOLEAN, id: Ids \cup {0},
                        status: {"none", "failed", "ok"}, done: Nat]]
  /\ wait \in [nxt: [Cells \cup {Anchor} -> Cells \cup {Anchor}],
               prv: [Cells \cup {Anchor} -> Cells \cup {Anchor}]]
  /\ epts \in Seq(Nodes)
  /\ th \in [Threads ->
       [pc: {"idle", "found", "send", "mark", "wait", "del", "list", "bind", "drop"},
        op: {"none", "create", "release", "clear", "reset"},
        node: Cells \cup {None}, id: Ids \cup {0}, grp: Groups \cup {None},
        af: BOOLEAN, res: {"none", "unsent", "bad", "ok"}]]
  /\ mine \in [Threads -> SUBSET Ids] /\ known \in [Threads -> SUBSET Ids]
  /\ auto \in [Threads -> BOOLEAN] /\ closing \in [Threads -> BOOLEAN]
  /\ calls \in [Threads -> Nat]
  /\ dev \in [Ids -> {"none", "bound", "removed"}] /\ open \in [Ids -> BOOLEAN]
  /\ rem \in [Ids -> Groups \cup {None}]
  /\ toR \in Seq(ToRemote) /\ toL \in Seq(ToLinux) /\ hung \in BOOLEAN
  /\ found \in Looked /\ stray \in BOOLEAN

-----------------------------------------------------------------------------
(* The kernel's doubly linked lists (external), with their pointers:       *)
(* ctrl_notify is linked again while it is already in the list.            *)

\* list_add(n, head)
Linked(l, n) ==
  LET first == l.nxt[Anchor] IN
  [nxt |-> [l.nxt EXCEPT ![n] = first, ![Anchor] = n],
   prv |-> [l.prv EXCEPT ![first] = n, ![n] = Anchor]]

\* if (!list_empty(n)) list_del_init(n).  (Mutant: n stays linked.)
UnlinkedMutant(l, n) == l
Unlinked(l, n) ==
  IF l.nxt[n] = n THEN l
  ELSE LET next == l.nxt[n]  prev == l.prv[n] IN
       [nxt |-> [l.nxt EXCEPT ![prev] = next, ![n] = n],
        prv |-> [l.prv EXCEPT ![next] = prev, ![n] = n]]

\* The first k cells a traversal visits
Path(l) ==
  LET path[k \in 0..Cardinality(Cells)] ==
        IF k = 0 THEN l.nxt[Anchor] ELSE l.nxt[path[k - 1]]
  IN path

\* rpmsg_ctrldev_notify_find stops at c: the list ends there, or c has the id
StopsAt(l, id, c) ==
  LET path  == Path(l)
      stops == {Anchor} \cup {d \in Cells : obj[d].id = id}
  IN  c \in stops /\ \E k \in DOMAIN path :
                       path[k] = c /\ \A j \in 0..(k - 1) : path[j] \notin stops

Init ==
  /\ ida = {}
  /\ obj = [c \in Cells |-> [FreeObj EXCEPT !.used = (c = Ctrl)]]
  /\ LET self == [c \in Cells \cup {Anchor} |-> c]
     IN  wait = Linked([nxt |-> self, prv |-> self], Ctrl)
  /\ epts = << >>
  /\ th = [t \in Threads |-> Idle]
  /\ mine = [t \in Threads |-> {}] /\ known = [t \in Threads |-> {}]
  /\ auto = [t \in Threads |-> FALSE] /\ closing = [t \in Threads |-> FALSE]
  /\ calls = [t \in Threads |-> 0]
  /\ dev = [i \in Ids |-> "none"] /\ open = [i \in Ids |-> FALSE]
  /\ rem = [i \in Ids |-> None]
  /\ toR = << >> /\ toL = << >> /\ hung = FALSE
  /\ found = Nothing /\ stray = FALSE

-----------------------------------------------------------------------------
(* The ioctls.                                                             *)

Goto(t, pc) == th' = [th EXCEPT ![t].pc = pc]
Return(t) == th' = [th EXCEPT ![t] = Idle]
At(t, pc) == th[t].pc = pc /\ ~hung

\* A new request of t: the bound on calls
MayCall(t) == At(t, "idle") /\ ~closing[t] /\ calls[t] < MaxCalls

\* ida_simple_get(&rpmsg_ept_ida, 1, 0): the lowest free id.  (Mutant: an id is
\* free when no notify object has it.)
LowestIdMutant(i) == \A n \in Nodes : obj[n].id # i
LowestId(i) == i \notin ida /\ \A j \in Ids : j < i => j \in ida

\* RPMSG_CREATE_EPT_IOCTL and, with af, RPMSG_CREATE_AF_EPT_IOCTL
Create(t, g, af) ==
  /\ MayCall(t)
  /\ \E i \in Ids, n \in Nodes :
       /\ LowestId(i) /\ ~obj[n].used
       /\ ida' = ida \cup {i}
       /\ obj' = [obj EXCEPT ![n] = [FreeObj EXCEPT !.used = TRUE, !.id = i]]
       /\ wait' = Linked(wait, n)
       /\ th' = [th EXCEPT ![t] = [pc |-> "send", op |-> "create", node |-> n,
                                   id |-> i, grp |-> g, af |-> af, res |-> "none"]]
  /\ calls' = [calls EXCEPT ![t] = @ + 1]
  /\ UNCHANGED <<epts, files, devs, rem, toR, toL, hung, pending>>

\* rpmsg_ctrldev_epts_find finds n
EntryOf(i, n) ==
  \E k \in DOMAIN epts :
    epts[k] = n /\ obj[n].id = i /\ \A j \in 1..(k - 1) : obj[epts[j]].id # i

\* rpmsg_ctrldev_release_eptdev begins, or fails with -ENODEV
BeginRelease(t, i) ==
  IF \E n \in Nodes : EntryOf(i, n)
    THEN \E n \in Nodes :
           /\ EntryOf(i, n)
           /\ th' = [th EXCEPT ![t] = [Idle EXCEPT !.pc = "found", !.op = "release",
                                                   !.node = n, !.id = i]]
    ELSE Return(t)

\* RPMSG_DESTROY_EPT_IOCTL; a file with auto release must have bound the id
Destroy(t, i) ==
  /\ At(t, "idle") /\ ~closing[t]
  /\ i \in known[t] /\ (auto[t] => i \in mine[t])
  /\ mine' = [mine EXCEPT ![t] = @ \ {i}]
  /\ known' = [known EXCEPT ![t] = @ \ {i}]
  /\ BeginRelease(t, i)
  /\ UNCHANGED <<ida, obj, wait, epts, auto, closing, calls, devs, rem, toR, toL, hung, pending>>

\* The notify object of the endpoint is linked in the wait list
ReleaseWait(t) ==
  LET n == th[t].node IN
  /\ At(t, "found")
  /\ obj' = [obj EXCEPT ![n].done = 0]
  /\ wait' = Linked(wait, n)
  /\ calls' = [calls EXCEPT ![t] = @ + 1]
  /\ Goto(t, "send")
  /\ UNCHANGED <<ida, epts, files, devs, rem, toR, toL, hung, pending>>

\* RPMSG_REST_EPT_GRP_IOCTL and RPMSG_DESTROY_ALL_EPT_IOCTL: ctrl_notify, which
\* the probe function linked, is linked again
Reset(t, op, g) ==
  /\ Resets /\ MayCall(t)
  /\ wait' = Linked(wait, Ctrl)
  /\ obj' = [obj EXCEPT ![Ctrl].done = 0]
  /\ th' = [th EXCEPT ![t] = [Idle EXCEPT !.pc = "send", !.op = op,
                                          !.node = Ctrl, !.grp = g]]
  /\ calls' = [calls EXCEPT ![t] = @ + 1]
  /\ UNCHANGED <<ida, epts, files, devs, rem, toR, toL, hung, pending>>

\* rpmsg_send or rpmsg_trysend
Send(t) ==
  /\ th[t].pc = "send"
  /\ \/ /\ toR' = Append(toR, Request(t))
        /\ Goto(t, IF th[t].op = "create" THEN "mark" ELSE "wait")
     \/ /\ SendFails
        /\ th' = [th EXCEPT ![t].pc = "del", ![t].res = "unsent"]
        /\ UNCHANGED toR
  /\ UNCHANGED <<ida, obj, wait, epts, files, calls, devs, rem, toL, hung, pending>>

\* notify->status = RPMSG_ACK_FAILED, after the request was sent
Mark(t) ==
  /\ th[t].pc = "mark"
  /\ obj' = [obj EXCEPT ![th[t].node].status = "failed"]
  /\ Goto(t, "wait")
  /\ UNCHANGED <<ida, wait, epts, files, calls, devs, rem, toR, toL, hung, pending>>

\* wait_for_completion_timeout returns because the object was completed ...
\* (Mutant: the status itself is the result.)
WaitDoneMutant(t) ==
  LET n == th[t].node IN
  /\ th[t].pc = "wait" /\ obj[n].done > 0
  /\ obj' = [obj EXCEPT ![n].done = @ - 1]
  /\ th' = [th EXCEPT ![t].pc = "del", ![t].res = obj[n].status]
  /\ UNCHANGED <<ida, wait, epts, files, calls, devs, rem, toR, toL, hung, pending>>
WaitDone(t) ==
  LET n == th[t].node IN
  /\ th[t].pc = "wait" /\ obj[n].done > 0
  /\ obj' = [obj EXCEPT ![n].done = @ - 1]
  /\ th' = [th EXCEPT ![t].pc = "del",
                      ![t].res = IF obj[n].status = "ok" THEN "ok" ELSE "bad"]
  /\ UNCHANGED <<ida, wait, epts, files, calls, devs, rem, toR, toL, hung, pending>>

\* ... or because the time is over
WaitTimeout(t) ==
  /\ Timeouts
  /\ th[t].pc = "wait" /\ obj[th[t].node].done = 0
  /\ th' = [th EXCEPT ![t].pc = "del", ![t].res = "bad"]
  /\ UNCHANGED <<ida, obj, wait, epts, files, calls, devs, rem, toR, toL, hung, pending>>

\* devm_kfree: what the receive callback still points at may be among it
Freed(cells) ==
  found' = IF found.node \in cells THEN [found EXCEPT !.live = FALSE] ELSE found

\* rpmsg_ctrldev_notify_del.  A failed creation also frees the object, but
\* the id stays taken; a request that was not sent changes nothing more.
NotifyDel(t) ==
  LET r == th[t] IN
  /\ At(t, "del")
  /\ wait' = Unlinked(wait, r.node)
  /\ \/ /\ r.op = "create" /\ r.res = "ok"
        /\ Goto(t, "list") /\ UNCHANGED <<obj, found>>
     \/ /\ r.op = "create" /\ r.res # "ok"
        /\ Return(t) /\ obj' = [obj EXCEPT ![r.node] = FreeObj] /\ Freed({r.node})
     \/ /\ r.op \in {"release", "clear"} /\ r.res # "unsent"
        /\ Goto(t, "drop") /\ UNCHANGED <<obj, found>>
     \/ /\ r.op = "reset" \/ (r.op \in {"release", "clear"} /\ r.res = "unsent")
        /\ Return(t) /\ UNCHANGED <<obj, found>>
  /\ mine' = IF closing[t] /\ r.res = "unsent" THEN [mine EXCEPT ![t] = @ \ {r.id}]
                                               ELSE mine
  /\ UNCHANGED <<ida, epts, auto, closing, known, calls, devs, rem, toR, toL, hung, stray>>

\* rpmsg_ctrldev_epts_add
EptsAdd(t) ==
  LET r == th[t] IN
  /\ At(t, "list")
  /\ epts' = <<r.node>> \o epts
  /\ IF r.af THEN Goto(t, "bind") /\ UNCHANGED known
             ELSE Return(t) /\ known' = [known EXCEPT ![t] = @ \cup {r.id}]
  /\ UNCHANGED <<ida, obj, wait, mine, auto, closing, calls, devs, rem, toR, toL, hung, pending>>

\* rpmsg_ctrldev_eptdev_bind; -EEXIST when the file lists that id already
Bind(t) ==
  LET r == th[t] IN
  /\ th[t].pc = "bind"
  /\ auto' = [auto EXCEPT ![t] = TRUE]
  /\ mine' = [mine EXCEPT ![t] = @ \cup {r.id}]
  /\ known' = IF r.id \in mine[t] THEN known ELSE [known EXCEPT ![t] = @ \cup {r.id}]
  /\ Return(t)
  /\ UNCHANGED <<ida, obj, wait, epts, closing, calls, devs, rem, toR, toL, hung, pending>>

\* list_del: the list without its k-th entry
Without(l, k) == [j \in 1..(Len(l) - 1) |-> IF j < k THEN l[j] ELSE l[j + 1]]

\* A release removes and frees its own entry, a clear all of them
Dropped(t) ==
  IF th[t].op = "release" THEN {th[t].node} ELSE {epts[k] : k \in DOMAIN epts}

\* rpmsg_ctrldev_epts_del and devm_kfree.  (Mutant: a release leaves its entry.)
EptsDelMutant(t) ==
  /\ At(t, "drop")
  /\ mine' = IF closing[t] THEN [mine EXCEPT ![t] = @ \ {th[t].id}] ELSE mine
  /\ Return(t)
  /\ UNCHANGED <<ida, obj, wait, epts, auto, closing, known, calls, devs, rem, toR, toL, hung, pending>>
EptsDel(t) ==
  /\ At(t, "drop")
  /\ \/ /\ th[t].op = "release"
        /\ \E k \in DOMAIN epts : epts[k] = th[t].node /\ epts' = Without(epts, k)
     \/ th[t].op # "release" /\ epts' = << >>
  /\ obj' = [c \in Cells |-> IF c \in Dropped(t) THEN FreeObj ELSE obj[c]]
  /\ Freed(Dropped(t))
  /\ mine' = IF closing[t] THEN [mine EXCEPT ![t] = @ \ {th[t].id}] ELSE mine
  /\ Return(t)
  /\ UNCHANGED <<ida, wait, auto, closing, known, calls, devs, rem, toR, toL, hung, stray>>

\* rpmsg_ctrldev_release: the file's endpoints are released one by one
CloseFile(t) ==
  /\ At(t, "idle") /\ ~closing[t] /\ auto[t]
  /\ closing' = [closing EXCEPT ![t] = TRUE]
  /\ known' = [known EXCEPT ![t] = @ \ mine[t]]
  /\ UNCHANGED <<ida, obj, wait, epts, th, mine, auto, calls, devs, rem, toR, toL, hung, pending>>

AutoRelease(t) ==
  /\ At(t, "idle") /\ closing[t]
  /\ IF mine[t] = {}
       THEN /\ closing' = [closing EXCEPT ![t] = FALSE]
            /\ auto' = [auto EXCEPT ![t] = FALSE]
            /\ UNCHANGED <<th, mine>>
       ELSE /\ \E i \in mine[t] :
                 /\ BeginRelease(t, i)
                 /\ mine' = IF \E n \in Nodes : EntryOf(i, n) THEN mine
                            ELSE [mine EXCEPT ![t] = @ \ {i}]
            /\ UNCHANGED <<closing, auto>>
  /\ UNCHANGED <<ida, obj, wait, epts, known, calls, devs, rem, toR, toL, hung, pending>>

-----------------------------------------------------------------------------
(* Callbacks of received messages.                                         *)

Take(k) == ~hung /\ toL # << >> /\ Head(toL).k = k /\ toL' = Tail(toL)

\* rpmsg_ctrldev_cb looks the id up, under the lock: it finds an object, or
\* none and ends, or the traversal never ends
AckFind ==
  /\ ~hung /\ found = Nothing
  /\ toL # << >> /\ Head(toL).k = "ack"
  /\ LET i == Head(toL).id IN
     \/ /\ \E c \in Cells :
             /\ StopsAt(wait, i, c)
             /\ found' = [node |-> c, stored |-> FALSE, live |-> TRUE]
        /\ UNCHANGED <<toL, hung>>
     \/ /\ StopsAt(wait, i, Anchor)
        /\ toL' = Tail(toL) /\ UNCHANGED <<hung, found>>
     \/ /\ \A c \in Cells \cup {Anchor} : ~StopsAt(wait, i, c)
        /\ hung' = TRUE /\ UNCHANGED <<toL, found>>
  /\ UNCHANGED <<ida, obj, wait, epts, th, files, calls, devs, rem, toR, stray>>

\* The callback writes into the object, which is no longer under the lock
Touch == stray' = (stray \/ ~found.live)

\* The status is stored.  (Mutant: it is not looked at.)
AckStatusMutant ==
  /\ found # Nothing /\ ~found.stored
  /\ obj' = [obj EXCEPT ![found.node].status = "ok"]
  /\ found' = [found EXCEPT !.stored = TRUE] /\ Touch
  /\ UNCHANGED <<ida, wait, epts, th, files, calls, devs, rem, toR, toL, hung>>
AckStatus ==
  /\ found # Nothing /\ ~found.stored
  /\ obj' = [obj EXCEPT ![found.node].status = IF Head(toL).ok THEN "ok" ELSE "failed"]
  /\ found' = [found EXCEPT !.stored = TRUE] /\ Touch
  /\ UNCHANGED <<ida, wait, epts, th, files, calls, devs, rem, toR, toL, hung>>

\* complete().  (Mutant: only a success completes.)
AckCompleteMutant ==
  /\ found.stored
  /\ obj' = IF Head(toL).ok THEN [obj EXCEPT ![found.node].done = @ + 1] ELSE obj
  /\ found' = Nothing /\ Touch /\ toL' = Tail(toL)
  /\ UNCHANGED <<ida, wait, epts, th, files, calls, devs, rem, toR, hung>>
AckComplete ==
  /\ found.stored
  /\ obj' = [obj EXCEPT ![found.node].done = @ + 1]
  /\ found' = Nothing /\ Touch /\ toL' = Tail(toL)
  /\ UNCHANGED <<ida, wait, epts, th, files, calls, devs, rem, toR, hung>>

\* rpmsg_eptdev_probe, then rpmsg_eptdev_temp_cb: the device appears and the
\* remote is told
NewCb ==
  /\ Take("new")
  /\ LET m == Head(toL) IN
     /\ dev[m.id] = "none"
     /\ dev' = [dev EXCEPT ![m.id] = "bound"]
     /\ toR' = Append(toR, [cmd |-> "bound", id |-> m.id, grp |-> None,
                            by |-> m.by, seq |-> m.seq])
  /\ UNCHANGED <<ida, obj, wait, epts, th, files, calls, open, rem, hung, pending>>

\* The last reference to the device is dropped: rpmsg_eptdev_release_device
LastPut(i) == dev' = [dev EXCEPT ![i] = "none"] /\ ida' = ida \ {i}

\* rpmsg_eptdev_remove; an open file keeps the device and its id.  (Mutant:
\* it keeps the device only.)
GoneCbMutant ==
  /\ Take("gone")
  /\ LET i == Head(toL).id IN
     /\ dev[i] = "bound"
     /\ dev' = [dev EXCEPT ![i] = IF open[i] THEN "removed" ELSE "none"]
     /\ ida' = ida \ {i}
  /\ UNCHANGED <<obj, wait, epts, th, files, calls, open, rem, toR, hung, pending>>
GoneCb ==
  /\ Take("gone")
  /\ LET i == Head(toL).id IN
     /\ dev[i] = "bound"
     /\ IF open[i] THEN dev' = [dev EXCEPT ![i] = "removed"] /\ UNCHANGED ida
                   ELSE LastPut(i)
  /\ UNCHANGED <<obj, wait, epts, th, files, calls, open, rem, toR, hung, pending>>

\* rpmsg_eptdev_open and rpmsg_eptdev_release
OpenDev(i) ==
  /\ Opens /\ dev[i] = "bound" /\ ~open[i]
  /\ open' = [open EXCEPT ![i] = TRUE]
  /\ UNCHANGED <<ida, obj, wait, epts, th, files, calls, dev, rem, toR, toL, hung, pending>>

CloseDev(i) ==
  /\ open[i]
  /\ open' = [open EXCEPT ![i] = FALSE]
  /\ IF dev[i] = "removed" THEN LastPut(i) ELSE UNCHANGED <<dev, ida>>
  /\ UNCHANGED <<obj, wait, epts, th, files, calls, rem, toR, toL, hung, pending>>

-----------------------------------------------------------------------------
(* The remote core (external).                                             *)

Asked(cmd) == toR # << >> /\ Head(toR).cmd = cmd
RemoteOnly == UNCHANGED <<ida, obj, wait, epts, th, files, calls, devs, hung, pending>>

\* It creates the endpoint and announces it, or refuses
RemoteCreate ==
  /\ Asked("create") /\ toR' = Tail(toR)
  /\ LET m == Head(toR) IN
     \/ /\ rem' = [rem EXCEPT ![m.id] = m.grp]
        /\ toL' = Append(toL, Event("new", m, m.id))
     \/ /\ Refuses
        /\ toL' = Append(toL, Answer(m, FALSE)) /\ UNCHANGED rem
  /\ RemoteOnly

\* The creation is acknowledged once Linux has made the device
RemoteBound ==
  /\ Asked("bound") /\ toR' = Tail(toR)
  /\ LET m == Head(toR) IN
     toL' = IF rem[m.id] # None THEN Append(toL, Answer(m, TRUE)) ELSE toL
  /\ UNCHANGED rem /\ RemoteOnly

RemoteRelease ==
  /\ Asked("release") /\ toR' = Tail(toR)
  /\ LET m == Head(toR)  ack == Answer(m, TRUE)  gone == Event("gone", m, m.id) IN
     \/ /\ rem[m.id] = None
        /\ toL' = Append(toL, Answer(m, FALSE)) /\ UNCHANGED rem
     \/ /\ rem[m.id] # None /\ rem' = [rem EXCEPT ![m.id] = None]
        /\ \/ toL' = toL \o <<ack, gone>>
           \/ GoneFirst /\ toL' = toL \o <<gone, ack>>
  /\ RemoteOnly

\* It closes the endpoints of the group, or all, and then acknowledges id 0
Affected(m) == {i \in Ids : rem[i] # None /\ (m.cmd = "reset" \/ rem[i] = m.grp)}

RemoteReset ==
  /\ Asked("clear") \/ Asked("reset")
  /\ LET m == Head(toR) IN
     \/ \E i \in Affected(m) :
          /\ rem' = [rem EXCEPT ![i] = None]
          /\ toL' = Append(toL, Event("gone", m, i)) /\ UNCHANGED toR
     \/ /\ Affected(m) = {}
        /\ toL' = Append(toL, Answer(m, TRUE)) /\ toR' = Tail(toR) /\ UNCHANGED rem
  /\ RemoteOnly

-----------------------------------------------------------------------------
NewCall(t) ==
  \/ \E g \in Groups, af \in BOOLEAN : Create(t, g, af)
  \/ \E i \in Ids : Destroy(t, i)
  \/ \E g \in Groups : Reset(t, "clear", g)
  \/ Reset(t, "reset", None)
  \/ CloseFile(t)

CallStep(t) ==
  \/ ReleaseWait(t) \/ Send(t) \/ Mark(t) \/ WaitDone(t)
  \/ NotifyDel(t) \/ EptsAdd(t) \/ Bind(t) \/ EptsDel(t) \/ AutoRelease(t)

RxStep == AckFind \/ AckStatus \/ AckComplete \/ NewCb \/ GoneCb
RemoteStep == RemoteCreate \/ RemoteBound \/ RemoteRelease \/ RemoteReset

Next ==
  \/ \E t \in Threads : NewCall(t) \/ CallStep(t) \/ WaitTimeout(t)
  \/ \E i \in Ids : OpenDev(i) \/ CloseDev(i)
  \/ RxStep \/ RemoteStep

\* Calls that were entered run on, received messages are handled and the
\* remote core answers; nothing makes a caller start a call or a wait expire
Fairness ==
  /\ \A t \in Threads : WF_vars(CallStep(t))
  /\ WF_vars(RxStep) /\ WF_vars(RemoteStep)

Spec == Init /\ [][Next]_vars

FairSpec == Spec /\ Fairness

-----------------------------------------------------------------------------
(* Properties.                                                             *)

Entries == {obj[epts[k]].id : k \in DOMAIN epts}
Quiescent == toR = << >> /\ toL = << >> /\ \A t \in Threads : At(t, "idle")

\* A creation that is about to report success has made its device, unless an
\* acknowledgement went into memory that its caller, timed out, had freed.  (It
\* may fail although the device was made: its caller stores RPMSG_ACK_FAILED
\* after the request was sent, and so perhaps after the answer.)
CreateTruthful == ~stray => \A t \in Threads : At(t, "list") => dev[th[t].id] = "bound"

\* When nothing is in progress every entry of epts stands for a device, with
\* the same exception.  Only for creations and releases: a clear drops the
\* entries of all groups and a reset those of none.
EntriesReal == ~stray /\ Quiescent => \A i \in Entries : dev[i] = "bound"

\* Every call that waits is answered by the remote, without its timeout
Answered == \A t \in Threads : th[t].pc # "idle" ~> th[t].pc = "idle"

\* An id is never in use twice: it stays taken while its device, or a file
\* that holds it open, exists, and a creation under way has its id to itself
Creations == {<<"R", k>> : k \in {j \in DOMAIN toR : toR[j].cmd = "create"}}
        \cup {<<"L", k>> : k \in {j \in DOMAIN toL : toL[j].k = "new"}}
IdOf(c) == IF c[1] = "R" THEN toR[c[2]].id ELSE toL[c[2]].id

IdExclusive ==
  /\ \A i \in Ids : dev[i] # "none" => i \in ida
  /\ \A c \in Creations : IdOf(c) \in ida /\ dev[IdOf(c)] = "none"
  /\ \A c, d \in Creations : IdOf(c) = IdOf(d) => c = d

\* The object looked up for an acknowledgement is that of the caller whose
\* request it answers, or of nobody who waits, until the object is completed
\* or freed; although the acknowledgement only carries an id, requests time
\* out and ids are used again.  (Completing a freed object may wake anybody,
\* and nothing is claimed once that has happened.)
Unanswered(t) == th[t].pc \in {"send", "mark", "wait"} /\ obj[th[t].node].done = 0

AckMatched ==
  ~stray /\ found # Nothing /\ found.live =>
    LET m == Head(toL) IN
    \A t \in Threads : Unanswered(t) /\ th[t].node = found.node
      => t = m.by /\ m.seq = calls[t] /\ th[t].pc # "send"

\* The receive callback always comes to the end of the list it searches.  Only
\* without clears and resets, which link ctrl_notify while it is linked.
NeverHung == ~hung

=============================================================================

# Verification of the inter-core (AMP) stack of the V821 BSP

The V821 runs Linux on one core and an RTOS on another (an E907). This
directory models the part of the BSP through which the two talk: TLA+ modules
translated from the C sources, TLC configurations that check them on small
instances, and TLAPS proofs of their main invariants for instances of any size.

## 1. The system

### What is in the repository

The tree has some 15,700 files. Most are vendored (WiFi and touch-panel
drivers, display engines, firmware tables) or register-level drivers (clk,
pinctrl, mmc, spi, sound) whose logic is one register access after another. The
BSP's own concurrent logic is the AMP stack, in
`src/drivers/{rpbuf,rpmsg,remoteproc,msgbox,hwspinlock}`, and the WiFi host driver
`src/drivers/net/wireless/v821_fmac`, which sends commands to the other core over it.

```
  user space   /dev/rpbuf_ctrl*, /dev/rpbuf-*         /dev/rpmsg_ctrl*, /dev/rpmsg*
                        |                                        |
                rpbuf_dev.c (A2)                      rpmsg_master.c, rpmsg_client.c (B1)
                        |                                        |
  kernel        rpbuf_core.c (A1)   v821_fmac (E)     rpmsg_heartbeat.c (B2)   rpmsg_notify.c (B3)
                        \_________________|______________________|____________________/
                                 aw_virtio_rpmsg_bus.c (C1): endpoints, vrings
                                          |
                                 sunxi-msgbox.c (C2): doorbells
                                          |
                                 sunxi_rproc*.c (D): boot, crash, watchdog, standby
```

### Inventory

| Part | State it keeps | Operations | What is hard | What makes it correct |
|---|---|---|---|---|
| **A1 rpbuf core** `rpbuf_core.c`, `rpbuf_service_rpmsg.c` | per core: `remote_dummy_buffers`, `local_dummy_buffers`, the idrs `buffers` and `local_buffers`; per buffer: id, len, pa, `allocated`, `state` flags, `offline`; per link: service, controller, ref count, two mutexes and a spinlock | alloc, free, transmit, is_available, set_sync; four message handlers; (un)register service/controller | two cores allocate and free the same name while messages cross; `controller_lock` is dropped before every notification; sends fail; the remote restarts; sleeping transmitters | each payload block has one owner; handles stay in a list; both ends agree when quiet; calls return |
| **A2 rpbuf devices** `rpbuf_dev.c` | per controller: list of buffer devices; per device: `can_be_opened`, `available` completion, one received (offset, len) | ctrl ioctls create/destroy, open/release, transmit, receive, poll, set_sync | open times out while `available_cb` runs; data overwritten before it is read; a deferred acknowledgement | open succeeds only on an available buffer; received data is reported once; every sync transmit is acknowledged |
| **B1 rpmsg control and endpoint devices** `rpmsg_master.c`, `rpmsg_client.c` | id allocator `rpmsg_ept_ida`, lists `epts` and `wait` of each control device, per-file `alloc_epts`; per endpoint: rx queue | create, destroy, clear group, reset all, auto-release; ack callback; endpoint probe/remove/read/write | a 500 ms timeout races the ack; the notify object is shared by waiter and callback; ids are reused | an ack reaches the request it answers; a reported endpoint exists; ids are not lost |
| **B2 heartbeat** `rpmsg_heartbeat.c` | a global timer, `sleep`, `tick` | probe, message, timeout, suspend, resume | a timer that outlives the device; suspend races a heartbeat | a crash is reported only for a silent, awake remote |
| **B3 notify** `rpmsg_notify.c` | list of registered callbacks | register, unregister, message | callback list changes during delivery | a registered callback sees each notification |
| **C1 virtio rpmsg bus** `aw_virtio_rpmsg_bus.c` | tx buffer pool, endpoint idr, reference counts, per-endpoint `cb_lock` | create/destroy endpoint, send/trysend, rx, name service | endpoint destroyed while its callback runs; senders sleeping on a full pool | no callback after destroy returns; no tx buffer is lost |
| **C2 msgbox, hwspinlock** | hardware FIFOs, lock table | send, rx interrupt, lock/unlock | full FIFO, interrupts masked per channel | no doorbell is lost for good |
| **D remoteproc** `sunxi_rproc*.c`, `subdev/*` | remote state, watchdog, standby flags, share-irq table | start, stop, crash report, suspend/resume handshake | crash while standby handshake is under way | one recovery per crash; resume only a suspended core |
| **E v821_fmac** | command queue, tx credits | command/confirm, tx, rx, recovery | confirm races timeout; queue limits | a confirm completes the command it belongs to |

Left out altogether: vendored or generated code and register-level drivers (see the
components of `PROJECT.json` for each with its reason).

### How the two sides of rpbuf interact

Linux is always the rpbuf *master* (`rpbuf_controller_sunxi.c`): it owns the payload
memory. The remote is the *slave*, which chooses buffer ids. Both run the code of
`rpbuf_core.c`, which contains both roles; the RTOS firmware itself is not in
the repository, so the slave is modelled from the slave branches of that file. A name
allocated on one side only is in that side's `local_dummy_buffers` and in the other's
`remote_dummy_buffers`; when both have it, both have it in `buffers`. Four messages
keep the sides in step: BUFFER_CREATED, _DESTROYED, _TRANSMITTED, _ACK.

### How the control device and the remote interact

A caller of an ioctl on `/dev/rpmsg_ctrl*` sends a request (create, close, reset group,
reset all) to the remote and sleeps for at most 500 ms on a *notify object* linked in
`ctrldev->wait`. The remote creates an endpoint by announcing it over the name service
(`rpmsg_eptdev_probe`), sends it its id (`rpmsg_eptdev_temp_cb`: `/dev/rpmsg<id>`
appears and the remote is told), and then acknowledges the request;
`rpmsg_ctrldev_cb` looks the id up in `wait` and completes the object. The id returns to
`rpmsg_ept_ida` when the last reference to the device is dropped. The acknowledgement
carries an id and a status, nothing else.

## 2. Plan

| # | Module | Code | State |
|---|---|---|---|
| 1 | `RpbufCore` (+ three proof modules) | A1, both roles | done |
| 2 | `RpmsgCtrl` (+ two proof modules) | B1, control device and endpoint lifetime | done |
| 3 | `RpmsgEptdev` (+ proofs) | B1 and C1, an endpoint device: dispatch, rx queue, read, poll, write, removal | done |
| 4 | `RpbufDev` (+ proofs) | A2 and A1: open with its timeout, receive, close, deferred acknowledgement, the state flags at the grain of single reads and writes, for one buffer | done |
| 5 | `TxPool` (abstract), `VirtioTx` (+ proofs) | C1, transmit buffers and blocking senders; implements `TxPool` | done |
| 6 | `RpbufBuffer` (abstract) | what A1 promises for one name: apart, half allocated, shared; `RpbufCore` restricted to lossless runs implements it | open |
| 7 | `RpbufLink` | A1's registration, link reference count, and the three locks of a link | open |
| 8 | `RpmsgNotify` | B3, with the name service of C1 | open |
| 9 | `RprocLife` | B2, D: heartbeat, watchdog, crash, standby handshake | open |
| 10 | `Msgbox`, `FmacCmd` | C2, E | open |

The components meet at three places, and each is inside a module: the rpmsg callback and
the destruction of its endpoint (`RpmsgEptdev`), the handlers of `rpbuf_core.c` and the
callbacks of `rpbuf_dev.c` (`RpbufDev`), a sender and the virtqueue (`VirtioTx`, which
`TxPool` abstracts).

Every safety invariant that a passing run checks is also stated by a theorem (sections 3 to 7 say under
which hypotheses). Theorems planned next: `Agreement` and `SlavePayloadLive` for several names
as long as no id is reused; the refinement of `RpbufBuffer` step by step, from the invariant
`PairInv`; lock order of `RpbufLink`.

## 3. RpbufCore

### Correspondence

| Model | Code |
|---|---|
| `buf[p][n]` with `loc` none / local_dummy / buffers | the `rpbuf_buffer` named n, in `local_dummy_buffers` or the idr `buffers` |
| `rdb[p][n]` | the entry of `remote_dummy_buffers` |
| `user[p][n].pc` | where a caller stands between two critical sections of an API call |
| `rx[p]` | the receive context; `pc = "reply"` while a handler has dropped `controller_lock` and has yet to send its answer |
| `work[p]` | the buffer whose callback the receive context runs (`RPBUF_FLAGS_WORKING`) |
| `ch[p]` | service messages under way from p |
| `up[p]`, `stuck[p]` | `link->service` is set; `controller_lock` was left locked by an error exit |
| `late` | the master entered a handler before its service was removed, and has yet to take `controller_lock` |
| `mem` | blocks taken from the master's payload allocator |
| `odd` | history: branches taken that log "(unexpected)" (`again`, `overwrite`), and what the properties have to except (`mistaken`, `clash`, `orphan`, `overtaken`) |

A caller at `lost` got an error from `rpbuf_free_buffer` and its buffer stays; a buffer that is
`adrift` exists and is in none of the lists.

One action is one critical section of `controller_lock` or one send. `AllocFirst`,
`AllocFirstNoMem`, `AllocSecondSlave`, `AllocSecondMaster`, `AllocNotify` are
`rpbuf_alloc_buffer`; `FreeStart`, `FreeNotify`, `FreeLocked` are `rpbuf_free_buffer_internal`,
with its error exits `FreeInterrupted` (a signal ends the wait for a callback) and `FreeNotFound`;
`TransmitStart`, `TransmitCheck`, `TransmitNotify`, `WaitDone`, `WaitInterrupted` are
`rpbuf_transmit_buffer`; the actions of `RxStep` are the branches of the four
handlers and the end of their callbacks; `Crash` (external), `ServiceRemove`, `ServiceProbe` are a
restart of the slave core as the rpmsg bus shows it to the master.

`rpbuf_reset_controller` runs under `service_lock` and the spinlock of the link, not under
`controller_lock`. `ServiceRemove` is a reset that falls between two sections of the master (or
overtakes a handler that waits for the lock, `late`); the `RemoveIn*` actions are a section of the master with the reset
inside it, at the points where that is not the same as before or after it: in a free after the search in
`local_dummy_buffers` (`RemoveInFree`), in an allocation after the dummy entry was found
(`RemoveInAlloc`), in the CREATED handler between `idr_alloc` and `list_del` (`RemoveInCreated`), in a
handler that found a dummy entry (`RemoveInDummy`). The last three go wrong in the code; the history
`overtaken` records them, and what they do to the lists is given by their likely outcomes: freed memory keeps its content,
a broken list leaves the lock locked or does not.

Abstracted: names are model values; payload contents are left out; `kzalloc` failures are
left out, `idr_alloc` can only fail because the id is taken; the order of list entries
is left out (names are unique); one thread per name and core. The flag DESTROYED and the
acknowledgement that follow a callback belong to the step of the section before it, and a free goes on as
soon as the callback it waits for has ended: the race that loses `RPBUF_FLAGS_WORKING`, the
callback that starts before the free has taken the lock again (line 1352), and the deferred
acknowledgement of `rpbuf_dev.c` are the subject of `RpbufDev`. A single list or idr operation is atomic also for the
reset. A handler that is entered after the service was removed (it dereferences `service->link`,
which is NULL) is left out, as is the buffer of another name that `idr_remove` (line 1388) may take out for a buffer that is adrift.

### Runs

| Run | Instance | Shows |
|---|---|---|
| `pair` | one name, 2 messages per direction, no failing sends, signals in every interruptible wait | no branch that logs "(unexpected)" is taken (`NothingOdd`: lines 842, 942, 1411); the cores agree when nothing is in progress (`Agreement`), except on a name whose free a signal ended; the slave only uses live memory (`SlavePayloadLive`); the first synchronous transmit of a buffer that ends with success was received (`FirstSyncReceived`); a name both keep becomes usable on both (`Converges`) |
| `restart` | two lengths, 1 message per direction, sends fail, one restart of the slave at any point, its reset between or inside sections | handles stay in exactly one list (`OwnedIsTracked`), dummies are exclusive (`Exclusive`), every block has one owner (`PayloadOwnership`), a usable buffer accepts data (`UsableAccepts`) |
| `by_name` | two names, two ids, one call at a time | fails, see section 8: `DestroyedByName` |
| `lost_wakeup` | one name, no crash, no failing send | fails, see section 8: `TransmitReturns` |

One name is enough for the list protocol, because each handler touches the buffer it
found and no other; names only compete for ids, payload blocks and the place in the
channel. The properties of `restart` are proved for every set of names; those of `pair` are false
for two, since ids are reused, and `by_name` shows the shortest way (its constraint `TakingTurns` only
makes the search small). Two messages per
direction let a message cross another and a third follow. One crash meets every state of
the calls in progress; a second one starts from a reset state.

`restart` has one message per direction, transmits nothing and lets no signal arrive: the
four properties it checks are about the lists and the payload memory, which transmits do
not touch. It lets sends fail, so that a CREATED is undone, a DESTROYED is lost and an
answer is dropped, in the same behaviours in which the slave restarts. `OwnedIsTracked` and
`PayloadOwnership` hold with a reset between sections and inside a free (which then returns -EINVAL with
the buffer in `local_dummy_buffers`), and claim nothing once a reset has cut an
allocation or a handler in two: that goes wrong (section 8). `PayloadOwnership` also ends where `idr_alloc`
refuses an id after the payload was taken and where a CREATED replaces the address of a dummy entry that owns one. The
constraint `RestartBound` explores nothing behind a second entry of `odd`, and lets only the
master ask for the second length; the theorems have neither bound.

Deadlock is not checked in `pair` and `restart`: behind a lock that an allocation failure left locked, and once
every caller is at `lost`, nothing need happen.

`FirstSyncReceived` speaks of the first transmit, because a later one can be ended by
the acknowledgement that an interrupted one left behind (section 8).

### Fairness

`FairSpec` assumes that a caller inside a call and a receive context with a message run
on (they are runnable threads; the rpmsg work queue is served), and that the bus
removes and probes the service after a restart (the recovery of remoteproc). Only `pair`
and `lost_wakeup` check liveness, neither with a restart. It does
not assume that a caller starts a call, that a signal arrives, or that a core crashes.
A step that waits for a lock left locked is not enabled, so fairness does not help it.

### Proofs

`RpbufCoreProofs`, `RpbufPayloadProofs` and `RpbufPairProofs` prove, for every set of lengths, ids
and blocks, every queue length and every bound on transmits and restarts, under
`ConstantsAssumption` and the hypotheses named in a theorem. Without a further hypothesis, so for every
set of names, with failing sends and restarts:

* `TypeCorrect`: `TypeOK` is inductive.
* `ListsCorrect`, and from it `HandlesTracked` and `NamesExclusive`: `ListInv` is a
  conjunction over (core, name) of `ListCell`, which ties the location of the buffer to
  the place of its caller. It is stronger than the two properties: the properties say
  nothing of a name while its caller is between two critical sections. Each step
  disturbs one cell (`OneCell`), so a step needs one check; a reset disturbs all cells of the master
  alike. Like `OwnedIsTracked` it claims nothing once a reset has overtaken an allocation or a handler;
  `NamesExclusive` does.
* `PayloadOwned`: `PayInv` adds that the blocks owned per name form a partition of
  `mem` (`PartitionOf`) as long as none of the branches in `Leaky` was taken, and that
  `allocated` implies an address (`OwnCell`). A step exchanges the blocks of one name
  (`Exchange`) or leaves the partition alone (`SameOwners`).

With a hypothesis:

* `UsableBuffersAccept` (`AvailableCb`): `CleanInv` says, also while calls are in progress, that a
  noted destruction means the buffer waits in `local_dummy_buffers` or is being freed. A buffer
  that a reset put back (`offline`) is announced without a new state, but then had no
  destruction noted, which is the second half of the invariant. Without an `available_cb` the property
  is false (section 8).
* `FirstSync` (`OneName`: there is one name): `AckInv` counts. An acknowledgement, under way or
  noted, was sent after something was received, and what counts as received was sent. Sends may
  fail and the slave may restart.
* `NothingUnexpected`, `PayloadLives` (`OneName`, `Throttled`: no send fails for want of room) and
  `CoresAgree` (with `OneLen` also: callers ask for one length), all until the slave first restarts
  (`crashes = 0`). The three share one invariant, `PairInv`, about what is
  under way. `News` relates, for each direction, what the sender's caller holds, what the
  receiver has on record, and the places of the CREATED (`Births`) and DESTROYED
  (`Deaths`) messages in the channel: they alternate, a CREATED meets a receiver without a record or with
  one that a DESTROYED before it ends, and the last of them says what the sender holds; a buffer
  whose free a signal ended counts as gone. So a
  CREATED never meets a record, and the branches that log "(unexpected)" are dead. `Address` says that
  the last CREATED from the master, or the slave's record when nothing ends it, carries the address of
  the master's buffer; with the partition of `PayInv` the slave's payload is allocated. With
  empty channels `News` in both directions is `Agreement` (`AtRest`). The proof splits
  steps by their effect on one name (`Starts`, `Runs`, `Ends`, `Hears`), and the lemmas
  `NewsBirth`, `NewsDeath`, `NewsLearned`, `NewsPassed` say what one message more or less does to `News`.

The hypotheses are what the properties need, not what the proof finds convenient. With two names, two ids and
three messages per direction TLC violates each of `FirstSyncReceived`, `NothingOdd`, `Agreement` and
`SlavePayloadLive`: ids are reused, and a message finds the new owner of the id (section 8, lines 1328 and
1133; run `by_name`). When a send fails or the slave restarts, a CREATED or DESTROYED is missing and the cores
do not agree again. With two lengths a core drops the CREATED of the other. `Throttled`, one name, one length
and no restart are the instance of `pair`; the theorems take it to every queue length, every number
of transmits, ids and blocks, and to the whole first life of a slave that does restart.

Only model-checked: `Converges`; `TransmitReturns` is refuted by a run.

## 4. RpmsgCtrl

### Correspondence

| Model | Code |
|---|---|
| `ida` | `rpmsg_ept_ida` |
| `obj[n]`, `Ctrl` | an `rpmsg_ept_notify`; `ctrldev->ctrl_notify` |
| `wait` | next and prev pointers of the list `ctrldev->wait`, head `Anchor`. Pointers and not a sequence, because `ctrl_notify` is linked while it is linked |
| `epts` | `ctrldev->epts` |
| `th[t]` | the caller's place in create, release, clear or reset, and its locals |
| `mine`, `auto`, `closing` | `alloc_epts`, `epts_auto_release`, and `rpmsg_ctrldev_release` under way |
| `dev[i]`, `open[i]` | `/dev/rpmsg<i>`: none, bound, or removed while a file is open |
| `toR`, `toL` | messages to the remote (requests and the ack of `temp_cb`) and to Linux (acks, name service) |
| `rem[i]` | the remote's endpoint (external) |
| `hung` | `rpmsg_ctrldev_notify_find` loops in the corrupted list with `ctrldev->lock` held |
| `found` | the object the receive callback has looked up, whether its status is stored, and whether it was freed meanwhile |
| `stray` | history: the callback wrote into an object that had been freed |
| `by`, `seq` in messages, `known`, `calls` | history, for the properties |

`Create`, `Destroy`, `ReleaseWait`, `Reset`, `Send`, `Mark`, `WaitDone`, `WaitTimeout`,
`NotifyDel`, `EptsAdd`, `Bind`, `EptsDel` are the steps of the ioctls (the sysfs files
`open`, `close`, `clear`, `reset` call the same functions); `CloseFile`, `AutoRelease`
the release of a control file; `AckFind`, `AckStatus`, `AckComplete`, `NewCb`, `GoneCb` the callbacks;
`OpenDev`, `CloseDev` a file on an endpoint. The acknowledgement is three steps: `rpmsg_ctrldev_cb` looks the
id up under `ctrldev->lock`, and stores the status and completes the object without it, so that the
caller may time out, unlink and free the object in between, and another caller may get the memory. `Mark` is its own step: the
assignment comes after the send. The remote's actions are external and do what the
commands in `rpmsg_master.h` ask; `Refuses` and `GoneFirst` widen them.

Not modelled: `rpmsg_ctrldev_notify` (nothing calls it), failures of the probe functions and of
`cdev_device_add` (`NewCb` always makes the device), removal of the control device, several threads that destroy one
endpoint, what freed memory holds when a clear frees an entry another caller
waits on (the runs with clear have one caller), and any other use of the freed memory of a notify object
than as a notify object.

### Runs

| Run | Instance | Shows |
|---|---|---|
| `ctrl_calls` | 2 callers, 2 ids, 2 calls each, refusals; no timeouts, no clears and resets, no files on endpoints | a reported endpoint exists (`CreateTruthful`); entries of `epts` are real when quiet (`EntriesReal`); every call is answered (`Answered`, so a timeout is never *needed*) |
| `ctrl_timeouts` | 2 callers, 2 calls each, timeouts, failing sends; no clears and resets | ids are exclusive (`IdExclusive`); a late ack finds nobody else's object (`AckMatched`); the callback always leaves the list (`NeverHung`) |
| `ctrl_resets` | 1 caller, 2 groups, 3 calls, everything on | ids are exclusive also after clears and resets |

Two callers and two ids let an id be freed and taken by the other caller while the
first one's messages are under way, and a notify object be freed and used again; with its second call a caller
meets the late answer to its first. What the properties except:

* `AckMatched`, `CreateTruthful` and `EntriesReal` claim nothing once the callback has written into a freed
  object (`stray`): whose object that is by then, nobody knows. It needs a timeout between two lines of the callback.
* `NeverHung` and `EntriesReal` are for instances without clear and reset: with them `ctrl_notify` is linked while it is
  linked, and a clear drops the entries of all groups, a reset those of none (section 8).
* `CreateTruthful` excludes a false success. A false failure is possible (section 8, line 359).

`IdExclusive` has no exception, and `ctrl_resets` checks it with everything switched on.
That a failed creation never returns its id (section 8) is also what keeps its
late acknowledgement harmless: the mutant that takes ids by looking at live objects breaks
`AckMatched`. `AckMatched` also depends on the remote acknowledging a close before the
endpoint goes away (`GoneFirst = FALSE`); the firmware is not in this repository.

`FairSpec` assumes that callers inside an ioctl, the receive work and the remote core run
on. Timeouts are never assumed to happen.

### Proofs

`RpmsgCtrlProofs` proves, for every set of callers, ids and groups and every finite set of nodes, with
timeouts, failing sends, refusals, clears, resets and both orders of the remote's answers:

* `TypeCorrect`, through `TypeInv`, which describes a caller's locals at each of its places.
* `IdsExclusive`: until `/dev/rpmsg<i>` exists, the right to make it is in one place: a caller about to
  send, the request, or the announcement. `Tokens` says that these exclude each other and
  that the id is taken and its device absent as long as one of them exists.

`RpmsgCtrlLifeProofs` proves `NeverHangs`, `AcksMatch`, `CreationsTruthful` and `EntriesAreReal`, for the same
instances with `Orderly`: no clear and no reset (`Resets = FALSE`), and a remote that acknowledges a close
before the endpoint goes away (`GoneFirst = FALSE`). These are the constants of the runs that check
the four properties. Without the first, `ctrl_notify` is linked twice and `NeverHung`
fails; without the second, the id is free while the acknowledgement is on its way and `AckMatched` fails
(section 8 and the hazards of `PROJECT.json`). `LifeInv` has these parts:

* `Queued`: the next and prev pointers of `wait` form one chain through the nodes of exactly those who wait,
  and a request that owns its id comes before an older one with the same id, which timed
  out and has yet to unlink its node (`Ordered`). The search of `rpmsg_ctrldev_notify_find`
  then ends (`NeverHung`), at the owner's node (`AckMatched`).
* `Messages`, `Owners`: about one id there is one message under way, or an acknowledgement and
  behind it the end of the endpoint; if a caller owns the present life of the id (`Owns`), the
  messages are stamped with its call, and a creation that was confirmed has its device.
* `AckOk`: the object in `found`, while it is not freed, is still that of the acknowledgement's call or of nobody
  who waits, and a status that was stored is the one the remote sent. `FullInv` is `LifeInv` with `AckOk`; it
  holds until `stray` (`LifeHolds`: `stray \/ FullInv`), which is why the four theorems have that exception.
* `Places`, `Standings`, `Claimed`, `Taken`: where a caller's node is, that an entry of `epts` that no
  request is about to remove stands for a device, who may release which id, and that a device has
  its id taken.

That a traversal of a chain visits its
nodes in order is an induction over the steps of a recursive function; it is done as a search
for the least counterexample (`NatMin`, from the well-foundedness of finite subsets). Only model-checked:
`Answered`.

## 5. RpmsgEptdev

An endpoint device `/dev/rpmsgN` and its endpoint in the bus: the receive context, user
threads that read, poll and write, and the thread that removes the rpmsg device.

### Correspondence

| Model | Code |
|---|---|
| `found`, `refs`, `cb`, `cb_lock` | the endpoint: its place in `vrp->endpoints`, `refcount`, `cb` (`rpmsg_eptdev_temp_cb`, `_official_cb` or NULL), `cb_lock` |
| `rx` | where `rpmsg_recv_single` and the callback it calls stand |
| `file`, `ept`, `ept_lock` | the character device, `eptdev->ept`, `eptdev->ept_lock` |
| `eptdev` | its memory: live, freed by the last `put_device`, or called back into once it was freed |
| `queue` | the length of `eptdev->queue` (messages have no identity) |
| `readq`, `woken` | the wait queue `eptdev->readq`, and who of it was woken |
| `pc[u]`, `sig[u]` | a user thread with a file of its own, and its pending signal |
| `rm` | where `rpmsg_eptdev_remove` and then `__rpmsg_destroy_ept` stand |

`RxFind` ... `RxPut` are the dispatch; `Read*`, `Poll*`, `Write*` the file operations, with
the steps of `wait_event_interruptible` and `poll` one by one (test, enter the queue, test
again, sleep), so that a wake-up can fall between any two; `Rm*` the removal.

`WriteSend` is an `rpmsg_send` that ends, under `ept_lock`. `WriteSpin` is one that finds no buffer and then gets a
signal: each of its waits ends at once (`aw_virtio_rpmsg_bus.c:666-688`), and only a buffer that the remote returns ends
the loop (`WriteSpun`), which nothing in this model makes happen.

Abstracted: what a message says; the inside of `rpmsg_send` (`VirtioTx`); ids and the control device (`RpmsgCtrl`).
Memory that was freed keeps its content: a callback on a freed `eptdev` (between `RmDelete` and `RmClear`)
works as before, and is recorded in `eptdev`.

### Runs

| Run | Instance | Shows |
|---|---|---|
| `eptdev` | 2 users, queue limit 1 | the queue is bounded (`QueueBound`, one above the limit); no reader or poller sleeps beside a message (`NoLostWakeup`); the endpoint is not freed under its callback, and is not called back after its destruction (`EndpointHeld`, `NoLateCall`); an open file has its `eptdev`, until a callback has used a freed one (`DeviceHeld`); a reader of a removed device returns (`ReadReturns`); the removal ends (`RemovalEnds`) |
| `ept_lock` | 1 user | `WriterHasEndpoint` fails: section 8 |

Two users are enough for one reader to take the message that woke the other and for a
writer to hold `ept_lock` against the remover; limit 1 lets the queue be empty, at its limit
and one above. `RemovalEnds` has two conditions. The remote sends finitely often: the
remover needs `cb_lock`, and a remote that never pauses could take it each time. And no writer spins for ever in
`rpmsg_send`: it holds `ept_lock`, and the remover would wait for it in `rpmsg_eptdev_remove` for ever, which the code
allows (section 8). `EndpointHeld` and `NoLateCall` speak of the endpoint; the `eptdev` it calls back into is
freed earlier when no file is open (section 8).
Deadlock is not checked: once the device is removed and no file is open, nothing happens any
more.

`FairSpec`: threads inside a call run on (weakly fair), and a mutex is handed to
who waits for it, so that `RmLock` is strongly fair: kernel mutexes hand the lock
over to a waiter that was overtaken. Nothing makes a user call, a message arrive, the
device go away, or a spinning writer stop.

### Proofs

`RpmsgEptdevProofs`, for every set of users and every limit: `TypeCorrect`, `Bounded`,
`WakeupsKept`, `EndpointKept`, `EndpointSafe`, `DeviceKept`. The invariant `Inv` adds to `NoLostWakeup`: who holds `cb_lock`
(`Locked`), that `refs` counts the receive context and the creator (`Counted`), how far the
removal has come (`Removal`), that the length tested before an append has not grown since
(`Room`; only the receive context appends), and that who sleeps or is about to is on the
wait queue (`Enqueued`). `Removal` carries `NoLateCall`: `cb` is cleared under `cb_lock`,
which the receive context holds from its test of `cb` to the end of the callback; `Counted` carries
`EndpointHeld`.
`Memory` carries `DeviceHeld`: `eptdev` is only freed once the removal has dropped its reference and no file is open,
and then no file can be opened, since the character device is gone, until a callback makes another.
Only model-checked: `ReadReturns`, `RemovalEnds`.

## 6. RpbufDev

One buffer device `/dev/rpbuf-NAME` and the flags of its buffer: threads that open, close and
receive, and the receive context that runs the handlers of `rpbuf_core.c` with the callbacks
of `rpbuf_dev.c`. The buffer protocol is left to `RpbufCore`: here the remote allocates
and frees its buffer and transmits whenever it may.

### Correspondence

| Model | Code |
|---|---|
| `can`, `file`, `done` | `can_be_opened`, an open file, the completion `available` |
| `inst`, `known`, `told`, `used` | the `rpbuf_buffer` exists, the remote allocated its own, was told of ours, `is_used_by_buf_dev` |
| `flags`, `need_ack` | `buffer->state` (WORKING, DESTROYED), `buffer->need_ack` |
| `data` | `recv_data_offset` and `recv_data_len` hold unread data |
| `pc[t]`, `why[t]`, `woken`, `reg[t]` | a thread: its place, its call, its wake-up, the flags it read |
| `rx`, `rx_sync`, `rx_reg`, `rx_lives` | the receive context: its place, its message, the flags it read, whether its buffer still exists |
| `stuck` | an allocation has left `controller_lock` locked |
| `cut` | history: a signal ended the wait of `rpbuf_free_buffer` |
| `owed` | history: what was received asked for an acknowledgement, none was tried since, and no failed copy to user space took the data |

`Open`, `OpenFail`, `Alloc`, `Tell`, `Use`, `Opened`, `GiveUp` are `rpbuf_buf_dev_open`; `Close`,
`Mark`, `FreeLock`, `FreeWait`, `FreeCut` the release and `rpbuf_free_buffer_internal`; `Receive*`
the receive ioctl; `Rx*` the handlers of CREATED, DESTROYED and TRANSMITTED.
`buffer->state |= x` is two steps (read, write), because the free path and the handlers
write it without a common lock. A handler whose buffer was freed reads
anything and changes nothing of the next buffer (`rx_lives`).

Failures that are steps: an allocation that finds no memory, in its clean form and in the one that keeps
`controller_lock` (`Alloc`); a CREATED that cannot be sent (`Tell`); an acknowledgement that cannot be sent
(`ReceiveAck`, `RxReply`: `need_ack` is cleared before the attempt); a copy to user space that fails after the data
were taken (`ReceiveLock`). Left out: copies from user space that fail, `kill_fasync`, poll, mmap, the transmit
ioctl, the creation and destruction of devices, and, on a slave, an `idr_alloc` that fails after the list entry
was added (`rpbuf_core.c:1607-1611`; Linux is the master).

### Runs

| Run | Instance | Shows |
|---|---|---|
| `bufdev` | 2 threads, timeouts and signals wherever the code waits | one user at a time (`OneUser`); a device that nobody uses can be opened again and has no buffer left, but for two failures of the code: a signal that cuts a free short and an allocation that keeps `controller_lock` (`NothingLeft`); no receiver sleeps beside data (`NoLostWakeup`); data that asked for an acknowledgement are not taken without a try to send one, unless their copy to user space fails (`TakenIsAcked`); a receive with data, or with a timeout, returns (`ReceiveReturns`); no deadlock |
| `free_hang` | 1 thread | `FreeEnds` fails: section 8 |

The only constant is the set of threads. Two let an open meet an open, a
close or a failing open, and two receivers race for one wake-up; `OneUser` itself keeps a
third from adding a case beyond one more failing open. `free_hang` has one thread, which stops where it
meets the lock left locked, so that deadlock is not checked there.

`FairSpec`: the receive context and the threads run on (weakly fair). Three steps of a thread
are strongly fair together: `ReceiveTimeout`, since a wake-up does not renew the time of
`wait_event_interruptible_timeout`; `Alloc` and `FreeLock`, since whoever waits for
`controller_lock` gets it although the receive context takes it again and again. Nobody
has to call, to send, or to be interrupted. In `bufdev` every wait of an open ends because its
timeout is a step of the thread.

### Proofs

`RpbufDevProofs`, for every finite set of threads: `TypeCorrect`, `OneDeviceUser`,
`WakeupsKept`, `AcksKept`, `NothingStays`. `OneUser` is not inductive: it needs `Counted`, that `can` is
one less the number of threads whose open is about to fail, less one when the
device is in use. So a decrement that ends at 0 meets a device without a user. After a
close that a signal cut short (`cut`), which keeps the device, `can` may be lower: the equation
becomes an inequality. `NothingLeft` follows from the equation and from `Held`: as long as no
signal cut a free short, a buffer has somebody who will free it, the open file or a thread that opens
or closes. `NoLostWakeup` is inductive given `TypeOK`; `TakenIsAcked` together with `owed => need_ack`
(`OwedAsked`), by which a receive that finds `need_ack` cleared owes nothing. Only model-checked:
`ReceiveReturns`.

## 7. VirtioTx and TxPool

The sending half of the bus: a fixed set of transmit buffers, senders that may sleep for
one, and the tx complete interrupt, which is only enabled while somebody sleeps.

### Correspondence

| Model | Code |
|---|---|
| `last_sbuf` | `vrp->last_sbuf` |
| `avail`, `reading`, `used` | the virtqueue: posted, being read by the remote, returned (external) |
| `note`, `irq` | the remote has yet to look at the interrupt flag; an interrupt is pending (external) |
| `cb`, `sleepers`, `sendq` | interrupts are enabled, `vrp->sleepers`, the wait queue `vrp->sendq` |
| `pc[t]`, `msg[t]`, `block[t]`, `why[t]`, `sig[t]` | a sender in `rpmsg_send_offchannel_raw`: place, buffer, parameter `wait`, why its wait ended, pending signal |
| `data[b]` | history: who wrote buffer b last |

`Get`, `TakeBuf` are `get_a_tx_buf`; `Upref`, `Downref` the two functions on `sleepers`; `Try`,
`Prepare`, `Check`, `Awake`, `Timer` the steps of `wait_event_interruptible_timeout`, whose condition takes a
buffer each time it is evaluated with success; `Fill`, `Post` the rest of the send; `XmitDone` the interrupt.
`Post` keeps the branch that loses a buffer when no descriptor is free.

`TxPool` is what a caller relies on: a buffer is free, or one sender's, or the remote's, and its
contents change only while a sender owns it. The refinement mapping
is `own <- Own`: free if never used or returned, a sender's if it holds it, else the remote's.

### Run

| Run | Instance | Shows |
|---|---|---|
| `tx_pool` | 2 senders, 2 buffers, a ring of 2, timeouts, signals, a remote that may stop | a buffer is always in exactly one place (`OnePlace`); no sender sleeps beside a free buffer (`NoLostWakeup`); the branch that loses a buffer is dead (`RingHasRoom`); the interrupt is off when nobody waits (`QuietWhenIdle`); a send that no signal reaches returns (`SendReturns`); `VirtioTx` implements `TxPool` (`PoolSpec`) |

Two senders can sleep together, one leave first and be the last or not; a sender can take the
buffer that another's wake-up was for. With two buffers both ways to get one (first
use, returned) occur in one behaviour. Senders above the number of buffers add longer
queues but no new step. `FairSpec`: threads run on, interrupts are delivered, timers
expire (strongly fair: the wait goes on with the time that is left). Nothing is assumed of the
remote: it may never return a buffer.

### Proofs

`VirtioTxProofs`, for every finite set of senders, every number of buffers and every ring of at
least as many descriptors (`ConstantsAssumption`; `rpmsg_probe` computes the number of buffers from
the ring size): `TypeCorrect`, `BuffersSafe`, `WakeupsKept`, `RoomAlways`,
`QuietIdle`, and `Refinement`: `Spec => PoolSpec`, by the initial condition and one lemma per
action. `Inv` says that a thread holds a buffer exactly from the step that takes it to `Post`
(`Hands`), that the five places exclude each other (`Apart`) and contain every buffer
(`Covered`), and that `sleepers` is the number of waiting threads and `cb` says whether it is
positive (`Counted`); `NoLostWakeup` is inductive only with `Counted`, because the remote looks at
`cb`. `RoomAlways` counts: the buffers in the ring and the one to be posted are distinct, and there
are at most `NBufs` of them. Only model-checked: `SendReturns`.

## 8. Disagreements between code and documentation

Shown by a run (its counterexample is the sequence of steps):

| Run | Where | What |
|---|---|---|
| `lost_wakeup` | `rpbuf_core.c:993` | a destroyed and re-created buffer leaves its synchronous transmitter asleep |
| `by_name` | `rpbuf_core.c:1042` | BUFFER_DESTROYED is matched by id where the comment says "with the same name"; a buffer of the master has id 0 until the slave completes it, so that freeing one name deletes the entry of another |
| `ept_lock` | `rpmsg_client.c:469` | `eptdev->ept` is cleared after `ept_lock` was released: a writer that tested it under the lock calls `rpmsg_send` with NULL |
| `free_hang` | `rpbuf_core.c:1326` | an update of `buffer->state` in the free path brings WORKING back after the handler cleared it, and the free waits for ever. BUFFER_CREATED, which sets the state to 0 (line 993), can also erase the DESTROYED that tells the handler to wake it |

Present in the models' steps, but stated by no property of a run (each follows from
the named lines; the runs' properties are stated so that they claim nothing here):

| Where | What |
|---|---|
| `rpbuf_core.c:1328` | BUFFER_DESTROYED is sent with id 0 when the slave completed the buffer first: with two names it reaches another buffer (`by_name`), and the slave keeps using freed memory |
| `rpbuf_core.c:1349` | a signal ends a free after BUFFER_DESTROYED was sent: the buffer stays in its list, and no caller of `rpbuf_free_buffer` tries again |
| `rpbuf_core.c:366` | the reset runs without `controller_lock`. Inside a free it makes `idr_remove` (1388) find nothing: -EINVAL, the buffer stays. Inside an allocation (1519-1589) it frees the dummy entry and the payload that the new buffer then uses, and the entry is deleted twice (`RemoveInAlloc`) |
| `rpbuf_core.c:911` | a reset between `idr_alloc` and `list_del` (921) adds a buffer to `local_dummy_buffers` that is still in it, and it ends in no list (`RemoveInCreated`); in a handler that found a dummy entry it frees the entry under it (`RemoveInDummy`) |
| `rpbuf_core.c:1229` | the ack of a transmit that a signal ended ends the next one |
| `rpbuf_core.c:1615` | an error exit of the allocation keeps `controller_lock` and a freed list entry; the next open of a buffer device waits in `rpbuf_alloc_buffer` for ever (`RpbufCore`, `RpbufDev`) |
| `rpbuf_core.c:911` | `idr_alloc` refuses the id of a buffer because an older one still has it: what was assigned before stays, and a payload may be left without an owner (the model records `clash`) |
| `rpbuf_core.c:1133` | BUFFER_TRANSMITTED that crosses a free reaches the buffer that took over the id |
| `rpbuf_core.c:992` | without `available_cb` a re-created buffer keeps DESTROYED and refuses data (the runs have `AvailableCb = TRUE`) |
| `rpbuf_core.c:972` | a buffer waiting for the slave is not announced again after a restart |
| `rpbuf_core.c:948` | the address of a dummy entry that owns a payload is replaced (the model records it in `odd`) |
| `rpbuf_core.c:783` | a synchronous transmitter whose BUFFER_ACK was dropped, or whose service was removed, is not woken |
| `rpbuf_core.c:1741` | the availability of a buffer is tested after its id was read (1736) |
| `rpbuf_dev.c:438` | a `copy_to_user` that fails after the data were taken leaves them without an acknowledgement |
| `rpbuf_dev.c:444` | the receive of one message acknowledges a newer synchronous one whose `rx_cb` has not run, which `rpbuf.h:183` excludes ("it will block until the remoteproc complete 'rx_cb'") |
| `rpbuf_core.c:1181` | once its WORKING flag was lost as in `free_hang`, a callback runs on a freed buffer (`rx_lives`) |
| `aw_virtio_rpmsg_bus.c:676` | a wait that a signal ends returns a negative value, the loop only stops for 0: a blocking sender spins while the signal is pending, and its 15 seconds (line 665) begin anew. A writer of an endpoint device does so under `ept_lock`, and `rpmsg_eptdev_remove` (462) waits for it |
| `rpmsg_client.c:476` | `eptdev` is freed when no file is open, while the callback stays installed until `__rpmsg_destroy_ept` clears it: a message in between is handled on freed memory, and `rpmsg_eptdev_temp_cb` may make a file for it |
| `rpmsg_client.c:461` | a message queued after "Discard all SKBs" and before the callback is cleared is not freed |
| `rpmsg_client.c:240` | a poller that tested `ept` before the removal and registers after its wake-up sleeps until its own timeout |
| `rpmsg_client.c:184` | the second of two readers woken by one message returns -EFAULT |
| `rpmsg_master.c:453` | `ctrl_notify` is linked while it is linked (clears or resets beside timeouts), and a later search never ends |
| `rpmsg_master.c:713` | the object found for an ack is written without `ctrldev->lock`: its caller may have timed out and freed it (360, 383), and another creation may have the memory, which is then completed |
| `rpmsg_master.c:359` | an ack that precedes the assignment is overwritten with "failed": the creation fails although the endpoint exists |
| `rpmsg_master.c:630` | failed creations lose their id |
| `rpmsg_master.c:430` | clearing a group drops the entries of all groups |
| `rpmsg_master.c:475` | a reset leaves the list of endpoints as it was |
| `rpmsg_master.c:707` | the ack of a timed-out clear (id 0) ends a later reset |

Seen in code that the models leave out:

| Where | What |
|---|---|
| `rpbuf_dev.c:324` | poll reports data only at an offset above 0, receive takes them from 0 on |
| `rpbuf_core.c:811` | a handler entered after the service was removed dereferences `service->link`, which is NULL |
| `rpbuf_dev.c:784` | one file destroys a buffer device that another created, which the other's release destroys again |
| `aw_virtio_rpmsg_bus.c:814` | a message of a bad length ends `rpmsg_recv_done` with the buffer not given back |
| `rpmsg_heartbeat.c:101` | a heartbeat that has passed the test of `sleep` arms the timer after suspend deleted it |

## 9. Not modelled

* What the plan lists as open: registration and reference counts of rpbuf links and controllers
  (A1), the name service, channels and the receive ring of the bus (C1), `rpmsg_notify`
  (B3), heartbeat and remoteproc (B2, D), msgbox and hwspinlock (C2), and the WiFi host driver (E).
* In modelled parts: what sections 3 to 7 name as left out.
* Vendored drivers, register-level drivers, tables, build files and data: they are by far most of
  the tree, and their state is the hardware's (the components of `PROJECT.json` with status
  `not_modelled`, each with its reason).
* Memory ordering of the real hardware, everywhere: a step is atomic, and steps interleave. Where
  the code reads, changes and writes a shared word without a lock, and properties depend on it,
  these are separate steps (`RpbufDev`).

Out of the prover's reach and left to TLC: all liveness properties (`Converges`, `Answered`,
`ReadReturns`, `RemovalEnds`, `ReceiveReturns`, `SendReturns`), as fairness and ENABLED are not
supported. The theorems of the library on induction take an operator as a parameter, which
no installed prover instantiates; where one recursive function needs an induction, the proof uses
least counterexamples instead (section 4).

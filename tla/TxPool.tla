------------------------------- MODULE TxPool -------------------------------
(***************************************************************************)
(* What the transmit buffers of drivers/rpmsg/aw_virtio_rpmsg_bus.c are    *)
(* for: at any time a buffer is free, belongs to one sender, or belongs to *)
(* the remote core, and only its sender writes to it.  Module VirtioTx     *)
(* implements this specification.                                          *)
(***************************************************************************)
CONSTANTS
  Senders,  \* threads that send
  Bufs,     \* transmit buffers
  Free,     \* owner of a buffer nobody uses
  Remote    \* owner of a buffer the remote core has yet to return

VARIABLES
  own,      \* own[b]: owner of buffer b
  data      \* data[b]: the sender that wrote b last

pool == <<own, data>>

Init == own = [b \in Bufs |-> Free] /\ data \in [Bufs -> Senders]

\* A sender without a buffer takes a free one
Acquire(t, b) ==
  /\ own[b] = Free /\ \A c \in Bufs : own[c] # t
  /\ own' = [own EXCEPT ![b] = t] /\ UNCHANGED data

Write(t, b) == own[b] = t /\ data' = [data EXCEPT ![b] = t] /\ UNCHANGED own

\* The message is handed over, and the remote returns its buffer
Post(t, b) ==
  /\ own[b] = t /\ data[b] = t
  /\ own' = [own EXCEPT ![b] = Remote] /\ UNCHANGED data

Return(b) == own[b] = Remote /\ own' = [own EXCEPT ![b] = Free] /\ UNCHANGED data

Next == \E b \in Bufs :
  Return(b) \/ \E t \in Senders : Acquire(t, b) \/ Write(t, b) \/ Post(t, b)

Spec == Init /\ [][Next]_pool
=============================================================================

---------------------------- MODULE MCRpbufCore ----------------------------
(***************************************************************************)
(* Model-checking instances of RpbufCore.                                  *)
(***************************************************************************)
EXTENDS RpbufCore, FiniteSets, TLC

\* Names and payload blocks are interchangeable
Symmetry == Permutations(Names) \cup Permutations(Mem)

\* State constraint of the restart run: the length differs only when it is the
\* master that asks for 2, and nothing is explored behind a second of the
\* branches that `odd' records
RestartBound ==
  /\ \A n \in Names : buf[Slave][n].len # 2
  /\ Cardinality(odd) <= 1

\* State constraint of the two-name run: one API call at a time, at most QLen
\* messages in both directions together when a step is taken, one entry in
\* each remote_dummy_buffers (whose order is not modelled), and nothing behind
\* a lock that was left locked
InCall == {pn \in Peers \X Names : user[pn[1]][pn[2]].pc \notin {"idle", "owned"}}
TakingTurns ==
  /\ Cardinality(InCall) <= 1
  /\ Len(ch[Master]) + Len(ch[Slave]) <= QLen
  /\ \A p \in Peers : ~stuck[p] /\ Cardinality({n \in Names : rdb[p][n].there}) <= 1
=============================================================================

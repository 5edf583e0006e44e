----------------------------- MODULE MCTransport -----------------------------
(* Instances of Transport for TLC.  Sizes of payloads stand on both sides of  *)
(* what fits beside an adaptation field.  In the merge, video and audio use   *)
(* the same PIDs, as they do in practice; later segments may lack a map or    *)
(* announce another one.  Of two videos the new PIDs may meet those of the     *)
(* video: 39 is just below and 40 is the first, and behind 8180 they run over. *)
EXTENDS Transport

Component(pid, type) == [pid |-> pid, type |-> type]

\* With a component in the clear, with two audio components, with one kind.
MCMaps == {<<Component(17, "db"), Component(18, "cf"), Component(19, "06")>>,
           <<Component(19, "c1"), Component(18, "c2")>>}

In(pid, start, flags, size, taken) ==
  [pid |-> pid, start |-> start, flags |-> flags, size |-> size, removed |-> taken]

MCPackets ==
  {In(pid, FALSE, "none", Payload, 0) : pid \in {MapPid, 19}}
    \cup {In(18, TRUE, "none", 1, 0), In(18, TRUE, "pcr", Payload - 8, 0),
          In(18, FALSE, "none", Payload, 0),
          In(17, TRUE, "pcr", Payload - 9, 0), In(17, TRUE, "mark", Payload - 2, 1),
          In(17, TRUE, "none", Payload, 0), In(17, TRUE, "none", Payload, 1),
          In(17, FALSE, "none", Payload, 0), In(17, FALSE, "none", 1, 0)}

Plain(pid) == [pid |-> pid, map |-> NULL]
Map(pids)  == [pid |-> 16, map |-> pids]

Pat  == Plain(PAT)
Lost == Plain(NULL)
V    == Plain(17)
W    == Plain(18)

M    == Map(<<17, 18>>)

\* A map early, late and never; packets ahead of it; a second association; lost
\* packets; three components.
MCVideoSegments ==
  {<<Pat, M, V>>, <<Pat, V, M>>, <<M, Pat, V>>, <<M, V, Pat>>, <<V, Pat, M>>, <<V, M, Pat>>,
   <<V, M, V>>, <<M, V, V>>, <<Pat, V, V>>, <<V, Pat, V>>, <<V, V, V>>, <<Pat, Pat, M>>, <<Pat, M, M>>,
   <<Pat, M, V, W, V, W, V>>, <<Pat, M, V, Lost, V>>, <<Pat, M, V, Pat, M, W>>,
   <<Plain(1), Pat, Map(<<40, 17>>), Plain(39), Plain(40)>>,
   <<Map(<<11, 8180>>), Pat, Plain(11), Plain(8180)>>,
   <<Pat, Map(<<17, 18, 19>>), V>>}

MCAudioSegments ==
  {<<Pat, Map(<<17>>), V>>, <<Pat, V, V>>, <<Map(<<17>>), V, V, V, V>>,
   <<Pat, Map(<<17, 18>>), V, W>>, <<Pat, Map(<<18>>), V, W, V, W, W, W>>,
   <<Pat, Map(<<18, 17>>), W, Lost, V>>}
=============================================================================

----------------------------- MODULE MCDataPath -----------------------------
(* Instance of DataPath: an Ethernet link that pads, a virtual link that   *)
(* does not but has every fault, one with large packets that only loses.   *)
EXTENDS DataPath

Link(min, mtu, tc, faults) ==
  [min_frame |-> min, mtu |-> mtu, tc |-> tc, faults |-> faults]
File(filesize, datasize) == [filesize |-> filesize, datasize |-> datasize]

Ethernet == Link(60, 1500, TRUE, {})
Virtual  == Link(0, 1500, FALSE, {"lose", "duplicate", "reorder"})
Jumbo    == Link(60, 65536, TRUE, {"lose", "duplicate"})

AllLinks == {Ethernet, Virtual, Jumbo}

\* Empty and short files, full chunks with an empty one behind them, the last
\* size that fits an MTU, a umem frame, the 16 bits, and the first that does not.
AllFiles == {File(0, 1024), File(2048, 1024), File(1478, 1478), File(1479, 1479),
             File(3804, 3804), File(3805, 3805), File(65513, 65513), File(65514, 65514),
             File(51, 25)}

=============================================================================

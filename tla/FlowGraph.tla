------------------------------ MODULE FlowGraph ------------------------------
(***************************************************************************)
(* The flow graph that the full duplex application builds from two tunnel  *)
(* interfaces (apps/sim.py), with the interface blocks of                  *)
(* testbed/testbed_io.py and the `>>` of testbed/wrap.py.                  *)
(*                                                                         *)
(* An end is <<k, block, dir>>: where frames go into or come out of a      *)
(* block of side k, the side of tunnel interface k.  A connection is a     *)
(* pair of ends.  The module has no state: module PingRun sends the frames *)
(* of a ping through the graph.                                            *)
(***************************************************************************)
EXTENDS Naturals, Sequences

Side == {0, 1}

Byte == 1

(* What GNU Radio says of a block: the sizes of the items of its input and *)
(* of its output streams.                                                  *)
Signature == [dev      |-> [inp |-> <<>>,     outp |-> <<>>],
              to_phy   |-> [inp |-> <<>>,     outp |-> <<Byte>>],
              from_phy |-> [inp |-> <<Byte>>, outp |-> <<Byte>>],
              to_pdu   |-> [inp |-> <<Byte>>, outp |-> <<>>],
              hb       |-> [inp |-> <<Byte>>, outp |-> <<Byte>>]]

(* Inside a hierarchical block its own inputs are where the data comes     *)
(* from, and its outputs where the data goes to.                           *)
Source(k, b) == <<k, b, IF b = "hb" THEN "in" ELSE "out">>

Sink(k, b) == <<k, b, IF b = "hb" THEN "out" ELSE "in">>

(* D >> D takes the first port of either block, and asserts that they      *)
(* carry items of the same size; without a port there is an IndexError.    *)
Fits(a, b) ==
  /\ Signature[a].outp # <<>> /\ Signature[b].inp # <<>>
  /\ Signature[a].outp[1] = Signature[b].inp[1]

(* Mutant of Streams: the data for the interface is taken from to_phy.     *)
StreamsBack == {<<"to_phy", "hb">>, <<"to_phy", "from_phy">>, <<"from_phy", "to_pdu">>}

(* tun_io and tap_io: `a >> b` between blocks, and between the message     *)
(* ports of blocks, which nothing is asserted of.                          *)
Streams == {<<"to_phy", "hb">>, <<"hb", "from_phy">>, <<"from_phy", "to_pdu">>}

Messages == {<<"dev", "to_phy">>, <<"to_pdu", "dev">>}

Accepted == \A s \in Streams : Fits(s[1], s[2])

InterfaceBlock(k) == {<<Source(k, c[1]), Sink(k, c[2])>> : c \in Streams \cup Messages}

(* wire_it: interface block and modem of a side, and modem and modem; the  *)
(* direct path has the channel in between.                                 *)
Wires ==
  (UNION {{<<<<k, "hb", "out">>, <<k, "bytes", "in">>>>,
           <<<<k, "bytes", "out">>, <<k, "hb", "in">>>>} : k \in Side})
  \cup {<<<<0, "air", "out">>, <<0, "channel", "in">>>>,
        <<<<0, "channel", "out">>, <<1, "air", "in">>>>,
        <<<<1, "air", "out">>, <<0, "air", "in">>>>}

(* What goes through a block.  A modem sends the bytes it is given and     *)
(* gives the bytes it receives.                                            *)
Through ==
  UNION {{<<<<k, b, "in">>, <<k, b, "out">>>> : b \in {"from_phy", "to_phy", "to_pdu", "channel"}}
         \cup {<<<<k, "bytes", "in">>, <<k, "air", "out">>>>,
               <<<<k, "air", "in">>, <<k, "bytes", "out">>>>} : k \in Side}

Graph == Wires \cup Through \cup UNION {InterfaceBlock(k) : k \in Side}

(* The steps of R, and two of them that follow each other made one.        *)
Twice(R) == R \cup {<<p[1][1], p[2][2]>> : p \in {q \in R \X R : q[1][2] = q[2][1]}}

(* The ways of at most 32 steps, no fewer than the graph has ends.         *)
Ways == Twice(Twice(Twice(Twice(Twice(Graph)))))

(* The tunnel interfaces to which the application writes what it reads     *)
(* from tunnel interface k.                                                *)
LeadsTo == [k \in Side |-> {j \in Side : <<Source(k, "dev"), Sink(j, "dev")>> \in Ways}]

(* A ping needs the way there and the way back.                            *)
BothWays == 1 \in LeadsTo[0] /\ 0 \in LeadsTo[1]

=============================================================================

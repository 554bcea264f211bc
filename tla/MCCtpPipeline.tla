--------------------------- MODULE MCCtpPipeline ---------------------------
(***************************************************************************)
(* Captures of three packets between two internal users and one outside    *)
(* address (3), and a few longer ones with a third user.                   *)
(***************************************************************************)
EXTENDS CtpPipeline

Kinds == {[src |-> 3, dst |-> 0, len |-> 3], [src |-> 2, dst |-> 3, len |-> 2],
          [src |-> 0, dst |-> 2, len |-> 2]}
At(ts, ks) == [i \in DOMAIN ts |-> [t |-> ts[i], src |-> ks[i].src,
                                    dst |-> ks[i].dst, len |-> ks[i].len]]

\* One capture in order of time, of two kinds of packet: spread over two windows,
\* or in one, the last packet past its last bin.
Across == {k \in Kinds : 3 \in {k.src, k.dst}}
Ordered ==
  {<<At(<<0, 4, 7>>, <<a, b, a>>)>> : a \in Across, b \in Kinds}
    \cup {<<At(<<0, 0, 6>>, <<a, a, b>>)>> : a, b \in Kinds}

\* A packet that is late, two captures, a user's steady stream, a burst within and
\* one beyond the threshold, and bursts that a subnet does not show.
In(t, user, len) == [t |-> t, src |-> 3, dst |-> user, len |-> len]
Special ==
  {<<<<In(0, 0, 1), In(7, 0, 1), In(1, 0, 1), In(7, 0, 2)>>>>,
   <<<<In(0, 0, 1), In(2, 1, 1)>>, <<In(0, 0, 2), In(7, 0, 1)>>>>,
   <<<<In(0, 0, 1), In(1, 0, 1), In(3, 0, 1), In(6, 0, 1)>>>>,
   <<<<In(0, 0, 3), In(0, 0, 1)>>>>,
   <<<<In(0, 0, 3), In(0, 0, 3), In(1, 0, 3)>>>>,
   <<<<In(0, 0, 1), In(1, 1, 1), In(2, 1, 2), In(3, 0, 3), In(3, 0, 1)>>>>}
MCInputs == Ordered \cup Special
=============================================================================

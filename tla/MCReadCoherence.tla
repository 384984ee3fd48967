--------------------------- MODULE MCReadCoherence ---------------------------
(* One session reads and writes document d, another writes it.               *)
EXTENDS CommitEngine

CONSTANTS s, t, d, a, b

MCKeys == {a, b}

Doc(x, y) == (a :> x) @@ (b :> y)

Op(op, key, val) ==
  [op |-> op, doc |-> d, key |-> key, val |-> val, createsKey |-> op = "increment"]

Commit(session, n, ops, confirmed, pending) ==
  [session |-> session, localSeq |-> n, class |-> "authored", holder |-> NoHolder,
   ops |-> ops, confirmed |-> confirmed, pending |-> pending, pre |-> {}]

Blind(session, n, o) == Commit(session, n, <<o>>, <<>>, <<>>)

ConfirmedReads(paths, shapes, seqs) ==
  {<<[doc |-> d, path |-> p, nonRecursive |-> shape, seq |-> q]>> :
     p \in paths, shape \in shapes, q \in seqs}

PendingReads(paths, layerSets, bases) ==
  {<<[doc |-> d, path |-> p, nonRecursive |-> FALSE, layers |-> l, basis |-> q]>> :
     p \in paths, l \in layerSets, q \in bases}

\* A session stacks commits on its own unresolved ones while another writes
\* the document: the second may read through the first, the third through any
\* of the two at any basis, or confirmed content of every path, deep or
\* shape-only, at an old or a recent basis.  Writers record a created key (`add`, or
\* `createsKey` on an increment).
Stacked ==
  {Blind(t, 1, o) : o \in {Op("set", a, Doc(1, None)), Op("delete", a, None),
                           Op("add", b, 2)}}
  \cup {Blind(t, 2, Op("add", a, 2))}
  \cup {Commit(s, 1, <<o>>, r, <<>>) :
          r \in {<<>>} \cup ConfirmedReads({<<>>}, {FALSE}, {0}),
          o \in {Op("set", a, Doc(1, None)), Op("increment", a, 1)}}
  \cup {Commit(s, 2, <<o>>, <<>>, r) :
          r \in {<<>>} \cup PendingReads({<<>>}, {{1}}, 0..1),
          o \in {Op("add", a, 1), Op("increment", a, 1)}}
  \cup {Commit(s, 3, <<Op("add", b, 1)>>, <<>>, r) :
          r \in PendingReads({<<>>}, {{1}, {2}, {1, 2}}, 0..2)
                  \cup PendingReads({<<a>>}, {{1, 2}}, 0..2)}
  \cup {Commit(s, 3, <<Op("add", b, 1)>>, r, <<>>) :
          r \in ConfirmedReads({<<>>, <<b>>}, BOOLEAN, {0, 2})}

=============================================================================

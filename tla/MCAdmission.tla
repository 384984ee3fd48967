---------------------------- MODULE MCAdmission ----------------------------
(* Two client sessions and the service sessions of two lease holders against *)
(* one space: receipts, content-addressed installs, derived commits, pins    *)
(* and the deletion of the space.                                            *)
EXTENDS CommitEngine

CONSTANTS s, t, g, h, receipt, content, data, acl, a

MCKeys == {a}

Doc(x) == a :> x

MCContentOf == content :> Doc(1)

Set(d, v) == [op |-> "set", doc |-> d, key |-> a, val |-> v, createsKey |-> FALSE]

Patch(d, v) == [op |-> "add", doc |-> d, key |-> a, val |-> v, createsKey |-> FALSE]

Delete(d) == [op |-> "delete", doc |-> d, key |-> a, val |-> Absent, createsKey |-> FALSE]

Authored(session, n, ops, pre) ==
  [session |-> session, localSeq |-> n, class |-> "authored", holder |-> NoHolder,
   ops |-> ops, confirmed |-> <<>>, pending |-> <<>>, pre |-> pre]

Derived(holder, n, ops) ==
  [session |-> holder, localSeq |-> n, class |-> "derived", holder |-> holder,
   ops |-> ops, confirmed |-> <<>>, pending |-> <<>>, pre |-> {}]

Reading(c, r) == [c EXCEPT !.pending = <<r>>]

EntityAbsent(d) == [kind |-> "entity-absent", doc |-> d, origin |-> 0, val |-> Absent]

OriginCommitted(n) == [kind |-> "origin-committed", doc |-> data, origin |-> n, val |-> Absent]

ValueHash(d, v) == [kind |-> "entity-value-hash", doc |-> d, origin |-> 0, val |-> v]

Legacy(layers) ==
  [doc |-> data, path |-> <<>>, nonRecursive |-> FALSE, layers |-> layers, basis |-> NoBasis]

\* Two sessions claim a receipt and install the same content, derived commits
\* of two lease holders race the lease and the deletion of the space, and one
\* local number is used with two payloads.
OtherPayload == Authored(s, 2, <<Delete(receipt)>>, {OriginCommitted(1)})

Admission ==
  { Authored(s, 1, <<Set(receipt, Doc(1))>>, {EntityAbsent(receipt)}),
    Authored(s, 2, <<Set(acl, Tombstone)>>, {}),
    OtherPayload,
    Reading(Authored(s, 3, <<Set(content, Doc(1)), Patch(data, 2)>>, {ValueHash(data, Doc(1))}),
            Legacy({1})),
    Authored(t, 1, <<Set(content, Doc(1)), Set(data, Doc(1))>>, {}),
    Authored(t, 2, <<Set(receipt, Doc(2))>>, {EntityAbsent(receipt)}),
    Authored(t, 3, <<Set(content, Doc(2))>>, {}),
    Derived(g, 1, <<Patch(data, 3)>>),
    Derived(h, 1, <<Set(acl, Tombstone)>>),
    Derived(h, 2, <<Patch(content, 4)>>) }

Renumberings == {OtherPayload}

=============================================================================

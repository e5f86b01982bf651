-------------------------- MODULE Serialization --------------------------
(***************************************************************************)
(* Serialize and Deserialize (util/serialize.hpp) and the members of the   *)
(* nodes that they call: how nodes travel from one worker to another, as   *)
(* an array of numbers.  The Serialize operators of vectors, pointers and  *)
(* pairs take the arrays of the parts.  The Deserialize functions work at  *)
(* the head of what is left of the array; they yield what they read, .out, *)
(* and the rest, .in.  A pointer is a sequence, empty if it is null.  The  *)
(* numbers sent are small and not negative, so only the one-byte counters  *)
(* are cut to their width.                                                 *)
(***************************************************************************)
EXTENDS Diam2Kplex

Array == Seq(Nat)

SerializeInt(x) == <<x>>

SerializeVector(parts) == <<Len(parts)>> \o FlattenSeq(parts)

SerializePtr(part) == IF part = <<>> THEN <<0>> ELSE <<1>> \o part[1]

SerializePair(part1, part2) == part1 \o part2

SerializeInts(v) == SerializeVector([j \in DOMAIN v |-> SerializeInt(v[j])])

DeserializeInt == [in \in Array |-> [out |-> Head(in), in |-> Tail(in)]]

DeserializeVector(Des) ==
  [in \in Array |->
     LET read[m \in 0..Head(in)] ==
           IF m = 0 THEN [out |-> <<>>, in |-> Tail(in)]
           ELSE LET r == read[m - 1]
                    e == Des[r.in]
                IN  [out |-> Append(r.out, e.out), in |-> e.in]
     IN  read[Head(in)]]

DeserializePtr(Des) ==
  [in \in Array |->
     IF Head(in) = 0
     THEN [out |-> <<>>, in |-> Tail(in)]
     ELSE LET e == Des[Tail(in)] IN [out |-> <<e.out>>, in |-> e.in]]

DeserializePair(Des1, Des2) ==
  [in \in Array |->
     LET a == Des1[in]
         b == Des2[a.in]
     IN  [out |-> <<a.out, b.out>>, in |-> b.in]]

DeserializeInts == DeserializeVector(DeserializeInt)
-----------------------------------------------------------------------
(* Diam2KplexNode and its Diam2KplexNodeImpl, without status *)

\* The members of the node; non_neighs is one vector, k entries for each index.
KplexObject(s, node) ==
  [subgraph |-> <<node.sub>>,
   nadj |-> <<[i \in DOMAIN node.sub |-> nadj(s, node.sub, i)]>>,
   kplex |-> node.kplex, counters |-> node.counters,
   non_neighs |-> FlattenSeq(node.non_neighs),
   cands |-> node.cands, excluded |-> node.excluded, current_impl |-> 0]

SerializeSubgraph(o) ==
  LET vectors(v) == SerializeVector([j \in DOMAIN v |-> SerializeInts(v[j])])
  IN  SerializePtr([j \in DOMAIN o.subgraph |-> SerializeInts(o.subgraph[j])])
        \o SerializePtr([j \in DOMAIN o.nadj |-> vectors(o.nadj[j])])

\* Mutant of KplexSerialize: the excluded vertices before the candidates.
KplexSerializeSwapped(o) ==
  SerializeSubgraph(o)
    \o SerializeInts(o.kplex) \o SerializeInts(o.counters)
    \o SerializeInts(o.non_neighs) \o SerializeInts(o.excluded)
    \o SerializeInts(o.cands) \o SerializeInt(o.current_impl)

KplexSerialize(o) ==
  SerializeSubgraph(o)
    \o SerializeInts(o.kplex) \o SerializeInts(o.counters)
    \o SerializeInts(o.non_neighs) \o SerializeInts(o.cands)
    \o SerializeInts(o.excluded) \o SerializeInt(o.current_impl)

KplexDeserialize(s) ==
  [in \in Array |->
     LET Byte == [a \in Array |-> [out |-> Head(a) % s.mod, in |-> Tail(a)]]
         subgraph == DeserializePtr(DeserializeInts)[in]
         adj == DeserializePtr(DeserializeVector(DeserializeInts))[subgraph.in]
         kplex == DeserializeInts[adj.in]
         counters == DeserializeVector(Byte)[kplex.in]
         non_neighs == DeserializeInts[counters.in]
         cands == DeserializeInts[non_neighs.in]
         excluded == DeserializeInts[cands.in]
         current_impl == DeserializeInt[excluded.in]
     IN  [out |-> [subgraph |-> subgraph.out, nadj |-> adj.out,
                   kplex |-> kplex.out, counters |-> counters.out,
                   non_neighs |-> non_neighs.out, cands |-> cands.out,
                   excluded |-> excluded.out, current_impl |-> current_impl.out],
          in |-> current_impl.in]]
=======================================================================

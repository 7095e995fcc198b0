-------------------------- MODULE MCMongoCounters --------------------------
(* TLC instances of MongoCounters: two workers allocate, in transactions   *)
(* or not, in batches of one and two, with a conflict-ignoring insert, or  *)
(* twice; a third brings values of its own.                                *)
EXTENDS MongoCounters

W(batches, ignore, tx) == [batches |-> batches, ignore |-> ignore, tx |-> tx]

One == <<Gen>>
Two == <<Gen, Gen>>
Mixed == <<Gen, 3>>

Allocators ==
  {W(bs, FALSE, tx) : bs \in {<<One>>, <<Two>>, <<One, One>>}, tx \in BOOLEAN}
  \cup {W(<<Mixed>>, TRUE, tx) : tx \in BOOLEAN}
  \cup {W(<<<<3>>, One>>, FALSE, TRUE)}
Others == {W(<<<<3>>>>, FALSE, FALSE), W(<<<<2>>>>, FALSE, TRUE)}

Competitors == {W(<<One, One>>, FALSE, FALSE), W(<<Two>>, FALSE, TRUE)}
MCPlans ==
  {[w \in {"w1", "w2", "w3"} |->
      CASE w = "w1" -> a [] w = "w2" -> b [] w = "w3" -> c] :
    a \in Allocators, b \in Competitors, c \in Others}
MCStores == {{}, {1}, {3}}

=============================================================================

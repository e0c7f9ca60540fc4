----------------------------- MODULE MCCatalog -----------------------------
(* Catalog with a tape that has a step of every kind: one that is busy     *)
(* first, two that are sent together, and a busy one behind another.       *)
EXTENDS Catalog

Step(kind, length, delay) == [kind |-> kind, length |-> length, delay |-> delay]

Steps ==
  <<Step("busy", 1, 1), Step("write", 1, 0), Step("serialOut", 1, 1),
    Step("serialOut", 1, 0), Step("spi", 2, 0), Step("busy", 1, 0),
    Step("busy", 1, 1), Step("read", 1, 0), Step("serialIn", 2, 0)>>
=============================================================================

---------------------------- MODULE MCEonMetrics ----------------------------
(***************************************************************************)
(* EonMetrics for model checking: a node and two devices.  The hashes of   *)
(* the devices are the node's id, so the second one's id is past the       *)
(* first one's.  The first one's metrics b and c have the last hash there  *)
(* is, the second one's metric e has the first: what carries c past the    *)
(* aliases of its device brings it to e's.                                 *)
(***************************************************************************)
EXTENDS EonMetrics

MCHash(name) == [b |-> 7, c |-> 7, d1 |-> 0, d2 |-> 0, a |-> 1, e |-> 0, shape |-> 5][name]
MCUses == [t |-> <<>>, u |-> <<"t">>]
MCNames == [node |-> {}, d1 |-> {"b", "c"}, d2 |-> {"e"}]
MCLate == [node |-> {"a"}, d1 |-> {}, d2 |-> {}]
MCAlias == [a |-> AliasGenerate, b |-> AliasGenerate, c |-> AliasGenerate, e |-> AliasGenerate]
MCTemplate == [d1 |-> Some("u"), d2 |-> None]

(* The second device is quick and quiet: it births as soon as the node     *)
(* asks for it, and neither rebirths on its own nor publishes nor is       *)
(* commanded.  The first device is as slow as it likes.                    *)
MCQuickSecond ==
    LET busy == due["d2"] # None \/ life["d2"] = "birthing"
        now  == <<due["d2"], life["d2"]>>
    IN  /\ busy => now' # now
        /\ ~busy => life'["d2"] = life["d2"]
        /\ task'["d2"] = <<>>
        /\ \A k \in DOMAIN cmds' : cmds'[k].of # "d2"
=============================================================================

------------------------ MODULE MC_ServerCatalogue ------------------------
(* Instance of ServerCatalogue for TLC.  Three servers: g1 with two hosts *)
(* (so that the first-host rule of a ping sweep matters), g2 and g3 with  *)
(* one each; g1 and g3 share a flag.  The daemon sends either all three, *)
(* in an order where the nearest server (g2) is not first, or g3 and g1.  *)
EXTENDS ServerCatalogue

CONSTANTS g1, g2, g3, f1, f2, h1, h2, h3, h4, Here

S1 == [gateway |-> g1, flag |-> f1, hosts |-> <<h1, h2>>]
S2 == [gateway |-> g2, flag |-> f2, hosts |-> <<h3>>]
S3 == [gateway |-> g3, flag |-> f1, hosts |-> <<h4>>]

MCLists == {<<S1, S2, S3>>, <<S3, S1>>}

MCDist == [l \in {Here} |-> [g \in {g1, g2, g3} |->
             IF g = g1 THEN 3 ELSE IF g = g2 THEN 1 ELSE 2]]

=============================================================================

--------------------------- MODULE MCGraphGateway ---------------------------
(* TLC instances of ArtworkChain: the routing table of application.yml,     *)
(* with the two fields of titles-dgs, a fragment, and an owner without URL. *)
EXTENDS ArtworkChain, TLC

CONSTANTS titles, title, artworkForTitle, availabilityForTitle, orphan, fragment,
          titlesDgs, artworkDgs, availabilityDgs, removedDgs, k1, k2, k3

MCFields == {titles, title, artworkForTitle, availabilityForTitle, orphan, fragment}
MCSubgraphs == {titlesDgs, artworkDgs, availabilityDgs, removedDgs}
MCOwner == titles :> titlesDgs @@ title :> titlesDgs @@ artworkForTitle :> artworkDgs
           @@ availabilityForTitle :> availabilityDgs @@ orphan :> removedDgs
MCHasUrl == {titlesDgs, artworkDgs, availabilityDgs}
MCKeys == <<k1, k2, k3>>

(* Fields under keys of their own: all queries of at most two, and of      *)
(* three those that return to a subgraph or use each one.                  *)
DistinctKeys(n, fields) ==
  {[i \in 1..n |-> [key |-> MCKeys[i], field |-> f[i]]] : f \in [1..n -> fields]}
UpToThreeFields ==
  UNION {DistinctKeys(n, MCFields) : n \in 0..2}
    \cup {q \in DistinctKeys(3, {titles, artworkForTitle, availabilityForTitle}) :
            q[1].field # q[2].field /\ q[2].field # q[3].field}

(* Two fields under one alias. *)
SharedKey ==
  {<<[key |-> k1, field |-> f], [key |-> k1, field |-> g]>> : f, g \in DOMAIN MCOwner}

(* One field of each subgraph. *)
OneOfEach ==
  {<<[key |-> k1, field |-> titles], [key |-> k2, field |-> artworkForTitle],
     [key |-> k3, field |-> availabilityForTitle]>>}
=============================================================================

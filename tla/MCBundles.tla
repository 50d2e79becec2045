----------------------------- MODULE MCBundles -----------------------------
(* Two clients, one node.                                                  *)
EXTENDS Bundles, TLC

CONSTANTS c1, c2, node, A, B

MCClients  == {c1, c2}
MCCallers  == {c1, c2, node}
MCContents == {A, B}
Symmetry   == Permutations(MCClients)

Upload(content, hash) == [op |-> "set", content |-> content, hash |-> hash]
UpdateHash(hash) == [op |-> "getMeta", content |-> hash, hash |-> None]
Delete == [op |-> "delete", content |-> None, hash |-> None]
Site(n) == [op |-> "site", content |-> n, hash |-> None]

Scenario(k, n, l, r) ==
  [kind |-> k, faults |-> n, layout |-> l, requests |-> r]

(* A wrong hash is corrected, with an error or a crash; a bundle that was  *)
(* staged and cached is replaced, concurrently; the site goes and comes    *)
(* back while folders are moved, with two errors or crashes; an archive    *)
(* has no files.                                                           *)
MCScenarios ==
  UNION { { Scenario(k, 1, "flat", {Upload(A, B), UpdateHash(A), Delete}),
            Scenario(k, 0, "flat", {Upload(A, A), Upload(B, None), Delete,
                                   UpdateHash(None)}),
            Scenario(k, 2, "nested", {Upload(A, A), Site(A), Site(B)}),
            Scenario(k, 1, "hollow", {Upload(A, A)}) }
          : k \in {"local", "s3", "azure"} }
=============================================================================

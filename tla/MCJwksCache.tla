----------------------------- MODULE MCJwksCache -----------------------------
(* Model-checking instances of JwksCache. *)
EXTENDS JwksCache, TLC

UsableDocs == (SUBSET Kids) \ {{}}

(* One usable document, one the index refuses, and {"keys": null}. *)
FaultyDocs == {{CHOOSE k \in Kids : TRUE}, {}, None}

(* One usable document and one the index refuses. *)
OneOfEach == {{CHOOSE k \in Kids : TRUE}, {}}

Symmetry == Permutations(Tasks)
=============================================================================

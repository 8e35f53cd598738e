-------------------------- MODULE MCDynamicRuntime ---------------------------
(* DynamicRuntime on a small instance. *)
EXTENDS DynamicRuntime, TLC

CONSTANTS s1, s2, r1, r2, a1, a2, configured, film, index, poster

Sites == {s1, s2}
Authorities == {a1, a2}
Targets == {film, index, poster}
Origins == [t \in Targets |-> CASE t = film -> a1 [] t = index -> a2 [] OTHER -> configured]
Manifests == {index}
Requests == {r1, r2}
Symmetry == Permutations(Sites) \union Permutations(Requests)
Limits(new, parse) ==
  [n \in LimitNames |-> CASE n = "newAuthorities" -> new [] n = "streams" -> 1
                          [] n = "parses" -> parse [] OTHER -> 2]
OfSite == Limits(1, 1)
InAll == Limits(2, 2)
=============================================================================

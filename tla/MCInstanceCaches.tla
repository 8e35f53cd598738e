-------------------------- MODULE MCInstanceCaches ---------------------------
(* InstanceCaches on a small instance. *)
EXTENDS InstanceCaches, TLC

CONSTANTS s1, s2, i1, i2, i3, p1, p2, a1, a2

Sites == {s1, s2}
Targets == {[site |-> s1, image |-> i1], [site |-> s1, image |-> i2], [site |-> s2, image |-> i3]}
PingKeys == {p1, p2}
Assets == {[site |-> s1, asset |-> a1], [site |-> s1, asset |-> a2]}

Plain == [safe |-> TRUE, forbidden |-> FALSE, sMaxAge |-> Absent, maxAge |-> Absent, expires |-> Absent,
          age |-> Absent, dated |-> Absent]
\* A tick is half a second. Both are stored at the age of a second and a half.
\* Expiring is answered for an Age of two seconds at once, which is all of its
\* lifetime, and Lasting for one of three a second later.
Lasting == [Plain EXCEPT !.sMaxAge = 3, !.maxAge = 1, !.age = 1, !.dated = 3]
Expiring == [Plain EXCEPT !.expires = 1, !.dated = 3]
Stale == [Plain EXCEPT !.maxAge = 1, !.age = 1]
Unsafe == [Lasting EXCEPT !.safe = FALSE]
Private == [Lasting EXCEPT !.forbidden = TRUE]
Sized(answer, declared, body) == answer @@ [declared |-> declared, body |-> body]

ImageAnswers == {Sized(Expiring, 1, 1), Sized(Lasting, 2, 1), Sized(Lasting, Absent, 2),
                 Sized(Unsafe, 1, 1)}
PingAnswers == {Expiring, Lasting, Stale, Unsafe, Private}
AssetAnswers == {[eligible |-> TRUE, size |-> 1], [eligible |-> TRUE, size |-> 2],
                 [eligible |-> FALSE, size |-> 1]}
Requests == {1, 2, 3}
KeySymmetry == Permutations({i1, i2}) \union Permutations(PingKeys) \union Permutations({a1, a2})
=============================================================================

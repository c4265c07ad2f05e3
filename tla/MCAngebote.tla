----------------------------- MODULE MCAngebote -----------------------------
(* A Land with two Angebote, one of them from VIDIS, and a page of two schools:  *)
(* one has an Angebot from VIDIS with an old title and a Rolle, the other has     *)
(* activated an offer that it has not got yet.                                    *)
EXTENDS Angebote, TLC

CONSTANTS s1, s2, land, m1, l1, v1, f1, f2, a, b, c, x, y, r1, A, B

Arts == r1 :> A

Places == r1 :> s1

Row(o, offer, n, open, arten) == [at |-> o, offer |-> offer, name |-> n, open |-> open, arten |-> arten]

Beginning ==
    [sp |-> (m1 :> Row(land, None, y, TRUE, {A, B})
             @@ l1 :> Row(land, a, x, TRUE, {})
             @@ v1 :> Row(s1, b, x, TRUE, {})
             @@ [s \in {f1, f2} |-> NoAngebot]),
     rolle |-> r1 :> [sps |-> {}, version |-> 1],
     erw |-> {[orga |-> s1, rolle |-> r1, sp |-> v1], [orga |-> s1, rolle |-> r1, sp |-> m1]},
     vidis |-> [active |-> ({s1} \X {a, b}) \cup {<<s2, c>>},
                title |-> a :> x @@ b :> y @@ c :> x]]

Symmetry == Permutations(Job) \cup Permutations({f1, f2})

=============================================================================

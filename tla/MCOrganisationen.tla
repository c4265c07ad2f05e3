-------------------------- MODULE MCOrganisationen --------------------------
(***************************************************************************)
(* Instance of Organisationen for TLC: every type of organisation, on both *)
(* sides of the root.  Requests are interchangeable.                       *)
(***************************************************************************)
EXTENDS Organisationen, TLC

CONSTANTS oeffentlich, ersatz, traeger1, traeger2, schule1, schule2, behoerde1, behoerde2, klasse1, klasse2, n1, n2

Symmetry == Permutations(Job)

Below(a, z, n) == [admin |-> a, zug |-> z, name |-> n, its |-> FALSE, version |-> 1]

Types == (oeffentlich :> "LAND" @@ ersatz :> "LAND" @@ traeger1 :> "TRAEGER" @@ traeger2 :> "TRAEGER"
          @@ schule1 :> "SCHULE" @@ schule2 :> "SCHULE" @@ behoerde1 :> "BEHOERDE" @@ behoerde2 :> "BEHOERDE"
          @@ klasse1 :> "KLASSE" @@ klasse2 :> "KLASSE")

TypesIn == [o \in Orga |-> Types[o]]

Same(S) == {[admin |-> o, zug |-> o] : o \in S}

WithoutRest(t) == [o \in Orga |-> IF o \in DOMAIN t THEN t[o] ELSE NoRow]

\* Below oeffentlich a Traeger, its school with a Klasse, and a Behoerde; below
\* ersatz another Traeger.  One more school, Klasse and Behoerde can be created.
Tree ==
    WithoutRest(oeffentlich :> Below(None, None, n1) @@ ersatz :> Below(None, None, n1)
                @@ traeger1 :> Below(oeffentlich, oeffentlich, n1)
                @@ traeger2 :> Below(ersatz, ersatz, n1)
                @@ schule1 :> Below(oeffentlich, traeger1, n1)
                @@ klasse1 :> Below(schule1, schule1, n1)
                @@ behoerde1 :> Below(oeffentlich, oeffentlich, n1))

Places == Same({oeffentlich, ersatz, traeger1, traeger2, schule1, behoerde1})

=============================================================================

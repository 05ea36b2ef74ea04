----------------------------- MODULE MCServices -----------------------------
(* Instances of the services for TLC. *)
EXTENDS Services

CONSTANTS clA, clB, doc1, e1, e2, e3, con, yr, k1, k2, pl1, pl2, pl3, lb1, lb2, lb3, lb4, lt1, lt2,
          n1, n2, n3, oa, ob

\* The second file has the first one's hierarchy turned round as well, the third
\* is cut short by --limit and has an edge to a class it does not bring.
MCFiles ==
  {[ver |-> 1, classes |-> {clA, clB}, edges |-> {<<clA, clB>>}],
   [ver |-> 2, classes |-> {clA, clB}, edges |-> {<<clB, clA>>, <<clA, clB>>}],
   [ver |-> 2, classes |-> {clA}, edges |-> {<<clA, clB>>}]}

\* con is a concept, on the way from e3 to e2.
MCAbout == doc1 :> {e1, con, yr}
MCArc   == {<<e1, e2>>, <<con, e2>>, <<e3, con>>}
MCExtra == {<<doc1, "fulltext">>, <<doc1, "table">>}

\* Two chunks with months a year apart, and one without dates; the second one's
\* artifact names a quarter that only a later run may mint.
MCDates    == <<{<<2, 8>>, <<4, 0>>}, {<<2, 13>>}, {}>>
MCOwnDates == <<{}, {<<3, 3>>}, {}>>
\* A city, a country and a place of a class that says nothing.
MCGeoLevel == pl1 :> 1 @@ pl2 :> 3 @@ pl3 :> 0

\* A carrier on the menu, a class withheld, a concept, and one only near; the
\* pinned class is called as the last one is.
MCRanked  == <<"rcon", "rwd", "rnear", "rfar">>
MCAbove   == {<<"rcon", "rwd">>, <<"rcon", "rtop">>}
MCTypeKey == "rcon" :> "kc" @@ "rwd" :> "kw" @@ "rnear" :> "kn" @@ "rfar" :> "ko" @@ "rtop" :> "kt" @@ "rorg" :> "ko"
MCNameKey == "acme" :> "acme" @@ "acme inc" :> "acme"

\* Three firms that shorten to one name, one of which is called what another shortens
\* to on the way, and a fourth, of another class, called as one of them is.
MCFullName == lb1 :> "byd co ltd" @@ lb2 :> "byd inc" @@ lb3 :> "byd co" @@ lb4 :> "byd inc"
MCStripped == "byd co ltd" :> "byd co" @@ "byd co" :> "byd" @@ "byd inc" :> "byd" @@ "byd" :> "byd" @@ "total" :> "total"
MCCells    == lt1 :> {"BYD", "BYD Co", "Total"} @@ lt2 :> {"BYD Inc."}
MCNormCell == "BYD" :> "byd" @@ "BYD Co" :> "byd co" @@ "Total" :> "total" @@ "BYD Inc." :> "byd inc"

\* Four chunks; two are about one entity, the first of them about two of a class.
MCChunkNames == <<{n1, n2}, {n1}, {n3}, {n2}>>
MCAClassOf   == n1 :> oa @@ n2 :> oa @@ n3 :> ob

=============================================================================

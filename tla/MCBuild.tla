------------------------------- MODULE MCBuild -------------------------------
(* Instances of the stages of the build for TLC. *)
EXTENDS Build, TLC

CONSTANTS sx, sy, ta, tb

MCWindowsOf  == sx :> 2 @@ sy :> 1

\* "hormuz strait" is named by its own keyword and within it, "hormuz strait ban"
\* shares its stem; it enters the canon by a file of its own, or is proposed.
MCMerged ==
  {{[name |-> "place", ns |-> "geo", parent |-> "none"], [name |-> "strait", ns |-> "geo", parent |-> "place"]},
   {[name |-> "place", ns |-> "geo", parent |-> "none"], [name |-> "hormuz strait", ns |-> "upper", parent |-> "none"]}}
MCLandform == "strait" :> "strait" @@ "hormuz strait" :> "strait"
MCWithin   == {<<"strait", "hormuz strait">>, <<"hormuz strait", "hormuz strait ban">>}
MCStem     == {<<"hormuz strait", "hormuz strait ban">>}

\* b is an organisation in one chunk and a place in another; chunk 3 holds one entity.
MCShape   == "sub" :> [dom |-> {"org"}, rng |-> {"org"}] @@ "in" :> [dom |-> {"org"}, rng |-> {"place"}]
MCClassIn == <<"a" :> "org" @@ "b" :> "org", "a" :> "org" @@ "b" :> "place",
               "b" :> "org", "a" :> "org" @@ "b" :> "org">>

\* One page with figures at least, of the other kinds one at most, and two of those
\* only where none is plain text.
MCPdfs == {f \in [TPage -> PageKind] :
             /\ \A p, q \in TPage : f[p] = f[q] => p = q \/ f[p] = "figures"
             /\ Cardinality({p \in TPage : f[p] = "figures"}) >= IF \E p \in TPage : f[p] = "text" THEN 2 ELSE 1}

MCProviderOf == "t1" :> "openai" @@ "t2" :> "anthropic"

\* Two spellings of a firm that differ in legal form and in full stops, and a person
\* named in either order and by surname; one short form the chunk does not bear out.
MCNorm == "L'Oreal S.A." :> "loreal sa" @@ "LOreal Ltd" :> "loreal ltd" @@ "LOreal" :> "loreal"
          @@ "Guy Amosi" :> "guy amosi" @@ "Amosi, Guy" :> "amosi guy" @@ "Amosi" :> "amosi"
MCRawLen == "L'Oreal S.A." :> 12 @@ "LOreal Ltd" :> 10 @@ "LOreal" :> 6
            @@ "Guy Amosi" :> 9 @@ "Amosi, Guy" :> 10 @@ "Amosi" :> 5
MCNormLen == "loreal sa" :> 9 @@ "loreal ltd" :> 10 @@ "loreal" :> 6 @@ "guy amosi" :> 9 @@ "amosi guy" :> 9 @@ "amosi" :> 5
MCDedupKey == "loreal sa" :> "loreal" @@ "loreal ltd" :> "loreal" @@ "loreal" :> "loreal"
              @@ "guy amosi" :> "guy amosi" @@ "amosi guy" :> "amosi guy" @@ "amosi" :> "amosi"
MCWords == "loreal sa" :> 2 @@ "loreal ltd" :> 2 @@ "loreal" :> 1 @@ "guy amosi" :> 2 @@ "amosi guy" :> 2 @@ "amosi" :> 1
MCWordBag == "loreal sa" :> "loreal sa" @@ "loreal ltd" :> "loreal ltd" @@ "loreal" :> "loreal"
             @@ "guy amosi" :> "amosi guy" @@ "amosi guy" :> "amosi guy" @@ "amosi" :> "amosi"
MCAlphabet == "amosi" :> 1 @@ "amosi guy" :> 2 @@ "guy amosi" :> 3 @@ "loreal" :> 4 @@ "loreal ltd" :> 5 @@ "loreal sa" :> 6
MCSuffixOf == {<<"amosi", "guy amosi">>}
MCPrefixOf == {<<"amosi", "amosi guy">>, <<"loreal", "loreal sa">>, <<"loreal", "loreal ltd">>}
MCMention ==
  {[canon |-> "L'Oreal S.A.", short |-> "LOreal", cls |-> "org", supported |-> TRUE],
   [canon |-> "LOreal Ltd", short |-> "LOreal Ltd", cls |-> "org", supported |-> TRUE],
   [canon |-> "LOreal", short |-> "Amosi", cls |-> "org", supported |-> FALSE],
   [canon |-> "Guy Amosi", short |-> "Amosi", cls |-> "person", supported |-> TRUE],
   [canon |-> "Guy Amosi", short |-> "Amosi, Guy", cls |-> "person", supported |-> TRUE],
   [canon |-> "Amosi, Guy", short |-> "Guy Amosi", cls |-> "person", supported |-> TRUE],
   [canon |-> "Amosi, Guy", short |-> "Amosi", cls |-> "person", supported |-> TRUE],
   [canon |-> "Amosi", short |-> "Amosi", cls |-> "person", supported |-> TRUE]}

\* One terminal runs every command, the other merges: they meet in the choice of a name.
MCOpsOf == ta :> Op @@ tb :> {"merge"}

=============================================================================

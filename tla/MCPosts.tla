-------------------------------- MODULE MCPosts --------------------------------
(***************************************************************************)
(* Instances of Posts for TLC: one post, a listing or a housing request.   *)
(***************************************************************************)
EXTENDS PostsProperties, TLC

Days(start, end) == "start" :> start @@ "end" :> end

Place(start, end) ==
  Days(start, end) @@ "lease" :> 2 @@ "beds" :> 2 @@ "room" :> 1 @@ "studio" :> FALSE
    @@ "shorter" :> TRUE @@ "stay" :> 1 @@ "plain" :> TRUE

Search(start, end) == Days(start, end) @@ "lease" :> 1 @@ "radius" :> 1 @@ "plain" :> TRUE

\* One body that passes and one that does not, of either kind.
MCSheet == {Place(1, 3), Place(2, 2), Search(1, 3), Search(2, 2)}

\* Edits that clash in pairs, and nulls for columns that can hold one.
MCPatch ==
  { "start" :> 2, "end" :> 2, "lease" :> 1, "stay" :> 2, "shorter" :> FALSE,
    "studio" :> TRUE @@ "room" :> Null,
    "radius" :> Null, "plain" :> FALSE }

MCSymmetry == Permutations(Handler) \cup Permutations(Reason)
===============================================================================

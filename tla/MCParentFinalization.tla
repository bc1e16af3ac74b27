------------------------ MODULE MCParentFinalization ------------------------
(* Instances of ParentFinalization: an anchor with two chunks, submitted in  *)
(* one transaction, and two finalizer runs on two hosts or on one.           *)
EXTENDS ParentFinalization, TLC

CONSTANTS anchor, c1, c2, w1, w2, r1, r2

MCParentOf == (anchor :> None) @@ (c1 :> anchor) @@ (c2 :> anchor)
MCChunks == <<c1, c2>>
MCFrameRange == (c1 :> <<0, 2>>) @@ (c2 :> <<2, 3>>)
MCFamilies ==
  [uncertified : {{}}, audio : {"none", "source", "broken"}]
    \cup [uncertified : {{c2}}, audio : {"none"}]
MCSubmissions == {{anchor, c1, c2}}
TwoHosts == (r1 :> w1) @@ (r2 :> w2)
OneHost == (r1 :> w1) @@ (r2 :> w1)
MCPlacements == {OneHost, TwoHosts}
OnOneHost == {OneHost}
=============================================================================

------------------------------ MODULE MCPictures ----------------------------
(* Pictures of a mouse with one view, on a host with two revisions: the    *)
(* second has other renders and metadata, and no white render.  The cache  *)
(* is empty, or two commands that wrote the index at once were killed.     *)
EXTENDS Pictures, TLC

MCViews == <<"front">>
MCListed ==
    << (Metadata :> 1) @@ (Render("front", "black") :> 1) @@ (Render("front", "white") :> 1),
       (Metadata :> 2) @@ (Render("front", "black") :> 2) @@ (Render("front", "white") :> None) >>

MCInit ==
    \/ PicturesInit /\ host = [index |-> 1, files |-> 1]
    \/ /\ host = [index |-> 1, files |-> 1]
       /\ path = [n \in File \cup {Index} |-> IF n = Index THEN Broken ELSE None]
       /\ tmp = [n \in File \cup {Index} |-> None]
       /\ run = [p \in Caller |-> Idle]
       /\ mouseColor = "black" /\ picture = NoPicture
       /\ clashed = TRUE /\ faults = 0 /\ commands = 0

MCSpec == MCInit /\ [][PicturesNext]_pictureVars /\ PicturesFairness
=============================================================================

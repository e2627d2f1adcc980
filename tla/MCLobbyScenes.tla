--------------------------- MODULE MCLobbyScenes ---------------------------
(***************************************************************************)
(* The lobby in two scenes, so that their states add up and do not         *)
(* multiply: three challenges that compete and no breaks, and a challenge  *)
(* from and one to a player who takes breaks.  What a scene names may      *)
(* happen in it, nothing of it must.                                       *)
(***************************************************************************)
EXTENDS MCLobby

VARIABLE scene   \* bound: the challenges sent, and who takes breaks

Scenes == {[sent |-> {annToBob, catToBob, annToCat}, leave |-> {}],
           [sent |-> {annToBob, catToAnn}, leave |-> {ann}]}

SceneNext ==
    /\ Next
    /\ \A r \in Requests : request'[r] # Idle => request'[r].ch \in scene.sent
    /\ barred' \subseteq scene.leave
    /\ UNCHANGED scene

SceneSpec == Init /\ scene \in Scenes /\ [][SceneNext]_<<vars, scene>>
=============================================================================

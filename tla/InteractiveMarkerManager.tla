---------------------- MODULE InteractiveMarkerManager ----------------------
(***************************************************************************)
(* The interactive markers of flatland_server                              *)
(* (interactive_marker_manager.cpp): one marker per model in the world, a  *)
(* flag that pauses the simulation while a user drags a marker, and the    *)
(* wall-clock stamp of the last pose update, from which update() guesses   *)
(* that a drag ended without a MOUSE_UP.                                   *)
(*                                                                         *)
(* The module has the state and the operations only; the simulation loop   *)
(* and the rviz client that call them are in FlatlandWorld and MarkerDrag. *)
(*                                                                         *)
(* Wall time is abstracted to what update() tells apart: the age of the    *)
(* stamp is at most 0.1 s ("fresh"), strictly between 0.1 s and 1.0 s      *)
(* ("window"), or at least 1.0 s ("stale").  The stamp is only read by     *)
(* update(), so its age is advanced there, to any later class.             *)
(***************************************************************************)
CONSTANT Names        \* the names a model, hence a marker, can have

VARIABLES
  markers,            \* names inserted in the interactive marker server
  manipulating_model_,\* a user is dragging a marker: World::IsPaused()
  stampAge            \* age class of pose_update_stamp_ when last looked at

markerVars == <<markers, manipulating_model_, stampAge>>

Ages == {"fresh", "window", "stale"}

\* The classes the stamp may have moved to by the time it is read again.  A
\* prompt loop reads it at least once while it is in the 0.9 s window.
LaterAges(age, prompt) ==
  CASE age = "fresh"  -> IF prompt THEN {"fresh", "window"} ELSE Ages
    [] age = "window" -> {"window", "stale"}
    [] age = "stale"  -> {"stale"}

MarkerTypeOK ==
  /\ markers \subseteq Names
  /\ manipulating_model_ \in BOOLEAN
  /\ stampAge \in Ages

\* pose_update_stamp_ is default constructed: time zero, decades ago.
MarkerInit ==
  /\ markers = {}
  /\ manipulating_model_ = FALSE
  /\ stampAge = "stale"

CreateInteractiveMarker(name) ==
  /\ markers' = markers \cup {name}
  /\ UNCHANGED <<manipulating_model_, stampAge>>

DeleteInteractiveMarker(name) ==
  /\ markers' = markers \ {name}
  /\ UNCHANGED <<manipulating_model_, stampAge>>

ProcessMouseDownFeedback ==
  /\ manipulating_model_' = TRUE
  /\ UNCHANGED <<markers, stampAge>>

ProcessPoseUpdateFeedback ==
  /\ stampAge' = "fresh"
  /\ UNCHANGED <<markers, manipulating_model_>>

\* The move of the model itself is World::MoveModel's.
ProcessMouseUpFeedback ==
  /\ manipulating_model_' = FALSE
  /\ UNCHANGED <<markers, stampAge>>

\* Mutant: dt is compared with the bounds swapped, so nothing ends the drag.
UpdateNeverEnds(prompt) ==
  /\ stampAge' \in LaterAges(stampAge, prompt)
  /\ UNCHANGED <<markers, manipulating_model_>>

\* update(): 0.1 < dt < 1.0 while manipulating ends the drag.
Update(prompt) ==
  /\ stampAge' \in LaterAges(stampAge, prompt)
  /\ manipulating_model_' = (manipulating_model_ /\ stampAge' # "window")
  /\ UNCHANGED markers
=============================================================================

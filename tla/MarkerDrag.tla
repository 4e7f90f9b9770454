----------------------------- MODULE MarkerDrag -----------------------------
(***************************************************************************)
(* The interactive marker manager driven by an rviz client and by the      *)
(* simulation loop.  Feedback and service requests wait in the node's      *)
(* callback queue until ros::spinOnce(), which runs the callbacks that are *)
(* queued when it is called; the marker server (external) drops the        *)
(* feedback of a marker that has been erased.  The client may vanish in    *)
(* the middle of a drag, and models may be deleted and spawned under it.   *)
(***************************************************************************)
EXTENDS InteractiveMarkerManager, Naturals, Sequences

CONSTANTS
  NoName,      \* the client holds no marker
  MaxQueue,    \* bound on the callbacks waiting in the callback queue
  PromptLoop   \* does the loop run update() at least every 0.9 s of wall time?

ASSUME DragAssumption ==
  /\ NoName \notin Names
  /\ MaxQueue \in Nat \ {0}
  /\ PromptLoop \in BOOLEAN

VARIABLES
  pc,          \* "update" or "spin": where SimulationManager::Main is
  held,        \* the marker whose mouse button the client holds down
  queue,       \* the callback queue, oldest first
  quota,       \* callbacks the running spinOnce() still has to call
  fed          \* history: a pose update was accepted since the last MOUSE_DOWN

vars == <<markerVars, pc, held, queue, quota, fed>>

Feedback == {"MOUSE_DOWN", "POSE_UPDATE", "MOUSE_UP"}
Callback == [event : Feedback \cup {"spawn_model", "delete_model"}, marker : Names]

Send(event, name) ==
  /\ Len(queue) < MaxQueue
  /\ queue' = Append(queue, [event |-> event, marker |-> name])

\* spinOnce() never has more callbacks left to call than are queued, and the
\* marker state keeps its type.
TypeOK ==
  /\ MarkerTypeOK
  /\ pc \in {"update", "spin"}
  /\ held \in Names \cup {NoName}
  /\ queue \in Seq(Callback)
  /\ Len(queue) <= MaxQueue
  /\ quota \in 0..Len(queue)
  /\ fed \in BOOLEAN

\* The world has loaded its models: any set of markers.
Init ==
  /\ markers \in SUBSET Names
  /\ manipulating_model_ = FALSE
  /\ stampAge = "stale"
  /\ pc = "update"
  /\ held = NoName
  /\ queue = <<>>
  /\ quota = 0
  /\ fed = FALSE

----------------------------------------------------------------------------
(* The clients.                                                            *)

Press(name) ==
  /\ held = NoName
  /\ name \in markers
  /\ held' = name
  /\ Send("MOUSE_DOWN", name)
  /\ UNCHANGED <<markerVars, pc, quota, fed>>

Drag ==
  /\ held # NoName
  /\ Send("POSE_UPDATE", held)
  /\ UNCHANGED <<markerVars, pc, held, quota, fed>>

Release ==
  /\ held # NoName
  /\ Send("MOUSE_UP", held)
  /\ held' = NoName
  /\ UNCHANGED <<markerVars, pc, quota, fed>>

\* rviz is closed, or its MOUSE_UP is lost on the wire.
ClientGone ==
  /\ held # NoName
  /\ held' = NoName
  /\ UNCHANGED <<markerVars, pc, queue, quota, fed>>

\* A service request, or the "Delete Model" entry of the context menu.
Request(service, name) ==
  /\ Send(service, name)
  /\ UNCHANGED <<markerVars, pc, held, quota, fed>>

----------------------------------------------------------------------------
(* The node.                                                               *)

CallFeedback(c) ==
  /\ c.event \in Feedback
  /\ CASE c.marker \notin markers ->
            UNCHANGED markerVars /\ UNCHANGED fed
       [] c.marker \in markers /\ c.event = "MOUSE_DOWN" ->
            ProcessMouseDownFeedback /\ fed' = FALSE
       [] c.marker \in markers /\ c.event = "POSE_UPDATE" ->
            ProcessPoseUpdateFeedback /\ fed' = TRUE
       [] c.marker \in markers /\ c.event = "MOUSE_UP" ->
            ProcessMouseUpFeedback /\ UNCHANGED fed

\* A failing request (name taken, name unknown) changes no marker either.
CallService(c) ==
  /\ \/ c.event = "spawn_model" /\ CreateInteractiveMarker(c.marker)
     \/ c.event = "delete_model" /\ DeleteInteractiveMarker(c.marker)
  /\ UNCHANGED fed

SpinCallback ==
  /\ pc = "spin"
  /\ quota > 0
  /\ quota' = quota - 1
  /\ queue' = Tail(queue)
  /\ CallFeedback(Head(queue)) \/ CallService(Head(queue))
  /\ UNCHANGED <<pc, held>>

SpinDone ==
  /\ pc = "spin"
  /\ quota = 0
  /\ pc' = "update"
  /\ UNCHANGED <<markerVars, held, queue, quota, fed>>

\* Mutant: spinOnce() calls one callback more than was queued.
LoopUpdateOverrun ==
  /\ pc = "update"
  /\ Update(PromptLoop)
  /\ pc' = "spin"
  /\ quota' = Len(queue) + 1
  /\ UNCHANGED <<held, queue, fed>>

\* World::Update calls update() in every iteration, paused or not.
LoopUpdate ==
  /\ pc = "update"
  /\ Update(PromptLoop)
  /\ pc' = "spin"
  /\ quota' = Len(queue)
  /\ UNCHANGED <<held, queue, fed>>

PoseAccepted ==
  SpinCallback /\ Head(queue).event = "POSE_UPDATE" /\ Head(queue).marker \in markers

Next ==
  \/ \E name \in Names : Press(name)
  \/ Drag
  \/ Release
  \/ ClientGone
  \/ \E name \in Names, service \in {"spawn_model", "delete_model"} :
       Request(service, name)
  \/ SpinCallback
  \/ SpinDone
  \/ LoopUpdate

\* The loop never blocks and runs forever; wall time passes, so the stamp does
\* not stay fresh over infinitely many updates.  Nothing is assumed of the
\* clients.
Fairness ==
  /\ WF_vars(SpinCallback)
  /\ WF_vars(SpinDone)
  /\ WF_vars(LoopUpdate)
  /\ SF_vars(LoopUpdate /\ stampAge' # "fresh")

Spec == Init /\ [][Next]_vars /\ Fairness

----------------------------------------------------------------------------
(* interactive_marker_manager.cpp: "When the stream of pose update         *)
(* feedback stops, automatically clear the manipulating_model_ flag to     *)
(* unpause the simulation."  The code does so for a drag of which at least *)
(* one pose update was accepted after its MOUSE_DOWN, however the client   *)
(* and the marker disappear, provided the loop looks at the stamp in time; *)
(* a drag without one keeps the simulation paused.                         *)
FedDragUnpauses ==
  []<><<PoseAccepted>>_vars \/ []<>(~manipulating_model_ \/ ~fed)
=============================================================================

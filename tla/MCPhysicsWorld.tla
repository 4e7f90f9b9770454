---------------------------- MODULE MCPhysicsWorld ---------------------------
(* PhysicsWorld for TLC: a layer with two thin walls, a robot and a box.    *)
EXTENDS PhysicsWorld, TLC

CONSTANTS layer, robot, crate, w1, w2, hull, box

MCBodyOf == (w1 :> layer) @@ (w2 :> layer) @@ (hull :> robot) @@ (box :> crate)
MCLo == (w1 :> 2) @@ (w2 :> 4) @@ (hull :> 0) @@ (box :> 0)
MCHi == (w1 :> 2) @@ (w2 :> 4) @@ (hull :> 1) @@ (box :> 1)
MCPlaces == 0..3
MCPoses == {3}
MCVelocities == {-3, 0, 1}
=============================================================================

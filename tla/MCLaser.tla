------------------------------- MODULE MCLaser -------------------------------
(* A small laser for TLC.  In the first scene every ray is open; in the     *)
(* others the surfaces come nearer, go away and stand behind one another.   *)
EXTENDS Laser

Wall(d) == [at |-> d, mirror |-> FALSE]
Mirror(d) == [at |-> d, mirror |-> TRUE]

MCScenes == {
  <<{}, {}, {}, {}, {}>>,
  <<{Wall(1)}, {Wall(3)}, {Wall(1), Wall(3)}, {Wall(1)}, {Wall(2)}>>,
  <<{Mirror(3), Wall(2)}, {Mirror(1)}, {}, {Wall(3)}, {Wall(1)}>>}
=============================================================================

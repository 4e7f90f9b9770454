---------------------------- MODULE ModelRegistry ----------------------------
(***************************************************************************)
(* What the model services of a flatland_server node promise a client: the *)
(* world is a set of models with distinct names, an operation takes effect *)
(* in one step, and the response of a service tells truly, at that very    *)
(* step, whether it took effect.  FlatlandWorld, in which loading a model  *)
(* takes many steps that can fail half-way, is shown to implement it.      *)
(***************************************************************************)
CONSTANTS Names, NoName

VARIABLES
  live,   \* the names of the models of the world
  reply   \* the response of the last spawn, delete or move service

vars == <<live, reply>>

NoReply == [op |-> "none", name |-> NoName, success |-> FALSE]
Reply(op, name, success) == [op |-> op, name |-> name, success |-> success]

Init == live = {} /\ reply = NoReply

\* A model appears; when a client asked for it, the response says so.
Spawn(name) ==
  /\ name \notin live
  /\ live' = live \cup {name}
  /\ reply' \in {reply, Reply("spawn", name, TRUE)}

\* A spawn fails, because the name is taken or the file is at fault: no model
\* appears.
SpawnRejected(name) == live' = live /\ reply' = Reply("spawn", name, FALSE)

Delete(name) ==
  /\ name \in live
  /\ live' = live \ {name}
  /\ reply' \in {reply, Reply("delete", name, TRUE)}

DeleteRejected(name) ==
  /\ name \notin live
  /\ live' = live
  /\ reply' = Reply("delete", name, FALSE)

Move(name) == live' = live /\ reply' = Reply("move", name, name \in live)

\* The client has its response.
Ack == live' = live /\ reply' = NoReply

\* The world is destroyed, by a shutdown or by a failure to load it.
Down == live' = {} /\ reply' \in {reply, NoReply}

Next ==
  \/ \E name \in Names : \/ Spawn(name) \/ SpawnRejected(name)
                         \/ Delete(name) \/ DeleteRejected(name)
                         \/ Move(name)
  \/ Ack
  \/ Down

Spec == Init /\ [][Next]_vars
=============================================================================

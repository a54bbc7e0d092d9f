------------------------------ MODULE MCActors ------------------------------
(* A small instance of Actors: one actor from before the codes, one with a *)
(* code, either of them deleted or none, and one id to come.               *)
EXTENDS Actors, TLC

CONSTANTS phone, email, u, v, old, known, new, k1, k2, k3

CodeGroups == k1 :> 1 @@ k2 :> 2 @@ k3 :> 3

SomeCorrections == {phone :> u, email :> v, phone :> Blank @@ email :> u}

SomeSources == {{}, {phone}}

Row(code, deleted) ==
  [attributes |-> NothingGiven.attributes, sources |-> NothingGiven.sources,
   code |-> code, deleted |-> deleted]

EarlierRows ==
  {old :> Row(NoCode, d) @@ known :> Row(k1, e) @@ new :> NoActor : d, e \in BOOLEAN}
=============================================================================

---------------------------- MODULE SimMessages ----------------------------
(***************************************************************************)
(* The connection between the virtual machine running under the simulator  *)
(* scheduler (SimScheduler) and the simulator of the blocks (MockSimulator):*)
(* one TCP stream in each direction, so messages arrive in the order sent. *)
(* A message is a record instead of an array of 64-bit words.              *)
(***************************************************************************)
EXTENDS Integers, Sequences, FiniteSets

CONSTANTS
  Ids,     \* the node ids 0 .. n - 1 that the simulator creates
  Faces    \* the faces of a block that are used, among face_t's 0 .. 5

ASSUME IdsAssumption == IsFiniteSet(Ids) /\ Ids # {} /\ Ids = 0 .. Cardinality(Ids) - 1
ASSUME FacesAssumption == Faces # {} /\ Faces \subseteq 0 .. 5

VARIABLES
  toVM,    \* messages of the simulator that the VM has not read
  toSim    \* messages of the VM that the simulator has not read

\* No face: the word -1 in the place of a face.
INVALID_FACE == -1

\* No node: the value of a face without a neighbour.
NO_NEIGHBOR == -1
=============================================================================

-------------------------- MODULE RelayIdentities ---------------------------
(***************************************************************************)
(* The relay implements Identities.  A session is live while its room is   *)
(* registered and not closing: endSession and the sweep end it with the    *)
(* first of their sections, create opens or replaces it with its last.     *)
(***************************************************************************)
EXTENDS Relay

\* What the handle that is registered under a session id shows.
LiveRoom(rms, h) ==
  IF h = None THEN None ELSE IF rms[h].closing THEN None ELSE View(rms[h])

live == [s \in Sessions |-> LiveRoom(rooms, registry[s])]

Abstract == INSTANCE Identities

ASSUME NoneIsNoRoom == None \notin Abstract!LiveRooms

\* Every step of every handler and of the sweep is, on the live rooms, one of
\* the operations of Identities or none: an identity has one owner until a
\* guest that is absent lapses or one that is present leaves, a transfer moves
\* the role alone, nobody is let into a full room or under another's token,
\* and a room is closed or replaced whole.
ImplementsIdentities == Abstract!Spec
=============================================================================

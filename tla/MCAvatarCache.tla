--------------------------- MODULE MCAvatarCache ---------------------------
(***************************************************************************)
(* Two photos, two viewers, room for one entry; windows and lifetimes of   *)
(* one tick, or two, where one has to outlive another.                     *)
(***************************************************************************)
EXTENDS AvatarCache

CONSTANTS p1, p2, v1, v2, t1, t2

TwoPlayers == {p1, p2}
TwoViewers == {v1, v2}
TwoTasks == {t1, t2}
=============================================================================

---------------------------- MODULE SlotOperations ----------------------------
(***************************************************************************)
(* Which operation a slot machine shows, and what it announces             *)
(* (games/slot_operations.py): four operations take turns week by week,    *)
(* and an event may be put in between.  Clients get the operation of the   *)
(* moment, the next one, and when it changes (room_service.py,             *)
(* _slot_operation_metadata).  Times are seconds since ROTATION_START, by  *)
(* the clock of Moscow.                                                    *)
(***************************************************************************)
EXTENDS Integers

RotationWeek == 7 * 24 * 60 * 60

Operation == {"op1", "op2", "op3", "op4"}
Event == {"arena"}

\* OperationOverride.
Override == {o \in [operation : Event, starts : Int, ends : Int] : o.starts < o.ends}

Schedule(operation, next, changesAt) ==
    [operation |-> operation, next |-> next, changesAt |-> changesAt]

Turn(week) ==
    CASE week % 4 = 0 -> "op1" [] week % 4 = 1 -> "op2"
      [] week % 4 = 2 -> "op3" [] OTHER -> "op4"

\* Before the rotation starts it is the first week, too.
Weeks(now) == IF now < 0 THEN 0 ELSE now \div RotationWeek

\* _regular.
Regular(now) == Schedule(Turn(Weeks(now)), Turn(Weeks(now) + 1), (Weeks(now) + 1) * RotationWeek)

Running(now, o) == o.starts <= now /\ now < o.ends

\* The event begins before, or when, the week ends.
Coming(now, o) == now < o.starts /\ o.starts <= Regular(now).changesAt

\* select_operation with an event.
Selected(now, o) ==
    IF Running(now, o) THEN Schedule(o.operation, Regular(o.ends).operation, o.ends)
    ELSE IF Coming(now, o) THEN Schedule(Regular(now).operation, o.operation, o.starts)
    ELSE Regular(now)
=============================================================================

----------------------------- MODULE OutputPort -----------------------------
(***************************************************************************)
(* What a program may rely on of one output module of a bus, be it on I2C  *)
(* or on Modbus: the abstract view of the drivers in system/i2c_dev.hpp and*)
(* system/modbus_dev.hpp, which BusTaskIO implements for each of its       *)
(* modules and on which BlindSystem builds.                                *)
(*                                                                         *)
(* All pins of the module change in one transfer.  The driver only sends   *)
(* what differs from what it believes the module drives; "trusted" says    *)
(* whether that belief is known to be true.                                *)
(***************************************************************************)

CONSTANT Pin

VARIABLES
    running,    \* a program with this driver exists
    believed,   \* last_outputs
    driven,     \* the pins the module drives; they outlive the program
    trusted     \* history: nothing has happened that may have made them differ

vars == <<running, believed, driven, trusted>>

Init ==
    /\ running = FALSE
    /\ believed = {}
    /\ driven \in SUBSET Pin
    /\ trusted = TRUE

\* The driver is constructed: it believes that everything is off.
Start ==
    /\ ~running /\ running' = TRUE
    /\ believed' = {}
    /\ trusted' = (driven = {})
    /\ UNCHANGED driven

\* The transfer succeeds.
Done(pins) ==
    /\ driven' = pins /\ believed' = pins
    /\ trusted' = TRUE
    /\ UNCHANGED running

\* The transfer fails without the driver taking notice of it (I2C).
Ignored(pins) ==
    /\ believed' = pins
    /\ trusted' = FALSE
    /\ UNCHANGED <<running, driven>>

\* The request is lost, and will be repeated (Modbus).
RequestLost == UNCHANGED <<running, driven, believed, trusted>>

\* The answer is lost: the module has carried it out, the driver believes that it
\* has not (Modbus).
AnswerLost(pins) ==
    /\ driven' = pins
    /\ trusted' = FALSE
    /\ UNCHANGED <<running, believed>>

Transfer(bus, pins) ==
    \/ Done(pins)
    \/ bus = "i2c" /\ Ignored(pins)
    \/ bus = "modbus" /\ (RequestLost \/ AnswerLost(pins))

\* The program ends or dies.
Stop == running /\ running' = FALSE /\ UNCHANGED <<believed, driven, trusted>>

Next ==
    \/ Start
    \/ \E bus \in {"i2c", "modbus"}, pins \in SUBSET Pin :
          running /\ pins # believed /\ Transfer(bus, pins)
    \/ Stop

Spec == Init /\ [][Next]_vars
=============================================================================

---------------------------- MODULE MCBusTaskIO ----------------------------
(* TLC instances of BusTaskIO: one input variable, two output variables. *)
EXTENDS BusTaskIO, TLC

Source(module, pin) == "button" :> [module |-> module, pin |-> pin]

\* One variable on two modules, a pin that no variable drives, and one that does
\* not exist.
I2C ==
    [bus |-> "i2c", source |-> Source(1, 0),
     drives |-> <<(0 :> "lamp" @@ 9 :> "fan"), (0 :> "fan" @@ 1 :> "lamp")>>]

Modbus ==
    [bus |-> "modbus", source |-> Source(1, 0),
     drives |-> <<(0 :> "lamp" @@ 1 :> "fan"), (1 :> "fan")>>]

\* The second module's pin does not exist.
ModbusPinTooLarge == [Modbus EXCEPT !.drives[2] = (9 :> "fan")]

MCConfig == {I2C, Modbus, ModbusPinTooLarge}
MCConfigI2C == {I2C}
MCInVar == {"button"}
MCOutVar == {"lamp", "fan"}
=============================================================================

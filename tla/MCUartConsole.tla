---------------------------- MODULE MCUartConsole ----------------------------
(* A small instance of UartConsole: a task that reports on the console,     *)
(* beside the console task.                                                 *)
EXTENDS UartConsole

OnlyBoth == {Printers \cup {Reader}}
=============================================================================

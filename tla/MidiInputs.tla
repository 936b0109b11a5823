----------------------------- MODULE MidiInputs -----------------------------
(***************************************************************************)
(* The two inputs of the daemon beside Bluetooth, running together: the    *)
(* serial thread and the command loop of the IPC thread. They share        *)
(* __io_canceled, and the process: an access out of bounds in one thread   *)
(* may end both.                                                           *)
(***************************************************************************)
EXTENDS UartReceiver, IpcCommands, FiniteSetsExt

CONSTANT MaxInputs   \* bound: lines and commands sent to the daemon, together

VARIABLES
  canceled,   \* __io_canceled
  alive       \* the process has not crashed

vars == <<canceled, alive, uartVars, ipcVars>>

TypeOK ==
  /\ canceled \in BOOLEAN
  /\ alive \in BOOLEAN
  /\ UartTypeOK
  /\ IpcTypeOK

Init ==
  /\ canceled = FALSE
  /\ alive = TRUE
  /\ UartInit
  /\ IpcInit

Inputs == sendings + MapThenSumSet(LAMBDA p : Len(sent[p]), Callers)

UartStep ==
  /\ alive
  /\ \/ Inputs < MaxInputs /\ \E text \in Sendings : DeviceWrites(text)
     \/ ReadLine(canceled)
     \/ ReadNothing(canceled)
     \/ ReadFails
  /\ UNCHANGED <<canceled, alive, ipcVars>>

IpcStep ==
  /\ alive
  /\ \E p \in Callers :
       \/ /\ \E c \in Commands : SendCommand(p, c)
          /\ \/ sent' = sent
             \/ Inputs < MaxInputs
          /\ UNCHANGED alive
       \/ /\ RecvCommands(p)
          /\ \/ UNCHANGED alive
             \/ p \in strayed' /\ alive' = FALSE
  /\ UNCHANGED <<canceled, uartVars>>

sig_term ==
  /\ alive
  /\ ~ canceled
  /\ canceled' = TRUE
  /\ UNCHANGED <<alive, uartVars, ipcVars>>

Next == UartStep \/ IpcStep \/ sig_term

Spec == Init /\ [][Next]_vars
=============================================================================

---------------------------- MODULE MCIpcExchange ----------------------------
(* Programs of calls for IpcExchange: what main() and the time slices 0 to 6 *)
(* of TIM1_UP_IRQHandler (sch_Scheduler-app.c) call, in that order.          *)
EXTENDS IpcExchange

CONSTANTS c1, c2

MCIpcIds == {"CONFIG", "APPCLKCTRL", "IO", "none"}

S == <<[op |-> "sync", id |-> "none"]>>
Send(id) == <<[op |-> "send", id |-> id]>>
Get(id) == <<[op |-> "get", id |-> id]>>

\* ipcxSYS_ExChangeUINT32Data in main_Config, then one cycle of the slices
\* of timeSlicesStartup.
Begin == Send("CONFIG") \o Get("CONFIG")
StartupSlices ==
  S \o S \o S \o Send("APPCLKCTRL") \o S \o Get("APPCLKCTRL")
  \o S \o Send("IO") \o S \o Get("IO") \o S
\* the same slices of timeSlicesRunMode
RunSlices ==
  S \o Send("IO") \o S \o Get("IO") \o S \o Send("APPCLKCTRL")
  \o S \o Get("APPCLKCTRL") \o S \o Send("IO") \o S \o Get("IO")

SameProg == [c \in Ctrl |-> Begin \o StartupSlices]
DivergedProg ==
  [c \in Ctrl |-> Begin \o (IF c = C1 THEN StartupSlices ELSE RunSlices)]

\* The same slices on both controllers, and those of different module states.
MCProgs == {SameProg, DivergedProg}

=============================================================================

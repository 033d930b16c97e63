------------------------------- MODULE MCScreens -------------------------------
(* One instance of the flows of the list screens, which share no state: a      *)
(* dashboard parses snapshots into lists, or a list opens the updates of its   *)
(* orders.  A behaviour is one of one flow; the other stays as it is.          *)
EXTENDS DashboardLists, UpdateThread

VARIABLE flow

screensVars == <<vars, threadVars, flow>>

ScreensInit == flow \in {"lists", "thread"} /\ Init /\ ThreadInit

ScreensNext ==
    /\ \/ flow = "lists" /\ Next /\ UNCHANGED threadVars
       \/ flow = "thread" /\ ThreadNext /\ UNCHANGED vars
    /\ UNCHANGED flow

ScreensSpec ==
    /\ ScreensInit /\ [][ScreensNext]_screensVars
    /\ ListFairness /\ ThreadFairness
===============================================================================

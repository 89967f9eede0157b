---------------------------- MODULE MCScheduler ----------------------------
(***************************************************************************)
(* Instances of Scheduler for TLC: two crons, every minute and every       *)
(* second minute, and one whose time zone the worker does not know.        *)
(***************************************************************************)
EXTENDS Scheduler

Every == [t \in Times |-> t + 1]
Second == [t \in Times |-> IF t % 2 = 0 THEN t + 2 ELSE t + 1]

MCNextOf == [c \in {"minute", "second", "unknown"} |->
               IF c = "second" THEN Second ELSE Every]

Input(c, o, m) == [cron |-> c, overlap |-> o, misfire |-> m]

SlotInputs == {Input("minute", "allow", "catch_up"), Input("minute", "skip", "ignore")}

WorkerInputs == {Input("second", "replace", "fire_once"),
                 Input("unknown", "skip", "fire_once")}
=============================================================================

---------------------------- MODULE MCScheduler ----------------------------
(***************************************************************************)
(* Two instances, one scheduled pipeline, two CronJob objects (one on each *)
(* instance, or both on one), two rounds and two ticks: of both jobs in    *)
(* one round, or of one job in both, under way at the same time.           *)
(***************************************************************************)
EXTENDS Scheduler

MCMaxRound == 2
MCMaxTicks == 2
=============================================================================

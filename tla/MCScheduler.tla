----------------------------- MODULE MCScheduler -----------------------------
(* Small instances of Scheduler for TLC. *)
EXTENDS Scheduler, TLC

CONSTANTS cron, date, q1, q2

CronAndDate == {cron, date}
OnlyDate    == {date}
TwoRequests == {q1, q2}
ReqSymmetry == Permutations(Requests)
=============================================================================

----------------------------- MODULE MCCrawlRun -----------------------------
(***************************************************************************)
(* Bounds of the run of CrawlRun: two processes (the scheduler and one     *)
(* command), two category scopes, three rows, at most two units per run.   *)
(***************************************************************************)
EXTENDS CrawlRun

CONSTANTS scheduler, command, all, phones, r1, r2, r3

MCProcess == {scheduler, command}
MCScope == {all, phones}
MCRow == {r1, r2, r3}
=============================================================================

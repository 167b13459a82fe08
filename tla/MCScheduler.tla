---------------------------- MODULE MCScheduler ----------------------------
(* Schedule requests for TLC: the same event delivered twice (once plain,  *)
(* once inside a batch), a rerun of it, a batch of two events, a debounced *)
(* request and a request for a paused function.                           *)
EXTENDS Scheduler

Base == [idem |-> None, evt |-> "e1", nevents |-> 1, batch |-> None,
         rerun |-> FALSE, debounce |-> FALSE, paused |-> FALSE]

MCRequests ==
    { Base,
      [Base EXCEPT !.batch = "b1"],
      [Base EXCEPT !.rerun = TRUE],
      [Base EXCEPT !.evt = "e2", !.nevents = 2, !.batch = "b2"],
      [Base EXCEPT !.idem = "k1", !.debounce = TRUE],
      [Base EXCEPT !.idem = "k1", !.paused = TRUE] }

MCMaxMints == MaxFaults + 1
=============================================================================

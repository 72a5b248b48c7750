--------------------------- MODULE MCBarrierSync ---------------------------
(***************************************************************************)
(* BarrierSync with two cores, for TLC.                                    *)
(***************************************************************************)
EXTENDS BarrierSync

CONSTANTS c1, c2

Cores == {c1, c2}

Config(t, sleeps, calls, roi) ==
  [initial |-> Cores, maxTime |-> t, steps |-> {1, 2}, sleeps |-> sleeps,
   calls |-> calls, roi |-> roi]

\* Two threads that stall and change the mode.
StaleConfigs == {Config(6, {}, {"stall", "roi"}, "fastforward")}

\* Two threads that only sleep and exit.
LastConfigs == {Config(4, {2}, {}, "none")}
=============================================================================

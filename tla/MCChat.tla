------------------------------- MODULE MCChat -------------------------------
EXTENDS ChatDelivery

None == [person |-> 0, interrupt |-> 0, extra |-> 0, apiError |-> 0, crash |-> 0,
         pause |-> 0, deploy |-> 0, prepare |-> 0, page |-> 0, autoResume |-> TRUE, quiet |-> FALSE,
         tab |-> FALSE, words |-> 0, twins |-> FALSE, wire |-> 0, reload |-> 0, disk |-> 0, slow |-> 0,
         lag |-> FALSE, ink |-> 0, error |-> 0]

(* The life of the turns, with no tab: one fault or two in each behaviour.  *)
Turns == {
  [None EXCEPT !.person = 1, !.deploy = 2],
  [None EXCEPT !.person = 1, !.deploy = 1, !.crash = 1],
  [None EXCEPT !.person = 1, !.extra = 2, !.crash = 1],
  [None EXCEPT !.person = 2, !.page = 1, !.interrupt = 1],
  [None EXCEPT !.person = 1, !.apiError = 2, !.page = 1, !.interrupt = 1],
  [None EXCEPT !.person = 1, !.crash = 1, !.pause = 1, !.deploy = 1],
  [None EXCEPT !.person = 1, !.crash = 4],
  [None EXCEPT !.person = 1, !.extra = 1, !.deploy = 1],
  [None EXCEPT !.person = 1, !.crash = 1, !.prepare = 1],
  [None EXCEPT !.person = 1, !.crash = 1, !.autoResume = FALSE],
  [None EXCEPT !.person = 2, !.deploy = 1],
  [None EXCEPT !.person = 1, !.extra = 1, !.error = 1],
  [None EXCEPT !.person = 1, !.deploy = 1, !.prepare = 1]
}

(* The marker file lags behind, and an operation on it may fail.           *)
Lagging == [None EXCEPT !.person = 1, !.lag = TRUE]

Lags == {
  [Lagging EXCEPT !.ink = 1, !.crash = 1],
  [Lagging EXCEPT !.deploy = 1, !.crash = 1]
}

(* The delivery of words from a tab, with a CLI that takes nothing in.     *)
OneTab == [None EXCEPT !.tab = TRUE, !.quiet = TRUE, !.autoResume = FALSE, !.words = 2]

Deliveries == {
  [OneTab EXCEPT !.wire = 1, !.twins = TRUE],
  [OneTab EXCEPT !.reload = 1, !.twins = TRUE],
  [OneTab EXCEPT !.slow = 1, !.words = 1],
  [OneTab EXCEPT !.disk = 1, !.crash = 1, !.words = 1],
  [OneTab EXCEPT !.crash = 1],
  [OneTab EXCEPT !.deploy = 1, !.reload = 1, !.words = 1]
}

MCBudgets == Turns \cup Lags \cup Deliveries
=============================================================================

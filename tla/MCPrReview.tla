----------------------------- MODULE MCPrReview -----------------------------
EXTENDS PrReview

None == [ask |-> 1, fail |-> 0, finding |-> 0, sha |-> 0, answer |-> 0, silent |-> 0, together |-> 0,
         busy |-> 0, click |-> 0, deliver |-> 0, decide |-> 0, retry |-> 0, cancel |-> 0, remove |-> 0, push |-> 0, outside |-> 0,
         restart |-> 0, panel |-> FALSE, mute |-> {}, severities |-> {}, verdicts |-> {"none"}]

Blocked == [None EXCEPT !.finding = 1, !.severities = {"blocking"}, !.verdicts = {"none", "fixed"}]
Asking == [None EXCEPT !.finding = 1, !.severities = {"question"}, !.verdicts = Verdicts]
Hinting == [None EXCEPT !.finding = 1, !.severities = {"suggestion"}, !.verdicts = {"none", "open"}]

\* One hazard or two in each behaviour.
S == <<
  [Blocked EXCEPT !.push = 1, !.verdicts = {"fixed"}],
  [None EXCEPT !.push = 1, !.panel = TRUE],
  [Blocked EXCEPT !.mute = {"author"}, !.silent = 1, !.together = 1, !.retry = 1],
  [None EXCEPT !.mute = {"reviewer"}],
  [Blocked EXCEPT !.fail = 1, !.retry = 1, !.verdicts = {"fixed"}],
  [Asking EXCEPT !.decide = 1, !.answer = 1],
  [Asking EXCEPT !.fail = 1, !.retry = 2, !.answer = 1],
  [Hinting EXCEPT !.decide = 2, !.answer = 1],
  [Blocked EXCEPT !.decide = 1, !.verdicts = {"open", "dropped"}],
  [None EXCEPT !.push = 1, !.together = 1, !.click = 1],
  [None EXCEPT !.push = 1, !.sha = 1, !.click = 1],
  [Asking EXCEPT !.push = 1, !.click = 1, !.panel = TRUE, !.verdicts = {"none"}],
  [None EXCEPT !.ask = 2, !.cancel = 1, !.fail = 1],
  [None EXCEPT !.ask = 2, !.cancel = 1, !.together = 1],
  [None EXCEPT !.outside = 1, !.panel = TRUE, !.click = 1],
  [None EXCEPT !.deliver = 1],
  [None EXCEPT !.deliver = 1, !.fail = 1, !.mute = {"reviewer"}, !.panel = TRUE],
  [None EXCEPT !.restart = 1, !.click = 1, !.panel = TRUE],
  [None EXCEPT !.fail = 1, !.panel = TRUE],
  [None EXCEPT !.remove = 1, !.busy = 1, !.silent = 1]
>>
MCBudgets == {S[i] : i \in DOMAIN S}
=============================================================================

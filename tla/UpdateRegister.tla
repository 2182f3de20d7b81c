--------------------------- MODULE UpdateRegister ---------------------------
(***************************************************************************)
(* What mutate() of the document store promises its callers, with no file, *)
(* no cache and no stamp in sight.  Updates wait in a line; the first of   *)
(* it may decide on its change, which is in the document from one step on  *)
(* or never.  Every caller is answered, in the order of the calls: yes     *)
(* only when what was changed is in the document, no only when it is not   *)
(* and never will be.  Nothing that is in the document ever leaves it.     *)
(* A process that dies leaves its callers without an answer.               *)
(***************************************************************************)
EXTENDS Sequences

CONSTANT Updates

VARIABLES
  value,    \* the updates that are in effect
  line,     \* the updates called and not answered, in the order of the calls
  changed,  \* the first of the line has made its change, which nobody may count on
  told      \* what each caller was told

registerVars == <<value, line, changed, told>>

Init ==
  /\ value = {} /\ line = <<>> /\ changed = FALSE
  /\ told = [u \in Updates |-> "none"]

Call(u) ==
  /\ told[u] = "none"
  /\ line' = Append(line, u)
  /\ told' = [told EXCEPT ![u] = "called"]
  /\ UNCHANGED <<value, changed>>

\* The first of the line decides on its change.  It need not make one.
Change ==
  /\ line # <<>> /\ ~changed /\ Head(line) \notin value
  /\ changed' = TRUE
  /\ UNCHANGED <<value, line, told>>

\* The change takes effect, once.
Commit ==
  /\ line # <<>> /\ changed /\ Head(line) \notin value
  /\ value' = value \union {Head(line)}
  /\ UNCHANGED <<line, changed, told>>

\* The first of the line is answered, and told the truth about its change.
Answer(result) ==
  /\ line # <<>>
  /\ result = "resolved" /\ changed => Head(line) \in value
  /\ result = "rejected" => Head(line) \notin value
  /\ line' = Tail(line) /\ changed' = FALSE
  /\ told' = [told EXCEPT ![Head(line)] = result]
  /\ UNCHANGED value

\* The process dies: whoever waits is never answered.
Forget ==
  /\ line' = <<>> /\ changed' = FALSE
  /\ told' = [u \in Updates |->
       IF \E i \in DOMAIN line : line[i] = u THEN "unknown" ELSE told[u]]
  /\ UNCHANGED value

Next ==
  \/ \E u \in Updates : Call(u)
  \/ Change \/ Commit \/ Answer("resolved") \/ Answer("rejected") \/ Forget

Spec == Init /\ [][Next]_registerVars
=============================================================================

--------------------------- MODULE ChatDriverProofs ---------------------------
(***************************************************************************)
(* What the handlers of a driver session (ChatDriver) preserve: sessions   *)
(* and markers of the right shape, the promise on disk of whatever the     *)
(* session still has to do, and which marker a handler may leave behind.   *)
(***************************************************************************)
EXTENDS ChatDriver, TLAPS

Events ==
  {"work", "schedules", "delta", "tasks", "no_tasks", "absorbed", "error"} \cup Closings

MarkerType ==
  [at: Nat, owner: Nat, attempts: Nat, progressed: BOOLEAN, work: SUBSET Work, idle: BOOLEAN]

\* A marker that is there has a time; the resumes it counts are within the limit.
GoodMarker(m) ==
  /\ m \in MarkerType /\ m.attempts <= MaxAutoResumes
  /\ m.at = 0 => m = NoMarker

SessionType ==
  [child: {"none", "up", "deaf", "exited"}, activeTurns: Nat, autonomousTurn: BOOLEAN,
   work: SUBSET Work, settling: BOOLEAN, watch: {"none", "fresh", "reengaged"},
   armed: BOOLEAN, stirred: BOOLEAN, failures: Nat, retryTimer: BOOLEAN, idleTimer: BOOLEAN,
   boardStatus: {"none", "working", "waiting"}, marker: MarkerType,
   io: {"keep", "put", "clear"}, said: {"nothing", "stalled", "exhausted"}]

\* What goes on in the session has its marker, or is only a count with none.
Followed(s) == turnRunning(s) \/ s.work # {} => s.marker # NoMarker
Lost(s) ==
  /\ ~s.autonomousTurn /\ s.watch = "none" /\ ~s.retryTimer /\ s.work = {}
  /\ s.marker = NoMarker

WellFormed(s) ==
  /\ s \in SessionType /\ s.failures <= MaxApiRetries /\ GoodMarker(s.marker)
  /\ s.armed => s.watch # "none"

\* Between two handlers nothing is left to be carried out.
AtRest(s) == s.io = "keep" /\ s.said = "nothing"

GoodSession(s) == WellFormed(s) /\ (Followed(s) \/ Lost(s))

SameTurn(m, n) == m.at = n.at /\ m.attempts = n.attempts /\ m.progressed = n.progressed

\* The marker s leaves is that of d, erased or completed; whether the turn has
\* progressed is as it was, or one of also.
Kept(d, s, also) ==
  \/ s.io = "keep" /\ s.marker = d.marker
  \/ s.io = "clear" /\ s.marker = NoMarker
  \/ /\ s.io = "put" /\ d.marker # NoMarker
     /\ s.marker.at = d.marker.at /\ s.marker.attempts = d.marker.attempts
     /\ s.marker.progressed \in {d.marker.progressed} \cup also

\* The marker s leaves is that of a turn that begins now, with n resumes.
Begins(s, now, n) == s.io = "put" /\ s.marker.at = now /\ s.marker.attempts = n

\* Only the voice of the agent shows progress; what takes the count down, and how.
Also(event) == IF event \in {"work", "schedules"} THEN {TRUE} ELSE {}
TurnsAfter(event, n) ==
  CASE event = "absorbed" -> IF n - 1 > 1 THEN n - 1 ELSE 1
    [] event \in Closings -> IF n > 0 THEN n - 1 ELSE 0
    [] OTHER -> n

\* The sessions agree in what the properties below are about, the marker aside.
Alike(r, s) ==
  /\ r.child = s.child /\ r.activeTurns = s.activeTurns
  /\ r.autonomousTurn = s.autonomousTurn /\ r.work = s.work /\ r.watch = s.watch
  /\ r.armed = s.armed /\ r.failures = s.failures /\ r.retryTimer = s.retryTimer

-----------------------------------------------------------------------------
\* No marker is a marker; one with a time is not it.
LEMMA NoMarkerGood ==
  /\ NoMarker \in MarkerType /\ GoodMarker(NoMarker) /\ NoMarker.at = 0
  /\ \A m \in MarkerType : m.at # 0 => m # NoMarker
BY LimitsAssumption DEF NoMarker, MarkerType, GoodMarker, Work

\* No session and a fresh one are good.
LEMMA FreshGood ==
  /\ GoodSession(NoSession) /\ AtRest(NoSession)
  /\ GoodSession(FreshSession) /\ AtRest(FreshSession)
  /\ FreshSession.child = "up" /\ FreshSession.activeTurns = 0
  /\ ~FreshSession.autonomousTurn /\ FreshSession.marker = NoMarker
  /\ Followed(NoSession) /\ Followed(FreshSession)
  /\ NoSession.child = "none" /\ NoSession.activeTurns = 0 /\ ~NoSession.autonomousTurn
  /\ NoSession.marker = NoMarker /\ FreshSession.watch = "none" /\ NoSession.watch = "none"
<1>1. NoSession \in SessionType /\ FreshSession \in SessionType
  BY NoMarkerGood DEF NoSession, FreshSession, SessionType, Work
<1>2. /\ NoSession.marker = NoMarker /\ FreshSession.marker = NoMarker
      /\ NoSession.failures = 0 /\ FreshSession.failures = 0
      /\ ~NoSession.armed /\ ~FreshSession.armed
      /\ NoSession.work = {} /\ FreshSession.work = {}
      /\ ~turnRunning(NoSession) /\ ~turnRunning(FreshSession)
      /\ FreshSession.child = "up" /\ FreshSession.activeTurns = 0
      /\ ~FreshSession.autonomousTurn
      /\ NoSession.child = "none" /\ NoSession.activeTurns = 0 /\ ~NoSession.autonomousTurn
      /\ FreshSession.watch = "none" /\ NoSession.watch = "none"
  BY DEF NoSession, FreshSession, turnRunning, isTurnInFlight
<1>3. AtRest(NoSession) /\ AtRest(FreshSession)
  BY DEF NoSession, FreshSession, AtRest
<1> QED
  BY <1>1, <1>2, <1>3, NoMarkerGood, LimitsAssumption DEF GoodSession, WellFormed, Followed

\* Sessions that agree, the marker too, are followed alike.
LEMMA AlikeFollowed ==
  ASSUME NEW r, NEW s, Alike(r, s)
  PROVE  /\ turnRunning(r) = turnRunning(s) /\ isTurnInFlight(r) = isTurnInFlight(s)
         /\ r.marker = s.marker => Followed(r) = Followed(s) /\ Lost(r) = Lost(s)
<1>1. turnRunning(r) = turnRunning(s) /\ isTurnInFlight(r) = isTurnInFlight(s)
  BY DEF turnRunning, isTurnInFlight, Alike
<1> QED
  BY <1>1 DEF Followed, Lost, Alike

\* Carrying out what a handler left changes nothing else of the session.
LEMMA QuietGood ==
  ASSUME NEW s, GoodSession(s)
  PROVE  LET q == Quiet(s)
         IN  /\ GoodSession(q) /\ AtRest(q)
             /\ Alike(q, s) /\ q.marker = s.marker
             /\ Followed(q) = Followed(s) /\ isTurnInFlight(q) = isTurnInFlight(s)
<1> DEFINE q == Quiet(s)
<1>0. s \in SessionType
  BY DEF GoodSession, WellFormed
<1>1. /\ q \in SessionType /\ q.io = "keep" /\ q.said = "nothing"
      /\ Alike(q, s) /\ q.marker = s.marker
  BY <1>0 DEF Quiet, SessionType, Alike
<1> HIDE DEF q
<1>2. Followed(q) = Followed(s) /\ Lost(q) = Lost(s) /\ isTurnInFlight(q) = isTurnInFlight(s)
  BY <1>1, AlikeFollowed
<1> QED
  BY <1>1, <1>2 DEF GoodSession, WellFormed, AtRest, Alike, q

\* syncBoardStatus.
LEMMA BoardStatusGood ==
  ASSUME NEW s \in SessionType
  PROVE  LET r == syncBoardStatus(s)
         IN  /\ r \in SessionType /\ Alike(r, s) /\ r.marker = s.marker /\ r.io = s.io
BY DEF syncBoardStatus, SessionType, Alike

\* putMarker, of a marker that is there.
LEMMA PutMarkerGood ==
  ASSUME NEW s \in SessionType, NEW base \in MarkerType,
         base.at # 0, base.attempts <= MaxAutoResumes
  PROVE  LET r == putMarker(s, base)
         IN  /\ r \in SessionType /\ Alike(r, s) /\ r.io = "put"
             /\ GoodMarker(r.marker) /\ r.marker # NoMarker /\ SameTurn(r.marker, base)
<1> DEFINE m == [base EXCEPT !.work = s.work, !.idle = s.work # {} /\ ~turnRunning(s)]
           r == [s EXCEPT !.marker = m, !.io = "put"]
<1>1. /\ m \in MarkerType /\ SameTurn(m, base) /\ m.at # 0 /\ m.attempts <= MaxAutoResumes
      /\ m.attempts = base.attempts
  BY DEF MarkerType, SessionType, SameTurn
<1> HIDE DEF m
<1>2. r \in SessionType /\ Alike(r, s) /\ r.io = "put" /\ r.marker = m
  BY <1>1 DEF SessionType, Alike
<1>3. putMarker(s, base) = r
  BY DEF putMarker, m
<1> HIDE DEF r
<1> QED
  BY <1>1, <1>2, <1>3, NoMarkerGood DEF GoodMarker

\* The marker of a turn that enters now.
LEMMA NewMarkerGood ==
  ASSUME NEW now \in Nat \ {0}, NEW n \in Nat, n <= MaxAutoResumes
  PROVE  LET m == Marker(now, n)
         IN  /\ m \in MarkerType /\ m.at = now /\ m.attempts = n /\ m.at # 0
             /\ m.attempts <= MaxAutoResumes /\ ~m.progressed
BY DEF Marker, NoMarker, MarkerType, Work

\* syncInflightMarker: whatever goes on has its marker afterwards.
LEMMA SyncGood ==
  ASSUME NEW d, NEW also, NEW s, WellFormed(s), Kept(d, s, also), NEW now \in Nat \ {0}
  PROVE  LET r == syncInflightMarker(s, now)
         IN  /\ WellFormed(r) /\ Alike(r, s) /\ Followed(r) /\ GoodSession(r)
             /\ Kept(d, r, also) \/ (s.marker = NoMarker /\ Begins(r, now, 0))
<1> DEFINE u == syncBoardStatus(s)
           r == syncInflightMarker(s, now)
<1>0. s \in SessionType /\ GoodMarker(s.marker) /\ s.failures <= MaxApiRetries
  BY DEF WellFormed
<1>1. u \in SessionType /\ Alike(u, s) /\ u.marker = s.marker /\ u.io = s.io
  BY <1>0, BoardStatusGood
<1> DEFINE stale == u.marker.work # u.work \/ (u.work # {} /\ u.marker.idle = turnRunning(u))
<1>2. r = IF ~turnRunning(u) /\ u.work = {} THEN [u EXCEPT !.marker = NoMarker, !.io = "clear"]
          ELSE IF u.marker = NoMarker THEN putMarker(u, Marker(now, 0))
          ELSE IF stale THEN putMarker(u, u.marker) ELSE u
  BY DEF syncInflightMarker
<1> HIDE DEF u, r, stale
<1> SUFFICES /\ r \in SessionType /\ Alike(r, u) /\ GoodMarker(r.marker) /\ Followed(r)
             /\ Kept(d, r, also) \/ (s.marker = NoMarker /\ Begins(r, now, 0))
  <2>1. ASSUME r \in SessionType, Alike(r, u), GoodMarker(r.marker), Followed(r)
        PROVE  WellFormed(r) /\ Alike(r, s) /\ GoodSession(r)
    BY <2>1, <1>1, <1>0 DEF WellFormed, Alike, GoodSession
  <2> QED
    BY <2>1 DEF r
<1>3. CASE ~turnRunning(u) /\ u.work = {}
  <2>1. r = [u EXCEPT !.marker = NoMarker, !.io = "clear"]
    BY <1>2, <1>3
  <2>2. /\ r \in SessionType /\ Alike(r, u) /\ r.marker = NoMarker /\ r.io = "clear"
    BY <2>1, <1>1, NoMarkerGood DEF SessionType, Alike
  <2>3. ~turnRunning(r) /\ r.work = {}
    BY <2>2, <1>3 DEF turnRunning, isTurnInFlight, Alike
  <2> QED
    BY <2>2, <2>3, NoMarkerGood DEF Followed, Kept
<1>4. CASE ~(~turnRunning(u) /\ u.work = {}) /\ u.marker = NoMarker
  <2>1. r = putMarker(u, Marker(now, 0))
    BY <1>2, <1>4
  <2>2. /\ Marker(now, 0) \in MarkerType /\ Marker(now, 0).at = now
        /\ Marker(now, 0).attempts = 0 /\ 0 <= MaxAutoResumes /\ now # 0
    BY NewMarkerGood, LimitsAssumption
  <2>3. /\ r \in SessionType /\ Alike(r, u) /\ r.io = "put" /\ GoodMarker(r.marker)
        /\ r.marker # NoMarker /\ SameTurn(r.marker, Marker(now, 0))
    BY <2>1, <2>2, <1>1, PutMarkerGood
  <2> QED
    BY <2>2, <2>3, <1>1, <1>4 DEF Followed, Begins, SameTurn
<1>5. CASE ~(~turnRunning(u) /\ u.work = {}) /\ u.marker # NoMarker /\ stale
  <2>1. r = putMarker(u, u.marker)
    BY <1>2, <1>5
  <2>2. u.marker \in MarkerType /\ u.marker.at # 0 /\ u.marker.attempts <= MaxAutoResumes
    BY <1>0, <1>1, <1>5 DEF GoodMarker
  <2>3. /\ r \in SessionType /\ Alike(r, u) /\ r.io = "put" /\ GoodMarker(r.marker)
        /\ r.marker # NoMarker /\ SameTurn(r.marker, u.marker)
    BY <2>1, <2>2, <1>1, PutMarkerGood
  <2> QED
    BY <2>3, <1>1, <1>5 DEF Followed, Kept, SameTurn
<1>6. CASE ~(~turnRunning(u) /\ u.work = {}) /\ u.marker # NoMarker /\ ~stale
  <2>1. r = u
    BY <1>2, <1>6
  <2> QED
    BY <2>1, <1>0, <1>1, <1>6 DEF Followed, Kept, Alike
<1> QED
  BY <1>3, <1>4, <1>5, <1>6

\* maybeScheduleIdleStop arms a clock and no more.
LEMMA IdleStopGood ==
  ASSUME NEW s, NEW attached
  PROVE  LET r == maybeScheduleIdleStop(s, attached)
         IN  /\ s \in SessionType => r \in SessionType
             /\ s \in SessionType => Alike(r, s) /\ r.marker = s.marker /\ r.io = s.io
BY DEF maybeScheduleIdleStop, SessionType, Alike

\* One more turn is counted.
LEMMA CountTurnGood ==
  ASSUME NEW s \in SessionType
  PROVE  LET r == CountTurn(s)
         IN  /\ r \in SessionType /\ r.marker = s.marker /\ r.io = s.io
             /\ Alike(r, [s EXCEPT !.activeTurns = s.activeTurns + 1])
             /\ r.activeTurns = s.activeTurns + 1 /\ r.activeTurns >= 1
<1> DEFINE n == s.activeTurns + 1
           u == [s EXCEPT !.activeTurns = n, !.idleTimer = FALSE]
           v == [s EXCEPT !.activeTurns = n]
<1>1. n \in Nat /\ n >= 1
  BY DEF SessionType
<1> HIDE DEF n
<1>2. u \in SessionType /\ u.marker = s.marker /\ u.io = s.io /\ Alike(u, v) /\ v.activeTurns = n
  BY <1>1 DEF SessionType, Alike
<1>3. CountTurn(s) = syncBoardStatus(u)
  BY DEF CountTurn, n
<1> HIDE DEF u, v
<1>4. /\ syncBoardStatus(u) \in SessionType /\ Alike(syncBoardStatus(u), u)
      /\ syncBoardStatus(u).marker = u.marker /\ syncBoardStatus(u).io = u.io
  BY <1>2, BoardStatusGood
<1>5. Alike(CountTurn(s), v)
  BY <1>2, <1>3, <1>4 DEF Alike
<1> QED
  BY <1>1, <1>2, <1>3, <1>4, <1>5 DEF v, n, Alike

\* PersonTurn: the turn of a person begins with a marker that counts no resume.
LEMMA PersonTurnGood ==
  ASSUME NEW d, GoodSession(d), NEW now \in Nat \ {0}
  PROVE  LET r == PersonTurn(d, now)
         IN  /\ GoodSession(r) /\ Followed(r) /\ Begins(r, now, 0)
             /\ r.child = d.child /\ r.activeTurns = d.activeTurns + 1
             /\ isTurnInFlight(r) /\ r.watch = "none"
<1> DEFINE c == CountTurn(d)
           u == [c EXCEPT !.watch = "none", !.armed = FALSE, !.failures = 0,
                          !.retryTimer = FALSE, !.work = @ \ {"notice"}]
           r == PersonTurn(d, now)
<1>0. d \in SessionType
  BY DEF GoodSession, WellFormed
<1>1. /\ c \in SessionType /\ c.child = d.child /\ c.activeTurns = d.activeTurns + 1
      /\ c.activeTurns >= 1
  BY <1>0, CountTurnGood DEF Alike, SessionType
<1> HIDE DEF c
<1>2. /\ u \in SessionType /\ u.child = c.child /\ u.activeTurns = c.activeTurns
      /\ u.watch = "none" /\ ~u.armed /\ u.failures = 0
  BY <1>1 DEF SessionType
<1> HIDE DEF u
<1>3. /\ Marker(now, 0) \in MarkerType /\ Marker(now, 0).at = now
      /\ Marker(now, 0).attempts = 0 /\ 0 <= MaxAutoResumes /\ now # 0
  BY NewMarkerGood, LimitsAssumption
<1>4. r = putMarker(u, Marker(now, 0))
  BY DEF PersonTurn, u, c
<1>5. /\ r \in SessionType /\ Alike(r, u) /\ r.io = "put" /\ GoodMarker(r.marker)
      /\ r.marker # NoMarker /\ SameTurn(r.marker, Marker(now, 0))
  BY <1>2, <1>3, <1>4, PutMarkerGood
<1> HIDE DEF r
<1>6. Followed(r) /\ Begins(r, now, 0)
  BY <1>3, <1>5 DEF Followed, Begins, SameTurn
<1>7. isTurnInFlight(r)
  BY <1>1, <1>2, <1>5 DEF isTurnInFlight, Alike, SessionType
<1>8. WellFormed(r)
  BY <1>2, <1>5, LimitsAssumption DEF WellFormed, Alike
<1> QED
  BY <1>1, <1>2, <1>5, <1>6, <1>7, <1>8 DEF GoodSession, Alike, r

\* injectSystemTurn: a resume begins with a marker that counts it.
LEMMA InjectGood ==
  ASSUME NEW d, GoodSession(d), NEW now \in Nat \ {0}, NEW n \in Nat, n <= MaxAutoResumes
  PROVE  LET r == injectSystemTurn(d, now, n)
         IN  /\ GoodSession(r) /\ Followed(r) /\ Begins(r, now, n) /\ ~r.marker.progressed
             /\ r.child = d.child /\ r.activeTurns = d.activeTurns + 1
             /\ isTurnInFlight(r)
<1> DEFINE c == CountTurn(d)
           u == [c EXCEPT !.watch = "fresh", !.armed = FALSE]
           r == injectSystemTurn(d, now, n)
<1>0. d \in SessionType /\ d.failures <= MaxApiRetries
  BY DEF GoodSession, WellFormed
<1>1. /\ c \in SessionType /\ c.child = d.child /\ c.activeTurns = d.activeTurns + 1
      /\ c.activeTurns >= 1 /\ c.failures = d.failures
  BY <1>0, CountTurnGood DEF Alike, SessionType
<1> HIDE DEF c
<1>2. /\ u \in SessionType /\ u.child = c.child /\ u.activeTurns = c.activeTurns
      /\ ~u.armed /\ u.failures = c.failures
  BY <1>1 DEF SessionType
<1> HIDE DEF u
<1>3. /\ Marker(now, n) \in MarkerType /\ Marker(now, n).at = now /\ now # 0
      /\ Marker(now, n).attempts = n /\ ~Marker(now, n).progressed
  BY NewMarkerGood
<1>4. r = putMarker(u, Marker(now, n))
  BY DEF injectSystemTurn, u, c
<1>5. /\ r \in SessionType /\ Alike(r, u) /\ r.io = "put" /\ GoodMarker(r.marker)
      /\ r.marker # NoMarker /\ SameTurn(r.marker, Marker(now, n))
  BY <1>2, <1>3, <1>4, PutMarkerGood
<1> HIDE DEF r
<1>6. Followed(r) /\ Begins(r, now, n) /\ ~r.marker.progressed
  BY <1>3, <1>5 DEF Followed, Begins, SameTurn
<1>7. isTurnInFlight(r)
  BY <1>1, <1>2, <1>5 DEF isTurnInFlight, Alike, SessionType
<1>8. WellFormed(r)
  BY <1>0, <1>1, <1>2, <1>5 DEF WellFormed, Alike
<1> QED
  BY <1>1, <1>2, <1>5, <1>6, <1>7, <1>8 DEF GoodSession, Alike, r

\* syncInflightMarker after a handler that left the marker of d alone, and the
\* idle clock after it.
LEMMA SyncedGood ==
  ASSUME NEW d, NEW also, NEW u, NEW now \in Nat \ {0}, NEW attached,
         WellFormed(u), Kept(d, u, also)
  PROVE  LET r == syncInflightMarker(u, now)
             i == maybeScheduleIdleStop(r, attached)
         IN  /\ GoodSession(r) /\ Followed(r) /\ Alike(r, u)
             /\ Kept(d, r, also) \/ (u.marker = NoMarker /\ Begins(r, now, 0))
             /\ GoodSession(i) /\ Followed(i) /\ Alike(i, u)
             /\ Kept(d, i, also) \/ (u.marker = NoMarker /\ Begins(i, now, 0))
<1> DEFINE r == syncInflightMarker(u, now)
           i == maybeScheduleIdleStop(r, attached)
<1>1. /\ WellFormed(r) /\ GoodSession(r) /\ Followed(r) /\ Alike(r, u)
  BY SyncGood
<1>2. Kept(d, r, also) \/ (u.marker = NoMarker /\ Begins(r, now, 0))
  BY SyncGood
<1> HIDE DEF r
<1>3. i \in SessionType /\ Alike(i, r) /\ i.marker = r.marker /\ i.io = r.io
  BY <1>1, IdleStopGood DEF WellFormed
<1> HIDE DEF i
<1>4. Followed(i) /\ WellFormed(i)
  BY <1>1, <1>3, AlikeFollowed DEF WellFormed, Alike
<1>5. Kept(d, i, also) \/ (u.marker = NoMarker /\ Begins(i, now, 0))
  BY <1>2, <1>3 DEF Kept, Begins
<1>6. Alike(i, u)
  BY <1>1, <1>3 DEF Alike
<1> QED
  BY <1>1, <1>2, <1>4, <1>5, <1>6 DEF GoodSession, r, i

\* The line a handler says is no part of what is preserved.
LEMMA SaidGood ==
  ASSUME NEW s, NEW what \in {"nothing", "stalled", "exhausted"}
  PROVE  LET r == [s EXCEPT !.said = what]
         IN  s \in SessionType =>
               /\ r \in SessionType /\ Alike(r, s) /\ r.marker = s.marker /\ r.io = s.io
               /\ WellFormed(s) => WellFormed(r)
               /\ Followed(r) = Followed(s) /\ Lost(r) = Lost(s)
<1> DEFINE r == [s EXCEPT !.said = what]
<1> SUFFICES ASSUME s \in SessionType
             PROVE  /\ r \in SessionType /\ Alike(r, s) /\ r.marker = s.marker /\ r.io = s.io
                    /\ WellFormed(s) => WellFormed(r)
                    /\ Followed(r) = Followed(s) /\ Lost(r) = Lost(s)
  OBVIOUS
<1>1. r \in SessionType /\ Alike(r, s) /\ r.marker = s.marker /\ r.io = s.io
  BY DEF SessionType, Alike
<1> HIDE DEF r
<1> QED
  BY <1>1, AlikeFollowed DEF WellFormed, Alike

\* abandonResumeWatch on a session whose work has its marker.
LEMMA AbandonGood ==
  ASSUME NEW d, WellFormed(d), d.io = "keep", d.marker # NoMarker,
         NEW now \in Nat \ {0}
  PROVE  LET r == abandonResumeWatch(d, now)
         IN  /\ GoodSession(r) /\ Followed(r) /\ Kept(d, r, {})
             /\ r.child = d.child /\ r.activeTurns = d.activeTurns /\ r.watch = "none"
             /\ r.autonomousTurn = d.autonomousTurn /\ r.retryTimer = d.retryTimer
<1> DEFINE u == [d EXCEPT !.watch = "none", !.armed = FALSE]
<1>1. /\ WellFormed(u) /\ u.io = "keep" /\ u.marker = d.marker
      /\ u.child = d.child /\ u.activeTurns = d.activeTurns /\ u.watch = "none"
      /\ u.autonomousTurn = d.autonomousTurn /\ u.retryTimer = d.retryTimer
  <2>1. u \in SessionType /\ ~u.armed /\ u.failures = d.failures
    BY DEF WellFormed, SessionType
  <2>2. u.io = "keep" /\ u.marker = d.marker
        /\ u.child = d.child /\ u.activeTurns = d.activeTurns /\ u.watch = "none"
        /\ u.autonomousTurn = d.autonomousTurn /\ u.retryTimer = d.retryTimer
    BY DEF WellFormed, SessionType
  <2> HIDE DEF u
  <2> QED
    BY <2>1, <2>2 DEF WellFormed
<1>2. abandonResumeWatch(d, now) = syncInflightMarker(u, now)
  BY DEF abandonResumeWatch
<1> HIDE DEF u
<1>3. Kept(d, u, {})
  BY <1>1 DEF Kept
<1> DEFINE r == syncInflightMarker(u, now)
<1>4. /\ GoodSession(r) /\ Followed(r) /\ Alike(r, u)
      /\ Kept(d, r, {}) \/ (u.marker = NoMarker /\ Begins(r, now, 0))
  BY <1>1, <1>3, SyncGood
<1> HIDE DEF r
<1> QED
  BY <1>1, <1>2, <1>4 DEF Alike, r

\* checkResumeWatch.
LEMMA WatchGood ==
  ASSUME NEW d, GoodSession(d), AtRest(d), d.armed, NEW now \in Nat \ {0}, NEW attached
  PROVE  LET r == checkResumeWatch(d, now, attached)
         IN  /\ GoodSession(r) /\ Followed(r) /\ Kept(d, r, {}) /\ r.child = d.child
             /\ r.activeTurns \in {d.activeTurns, d.activeTurns + 1}
             /\ isTurnInFlight(d) => isTurnInFlight(r)
             /\ r.watch = "fresh" => d.watch = "fresh"
<1> DEFINE s == [d EXCEPT !.armed = FALSE]
           r == checkResumeWatch(d, now, attached)
<1>0. /\ d \in SessionType /\ WellFormed(d) /\ d.watch # "none" /\ d.io = "keep"
      /\ d.marker # NoMarker /\ d.activeTurns \in Nat
  BY DEF GoodSession, WellFormed, AtRest, Followed, Lost, turnRunning, SessionType
<1>1. /\ s \in SessionType /\ ~s.armed /\ s.marker = d.marker /\ s.io = "keep"
      /\ s.child = d.child /\ s.activeTurns = d.activeTurns /\ s.watch = d.watch
      /\ s.autonomousTurn = d.autonomousTurn /\ s.failures = d.failures
      /\ s.stirred = d.stirred /\ s.work = d.work /\ s.retryTimer = d.retryTimer
  BY <1>0 DEF SessionType
<1> HIDE DEF s
<1>2. WellFormed(s) /\ isTurnInFlight(s) = isTurnInFlight(d)
  BY <1>0, <1>1 DEF WellFormed, isTurnInFlight
<1>3. CASE isTurnInFlight(s) \/ s.stirred
  <2>1. r = [s EXCEPT !.armed = TRUE, !.stirred = FALSE]
    BY <1>0, <1>1, <1>3 DEF checkResumeWatch, armResumeWatch, s
  <2>2. /\ r \in SessionType /\ r.marker = s.marker /\ r.io = "keep"
        /\ r.child = s.child /\ r.activeTurns = s.activeTurns /\ r.watch = s.watch
        /\ r.autonomousTurn = s.autonomousTurn /\ r.failures = s.failures
    BY ZenonT(30), <1>1, <2>1 DEF SessionType
  <2> HIDE DEF r
  <2>3. isTurnInFlight(r) = isTurnInFlight(d)
    BY <1>1, <2>2 DEF isTurnInFlight
  <2> QED
    BY <1>0, <1>1, <2>2, <2>3 DEF GoodSession, WellFormed, Followed, Kept, r
<1>4. CASE ~(isTurnInFlight(s) \/ s.stirred) /\ s.watch = "fresh" /\ canAcceptTurn(s)
  <2> DEFINE c == CountTurn(s)
             u == [c EXCEPT !.watch = "reengaged"]
  <2>1. /\ c \in SessionType /\ c.marker = s.marker /\ c.io = "keep"
        /\ c.activeTurns = s.activeTurns + 1 /\ c.child = s.child
        /\ c.failures = s.failures
    BY <1>1, CountTurnGood DEF Alike, SessionType
  <2> HIDE DEF c
  <2>2. /\ u \in SessionType /\ u.marker = c.marker /\ u.io = "keep"
        /\ u.activeTurns = c.activeTurns /\ u.child = c.child
        /\ u.failures = c.failures /\ u.watch = "reengaged"
    BY <2>1 DEF SessionType
  <2>3. r = syncInflightMarker(u, now)
    BY <1>4 DEF checkResumeWatch, s, c
  <2> HIDE DEF u
  <2>4. WellFormed(u) /\ u.marker = d.marker /\ Kept(d, u, {})
    BY <1>1, <1>2, <2>1, <2>2 DEF WellFormed, Kept
  <2>5. GoodSession(r) /\ Followed(r) /\ Alike(r, u) /\ Kept(d, r, {})
    BY <1>0, <2>2, <2>3, <2>4, SyncedGood
  <2> HIDE DEF r
  <2>6. ~isTurnInFlight(d) /\ r.watch # "fresh" /\ r.activeTurns = d.activeTurns + 1
        /\ r.child = d.child
    BY <1>1, <1>2, <1>4, <2>1, <2>2, <2>5 DEF Alike
  <2> QED
    BY <2>5, <2>6 DEF r
<1>5. CASE /\ ~(isTurnInFlight(s) \/ s.stirred)
           /\ ~(s.watch = "fresh" /\ canAcceptTurn(s))
  <2> DEFINE a == abandonResumeWatch(s, now)
             u == [a EXCEPT !.said = "stalled"]
  <2>1. /\ GoodSession(a) /\ Followed(a) /\ Kept(s, a, {})
        /\ a.child = s.child /\ a.activeTurns = s.activeTurns /\ a.watch = "none"
        /\ a.autonomousTurn = s.autonomousTurn
    BY <1>0, <1>1, <1>2, AbandonGood
  <2>2. r = maybeScheduleIdleStop(u, attached)
    BY <1>5 DEF checkResumeWatch, s
  <2> HIDE DEF a
  <2>3. /\ u \in SessionType /\ Alike(u, a) /\ u.marker = a.marker /\ u.io = a.io
    BY <2>1, SaidGood DEF GoodSession, WellFormed
  <2> HIDE DEF u
  <2>4. /\ r \in SessionType /\ Alike(r, u) /\ r.marker = u.marker /\ r.io = u.io
    BY <2>2, <2>3, IdleStopGood
  <2> HIDE DEF r
  <2>5. /\ Alike(r, a) /\ r.marker = a.marker /\ r.io = a.io
    BY <2>3, <2>4 DEF Alike
  <2>6. GoodSession(r) /\ Followed(r)
    BY <2>1, <2>4, <2>5, AlikeFollowed DEF GoodSession, WellFormed, Alike
  <2>7. Kept(d, r, {})
    BY <1>1, <2>1, <2>5 DEF Kept
  <2> QED
    BY <1>1, <1>2, <1>5, <2>1, <2>5, <2>6, <2>7 DEF Alike, r
<1> QED
  BY <1>3, <1>4, <1>5

\* cancelApiRetry on a session whose work has its marker.
LEMMA CancelGood ==
  ASSUME NEW d, NEW s, WellFormed(s), Kept(d, s, {}), s.marker # NoMarker,
         NEW now \in Nat \ {0}, NEW attached
  PROVE  LET r == cancelApiRetry(s, now, attached)
         IN  /\ GoodSession(r) /\ Followed(r) /\ Kept(d, r, {})
             /\ r.child = s.child /\ r.activeTurns = s.activeTurns /\ r.watch = s.watch
             /\ r.autonomousTurn = s.autonomousTurn
<1> DEFINE u == [s EXCEPT !.failures = 0, !.retryTimer = FALSE]
<1>1. /\ u \in SessionType /\ u.failures = 0 /\ u.marker = s.marker /\ u.io = s.io
      /\ u.armed = s.armed /\ u.child = s.child /\ u.activeTurns = s.activeTurns
      /\ u.watch = s.watch /\ u.autonomousTurn = s.autonomousTurn
  BY DEF WellFormed, SessionType
<1>2. cancelApiRetry(s, now, attached)
        = maybeScheduleIdleStop(syncInflightMarker(u, now), attached)
  BY DEF cancelApiRetry
<1> HIDE DEF u
<1>3. WellFormed(u) /\ Kept(d, u, {})
  BY <1>1, LimitsAssumption DEF WellFormed, Kept
<1> DEFINE r == maybeScheduleIdleStop(syncInflightMarker(u, now), attached)
<1>4. /\ GoodSession(r) /\ Followed(r) /\ Alike(r, u)
      /\ Kept(d, r, {}) \/ (u.marker = NoMarker /\ Begins(r, now, 0))
  BY <1>3, SyncedGood
<1> HIDE DEF r
<1> QED
  BY <1>1, <1>2, <1>4 DEF Alike, r

\* ApiRetryFires: the order to continue begins a turn, or the retry ends.
LEMMA RetryGood ==
  ASSUME NEW d, GoodSession(d), AtRest(d), d.retryTimer, NEW now \in Nat \ {0}, NEW attached
  PROVE  LET r == ApiRetryFires(d, now, attached)
         IN  /\ GoodSession(r) /\ Followed(r) /\ r.child = d.child
             /\ \/ r.activeTurns = d.activeTurns /\ Kept(d, r, {})
                \/ r.activeTurns = d.activeTurns + 1 /\ Begins(r, now, 0)
             /\ isTurnInFlight(d) => isTurnInFlight(r)
             /\ r.watch = d.watch
<1> DEFINE s == [d EXCEPT !.retryTimer = FALSE]
           r == ApiRetryFires(d, now, attached)
<1>0. /\ d \in SessionType /\ WellFormed(d) /\ d.io = "keep"
      /\ d.marker # NoMarker /\ d.activeTurns \in Nat
  BY DEF GoodSession, WellFormed, AtRest, Followed, Lost, turnRunning, SessionType
<1>1. /\ s \in SessionType /\ s.armed = d.armed /\ s.marker = d.marker /\ s.io = "keep"
      /\ s.child = d.child /\ s.activeTurns = d.activeTurns /\ s.watch = d.watch
      /\ s.autonomousTurn = d.autonomousTurn /\ s.failures = d.failures
  BY <1>0 DEF SessionType
<1>2. r = IF isTurnInFlight(s) THEN s
          ELSE IF canAcceptTurn(s) THEN putMarker(CountTurn(s), Marker(now, 0))
          ELSE [cancelApiRetry(s, now, attached) EXCEPT !.said = "exhausted"]
  BY DEF ApiRetryFires
<1> HIDE DEF s, r
<1>3. WellFormed(s) /\ isTurnInFlight(s) = isTurnInFlight(d) /\ Kept(d, s, {})
  BY <1>0, <1>1 DEF WellFormed, isTurnInFlight, Kept
<1>4. CASE isTurnInFlight(s)
  BY <1>0, <1>1, <1>2, <1>3, <1>4 DEF GoodSession, Followed, r
<1>5. CASE ~isTurnInFlight(s) /\ canAcceptTurn(s)
  <2> DEFINE c == CountTurn(s)
  <2>1. /\ c \in SessionType /\ c.marker = s.marker /\ c.io = "keep"
        /\ c.activeTurns = s.activeTurns + 1 /\ c.child = s.child
        /\ c.failures = s.failures /\ c.watch = s.watch /\ c.armed = s.armed
    BY <1>1, CountTurnGood DEF Alike, SessionType
  <2>2. r = putMarker(c, Marker(now, 0))
    BY <1>2, <1>5
  <2> HIDE DEF c
  <2>3. /\ Marker(now, 0) \in MarkerType /\ Marker(now, 0).at = now /\ now # 0
        /\ Marker(now, 0).attempts = 0 /\ 0 <= MaxAutoResumes
    BY NewMarkerGood, LimitsAssumption
  <2>4. /\ r \in SessionType /\ Alike(r, c) /\ r.io = "put" /\ GoodMarker(r.marker)
        /\ r.marker # NoMarker /\ SameTurn(r.marker, Marker(now, 0))
    BY <2>1, <2>2, <2>3, PutMarkerGood
  <2>5. WellFormed(r)
    BY <1>3, <1>1, <2>1, <2>4 DEF WellFormed, Alike
  <2> QED
    BY <1>1, <1>3, <1>5, <2>1, <2>3, <2>4, <2>5
       DEF GoodSession, Followed, Begins, SameTurn, Alike, r
<1>6. CASE ~isTurnInFlight(s) /\ ~canAcceptTurn(s)
  <2> DEFINE c == cancelApiRetry(s, now, attached)
  <2>1. /\ GoodSession(c) /\ Followed(c) /\ Kept(d, c, {})
        /\ c.child = s.child /\ c.activeTurns = s.activeTurns /\ c.watch = s.watch
    BY <1>0, <1>1, <1>3, CancelGood
  <2>2. r = [c EXCEPT !.said = "exhausted"]
    BY <1>2, <1>6
  <2> HIDE DEF c
  <2>3. /\ Alike(r, c) /\ r.marker = c.marker /\ r.io = c.io
        /\ WellFormed(r) /\ Followed(r)
    BY <2>1, <2>2, SaidGood DEF GoodSession, WellFormed
  <2>4. Kept(d, r, {})
    BY <2>1, <2>3 DEF Kept
  <2> QED
    BY <1>1, <1>3, <1>6, <2>1, <2>3, <2>4 DEF GoodSession, Alike, r
<1> QED
  BY <1>4, <1>5, <1>6

\* OnInterrupt: the stop of a person begins nothing.
LEMMA InterruptGood ==
  ASSUME NEW d, GoodSession(d), AtRest(d), NEW now \in Nat \ {0}, NEW attached
  PROVE  LET r == OnInterrupt(d, now, attached)
         IN  /\ GoodSession(r) /\ r.child = d.child /\ Kept(d, r, {})
             /\ Followed(d) => Followed(r)
             /\ r.activeTurns = IF d.activeTurns > 1 THEN 1 ELSE d.activeTurns
             /\ r.watch = "fresh" => d.watch = "fresh"
<1> DEFINE n == IF d.activeTurns > 1 THEN 1 ELSE d.activeTurns
           s == [d EXCEPT !.activeTurns = n]
           w == IF s.watch = "none" THEN s ELSE abandonResumeWatch(s, now)
           r == OnInterrupt(d, now, attached)
<1>0. d \in SessionType /\ WellFormed(d) /\ d.io = "keep" /\ d.activeTurns \in Nat /\ n \in Nat
  BY DEF GoodSession, WellFormed, AtRest, SessionType
<1>1. (n > 0) = (d.activeTurns > 0)
  BY <1>0
<1>2. r = IF w.retryTimer THEN cancelApiRetry(w, now, attached) ELSE w
  BY DEF OnInterrupt
<1> HIDE DEF n
<1>3. /\ s \in SessionType /\ s.armed = d.armed /\ s.marker = d.marker /\ s.io = "keep"
      /\ s.child = d.child /\ s.activeTurns = n /\ s.watch = d.watch
      /\ s.autonomousTurn = d.autonomousTurn /\ s.failures = d.failures
      /\ s.retryTimer = d.retryTimer /\ s.work = d.work
  BY <1>0 DEF SessionType
<1> HIDE DEF s
<1>4. /\ WellFormed(s) /\ turnRunning(s) = turnRunning(d) /\ Kept(d, s, {})
      /\ Followed(s) = Followed(d) /\ Lost(s) = Lost(d)
  <2>1. turnRunning(s) = turnRunning(d)
    BY <1>1, <1>3 DEF turnRunning, isTurnInFlight
  <2> QED
    BY <1>0, <1>3, <2>1 DEF WellFormed, Kept, Followed, Lost
<1>5. /\ GoodSession(w) /\ Kept(d, w, {})
      /\ w.child = d.child /\ w.activeTurns = n
      /\ Followed(d) => Followed(w)
      /\ w.watch = "fresh" => d.watch = "fresh"
      /\ w.retryTimer => w.marker # NoMarker
  <2>1. CASE s.watch = "none"
    <3>1. w = s
      BY <2>1
    <3>2. GoodSession(w)
      BY <1>4, <3>1 DEF GoodSession
    <3> QED
      BY <1>3, <1>4, <2>1, <3>1, <3>2 DEF GoodSession, Followed, Lost, turnRunning
  <2>2. CASE s.watch # "none"
    <3>1. s.marker # NoMarker
      BY <1>3, <1>4, <2>2 DEF GoodSession, Followed, Lost, turnRunning
    <3>2. w = abandonResumeWatch(s, now)
      BY <2>2
    <3>3. /\ GoodSession(w) /\ Followed(w) /\ Kept(s, w, {})
          /\ w.child = s.child /\ w.activeTurns = s.activeTurns /\ w.watch = "none"
      BY <1>3, <1>4, <3>1, <3>2, AbandonGood
    <3>4. Kept(d, w, {}) /\ (w.retryTimer => w.marker # NoMarker)
      BY <1>3, <3>3 DEF Kept, Followed, turnRunning
    <3> QED
      BY <1>3, <3>3, <3>4
  <2> QED
    BY <2>1, <2>2
<1> HIDE DEF w
<1> SUFFICES /\ GoodSession(r) /\ r.child = d.child /\ Kept(d, r, {})
             /\ Followed(d) => Followed(r)
             /\ r.activeTurns = n /\ (r.watch = "fresh" => d.watch = "fresh")
  BY DEF n
<1> HIDE DEF r
<1>6. CASE w.retryTimer
  <2>1. r = cancelApiRetry(w, now, attached)
    BY <1>2, <1>6
  <2>2. WellFormed(w) /\ w.marker # NoMarker /\ Kept(d, w, {})
    BY <1>5, <1>6 DEF GoodSession
  <2> DEFINE c == cancelApiRetry(w, now, attached)
  <2>3. /\ GoodSession(c) /\ Followed(c) /\ Kept(d, c, {})
        /\ c.child = w.child /\ c.activeTurns = w.activeTurns /\ c.watch = w.watch
    BY <2>2, CancelGood
  <2> HIDE DEF c
  <2> QED
    BY <1>5, <2>1, <2>3 DEF c
<1>7. CASE ~w.retryTimer
  <2>1. r = w
    BY <1>2, <1>7
  <2> QED
    BY <1>5, <2>1
<1> QED
  BY <1>6, <1>7

-----------------------------------------------------------------------------
\* A session with more than a count of turns has its marker.
LEMMA Marked ==
  ASSUME NEW s, GoodSession(s),
         s.watch # "none" \/ s.retryTimer \/ s.autonomousTurn \/ s.work # {}
  PROVE  s.marker # NoMarker
BY DEF GoodSession, WellFormed, SessionType, Followed, Lost, turnRunning, isTurnInFlight

\* noteAgentWork: after the agent spoke a turn is in flight.
LEMMA AgentWorkGood ==
  ASSUME NEW d, GoodSession(d), AtRest(d), NEW now \in Nat \ {0}, NEW schedules \in BOOLEAN
  PROVE  LET r == noteAgentWork(d, now, schedules)
         IN  /\ GoodSession(r) /\ (Followed(d) => Followed(r))
             /\ Kept(d, r, {}) \/ (d.marker = NoMarker /\ Begins(r, now, 0))
             /\ r.child = d.child /\ r.activeTurns = d.activeTurns /\ r.watch = d.watch
             /\ isTurnInFlight(r)
<1> DEFINE opens == ~isTurnInFlight(d)
           kept  == IF opens THEN d.work \ {"notice", "wakeup"} ELSE d.work
           work  == IF schedules THEN kept \cup {"wakeup"} ELSE kept
           own   == d.autonomousTurn \/ opens
           u     == [d EXCEPT !.autonomousTurn = own, !.work = work]
           r     == noteAgentWork(d, now, schedules)
<1>0. d \in SessionType /\ WellFormed(d) /\ d.io = "keep" /\ d.work \subseteq Work
  BY DEF GoodSession, WellFormed, AtRest, SessionType
<1>1. work \subseteq Work /\ own \in BOOLEAN
  BY <1>0 DEF Work
<1>2. own = (d.autonomousTurn \/ ~isTurnInFlight(d))
  OBVIOUS
<1>3. ~opens /\ ~schedules => work = d.work
  OBVIOUS
<1>4. r = IF opens \/ schedules THEN syncInflightMarker(u, now) ELSE u
  BY DEF noteAgentWork
<1> HIDE DEF work, own
<1>5. /\ u \in SessionType /\ u.io = "keep" /\ u.marker = d.marker /\ u.child = d.child
      /\ u.activeTurns = d.activeTurns /\ u.watch = d.watch /\ u.armed = d.armed
      /\ u.failures = d.failures /\ u.autonomousTurn = own /\ u.work = work
      /\ u.retryTimer = d.retryTimer
  BY <1>0, <1>1 DEF SessionType
<1> HIDE DEF u, r
<1>6. WellFormed(u) /\ Kept(d, u, {}) /\ isTurnInFlight(u)
  BY <1>0, <1>2, <1>5 DEF WellFormed, Kept, isTurnInFlight
<1>7. CASE opens \/ schedules
  <2> DEFINE y == syncInflightMarker(u, now)
  <2>1. /\ GoodSession(y) /\ Followed(y) /\ Alike(y, u)
        /\ Kept(d, y, {}) \/ (u.marker = NoMarker /\ Begins(y, now, 0))
    BY <1>6, SyncGood
  <2>2. r = y
    BY <1>4, <1>7
  <2> HIDE DEF y
  <2> QED
    BY <1>5, <1>6, <2>1, <2>2 DEF Alike, isTurnInFlight, r
<1>8. CASE ~opens /\ ~schedules
  <2>1. r = u /\ u.work = d.work /\ isTurnInFlight(d)
    BY <1>3, <1>4, <1>5, <1>8
  <2>2. u.autonomousTurn = d.autonomousTurn
    BY <1>0, <1>2, <1>5, <2>1 DEF SessionType
  <2>3. Alike(u, d)
    BY <1>5, <2>1, <2>2 DEF Alike
  <2>4. Followed(u) = Followed(d) /\ Lost(u) = Lost(d)
    BY <1>5, <2>3, AlikeFollowed
  <2> QED
    BY <1>5, <1>6, <2>1, <2>4 DEF GoodSession, r
<1> QED
  BY <1>7, <1>8

\* ContinuationTook: the marker of the resume has progressed.
LEMMA TookGood ==
  ASSUME NEW d, NEW s, GoodSession(s), NEW now,
         Kept(d, s, {}) \/ (d.marker = NoMarker /\ Begins(s, now, 0))
  PROVE  LET r == ContinuationTook(s)
         IN  /\ GoodSession(r) /\ (Followed(s) => Followed(r))
             /\ Kept(d, r, {TRUE}) \/ (d.marker = NoMarker /\ Begins(r, now, 0))
             /\ r.child = s.child /\ r.activeTurns = s.activeTurns /\ r.watch = "none"
             /\ isTurnInFlight(r) = isTurnInFlight(s)
<1> DEFINE r == ContinuationTook(s)
<1>0. s \in SessionType /\ WellFormed(s) /\ s.marker \in MarkerType
  BY DEF GoodSession, WellFormed, SessionType
<1>1. CASE s.watch = "none"
  <2>1. r = s
    BY <1>1 DEF ContinuationTook
  <2>2. Kept(d, s, {TRUE}) \/ (d.marker = NoMarker /\ Begins(s, now, 0))
    BY DEF Kept
  <2> QED
    BY <1>1, <2>1, <2>2
<1>2. CASE s.watch # "none"
  <2> DEFINE m == [s.marker EXCEPT !.progressed = TRUE]
             p == putMarker(s, m)
             w == [p EXCEPT !.watch = "none", !.armed = FALSE]
  <2>1. r = w
    BY <1>2 DEF ContinuationTook
  <2>2. s.marker # NoMarker /\ s.marker.at # 0 /\ s.marker.attempts <= MaxAutoResumes
    BY <1>0, <1>2, Marked DEF WellFormed, GoodMarker
  <2>3. /\ m \in MarkerType /\ m.at = s.marker.at /\ m.attempts = s.marker.attempts
        /\ m.progressed = TRUE
    BY <1>0 DEF MarkerType
  <2> HIDE DEF m
  <2>4. /\ p \in SessionType /\ Alike(p, s) /\ p.io = "put" /\ GoodMarker(p.marker)
        /\ p.marker # NoMarker /\ SameTurn(p.marker, m)
    BY <1>0, <2>2, <2>3, PutMarkerGood
  <2> HIDE DEF p
  <2>5. /\ w \in SessionType /\ w.marker = p.marker /\ w.io = "put" /\ w.watch = "none"
        /\ ~w.armed /\ w.child = p.child /\ w.activeTurns = p.activeTurns
        /\ w.autonomousTurn = p.autonomousTurn /\ w.failures = p.failures
    BY <2>4 DEF SessionType
  <2> HIDE DEF w
  <2>6. WellFormed(w) /\ Followed(w)
    BY <1>0, <2>4, <2>5 DEF WellFormed, Followed, Alike
  <2>7. Kept(d, w, {TRUE}) \/ (d.marker = NoMarker /\ Begins(w, now, 0))
    BY <2>2, <2>3, <2>4, <2>5 DEF Kept, Begins, SameTurn
  <2>8. isTurnInFlight(w) = isTurnInFlight(s)
    BY <2>4, <2>5 DEF isTurnInFlight, Alike
  <2> QED
    BY <2>1, <2>4, <2>5, <2>6, <2>7, <2>8 DEF GoodSession, Alike
<1> QED
  BY <1>1, <1>2

\* OnDelta: a sign of life.
LEMMA DeltaGood ==
  ASSUME NEW d, GoodSession(d), AtRest(d)
  PROVE  LET r == OnDelta(d)
         IN  GoodSession(r) /\ Alike(r, d) /\ r.marker = d.marker /\ r.io = "keep"
<1> DEFINE r == OnDelta(d)
<1>1. r \in SessionType /\ Alike(r, d) /\ r.marker = d.marker /\ r.io = "keep"
  BY DEF OnDelta, GoodSession, WellFormed, SessionType, Alike, AtRest
<1> HIDE DEF r
<1> QED
  BY <1>1, AlikeFollowed DEF GoodSession, WellFormed, Alike, r

\* OnTasks: work that outlives a turn is followed.
LEMMA OnTasksGood ==
  ASSUME NEW d, GoodSession(d), AtRest(d), NEW now \in Nat \ {0}, NEW alive \in BOOLEAN,
         NEW attached
  PROVE  LET r == OnTasks(d, now, alive, attached)
         IN  /\ GoodSession(r) /\ Followed(r)
             /\ Kept(d, r, {}) \/ (d.marker = NoMarker /\ Begins(r, now, 0))
             /\ r.child = d.child /\ r.activeTurns = d.activeTurns /\ r.watch = d.watch
             /\ isTurnInFlight(r) = isTurnInFlight(d)
<1> DEFINE had  == "task" \in d.work
           work == IF alive THEN d.work \cup {"task"}
                   ELSE IF had THEN (d.work \ {"task"}) \cup {"notice"} ELSE d.work
           sett == IF had = alive THEN d.settling ELSE ~alive
           u    == [d EXCEPT !.work = work, !.settling = sett]
           y    == syncInflightMarker(u, now)
           c    == [y EXCEPT !.idleTimer = FALSE]
           r    == OnTasks(d, now, alive, attached)
<1>0. d \in SessionType /\ WellFormed(d) /\ d.io = "keep" /\ d.work \subseteq Work
      /\ d.settling \in BOOLEAN
  BY DEF GoodSession, WellFormed, AtRest, SessionType
<1>1. work \subseteq Work /\ sett \in BOOLEAN
  BY <1>0 DEF Work
<1>2. r = maybeScheduleIdleStop(c, attached)
  BY DEF OnTasks
<1> HIDE DEF work, sett, r
<1>3. /\ u \in SessionType /\ u.io = "keep" /\ u.marker = d.marker /\ u.child = d.child
      /\ u.activeTurns = d.activeTurns /\ u.watch = d.watch /\ u.armed = d.armed
      /\ u.failures = d.failures /\ u.autonomousTurn = d.autonomousTurn
  BY <1>0, <1>1 DEF SessionType
<1> HIDE DEF u
<1>4. WellFormed(u) /\ Kept(d, u, {})
  BY <1>0, <1>3 DEF WellFormed, Kept
<1>5. /\ WellFormed(y) /\ GoodSession(y) /\ Followed(y) /\ Alike(y, u)
      /\ Kept(d, y, {}) \/ (u.marker = NoMarker /\ Begins(y, now, 0))
  BY <1>4, SyncGood
<1> HIDE DEF y
<1>6. c \in SessionType /\ Alike(c, y) /\ c.marker = y.marker /\ c.io = y.io
  BY <1>5 DEF WellFormed, SessionType, Alike
<1> HIDE DEF c
<1>7. r \in SessionType /\ Alike(r, c) /\ r.marker = c.marker /\ r.io = c.io
  BY <1>2, <1>6, IdleStopGood
<1>8. Alike(r, y) /\ Alike(r, u) /\ r.marker = y.marker /\ r.io = y.io
  BY <1>5, <1>6, <1>7 DEF Alike
<1>9. WellFormed(r) /\ Followed(r)
  BY <1>5, <1>7, <1>8, AlikeFollowed DEF WellFormed, Alike
<1>10. Kept(d, r, {}) \/ (d.marker = NoMarker /\ Begins(r, now, 0))
  BY <1>3, <1>5, <1>8 DEF Kept, Begins
<1>11. isTurnInFlight(r) = isTurnInFlight(d)
  BY <1>3, <1>8 DEF isTurnInFlight, Alike
<1> QED
  BY <1>3, <1>8, <1>9, <1>10, <1>11 DEF GoodSession, Alike, r

\* OnAbsorbed: a count that was down comes up with no marker.
LEMMA AbsorbedGood ==
  ASSUME NEW d, GoodSession(d), AtRest(d)
  PROVE  LET r == OnAbsorbed(d)
         IN  /\ GoodSession(r) /\ Kept(d, r, {})
             /\ r.child = d.child /\ r.watch = d.watch
             /\ r.activeTurns = IF d.activeTurns - 1 > 1 THEN d.activeTurns - 1 ELSE 1
             /\ isTurnInFlight(r)
             /\ d.activeTurns >= 1 /\ Followed(d) => Followed(r)
<1> DEFINE n == IF d.activeTurns - 1 > 1 THEN d.activeTurns - 1 ELSE 1
           r == [d EXCEPT !.activeTurns = n]
<1>0. d \in SessionType /\ WellFormed(d) /\ d.io = "keep" /\ d.activeTurns \in Nat
      /\ (Followed(d) \/ Lost(d))
  BY DEF GoodSession, WellFormed, AtRest, SessionType
<1>1. n \in Nat /\ n >= 1
  BY <1>0
<1>2. OnAbsorbed(d) = r
  BY DEF OnAbsorbed
<1> SUFFICES /\ GoodSession(r) /\ Kept(d, r, {})
             /\ r.child = d.child /\ r.watch = d.watch
             /\ r.activeTurns = n
             /\ isTurnInFlight(r)
             /\ d.activeTurns >= 1 /\ Followed(d) => Followed(r)
  BY <1>2
<1> HIDE DEF n
<1>3. /\ r \in SessionType /\ r.io = "keep" /\ r.marker = d.marker /\ r.child = d.child
      /\ r.activeTurns = n /\ r.watch = d.watch /\ r.armed = d.armed /\ r.work = d.work
      /\ r.failures = d.failures /\ r.autonomousTurn = d.autonomousTurn
      /\ r.retryTimer = d.retryTimer
  BY <1>0, <1>1 DEF SessionType
<1> HIDE DEF r
<1>4. WellFormed(r) /\ Kept(d, r, {}) /\ isTurnInFlight(r)
  BY <1>0, <1>1, <1>3 DEF WellFormed, Kept, isTurnInFlight
<1>5. CASE d.marker # NoMarker
  BY <1>3, <1>4, <1>5 DEF GoodSession, Followed
<1>6. CASE d.marker = NoMarker
  <2>1. Lost(r)
    BY <1>0, <1>3, <1>6 DEF Lost, Followed, turnRunning, isTurnInFlight, SessionType
  <2>2. ~(d.activeTurns >= 1 /\ Followed(d))
    BY <1>0, <1>6 DEF Followed, turnRunning, isTurnInFlight
  <2> QED
    BY <1>3, <1>4, <2>1, <2>2 DEF GoodSession
<1> QED
  BY <1>5, <1>6

\* armResumeWatch, and noteApiOutcome after it: the watch and the retry alone.
LEMMA OutcomeGood ==
  ASSUME NEW s, WellFormed(s), NEW outcome \in Closings
  PROVE  LET w == IF isTurnInFlight(s) THEN s ELSE armResumeWatch(s)
             r == noteApiOutcome(w, outcome)
         IN  /\ WellFormed(r) /\ r.marker = s.marker /\ r.io = s.io /\ r.child = s.child
             /\ r.activeTurns = s.activeTurns /\ r.watch = s.watch
<1> DEFINE w == IF isTurnInFlight(s) THEN s ELSE armResumeWatch(s)
           v == [w EXCEPT !.retryTimer = FALSE]
           r == noteApiOutcome(w, outcome)
<1>0. s \in SessionType /\ s.failures \in Nat /\ s.failures <= MaxApiRetries
  BY DEF WellFormed, SessionType
<1>1. /\ w \in SessionType /\ w.marker = s.marker /\ w.io = s.io /\ w.child = s.child
      /\ w.activeTurns = s.activeTurns /\ w.watch = s.watch /\ w.failures = s.failures
      /\ w.armed => w.watch # "none"
  <2> DEFINE x == [s EXCEPT !.armed = TRUE, !.stirred = FALSE]
  <2>1. CASE isTurnInFlight(s) \/ s.watch = "none"
    BY <1>0, <2>1 DEF armResumeWatch, WellFormed
  <2>2. CASE ~isTurnInFlight(s) /\ s.watch # "none"
    <3>1. w = x
      BY <2>2 DEF armResumeWatch
    <3>2. /\ x \in SessionType /\ x.marker = s.marker /\ x.io = s.io /\ x.child = s.child
          /\ x.activeTurns = s.activeTurns /\ x.watch = s.watch /\ x.failures = s.failures
      BY <1>0 DEF SessionType
    <3> HIDE DEF x, w
    <3> QED
      BY <2>2, <3>1, <3>2
  <2> QED
    BY <2>1, <2>2
<1> HIDE DEF w
<1>2. /\ v \in SessionType /\ v.marker = s.marker /\ v.io = s.io /\ v.child = s.child
      /\ v.activeTurns = s.activeTurns /\ v.watch = s.watch /\ v.failures = s.failures
      /\ v.armed = w.armed
  BY <1>1 DEF SessionType
<1>3. r = IF outcome = "failed" THEN w
          ELSE IF outcome = "result" THEN [v EXCEPT !.failures = 0]
          ELSE IF v.failures + 1 > MaxApiRetries
               THEN [v EXCEPT !.failures = 0, !.said = "exhausted"]
               ELSE [v EXCEPT !.failures = v.failures + 1, !.retryTimer = ~isTurnInFlight(v)]
  BY DEF noteApiOutcome, Closings
<1> HIDE DEF v, r
<1>4. \E x : /\ x = r /\ x \in SessionType /\ x.failures <= MaxApiRetries
             /\ x.marker = v.marker /\ x.io = v.io /\ x.child = v.child
             /\ x.activeTurns = v.activeTurns /\ x.watch = v.watch /\ x.armed = v.armed
  <2>0. CASE outcome = "failed"
    BY <1>0, <1>1, <1>2, <1>3, <2>0
  <2>1. CASE outcome = "result"
    <3> DEFINE x == [v EXCEPT !.failures = 0]
    <3>1. /\ x \in SessionType /\ x.failures = 0
          /\ x.marker = v.marker /\ x.io = v.io /\ x.child = v.child
          /\ x.activeTurns = v.activeTurns /\ x.watch = v.watch /\ x.armed = v.armed
      BY <1>2 DEF SessionType
    <3>2. x = r
      BY <1>3, <2>1
    <3> HIDE DEF x
    <3> QED
      BY <3>1, <3>2, LimitsAssumption
  <2>2. CASE outcome = "api_error" /\ v.failures + 1 > MaxApiRetries
    <3> DEFINE x == [v EXCEPT !.failures = 0, !.said = "exhausted"]
    <3>1. /\ x \in SessionType /\ x.failures = 0
          /\ x.marker = v.marker /\ x.io = v.io /\ x.child = v.child
          /\ x.activeTurns = v.activeTurns /\ x.watch = v.watch /\ x.armed = v.armed
      BY <1>2 DEF SessionType
    <3>2. x = r
      BY <1>3, <2>2
    <3> HIDE DEF x
    <3> QED
      BY <3>1, <3>2, LimitsAssumption
  <2>3. CASE outcome = "api_error" /\ ~(v.failures + 1 > MaxApiRetries)
    <3> DEFINE n == v.failures + 1
               t == ~isTurnInFlight(v)
               x == [v EXCEPT !.failures = n, !.retryTimer = t]
    <3>1. n \in Nat /\ n <= MaxApiRetries /\ t \in BOOLEAN
      BY <1>0, <1>2, <2>3, LimitsAssumption
    <3>2. r = x
      BY <1>3, <2>3
    <3> HIDE DEF n, t
    <3>3. /\ x \in SessionType /\ x.failures = n
          /\ x.marker = v.marker /\ x.io = v.io /\ x.child = v.child
          /\ x.activeTurns = v.activeTurns /\ x.watch = v.watch /\ x.armed = v.armed
      BY <1>2, <3>1 DEF SessionType
    <3> HIDE DEF x
    <3> QED
      BY <3>1, <3>2, <3>3
  <2> QED
    BY <2>0, <2>1, <2>2, <2>3 DEF Closings
<1>5. /\ WellFormed(r) /\ r.marker = s.marker /\ r.io = s.io /\ r.child = s.child
      /\ r.activeTurns = s.activeTurns /\ r.watch = s.watch
  BY <1>0, <1>1, <1>2, <1>4 DEF WellFormed
<1> QED
  BY <1>5 DEF r, w

\* OnResult: the count goes down, not below nothing, and the rest is followed.
LEMMA ResultGood ==
  ASSUME NEW d, GoodSession(d), AtRest(d), NEW now \in Nat \ {0}, NEW outcome \in Closings,
         NEW attached
  PROVE  LET r == OnResult(d, now, outcome, attached)
         IN  /\ GoodSession(r) /\ Followed(r)
             /\ Kept(d, r, {}) \/ (d.marker = NoMarker /\ Begins(r, now, 0))
             /\ r.child = d.child /\ r.watch = d.watch
             /\ r.activeTurns = IF d.activeTurns > 0 THEN d.activeTurns - 1 ELSE 0
<1> DEFINE n == IF d.activeTurns > 0 THEN d.activeTurns - 1 ELSE 0
           c == [d EXCEPT !.activeTurns = n, !.autonomousTurn = FALSE]
           w == IF isTurnInFlight(c) THEN c ELSE armResumeWatch(c)
           o == noteApiOutcome(w, outcome)
           r == maybeScheduleIdleStop(syncInflightMarker(o, now), attached)
<1>0. d \in SessionType /\ WellFormed(d) /\ d.io = "keep" /\ d.activeTurns \in Nat
  BY DEF GoodSession, WellFormed, AtRest, SessionType
<1>1. n \in Nat
  BY <1>0
<1>2. OnResult(d, now, outcome, attached) = r
  BY DEF OnResult
<1> SUFFICES /\ GoodSession(r) /\ Followed(r)
             /\ Kept(d, r, {}) \/ (d.marker = NoMarker /\ Begins(r, now, 0))
             /\ r.child = d.child /\ r.watch = d.watch /\ r.activeTurns = n
  BY <1>2
<1> HIDE DEF n
<1>3. /\ c \in SessionType /\ c.io = "keep" /\ c.marker = d.marker /\ c.child = d.child
      /\ c.activeTurns = n /\ c.watch = d.watch /\ c.armed = d.armed
      /\ c.failures = d.failures
  BY <1>0, <1>1 DEF SessionType
<1> HIDE DEF c
<1>4. WellFormed(c)
  BY <1>0, <1>3 DEF WellFormed
<1>5. /\ WellFormed(o) /\ o.marker = c.marker /\ o.io = c.io /\ o.child = c.child
      /\ o.activeTurns = c.activeTurns /\ o.watch = c.watch
  BY <1>4, OutcomeGood
<1> HIDE DEF o
<1>6. Kept(d, o, {})
  BY <1>3, <1>5 DEF Kept
<1>7. /\ GoodSession(r) /\ Followed(r) /\ Alike(r, o)
      /\ Kept(d, r, {}) \/ (o.marker = NoMarker /\ Begins(r, now, 0))
  BY <1>5, <1>6, SyncedGood
<1> HIDE DEF r
<1> QED
  BY <1>3, <1>5, <1>7 DEF Alike

\* OnError: a turn the CLI opened is over, and whatever is left is followed.
LEMMA ErrorGood ==
  ASSUME NEW d, GoodSession(d), AtRest(d), NEW now \in Nat \ {0}, NEW attached
  PROVE  LET r == OnError(d, now, attached)
         IN  /\ GoodSession(r) /\ (Followed(d) => Followed(r))
             /\ Kept(d, r, {}) \/ (d.marker = NoMarker /\ Begins(r, now, 0))
             /\ r.child = d.child /\ r.watch = d.watch /\ r.activeTurns = d.activeTurns
             /\ d.activeTurns > 0 /\ isTurnInFlight(d) => isTurnInFlight(r)
<1> DEFINE c == [d EXCEPT !.autonomousTurn = FALSE]
           r == maybeScheduleIdleStop(syncInflightMarker(c, now), attached)
<1>0. d \in SessionType /\ WellFormed(d) /\ d.io = "keep"
  BY DEF GoodSession, WellFormed, AtRest
<1>1. CASE d.autonomousTurn /\ d.activeTurns = 0
  <2>1. OnError(d, now, attached) = r
    BY <1>1 DEF OnError
  <2>2. /\ c \in SessionType /\ c.io = "keep" /\ c.marker = d.marker /\ c.child = d.child
        /\ c.activeTurns = d.activeTurns /\ c.watch = d.watch /\ c.armed = d.armed
        /\ c.failures = d.failures
    BY <1>0 DEF SessionType
  <2> HIDE DEF c
  <2>3. WellFormed(c) /\ Kept(d, c, {})
    BY <1>0, <2>2 DEF WellFormed, Kept
  <2>4. /\ GoodSession(r) /\ Followed(r) /\ Alike(r, c)
        /\ Kept(d, r, {}) \/ (c.marker = NoMarker /\ Begins(r, now, 0))
    BY <2>3, SyncedGood
  <2> HIDE DEF r
  <2> QED
    BY <1>1, <2>1, <2>2, <2>4 DEF Alike
<1>2. CASE ~(d.autonomousTurn /\ d.activeTurns = 0)
  <2>1. OnError(d, now, attached) = d
    BY <1>2 DEF OnError
  <2> QED
    BY <1>0, <2>1 DEF Kept
<1> QED
  BY <1>1, <1>2

\* The clocks that only wait change nothing the properties are about.
LEMMA TimersGood ==
  ASSUME NEW d, GoodSession(d), AtRest(d), NEW on \in BOOLEAN, NEW attached
  PROVE  LET i == [d EXCEPT !.idleTimer = on]
             t == [d EXCEPT !.settling = on]
             m == maybeScheduleIdleStop(d, attached)
         IN  /\ GoodSession(i) /\ AtRest(i) /\ Alike(i, d) /\ i.marker = d.marker
             /\ i.io = "keep"
             /\ GoodSession(t) /\ AtRest(t) /\ Alike(t, d) /\ t.marker = d.marker
             /\ GoodSession(m) /\ AtRest(m) /\ Alike(m, d) /\ m.marker = d.marker
<1> DEFINE i == [d EXCEPT !.idleTimer = on]
           t == [d EXCEPT !.settling = on]
           k == d.idleTimer \/ (~attached /\ ~isTurnInFlight(d))
           m == [d EXCEPT !.idleTimer = k]
<1>0. d \in SessionType /\ WellFormed(d) /\ d.io = "keep" /\ d.said = "nothing"
  BY DEF GoodSession, WellFormed, AtRest
<1>1. k \in BOOLEAN /\ maybeScheduleIdleStop(d, attached) = m
  BY <1>0 DEF maybeScheduleIdleStop, SessionType
<1> HIDE DEF k
<1>2. ASSUME NEW x \in {i, t, m}
      PROVE  /\ x \in SessionType /\ Alike(x, d) /\ x.marker = d.marker
             /\ x.io = "keep" /\ x.said = "nothing"
  BY <1>0, <1>1 DEF SessionType, Alike
<1> HIDE DEF i, t, m
<1>3. ASSUME NEW x \in {i, t, m}
      PROVE  GoodSession(x) /\ AtRest(x)
  <2>1. /\ x \in SessionType /\ Alike(x, d) /\ x.marker = d.marker
        /\ x.io = "keep" /\ x.said = "nothing"
    BY <1>2
  <2>2. Followed(x) = Followed(d) /\ Lost(x) = Lost(d)
    BY <2>1, AlikeFollowed
  <2> QED
    BY <1>0, <2>1, <2>2 DEF GoodSession, WellFormed, AtRest, Alike
<1> QED
  BY <1>1, <1>2, <1>3 DEF i, t

\* The session that is stopped leaves no marker.
LEMMA StopGood ==
  LET s == [NoSession EXCEPT !.io = "clear"]
  IN  /\ GoodSession(s) /\ s.marker = NoMarker /\ s.io = "clear" /\ s.child = "none"
      /\ Quiet(s) = NoSession /\ \A d : Kept(d, s, {})
<1> DEFINE s == [NoSession EXCEPT !.io = "clear"]
<1>0. GoodSession(NoSession) /\ NoSession \in SessionType
  BY FreshGood DEF GoodSession, WellFormed
<1>1. /\ s \in SessionType /\ Alike(s, NoSession) /\ s.marker = NoMarker
      /\ s.io = "clear" /\ s.child = "none"
  <2>1. s \in SessionType /\ Alike(s, NoSession) /\ s.marker = NoSession.marker /\ s.io = "clear"
    BY <1>0 DEF SessionType, Alike
  <2> QED
    BY <2>1, FreshGood DEF Alike
<1>2. Quiet(s) = NoSession
  <2>1. NoSession.io = "keep" /\ NoSession.said = "nothing"
    BY FreshGood DEF AtRest
  <2>2. [s EXCEPT !.io = NoSession.io, !.said = NoSession.said] = NoSession
    BY <1>0 DEF SessionType
  <2> QED
    BY <2>1, <2>2 DEF Quiet
<1> HIDE DEF s
<1>3. Followed(s) = Followed(NoSession)
  BY <1>1, FreshGood, AlikeFollowed
<1>4. GoodSession(s)
  BY <1>0, <1>1, <1>3, FreshGood, NoMarkerGood DEF GoodSession, WellFormed, Alike
<1> QED
  BY <1>1, <1>2, <1>4 DEF s, Kept

\* handleDriverEvent, arm by arm: what the step that hears an event may rely on.
LEMMA EventGood ==
  ASSUME NEW d, GoodSession(d), AtRest(d), NEW now \in Nat \ {0}, NEW event \in Events,
         NEW attached
  PROVE  LET r == handleDriverEvent(d, event, now, attached)
         IN  /\ GoodSession(r) /\ r.child = d.child
             /\ Kept(d, r, Also(event)) \/ (d.marker = NoMarker /\ Begins(r, now, 0))
             /\ r.activeTurns = TurnsAfter(event, d.activeTurns)
             /\ event \in {"work", "schedules"} => isTurnInFlight(r)
             /\ event \notin Closings /\ isTurnInFlight(d)
                  /\ (event = "error" => d.activeTurns > 0) => isTurnInFlight(r)
             /\ event \in Closings => Followed(r)
             /\ Followed(d) /\ (event = "absorbed" => d.activeTurns >= 1) => Followed(r)
             /\ r.watch = "fresh" => d.watch = "fresh"
<1>0. SUFFICES ASSUME NEW r, r = handleDriverEvent(d, event, now, attached)
      PROVE  /\ GoodSession(r) /\ r.child = d.child
             /\ Kept(d, r, Also(event)) \/ (d.marker = NoMarker /\ Begins(r, now, 0))
             /\ r.activeTurns = TurnsAfter(event, d.activeTurns)
             /\ event \in {"work", "schedules"} => isTurnInFlight(r)
             /\ event \notin Closings /\ isTurnInFlight(d)
                  /\ (event = "error" => d.activeTurns > 0) => isTurnInFlight(r)
             /\ event \in Closings => Followed(r)
             /\ Followed(d) /\ (event = "absorbed" => d.activeTurns >= 1) => Followed(r)
             /\ r.watch = "fresh" => d.watch = "fresh"
  OBVIOUS
<1>1. CASE event \in {"work", "schedules"}
  <2>1. PICK a : /\ r = ContinuationTook(a)
                 /\ GoodSession(a) /\ (Followed(d) => Followed(a))
                 /\ Kept(d, a, {}) \/ (d.marker = NoMarker /\ Begins(a, now, 0))
                 /\ a.child = d.child /\ a.activeTurns = d.activeTurns /\ isTurnInFlight(a)
    <3>1. CASE event = "work"
      <4>1. r = ContinuationTook(noteAgentWork(d, now, FALSE))
        BY <1>0, <3>1 DEF handleDriverEvent, OnWork, Closings
      <4> QED
        BY <4>1, AgentWorkGood
    <3>2. CASE event = "schedules"
      <4>1. r = ContinuationTook(noteAgentWork(d, now, TRUE))
        BY <1>0, <3>2 DEF handleDriverEvent, OnWork, Closings
      <4> QED
        BY <4>1, AgentWorkGood
    <3> QED
      BY <1>1, <3>1, <3>2
  <2>2. /\ GoodSession(r) /\ (Followed(a) => Followed(r))
        /\ Kept(d, r, {TRUE}) \/ (d.marker = NoMarker /\ Begins(r, now, 0))
        /\ r.child = a.child /\ r.activeTurns = a.activeTurns /\ r.watch = "none"
        /\ isTurnInFlight(r) = isTurnInFlight(a)
    BY <2>1, TookGood
  <2>3. Also(event) = {TRUE} /\ TurnsAfter(event, d.activeTurns) = d.activeTurns
    BY <1>1 DEF Also, TurnsAfter, Closings
  <2>4. event \notin Closings /\ isTurnInFlight(r) /\ r.watch # "fresh"
    BY <1>1, <2>1, <2>2 DEF Closings
  <2>5. /\ Kept(d, r, Also(event)) \/ (d.marker = NoMarker /\ Begins(r, now, 0))
        /\ r.activeTurns = TurnsAfter(event, d.activeTurns) /\ r.child = d.child
    BY <2>1, <2>2, <2>3
  <2> QED
    BY <2>1, <2>2, <2>4, <2>5
<1>2. CASE event = "delta"
  <2>1. r = OnDelta(d)
    BY <1>0, <1>2 DEF handleDriverEvent, Closings
  <2>2. GoodSession(r) /\ Alike(r, d) /\ r.marker = d.marker /\ r.io = "keep"
    BY <2>1, DeltaGood
  <2>3. /\ isTurnInFlight(r) = isTurnInFlight(d) /\ Followed(r) = Followed(d)
        /\ Kept(d, r, Also(event))
    BY <2>2, AlikeFollowed DEF Kept
  <2>4. /\ r.child = d.child /\ r.activeTurns = d.activeTurns /\ r.watch = d.watch
        /\ TurnsAfter(event, d.activeTurns) = d.activeTurns
        /\ event \notin {"work", "schedules"} \cup Closings /\ Also(event) = {}
    BY <1>2, <2>2 DEF Alike, TurnsAfter, Closings, Also
  <2> QED
    BY <2>2, <2>3, <2>4
<1>3. CASE event \in {"tasks", "no_tasks"}
  <2>1. /\ GoodSession(r) /\ Followed(r)
        /\ Kept(d, r, {}) \/ (d.marker = NoMarker /\ Begins(r, now, 0))
        /\ r.child = d.child /\ r.activeTurns = d.activeTurns /\ r.watch = d.watch
        /\ isTurnInFlight(r) = isTurnInFlight(d)
    <3>1. CASE event = "tasks"
      <4>1. r = OnTasks(d, now, TRUE, attached)
        BY <1>0, <3>1 DEF handleDriverEvent, Closings
      <4> QED
        BY <4>1, OnTasksGood
    <3>2. CASE event = "no_tasks"
      <4>1. r = OnTasks(d, now, FALSE, attached)
        BY <1>0, <3>2 DEF handleDriverEvent, Closings
      <4> QED
        BY <4>1, OnTasksGood
    <3> QED
      BY <1>3, <3>1, <3>2
  <2>2. /\ Also(event) = {} /\ TurnsAfter(event, d.activeTurns) = d.activeTurns
        /\ event \notin {"work", "schedules", "error"} \cup Closings
    BY <1>3 DEF Also, TurnsAfter, Closings
  <2> QED
    BY <2>1, <2>2
<1>4. CASE event = "absorbed"
  <2>1. r = OnAbsorbed(d)
    BY <1>0, <1>4 DEF handleDriverEvent, Closings
  <2>2. /\ GoodSession(r) /\ Kept(d, r, {})
        /\ r.child = d.child /\ r.watch = d.watch
        /\ r.activeTurns = IF d.activeTurns - 1 > 1 THEN d.activeTurns - 1 ELSE 1
        /\ isTurnInFlight(r)
        /\ d.activeTurns >= 1 /\ Followed(d) => Followed(r)
    BY <2>1, AbsorbedGood
  <2>3. /\ Also(event) = {} /\ r.activeTurns = TurnsAfter(event, d.activeTurns)
        /\ event \notin {"work", "schedules", "error"} \cup Closings
    BY <1>4, <2>2 DEF Also, TurnsAfter, Closings
  <2> QED
    BY <1>4, <2>2, <2>3
<1>5. CASE event \in Closings
  <2>0. event \notin {"work", "schedules", "delta", "tasks", "no_tasks", "absorbed", "error"}
    BY <1>5 DEF Closings
  <2>1. r = OnResult(d, now, event, attached)
    BY <1>0, <1>5, <2>0 DEF handleDriverEvent, Closings
  <2>2. /\ GoodSession(r) /\ Followed(r)
        /\ Kept(d, r, {}) \/ (d.marker = NoMarker /\ Begins(r, now, 0))
        /\ r.child = d.child /\ r.watch = d.watch
        /\ r.activeTurns = IF d.activeTurns > 0 THEN d.activeTurns - 1 ELSE 0
    BY <1>5, <2>1, ResultGood
  <2>3. Also(event) = {} /\ r.activeTurns = TurnsAfter(event, d.activeTurns)
    BY <1>5, <2>0, <2>2 DEF Also, TurnsAfter
  <2> QED
    BY <1>5, <2>0, <2>2, <2>3
<1>6. CASE event = "error"
  <2>1. r = OnError(d, now, attached)
    BY <1>0, <1>6 DEF handleDriverEvent, Closings
  <2>2. /\ GoodSession(r) /\ (Followed(d) => Followed(r))
        /\ Kept(d, r, {}) \/ (d.marker = NoMarker /\ Begins(r, now, 0))
        /\ r.child = d.child /\ r.watch = d.watch /\ r.activeTurns = d.activeTurns
        /\ d.activeTurns > 0 /\ isTurnInFlight(d) => isTurnInFlight(r)
    BY <2>1, ErrorGood
  <2>3. /\ Also(event) = {} /\ TurnsAfter(event, d.activeTurns) = d.activeTurns
        /\ event \notin {"work", "schedules", "absorbed"} \cup Closings
    BY <1>6 DEF Also, TurnsAfter, Closings
  <2> QED
    BY <1>6, <2>2, <2>3
<1> QED
  BY <1>1, <1>2, <1>3, <1>4, <1>5, <1>6 DEF Events
=============================================================================

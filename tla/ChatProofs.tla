------------------------------ MODULE ChatProofs ------------------------------
(***************************************************************************)
(* Machine-checked proofs about the native chat of a card (NativeChat) as  *)
(* ChatDelivery composes it with its tab, for any number of backends, any  *)
(* bounds of the pipes and any faults and inputs.                          *)
(*                                                                         *)
(* IInv relates the five places the code keeps apart: the count of the     *)
(* manager, the CLI, the events not yet read, the marker file and the      *)
(* resume tasks.  Each action is one lemma, XStep: what it does to its     *)
(* driver, CLI and pipe (Local), where drivers live (Homes) and what is on *)
(* disk (Promise).  The handlers' own facts are those of ChatDriverProofs. *)
(***************************************************************************)
EXTENDS ChatDelivery, ChatDriverProofs, SequenceTheorems, FiniteSetTheorems,
        FunctionTheorems

-----------------------------------------------------------------------------
(* One driver, its CLI, and the events between them.                       *)

CliType ==
  [run: {"no", "given", "own"}, spoke: BOOLEAN,
   after: SUBSET {"task", "notice", "wakeup", "tail"}, held: Nat]

\* Of the right shape; with no driver there is no pipe, with no process no CLI.
Shaped(d, c, p) ==
  /\ GoodSession(d) /\ AtRest(d)
  /\ c \in CliType /\ c.held <= MaxHeld
  /\ p \in Seq(Events) /\ Len(p) <= MaxPipe
  /\ ~Open(d) => d = NoSession /\ p = <<>>
  /\ d.child # "up" => c = NoCli

\* An event of S after event i is on its way: a result, or one that may also
\* be taken for the end of a turn the CLI opened by itself.
Later(p, i, S) == \E j \in DOMAIN p : j > i /\ p[j] \in S
Closes(p, i) == Later(p, i, Closings)
Mutes(p, i)  == Later(p, i, Closings \cup {"error"})

\* What the CLI still answers, and the results on their way, are counted.
Given(c) == IF c.run = "given" THEN 1 ELSE 0
Counts(d, c, p) ==
  /\ \A i \in DOMAIN p : p[i] = "absorbed" => Downs(p, i) <= d.activeTurns
  /\ \/ c.held + Given(c) + Downs(p, Len(p)) <= d.activeTurns
     \/ c.held = 0 /\ c.run # "given"
  /\ c.run = "own" => c.held = 0

\* Once the CLI rests, a result is still to be heard wherever the count is wrong.
Settled(d, c, p) ==
  d.child = "up" /\ c.run = "no" =>
     /\ ~Followed(d) => Closes(p, 0)
     /\ \A i \in DOMAIN p : p[i] = "absorbed" => Closes(p, i)

\* A turn that spoke is in flight for the manager, or will be by its own words.
Heard(d, c, p) ==
  d.child = "up" /\ c.run # "no" /\ c.spoke =>
     \/ \E i \in DOMAIN p : p[i] \in {"work", "schedules"} /\ ~Mutes(p, i)
     \/ isTurnInFlight(d) /\ ~Mutes(p, 0)

Good(d, c, p)  == Shaped(d, c, p) /\ Settled(d, c, p) /\ Heard(d, c, p)
Sound(d, c, p) == Counts(d, c, p) /\ Followed(d)

-----------------------------------------------------------------------------
(* How the events not yet read grow and shrink.                            *)

IsDown(e) == e \in Closings \cup {"absorbed"}

\* The count of what takes turns down is a number.
LEMMA DownsNat ==
  ASSUME NEW p, NEW i \in Nat
  PROVE  /\ Downs(p, i) \in Nat /\ Downs(p, 0) = 0
         /\ IsFiniteSet({j \in 1 .. i : p[j] \in Closings \cup {"absorbed"}})
<1>1. IsFiniteSet(1 .. i)
  BY FS_Interval
<1>2. IsFiniteSet({j \in 1 .. i : p[j] \in Closings \cup {"absorbed"}})
  BY <1>1, FS_Subset
<1>3. {j \in 1 .. 0 : p[j] \in Closings \cup {"absorbed"}} = {}
  OBVIOUS
<1> QED
  BY <1>2, <1>3, FS_CardinalityType, FS_EmptySet DEF Downs

\* The same over the events of a pipe.
LEMMA DownsOf ==
  ASSUME NEW p \in Seq(Events)
  PROVE  /\ Len(p) \in Nat /\ Downs(p, Len(p)) \in Nat
         /\ \A i \in DOMAIN p : i \in Nat /\ Downs(p, i) \in Nat
<1>1. Len(p) \in Nat /\ DOMAIN p = 1 .. Len(p)
  BY LenProperties
<1>2. \A i \in DOMAIN p : i \in Nat
  BY <1>1
<1> QED
  BY <1>1, <1>2, DownsNat

\* One more event: the counts before it stay, the last grows by what it takes down.
LEMMA DownsAppend ==
  ASSUME NEW p \in Seq(Events), NEW e \in Events
  PROVE  LET q == Append(p, e)
         IN  /\ \A i \in 0 .. Len(p) : Downs(q, i) = Downs(p, i)
             /\ Downs(q, Len(q)) = IF IsDown(e) THEN Downs(p, Len(p)) + 1 ELSE Downs(p, Len(p))
<1> DEFINE q == Append(p, e)
           n == Len(p)
           S(s, i) == {j \in 1 .. i : s[j] \in Closings \cup {"absorbed"}}
<1>1. n \in Nat /\ Len(q) = n + 1 /\ q[n + 1] = e /\ \A j \in 1 .. n : q[j] = p[j]
  BY AppendProperties, LenProperties
<1>2. \A s, i : Downs(s, i) = Cardinality(S(s, i))
  BY DEF Downs
<1> HIDE DEF q, n
<1>3. \A i \in 0 .. n : S(q, i) = S(p, i)
  BY <1>1
<1>4. CASE IsDown(e)
  <2>1. S(q, n + 1) = S(p, n) \cup {n + 1} /\ n + 1 \notin S(p, n)
    BY <1>1, <1>4 DEF IsDown
  <2>2. IsFiniteSet(S(p, n))
    BY <1>1, DownsNat
  <2> HIDE DEF S
  <2>3. Cardinality(S(q, n + 1)) = Cardinality(S(p, n)) + 1
    BY <2>1, <2>2, FS_AddElement
  <2> QED
    BY <1>1, <1>2, <1>3, <1>4, <2>3 DEF q, n
<1>5. CASE ~IsDown(e)
  <2>1. S(q, n + 1) = S(p, n)
    BY <1>1, <1>5 DEF IsDown
  <2> HIDE DEF S
  <2> QED
    BY <1>1, <1>2, <1>3, <1>5, <2>1 DEF q, n
<1> QED
  BY <1>4, <1>5

\* The first event goes: every later count loses what it took down.
LEMMA DownsTail ==
  ASSUME NEW p \in Seq(Events), p # <<>>, NEW i \in 0 .. Len(p) - 1
  PROVE  Downs(p, i + 1) =
           IF IsDown(Head(p)) THEN Downs(Tail(p), i) + 1 ELSE Downs(Tail(p), i)
<1> DEFINE q == Tail(p)
           S(s, k) == {j \in 1 .. k : s[j] \in Closings \cup {"absorbed"}}
           R == {j \in 2 .. i + 1 : p[j] \in Closings \cup {"absorbed"}}
           f == [j \in S(q, i) |-> j + 1]
<1>0. Len(p) \in Nat \ {0} /\ i \in Nat
  BY EmptySeq, LenProperties
<1>1. \A j \in 1 .. Len(p) - 1 : q[j] = p[j + 1]
  BY HeadTailProperties
<1>2. Head(p) = p[1]
  BY HeadTailProperties
<1>3. \A s, k : Downs(s, k) = Cardinality(S(s, k))
  BY DEF Downs
<1> HIDE DEF q
<1>4. f \in Bijection(S(q, i), R)
  <2>1. f \in [S(q, i) -> R]
    BY <1>0, <1>1
  <2>2. \A a, b \in S(q, i) : f[a] = f[b] => a = b
    OBVIOUS
  <2>3. \A r \in R : \E a \in S(q, i) : f[a] = r
    <3> TAKE r \in R
    <3>1. r - 1 \in S(q, i) /\ f[r - 1] = r
      BY <1>0, <1>1
    <3> QED
      BY <3>1
  <2> QED
    BY <2>1, <2>2, <2>3, Fun_IsBij
<1>5. IsFiniteSet(S(q, i))
  BY <1>0, DownsNat
<1>6. Cardinality(R) = Cardinality(S(q, i)) /\ IsFiniteSet(R)
  <2> HIDE DEF f, S, R
  <2> QED
    BY <1>4, <1>5, FS_Bijection DEF ExistsBijection
<1>7. CASE IsDown(Head(p))
  <2>1. S(p, i + 1) = R \cup {1} /\ 1 \notin R
    BY <1>0, <1>2, <1>7 DEF IsDown
  <2> HIDE DEF f, S, R
  <2>2. Cardinality(S(p, i + 1)) = Cardinality(R) + 1
    BY <1>6, <2>1, FS_AddElement
  <2> QED
    BY <1>3, <1>6, <1>7, <2>2 DEF q
<1>8. CASE ~IsDown(Head(p))
  <2>1. S(p, i + 1) = R
    BY <1>0, <1>2, <1>8 DEF IsDown
  <2> HIDE DEF f, S, R
  <2> QED
    BY <1>3, <1>6, <1>8, <2>1 DEF q
<1> QED
  BY <1>7, <1>8

\* One more event, and one less, in a pipe.
LEMMA PipeAppend ==
  ASSUME NEW p \in Seq(Events), NEW e \in Events
  PROVE  LET q == Append(p, e)
             n == Len(p)
         IN  /\ n \in Nat /\ q \in Seq(Events) /\ Len(q) = n + 1 /\ q[n + 1] = e
             /\ DOMAIN p = 1 .. n /\ DOMAIN q = 1 .. n + 1
             /\ \A i \in 1 .. n : q[i] = p[i]
BY AppendProperties, LenProperties

\* What the rest of a pipe holds once its first event was read.
LEMMA PipeTail ==
  ASSUME NEW p \in Seq(Events), p # <<>>
  PROVE  LET q == Tail(p)
             n == Len(p) - 1
         IN  /\ n \in Nat /\ q \in Seq(Events) /\ Len(q) = n
             /\ DOMAIN q = 1 .. n /\ DOMAIN p = 1 .. n + 1
             /\ Head(p) = p[1] /\ Head(p) \in Events
             /\ \A i \in 1 .. n : q[i] = p[i + 1]
BY HeadTailProperties, EmptySeq, LenProperties, ElementOfSeq

\* One more event: the events of S that come after the earlier ones.
LEMMA LaterAppend ==
  ASSUME NEW p \in Seq(Events), NEW e \in Events, NEW S
  PROVE  LET q == Append(p, e)
             n == Len(p)
         IN  /\ n \in Nat /\ q \in Seq(Events) /\ Len(q) = n + 1 /\ q[n + 1] = e
             /\ DOMAIN p = 1 .. n /\ DOMAIN q = 1 .. n + 1
             /\ \A i \in 1 .. n : q[i] = p[i]
             /\ e \in S => \A i \in 0 .. n : Later(q, i, S)
             /\ e \notin S => /\ \A i \in 0 .. n : Later(q, i, S) <=> Later(p, i, S)
                              /\ ~Later(q, n + 1, S)
<1> DEFINE q == Append(p, e)
           n == Len(p)
<1>1. /\ n \in Nat /\ q \in Seq(Events) /\ Len(q) = n + 1 /\ q[n + 1] = e
      /\ DOMAIN p = 1 .. n /\ DOMAIN q = 1 .. n + 1 /\ \A i \in 1 .. n : q[i] = p[i]
  BY PipeAppend
<1> HIDE DEF q, n
<1>2. ASSUME e \in S, NEW i \in 0 .. n PROVE Later(q, i, S)
  BY <1>1, <1>2 DEF Later
<1>3. ASSUME e \notin S, NEW i \in 0 .. n PROVE Later(q, i, S) <=> Later(p, i, S)
  BY <1>1, <1>3 DEF Later
<1>4. ASSUME e \notin S PROVE ~Later(q, n + 1, S)
  BY <1>1 DEF Later
<1> QED
  BY <1>1, <1>2, <1>3, <1>4 DEF q, n

\* The first event goes: the rest moves up by one.
LEMMA LaterTail ==
  ASSUME NEW p \in Seq(Events), p # <<>>, NEW S
  PROVE  LET q == Tail(p)
             n == Len(p) - 1
         IN  /\ n \in Nat /\ q \in Seq(Events) /\ Len(q) = n
             /\ DOMAIN q = 1 .. n /\ DOMAIN p = 1 .. n + 1
             /\ Head(p) = p[1] /\ Head(p) \in Events
             /\ \A i \in 1 .. n : q[i] = p[i + 1]
             /\ \A i \in 0 .. n : Later(q, i, S) <=> Later(p, i + 1, S)
             /\ Head(p) \notin S => (Later(p, 0, S) <=> Later(p, 1, S))
<1> DEFINE q == Tail(p)
           n == Len(p) - 1
<1>1. /\ n \in Nat /\ q \in Seq(Events) /\ Len(q) = n
      /\ DOMAIN q = 1 .. n /\ DOMAIN p = 1 .. n + 1
      /\ Head(p) = p[1] /\ Head(p) \in Events
      /\ \A i \in 1 .. n : q[i] = p[i + 1]
  BY PipeTail
<1> HIDE DEF q, n
<1>2. ASSUME NEW i \in 0 .. n PROVE Later(q, i, S) <=> Later(p, i + 1, S)
  <2>1. ASSUME Later(q, i, S) PROVE Later(p, i + 1, S)
    <3>1. PICK j \in 1 .. n : j > i /\ q[j] \in S
      BY <1>1, <2>1 DEF Later
    <3>2. j + 1 \in 1 .. n + 1 /\ j + 1 > i + 1 /\ p[j + 1] = q[j]
      BY <1>1, <3>1
    <3> QED
      BY <1>1, <3>1, <3>2 DEF Later
  <2>2. ASSUME Later(p, i + 1, S) PROVE Later(q, i, S)
    <3>1. PICK j \in 1 .. n + 1 : j > i + 1 /\ p[j] \in S
      BY <1>1, <2>2 DEF Later
    <3>2. j - 1 \in 1 .. n /\ j - 1 > i /\ q[j - 1] = p[j]
      BY <1>1, <3>1
    <3> QED
      BY <1>1, <3>1, <3>2 DEF Later
  <2> QED
    BY <2>1, <2>2
<1>3. ASSUME Head(p) \notin S PROVE Later(p, 0, S) <=> Later(p, 1, S)
  BY <1>1, <1>3 DEF Later
<1> QED
  BY <1>1, <1>2, <1>3 DEF q, n

-----------------------------------------------------------------------------
\* A CLI that is not there, or takes nothing yet, with nothing on its way.
LEMMA FreshlyGood ==
  /\ Good(NoSession, NoCli, <<>>) /\ Sound(NoSession, NoCli, <<>>)
  /\ Good(FreshSession, NoCli, <<>>) /\ Sound(FreshSession, NoCli, <<>>)
  /\ NoCli \in CliType /\ NoCli.run = "no" /\ NoCli.held = 0 /\ ~NoCli.spoke
<1>1. NoCli \in CliType /\ NoCli.run = "no" /\ NoCli.held = 0 /\ ~NoCli.spoke
  BY DEF NoCli, CliType
<1>2. <<>> \in Seq(Events) /\ Len(<<>>) = 0 /\ DOMAIN <<>> = {}
  BY EmptySeq
<1>3. /\ Settled(NoSession, NoCli, <<>>) /\ Settled(FreshSession, NoCli, <<>>)
      /\ Heard(NoSession, NoCli, <<>>) /\ Heard(FreshSession, NoCli, <<>>)
  BY <1>1, <1>2, FreshGood DEF Settled, Heard
<1>4. Counts(NoSession, NoCli, <<>>) /\ Counts(FreshSession, NoCli, <<>>)
  BY <1>1, <1>2 DEF Counts
<1>5. Shaped(NoSession, NoCli, <<>>) /\ Shaped(FreshSession, NoCli, <<>>)
  BY <1>1, <1>2, FreshGood, BoundsAssumption DEF Shaped, Open
<1> QED
  BY <1>1, <1>3, <1>4, <1>5, FreshGood DEF Good, Sound

\* A handler that keeps the count, what is in flight and what is followed.
LEMMA StepGood ==
  ASSUME NEW d, NEW c, NEW p, Good(d, c, p), Open(d),
         NEW r, GoodSession(r), AtRest(r), r.child = d.child, r.activeTurns = d.activeTurns,
         isTurnInFlight(d) => isTurnInFlight(r), Followed(d) => Followed(r)
  PROVE  /\ Good(r, c, p) /\ Open(r)
         /\ Sound(d, c, p) => Sound(r, c, p)
<1>1. Shaped(r, c, p) /\ Open(r)
  BY DEF Good, Shaped, Open
<1>2. Settled(r, c, p) /\ Heard(r, c, p)
  BY DEF Good, Settled, Heard
<1>3. Counts(d, c, p) => Counts(r, c, p)
  BY DEF Counts
<1> QED
  BY <1>1, <1>2, <1>3 DEF Good, Sound

\* The message of a turn that enters is one more the CLI holds, if it lives.
Holding(c, child) == [c EXCEPT !.held = IF child = "up" THEN c.held + 1 ELSE c.held]

\* A turn that enters is counted before the CLI has it; unless a turn the CLI
\* opened by itself is still open or its result unread, the count stays right.
LEMMA SendGood ==
  ASSUME NEW d, NEW c, NEW p, Good(d, c, p), Open(d), c.held < MaxHeld,
         NEW r, GoodSession(r), AtRest(r), r.child = d.child,
         r.activeTurns = d.activeTurns + 1, isTurnInFlight(r), Followed(r)
  PROVE  /\ Good(r, Holding(c, d.child), p) /\ Open(r)
         /\ /\ Sound(d, c, p)
            /\ ~(c.run = "own" \/ Downs(p, Len(p)) > d.activeTurns)
            => Sound(r, Holding(c, d.child), p)
<1> DEFINE k == Holding(c, d.child)
<1>0. /\ c \in CliType /\ c.held \in Nat /\ c.held <= MaxHeld /\ MaxHeld \in Nat
      /\ p \in Seq(Events) /\ d \in SessionType /\ d.activeTurns \in Nat
  BY BoundsAssumption DEF Good, Shaped, CliType, GoodSession, WellFormed, SessionType
<1>1. /\ k \in CliType /\ k.run = c.run /\ k.spoke = c.spoke
      /\ k.held = IF d.child = "up" THEN c.held + 1 ELSE c.held
  BY <1>0 DEF Holding, CliType
<1>2. k.held <= MaxHeld /\ k.held \in Nat
  BY <1>0, <1>1
<1>3. d.child # "up" => k = NoCli
  <2>1. [NoCli EXCEPT !.held = NoCli.held] = NoCli
    BY DEF NoCli
  <2> QED
    BY <2>1 DEF Good, Shaped, Holding
<1> HIDE DEF k
<1>4. Shaped(r, k, p) /\ Open(r)
  BY <1>1, <1>2, <1>3 DEF Good, Shaped, Open
<1>5. Settled(r, k, p) /\ Heard(r, k, p)
  BY <1>1 DEF Good, Settled, Heard
<1>6. ASSUME Sound(d, c, p), ~(c.run = "own" \/ Downs(p, Len(p)) > d.activeTurns)
      PROVE  Counts(r, k, p)
  <2>1. Len(p) \in Nat /\ Downs(p, Len(p)) \in Nat /\ \A i \in DOMAIN p : Downs(p, i) \in Nat
    BY <1>0, DownsOf
  <2>2. \A i \in DOMAIN p : p[i] = "absorbed" => Downs(p, i) <= r.activeTurns
    BY <1>0, <1>6, <2>1 DEF Sound, Counts
  <2>3. Given(k) = Given(c) /\ Given(c) \in {0, 1} /\ (c.run # "given" => Given(c) = 0)
    BY <1>1 DEF Given
  <2>4. k.held + Given(k) + Downs(p, Len(p)) <= r.activeTurns
    <3> DEFINE n == Downs(p, Len(p))
    <3>1. n \in Nat /\ n <= d.activeTurns
      BY <1>0, <1>6, <2>1
    <3>2. c.held + Given(c) + n <= d.activeTurns \/ (c.held = 0 /\ c.run # "given")
      BY <1>6 DEF Sound, Counts
    <3> HIDE DEF n
    <3>3. k.held + Given(k) + n <= r.activeTurns
      BY SMTT(30), <1>0, <1>1, <1>2, <2>3, <3>1, <3>2
    <3> QED
      BY <3>3 DEF n
  <2> QED
    BY <1>1, <1>6, <2>2, <2>4 DEF Counts
<1> QED
  BY <1>4, <1>5, <1>6 DEF Good, Sound, k

\* The result of a turn on its way: the CLI rests, and what it held is as it was.
LEMMA CloseGood ==
  ASSUME NEW d, NEW c, NEW p, Good(d, c, p), c.run # "no", Len(p) < MaxPipe,
         NEW e \in Events, e \in Closings, NEW k \in CliType, k.run = "no", k.held = c.held,
         NEW r, GoodSession(r), AtRest(r), r.child = "up"
  PROVE  /\ Good(r, k, Append(p, e)) /\ Open(r)
         /\ Sound(d, c, p) /\ r.activeTurns = d.activeTurns /\ Followed(r)
            => Sound(r, k, Append(p, e))
<1> DEFINE q == Append(p, e)
           n == Len(p)
<1>0. /\ p \in Seq(Events) /\ c \in CliType /\ c.held \in Nat /\ c.held <= MaxHeld
      /\ n \in Nat /\ n < MaxPipe /\ MaxPipe \in Nat
      /\ d \in SessionType /\ d.activeTurns \in Nat
  BY LenProperties, BoundsAssumption
  DEF Good, Shaped, CliType, GoodSession, WellFormed, SessionType
<1>1. /\ q \in Seq(Events) /\ Len(q) = n + 1 /\ q[n + 1] = e
      /\ DOMAIN p = 1 .. n /\ DOMAIN q = 1 .. n + 1
      /\ \A i \in 1 .. n : q[i] = p[i]
      /\ \A i \in 0 .. n : Closes(q, i)
  BY <1>0, LaterAppend DEF Closes
<1>2. /\ \A i \in 0 .. n : Downs(q, i) = Downs(p, i)
      /\ Downs(q, Len(q)) = Downs(p, n) + 1
  BY <1>0, DownsAppend DEF IsDown
<1>3. Downs(p, n) \in Nat
  BY <1>0, DownsNat
<1>4. e # "absorbed"
  BY DEF Closings
<1> HIDE DEF q, n
<1>5. Shaped(r, k, q) /\ Open(r)
  BY <1>0, <1>1 DEF Good, Shaped, Open
<1>6. Settled(r, k, q) /\ Heard(r, k, q)
  <2>1. \A i \in DOMAIN q : q[i] = "absorbed" => Closes(q, i)
    BY <1>0, <1>1, <1>4
  <2> QED
    BY <1>0, <1>1, <2>1 DEF Settled, Heard
<1>7. ASSUME Sound(d, c, p), r.activeTurns = d.activeTurns
      PROVE  Counts(r, k, q)
  <2>1. \A i \in DOMAIN q : q[i] = "absorbed" => Downs(q, i) <= r.activeTurns
    BY <1>0, <1>1, <1>2, <1>4, <1>7 DEF Sound, Counts
  <2>2. Given(k) = 0
    BY DEF Given
  <2>3. CASE c.run = "given"
    <3>1. c.held + 1 + Downs(p, n) <= d.activeTurns
      BY <1>7, <2>3 DEF Sound, Counts, Given, n
    <3>2. k.held + Given(k) + Downs(q, Len(q)) <= r.activeTurns
      BY <1>0, <1>2, <1>3, <1>7, <2>2, <3>1
    <3> QED
      BY <2>1, <3>2 DEF Counts
  <2>4. CASE c.run = "own"
    BY <1>7, <2>1, <2>4 DEF Sound, Counts
  <2> QED
    BY <1>0, <2>3, <2>4 DEF CliType
<1> QED
  BY <1>5, <1>6, <1>7 DEF Good, Sound, q

\* What the CLI says within a turn, or as it opens one by itself.
LEMMA EmitGood ==
  ASSUME NEW d, NEW c, NEW p, Good(d, c, p), d.child = "up", Len(p) < MaxPipe,
         NEW e \in Events, ~IsDown(e), NEW k \in CliType, k.held = c.held,
         \/ k.run = c.run /\ (k.spoke => c.spoke \/ e \in {"work", "schedules"})
         \/ c.run = "no" /\ k.run = "own" /\ ~k.spoke,
         e = "error" => ~k.spoke
  PROVE  /\ Good(d, k, Append(p, e))
         /\ Sound(d, c, p) /\ (k.run = "own" => k.held = 0) => Sound(d, k, Append(p, e))
<1> DEFINE q == Append(p, e)
           n == Len(p)
<1>0. /\ p \in Seq(Events) /\ c \in CliType /\ c.held \in Nat /\ c.held <= MaxHeld
      /\ n \in Nat /\ n < MaxPipe /\ MaxPipe \in Nat
  BY LenProperties, BoundsAssumption DEF Good, Shaped, CliType
<1>1. e \notin Closings /\ e # "absorbed"
  BY DEF IsDown
<1>2. /\ q \in Seq(Events) /\ Len(q) = n + 1 /\ q[n + 1] = e
      /\ DOMAIN p = 1 .. n /\ DOMAIN q = 1 .. n + 1
      /\ \A i \in 1 .. n : q[i] = p[i]
      /\ \A i \in 0 .. n : Closes(q, i) <=> Closes(p, i)
      /\ ~Closes(q, n + 1)
  BY <1>0, <1>1, LaterAppend DEF Closes
<1>9. e # "error" => /\ \A i \in 0 .. n : Mutes(q, i) <=> Mutes(p, i)
                     /\ ~Mutes(q, n + 1)
  <2> SUFFICES ASSUME e # "error"
               PROVE  /\ \A i \in 0 .. n : Mutes(q, i) <=> Mutes(p, i)
                      /\ ~Mutes(q, n + 1)
    OBVIOUS
  <2>1. e \notin Closings \cup {"error"}
    BY <1>1
  <2> QED
    BY <1>0, <2>1, LaterAppend DEF Mutes
<1>3. /\ \A i \in 0 .. n : Downs(q, i) = Downs(p, i)
      /\ Downs(q, Len(q)) = Downs(p, n)
  BY <1>0, DownsAppend
<1> HIDE DEF q
<1>4. Shaped(d, k, q)
  <2>1. Len(q) <= MaxPipe
    BY <1>0, <1>2
  <2> QED
    BY <1>0, <1>2, <2>1 DEF Good, Shaped, Open
<1> HIDE DEF n
<1>5. Settled(d, k, q)
  <2>1. k.run = "no" => c.run = "no"
    OBVIOUS
  <2>2. \A i \in DOMAIN q : q[i] = "absorbed" => i \in DOMAIN p /\ p[i] = "absorbed"
    BY <1>0, <1>1, <1>2
  <2> QED
    BY <1>0, <1>2, <2>1, <2>2 DEF Good, Settled
<1>6. Heard(d, k, q)
  <2> SUFFICES ASSUME k.run # "no", k.spoke
               PROVE  \/ \E i \in DOMAIN q : q[i] \in {"work", "schedules"} /\ ~Mutes(q, i)
                      \/ isTurnInFlight(d) /\ ~Mutes(q, 0)
    BY DEF Heard
  <2>0. /\ \A i \in 0 .. n : Mutes(q, i) <=> Mutes(p, i)
        /\ ~Mutes(q, n + 1)
    BY <1>9
  <2>1. CASE e \in {"work", "schedules"}
    <3>1. n + 1 \in DOMAIN q
      BY <1>0, <1>2
    <3> QED
      BY <1>2, <2>0, <2>1, <3>1
  <2>2. CASE e \notin {"work", "schedules"}
    <3>1. c.run # "no" /\ c.spoke
      BY <2>2
    <3>2. \/ \E i \in DOMAIN p : p[i] \in {"work", "schedules"} /\ ~Mutes(p, i)
          \/ isTurnInFlight(d) /\ ~Mutes(p, 0)
      BY <3>1 DEF Good, Heard
    <3>3. ASSUME NEW i \in DOMAIN p, p[i] \in {"work", "schedules"}, ~Mutes(p, i)
          PROVE  i \in DOMAIN q /\ q[i] \in {"work", "schedules"} /\ ~Mutes(q, i)
      BY <1>0, <1>2, <2>0, <3>3
    <3>4. Mutes(q, 0) <=> Mutes(p, 0)
      BY <1>0, <2>0
    <3> QED
      BY <3>2, <3>3, <3>4
  <2> QED
    BY <2>1, <2>2
<1>7. ASSUME Sound(d, c, p), k.run = "own" => k.held = 0
      PROVE  Counts(d, k, q)
  <2>1. \A i \in DOMAIN q : q[i] = "absorbed" => Downs(q, i) <= d.activeTurns
    BY <1>0, <1>1, <1>2, <1>3, <1>7 DEF Sound, Counts
  <2>2. CASE k.run = c.run
    <3>1. Given(k) = Given(c)
      BY <2>2 DEF Given
    <3> QED
      BY <1>3, <1>7, <2>1, <2>2, <3>1 DEF Sound, Counts, n
  <2>3. CASE k.run = "own"
    BY <1>7, <2>1, <2>3 DEF Counts
  <2> QED
    BY <2>2, <2>3
<1> QED
  BY <1>4, <1>5, <1>6, <1>7 DEF Good, Sound, q

\* The CLI takes a message it held: as a turn of its own.
LEMMA TakeGood ==
  ASSUME NEW d, NEW c, NEW p, Good(d, c, p), d.child = "up", c.held > 0, c.run = "no",
         NEW k \in CliType, k.run = "given", ~k.spoke, k.held = c.held - 1
  PROVE  Good(d, k, p) /\ (Sound(d, c, p) => Sound(d, k, p))
<1>0. /\ p \in Seq(Events) /\ c \in CliType /\ c.held \in Nat /\ c.held <= MaxHeld
      /\ MaxHeld \in Nat /\ d.activeTurns \in Nat
  BY BoundsAssumption DEF Good, Shaped, CliType, GoodSession, WellFormed, SessionType
<1>1. Shaped(d, k, p)
  BY <1>0 DEF Good, Shaped
<1>2. Settled(d, k, p) /\ Heard(d, k, p)
  BY DEF Settled, Heard
<1>3. ASSUME Sound(d, c, p) PROVE Counts(d, k, p)
  <2>1. Given(k) = 1 /\ Given(c) = 0
    BY DEF Given
  <2>2. Downs(p, Len(p)) \in Nat
    BY <1>0, DownsOf
  <2>3. c.held + Given(c) + Downs(p, Len(p)) <= d.activeTurns
    BY <1>0, <1>3 DEF Sound, Counts
  <2>4. k.held + Given(k) + Downs(p, Len(p)) <= d.activeTurns
    BY <1>0, <2>1, <2>2, <2>3
  <2> QED
    BY <1>3, <2>4 DEF Sound, Counts
<1> QED
  BY <1>1, <1>2, <1>3 DEF Good, Sound

\* The CLI takes a message it held: folded into the turn it is in.
LEMMA FoldGood ==
  ASSUME NEW d, NEW c, NEW p, Good(d, c, p), d.child = "up", c.held > 0, c.run # "no",
         Len(p) < MaxPipe,
         NEW k \in CliType, k.run = "given", k.spoke = c.spoke, k.held = c.held - 1
  PROVE  LET q == Append(p, "absorbed")
         IN  Good(d, k, q) /\ (Sound(d, c, p) => Sound(d, k, q))
<1> DEFINE q == Append(p, "absorbed")
           n == Len(p)
<1>0. /\ p \in Seq(Events) /\ c \in CliType /\ c.held \in Nat /\ c.held <= MaxHeld
      /\ MaxHeld \in Nat /\ n \in Nat /\ n < MaxPipe /\ MaxPipe \in Nat
      /\ d.activeTurns \in Nat /\ "absorbed" \in Events /\ "absorbed" \notin Closings
  BY LenProperties, BoundsAssumption
  DEF Good, Shaped, CliType, GoodSession, WellFormed, SessionType, Events, Closings
<1>2. /\ q \in Seq(Events) /\ Len(q) = n + 1 /\ q[n + 1] = "absorbed"
      /\ DOMAIN p = 1 .. n /\ DOMAIN q = 1 .. n + 1
      /\ \A i \in 1 .. n : q[i] = p[i]
      /\ \A i \in 0 .. n : Mutes(q, i) <=> Mutes(p, i)
  <2>1. "absorbed" \notin Closings \cup {"error"}
    BY <1>0
  <2> QED
    BY <1>0, <2>1, LaterAppend DEF Mutes
<1>3. /\ \A i \in 0 .. n : Downs(q, i) = Downs(p, i)
      /\ Downs(q, Len(q)) = Downs(p, n) + 1
  BY <1>0, DownsAppend DEF IsDown
<1>4. Downs(p, n) \in Nat
  BY <1>0, DownsNat
<1> HIDE DEF q, n
<1>5. Shaped(d, k, q)
  BY <1>0, <1>2 DEF Good, Shaped, Open
<1>6. Settled(d, k, q)
  BY DEF Settled
<1>7. Heard(d, k, q)
  <2> SUFFICES ASSUME c.spoke
               PROVE  \/ \E i \in DOMAIN q : q[i] \in {"work", "schedules"} /\ ~Mutes(q, i)
                      \/ isTurnInFlight(d) /\ ~Mutes(q, 0)
    BY DEF Heard
  <2>1. \/ \E i \in DOMAIN p : p[i] \in {"work", "schedules"} /\ ~Mutes(p, i)
        \/ isTurnInFlight(d) /\ ~Mutes(p, 0)
    BY DEF Good, Heard
  <2>2. ASSUME NEW i \in DOMAIN p, p[i] \in {"work", "schedules"}, ~Mutes(p, i)
        PROVE  i \in DOMAIN q /\ q[i] \in {"work", "schedules"} /\ ~Mutes(q, i)
    BY <1>0, <1>2, <2>2
  <2>3. Mutes(q, 0) <=> Mutes(p, 0)
    BY <1>0, <1>2
  <2> QED
    BY <2>1, <2>2, <2>3
<1>8. ASSUME Sound(d, c, p) PROVE Counts(d, k, q)
  <2>1. c.run = "given" /\ Given(c) = 1 /\ Given(k) = 1
    BY <1>0, <1>8 DEF Sound, Counts, CliType, Given
  <2>2. c.held + 1 + Downs(p, n) <= d.activeTurns
    BY <1>8, <2>1 DEF Sound, Counts, n
  <2>3. k.held + Given(k) + Downs(q, Len(q)) <= d.activeTurns
    <3> DEFINE m == Downs(p, n)
    <3>1. m \in Nat /\ Downs(q, Len(q)) = m + 1 /\ c.held + 1 + m <= d.activeTurns
      BY <1>3, <1>4, <2>2
    <3>2. c.held \in Nat /\ d.activeTurns \in Nat
      BY <1>0
    <3> HIDE DEF m
    <3> QED
      BY <2>1, <3>1, <3>2
  <2>4. ASSUME NEW i \in DOMAIN q, q[i] = "absorbed" PROVE Downs(q, i) <= d.activeTurns
    <3>1. CASE i = n + 1
      BY <1>0, <1>2, <1>3, <1>4, <2>2, <3>1
    <3>2. CASE i \in 1 .. n
      BY <1>0, <1>2, <1>3, <1>8, <2>4, <3>2 DEF Sound, Counts
    <3> QED
      BY <1>0, <1>2, <3>1, <3>2
  <2> QED
    BY <2>3, <2>4 DEF Counts
<1> QED
  BY <1>5, <1>6, <1>7, <1>8 DEF Good, Sound, q

\* A driver that died, or whose exit was seen: its CLI is gone with it.
LEMMA DeadGood ==
  ASSUME NEW d, NEW c, NEW p, Good(d, c, p), Open(d), NEW child \in {"deaf", "exited"}
  PROVE  LET r == [d EXCEPT !.child = child]
         IN  /\ Good(r, NoCli, p) /\ Open(r)
             /\ Sound(d, c, p) => Sound(r, NoCli, p)
             /\ r.marker = d.marker /\ r.watch = d.watch /\ r.child = child
<1> DEFINE r == [d EXCEPT !.child = child]
<1>0. d \in SessionType /\ GoodSession(d) /\ WellFormed(d) /\ AtRest(d)
  BY DEF Good, Shaped, GoodSession, WellFormed
<1>1. /\ r \in SessionType /\ r.child = child /\ r.marker = d.marker /\ r.watch = d.watch
      /\ r.activeTurns = d.activeTurns /\ r.autonomousTurn = d.autonomousTurn
      /\ r.work = d.work /\ r.armed = d.armed /\ r.failures = d.failures
      /\ r.retryTimer = d.retryTimer /\ r.io = d.io /\ r.said = d.said
  BY <1>0 DEF SessionType
<1> HIDE DEF r
<1>2. Followed(r) = Followed(d) /\ Lost(r) = Lost(d)
  BY <1>1 DEF Followed, Lost, turnRunning, isTurnInFlight
<1>3. GoodSession(r) /\ AtRest(r)
  BY <1>0, <1>1, <1>2 DEF GoodSession, WellFormed, AtRest
<1>4. Shaped(r, NoCli, p) /\ Open(r)
  BY <1>1, <1>3, FreshlyGood, BoundsAssumption DEF Good, Shaped, Open
<1>5. Settled(r, NoCli, p) /\ Heard(r, NoCli, p)
  BY <1>1 DEF Settled, Heard
<1>6. Counts(d, c, p) => Counts(r, NoCli, p)
  BY <1>1, FreshlyGood DEF Counts
<1> QED
  BY <1>1, <1>2, <1>4, <1>5, <1>6 DEF Good, Sound, r

\* What r leaves of d after an event (EventGood).
Heeds(d, r, e) ==
  /\ r.child = d.child /\ r.activeTurns = TurnsAfter(e, d.activeTurns)
  /\ e \in {"work", "schedules"} => isTurnInFlight(r)
  /\ e \notin Closings /\ isTurnInFlight(d) /\ (e = "error" => d.activeTurns > 0)
        => isTurnInFlight(r)
  /\ e \in Closings => Followed(r)
  /\ Followed(d) /\ (e = "absorbed" => d.activeTurns >= 1) => Followed(r)

\* The next event heard: the count stays right, or becomes so as the last is heard.
LEMMA HearGood ==
  ASSUME NEW d, NEW c, NEW p, Good(d, c, p), Open(d), p # <<>>,
         NEW r, GoodSession(r), AtRest(r), Heeds(d, r, Head(p))
  PROVE  LET q == Tail(p)
         IN  /\ Good(r, c, q) /\ Open(r)
             /\ Sound(d, c, p) => Sound(r, c, q)
             /\ q = <<>> /\ d.child = "up" /\ c.run = "no" /\ c.held = 0 => Sound(r, c, q)
<1> DEFINE q == Tail(p)
           n == Len(p) - 1
           e == Head(p)
<1>0. /\ p \in Seq(Events) /\ c \in CliType /\ c.held \in Nat /\ Len(p) <= MaxPipe
      /\ MaxPipe \in Nat /\ d \in SessionType /\ d.activeTurns \in Nat
  BY BoundsAssumption DEF Good, Shaped, CliType, GoodSession, WellFormed, SessionType
<1>1. /\ n \in Nat /\ q \in Seq(Events) /\ Len(q) = n /\ Len(p) = n + 1
      /\ DOMAIN q = 1 .. n /\ DOMAIN p = 1 .. n + 1
      /\ e = p[1] /\ e \in Events
      /\ \A i \in 1 .. n : q[i] = p[i + 1]
      /\ \A i \in 0 .. n : Closes(q, i) <=> Closes(p, i + 1)
      /\ e \notin Closings => (Closes(p, 0) <=> Closes(p, 1))
  <2>1. p \in Seq(Events) /\ p # <<>> /\ Len(p) \in Nat
    BY <1>0, LenProperties
  <2>2. Len(p) = Len(p) - 1 + 1
    BY <2>1
  <2> QED
    BY <2>1, <2>2, LaterTail DEF Closes
<1>9. \A i \in 0 .. n : Mutes(q, i) <=> Mutes(p, i + 1)
  BY <1>0, LaterTail DEF Mutes
<1>2. /\ \A i \in 0 .. n : Downs(p, i + 1) = IF IsDown(e) THEN Downs(q, i) + 1 ELSE Downs(q, i)
      /\ \A i \in 0 .. n : Downs(q, i) \in Nat
  <2> SUFFICES ASSUME NEW i \in 0 .. n
               PROVE  /\ Downs(p, i + 1) = IF IsDown(e) THEN Downs(q, i) + 1 ELSE Downs(q, i)
                      /\ Downs(q, i) \in Nat
    OBVIOUS
  <2>1. i \in Nat
    BY <1>1
  <2> QED
    BY <1>0, <2>1, DownsTail, DownsNat
<1>3. /\ r.child = d.child /\ r.activeTurns = TurnsAfter(e, d.activeTurns)
      /\ e \in {"work", "schedules"} => isTurnInFlight(r)
      /\ e \notin Closings /\ isTurnInFlight(d) /\ (e = "error" => d.activeTurns > 0)
            => isTurnInFlight(r)
      /\ e \in Closings => Followed(r)
      /\ Followed(d) /\ (e = "absorbed" => d.activeTurns >= 1) => Followed(r)
  BY DEF Heeds
<1> HIDE DEF q, n, e
<1>4. Shaped(r, c, q) /\ Open(r)
  BY <1>0, <1>1, <1>3 DEF Good, Shaped, Open
<1>5. Settled(r, c, q)
  <2> SUFFICES ASSUME d.child = "up", c.run = "no"
               PROVE  /\ ~Followed(r) => Closes(q, 0)
                      /\ \A i \in DOMAIN q : q[i] = "absorbed" => Closes(q, i)
    BY <1>3 DEF Settled
  <2>1. /\ ~Followed(d) => Closes(p, 0)
        /\ \A i \in DOMAIN p : p[i] = "absorbed" => Closes(p, i)
    BY DEF Good, Settled
  <2>2. 1 \in DOMAIN p /\ (Closes(q, 0) <=> Closes(p, 1))
    BY <1>1
  <2>3. ~Followed(r) => Closes(q, 0)
    BY <1>1, <1>3, <2>1, <2>2
  <2>4. ASSUME NEW i \in DOMAIN q, q[i] = "absorbed" PROVE Closes(q, i)
    <3>1. i + 1 \in DOMAIN p /\ p[i + 1] = "absorbed" /\ (Closes(q, i) <=> Closes(p, i + 1))
      BY <1>1, <2>4
    <3> QED
      BY <2>1, <3>1
  <2> QED
    BY <2>3, <2>4
<1>6. Heard(r, c, q)
  <2> SUFFICES ASSUME d.child = "up", c.run # "no", c.spoke
               PROVE  \/ \E i \in DOMAIN q : q[i] \in {"work", "schedules"} /\ ~Mutes(q, i)
                      \/ isTurnInFlight(r) /\ ~Mutes(q, 0)
    BY <1>3 DEF Heard
  <2>1. \/ \E i \in DOMAIN p : p[i] \in {"work", "schedules"} /\ ~Mutes(p, i)
        \/ isTurnInFlight(d) /\ ~Mutes(p, 0)
    BY DEF Good, Heard
  <2>2. Mutes(q, 0) <=> Mutes(p, 1)
    BY <1>1, <1>9
  <2>3. CASE isTurnInFlight(d) /\ ~Mutes(p, 0)
    <3>1. e \notin Closings /\ e # "error" /\ ~Mutes(p, 1)
      BY <1>1, <2>3 DEF Mutes, Later
    <3> QED
      BY <1>3, <2>2, <2>3, <3>1
  <2>4. ASSUME NEW i \in DOMAIN p, p[i] \in {"work", "schedules"}, ~Mutes(p, i)
        PROVE  \/ \E j \in DOMAIN q : q[j] \in {"work", "schedules"} /\ ~Mutes(q, j)
               \/ isTurnInFlight(r) /\ ~Mutes(q, 0)
    <3>1. CASE i = 1
      BY <1>1, <1>3, <2>2, <2>4, <3>1
    <3>2. CASE i # 1
      <4>1. /\ i - 1 \in DOMAIN q /\ q[i - 1] = p[i]
            /\ Mutes(q, i - 1) <=> Mutes(p, i)
        BY <1>1, <1>9, <3>2
      <4> QED
        BY <2>4, <4>1
    <3> QED
      BY <3>1, <3>2
  <2> QED
    BY <2>1, <2>3, <2>4
<1>7. ASSUME Sound(d, c, p) PROVE Sound(r, c, q)
  <2>0. /\ \A i \in DOMAIN p : p[i] = "absorbed" => Downs(p, i) <= d.activeTurns
        /\ \/ c.held + Given(c) + Downs(p, n + 1) <= d.activeTurns
           \/ c.held = 0 /\ c.run # "given"
        /\ c.run = "own" => c.held = 0
        /\ Followed(d)
    BY <1>1, <1>7 DEF Sound, Counts
  <2>1. Followed(r)
    <3>1. 1 \in DOMAIN p /\ 0 \in 0 .. n
      BY <1>1
    <3>2. e = "absorbed" => d.activeTurns >= 1
      <4> SUFFICES ASSUME e = "absorbed" PROVE d.activeTurns >= 1
        OBVIOUS
      <4>1. Downs(p, 1) <= d.activeTurns
        BY <1>1, <2>0, <3>1
      <4>2. Downs(p, 0 + 1) = Downs(q, 0) + 1 /\ Downs(q, 0) \in Nat
        BY <1>2, <3>1 DEF IsDown
      <4> QED
        BY <1>0, <4>1, <4>2
    <3> QED
      BY <1>3, <2>0, <3>2
  <2>2. ASSUME NEW i \in 0 .. n, NEW x \in Nat, x + Downs(p, i + 1) <= d.activeTurns
        PROVE  x + Downs(q, i) <= r.activeTurns
    <3>1. Downs(q, i) \in Nat
      BY <1>2
    <3>2. CASE IsDown(e)
      <4>1. Downs(p, i + 1) = Downs(q, i) + 1
        BY <1>2, <3>2
      <4>2. r.activeTurns >= d.activeTurns - 1
        <5> DEFINE a == d.activeTurns
        <5>1. a \in Nat /\ r.activeTurns = TurnsAfter(e, a)
          BY <1>0, <1>3
        <5> HIDE DEF a
        <5>2. TurnsAfter(e, a) >= a - 1
          <6>1. CASE e = "absorbed"
            BY <5>1, <6>1 DEF TurnsAfter
          <6>2. CASE e # "absorbed" /\ e \in Closings
            <7>1. TurnsAfter(e, a) = IF a > 0 THEN a - 1 ELSE 0
              BY <6>2 DEF TurnsAfter
            <7> QED
              BY <5>1, <7>1
          <6> QED
            BY <3>2, <6>1, <6>2 DEF IsDown
        <5> QED
          BY <5>1, <5>2 DEF a
      <4>3. r.activeTurns \in Nat /\ d.activeTurns \in Nat
        BY <1>0, <1>4 DEF Shaped, GoodSession, WellFormed, SessionType
      <4>4. x + (Downs(q, i) + 1) <= d.activeTurns
        BY <2>2, <4>1
      <4> QED
        BY <3>1, <4>2, <4>3, <4>4
    <3>3. CASE ~IsDown(e)
      <4>1. Downs(p, i + 1) = Downs(q, i)
        BY <1>2, <3>3
      <4>2. r.activeTurns = d.activeTurns
        BY <1>3, <3>3 DEF TurnsAfter, IsDown, Closings
      <4> QED
        BY <2>2, <4>1, <4>2
    <3> QED
      BY <3>2, <3>3
  <2>3. ASSUME NEW i \in DOMAIN q, q[i] = "absorbed" PROVE Downs(q, i) <= r.activeTurns
    <3>1. i \in 0 .. n /\ i + 1 \in DOMAIN p /\ p[i + 1] = "absorbed"
      BY <1>1, <2>3
    <3>2. 0 + Downs(p, i + 1) <= d.activeTurns
      <4>1. Downs(p, i + 1) \in Nat /\ Downs(p, i + 1) <= d.activeTurns
        BY <1>0, <2>0, <3>1, DownsOf
      <4> QED
        BY <4>1
    <3>3. 0 + Downs(q, i) <= r.activeTurns
      BY <2>2, <3>1, <3>2
    <3>4. Downs(q, i) \in Nat
      BY <1>2, <3>1
    <3> QED
      BY <3>3, <3>4
  <2>4. \/ c.held + Given(c) + Downs(q, n) <= r.activeTurns
        \/ c.held = 0 /\ c.run # "given"
    <3>1. n \in 0 .. n /\ c.held + Given(c) \in Nat
      BY <1>0, <1>1 DEF Given
    <3> QED
      BY <2>0, <2>2, <3>1
  <2> QED
    BY <1>1, <2>0, <2>1, <2>3, <2>4 DEF Sound, Counts
<1>8. ASSUME q = <<>>, d.child = "up", c.run = "no", c.held = 0 PROVE Sound(r, c, q)
  <2>1. n = 0
    BY <1>1, <1>8
  <2>2. ~Closes(p, 1)
    BY <1>1, <2>1 DEF Closes, Later
  <2>3. 1 \in DOMAIN p
    BY <1>1
  <2>4. Followed(r)
    BY <1>1, <1>3, <1>8, <2>2, <2>3 DEF Good, Settled
  <2>5. Counts(r, c, q)
    BY <1>1, <1>8, <2>1 DEF Counts
  <2> QED
    BY <2>4, <2>5 DEF Sound
<1> QED
  BY <1>4, <1>5, <1>6, <1>7, <1>8 DEF Good, q

-----------------------------------------------------------------------------
(* The inductive invariant.                                                *)

TaskType == [pc: {"none", "orphan", "wait", "rules", "clear", "prepare", "inject"},
             m: MarkerType, noted: BOOLEAN, seen: Nat]
Pending == {"wait", "rules", "clear", "prepare", "inject"}
Decided == {"prepare", "inject"}

ProcessTyped ==
  /\ drv \in [Backends -> SessionType] /\ cli \in [Backends -> CliType]
  /\ pipe \in [Backends -> Seq(Events)] /\ miscount \in [Backends -> BOOLEAN]

\* Each driver and its CLI, with the count right or known to be wrong.
Processes ==
  \A b \in Backends :
    /\ Good(drv[b], cli[b], pipe[b])
    /\ miscount[b] \/ Sound(drv[b], cli[b], pipe[b])

\* Drivers live in backends that are up, and those beat.
Homes ==
  /\ bk \in [Backends -> {"off", "up", "stopping", "gone"}]
  /\ beat \in [Backends -> BOOLEAN] /\ page \in 0 .. MaxBackends
  /\ \A b \in Backends : /\ Open(drv[b]) => bk[b] = "up"
                         /\ bk[b] = "up" => beat[b]

DiskGood ==
  /\ GoodMarker(marker) /\ marker.owner <= MaxBackends /\ marker.at <= clock
  /\ marker # NoMarker => marker.owner \in Backends
  /\ clock \in Nat /\ crossed \in BOOLEAN
  /\ \A b \in Backends : drv[b].marker.at <= clock

\* The file, and the operations on their way to it, hold markers; the last one
\* asked for is the one that stays.
Signed(m) ==
  /\ GoodMarker(m) /\ m.at <= clock /\ m.owner <= MaxBackends
  /\ m # NoMarker => m.owner \in Backends
FileGood ==
  /\ Signed(file)
  /\ ink \in [Backends -> [op: {"none", "put", "clear"}, m: MarkerType]]
  /\ \A b \in Backends : Signed(ink[b].m) /\ (ink[b].op # "put" => ink[b].m = NoMarker)
OwnFile ==
  \E b \in Backends :
    /\ \A c \in Backends \ {b} : ink[c] = Dry
    /\ marker = IF ink[b] = Dry THEN file ELSE ink[b].m
FileFollows == FileGood /\ (crossed \/ OwnFile)

\* A task that is to resume something holds the marker it found.
TasksGood ==
  /\ resume \in [Tasks -> TaskType]
  /\ \A t \in Tasks : resume[t].pc \in Pending =>
       /\ GoodMarker(resume[t].m) /\ resume[t].m # NoMarker /\ resume[t].m.at <= clock
       /\ resume[t].pc \in Decided => mayResumeAgain(resume[t].m)
       /\ resume[t].pc = "inject" => resume[t].seen <= clock

\* One turn has one marker: the file is that of the driver that has one, and
\* no driver runs the turn that a task is to resume.
OwnDriver ==
  \A b \in Backends : Open(drv[b]) /\ drv[b].marker # NoMarker =>
    marker.owner = b /\ SameTurn(marker, drv[b].marker)
OwnTask ==
  \A t \in Tasks : resume[t].pc \in Pending =>
    /\ \A b \in Backends : drv[b].marker.at # resume[t].m.at
    /\ marker.at = resume[t].m.at => SameTurn(marker, resume[t].m)

\* A task about to give its order has looked: what another driver runs began since.
Aimed ==
  \A t \in Tasks : resume[t].pc = "inject" =>
    \A c \in Backends \ {t[1]} :
      drv[c].marker # NoMarker => drv[c].marker.at > resume[t].seen

\* The file counts the resumes, and says whether anything came out of them.
Loop ==
  /\ barren <= 1 /\ chain <= MaxAutoResumes
  /\ marker # NoMarker => chain <= marker.attempts
  /\ marker # NoMarker /\ (marker.attempts = 0 \/ marker.progressed) => barren = 0

Promise ==
  /\ DiskGood /\ FileFollows /\ TasksGood /\ chain \in Nat /\ barren \in Nat
  /\ crossed \/ (OwnDriver /\ OwnTask /\ Aimed /\ Loop)

IInv == ProcessTyped /\ Processes /\ Homes /\ Promise

-----------------------------------------------------------------------------
\* Only the driver of b, its CLI and what is between them may change.
Apart(b) ==
  \A c \in Backends \ {b} : /\ drv'[c] = drv[c] /\ cli'[c] = cli[c]
                            /\ pipe'[c] = pipe[c] /\ miscount'[c] = miscount[c]

Local(b) ==
  /\ ProcessTyped' /\ Apart(b)
  /\ Good(drv'[b], cli'[b], pipe'[b])
  /\ miscount'[b] \/ Sound(drv'[b], cli'[b], pipe'[b])

\* The tasks that are still to resume something do so from what they had found.
TasksStand ==
  /\ resume' \in [Tasks -> TaskType]
  /\ \A t \in Tasks : resume'[t].pc \in Pending =>
       /\ resume[t].pc \in Pending /\ resume'[t].m = resume[t].m
       /\ resume'[t].pc \in Decided => mayResumeAgain(resume[t].m)
       /\ resume'[t].pc = "inject" =>
            resume[t].pc = "inject" /\ resume'[t].seen = resume[t].seen

\* A step of one driver leaves the others as they are.
LEMMA ProcessesStep ==
  ASSUME IInv, NEW b \in Backends, Local(b)
  PROVE  ProcessTyped' /\ Processes'
<1> SUFFICES ASSUME NEW c \in Backends
             PROVE  /\ Good(drv'[c], cli'[c], pipe'[c])
                    /\ miscount'[c] \/ Sound(drv'[c], cli'[c], pipe'[c])
  BY DEF Local, Processes
<1>1. CASE c = b
  BY <1>1 DEF Local
<1>2. CASE c # b
  BY <1>2 DEF Local, Apart, IInv, Processes
<1> QED
  BY <1>1, <1>2

\* A driver that was there, or is started where the backend is up.
LEMMA HomesStep ==
  ASSUME IInv, NEW b \in Backends, Local(b), bk' = bk, beat' = beat,
         page' \in 0 .. MaxBackends, Open(drv'[b]) => bk[b] = "up"
  PROVE  Homes'
BY DEF IInv, Homes, Local, Apart

\* Tasks nothing touches stand.
LEMMA TasksUnchanged ==
  ASSUME IInv, resume' = resume
  PROVE  TasksStand
BY DEF IInv, Promise, TasksGood, TasksStand

\* Tasks that stand are good tasks.
LEMMA TasksStay ==
  ASSUME IInv, TasksStand, clock' \in Nat, clock <= clock'
  PROVE  TasksGood'
<1> SUFFICES ASSUME NEW t \in Tasks, resume'[t].pc \in Pending
             PROVE  /\ GoodMarker(resume'[t].m) /\ resume'[t].m # NoMarker
                    /\ resume'[t].m.at <= clock'
                    /\ resume'[t].pc \in Decided => mayResumeAgain(resume'[t].m)
                    /\ resume'[t].pc = "inject" => resume'[t].seen <= clock'
  BY DEF TasksGood, TasksStand
<1>1. /\ resume[t].pc \in Pending /\ resume'[t].m = resume[t].m
      /\ resume'[t].pc \in Decided => mayResumeAgain(resume[t].m)
      /\ resume'[t].pc = "inject" =>
           resume[t].pc = "inject" /\ resume'[t].seen = resume[t].seen
  BY DEF TasksStand
<1>2. /\ GoodMarker(resume[t].m) /\ resume[t].m # NoMarker /\ resume[t].m.at <= clock
      /\ resume[t].pc = "inject" => resume[t].seen <= clock
      /\ clock \in Nat
  BY <1>1 DEF IInv, Promise, TasksGood, DiskGood
<1>3. resume[t].m.at \in Nat /\ resume[t].seen \in Nat
  <2>1. resume[t] \in TaskType
    BY DEF IInv, Promise, TasksGood
  <2> QED
    BY <1>2, <2>1 DEF TaskType, GoodMarker, MarkerType
<1>4. resume[t].m.at <= clock'
  BY <1>2, <1>3
<1>5. resume'[t].pc = "inject" => resume'[t].seen <= clock'
  BY <1>1, <1>2, <1>3
<1> QED
  BY <1>1, <1>2, <1>4, <1>5

\* What other drivers run began since a task looked, if they began it later still.
LEMMA AimedStays ==
  ASSUME IInv, TasksStand, ~crossed,
         \A c \in Backends : \/ drv'[c].marker = NoMarker
                             \/ drv[c].marker # NoMarker /\ drv'[c].marker.at = drv[c].marker.at
                             \/ drv'[c].marker.at = clock + 1
  PROVE  Aimed'
<1> SUFFICES ASSUME NEW t \in Tasks, resume'[t].pc = "inject",
                    NEW c \in Backends \ {t[1]}, drv'[c].marker # NoMarker
             PROVE  drv'[c].marker.at > resume'[t].seen
  BY DEF Aimed
<1>1. resume[t].pc = "inject" /\ resume'[t].seen = resume[t].seen
  BY DEF TasksStand, Pending
<1>2. /\ resume[t].seen <= clock /\ clock \in Nat
      /\ drv[c].marker # NoMarker => drv[c].marker.at > resume[t].seen
      /\ resume[t] \in TaskType
  BY <1>1 DEF IInv, Promise, TasksGood, DiskGood, Pending, Aimed
<1>3. resume[t].seen \in Nat
  BY <1>2 DEF TaskType
<1> QED
  BY <1>1, <1>2, <1>3

\* A time is that of no marker only if it is none.
LEMMA NoTime ==
  ASSUME NEW m, GoodMarker(m)
  PROVE  /\ m \in MarkerType /\ m.at \in Nat /\ (m # NoMarker <=> m.at # 0)
         /\ m.attempts \in Nat /\ m.attempts <= MaxAutoResumes
BY NoMarkerGood DEF GoodMarker, MarkerType

\* What the invariant says of one driver.
LEMMA DriverFacts ==
  ASSUME IInv, NEW b \in Backends
  PROVE  /\ GoodSession(drv[b]) /\ AtRest(drv[b]) /\ drv[b] \in SessionType
         /\ GoodMarker(drv[b].marker) /\ drv[b].marker.at \in Nat
         /\ drv[b].marker.at <= clock /\ drv[b].activeTurns \in Nat
         /\ ~Open(drv[b]) => drv[b] = NoSession /\ pipe[b] = <<>>
         /\ drv[b].marker # NoMarker => Open(drv[b])
         /\ drv[b].child # "up" => cli[b] = NoCli
         /\ cli[b] \in CliType /\ cli[b].held \in Nat
         /\ Good(drv[b], cli[b], pipe[b])
         /\ miscount[b] \/ Sound(drv[b], cli[b], pipe[b])
         /\ Open(drv[b]) => bk[b] = "up"
         /\ bk[b] = "up" => beat[b]
<1>1. Good(drv[b], cli[b], pipe[b]) /\ (miscount[b] \/ Sound(drv[b], cli[b], pipe[b]))
  BY DEF IInv, Processes
<1>2. /\ GoodSession(drv[b]) /\ AtRest(drv[b])
      /\ ~Open(drv[b]) => drv[b] = NoSession /\ pipe[b] = <<>>
      /\ drv[b].child # "up" => cli[b] = NoCli
      /\ cli[b] \in CliType
  BY <1>1 DEF Good, Shaped
<1>3. drv[b] \in SessionType /\ GoodMarker(drv[b].marker)
  BY <1>2 DEF GoodSession, WellFormed
<1>4. drv[b].activeTurns \in Nat /\ cli[b].held \in Nat
  BY <1>2, <1>3 DEF SessionType, CliType
<1>5. drv[b].marker.at <= clock /\ (Open(drv[b]) => bk[b] = "up") /\ (bk[b] = "up" => beat[b])
  BY DEF IInv, Promise, DiskGood, Homes
<1>6. drv[b].marker # NoMarker => Open(drv[b])
  BY <1>2, FreshGood
<1> QED
  BY <1>1, <1>2, <1>3, <1>4, <1>5, <1>6, NoTime

\* What a handler asks of the file is in it, or on its way; the rest is as it was.
LEMMA AsksGood ==
  ASSUME IInv, NEW b \in Backends, NEW op \in {"put", "clear"}, NEW m, Asks(b, op, m),
         GoodMarker(m), m.at <= clock', m.owner <= MaxBackends,
         m # NoMarker => m.owner \in Backends, op # "put" => m = NoMarker,
         clock' \in Nat, clock <= clock', (\E c \in Backends \ {b} : ink[c] # Dry) => crossed'
  PROVE  FileFollows' /\ marker' = m
<1>1. /\ file.at \in Nat /\ \A c \in Backends : ink[c].m.at \in Nat
      /\ clock \in Nat
  <2>1. GoodMarker(file) /\ \A c \in Backends : GoodMarker(ink[c].m)
    BY DEF IInv, Promise, FileFollows, FileGood, Signed
  <2> QED
    BY <2>1 DEF GoodMarker, MarkerType, IInv, Promise, DiskGood
<1>2. /\ Signed(file)
      /\ ink \in [Backends -> [op: {"none", "put", "clear"}, m: MarkerType]]
      /\ \A c \in Backends : Signed(ink[c].m) /\ (ink[c].op # "put" => ink[c].m = NoMarker)
  BY DEF IInv, Promise, FileFollows, FileGood
<1>3. /\ Signed(file)' \/ file' # file
      /\ \A c \in Backends : Signed(ink[c].m)' \/ ink'[c] # ink[c]
  BY <1>1, <1>2 DEF Signed
<1>4. m \in MarkerType /\ Dry.op = "none" /\ Dry.m = NoMarker
      /\ Dry \in [op: {"none", "put", "clear"}, m: MarkerType]
  BY NoMarkerGood DEF GoodMarker, Dry
<1>5. /\ NoMarker.at <= clock' /\ NoMarker.owner <= MaxBackends
      /\ GoodMarker(NoMarker)
  BY NoMarkerGood, BoundsAssumption DEF NoMarker
<1> DEFINE k == [op |-> op, m |-> m]
<1>6. k \in [op: {"none", "put", "clear"}, m: MarkerType] /\ k # Dry /\ k.m = m /\ k.op = op
  BY <1>4 DEF Dry
<1> HIDE DEF k
<1>7. /\ marker' = m
      /\ \/ ink' = [ink EXCEPT ![b] = k] /\ file' = file
         \/ ink' = [ink EXCEPT ![b] = Dry] /\ file' = m
  BY DEF Asks, k
<1>8. /\ \A c \in Backends \ {b} : ink'[c] = ink[c]
      /\ \/ ink'[b] = k /\ file' = file
         \/ ink'[b] = Dry /\ file' = m
      /\ ink' \in [Backends -> [op: {"none", "put", "clear"}, m: MarkerType]]
  BY <1>2, <1>4, <1>6, <1>7
<1>9. FileGood'
  <2>1. Signed(file)'
    BY <1>3, <1>8 DEF Signed
  <2>2. ASSUME NEW c \in Backends
        PROVE  Signed(ink[c].m)' /\ (ink'[c].op # "put" => ink'[c].m = NoMarker)
    <3>1. CASE c # b
      BY <1>2, <1>3, <1>8, <3>1
    <3>2. CASE c = b
      BY <1>4, <1>5, <1>6, <1>8, <3>2 DEF Signed
    <3> QED
      BY <3>1, <3>2
  <2> QED
    BY <1>8, <2>1, <2>2 DEF FileGood
<1>10. ASSUME ~crossed' PROVE OwnFile'
  <2>1. \A c \in Backends \ {b} : ink'[c] = Dry
    BY <1>8, <1>10
  <2>2. marker' = IF ink'[b] = Dry THEN file' ELSE ink'[b].m
    BY <1>6, <1>7, <1>8
  <2> QED
    BY <2>1, <2>2 DEF OwnFile
<1> QED
  BY <1>7, <1>9, <1>10 DEF FileFollows

\* With nothing asked, time only goes on.
LEMMA FileStays ==
  ASSUME IInv, UNCHANGED disk, crossed => crossed', clock' \in Nat, clock <= clock'
  PROVE  FileFollows'
<1>1. /\ file.at \in Nat /\ \A c \in Backends : ink[c].m.at \in Nat
      /\ clock \in Nat
  <2>1. GoodMarker(file) /\ \A c \in Backends : GoodMarker(ink[c].m)
    BY DEF IInv, Promise, FileFollows, FileGood, Signed
  <2> QED
    BY <2>1 DEF GoodMarker, MarkerType, IInv, Promise, DiskGood
<1>2. FileGood /\ (crossed \/ OwnFile) /\ file' = file /\ ink' = ink /\ marker' = marker
  BY DEF IInv, Promise, FileFollows, disk
<1>3. Signed(file)' /\ \A c \in Backends : Signed(ink[c].m)'
  BY <1>1, <1>2 DEF FileGood, Signed
<1>4. FileGood'
  BY <1>2, <1>3 DEF FileGood
<1>5. OwnFile => OwnFile'
  BY <1>2 DEF OwnFile
<1> QED
  BY <1>2, <1>4, <1>5 DEF FileFollows

\* What Commit leaves in memory.
LEMMA CommitFacts ==
  ASSUME IInv, NEW b \in Backends, NEW s, GoodSession(s), NEW over, CommitOver(b, s, over)
  PROVE  /\ drv' \in [Backends -> SessionType] /\ drv'[b] = Quiet(s)
         /\ \A c \in Backends \ {b} : drv'[c] = drv[c]
         /\ GoodSession(drv'[b]) /\ AtRest(drv'[b])
         /\ drv'[b].marker = s.marker /\ drv'[b].child = s.child
         /\ drv'[b].activeTurns = s.activeTurns /\ drv'[b].watch = s.watch
         /\ Followed(drv'[b]) <=> Followed(s)
         /\ isTurnInFlight(drv'[b]) <=> isTurnInFlight(s)
         /\ Open(drv'[b]) <=> s.child # "none"
<1> DEFINE q == Quiet(s)
<1>1. /\ GoodSession(q) /\ AtRest(q) /\ Alike(q, s) /\ q.marker = s.marker
      /\ Followed(q) = Followed(s) /\ isTurnInFlight(q) = isTurnInFlight(s)
  BY QuietGood
<1>2. q \in SessionType
  BY <1>1 DEF GoodSession, WellFormed
<1>3. drv' = [drv EXCEPT ![b] = q] /\ drv \in [Backends -> SessionType]
  BY DEF CommitOver, IInv, ProcessTyped
<1> HIDE DEF q
<1>4. /\ drv' \in [Backends -> SessionType] /\ drv'[b] = q
      /\ \A c \in Backends \ {b} : drv'[c] = drv[c]
  BY <1>2, <1>3
<1>5. drv'[b] = Quiet(s)
  BY <1>4 DEF q
<1> QED
  BY <1>1, <1>4, <1>5 DEF Alike, Open

\* What Commit leaves on disk: a file that is good, and nobody's but its owner's.
LEMMA CommitDisk ==
  ASSUME IInv, NEW b \in Backends, NEW s, GoodSession(s), TasksStand,
         NEW over \in BOOLEAN, CommitOver(b, s, over), NEW also, NEW n,
         Kept(drv[b], s, also) \/ Begins(s, Now, n)
  PROVE  /\ DiskGood' /\ FileFollows' /\ TasksGood' /\ (crossed => crossed')
         /\ crossed' \/ (OwnDriver /\ OwnTask /\ Aimed)'
<1>1. /\ drv' \in [Backends -> SessionType] /\ drv'[b].marker = s.marker
      /\ \A c \in Backends \ {b} : drv'[c] = drv[c]
      /\ Open(drv'[b]) <=> s.child # "none"
  BY CommitFacts
<1>16. s.io \in {"keep", "put", "clear"}
  BY DEF GoodSession, WellFormed, SessionType
<1>2. /\ marker' = CASE s.io = "put"   -> [s.marker EXCEPT !.owner = b]
                     [] s.io = "clear" -> NoMarker
                     [] s.io = "keep"  -> marker
      /\ crossed' = (crossed \/ over \/ (s.io # "keep" /\ Crosses(b)))
      /\ clock' = IF s.io = "put" /\ s.marker.at > clock THEN s.marker.at ELSE clock
  <2>1. /\ crossed' = (crossed \/ over \/ (s.io # "keep" /\ Crosses(b)))
        /\ clock' = IF s.io = "put" /\ s.marker.at > clock THEN s.marker.at ELSE clock
        /\ CASE s.io = "put"   -> Asks(b, "put", [s.marker EXCEPT !.owner = b])
             [] s.io = "clear" -> Asks(b, "clear", NoMarker)
             [] s.io = "keep"  -> UNCHANGED disk
    BY DEF CommitOver
  <2>2. s.io = "put" => marker' = [s.marker EXCEPT !.owner = b]
    BY <2>1 DEF Asks
  <2>3. s.io = "clear" => marker' = NoMarker
    BY <2>1 DEF Asks
  <2>4. s.io = "keep" => marker' = marker
    BY <2>1 DEF disk
  <2> QED
    BY <1>16, <2>1, <2>2, <2>3, <2>4
<1>3. /\ DiskGood /\ TasksGood /\ clock \in Nat /\ crossed \in BOOLEAN
      /\ GoodMarker(marker) /\ marker.at \in Nat /\ marker.at <= clock
  BY NoTime DEF IInv, Promise, DiskGood
<1>4. /\ GoodMarker(s.marker) /\ s.marker \in MarkerType /\ s.marker.at \in Nat
      /\ s.marker # NoMarker <=> s.marker.at # 0
      /\ s.io \in {"keep", "put", "clear"}
  BY NoTime DEF GoodSession, WellFormed, SessionType
<1>5. drv[b].marker.at <= clock /\ GoodMarker(drv[b].marker) /\ drv[b].marker.at \in Nat
  BY DriverFacts
<1>6. /\ s.io = "keep" => s.marker = drv[b].marker
      /\ s.io = "clear" => s.marker = NoMarker
      /\ s.io = "put" => \/ s.marker.at = drv[b].marker.at /\ drv[b].marker # NoMarker
                         \/ s.marker.at = clock + 1
  BY DEF Kept, Begins, Now
<1>7. clock' \in Nat /\ clock <= clock' /\ s.marker.at <= clock'
  BY <1>2, <1>3, <1>4, <1>5, <1>6, NoTime, NoMarkerGood
<1>8. s.io = "put" => /\ s.marker.at # 0
                      /\ marker' \in MarkerType /\ SameTurn(marker', s.marker)
                      /\ marker'.owner = b /\ marker'.attempts = s.marker.attempts
                      /\ marker'.at = s.marker.at
  <2> SUFFICES ASSUME s.io = "put"
               PROVE  /\ s.marker.at # 0
                      /\ marker' \in MarkerType /\ SameTurn(marker', s.marker)
                      /\ marker'.owner = b /\ marker'.attempts = s.marker.attempts
                      /\ marker'.at = s.marker.at
    OBVIOUS
  <2>1. marker' = [s.marker EXCEPT !.owner = b] /\ b \in Nat
    BY <1>2 DEF Backends
  <2>2. s.marker.at # 0
    BY <1>3, <1>5, <1>6, NoTime
  <2> QED
    BY <1>4, <2>1, <2>2 DEF MarkerType, SameTurn
<1>9. GoodMarker(marker') /\ marker'.at <= clock' /\ marker'.owner <= MaxBackends
  <2>1. CASE s.io = "put"
    <3>1. marker'.attempts <= MaxAutoResumes
      BY <1>4, <1>8, <2>1 DEF GoodMarker
    <3> QED
      BY <1>7, <1>8, <2>1, <3>1, BoundsAssumption DEF GoodMarker, Backends
  <2>2. CASE s.io = "clear"
    <3>1. marker' = NoMarker
      BY <1>2, <2>2
    <3>2. NoMarker.owner = 0
      BY DEF NoMarker
    <3> QED
      BY <1>7, <3>1, <3>2, NoMarkerGood, BoundsAssumption
  <2>3. CASE s.io = "keep"
    BY <1>2, <1>3, <1>7, <2>3 DEF DiskGood
  <2> QED
    BY <1>4, <2>1, <2>2, <2>3
<1>10. marker' # NoMarker => marker'.owner \in Backends
  BY <1>2, <1>3, <1>4, <1>8 DEF DiskGood
<1>11. DiskGood'
  <2>1. \A c \in Backends : drv'[c].marker.at <= clock'
    <3> SUFFICES ASSUME NEW c \in Backends PROVE drv'[c].marker.at <= clock'
      OBVIOUS
    <3>1. CASE c = b
      BY <1>1, <1>7, <3>1
    <3>2. CASE c # b
      <4>1. drv[c].marker.at <= clock /\ drv[c].marker.at \in Nat
        BY DriverFacts
      <4> QED
        BY <1>1, <1>3, <1>7, <3>2, <4>1
    <3> QED
      BY <3>1, <3>2
  <2>2. crossed' \in BOOLEAN
    BY <1>2, <1>3
  <2> QED
    BY <1>7, <1>9, <1>10, <2>1, <2>2 DEF DiskGood
<1>12. TasksGood'
  BY <1>7, TasksStay
<1>13. crossed => crossed'
  BY <1>2, <1>3
<1>15. FileFollows'
  <2>1. CASE s.io = "keep"
    BY <1>7, <1>13, <2>1, FileStays DEF CommitOver
  <2>2. CASE s.io \in {"put", "clear"}
    <3>1. Asks(b, s.io, marker')
      BY <1>2, <2>2 DEF CommitOver
    <3>2. s.io # "put" => marker' = NoMarker
      BY <1>2, <2>2
    <3>3. (\E c \in Backends \ {b} : ink[c] # Dry) => crossed'
      BY <1>2, <2>2 DEF Crosses
    <3> HIDE DEF Asks
    <3> QED
      BY <1>7, <1>9, <1>10, <2>2, <3>1, <3>2, <3>3, AsksGood
  <2> QED
    BY <1>4, <2>1, <2>2
<1>14. ASSUME ~crossed' PROVE (OwnDriver /\ OwnTask /\ Aimed)'
  <2>0. OwnDriver /\ OwnTask
    BY <1>13, <1>14 DEF IInv, Promise
  <2>1. s.io # "keep" => ~(marker # NoMarker /\ marker.owner # b /\ bk[marker.owner] = "up")
    BY <1>2, <1>14 DEF Crosses
  <2>5. Aimed'
    <3> SUFFICES ASSUME NEW c \in Backends
                 PROVE  \/ drv'[c].marker = NoMarker
                        \/ drv[c].marker # NoMarker /\ drv'[c].marker.at = drv[c].marker.at
                        \/ drv'[c].marker.at = clock + 1
      BY <1>13, <1>14, AimedStays
    <3>1. CASE c # b
      BY <1>1, <3>1
    <3>2. CASE c = b
      BY <1>1, <1>4, <1>6, <3>2
    <3> QED
      BY <3>1, <3>2
  <2>2. ASSUME NEW c \in Backends, c # b, Open(drv[c]), drv[c].marker # NoMarker
        PROVE  s.io = "keep" /\ marker' = marker
    <3>1. marker.owner = c /\ marker.at = drv[c].marker.at
      BY <2>0, <2>2 DEF OwnDriver, SameTurn
    <3>2. drv[c].marker.at # 0 /\ bk[c] = "up"
      BY <2>2, DriverFacts, NoTime
    <3>3. marker # NoMarker
      BY <1>3, <3>1, <3>2, NoTime
    <3> QED
      BY <1>2, <2>1, <2>2, <3>1, <3>2, <3>3
  <2>3. OwnDriver'
    <3> SUFFICES ASSUME NEW c \in Backends, Open(drv'[c]), drv'[c].marker # NoMarker
                 PROVE  marker'.owner = c /\ SameTurn(marker', drv'[c].marker)
      BY DEF OwnDriver
    <3>1. CASE c # b
      BY <1>1, <2>0, <2>2, <3>1 DEF OwnDriver
    <3>2. CASE c = b
      <4>1. CASE s.io = "put"
        BY <1>1, <1>8, <3>2, <4>1
      <4>2. CASE s.io = "keep"
        <5>1. drv[b].marker # NoMarker /\ Open(drv[b])
          BY <1>1, <1>6, <3>2, <4>2, DriverFacts
        <5> QED
          BY <1>1, <1>2, <1>6, <2>0, <3>2, <4>2, <5>1 DEF OwnDriver
      <4>3. CASE s.io = "clear"
        BY <1>1, <1>6, <3>2, <4>3
      <4> QED
        BY <1>4, <4>1, <4>2, <4>3
    <3> QED
      BY <3>1, <3>2
  <2>4. OwnTask'
    <3> SUFFICES ASSUME NEW t \in Tasks, resume'[t].pc \in Pending
                 PROVE  /\ \A c \in Backends : drv'[c].marker.at # resume'[t].m.at
                        /\ marker'.at = resume'[t].m.at => SameTurn(marker', resume'[t].m)
      BY DEF OwnTask
    <3> DEFINE m == resume[t].m
    <3>1. resume[t].pc \in Pending /\ resume'[t].m = m
      BY DEF TasksStand
    <3>2. /\ GoodMarker(m) /\ m # NoMarker /\ m.at <= clock
          /\ \A c \in Backends : drv[c].marker.at # m.at
          /\ marker.at = m.at => SameTurn(marker, m)
      BY <1>3, <2>0, <3>1 DEF TasksGood, OwnTask
    <3>3. m.at \in Nat /\ m.at # 0
      BY <3>2, NoTime
    <3> HIDE DEF m
    <3>4. s.marker.at # m.at
      BY <1>3, <1>4, <1>6, <3>2, <3>3, NoMarkerGood
    <3>5. \A c \in Backends : drv'[c].marker.at # m.at
      BY <1>1, <3>2, <3>4
    <3>6. marker'.at = m.at => SameTurn(marker', m)
      BY <1>2, <1>4, <1>8, <3>2, <3>3, <3>4, NoMarkerGood
    <3> QED
      BY <3>1, <3>5, <3>6
  <2> QED
    BY <2>3, <2>4, <2>5
<1> QED
  BY <1>11, <1>12, <1>13, <1>14, <1>15

\* A handler that keeps the marker, completes or erases it keeps the promise.
LEMMA KeptPromise ==
  ASSUME IInv, NEW b \in Backends, NEW s, GoodSession(s), Commit(b, s), TasksStand,
         NEW also, also \subseteq {TRUE}, Kept(drv[b], s, also),
         chain' = chain, barren' \in {barren, 0}, also = {} \/ barren' = 0
  PROVE  Promise'
<1>0. CommitOver(b, s, FALSE)
  BY DEF Commit
<1>1. /\ DiskGood' /\ FileFollows' /\ TasksGood' /\ (crossed => crossed')
      /\ crossed' \/ (OwnDriver /\ OwnTask /\ Aimed)'
  BY <1>0, CommitDisk
<1>2. chain' \in Nat /\ barren' \in Nat
  BY DEF IInv, Promise
<1>3. ASSUME ~crossed' PROVE Loop'
  <2>1. Loop /\ OwnDriver /\ barren \in Nat /\ chain \in Nat
    BY <1>1, <1>3 DEF IInv, Promise
  <2>2. barren' <= 1 /\ chain' <= MaxAutoResumes
    BY <2>1 DEF Loop
  <2>3. CASE s.io = "put"
    <3>1. /\ marker' = [s.marker EXCEPT !.owner = b] /\ drv[b].marker # NoMarker
          /\ s.marker.attempts = drv[b].marker.attempts
          /\ s.marker.progressed \in {drv[b].marker.progressed} \cup also
      BY <1>0, <2>3 DEF CommitOver, Asks, Kept
    <3>2. Open(drv[b]) /\ drv[b].marker.at # 0
      BY <3>1, DriverFacts, NoTime
    <3>3. SameTurn(marker, drv[b].marker)
      BY <2>1, <3>1, <3>2 DEF OwnDriver
    <3>4. marker # NoMarker
      BY <3>2, <3>3, NoMarkerGood DEF SameTurn
    <3>5. s.marker \in MarkerType
      BY NoTime DEF GoodSession, WellFormed
    <3>6. /\ marker'.attempts = marker.attempts
          /\ marker'.progressed \in {marker.progressed} \cup also
      BY <3>1, <3>3, <3>5 DEF SameTurn, MarkerType
    <3>7. chain' <= marker'.attempts
      BY <2>1, <3>4, <3>6 DEF Loop
    <3>8. marker'.attempts = 0 \/ marker'.progressed => barren' = 0
      BY <2>1, <3>4, <3>6 DEF Loop
    <3> QED
      BY <2>2, <3>7, <3>8 DEF Loop
  <2>4. CASE s.io = "clear"
    <3>1. marker' = NoMarker
      BY <1>0, <2>4 DEF CommitOver, Asks
    <3> QED
      BY <2>2, <3>1 DEF Loop
  <2>5. CASE s.io = "keep"
    <3>1. marker' = marker
      BY <1>0, <2>5 DEF CommitOver, disk
    <3> QED
      BY <2>1, <2>2, <3>1 DEF Loop
  <2>6. s.io \in {"keep", "put", "clear"}
    BY DEF GoodSession, WellFormed, SessionType
  <2> QED
    BY <2>3, <2>4, <2>5, <2>6
<1> QED
  BY <1>1, <1>2, <1>3 DEF Promise

\* The same, of a handler in which the agent produced nothing.
LEMMA KeptQuietly ==
  ASSUME IInv, NEW b \in Backends, NEW s, GoodSession(s), Commit(b, s), resume' = resume,
         Kept(drv[b], s, {}), chain' = chain, barren' = barren
  PROVE  Promise'
<1> DEFINE also == {}
<1>1. /\ also \subseteq {TRUE} /\ Kept(drv[b], s, also)
      /\ barren' \in {barren, 0} /\ (also = {} \/ barren' = 0)
  OBVIOUS
<1>2. TasksStand
  BY TasksUnchanged
<1> HIDE DEF also
<1> QED
  BY <1>1, <1>2, KeptPromise

\* A turn that begins has its marker, which counts the resumes that led to it.
LEMMA BeginsPromise ==
  ASSUME IInv, NEW b \in Backends, NEW s, GoodSession(s), TasksStand,
         NEW over \in BOOLEAN, CommitOver(b, s, over),
         NEW n \in Nat, Begins(s, Now, n), chain' \in Nat, barren' \in Nat,
         \/ crossed'
         \/ /\ chain' <= n /\ chain' <= MaxAutoResumes /\ barren' <= 1
            /\ n = 0 \/ s.marker.progressed => barren' = 0
  PROVE  Promise'
<1>1. /\ DiskGood' /\ FileFollows' /\ TasksGood' /\ (crossed => crossed')
      /\ crossed' \/ (OwnDriver /\ OwnTask /\ Aimed)'
  BY CommitDisk
<1>2. ASSUME ~crossed' PROVE Loop'
  <2>1. /\ chain' <= n /\ chain' <= MaxAutoResumes /\ barren' <= 1
        /\ n = 0 \/ s.marker.progressed => barren' = 0
    BY <1>1, <1>2
  <2>2. marker' = [s.marker EXCEPT !.owner = b] /\ s.marker.attempts = n
    BY DEF CommitOver, Asks, Begins
  <2>3. s.marker \in MarkerType
    BY NoTime DEF GoodSession, WellFormed
  <2>4. marker'.attempts = n /\ marker'.progressed = s.marker.progressed
    BY <2>2, <2>3 DEF MarkerType
  <2> QED
    BY <2>1, <2>4 DEF Loop
<1> QED
  BY <1>1, <1>2 DEF Promise

\* A driver that writes nothing, or is gone, leaves the disk as it was.
LEMMA QuietDisk ==
  ASSUME IInv, NEW b \in Backends, Apart(b), drv'[b].marker \in {drv[b].marker, NoMarker},
         Open(drv[b]) \/ drv'[b].marker = NoMarker,
         UNCHANGED <<marker, clock, chain, barren>>, crossed' \in {crossed, TRUE}
  PROVE  /\ DiskGood' /\ (crossed' \/ (OwnDriver' /\ Loop'))
         /\ (crossed => crossed') /\ clock' \in Nat /\ clock <= clock'
         /\ \A c \in Backends : /\ drv'[c].marker \in {drv[c].marker, NoMarker}
                                /\ drv'[c].marker # NoMarker => Open(drv[c])
<1>1. \A c \in Backends : /\ drv'[c].marker \in {drv[c].marker, NoMarker}
                          /\ drv'[c].marker # NoMarker => Open(drv[c])
  <2> TAKE c \in Backends
  <2>1. drv[c].marker # NoMarker => Open(drv[c])
    BY DriverFacts
  <2> QED
    BY <2>1 DEF Apart
<1>5. crossed \in BOOLEAN /\ clock \in Nat
  BY DEF IInv, Promise, DiskGood
<1>6. clock' \in Nat /\ clock <= clock'
  BY <1>5
<1>7. crossed' = crossed \/ crossed' = TRUE
  OBVIOUS
<1>8. crossed' \in BOOLEAN /\ (crossed => crossed')
  BY <1>5, <1>7
<1>4. /\ crossed \in BOOLEAN /\ crossed' \in BOOLEAN /\ (crossed => crossed')
      /\ clock' \in Nat /\ clock <= clock'
  BY <1>5, <1>6, <1>8
<1>2. DiskGood'
  <2>1. \A c \in Backends : drv'[c].marker.at <= clock
    BY <1>1, NoMarkerGood DEF IInv, Promise, DiskGood
  <2> QED
    BY <1>4, <2>1 DEF IInv, Promise, DiskGood
<1>3. ASSUME ~crossed' PROVE OwnDriver' /\ Loop'
  BY <1>1, <1>3, <1>4 DEF IInv, Promise, OwnDriver, Loop
<1> QED
  BY <1>1, <1>2, <1>3, <1>4

\* With the tasks that stand, the promise is kept, if the file follows.
LEMMA QuietPromiseOver ==
  ASSUME IInv, NEW b \in Backends, Apart(b), drv'[b].marker \in {drv[b].marker, NoMarker},
         Open(drv[b]) \/ drv'[b].marker = NoMarker,
         UNCHANGED <<marker, clock, chain, barren>>, crossed' \in {crossed, TRUE},
         FileFollows', TasksStand
  PROVE  Promise'
<1>1. /\ DiskGood' /\ (crossed' \/ (OwnDriver' /\ Loop'))
      /\ (crossed => crossed') /\ clock' \in Nat /\ clock <= clock'
      /\ \A c \in Backends : /\ drv'[c].marker \in {drv[c].marker, NoMarker}
                             /\ drv'[c].marker # NoMarker => Open(drv[c])
  BY QuietDisk
<1>2. TasksGood'
  BY <1>1, TasksStay
<1>3. ASSUME ~crossed' PROVE OwnTask'
  <2> SUFFICES ASSUME NEW t \in Tasks, resume'[t].pc \in Pending
               PROVE  /\ \A c \in Backends : drv'[c].marker.at # resume'[t].m.at
                      /\ marker'.at = resume'[t].m.at => SameTurn(marker', resume'[t].m)
    BY DEF OwnTask
  <2>1. resume[t].pc \in Pending /\ resume'[t].m = resume[t].m
    BY DEF TasksStand
  <2>2. /\ GoodMarker(resume[t].m) /\ resume[t].m # NoMarker
        /\ \A c \in Backends : drv[c].marker.at # resume[t].m.at
        /\ marker.at = resume[t].m.at => SameTurn(marker, resume[t].m)
    BY <1>1, <1>3, <2>1 DEF IInv, Promise, TasksGood, OwnTask
  <2>3. resume[t].m.at # 0
    BY <2>2, NoTime
  <2> QED
    BY <1>1, <2>1, <2>2, <2>3, NoMarkerGood
<1>4. ASSUME ~crossed' PROVE Aimed'
  <2>1. \A c \in Backends : \/ drv'[c].marker = NoMarker
                            \/ drv[c].marker # NoMarker /\ drv'[c].marker.at = drv[c].marker.at
    BY <1>1
  <2> QED
    BY <1>1, <1>4, <2>1, AimedStays
<1> QED
  BY <1>1, <1>2, <1>3, <1>4 DEF IInv, Promise

\* The same, with nothing asked of the file.
LEMMA QuietPromise ==
  ASSUME IInv, NEW b \in Backends, Apart(b), drv'[b].marker \in {drv[b].marker, NoMarker},
         Open(drv[b]) \/ drv'[b].marker = NoMarker,
         UNCHANGED <<disk, clock, chain, barren>>, crossed' \in {crossed, TRUE}, TasksStand
  PROVE  Promise'
<1>4. crossed \in BOOLEAN /\ clock \in Nat /\ clock' = clock
  BY DEF IInv, Promise, DiskGood
<1>5. crossed' = crossed \/ crossed' = TRUE
  OBVIOUS
<1>6. crossed => crossed'
  BY <1>4, <1>5
<1>1. clock' \in Nat /\ clock <= clock' /\ (crossed => crossed')
  BY <1>4, <1>6
<1>2. FileFollows'
  BY <1>1, FileStays
<1>3. UNCHANGED <<marker, clock, chain, barren>>
  BY DEF disk
<1> QED
  BY <1>2, <1>3, QuietPromiseOver

\* A new task holds a marker whose turn no driver runs.
LEMMA NewTaskPromise ==
  ASSUME IInv, NEW b \in Backends, Apart(b), drv'[b].marker \in {drv[b].marker, NoMarker},
         Open(drv[b]) \/ drv'[b].marker = NoMarker,
         UNCHANGED <<disk, clock, chain, barren>>, crossed' \in {crossed, TRUE},
         NEW t \in Tasks, NEW k \in TaskType, resume' = [resume EXCEPT ![t] = k],
         k.pc \notin Decided, GoodMarker(k.m), k.m # NoMarker, k.m.at <= clock,
         \/ crossed'
         \/ /\ \A c \in Backends : drv'[c].marker = NoMarker \/ drv'[c].marker.at # k.m.at
            /\ SameTurn(marker, k.m)
  PROVE  Promise'
<1>0. UNCHANGED <<marker, clock, chain, barren>>
  BY DEF disk
<1>1. /\ DiskGood' /\ (crossed' \/ (OwnDriver' /\ Loop'))
      /\ (crossed => crossed') /\ clock' \in Nat /\ clock <= clock'
      /\ \A c \in Backends : /\ drv'[c].marker \in {drv[c].marker, NoMarker}
                             /\ drv'[c].marker # NoMarker => Open(drv[c])
  BY <1>0, QuietDisk
<1>5. FileFollows'
  BY <1>1, FileStays
<1>2. /\ resume' \in [Tasks -> TaskType] /\ resume'[t] = k
      /\ \A u \in Tasks \ {t} : resume'[u] = resume[u]
  BY DEF IInv, Promise, TasksGood
<1>3. TasksGood'
  BY <1>0, <1>2 DEF IInv, Promise, TasksGood, Decided
<1>6. ASSUME ~crossed' PROVE Aimed'
  <2> SUFFICES ASSUME NEW u \in Tasks, resume'[u].pc = "inject", NEW c \in Backends \ {u[1]},
                      drv'[c].marker # NoMarker
               PROVE  drv'[c].marker.at > resume'[u].seen
    BY DEF Aimed
  <2>1. u # t
    BY <1>2 DEF Decided
  <2>2. resume'[u] = resume[u] /\ drv'[c].marker = drv[c].marker
    BY <1>1, <1>2, <2>1
  <2> QED
    BY <1>1, <1>6, <2>2 DEF IInv, Promise, Aimed
<1>4. ASSUME ~crossed' PROVE OwnTask'
  <2> SUFFICES ASSUME NEW u \in Tasks, resume'[u].pc \in Pending
               PROVE  /\ \A c \in Backends : drv'[c].marker.at # resume'[u].m.at
                      /\ marker'.at = resume'[u].m.at => SameTurn(marker', resume'[u].m)
    BY DEF OwnTask
  <2>0. marker' = marker /\ NoMarker.at = 0
    BY <1>0 DEF NoMarker
  <2>1. CASE u = t
    <3>1. k.m.at # 0 /\ resume'[u] = k
      BY <1>2, <2>1, NoTime
    <3>2. /\ \A c \in Backends : drv'[c].marker = NoMarker \/ drv'[c].marker.at # k.m.at
          /\ SameTurn(marker, k.m)
      BY <1>4
    <3>3. \A c \in Backends : drv'[c].marker.at # k.m.at
      BY <2>0, <3>1, <3>2
    <3> QED
      BY <2>0, <3>1, <3>2, <3>3
  <2>2. CASE u # t
    <3>1. resume'[u] = resume[u] /\ resume[u].pc \in Pending
      BY <1>2, <2>2
    <3>2. /\ GoodMarker(resume[u].m) /\ resume[u].m # NoMarker
          /\ \A c \in Backends : drv[c].marker.at # resume[u].m.at
          /\ marker.at = resume[u].m.at => SameTurn(marker, resume[u].m)
      BY <1>1, <1>4, <3>1 DEF IInv, Promise, TasksGood, OwnTask
    <3>3. resume[u].m.at # 0
      BY <3>2, NoTime
    <3>4. \A c \in Backends : drv'[c].marker.at # resume[u].m.at
      BY <1>1, <2>0, <3>2, <3>3
    <3> QED
      BY <2>0, <3>1, <3>2, <3>4
  <2> QED
    BY <2>1, <2>2
<1> QED
  BY <1>0, <1>1, <1>3, <1>4, <1>5, <1>6 DEF IInv, Promise

-----------------------------------------------------------------------------
\* Nothing of the drivers, the disk or the backends moves.
LEMMA SilentStep ==
  ASSUME IInv, page' \in 0 .. MaxBackends,
         UNCHANGED <<drv, cli, pipe, miscount, disk, clock, crossed, chain, barren,
                     resume, bk, beat>>
  PROVE  IInv'
<1>1. Promise'
  BY DEF IInv, Promise, DiskGood, FileFollows, FileGood, Signed, OwnFile, TasksGood,
         OwnDriver, OwnTask, Aimed, Loop, disk
<1>2. Homes'
  BY DEF IInv, Homes
<1>3. ProcessTyped' /\ Processes'
  BY DEF IInv, ProcessTyped, Processes
<1> QED
  BY <1>1, <1>2, <1>3 DEF IInv

\* A session that changes in nothing the properties are about.
LEMMA AlikeStep ==
  ASSUME IInv, NEW b \in Backends, Open(drv[b]),
         NEW r, GoodSession(r), AtRest(r), Alike(r, drv[b]), r.marker = drv[b].marker,
         drv' = [drv EXCEPT ![b] = r], page' \in 0 .. MaxBackends,
         UNCHANGED <<cli, pipe, miscount, disk, clock, crossed, chain, barren,
                     resume, bk, beat>>
  PROVE  IInv'
<1>1. /\ Good(drv[b], cli[b], pipe[b])
      /\ miscount[b] \/ Sound(drv[b], cli[b], pipe[b])
      /\ bk[b] = "up"
  BY DriverFacts
<1>2. r.child = drv[b].child /\ r.activeTurns = drv[b].activeTurns
  BY DEF Alike
<1>3. /\ isTurnInFlight(drv[b]) = isTurnInFlight(r)
      /\ Followed(drv[b]) = Followed(r)
  BY AlikeFollowed
<1>4. /\ Good(r, cli[b], pipe[b]) /\ Open(r)
      /\ Sound(drv[b], cli[b], pipe[b]) => Sound(r, cli[b], pipe[b])
  BY <1>1, <1>2, <1>3, StepGood
<1>5. drv' \in [Backends -> SessionType] /\ drv'[b] = r /\ Apart(b)
  BY DEF GoodSession, WellFormed, IInv, ProcessTyped, Apart
<1>6. Local(b)
  BY <1>1, <1>4, <1>5 DEF Local, IInv, ProcessTyped
<1>7. Homes'
  BY <1>1, <1>6, HomesStep
<1>8. Promise'
  BY <1>5, TasksUnchanged, QuietPromise
<1> QED
  BY <1>6, <1>7, <1>8, ProcessesStep DEF IInv

\* The page in front of a driver, or of a new one.
LEMMA AttachesStep ==
  ASSUME IInv, NEW b \in Backends, Attaches(b)
  PROVE  IInv'
<1>0. /\ bk[b] = "up" /\ page' \in 0 .. MaxBackends
      /\ UNCHANGED <<pipe, miscount, disk, clock, crossed, chain, barren, resume, bk, beat>>
  BY BoundsAssumption DEF Attaches, Serving, ghosts, Backends
<1>1. CASE Open(drv[b])
  <2> DEFINE r == [drv[b] EXCEPT !.idleTimer = FALSE]
  <2>1. drv' = [drv EXCEPT ![b] = r]
    BY <1>1 DEF Attaches
  <2>2. cli' = cli
    BY <1>1 DEF Attaches, IInv, ProcessTyped
  <2>3. GoodSession(r) /\ AtRest(r) /\ Alike(r, drv[b]) /\ r.marker = drv[b].marker
    BY DriverFacts, TimersGood
  <2> HIDE DEF r
  <2> QED
    BY <1>0, <1>1, <2>1, <2>2, <2>3, AlikeStep
<1>2. CASE ~Open(drv[b])
  <2>1. drv' = [drv EXCEPT ![b] = FreshSession] /\ cli' = [cli EXCEPT ![b] = NoCli]
    BY <1>2 DEF Attaches
  <2>2. FreshSession \in SessionType /\ NoCli \in CliType
    BY FreshGood, FreshlyGood DEF GoodSession, WellFormed
  <2>3. /\ drv' \in [Backends -> SessionType] /\ drv'[b] = FreshSession
        /\ cli' \in [Backends -> CliType] /\ cli'[b] = NoCli /\ Apart(b)
    BY <1>0, <2>1, <2>2 DEF IInv, ProcessTyped, Apart
  <2>4. pipe[b] = <<>>
    BY <1>2, DriverFacts
  <2>5. Local(b)
    BY <1>0, <2>3, <2>4, FreshlyGood DEF Local, IInv, ProcessTyped
  <2>6. Homes'
    BY <1>0, <2>5, HomesStep
  <2>7. Promise'
    BY <1>0, <2>3, FreshGood, TasksUnchanged, QuietPromise
  <2> QED
    BY <2>5, <2>6, <2>7, ProcessesStep DEF IInv
<1> QED
  BY <1>1, <1>2

\* The page gone: a clock starts at most.
LEMMA DetachesStep ==
  ASSUME IInv, NEW b \in Backends, Detaches(b)
  PROVE  IInv'
<1>0. /\ page' \in 0 .. MaxBackends
      /\ UNCHANGED <<cli, pipe, miscount, disk, clock, crossed, chain, barren, resume, bk, beat>>
  BY BoundsAssumption DEF Detaches, ghosts
<1>1. CASE Open(drv[b])
  <2> DEFINE r == maybeScheduleIdleStop(drv[b], FALSE)
  <2>1. drv' = [drv EXCEPT ![b] = r]
    BY <1>1 DEF Detaches
  <2>2. GoodSession(r) /\ AtRest(r) /\ Alike(r, drv[b]) /\ r.marker = drv[b].marker
    <3>1. GoodSession(drv[b]) /\ AtRest(drv[b])
      BY DriverFacts
    <3> QED
      BY <3>1, TimersGood
  <2> HIDE DEF r
  <2> QED
    BY <1>0, <1>1, <2>1, <2>2, AlikeStep
<1>2. CASE ~Open(drv[b])
  <2>1. drv' = drv
    BY <1>2 DEF Detaches, IInv, ProcessTyped
  <2> QED
    BY <1>0, <2>1, SilentStep
<1> QED
  BY <1>1, <1>2

\* The session a turn enters: the one there is, or a new one in its place.
LEMMA BaseFacts ==
  ASSUME IInv, NEW b \in Backends, NEW s,
         \/ s = drv[b] /\ Open(drv[b])
         \/ s = FreshSession /\ ~Open(drv[b])
  PROVE  /\ Good(s, cli[b], pipe[b]) /\ Open(s) /\ GoodSession(s) /\ AtRest(s)
         /\ miscount[b] \/ Sound(s, cli[b], pipe[b])
         /\ s.activeTurns = drv[b].activeTurns /\ s.marker = drv[b].marker
<1>1. CASE s = drv[b] /\ Open(drv[b])
  BY <1>1, DriverFacts
<1>2. CASE s = FreshSession /\ ~Open(drv[b])
  <2>1. drv[b] = NoSession /\ pipe[b] = <<>>
    BY <1>2, DriverFacts
  <2>2. cli[b] = NoCli
    BY <2>1, FreshGood, DriverFacts
  <2> QED
    BY <1>2, <2>1, <2>2, FreshGood, FreshlyGood DEF Good, Shaped, Open
<1> QED
  BY <1>1, <1>2

\* A turn written to the driver: its own part of the step, whoever sent it.
LEMMA SendsLocally ==
  ASSUME IInv, NEW b \in Backends, NEW s, NEW r,
         \/ s = drv[b] /\ Open(drv[b])
         \/ s = FreshSession /\ ~Open(drv[b]),
         cli[b].held < MaxHeld,
         GoodSession(r), r.child = s.child, r.activeTurns = s.activeTurns + 1,
         isTurnInFlight(r), Followed(r),
         NEW over, CommitOver(b, r, over),
         cli' = [cli EXCEPT ![b] = Holding(cli[b], s.child)],
         miscount' = [miscount EXCEPT ![b] = miscount[b] \/ Straddles(b)], pipe' = pipe
  PROVE  Local(b) /\ Open(drv'[b])
<1>1. /\ Good(s, cli[b], pipe[b]) /\ Open(s) /\ GoodSession(s) /\ AtRest(s)
      /\ miscount[b] \/ Sound(s, cli[b], pipe[b])
      /\ s.activeTurns = drv[b].activeTurns
  BY BaseFacts
<1>2. /\ drv' \in [Backends -> SessionType]
      /\ \A c \in Backends \ {b} : drv'[c] = drv[c]
      /\ GoodSession(drv'[b]) /\ AtRest(drv'[b])
      /\ drv'[b].child = s.child /\ drv'[b].activeTurns = s.activeTurns + 1
      /\ isTurnInFlight(drv'[b]) /\ Followed(drv'[b])
  BY CommitFacts
<1> DEFINE k == Holding(cli[b], s.child)
           lost == miscount[b] \/ Straddles(b)
<1>3. /\ Good(drv'[b], k, pipe[b]) /\ Open(drv'[b])
      /\ /\ Sound(s, cli[b], pipe[b])
         /\ ~(cli[b].run = "own" \/ Downs(pipe[b], Len(pipe[b])) > s.activeTurns)
         => Sound(drv'[b], k, pipe[b])
  BY <1>1, <1>2, SendGood
<1>4. lost \in BOOLEAN /\ (lost \/ Sound(drv'[b], k, pipe[b]))
  BY <1>1, <1>3 DEF Straddles, IInv, ProcessTyped
<1>5. k \in CliType
  BY <1>3 DEF Good, Shaped
<1> HIDE DEF k, lost
<1>6. cli' \in [Backends -> CliType] /\ cli'[b] = k /\ \A c \in Backends \ {b} : cli'[c] = cli[c]
  BY <1>5 DEF IInv, ProcessTyped, k
<1>7. /\ miscount' \in [Backends -> BOOLEAN] /\ miscount'[b] = lost
      /\ \A c \in Backends \ {b} : miscount'[c] = miscount[c]
  BY <1>4 DEF IInv, ProcessTyped, lost
<1>8. ProcessTyped' /\ Apart(b)
  BY <1>2, <1>6, <1>7 DEF IInv, ProcessTyped, Apart
<1> QED
  BY <1>3, <1>4, <1>6, <1>7, <1>8 DEF Local

\* A person's turn.
LEMMA EntersStep ==
  ASSUME IInv, NEW b \in Backends, NEW s, Enters(b, s), page' \in 0 .. MaxBackends,
         \/ s = drv[b] /\ Open(drv[b])
         \/ s = FreshSession /\ ~Open(drv[b]) /\ bk[b] = "up"
  PROVE  IInv'
<1>1. PICK r \in {PersonTurn(s, Now)} : Commit(b, r) /\ dot' = Dot(b, r)
  BY DEF Enters
<1>2. /\ cli[b].held < MaxHeld /\ cli' = [cli EXCEPT ![b] = Holding(cli[b], s.child)]
      /\ miscount' = [miscount EXCEPT ![b] = miscount[b] \/ Straddles(b)]
      /\ chain' = 0 /\ barren' = 0 /\ UNCHANGED <<bk, beat, pipe, resume>>
  BY DEF Enters, Write, Holding
<1>3. GoodSession(s) /\ Now \in Nat \ {0}
  BY BaseFacts DEF IInv, Promise, DiskGood, Now
<1>4. /\ GoodSession(r) /\ Followed(r) /\ Begins(r, Now, 0)
      /\ r.child = s.child /\ r.activeTurns = s.activeTurns + 1
      /\ isTurnInFlight(r)
  BY <1>3, PersonTurnGood
<1>9. CommitOver(b, r, FALSE)
  BY <1>1 DEF Commit
<1>5. Local(b)
  BY <1>2, <1>4, <1>9, SendsLocally
<1>6. bk[b] = "up"
  BY DriverFacts
<1>7. Homes'
  BY <1>2, <1>5, <1>6, HomesStep
<1>8. Promise'
  <2>1. /\ chain' \in Nat /\ barren' \in Nat
        /\ chain' <= 0 /\ chain' <= MaxAutoResumes /\ barren' <= 1 /\ barren' = 0
    BY <1>2, LimitsAssumption
  <2>2. TasksStand
    BY <1>2, TasksUnchanged
  <2> QED
    BY <1>4, <1>9, <2>1, <2>2, BeginsPromise
<1> QED
  BY <1>5, <1>7, <1>8, ProcessesStep DEF IInv

\* A driver whose CLI rests or is gone: what it follows is all that counts.
LEMMA RestGood ==
  ASSUME NEW d, NEW c, NEW p, Good(d, c, p), Open(d), d.child # "up" \/ c.run = "no",
         NEW r, GoodSession(r), AtRest(r), r.child = d.child, Followed(d) => Followed(r)
  PROVE  /\ Good(r, c, p) /\ Open(r)
         /\ Sound(d, c, p) /\ r.activeTurns = d.activeTurns => Sound(r, c, p)
<1>1. Shaped(r, c, p) /\ Open(r)
  BY DEF Good, Shaped, Open
<1>2. Settled(r, c, p) /\ Heard(r, c, p)
  BY DEF Good, Settled, Heard
<1>3. Counts(d, c, p) /\ r.activeTurns = d.activeTurns => Counts(r, c, p)
  BY DEF Counts
<1> QED
  BY <1>1, <1>2, <1>3 DEF Good, Sound

\* A step at b, put together from its parts.
LEMMA LocalStep ==
  ASSUME IInv, NEW b \in Backends,
         drv' \in [Backends -> SessionType], \A c \in Backends \ {b} : drv'[c] = drv[c],
         NEW k \in CliType, cli' = [cli EXCEPT ![b] = k],
         NEW q \in Seq(Events), pipe' = [pipe EXCEPT ![b] = q],
         miscount' \in [Backends -> BOOLEAN],
         \A c \in Backends \ {b} : miscount'[c] = miscount[c],
         Good(drv'[b], k, q), miscount'[b] \/ Sound(drv'[b], k, q)
  PROVE  Local(b)
BY DEF Local, Apart, IInv, ProcessTyped

\* The same, of a step of the CLI alone.
LEMMA CliStep ==
  ASSUME IInv, NEW b \in Backends,
         NEW k \in CliType, cli' = [cli EXCEPT ![b] = k],
         NEW q \in Seq(Events), pipe' = [pipe EXCEPT ![b] = q],
         miscount' \in [Backends -> BOOLEAN],
         \A c \in Backends \ {b} : miscount'[c] = miscount[c],
         Good(drv[b], k, q), miscount'[b] \/ Sound(drv[b], k, q),
         UNCHANGED <<drv, bk, page, beat, disk, resume, clock, crossed, chain, barren>>
  PROVE  IInv'
<1>1. drv' \in [Backends -> SessionType] /\ drv'[b] = drv[b]
  BY DEF IInv, ProcessTyped
<1>2. Local(b)
  BY <1>1, LocalStep
<1>3. Homes'
  BY <1>1, <1>2, DriverFacts, HomesStep DEF IInv, Homes
<1>4. Apart(b) /\ (Open(drv[b]) \/ drv'[b].marker = NoMarker)
  BY <1>1, <1>2, DriverFacts DEF Local
<1>5. Promise'
  BY <1>1, <1>4, TasksUnchanged, QuietPromise
<1> QED
  BY <1>2, <1>3, <1>5, ProcessesStep DEF IInv

\* An order to continue, or none: the driver's part of a timer that may send one.
LEMMA OrdersLocally ==
  ASSUME IInv, NEW b \in Backends, Open(drv[b]), cli[b].held < MaxHeld,
         NEW s, GoodSession(s), Followed(s), s.child = drv[b].child,
         s.activeTurns \in {drv[b].activeTurns, drv[b].activeTurns + 1},
         isTurnInFlight(drv[b]) => isTurnInFlight(s),
         Commit(b, s), Orders(b, s), pipe' = pipe
  PROVE  Local(b) /\ Open(drv'[b])
<1>0. drv[b].activeTurns \in Nat /\ cli[b] \in CliType /\ pipe[b] \in Seq(Events)
  BY DriverFacts DEF Good, Shaped
<1>3. CommitOver(b, s, FALSE)
  BY DEF Commit
<1>1. CASE s.activeTurns = drv[b].activeTurns + 1
  <2>1. s.activeTurns > drv[b].activeTurns
    BY <1>0, <1>1
  <2>2. /\ cli' = [cli EXCEPT ![b] = Holding(cli[b], drv[b].child)]
        /\ miscount' = [miscount EXCEPT ![b] = miscount[b] \/ Straddles(b)]
    BY <2>1 DEF Orders, Write, Holding
  <2>3. isTurnInFlight(s)
    BY <1>0, <1>1 DEF isTurnInFlight
  <2> QED
    BY <1>1, <1>3, <2>2, <2>3, SendsLocally
<1>2. CASE s.activeTurns = drv[b].activeTurns
  <2>0. ~(s.activeTurns > drv[b].activeTurns)
    BY <1>0, <1>2
  <2>1. cli' = cli
    BY <2>0 DEF Orders
  <2>2. miscount' = miscount
    <3>1. miscount' = [miscount EXCEPT ![b] = miscount[b] \/ (s.activeTurns > drv[b].activeTurns
                                                              /\ Straddles(b))]
      BY DEF Orders
    <3>2. miscount[b] \in BOOLEAN /\ miscount \in [Backends -> BOOLEAN]
      BY DEF IInv, ProcessTyped
    <3> QED
      BY <2>0, <3>1, <3>2, Zenon
  <2>3. /\ drv' \in [Backends -> SessionType]
        /\ \A c \in Backends \ {b} : drv'[c] = drv[c]
        /\ GoodSession(drv'[b]) /\ AtRest(drv'[b])
        /\ drv'[b].child = drv[b].child /\ drv'[b].activeTurns = drv[b].activeTurns
        /\ isTurnInFlight(drv[b]) => isTurnInFlight(drv'[b])
        /\ Followed(drv'[b])
    BY <1>2, <1>3, CommitFacts
  <2>4. /\ Good(drv[b], cli[b], pipe[b])
        /\ miscount[b] \/ Sound(drv[b], cli[b], pipe[b])
    BY DriverFacts
  <2>5. /\ Good(drv'[b], cli[b], pipe[b]) /\ Open(drv'[b])
        /\ Sound(drv[b], cli[b], pipe[b]) => Sound(drv'[b], cli[b], pipe[b])
    BY <2>3, <2>4, StepGood
  <2>6. Apart(b) /\ ProcessTyped'
    BY <2>1, <2>2, <2>3 DEF Apart, IInv, ProcessTyped
  <2> QED
    BY <2>1, <2>2, <2>4, <2>5, <2>6 DEF Local
<1> QED
  BY <1>1, <1>2

\* The deadline of a continuation.
LEMMA WatchFiresStep ==
  ASSUME IInv, NEW b \in Backends, WatchFires(b)
  PROVE  IInv'
<1>0. /\ Open(drv[b]) /\ drv[b].armed /\ cli[b].held < MaxHeld
      /\ UNCHANGED <<bk, page, beat, pipe, resume, chain, barren>>
  BY DEF WatchFires
<1>1. PICK s \in {checkResumeWatch(drv[b], Now, attached(b))} : Commit(b, s) /\ Orders(b, s)
  BY DEF WatchFires
<1>2. GoodSession(drv[b]) /\ AtRest(drv[b]) /\ Now \in Nat \ {0}
  BY DriverFacts DEF IInv, Promise, DiskGood, Now
<1>3. /\ GoodSession(s) /\ Followed(s) /\ Kept(drv[b], s, {}) /\ s.child = drv[b].child
      /\ s.activeTurns \in {drv[b].activeTurns, drv[b].activeTurns + 1}
      /\ isTurnInFlight(drv[b]) => isTurnInFlight(s)
  BY <1>0, <1>2, WatchGood
<1>4. Local(b)
  BY <1>0, <1>1, <1>3, OrdersLocally
<1>5. Homes'
  BY <1>0, <1>4, DriverFacts, HomesStep DEF IInv, Homes
<1>6. Promise'
  BY <1>0, <1>1, <1>3, KeptQuietly
<1> QED
  BY <1>4, <1>5, <1>6, ProcessesStep DEF IInv

\* The retry of a turn the API ended.
LEMMA RetryFiresStep ==
  ASSUME IInv, NEW b \in Backends, RetryFires(b)
  PROVE  IInv'
<1>0. /\ Open(drv[b]) /\ drv[b].retryTimer /\ cli[b].held < MaxHeld
      /\ UNCHANGED <<bk, page, beat, pipe, resume>>
  BY DEF RetryFires
<1>1. PICK s \in {ApiRetryFires(drv[b], Now, attached(b))} :
        /\ Commit(b, s) /\ Orders(b, s)
        /\ chain' = IF s.activeTurns > drv[b].activeTurns THEN 0 ELSE chain
        /\ barren' = IF s.activeTurns > drv[b].activeTurns THEN 0 ELSE barren
  BY DEF RetryFires
<1>2. GoodSession(drv[b]) /\ AtRest(drv[b]) /\ Now \in Nat \ {0} /\ drv[b].activeTurns \in Nat
  BY DriverFacts DEF IInv, Promise, DiskGood, Now
<1>3. /\ GoodSession(s) /\ Followed(s) /\ s.child = drv[b].child
      /\ \/ s.activeTurns = drv[b].activeTurns /\ Kept(drv[b], s, {})
         \/ s.activeTurns = drv[b].activeTurns + 1 /\ Begins(s, Now, 0)
      /\ isTurnInFlight(drv[b]) => isTurnInFlight(s)
  BY <1>0, <1>1, <1>2, RetryGood
<1>4. Local(b)
  BY <1>0, <1>1, <1>3, OrdersLocally
<1>5. Homes'
  BY <1>0, <1>4, DriverFacts, HomesStep DEF IInv, Homes
<1>6. CASE s.activeTurns = drv[b].activeTurns /\ Kept(drv[b], s, {})
  <2>1. chain' = chain /\ barren' = barren
    BY <1>1, <1>2, <1>6
  <2>2. Promise'
    BY <1>0, <1>1, <1>3, <1>6, <2>1, KeptQuietly
  <2> QED
    BY <1>4, <1>5, <2>2, ProcessesStep DEF IInv
<1>7. CASE s.activeTurns = drv[b].activeTurns + 1 /\ Begins(s, Now, 0)
  <2>1. chain' = 0 /\ barren' = 0
    BY <1>1, <1>2, <1>7
  <2>3. CommitOver(b, s, FALSE)
    BY <1>1 DEF Commit
  <2>2. Promise'
    <3>1. /\ chain' \in Nat /\ barren' \in Nat
          /\ chain' <= 0 /\ chain' <= MaxAutoResumes /\ barren' <= 1 /\ barren' = 0
      BY <2>1, LimitsAssumption
    <3>2. TasksStand
      BY <1>0, TasksUnchanged
    <3> QED
      BY <1>3, <1>7, <2>3, <3>1, <3>2, BeginsPromise
  <2> QED
    BY <1>4, <1>5, <2>2, ProcessesStep DEF IInv
<1> QED
  BY <1>3, <1>6, <1>7

\* A driver that ends and its marker with it: nothing is left to be followed.
LEMMA StopsStep ==
  ASSUME IInv, NEW b \in Backends, Commit(b, [NoSession EXCEPT !.io = "clear"]),
         cli' = [cli EXCEPT ![b] = NoCli], pipe' = [pipe EXCEPT ![b] = <<>>],
         miscount' \in [Backends -> BOOLEAN],
         \A c \in Backends \ {b} : miscount'[c] = miscount[c],
         page' \in 0 .. MaxBackends, UNCHANGED <<bk, beat, resume, chain, barren>>
  PROVE  IInv'
<1> DEFINE s == [NoSession EXCEPT !.io = "clear"]
<1>1. /\ GoodSession(s) /\ s.marker = NoMarker /\ s.io = "clear" /\ s.child = "none"
      /\ Quiet(s) = NoSession /\ Kept(drv[b], s, {})
  BY StopGood
<1>2. Commit(b, s)
  OBVIOUS
<1> HIDE DEF s
<1>8. CommitOver(b, s, FALSE)
  BY <1>2 DEF Commit
<1>3. /\ drv' \in [Backends -> SessionType] /\ drv'[b] = NoSession
      /\ \A c \in Backends \ {b} : drv'[c] = drv[c] /\ ~Open(drv'[b])
  BY <1>1, <1>8, CommitFacts
<1>4. <<>> \in Seq(Events)
  BY EmptySeq
<1>5. Local(b)
  BY <1>3, <1>4, FreshlyGood, LocalStep
<1>6. Homes'
  BY <1>3, <1>5, FreshGood, HomesStep DEF Open
<1>7. Promise'
  BY <1>1, <1>2, KeptQuietly
<1> QED
  BY <1>5, <1>6, <1>7, ProcessesStep DEF IInv

\* The idle stop, or its clock that finds a page or a turn.
LEMMA IdleFiresStep ==
  ASSUME IInv, NEW b \in Backends, IdleFires(b)
  PROVE  IInv'
<1>0. /\ Open(drv[b]) /\ bk[b] = "up"
      /\ UNCHANGED <<bk, page, beat, resume, chain, barren>>
  BY DEF IdleFires
<1>1. CASE attached(b) \/ turnRunning(drv[b])
  <2> DEFINE i == [drv[b] EXCEPT !.idleTimer = FALSE]
  <2>1. Commit(b, i) /\ cli' = cli /\ pipe' = pipe /\ miscount' = miscount
    BY <1>1 DEF IdleFires
  <2>0. CommitOver(b, i, FALSE)
    BY <2>1 DEF Commit
  <2>2. /\ GoodSession(drv[b]) /\ AtRest(drv[b]) /\ Good(drv[b], cli[b], pipe[b])
        /\ miscount[b] \/ Sound(drv[b], cli[b], pipe[b])
    BY DriverFacts
  <2>3. GoodSession(i) /\ Alike(i, drv[b]) /\ i.marker = drv[b].marker /\ i.io = "keep"
    BY <2>2, TimersGood
  <2> HIDE DEF i
  <2>4. /\ Kept(drv[b], i, {}) /\ isTurnInFlight(i) = isTurnInFlight(drv[b])
        /\ Followed(i) = Followed(drv[b])
    BY <2>3, AlikeFollowed DEF Kept
  <2>5. /\ drv' \in [Backends -> SessionType]
        /\ \A c \in Backends \ {b} : drv'[c] = drv[c]
        /\ GoodSession(drv'[b]) /\ AtRest(drv'[b])
        /\ drv'[b].child = drv[b].child /\ drv'[b].activeTurns = drv[b].activeTurns
        /\ Followed(drv'[b]) <=> Followed(drv[b])
        /\ isTurnInFlight(drv'[b]) <=> isTurnInFlight(drv[b])
    BY <2>0, <2>3, <2>4, CommitFacts DEF Alike
  <2>6. /\ Good(drv'[b], cli[b], pipe[b])
        /\ Sound(drv[b], cli[b], pipe[b]) => Sound(drv'[b], cli[b], pipe[b])
    BY <1>0, <2>2, <2>5, StepGood
  <2>7. Local(b)
    BY <1>0, <2>1, <2>2, <2>5, <2>6 DEF Local, Apart, IInv, ProcessTyped
  <2>8. Homes'
    BY <1>0, <2>7, HomesStep DEF IInv, Homes
  <2>9. Promise'
    BY <1>0, <2>1, <2>3, <2>4, KeptQuietly
  <2> QED
    BY <2>7, <2>8, <2>9, ProcessesStep DEF IInv
<1>2. CASE ~(attached(b) \/ turnRunning(drv[b]))
  <2>1. /\ Commit(b, [NoSession EXCEPT !.io = "clear"]) /\ cli' = [cli EXCEPT ![b] = NoCli]
        /\ pipe' = [pipe EXCEPT ![b] = <<>>] /\ miscount' = [miscount EXCEPT ![b] = FALSE]
    BY <1>2 DEF IdleFires
  <2>2. /\ miscount' \in [Backends -> BOOLEAN]
        /\ \A c \in Backends \ {b} : miscount'[c] = miscount[c]
    BY <2>1 DEF IInv, ProcessTyped
  <2> QED
    BY <1>0, <2>1, <2>2, StopsStep DEF IInv, Homes
<1> QED
  BY <1>1, <1>2

\* The settling of the dot.
LEMMA SettleFiresStep ==
  ASSUME IInv, NEW b \in Backends, SettleFires(b)
  PROVE  IInv'
<1> DEFINE r == [drv[b] EXCEPT !.settling = FALSE]
<1>1. /\ Open(drv[b]) /\ drv' = [drv EXCEPT ![b] = r]
      /\ UNCHANGED <<cli, pipe, miscount, disk, clock, crossed, chain, barren, resume,
                     bk, beat, page>>
  BY DEF SettleFires, ghosts
<1>2. GoodSession(r) /\ AtRest(r) /\ Alike(r, drv[b]) /\ r.marker = drv[b].marker
  BY DriverFacts, TimersGood
<1> HIDE DEF r
<1> QED
  BY <1>1, <1>2, AlikeStep DEF IInv, Homes

\* A step at b which leaves a driver there, put together.
LEMMA DriverStep ==
  ASSUME IInv, NEW b \in Backends, Local(b), Open(drv[b]), Promise',
         UNCHANGED <<bk, page, beat>>
  PROVE  IInv'
<1>1. Homes'
  BY DriverFacts, HomesStep DEF IInv, Homes
<1> QED
  BY <1>1, ProcessesStep DEF IInv

\* Stop, from the page.
LEMMA InterruptStep ==
  ASSUME IInv, NEW b \in Backends, Interrupt(b)
  PROVE  IInv'
<1>0. /\ Open(drv[b]) /\ Len(pipe[b]) < MaxPipe
      /\ miscount' = [miscount EXCEPT ![b] = miscount[b] \/ drv[b].activeTurns > 1]
      /\ UNCHANGED <<bk, page, beat, resume, chain, barren>>
  BY DEF Interrupt
<1>1. PICK s \in {OnInterrupt(drv[b], Now, attached(b))} : Commit(b, s)
  BY DEF Interrupt
<1>10. CommitOver(b, s, FALSE)
  BY <1>1 DEF Commit
<1>2. /\ GoodSession(drv[b]) /\ AtRest(drv[b]) /\ Now \in Nat \ {0}
      /\ drv[b].activeTurns \in Nat /\ Good(drv[b], cli[b], pipe[b])
      /\ miscount[b] \/ Sound(drv[b], cli[b], pipe[b])
      /\ cli[b] \in CliType /\ pipe[b] \in Seq(Events)
  BY DriverFacts DEF IInv, Promise, DiskGood, Now, Good, Shaped
<1>3. /\ GoodSession(s) /\ s.child = drv[b].child /\ Kept(drv[b], s, {})
      /\ Followed(drv[b]) => Followed(s)
      /\ s.activeTurns = IF drv[b].activeTurns > 1 THEN 1 ELSE drv[b].activeTurns
  BY <1>2, InterruptGood
<1>4. /\ drv' \in [Backends -> SessionType]
      /\ \A c \in Backends \ {b} : drv'[c] = drv[c]
      /\ GoodSession(drv'[b]) /\ AtRest(drv'[b])
      /\ drv'[b].child = drv[b].child /\ drv'[b].activeTurns = s.activeTurns
      /\ Followed(drv[b]) => Followed(drv'[b])
  BY <1>10, <1>3, CommitFacts
<1>5. /\ miscount' \in [Backends -> BOOLEAN]
      /\ \A c \in Backends \ {b} : miscount'[c] = miscount[c]
      /\ ~miscount'[b] => ~miscount[b] /\ ~(drv[b].activeTurns > 1)
  BY <1>0 DEF IInv, ProcessTyped
<1>6. ~miscount'[b] => /\ drv'[b].activeTurns = drv[b].activeTurns
                       /\ Sound(drv[b], cli[b], pipe[b]) /\ Followed(drv'[b])
  BY <1>2, <1>3, <1>4, <1>5 DEF Sound
<1>7. Promise'
  BY <1>0, <1>1, <1>3, KeptQuietly
<1>8. CASE drv[b].child = "up" /\ cli[b].run # "no"
  <2>1. PICK survives \in SUBSET (cli[b].after \cap {"tail"}) :
          /\ pipe' = [pipe EXCEPT ![b] = Append(pipe[b], "result")]
          /\ cli' = [cli EXCEPT ![b].run = "no",
                                ![b].after = (cli[b].after \ {"tail"}) \cup survives]
    BY <1>8 DEF Interrupt, IInv, ProcessTyped
  <2> DEFINE k == [cli[b] EXCEPT !.run = "no", !.after = (cli[b].after \ {"tail"}) \cup survives]
             q == Append(pipe[b], "result")
  <2>2. cli' = [cli EXCEPT ![b] = k]
    BY <2>1 DEF IInv, ProcessTyped
  <2>3. k \in CliType /\ k.run = "no" /\ k.held = cli[b].held
    BY <1>2 DEF CliType
  <2>4. "result" \in Events /\ "result" \in Closings /\ q \in Seq(Events)
    BY <1>2, PipeAppend DEF Events, Closings
  <2>5. pipe' = [pipe EXCEPT ![b] = q]
    BY <2>1
  <2> HIDE DEF k
  <2>6. /\ Good(drv'[b], k, q)
        /\ /\ Sound(drv[b], cli[b], pipe[b]) /\ drv'[b].activeTurns = drv[b].activeTurns
           /\ Followed(drv'[b])
           => Sound(drv'[b], k, q)
    BY <1>0, <1>2, <1>4, <1>8, <2>3, <2>4, CloseGood
  <2> HIDE DEF q
  <2>7. Local(b)
    BY <1>4, <1>5, <1>6, <2>2, <2>3, <2>4, <2>5, <2>6, LocalStep
  <2> QED
    BY <1>0, <1>7, <2>7, DriverStep
<1>9. CASE ~(drv[b].child = "up" /\ cli[b].run # "no")
  <2>1. pipe' = pipe /\ cli' = cli
    BY <1>9 DEF Interrupt
  <2>2. /\ Good(drv'[b], cli[b], pipe[b])
        /\ /\ Sound(drv[b], cli[b], pipe[b]) /\ drv'[b].activeTurns = drv[b].activeTurns
           => Sound(drv'[b], cli[b], pipe[b])
    BY <1>0, <1>2, <1>4, <1>9, RestGood
  <2>3. Local(b)
    BY <1>4, <1>5, <1>6, <2>1, <2>2 DEF Local, Apart, IInv, ProcessTyped
  <2> QED
    BY <1>0, <1>7, <2>3, DriverStep
<1> QED
  BY <1>8, <1>9

\* A turn with no page, on the driver there is or on one started for it.
LEMMA AgentTurnStep ==
  ASSUME IInv, NEW b \in Backends, AgentTurn(b)
  PROVE  IInv'
<1>1. page' \in 0 .. MaxBackends
  BY DEF AgentTurn, IInv, Homes
<1>2. CASE Open(drv[b]) /\ Enters(b, drv[b])
  BY <1>1, <1>2, EntersStep
<1>3. CASE ~Open(drv[b]) /\ Enters(b, FreshSession)
  <2>1. bk[b] = "up"
    BY DEF AgentTurn
  <2> QED
    BY <1>1, <1>3, <2>1, EntersStep
<1> QED
  BY <1>2, <1>3 DEF AgentTurn

\* The CLI takes the next message.
LEMMA CliTakesStep ==
  ASSUME IInv, NEW b \in Backends, CliTakes(b)
  PROVE  IInv'
<1>0. /\ drv[b].child = "up" /\ cli[b].held > 0
      /\ UNCHANGED <<drv, bk, page, beat, disk, resume, clock, crossed, chain, barren, miscount>>
  BY DEF CliTakes, Answers, Alive, CliKeeps, ghosts
<1>1. /\ Good(drv[b], cli[b], pipe[b]) /\ cli[b] \in CliType /\ cli[b].held \in Nat
      /\ miscount[b] \/ Sound(drv[b], cli[b], pipe[b])
      /\ pipe[b] \in Seq(Events) /\ pipe \in [Backends -> Seq(Events)]
      /\ miscount \in [Backends -> BOOLEAN]
  BY DriverFacts DEF Good, Shaped, IInv, ProcessTyped
<1>2. cli[b].held - 1 \in Nat
  BY <1>0, <1>1
<1>3. CASE cli[b].run = "no"
  <2> DEFINE k == [cli[b] EXCEPT !.run = "given", !.spoke = FALSE, !.held = cli[b].held - 1,
                                 !.after = cli[b].after \ {"notice"}]
  <2>1. cli' = [cli EXCEPT ![b] = k] /\ pipe' = [pipe EXCEPT ![b] = pipe[b]]
    BY <1>1, <1>3 DEF CliTakes, IInv, ProcessTyped
  <2>2. k \in CliType /\ k.run = "given" /\ ~k.spoke /\ k.held = cli[b].held - 1
    BY <1>1, <1>2 DEF CliType
  <2> HIDE DEF k
  <2>3. /\ Good(drv[b], k, pipe[b])
        /\ Sound(drv[b], cli[b], pipe[b]) => Sound(drv[b], k, pipe[b])
    BY <1>0, <1>1, <1>3, <2>2, TakeGood
  <2> QED
    BY <1>0, <1>1, <2>1, <2>2, <2>3, CliStep
<1>4. CASE cli[b].run # "no"
  <2> DEFINE k == [cli[b] EXCEPT !.run = "given", !.held = cli[b].held - 1,
                                 !.after = cli[b].after \cup {"tail"}]
             q == Append(pipe[b], "absorbed")
  <2>1. /\ cli' = [cli EXCEPT ![b] = k] /\ pipe' = [pipe EXCEPT ![b] = q]
        /\ Len(pipe[b]) < MaxPipe
    BY <1>4 DEF CliTakes, Emit, IInv, ProcessTyped
  <2>2. k \in CliType /\ k.run = "given" /\ k.spoke = cli[b].spoke /\ k.held = cli[b].held - 1
    BY <1>1, <1>2 DEF CliType
  <2>3. q \in Seq(Events)
    BY <1>1, PipeAppend DEF Events
  <2> HIDE DEF k
  <2>4. Good(drv[b], k, q) /\ (Sound(drv[b], cli[b], pipe[b]) => Sound(drv[b], k, q))
    BY <1>0, <1>1, <1>4, <2>1, <2>2, FoldGood
  <2> HIDE DEF q
  <2> QED
    BY <1>0, <1>1, <2>1, <2>2, <2>3, <2>4, CliStep
<1> QED
  BY <1>3, <1>4

\* What the CLI says within a turn, or between turns, leaves the count as it was.
LEMMA SaysStep ==
  ASSUME IInv, NEW b \in Backends, drv[b].child = "up", Len(pipe[b]) < MaxPipe,
         NEW e \in Events, ~IsDown(e),
         NEW k \in CliType, k.held = cli[b].held, k.run = cli[b].run,
         k.spoke => cli[b].spoke \/ e \in {"work", "schedules"}, e = "error" => ~k.spoke,
         cli' = [cli EXCEPT ![b] = k], pipe' = [pipe EXCEPT ![b] = Append(pipe[b], e)],
         CliKeeps
  PROVE  IInv'
<1> DEFINE q == Append(pipe[b], e)
<1>0. UNCHANGED <<drv, bk, page, beat, disk, resume, clock, crossed, chain, barren, miscount>>
  BY DEF CliKeeps, ghosts
<1>1. /\ Good(drv[b], cli[b], pipe[b])
      /\ miscount[b] \/ Sound(drv[b], cli[b], pipe[b])
      /\ pipe[b] \in Seq(Events) /\ miscount \in [Backends -> BOOLEAN]
  BY DriverFacts DEF Good, Shaped, IInv, ProcessTyped
<1>2. q \in Seq(Events) /\ pipe' = [pipe EXCEPT ![b] = q]
  BY <1>1, PipeAppend
<1>3. /\ Good(drv[b], k, q)
      /\ Sound(drv[b], cli[b], pipe[b]) /\ (k.run = "own" => k.held = 0) => Sound(drv[b], k, q)
  BY <1>1, EmitGood
<1>4. Sound(drv[b], cli[b], pipe[b]) => (k.run = "own" => k.held = 0)
  BY DEF Sound, Counts
<1> HIDE DEF q
<1> QED
  BY <1>0, <1>1, <1>2, <1>3, <1>4, CliStep

\* The agent speaks.
LEMMA CliSpeaksStep ==
  ASSUME IInv, NEW b \in Backends, CliSpeaks(b)
  PROVE  IInv'
<1> DEFINE k == [cli[b] EXCEPT !.spoke = TRUE]
<1>1. /\ drv[b].child = "up" /\ Len(pipe[b]) < MaxPipe /\ CliKeeps
      /\ pipe' = [pipe EXCEPT ![b] = Append(pipe[b], "work")] /\ cli' = [cli EXCEPT ![b] = k]
  BY DEF CliSpeaks, Answers, Alive, Emit, IInv, ProcessTyped
<1>2. k \in CliType /\ k.held = cli[b].held /\ k.run = cli[b].run
  <2>1. cli[b] \in CliType
    BY DriverFacts
  <2> QED
    BY <2>1 DEF CliType
<1>3. "work" \in Events /\ ~IsDown("work")
  BY DEF Events, IsDown, Closings
<1> HIDE DEF k
<1> QED
  BY <1>1, <1>2, <1>3, SaysStep

\* It leaves a wake-up.
LEMMA CliSchedulesStep ==
  ASSUME IInv, NEW b \in Backends, CliSchedules(b)
  PROVE  IInv'
<1> DEFINE k == [cli[b] EXCEPT !.spoke = TRUE, !.after = cli[b].after \cup {"wakeup"}]
<1>1. /\ drv[b].child = "up" /\ Len(pipe[b]) < MaxPipe /\ CliKeeps
      /\ pipe' = [pipe EXCEPT ![b] = Append(pipe[b], "schedules")]
      /\ cli' = [cli EXCEPT ![b] = k]
  BY DEF CliSchedules, Answers, Alive, Emit, IInv, ProcessTyped
<1>2. k \in CliType /\ k.held = cli[b].held /\ k.run = cli[b].run
  <2>1. cli[b] \in CliType
    BY DriverFacts
  <2> QED
    BY <2>1 DEF CliType
<1>3. "schedules" \in Events /\ ~IsDown("schedules")
  BY DEF Events, IsDown, Closings
<1> HIDE DEF k
<1> QED
  BY <1>1, <1>2, <1>3, SaysStep

\* It starts a task.
LEMMA CliStartsTaskStep ==
  ASSUME IInv, NEW b \in Backends, CliStartsTask(b)
  PROVE  IInv'
<1> DEFINE k == [cli[b] EXCEPT !.after = cli[b].after \cup {"task"}]
<1>1. /\ drv[b].child = "up" /\ Len(pipe[b]) < MaxPipe /\ CliKeeps
      /\ pipe' = [pipe EXCEPT ![b] = Append(pipe[b], "tasks")] /\ cli' = [cli EXCEPT ![b] = k]
  BY DEF CliStartsTask, Answers, Alive, Emit, IInv, ProcessTyped
<1>2. k \in CliType /\ k.held = cli[b].held /\ k.run = cli[b].run /\ k.spoke = cli[b].spoke
  BY DriverFacts DEF CliType
<1>3. "tasks" \in Events /\ ~IsDown("tasks")
  BY DEF Events, IsDown, Closings
<1> HIDE DEF k
<1> QED
  BY <1>1, <1>2, <1>3, SaysStep

\* A task ends, in a turn or between turns.
LEMMA CliTaskEndsStep ==
  ASSUME IInv, NEW b \in Backends, CliTaskEnds(b)
  PROVE  IInv'
<1> DEFINE k == [cli[b] EXCEPT !.after = (cli[b].after \ {"task"}) \cup {"notice"}]
<1>1. /\ drv[b].child = "up" /\ Len(pipe[b]) < MaxPipe /\ CliKeeps
      /\ pipe' = [pipe EXCEPT ![b] = Append(pipe[b], "no_tasks")]
      /\ cli' = [cli EXCEPT ![b] = k]
  BY DEF CliTaskEnds, Answers, Alive, Emit, IInv, ProcessTyped
<1>2. k \in CliType /\ k.held = cli[b].held /\ k.run = cli[b].run /\ k.spoke = cli[b].spoke
  BY DriverFacts DEF CliType
<1>3. "no_tasks" \in Events /\ ~IsDown("no_tasks")
  BY DEF Events, IsDown, Closings
<1> HIDE DEF k
<1> QED
  BY <1>1, <1>2, <1>3, SaysStep

\* The CLI opens a turn by itself: the count is wrong from then on if it held one.
LEMMA CliOpensTurnStep ==
  ASSUME IInv, NEW b \in Backends, CliOpensTurn(b)
  PROVE  IInv'
<1> DEFINE q == Append(pipe[b], "delta")
<1>0. /\ drv[b].child = "up" /\ cli[b].run = "no" /\ Len(pipe[b]) < MaxPipe
      /\ pipe' = [pipe EXCEPT ![b] = q]
      /\ miscount' = [miscount EXCEPT ![b] = miscount[b] \/ cli[b].held > 0]
      /\ UNCHANGED <<drv, bk, page, beat, disk, resume, clock, crossed, chain, barren>>
  BY DEF CliOpensTurn, Answers, Alive, Emit
<1>10. cli \in [Backends -> CliType] /\ cli[b] \in CliType
  BY DEF IInv, ProcessTyped
<1>1. PICK why \in cli[b].after \ {"task"} :
        cli' = [cli EXCEPT ![b].run = "own", ![b].spoke = FALSE, ![b].after = @ \ {why}]
  BY DEF CliOpensTurn
<1> DEFINE k == [cli[b] EXCEPT !.run = "own", !.spoke = FALSE, !.after = cli[b].after \ {why}]
<1>2. cli' = [cli EXCEPT ![b] = k]
  BY <1>1, <1>10
<1>3. /\ Good(drv[b], cli[b], pipe[b]) /\ cli[b].held \in Nat
      /\ miscount[b] \/ Sound(drv[b], cli[b], pipe[b])
      /\ pipe[b] \in Seq(Events)
  BY DriverFacts DEF Good, Shaped
<1>4. k \in CliType /\ k.held = cli[b].held /\ k.run = "own" /\ ~k.spoke
  BY <1>10 DEF CliType
<1>5. "delta" \in Events /\ ~IsDown("delta") /\ q \in Seq(Events)
  BY <1>3, PipeAppend DEF Events, IsDown, Closings
<1> HIDE DEF k
<1>6. /\ Good(drv[b], k, q)
      /\ Sound(drv[b], cli[b], pipe[b]) /\ (k.run = "own" => k.held = 0) => Sound(drv[b], k, q)
  BY <1>0, <1>3, <1>4, <1>5, EmitGood
<1>7. /\ miscount' \in [Backends -> BOOLEAN]
      /\ \A c \in Backends \ {b} : miscount'[c] = miscount[c]
      /\ ~miscount'[b] => ~miscount[b] /\ ~(cli[b].held > 0)
  BY <1>0 DEF IInv, ProcessTyped
<1>8. ~miscount'[b] => k.held = 0 /\ Sound(drv[b], cli[b], pipe[b])
  BY <1>3, <1>4, <1>7
<1>9. miscount'[b] \/ Sound(drv[b], k, q)
  BY <1>6, <1>8
<1> HIDE DEF q
<1> QED
  BY <1>0, <1>2, <1>4, <1>5, <1>6, <1>7, <1>9, CliStep

\* The turn closes.
LEMMA CliClosesStep ==
  ASSUME IInv, NEW b \in Backends, CliCloses(b)
  PROVE  IInv'
<1> DEFINE k == [cli[b] EXCEPT !.run = "no", !.after = cli[b].after \ {"tail"}]
<1>0. /\ drv[b].child = "up" /\ cli[b].run # "no" /\ Len(pipe[b]) < MaxPipe
      /\ cli' = [cli EXCEPT ![b] = k]
      /\ UNCHANGED <<drv, bk, page, beat, disk, resume, clock, crossed, chain, barren, miscount>>
  BY DEF CliCloses, Answers, Alive, Emit, CliKeeps, ghosts, IInv, ProcessTyped
<1>1. PICK e \in {"result", "api_error", "failed"} :
        pipe' = [pipe EXCEPT ![b] = Append(pipe[b], e)]
  BY DEF CliCloses, Emit
<1> DEFINE q == Append(pipe[b], e)
<1>2. /\ Good(drv[b], cli[b], pipe[b]) /\ GoodSession(drv[b]) /\ AtRest(drv[b])
      /\ miscount[b] \/ Sound(drv[b], cli[b], pipe[b])
      /\ pipe[b] \in Seq(Events) /\ miscount \in [Backends -> BOOLEAN]
  BY DriverFacts DEF Good, Shaped, IInv, ProcessTyped
<1>3. k \in CliType /\ k.held = cli[b].held /\ k.run = "no"
  <2>1. cli[b] \in CliType
    BY DriverFacts
  <2> QED
    BY <2>1 DEF CliType
<1>4. e \in Events /\ e \in Closings /\ q \in Seq(Events) /\ pipe' = [pipe EXCEPT ![b] = q]
  BY <1>1, <1>2, PipeAppend DEF Events, Closings
<1> HIDE DEF k
<1>5. /\ Good(drv[b], k, q)
      /\ Sound(drv[b], cli[b], pipe[b]) /\ Followed(drv[b]) => Sound(drv[b], k, q)
  BY <1>0, <1>2, <1>3, <1>4, CloseGood
<1>6. miscount[b] \/ Sound(drv[b], k, q)
  BY <1>2, <1>5 DEF Sound
<1> HIDE DEF q
<1> QED
  BY <1>0, <1>2, <1>3, <1>4, <1>5, <1>6, CliStep

\* An error outside a turn, or of one that will have to be heard again.
LEMMA CliErrsStep ==
  ASSUME IInv, NEW b \in Backends, CliErrs(b)
  PROVE  IInv'
<1> DEFINE k == [cli[b] EXCEPT !.spoke = FALSE]
<1>1. /\ drv[b].child = "up" /\ Len(pipe[b]) < MaxPipe /\ CliKeeps
      /\ pipe' = [pipe EXCEPT ![b] = Append(pipe[b], "error")] /\ cli' = [cli EXCEPT ![b] = k]
  BY DEF CliErrs, Answers, Alive, Emit, IInv, ProcessTyped
<1>2. k \in CliType /\ k.held = cli[b].held /\ k.run = cli[b].run /\ ~k.spoke
  <2>1. cli[b] \in CliType
    BY DriverFacts
  <2> QED
    BY <2>1 DEF CliType
<1>3. "error" \in Events /\ ~IsDown("error")
  BY DEF Events, IsDown, Closings
<1> HIDE DEF k
<1> QED
  BY <1>1, <1>2, <1>3, SaysStep

\* What the CLI does.
LEMMA CliActionStep ==
  ASSUME IInv, NEW b \in Backends, Cli(b)
  PROVE  IInv'
BY CliTakesStep, CliSpeaksStep, CliSchedulesStep, CliStartsTaskStep, CliTaskEndsStep,
   CliOpensTurnStep, CliClosesStep, CliErrsStep DEF Cli

\* The manager hears the next event.
LEMMA HearStep ==
  ASSUME IInv, NEW b \in Backends, Hear(b)
  PROVE  IInv'
<1> DEFINE event == Head(pipe[b])
           q == Tail(pipe[b])
<1>0. /\ Open(drv[b]) /\ pipe[b] # <<>> /\ pipe' = [pipe EXCEPT ![b] = q]
      /\ UNCHANGED <<bk, page, beat, cli, resume>>
      /\ miscount' = [miscount EXCEPT ![b] = miscount[b] /\ ~(/\ q = <<>> /\ Alive(b)
                                         /\ cli[b].run = "no" /\ cli[b].held = 0)]
  BY DEF Hear, Reads
<1>1. PICK s \in {handleDriverEvent(drv[b], event, Now, attached(b))} :
        LET begins == s.marker # NoMarker /\ drv[b].marker = NoMarker
        IN  /\ Commit(b, s)
            /\ chain' = IF begins THEN 0 ELSE chain
            /\ barren' = IF begins \/ event \in {"work", "schedules"} THEN 0 ELSE barren
  BY DEF Hear
<1>2. /\ GoodSession(drv[b]) /\ AtRest(drv[b]) /\ Now \in Nat \ {0}
      /\ Good(drv[b], cli[b], pipe[b])
      /\ miscount[b] \/ Sound(drv[b], cli[b], pipe[b])
      /\ pipe[b] \in Seq(Events)
  BY DriverFacts DEF IInv, Promise, DiskGood, Now, Good, Shaped
<1>3. event \in Events /\ q \in Seq(Events)
  BY <1>0, <1>2, PipeTail
<1> HIDE DEF event
<1>4. /\ GoodSession(s) /\ s.child = drv[b].child
      /\ Kept(drv[b], s, Also(event)) \/ (drv[b].marker = NoMarker /\ Begins(s, Now, 0))
      /\ s.activeTurns = TurnsAfter(event, drv[b].activeTurns)
      /\ event \in {"work", "schedules"} => isTurnInFlight(s)
      /\ event \notin Closings /\ isTurnInFlight(drv[b])
            /\ (event = "error" => drv[b].activeTurns > 0) => isTurnInFlight(s)
      /\ event \in Closings => Followed(s)
      /\ Followed(drv[b]) /\ (event = "absorbed" => drv[b].activeTurns >= 1) => Followed(s)
  BY <1>2, <1>3, EventGood
<1>5. Commit(b, s) /\ CommitOver(b, s, FALSE)
  BY <1>1 DEF Commit
<1>6. /\ drv' \in [Backends -> SessionType]
      /\ \A c \in Backends \ {b} : drv'[c] = drv[c]
      /\ GoodSession(drv'[b]) /\ AtRest(drv'[b])
      /\ drv'[b].child = drv[b].child /\ drv'[b].activeTurns = s.activeTurns
      /\ Followed(drv'[b]) <=> Followed(s)
      /\ isTurnInFlight(drv'[b]) <=> isTurnInFlight(s)
  BY <1>4, <1>5, CommitFacts
<1>7. Heeds(drv[b], drv'[b], event)
  BY <1>4, <1>6 DEF Heeds
<1>8. /\ Good(drv'[b], cli[b], q) /\ Open(drv'[b])
      /\ Sound(drv[b], cli[b], pipe[b]) => Sound(drv'[b], cli[b], q)
      /\ q = <<>> /\ drv[b].child = "up" /\ cli[b].run = "no" /\ cli[b].held = 0
         => Sound(drv'[b], cli[b], q)
  BY <1>0, <1>2, <1>6, <1>7, HearGood DEF event
<1>9. /\ miscount' \in [Backends -> BOOLEAN]
      /\ \A c \in Backends \ {b} : miscount'[c] = miscount[c]
      /\ ~miscount'[b] => \/ ~miscount[b]
                          \/ /\ q = <<>> /\ drv[b].child = "up"
                             /\ cli[b].run = "no" /\ cli[b].held = 0
  BY <1>0 DEF Alive, IInv, ProcessTyped
<1>10. miscount'[b] \/ Sound(drv'[b], cli[b], q)
  BY <1>2, <1>8, <1>9
<1>11. cli[b] \in CliType /\ cli' = [cli EXCEPT ![b] = cli[b]]
  BY <1>0, DriverFacts DEF IInv, ProcessTyped
<1> HIDE DEF q
<1>12. Local(b)
  BY <1>0, <1>3, <1>6, <1>8, <1>9, <1>10, <1>11, LocalStep
<1>13. TasksStand
  BY <1>0, TasksUnchanged
<1>14. CASE Kept(drv[b], s, Also(event))
  <2> DEFINE also == Also(event)
  <2>1. ~(s.marker # NoMarker /\ drv[b].marker = NoMarker)
    BY <1>14 DEF Kept
  <2>2. chain' = chain /\ barren' \in {barren, 0}
    BY <1>1, <2>1
  <2>3. also \subseteq {TRUE} /\ (also = {} \/ barren' = 0) /\ Kept(drv[b], s, also)
    BY <1>1, <1>14 DEF Also
  <2> HIDE DEF also
  <2>4. Promise'
    BY <1>4, <1>5, <1>13, <2>2, <2>3, KeptPromise
  <2> QED
    BY <1>0, <1>12, <2>4, DriverStep
<1>15. CASE drv[b].marker = NoMarker /\ Begins(s, Now, 0)
  <2>1. s.marker # NoMarker
    BY <1>2, <1>4, <1>15, NoMarkerGood DEF Begins
  <2>2. chain' = 0 /\ barren' = 0
    BY <1>1, <1>15, <2>1
  <2>3. Promise'
    <3>1. /\ chain' \in Nat /\ barren' \in Nat
          /\ chain' <= 0 /\ chain' <= MaxAutoResumes /\ barren' <= 1 /\ barren' = 0
      BY <2>2, LimitsAssumption
    <3> QED
      BY <1>4, <1>5, <1>13, <1>15, <3>1, BeginsPromise
  <2> QED
    BY <1>0, <1>12, <2>3, DriverStep
<1> QED
  BY <1>4, <1>14, <1>15

\* The driver of b is gone or dying: its part of the step.
LEMMA DeadLocally ==
  ASSUME IInv, NEW b \in Backends, Open(drv[b]), NEW child \in {"deaf", "exited"},
         drv' = [drv EXCEPT ![b].child = child], cli' = [cli EXCEPT ![b] = NoCli],
         UNCHANGED <<bk, page, beat, pipe, disk, resume, clock, crossed, chain, barren, miscount>>
  PROVE  IInv'
<1> DEFINE r == [drv[b] EXCEPT !.child = child]
<1>1. /\ Good(drv[b], cli[b], pipe[b])
      /\ miscount[b] \/ Sound(drv[b], cli[b], pipe[b])
  BY DriverFacts
<1>2. /\ Good(r, NoCli, pipe[b]) /\ Open(r)
      /\ Sound(drv[b], cli[b], pipe[b]) => Sound(r, NoCli, pipe[b])
      /\ r.marker = drv[b].marker
  BY <1>1, DeadGood
<1>3. drv' = [drv EXCEPT ![b] = r]
  BY DEF IInv, ProcessTyped
<1>4. r \in SessionType
  BY <1>2 DEF Good, Shaped, GoodSession, WellFormed
<1> HIDE DEF r
<1>5. /\ drv' \in [Backends -> SessionType] /\ drv'[b] = r
      /\ \A c \in Backends \ {b} : drv'[c] = drv[c]
      /\ pipe[b] \in Seq(Events) /\ pipe' = [pipe EXCEPT ![b] = pipe[b]]
      /\ miscount' \in [Backends -> BOOLEAN]
  BY <1>3, <1>4 DEF IInv, ProcessTyped
<1>6. Local(b)
  BY <1>1, <1>2, <1>5, FreshlyGood, LocalStep
<1>7. Promise'
  BY <1>2, <1>5, <1>6, TasksUnchanged, QuietPromise DEF Local
<1> QED
  BY <1>6, <1>7, DriverStep

\* The driver dies.
LEMMA CrashStep ==
  ASSUME IInv, NEW b \in Backends, Crash(b)
  PROVE  IInv'
<1>1. Open(drv[b])
  BY DEF Crash, Alive, Open
<1> QED
  BY <1>1, DeadLocally DEF Crash

\* Its exit is seen.
LEMMA ExitSeenStep ==
  ASSUME IInv, NEW b \in Backends, ExitSeen(b)
  PROVE  IInv'
<1>1. Open(drv[b]) /\ cli[b] = NoCli
  BY DriverFacts DEF ExitSeen, Open
<1>2. cli' = [cli EXCEPT ![b] = NoCli]
  BY <1>1 DEF ExitSeen, IInv, ProcessTyped
<1>3. UNCHANGED <<bk, page, beat, pipe, disk, resume, clock, crossed, chain, barren, miscount>>
  BY DEF ExitSeen, ghosts
<1> QED
  BY <1>1, <1>2, <1>3, DeadLocally DEF ExitSeen

\* A driver that leaves: its part of the step.
LEMMA GoneLocally ==
  ASSUME IInv, NEW b \in Backends, drv' = [drv EXCEPT ![b] = NoSession],
         cli' = [cli EXCEPT ![b] = NoCli], pipe' = [pipe EXCEPT ![b] = <<>>],
         miscount' = [miscount EXCEPT ![b] = FALSE]
  PROVE  /\ Local(b) /\ drv'[b] = NoSession /\ ~Open(drv'[b])
         /\ drv'[b].marker = NoMarker /\ \A c \in Backends \ {b} : drv'[c] = drv[c]
<1>1. NoSession \in SessionType /\ <<>> \in Seq(Events)
  BY FreshGood, EmptySeq DEF GoodSession, WellFormed
<1>2. /\ drv' \in [Backends -> SessionType] /\ drv'[b] = NoSession
      /\ \A c \in Backends \ {b} : drv'[c] = drv[c]
      /\ miscount' \in [Backends -> BOOLEAN]
      /\ \A c \in Backends \ {b} : miscount'[c] = miscount[c]
  BY <1>1 DEF IInv, ProcessTyped
<1>3. Local(b)
  BY <1>1, <1>2, FreshlyGood, LocalStep
<1> QED
  BY <1>2, <1>3, FreshGood DEF Open

\* Its output is drained and its session leaves the map.
LEMMA DriverClosedStep ==
  ASSUME IInv, NEW b \in Backends, DriverClosed(b)
  PROVE  IInv'
<1>0. /\ drv' = [drv EXCEPT ![b] = NoSession] /\ drv[b].child = "exited" /\ pipe[b] = <<>>
      /\ miscount' = [miscount EXCEPT ![b] = FALSE]
      /\ UNCHANGED <<bk, beat, cli, pipe, disk, clock, crossed, chain, barren>>
      /\ page' \in 0 .. MaxBackends
  BY BoundsAssumption DEF DriverClosed, Leaves, IInv, Homes
<1>1. Open(drv[b]) /\ cli[b] = NoCli
  BY <1>0, DriverFacts DEF Open
<1>2. cli' = [cli EXCEPT ![b] = NoCli] /\ pipe' = [pipe EXCEPT ![b] = <<>>]
  BY <1>0, <1>1 DEF IInv, ProcessTyped
<1>3. /\ Local(b) /\ ~Open(drv'[b]) /\ drv'[b].marker = NoMarker
      /\ \A c \in Backends \ {b} : drv'[c] = drv[c]
  BY <1>0, <1>2, GoneLocally
<1>4. Homes'
  BY <1>0, <1>3, HomesStep
<1>5. CASE drv[b].marker = NoMarker
  <2>1. resume' = resume
    BY <1>5 DEF DriverClosed
  <2>2. Promise'
    BY <1>0, <1>3, <2>1, TasksUnchanged, QuietPromise DEF Local
  <2> QED
    BY <1>3, <1>4, <2>2, ProcessesStep DEF IInv
<1>6. CASE drv[b].marker # NoMarker
  <2> DEFINE k == [NoTask EXCEPT !.pc = "wait", !.m = drv[b].marker]
             t == <<b, "crash">>
  <2>1. resume' = [resume EXCEPT ![t] = k] /\ t \in Tasks
    BY <1>6 DEF DriverClosed, Tasks
  <2>2. GoodMarker(drv[b].marker) /\ drv[b].marker \in MarkerType /\ drv[b].marker.at <= clock
    BY DriverFacts, NoTime
  <2>3. k \in TaskType /\ k.pc = "wait" /\ k.m = drv[b].marker
    BY <2>2, NoMarkerGood DEF NoTask, TaskType
  <2> HIDE DEF k, t
  <2>4. ASSUME ~crossed
        PROVE  /\ SameTurn(marker, k.m)
               /\ \A c \in Backends : drv'[c].marker = NoMarker \/ drv'[c].marker.at # k.m.at
    <3>1. OwnDriver
      BY <2>4 DEF IInv, Promise
    <3>2. marker.owner = b /\ SameTurn(marker, k.m)
      BY <1>1, <1>6, <2>3, <3>1 DEF OwnDriver
    <3>3. \A c \in Backends \ {b} : drv[c].marker = NoMarker
      BY <3>1, <3>2, DriverFacts DEF OwnDriver
    <3> QED
      BY <1>3, <3>2, <3>3
  <2>6. k.pc \notin Decided /\ k.m # NoMarker /\ GoodMarker(k.m) /\ k.m.at <= clock
    BY <1>6, <2>2, <2>3 DEF Decided
  <2>7. Apart(b) /\ drv'[b].marker \in {drv[b].marker, NoMarker}
    BY <1>3 DEF Local
  <2>8. crossed' = crossed /\ UNCHANGED <<disk, clock, chain, barren>>
    BY <1>0
  <2>5. Promise'
    BY <1>1, <2>1, <2>3, <2>4, <2>6, <2>7, <2>8, NewTaskPromise
  <2> QED
    BY <1>3, <1>4, <2>5, ProcessesStep DEF IInv
<1> QED
  BY <1>5, <1>6

\* A person pauses the card.
LEMMA PauseStep ==
  ASSUME IInv, NEW b \in Backends, Pause(b)
  PROVE  IInv'
<1>0. /\ miscount' = [miscount EXCEPT ![b] = FALSE]
      /\ UNCHANGED <<bk, beat, resume, chain, barren>>
      /\ page' \in 0 .. MaxBackends
  BY BoundsAssumption DEF Pause, Leaves, IInv, Homes
<1>1. /\ miscount' \in [Backends -> BOOLEAN]
      /\ \A c \in Backends \ {b} : miscount'[c] = miscount[c]
  BY <1>0 DEF IInv, ProcessTyped
<1>2. CASE Open(drv[b])
  <2>1. /\ Commit(b, [NoSession EXCEPT !.io = "clear"])
        /\ cli' = [cli EXCEPT ![b] = NoCli] /\ pipe' = [pipe EXCEPT ![b] = <<>>]
    BY <1>2 DEF Pause
  <2> QED
    BY <1>0, <1>1, <2>1, StopsStep
<1>3. CASE ~Open(drv[b])
  <2>1. UNCHANGED <<drv, disk, clock, crossed, cli, pipe>>
    BY <1>3 DEF Pause
  <2>2. drv[b] = NoSession /\ cli[b] = NoCli /\ pipe[b] = <<>>
    BY <1>3, DriverFacts, FreshGood
  <2>3. /\ drv' = [drv EXCEPT ![b] = NoSession] /\ cli' = [cli EXCEPT ![b] = NoCli]
        /\ pipe' = [pipe EXCEPT ![b] = <<>>]
    BY <2>1, <2>2 DEF IInv, ProcessTyped
  <2>4. /\ Local(b) /\ ~Open(drv'[b]) /\ drv'[b].marker = NoMarker
    BY <1>0, <2>3, GoneLocally
  <2>5. Homes'
    BY <1>0, <2>4, HomesStep
  <2>6. Promise'
    BY <1>0, <2>1, <2>4, TasksUnchanged, QuietPromise DEF Local
  <2> QED
    BY <2>4, <2>5, <2>6, ProcessesStep DEF IInv
<1> QED
  BY <1>2, <1>3

-----------------------------------------------------------------------------
\* The processes are as they were: only backends, tasks and the file move.
LEMMA StillStepOver ==
  ASSUME IInv, NEW b \in Backends, TasksStand, Homes',
         UNCHANGED <<drv, cli, pipe, miscount, marker, clock, chain, barren>>,
         crossed' \in {crossed, TRUE}, FileFollows'
  PROVE  IInv'
<1>1. Apart(b) /\ (Open(drv[b]) \/ drv'[b].marker = NoMarker)
  BY DriverFacts DEF Apart
<1>2. Promise'
  BY <1>1, QuietPromiseOver
<1>3. ProcessTyped' /\ Processes'
  BY DEF IInv, ProcessTyped, Processes
<1> QED
  BY <1>2, <1>3 DEF IInv

\* Nor does the file.
LEMMA StillStep ==
  ASSUME IInv, NEW b \in Backends, TasksStand, Homes',
         UNCHANGED <<drv, cli, pipe, miscount, disk, clock, chain, barren>>,
         crossed' \in {crossed, TRUE}
  PROVE  IInv'
<1>1. Apart(b) /\ (Open(drv[b]) \/ drv'[b].marker = NoMarker)
  BY DriverFacts DEF Apart
<1>2. Promise'
  BY <1>1, QuietPromise
<1>3. ProcessTyped' /\ Processes'
  BY DEF IInv, ProcessTyped, Processes
<1> QED
  BY <1>2, <1>3 DEF IInv

\* One task moves on, or ends.
LEMMA OneTask ==
  ASSUME IInv, NEW t \in Tasks, NEW k \in TaskType, resume' = [resume EXCEPT ![t] = k],
         k.pc \in Pending => /\ resume[t].pc \in Pending /\ k.m = resume[t].m
                             /\ k.pc = "prepare" => mayResumeAgain(resume[t].m)
                             /\ k.pc # "inject"
  PROVE  TasksStand
BY DEF IInv, Promise, TasksGood, TasksStand, Decided

\* What a process clears, when the file is not to be relied on any more.
LEMMA ClearsOver ==
  ASSUME IInv, NEW b \in Backends, Asks(b, "clear", NoMarker), TasksStand,
         UNCHANGED <<drv, clock, chain, barren>>, crossed' = TRUE
  PROVE  Promise'
<1>1. /\ GoodMarker(NoMarker) /\ NoMarker.at = 0 /\ NoMarker.owner = 0
      /\ clock \in Nat /\ clock' = clock
  BY NoMarkerGood DEF NoMarker, IInv, Promise, DiskGood
<1>2. FileFollows' /\ marker' = NoMarker
  <2>1. NoMarker.at <= clock' /\ NoMarker.owner <= MaxBackends /\ clock <= clock'
    BY <1>1, BoundsAssumption
  <2> HIDE DEF Asks
  <2> QED
    BY <1>1, <2>1, AsksGood
<1>3. DiskGood'
  BY <1>1, <1>2, BoundsAssumption DEF IInv, Promise, DiskGood
<1>4. TasksGood'
  BY <1>1, TasksStay
<1> QED
  BY <1>2, <1>3, <1>4 DEF IInv, Promise

\* A backend boots and lists the markers; one that is torn it clears.
LEMMA BootStep ==
  ASSUME IInv, NEW b \in Backends, Boot(b)
  PROVE  IInv'
<1>0. /\ bk' = [bk EXCEPT ![b] = "up"] /\ beat' = [beat EXCEPT ![b] = TRUE]
      /\ UNCHANGED <<page, drv, cli, pipe, miscount, clock, chain, barren>>
  BY DEF Boot
<1> DEFINE t == <<b, "restart">>
<1>1. PICK m \in Found :
       LET torn == m = NoMarker /\ \E c \in Backends : ink[c].op = "put"
       IN  /\ resume' = [resume EXCEPT ![t] =
                IF m = NoMarker THEN NoTask ELSE [NoTask EXCEPT !.pc = "orphan"]]
           /\ IF torn THEN Asks(b, "clear", NoMarker) ELSE UNCHANGED disk
           /\ crossed' = (crossed \/ torn \/ m # marker)
  BY DEF Boot
<1> DEFINE k == IF m = NoMarker THEN NoTask ELSE [NoTask EXCEPT !.pc = "orphan"]
           torn == m = NoMarker /\ \E c \in Backends : ink[c].op = "put"
<1>2. resume' = [resume EXCEPT ![t] = k] /\ t \in Tasks
  BY <1>1 DEF Tasks
<1>3. k \in TaskType /\ k.pc \notin Pending
  BY NoMarkerGood DEF NoTask, TaskType, Pending
<1>4. crossed' = (crossed \/ torn \/ m # marker)
  BY <1>1
<1>5. IF torn THEN Asks(b, "clear", NoMarker) ELSE UNCHANGED disk
  BY <1>1
<1> HIDE DEF t, k
<1>6. TasksStand
  BY <1>2, <1>3, OneTask
<1>7. Homes'
  BY <1>0 DEF IInv, Homes
<1>8. crossed' \in {crossed, TRUE}
  <2>1. crossed \in BOOLEAN
    BY DEF IInv, Promise, DiskGood
  <2> HIDE DEF torn
  <2> QED
    BY <1>4, <2>1
<1>9. CASE ~torn
  BY <1>0, <1>5, <1>6, <1>7, <1>8, <1>9, StillStep
<1>10. CASE torn
  <2> HIDE DEF torn
  <2>1. Asks(b, "clear", NoMarker) /\ crossed' = TRUE
    BY <1>4, <1>5, <1>10
  <2>2. Promise'
    BY <1>0, <1>6, <2>1, ClearsOver
  <2>3. ProcessTyped' /\ Processes'
    BY <1>0 DEF IInv, ProcessTyped, Processes
  <2> QED
    BY <1>7, <2>2, <2>3 DEF IInv
<1> QED
  BY <1>9, <1>10

\* A backend that is gone takes its tasks along.
LEMMA TasksEnd ==
  ASSUME IInv, NEW b \in Backends, resume' = EndTasks(b)
  PROVE  TasksStand
<1>1. NoTask \in TaskType /\ NoTask.pc \notin Pending
  BY NoMarkerGood DEF NoTask, TaskType, Pending
<1> QED
  BY <1>1 DEF EndTasks, IInv, Promise, TasksGood, TasksStand

\* An operation that is cut off leaves a file that is good; what was asked for last
\* is not in it, and that is known.
LEMMA CutOffGood ==
  ASSUME IInv, NEW b \in Backends, CutOff(b), clock' = clock
  PROVE  FileFollows' /\ marker' = marker /\ crossed' \in {crossed, TRUE}
<1>1. /\ crossed \in BOOLEAN /\ clock \in Nat
      /\ Signed(file)
      /\ ink \in [Backends -> [op: {"none", "put", "clear"}, m: MarkerType]]
      /\ \A c \in Backends : Signed(ink[c].m) /\ (ink[c].op # "put" => ink[c].m = NoMarker)
      /\ crossed \/ OwnFile
  BY DEF IInv, Promise, DiskGood, FileFollows, FileGood
<1>2. /\ GoodMarker(NoMarker) /\ NoMarker.at = 0 /\ NoMarker.owner = 0
      /\ NoMarker \in MarkerType
  BY NoMarkerGood DEF NoMarker, GoodMarker
<1>3. Signed(NoMarker)
  BY <1>1, <1>2, BoundsAssumption DEF Signed
<1>4. /\ file' \in {file, NoMarker} /\ (ink[b].op # "put" => file' = file)
      /\ ink' = [ink EXCEPT ![b] = Dry] /\ marker' = marker
  BY DEF CutOff
<1>5. crossed' = (crossed \/ ink[b] # Dry)
  BY DEF CutOff
<1>6. crossed' \in {crossed, TRUE} /\ (~crossed' => ~crossed /\ ink[b] = Dry)
  BY <1>1, <1>5
<1>7. Dry \in [op: {"none", "put", "clear"}, m: MarkerType] /\ Dry.op = "none"
      /\ Dry.m = NoMarker
  BY <1>2 DEF Dry
<1>8. /\ ink' \in [Backends -> [op: {"none", "put", "clear"}, m: MarkerType]]
      /\ ink'[b] = Dry /\ \A c \in Backends \ {b} : ink'[c] = ink[c]
  BY <1>1, <1>4, <1>7
<1>9. FileGood'
  <2>1. Signed(file)' /\ \A c \in Backends : Signed(ink[c].m)'
    BY <1>1, <1>3, <1>4, <1>7, <1>8 DEF Signed
  <2> QED
    BY <1>1, <1>7, <1>8, <2>1 DEF FileGood
<1>10. ASSUME ~crossed' PROVE OwnFile'
  <2>1. ink' = ink /\ file' = file /\ OwnFile
    BY <1>1, <1>4, <1>6, <1>7, <1>10
  <2> QED
    BY <1>4, <2>1 DEF OwnFile
<1> QED
  BY <1>4, <1>6, <1>9, <1>10 DEF FileFollows

\* The drivers of a backend that dies go with it; their markers stay.
LEMMA DiesStep ==
  ASSUME IInv, NEW b \in Backends, NEW next \in {"stopping", "gone"}, Dies(b, next),
         beat' \in [Backends -> BOOLEAN],
         \A c \in Backends \ {b} : beat'[c] = beat[c],
         UNCHANGED <<marker, clock, chain, barren>>, crossed' \in {crossed, TRUE},
         FileFollows', TasksStand
  PROVE  IInv'
<1>0. /\ bk' = [bk EXCEPT ![b] = next] /\ page' \in 0 .. MaxBackends
      /\ drv' = [drv EXCEPT ![b] = NoSession] /\ cli' = [cli EXCEPT ![b] = NoCli]
      /\ pipe' = [pipe EXCEPT ![b] = <<>>] /\ miscount' = [miscount EXCEPT ![b] = FALSE]
  BY BoundsAssumption DEF Dies, Leaves, IInv, Homes
<1>1. /\ Local(b) /\ ~Open(drv'[b]) /\ drv'[b].marker = NoMarker
      /\ \A c \in Backends \ {b} : drv'[c] = drv[c]
  BY <1>0, GoneLocally
<1>2. Homes'
  BY <1>0, <1>1 DEF IInv, Homes
<1>3. Promise'
  BY <1>1, QuietPromiseOver DEF Local
<1> QED
  BY <1>1, <1>2, <1>3, ProcessesStep DEF IInv

\* The old backend is told to stop, or killed; later it is gone.
LEMMA EndsStep ==
  ASSUME IInv, NEW b \in Backends, Sigterm(b) \/ Sigkill(b) \/ Exit(b) \/ BeatStale(b)
  PROVE  IInv'
<1>0. beat \in [Backends -> BOOLEAN] /\ Homes
  BY DEF IInv, Homes
<1>1. CASE Sigterm(b)
  <2>1. /\ beat' \in [Backends -> BOOLEAN]
        /\ \A c \in Backends \ {b} : beat'[c] = beat[c]
        /\ UNCHANGED <<disk, clock, crossed, chain, barren, resume>>
        /\ Dies(b, "stopping")
    BY <1>0, <1>1 DEF Sigterm
  <2>2. clock \in Nat /\ clock' = clock /\ crossed' = crossed /\ UNCHANGED disk
    BY <2>1 DEF IInv, Promise, DiskGood
  <2>3. clock' \in Nat /\ clock <= clock' /\ (crossed => crossed')
    BY <2>2
  <2>4. FileFollows'
    BY <2>2, <2>3, FileStays
  <2>5. TasksStand
    BY <2>1, TasksUnchanged
  <2>6. UNCHANGED <<marker, clock, chain, barren>> /\ crossed' \in {crossed, TRUE}
    BY <2>1, <2>2 DEF disk
  <2> QED
    BY <2>1, <2>4, <2>5, <2>6, DiesStep
<1>2. CASE Sigkill(b)
  <2>1. /\ beat' \in [Backends -> BOOLEAN]
        /\ \A c \in Backends \ {b} : beat'[c] = beat[c]
        /\ UNCHANGED <<clock, chain, barren>> /\ resume' = EndTasks(b)
        /\ Dies(b, "gone") /\ CutOff(b)
    BY <1>0, <1>2 DEF Sigkill
  <2>2. FileFollows' /\ marker' = marker /\ crossed' \in {crossed, TRUE}
    BY <2>1, CutOffGood
  <2> QED
    BY <2>1, <2>2, TasksEnd, DiesStep
<1>3. CASE Exit(b)
  <2>1. /\ bk[b] = "stopping" /\ bk' = [bk EXCEPT ![b] = "gone"] /\ resume' = EndTasks(b)
        /\ UNCHANGED <<page, beat, drv, cli, pipe, miscount, clock, chain, barren>>
        /\ CutOff(b)
    BY <1>3 DEF Exit
  <2>2. Homes'
    BY <1>0, <2>1 DEF Homes
  <2>3. FileFollows' /\ marker' = marker /\ crossed' \in {crossed, TRUE}
    BY <2>1, CutOffGood
  <2> QED
    BY <2>1, <2>2, <2>3, TasksEnd, StillStepOver
<1>4. CASE BeatStale(b)
  <2>1. /\ bk[b] = "gone" /\ beat' = [beat EXCEPT ![b] = FALSE]
        /\ UNCHANGED <<bk, page, resume, drv, cli, pipe, miscount, disk, clock, crossed,
                       chain, barren>>
    BY <1>4 DEF BeatStale, turnVars, ghosts
  <2>2. Homes'
    BY <1>0, <2>1 DEF Homes
  <2> QED
    BY <2>1, <2>2, TasksUnchanged, StillStep
<1> QED
  BY <1>1, <1>2, <1>3, <1>4

\* An operation on the marker file lands, or fails.
LEMMA MarkerFileStep ==
  ASSUME IInv, NEW b \in Backends, MarkerFile(b)
  PROVE  IInv'
<1>0. UNCHANGED <<bk, page, beat, drv, cli, pipe, miscount, marker, resume, clock, chain, barren>>
  BY DEF MarkerFile, Lands, MarkerFails, InkKeeps
<1>1. TasksStand /\ Homes'
  BY <1>0, TasksUnchanged DEF IInv, Homes
<1>2. CASE Lands(b)
  <2>1. /\ file' = ink[b].m /\ ink' = [ink EXCEPT ![b] = Dry] /\ crossed' = crossed
        /\ ink[b] # Dry
    BY <1>2 DEF Lands
  <2>2. /\ Signed(file)
        /\ ink \in [Backends -> [op: {"none", "put", "clear"}, m: MarkerType]]
        /\ \A c \in Backends : Signed(ink[c].m) /\ (ink[c].op # "put" => ink[c].m = NoMarker)
        /\ crossed \/ OwnFile
    BY DEF IInv, Promise, FileFollows, FileGood
  <2>3. Dry \in [op: {"none", "put", "clear"}, m: MarkerType] /\ Dry.op = "none"
        /\ Dry.m = NoMarker
    BY NoMarkerGood DEF Dry, GoodMarker
  <2>4. /\ ink' \in [Backends -> [op: {"none", "put", "clear"}, m: MarkerType]]
        /\ ink'[b] = Dry /\ \A c \in Backends \ {b} : ink'[c] = ink[c]
    BY <2>1, <2>2, <2>3
  <2>5. Signed(NoMarker)
    BY NoMarkerGood, BoundsAssumption DEF Signed, NoMarker, IInv, Promise, DiskGood
  <2>6. FileGood'
    <3>1. Signed(file)' /\ \A c \in Backends : Signed(ink[c].m)'
      BY <1>0, <2>1, <2>2, <2>3, <2>4, <2>5 DEF Signed
    <3> QED
      BY <2>2, <2>3, <2>4, <3>1 DEF FileGood
  <2>7. ASSUME ~crossed PROVE OwnFile'
    <3>1. PICK c \in Backends : /\ \A d \in Backends \ {c} : ink[d] = Dry
                                /\ marker = IF ink[c] = Dry THEN file ELSE ink[c].m
      BY <2>2, <2>7 DEF OwnFile
    <3>2. c = b
      BY <2>1, <3>1
    <3>3. marker = ink[b].m /\ \A d \in Backends \ {b} : ink'[d] = Dry
      BY <2>1, <2>4, <3>1, <3>2
    <3>4. marker' = IF ink'[b] = Dry THEN file' ELSE ink'[b].m
      BY <1>0, <2>1, <2>4, <3>3
    <3> QED
      BY <3>3, <3>4 DEF OwnFile
  <2>8. FileFollows'
    BY <2>1, <2>6, <2>7 DEF FileFollows
  <2>9. crossed' \in {crossed, TRUE}
    BY <2>1
  <2> QED
    BY <1>0, <1>1, <2>8, <2>9, StillStepOver
<1>3. CASE MarkerFails(b)
  <2>1. FileFollows' /\ crossed' \in {crossed, TRUE}
    BY <1>0, <1>3, CutOffGood DEF MarkerFails
  <2> QED
    BY <1>0, <1>1, <2>1, StillStepOver
<1> QED
  BY <1>2, <1>3 DEF MarkerFile

-----------------------------------------------------------------------------
\* What a task that is to resume something holds.
LEMMA TaskFacts ==
  ASSUME IInv, NEW t \in Tasks
  PROVE  /\ t[1] \in Backends /\ resume[t] \in TaskType /\ resume \in [Tasks -> TaskType]
         /\ resume[t].pc \in Pending =>
              /\ GoodMarker(resume[t].m) /\ resume[t].m # NoMarker /\ resume[t].m.at <= clock
              /\ resume[t].m \in MarkerType
              /\ resume[t].m.at \in Nat /\ resume[t].m.at # 0
              /\ resume[t].m.attempts \in Nat /\ resume[t].m.attempts <= MaxAutoResumes
              /\ resume[t].pc \in Decided => mayResumeAgain(resume[t].m)
              /\ \/ crossed
                 \/ /\ \A b \in Backends : drv[b].marker.at # resume[t].m.at
                    /\ marker.at = resume[t].m.at => SameTurn(marker, resume[t].m)
<1>1. t[1] \in Backends
  BY DEF Tasks
<1>2. resume[t] \in TaskType /\ resume \in [Tasks -> TaskType]
  BY DEF IInv, Promise, TasksGood
<1>3. ASSUME resume[t].pc \in Pending
      PROVE  /\ GoodMarker(resume[t].m) /\ resume[t].m # NoMarker /\ resume[t].m.at <= clock
             /\ resume[t].pc \in Decided => mayResumeAgain(resume[t].m)
  BY <1>3 DEF IInv, Promise, TasksGood
<1>4. ASSUME resume[t].pc \in Pending, ~crossed
      PROVE  /\ \A b \in Backends : drv[b].marker.at # resume[t].m.at
             /\ marker.at = resume[t].m.at => SameTurn(marker, resume[t].m)
  BY <1>4 DEF IInv, Promise, OwnTask
<1> QED
  BY <1>1, <1>2, <1>3, <1>4, NoTime

\* A task that only moves, or ends.
LEMMA TaskMoves ==
  ASSUME IInv, NEW t \in Tasks, NEW k \in TaskType, resume' = [resume EXCEPT ![t] = k],
         k.pc \in Pending => /\ resume[t].pc \in Pending /\ k.m = resume[t].m
                             /\ k.pc = "prepare" => mayResumeAgain(resume[t].m)
                             /\ k.pc # "inject",
         UNCHANGED <<bk, page, beat, drv, cli, pipe, miscount, disk, clock, chain, barren>>,
         crossed' \in {crossed, TRUE}
  PROVE  IInv'
<1>1. TasksStand
  BY OneTask
<1>2. Homes' /\ t[1] \in Backends
  BY TaskFacts DEF IInv, Homes
<1> QED
  BY <1>1, <1>2, StillStep

\* What a read of the file finds is a marker, or none.
LEMMA ReadFacts ==
  ASSUME IInv, NEW m \in Found
  PROVE  Signed(m) /\ m \in MarkerType
<1>1. Signed(file) /\ clock \in Nat
  BY DEF IInv, Promise, DiskGood, FileFollows, FileGood
<1>2. GoodMarker(NoMarker) /\ NoMarker.at = 0 /\ NoMarker.owner = 0
  BY NoMarkerGood DEF NoMarker
<1>3. Signed(NoMarker)
  BY <1>1, <1>2, BoundsAssumption DEF Signed
<1>4. m \in {file, NoMarker}
  BY DEF Found
<1> QED
  BY <1>1, <1>3, <1>4, NoTime DEF Signed

\* A task that goes by it goes by what was asked for, or that it does not is known.
LEMMA RelyFacts ==
  ASSUME IInv, NEW m, Relies(m)
  PROVE  /\ crossed' \in {crossed, TRUE}
         /\ ~crossed' => ~crossed /\ m = marker
<1>1. crossed \in BOOLEAN
  BY DEF IInv, Promise, DiskGood
<1> DEFINE other == m # marker
<1>2. crossed' = (crossed \/ other) /\ other \in BOOLEAN
  BY DEF Relies
<1> HIDE DEF other
<1>3. crossed' \in BOOLEAN
  BY <1>2
<1>4. crossed' <=> crossed \/ other
  BY <1>2
<1>5. crossed' \in {crossed, TRUE}
  BY <1>1, <1>3, <1>4
<1>6. ~crossed' => ~crossed /\ ~other
  BY <1>4
<1>7. ~other => m = marker
  BY DEF other
<1> QED
  BY Zenon, <1>5, <1>6, <1>7

\* The sweep takes a marker over once the process that signed it is dead.
LEMMA SweepDecidesStep ==
  ASSUME IInv, NEW t \in Tasks, SweepDecides(t)
  PROVE  IInv'
<1>0. /\ UNCHANGED <<bk, page, beat, drv, cli, pipe, miscount, disk, clock, chain, barren>>
      /\ resume[t] \in TaskType /\ t[1] \in Backends
  BY TaskFacts DEF SweepDecides, LookKeeps, ResumeKeeps
<1>1. PICK m \in Found :
       LET mine == m = NoMarker \/ m.owner = t[1]
       IN  /\ ~mine => ~beat[m.owner]
           /\ resume' = [resume EXCEPT ![t] =
                 IF mine THEN NoTask ELSE [@ EXCEPT !.pc = "rules", !.m = m]]
           /\ Relies(m)
  BY Zenon DEF SweepDecides
<1>2. crossed' \in {crossed, TRUE} /\ (~crossed' => ~crossed /\ m = marker)
  BY <1>1, RelyFacts
<1>3. GoodMarker(m) /\ m \in MarkerType /\ m.at <= clock
  BY ReadFacts DEF Signed
<1>4. CASE m = NoMarker \/ m.owner = t[1]
  <2>1. resume' = [resume EXCEPT ![t] = NoTask]
    BY <1>1, <1>4
  <2>2. NoTask \in TaskType /\ NoTask.pc \notin Pending
    BY NoMarkerGood DEF NoTask, TaskType, Pending
  <2> QED
    BY <1>0, <1>2, <2>1, <2>2, TaskMoves
<1>5. CASE ~(m = NoMarker \/ m.owner = t[1])
  <2> DEFINE k == [resume[t] EXCEPT !.pc = "rules", !.m = m]
  <2>1. resume' = [resume EXCEPT ![t] = k] /\ ~beat[m.owner]
    BY <1>1, <1>5
  <2>3. k \in TaskType /\ k.pc = "rules" /\ k.m = m
    BY <1>0, <1>3 DEF TaskType
  <2> HIDE DEF k
  <2>4. ASSUME ~crossed', NEW c \in Backends, drv[c].marker # NoMarker PROVE FALSE
    <3>1. Open(drv[c]) /\ bk[c] = "up" /\ beat[c]
      BY <2>4, DriverFacts
    <3>2. ~crossed /\ m = marker
      BY <1>2, <2>4
    <3>3. marker.owner = c
      BY <2>4, <3>1, <3>2 DEF IInv, Promise, OwnDriver
    <3> QED
      BY <2>1, <3>1, <3>2, <3>3
  <2>5. ~crossed' => SameTurn(marker, k.m)
    BY <1>2, <2>3 DEF SameTurn
  <2>6. /\ Apart(t[1]) /\ drv'[t[1]].marker = drv[t[1]].marker
        /\ Open(drv[t[1]]) \/ drv'[t[1]].marker = NoMarker
    BY <1>0, DriverFacts DEF Apart
  <2>7. ~crossed' => \A c \in Backends : drv'[c].marker = NoMarker
    BY <1>0, <2>4
  <2>9. k.pc \notin Decided
    BY <2>3 DEF Decided
  <2>10. Promise'
    BY <1>0, <1>2, <1>3, <1>5, <2>1, <2>3, <2>5, <2>6, <2>7, <2>9, NewTaskPromise
  <2>8. Homes' /\ ProcessTyped' /\ Processes'
    BY <1>0 DEF IInv, Homes, ProcessTyped, Processes
  <2> QED
    BY <2>10, <2>8 DEF IInv
<1> QED
  BY <1>4, <1>5

\* A sweep that fails ends there.
LEMMA SweepFailsStep ==
  ASSUME IInv, NEW t \in Tasks, SweepFails(t)
  PROVE  IInv'
<1>1. /\ UNCHANGED <<bk, page, beat, drv, cli, pipe, miscount, disk, clock, chain, barren>>
      /\ resume' = [resume EXCEPT ![t] = NoTask] /\ crossed' = crossed
  BY DEF SweepFails, LookKeeps, ResumeKeeps
<1>2. NoTask \in TaskType /\ NoTask.pc \notin Pending
  BY NoMarkerGood DEF NoTask, TaskType, Pending
<1> QED
  BY <1>1, <1>2, TaskMoves

\* A task that goes to another point with what it holds.
LEMMA GoesStep ==
  ASSUME IInv, NEW t \in Tasks, resume[t].pc \in Pending,
         NEW pc \in {"none", "rules", "clear", "prepare"}, NEW noted \in BOOLEAN,
         resume' = [resume EXCEPT ![t].pc = pc] \/
         resume' = [resume EXCEPT ![t].pc = pc, ![t].noted = noted],
         pc = "prepare" => mayResumeAgain(resume[t].m),
         UNCHANGED <<bk, page, beat, drv, cli, pipe, miscount, disk, clock, chain, barren>>,
         crossed' \in {crossed, TRUE}
  PROVE  IInv'
<1>0. resume[t] \in TaskType /\ resume \in [Tasks -> TaskType]
  BY TaskFacts
<1>1. CASE resume' = [resume EXCEPT ![t].pc = pc]
  <2> DEFINE k == [resume[t] EXCEPT !.pc = pc]
  <2>1. resume' = [resume EXCEPT ![t] = k] /\ k \in TaskType /\ k.pc = pc /\ k.m = resume[t].m
    BY <1>0, <1>1 DEF TaskType
  <2> HIDE DEF k
  <2> QED
    BY <2>1, TaskMoves
<1>2. CASE resume' = [resume EXCEPT ![t].pc = pc, ![t].noted = noted]
  <2> DEFINE k == [resume[t] EXCEPT !.pc = pc, !.noted = noted]
  <2>1. resume' = [resume EXCEPT ![t] = k] /\ k \in TaskType /\ k.pc = pc /\ k.m = resume[t].m
    BY <1>0, <1>2 DEF TaskType
  <2> HIDE DEF k
  <2> QED
    BY <2>1, TaskMoves
<1> QED
  BY <1>1, <1>2

\* The look after a crash: the task goes on to the rules, or ends.
LEMMA CrashLooksStep ==
  ASSUME IInv, NEW t \in Tasks, CrashLooks(t)
  PROVE  IInv'
<1>0. UNCHANGED <<bk, page, beat, drv, cli, pipe, miscount, disk, clock, chain, barren>>
  BY DEF CrashLooks, LookKeeps, ResumeKeeps
<1>1. resume[t].pc \in Pending
  BY DEF CrashLooks, At, Pending
<1>2. CASE bk[t[1]] = "stopping"
  <2>1. resume' = [resume EXCEPT ![t].pc = "none"] /\ crossed' \in {crossed, TRUE}
    BY <1>2 DEF CrashLooks, Goto
  <2> QED
    BY <1>0, <1>1, <2>1, GoesStep
<1>3. CASE bk[t[1]] # "stopping"
  <2>1. PICK m \in Found :
          /\ Relies(m)
          /\ IF MovedOn(t, m) \/ TurnRuns(t[1])
             THEN Goto(t, "none") /\ dot' = Unresumed(t[1])
             ELSE Goto(t, "rules") /\ UNCHANGED dot
    BY <1>3 DEF CrashLooks
  <2>2. crossed' \in {crossed, TRUE}
    BY <2>1, RelyFacts
  <2>3. PICK pc \in {"none", "rules"} : resume' = [resume EXCEPT ![t].pc = pc]
    BY <2>1 DEF Goto
  <2> QED
    BY <1>0, <1>1, <2>2, <2>3, GoesStep
<1> QED
  BY <1>2, <1>3

\* The rules, the preparation, a turn that runs here: no effect but on the task.
LEMMA DecidesStep ==
  ASSUME IInv, NEW t \in Tasks,
         ResumeRules(t) \/ RulesFail(t) \/ PrepareFails(t) \/ ResumeYields(t)
  PROVE  IInv'
<1>0. /\ UNCHANGED <<bk, page, beat, drv, cli, pipe, miscount, disk, clock, chain, barren>>
      /\ crossed' \in {crossed, TRUE}
  BY DEF ResumeRules, RulesFail, PrepareFails, ResumeYields, LookKeeps, ResumeKeeps
<1>1. resume[t] \in TaskType
  BY TaskFacts
<1>3. CASE ResumeRules(t)
  <2>1. resume[t].pc \in Pending
    BY <1>3 DEF ResumeRules, At, Pending
  <2>2. PICK stale \in BOOLEAN :
          LET refused == ~budget.autoResume \/ stale \/ ~mayResumeAgain(resume[t].m)
          IN  \/ resume' = [resume EXCEPT ![t].pc = "clear"]
              \/ resume' = [resume EXCEPT ![t].pc = IF refused THEN "clear" ELSE "prepare",
                                          ![t].noted = refused]
    BY <1>3 DEF ResumeRules, Goto
  <2>3. CASE resume' = [resume EXCEPT ![t].pc = "clear"]
    BY <1>0, <2>1, <2>3, GoesStep
  <2>4. CASE resume' # [resume EXCEPT ![t].pc = "clear"]
    <3>1. PICK pc \in {"clear", "prepare"}, noted \in BOOLEAN :
            /\ resume' = [resume EXCEPT ![t].pc = pc, ![t].noted = noted]
            /\ pc = "prepare" => mayResumeAgain(resume[t].m)
      <4> DEFINE refused == ~budget.autoResume \/ stale \/ ~mayResumeAgain(resume[t].m)
                 pc == IF refused THEN "clear" ELSE "prepare"
      <4>1. refused \in BOOLEAN /\ pc \in {"clear", "prepare"}
            /\ (pc = "prepare" => mayResumeAgain(resume[t].m))
        OBVIOUS
      <4>2. resume' = [resume EXCEPT ![t].pc = pc, ![t].noted = refused]
        BY <2>2, <2>4
      <4> HIDE DEF refused, pc
      <4> QED
        BY <4>1, <4>2
    <3> QED
      BY <1>0, <2>1, <3>1, GoesStep
  <2> QED
    BY <2>3, <2>4
<1>4. CASE PrepareFails(t) \/ RulesFail(t)
  <2>1. PICK noted \in BOOLEAN : resume' = [resume EXCEPT ![t].pc = "clear", ![t].noted = noted]
    BY <1>4 DEF PrepareFails, RulesFail
  <2>2. resume[t].pc \in Pending
    BY <1>4 DEF PrepareFails, RulesFail, At, Pending
  <2> QED
    BY <1>0, <2>1, <2>2, GoesStep
<1>5. CASE ResumeYields(t)
  <2>1. resume' = [resume EXCEPT ![t].pc = "none"] /\ resume[t].pc \in Pending
    BY <1>5 DEF ResumeYields, Skips, Goto, At, Pending
  <2> QED
    BY <1>0, <2>1, GoesStep
<1> QED
  BY <1>3, <1>4, <1>5

\* No driver has a marker while the file is that of a turn to be resumed, or none.
LEMMA NoDriverRuns ==
  ASSUME IInv, ~crossed, NEW t \in Tasks, resume[t].pc \in Pending,
         marker = NoMarker \/ marker.at = resume[t].m.at
  PROVE  \A c \in Backends : drv[c].marker = NoMarker
<1> SUFFICES ASSUME NEW c \in Backends, drv[c].marker # NoMarker PROVE FALSE
  OBVIOUS
<1>1. Open(drv[c]) /\ drv[c].marker.at # 0
  BY DriverFacts, NoTime
<1>2. OwnDriver /\ OwnTask
  BY DEF IInv, Promise
<1>3. marker.at = drv[c].marker.at
  BY <1>1, <1>2 DEF OwnDriver, SameTurn
<1>4. marker.at = resume[t].m.at
  BY <1>1, <1>3, NoMarkerGood
<1> QED
  BY <1>2, <1>3, <1>4 DEF OwnTask

\* The task has looked, and is about to give its order: no driver it goes beside
\* has a turn.
LEMMA LooksOn ==
  ASSUME IInv, NEW t \in Tasks, resume[t].pc = "prepare",
         resume' = [resume EXCEPT ![t].pc = "inject", ![t].seen = clock],
         UNCHANGED <<bk, page, beat, drv, cli, pipe, miscount, disk, clock, chain, barren>>,
         crossed' \in {crossed, TRUE},
         ~crossed' => ~crossed /\ marker.at = resume[t].m.at
  PROVE  IInv'
<1> DEFINE k == [resume[t] EXCEPT !.pc = "inject", !.seen = clock]
<1>0. resume[t].pc \in Pending /\ resume[t].pc \in Decided
  BY DEF Pending, Decided
<1>1. /\ t[1] \in Backends /\ resume[t] \in TaskType /\ resume \in [Tasks -> TaskType]
      /\ mayResumeAgain(resume[t].m) /\ clock \in Nat
  BY <1>0, TaskFacts DEF IInv, Promise, DiskGood
<1>2. k \in TaskType /\ k.pc = "inject" /\ k.m = resume[t].m /\ k.seen = clock
  BY <1>1 DEF TaskType
<1>3. resume' = [resume EXCEPT ![t] = k]
  BY <1>1
<1> HIDE DEF k
<1>4. /\ resume' \in [Tasks -> TaskType] /\ resume'[t] = k
      /\ \A u \in Tasks \ {t} : resume'[u] = resume[u]
  BY <1>1, <1>2, <1>3
<1>5. /\ Apart(t[1]) /\ drv'[t[1]].marker \in {drv[t[1]].marker, NoMarker}
      /\ Open(drv[t[1]]) \/ drv'[t[1]].marker = NoMarker
      /\ UNCHANGED <<marker, clock, chain, barren>>
  BY <1>1, DriverFacts DEF Apart, disk
<1>6. /\ DiskGood' /\ (crossed' \/ (OwnDriver' /\ Loop'))
      /\ (crossed => crossed') /\ clock' \in Nat /\ clock <= clock'
  BY <1>1, <1>5, QuietDisk
<1>7. FileFollows'
  BY <1>6, FileStays
<1>8. TasksGood'
  BY <1>0, <1>1, <1>2, <1>4, <1>5 DEF IInv, Promise, TasksGood
<1>9. ASSUME ~crossed' PROVE OwnTask' /\ Aimed'
  <2>1. /\ \A c \in Backends : drv'[c].marker = NoMarker
        /\ OwnTask
    BY <1>0, <1>9, NoDriverRuns DEF IInv, Promise
  <2>2. \A u \in Tasks : /\ resume'[u].m = resume[u].m
                         /\ resume'[u].pc \in Pending => resume[u].pc \in Pending
    BY <1>0, <1>2, <1>4
  <2>3. OwnTask'
    <3> SUFFICES ASSUME NEW u \in Tasks, resume'[u].pc \in Pending
                 PROVE  /\ \A c \in Backends : drv'[c].marker.at # resume'[u].m.at
                        /\ marker'.at = resume'[u].m.at => SameTurn(marker', resume'[u].m)
      BY DEF OwnTask
    <3>1. resume'[u].m = resume[u].m /\ resume[u].pc \in Pending
      BY <2>2
    <3>2. /\ resume[u].m.at # 0 /\ NoMarker.at = 0
          /\ marker.at = resume[u].m.at => SameTurn(marker, resume[u].m)
      BY <2>1, <3>1, TaskFacts, NoMarkerGood DEF OwnTask
    <3> QED
      BY <1>5, <2>1, <3>1, <3>2
  <2>4. Aimed'
    BY <2>1 DEF Aimed
  <2> QED
    BY <2>3, <2>4
<1>10. Promise'
  BY <1>5, <1>6, <1>7, <1>8, <1>9 DEF IInv, Promise
<1>11. Homes' /\ ProcessTyped' /\ Processes'
  BY DEF IInv, Homes, ProcessTyped, Processes
<1> QED
  BY <1>10, <1>11 DEF IInv

\* The look before the order: the task goes on, or ends.
LEMMA ResumeLooksStep ==
  ASSUME IInv, NEW t \in Tasks, ResumeLooks(t)
  PROVE  IInv'
<1>0. UNCHANGED <<bk, page, beat, drv, cli, pipe, miscount, disk, clock, chain, barren>>
  BY DEF ResumeLooks, LookKeeps, ResumeKeeps
<1>1. resume[t].pc = "prepare" /\ resume[t].pc \in Pending
  BY DEF ResumeLooks, At, Pending
<1>2. CASE bk[t[1]] = "stopping"
  <2>1. resume' = [resume EXCEPT ![t].pc = "none"] /\ crossed' \in {crossed, TRUE}
    BY <1>2 DEF ResumeLooks, Skips, Goto
  <2> QED
    BY <1>0, <1>1, <2>1, GoesStep
<1>3. CASE bk[t[1]] # "stopping"
  <2>1. PICK m \in Found :
          /\ Relies(m)
          /\ IF MovedOn(t, m) THEN Skips(t)
             ELSE /\ resume' = [resume EXCEPT ![t].pc = "inject", ![t].seen = clock]
                  /\ UNCHANGED dot
    BY <1>3 DEF ResumeLooks
  <2>2. crossed' \in {crossed, TRUE} /\ (~crossed' => ~crossed /\ m = marker)
    BY <2>1, RelyFacts
  <2>3. CASE MovedOn(t, m)
    <3>1. resume' = [resume EXCEPT ![t].pc = "none"]
      BY <2>1, <2>3 DEF Skips, Goto
    <3> QED
      BY <1>0, <1>1, <2>2, <3>1, GoesStep
  <2>4. CASE ~MovedOn(t, m)
    <3>1. /\ resume' = [resume EXCEPT ![t].pc = "inject", ![t].seen = clock]
          /\ m.at = resume[t].m.at
      BY <2>1, <2>4 DEF MovedOn
    <3>2. ~crossed' => ~crossed /\ marker.at = resume[t].m.at
      BY <2>2, <3>1
    <3> QED
      BY <1>0, <1>1, <2>2, <3>1, <3>2, LooksOn
  <2> QED
    BY <2>3, <2>4
<1> QED
  BY <1>2, <1>3

\* The marker of a turn that is not resumed goes; if another's went, that is known.
LEMMA ResumeClearsStep ==
  ASSUME IInv, NEW t \in Tasks, ResumeClears(t)
  PROVE  IInv'
<1>0. /\ UNCHANGED <<bk, page, beat, drv, cli, pipe, miscount, clock, chain, barren>>
      /\ Asks(t[1], "clear", NoMarker) /\ resume[t].pc \in Pending
      /\ resume' = [resume EXCEPT ![t].pc = "none"]
  BY DEF ResumeClears, ResumeKeeps, At, Goto, Pending
<1> DEFINE another == marker # NoMarker /\ marker.at # resume[t].m.at
           busy == \E c \in Backends \ {t[1]} : ink[c] # Dry
           k == [resume[t] EXCEPT !.pc = "none"]
<1>1. /\ crossed' = (crossed \/ another \/ busy)
      /\ another \in BOOLEAN /\ busy \in BOOLEAN /\ crossed \in BOOLEAN
  BY DEF ResumeClears, IInv, Promise, DiskGood
<1>2. /\ k \in TaskType /\ resume' = [resume EXCEPT ![t] = k] /\ k.pc \notin Pending
      /\ t[1] \in Backends
  BY <1>0, TaskFacts DEF TaskType, Pending
<1> HIDE DEF k, another, busy
<1>3. crossed' \in BOOLEAN /\ (crossed' <=> crossed \/ another \/ busy)
  BY <1>1
<1>4. TasksStand
  BY <1>2, OneTask
<1>5. /\ GoodMarker(NoMarker) /\ NoMarker.at = 0 /\ NoMarker.owner = 0
      /\ clock \in Nat /\ clock' = clock
  BY <1>0, NoMarkerGood DEF NoMarker, IInv, Promise, DiskGood
<1>6. FileFollows' /\ marker' = NoMarker
  <2>1. NoMarker.at <= clock' /\ NoMarker.owner <= MaxBackends /\ clock <= clock'
    BY <1>5, BoundsAssumption
  <2>2. (\E c \in Backends \ {t[1]} : ink[c] # Dry) => crossed'
    BY <1>3 DEF busy
  <2> HIDE DEF Asks
  <2> QED
    BY <1>0, <1>2, <1>5, <2>1, <2>2, AsksGood
<1>7. DiskGood'
  BY <1>0, <1>3, <1>5, <1>6, BoundsAssumption DEF IInv, Promise, DiskGood
<1>8. TasksGood'
  BY <1>4, <1>5, TasksStay
<1>9. ASSUME ~crossed' PROVE OwnDriver' /\ OwnTask' /\ Aimed' /\ Loop'
  <2>1. /\ ~crossed /\ (marker = NoMarker \/ marker.at = resume[t].m.at)
        /\ OwnTask /\ Loop
    BY <1>3, <1>9 DEF IInv, Promise, another
  <2>2. \A c \in Backends : drv[c].marker = NoMarker /\ drv'[c].marker = NoMarker
    BY <1>0, <2>1, NoDriverRuns
  <2>3. OwnDriver' /\ Aimed'
    BY <2>2 DEF OwnDriver, Aimed
  <2>4. OwnTask'
    <3> SUFFICES ASSUME NEW u \in Tasks, resume'[u].pc \in Pending
                 PROVE  /\ \A c \in Backends : drv'[c].marker.at # resume'[u].m.at
                        /\ marker'.at = resume'[u].m.at => SameTurn(marker', resume'[u].m)
      BY DEF OwnTask
    <3>1. resume[u].pc \in Pending /\ resume'[u].m = resume[u].m
      BY <1>4 DEF TasksStand
    <3>2. resume[u].m.at # 0
      BY <3>1, TaskFacts
    <3> QED
      BY <1>5, <1>6, <2>2, <3>1, <3>2
  <2>5. Loop'
    BY <1>0, <1>6, <2>1 DEF Loop
  <2> QED
    BY <2>3, <2>4, <2>5
<1>10. Promise'
  BY <1>0, <1>6, <1>7, <1>8, <1>9 DEF IInv, Promise
<1>11. Homes' /\ ProcessTyped' /\ Processes'
  BY <1>0 DEF IInv, Homes, ProcessTyped, Processes
<1> QED
  BY <1>10, <1>11 DEF IInv

\* One more resume of an order that may be resumed again.
LEMMA OneMoreResume ==
  ASSUME IInv, NEW t \in Tasks, resume[t].pc = "inject",
         chain' = chain + 1, barren' = barren + 1
  PROVE  LET n == resume[t].m.attempts + 1
         IN  /\ n \in Nat /\ n <= MaxAutoResumes /\ n # 0
             /\ chain' \in Nat /\ barren' \in Nat
             /\ ~crossed /\ marker.at = resume[t].m.at
                  => chain' <= n /\ chain' <= MaxAutoResumes /\ barren' <= 1
<1> DEFINE m == resume[t].m
<1>1. resume[t].pc \in Pending /\ resume[t].pc \in Decided
  BY DEF Pending, Decided
<1>2. /\ m.attempts \in Nat /\ mayResumeAgain(m) /\ m.at # 0
      /\ crossed \/ (marker.at = m.at => SameTurn(marker, m))
  BY <1>1, TaskFacts
<1>3. chain \in Nat /\ barren \in Nat
  BY DEF IInv, Promise
<1> HIDE DEF m
<1>4. m.attempts + 1 \in Nat /\ m.attempts + 1 <= MaxAutoResumes /\ m.attempts + 1 # 0
  BY <1>2, LimitsAssumption DEF mayResumeAgain
<1>5. ASSUME ~crossed, marker.at = m.at
      PROVE  chain' <= m.attempts + 1 /\ chain' <= MaxAutoResumes /\ barren' <= 1
  <2>1. Loop /\ SameTurn(marker, m) /\ marker # NoMarker
    BY <1>2, <1>5, NoMarkerGood DEF IInv, Promise
  <2>2. chain <= m.attempts
    BY <2>1 DEF Loop, SameTurn
  <2>3. barren = 0
    BY <1>2, <2>1 DEF Loop, SameTurn, mayResumeAgain
  <2>4. chain' <= m.attempts + 1
    BY <1>2, <1>3, <2>2
  <2>5. chain' <= MaxAutoResumes
    BY <1>2, <1>3, <1>4, <2>4, LimitsAssumption
  <2>6. barren' <= 1
    BY <2>3
  <2> QED
    BY <2>4, <2>5, <2>6
<1>6. chain' \in Nat /\ barren' \in Nat
  BY <1>3
<1> QED
  BY <1>4, <1>5, <1>6 DEF m

\* The continuation: the marker counts one more resume.
LEMMA ResumeInjectsStep ==
  ASSUME IInv, NEW t \in Tasks, ResumeInjects(t)
  PROVE  IInv'
<1> DEFINE b == t[1]
           base == IF Open(drv[b]) THEN drv[b] ELSE FreshSession
           n == resume[t].m.attempts + 1
<1>0. /\ bk[b] = "up" /\ cli[b].held < MaxHeld /\ resume[t].pc = "inject"
      /\ cli' = [cli EXCEPT ![b] = Holding(cli[b], base.child)]
      /\ miscount' = [miscount EXCEPT ![b] = miscount[b] \/ Straddles(b)]
      /\ resume' = [resume EXCEPT ![t].pc = "none"]
      /\ chain' = chain + 1 /\ barren' = barren + 1
      /\ UNCHANGED <<bk, page, beat, pipe>>
  BY DEF ResumeInjects, Resumed, At, Goto, Write, Holding
<1>1. PICK s \in {Order(t, base)} : CommitOver(b, s, Overtaken(t))
  BY DEF ResumeInjects
<1>2. b \in Backends /\ Overtaken(t) \in BOOLEAN
  BY TaskFacts DEF Overtaken
<1>3. \/ base = drv[b] /\ Open(drv[b])
      \/ base = FreshSession /\ ~Open(drv[b])
  <2>1. CASE Open(drv[b])
    BY <2>1
  <2>2. CASE ~Open(drv[b])
    BY <2>2
  <2> QED
    BY <2>1, <2>2
<1>4. /\ n \in Nat /\ n <= MaxAutoResumes /\ n # 0
      /\ chain' \in Nat /\ barren' \in Nat
      /\ ~crossed /\ marker.at = resume[t].m.at
           => chain' <= n /\ chain' <= MaxAutoResumes /\ barren' <= 1
  BY <1>0, OneMoreResume
<1>5. s = injectSystemTurn(base, Now, n)
  BY <1>1 DEF Order
<1> DEFINE over == Overtaken(t)
<1> HIDE DEF b, base, n, over
<1>6. GoodSession(base) /\ Now \in Nat \ {0}
  BY <1>2, <1>3, BaseFacts DEF IInv, Promise, DiskGood, Now
<1>7. /\ GoodSession(s) /\ Followed(s) /\ Begins(s, Now, n) /\ ~s.marker.progressed
      /\ s.child = base.child /\ s.activeTurns = base.activeTurns + 1
      /\ isTurnInFlight(s)
  BY <1>4, <1>5, <1>6, InjectGood
<1>8. over \in BOOLEAN /\ CommitOver(b, s, over)
  BY <1>1, <1>2 DEF over
<1>9. Local(b) /\ Open(drv'[b])
  BY <1>0, <1>2, <1>3, <1>7, <1>8, SendsLocally
<1>10. Homes'
  BY <1>0, <1>2, <1>9, HomesStep DEF IInv, Homes
<1> DEFINE k == [resume[t] EXCEPT !.pc = "none"]
<1>11. k \in TaskType /\ resume' = [resume EXCEPT ![t] = k] /\ k.pc \notin Pending
  BY <1>0, TaskFacts DEF TaskType, Pending
<1> HIDE DEF k
<1>12. TasksStand
  BY <1>11, OneTask
<1>13. ASSUME ~crossed' PROVE ~crossed /\ ~over
  <2>1. crossed \in BOOLEAN
    BY DEF IInv, Promise, DiskGood
  <2> DEFINE torn == s.io # "keep" /\ Crosses(b)
  <2>2. crossed' = (crossed \/ over \/ torn) /\ torn \in BOOLEAN
    BY <1>8 DEF CommitOver
  <2> HIDE DEF torn
  <2>3. crossed' <=> crossed \/ over \/ torn
    BY <2>2
  <2> QED
    BY <1>13, <2>3
<1>14. \/ crossed'
       \/ /\ chain' <= n /\ chain' <= MaxAutoResumes /\ barren' <= 1
          /\ n = 0 \/ s.marker.progressed => barren' = 0
  BY <1>4, <1>7, <1>13 DEF over, Overtaken
<1>15. Promise'
  BY <1>2, <1>4, <1>7, <1>8, <1>12, <1>14, BeginsPromise
<1> QED
  BY <1>2, <1>9, <1>10, <1>15, ProcessesStep DEF IInv

\* The same of a process that has no driver left: only the marker goes to disk.
LEMMA ResumeInjectsLateStep ==
  ASSUME IInv, NEW t \in Tasks, ResumeInjectsLate(t)
  PROVE  IInv'
<1> DEFINE b == t[1]
           n == resume[t].m.attempts + 1
<1>0. /\ resume[t].pc = "inject" /\ resume[t].pc \in Pending
      /\ resume' = [resume EXCEPT ![t].pc = "none"]
      /\ chain' = chain + 1 /\ barren' = barren + 1 /\ clock' = Now
      /\ UNCHANGED <<bk, page, beat, pipe, drv, cli, miscount>>
  BY DEF ResumeInjectsLate, Resumed, At, Goto, Pending
<1>1. PICK s \in {Order(t, FreshSession)} : Asks(b, "put", [s.marker EXCEPT !.owner = b])
  BY DEF ResumeInjectsLate
<1>2. b \in Backends /\ b \in Nat /\ b <= MaxBackends /\ clock \in Nat
      /\ crossed \in BOOLEAN
  BY TaskFacts, BoundsAssumption DEF IInv, Promise, DiskGood, Backends
<1> DEFINE over == Overtaken(t)
           busy == Crosses(b)
<1>3. /\ crossed' = (crossed \/ over \/ busy) /\ over \in BOOLEAN /\ busy \in BOOLEAN
  BY DEF ResumeInjectsLate, Overtaken, Crosses
<1>4. /\ n \in Nat /\ n <= MaxAutoResumes /\ n # 0
      /\ chain' \in Nat /\ barren' \in Nat
      /\ ~crossed /\ marker.at = resume[t].m.at
           => chain' <= n /\ chain' <= MaxAutoResumes /\ barren' <= 1
  BY <1>0, OneMoreResume
<1>5. s = injectSystemTurn(FreshSession, Now, n)
  BY <1>1 DEF Order
<1>6. Now = clock + 1 /\ Now \in Nat \ {0}
  BY <1>2 DEF Now
<1> DEFINE m == [s.marker EXCEPT !.owner = b]
<1> HIDE DEF b, n, over, busy
<1>7. GoodSession(s) /\ Begins(s, Now, n) /\ ~s.marker.progressed
  BY <1>4, <1>5, <1>6, FreshGood, InjectGood
<1>8. GoodMarker(s.marker) /\ s.marker \in MarkerType
  BY <1>7, NoTime DEF GoodSession, WellFormed
<1>9. /\ m \in MarkerType /\ m.owner = b /\ m.at = clock + 1 /\ m.attempts = n
      /\ m.progressed = s.marker.progressed
  BY <1>2, <1>6, <1>7, <1>8 DEF MarkerType, Begins
<1>10. Asks(b, "put", m)
  BY <1>1
<1> HIDE DEF m
<1>11. crossed' \in BOOLEAN /\ (crossed' <=> crossed \/ over \/ busy)
  BY <1>2, <1>3
<1>12. GoodMarker(m)
  BY <1>2, <1>4, <1>9 DEF GoodMarker
<1>13. clock' = clock + 1 /\ clock' \in Nat /\ clock <= clock'
  BY <1>0, <1>2, <1>6
<1>14. FileFollows' /\ marker' = m
  <2>1. m.at <= clock' /\ m.owner <= MaxBackends /\ m.owner \in Backends
    BY <1>2, <1>9, <1>13
  <2>2. (\E c \in Backends \ {b} : ink[c] # Dry) => crossed'
    BY <1>11 DEF busy, Crosses
  <2> HIDE DEF Asks
  <2> QED
    BY <1>2, <1>10, <1>12, <1>13, <2>1, <2>2, AsksGood
<1> DEFINE k == [resume[t] EXCEPT !.pc = "none"]
<1>15. k \in TaskType /\ resume' = [resume EXCEPT ![t] = k] /\ k.pc \notin Pending
  BY <1>0, TaskFacts DEF TaskType, Pending
<1> HIDE DEF k
<1>16. TasksStand
  BY <1>15, OneTask
<1>17. DiskGood'
  <2>1. \A c \in Backends : drv'[c].marker.at <= clock'
    <3> TAKE c \in Backends
    <3>1. drv[c].marker.at \in Nat /\ drv[c].marker.at <= clock /\ drv'[c] = drv[c]
      BY <1>0, DriverFacts
    <3> QED
      BY <1>2, <1>13, <3>1
  <2> QED
    BY <1>2, <1>9, <1>11, <1>12, <1>13, <1>14, <2>1 DEF DiskGood
<1>18. TasksGood'
  BY <1>13, <1>16, TasksStay
<1>19. ASSUME ~crossed' PROVE OwnDriver' /\ OwnTask' /\ Aimed' /\ Loop'
  <2>1. ~crossed /\ marker.at = resume[t].m.at /\ OwnTask
    BY <1>11, <1>19 DEF over, Overtaken, IInv, Promise
  <2>2. \A c \in Backends : drv[c].marker = NoMarker /\ drv'[c].marker = NoMarker
    BY <1>0, <2>1, NoDriverRuns
  <2>3. OwnDriver' /\ Aimed'
    BY <2>2 DEF OwnDriver, Aimed
  <2>4. OwnTask'
    <3> SUFFICES ASSUME NEW u \in Tasks, resume'[u].pc \in Pending
                 PROVE  /\ \A c \in Backends : drv'[c].marker.at # resume'[u].m.at
                        /\ marker'.at = resume'[u].m.at => SameTurn(marker', resume'[u].m)
      BY DEF OwnTask
    <3>1. resume[u].pc \in Pending /\ resume'[u].m = resume[u].m
      BY <1>16 DEF TasksStand
    <3>2. /\ resume[u].m.at # 0 /\ resume[u].m.at \in Nat /\ resume[u].m.at <= clock
          /\ NoMarker.at = 0
      BY <3>1, TaskFacts, NoMarkerGood
    <3>3. marker'.at # resume'[u].m.at
      BY <1>2, <1>9, <1>14, <3>1, <3>2
    <3> QED
      BY <2>2, <3>1, <3>2, <3>3
  <2>5. Loop'
    BY <1>4, <1>7, <1>9, <1>14, <2>1 DEF Loop
  <2> QED
    BY <2>3, <2>4, <2>5
<1>20. Promise'
  BY <1>4, <1>14, <1>17, <1>18, <1>19 DEF Promise
<1>21. Homes' /\ ProcessTyped' /\ Processes'
  BY <1>0 DEF IInv, Homes, ProcessTyped, Processes
<1> QED
  BY <1>20, <1>21 DEF IInv

-----------------------------------------------------------------------------
\* It holds as the first backend starts.
LEMMA Starts ==
  ASSUME Init
  PROVE  IInv
<1>1. /\ bk = [b \in Backends |-> IF b = 1 THEN "up" ELSE "off"]
      /\ beat = [b \in Backends |-> b = 1] /\ page = 0
      /\ drv = [b \in Backends |-> NoSession] /\ cli = [b \in Backends |-> NoCli]
      /\ pipe = [b \in Backends |-> <<>>] /\ miscount = [b \in Backends |-> FALSE]
      /\ marker = NoMarker /\ resume = [t \in Tasks |-> NoTask] /\ clock = 0
      /\ crossed = FALSE /\ chain = 0 /\ barren = 0
      /\ file = NoMarker /\ ink = [b \in Backends |-> Dry]
  BY DEF Init
<1>2. NoSession \in SessionType /\ <<>> \in Seq(Events)
  BY FreshGood, EmptySeq DEF GoodSession, WellFormed
<1>3. NoTask \in TaskType /\ NoTask.pc \notin Pending
  BY NoMarkerGood DEF NoTask, TaskType, Pending
<1>4. ProcessTyped /\ Processes
  BY <1>1, <1>2, FreshlyGood DEF ProcessTyped, Processes
<1>5. Homes
  <2>1. beat \in [Backends -> BOOLEAN] /\ \A b \in Backends : bk[b] = "up" => beat[b]
    <3>1. \A b \in Backends : beat[b] <=> b = 1
      BY <1>1
    <3>2. \A b \in Backends : bk[b] = "up" => b = 1
      BY <1>1
    <3>3. beat \in [Backends -> BOOLEAN]
      BY <1>1, Zenon
    <3> QED
      BY <3>1, <3>2, <3>3
  <2>2. bk \in [Backends -> {"off", "up", "stopping", "gone"}] /\ page \in 0 .. MaxBackends
    BY <1>1, BoundsAssumption
  <2>3. \A b \in Backends : ~Open(drv[b])
    BY <1>1, FreshGood DEF Open
  <2> QED
    BY <2>1, <2>2, <2>3 DEF Homes
<1>6. DiskGood
  <2>1. NoMarker.owner = 0
    BY DEF NoMarker
  <2> QED
    <3>1. crossed \in BOOLEAN
      BY <1>1
    <3>2. /\ GoodMarker(marker) /\ marker.owner <= MaxBackends /\ marker.at <= clock
          /\ clock \in Nat /\ \A b \in Backends : drv[b].marker.at <= clock
      BY <1>1, <2>1, FreshGood, NoMarkerGood, BoundsAssumption
    <3> QED
      BY <1>1, <3>1, <3>2 DEF DiskGood
<1>7. TasksGood
  BY <1>1, <1>3 DEF TasksGood
<1>8. OwnDriver /\ OwnTask /\ Loop
  BY <1>1, <1>3, FreshGood, LimitsAssumption DEF OwnDriver, OwnTask, Loop
<1>9. Aimed
  BY <1>1, FreshGood DEF Aimed
<1>10. FileFollows
  <2>1. /\ Dry \in [op: {"none", "put", "clear"}, m: MarkerType] /\ Dry.op = "none"
        /\ Dry.m = NoMarker
    BY NoMarkerGood DEF Dry, GoodMarker
  <2>2. Signed(NoMarker)
    <3>1. NoMarker.at = 0 /\ NoMarker.owner = 0 /\ clock = 0
      BY <1>1 DEF NoMarker
    <3> QED
      BY <3>1, NoMarkerGood, BoundsAssumption DEF Signed
  <2>3. FileGood
    BY <1>1, <2>1, <2>2 DEF FileGood
  <2>4. OwnFile
    <3>1. 1 \in Backends /\ \A b \in Backends : ink[b] = Dry
      BY <1>1, BoundsAssumption DEF Backends
    <3> QED
      BY <1>1, <3>1 DEF OwnFile
  <2> QED
    BY <2>3, <2>4 DEF FileFollows
<1> QED
  BY <1>1, <1>4, <1>5, <1>6, <1>7, <1>8, <1>9, <1>10 DEF IInv, Promise

\* Every step of the card keeps it: of its backends, drivers and CLIs,
LEMMA CardStep ==
  ASSUME IInv, NEW b \in Backends, Card(b)
  PROVE  IInv'
<1>1. CASE AgentTurn(b) \/ Interrupt(b) \/ Crash(b) \/ Pause(b) \/ Cli(b)
  BY <1>1, AgentTurnStep, InterruptStep, CrashStep, PauseStep, CliActionStep
<1>2. CASE Manager(b)
  BY <1>2, HearStep, ExitSeenStep, DriverClosedStep, WatchFiresStep, RetryFiresStep,
     IdleFiresStep, SettleFiresStep DEF Manager
<1>3. CASE Deploy(b) \/ MarkerFile(b)
  BY <1>3, BootStep, EndsStep, MarkerFileStep DEF Deploy
<1> QED
  BY <1>1, <1>2, <1>3 DEF Card

\* its page,
LEMMA PageStep ==
  ASSUME IInv, NEW b \in Backends, Attach(b) \/ Detach(b)
  PROVE  IInv'
BY AttachesStep, DetachesStep DEF Attach, Detach

\* and its resumes.
LEMMA ResumeStep ==
  ASSUME IInv, NEW t \in Tasks, Resume(t)
  PROVE  IInv'
BY SweepDecidesStep, SweepFailsStep, CrashLooksStep, DecidesStep, ResumeClearsStep,
   ResumeLooksStep, ResumeInjectsStep, ResumeInjectsLateStep DEF Resume


-----------------------------------------------------------------------------
\* A connection of the tab names a backend.
Connection(c) ==
  /\ {"st", "b"} \subseteq DOMAIN c
  /\ c.st # "down" => c.b \in Backends

\* It goes on doing so whatever else becomes of it.
LEMMA Touched ==
  ASSUME NEW c, Connection(c), NEW x, NEW y, NEW z
  PROVE  /\ Connection([c EXCEPT !.up = x]) /\ Connection([c EXCEPT !.dn = x])
         /\ Connection([c EXCEPT !.asked = x])
         /\ Connection([c EXCEPT !.deaf = x, !.up = y, !.dn = z])
         /\ x # "down" /\ c.st # "down" => /\ Connection([c EXCEPT !.st = x, !.dn = y])
                                           /\ Connection([c EXCEPT !.st = x, !.snap = y])
BY DEF Connection

\* A receipt is said to it.
LEMMA AnswerGood ==
  ASSUME NEW c, Connection(c), NEW k, NEW m
  PROVE  Connection(Answer(c, k, m))
BY Touched DEF Answer

\* No connection, and a new one.
LEMMA DownGood ==
  /\ Connection(Down)
  /\ \A b \in Backends : Connection([Down EXCEPT !.st = "setup", !.b = b])
BY DEF Connection, Down

\* What changes nothing of the card keeps its invariant.
LEMMA ChatKept ==
  ASSUME IInv, ChatKeeps
  PROVE  IInv'
<1>1. /\ UNCHANGED <<drv, cli, pipe, miscount, disk, clock, crossed, chain, barren,
                     resume, bk, beat>>
      /\ page' \in 0 .. MaxBackends
  BY DEF ChatKeeps, turnVars, ghosts, IInv, Homes
<1> QED
  BY <1>1, SilentStep

\* A message that reaches a driver is a person's turn.
LEMMA TakesStep ==
  ASSUME IInv, NEW b \in Backends, NEW m, Takes(b, m)
  PROVE  IInv'
<1>1. Enters(b, drv[b]) /\ page' \in 0 .. MaxBackends
  BY DEF Takes, IInv, Homes
<1>2. Open(drv[b])
  BY <1>1 DEF Enters, canAcceptTurn, Open
<1> QED
  BY <1>1, <1>2, EntersStep

\* The socket of the tab closes.
LEMMA TabClosesStep ==
  ASSUME IInv, Connection(conn), TabCloses
  PROVE  IInv' /\ Connection(conn)'
<1>1. conn.b \in Backends /\ Connection(conn')
  BY DownGood DEF TabCloses, Connection
<1>2. CASE conn.st = "open"
  BY <1>1, <1>2, DetachesStep DEF TabCloses
<1>3. CASE conn.st # "open"
  <2>1. ChatKeeps
    BY <1>3 DEF TabCloses, ChatKeeps
  <2> QED
    BY <1>1, <2>1, ChatKept
<1> QED
  BY <1>2, <1>3

\* What the tab does.
LEMMA TabStepKeeps ==
  ASSUME IInv, Connection(conn), TabStep
  PROVE  IInv' /\ Connection(conn)'
<1>1. ASSUME NEW m, NEW rows, NEW queue, Sends(m, rows, queue)
      PROVE  IInv' /\ Connection(conn)'
  BY <1>1, ChatKept, Touched DEF Sends
<1>2. CASE \E m \in Msgs : Writes(m)
  BY <1>1, <1>2, ChatKept DEF Writes
<1>3. CASE Dispatches
  BY <1>1, <1>3 DEF Dispatches
<1>4. CASE Hears
  BY <1>4, ChatKept, Touched DEF Hears
<1>5. CASE Reload \/ Watchdog \/ DropSeen
  BY <1>5, TabClosesStep DEF Reload, Watchdog, DropSeen
<1>6. CASE WireDies
  BY <1>6, ChatKept, Touched DEF WireDies
<1>7. ASSUME NEW b \in Backends, Connect(b)
      PROVE  IInv' /\ Connection(conn)'
  <2>1. ChatKeeps /\ conn' = [Down EXCEPT !.st = "setup", !.b = b]
    BY <1>7, Zenon DEF Connect
  <2>2. Connection([Down EXCEPT !.st = "setup", !.b = b])
    BY DownGood, Zenon
  <2>3. Connection(conn')
    BY <2>1, <2>2, Zenon
  <2> QED
    BY <2>1, <2>3, ChatKept
<1> QED
  BY <1>2, <1>3, <1>4, <1>5, <1>6, <1>7 DEF TabStep

\* What the server does with the tab.
LEMMA ServerStepKeeps ==
  ASSUME IInv, Connection(conn), ServerStep
  PROVE  IInv' /\ Connection(conn)'
<1>1. CASE ServerReads
  <2>1. conn.st # "down" /\ ChatKeeps
    BY <1>1 DEF ServerReads
  <2>2. PICK n : conn' = [conn EXCEPT !.st = "read", !.snap = n]
    BY <1>1, Zenon DEF ServerReads
  <2> DEFINE x == "read"
  <2>3. x # "down" /\ conn' = [conn EXCEPT !.st = x, !.snap = n]
    BY <2>2
  <2> HIDE DEF x
  <2> QED
    BY <2>1, <2>3, ChatKept, Touched
<1>2. CASE ServerAttaches
  <2>1. /\ conn.st = "read" /\ Attaches(conn.b)
        /\ \E dn : conn' = [conn EXCEPT !.st = "open", !.dn = dn]
    BY <1>2, Zenon DEF ServerAttaches
  <2>2. conn.b \in Backends
    BY <2>1 DEF Connection
  <2>3. PICK dn : conn' = [conn EXCEPT !.st = "open", !.dn = dn]
    BY <2>1, Zenon
  <2> DEFINE x == "open"
  <2>4. x # "down" /\ conn.st # "down" /\ conn' = [conn EXCEPT !.st = x, !.dn = dn]
    BY <2>1, <2>3
  <2> HIDE DEF x
  <2>5. Connection(conn')
    BY <2>4, Touched
  <2> QED
    BY <2>1, <2>2, <2>5, AttachesStep
<1>3. CASE ServerHandles
  <2> DEFINE m == Head(conn.up)
             rest == [conn EXCEPT !.up = Tail(conn.up)]
             asks == [rest EXCEPT !.asked = rest.asked \cup {m}]
  <2>1. /\ conn.st = "open"
        /\ \/ Takes(conn.b, m) /\ conn' = asks
           \/ /\ Charges(conn.b, m)
              /\ conn' = Answer(rest, "ack", m) \/ conn' = asks
           \/ Refuses(conn.b, m) /\ conn' = Answer(rest, "nack", m)
    BY <1>3 DEF ServerHandles
  <2>2. conn.b \in Backends
    BY <2>1 DEF Connection
  <2>3. Connection(rest)
    BY Touched
  <2> HIDE DEF rest, m
  <2>4. /\ Connection(asks) /\ Connection(Answer(rest, "ack", m))
        /\ Connection(Answer(rest, "nack", m))
    BY <2>3, Touched, AnswerGood
  <2> HIDE DEF asks
  <2> QED
    BY <2>1, <2>2, <2>4, TakesStep, ChatKept DEF Charges, Refuses
<1>4. CASE LateHandled
  <2>1. PICK b \in Backends :
          \/ /\ Takes(b, Head(late).m)
             /\ conn' = conn \/ \E dn : conn' = [conn EXCEPT !.dn = dn]
          \/ (Charges(b, Head(late).m) \/ Refuses(b, Head(late).m)) /\ conn' = conn
    BY <1>4 DEF LateHandled
  <2>2. Connection(conn')
    <3>1. CASE conn' = conn
      BY <3>1
    <3>2. ASSUME NEW dn, conn' = [conn EXCEPT !.dn = dn] PROVE Connection(conn')
      <4>1. Connection([conn EXCEPT !.dn = dn])
        BY Touched
      <4> QED
        BY <3>2, <4>1
    <3> QED
      BY <2>1, <3>1, <3>2
  <2> QED
    BY <2>1, <2>2, TakesStep, ChatKept DEF Charges, Refuses
<1>5. ASSUME NEW w, NEW k PROVE Connection(Answered(w, k))
  BY AnswerGood, Touched DEF Answered
<1>6. CASE WriteEnds
  BY <1>5, <1>6, ChatKept DEF WriteEnds, WriteKeeps
<1>7. CASE WriteFails
  BY <1>5, <1>7, ChatKept DEF WriteFails, WriteKeeps
<1> QED
  BY <1>1, <1>2, <1>3, <1>4, <1>6, <1>7 DEF ServerStep

\* Every step of the card and its tab keeps the invariant.
LEMMA StepKeeps ==
  ASSUME IInv, Connection(conn), [ChatNext]_chatVars
  PROVE  IInv' /\ Connection(conn)'
<1>1. CASE ChatStep
  <2>0. conn' = Down \/ conn' = conn
    BY <1>1, Zenon DEF ChatStep, DeliveryReacts
  <2>1. Connection(conn')
    BY <2>0, DownGood, Zenon
  <2> QED
    BY <1>1, <2>1, CardStep, PageStep, ResumeStep DEF ChatStep, Page
<1>2. CASE TabStep \/ ServerStep
  BY <1>2, TabStepKeeps, ServerStepKeeps
<1>3. CASE UNCHANGED chatVars
  <2>1. ChatKeeps /\ conn' = conn
    BY <1>3 DEF chatVars, vars, deliveryVars, ChatKeeps, turnVars, ghosts
  <2> QED
    BY <2>1, ChatKept
<1> QED
  BY <1>1, <1>2, <1>3 DEF ChatNext

\* The inductive invariant of the native chat of a card.
THEOREM Invariant == ChatSpec => [](IInv /\ Connection(conn))
<1>1. ChatInit => IInv /\ Connection(conn)
  <2> SUFFICES ASSUME ChatInit PROVE IInv /\ Connection(conn)
    OBVIOUS
  <2>1. Init /\ conn = Down
    BY Zenon DEF ChatInit
  <2> QED
    BY <2>1, Starts, DownGood, Zenon
<1>2. IInv /\ Connection(conn) /\ [ChatNext]_chatVars => (IInv /\ Connection(conn))'
  BY StepKeeps
<1> QED
  BY <1>1, <1>2, PTL DEF ChatSpec

-----------------------------------------------------------------------------
\* The state of the chat of a card stays within its types: counts are numbers, markers
\* and tasks are of the kinds inflight.ts and resume.ts write, the bounds hold.
THEOREM TypeCorrect == ChatSpec => []TypeInvariant
<1>1. IInv => TypeInvariant
  <2> SUFFICES ASSUME IInv PROVE TypeInvariant
    OBVIOUS
  <2>1. /\ bk \in [Backends -> {"off", "up", "stopping", "gone"}]
        /\ beat \in [Backends -> BOOLEAN] /\ page \in 0 .. MaxBackends
    BY DEF IInv, Homes
  <2>2. ASSUME NEW b \in Backends
        PROVE  /\ drv[b].child \in {"none", "up", "deaf", "exited"}
               /\ drv[b].activeTurns \in Nat /\ drv[b].failures \in 0 .. MaxApiRetries
               /\ drv[b].work \subseteq Work
               /\ drv[b].watch \in {"none", "fresh", "reengaged"}
               /\ drv[b].io = "keep" /\ drv[b].said = "nothing"
               /\ cli[b].run \in {"no", "given", "own"} /\ cli[b].held \in 0 .. MaxHeld
               /\ Len(pipe[b]) <= MaxPipe
    <3>1. Shaped(drv[b], cli[b], pipe[b])
      BY DriverFacts DEF Good
    <3>2. drv[b] \in SessionType /\ drv[b].failures <= MaxApiRetries /\ AtRest(drv[b])
      BY <3>1 DEF Shaped, GoodSession, WellFormed
    <3>3. cli[b] \in CliType /\ cli[b].held <= MaxHeld /\ Len(pipe[b]) <= MaxPipe
      BY <3>1 DEF Shaped
    <3>4. drv[b].failures \in 0 .. MaxApiRetries
      BY <3>2, LimitsAssumption DEF SessionType
    <3>5. cli[b].held \in 0 .. MaxHeld
      BY <3>3, BoundsAssumption DEF CliType
    <3> QED
      BY <3>2, <3>3, <3>4, <3>5 DEF SessionType, CliType, AtRest
  <2>3. /\ marker.owner \in 0 .. MaxBackends /\ marker.attempts \in 0 .. MaxAutoResumes
        /\ marker.at \in 0 .. clock
    BY BoundsAssumption, LimitsAssumption
    DEF IInv, Promise, DiskGood, GoodMarker, MarkerType
  <2>4. \A t \in Tasks :
          resume[t].pc \in {"none", "orphan", "wait", "rules", "clear", "prepare", "inject"}
    BY TaskFacts DEF TaskType
  <2>5. file.owner \in 0 .. MaxBackends
    <3>1. file \in MarkerType /\ file.owner <= MaxBackends
      BY DEF IInv, Promise, FileFollows, FileGood, Signed, GoodMarker
    <3> QED
      BY <3>1, BoundsAssumption DEF MarkerType
  <2>6. \A b \in Backends : ink[b].op \in {"none", "put", "clear"}
    BY DEF IInv, Promise, FileFollows, FileGood
  <2> QED
    BY <2>1, <2>2, <2>3, <2>4, <2>5, <2>6 DEF TypeInvariant
<1> QED
  BY <1>1, Invariant, PTL

\* What a driver that is right about its CLI has on disk, or on its way there.
LEMMA OnDisk ==
  ASSUME IInv, ~crossed, NEW b \in Backends, ~miscount[b],
         turnRunning(drv[b]) \/ drv[b].work # {}
  PROVE  file # NoMarker \/ \E c \in Backends : ink[c].op = "put"
<1>1. drv[b].marker # NoMarker
  BY DriverFacts DEF Sound, Followed
<1>2. Open(drv[b]) /\ drv[b].marker.at # 0
  BY <1>1, DriverFacts, NoTime
<1>3. marker.at = drv[b].marker.at
  BY <1>1, <1>2 DEF IInv, Promise, OwnDriver, SameTurn
<1>4. marker # NoMarker
  BY <1>2, <1>3, NoMarkerGood
<1>5. /\ OwnFile
      /\ ink \in [Backends -> [op: {"none", "put", "clear"}, m: MarkerType]]
      /\ \A c \in Backends : ink[c].op # "put" => ink[c].m = NoMarker
  BY DEF IInv, Promise, FileFollows, FileGood
<1>6. PICK c \in Backends : marker = IF ink[c] = Dry THEN file ELSE ink[c].m
  BY <1>5 DEF OwnFile
<1> QED
  BY <1>4, <1>5, <1>6

\* A driver that runs a turn, or holds work that outlives one, has its promise on disk,
\* or on its way there (syncInflightMarker); whatever kills it, the next boot finds it.
\* Excused: an operation that failed, died with its process or crossed another's.
THEOREM PromiseOnDisk == ChatSpec => []WorkIsOnDisk
<1>1. IInv => WorkIsOnDisk
  BY OnDisk DEF WorkIsOnDisk
<1> QED
  BY <1>1, Invariant, PTL

\* The manager never counts a turn as over while the CLI answers a message or has one to
\* answer (isTurnInFlight), unless it is known to have lost count.
THEOREM TurnsAreCounted == ChatSpec => []RunningTurnIsCounted
<1>1. IInv => RunningTurnIsCounted
  <2> SUFFICES ASSUME IInv, NEW b \in Backends, cli[b].run = "given" \/ cli[b].held > 0,
                      ~miscount[b]
               PROVE  isTurnInFlight(drv[b])
    BY DEF RunningTurnIsCounted
  <2>1. /\ Sound(drv[b], cli[b], pipe[b]) /\ cli[b].held \in Nat /\ drv[b].activeTurns \in Nat
        /\ pipe[b] \in Seq(Events)
    BY DriverFacts DEF Good, Shaped
  <2>2. Downs(pipe[b], Len(pipe[b])) \in Nat
    BY <2>1, DownsOf
  <2>3. cli[b].held + Given(cli[b]) + Downs(pipe[b], Len(pipe[b])) <= drv[b].activeTurns
    BY <2>1 DEF Sound, Counts
  <2>4. Given(cli[b]) \in {0, 1} /\ (cli[b].run = "given" => Given(cli[b]) = 1)
    BY DEF Given
  <2>5. drv[b].activeTurns > 0
    BY <2>1, <2>2, <2>3, <2>4
  <2> QED
    BY <2>5 DEF isTurnInFlight
<1> QED
  BY <1>1, Invariant, PTL

\* No second automatic resume of a turn that produced nothing since the first, and never
\* more than MAX_AUTO_RESUMES of one order (mayResumeAgain), as long as the count reaches
\* the file before whoever reads it next.
THEOREM NoResumeLoop == ChatSpec => []LoopGuard
<1>1. IInv => LoopGuard
  BY DEF IInv, Promise, Loop, LoopGuard
<1> QED
  BY <1>1, Invariant, PTL

-----------------------------------------------------------------------------
\* A step closes no driver.
NoneCloses == \A c \in Backends : Open(drv[c]) => Open(drv'[c])

\* A handler that keeps its driver.
LEMMA HandlerKeeps ==
  ASSUME IInv, NEW b \in Backends, NEW s, GoodSession(s), s.child # "none",
         NEW over, CommitOver(b, s, over)
  PROVE  NoneCloses
<1>1. Open(drv'[b]) /\ \A c \in Backends \ {b} : drv'[c] = drv[c]
  BY CommitFacts
<1> QED
  BY <1>1 DEF NoneCloses

\* The page comes or goes.
LEMMA PageKeeps ==
  ASSUME IInv, NEW b \in Backends, Attaches(b) \/ Detaches(b)
  PROVE  NoneCloses
<1>0. drv \in [Backends -> SessionType]
  BY DEF IInv, ProcessTyped
<1>1. CASE Attaches(b)
  <2>1. drv' = [drv EXCEPT ![b] = IF Open(drv[b]) THEN [drv[b] EXCEPT !.idleTimer = FALSE]
                                  ELSE FreshSession]
    BY <1>1 DEF Attaches
  <2>2. drv'[b].child # "none"
    BY <1>0, <2>1, FreshGood DEF SessionType, Open
  <2> QED
    BY <1>0, <2>1, <2>2 DEF NoneCloses, Open
<1>2. CASE Detaches(b)
  <2>1. drv' = [drv EXCEPT ![b] = IF Open(drv[b]) THEN maybeScheduleIdleStop(drv[b], FALSE)
                                  ELSE drv[b]]
    BY <1>2 DEF Detaches
  <2>2. Alike(maybeScheduleIdleStop(drv[b], FALSE), drv[b])
    BY DriverFacts, TimersGood
  <2>3. drv'[b].child = drv[b].child
    BY <1>0, <2>1, <2>2 DEF Alike
  <2> QED
    BY <1>0, <2>1, <2>3 DEF NoneCloses, Open
<1> QED
  BY <1>1, <1>2

\* A person's turn.
LEMMA EntersKeeps ==
  ASSUME IInv, NEW b \in Backends, NEW s, Enters(b, s),
         \/ s = drv[b] /\ Open(drv[b])
         \/ s = FreshSession /\ ~Open(drv[b])
  PROVE  NoneCloses
<1>1. PICK r \in {PersonTurn(s, Now)} : CommitOver(b, r, FALSE)
  BY DEF Enters, Commit
<1>2. GoodSession(s) /\ Open(s) /\ Now \in Nat \ {0}
  BY BaseFacts DEF IInv, Promise, DiskGood, Now
<1>3. GoodSession(r) /\ r.child = s.child
  BY <1>2, PersonTurnGood
<1> QED
  BY <1>1, <1>2, <1>3, HandlerKeeps DEF Open

\* What the manager does of itself, and Stop, keeps the driver.
LEMMA HandlersKeep ==
  ASSUME IInv, NEW b \in Backends, Hear(b) \/ Interrupt(b) \/ WatchFires(b) \/ RetryFires(b)
  PROVE  NoneCloses
<1>0. /\ GoodSession(drv[b]) /\ AtRest(drv[b]) /\ Now \in Nat \ {0} /\ pipe[b] \in Seq(Events)
  BY DriverFacts DEF IInv, Promise, DiskGood, Now, Good, Shaped
<1>1. Open(drv[b])
  BY DEF Hear, Reads, Interrupt, WatchFires, RetryFires
<1>2. CASE Hear(b)
  <2> DEFINE event == Head(pipe[b])
  <2>1. PICK s \in {handleDriverEvent(drv[b], event, Now, attached(b))} : Commit(b, s)
    BY <1>2 DEF Hear
  <2>2. event \in Events
    BY <1>0, <1>2, PipeTail DEF Hear, Reads
  <2> HIDE DEF event
  <2> DEFINE r == handleDriverEvent(drv[b], event, Now, attached(b))
  <2>3. GoodSession(r) /\ r.child = drv[b].child
    BY <1>0, <2>2, EventGood
  <2>4. s = r /\ CommitOver(b, s, FALSE)
    BY <2>1 DEF Commit
  <2> HIDE DEF r
  <2> QED
    BY <1>1, <2>3, <2>4, HandlerKeeps DEF Open
<1>3. CASE Interrupt(b)
  <2>1. PICK s \in {OnInterrupt(drv[b], Now, attached(b))} : CommitOver(b, s, FALSE)
    BY <1>3 DEF Interrupt, Commit
  <2>2. GoodSession(s) /\ s.child = drv[b].child
    BY <1>0, <2>1, InterruptGood
  <2> QED
    BY <1>1, <2>1, <2>2, HandlerKeeps DEF Open
<1>4. CASE WatchFires(b)
  <2>1. PICK s \in {checkResumeWatch(drv[b], Now, attached(b))} : CommitOver(b, s, FALSE)
    BY <1>4 DEF WatchFires, Commit
  <2>2. GoodSession(s) /\ s.child = drv[b].child
    BY <1>0, <1>4, <2>1, WatchGood DEF WatchFires
  <2> QED
    BY <1>1, <2>1, <2>2, HandlerKeeps DEF Open
<1>5. CASE RetryFires(b)
  <2>1. PICK s \in {ApiRetryFires(drv[b], Now, attached(b))} : CommitOver(b, s, FALSE)
    BY <1>5 DEF RetryFires, Commit
  <2>2. GoodSession(s) /\ s.child = drv[b].child
    BY <1>0, <1>5, <2>1, RetryGood DEF RetryFires
  <2> QED
    BY <1>1, <2>1, <2>2, HandlerKeeps DEF Open
<1> QED
  BY <1>2, <1>3, <1>4, <1>5

\* So do the death of a driver, seen or not yet, and the settling of the dot.
LEMMA MarksKeep ==
  ASSUME IInv, NEW b \in Backends, Crash(b) \/ ExitSeen(b) \/ SettleFires(b)
  PROVE  NoneCloses
<1>0. drv \in [Backends -> SessionType] /\ drv[b] \in SessionType
  BY DEF IInv, ProcessTyped
<1>1. \/ drv' = [drv EXCEPT ![b].child = "deaf"]
      \/ drv' = [drv EXCEPT ![b].child = "exited"]
      \/ Open(drv[b]) /\ drv' = [drv EXCEPT ![b].settling = FALSE]
  BY DEF Crash, ExitSeen, SettleFires
<1>2. /\ drv'[b].child # "none"
      /\ \A c \in Backends \ {b} : drv'[c] = drv[c]
  BY <1>0, <1>1 DEF SessionType, Open
<1> QED
  BY <1>2 DEF NoneCloses, Open

\* A driver is closed by the idle stop, a pause, the death of its backend or its own.
LEMMA CardKeeps ==
  ASSUME IInv, NEW b \in Backends, Card(b)
  PROVE  \/ NoneCloses \/ IdleFires(b) \/ Pause(b) \/ Sigterm(b) \/ Sigkill(b)
         \/ DriverClosed(b)
<1>1. CASE AgentTurn(b)
  BY <1>1, EntersKeeps DEF AgentTurn
<1>2. CASE Interrupt(b) \/ Hear(b) \/ WatchFires(b) \/ RetryFires(b)
  BY <1>2, HandlersKeep
<1>3. CASE Crash(b) \/ ExitSeen(b) \/ SettleFires(b)
  BY <1>3, MarksKeep
<1>4. CASE Cli(b)
  <2>1. drv' = drv
    BY <1>4 DEF Cli, CliTakes, CliSpeaks, CliSchedules, CliStartsTask, CliTaskEnds,
                CliOpensTurn, CliCloses, CliErrs, CliKeeps
  <2> QED
    BY <2>1 DEF NoneCloses
<1>5. CASE Boot(b) \/ Exit(b) \/ BeatStale(b) \/ MarkerFile(b)
  <2>1. drv' = drv
    BY <1>5 DEF Boot, Exit, BeatStale, MarkerFile, Lands, MarkerFails, InkKeeps, turnVars
  <2> QED
    BY <2>1 DEF NoneCloses
<1> QED
  BY <1>1, <1>2, <1>3, <1>4, <1>5 DEF Card, Manager, Deploy

\* No resume closes a driver.
LEMMA ResumesKeep ==
  ASSUME IInv, NEW t \in Tasks, Resume(t)
  PROVE  NoneCloses
<1>1. CASE ResumeInjects(t)
  <2> DEFINE b == t[1]
             base == IF Open(drv[b]) THEN drv[b] ELSE FreshSession
             n == resume[t].m.attempts + 1
  <2>1. PICK s \in {Order(t, base)} : CommitOver(b, s, Overtaken(t))
    BY <1>1 DEF ResumeInjects
  <2>2. /\ resume[t].pc = "inject" /\ b \in Backends
        /\ chain' = chain + 1 /\ barren' = barren + 1
    BY <1>1, TaskFacts DEF ResumeInjects, Resumed, At
  <2>3. n \in Nat /\ n <= MaxAutoResumes
    BY <2>2, OneMoreResume
  <2>4. Now \in Nat \ {0}
    BY DEF IInv, Promise, DiskGood, Now
  <2>5. s = injectSystemTurn(base, Now, n)
    BY <2>1 DEF Order
  <2>6. GoodSession(base) /\ Open(base)
    <3>1. CASE Open(drv[b])
      BY <2>2, <3>1, DriverFacts
    <3>2. CASE ~Open(drv[b])
      BY <3>2, FreshGood DEF Open
    <3> QED
      BY <3>1, <3>2
  <2> HIDE DEF b, n, base
  <2>7. GoodSession(s) /\ s.child = base.child
    BY <2>3, <2>4, <2>5, <2>6, InjectGood
  <2> QED
    BY <2>1, <2>2, <2>6, <2>7, HandlerKeeps DEF Open
<1>2. CASE ~ResumeInjects(t)
  <2>1. drv' = drv
    BY <1>2 DEF Resume, SweepDecides, SweepFails, CrashLooks, ResumeRules, RulesFail,
                ResumeClears, PrepareFails, ResumeLooks, ResumeInjectsLate, ResumeYields,
                LookKeeps
  <2> QED
    BY <2>1 DEF NoneCloses
<1> QED
  BY <1>1, <1>2

\* The tab and the server close no driver.
LEMMA DeliveryKeeps ==
  ASSUME IInv, Connection(conn), TabStep \/ ServerStep
  PROVE  NoneCloses
<1>0. drv' = drv => NoneCloses
  BY DEF NoneCloses
<1>1. ASSUME ChatKeeps PROVE NoneCloses
  BY <1>0, <1>1 DEF ChatKeeps, turnVars
<1>2. ASSUME TabCloses PROVE NoneCloses
  <2>1. CASE conn.st = "open"
    BY <1>2, <2>1, PageKeeps DEF TabCloses, Connection
  <2>2. CASE conn.st # "open"
    BY <1>0, <1>2, <2>2 DEF TabCloses, turnVars
  <2> QED
    BY <2>1, <2>2
<1>3. ASSUME NEW b \in Backends, NEW m, Takes(b, m) PROVE NoneCloses
  <2>1. Enters(b, drv[b]) /\ Open(drv[b])
    BY <1>3 DEF Takes, Enters, canAcceptTurn, Open
  <2> QED
    BY <2>1, EntersKeeps
<1>4. ASSUME NEW m, NEW rows, NEW queue, Sends(m, rows, queue) PROVE NoneCloses
  BY <1>1, <1>4 DEF Sends
<1>5. CASE TabStep
  <2>1. CASE (\E m \in Msgs : Writes(m)) \/ Dispatches
    BY <1>1, <1>4, <2>1 DEF Writes, Dispatches
  <2>2. CASE Reload \/ Watchdog \/ DropSeen
    BY <1>2, <2>2 DEF Reload, Watchdog, DropSeen
  <2>3. CASE Hears \/ WireDies \/ \E b \in Backends : Connect(b)
    BY <1>1, <2>3, Zenon DEF Hears, WireDies, Connect
  <2> QED
    BY <1>5, <2>1, <2>2, <2>3 DEF TabStep
<1>6. CASE ServerStep
  <2>1. CASE ServerReads \/ WriteEnds \/ WriteFails
    BY <1>1, <2>1 DEF ServerReads, WriteEnds, WriteFails, WriteKeeps
  <2>2. CASE ServerAttaches
    BY <2>2, PageKeeps DEF ServerAttaches, Connection
  <2>3. CASE ServerHandles
    <3>1. conn.b \in Backends
      BY <2>3 DEF ServerHandles, Connection
    <3>2. \E m : Takes(conn.b, m) \/ Charges(conn.b, m) \/ Refuses(conn.b, m)
      BY <2>3 DEF ServerHandles
    <3> QED
      BY <1>1, <1>3, <3>1, <3>2 DEF Charges, Refuses
  <2>4. CASE LateHandled
    <3>1. \E b \in Backends : \E m : Takes(b, m) \/ Charges(b, m) \/ Refuses(b, m)
      BY <2>4 DEF LateHandled
    <3> QED
      BY <1>1, <1>3, <3>1 DEF Charges, Refuses
  <2> QED
    BY <1>6, <2>1, <2>2, <2>3, <2>4 DEF ServerStep
<1> QED
  BY <1>5, <1>6

\* A step of the chat closes no driver but by the idle stop, a pause, its own death or
\* that of its backend.
LEMMA WhatCloses ==
  ASSUME IInv, Connection(conn), [ChatNext]_chatVars
  PROVE  \/ NoneCloses
         \/ \E b \in Backends : \/ IdleFires(b) \/ Pause(b) \/ Sigterm(b) \/ Sigkill(b)
                                \/ DriverClosed(b)
<1>1. ASSUME NEW b \in Backends, Card(b) \/ Page(b)
      PROVE  \/ NoneCloses \/ IdleFires(b) \/ Pause(b) \/ Sigterm(b) \/ Sigkill(b)
             \/ DriverClosed(b)
  BY <1>1, CardKeeps, PageKeeps DEF Page, Attach, Detach
<1>2. ASSUME NEW t \in Tasks, Resume(t)
      PROVE  NoneCloses
  BY <1>2, ResumesKeep
<1>3. CASE TabStep \/ ServerStep
  BY <1>3, DeliveryKeeps
<1>4. CASE UNCHANGED chatVars
  <2>1. drv' = drv
    BY <1>4 DEF chatVars, vars
  <2> QED
    BY <2>1 DEF NoneCloses
<1>5. CASE ChatStep
  BY <1>1, <1>2, <1>5 DEF ChatStep
<1> QED
  BY <1>3, <1>4, <1>5 DEF ChatNext

\* What the idle stop may end.
Idles(b) ==
  \/ miscount[b]
  \/ /\ cli[b].run # "given" /\ cli[b].held = 0
     /\ cli[b].run = "own" /\ cli[b].spoke
          => \E i \in DOMAIN pipe[b] : pipe[b][i] \in {"work", "schedules"}

\* The idle stop finds a CLI that answers no message; one that spoke is in flight for the
\* manager, or its words are still unread.
LEMMA IdleFinds ==
  ASSUME IInv, NEW b \in Backends, IdleFires(b), drv[b].child = "up"
  PROVE  NoneCloses \/ (Idles(b) /\ \A c \in Backends \ {b} : drv'[c] = drv[c])
<1>1. CASE attached(b) \/ turnRunning(drv[b])
  <2> DEFINE i == [drv[b] EXCEPT !.idleTimer = FALSE]
  <2>1. CommitOver(b, i, FALSE) /\ Open(drv[b])
    BY <1>1 DEF IdleFires, Commit
  <2>2. GoodSession(i) /\ i.child = drv[b].child
    BY DriverFacts, TimersGood DEF Alike
  <2> HIDE DEF i
  <2> QED
    BY <2>1, <2>2, HandlerKeeps DEF Open
<1>2. CASE ~(attached(b) \/ turnRunning(drv[b]))
  <2>1. ~isTurnInFlight(drv[b])
    BY <1>2 DEF turnRunning
  <2>2. /\ miscount[b] \/ Sound(drv[b], cli[b], pipe[b])
        /\ Good(drv[b], cli[b], pipe[b])
        /\ cli[b].held \in Nat /\ drv[b].activeTurns \in Nat /\ pipe[b] \in Seq(Events)
    BY DriverFacts DEF Good, Shaped
  <2>3. drv[b].activeTurns = 0
    BY <2>1, <2>2 DEF isTurnInFlight
  <2>4. ASSUME ~miscount[b] PROVE cli[b].run # "given" /\ cli[b].held = 0
    <3> DEFINE n == Downs(pipe[b], Len(pipe[b]))
    <3>1. n \in Nat /\ Given(cli[b]) \in {0, 1} /\ (cli[b].run = "given" => Given(cli[b]) = 1)
      BY <2>2, DownsOf DEF Given
    <3>2. \/ cli[b].held + Given(cli[b]) + n <= 0
          \/ cli[b].held = 0 /\ cli[b].run # "given"
      BY <2>2, <2>3, <2>4 DEF Sound, Counts
    <3> DEFINE h == cli[b].held
               g == Given(cli[b])
    <3>3. /\ h \in Nat /\ n \in Nat /\ g \in {0, 1} /\ (cli[b].run = "given" => g = 1)
          /\ h + g + n <= 0 \/ (h = 0 /\ cli[b].run # "given")
      BY <2>2, <3>1, <3>2
    <3> HIDE DEF n, h, g
    <3>4. h = 0 /\ (g = 0 \/ cli[b].run # "given")
      BY <3>3
    <3>5. h = 0 /\ cli[b].run # "given"
      BY <3>3, <3>4
    <3> QED
      BY <3>5 DEF h
  <2>5. ASSUME cli[b].run = "own", cli[b].spoke
        PROVE  \E i \in DOMAIN pipe[b] : pipe[b][i] \in {"work", "schedules"}
    BY <2>1, <2>2, <2>5 DEF Good, Heard
  <2>6. \A c \in Backends \ {b} : drv'[c] = drv[c]
    <3> DEFINE s == [NoSession EXCEPT !.io = "clear"]
    <3>1. GoodSession(s) /\ CommitOver(b, s, FALSE)
      BY <1>2, StopGood DEF IdleFires, Commit
    <3> HIDE DEF s
    <3> QED
      BY <3>1, CommitFacts
  <2> QED
    BY <2>4, <2>5, <2>6 DEF Idles
<1> QED
  BY <1>1, <1>2

\* It leaves the drivers of the other backends alone.
LEMMA IdleLeaves ==
  ASSUME IInv, NEW b \in Backends, IdleFires(b), NEW c \in Backends \ {b}
  PROVE  drv'[c] = drv[c]
<1>1. drv \in [Backends -> SessionType]
  BY DEF IInv, ProcessTyped
<1>2. PICK s : drv' = [drv EXCEPT ![b] = Quiet(s)]
  BY DEF IdleFires, Commit, CommitOver
<1> QED
  BY <1>1, <1>2

\* The idle stop ends no answer to a message; of the turns the CLI opens by itself, only
\* one the manager has read nothing of (maybeScheduleIdleStop goes by isTurnInFlight).
THEOREM IdleStopSpares == ChatSpec => IdleStopKillsNoWork
<1>1. IInv /\ Connection(conn) /\ [ChatNext]_chatVars =>
        [\A b \in Backends :
            /\ drv[b].child = "up" /\ drv'[b].child = "none"
            /\ bk'[b] = "up" /\ paused' = paused
            => Idles(b)]_vars
  <2> SUFFICES ASSUME IInv, Connection(conn), [ChatNext]_chatVars,
                      NEW b \in Backends, drv[b].child = "up", drv'[b].child = "none",
                      bk'[b] = "up", paused' = paused
               PROVE  Idles(b)
    OBVIOUS
  <2>0. drv \in [Backends -> SessionType] /\ bk \in [Backends -> {"off", "up", "stopping", "gone"}]
    BY DEF IInv, ProcessTyped, Homes
  <2>1. ~NoneCloses
    BY DEF NoneCloses, Open
  <2>2. PICK c \in Backends : \/ IdleFires(c) \/ Pause(c) \/ Sigterm(c) \/ Sigkill(c)
                              \/ DriverClosed(c)
    BY <2>1, WhatCloses
  <2>3. CASE IdleFires(c)
    <3>1. CASE c = b
      BY <2>1, <2>3, <3>1, IdleFinds
    <3>2. CASE c # b
      BY <2>3, <3>2, IdleLeaves
    <3> QED
      BY <3>1, <3>2
  <2>4. CASE Pause(c)
    BY <2>4 DEF Pause
  <2>5. CASE Sigterm(c) \/ Sigkill(c)
    <3>1. drv' = [drv EXCEPT ![c] = NoSession] /\ bk'[c] # "up"
      BY <2>0, <2>5 DEF Sigterm, Sigkill, Dies
    <3>2. b # c
      BY <3>1
    <3> QED
      BY <2>0, <3>1, <3>2
  <2>6. CASE DriverClosed(c)
    <3>1. drv' = [drv EXCEPT ![c] = NoSession] /\ drv[c].child = "exited"
      BY <2>6 DEF DriverClosed
    <3> QED
      BY <2>0, <3>1
  <2> QED
    BY <2>2, <2>3, <2>4, <2>5, <2>6
<1>2. IdleStopKillsNoWork <=>
        [][\A b \in Backends :
            /\ drv[b].child = "up" /\ drv'[b].child = "none"
            /\ bk'[b] = "up" /\ paused' = paused
            => Idles(b)]_vars
  BY DEF IdleStopKillsNoWork, Idles
<1> QED
  BY <1>1, <1>2, Invariant, PTL DEF ChatSpec

\* A resume never starts beside a turn that runs in another live backend, but for one
\* that began since the task's last look: what it resumes was the turn of the file then,
\* and the file is that of the driver that runs one (orphanedMarker, conversationMovedOn).
THEOREM NoTwinResume == ChatSpec => NoTwin
<1>1. IInv => \A t \in Tasks, c \in Backends :
          t[1] # c /\ resume[t].pc = "inject" /\ isTurnInFlight(drv[c])
          => crossed \/ miscount[c] \/ drv[c].marker.at > resume[t].seen
  <2> SUFFICES ASSUME IInv, NEW t \in Tasks, NEW c \in Backends, t[1] # c,
                      resume[t].pc = "inject", isTurnInFlight(drv[c]),
                      ~crossed, ~miscount[c]
               PROVE  drv[c].marker.at > resume[t].seen
    BY DEF IInv, Promise, DiskGood, ProcessTyped
  <2>1. drv[c].marker # NoMarker
    BY DriverFacts DEF Sound, Followed, turnRunning
  <2> QED
    BY <2>1 DEF IInv, Promise, Aimed
<1>2. IInv /\ Connection(conn) =>
        [\A t \in Tasks, c \in Backends :
            /\ t[1] # c /\ resume[t].pc = "inject" /\ resume'[t].pc = "none"
            /\ drv[t[1]].watch = "none" /\ drv'[t[1]].watch = "fresh"
            /\ bk[c] = "up" /\ isTurnInFlight(drv[c])
            => crossed \/ miscount[c] \/ drv[c].marker.at > resume[t].seen]_vars
  BY <1>1
<1> QED
  BY <1>2, Invariant, PTL DEF NoTwin
=============================================================================

------------------------- MODULE BrowserSlotsProofs -------------------------
(***************************************************************************)
(* Machine-checked proofs about BrowserSlots, for every slot space, every  *)
(* set of ids and every hash of them: slots of different cards differ      *)
(* unless they ran out, and a browser runs where its card's stop aims.     *)
(***************************************************************************)
EXTENDS BrowserSlots, TLAPS, FiniteSetTheorems

USE SlotSpaceAssumption, PreferredAssumption, NoCardAssumption, NoSlotAssumption,
    MaxFaultsAssumption

-----------------------------------------------------------------------------
(* The allocation.                                                         *)

\* A set of slots that is not empty has a lowest one: the one with the fewest
\* numbers below it, and strict inclusion of finite sets is well-founded.
LEMMA LowestSlot ==
  ASSUME NEW S \in SUBSET Slots, S # {}
  PROVE  \E s \in S : \A t \in S : s <= t
<1> DEFINE R == StrictSubsetOrdering(Nat)
           T == {0 .. s : s \in S}
<1>1. S \subseteq Nat
  BY DEF Slots
<1>2. \A s \in S : IsFiniteSet(0 .. s)
  BY <1>1, FS_Interval
<1>3. T \subseteq FiniteSubsetsOf(Nat) /\ T # {}
  <2>1. \A s \in S : 0 .. s \in SUBSET Nat
    BY <1>1
  <2> QED
    BY <1>2, <2>1 DEF FiniteSubsetsOf
<1>4. \E x \in T : \A y \in T : ~ (<<y, x>> \in R)
  <2>1. IsWellFoundedOn(R, FiniteSubsetsOf(Nat))
    BY FS_StrictSubsetOrderingWellFounded
  <2> HIDE DEF R, T
  <2> QED
    BY <1>3, <2>1, WFMin
<1>5. PICK s \in S : \A t \in S : ~ (<<0 .. t, 0 .. s>> \in R)
  BY <1>4
<1>6. ASSUME NEW t \in S, t < s PROVE FALSE
  <2>1. 0 .. t \subseteq 0 .. s /\ s \in 0 .. s /\ s \notin 0 .. t
    BY <1>1, <1>6
  <2>2. 0 .. t \in SUBSET Nat /\ 0 .. s \in SUBSET Nat
    BY <1>1
  <2>3. <<0 .. t, 0 .. s>> \in R
    BY <2>1, <2>2 DEF StrictSubsetOrdering
  <2> QED
    BY <1>5, <2>3
<1> QED
  BY <1>1, <1>6

\* allocateBrowserSlot returns a slot, and a free one while there is one.
LEMMA AllocateFree ==
  ASSUME NEW c \in Cards, NEW taken
  PROVE  /\ Allocate(c, taken) \in Slots
         /\ ~(Slots \subseteq taken) => Allocate(c, taken) \notin taken
<1>1. Preferred[c] \in Slots
  BY DEF Slots
<1>2. CASE Preferred[c] \notin taken \/ Slots \subseteq taken
  BY <1>1, <1>2 DEF Allocate
<1>3. CASE ~(Preferred[c] \notin taken \/ Slots \subseteq taken)
  <2>1. \E s \in Slots \ taken : \A t \in Slots \ taken : s <= t
    BY <1>3, LowestSlot
  <2>2. Allocate(c, taken) \in Slots \ taken
    BY <1>3, <2>1 DEF Allocate
  <2> QED
    BY <2>2
<1> QED
  BY <1>2, <1>3

-----------------------------------------------------------------------------
(* The inductive invariant.                                                *)

\* Whatever still acts for a card, on the board, held or adrift, acts for one
\* that was allocated a slot, and all but a script adrift for one whose slot
\* is in the port table.
Known ==
  /\ onBoard \union held \union starting \subseteq table
  /\ \A r \in Requests : request[r].kind # "off" => request[r].card \in table
  /\ \A c \in table \union adrift : slotOf[c] \in Slots
  /\ \A s \in Slots : running[s] \in Cards => slotOf[running[s]] \in Slots

Inv == TypeOK /\ Known /\ DistinctSlots /\ StopsAimRight

\* An empty board satisfies it.
LEMMA Initially == Init => Inv
  BY DEF Init, Inv, TypeOK, Known, DistinctSlots, StopsAimRight, NoRequest, NoSweep, Taken

\* The faults stay within their bound.
LEMMA FaultsBounded ==
  ASSUME faults \in 0 .. MaxFaults, Fault PROVE faults' \in 0 .. MaxFaults
  BY DEF Fault

\* A stop for a card in the table only empties a slot.
LEMMA StopKeeps ==
  ASSUME Inv, NEW c \in Cards, Stopped(c) \/ NotStopped(c),
         UNCHANGED <<board, starting>>,
         request' \in [Requests -> [kind : {"off", "open", "close"}, card : Cards \union {NoCard}]],
         \A r \in Requests : request'[r].kind # "off" => request'[r] = request[r],
         purge' \in [Cards -> {"off", "stop", "remove", "remove stopped", "release"}],
         sweep' \in [todo : SUBSET Cards, stopped : Cards \union {NoCard}]
  PROVE  Inv'
<1> USE DEF board
<1>1. /\ running' \in [Slots -> Cards \union {NoCard}]
      /\ \A s \in Slots : running'[s] \in {running[s], NoCard}
  BY DEF Stopped, NotStopped, Inv, TypeOK
<1>2. adrift' = adrift /\ faults' \in 0 .. MaxFaults
  BY FaultsBounded DEF Stopped, NotStopped, Inv, TypeOK
<1>3. TypeOK'
  BY <1>1, <1>2 DEF Inv, TypeOK
<1>4. Known'
  BY <1>1, <1>2 DEF Inv, TypeOK, Known
<1>5. DistinctSlots'
  BY DEF Inv, DistinctSlots
<1>6. StopsAimRight'
  <2> SUFFICES ASSUME NEW s \in Slots, running'[s] \in onBoard' \union held'
               PROVE  PortsOf(running[s])' = s
    BY DEF StopsAimRight
  <2>1. running'[s] = running[s]
    BY <1>1 DEF Inv, TypeOK
  <2>2. PortsOf(running[s]) = s
    BY <2>1 DEF Inv, StopsAimRight
  <2> QED
    BY <2>1, <2>2 DEF PortsOf
<1> QED
  BY <1>3, <1>4, <1>5, <1>6 DEF Inv

\* A launch puts a known card's browser on the slot it was allocated.
LEMMA LaunchKeeps ==
  ASSUME Inv, NEW c \in Cards, slotOf[c] \in Slots, Launch(c, slotOf[c]),
         UNCHANGED <<board, request, purge, sweep, faults>>,
         starting' \in SUBSET starting, adrift' \in SUBSET adrift
  PROVE  Inv'
<1> USE DEF board
<1>1. /\ running' \in [Slots -> Cards \union {NoCard}]
      /\ \A s \in Slots : running'[s] = running[s] \/ (s = slotOf[c] /\ running'[s] = c)
  BY DEF Launch, Inv, TypeOK
<1>2. TypeOK'
  BY <1>1 DEF Inv, TypeOK
<1>3. Known'
  BY <1>1 DEF Inv, TypeOK, Known
<1>4. DistinctSlots'
  BY DEF Inv, DistinctSlots
<1>5. StopsAimRight'
  <2> SUFFICES ASSUME NEW s \in Slots, running'[s] \in onBoard \union held
               PROVE  PortsOf(running[s])' = s
    BY DEF StopsAimRight
  <2>1. running'[s] \in table
    BY DEF Inv, Known
  <2>2. CASE running'[s] = running[s]
    BY <2>2 DEF Inv, StopsAimRight, PortsOf
  <2>3. CASE s = slotOf[c] /\ running'[s] = c
    BY <2>1, <2>3 DEF PortsOf
  <2> QED
    BY <1>1, <2>2, <2>3
<1> QED
  BY <1>2, <1>3, <1>4, <1>5 DEF Inv

\* Taking cards off the board with their slots held, or releasing a hold,
\* leaves no more cards on a slot than before.
LEMMA FewerKeeps ==
  ASSUME Inv,
         onBoard' \in SUBSET Cards, held' \in SUBSET Cards,
         onBoard' \union held' \subseteq onBoard \union held,
         UNCHANGED <<slotOf, crowded, table, runner, request, starting, faults>>,
         purge' \in [Cards -> {"off", "stop", "remove", "remove stopped", "release"}],
         sweep' \in [todo : SUBSET Cards, stopped : Cards \union {NoCard}]
  PROVE  Inv'
<1> USE DEF runner
<1>1. TypeOK'
  BY DEF Inv, TypeOK
<1>2. Known'
  BY DEF Inv, TypeOK, Known
<1>3. DistinctSlots'
  BY DEF Inv, DistinctSlots
<1>4. StopsAimRight'
  BY DEF Inv, StopsAimRight, PortsOf
<1> QED
  BY <1>1, <1>2, <1>3, <1>4 DEF Inv

\* A new card takes a free slot, and no browser answers to its id yet.
LEMMA CreateKeeps == ASSUME Inv, NEW c \in Cards, CreateCard(c) PROVE Inv'
<1> DEFINE a == Allocate(c, Taken)
<1>1. a \in Slots /\ (Slots \subseteq Taken \/ a \notin Taken)
  BY AllocateFree
<1>2. /\ slotOf' = [slotOf EXCEPT ![c] = a] /\ slotOf[c] \notin Slots
      /\ onBoard' = onBoard \union {c} /\ table' = table \union {c}
      /\ crowded' = IF Slots \subseteq Taken THEN crowded \union {c} ELSE crowded
      /\ held' = held /\ running' = running /\ adrift' = adrift
      /\ UNCHANGED <<request, starting, purge, sweep, faults>>
  BY DEF CreateCard, runner, Slots
<1> HIDE DEF a
<1>3. /\ slotOf'[c] = a
      /\ \A d \in Cards : d # c => slotOf'[d] = slotOf[d]
      /\ c \notin table /\ c \notin adrift
      /\ \A s \in Slots : running[s] # c
  BY <1>1, <1>2 DEF Inv, TypeOK, Known
<1>4. TypeOK'
  BY <1>1, <1>2 DEF Inv, TypeOK
<1>5. Known'
  BY <1>1, <1>2, <1>3 DEF Inv, TypeOK, Known
<1>6. DistinctSlots'
  <2>1. ASSUME NEW d \in onBoard \union held, a = slotOf[d] PROVE c \in crowded'
    BY <1>1, <1>2, <2>1 DEF Taken
  <2>2. /\ onBoard' \union held' = onBoard \union held \union {c}
        /\ crowded \subseteq crowded' /\ onBoard \union held \subseteq Cards
    BY <1>2 DEF Inv, TypeOK
  <2> SUFFICES ASSUME NEW x \in onBoard \union held \union {c},
                      NEW y \in onBoard \union held \union {c},
                      slotOf'[x] = slotOf'[y], x # y
               PROVE  x \in crowded' \/ y \in crowded'
    BY <2>2 DEF DistinctSlots
  <2>3. CASE x = c \/ y = c
    BY <1>3, <2>1, <2>2, <2>3
  <2>4. CASE x # c /\ y # c
    BY <1>3, <2>2, <2>4 DEF Inv, DistinctSlots
  <2> QED
    BY <2>3, <2>4
<1>7. StopsAimRight'
  BY <1>2, <1>3 DEF Inv, TypeOK, StopsAimRight, PortsOf
<1> QED
  BY <1>4, <1>5, <1>6, <1>7 DEF Inv

\* A fault that changes nothing but the starts in flight and the scripts that
\* are adrift: both only hold cards that were in the table.
LEMMA StartFailsKeeps == ASSUME Inv, NEW c \in Cards, StartFails(c) PROVE Inv'
<1> USE DEF board
<1>1. /\ faults' \in 0 .. MaxFaults /\ adrift' \subseteq adrift \union starting
      /\ starting' \subseteq starting
      /\ UNCHANGED <<board, running, request, purge, sweep>>
  BY FaultsBounded DEF StartFails, Inv, TypeOK
<1>2. TypeOK'
  BY <1>1 DEF Inv, TypeOK
<1>3. Known'
  BY <1>1 DEF Inv, TypeOK, Known
<1>4. DistinctSlots' /\ StopsAimRight'
  BY <1>1 DEF Inv, DistinctSlots, StopsAimRight, PortsOf
<1> QED
  BY <1>2, <1>3, <1>4 DEF Inv

\* A restart forgets the table, and the load reports every card and every hold
\* to it: this is where StopsAimRight needs Reported to name the holds.
LEMMA CrashKeeps == ASSUME Inv, Crash PROVE Inv'
<1>1. /\ faults' \in 0 .. MaxFaults
      /\ request' = [r \in Requests |-> NoRequest] /\ starting' = {}
      /\ adrift' = adrift \union starting /\ purge' = [c \in Cards |-> "off"]
      /\ sweep' = NoSweep /\ table' = onBoard \union held
      /\ UNCHANGED <<onBoard, slotOf, held, crowded, running>>
  BY FaultsBounded DEF Crash, Reported, Inv, TypeOK
<1>2. TypeOK'
  BY <1>1 DEF Inv, TypeOK, NoRequest, NoSweep
<1>3. Known'
  BY <1>1 DEF Inv, TypeOK, Known, NoRequest
<1>4. DistinctSlots'
  BY <1>1 DEF Inv, DistinctSlots
<1>5. StopsAimRight'
  BY <1>1 DEF Inv, Known, StopsAimRight, PortsOf
<1> QED
  BY <1>2, <1>3, <1>4, <1>5 DEF Inv

\* The steps that touch no slot, no hold and no browser.
LEMMA BackendKeeps ==
  ASSUME Inv,
         UNCHANGED <<board, runner, faults>>,
         request' \in [Requests -> [kind : {"off", "open", "close"}, card : Cards \union {NoCard}]],
         \A r \in Requests : request'[r].kind # "off" => request'[r].card \in table,
         starting' \in SUBSET Cards, starting' \subseteq table,
         purge' \in [Cards -> {"off", "stop", "remove", "remove stopped", "release"}],
         sweep' \in [todo : SUBSET Cards, stopped : Cards \union {NoCard}]
  PROVE  Inv'
<1> USE DEF board, runner
<1>1. TypeOK'
  BY DEF Inv, TypeOK
<1>2. Known'
  BY DEF Inv, TypeOK, Known
<1>3. DistinctSlots' /\ StopsAimRight'
  BY DEF Inv, DistinctSlots, StopsAimRight, PortsOf
<1> QED
  BY <1>1, <1>2, <1>3 DEF Inv

-----------------------------------------------------------------------------
(* The steps.                                                              *)

\* A start script ends, or launches its browser after it was given up.
LEMMA StartKeeps ==
  ASSUME Inv, NEW c \in Cards, StartDone(c) \/ StartFails(c) \/ LaunchLate(c)
  PROVE  Inv'
<1>1. CASE StartDone(c)
  <2>1. c \in table /\ slotOf[c] \in Slots /\ PortsOf(c) = slotOf[c]
    BY <1>1 DEF StartDone, Inv, Known, PortsOf
  <2>2. Launch(c, slotOf[c]) /\ starting' \in SUBSET starting /\ adrift' \in SUBSET adrift
    BY <1>1, <2>1 DEF StartDone
  <2>3. UNCHANGED <<board, request, purge, sweep, faults>>
    BY <1>1 DEF StartDone
  <2> QED
    BY <2>1, <2>2, <2>3, LaunchKeeps
<1>2. CASE StartFails(c)
  BY <1>2, StartFailsKeeps
<1>3. CASE LaunchLate(c)
  <2>1. slotOf[c] \in Slots
    BY <1>3 DEF LaunchLate, Inv, Known
  <2>2. /\ Launch(c, slotOf[c]) /\ starting' \in SUBSET starting /\ adrift' \in SUBSET adrift
        /\ UNCHANGED <<board, request, purge, sweep, faults>>
    BY <1>3 DEF LaunchLate
  <2> QED
    BY <2>1, <2>2, LaunchKeeps
<1> QED
  BY <1>1, <1>2, <1>3

\* A request opens or closes a browser, or has just found its card.
LEMMA RequestKeeps ==
  ASSUME Inv, NEW r \in Requests,
         OpenBrowser(r) \/ CloseBrowser(r) \/ \E c \in Cards : Resolve(r, c)
  PROVE  Inv'
<1>1. CASE OpenBrowser(r)
  <2>1. /\ UNCHANGED <<board, runner, purge, sweep, faults>>
        /\ starting' = starting \union {request[r].card}
        /\ request' = [request EXCEPT ![r] = NoRequest]
    BY <1>1 DEF OpenBrowser
  <2>2. request[r].card \in table /\ table \subseteq Cards
    BY <1>1 DEF OpenBrowser, Inv, TypeOK, Known
  <2>3. /\ request' \in [Requests -> [kind : {"off", "open", "close"}, card : Cards \union {NoCard}]]
        /\ \A q \in Requests : request'[q].kind # "off" => request'[q].card \in table
    BY <2>1 DEF Inv, TypeOK, Known, NoRequest
  <2>4. /\ starting' \in SUBSET Cards /\ starting' \subseteq table
        /\ purge' \in [Cards -> {"off", "stop", "remove", "remove stopped", "release"}]
        /\ sweep' \in [todo : SUBSET Cards, stopped : Cards \union {NoCard}]
    <3>1. starting' = starting \union {request[r].card} /\ purge' = purge /\ sweep' = sweep
      BY <1>1 DEF OpenBrowser
    <3>2. starting \subseteq table
      BY DEF Inv, Known
    <3>3. starting' \in SUBSET Cards /\ starting' \subseteq table
      BY <2>2, <3>1, <3>2
    <3> QED
      BY <3>1, <3>3 DEF Inv, TypeOK
  <2> QED
    BY <2>1, <2>3, <2>4, BackendKeeps
<1>2. CASE CloseBrowser(r)
  <2>1. /\ Stopped(request[r].card) \/ NotStopped(request[r].card)
        /\ request[r].card \in Cards
        /\ request' = [request EXCEPT ![r] = NoRequest]
        /\ UNCHANGED <<board, starting, purge, sweep>>
    BY <1>2 DEF CloseBrowser, Inv, TypeOK
  <2>2. request' \in [Requests -> [kind : {"off", "open", "close"}, card : Cards \union {NoCard}]]
    BY <2>1 DEF Inv, TypeOK, NoRequest
  <2>3. \A q \in Requests : request'[q].kind # "off" => request'[q] = request[q]
    BY <2>1 DEF Inv, TypeOK, NoRequest
  <2>4. /\ purge' \in [Cards -> {"off", "stop", "remove", "remove stopped", "release"}]
        /\ sweep' \in [todo : SUBSET Cards, stopped : Cards \union {NoCard}]
    BY <2>1 DEF Inv, TypeOK
  <2> QED
    BY <2>1, <2>2, <2>3, <2>4, StopKeeps
<1>3. ASSUME NEW c \in Cards, Resolve(r, c) PROVE Inv'
  <2>1. PICK kind \in {"open", "close"} : request' = [request EXCEPT ![r] = [kind |-> kind, card |-> c]]
    BY <1>3 DEF Resolve
  <2>2. c \in table /\ UNCHANGED <<board, runner, starting, purge, sweep, faults>>
    BY <1>3 DEF Resolve, Inv, Known
  <2>3. /\ request' \in [Requests -> [kind : {"off", "open", "close"}, card : Cards \union {NoCard}]]
        /\ \A q \in Requests : request'[q].kind # "off" => request'[q].card \in table
    BY <2>1, <2>2 DEF Inv, TypeOK, Known
  <2>4. /\ starting' \in SUBSET Cards /\ starting' \subseteq table
        /\ purge' \in [Cards -> {"off", "stop", "remove", "remove stopped", "release"}]
        /\ sweep' \in [todo : SUBSET Cards, stopped : Cards \union {NoCard}]
    <3>1. starting' = starting /\ purge' = purge /\ sweep' = sweep
      BY <1>3 DEF Resolve
    <3> QED
      BY <3>1 DEF Inv, TypeOK, Known
  <2> QED
    BY <2>2, <2>3, <2>4, BackendKeeps
<1> QED
  BY <1>1, <1>2, <1>3

\* Purging a card, a project, and the sweep over the holds.
LEMMA PurgeKeeps ==
  ASSUME Inv, NEW c \in Cards,
         \/ PurgeCard(c) \/ PurgeStop(c) \/ PurgeRemove(c) \/ PurgeRelease(c)
         \/ SweepStop(c)
  PROVE  Inv'
<1> USE DEF board
<1>0. /\ purge \in [Cards -> {"off", "stop", "remove", "remove stopped", "release"}]
      /\ sweep \in [todo : SUBSET Cards, stopped : Cards \union {NoCard}]
      /\ request \in [Requests -> [kind : {"off", "open", "close"}, card : Cards \union {NoCard}]]
      /\ onBoard \in SUBSET Cards /\ held \in SUBSET Cards
  BY DEF Inv, TypeOK
<1>1. CASE PurgeCard(c)
  <2>1. /\ purge' = [purge EXCEPT ![c] = "stop"]
        /\ UNCHANGED <<onBoard, held, slotOf, crowded, table, runner, request, starting, sweep, faults>>
    BY <1>1 DEF PurgeCard
  <2>2. purge' \in [Cards -> {"off", "stop", "remove", "remove stopped", "release"}]
    BY <1>0, <2>1
  <2> QED
    BY <1>0, <2>1, <2>2, FewerKeeps
<1>2. CASE PurgeStop(c)
  <2>1. /\ Stopped(c) \/ NotStopped(c)
        /\ UNCHANGED <<board, request, starting, sweep>>
    BY <1>2 DEF PurgeStop
  <2>2. purge' \in [Cards -> {"off", "stop", "remove", "remove stopped", "release"}]
    BY <1>0, <1>2 DEF PurgeStop
  <2> QED
    BY <1>0, <2>1, <2>2, StopKeeps
<1>3. CASE PurgeRemove(c)
  <2>1. /\ onBoard' = onBoard \ {c} /\ held' = held \union ({c} \intersect onBoard)
        /\ purge' = [purge EXCEPT ![c] = IF @ = "remove" THEN "off" ELSE "release"]
        /\ UNCHANGED <<slotOf, crowded, table, runner, request, starting, sweep, faults>>
    BY <1>3 DEF PurgeRemove, Remove
  <2>2. purge' \in [Cards -> {"off", "stop", "remove", "remove stopped", "release"}]
    BY <1>0, <2>1
  <2> QED
    BY <1>0, <2>1, <2>2, FewerKeeps
<1>4. CASE PurgeRelease(c)
  <2>1. /\ onBoard' = onBoard /\ held' = held \ {c}
        /\ purge' = [purge EXCEPT ![c] = "off"]
        /\ UNCHANGED <<slotOf, crowded, table, runner, request, starting, sweep, faults>>
    BY <1>4 DEF PurgeRelease, Release
  <2>2. purge' \in [Cards -> {"off", "stop", "remove", "remove stopped", "release"}]
    BY <1>0, <2>1
  <2> QED
    BY <1>0, <2>1, <2>2, FewerKeeps
<1>5. CASE SweepStop(c)
  <2>1. /\ Stopped(c) \/ NotStopped(c)
        /\ UNCHANGED <<board, request, starting, purge>>
    BY <1>5 DEF SweepStop
  <2>2. sweep' \in [todo : SUBSET Cards, stopped : Cards \union {NoCard}]
    <3>1. \/ sweep' = [todo |-> sweep.todo \ {c}, stopped |-> c]
          \/ sweep' = [todo |-> sweep.todo \ {c}, stopped |-> NoCard]
      BY <1>5 DEF SweepStop
    <3>2. sweep.todo \ {c} \in SUBSET Cards
      BY <1>0
    <3> QED
      BY <3>1, <3>2
  <2> QED
    BY <1>0, <2>1, <2>2, StopKeeps
<1> QED
  BY <1>1, <1>2, <1>3, <1>4, <1>5

\* A project goes with all its cards.
LEMMA ProjectKeeps == ASSUME Inv, NEW S \in SUBSET Cards, RemoveProject(S) PROVE Inv'
<1>1. /\ onBoard' = onBoard \ S /\ held' = held \union (S \intersect onBoard)
      /\ purge' = [c \in Cards |-> IF c \in S /\ purge[c] = "off" THEN "stop" ELSE purge[c]]
      /\ UNCHANGED <<slotOf, crowded, table, runner, request, starting, sweep, faults>>
  BY DEF RemoveProject, Remove
<1>2. /\ purge' \in [Cards -> {"off", "stop", "remove", "remove stopped", "release"}]
      /\ sweep' \in [todo : SUBSET Cards, stopped : Cards \union {NoCard}]
      /\ onBoard' \in SUBSET Cards /\ held' \in SUBSET Cards
  BY <1>1 DEF Inv, TypeOK
<1> QED
  BY <1>1, <1>2, FewerKeeps

\* The sweep begins, or gives a slot back.
LEMMA HoldSweepKeeps == ASSUME Inv, SweepBegin \/ SweepRelease PROVE Inv'
<1> USE DEF board
<1>1. /\ onBoard' = onBoard /\ held' \in SUBSET held
      /\ UNCHANGED <<slotOf, crowded, table, runner, request, starting, purge, faults>>
  BY DEF SweepBegin, SweepRelease, Release
<1>2. sweep' \in [todo : SUBSET Cards, stopped : Cards \union {NoCard}]
  BY DEF SweepBegin, SweepRelease, NoSweep, Inv, TypeOK
<1>3. /\ purge' \in [Cards -> {"off", "stop", "remove", "remove stopped", "release"}]
      /\ onBoard' \in SUBSET Cards /\ held' \in SUBSET Cards
  BY <1>1 DEF Inv, TypeOK
<1> QED
  BY <1>1, <1>2, <1>3, FewerKeeps

-----------------------------------------------------------------------------
(* The theorems.                                                           *)

\* Every step keeps the invariant.
LEMMA StepKeeps == Inv /\ [Next]_vars => Inv'
<1> SUFFICES ASSUME Inv, [Next]_vars PROVE Inv'
  OBVIOUS
<1>1. ASSUME NEW c \in Cards, CreateCard(c) PROVE Inv'
  BY <1>1, CreateKeeps
<1>2. ASSUME NEW c \in Cards, StartDone(c) \/ StartFails(c) \/ LaunchLate(c) PROVE Inv'
  BY <1>2, StartKeeps
<1>3. ASSUME NEW c \in Cards, PurgeCard(c) \/ PurgeStop(c) \/ PurgeRemove(c) \/ PurgeRelease(c)
      PROVE  Inv'
  BY <1>3, PurgeKeeps
<1>4. ASSUME NEW r \in Requests,
             OpenBrowser(r) \/ CloseBrowser(r) \/ \E c \in Cards : Resolve(r, c)
      PROVE  Inv'
  BY <1>4, RequestKeeps
<1>5. ASSUME NEW S \in SUBSET Cards, RemoveProject(S) PROVE Inv'
  BY <1>5, ProjectKeeps
<1>6. CASE SweepBegin \/ SweepStep
  BY <1>6, HoldSweepKeeps, PurgeKeeps DEF SweepStep
<1>7. CASE Crash
  BY <1>7, CrashKeeps
<1>8. CASE UNCHANGED vars
  <2>1. /\ onBoard' = onBoard /\ held' = held
        /\ UNCHANGED <<slotOf, crowded, table, runner, request, starting, faults>>
        /\ purge' = purge /\ sweep' = sweep
    BY <1>8 DEF vars, board
  <2>2. /\ onBoard' \in SUBSET Cards /\ held' \in SUBSET Cards
        /\ purge' \in [Cards -> {"off", "stop", "remove", "remove stopped", "release"}]
        /\ sweep' \in [todo : SUBSET Cards, stopped : Cards \union {NoCard}]
    BY <2>1 DEF Inv, TypeOK
  <2> QED
    BY <2>1, <2>2, FewerKeeps
<1> QED
  BY <1>1, <1>2, <1>3, <1>4, <1>5, <1>6, <1>7, <1>8 DEF Next

\* The invariant holds in every reachable state.
LEMMA InvHolds == Spec => []Inv
  BY Initially, StepKeeps, PTL DEF Spec

\* Every variable keeps its type, whatever the ids, the slots and the hash.
THEOREM TypeCorrect == Spec => []TypeOK
  BY InvHolds, PTL DEF Inv

\* allocateBrowserSlot never hands two cards, deleted ones that hold theirs
\* included, the same slot, but for a card created when none was left.
THEOREM SlotsAreDistinct == Spec => []DistinctSlots
  BY InvHolds, PTL DEF Inv

\* A browser of a card that is on the board or holds its slot runs where the
\* stop for that card aims: the port table agrees with where it was started,
\* through restarts, late launches and stops that fail.
THEOREM StopsAreAimedRight == Spec => []StopsAimRight
  BY InvHolds, PTL DEF Inv
=============================================================================

-------------------------- MODULE JsonStoreProofs --------------------------
(***************************************************************************)
(* Machine-checked proofs about JsonStore, for any number of processes,    *)
(* mutations and faults; and, for one backend over the file, that mutate() *)
(* is an update of a register (UpdateRegister), call after call.           *)
(***************************************************************************)
EXTENDS JsonStore, SequenceTheorems, TLAPS

USE NoDocAssumption, NoUpdateAssumption, MaxFaultsAssumption

-----------------------------------------------------------------------------
(* The inductive invariant.                                                *)

Running(p) == mutation[p].update
Dirty(p) == mutation[p].pc \in {"write", "renamed"}

\* The part of the type invariant that relates a mutation to its document.
PhaseOK(p) ==
  /\ mutation[p].pc = "off" <=> mutation[p].update = NoUpdate
  /\ mutation[p].pc \in {"check", "apply", "write", "renamed"} => cache[p] # NoDoc

\* No stamp anybody remembers is newer than the file's.
Bounded ==
  /\ file.stamp = 0 => file.content = {}
  /\ \A u \in Updates : entered[u] <= file.stamp
  /\ \A p \in Procs :
       /\ stamp[p] <= file.stamp /\ read[p].stamp <= file.stamp
       /\ mutation[p].begun <= file.stamp /\ mutation[p].made <= file.stamp

\* A process reads the file only while it has no cache.  Its cache is what it
\* knows to be on disk, but for the change of the mutation it is writing.
Cached ==
  \A p \in Procs :
    /\ cache[p] = NoDoc <=> saved[p] = NoDoc
    /\ read[p].pc # "off" => cache[p] = NoDoc
    /\ cache[p] # NoDoc => /\ saved[p] \subseteq cache[p]
                           /\ cache[p] \subseteq saved[p] \union
                                (IF Dirty(p) THEN {Running(p)} ELSE {})

\* A document read or written under a stamp has all that had entered the file
\* by then and is still there, and is the file while the stamp matches.
Sees(doc, s) ==
  /\ \A u \in file.content : entered[u] <= s => u \in doc
  /\ s = file.stamp => doc = file.content

Faithful ==
  \A p \in Procs :
    /\ cache[p] # NoDoc => Sees(saved[p], stamp[p])
    /\ read[p].pc = "land" => Sees(read[p].content, read[p].stamp)
    /\ mutation[p].pc = "renamed" => Sees(cache[p], mutation[p].made) /\ stamp[p] < mutation[p].made

\* A mutation that joined no read has a document at least as new as its start.
Fresh ==
  \A p \in Procs : ~mutation[p].joined =>
    /\ mutation[p].pc \in {"load", "apply", "write"} /\ cache[p] # NoDoc
         => mutation[p].begun <= stamp[p]
    /\ mutation[p].pc = "load" /\ read[p].pc \in {"content", "land"}
         => mutation[p].begun <= read[p].stamp

\* An update is in a queue or running in one place only.
Places ==
  /\ \A p, q \in Procs : Running(p) # NoUpdate /\ Running(p) = Running(q) => p = q
  /\ \A p, q \in Procs : \A i \in DOMAIN queue[p] : queue[p][i] # Running(q)
  /\ \A p, q \in Procs : \A i \in DOMAIN queue[p], j \in DOMAIN queue[q] :
       queue[p][i] = queue[q][j] => p = q /\ i = j
  /\ \A p \in Procs : Running(p) # NoUpdate => outcome[Running(p)] = "called"
  /\ \A p \in Procs : \A i \in DOMAIN queue[p] :
       queue[p][i] \in Updates /\ outcome[queue[p][i]] = "called"

\* What is in the file, or was read from it, entered it; and what entered it
\* was not refused to its caller.
Reached ==
  /\ \A u \in file.content : entered[u] > 0
  /\ \A p \in Procs : \A u \in read[p].content : entered[u] > 0
  /\ \A p \in Procs : cache[p] # NoDoc => \A u \in saved[p] : entered[u] > 0
  /\ \A p \in Procs : mutation[p].pc = "renamed" => \A u \in cache[p] : entered[u] > 0
  /\ \A u \in Updates : entered[u] > 0 =>
       \/ outcome[u] \in {"resolved", "unknown"}
       \/ /\ outcome[u] = "called"
          /\ \E p \in Procs : mutation[p].pc = "renamed" /\ Running(p) = u

IInv == TypeOK /\ Bounded /\ Cached /\ Faithful /\ Fresh /\ Places /\ Reached
-----------------------------------------------------------------------------
(* What the helpers of the actions do.                                     *)

\* Only the place of the mutation of p changes.
LEMMA GotoFacts ==
  ASSUME TypeOK, NEW p \in Procs, NEW step \in {"apply", "write", "load"}, Goto(p, step)
  PROVE  /\ mutation' \in [Procs -> MutationRecord]
         /\ mutation'[p].pc = step /\ mutation'[p].update = mutation[p].update
         /\ mutation'[p].begun = mutation[p].begun /\ mutation'[p].made = mutation[p].made
         /\ mutation'[p].joined = mutation[p].joined
         /\ \A q \in Procs : q # p => mutation'[q] = mutation[q]
<1>1. mutation[p] \in MutationRecord
  BY DEF TypeOK
<1>2. [mutation[p] EXCEPT !.pc = step] \in MutationRecord
  BY <1>1 DEF MutationRecord
<1> QED
  BY <1>1, <1>2 DEF Goto, TypeOK, MutationRecord

\* The mutation of p is over and its caller told.
LEMMA SettleFacts ==
  ASSUME TypeOK, NEW p \in Procs, mutation[p].pc # "off",
         NEW result \in {"resolved", "rejected"}, Settle(p, result)
  PROVE  /\ mutation' \in [Procs -> MutationRecord]
         /\ outcome' \in [Updates -> {"none", "called", "resolved", "rejected", "unknown"}]
         /\ mutation'[p] = NoMutation
         /\ \A q \in Procs : q # p => mutation'[q] = mutation[q]
         /\ Running(p) \in Updates
         /\ outcome'[Running(p)] = result
         /\ \A u \in Updates : u # Running(p) => outcome'[u] = outcome[u]
<1>1. NoMutation \in MutationRecord
  BY DEF NoMutation, MutationRecord
<1>2. Running(p) \in Updates
  BY DEF TypeOK, MutationRecord, Running
<1> QED
  BY <1>1, <1>2 DEF Settle, TypeOK, Running

\* p has no document.
LEMMA DropFacts ==
  ASSUME TypeOK, NEW p \in Procs, DropCache(p)
  PROVE  /\ cache' \in [Procs -> {NoDoc} \union Documents]
         /\ saved' \in [Procs -> {NoDoc} \union Documents]
         /\ stamp' \in [Procs -> Nat]
         /\ cache'[p] = NoDoc /\ saved'[p] = NoDoc /\ stamp'[p] = 0
         /\ \A q \in Procs : q # p =>
              cache'[q] = cache[q] /\ saved'[q] = saved[q] /\ stamp'[q] = stamp[q]
  BY DEF DropCache, TypeOK

\* A read of p is in flight, which had begun, or begins now.
LEMMA JoinFacts ==
  ASSUME TypeOK, NEW p \in Procs, JoinRead(p)
  PROVE  /\ read' \in [Procs -> ReadRecord]
         /\ read'[p] \in {read[p], [pc |-> "stat", stamp |-> 0, content |-> {}]}
         /\ read'[p].pc # "off"
         /\ read[p].pc # "off" => read'[p] = read[p]
         /\ \A q \in Procs : q # p => read'[q] = read[q]
<1>1. [NoRead EXCEPT !.pc = "stat"] = [pc |-> "stat", stamp |-> 0, content |-> {}]
  BY DEF NoRead
<1>2. [pc |-> "stat", stamp |-> 0, content |-> {}] \in ReadRecord
  BY DEF ReadRecord, Documents
<1> QED
  BY <1>1, <1>2 DEF JoinRead, TypeOK

\* Mutations end, or are answered, but none moves.
LEMMA PlacesKept ==
  ASSUME Places, UNCHANGED queue,
         \A q \in Procs : Running(q)' \in {Running(q), NoUpdate},
         \A q \in Procs : Running(q)' # NoUpdate
                            => outcome'[Running(q)] = outcome[Running(q)],
         \A q \in Procs : \A i \in DOMAIN queue[q] :
           outcome'[queue[q][i]] = outcome[queue[q][i]]
  PROVE  Places'
<1>1. \A q \in Procs : mutation'[q].update \in {mutation[q].update, NoUpdate}
  BY DEF Running
<1>2. \A q \in Procs : mutation'[q].update # NoUpdate
        => outcome'[mutation'[q].update] = outcome[mutation[q].update]
  BY <1>1 DEF Running
<1> USE DEF Places, Running
<1>3. \A p, q \in Procs :
        mutation'[p].update # NoUpdate /\ mutation'[p].update = mutation'[q].update => p = q
  BY <1>1
<1>4. \A p, q \in Procs : \A i \in DOMAIN queue[p] : queue[p][i] # mutation'[q].update
  BY <1>1
<1>5. \A p \in Procs : mutation'[p].update # NoUpdate
                         => outcome'[mutation'[p].update] = "called"
  BY <1>1, <1>2
<1>6. \A p \in Procs : \A i \in DOMAIN queue[p] :
        queue[p][i] \in Updates /\ outcome'[queue[p][i]] = "called"
  OBVIOUS
<1> QED
  BY <1>3, <1>4, <1>5, <1>6

\* The update of a mutation that is over was in one place only.
LEMMA PlacesSettled ==
  ASSUME TypeOK, Places, NEW p \in Procs, mutation[p].pc # "off",
         NEW result \in {"resolved", "rejected"}, Settle(p, result), UNCHANGED queue
  PROVE  Places'
<1>1. /\ mutation'[p] = NoMutation
      /\ \A q \in Procs : q # p => mutation'[q] = mutation[q]
      /\ \A u \in Updates : u # Running(p) => outcome'[u] = outcome[u]
  BY SettleFacts
<1>2. \A q \in Procs : Running(q) \in Updates \union {NoUpdate}
  BY DEF TypeOK, MutationRecord, Running
<1>3. \A q \in Procs : Running(q)' = IF q = p THEN NoUpdate ELSE Running(q)
  BY <1>1 DEF Running, NoMutation
<1>4. \A q \in Procs : Running(q)' # NoUpdate
        => outcome'[Running(q)] = outcome[Running(q)]
  BY <1>1, <1>2, <1>3 DEF Places
<1>5. \A q \in Procs : \A i \in DOMAIN queue[q] :
        outcome'[queue[q][i]] = outcome[queue[q][i]]
  BY <1>1 DEF Places
<1> QED
  BY <1>3, <1>4, <1>5, PlacesKept

\* No update moves when only the place of a mutation in its steps changes.
LEMMA PlacesUnmoved ==
  ASSUME Places, UNCHANGED <<queue, outcome>>,
         \A q \in Procs : mutation'[q].update = mutation[q].update
  PROVE  Places'
  BY PlacesKept DEF Running

-----------------------------------------------------------------------------
(* The steps.                                                              *)

\* A read begins.
LEMMA LoadKeeps ==
  ASSUME IInv, NEW p \in Procs, Load(p)
  PROVE  IInv'
<1>1. /\ read' \in [Procs -> ReadRecord]
      /\ \A q \in Procs : read'[q] \in {read[q], [pc |-> "stat", stamp |-> 0, content |-> {}]}
      /\ \A q \in Procs : q # p => read'[q] = read[q]
  BY JoinFacts DEF Load, IInv
<1>2. /\ UNCHANGED <<file, entered, cache, saved, stamp, queue, mutation, outcome, faults>>
      /\ cache[p] = NoDoc
  BY DEF Load, memory
<1>3. \A q \in Procs : \/ read'[q] = read[q]
                       \/ read'[q].pc = "stat" /\ read'[q].stamp = 0 /\ read'[q].content = {}
  BY <1>1
<1>4. TypeOK'
  BY <1>1, <1>2 DEF IInv, TypeOK
<1>5. Bounded'
  BY <1>2, <1>3 DEF IInv, TypeOK, Bounded
<1>6. Cached'
  BY <1>1, <1>2 DEF IInv, Cached, Dirty, Running
<1>7. Faithful'
  <2>1. \A doc, s : Sees(doc, s)' <=> Sees(doc, s)
    BY <1>2 DEF Sees
  <2> QED
    BY <1>2, <1>3, <2>1 DEF IInv, Faithful
<1>8. Fresh'
  BY <1>2, <1>3 DEF IInv, Fresh
<1>9. Places'
  BY <1>2, PlacesUnmoved DEF IInv
<1>10. Reached'
  BY <1>2, <1>3 DEF IInv, Reached, Running
<1> QED
  BY <1>4, <1>5, <1>6, <1>7, <1>8, <1>9, <1>10 DEF IInv

\* Reading touches no call, no file and no document but the one it lands.
LEMMA ReadKeeps ==
  ASSUME IInv, NEW p \in Procs, StatFile(p) \/ ReadContent(p) \/ LandRead(p)
  PROVE  IInv'
<1> USE DEF IInv, TypeOK, ReadRecord, Documents, memory, NoRead
<1>0. Places'
  BY PlacesUnmoved DEF StatFile, ReadContent, LandRead
<1>1. ASSUME StatFile(p) PROVE IInv'
  <2>1. TypeOK' /\ Bounded' /\ Cached'
    BY <1>1 DEF StatFile, Bounded, Cached, Dirty, Running
  <2>2. Faithful'
    BY <1>1 DEF StatFile, Faithful, Sees, Bounded
  <2>3. Fresh' /\ Reached'
    BY <1>1 DEF StatFile, Fresh, Reached, Bounded, Running
  <2> QED
    BY <1>0, <2>1, <2>2, <2>3
<1>2. ASSUME ReadContent(p) PROVE IInv'
  <2>1. TypeOK' /\ Bounded'
    BY <1>2 DEF ReadContent, Bounded
  <2>2. Cached' /\ Reached'
    BY <1>2 DEF ReadContent, Cached, Reached, Dirty, Running
  <2>3. Faithful'
    BY <1>2 DEF ReadContent, Faithful, Sees
  <2>4. Fresh'
    BY <1>2 DEF ReadContent, Fresh
  <2> QED
    BY <1>0, <2>1, <2>2, <2>3, <2>4
<1>3. ASSUME LandRead(p) PROVE IInv'
  <2>1. TypeOK' /\ Bounded'
    BY <1>3 DEF LandRead, Bounded
  <2>2. Cached'
    BY <1>3 DEF LandRead, Cached, Dirty, Running
  <2>3. Faithful'
    BY <1>3 DEF LandRead, Faithful, Sees, Cached
  <2>4. Fresh' /\ Reached'
    BY <1>3 DEF LandRead, Fresh, Reached, Cached, Running
  <2> QED
    BY <1>0, <2>1, <2>2, <2>3, <2>4
<1> QED
  BY <1>1, <1>2, <1>3

\* A call takes a place nobody has.
LEMMA MutateKeeps ==
  ASSUME IInv, NEW p \in Procs, NEW u \in Updates, Mutate(p, u)
  PROVE  IInv'
<1> USE DEF IInv, Mutate
<1>1. TypeOK'
  BY DEF TypeOK, memory
<1>2. Bounded' /\ Cached' /\ Fresh'
  BY DEF Bounded, Cached, Fresh, Dirty, Running, memory
<1>3. Faithful'
  BY DEF Faithful, Sees, memory
<1>4. Places'
  <2>1. /\ \A q \in Procs : q # p => queue'[q] = queue[q]
        /\ DOMAIN queue'[p] = 1 .. Len(queue[p]) + 1
        /\ queue'[p][Len(queue[p]) + 1] = u
        /\ DOMAIN queue[p] = 1 .. Len(queue[p])
        /\ \A i \in 1 .. Len(queue[p]) : queue'[p][i] = queue[p][i]
    BY DEF TypeOK
  <2>2. Len(queue[p]) \in Nat
    BY DEF TypeOK
  <2>3. \A i \in DOMAIN queue'[p] : i \in DOMAIN queue[p] \/ i = Len(queue[p]) + 1
    BY <2>1, <2>2
  <2>4. \A q \in Procs : Running(q) # u
    BY DEF Places, Running
  <2>5. \A q \in Procs : \A i \in DOMAIN queue[q] : queue[q][i] # u
    BY DEF Places
  <2>6. \A v \in Updates : v # u => outcome'[v] = outcome[v]
    BY DEF TypeOK
  <2>7. outcome'[u] = "called"
    BY DEF TypeOK
  <2>8. mutation' = mutation
    OBVIOUS
  <2> HIDE DEF IInv, Mutate
  <2>9. \A q \in Procs : \A i \in DOMAIN queue'[q] :
          \/ i \in DOMAIN queue[q] /\ queue'[q][i] = queue[q][i]
          \/ q = p /\ i = Len(queue[p]) + 1 /\ queue'[q][i] = u
    BY <2>1, <2>3
  <2>10. Places
    BY DEF IInv
  <2>11. \A q \in Procs : Running(q) \in Updates \union {NoUpdate}
    BY DEF IInv, TypeOK, MutationRecord, Running
  <2>12. \A q, r \in Procs : \A i \in DOMAIN queue'[q] : queue'[q][i] # Running(r)'
    BY <2>4, <2>8, <2>9, <2>10 DEF Places, Running
  <2>13. \A q, r \in Procs : \A i \in DOMAIN queue'[q], j \in DOMAIN queue'[r] :
           queue'[q][i] = queue'[r][j] => q = r /\ i = j
    BY <2>5, <2>9, <2>10 DEF Places
  <2>14. \A q \in Procs : \A i \in DOMAIN queue'[q] :
           queue'[q][i] \in Updates /\ outcome'[queue'[q][i]] = "called"
    BY <2>6, <2>7, <2>9, <2>10 DEF Places
  <2>15. \A q \in Procs : Running(q)' # NoUpdate => outcome'[Running(q)'] = "called"
    BY <2>4, <2>6, <2>8, <2>10, <2>11 DEF Places, Running
  <2> QED
    BY <2>8, <2>10, <2>12, <2>13, <2>14, <2>15 DEF Places, Running
<1>5. Reached'
  BY DEF TypeOK, Reached, Running, memory
<1> QED
  BY <1>1, <1>2, <1>3, <1>4, <1>5

\* The head of the queue becomes the running mutation.
LEMMA BeginKeeps ==
  ASSUME IInv, NEW p \in Procs, Begin(p)
  PROVE  IInv'
<1> DEFINE m == [pc |-> IF cache[p] = NoDoc THEN "load" ELSE "check",
                 update |-> Head(queue[p]), begun |-> file.stamp,
                 joined |-> read[p].pc # "off", made |-> 0]
<1>1. /\ queue[p] \in Seq(Updates) /\ queue[p] # <<>>
      /\ mutation[p].pc = "off"
      /\ UNCHANGED <<file, entered, memory, outcome, faults>>
      /\ queue' = [queue EXCEPT ![p] = Tail(@)]
      /\ mutation' = [mutation EXCEPT ![p] = m]
  BY DEF Begin, IInv, TypeOK
<1>2. /\ Head(queue[p]) \in Updates /\ Head(queue[p]) = queue[p][1]
      /\ Tail(queue[p]) \in Seq(Updates)
      /\ 1 \in DOMAIN queue[p]
      /\ \A i \in DOMAIN Tail(queue[p]) :
           i + 1 \in DOMAIN queue[p] /\ Tail(queue[p])[i] = queue[p][i + 1] /\ i + 1 # 1
  BY <1>1
<1>3. m \in MutationRecord
  BY <1>2 DEF MutationRecord, IInv, TypeOK
<1>4. /\ mutation' \in [Procs -> MutationRecord]
      /\ mutation'[p] = m
      /\ \A q \in Procs : q # p => mutation'[q] = mutation[q]
  BY <1>1, <1>3 DEF IInv, TypeOK
<1>5. /\ queue' \in [Procs -> Seq(Updates)]
      /\ queue'[p] = Tail(queue[p])
      /\ \A q \in Procs : q # p => queue'[q] = queue[q]
  BY <1>1, <1>2 DEF IInv, TypeOK
<1>6. /\ read' \in [Procs -> ReadRecord]
      /\ read'[p] \in {read[p], [pc |-> "stat", stamp |-> 0, content |-> {}]}
      /\ read[p].pc # "off" => read'[p] = read[p]
      /\ cache[p] # NoDoc => read'[p] = read[p]
      /\ \A q \in Procs : q # p => read'[q] = read[q]
  BY JoinFacts DEF Begin, IInv, TypeOK
<1> HIDE DEF m
<1>7. /\ m.pc \in {"load", "check"} /\ m.update = Head(queue[p])
      /\ m.pc = "check" <=> cache[p] # NoDoc
      /\ m.begun = file.stamp /\ m.joined = (read[p].pc # "off") /\ m.made = 0
  BY DEF m
<1>8. TypeOK'
  BY <1>1, <1>2, <1>4, <1>5, <1>6, <1>7 DEF IInv, TypeOK, memory
<1>9. Bounded'
  BY <1>1, <1>4, <1>6, <1>7 DEF IInv, TypeOK, Bounded, memory
<1>10. Cached'
  BY <1>1, <1>4, <1>6, <1>7 DEF IInv, TypeOK, Cached, Dirty, Running, memory
<1>11. Faithful'
  <2>1. \A q \in Procs : read'[q].pc = "land" => read'[q] = read[q]
    BY <1>6
  <2>2. \A q \in Procs : mutation'[q].pc = "renamed" => mutation'[q] = mutation[q]
    BY <1>4, <1>7
  <2>3. \A doc, s : Sees(doc, s)' <=> Sees(doc, s)
    BY <1>1 DEF Sees
  <2> QED
    BY <1>1, <2>1, <2>2, <2>3 DEF IInv, Faithful, memory
<1>12. Fresh'
  <2>1. /\ \A q \in Procs : q # p => read'[q] = read[q]
        /\ read'[p] = read[p] \/ read'[p].pc = "stat"
    BY <1>6
  <2>2. ASSUME NEW q \in Procs, q # p, ~mutation'[q].joined
        PROVE  /\ mutation'[q].pc \in {"load", "apply", "write"} /\ cache'[q] # NoDoc
                    => mutation'[q].begun <= stamp'[q]
               /\ mutation'[q].pc = "load" /\ read'[q].pc \in {"content", "land"}
                    => mutation'[q].begun <= read'[q].stamp
    BY <1>1, <1>4, <2>1, <2>2 DEF IInv, Fresh, memory
  <2>3. ASSUME ~mutation'[p].joined
        PROVE  /\ mutation'[p].pc = "load" => cache'[p] = NoDoc /\ read[p].pc = "off"
               /\ mutation'[p].pc \in {"load", "check"}
    BY <1>1, <1>4, <1>7, <2>3 DEF memory
  <2>4. ASSUME ~mutation'[p].joined
        PROVE  /\ ~(mutation'[p].pc \in {"load", "apply", "write"} /\ cache'[p] # NoDoc)
               /\ mutation'[p].pc = "load" => read'[p].pc \notin {"content", "land"}
    BY <2>1, <2>3, <2>4
  <2> QED
    BY <2>2, <2>4 DEF Fresh
<1>13. Places'
  <2>1. \A q \in Procs : Running(q)' = IF q = p THEN queue[p][1] ELSE Running(q)
    BY <1>2, <1>4, <1>7 DEF Running
  <2>2. \A q \in Procs : \A i \in DOMAIN queue'[q] : \E j \in DOMAIN queue[q] :
          /\ queue'[q][i] = queue[q][j]
          /\ j = IF q = p THEN i + 1 ELSE i
          /\ q = p => j # 1
    <3>1. ASSUME NEW i \in DOMAIN queue'[p]
          PROVE  i + 1 \in DOMAIN queue[p] /\ queue'[p][i] = queue[p][i + 1] /\ i + 1 # 1
      BY <1>2, <1>5
    <3> QED
      BY <1>5, <3>1
  <2>3. \A q \in Procs : \A i \in DOMAIN queue'[q] : i \in Nat
    BY <1>5
  <2> USE DEF Places
  <2>4. Places /\ outcome' = outcome
    BY <1>1 DEF IInv
  <2>5. \A q, r \in Procs : Running(q)' # NoUpdate /\ Running(q)' = Running(r)' => q = r
    BY <1>2, <2>1, <2>4
  <2>6. \A q, r \in Procs : \A i \in DOMAIN queue'[q] : queue'[q][i] # Running(r)'
    BY <1>2, <2>1, <2>2, <2>4
  <2>7. \A q, r \in Procs : \A i \in DOMAIN queue'[q], j \in DOMAIN queue'[r] :
          queue'[q][i] = queue'[r][j] => q = r /\ i = j
    BY <2>2, <2>3, <2>4
  <2>8. \A q \in Procs : Running(q)' # NoUpdate => outcome'[Running(q)'] = "called"
    BY <1>2, <2>1, <2>4
  <2>9. \A q \in Procs : \A i \in DOMAIN queue'[q] :
          queue'[q][i] \in Updates /\ outcome'[queue'[q][i]] = "called"
    BY <2>2, <2>4
  <2> QED
    BY <2>5, <2>6, <2>7, <2>8, <2>9
<1>14. Reached'
  <2>1. \A q \in Procs : read'[q].content \in {{}, read[q].content}
    BY <1>6
  <2>2. \A q \in Procs : mutation[q].pc = "renamed" => mutation'[q] = mutation[q]
    BY <1>1, <1>4
  <2>3. \A q \in Procs : mutation'[q].pc = "renamed"
          => mutation[q].pc = "renamed" /\ cache'[q] = cache[q]
    BY <1>1, <1>4, <1>7 DEF memory
  <2> QED
    BY <1>1, <2>1, <2>2, <2>3 DEF IInv, Reached, Running, memory
<1> QED
  BY <1>8, <1>9, <1>10, <1>11, <1>12, <1>13, <1>14 DEF IInv

\* A mutation goes on with the document it has.
LEMMA GotoKeeps ==
  ASSUME IInv, NEW p \in Procs, NEW step \in {"apply", "write"}, Goto(p, step),
         mutation[p].pc \in {"check", "load", "apply"}, cache[p] # NoDoc,
         mutation[p].pc = "check" => file.stamp = stamp[p],
         UNCHANGED <<file, entered, memory, read, queue, outcome, faults>>
  PROVE  IInv'
<1>1. UNCHANGED <<file, entered, cache, saved, stamp, read, queue, outcome, faults>>
  BY DEF memory
<1>2. /\ mutation' \in [Procs -> MutationRecord]
      /\ mutation'[p].pc = step /\ mutation'[p].update = mutation[p].update
      /\ mutation'[p].begun = mutation[p].begun /\ mutation'[p].made = mutation[p].made
      /\ mutation'[p].joined = mutation[p].joined
      /\ \A q \in Procs : q # p => mutation'[q] = mutation[q]
  BY GotoFacts DEF IInv
<1>3. TypeOK'
  <2>1. \A q \in Procs : PhaseOK(q)
    BY DEF IInv, TypeOK, PhaseOK
  <2>2. \A q \in Procs : PhaseOK(q)'
    BY <1>1, <1>2, <2>1 DEF PhaseOK
  <2> QED
    BY <1>1, <1>2, <2>2 DEF IInv, TypeOK, PhaseOK
<1>4. Bounded'
  BY <1>1, <1>2 DEF IInv, Bounded
<1>5. Cached'
  BY <1>1, <1>2 DEF IInv, Cached, Dirty, Running
<1>6. Faithful'
  <2>1. \A doc, s : Sees(doc, s)' <=> Sees(doc, s)
    BY <1>1 DEF Sees
  <2>2. \A q \in Procs : mutation'[q].pc = "renamed" => mutation'[q] = mutation[q]
    BY <1>2
  <2> QED
    BY <1>1, <2>1, <2>2 DEF IInv, Faithful
<1>7. Fresh'
  <2>1. ~mutation[p].joined => mutation[p].begun <= stamp[p]
    BY DEF IInv, Fresh, Bounded
  <2> QED
    BY <1>1, <1>2, <2>1 DEF IInv, Fresh
<1>8. Places'
  BY <1>1, <1>2, PlacesUnmoved DEF IInv
<1>9. Reached'
  <2>1. \A q \in Procs : mutation[q].pc = "renamed" => mutation'[q] = mutation[q]
    BY <1>2
  <2>2. \A q \in Procs : mutation'[q].pc = "renamed"
          => mutation[q].pc = "renamed" /\ cache'[q] = cache[q]
    BY <1>1, <1>2
  <2> QED
    BY <1>1, <2>1, <2>2 DEF IInv, Reached, Running
<1> QED
  BY <1>3, <1>4, <1>5, <1>6, <1>7, <1>8, <1>9 DEF IInv

\* A mutation that has renamed nothing is over: what it changed in the cache
\* is gone with the cache.
LEMMA SettleKeeps ==
  ASSUME IInv, NEW p \in Procs, NEW result \in {"resolved", "rejected"}, Settle(p, result),
         mutation[p].pc \notin {"off", "renamed"},
         mutation[p].pc = "write" => DropCache(p),
         UNCHANGED memory \/ DropCache(p),
         read' \in [Procs -> ReadRecord],
         \A q \in Procs : read'[q] \in {read[q], NoRead},
         faults' \in 0 .. MaxFaults,
         UNCHANGED <<file, entered, queue>>
  PROVE  IInv'
<1>1. /\ mutation' \in [Procs -> MutationRecord]
      /\ outcome' \in [Updates -> {"none", "called", "resolved", "rejected", "unknown"}]
      /\ mutation'[p] = NoMutation
      /\ \A q \in Procs : q # p => mutation'[q] = mutation[q]
      /\ Running(p) \in Updates
      /\ outcome'[Running(p)] = result
      /\ \A u \in Updates : u # Running(p) => outcome'[u] = outcome[u]
  BY SettleFacts DEF IInv
<1>2. /\ cache' \in [Procs -> {NoDoc} \union Documents]
      /\ saved' \in [Procs -> {NoDoc} \union Documents]
      /\ stamp' \in [Procs -> Nat]
      /\ \A q \in Procs :
           \/ cache'[q] = cache[q] /\ saved'[q] = saved[q] /\ stamp'[q] = stamp[q]
           \/ q = p /\ cache'[q] = NoDoc /\ saved'[q] = NoDoc /\ stamp'[q] = 0
      /\ mutation[p].pc = "write" => cache'[p] = NoDoc
  BY DropFacts DEF IInv, TypeOK, memory
<1>3. /\ NoMutation.pc = "off" /\ NoMutation.update = NoUpdate /\ NoMutation.begun = 0
      /\ NoMutation.made = 0
      /\ NoRead.pc = "off" /\ NoRead.stamp = 0 /\ NoRead.content = {}
  BY DEF NoMutation, NoRead
<1>4. TypeOK'
  <2>1. \A q \in Procs : PhaseOK(q)
    BY DEF IInv, TypeOK, PhaseOK
  <2>2. \A q \in Procs : PhaseOK(q)'
    BY <1>1, <1>2, <1>3, <2>1 DEF PhaseOK
  <2> QED
    BY <1>1, <1>2, <1>3, <2>2 DEF IInv, TypeOK, PhaseOK
<1>5. Bounded'
  <2>1. \A q \in Procs : stamp'[q] \in {stamp[q], 0} /\ read'[q].stamp \in {read[q].stamp, 0}
    BY <1>2, <1>3
  <2>2. \A q \in Procs : /\ mutation'[q].begun \in {mutation[q].begun, 0}
                         /\ mutation'[q].made \in {mutation[q].made, 0}
    BY <1>1, <1>3
  <2>3. file.stamp \in Nat
    BY DEF IInv, TypeOK
  <2> QED
    BY <2>1, <2>2, <2>3 DEF IInv, Bounded
<1>6. Cached'
  BY <1>1, <1>2, <1>3 DEF IInv, Cached, Dirty, Running
<1>7. Faithful'
  <2>1. \A doc, s : Sees(doc, s)' <=> Sees(doc, s)
    BY DEF Sees
  <2>2. \A q \in Procs : mutation'[q].pc = "renamed" => q # p /\ mutation'[q] = mutation[q]
    BY <1>1, <1>3
  <2>3. \A q \in Procs : read'[q].pc = "land" => read'[q] = read[q]
    BY <1>3
  <2> QED
    BY <1>2, <2>1, <2>2, <2>3 DEF IInv, Faithful
<1>8. Fresh'
  BY <1>1, <1>2, <1>3 DEF IInv, Fresh
<1>9. Places'
  BY PlacesSettled DEF IInv
<1>10. Reached'
  <2>1. entered[Running(p)] = 0 \/ outcome[Running(p)] # "called"
    <3>1. \A q \in Procs : mutation[q].pc = "renamed" => Running(q) # Running(p)
      BY <1>1 DEF IInv, Places
    <3>2. entered[Running(p)] \in Nat
      BY <1>1 DEF IInv, TypeOK
    <3>3. entered[Running(p)] > 0 => outcome[Running(p)] # "called"
      BY <1>1, <3>1 DEF IInv, Reached
    <3> QED
      BY <3>2, <3>3
  <2>2. outcome[Running(p)] = "called"
    BY <1>1 DEF IInv, Places
  <2>3. \A q \in Procs : mutation[q].pc = "renamed" => mutation'[q] = mutation[q]
    BY <1>1
  <2>4. \A q \in Procs : read'[q].content \in {{}, read[q].content}
    BY <1>3
  <2>5. ASSUME NEW u \in Updates, entered[u] > 0
        PROVE  \/ outcome'[u] \in {"resolved", "unknown"}
               \/ /\ outcome'[u] = "called"
                  /\ \E q \in Procs : mutation'[q].pc = "renamed" /\ Running(q)' = u
    BY <1>1, <2>1, <2>2, <2>3, <2>5 DEF IInv, Reached, Running
  <2>6. \A q \in Procs : mutation'[q].pc = "renamed"
          => mutation[q].pc = "renamed" /\ cache'[q] = cache[q]
    BY <1>1, <1>2, <1>3
  <2> QED
    BY <1>2, <2>4, <2>5, <2>6 DEF IInv, Reached
<1> QED
  BY <1>4, <1>5, <1>6, <1>7, <1>8, <1>9, <1>10 DEF IInv

\* A file replaced by the other process: the document is read anew.
LEMMA CheckStampKeeps ==
  ASSUME IInv, NEW p \in Procs, CheckStamp(p)
  PROVE  IInv'
<1>1. CASE file.stamp = stamp[p]
  BY <1>1, GotoKeeps DEF CheckStamp, IInv, TypeOK
<1>2. CASE file.stamp # stamp[p]
  <2>1. /\ mutation[p].pc = "check" /\ cache[p] # NoDoc
        /\ Goto(p, "load") /\ DropCache(p) /\ JoinRead(p)
        /\ UNCHANGED <<file, entered, queue, outcome, faults>>
    BY <1>2 DEF CheckStamp, IInv, TypeOK
  <2>2. /\ mutation' \in [Procs -> MutationRecord]
        /\ mutation'[p].pc = "load" /\ mutation'[p].update = mutation[p].update
        /\ mutation'[p].begun = mutation[p].begun /\ mutation'[p].made = mutation[p].made
        /\ \A q \in Procs : q # p => mutation'[q] = mutation[q]
    BY <2>1, GotoFacts DEF IInv
  <2>3. /\ cache' \in [Procs -> {NoDoc} \union Documents]
        /\ saved' \in [Procs -> {NoDoc} \union Documents]
        /\ stamp' \in [Procs -> Nat]
        /\ cache'[p] = NoDoc /\ saved'[p] = NoDoc /\ stamp'[p] = 0
        /\ \A q \in Procs : q # p =>
             cache'[q] = cache[q] /\ saved'[q] = saved[q] /\ stamp'[q] = stamp[q]
    BY <2>1, DropFacts DEF IInv
  <2>4. /\ read' \in [Procs -> ReadRecord]
        /\ read'[p].pc = "stat" /\ read'[p].stamp = 0 /\ read'[p].content = {}
        /\ \A q \in Procs : q # p => read'[q] = read[q]
    <3>1. read[p].pc = "off"
      BY <2>1 DEF IInv, Cached
    <3> QED
      BY <2>1, <3>1, JoinFacts DEF IInv
  <2>5. TypeOK'
    <3>1. \A q \in Procs : PhaseOK(q)
      BY DEF IInv, TypeOK, PhaseOK
    <3>2. \A q \in Procs : PhaseOK(q)'
      BY <2>1, <2>2, <2>3, <2>4, <3>1 DEF PhaseOK
    <3> QED
      BY <2>1, <2>2, <2>3, <2>4, <3>2 DEF IInv, TypeOK, PhaseOK
  <2>6. Bounded'
    <3>1. \A q \in Procs : stamp'[q] \in {stamp[q], 0} /\ read'[q].stamp \in {read[q].stamp, 0}
      BY <2>3, <2>4
    <3>2. \A q \in Procs : /\ mutation'[q].begun = mutation[q].begun
                           /\ mutation'[q].made = mutation[q].made
      BY <2>2
    <3>3. file.stamp \in Nat
      BY DEF IInv, TypeOK
    <3> QED
      BY <2>1, <3>1, <3>2, <3>3 DEF IInv, Bounded
  <2>7. Cached'
    BY <2>1, <2>2, <2>3, <2>4 DEF IInv, Cached, Dirty, Running
  <2>8. Faithful'
    <3>1. \A doc, s : Sees(doc, s)' <=> Sees(doc, s)
      BY <2>1 DEF Sees
    <3> QED
      BY <2>2, <2>3, <2>4, <3>1 DEF IInv, Faithful
  <2>9. Fresh'
    BY <2>1, <2>2, <2>3, <2>4 DEF IInv, Fresh
  <2>10. Places'
    BY <2>1, <2>2, PlacesUnmoved DEF IInv
  <2>11. Reached'
    <3>1. \A q \in Procs : mutation[q].pc = "renamed" => mutation'[q] = mutation[q]
      BY <2>1, <2>2
    <3>2. \A q \in Procs : mutation'[q].pc = "renamed"
            => mutation[q].pc = "renamed" /\ cache'[q] = cache[q]
      BY <2>2, <2>3
    <3> QED
      BY <2>1, <2>3, <2>4, <3>1, <3>2 DEF IInv, Reached, Running
  <2> QED
    BY <2>5, <2>6, <2>7, <2>8, <2>9, <2>10, <2>11 DEF IInv
<1> QED
  BY <1>1, <1>2

\* fn changes the live document: its update is in the cache only.
LEMMA ChangeKeeps ==
  ASSUME IInv, NEW p \in Procs, mutation[p].pc = "apply", Change(p),
         UNCHANGED <<file, entered, read, queue, faults>>
  PROVE  IInv'
<1>1. /\ mutation' \in [Procs -> MutationRecord]
      /\ mutation'[p].pc = "write" /\ mutation'[p].update = mutation[p].update
      /\ mutation'[p].begun = mutation[p].begun /\ mutation'[p].made = mutation[p].made
      /\ mutation'[p].joined = mutation[p].joined
      /\ \A q \in Procs : q # p => mutation'[q] = mutation[q]
  BY GotoFacts DEF Change, IInv
<1>2. /\ cache[p] \in Documents /\ saved[p] \in Documents /\ Running(p) \in Updates
      /\ cache[p] = saved[p]
  BY DEF IInv, TypeOK, Cached, Dirty, MutationRecord, Running
<1>3. cache[p] \union {Running(p)} \in Documents
  BY <1>2 DEF Documents
<1>4. /\ cache' \in [Procs -> {NoDoc} \union Documents]
      /\ cache'[p] = cache[p] \union {Running(p)}
      /\ \A q \in Procs : q # p => cache'[q] = cache[q]
  BY <1>3 DEF Change, IInv, TypeOK, Running
<1>5. cache[p] # NoDoc /\ cache'[p] # NoDoc
  BY <1>2, <1>3, <1>4 DEF Documents
<1>6. UNCHANGED <<file, entered, saved, stamp, read, queue, outcome, faults>>
  BY DEF Change
<1>7. TypeOK'
  <2>1. \A q \in Procs : PhaseOK(q)
    BY DEF IInv, TypeOK, PhaseOK
  <2>2. \A q \in Procs : PhaseOK(q)'
    BY <1>1, <1>4, <1>5, <2>1 DEF PhaseOK
  <2> QED
    BY <1>1, <1>4, <1>6, <2>2 DEF IInv, TypeOK, PhaseOK
<1>8. Bounded'
  BY <1>1, <1>6 DEF IInv, Bounded
<1>9. Cached'
  BY <1>1, <1>2, <1>4, <1>5, <1>6 DEF IInv, Cached, Dirty, Running
<1>10. Faithful'
  <2>1. \A doc, s : Sees(doc, s)' <=> Sees(doc, s)
    BY <1>6 DEF Sees
  <2>2. \A q \in Procs : cache'[q] # NoDoc => cache[q] # NoDoc
    BY <1>4, <1>5
  <2>3. \A q \in Procs : mutation'[q].pc = "renamed" => q # p /\ mutation'[q] = mutation[q]
    BY <1>1
  <2> QED
    BY <1>4, <1>6, <2>1, <2>2, <2>3 DEF IInv, Faithful
<1>11. Fresh'
  BY <1>1, <1>4, <1>5, <1>6 DEF IInv, Fresh
<1>12. Places'
  BY <1>1, <1>6, PlacesUnmoved DEF IInv
<1>13. Reached'
  <2>1. \A q \in Procs : mutation[q].pc = "renamed" => mutation'[q] = mutation[q]
    BY <1>1
  <2>2. \A q \in Procs : cache'[q] # NoDoc => cache[q] # NoDoc
    BY <1>4, <1>5
  <2>3. \A q \in Procs : mutation'[q].pc = "renamed"
          => mutation[q].pc = "renamed" /\ cache'[q] = cache[q]
    BY <1>1, <1>4
  <2> QED
    BY <1>6, <2>1, <2>2, <2>3 DEF IInv, Reached, Running
<1> QED
  BY <1>7, <1>8, <1>9, <1>10, <1>11, <1>12, <1>13 DEF IInv

\* fn runs: it changes the document, changes nothing, or throws.
LEMMA ApplyKeeps ==
  ASSUME IInv, NEW p \in Procs, Apply(p)
  PROVE  IInv'
<1>1. /\ mutation[p].pc = "apply" /\ cache[p] # NoDoc
      /\ UNCHANGED <<file, entered, read, queue, faults>>
      /\ read' \in [Procs -> ReadRecord] /\ faults' \in 0 .. MaxFaults
      /\ \A q \in Procs : read'[q] \in {read[q], NoRead}
  BY DEF Apply, IInv, TypeOK
<1>2. CASE Change(p)
  BY <1>1, <1>2, ChangeKeeps
<1>3. CASE Nothing(p)
  <2>1. CASE stamp[p] = 0
    BY <1>1, <1>3, <2>1, GotoKeeps DEF Nothing
  <2>2. CASE stamp[p] # 0
    BY <1>1, <1>3, <2>2, SettleKeeps DEF Nothing
  <2> QED
    BY <2>1, <2>2
<1>4. CASE Refuse(p)
  BY <1>1, <1>4, SettleKeeps DEF Refuse
<1>5. CASE ThrowHalfway(p)
  BY <1>1, <1>5, SettleKeeps DEF ThrowHalfway
<1> QED
  BY <1>2, <1>3, <1>4, <1>5 DEF Apply

\* What a document says of the file it still says after a rename: an update
\* that comes in has a stamp newer than any that is remembered.
LEMMA SeesKept ==
  ASSUME IInv, NEW p \in Procs, Rename(p), NEW doc, NEW s \in Nat, s <= file.stamp, Sees(doc, s)
  PROVE  Sees(doc, s)'
<1>1. /\ file'.content = cache[p] /\ file'.stamp = file.stamp + 1 /\ file.stamp \in Nat
      /\ mutation[p].pc = "write"
  BY DEF Rename, IInv, TypeOK
<1>2. cache[p] \subseteq Updates
  BY <1>1 DEF IInv, TypeOK, Documents
<1>3. ASSUME NEW u \in file'.content, entered'[u] <= s PROVE u \in doc
  <2>1. u \in file.content
    BY <1>1, <1>2, <1>3 DEF Rename
  <2>2. entered'[u] = entered[u]
    BY <1>1, <1>2, <1>3, <2>1 DEF Rename
  <2> QED
    BY <1>3, <2>1, <2>2 DEF Sees
<1> QED
  BY <1>1, <1>3 DEF Sees

\* The temporary file becomes the file.
LEMMA RenameKeeps ==
  ASSUME IInv, NEW p \in Procs, Rename(p)
  PROVE  IInv'
<1> DEFINE m == [pc |-> "renamed", update |-> mutation[p].update,
                 begun |-> 0, joined |-> FALSE, made |-> file'.stamp]
<1>1. /\ mutation[p].pc = "write" /\ cache[p] # NoDoc
      /\ UNCHANGED <<cache, saved, stamp, read, queue, outcome, faults>>
  BY DEF Rename, IInv, TypeOK, memory
<1>2. /\ file'.content = cache[p] /\ file'.stamp = file.stamp + 1 /\ file.stamp \in Nat
      /\ file' \in [content : Documents, stamp : Nat]
      /\ cache[p] \in Documents /\ cache[p] \subseteq Updates
  BY <1>1 DEF Rename, IInv, TypeOK, Documents
<1>3. m = [pc |-> "renamed", update |-> mutation[p].update, begun |-> 0, joined |-> FALSE,
           made |-> file.stamp + 1]
  BY <1>2
<1>4. m \in MutationRecord
  <2>1. mutation[p].update \in Updates \union {NoUpdate}
    BY DEF IInv, TypeOK, MutationRecord
  <2> HIDE DEF m
  <2> QED
    BY <1>2, <1>3, <2>1 DEF MutationRecord
<1>5. mutation' = [mutation EXCEPT ![p] = m]
  BY DEF Rename
<1> HIDE DEF m
<1>6. /\ mutation' \in [Procs -> MutationRecord]
      /\ mutation'[p].pc = "renamed" /\ mutation'[p].update = mutation[p].update
      /\ mutation'[p].begun = 0 /\ mutation'[p].made = file.stamp + 1
      /\ \A q \in Procs : q # p => mutation'[q] = mutation[q]
  BY <1>3, <1>4, <1>5 DEF IInv, TypeOK
<1>7. /\ entered' \in [Updates -> Nat]
      /\ \A u \in Updates : entered'[u] = IF u \in cache[p] \ file.content
                                            THEN file.stamp + 1 ELSE entered[u]
  BY <1>2 DEF Rename, IInv, TypeOK
<1>8. TypeOK'
  <2>1. \A q \in Procs : PhaseOK(q)
    BY DEF IInv, TypeOK, PhaseOK
  <2>2. \A q \in Procs : PhaseOK(q)'
    BY <1>1, <1>6, <2>1 DEF PhaseOK
  <2> QED
    BY <1>1, <1>2, <1>6, <1>7, <2>2 DEF IInv, TypeOK, PhaseOK
<1>9. Bounded'
  <2>1. \A u \in Updates : entered[u] \in Nat
    BY DEF IInv, TypeOK
  <2>2. \A q \in Procs : /\ stamp[q] \in Nat /\ read[q].stamp \in Nat
                         /\ mutation[q].begun \in Nat /\ mutation[q].made \in Nat
    BY DEF IInv, TypeOK, ReadRecord, MutationRecord
  <2>3. \A u \in Updates : entered'[u] <= file.stamp + 1
    BY <1>2, <1>7, <2>1 DEF IInv, Bounded
  <2> QED
    BY <1>1, <1>2, <1>6, <2>2, <2>3 DEF IInv, Bounded
<1>10. Cached'
  BY <1>1, <1>6 DEF IInv, Cached, Dirty, Running
<1>11. Faithful'
  <2>1. \A q \in Procs : /\ stamp[q] \in Nat /\ read[q].stamp \in Nat /\ mutation[q].made \in Nat
                         /\ stamp[q] <= file.stamp /\ read[q].stamp <= file.stamp
                         /\ mutation[q].made <= file.stamp
    BY DEF IInv, TypeOK, ReadRecord, MutationRecord, Bounded
  <2>2. \A q \in Procs : cache[q] # NoDoc => Sees(saved[q], stamp[q])'
    BY <1>1, <2>1, SeesKept DEF IInv, Faithful
  <2>3. \A q \in Procs : read[q].pc = "land" => Sees(read[q].content, read[q].stamp)'
    BY <1>1, <2>1, SeesKept DEF IInv, Faithful
  <2>4. ASSUME NEW q \in Procs, mutation'[q].pc = "renamed"
        PROVE  Sees(cache[q], mutation[q].made)' /\ stamp[q] < mutation'[q].made
    <3>1. CASE q # p
      BY <1>1, <1>6, <2>1, <2>4, <3>1, SeesKept DEF IInv, Faithful
    <3>2. CASE q = p
      BY <1>1, <1>2, <1>6, <2>1, <3>2 DEF Sees
    <3> QED
      BY <3>1, <3>2
  <2> QED
    BY <1>1, <2>2, <2>3, <2>4 DEF Faithful
<1>12. Fresh'
  BY <1>1, <1>6 DEF IInv, Fresh
<1>13. Places'
  BY <1>1, <1>6, PlacesUnmoved DEF IInv
<1>14. Reached'
  <2>1. \A u \in Updates : entered[u] > 0 => entered'[u] > 0
    BY <1>2, <1>7
  <2>2. \A u \in file'.content : entered'[u] > 0
    BY <1>2, <1>7 DEF IInv, Reached
  <2>3. ASSUME NEW u \in Updates, entered'[u] > 0
        PROVE  \/ outcome[u] \in {"resolved", "unknown"}
               \/ /\ outcome[u] = "called"
                  /\ \E q \in Procs : mutation'[q].pc = "renamed" /\ Running(q)' = u
    <3>1. CASE entered[u] > 0
      BY <1>1, <1>6, <3>1 DEF IInv, Reached, Running
    <3>2. CASE ~(entered[u] > 0)
      <4>1. u \in cache[p]
        BY <1>7, <2>3, <3>2
      <4>2. cache[p] \subseteq saved[p] \union {Running(p)} /\ u \notin saved[p]
        BY <1>1, <3>2 DEF IInv, Cached, Reached, Dirty
      <4>3. u = Running(p) /\ outcome[u] = "called"
        BY <4>1, <4>2 DEF IInv, Places
      <4> QED
        BY <1>6, <4>3 DEF Running
    <3> QED
      BY <3>1, <3>2
  <2>4. \A q \in Procs : read[q].content \subseteq Updates
    BY DEF IInv, TypeOK, ReadRecord, Documents
  <2>5. \A q \in Procs : cache[q] # NoDoc => saved[q] \subseteq Updates
    BY DEF IInv, TypeOK, Cached, Documents
  <2>6. ASSUME NEW q \in Procs, mutation'[q].pc = "renamed" PROVE \A u \in cache[q] : entered'[u] > 0
    <3>1. CASE q = p
      BY <1>2, <2>2, <3>1
    <3>2. CASE q # p
      <4>1. mutation[q].pc = "renamed" /\ cache[q] \subseteq Updates
        BY <1>6, <2>6, <3>2 DEF IInv, TypeOK, Documents
      <4> QED
        BY <2>1, <4>1 DEF IInv, Reached
    <3> QED
      BY <3>1, <3>2
  <2> QED
    BY <1>1, <2>1, <2>2, <2>3, <2>4, <2>5, <2>6 DEF IInv, Reached
<1> QED
  BY <1>8, <1>9, <1>10, <1>11, <1>12, <1>13, <1>14 DEF IInv

\* The write is remembered by its stamp, and the caller told.
LEMMA PersistedKeeps ==
  ASSUME IInv, NEW p \in Procs, Persisted(p)
  PROVE  IInv'
<1>1. /\ mutation[p].pc = "renamed" /\ cache[p] # NoDoc
      /\ UNCHANGED <<file, entered, cache, read, queue, faults>>
      /\ Settle(p, "resolved")
      /\ saved' = [saved EXCEPT ![p] = cache[p]]
      /\ stamp' = [stamp EXCEPT ![p] = mutation[p].made]
  BY DEF Persisted, IInv, TypeOK
<1>2. /\ mutation' \in [Procs -> MutationRecord]
      /\ outcome' \in [Updates -> {"none", "called", "resolved", "rejected", "unknown"}]
      /\ mutation'[p] = NoMutation
      /\ \A q \in Procs : q # p => mutation'[q] = mutation[q]
      /\ outcome'[Running(p)] = "resolved"
      /\ \A u \in Updates : u # Running(p) => outcome'[u] = outcome[u]
  BY <1>1, SettleFacts DEF IInv
<1>3. NoMutation.pc = "off" /\ NoMutation.update = NoUpdate /\ NoMutation.begun = 0
      /\ NoMutation.made = 0
  BY DEF NoMutation
<1>4. mutation[p].made \in Nat /\ mutation[p].made <= file.stamp
  BY DEF IInv, TypeOK, MutationRecord, Bounded
<1>5. /\ saved' \in [Procs -> {NoDoc} \union Documents]
      /\ stamp' \in [Procs -> Nat]
      /\ saved'[p] = cache[p] /\ stamp'[p] = mutation[p].made
      /\ \A q \in Procs : q # p => saved'[q] = saved[q] /\ stamp'[q] = stamp[q]
  BY <1>1, <1>4 DEF IInv, TypeOK
<1>6. TypeOK'
  <2>1. \A q \in Procs : PhaseOK(q)
    BY DEF IInv, TypeOK, PhaseOK
  <2>2. \A q \in Procs : PhaseOK(q)'
    BY <1>1, <1>2, <1>3, <2>1 DEF PhaseOK
  <2> QED
    BY <1>1, <1>2, <1>5, <2>2 DEF IInv, TypeOK, PhaseOK
<1>7. Bounded'
  <2>1. file.stamp \in Nat
    BY DEF IInv, TypeOK
  <2> QED
    BY <1>1, <1>2, <1>3, <1>4, <1>5, <2>1 DEF IInv, Bounded
<1>8. Cached'
  BY <1>1, <1>2, <1>3, <1>5 DEF IInv, Cached, Dirty, Running
<1>9. Faithful'
  <2>1. \A doc, s : Sees(doc, s)' <=> Sees(doc, s)
    BY <1>1 DEF Sees
  <2>2. \A q \in Procs : mutation'[q].pc = "renamed" => q # p /\ mutation'[q] = mutation[q]
    BY <1>2, <1>3
  <2> QED
    BY <1>1, <1>5, <2>1, <2>2 DEF IInv, Faithful
<1>10. Fresh'
  BY <1>1, <1>2, <1>3, <1>5 DEF IInv, Fresh
<1>11. Places'
  BY <1>1, PlacesSettled DEF IInv
<1>12. Reached'
  <2>1. \A u \in cache[p] : entered[u] > 0
    <3>1. \A u \in cache[p] : u \in saved[p] \/ u = Running(p)
      BY <1>1 DEF IInv, Cached, Dirty
    <3>2. Running(p) \in cache[p] => entered[Running(p)] > 0
      BY <1>1 DEF IInv, Reached
    <3> QED
      BY <1>1, <3>1, <3>2 DEF IInv, Reached
  <2>2. ASSUME NEW u \in Updates, entered[u] > 0
        PROVE  \/ outcome'[u] \in {"resolved", "unknown"}
               \/ /\ outcome'[u] = "called"
                  /\ \E q \in Procs : mutation'[q].pc = "renamed" /\ Running(q)' = u
    BY <1>1, <1>2, <2>2 DEF IInv, Reached, Running
  <2>3. \A q \in Procs : mutation'[q].pc = "renamed"
          => mutation[q].pc = "renamed" /\ cache'[q] = cache[q]
    BY <1>1, <1>2, <1>3
  <2> QED
    BY <1>1, <1>5, <2>1, <2>2, <2>3 DEF IInv, Reached
<1> QED
  BY <1>6, <1>7, <1>8, <1>9, <1>10, <1>11, <1>12 DEF IInv

\* A write, a check or a read of the file system fails.
LEMMA FailureKeeps ==
  ASSUME IInv, NEW p \in Procs, WriteFails(p) \/ CheckFails(p) \/ ReadFails(p)
  PROVE  IInv'
<1>1. faults' \in 0 .. MaxFaults
  BY DEF WriteFails, CheckFails, ReadFails, Fault, IInv, TypeOK
<1>2. ASSUME read' = read \/ read' = [read EXCEPT ![p] = NoRead]
      PROVE  read' \in [Procs -> ReadRecord] /\ \A q \in Procs : read'[q] \in {read[q], NoRead}
  <2>1. NoRead \in ReadRecord /\ read \in [Procs -> ReadRecord]
    BY DEF NoRead, ReadRecord, Documents, IInv, TypeOK
  <2> QED
    BY <1>2, <2>1
<1>3. CASE WriteFails(p)
  <2>1. mutation[p].pc = "write" /\ Settle(p, "rejected") /\ DropCache(p)
        /\ UNCHANGED <<file, entered, read, queue>>
    BY <1>3 DEF WriteFails
  <2> QED
    BY <1>1, <1>2, <2>1, SettleKeeps
<1>4. CASE CheckFails(p)
  <2>1. mutation[p].pc = "check" /\ Settle(p, "rejected")
        /\ UNCHANGED <<file, entered, memory, read, queue>>
    BY <1>4 DEF CheckFails
  <2> QED
    BY <1>1, <1>2, <2>1, SettleKeeps
<1>5. CASE ReadFails(p)
  <2>1. read' = [read EXCEPT ![p] = NoRead] /\ UNCHANGED <<file, entered, memory, queue>>
    BY <1>5 DEF ReadFails
  <2>2. CASE mutation[p].pc = "load"
    BY <1>1, <1>2, <1>5, <2>1, <2>2, SettleKeeps DEF ReadFails
  <2>3. CASE mutation[p].pc # "load"
    <3>1. UNCHANGED <<file, entered, cache, saved, stamp, queue, mutation, outcome>>
      BY <1>5, <2>1, <2>3 DEF ReadFails, memory
    <3>2. /\ read' \in [Procs -> ReadRecord]
          /\ \A q \in Procs : \/ read'[q] = read[q]
                              \/ read'[q].pc = "off" /\ read'[q].stamp = 0 /\ read'[q].content = {}
      BY <1>2, <2>1 DEF NoRead
    <3>3. TypeOK'
      BY <1>1, <3>1, <3>2 DEF IInv, TypeOK
    <3>4. Bounded'
      <4>1. \A q \in Procs : read'[q].stamp \in {read[q].stamp, 0}
        BY <3>2
      <4>2. file.stamp \in Nat
        BY DEF IInv, TypeOK
      <4> QED
        BY <3>1, <4>1, <4>2 DEF IInv, Bounded
    <3>5. Cached' /\ Fresh'
      BY <3>1, <3>2 DEF IInv, Cached, Fresh, Dirty, Running
    <3>6. Faithful'
      <4>1. \A doc, s : Sees(doc, s)' <=> Sees(doc, s)
        BY <3>1 DEF Sees
      <4> QED
        BY <3>1, <3>2, <4>1 DEF IInv, Faithful
    <3>7. Places'
      BY <3>1, PlacesUnmoved DEF IInv
    <3>8. Reached'
      BY <3>1, <3>2 DEF IInv, Reached, Running
    <3> QED
      BY <3>3, <3>4, <3>5, <3>6, <3>7, <3>8 DEF IInv
  <2> QED
    BY <2>2, <2>3
<1> QED
  BY <1>3, <1>4, <1>5

\* All the process had was memory; what it wrote stays written.
LEMMA DieKeeps ==
  ASSUME IInv, NEW p \in Procs, Die(p)
  PROVE  IInv'
<1>1. /\ UNCHANGED <<file, entered>>
      /\ faults' \in 0 .. MaxFaults
      /\ read' = [read EXCEPT ![p] = NoRead]
      /\ queue' = [queue EXCEPT ![p] = <<>>]
      /\ mutation' = [mutation EXCEPT ![p] = NoMutation]
      /\ outcome' = [u \in Updates |-> IF u \in Waiting(p) THEN "unknown" ELSE outcome[u]]
  BY DEF Die, Fault, IInv, TypeOK
<1>2. /\ cache' \in [Procs -> {NoDoc} \union Documents]
      /\ saved' \in [Procs -> {NoDoc} \union Documents]
      /\ stamp' \in [Procs -> Nat]
      /\ cache'[p] = NoDoc /\ saved'[p] = NoDoc /\ stamp'[p] = 0
      /\ \A q \in Procs : q # p =>
           cache'[q] = cache[q] /\ saved'[q] = saved[q] /\ stamp'[q] = stamp[q]
  BY DropFacts DEF Die, IInv
<1>3. /\ mutation' \in [Procs -> MutationRecord] /\ read' \in [Procs -> ReadRecord]
      /\ mutation'[p].pc = "off" /\ mutation'[p].update = NoUpdate
      /\ mutation'[p].begun = 0 /\ mutation'[p].made = 0
      /\ read'[p].pc = "off" /\ read'[p].stamp = 0 /\ read'[p].content = {}
      /\ \A q \in Procs : q # p => mutation'[q] = mutation[q] /\ read'[q] = read[q]
  BY <1>1 DEF IInv, TypeOK, NoMutation, NoRead, MutationRecord, ReadRecord, Documents
<1>4. /\ queue' \in [Procs -> Seq(Updates)]
      /\ queue'[p] = <<>>
      /\ \A q \in Procs : q # p => queue'[q] = queue[q]
  BY <1>1 DEF IInv, TypeOK
<1>5. /\ outcome' \in [Updates -> {"none", "called", "resolved", "rejected", "unknown"}]
      /\ \A u \in Updates : outcome'[u] = IF u \in Waiting(p) THEN "unknown" ELSE outcome[u]
  BY <1>1 DEF IInv, TypeOK
<1>6. TypeOK'
  <2>1. \A q \in Procs : PhaseOK(q)
    BY DEF IInv, TypeOK, PhaseOK
  <2>2. \A q \in Procs : PhaseOK(q)'
    BY <1>2, <1>3, <2>1 DEF PhaseOK
  <2> QED
    BY <1>1, <1>2, <1>3, <1>4, <1>5, <2>2 DEF IInv, TypeOK, PhaseOK
<1>7. Bounded'
  <2>1. \A q \in Procs : /\ stamp'[q] \in {stamp[q], 0} /\ read'[q].stamp \in {read[q].stamp, 0}
                         /\ mutation'[q].begun \in {mutation[q].begun, 0}
                         /\ mutation'[q].made \in {mutation[q].made, 0}
    BY <1>2, <1>3
  <2>2. file.stamp \in Nat
    BY DEF IInv, TypeOK
  <2> QED
    BY <1>1, <2>1, <2>2 DEF IInv, Bounded
<1>8. Cached'
  BY <1>2, <1>3 DEF IInv, Cached, Dirty, Running
<1>9. Faithful'
  <2>1. \A doc, s : Sees(doc, s)' <=> Sees(doc, s)
    BY <1>1 DEF Sees
  <2> QED
    BY <1>2, <1>3, <2>1 DEF IInv, Faithful
<1>10. Fresh'
  BY <1>2, <1>3 DEF IInv, Fresh
<1>11. Places'
  <2> USE DEF Places, Running, Waiting
  <2>1. Places
    BY DEF IInv
  <2>2. \A q \in Procs : mutation'[q].update # NoUpdate
          => q # p /\ mutation'[q].update = mutation[q].update
    BY <1>3
  <2>3. \A q \in Procs : \A i \in DOMAIN queue'[q] :
          q # p /\ i \in DOMAIN queue[q] /\ queue'[q][i] = queue[q][i]
    BY <1>4
  <2>4. \A q \in Procs : q # p /\ mutation[q].update # NoUpdate
          => mutation[q].update \notin Waiting(p) /\ mutation[q].update \in Updates
    BY <2>1 DEF IInv, TypeOK, MutationRecord
  <2>5. \A q \in Procs : q # p => \A i \in DOMAIN queue[q] : queue[q][i] \notin Waiting(p)
    BY <2>1
  <2>6. \A q \in Procs : mutation'[q].update # NoUpdate => outcome'[mutation'[q].update] = "called"
    BY <1>5, <2>1, <2>2, <2>4
  <2>7. \A q \in Procs : \A i \in DOMAIN queue'[q] :
          queue'[q][i] \in Updates /\ outcome'[queue'[q][i]] = "called"
    BY <1>5, <2>1, <2>3, <2>5
  <2>8. \A q, r \in Procs : \A i \in DOMAIN queue'[q] : queue'[q][i] # mutation'[r].update
    BY <2>1, <2>2, <2>3, <2>7
  <2>9. \A q, r \in Procs : \A i \in DOMAIN queue'[q], j \in DOMAIN queue'[r] :
          queue'[q][i] = queue'[r][j] => q = r /\ i = j
    BY <2>1, <2>3
  <2> QED
    BY <2>1, <2>2, <2>6, <2>7, <2>8, <2>9
<1>12. Reached'
  <2>1. \A q \in Procs : mutation'[q].pc = "renamed"
          => mutation[q].pc = "renamed" /\ cache'[q] = cache[q]
    BY <1>2, <1>3
  <2>2. ASSUME NEW u \in Updates, entered[u] > 0
        PROVE  \/ outcome'[u] \in {"resolved", "unknown"}
               \/ /\ outcome'[u] = "called"
                  /\ \E q \in Procs : mutation'[q].pc = "renamed" /\ Running(q)' = u
    <3>1. CASE u \in Waiting(p)
      BY <1>5, <3>1
    <3>2. CASE u \notin Waiting(p)
      BY <1>3, <1>5, <2>2, <3>2 DEF IInv, Reached, Running, Waiting
    <3> QED
      BY <3>1, <3>2
  <2>3. \A q \in Procs : /\ read'[q].content \in {{}, read[q].content}
                         /\ cache'[q] # NoDoc => cache[q] # NoDoc /\ saved'[q] = saved[q]
    BY <1>2, <1>3
  <2> QED
    BY <1>1, <2>1, <2>2, <2>3 DEF IInv, Reached
<1> QED
  BY <1>6, <1>7, <1>8, <1>9, <1>10, <1>11, <1>12 DEF IInv

-----------------------------------------------------------------------------
(* The invariant, and what follows from it.                                *)

\* Before any call nothing is remembered or in a line.
LEMMA InitIInv == Init => IInv
<1> SUFFICES ASSUME Init PROVE IInv
  OBVIOUS
<1>1. /\ NoRead.pc = "off" /\ NoRead.stamp = 0 /\ NoRead.content = {} /\ NoRead \in ReadRecord
      /\ NoMutation.pc = "off" /\ NoMutation.update = NoUpdate /\ NoMutation.begun = 0
      /\ NoMutation.made = 0 /\ NoMutation \in MutationRecord
  BY DEF NoRead, NoMutation, ReadRecord, MutationRecord, Documents
<1>2. /\ \A p \in Procs : /\ cache[p] = NoDoc /\ saved[p] = NoDoc /\ stamp[p] = 0
                          /\ read[p] = NoRead /\ mutation[p] = NoMutation /\ queue[p] = <<>>
      /\ \A u \in Updates : entered[u] = 0
      /\ file.content = {} /\ file.stamp \in Nat /\ file.stamp >= 0
  BY DEF Init
<1>3. TypeOK
  BY <1>1 DEF Init, TypeOK, Documents
<1>4. Bounded /\ Cached /\ Faithful
  BY <1>1, <1>2 DEF Bounded, Cached, Faithful, Dirty, Running
<1>5. Fresh /\ Places /\ Reached
  BY <1>1, <1>2 DEF Fresh, Places, Reached, Running
<1> QED
  BY <1>3, <1>4, <1>5 DEF IInv

\* Every step keeps the invariant.
LEMMA InductiveStep == IInv /\ [Next]_vars => IInv'
<1> SUFFICES ASSUME IInv, [Next]_vars PROVE IInv'
  OBVIOUS
<1>1. CASE UNCHANGED vars
  BY <1>1 DEF vars, memory, IInv, TypeOK, Bounded, Cached, Faithful, Sees, Fresh, Places,
              Reached, Dirty, Running
<1>2. ASSUME NEW p \in Procs, Loaded(p) PROVE IInv'
  BY <1>2, GotoKeeps DEF Loaded
<1>3. ASSUME NEW p \in Procs, NEW u \in Updates, Mutate(p, u) PROVE IInv'
  BY <1>3, MutateKeeps
<1>4. ASSUME NEW p \in Procs, MutationStep(p) PROVE IInv'
  BY <1>2, <1>4, BeginKeeps, CheckStampKeeps, ApplyKeeps, RenameKeeps, PersistedKeeps
     DEF MutationStep
<1>5. ASSUME NEW p \in Procs,
             Load(p) \/ ReadStep(p) \/ WriteFails(p) \/ CheckFails(p) \/ ReadFails(p) \/ Die(p)
      PROVE  IInv'
  BY <1>5, LoadKeeps, ReadKeeps, FailureKeeps, DieKeeps DEF ReadStep
<1> QED
  BY <1>1, <1>3, <1>4, <1>5 DEF Next

\* IInv holds in every state.
LEMMA Invariant == Spec => []IInv
  BY InitIInv, InductiveStep, PTL DEF Spec

\* TypeOK: every variable keeps its type.
THEOREM TypeCorrect == Spec => []TypeOK
<1>1. IInv => TypeOK
  BY DEF IInv
<1> QED
  BY <1>1, Invariant, PTL

\* StampsTell: a stamp that matches the file tells the truth about the cache,
\* whatever the other processes rename between the steps of fileChanged,
\* readFromDisk and persist.
THEOREM StampsAreTrue == Spec => []StampsTell
<1>1. IInv => StampsTell
  BY DEF IInv, Faithful, Sees, StampsTell
<1> QED
  BY <1>1, Invariant, PTL

\* RejectedIsGone: a change whose caller was told no is neither in the file
\* nor in the live document of any process.
THEOREM RejectedIsNowhere == Spec => []RejectedIsGone
<1>1. ASSUME IInv PROVE RejectedIsGone
  <2>1. SUFFICES ASSUME NEW u \in Updates, outcome[u] = "rejected"
                 PROVE  u \notin file.content
                        /\ \A p \in Procs : cache[p] # NoDoc => u \notin cache[p]
    BY DEF RejectedIsGone
  <2>2. ~(entered[u] > 0)
    BY <1>1, <2>1 DEF IInv, Reached
  <2>3. u \notin file.content
    BY <1>1, <2>2 DEF IInv, Reached
  <2>4. ASSUME NEW p \in Procs, cache[p] # NoDoc, u \in cache[p] PROVE FALSE
    <3>1. u \notin saved[p]
      BY <1>1, <2>2, <2>4 DEF IInv, Reached
    <3>2. Dirty(p) /\ u = Running(p)
      BY <1>1, <2>4, <3>1 DEF IInv, Cached
    <3>3. outcome[u] = "called"
      BY <1>1, <3>2 DEF IInv, Places
    <3> QED
      BY <2>1, <3>3
  <2> QED
    BY <2>3, <2>4
<1> QED
  BY <1>1, Invariant, PTL

\* ErasesOnlyOverlapped: an update that a rename takes out of the file entered
\* it after the mutation began or, for one that joined a cold read, after the
\* stamp of that read.
THEOREM ErasesOnlyOverlap == Spec => ErasesOnlyOverlapped
<1>1. ASSUME IInv, [Next]_vars, NEW u \in file.content \ file'.content
      PROVE  \E p \in Procs :
               /\ mutation[p].pc = "write"
               /\ entered[u] > IF mutation[p].joined THEN stamp[p] ELSE mutation[p].begun
  <2>1. PICK p \in Procs : Rename(p)
    BY <1>1 DEF Next, vars, Load, Mutate, ReadStep, StatFile, ReadContent, LandRead, MutationStep,
                Begin, CheckStamp, Loaded, Apply, Persisted, WriteFails, CheckFails, ReadFails, Die
  <2>2. mutation[p].pc = "write" /\ cache[p] # NoDoc /\ file'.content = cache[p]
    BY <1>1, <2>1 DEF Rename, IInv, TypeOK
  <2>3. u \notin saved[p]
    BY <1>1, <2>2 DEF IInv, Cached
  <2>4. ~(entered[u] <= stamp[p])
    BY <1>1, <2>2, <2>3 DEF IInv, Faithful, Sees
  <2>5. u \in Updates /\ entered[u] \in Nat /\ stamp[p] \in Nat /\ mutation[p].begun \in Nat
    BY <1>1 DEF IInv, TypeOK, Documents, MutationRecord
  <2>6. ~mutation[p].joined => mutation[p].begun <= stamp[p]
    BY <1>1, <2>2 DEF IInv, Fresh
  <2> QED
    BY <2>2, <2>4, <2>5, <2>6
<1>2. IInv /\ [Next]_vars =>
        [\A u \in file.content \ file'.content :
           \E p \in Procs :
             /\ mutation[p].pc = "write"
             /\ entered[u] > IF mutation[p].joined THEN stamp[p] ELSE mutation[p].begun]_vars
  BY <1>1
<1> QED
  BY <1>2, Invariant, PTL DEF Spec, ErasesOnlyOverlapped
-----------------------------------------------------------------------------
(* One backend: the deploy's overlap is the only way to lose an update.    *)

\* Who is alone with the file knows its stamp whenever it has a document.
Alone(p) ==
  /\ cache[p] # NoDoc /\ mutation[p].pc # "renamed" => stamp[p] = file.stamp
  /\ mutation[p].pc = "renamed" => mutation[p].made = file.stamp
  /\ read[p].pc \in {"content", "land"} => read[p].stamp = file.stamp

\* And goes on knowing it, whatever it does.
LEMMA AloneKeeps ==
  ASSUME NEW p \in Procs, IInv, Alone(p), Next, \A q \in Procs : q = p
  PROVE  Alone(p)'
<1> USE DEF Alone
<1>1. /\ NoRead.pc = "off" /\ NoMutation.pc = "off" /\ [NoRead EXCEPT !.pc = "stat"].pc = "stat"
  BY DEF NoRead, NoMutation
<1>2. /\ mutation[p] \in MutationRecord /\ read[p] \in ReadRecord
      /\ DOMAIN cache = Procs /\ DOMAIN saved = Procs /\ DOMAIN stamp = Procs
      /\ DOMAIN read = Procs /\ DOMAIN mutation = Procs
      /\ mutation[p].pc \in {"check", "apply", "write", "renamed"} => cache[p] # NoDoc
      /\ read[p].pc # "off" => cache[p] = NoDoc
  BY DEF IInv, TypeOK, Cached
<1>3. ASSUME Load(p) \/ StatFile(p) \/ ReadContent(p) \/ LandRead(p) PROVE Alone(p)'
  <2>1. CASE Load(p)
    BY <1>1, <1>2, <2>1 DEF Load, JoinRead, memory
  <2>2. CASE StatFile(p)
    BY <1>2, <2>2 DEF StatFile, memory
  <2>3. CASE ReadContent(p)
    BY <1>2, <2>3 DEF ReadContent, memory
  <2>4. CASE LandRead(p)
    BY <1>1, <1>2, <2>4 DEF LandRead
  <2> QED
    BY <1>3, <2>1, <2>2, <2>3, <2>4
<1>4. ASSUME NEW u \in Updates, Mutate(p, u) PROVE Alone(p)'
  BY <1>4 DEF Mutate, memory
<1>5. ASSUME Begin(p) PROVE Alone(p)'
  <2>1. mutation'[p].pc \in {"load", "check"}
    BY <1>2, <1>5 DEF Begin
  <2>2. read'[p] = read[p] \/ read'[p].pc = "stat"
    BY <1>1, <1>2, <1>5 DEF Begin, JoinRead
  <2>3. mutation[p].pc = "off" /\ UNCHANGED <<file, cache, stamp>>
    BY <1>5 DEF Begin, memory
  <2> QED
    BY <2>1, <2>2, <2>3
<1>6. ASSUME CheckStamp(p) PROVE Alone(p)'
  <2>1. CASE file.stamp = stamp[p]
    <3>1. mutation'[p].pc = "apply" /\ UNCHANGED <<file, memory, read>>
      BY <1>6, <2>1, GotoFacts DEF CheckStamp, IInv
    <3> QED
      BY <2>1, <3>1 DEF memory
  <2>2. CASE file.stamp # stamp[p]
    BY <1>2, <1>6, <2>2 DEF CheckStamp
  <2> QED
    BY <2>1, <2>2
<1>7. ASSUME Loaded(p) PROVE Alone(p)'
  BY <1>2, <1>7 DEF Loaded, Goto, memory
<1>8. ASSUME Apply(p) PROVE Alone(p)'
  <2>1. mutation[p].pc = "apply" /\ UNCHANGED <<file, read>>
    BY <1>8 DEF Apply
  <2>2. ASSUME NEW step \in {"write"}, Goto(p, step), UNCHANGED stamp PROVE Alone(p)'
    <3>1. mutation'[p].pc = "write"
      BY <2>2, GotoFacts DEF IInv
    <3> QED
      BY <1>2, <2>1, <2>2, <3>1
  <2>3. ASSUME NEW result \in {"resolved", "rejected"}, Settle(p, result),
               UNCHANGED memory \/ DropCache(p)
        PROVE  Alone(p)'
    BY <1>1, <1>2, <2>1, <2>3 DEF Settle, DropCache, memory
  <2> QED
    BY <1>8, <2>2, <2>3 DEF Apply, Change, Nothing, Refuse, ThrowHalfway, memory
<1>9. ASSUME Rename(p) PROVE Alone(p)'
  BY <1>2, <1>9 DEF Rename, memory
<1>10. ASSUME Persisted(p) PROVE Alone(p)'
  BY <1>1, <1>2, <1>10 DEF Persisted, Settle
<1>11. ASSUME WriteFails(p) \/ CheckFails(p) \/ ReadFails(p) \/ Die(p) PROVE Alone(p)'
  BY <1>1, <1>2, <1>11 DEF WriteFails, CheckFails, ReadFails, Die, Settle, DropCache, memory
<1> QED
  BY <1>3, <1>4, <1>5, <1>6, <1>7, <1>8, <1>9, <1>10, <1>11
     DEF Next, ReadStep, MutationStep

\* One backend over the file stays alone with it.
LEMMA KeepsAlone ==
  ASSUME NEW p \in Procs, \A q \in Procs : q = p
  PROVE  Spec => []Alone(p)
<1>1. Init => Alone(p)
  BY DEF Init, Alone, NoMutation, NoRead
<1>2. ASSUME IInv, Alone(p), UNCHANGED vars PROVE Alone(p)'
  BY <1>2 DEF Alone, vars, memory
<1>3. IInv /\ Alone(p) /\ [Next]_vars => Alone(p)'
  BY <1>2, AloneKeeps
<1> QED
  BY <1>1, <1>3, Invariant, PTL DEF Spec

\* With one backend over the file no mutation ever takes an update out of it,
\* whatever fails and however often the backend dies and comes back.
THEOREM OneProcessKeepsAll ==
  ASSUME NEW p \in Procs, \A q \in Procs : q = p
  PROVE  Spec => [][file.content \subseteq file'.content]_vars
<1>1. ASSUME IInv, Alone(p), Next PROVE file.content \subseteq file'.content
  <2>1. CASE Rename(p)
    <3>1. mutation[p].pc = "write" /\ cache[p] # NoDoc /\ file'.content = cache[p]
      BY <1>1, <2>1 DEF Rename, IInv, TypeOK
    <3>2. saved[p] = file.content
      BY <1>1, <3>1 DEF Alone, IInv, Faithful, Sees
    <3> QED
      BY <1>1, <3>1, <3>2 DEF IInv, Cached
  <2>2. CASE ~Rename(p)
    BY <1>1, <2>2 DEF Next, Load, Mutate, ReadStep, StatFile, ReadContent, LandRead, MutationStep,
                      Begin, CheckStamp, Loaded, Apply, Persisted, WriteFails, CheckFails,
                      ReadFails, Die
  <2> QED
    BY <2>1, <2>2
<1>2. IInv /\ Alone(p) /\ [Next]_vars => [file.content \subseteq file'.content]_vars
  BY <1>1
<1> QED
  BY <1>2, Invariant, KeepsAlone, PTL DEF Spec
-----------------------------------------------------------------------------
(* One backend: the store is a register updated in the order of the calls. *)

\* A line with one more in front, and who is in a line.
Front(u, s) == <<u>> \o s
Among(v, s) == \E i \in DOMAIN s : s[i] = v

\* What it has, and what is left of it.
LEMMA InFront ==
  ASSUME NEW u \in Updates, NEW s \in Seq(Updates)
  PROVE  /\ Front(u, s) \in Seq(Updates) /\ Front(u, s) # <<>>
         /\ Head(Front(u, s)) = u /\ Tail(Front(u, s)) = s
         /\ \A v \in Updates : Append(Front(u, s), v) = Front(u, Append(s, v))
         /\ \A v : Among(v, Front(u, s)) <=> v = u \/ Among(v, s)
<1> DEFINE l == <<u>> \o s
           n == Len(s)
<1>1. /\ n \in Nat /\ l \in Seq(Updates) /\ DOMAIN l = 1 .. n + 1 /\ DOMAIN s = 1 .. n
      /\ l[1] = u /\ \A i \in 1 .. n : l[i + 1] = s[i]
  OBVIOUS
<1>2. Head(l) = u /\ l # <<>>
  OBVIOUS
<1>3. Tail(l) = s
  OBVIOUS
<1>4. ASSUME NEW v \in Updates PROVE Append(l, v) = <<u>> \o Append(s, v)
  <2>1. Append(l, v) = l \o <<v>> /\ Append(s, v) = s \o <<v>>
    BY <1>1, AppendIsConcat
  <2>2. (<<u>> \o s) \o <<v>> = <<u>> \o (s \o <<v>>)
    <3>1. <<u>> \in Seq(Updates) /\ <<v>> \in Seq(Updates)
      OBVIOUS
    <3> QED
      BY <3>1, ConcatAssociative
  <2> QED
    BY <2>1, <2>2
<1> HIDE DEF l, n
<1>5. ASSUME NEW v, v = u \/ \E i \in DOMAIN s : s[i] = v PROVE \E i \in DOMAIN l : l[i] = v
  <2>1. CASE v = u
    <3>1. 1 \in DOMAIN l
      BY <1>1
    <3> QED
      BY <1>1, <2>1, <3>1
  <2>2. ASSUME NEW i \in DOMAIN s, s[i] = v PROVE \E j \in DOMAIN l : l[j] = v
    <3>1. i + 1 \in DOMAIN l /\ l[i + 1] = v
      BY <1>1, <2>2
    <3> QED
      BY <3>1
  <2> QED
    BY <1>5, <2>1, <2>2
<1>6. ASSUME NEW v, NEW i \in DOMAIN l, l[i] = v PROVE v = u \/ \E j \in DOMAIN s : s[j] = v
  <2>1. CASE i = 1
    BY <1>1, <1>6, <2>1
  <2>2. CASE i # 1
    <3>1. i - 1 \in DOMAIN s /\ (i - 1) + 1 = i
      BY <1>1, <2>2
    <3>2. s[i - 1] = v
      BY <1>1, <1>6, <3>1
    <3> QED
      BY <3>1, <3>2
  <2> QED
    BY <2>1, <2>2
<1>7. \A v : Among(v, l) <=> v = u \/ Among(v, s)
  BY <1>5, <1>6 DEF Among
<1>8. Front(u, s) = l
  BY DEF Front, l
<1>9. \A v \in Updates : Append(l, v) = Front(u, Append(s, v))
  BY <1>4 DEF Front
<1> QED
  BY <1>1, <1>2, <1>3, <1>7, <1>8, <1>9

\* It grows at its end as the others do.
LEMMA AppendInFront ==
  ASSUME NEW u \in Updates, NEW s \in Seq(Updates), NEW v \in Updates
  PROVE  Append(Front(u, s), v) = Front(u, Append(s, v))
  BY InFront

\* Who is in it: the one in front and the others.
LEMMA HasInFront ==
  ASSUME NEW u \in Updates, NEW s \in Seq(Updates), NEW v
  PROVE  Among(v, Front(u, s)) <=> v = u \/ Among(v, s)
  BY InFront

\* A line that is not empty is its first before the others.
LEMMA FirstInFront ==
  ASSUME NEW s \in Seq(Updates), s # <<>>
  PROVE  Head(s) \in Updates /\ Tail(s) \in Seq(Updates) /\ s = Front(Head(s), Tail(s))
  BY DEF Front

\* The line of a process, whether it runs a mutation or not.
LEMMA LineFacts ==
  ASSUME IInv, NEW p \in Procs
  PROVE  /\ queue[p] \in Seq(Updates) /\ Line(p) \in Seq(Updates)
         /\ mutation[p].pc = "off" => Line(p) = queue[p] /\ Running(p) = NoUpdate
         /\ mutation[p].pc # "off" =>
              /\ Line(p) = Front(Running(p), queue[p]) /\ Running(p) \in Updates
              /\ Line(p) # <<>> /\ Head(Line(p)) = Running(p) /\ Tail(Line(p)) = queue[p]
<1>1. /\ queue[p] \in Seq(Updates) /\ mutation[p] \in MutationRecord
      /\ mutation[p].pc = "off" <=> Running(p) = NoUpdate
  BY DEF IInv, TypeOK, Running
<1>2. CASE mutation[p].pc = "off"
  BY <1>1, <1>2 DEF Line
<1>3. CASE mutation[p].pc # "off"
  <2>1. Running(p) \in Updates
    BY <1>1, <1>3 DEF MutationRecord, Running
  <2>2. Line(p) = Front(Running(p), queue[p])
    BY <1>3 DEF Line, Running, Front
  <2>3. /\ Front(Running(p), queue[p]) \in Seq(Updates)
        /\ Front(Running(p), queue[p]) # <<>>
        /\ Head(Front(Running(p), queue[p])) = Running(p)
        /\ Tail(Front(Running(p), queue[p])) = queue[p]
    BY <1>1, <2>1, InFront, Zenon
  <2> QED
    BY <1>1, <1>3, <2>1, <2>2, <2>3
<1> QED
  BY <1>2, <1>3

\* The register of one backend is at rest while its line, its document and its answers are.
LEMMA LineStays ==
  ASSUME IInv, IInv', NEW p \in Procs, queue'[p] = queue[p],
         mutation'[p].update = mutation[p].update
  PROVE  Line(p)' = Line(p)
<1>1. mutation[p].pc = "off" <=> mutation[p].update = NoUpdate
  BY DEF IInv, TypeOK
<1>2. mutation'[p].pc = "off" <=> mutation'[p].update = NoUpdate
  BY DEF IInv, TypeOK
<1> QED
  BY <1>1, <1>2 DEF Line

\* The mutation that is over is the first of the line, and its caller is answered.
LEMMA SettleAnswers ==
  ASSUME IInv, IInv', NEW p \in Procs, \A q \in Procs : q = p,
         mutation[p].pc # "off", NEW result \in {"resolved", "rejected"}, Settle(p, result),
         UNCHANGED <<file, queue>>,
         result = "resolved" /\ Changed(p) => Running(p) \in file.content
  PROVE  Register!Answer(result)
<1>0. Backend = p
  BY DEF Backend
<1>1. /\ mutation'[p] = NoMutation /\ Running(p) \in Updates
      /\ outcome'[Running(p)] = result /\ outcome' = [outcome EXCEPT ![Running(p)] = result]
  BY SettleFacts DEF IInv, Settle, Running
<1>2. Line(p)' = queue[p]
  BY <1>1 DEF Line, NoMutation
<1>3. Line(p) # <<>> /\ Head(Line(p)) = Running(p) /\ Tail(Line(p)) = queue[p]
  BY LineFacts
<1>4. result = "rejected" => Running(p) \notin file.content
  <2>1. \A u \in file'.content : entered'[u] > 0
    BY DEF IInv, Reached
  <2>2. \A u \in Updates : entered'[u] > 0 => outcome'[u] # "rejected"
    BY DEF IInv, Reached
  <2> QED
    BY <1>1, <2>1, <2>2
<1>5. Changed(p)' = FALSE
  BY <1>1 DEF Changed, NoMutation
<1> QED
  BY <1>0, <1>1, <1>2, <1>3, <1>4, <1>5 DEF Register!Answer

\* A mutation that has not made its change has it nowhere.
LEMMA NotYet ==
  ASSUME IInv, NEW p \in Procs, mutation[p].pc = "apply"
  PROVE  /\ Running(p) \in Updates /\ Running(p) \notin file.content
         /\ cache[p] # NoDoc /\ Running(p) \notin cache[p]
<1>1. Running(p) \in Updates /\ Running(p) # NoUpdate /\ cache[p] # NoDoc
  BY DEF IInv, TypeOK, MutationRecord, Running
<1>2. ~(entered[Running(p)] > 0)
  <2>1. outcome[Running(p)] = "called"
    BY <1>1 DEF IInv, Places
  <2>2. \A q \in Procs : Running(q) = Running(p) => mutation[q].pc # "renamed"
    BY <1>1 DEF IInv, Places
  <2> QED
    BY <1>1, <2>1, <2>2 DEF IInv, Reached
<1>3. Running(p) \notin file.content
  BY <1>2 DEF IInv, Reached
<1>4. Running(p) \notin cache[p]
  <2>1. cache[p] \subseteq saved[p]
    BY <1>1 DEF IInv, Cached, Dirty
  <2> QED
    BY <1>1, <1>2, <2>1 DEF IInv, Reached
<1> QED
  BY <1>1, <1>3, <1>4

\* With one backend every step of the store is one of the register, or none.
LEMMA RegisterStep ==
  ASSUME IInv, IInv', NEW p \in Procs, \A q \in Procs : q = p, Alone(p), Next
  PROVE  Register!Next \/ UNCHANGED Register!registerVars
<1> DEFINE Rests == /\ UNCHANGED <<file, outcome>> /\ queue'[p] = queue[p]
                    /\ mutation'[p].update = mutation[p].update
                    /\ Changed(p)' = Changed(p)
<1>0. Backend = p /\ mutation[p] \in MutationRecord /\ DOMAIN mutation = Procs /\ DOMAIN queue = Procs
  BY DEF Backend, IInv, TypeOK
<1>1. ASSUME Rests PROVE UNCHANGED Register!registerVars
  BY <1>0, <1>1, LineStays DEF Register!registerVars
<1>2. ASSUME NEW result \in {"resolved", "rejected"}, mutation[p].pc # "off",
             Settle(p, result), UNCHANGED <<file, queue>>,
             result = "resolved" /\ Changed(p) => Running(p) \in file.content
      PROVE  Register!Next
  BY <1>2, SettleAnswers DEF Register!Next
<1>3. ASSUME Load(p) \/ StatFile(p) \/ ReadContent(p) \/ LandRead(p) \/ Loaded(p) \/ CheckStamp(p)
      PROVE  Rests
  <2>1. /\ UNCHANGED <<file, outcome>> /\ queue'[p] = queue[p]
        /\ mutation'[p].update = mutation[p].update
    BY <1>0, <1>3 DEF Load, StatFile, ReadContent, LandRead, Loaded, CheckStamp, Goto, MutationRecord
  <2>2. CASE Load(p) \/ StatFile(p) \/ ReadContent(p)
    BY <2>1, <2>2 DEF Load, StatFile, ReadContent, Changed, memory
  <2>3. CASE LandRead(p)
    <3>1. mutation[p].pc \notin {"write", "renamed"} /\ mutation' = mutation
      BY <2>3 DEF LandRead, IInv, Cached, TypeOK
    <3> QED
      BY <2>1, <3>1 DEF Changed
  <2>4. CASE Loaded(p) \/ CheckStamp(p)
    <3>1. mutation[p].pc \in {"load", "check"} /\ mutation'[p].pc \in {"apply", "load"}
      BY <1>0, <2>4 DEF Loaded, CheckStamp, Goto, MutationRecord
    <3> QED
      BY <2>1, <3>1 DEF Changed
  <2> QED
    BY <1>3, <2>2, <2>3, <2>4
<1>4. ASSUME NEW u \in Updates, Mutate(p, u) PROVE Register!Next
  <2>1. /\ outcome[u] = "none" /\ outcome' = [outcome EXCEPT ![u] = "called"]
        /\ queue'[p] = Append(queue[p], u) /\ UNCHANGED <<file, mutation, cache>>
    BY <1>0, <1>4 DEF Mutate, memory
  <2>2. Line(p)' = Append(Line(p), u)
    <3>1. CASE mutation[p].pc = "off"
      BY <2>1, <3>1 DEF Line
    <3>2. CASE mutation[p].pc # "off"
      <4>1. Running(p) \in Updates /\ queue[p] \in Seq(Updates) /\ Line(p) = Front(Running(p), queue[p])
        BY <3>2, LineFacts
      <4>2. Line(p)' = Front(mutation'[p].update, queue'[p])
        <5>1. mutation'[p].pc # "off"
          BY <2>1, <3>2
        <5> QED
          BY <5>1 DEF Line, Front
      <4>3. Line(p)' = Front(Running(p), Append(queue[p], u))
        BY <2>1, <4>2 DEF Running
      <4> QED
        <5>1. Append(Front(Running(p), queue[p]), u) = Front(Running(p), Append(queue[p], u))
          BY <4>1, AppendInFront
        <5> QED
          BY <4>1, <4>3, <5>1
    <3> QED
      BY <3>1, <3>2
  <2>3. Changed(p)' = Changed(p)
    BY <2>1 DEF Changed
  <2>4. Register!Call(u)
    BY <1>0, <2>1, <2>2, <2>3 DEF Register!Call
  <2> QED
    BY <2>4 DEF Register!Next
<1>5. ASSUME Begin(p) PROVE UNCHANGED Register!registerVars
  <2>1. /\ mutation[p].pc = "off" /\ queue[p] # <<>> /\ queue'[p] = Tail(queue[p])
        /\ mutation'[p].pc \in {"load", "check"} /\ mutation'[p].update = Head(queue[p])
        /\ UNCHANGED <<file, outcome>>
    BY <1>0, <1>5 DEF Begin
  <2>2. Line(p) = queue[p] /\ Line(p)' = Front(Head(queue[p]), Tail(queue[p]))
    BY <2>1 DEF Line, Front
  <2>3. Line(p)' = Line(p)
    BY <2>1, <2>2, LineFacts, FirstInFront
  <2>4. Changed(p)' = Changed(p)
    BY <2>1 DEF Changed
  <2> QED
    BY <1>0, <2>1, <2>3, <2>4 DEF Register!registerVars
<1>6. ASSUME Apply(p) PROVE Register!Next \/ Rests
  <2>1. mutation[p].pc = "apply" /\ UNCHANGED <<file, queue>> /\ ~Changed(p)
    BY <1>6 DEF Apply, Changed
  <2>2. ASSUME Goto(p, "write") PROVE mutation'[p] = [mutation[p] EXCEPT !.pc = "write"]
    BY <1>0, <2>2 DEF Goto
  <2>3. CASE Change(p)
    <3>1. /\ mutation'[p].pc = "write" /\ mutation'[p].update = Running(p)
          /\ Running(p) \in cache'[p] /\ UNCHANGED outcome
      BY <1>0, <2>2, <2>3 DEF Change, Running, IInv, TypeOK, MutationRecord
    <3>2. Changed(p)'
      BY <3>1 DEF Changed
    <3>3. Line(p)' = Line(p) /\ Line(p) # <<>> /\ Head(Line(p)) = Running(p)
      <4>1. Line(p)' = Line(p)
        BY <2>1, <3>1, LineStays DEF Running
      <4> QED
        BY <2>1, <4>1, LineFacts
    <3>4. Register!Change
      BY <1>0, <2>1, <3>1, <3>2, <3>3, NotYet DEF Register!Change
    <3> QED
      BY <3>4 DEF Register!Next
  <2>4. CASE Nothing(p) /\ Goto(p, "write") /\ UNCHANGED outcome
    <3>1. mutation'[p].update = mutation[p].update /\ UNCHANGED cache
      BY <1>0, <2>2, <2>4 DEF Nothing, memory, MutationRecord
    <3>2. ~Changed(p)'
      BY <3>1, <2>1, NotYet DEF Changed, Running
    <3>3. Changed(p)' = Changed(p)
      BY <2>1, <3>2 DEF Changed
    <3>4. queue'[p] = queue[p]
      BY <2>1
    <3> QED
      BY <2>1, <2>4, <3>1, <3>3, <3>4
  <2>5. ASSUME NEW result \in {"resolved", "rejected"}, Settle(p, result) PROVE Register!Next
    BY <1>2, <2>1, <2>5
  <2> HIDE DEF Rests
  <2> QED
    BY <1>6, <2>1, <2>3, <2>4, <2>5 DEF Apply, Nothing, Refuse, ThrowHalfway
<1>7. ASSUME Rename(p) PROVE Register!Next \/ UNCHANGED Register!registerVars
  <2>1. /\ mutation[p].pc = "write" /\ cache[p] # NoDoc /\ file'.content = cache[p]
        /\ UNCHANGED <<queue, outcome, cache>> /\ mutation'[p].update = mutation[p].update
        /\ mutation'[p].pc = "renamed"
    BY <1>0, <1>7 DEF Rename, IInv, TypeOK, memory
  <2>2. saved[p] = file.content
    BY <2>1 DEF Alone, IInv, Faithful, Sees
  <2>3. file'.content = file.content \/ file'.content = file.content \union {Running(p)}
    <3>1. saved[p] \subseteq cache[p] /\ cache[p] \subseteq saved[p] \union {Running(p)}
      BY <2>1 DEF IInv, Cached, Dirty
    <3> QED
      BY <2>1, <2>2, <3>1
  <2>4. Line(p)' = Line(p) /\ Line(p) # <<>> /\ Head(Line(p)) = Running(p)
    <3>1. queue'[p] = queue[p] /\ mutation'[p].update = mutation[p].update /\ mutation[p].pc # "off"
      BY <2>1
    <3>2. Line(p)' = Line(p)
      BY <3>1, LineStays
    <3> QED
      BY <3>1, <3>2, LineFacts
  <2>5. Changed(p)' = Changed(p)
    BY <2>1 DEF Changed
  <2>6. CASE file'.content = file.content
    BY <1>0, <2>1, <2>4, <2>6, <2>5 DEF Register!registerVars
  <2>7. CASE file'.content # file.content
    <3>1. Changed(p) /\ Running(p) \notin file.content
      BY <2>1, <2>3, <2>7 DEF Changed, Running
    <3>2. Register!Commit
      BY <1>0, <2>1, <2>3, <2>4, <2>7, <2>5, <3>1 DEF Register!Commit
    <3> QED
      BY <3>2 DEF Register!Next
  <2> QED
    BY <2>6, <2>7
<1>8. ASSUME Persisted(p) \/ WriteFails(p) \/ CheckFails(p) PROVE Register!Next
  <2>1. CASE Persisted(p)
    <3>1. /\ mutation[p].pc = "renamed" /\ cache[p] # NoDoc
          /\ Settle(p, "resolved") /\ UNCHANGED <<file, queue>>
      BY <2>1 DEF Persisted, IInv, TypeOK
    <3>2. cache[p] = file.content
      BY <3>1 DEF Alone, IInv, Faithful, Sees
    <3>3. Changed(p) => Running(p) \in file.content
      BY <3>2 DEF Changed, Running
    <3> QED
      BY <1>2, <3>1, <3>3
  <2>2. CASE WriteFails(p) \/ CheckFails(p)
    BY <1>2, <2>2 DEF WriteFails, CheckFails
  <2> QED
    BY <1>8, <2>1, <2>2
<1>9. ASSUME ReadFails(p) PROVE Register!Next \/ Rests
  <2>1. UNCHANGED <<file, queue, cache>>
    BY <1>9 DEF ReadFails, memory
  <2>2. CASE mutation[p].pc = "load"
    BY <1>2, <1>9, <2>1, <2>2 DEF ReadFails
  <2>3. CASE mutation[p].pc # "load"
    <3>1. UNCHANGED <<mutation, outcome>>
      BY <1>9, <2>3 DEF ReadFails
    <3> QED
      BY <2>1, <3>1 DEF Changed
  <2> QED
    BY <2>2, <2>3
<1>10. ASSUME Die(p) PROVE Register!Next
  <2>1. /\ mutation'[p] = NoMutation /\ queue'[p] = <<>> /\ UNCHANGED file
        /\ outcome' = [u \in Updates |-> IF u \in Waiting(p) THEN "unknown" ELSE outcome[u]]
    BY <1>0, <1>10 DEF Die
  <2>2. Line(p)' = <<>>
    BY <2>1 DEF Line, NoMutation
  <2>3. \A u \in Updates : u \in Waiting(p) <=> Among(u, Line(p))
    <3> TAKE u \in Updates
    <3>1. u \in Waiting(p) <=> u = Running(p) \/ Among(u, queue[p])
      BY DEF Waiting, Running, Among
    <3>2. CASE mutation[p].pc = "off"
      BY <3>1, <3>2, LineFacts
    <3>3. CASE mutation[p].pc # "off"
      <4>1. Running(p) \in Updates /\ queue[p] \in Seq(Updates) /\ Line(p) = Front(Running(p), queue[p])
        BY <3>3, LineFacts
      <4>2. Among(u, Front(Running(p), queue[p])) <=> u = Running(p) \/ Among(u, queue[p])
        BY <4>1, HasInFront
      <4> QED
        BY <3>1, <4>1, <4>2
    <3> QED
      BY <3>2, <3>3
  <2>4. outcome' = [u \in Updates |-> IF \E i \in DOMAIN Line(p) : Line(p)[i] = u
                                      THEN "unknown" ELSE outcome[u]]
    BY <2>1, <2>3 DEF Among
  <2>5. ~Changed(p)'
    BY <2>1 DEF Changed, NoMutation
  <2>6. Register!Forget
    BY <1>0, <2>1, <2>2, <2>4, <2>5 DEF Register!Forget
  <2> QED
    BY <2>6 DEF Register!Next
<1> HIDE DEF Rests
<1> QED
  BY <1>1, <1>3, <1>4, <1>5, <1>6, <1>7, <1>8, <1>9, <1>10 DEF Next, ReadStep, MutationStep

\* KeepsRegister: with one backend over the file, mutate() is an update of a register,
\* whatever fails and however often the backend dies (jsonStore.ts, mutate and its queue).
THEOREM RefinesRegister ==
  ASSUME NEW p \in Procs, \A q \in Procs : q = p
  PROVE  Spec => KeepsRegister
<1>1. Init => Register!Init
  <2>1. Backend \in Procs
    BY DEF Backend
  <2> QED
    BY <2>1 DEF Init, Register!Init, Line, Changed, NoMutation
<1>2. ASSUME IInv, IInv', Alone(p), [Next]_vars
      PROVE  [Register!Next]_(Register!registerVars)
  <2>1. CASE Next
    BY <1>2, <2>1, RegisterStep
  <2>2. CASE UNCHANGED vars
    <3>1. /\ UNCHANGED <<file, outcome>> /\ Line(Backend)' = Line(Backend)
          /\ Changed(Backend)' = Changed(Backend)
      BY <2>2 DEF vars, memory, Line, Changed
    <3> QED
      BY <3>1 DEF Register!registerVars
  <2> QED
    BY <1>2, <2>1, <2>2
<1> QED
  BY <1>1, <1>2, Invariant, KeepsAlone, PTL DEF Spec, KeepsRegister, Register!Spec
=============================================================================

----------------------------- MODULE JsonStore -----------------------------
(***************************************************************************)
(* The document store (store/jsonStore.ts over store/atomicWrite.ts): one  *)
(* JSON file, cached in memory, changed by one mutation at a time in each  *)
(* process, replaced by renaming a temporary file over it.  During a       *)
(* deploy two backends run over the same file; a stamp of the file (inode, *)
(* size, mtime) tells each whether the other has replaced it.              *)
(*                                                                         *)
(* A document is the set of the updates it contains: a mutation that       *)
(* changes the document puts its own update in it.  A stamp is the number  *)
(* of the write that made the file, 0 for no file: the inode of a fresh    *)
(* temporary file is taken to be new, as the code takes it.  What normalize*)
(* fills in, serialisation and file modes are left out; a temporary file   *)
(* left by a crash has a name of its own that no process ever reads.       *)
(***************************************************************************)
EXTENDS Naturals, Sequences

CONSTANTS
  Procs,     \* backends over the file
  Updates,   \* mutations that may ever be called
  NoDoc,     \* the cache when there is none
  NoUpdate,  \* the mutation of a process that runs none
  MaxFaults  \* bound: reads and writes that fail, processes that die

ASSUME NoDocAssumption == \A d \in SUBSET Updates : d # NoDoc
ASSUME NoUpdateAssumption == NoUpdate \notin Updates
ASSUME MaxFaultsAssumption == MaxFaults \in Nat

VARIABLES
  file,     \* the file: its content and its stamp
  entered,  \* history: the stamp of the write that last brought each update in
  cache,    \* the live document of each process
  saved,    \* the cache as the disk has it
  stamp,    \* identity of the file the cache came from
  read,     \* the cold read in flight, shared by every caller
  queue,    \* mutations called and not begun
  mutation, \* the mutation each process runs, the stamp of the file when it
            \* began (history), whether it found a cold read in flight
            \* (history), and the stamp of the file it made
  outcome,  \* what the caller of each mutation was told
  faults

memory == <<cache, saved, stamp>>
vars   == <<file, entered, memory, read, queue, mutation, outcome, faults>>

Documents == SUBSET Updates

ReadRecord ==
  [pc : {"off", "stat", "content", "land"}, stamp : Nat, content : Documents]

MutationRecord ==
  [pc : {"off", "check", "load", "apply", "write", "renamed"},
   update : Updates \union {NoUpdate}, begun : Nat, joined : BOOLEAN, made : Nat]

NoRead     == [pc |-> "off", stamp |-> 0, content |-> {}]
NoMutation == [pc |-> "off", update |-> NoUpdate, begun |-> 0, joined |-> FALSE, made |-> 0]

\* A process may come up to a file that was there before, or to none.
Init ==
  /\ file \in [content : {{}}, stamp : {0, 1}]
  /\ entered = [u \in Updates |-> 0]
  /\ cache = [p \in Procs |-> NoDoc]
  /\ saved = [p \in Procs |-> NoDoc]
  /\ stamp = [p \in Procs |-> 0]
  /\ read = [p \in Procs |-> NoRead]
  /\ queue = [p \in Procs |-> <<>>]
  /\ mutation = [p \in Procs |-> NoMutation]
  /\ outcome = [u \in Updates |-> "none"]
  /\ faults = 0

-----------------------------------------------------------------------------
(* Reading.                                                                *)

Fault == faults < MaxFaults /\ faults' = faults + 1

\* load() with nothing cached: the read in flight is joined, or one begins.
JoinRead(p) ==
  read' = [read EXCEPT ![p] = IF @.pc = "off" THEN [NoRead EXCEPT !.pc = "stat"] ELSE @]

\* A caller of load() who finds no cache.  With a cache it changes nothing.
Load(p) ==
  /\ cache[p] = NoDoc /\ read[p].pc = "off"
  /\ JoinRead(p)
  /\ UNCHANGED <<file, entered, memory, queue, mutation, outcome, faults>>

\* readFromDisk: the stamp first, ...
StatFile(p) ==
  /\ read[p].pc = "stat"
  /\ read' = [read EXCEPT ![p] = [pc |-> IF file.stamp = 0 THEN "land" ELSE "content",
                                  stamp |-> file.stamp, content |-> {}]]
  /\ UNCHANGED <<file, entered, memory, queue, mutation, outcome, faults>>

\* ... then the content, which may be that of a later write.
ReadContent(p) ==
  /\ read[p].pc = "content"
  /\ read' = [read EXCEPT ![p] =
       [pc |-> "land", stamp |-> read[p].stamp, content |-> file.content]]
  /\ UNCHANGED <<file, entered, memory, queue, mutation, outcome, faults>>

\* Mutant of LandRead: the stamp is taken last.
LandReadStamp(p) ==
  /\ read[p].pc = "land"
  /\ cache' = [cache EXCEPT ![p] = read[p].content]
  /\ saved' = [saved EXCEPT ![p] = read[p].content]
  /\ stamp' = [stamp EXCEPT ![p] = file.stamp]
  /\ read' = [read EXCEPT ![p] = NoRead]
  /\ UNCHANGED <<file, entered, queue, mutation, outcome, faults>>

\* The event loop comes back to it: the cache is what was read.
LandRead(p) ==
  /\ read[p].pc = "land"
  /\ cache' = [cache EXCEPT ![p] = read[p].content]
  /\ saved' = [saved EXCEPT ![p] = read[p].content]
  /\ stamp' = [stamp EXCEPT ![p] = read[p].stamp]
  /\ read' = [read EXCEPT ![p] = NoRead]
  /\ UNCHANGED <<file, entered, queue, mutation, outcome, faults>>

DropCache(p) ==
  /\ cache' = [cache EXCEPT ![p] = NoDoc]
  /\ saved' = [saved EXCEPT ![p] = NoDoc]
  /\ stamp' = [stamp EXCEPT ![p] = 0]

-----------------------------------------------------------------------------
(* mutate.                                                                 *)

\* A call waits for the mutations called before it.
Mutate(p, u) ==
  /\ outcome[u] = "none"
  /\ outcome' = [outcome EXCEPT ![u] = "called"]
  /\ queue' = [queue EXCEPT ![p] = Append(@, u)]
  /\ UNCHANGED <<file, entered, memory, read, mutation, faults>>

\* Mutant of Settle: a rejection is left in the chain.
SettlePoisoned(p, result) ==
  /\ outcome' = [outcome EXCEPT ![mutation[p].update] = result]
  /\ mutation' = [mutation EXCEPT ![p] =
       IF result = "rejected" THEN [@ EXCEPT !.pc = "rejected"] ELSE NoMutation]

\* The caller is told, and the next mutation may begin.
Settle(p, result) ==
  /\ outcome' = [outcome EXCEPT ![mutation[p].update] = result]
  /\ mutation' = [mutation EXCEPT ![p] = NoMutation]

Goto(p, step) == mutation' = [mutation EXCEPT ![p].pc = step]

\* `run` up to its first await.
Begin(p) ==
  /\ mutation[p].pc = "off" /\ queue[p] # <<>>
  /\ queue' = [queue EXCEPT ![p] = Tail(@)]
  /\ mutation' = [mutation EXCEPT ![p] =
       [pc |-> IF cache[p] = NoDoc THEN "load" ELSE "check",
        update |-> Head(queue[p]), begun |-> file.stamp,
        joined |-> read[p].pc # "off", made |-> 0]]
  /\ IF cache[p] = NoDoc THEN JoinRead(p) ELSE UNCHANGED read
  /\ UNCHANGED <<file, entered, memory, outcome, faults>>

\* Mutant of CheckStamp: the cache is trusted.
CheckStampTrusting(p) ==
  /\ mutation[p].pc = "check"
  /\ Goto(p, "apply")
  /\ UNCHANGED <<file, entered, memory, read, queue, outcome, faults>>

\* fileChanged: the other process may have replaced the file.
CheckStamp(p) ==
  /\ mutation[p].pc = "check"
  /\ IF file.stamp = stamp[p]
       THEN Goto(p, "apply") /\ UNCHANGED <<memory, read>>
       ELSE Goto(p, "load") /\ DropCache(p) /\ JoinRead(p)
  /\ UNCHANGED <<file, entered, queue, outcome, faults>>

\* Mutant of Loaded: load() is not awaited.
LoadedEarly(p) ==
  /\ mutation[p].pc = "load"
  /\ Goto(p, "apply")
  /\ UNCHANGED <<file, entered, memory, read, queue, outcome, faults>>

\* `await this.load()` has the document.
Loaded(p) ==
  /\ mutation[p].pc = "load" /\ cache[p] # NoDoc
  /\ Goto(p, "apply")
  /\ UNCHANGED <<file, entered, memory, read, queue, outcome, faults>>

\* fn changes the live document in place.
Change(p) ==
  /\ cache' = [cache EXCEPT ![p] = @ \union {mutation[p].update}]
  /\ Goto(p, "write")
  /\ UNCHANGED <<saved, stamp, outcome>>

\* fn changes nothing: only a file that is not there yet is written.
Nothing(p) ==
  /\ IF stamp[p] = 0 THEN Goto(p, "write") /\ UNCHANGED outcome
                     ELSE Settle(p, "resolved")
  /\ UNCHANGED memory

\* fn throws before it touched the document.
Refuse(p) == Settle(p, "rejected") /\ UNCHANGED memory

\* fn throws halfway through its changes: the document is dirty.
ThrowHalfway(p) == Settle(p, "rejected") /\ DropCache(p)

Apply(p) ==
  /\ mutation[p].pc = "apply"
  /\ Change(p) \/ Nothing(p) \/ Refuse(p) \/ ThrowHalfway(p)
  /\ UNCHANGED <<file, entered, read, queue, faults>>

\* writeFileAtomic: the temporary file becomes the file.
Rename(p) ==
  /\ mutation[p].pc = "write"
  /\ file' = [content |-> cache[p], stamp |-> file.stamp + 1]
  /\ entered' = [u \in Updates |-> IF u \in cache[p] \ file.content
                                     THEN file'.stamp ELSE entered[u]]
  /\ mutation' = [mutation EXCEPT ![p] =
       [pc |-> "renamed", update |-> mutation[p].update,
        begun |-> 0, joined |-> FALSE, made |-> file'.stamp]]
  /\ UNCHANGED <<memory, read, queue, outcome, faults>>

\* The stamp is that of the temporary file, taken before the rename.
Persisted(p) ==
  /\ mutation[p].pc = "renamed"
  /\ stamp' = [stamp EXCEPT ![p] = mutation[p].made]
  /\ saved' = [saved EXCEPT ![p] = cache[p]]
  /\ Settle(p, "resolved")
  /\ UNCHANGED <<file, entered, cache, read, queue, faults>>

-----------------------------------------------------------------------------
(* What goes wrong.                                                        *)

\* Mutant of WriteFails: the cache keeps what the disk refused.
WriteFailsKeeping(p) ==
  /\ mutation[p].pc = "write" /\ Fault
  /\ Settle(p, "rejected")
  /\ UNCHANGED <<file, entered, memory, read, queue>>

\* The disk refuses the write: the old file stays.
WriteFails(p) ==
  /\ mutation[p].pc = "write" /\ Fault
  /\ Settle(p, "rejected") /\ DropCache(p)
  /\ UNCHANGED <<file, entered, read, queue>>

\* The stat of fileChanged fails.
CheckFails(p) ==
  /\ mutation[p].pc = "check" /\ Fault
  /\ Settle(p, "rejected")
  /\ UNCHANGED <<file, entered, memory, read, queue>>

\* The cold read fails, and with it every load() that shares it.
ReadFails(p) ==
  /\ read[p].pc \in {"stat", "content"} /\ Fault
  /\ read' = [read EXCEPT ![p] = NoRead]
  /\ IF mutation[p].pc = "load" THEN Settle(p, "rejected")
                                ELSE UNCHANGED <<mutation, outcome>>
  /\ UNCHANGED <<file, entered, memory, queue>>

Waiting(p) ==
  {mutation[p].update} \union {queue[p][i] : i \in DOMAIN queue[p]}

\* The process dies, and another takes its place: all it had was memory.
Die(p) ==
  /\ Fault
  /\ DropCache(p)
  /\ read' = [read EXCEPT ![p] = NoRead]
  /\ queue' = [queue EXCEPT ![p] = <<>>]
  /\ mutation' = [mutation EXCEPT ![p] = NoMutation]
  /\ outcome' = [u \in Updates |-> IF u \in Waiting(p) THEN "unknown" ELSE outcome[u]]
  /\ UNCHANGED <<file, entered>>

ReadStep(p)     == StatFile(p) \/ ReadContent(p) \/ LandRead(p)
MutationStep(p) ==
  Begin(p) \/ CheckStamp(p) \/ Loaded(p) \/ Apply(p) \/ Rename(p) \/ Persisted(p)

Next ==
  \E p \in Procs :
    \/ Load(p) \/ \E u \in Updates : Mutate(p, u)
    \/ ReadStep(p) \/ MutationStep(p)
    \/ WriteFails(p) \/ CheckFails(p) \/ ReadFails(p) \/ Die(p)

Spec == Init /\ [][Next]_vars

\* Every call of the file system ends.
Fairness == \A p \in Procs : WF_vars(ReadStep(p)) /\ WF_vars(MutationStep(p))

FairSpec == Spec /\ Fairness

-----------------------------------------------------------------------------
(* Properties.                                                             *)

\* Every variable keeps its type, and a mutation past its load has a document.
TypeOK ==
  /\ file \in [content : Documents, stamp : Nat]
  /\ entered \in [Updates -> Nat]
  /\ cache \in [Procs -> {NoDoc} \union Documents]
  /\ saved \in [Procs -> {NoDoc} \union Documents]
  /\ stamp \in [Procs -> Nat]
  /\ read \in [Procs -> ReadRecord]
  /\ queue \in [Procs -> Seq(Updates)]
  /\ mutation \in [Procs -> MutationRecord]
  /\ outcome \in [Updates -> {"none", "called", "resolved", "rejected", "unknown"}]
  /\ faults \in 0 .. MaxFaults
  /\ \A p \in Procs :
       /\ mutation[p].pc = "off" <=> mutation[p].update = NoUpdate
       /\ mutation[p].pc \in {"check", "apply", "write", "renamed"} => cache[p] # NoDoc

\* A stamp that still matches the file tells the truth: whatever the other
\* process renames between the steps of a read or of a write, a cache with
\* the stamp of the file has the content of the file.
StampsTell ==
  \A p \in Procs :
    cache[p] # NoDoc /\ stamp[p] = file.stamp => saved[p] = file.content

\* "Instead of serving the rejected change and letting the next successful
\* mutation persist it": a change whose caller was told no is nowhere.
RejectedIsGone ==
  \A u \in Updates : outcome[u] = "rejected" =>
    /\ u \notin file.content
    /\ \A p \in Procs : cache[p] # NoDoc => u \notin cache[p]

\* A write erases nothing its mutation could have seen: an update that a
\* rename takes out of the file had entered it after the mutation began, or,
\* for a mutation that joined a cold read in flight, after that read had
\* looked at the stamp.  With one process nothing is ever erased.
ErasesOnlyOverlapped ==
  [][\A u \in file.content \ file'.content :
       \E p \in Procs :
         /\ mutation[p].pc = "write"
         /\ entered[u] > IF mutation[p].joined THEN stamp[p] ELSE mutation[p].begun]_vars

\* "One failure must not poison the queue": every mutation called is answered,
\* unless the process dies.
MutationsSettle == \A u \in Updates : outcome[u] = "called" ~> outcome[u] # "called"

\* "Every mutation first checks that the file is still the one this process
\* last read or wrote": what was in the file when a mutation began is in what
\* it writes.
SeesThePast ==
  \A p \in Procs : mutation[p].pc = "write" =>
    \A u \in file.content : entered[u] <= mutation[p].begun => u \in cache[p]

-----------------------------------------------------------------------------
(* The abstract specification, for one backend over the file.              *)

Backend == CHOOSE p \in Procs : TRUE

\* The mutation a process runs is the first of its line.
Line(p) ==
  IF mutation[p].pc = "off" THEN queue[p] ELSE <<mutation[p].update>> \o queue[p]

\* Its function has put its change in the live document.
Changed(p) ==
  mutation[p].pc \in {"write", "renamed"} /\ mutation[p].update \in cache[p]

Register == INSTANCE UpdateRegister
  WITH value <- file.content, line <- Line(Backend),
       changed <- Changed(Backend), told <- outcome

\* With no other process over the file, mutate() is an update of a register:
\* one after the other in the order of the calls, each wholly or not at all, and
\* no caller is told yes whose change is not in the file.
KeepsRegister == Register!Spec
=============================================================================

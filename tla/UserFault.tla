----------------------------- MODULE UserFault -----------------------------
(***************************************************************************)
(* src/test24.c: the pages of a region are filled on demand by a handler   *)
(* thread that serves userfaultfd.  main reads them without replication,   *)
(* enables it, reads them again, drops half of them, lets them fault anew, *)
(* writes and verifies all, and stops the handler.                         *)
(***************************************************************************)
EXTENDS ReplKernel

CONSTANT NUM_PAGES

ASSUME NumPagesAssumption == NUM_PAGES \in Nat \ {0} /\ NUM_PAGES % 2 = 0

Pages == 0 .. NUM_PAGES - 1
NoPage == -1
HalfPages == NUM_PAGES \div 2

VARIABLES
  pc, i, pass,       \* main
  asleep,            \* main waits in the kernel for the page i
  content,           \* what an access to a page finds: nothing, the
                     \* handler's pattern, main's own, or something else
  queue,             \* the fault message that can be read from uffd
  hpc, taken,        \* the handler, and the page of the message it read
  handlerReady, testComplete, handled,
  mask, struck

mainVars == <<pc, i, pass, asleep, testComplete>>
handlerVars == <<hpc, taken, handlerReady, handled>>
vars == <<mainVars, handlerVars, content, queue, mask, struck>>

\* The loops over the pages: their turns, what they expect, what follows.
LoopTable(verified, written) ==
  [ read1  |-> [turns |-> NUM_PAGES, expects |-> "dead",  next |-> "enable"],
    read2  |-> [turns |-> NUM_PAGES, expects |-> "dead",  next |-> "madvise"],
    read3  |-> [turns |-> HalfPages, expects |-> "dead",  next |-> "write"],
    write  |-> [turns |-> NUM_PAGES, expects |-> "any",   next |-> "verify"],
    verify |-> [turns |-> verified,  expects |-> written, next |-> "disable"] ]

\* Mutants: the verification stops one page early; it expects the old value.
Loop_OneLess == LoopTable(NUM_PAGES - 1, "beef")
Loop_OldValue == LoopTable(NUM_PAGES, "dead")

Loop == LoopTable(NUM_PAGES, "beef")

Exited == pc \in {"skip", "exit0", "exit1"}
HandlerRuns == hpc \notin {"absent", "returned"}

TypeOK ==
  /\ pc \in {"userfaultfd", "api", "mmap", "register", "create", "waitReady",
             "enable", "madvise", "disable", "stop", "join", "cleanup",
             "skip", "exit0", "exit1"} \cup DOMAIN Loop
  /\ i \in 0 .. NUM_PAGES /\ pass \in BOOLEAN /\ asleep \in BOOLEAN
  /\ content \in [Pages -> {"missing", "dead", "beef", "bad"}]
  /\ queue \in Pages \cup {NoPage} /\ taken \in Pages \cup {NoPage}
  /\ hpc \in {"absent", "malloc", "loop", "poll", "read", "copy", "returned"}
  /\ handlerReady \in BOOLEAN /\ testComplete \in BOOLEAN
  /\ handled \in Nat /\ mask \in Mask

Init ==
  /\ pc = "userfaultfd" /\ i = 0 /\ pass = TRUE /\ asleep = FALSE
  /\ content = [p \in Pages |-> "missing"]
  /\ queue = NoPage /\ taken = NoPage
  /\ hpc = "absent" /\ handlerReady = FALSE /\ testComplete = FALSE /\ handled = 0
  /\ mask = 0 /\ struck = {}

(***************************************************************************)
(* main                                                                    *)
(***************************************************************************)

\* A call of the setup, named after its location; main gives up at the first
\* that fails.
Setup(l, next, otherwise) ==
  /\ pc = l
  /\ \E a \in Call(l) :
       pc' = (IF a.ok THEN next ELSE otherwise) /\ struck' = Note(struck, a)
  /\ UNCHANGED <<i, pass, asleep, testComplete, handlerVars, content, queue, mask>>

OpenUffd == Setup("userfaultfd", "api", "skip")

PrepareRegion ==
  \/ Setup("api", "mmap", "exit1")
  \/ Setup("mmap", "register", "exit1")
  \/ Setup("register", "create", "exit1")

StartHandler ==
  /\ pc = "create"
  /\ \E a \in Call("create") :
       /\ pc' = IF a.ok THEN "waitReady" ELSE "exit1"
       /\ hpc' = IF a.ok THEN "malloc" ELSE hpc
       /\ struck' = Note(struck, a)
  /\ UNCHANGED <<i, pass, asleep, testComplete, taken, handlerReady, handled,
                 content, queue, mask>>

WaitReady ==
  /\ pc = "waitReady" /\ handlerReady
  /\ pc' = "read1"
  /\ UNCHANGED <<i, pass, asleep, testComplete, handlerVars, content, queue, mask, struck>>

\* An access to a missing page puts main to sleep, with a message to uffd.
FaultOnPage ==
  /\ pc \in DOMAIN Loop /\ i < Loop[pc].turns /\ ~asleep
  /\ content[i] = "missing"
  /\ asleep' = TRUE /\ queue' = i
  /\ UNCHANGED <<pc, i, pass, testComplete, handlerVars, content, mask, struck>>

ReadPage ==
  /\ pc \in DOMAIN Loop \ {"write"} /\ i < Loop[pc].turns
  /\ content[i] # "missing"
  /\ pass' = (pass /\ content[i] = Loop[pc].expects)
  /\ asleep' = FALSE /\ i' = i + 1
  /\ UNCHANGED <<pc, testComplete, handlerVars, content, queue, mask, struck>>

WritePage ==
  /\ pc = "write" /\ i < Loop[pc].turns
  /\ content[i] # "missing"
  /\ \E a \in Call("lostWrite") :
       /\ content' = IF a.ok THEN [content EXCEPT ![i] = "beef"] ELSE content
       /\ struck' = Note(struck, a)
  /\ asleep' = FALSE /\ i' = i + 1
  /\ UNCHANGED <<pc, pass, testComplete, handlerVars, queue, mask>>

EndLoop ==
  /\ pc \in DOMAIN Loop /\ i = Loop[pc].turns
  /\ pc' = Loop[pc].next /\ i' = 0
  /\ UNCHANGED <<pass, asleep, testComplete, handlerVars, content, queue, mask, struck>>

\* Enabling replication copies the page tables; the copy may show a page
\* wrongly.  The mask that is queried next is only printed.
EnableReplication ==
  /\ pc = "enable"
  /\ \E a \in Enable(mask), b \in Call("corrupt") :
       /\ IF a.ret # 0 THEN pc' = "stop" /\ pass' = FALSE
                       ELSE pc' = "read2" /\ UNCHANGED pass
       /\ mask' = a.mask
       /\ \/ b.ok /\ UNCHANGED content
          \/ ~b.ok /\ \E p \in Pages : content' = [content EXCEPT ![p] = "bad"]
       /\ struck' = Note(Note(struck, a), b)
  /\ UNCHANGED <<i, asleep, testComplete, handlerVars, queue>>

\* Mutant: a region half as long is dropped.
DropPages_Shorter ==
  /\ pc = "madvise"
  /\ content' = [p \in Pages |-> IF p < HalfPages - 1 THEN "missing" ELSE content[p]]
  /\ pc' = "read3"
  /\ UNCHANGED <<i, pass, asleep, testComplete, handlerVars, queue, mask, struck>>

\* madvise(MADV_DONTNEED) for the first half; the translations of some pages may
\* survive in a replica, so that these pages do not fault again.
DropPages ==
  /\ pc = "madvise"
  /\ \E a \in Call("madvise"), b \in Call("stale") :
       /\ a.ok \/ b.ok
       /\ pass' = (pass /\ a.ok)
       /\ \E kept \in SUBSET (0 .. HalfPages - 1) :
            /\ b.ok <=> kept = {}
            /\ content' = [p \in Pages |->
                 IF a.ok /\ p < HalfPages /\ p \notin kept THEN "missing" ELSE content[p]]
       /\ struck' = Note(Note(struck, a), b)
  /\ pc' = "read3"
  /\ UNCHANGED <<i, asleep, testComplete, handlerVars, queue, mask>>

\* Mutant: the verdict so far is overwritten.
DisableReplication_Overwrites ==
  /\ pc = "disable"
  /\ \E a \in Disable(mask) :
       /\ pass' = (a.ret = 0)
       /\ mask' = a.mask
       /\ struck' = Note(struck, a)
  /\ pc' = "stop"
  /\ UNCHANGED <<i, asleep, testComplete, handlerVars, content, queue>>

DisableReplication ==
  /\ pc = "disable"
  /\ \E a \in Disable(mask) :
       /\ pass' = (pass /\ a.ret = 0)
       /\ mask' = a.mask
       /\ struck' = Note(struck, a)
  /\ pc' = "stop"
  /\ UNCHANGED <<i, asleep, testComplete, handlerVars, content, queue>>

\* Mutant: the handler is not told to stop.
StopHandler_Forgets ==
  /\ pc = "stop"
  /\ pc' = "join"
  /\ UNCHANGED <<i, pass, asleep, testComplete, handlerVars, content, queue, mask, struck>>

StopHandler ==
  /\ pc = "stop"
  /\ testComplete' = TRUE
  /\ pc' = "join"
  /\ UNCHANGED <<i, pass, asleep, handlerVars, content, queue, mask, struck>>

\* Mutant: the join is left out.
JoinHandler_DoesNotWait ==
  /\ pc = "join"
  /\ pc' = "cleanup"
  /\ UNCHANGED <<i, pass, asleep, testComplete, handlerVars, content, queue, mask, struck>>

JoinHandler ==
  /\ pc = "join" /\ hpc = "returned"
  /\ pc' = "cleanup"
  /\ UNCHANGED <<i, pass, asleep, testComplete, handlerVars, content, queue, mask, struck>>

\* Unmaps the region, closes uffd and reports.
CleanupAndReport ==
  /\ pc = "cleanup"
  /\ pc' = IF pass THEN "exit0" ELSE "exit1"
  /\ UNCHANGED <<i, pass, asleep, testComplete, handlerVars, content, queue, mask, struck>>

Main ==
  \/ OpenUffd \/ PrepareRegion \/ StartHandler \/ WaitReady
  \/ FaultOnPage \/ ReadPage \/ WritePage \/ EndLoop
  \/ EnableReplication \/ DropPages \/ DisableReplication
  \/ StopHandler \/ JoinHandler \/ CleanupAndReport

(***************************************************************************)
(* The handler                                                             *)
(***************************************************************************)

\* Without memory the handler returns before it has reported itself ready.
HandlerAllocates ==
  /\ hpc = "malloc" /\ ~Exited
  /\ \E a \in Call("malloc") :
       /\ hpc' = IF a.ok THEN "loop" ELSE "returned"
       /\ handlerReady' = a.ok
       /\ struck' = Note(struck, a)
  /\ UNCHANGED <<mainVars, taken, handled, content, queue, mask>>

HandlerTests ==
  /\ hpc = "loop" /\ ~Exited
  /\ hpc' = IF testComplete THEN "returned" ELSE "poll"
  /\ UNCHANGED <<mainVars, taken, handlerReady, handled, content, queue, mask, struck>>

\* Mutant: a timeout ends the loop.
PollReturnsNothing_Breaks ==
  /\ hpc = "poll" /\ ~Exited
  /\ hpc' = "returned"
  /\ UNCHANGED <<mainVars, taken, handlerReady, handled, content, queue, mask, struck>>

\* poll times out after 100 ms, or is interrupted.
PollReturnsNothing ==
  /\ hpc = "poll" /\ ~Exited
  /\ hpc' = "loop"
  /\ UNCHANGED <<mainVars, taken, handlerReady, handled, content, queue, mask, struck>>

\* poll fails for good.
PollFails ==
  /\ hpc = "poll" /\ ~Exited
  /\ "poll" \in Faults
  /\ hpc' = "returned"
  /\ struck' = struck \cup {"poll"}
  /\ UNCHANGED <<mainVars, taken, handlerReady, handled, content, queue, mask>>

\* poll reports a message.
PollReports ==
  /\ hpc = "poll" /\ ~Exited
  /\ queue # NoPage
  /\ hpc' = "read"
  /\ UNCHANGED <<mainVars, taken, handlerReady, handled, content, queue, mask, struck>>

\* Mutant: the message stays in the queue.
ReadMessage_Peeks ==
  /\ hpc = "read" /\ ~Exited
  /\ hpc' = "copy" /\ taken' = queue
  /\ UNCHANGED <<mainVars, handlerReady, handled, content, queue, mask, struck>>

\* read takes the message, fails for good, or takes a part of it only.
ReadMessage ==
  /\ hpc = "read" /\ ~Exited
  /\ \/ /\ hpc' = "copy" /\ taken' = queue /\ queue' = NoPage
        /\ UNCHANGED struck
     \/ /\ "read" \in Faults
        /\ hpc' = "returned" /\ UNCHANGED <<taken, queue>>
        /\ struck' = struck \cup {"read"}
     \/ /\ "partial" \in Faults
        /\ hpc' = "loop" /\ queue' = NoPage /\ UNCHANGED taken
        /\ struck' = struck \cup {"partial"}
  /\ UNCHANGED <<mainVars, handlerReady, handled, content, mask>>

\* Mutant: the page is filled but not marked with its number.
CopyPage_NoMark ==
  /\ hpc = "copy" /\ ~Exited
  /\ content' = [content EXCEPT ![taken] = "filled"]
  /\ handled' = handled + 1
  /\ hpc' = "loop"
  /\ UNCHANGED <<mainVars, taken, handlerReady, queue, mask, struck>>

\* UFFDIO_COPY fills the page and wakes main; if it fails, main sleeps on.
CopyPage ==
  /\ hpc = "copy" /\ ~Exited
  /\ \E a \in Call("copy"), b \in Call("corrupt") :
       /\ a.ok \/ b.ok
       /\ content' =
            IF a.ok THEN [content EXCEPT ![taken] = IF b.ok THEN "dead" ELSE "bad"]
                    ELSE content
       /\ handled' = IF a.ok THEN handled + 1 ELSE handled
       /\ struck' = Note(Note(struck, a), b)
  /\ hpc' = "loop"
  /\ UNCHANGED <<mainVars, taken, handlerReady, queue, mask>>

Handler ==
  \/ HandlerAllocates \/ HandlerTests \/ PollReturnsNothing \/ PollFails
  \/ PollReports \/ ReadMessage \/ CopyPage

Done == Exited /\ UNCHANGED vars

Next == Main \/ Handler \/ Done

Spec == Init /\ [][Next]_vars

\* Both threads are scheduled, and poll is not interrupted for ever while a
\* message waits.
FairSpec == Spec /\ WF_vars(Main) /\ WF_vars(Handler) /\ SF_vars(PollReports)

(***************************************************************************)
(* Properties                                                              *)
(***************************************************************************)

\* Exit status 0 (line 265) means that none of these has gone wrong: a page
\* that replication shows wrongly is always noticed by one of the loops.
FaultsCaught ==
  pc = "exit0" => struck \cap {"api", "mmap", "register", "create", "refuse",
                               "corrupt", "madvise", "lostWrite", "stuck"} = {}

\* Exit status 1 is never a false alarm.
NoFalseAlarm == pc = "exit1" => struck # {}

\* A call of the handler has failed: it is gone, or has lost a message.
HandlerBroken == struck \cap {"malloc", "poll", "read", "partial", "copy"} # {}

\* A handler whose calls succeed is never gone while main sleeps on a page
\* (lines 45, 250): it is told to stop after the last access only.
NoStrandedFault == asleep /\ hpc = "returned" => HandlerBroken

\* The region is unmapped and uffd closed (lines 254-255) only when the handler
\* uses neither any more.
CleanupAlone == pc = "cleanup" \/ Exited => ~HandlerRuns

\* What the handler has filled is what main has asked for: every page once,
\* and the dropped half once more (lines 98, 173, 207, 214).  A translation that
\* survives the drop fails no check, but the count (line 101) is short then.
EveryFaultHandled ==
  pc = "exit0" =>
    /\ handled <= NUM_PAGES + HalfPages
    /\ handled = NUM_PAGES + HalfPages <=> "stale" \notin struck

\* A message in the queue or in the handler's hands is for the page main
\* sleeps on (lines 61, 79-88).
MessageMatches ==
  /\ queue # NoPage => asleep /\ queue = i /\ content[i] = "missing"
  /\ hpc = "copy" => asleep /\ taken = i /\ content[i] = "missing"

\* A check of the test has failed, or its setup.
Failed == ~pass \/ (pc = "exit1" /\ hpc = "absent")

Verdict == INSTANCE TestVerdict WITH
  failed <- Failed,
  verdict <- CASE pc \in {"skip", "exit0"} -> "pass"
               [] pc = "exit1" -> "fail" [] OTHER -> "running"

\* The test keeps the promise of TestVerdict.
ImplementsVerdict == Verdict!Spec

\* Under fair scheduling main comes to a verdict, unless a call of the handler
\* fails.
Termination == <>(Exited \/ HandlerBroken)

\* What "Wait for handler to be ready" (line 164) says: that it will be.
ReadyComes == pc = "waitReady" ~> pc # "waitReady"

=============================================================================

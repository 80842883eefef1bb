-------------------------- MODULE UserFault_proofs --------------------------
(***************************************************************************)
(* UserFault for any even number of pages: the messages are for the page   *)
(* main sleeps on, the clean-up is alone, no fault is stranded, every page *)
(* is handled as often as it was missing, and the verdict is sound.        *)
(***************************************************************************)
EXTENDS UserFault, ReplKernel_proofs

Opening == {"userfaultfd", "api", "mmap", "register", "create"}

\* How main and its handler accompany each other.
Control ==
  /\ pc \in Opening => hpc = "absent" /\ pass
  /\ pc = "waitReady" => pass
  /\ hpc = "absent" => pc \in Opening \cup {"skip", "exit1"}
  /\ pc = "skip" => hpc = "absent" /\ pass
  /\ pc \in {"cleanup", "exit0", "exit1"} => ~HandlerRuns
  /\ pc = "exit0" => pass
  /\ pc = "exit1" => Failed
  /\ testComplete => pc \in {"join", "cleanup", "exit0", "exit1"}
  /\ hpc = "returned" => testComplete \/ HandlerBroken
  /\ pc \notin DOMAIN Loop => i = 0
  /\ pc \in DOMAIN Loop => i <= Loop[pc].turns

\* main sleeps inside a loop only, and one message is on its way to it.
OneMessage ==
  /\ asleep => pc \in DOMAIN Loop /\ i < Loop[pc].turns
  /\ MessageMatches
  /\ hpc = "copy" => queue = NoPage
  /\ hpc = "read" => queue # NoPage

IInv == TypeOK /\ Control /\ OneMessage

-----------------------------------------------------------------------------
LEMMA Sizes ==
  /\ NUM_PAGES \in Nat /\ HalfPages \in Nat /\ HalfPages <= NUM_PAGES /\ HalfPages > 0
  /\ NoPage \in Int /\ NoPage \notin Pages
  BY NumPagesAssumption DEF HalfPages, NoPage, Pages

LEMMA LoopIs ==
  /\ DOMAIN Loop = {"read1", "read2", "read3", "write", "verify"}
  /\ Loop["read1"].turns = NUM_PAGES /\ Loop["read1"].expects = "dead"
  /\ Loop["read2"].turns = NUM_PAGES /\ Loop["read2"].expects = "dead"
  /\ Loop["read3"].turns = HalfPages /\ Loop["read3"].expects = "dead"
  /\ Loop["write"].turns = NUM_PAGES
  /\ Loop["verify"].turns = NUM_PAGES /\ Loop["verify"].expects = "beef"
  /\ Loop["read1"].next = "enable" /\ Loop["read2"].next = "madvise"
  /\ Loop["read3"].next = "write" /\ Loop["write"].next = "verify"
  /\ Loop["verify"].next = "disable"
  BY DEF Loop, LoopTable

\* A turn of a loop is about a page.
LEMMA TurnIsPage ==
  ASSUME TypeOK, pc \in DOMAIN Loop, i < Loop[pc].turns PROVE i \in Pages
  BY Sizes, LoopIs DEF TypeOK, Pages

LEMMA InvInit == Init => IInv
  <1> SUFFICES ASSUME Init PROVE IInv
    OBVIOUS
  <1>1. TypeOK
    <2>1. /\ pass \in BOOLEAN /\ asleep \in BOOLEAN
          /\ handlerReady \in BOOLEAN /\ testComplete \in BOOLEAN
      BY DEF Init
    <2>2. /\ i \in 0 .. NUM_PAGES /\ handled \in Nat /\ mask \in Mask
          /\ content \in [Pages -> {"missing", "dead", "beef", "bad"}]
          /\ queue \in Pages \cup {NoPage} /\ taken \in Pages \cup {NoPage}
      BY Sizes DEF Init, Mask
    <2> QED
      BY <2>1, <2>2 DEF Init, TypeOK
  <1>2. Control
    BY LoopIs DEF Init, Control, Opening
  <1>3. OneMessage
    BY DEF Init, OneMessage, MessageMatches
  <1> QED
    BY <1>1, <1>2, <1>3 DEF IInv

LEMMA TypeNext == TypeOK /\ [Next]_vars => TypeOK'
  <1> SUFFICES ASSUME TypeOK, [Next]_vars PROVE TypeOK'
    OBVIOUS
  <1> USE Sizes, LoopIs DEF TypeOK, mainVars, handlerVars
  <1>1. CASE UNCHANGED vars
    BY <1>1 DEF vars
  <1>2. CASE OpenUffd \/ PrepareRegion
    BY <1>2 DEF OpenUffd, PrepareRegion, Setup
  <1>3. CASE StartHandler \/ WaitReady
    BY <1>3 DEF StartHandler, WaitReady
  <1>4. CASE FaultOnPage
    BY <1>4, TurnIsPage DEF FaultOnPage
  <1>5. CASE ReadPage
    <2>1. i + 1 \in 0 .. NUM_PAGES
      BY <1>5, TurnIsPage DEF ReadPage, Pages
    <2>2. pass' \in BOOLEAN
      BY <1>5 DEF ReadPage
    <2> QED
      BY <1>5, <2>1, <2>2 DEF ReadPage
  <1>6. CASE WritePage
    <2>1. i + 1 \in 0 .. NUM_PAGES
      BY <1>6, TurnIsPage DEF WritePage, Pages
    <2> QED
      BY <1>6, <2>1 DEF WritePage
  <1>7. CASE EndLoop
    BY <1>7 DEF EndLoop
  <1>8. CASE EnableReplication
    <2>1. mask' \in Mask
      BY <1>8, EnableAnswers DEF EnableReplication, Mask
    <2>2. content' \in [Pages -> {"missing", "dead", "beef", "bad"}]
      BY <1>8 DEF EnableReplication
    <2>3. pass' \in BOOLEAN
      BY <1>8 DEF EnableReplication
    <2> QED
      BY <1>8, <2>1, <2>2, <2>3 DEF EnableReplication
  <1>9. CASE DropPages
    <2>1. content' \in [Pages -> {"missing", "dead", "beef", "bad"}]
      BY <1>9 DEF DropPages
    <2>2. pass' \in BOOLEAN
      BY <1>9 DEF DropPages
    <2> QED
      BY <1>9, <2>1, <2>2 DEF DropPages
  <1>10. CASE DisableReplication
    <2>1. mask' \in Mask
      BY <1>10, DisableAnswers DEF DisableReplication, Mask
    <2>2. pass' \in BOOLEAN
      BY <1>10 DEF DisableReplication
    <2> QED
      BY <1>10, <2>1, <2>2 DEF DisableReplication
  <1>11. CASE StopHandler \/ JoinHandler \/ CleanupAndReport
    BY <1>11 DEF StopHandler, JoinHandler, CleanupAndReport
  <1>12. CASE HandlerAllocates
    <2>1. handlerReady' \in BOOLEAN
      <3>1. PICK a \in Call("malloc") : handlerReady' = a.ok
        BY <1>12 DEF HandlerAllocates
      <3>2. a.ok = TRUE \/ a.ok = FALSE
        BY <3>1, CallAnswers
      <3> QED
        BY <3>1, <3>2
    <2> QED
      BY <1>12, <2>1 DEF HandlerAllocates
  <1>13. CASE HandlerTests \/ PollReturnsNothing \/ PollFails \/ PollReports
    BY <1>13 DEF HandlerTests, PollReturnsNothing, PollFails, PollReports
  <1>14. CASE ReadMessage
    BY <1>14 DEF ReadMessage
  <1>15. CASE CopyPage
    <2>1. content' \in [Pages -> {"missing", "dead", "beef", "bad"}]
      BY <1>15 DEF CopyPage
    <2>2. handled' \in Nat
      BY <1>15 DEF CopyPage
    <2> QED
      BY <1>15, <2>1, <2>2 DEF CopyPage
  <1> QED
    BY <1>1, <1>2, <1>3, <1>4, <1>5, <1>6, <1>7, <1>8, <1>9, <1>10, <1>11, <1>12, <1>13,
       <1>14, <1>15
    DEF Next, Main, Handler, Done

\* Every variable keeps its type.
THEOREM TypeCorrect == Spec => []TypeOK
  <1>1. Init => TypeOK
    BY InvInit DEF IInv
  <1> QED
    BY <1>1, TypeNext, PTL DEF Spec

-----------------------------------------------------------------------------
LEMMA StruckGrows == ASSUME [Next]_vars PROVE struck \subseteq struck'
  BY Noted
  DEF Next, Main, OpenUffd, PrepareRegion, Setup, StartHandler, WaitReady, FaultOnPage,
      ReadPage, WritePage, EndLoop, EnableReplication, DropPages, DisableReplication,
      StopHandler, JoinHandler, CleanupAndReport, Handler, HandlerAllocates, HandlerTests,
      PollReturnsNothing, PollFails, PollReports, ReadMessage, CopyPage, Done, vars

\* Where a fault strikes, and what it does at once.
LEMMA StrikesWhere ==
  ASSUME TypeOK, [Next]_vars, NEW f \in struck', f \notin struck
  PROVE  \/ f \in {"userfaultfd", "ignore", "keep", "malloc", "poll", "read", "partial",
                   "copy"}
         \/ f = "stale" /\ DropPages
         \/ f \in {"api", "mmap", "register", "create"} /\ pc' = "exit1"
         \/ f \in {"refuse", "madvise", "stuck"} /\ ~pass'
         \/ f = "corrupt" /\ (EnableReplication \/ CopyPage)
         \/ f = "lostWrite" /\ WritePage
  <1>1. CASE OpenUffd \/ PrepareRegion
    BY <1>1, CallAnswers, Noted DEF OpenUffd, PrepareRegion, Setup
  <1>2. CASE StartHandler
    BY <1>2, CallAnswers, Noted DEF StartHandler
  <1>3. CASE WritePage
    BY <1>3, CallAnswers, Noted DEF WritePage
  <1>4. CASE EnableReplication
    <2>1. PICK a \in Enable(mask), b \in Call("corrupt") :
            /\ a.ret # 0 => pass' = FALSE
            /\ struck' = Note(Note(struck, a), b)
      BY <1>4 DEF EnableReplication
    <2>2. f = a.fault \/ f = b.fault
      BY <2>1, Noted
    <2>3. f # "none"
      BY <2>1, Noted
    <2> QED
      BY <1>4, <2>1, <2>2, <2>3, CallAnswers, EnableAnswers DEF TypeOK
  <1>5. CASE DropPages
    <2>1. PICK a \in Call("madvise"), b \in Call("stale") :
            pass' = (pass /\ a.ok) /\ struck' = Note(Note(struck, a), b)
      BY <1>5 DEF DropPages
    <2>2. f # "none" /\ (f = a.fault \/ f = b.fault)
      BY <2>1, Noted
    <2> QED
      BY <1>5, <2>1, <2>2, CallAnswers
  <1>6. CASE DisableReplication
    <2>1. PICK a \in Disable(mask) : pass' = (pass /\ a.ret = 0) /\ struck' = Note(struck, a)
      BY <1>6 DEF DisableReplication
    <2>2. f # "none" /\ f = a.fault
      BY <2>1, Noted
    <2>3. f = "keep" \/ (f = "stuck" /\ a.ret # 0)
      BY <2>2, DisableAnswers DEF TypeOK
    <2>4. a.ret # 0 => ~pass'
      BY <2>1, Zenon
    <2> QED
      BY <2>3, <2>4
  <1>7. CASE HandlerAllocates
    BY <1>7, CallAnswers, Noted DEF HandlerAllocates
  <1>8. CASE PollFails \/ ReadMessage
    BY <1>8 DEF PollFails, ReadMessage
  <1>9. CASE CopyPage
    <2>1. PICK a \in Call("copy"), b \in Call("corrupt") : struck' = Note(Note(struck, a), b)
      BY <1>9 DEF CopyPage
    <2>2. f # "none" /\ (f = a.fault \/ f = b.fault)
      BY <2>1, Noted
    <2> QED
      BY <1>9, <2>1, <2>2, CallAnswers
  <1>10. CASE UNCHANGED struck
    BY <1>10
  <1> QED
    BY <1>1, <1>2, <1>3, <1>4, <1>5, <1>6, <1>7, <1>8, <1>9, <1>10
    DEF Next, Main, Handler, Done, vars, WaitReady, FaultOnPage, ReadPage, EndLoop,
        StopHandler, JoinHandler, CleanupAndReport, HandlerTests, PollReturnsNothing,
        PollReports

\* main sets up the region and starts its handler.
LEMMA OpeningSteps ==
  ASSUME IInv, OpenUffd \/ PrepareRegion \/ StartHandler \/ WaitReady
  PROVE  Control' /\ OneMessage'
  <1> USE LoopIs, Sizes DEF mainVars, handlerVars
  <1>1. ~asleep /\ UNCHANGED <<i, pass, asleep, testComplete, content, queue, taken>>
    BY DEF IInv, OneMessage, OpenUffd, PrepareRegion, Setup, StartHandler, WaitReady
  <1>2. Control'
    <2>1. CASE OpenUffd \/ PrepareRegion
      BY <1>1, <2>1
      DEF IInv, Control, Opening, HandlerRuns, OpenUffd, PrepareRegion, Setup, Failed
    <2>2. CASE StartHandler
      BY <1>1, <2>2 DEF IInv, Control, Opening, HandlerRuns, StartHandler, Failed
    <2>3. CASE WaitReady
      <3>1. HandlerBroken' = HandlerBroken
        BY <2>3 DEF WaitReady, HandlerBroken
      <3> QED
        BY <1>1, <2>3, <3>1 DEF IInv, Control, Opening, HandlerRuns, WaitReady
    <2> QED
      BY <2>1, <2>2, <2>3
  <1>3. OneMessage'
    BY <1>1
    DEF IInv, OneMessage, MessageMatches, Control, Opening, OpenUffd, PrepareRegion, Setup,
        StartHandler, WaitReady
  <1> QED
    BY <1>2, <1>3

\* main accesses the pages.
LEMMA LoopSteps ==
  ASSUME IInv, FaultOnPage \/ ReadPage \/ WritePage \/ EndLoop
  PROVE  Control' /\ OneMessage'
  <1> USE LoopIs, Sizes DEF mainVars, handlerVars
  <1>1. /\ pc \in DOMAIN Loop /\ i \in Int /\ i <= Loop[pc].turns /\ TypeOK
        /\ hpc' = hpc /\ testComplete' = testComplete /\ taken' = taken
    BY DEF IInv, Control, TypeOK, FaultOnPage, ReadPage, WritePage, EndLoop
  <1>2. HandlerBroken => HandlerBroken'
    BY StruckGrows DEF HandlerBroken, Next, Main
  <1>3. hpc # "absent" /\ ~testComplete
    BY <1>1 DEF IInv, Control, Opening
  <1>4. CASE FaultOnPage
    <2>1. UNCHANGED <<pc, i, content>> /\ asleep' = TRUE /\ queue' = i
      BY <1>4 DEF FaultOnPage
    <2>2. ~asleep /\ i < Loop[pc].turns /\ content[i] = "missing"
      BY <1>4 DEF FaultOnPage
    <2>3. hpc # "copy" /\ queue = NoPage /\ hpc # "read" /\ i # NoPage
      BY <1>1, <2>2, TurnIsPage DEF IInv, OneMessage, MessageMatches
    <2>4. Control'
      BY <1>1, <1>2, <1>3, <2>1 DEF IInv, Control, Opening, HandlerRuns
    <2>5. OneMessage'
      BY <1>1, <2>1, <2>2, <2>3 DEF OneMessage, MessageMatches
    <2> QED
      BY <2>4, <2>5
  <1>5. CASE ReadPage \/ WritePage
    <2>1. /\ pc' = pc /\ i' = i + 1 /\ asleep' = FALSE /\ queue' = queue
          /\ i < Loop[pc].turns /\ content[i] # "missing"
      BY <1>5 DEF ReadPage, WritePage
    <2>2. Loop[pc].turns \in Int
      BY <1>1
    <2>3. Control'
      BY <1>1, <1>2, <1>3, <2>1, <2>2 DEF IInv, Control, Opening, HandlerRuns
    <2>4. OneMessage'
      BY <1>1, <2>1 DEF IInv, OneMessage, MessageMatches
    <2> QED
      BY <2>3, <2>4
  <1>6. CASE EndLoop
    <2>1. /\ pc' = Loop[pc].next /\ i' = 0
          /\ UNCHANGED <<asleep, queue, content>> /\ i = Loop[pc].turns
      BY <1>6 DEF EndLoop
    <2>2. pc' \in {"enable", "madvise", "write", "verify", "disable"}
      BY <1>1, <2>1
    <2>3. ~asleep
      BY <1>1, <2>1 DEF IInv, OneMessage
    <2>4. Control'
      BY <1>1, <1>2, <1>3, <2>1, <2>2 DEF IInv, Control, Opening, HandlerRuns
    <2>5. OneMessage'
      BY <1>1, <2>1, <2>3 DEF IInv, OneMessage, MessageMatches
    <2> QED
      BY <2>4, <2>5
  <1> QED
    BY <1>4, <1>5, <1>6

\* main changes replication, drops pages and ends.
LEMMA LaterSteps ==
  ASSUME IInv,
         \/ EnableReplication \/ DropPages \/ DisableReplication \/ StopHandler
         \/ JoinHandler \/ CleanupAndReport
  PROVE  Control' /\ OneMessage'
  <1> USE LoopIs, Sizes DEF mainVars, handlerVars
  <1>1. /\ UNCHANGED <<i, asleep, queue, hpc, taken>> /\ i = 0
        /\ pc \in {"enable", "madvise", "disable", "stop", "join", "cleanup"}
    BY DEF IInv, Control, EnableReplication, DropPages, DisableReplication, StopHandler,
        JoinHandler, CleanupAndReport
  <1>2. HandlerBroken => HandlerBroken'
    BY StruckGrows DEF HandlerBroken, Next, Main
  <1>3. OneMessage'
    <2>1. ~asleep
      BY <1>1 DEF IInv, OneMessage
    <2> QED
      BY <1>1, <2>1 DEF IInv, OneMessage, MessageMatches
  <1>4. Control'
    <2>1. CASE EnableReplication \/ DropPages
      BY <1>1, <1>2, <2>1
      DEF IInv, Control, Opening, HandlerRuns, EnableReplication, DropPages
    <2>2. CASE DisableReplication \/ StopHandler
      BY <1>1, <1>2, <2>2
      DEF IInv, Control, Opening, HandlerRuns, DisableReplication, StopHandler
    <2>3. CASE JoinHandler
      BY <1>1, <1>2, <2>3 DEF IInv, Control, Opening, HandlerRuns, JoinHandler
    <2>4. CASE CleanupAndReport
      BY <1>1, <1>2, <2>4
      DEF IInv, Control, Opening, HandlerRuns, CleanupAndReport, Failed
    <2> QED
      BY <2>1, <2>2, <2>3, <2>4
  <1> QED
    BY <1>3, <1>4

LEMMA HandlerSteps ==
  ASSUME IInv, Handler PROVE Control' /\ OneMessage'
  <1> USE LoopIs, Sizes DEF mainVars, handlerVars
  <1>1. /\ UNCHANGED mainVars /\ ~Exited /\ pc \notin Opening
        /\ hpc \notin {"absent", "returned"} /\ hpc' # "absent"
    BY DEF IInv, Control, Handler, HandlerAllocates, HandlerTests, PollReturnsNothing,
        PollFails, PollReports, ReadMessage, CopyPage
  <1>2. HandlerBroken => HandlerBroken'
    BY StruckGrows DEF HandlerBroken, Next
  <1>3. hpc' = "returned" => testComplete \/ HandlerBroken'
    <2>1. CASE HandlerAllocates
      BY <2>1, CallAnswers, Noted DEF HandlerAllocates, HandlerBroken
    <2>2. CASE HandlerTests \/ PollReturnsNothing \/ PollReports \/ CopyPage
      BY <2>2 DEF HandlerTests, PollReturnsNothing, PollReports, CopyPage
    <2>3. CASE PollFails \/ ReadMessage
      BY <2>3 DEF PollFails, ReadMessage, HandlerBroken
    <2> QED
      BY <2>1, <2>2, <2>3 DEF Handler
  <1>4. Control'
    <2>1. pc # "cleanup"
      BY <1>1 DEF IInv, Control, HandlerRuns
    <2> QED
      BY <1>1, <1>3, <2>1 DEF IInv, Control, Opening, Exited
  <1>5. OneMessage'
    <2>1. CASE HandlerAllocates \/ HandlerTests \/ PollReturnsNothing \/ PollFails
      BY <1>1, <2>1
      DEF IInv, OneMessage, MessageMatches, HandlerAllocates, HandlerTests,
          PollReturnsNothing, PollFails
    <2>2. CASE PollReports
      BY <1>1, <2>2 DEF IInv, OneMessage, MessageMatches, PollReports
    <2>3. CASE ReadMessage
      BY <1>1, <2>3 DEF IInv, OneMessage, MessageMatches, ReadMessage
    <2>4. CASE CopyPage
      BY <1>1, <2>4 DEF IInv, OneMessage, MessageMatches, CopyPage
    <2> QED
      BY <2>1, <2>2, <2>3, <2>4 DEF Handler
  <1> QED
    BY <1>4, <1>5

LEMMA InvNext == IInv /\ [Next]_vars => IInv'
  <1> SUFFICES ASSUME IInv, [Next]_vars PROVE IInv'
    OBVIOUS
  <1>1. TypeOK'
    BY TypeNext DEF IInv
  <1>2. CASE UNCHANGED vars
    <2>1. UNCHANGED <<pc, i, pass, asleep, testComplete, hpc, taken, content, queue, struck>>
      BY <1>2 DEF vars, mainVars, handlerVars
    <2>2. Control'
      BY <2>1 DEF IInv, Control, HandlerRuns, HandlerBroken, Failed
    <2>3. OneMessage'
      BY <2>1 DEF IInv, OneMessage, MessageMatches
    <2> QED
      BY <1>1, <2>2, <2>3 DEF IInv
  <1> QED
    BY <1>1, <1>2, OpeningSteps, LoopSteps, LaterSteps, HandlerSteps
    DEF Next, Main, Done, IInv

\* A message is for the page that main sleeps on.
THEOREM MessagesMatch == Spec => []MessageMatches
  <1>1. IInv => MessageMatches
    BY DEF IInv, OneMessage
  <1> QED
    BY <1>1, InvInit, InvNext, PTL DEF Spec

\* The region and uffd are given up when the handler uses neither any more.
THEOREM CleansUpAlone == Spec => []CleanupAlone
  <1>1. IInv => CleanupAlone
    BY DEF IInv, Control, HandlerRuns, Exited, CleanupAlone
  <1> QED
    BY <1>1, InvInit, InvNext, PTL DEF Spec

\* main is not left asleep by a handler whose calls have all succeeded.
THEOREM NoFaultIsStranded == Spec => []NoStrandedFault
  <1>1. IInv => NoStrandedFault
    BY LoopIs DEF IInv, Control, OneMessage, NoStrandedFault
  <1> QED
    BY <1>1, InvInit, InvNext, PTL DEF Spec

-----------------------------------------------------------------------------
(* The verdict.                                                            *)

ExitVerdict ==
  CASE pc \in {"skip", "exit0"} -> "pass" [] pc = "exit1" -> "fail" [] OTHER -> "running"

LEMMA ExitIsFinal == ASSUME Exited, [Next]_vars PROVE UNCHANGED vars
  BY LoopIs
  DEF Exited, Next, Main, OpenUffd, PrepareRegion, Setup, StartHandler, WaitReady,
      FaultOnPage, ReadPage, WritePage, EndLoop, EnableReplication, DropPages,
      DisableReplication, StopHandler, JoinHandler, CleanupAndReport, Handler,
      HandlerAllocates, HandlerTests, PollReturnsNothing, PollFails, PollReports,
      ReadMessage, CopyPage, Done

\* No step turns pass on again.
LEMMA PassStays == ASSUME TypeOK, ~pass, [Next]_vars PROVE ~pass'
  BY DEF TypeOK, Next, Main, OpenUffd, PrepareRegion, Setup, StartHandler, WaitReady,
      FaultOnPage, ReadPage, WritePage, EndLoop, EnableReplication, DropPages,
      DisableReplication, StopHandler, JoinHandler, CleanupAndReport, Handler,
      HandlerAllocates, HandlerTests, PollReturnsNothing, PollFails, PollReports,
      ReadMessage, CopyPage, Done, vars, mainVars

LEMMA VerdictGiven ==
  ASSUME IInv, [Next]_vars
  PROVE  \/ UNCHANGED ExitVerdict /\ (ExitVerdict = "pass" => UNCHANGED Failed)
         \/ ExitVerdict = "running" /\ ExitVerdict' = "fail" /\ Failed'
         \/ ExitVerdict = "running" /\ ExitVerdict' = "pass" /\ ~Failed /\ ~Failed'
  <1> USE DEF ExitVerdict
  <1>1. CASE Exited
    <2>1. UNCHANGED vars
      BY <1>1, ExitIsFinal
    <2> QED
      BY <2>1 DEF vars, mainVars, handlerVars, Failed
  <1>2. CASE ~Exited /\ ~Exited'
    BY <1>2 DEF Exited
  <1>3. CASE ~Exited /\ Exited'
    <2>0. IInv'
      BY InvNext
    <2>1. CASE pc' = "exit1"
      BY <1>3, <2>0, <2>1 DEF Exited, IInv, Control
    <2>2. CASE pc' \in {"skip", "exit0"}
      <3>1. pass'
        BY <2>0, <2>2 DEF IInv, Control
      <3>2. pass
        BY <3>1, PassStays DEF IInv
      <3> QED
        BY <1>3, <2>2, <3>1, <3>2 DEF Exited, Failed
    <2> QED
      BY <1>3, <2>1, <2>2 DEF Exited
  <1> QED
    BY <1>1, <1>2, <1>3

\* test24 keeps the promise of TestVerdict, for any even number of pages.
THEOREM UserFaultImplementsVerdict == Spec => ImplementsVerdict
  <1>1. Init => Verdict!Init
    BY DEF Init, Verdict!Init, Failed
  <1>2. IInv /\ [Next]_vars => [Verdict!Next]_(Verdict!vars)
    <2> SUFFICES ASSUME IInv, [Next]_vars PROVE [Verdict!Next]_(Verdict!vars)
      OBVIOUS
    <2>1. Failed => Failed'
      <3>1. CASE Exited
        BY <3>1, ExitIsFinal DEF vars, mainVars, handlerVars, Failed
      <3>2. CASE ~Exited
        BY <3>2, PassStays DEF Failed, Exited, IInv
      <3> QED
        BY <3>1, <3>2
    <2>2. Failed \in BOOLEAN /\ Failed' \in BOOLEAN
      BY DEF Failed
    <2>3. \/ UNCHANGED ExitVerdict /\ (ExitVerdict = "pass" => UNCHANGED Failed)
          \/ ExitVerdict = "running" /\ ExitVerdict' = "fail" /\ Failed'
          \/ ExitVerdict = "running" /\ ExitVerdict' = "pass" /\ ~Failed /\ ~Failed'
      BY VerdictGiven
    <2> HIDE DEF Failed
    <2> QED
      BY <2>1, <2>2, <2>3
      DEF Verdict!Next, Verdict!vars, Verdict!CheckFails, Verdict!Abort, Verdict!Report,
          ExitVerdict
  <1> QED
    BY <1>1, <1>2, InvInit, InvNext, PTL DEF Spec, ImplementsVerdict, Verdict!Spec

-----------------------------------------------------------------------------
(* What the pages hold, and how many of them have been handled.            *)

BeforeWrite ==
  Opening \cup {"waitReady", "read1", "enable", "read2", "madvise", "read3"}

\* What each stage of main knows of the page p.
PageSeen(p) ==
  /\ pc \in Opening \cup {"waitReady"} => content[p] = "missing"
  /\ pc = "read1" /\ p < i => content[p] # "missing"
  /\ pc = "read1" /\ (p > i \/ (p = i /\ ~asleep)) => content[p] = "missing"
  /\ pc \in {"enable", "read2", "madvise"} => content[p] # "missing"
  /\ pc = "read3" /\ (p < i \/ p >= HalfPages) => content[p] # "missing"
  /\ pc \in {"write", "verify"} => content[p] # "missing"
  /\ pc \in BeforeWrite => content[p] # "beef"
  /\ pc = "write" /\ p >= i => content[p] # "beef"

PagesSeen == \A p \in Pages : PageSeen(p)

SInv == IInv /\ PagesSeen

LEMMA SeenInit == Init => PagesSeen
  BY LoopIs DEF Init, PagesSeen, PageSeen, Opening, BeforeWrite

\* The handler fills pages for the loops that read missing ones only.
LEMMA CopyFills ==
  ASSUME SInv, CopyPage
  PROVE  /\ pc \in {"read1", "read3"} /\ i \in Pages /\ i < Loop[pc].turns
         /\ asleep /\ taken = i /\ content[i] = "missing"
         /\ UNCHANGED <<pc, i, pass, asleep, testComplete>>
         /\ \A p \in Pages \ {i} : content'[p] = content[p]
         /\ content'[i] \in {"missing", "dead", "bad"}
  <1>1. hpc = "copy" /\ UNCHANGED <<pc, i, pass, asleep, testComplete>>
    BY DEF CopyPage, mainVars
  <1>2. asleep /\ taken = i /\ content[i] = "missing"
    BY <1>1 DEF SInv, IInv, OneMessage, MessageMatches
  <1>3. pc \in DOMAIN Loop /\ i < Loop[pc].turns /\ i \in Pages
    BY <1>2, TurnIsPage DEF SInv, IInv, OneMessage
  <1>4. PageSeen(i)
    BY <1>3 DEF SInv, PagesSeen
  <1>5. pc \in {"read1", "read3"}
    BY <1>2, <1>3, <1>4, LoopIs DEF PageSeen
  <1>6. /\ \A p \in Pages \ {i} : content'[p] = content[p]
        /\ content'[i] \in {"missing", "dead", "bad"}
    BY <1>2, <1>3 DEF CopyPage, SInv, IInv, TypeOK
  <1> QED
    BY <1>1, <1>2, <1>3, <1>5, <1>6

LEMMA SeenNext == SInv /\ [Next]_vars => PagesSeen'
  <1> SUFFICES ASSUME SInv, [Next]_vars, NEW p \in Pages PROVE PageSeen(p)'
    BY DEF PagesSeen
  <1>0. PageSeen(p) /\ TypeOK /\ p \in Int /\ i \in Int /\ p < NUM_PAGES /\ p >= 0
    BY Sizes DEF SInv, PagesSeen, IInv, TypeOK, Pages
  <1> USE <1>0, LoopIs, Sizes DEF BeforeWrite, Opening, mainVars
  <1>1. CASE UNCHANGED <<pc, i, asleep, content>>
    BY <1>1 DEF PageSeen
  <1>2. CASE OpenUffd \/ PrepareRegion \/ StartHandler
    BY <1>2 DEF PageSeen, OpenUffd, PrepareRegion, Setup, StartHandler
  <1>3. CASE WaitReady
    <2>1. i = 0 /\ ~asleep
      BY <1>3 DEF WaitReady, SInv, IInv, Control, OneMessage
    <2> QED
      BY <1>3, <2>1 DEF PageSeen, WaitReady
  <1>4. CASE FaultOnPage
    BY <1>4 DEF PageSeen, FaultOnPage
  <1>5. CASE ReadPage
    <2>1. /\ UNCHANGED <<pc, content>> /\ i' = i + 1 /\ pc # "write"
          /\ pc \in DOMAIN Loop /\ i < Loop[pc].turns /\ content[i] # "missing"
      BY <1>5 DEF ReadPage
    <2> QED
      BY <2>1 DEF PageSeen
  <1>6. CASE WritePage
    <2>1. /\ pc' = pc /\ pc = "write" /\ i' = i + 1 /\ i \in Pages
          /\ \A q \in Pages \ {i} : content'[q] = content[q]
          /\ content'[i] \in {"beef", content[i]}
      BY <1>6, TurnIsPage DEF WritePage, TypeOK
    <2> QED
      BY <2>1 DEF PageSeen
  <1>7. CASE EndLoop
    <2>1. ~asleep /\ UNCHANGED <<asleep, content>> /\ i = Loop[pc].turns /\ i' = 0
          /\ pc \in DOMAIN Loop /\ pc' = Loop[pc].next
      BY <1>7 DEF EndLoop, SInv, IInv, OneMessage
    <2>2. \/ pc = "read1" /\ pc' = "enable" /\ i = NUM_PAGES
          \/ pc = "read2" /\ pc' = "madvise"
          \/ pc = "read3" /\ pc' = "write" /\ i = HalfPages
          \/ pc = "write" /\ pc' = "verify"
          \/ pc = "verify" /\ pc' = "disable"
      BY <2>1
    <2> QED
      BY <2>1, <2>2 DEF PageSeen
  <1>8. CASE EnableReplication
    <2>1. /\ pc = "enable" /\ pc' \in {"stop", "read2"} /\ UNCHANGED <<i, asleep>>
          /\ content'[p] \in {content[p], "bad"}
      BY <1>8 DEF EnableReplication, TypeOK
    <2> QED
      BY <2>1 DEF PageSeen
  <1>9. CASE DropPages
    <2>1. /\ pc = "madvise" /\ pc' = "read3" /\ i' = 0
          /\ content'[p] \in {content[p], "missing"}
          /\ p >= HalfPages => content'[p] = content[p]
      BY <1>9 DEF DropPages, SInv, IInv, Control
    <2> QED
      BY <2>1 DEF PageSeen
  <1>10. CASE DisableReplication \/ StopHandler \/ JoinHandler \/ CleanupAndReport
    BY <1>10 DEF PageSeen, DisableReplication, StopHandler, JoinHandler, CleanupAndReport
  <1>11. CASE CopyPage
    <2>1. p = i \/ (p # i /\ content'[p] = content[p])
      BY <1>11, CopyFills
    <2> QED
      BY <1>11, <2>1, CopyFills DEF PageSeen
  <1>12. CASE Handler /\ ~CopyPage
    BY <1>1, <1>12
    DEF Handler, HandlerAllocates, HandlerTests, PollReturnsNothing, PollFails, PollReports,
        ReadMessage
  <1> QED
    BY <1>1, <1>2, <1>3, <1>4, <1>5, <1>6, <1>7, <1>8, <1>9, <1>10, <1>11, <1>12
    DEF Next, Main, Done, vars

LEMMA SInvInit == Init => SInv
  BY InvInit, SeenInit DEF SInv

LEMMA SInvNext == SInv /\ [Next]_vars => SInv'
  BY InvNext, SeenNext DEF SInv

-----------------------------------------------------------------------------
(* How many pages the handler has filled.                                  *)

\* The page main sleeps on has been filled already.
Filled == IF asleep /\ content[i] # "missing" THEN 1 ELSE 0

\* Page p is still to be asked for by the loop that reads the dropped half.
Ahead(p) == p < HalfPages /\ (p > i \/ (p = i /\ ~asleep))

AfterDrop == {"write", "verify", "disable", "stop", "join", "cleanup", "exit0"}

Undisturbed == pass /\ "stale" \notin struck

Counted ==
  /\ pc \in Opening \cup {"waitReady"} => handled = 0
  /\ pc = "read1" => handled = i + Filled
  /\ pc \in {"enable", "read2", "madvise"} => handled = NUM_PAGES
  /\ Undisturbed /\ pc = "read3" =>
       /\ handled = NUM_PAGES + i + Filled
       /\ \A p \in Pages : Ahead(p) => content[p] = "missing"
  /\ Undisturbed /\ pc \in AfterDrop => handled = NUM_PAGES + HalfPages

LEMMA CountedInit == Init => Counted
  BY DEF Init, Counted, Opening, AfterDrop

\* What has disturbed the count goes on doing so.
LEMMA StaysDisturbed ==
  ASSUME TypeOK, [Next]_vars PROVE Undisturbed' => Undisturbed
  BY PassStays, StruckGrows DEF Undisturbed, TypeOK

LEMMA CountedLoops ==
  ASSUME SInv, Counted, FaultOnPage \/ ReadPage \/ WritePage \/ EndLoop
  PROVE  Counted'
  <1>0. TypeOK /\ OneMessage /\ PagesSeen /\ i \in Int /\ pc \in DOMAIN Loop
    BY DEF SInv, IInv, TypeOK, FaultOnPage, ReadPage, WritePage, EndLoop
  <1>1. Undisturbed' => Undisturbed
    BY <1>0, StaysDisturbed DEF Next, Main
  <1> USE <1>0, <1>1, LoopIs, Sizes DEF Opening, AfterDrop
  <1>2. CASE FaultOnPage
    <2>1. /\ UNCHANGED <<pc, i, content, handled>> /\ asleep' /\ ~asleep
          /\ content[i] = "missing"
      BY <1>2 DEF FaultOnPage, handlerVars
    <2>2. Filled = 0 /\ Filled' = 0
      BY <2>1 DEF Filled
    <2>3. \A p \in Pages : Ahead(p)' => Ahead(p)
      BY <2>1 DEF Ahead, Pages
    <2> QED
      BY <2>1, <2>2, <2>3 DEF Counted
  <1>3. CASE ReadPage
    <2>1. /\ UNCHANGED <<pc, content, handled>> /\ ~asleep' /\ i' = i + 1
          /\ content[i] # "missing" /\ i < Loop[pc].turns /\ pc # "write"
      BY <1>3 DEF ReadPage, handlerVars
    <2>2. Filled' = 0 /\ i \in Pages
      BY <2>1, TurnIsPage DEF Filled
    <2>3. \A p \in Pages : Ahead(p)' => Ahead(p)
      BY <2>1 DEF Ahead, Pages
    <2>4. CASE pc = "read1"
      <3>1. asleep
        BY <2>1, <2>2, <2>4 DEF PagesSeen, PageSeen
      <3>2. Filled = 1
        BY <2>1, <3>1 DEF Filled
      <3> QED
        BY <2>1, <2>2, <2>4, <3>2 DEF Counted
    <2>5. CASE pc = "read3" /\ Undisturbed
      <3>1. asleep
        BY <2>1, <2>2, <2>5 DEF Counted, Ahead
      <3>2. Filled = 1
        BY <2>1, <3>1 DEF Filled
      <3> QED
        BY <2>1, <2>2, <2>3, <2>5, <3>2 DEF Counted
    <2>6. CASE pc \in {"read2", "verify"} \/ (pc = "read3" /\ ~Undisturbed)
      BY <2>1, <2>6 DEF Counted
    <2> QED
      BY <2>1, <2>4, <2>5, <2>6
  <1>4. CASE WritePage
    BY <1>4 DEF WritePage, Counted, handlerVars
  <1>5. CASE EndLoop
    <2>1. /\ UNCHANGED <<content, handled, asleep>> /\ ~asleep /\ i' = 0
          /\ i = Loop[pc].turns /\ pc' = Loop[pc].next
      BY <1>5 DEF EndLoop, OneMessage, handlerVars
    <2>2. Filled = 0
      BY <2>1 DEF Filled
    <2> QED
      BY <2>1, <2>2 DEF Counted
  <1> QED
    BY <1>2, <1>3, <1>4, <1>5

LEMMA CountedNext == SInv /\ Counted /\ [Next]_vars => Counted'
  <1> SUFFICES ASSUME SInv, Counted, [Next]_vars PROVE Counted'
    OBVIOUS
  <1>0. TypeOK /\ Control /\ OneMessage /\ (Undisturbed' => Undisturbed) /\ i \in Int
    BY StaysDisturbed DEF SInv, IInv, TypeOK
  <1> USE <1>0, LoopIs, Sizes DEF Opening, AfterDrop
  <1>1. CASE UNCHANGED <<pc, i, asleep, content, handled>>
    BY <1>1 DEF Counted, Filled, Ahead
  <1>2. CASE OpenUffd \/ PrepareRegion \/ StartHandler
    <2>1. UNCHANGED handled /\ pc \in Opening
          /\ pc' \in Opening \cup {"waitReady", "skip", "exit1"}
      BY <1>2 DEF OpenUffd, PrepareRegion, Setup, StartHandler, handlerVars
    <2> QED
      BY <2>1 DEF Counted
  <1>3. CASE WaitReady
    <2>1. ~asleep /\ i = 0 /\ UNCHANGED <<i, asleep, content, handled>>
          /\ pc = "waitReady" /\ pc' = "read1"
      BY <1>3 DEF WaitReady, Control, OneMessage, handlerVars
    <2>2. Filled' = 0
      BY <2>1 DEF Filled
    <2> QED
      BY <2>1, <2>2 DEF Counted
  <1>4. CASE EnableReplication
    <2>1. /\ UNCHANGED handled /\ pc = "enable"
          /\ pc' = "read2" \/ (pc' = "stop" /\ ~pass')
      BY <1>4 DEF EnableReplication, handlerVars
    <2> QED
      BY <2>1 DEF Counted, Undisturbed
  <1>5. CASE DropPages
    <2>1. /\ UNCHANGED <<handled, i, asleep>> /\ pc = "madvise" /\ pc' = "read3"
          /\ i = 0 /\ ~asleep
      BY <1>5 DEF DropPages, handlerVars, Control, OneMessage
    <2>2. Filled' = 0
      BY <2>1 DEF Filled
    <2>3. ASSUME Undisturbed', NEW p \in Pages, p < HalfPages
          PROVE  content'[p] = "missing"
      <3>1. PICK a \in Call("madvise"), b \in Call("stale") :
              /\ pass' = (pass /\ a.ok)
              /\ \E kept \in SUBSET (0 .. HalfPages - 1) :
                   /\ b.ok <=> kept = {}
                   /\ content' = [q \in Pages |-> IF a.ok /\ q < HalfPages /\ q \notin kept
                                               THEN "missing" ELSE content[q]]
              /\ struck' = Note(Note(struck, a), b)
        BY <1>5 DEF DropPages
      <3>2. b.ok
        BY <2>3, <3>1, CallAnswers, Noted DEF Undisturbed
      <3>3. a.ok
        BY <2>3, <3>1 DEF Undisturbed
      <3> QED
        BY <2>3, <3>1, <3>2, <3>3
    <2> QED
      BY <2>1, <2>2, <2>3 DEF Counted, Ahead
  <1>6. CASE DisableReplication \/ StopHandler \/ JoinHandler
    <2>1. UNCHANGED handled /\ pc \in AfterDrop /\ pc' \in {"stop", "join", "cleanup"}
      BY <1>6 DEF DisableReplication, StopHandler, JoinHandler, handlerVars
    <2> QED
      BY <2>1 DEF Counted
  <1>7. CASE CleanupAndReport
    <2>1. UNCHANGED handled /\ pc \in AfterDrop /\ pc' \in {"exit0", "exit1"}
      BY <1>7 DEF CleanupAndReport, handlerVars
    <2> QED
      BY <2>1 DEF Counted
  <1>8. CASE CopyPage
    <2>1. /\ pc \in {"read1", "read3"} /\ i \in Pages /\ asleep /\ content[i] = "missing"
          /\ UNCHANGED <<pc, i, asleep>> /\ \A p \in Pages \ {i} : content'[p] = content[p]
      BY <1>8, CopyFills
    <2>2. Filled = 0
      BY <2>1 DEF Filled
    <2>3. \A p \in Pages : Ahead(p)' => p # i /\ Ahead(p)
      BY <2>1 DEF Ahead
    <2>4. \/ handled' = handled + 1 /\ content'[i] # "missing"
          \/ handled' = handled /\ content' = content
      <3>1. taken = i
        BY <1>8, CopyFills
      <3> QED
        BY <1>8, <2>1, <3>1 DEF CopyPage, TypeOK
    <2>5. handled' = handled + Filled'
      BY <2>1, <2>4 DEF Filled, TypeOK
    <2>6. Filled' \in Int /\ handled \in Int
      BY DEF Filled, TypeOK
    <2>7. CASE pc = "read1"
      BY <2>1, <2>2, <2>5, <2>6, <2>7 DEF Counted
    <2>8. CASE pc = "read3"
      <3>1. ASSUME Undisturbed' PROVE handled' = NUM_PAGES + i' + Filled'
        BY <2>1, <2>2, <2>5, <2>6, <2>8, <3>1 DEF Counted
      <3>2. ASSUME Undisturbed', NEW p \in Pages, Ahead(p)' PROVE content'[p] = "missing"
        BY <2>1, <2>3, <2>8, <3>2 DEF Counted
      <3> QED
        BY <2>1, <2>8, <3>1, <3>2 DEF Counted
    <2> QED
      BY <2>1, <2>7, <2>8
  <1>9. CASE Handler /\ ~CopyPage
    BY <1>1, <1>9
    DEF Handler, HandlerAllocates, HandlerTests, PollReturnsNothing, PollFails, PollReports,
        ReadMessage, mainVars
  <1> QED
    BY <1>1, <1>2, <1>3, <1>4, <1>5, <1>6, <1>7, <1>8, <1>9, CountedLoops
    DEF Next, Main, Done, vars, mainVars, handlerVars

\* A translation has survived the drop, and the checks have not noticed it.
Stale == pass /\ "stale" \in struck

BeforeDrop == Opening \cup {"waitReady", "read1", "enable", "read2", "madvise"}

\* The count is short then, or will be when main reads a page that was kept.
Short ==
  /\ pc \in BeforeDrop => "stale" \notin struck
  /\ Stale /\ pc = "read3" =>
       /\ handled <= NUM_PAGES + i + Filled
       /\ \/ handled < NUM_PAGES + i + Filled
          \/ \E p \in Pages : Ahead(p) /\ content[p] # "missing"
  /\ Stale /\ pc \in AfterDrop => handled < NUM_PAGES + HalfPages

LEMMA ShortInit == Init => Short
  BY DEF Init, Short, Stale, AfterDrop

LEMMA ShortDrop ==
  ASSUME SInv, Counted, Short, DropPages
  PROVE  Short'
  <1>0. TypeOK /\ Control /\ OneMessage /\ i \in Int
    BY DEF SInv, IInv, TypeOK
  <1> USE <1>0, Sizes
  <1>1. /\ UNCHANGED <<handled, i, asleep>> /\ pc = "madvise" /\ pc' = "read3"
        /\ i = 0 /\ ~asleep
    BY LoopIs DEF DropPages, handlerVars, Control, OneMessage
  <1>2. handled' = NUM_PAGES + i' + Filled'
    BY <1>1 DEF Counted, Filled
  <1>3. ASSUME Stale' PROVE \E p \in Pages : Ahead(p)' /\ content'[p] # "missing"
    <2>1. PICK a \in Call("madvise"), b \in Call("stale") :
            /\ \E kept \in SUBSET (0 .. HalfPages - 1) :
                 /\ b.ok <=> kept = {}
                 /\ content' = [q \in Pages |-> IF a.ok /\ q < HalfPages /\ q \notin kept
                                                THEN "missing" ELSE content[q]]
            /\ pass' = (pass /\ a.ok) /\ struck' = Note(Note(struck, a), b)
      BY DEF DropPages
    <2>2. "stale" \notin struck
      BY <1>1 DEF Short, BeforeDrop
    <2>3. ~b.ok
      BY <1>3, <2>1, <2>2, CallAnswers, Noted DEF Stale
    <2>4. PICK p \in 0 .. HalfPages - 1 : content'[p] = content[p]
      BY <2>1, <2>3 DEF Pages
    <2>5. p \in Pages /\ content[p] # "missing"
      BY <1>1, <2>4 DEF Pages, SInv, PagesSeen, PageSeen
    <2> QED
      BY <1>1, <2>4, <2>5 DEF Ahead
  <1>4. handled' \in Int
    BY <1>1 DEF TypeOK
  <1> QED
    BY <1>1, <1>2, <1>3, <1>4 DEF Short, BeforeDrop, Opening, AfterDrop

LEMMA ShortNext == SInv /\ Counted /\ Short /\ [Next]_vars => Short'
  <1> SUFFICES ASSUME SInv, Counted, Short, [Next]_vars, ~DropPages PROVE Short'
    BY ShortDrop
  <1>0. TypeOK /\ Control /\ OneMessage /\ i \in Int
    BY DEF SInv, IInv, TypeOK
  <1> USE <1>0, LoopIs, Sizes DEF Opening, AfterDrop
  <1>1. Stale' => Stale
    BY PassStays, StrikesWhere DEF Stale, TypeOK
  <1>2. "stale" \in struck' => "stale" \in struck
    BY StrikesWhere
  <1>3. CASE UNCHANGED <<pc, i, asleep, content, handled>>
    BY <1>1, <1>2, <1>3 DEF Short, Filled, Ahead
  <1>4. CASE OpenUffd \/ PrepareRegion \/ StartHandler \/ WaitReady \/ EnableReplication
    <2>1. /\ pc \in BeforeDrop
          /\ pc' \in BeforeDrop \cup {"skip", "exit1", "stop"}
      BY <1>4
      DEF OpenUffd, PrepareRegion, Setup, StartHandler, WaitReady, EnableReplication,
          BeforeDrop
    <2>2. "stale" \notin struck'
      BY <1>2, <2>1 DEF Short
    <2> QED
      BY <2>1, <2>2 DEF Short, Stale
  <1>5. CASE FaultOnPage
    <2>1. /\ UNCHANGED <<pc, i, content, handled>> /\ asleep' /\ ~asleep
          /\ content[i] = "missing"
      BY <1>5 DEF FaultOnPage, handlerVars
    <2>2. Filled = 0 /\ Filled' = 0
      BY <2>1 DEF Filled
    <2>3. \A p \in Pages : Ahead(p) /\ content[p] # "missing" => Ahead(p)'
      BY <2>1 DEF Ahead, Pages
    <2> QED
      BY <1>1, <1>2, <2>1, <2>2, <2>3 DEF Short
  <1>6. CASE ReadPage
    <2>1. /\ UNCHANGED <<pc, content, handled>> /\ ~asleep' /\ i' = i + 1
          /\ content[i] # "missing" /\ i < Loop[pc].turns /\ pc # "write"
      BY <1>6 DEF ReadPage, handlerVars
    <2>2. Filled' = 0 /\ Filled = IF asleep THEN 1 ELSE 0
      BY <2>1 DEF Filled
    <2>3. ASSUME asleep, NEW p \in Pages, Ahead(p) PROVE Ahead(p)'
      BY <2>1, <2>3 DEF Ahead, Pages
    <2>4. handled \in Int
      BY DEF TypeOK
    <2>5. CASE asleep
      BY <1>1, <1>2, <2>1, <2>2, <2>3, <2>4, <2>5 DEF Short
    <2>6. CASE ~asleep
      BY <1>1, <1>2, <2>1, <2>2, <2>4, <2>6 DEF Short
    <2> QED
      BY <2>5, <2>6
  <1>7. CASE WritePage
    BY <1>1, <1>2, <1>7 DEF WritePage, Short, handlerVars, BeforeDrop
  <1>8. CASE EndLoop
    <2>1. /\ UNCHANGED <<content, handled, asleep>> /\ ~asleep /\ i' = 0
          /\ i = Loop[pc].turns /\ pc' = Loop[pc].next /\ pc \in DOMAIN Loop
      BY <1>8 DEF EndLoop, OneMessage, handlerVars
    <2>2. Filled = 0
      BY <2>1 DEF Filled
    <2>3. CASE pc = "read3"
      <3>1. \A p \in Pages : ~Ahead(p)
        BY <2>1, <2>3 DEF Ahead, Pages
      <3> QED
        BY <1>1, <1>2, <2>1, <2>2, <2>3, <3>1 DEF Short, BeforeDrop
    <2>4. CASE pc # "read3"
      BY <1>1, <1>2, <2>1, <2>4 DEF Short, BeforeDrop
    <2> QED
      BY <2>3, <2>4
  <1>9. CASE DisableReplication \/ StopHandler \/ JoinHandler \/ CleanupAndReport
    <2>1. /\ UNCHANGED handled
          /\ pc \in AfterDrop /\ pc' \in AfterDrop \cup {"exit1"}
      BY <1>9
      DEF DisableReplication, StopHandler, JoinHandler, CleanupAndReport, handlerVars
    <2> QED
      BY <1>1, <2>1 DEF Short, BeforeDrop
  <1>10. CASE CopyPage
    <2>1. /\ pc \in {"read1", "read3"} /\ i \in Pages /\ asleep /\ content[i] = "missing"
          /\ UNCHANGED <<pc, i, asleep>> /\ \A p \in Pages \ {i} : content'[p] = content[p]
      BY <1>10, CopyFills
    <2>2. Filled = 0
      BY <2>1 DEF Filled
    <2>3. \A p \in Pages : Ahead(p) => p # i /\ Ahead(p)'
      BY <2>1 DEF Ahead
    <2>4. \/ handled' = handled + 1 /\ content'[i] # "missing"
          \/ handled' = handled /\ content' = content
      <3>1. taken = i
        BY <1>10, CopyFills
      <3> QED
        BY <1>10, <2>1, <3>1 DEF CopyPage, TypeOK
    <2>5. handled' = handled + Filled'
      BY <2>1, <2>4 DEF Filled, TypeOK
    <2>6. Filled' \in Int /\ handled \in Int
      BY DEF Filled, TypeOK
    <2>7. CASE pc = "read1"
      BY <1>2, <2>1, <2>7 DEF Short, BeforeDrop
    <2>8. CASE pc = "read3"
      <3>1. pc' = "read3" /\ i' = i
        BY <2>1, <2>8
      <3>2. ASSUME Stale'
            PROVE  /\ handled' <= NUM_PAGES + i' + Filled'
                   /\ \/ handled' < NUM_PAGES + i' + Filled'
                      \/ \E p \in Pages : Ahead(p)' /\ content'[p] # "missing"
        <4>1. /\ handled <= NUM_PAGES + i
              /\ \/ handled < NUM_PAGES + i
                 \/ \E p \in Pages : Ahead(p) /\ content[p] # "missing"
          BY <1>1, <2>2, <2>8, <3>2 DEF Short
        <4>2. NUM_PAGES + i \in Int
          OBVIOUS
        <4>3. (\E p \in Pages : Ahead(p) /\ content[p] # "missing") =>
                \E p \in Pages : Ahead(p)' /\ content'[p] # "missing"
          BY <2>1, <2>3
        <4> HIDE LoopIs, Sizes
        <4> QED
          BY <2>5, <2>6, <3>1, <4>1, <4>2, <4>3
      <3> QED
        BY <3>1, <3>2 DEF Short, BeforeDrop
    <2> QED
      BY <2>1, <2>7, <2>8
  <1>11. CASE Handler /\ ~CopyPage
    BY <1>3, <1>11
    DEF Handler, HandlerAllocates, HandlerTests, PollReturnsNothing, PollFails, PollReports,
        ReadMessage, mainVars
  <1> QED
    BY <1>3, <1>4, <1>5, <1>6, <1>7, <1>8, <1>9, <1>10, <1>11
    DEF Next, Main, Done, vars, mainVars, handlerVars

\* Every page is filled as often as main finds it missing, and less often only if
\* a translation has survived the drop.
THEOREM FaultsAreHandled == Spec => []EveryFaultHandled
  <1>1. SInv /\ Counted /\ Short => EveryFaultHandled
    <2> SUFFICES ASSUME SInv, Counted, Short, pc = "exit0"
                 PROVE  /\ handled <= NUM_PAGES + HalfPages
                        /\ handled = NUM_PAGES + HalfPages <=> "stale" \notin struck
      BY DEF EveryFaultHandled
    <2>1. pass /\ handled \in Int
      BY DEF SInv, IInv, Control, TypeOK
    <2>2. CASE "stale" \in struck
      BY <2>1, <2>2, Sizes DEF Short, Stale, AfterDrop
    <2>3. CASE "stale" \notin struck
      BY <2>1, <2>3, Sizes DEF Counted, Undisturbed, AfterDrop
    <2> QED
      BY <2>2, <2>3
  <1> QED
    BY <1>1, SInvInit, SInvNext, CountedInit, CountedNext, ShortInit, ShortNext, PTL
    DEF Spec

-----------------------------------------------------------------------------
(* Without a fault nothing looks wrong.                                    *)

Quiet ==
  struck = {} =>
    /\ pass /\ pc # "exit1"
    /\ \A p \in Pages :
         /\ content[p] # "bad"
         /\ (pc = "write" /\ p < i) \/ pc = "verify" => content[p] = "beef"

LEMMA QuietInit == Init => Quiet
  BY LoopIs DEF Init, Quiet

LEMMA QuietNext == SInv /\ Quiet /\ [Next]_vars => Quiet'
  <1> SUFFICES ASSUME SInv, Quiet, [Next]_vars, struck' = {}
               PROVE  /\ pass' /\ pc' # "exit1"
                      /\ \A p \in Pages :
                           /\ content'[p] # "bad"
                           /\ (pc' = "write" /\ p < i') \/ pc' = "verify" =>
                                content'[p] = "beef"
    BY DEF Quiet
  <1>0. TypeOK /\ Control /\ OneMessage /\ PagesSeen /\ struck = {} /\ i \in Int
    BY StruckGrows DEF SInv, IInv, TypeOK
  <1> USE <1>0, LoopIs, Sizes
  <1>1. CASE UNCHANGED <<pc, i, pass, content>>
    BY <1>1 DEF Quiet
  <1>2. CASE OpenUffd \/ PrepareRegion
    <2>1. /\ UNCHANGED <<i, pass, content>>
          /\ pc' \in {"api", "mmap", "register", "create", "skip"}
      BY <1>2, CallAnswers, NoneNoted DEF OpenUffd, PrepareRegion, Setup
    <2> QED
      BY <2>1 DEF Quiet
  <1>3. CASE StartHandler
    <2>1. UNCHANGED <<i, pass, content>> /\ pc' = "waitReady"
      BY <1>3, CallAnswers, NoneNoted DEF StartHandler
    <2> QED
      BY <2>1 DEF Quiet
  <1>4. CASE WaitReady
    BY <1>4 DEF Quiet, WaitReady
  <1>5. CASE FaultOnPage
    BY <1>5 DEF Quiet, FaultOnPage
  <1>6. CASE ReadPage
    <2>1. /\ UNCHANGED <<pc, content>> /\ i' = i + 1 /\ pc # "write" /\ i \in Pages
          /\ pc \in DOMAIN Loop /\ content[i] # "missing"
          /\ pass' = (pass /\ content[i] = Loop[pc].expects)
      BY <1>6, TurnIsPage DEF ReadPage
    <2>2. content[i] \in {"missing", "dead", "beef", "bad"} /\ PageSeen(i)
      BY <2>1 DEF TypeOK, PagesSeen
    <2>3. content[i] = Loop[pc].expects
      BY <2>1, <2>2 DEF Quiet, PageSeen, BeforeWrite
    <2> QED
      BY <2>1, <2>3 DEF Quiet
  <1>7. CASE WritePage
    <2>1. PICK a \in Call("lostWrite") :
            /\ content' = IF a.ok THEN [content EXCEPT ![i] = "beef"] ELSE content
            /\ struck' = Note(struck, a)
      BY <1>7 DEF WritePage
    <2>2. a.ok
      BY <2>1, CallAnswers, NoneNoted
    <2>3. UNCHANGED <<pc, pass>> /\ pc = "write" /\ i' = i + 1 /\ i \in Pages
      BY <1>7, TurnIsPage DEF WritePage
    <2>4. content' = [content EXCEPT ![i] = "beef"]
      BY <2>1, <2>2
    <2> QED
      BY <2>3, <2>4 DEF Quiet, TypeOK, Pages
  <1>8. CASE EndLoop
    <2>1. /\ UNCHANGED <<pass, content>> /\ i = Loop[pc].turns /\ i' = 0
          /\ pc \in DOMAIN Loop /\ pc' = Loop[pc].next
      BY <1>8 DEF EndLoop
    <2>2. pc' # "exit1" /\ (pc' = "verify" => pc = "write" /\ i = NUM_PAGES)
      BY <2>1
    <2> QED
      BY <2>1, <2>2 DEF Quiet, Pages
  <1>9. CASE EnableReplication
    <2>1. PICK a \in Enable(mask), b \in Call("corrupt") :
            /\ IF a.ret # 0 THEN pc' = "stop" /\ pass' = FALSE
                            ELSE pc' = "read2" /\ UNCHANGED pass
            /\ \/ b.ok /\ UNCHANGED content
               \/ ~b.ok /\ \E p \in Pages : content' = [content EXCEPT ![p] = "bad"]
            /\ struck' = Note(Note(struck, a), b)
      BY <1>9 DEF EnableReplication
    <2>2. b.ok /\ a.ret = 0
      BY <2>1, CallAnswers, EnableAnswers, NoneNoted DEF TypeOK
    <2> QED
      BY <2>1, <2>2 DEF Quiet
  <1>10. CASE DropPages
    <2>1. PICK a \in Call("madvise"), b \in Call("stale") :
            /\ pass' = (pass /\ a.ok)
            /\ \E kept \in SUBSET (0 .. HalfPages - 1) :
                 content' = [q \in Pages |-> IF a.ok /\ q < HalfPages /\ q \notin kept
                                             THEN "missing" ELSE content[q]]
            /\ struck' = Note(Note(struck, a), b)
      BY <1>10 DEF DropPages
    <2>2. a.ok
      BY <2>1, CallAnswers, NoneNoted
    <2>3. pc' = "read3" /\ \A p \in Pages : content'[p] \in {content[p], "missing"}
      BY <1>10, <2>1 DEF DropPages
    <2> QED
      BY <2>1, <2>2, <2>3 DEF Quiet
  <1>11. CASE DisableReplication
    <2>1. PICK a \in Disable(mask) : /\ pass' = (pass /\ a.ret = 0)
                                     /\ struck' = Note(struck, a)
      BY <1>11 DEF DisableReplication
    <2>2. a.ret = 0
      BY <2>1, DisableAnswers, NoneNoted DEF TypeOK
    <2> QED
      BY <1>11, <2>1, <2>2 DEF DisableReplication, Quiet
  <1>12. CASE StopHandler \/ JoinHandler
    BY <1>12 DEF StopHandler, JoinHandler, Quiet
  <1>13. CASE CleanupAndReport
    BY <1>13 DEF CleanupAndReport, Quiet
  <1>14. CASE CopyPage
    <2>1. PICK a \in Call("copy"), b \in Call("corrupt") :
            /\ content' =
                 IF a.ok THEN [content EXCEPT ![taken] = IF b.ok THEN "dead" ELSE "bad"]
                         ELSE content
            /\ struck' = Note(Note(struck, a), b)
      BY <1>14 DEF CopyPage
    <2>2. a.ok /\ b.ok
      BY <2>1, CallAnswers, NoneNoted
    <2>3. content' = [content EXCEPT ![taken] = "dead"]
      BY <2>1, <2>2
    <2>4. pc \in {"read1", "read3"} /\ UNCHANGED <<pc, pass>>
      BY <1>14, CopyFills
    <2> QED
      BY <2>3, <2>4 DEF Quiet, TypeOK
  <1>15. CASE Handler /\ ~CopyPage
    BY <1>1, <1>15
    DEF Handler, HandlerAllocates, HandlerTests, PollReturnsNothing, PollFails, PollReports,
        ReadMessage, mainVars
  <1> QED
    BY <1>1, <1>2, <1>3, <1>4, <1>5, <1>6, <1>7, <1>8, <1>9, <1>10, <1>11, <1>12, <1>13,
       <1>14, <1>15
    DEF Next, Main, Done, vars, mainVars

\* test24 fails only if something has gone wrong.
THEOREM NoAlarmIsFalse == Spec => []NoFalseAlarm
  <1>1. Quiet => NoFalseAlarm
    BY DEF Quiet, NoFalseAlarm
  <1> QED
    BY <1>1, SInvInit, SInvNext, QuietInit, QuietNext, PTL DEF Spec

-----------------------------------------------------------------------------
(* Every fault that the test can see leaves a trace until the verdict.     *)

\* A loop that checks what it reads has a wrong page ahead of it.
WrongAhead ==
  pc \in {"read1", "read2", "read3"} /\ \E p \in Pages :
    i <= p /\ p < Loop[pc].turns /\ content[p] = "bad"

\* A page that main has written to does not show it, and is still to be verified.
LostAhead ==
  \/ pc = "write" /\ \E p \in Pages : p < i /\ content[p] # "beef"
  \/ pc = "verify" /\ \E p \in Pages : p >= i /\ content[p] # "beef"

Traced ==
  /\ struck \cap {"api", "mmap", "register", "create"} # {} => pc = "exit1"
  /\ struck \cap {"refuse", "madvise", "stuck"} # {} => ~pass
  /\ "corrupt" \in struck => ~pass \/ WrongAhead
  /\ "lostWrite" \in struck => ~pass \/ LostAhead

LEMMA TracedInit == Init => Traced
  BY DEF Init, Traced

\* A page is shown wrongly: either by the copy of the page tables, before the second
\* loop, or by the handler, and then main sleeps on it.
LEMMA CorruptTraced ==
  ASSUME SInv, [Next]_vars, "corrupt" \in struck', "corrupt" \in struck => ~pass \/ WrongAhead
  PROVE  ~pass' \/ WrongAhead'
  <1>0. TypeOK /\ Control /\ OneMessage /\ i \in Int
    BY DEF SInv, IInv, TypeOK
  <1> USE <1>0, LoopIs, Sizes
  <1>1. CASE "corrupt" \notin struck
    <2>1. EnableReplication \/ CopyPage
      BY <1>1, StrikesWhere
    <2>2. CASE EnableReplication
      <3>1. PICK a \in Enable(mask), b \in Call("corrupt") :
              /\ IF a.ret # 0 THEN pc' = "stop" /\ pass' = FALSE
                              ELSE pc' = "read2" /\ UNCHANGED pass
              /\ \/ b.ok /\ UNCHANGED content
                 \/ ~b.ok /\ \E p \in Pages : content' = [content EXCEPT ![p] = "bad"]
              /\ struck' = Note(Note(struck, a), b)
        BY <2>2 DEF EnableReplication
      <3>2. "corrupt" = a.fault \/ "corrupt" = b.fault
        BY <1>1, <3>1, Noted
      <3>3. ~b.ok
        BY <3>1, <3>2, CallAnswers, EnableAnswers DEF TypeOK
      <3>4. PICK p \in Pages : content'[p] = "bad"
        BY <3>1, <3>3 DEF TypeOK
      <3>5. i' = 0
        BY <2>2 DEF EnableReplication, Control
      <3> QED
        BY <3>1, <3>4, <3>5 DEF WrongAhead, Pages
    <2>3. CASE CopyPage
      <3>1. PICK a \in Call("copy"), b \in Call("corrupt") :
              /\ a.ok \/ b.ok
              /\ content' =
                   IF a.ok THEN [content EXCEPT ![taken] = IF b.ok THEN "dead" ELSE "bad"]
                           ELSE content
              /\ struck' = Note(Note(struck, a), b)
        BY <2>3 DEF CopyPage
      <3>2. "corrupt" = a.fault \/ "corrupt" = b.fault
        BY <1>1, <3>1, Noted
      <3>3. ~b.ok
        BY <3>1, <3>2, CallAnswers
      <3>4. content' = [content EXCEPT ![taken] = "bad"]
        BY <3>1, <3>3
      <3>5. /\ pc' \in {"read1", "read3"} /\ i \in Pages /\ i < Loop[pc].turns
            /\ taken = i /\ UNCHANGED <<pc, i>>
        BY <2>3, CopyFills
      <3>6. content'[i] = "bad"
        BY <3>4, <3>5 DEF TypeOK
      <3> QED
        BY <3>5, <3>6 DEF WrongAhead
    <2> QED
      BY <2>1, <2>2, <2>3
  <1>2. CASE ~pass
    BY <1>2, PassStays
  <1>3. CASE pass /\ "corrupt" \in struck
    <2>1. pc \in {"read1", "read2", "read3"} /\ WrongAhead
      BY <1>3 DEF WrongAhead
    <2>2. PICK p \in Pages : i <= p /\ p < Loop[pc].turns /\ content[p] = "bad"
      BY <2>1 DEF WrongAhead
    <2>3. CASE ReadPage
      <3>1. /\ i' = i + 1 /\ UNCHANGED <<pc, content>>
            /\ pass' = (pass /\ content[i] = Loop[pc].expects)
        BY <2>3 DEF ReadPage
      <3>2. CASE p = i
        BY <2>1, <2>2, <3>1, <3>2
      <3>3. CASE p # i
        BY <2>1, <2>2, <3>1, <3>3 DEF WrongAhead, Pages
      <3> QED
        BY <3>2, <3>3
    <2>4. CASE CopyPage
      <3>1. UNCHANGED <<pc, i>> /\ p # i /\ content'[p] = content[p]
        BY <2>2, <2>4, CopyFills
      <3> QED
        BY <2>1, <2>2, <3>1 DEF WrongAhead
    <2>5. ~EndLoop
      BY <2>1, <2>2 DEF EndLoop, Pages
    <2>6. CASE ~ReadPage /\ ~CopyPage
      <3>1. UNCHANGED <<pc, i, content>>
        BY <2>1, <2>5, <2>6
        DEF Next, Main, OpenUffd, PrepareRegion, Setup, StartHandler, WaitReady, FaultOnPage,
            WritePage, EnableReplication, DropPages, DisableReplication, StopHandler,
            JoinHandler, CleanupAndReport, Handler, HandlerAllocates, HandlerTests,
            PollReturnsNothing, PollFails, PollReports, ReadMessage, Done, vars, mainVars
      <3> QED
        BY <2>1, <2>2, <3>1 DEF WrongAhead
    <2> QED
      BY <2>3, <2>4, <2>6
  <1> QED
    BY <1>1, <1>2, <1>3

\* A write is lost: the page shows main's value neither before nor after it.
LEMMA LostTraced ==
  ASSUME SInv, [Next]_vars, "lostWrite" \in struck',
         "lostWrite" \in struck => ~pass \/ LostAhead
  PROVE  ~pass' \/ LostAhead'
  <1>0. TypeOK /\ Control /\ OneMessage /\ PagesSeen /\ i \in Int
    BY DEF SInv, IInv, TypeOK
  <1> USE <1>0, LoopIs, Sizes
  <1>1. CASE "lostWrite" \notin struck
    <2>1. WritePage
      BY <1>1, StrikesWhere
    <2>2. PICK a \in Call("lostWrite") :
            /\ content' = IF a.ok THEN [content EXCEPT ![i] = "beef"] ELSE content
            /\ struck' = Note(struck, a)
      BY <2>1 DEF WritePage
    <2>3. content' = content
      BY <1>1, <2>2, CallAnswers, Noted
    <2>4. pc = "write" /\ pc' = "write" /\ i' = i + 1 /\ i \in Pages
      BY <2>1, TurnIsPage DEF WritePage
    <2>5. content[i] # "beef"
      BY <2>4 DEF PagesSeen, PageSeen
    <2> QED
      BY <2>3, <2>4, <2>5 DEF LostAhead
  <1>2. CASE ~pass
    BY <1>2, PassStays
  <1>3. CASE pass /\ "lostWrite" \in struck
    <2>1. /\ pc \in {"write", "verify"} /\ LostAhead
      BY <1>3 DEF LostAhead
    <2>2. PICK p \in Pages : /\ content[p] # "beef"
                             /\ (pc = "write" /\ p < i) \/ (pc = "verify" /\ p >= i)
      BY <2>1 DEF LostAhead
    <2>3. CASE ReadPage
      <3>1. /\ i' = i + 1 /\ UNCHANGED <<pc, content>> /\ pc = "verify"
            /\ pass' = (pass /\ content[i] = Loop[pc].expects)
        BY <2>1, <2>3 DEF ReadPage
      <3>2. CASE p = i
        BY <2>2, <3>1, <3>2
      <3>3. CASE p # i
        BY <2>2, <3>1, <3>3 DEF LostAhead, Pages
      <3> QED
        BY <3>2, <3>3
    <2>4. CASE WritePage
      <3>1. pc = "write" /\ pc' = "write" /\ i' = i + 1 /\ content'[p] = content[p]
        BY <2>2, <2>4, TurnIsPage DEF WritePage, TypeOK
      <3> QED
        BY <2>2, <3>1 DEF LostAhead, Pages
    <2>5. CASE EndLoop
      <3>1. pc' = Loop[pc].next /\ i' = 0 /\ i = Loop[pc].turns /\ UNCHANGED content
        BY <2>5 DEF EndLoop
      <3>2. pc = "write"
        BY <2>1, <2>2, <3>1 DEF Pages
      <3> QED
        BY <2>2, <3>1, <3>2 DEF LostAhead, Pages
    <2>6. CASE ~ReadPage /\ ~WritePage /\ ~EndLoop
      <3>1. ~CopyPage
        BY <2>1, CopyFills
      <3>2. UNCHANGED <<pc, i, content>>
        BY <2>1, <2>6, <3>1
        DEF Next, Main, OpenUffd, PrepareRegion, Setup, StartHandler, WaitReady, FaultOnPage,
            EnableReplication, DropPages, DisableReplication, StopHandler,
            JoinHandler, CleanupAndReport, Handler, HandlerAllocates, HandlerTests,
            PollReturnsNothing, PollFails, PollReports, ReadMessage, Done, vars, mainVars
      <3> QED
        BY <2>2, <3>2 DEF LostAhead
    <2> QED
      BY <2>3, <2>4, <2>5, <2>6
  <1> QED
    BY <1>1, <1>2, <1>3

LEMMA TracedNext == SInv /\ Traced /\ [Next]_vars => Traced'
  <1> SUFFICES ASSUME SInv, Traced, [Next]_vars PROVE Traced'
    OBVIOUS
  <1>0. TypeOK
    BY DEF SInv, IInv
  <1>1. ASSUME NEW f \in {"api", "mmap", "register", "create"}, f \in struck'
        PROVE  pc' = "exit1"
    <2>1. CASE f \in struck
      <3>1. Exited
        BY <1>1, <2>1 DEF Traced, Exited
      <3> QED
        BY <1>1, <2>1, <3>1, ExitIsFinal DEF Traced, vars, mainVars
    <2>2. CASE f \notin struck
      BY <1>0, <1>1, <2>2, StrikesWhere
    <2> QED
      BY <2>1, <2>2
  <1>2. ASSUME NEW f \in {"refuse", "madvise", "stuck"}, f \in struck' PROVE ~pass'
    <2>1. CASE f \in struck
      <3>1. ~pass
        BY <1>2, <2>1 DEF Traced
      <3> QED
        BY <1>0, <3>1, PassStays
    <2>2. CASE f \notin struck
      BY <1>0, <1>2, <2>2, StrikesWhere
    <2> QED
      BY <2>1, <2>2
  <1>3. "corrupt" \in struck' => ~pass' \/ WrongAhead'
    BY CorruptTraced DEF Traced
  <1>4. "lostWrite" \in struck' => ~pass' \/ LostAhead'
    BY LostTraced DEF Traced
  <1> QED
    BY <1>1, <1>2, <1>3, <1>4 DEF Traced

\* Status 0 of test24: none of the faults it can see has struck.
THEOREM NoFaultIsMissed == Spec => []FaultsCaught
  <1>1. SInv /\ Traced => FaultsCaught
    <2> SUFFICES ASSUME SInv, Traced, pc = "exit0",
                        NEW f \in {"api", "mmap", "register", "create", "refuse",
                                   "corrupt", "madvise", "lostWrite", "stuck"},
                        f \in struck
                 PROVE  FALSE
      BY DEF FaultsCaught
    <2>1. pass
      BY DEF SInv, IInv, Control
    <2>2. ~WrongAhead /\ ~LostAhead
      BY DEF WrongAhead, LostAhead
    <2> QED
      BY <2>1, <2>2 DEF Traced
  <1> QED
    BY <1>1, SInvInit, SInvNext, TracedInit, TracedNext, PTL DEF Spec

=============================================================================

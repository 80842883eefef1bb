-------------------------- MODULE ProcessScripts --------------------------
(***************************************************************************)
(* The programs of several processes: inheritance over fork (test2) and    *)
(* exec (6), a second thread (3), shared memory (8), copy on write of      *)
(* anonymous memory (10) and of a file (19), vfork (20), workers that      *)
(* replicate at once (21) and clone (26).  The conventions are those of    *)
(* MemoryScripts; MainN is the first process of testN, ChildN its child.   *)
(***************************************************************************)
EXTENDS ScriptSteps

Main2 ==
  << enable("abort"), query("on", "abort"),
     fork("child1", {}, "abort"), wait("child1", "abort"),
     query("on", "abort"), disable("ignore"), end >>

Child2 == << query("zero", "abort"), enable("abort"), query("on", "abort"), end >>

\* "flag" is thread_running.  Every failure while the thread runs stops it and
\* joins it.
Main3 ==
  << enable("abort"), query("nonzero", "abort"), disable("abort"),
     thread("child1", "abort"), await({"flag"}, "new"),
     enable("cleanup"), query("nonzero", "cleanup"), enable("cleanup"), disable("cleanup"),
     labelled("cleanup", write({"flag"}, "zero")), wait("child1", "ignore"), judge,
     enable("abort"), disable("ignore"), end >>

Child3 == << write({"flag"}, "new"), await({"flag"}, "zero"), end >>

Main6 ==
  << enable("abort"), query("on", "abort"), map({"mem"}, "abort"), write({"mem"}, "new"),
     keeping({"mem"}, fork("child1", {}, "abort")), wait("child1", "abort"),
     query("on", "abort"), check({"mem"}, "new", "abort"), disable("ignore"), end >>

\* The program that replaces the child checks what test2's child checks.
Replaced6 == Child2

Child6 == <<exec("abort")>> \o Replaced6

\* The child appends to what the parent has written.  Whether ftruncate has
\* failed is not looked at: the write to the file's mapping is then fatal.
Main8 ==
  << enable("abort"), map({"prefix", "suffix"}, "abort"), write({"prefix"}, "parent"),
     fork("child1", {}, "abort"), wait("child1", "abort"),
     check({"suffix"}, "child", "abort"), check({"prefix"}, "parent", "abort"),
     unmap({"prefix", "suffix"}, "ignore") >>
  \o orSkip(call("ignore"),                                \* shm_open
            << map({"file"}, "abort"), call("die"),          \* ftruncate
               write({"file"}, "new"), check({"file"}, "new", "abort") >>)
  \o << query("on", "abort"), disable("ignore"), end >>

Child8 ==
  << query("zero", "abort"), write({"suffix"}, "child"),
     check({"suffix"}, "child", "abort"), end >>

\* "changed" are the pages the child writes, "kept" the others.  The parent
\* writes those 100 ms after the fork: the child may be anywhere.
Main10 ==
  << enable("abort"), map({"changed", "kept"}, "abort"), write({"changed", "kept"}, "old"),
     fork("child1", {"changed", "kept"}, "abort"), write({"kept"}, "parent"),
     wait("child1", "abort"),
     check({"changed"}, "old", "abort"), check({"kept"}, "parent", "abort"),
     query("on", "abort"), unmap({"changed", "kept"}, "ignore"), disable("ignore"), end >>

Child10 ==
  << query("zero", "abort"), check({"changed", "kept"}, "old", "abort"),
     write({"changed"}, "child"), check({"changed"}, "child", "abort"),
     check({"kept"}, "old", "abort"), end >>

\* The status is kept at the wait and judged at the end.
Main19 ==
  << call("abort"), call("abort"), map({"changed", "kept"}, "abort"), enable("abort"),
     write({"changed", "kept"}, "parent"),
     fork("child1", {}, "abort"), wait("child1", "note"),
     check({"changed"}, "parent", "note"), check({"kept"}, "parent", "note"),
     disable("note"), end >>

Child19 == << write({"changed"}, "child"), check({"changed"}, "child", "abort"), end >>

\* vfork: the children share the memory of their parent.
Main20 ==
  << map({"data"}, "abort"), write({"data"}, "new"), keeping({"data"}, enable("abort")),
     fork("child1", {}, "abort"), wait("child1", "note"),
     check({"touched"}, "new", "note"), check({"data"}, "new", "note") >>
  \o orSkip(fork("child2", {}, "note"), <<wait("child2", "note")>>)
  \o << disable("note"), end >>

Child20 == << check({"data"}, "new", "abort"), write({"touched"}, "new"), end >>

\* Exit status 127, of an exec that fails, is accepted.
Child20Exec == << exec("ignore"), end >>

\* Two of the four workers, two of the hundred iterations; a worker's pattern
\* is its own, and that of the first iteration is there already.
Worker21(v0, v1) ==
  << map({"mem"}, "abort"), write({"mem"}, v0), enable("abort"),
     write({"mem"}, v0), check({"mem"}, v0, "abort"),
     write({"mem"}, v1), check({"mem"}, v1, "abort"),
     keeping({"mem"}, disable("abort")), check({"mem"}, v1, "abort"),
     unmap({"mem"}, "ignore"), end >>

Main21 ==
  << fork("child1", {}, "kill"), fork("child2", {}, "kill"),
     wait("child1", "note"), wait("child2", "note"), end >>

\* CLONE_VM ends replication or is refused (EINVAL).  Every failure from here
\* on frees the stack, on which the child may be running.
Main26 ==
  << numa, enable("abort"), query("nonzero", "abort"), map({"stack"}, "abort") >>
  \o orSkip(cloneVM("child1", "cleanup"),
            << query("zero", "cleanup"), wait("child1", "ignore"), enable("cleanup") >>)
  \o << fork("child2", {}, "cleanup"), query("nonzero", "cleanup"),
        waitExit("child2", "cleanup"), disable("ignore"),
        labelled("cleanup", unmap({"stack"}, "ignore")), end >>

Child26 ==
  <<query("zero", "abort")>> \o fresh({"own"}, "abort") \o <<unmap({"own"}, "ignore"), end>>

=============================================================================

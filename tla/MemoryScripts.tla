--------------------------- MODULE MemoryScripts ---------------------------
(***************************************************************************)
(* The programs that change the address space while page tables are        *)
(* replicated: allocation (test5), heap (12), stack (13), munmap (14),     *)
(* mremap (15), MADV_DONTNEED (16, 27, 33), MAP_FIXED (17), regions of     *)
(* several kinds (28) and mapped files (29).  Pages treated alike are one  *)
(* region.  Left out are queries whose result is only printed, writes that *)
(* nothing reads, and what a program frees before it exits.  A loop is two *)
(* rounds that write different values.                                     *)
(***************************************************************************)
EXTENDS ScriptSteps

Main5 ==
  <<enable("abort")>>
  \o fresh({"heap"}, "abort") \o fresh({"mapping"}, "abort")
  \o orSkip(map({"large"}, "ignore"),
            << write({"large"}, "new"), check({"large"}, "new", "print"),
               unmap({"large"}, "ignore") >>)
  \o << unmap({"heap", "mapping"}, "ignore"), disable("abort"), end >>

Main12 ==
  <<call("abort"), enable("abort")>>
  \o fresh({"page"}, "abort") \o fresh({"pages"}, "abort")
  \o << call("abort"), call("abort"), call("ignore") >>    \* brk up, its result, brk down
  \o fresh({"heap"}, "abort")
  \o << query("on", "abort"), disable("ignore"), end >>

\* What grows the stack either works or kills the process.
OnStack(r) == <<map({r}, "die"), write({r}, "new"), check({r}, "new", "abort")>>

\* Two frames of the recursion; the outer one lives on under the inner one.
Main13 ==
  << call("abort"), call("ignore"), enable("abort") >>
  \o OnStack("buffer") \o OnStack("alloca")
  \o OnStack("frame") \o OnStack("inner") \o OnStack("bottom")
  \o OnStack("vla") \o OnStack("large")
  \o << query("on", "abort"), disable("ignore"), end >>

\* The gap is mapped with MAP_FIXED_NOREPLACE and, if that is refused, with
\* MAP_FIXED: the step is refused where both are.
Main14 ==
  << enable("abort"),
     map({"r1"}, "abort"), map({"r2"}, "abort"), map({"r3", "r3end"}, "abort"),
     write({"r1"}, "a"), write({"r2"}, "b"), write({"r3"}, "c"),
     check({"r1"}, "a", "abort"), check({"r2"}, "b", "abort"), check({"r3"}, "c", "abort"),
     keeping({"r1", "r3"}, unmap({"r2"}, "abort")),
     check({"r1"}, "a", "abort"), check({"r3"}, "c", "abort") >>
  \o orSkip(map({"gap"}, "ignore"), << write({"gap"}, "d"), check({"gap"}, "d", "abort") >>)
  \o << keeping({"r3"}, unmap({"r3end"}, "abort")), check({"r3"}, "c", "abort"),
        query("nonzero", "abort"), disable("abort"), end >>

\* test15: a mapping that is resized again and again; the pages first and last
\* of each size are written and read.
Resized(v) == << call("abort"), write({"r1"}, v), check({"r1"}, v, "abort") >>

\* Its first pages survive shrinking, the rest is new.
Oscillated(v) ==
  << write({"first"}, v),
     keeping({"first"}, unmap({"rest"}, "abort")),
     keeping({"first"}, map({"rest"}, "abort")),
     check({"first"}, v, "abort"),
     write({"rest"}, "new"), check({"rest"}, "new", "abort") >>

\* Moved to a fixed address: refused (the result is printed only), or at
\* another address, or there with its content.
MovedToFixed ==
  orSkip(map({"source", "target"}, "ignore"),
    <<unmap({"source", "target"}, "ignore")>>
    \o orSkip(map({"source"}, "ignore"),
         <<write({"source"}, "new")>>
         \o orSkip(keeping({"target"}, move("source", "target", "print")),
              << call("abort"), check({"target"}, "new", "abort"),
                 unmap({"target"}, "ignore") >>)))

Main15 ==
  << enable("abort"), map({"r1"}, "abort") >>
  \o Resized("v0") \o Resized("v1")
  \o << unmap({"r1"}, "ignore"),
        map({"r2"}, "abort"), call("abort"),
        write({"r2"}, "new"), check({"r2"}, "new", "abort"), unmap({"r2"}, "ignore") >>
  \o MovedToFixed
  \o <<map({"first", "rest"}, "abort")>>
  \o Oscillated("v0") \o Oscillated("v1")
  \o << unmap({"first", "rest"}, "ignore") >>
  \o orSkip(map({"r5"}, "ignore"), << call("ignore"), unmap({"r5"}, "ignore") >>)
  \o << query("nonzero", "abort"), disable("abort"), end >>

Both == {"half1", "half2"}

Main16 ==
  << enable("abort"), map(Both, "abort"),
     write(Both, "old"), check(Both, "old", "cleanup"),
     drop(Both, "cleanup"), check(Both, "zero", "cleanup"),
     write(Both, "new"), check(Both, "new", "cleanup"),
     keeping({"half2"}, drop({"half1"}, "cleanup")),
     check({"half1"}, "zero", "cleanup"), check({"half2"}, "new", "cleanup"),
     shut(Both, "cleanup"), drop(Both, "cleanup"), open(Both, "cleanup"),
     check(Both, "zero", "cleanup"),
     labelled("cleanup", unmap(Both, "ignore")), disable("ignore"), end >>

Main17 ==
  LET all == {"head", "middle", "tail"} IN
  << enable("abort"), map(all, "abort"),
     write(all, "a"), check(all, "a", "cleanup"),
     keeping({"head", "tail"}, map({"middle"}, "cleanup")),
     write({"middle"}, "b"),
     check({"head"}, "a", "cleanup"), check({"middle"}, "b", "cleanup"),
     check({"tail"}, "a", "cleanup"),
     map(all, "cleanup"), write(all, "c"), check(all, "c", "cleanup"),
     labelled("cleanup", unmap(all, "ignore")), disable("ignore"), end >>

\* What is wrong in the first half is counted, in the second half printed.
Main27 ==
  << enable("abort"), map(Both, "abort"),
     write(Both, "old"), check(Both, "old", "abort"),
     keeping({"half2"}, drop({"half1"}, "abort")),
     check({"half1"}, "zero", "note"), check({"half2"}, "old", "print"),
     unmap(Both, "ignore"), disable("ignore"), end >>

Main28 ==
  << numa, enable("abort"), query("nonzero", "abort") >>
  \o OnStack("buffer") \o OnStack("alloca")
  \o fresh({"small"}, "abort") \o <<unmap({"small"}, "ignore")>>
  \o fresh({"big"}, "abort") \o <<unmap({"big"}, "ignore")>>
  \o << map({"zeroed"}, "abort"), check({"zeroed"}, "zero", "abort"),
        write({"zeroed"}, "new"), check({"zeroed"}, "new", "abort") >>
  \o fresh({"map1"}, "abort")
  \o orSkip(map({"map2"}, "ignore"),
            << write({"map2"}, "new"), check({"map2"}, "new", "abort") >>)
  \o << query("nonzero", "abort"), disable("ignore"), end >>

\* "disk" is the file: writes to the private mapping must leave it alone, writes
\* to the shared one go to it.
Main29 ==
  << numa, call("abort"), call("abort"), mapFile({"disk"}, "file", "abort"),
     enable("abort"), query("nonzero", "abort"),
     mapFile({"private"}, "disk", "abort"), check({"private"}, "file", "abort"),
     keeping({"disk"}, write({"private"}, "new")), check({"private"}, "new", "abort"),
     mapFile({"shared"}, "disk", "abort"), check({"shared"}, "file", "abort"),
     write({"disk"}, "changed"), call("ignore"),
     mapFile({"verify"}, "disk", "abort"), check({"verify"}, "changed", "abort"),
     query("nonzero", "abort"), disable("ignore"), end >>

Discarded(r) ==
  << write({r}, "new"), check({r}, "new", "abort"),
     drop({r}, "abort"), check({r}, "zero", "abort") >>

Main33 ==
  << enable("abort"), map({"page1", "page2"}, "abort") >>
  \o Discarded("page1") \o Discarded("page2")
  \o << unmap({"page1", "page2"}, "ignore"), disable("ignore"), end >>

=============================================================================

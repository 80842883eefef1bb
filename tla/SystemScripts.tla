--------------------------- MODULE SystemScripts ---------------------------
(***************************************************************************)
(* The programs about the prctl calls (test1, test4, test11) and about     *)
(* what else the system does with memory that is replicated: huge pages    *)
(* (22), migration (23), locking (25), NUMA policies (30) and resource     *)
(* limits (31).  The conventions are those of MemoryScripts.               *)
(***************************************************************************)
EXTENDS ScriptSteps

Main1 ==
  << query("zero", "abort"),
     enable("abort"), query("on", "abort"),
     disable("abort"), query("zero", "abort"), end >>

\* Nodes are not told apart: node 0, nodes 0 and 1, node 7 (which should not
\* exist), all nodes.
Main4 ==
  <<numa>>
  \o orSkip(enable("ignore"), <<query("on", "abort")>>)
  \o << disable("ignore"), enable("abort"), query("on", "abort"), disable("ignore") >>
  \o orSkip(invalid, <<disable("ignore")>>)
  \o << enable("abort"), disable("ignore"), end >>

Cycle(v) ==
  << enable("abort"), query("on", "abort"),
     map({"pages"}, "abort"), write({"pages"}, v), check({"pages"}, v, "abort"),
     keeping({"pages"}, disable("abort")), query("zero", "abort"),
     check({"pages"}, v, "abort"),
     write({"pages"}, "inverted"), check({"pages"}, "inverted", "abort"),
     unmap({"pages"}, "ignore") >>

Main11 ==
  Cycle("v0") \o Cycle("v1")
  \o << enable("abort"), query("on", "abort"), disable("ignore"), end >>

\* The middle page is read-only while the pages around it are written.
Main22 ==
  << map({"thp", "middle"}, "abort"), call("ignore"), enable("abort"),
     write({"thp", "middle"}, "old"), check({"thp", "middle"}, "old", "note") >>
  \o orSkip(map({"explicit"}, "ignore"),
            << write({"explicit"}, "new"), check({"explicit"}, "new", "note"),
               unmap({"explicit"}, "note") >>)
  \o orSkip(shut({"middle"}, "note"),
            << write({"thp"}, "new"), check({"thp"}, "new", "note"),
               open({"middle"}, "note") >>)
  \o << disable("note"), end >>

Main23 ==
  << numa, map({"area"}, "abort"), write({"area"}, "old"),
     keeping({"area"}, enable("abort")),
     call("note"), keeping({"area"}, call("ignore")),      \* move_pages: query, migrate
     check({"area"}, "old", "note"),
     call("ignore") >>                                     \* set_mempolicy
  \o orSkip(map({"policy"}, "ignore"),
            << write({"policy"}, "new"), check({"policy"}, "new", "note"),
               unmap({"policy"}, "ignore") >>)
  \o << keeping({"area"}, disable("note")), check({"area"}, "old", "note"), end >>

\* The final checks expect what is written only where mlock has succeeded.
Main25 ==
  << call("ignore"), map({"r1"}, "abort"), map({"r2"}, "abort"),
     write({"r1"}, "a"), keeping({"r1"}, enable("abort")) >>
  \o orSkip(call("ignore"),                                \* mlock
            << check({"r1"}, "a", "note"),
               write({"r1"}, "new"), check({"r1"}, "new", "note") >>)
  \o orSkip(map({"r3"}, "note"), <<call("ignore")>>)
  \o orSkip(call("ignore"),                                \* mlockall
            orSkip(map({"post"}, "ignore"),
                   << write({"post"}, "new"), check({"post"}, "new", "note"),
                      unmap({"post"}, "ignore") >>))
  \o orSkip(call("ignore"), <<check({"r1"}, "new", "note")>>)     \* munlock
  \o orSkip(call("ignore"),                                \* mlock of a part
            << write({"r2"}, "new"), check({"r2"}, "new", "note") >>)
  \o << keeping({"r1", "r2"}, disable("note")),
        check({"r1"}, "new", "note"), check({"r2"}, "new", "note"),
        unmap({"r1", "r2"}, "ignore"), end >>

Allocated == fresh({"mem"}, "abort") \o <<unmap({"mem"}, "ignore")>>

Main30 ==
  << numa, enable("abort"), query("nonzero", "abort") >>
  \o Allocated
  \o orSkip(call("ignore"), Allocated) \o orSkip(call("ignore"), Allocated)
  \o orSkip(call("ignore"), Allocated)       \* bind, interleave, preferred
  \o << call("ignore"), map({"mem"}, "abort"), write({"mem"}, "new"),
        keeping({"mem"}, call("ignore")),    \* mbind
        check({"mem"}, "new", "abort"), unmap({"mem"}, "ignore"),
        query("nonzero", "abort"), disable("ignore"), end >>

\* One limit at a time: replication may be refused under the first two only.
DataLimit ==
  orSkip(lower("data"),
    orSkip(enable("ignore"),
      << map({"mem"}, "cleanup"), write({"mem"}, "new"), check({"mem"}, "new", "cleanup"),
         unmap({"mem"}, "ignore"), labelled("cleanup", disable("ignore")) >>)
    \o << restore("data"), judge >>)

StackLimit ==
  orSkip(lower("stack"),
    orSkip(enable("ignore"),
      << map({"frame"}, "die"), write({"frame"}, "new"), check({"frame"}, "new", "cleanup"),
         labelled("cleanup", disable("ignore")) >>)
    \o << restore("stack"), judge >>)

ProcessLimit ==
  orSkip(lower("processes"),
    << enable("restored"), query("nonzero", "restored"), disable("ignore"),
       labelled("restored", restore("processes")), judge >>)

CpuLimit ==
  orSkip(lower("cpu"),
    << enable("restored"), query("nonzero", "restored"),
       map({"mem"}, "cleanup"), unmap({"mem"}, "ignore"),
       labelled("cleanup", disable("ignore")),
       labelled("restored", restore("cpu")), judge >>)

Main31 ==
  << numa, enable("abort"), query("nonzero", "abort"), disable("ignore") >>
  \o DataLimit \o StackLimit \o ProcessLimit \o CpuLimit \o <<end>>

=============================================================================

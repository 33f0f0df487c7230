---------------------------- MODULE GpuMinerProofs ----------------------------
(***************************************************************************)
(* First the device (module GpuDevice): where the CUDA test and its kernel *)
(* look for the words of a message and of its hash, at the same places and *)
(* no two of them at one; and the handles, from the first call of the      *)
(* set-up to the return of main, which DeviceInv keeps in every step of    *)
(* the device and in those of a loop that leaves the handles alone.  Then  *)
(* the miner (module GpuMiner): the buffer between the threads of a kernel *)
(* and the host, for any number of threads, size of the buffer and set of  *)
(* coins, and every order of the threads; the handles of the programs; and *)
(* what the host keeps of the coins.                                       *)
(***************************************************************************)
EXTENDS GpuMiner, SumTheorems, SequenceTheorems

(* Division and remainder by the size of a warp, as facts for the provers. *)
LEMMA WarpDivision ==
    ASSUME NEW n \in Nat
    PROVE  /\ n \div WARP \in Nat
           /\ n % WARP \in 0..31
           /\ n = (32 * (n \div WARP)) + (n % WARP)
BY DEF WARP

(* A number has one quotient and one remainder. *)
LEMMA OneQuotient ==
    ASSUME NEW p \in Int, NEW x \in 0..31,
           NEW q \in Int, NEW y \in 0..31,
           32 * p + x = 32 * q + y
    PROVE  p = q /\ x = y
<1>1. ~(p < q)
  <2>1. SUFFICES ASSUME p + 1 <= q PROVE FALSE
    OBVIOUS
  <2> QED
    BY <2>1
<1>2. ~(q < p)
  <2>1. SUFFICES ASSUME q + 1 <= p PROVE FALSE
    OBVIOUS
  <2> QED
    BY <2>1
<1> QED
  BY <1>1, <1>2

(* The test writes the words of a message, and reads those of its hash,    *)
(* where the kernel looks for them: 14 and 5 words, in every thread.       *)
THEOREM TestMeetsKernel ==
    \A words \in {14, 5} : \A n \in Nat : \A i \in 0..(words - 1) :
        TestIndex(words, n, i) = KernelIndex(words, n, i)
<1>1. ASSUME NEW n \in Nat, NEW i \in Int
      PROVE  /\ TestIndex(14, n, i) = KernelIndex(14, n, i)
             /\ TestIndex(5, n, i) = KernelIndex(5, n, i)
  BY WarpDivision DEF TestIndex, KernelIndex, WARP
<1> QED
  BY <1>1

(* Two threads, or two words of one thread, never meet at one place of an  *)
(* area, so the threads of a launch write no word of one another.          *)
THEOREM WordsApart ==
    \A words \in {14, 5} : \A n, m \in Nat : \A i, j \in 0..(words - 1) :
        TestIndex(words, n, i) = TestIndex(words, m, j) => n = m /\ i = j
<1>1. TAKE words \in {14, 5}
<1>2. TAKE n, m \in Nat
<1>3. TAKE i, j \in 0..(words - 1)
<1>4. HAVE TestIndex(words, n, i) = TestIndex(words, m, j)
<1>5. PICK a \in Nat, r \in 0..31 : a = n \div WARP /\ r = n % WARP /\ n = 32 * a + r
  BY WarpDivision
<1>6. PICK b \in Nat, s \in 0..31 : b = m \div WARP /\ s = m % WARP /\ m = 32 * b + s
  BY WarpDivision
<1>7. 32 * words * a + 32 * i + r = 32 * words * b + 32 * j + s
  BY <1>4, <1>5, <1>6 DEF TestIndex, WARP
<1>8. CASE words = 14
  <2>1. 32 * (14 * a + i) + r = 32 * (14 * b + j) + s
    BY <1>7, <1>8
  <2>2. 14 * a + i = 14 * b + j /\ r = s
    <3> DEFINE p == 14 * a + i
               q == 14 * b + j
    <3>1. p \in Int /\ q \in Int /\ 32 * p + r = 32 * q + s
      BY <1>8, <2>1
    <3> HIDE DEF p, q
    <3>2. p = q /\ r = s
      BY <3>1, OneQuotient
    <3> QED
      BY <3>2 DEF p, q
  <2>3. i \in 0..13 /\ j \in 0..13
    BY <1>8
  <2>4. ~(a < b) /\ ~(b < a)
    BY <2>2, <2>3
  <2>5. n = 32 * a + r /\ m = 32 * b + s
    BY <1>5, <1>6
  <2> QED
    BY <2>2, <2>3, <2>4, <2>5
<1>9. CASE words = 5
  <2>1. 32 * (5 * a + i) + r = 32 * (5 * b + j) + s
    BY <1>7, <1>9
  <2>2. 5 * a + i = 5 * b + j /\ r = s
    <3> DEFINE p == 5 * a + i
               q == 5 * b + j
    <3>1. p \in Int /\ q \in Int /\ 32 * p + r = 32 * q + s
      BY <1>9, <2>1
    <3> HIDE DEF p, q
    <3>2. p = q /\ r = s
      BY <3>1, OneQuotient
    <3> QED
      BY <3>2 DEF p, q
  <2>3. i \in 0..4 /\ j \in 0..4
    BY <1>9
  <2>4. ~(a < b) /\ ~(b < a)
    BY <2>2, <2>3
  <2>5. n = 32 * a + r /\ m = 32 * b + s
    BY <1>5, <1>6
  <2> QED
    BY <2>2, <2>3, <2>4, <2>5
<1> QED
  BY <1>8, <1>9

-----------------------------------------------------------------------------
(* The lists of calls and handles *)

Names == {"device", "context", "queue", "source", "program", "build", "kernel", "buffer",
          "host_buffer", "module", "stream", "host_data0", "device_data0", "host_data1",
          "device_data1"}

LEMMA Joined ==
    ASSUME NEW S, NEW s \in Seq(S), NEW t \in Seq(S), NEW u \in Seq(S),
           Len(u) = Len(s) + Len(t), \A i \in 1..Len(s) : u[i] = s[i],
           \A i \in 1..Len(t) : u[Len(s) + i] = t[i]
    PROVE  s \o t = u
<1>1. /\ s \o t \in Seq(S) /\ Len(s \o t) = Len(s) + Len(t)
      /\ \A i \in 1..(Len(s) + Len(t)) :
            (s \o t)[i] = IF i <= Len(s) THEN s[i] ELSE t[i - Len(s)]
  BY ConcatProperties
<1>2. PICK a \in Nat, b \in Nat : a = Len(s) /\ b = Len(t)
  OBVIOUS
<1>3. ASSUME NEW i \in 1..Len(u) PROVE (s \o t)[i] = u[i]
  <2>1. CASE i <= Len(s)
    BY <1>1, <1>2, <2>1
  <2>2. CASE ~(i <= Len(s))
    <3>1. i - a \in 1..b /\ i = a + (i - a)
      BY <1>2, <2>2
    <3> QED
      BY <1>1, <1>2, <2>2, <3>1
  <2> QED
    BY <2>1, <2>2
<1> QED
  BY <1>1, <1>3, SeqEqual

(* Two joined to seven: the calls of the test, the end of it, and what the *)
(* OpenCL program releases.                                                *)
TestSetup == <<"context", "module", "stream", "host_data0", "device_data0", "host_data1",
               "device_data1">>
CudaEnd == <<"stream", "host_data0", "device_data0", "module", "context">>
TestEnd == <<"stream", "host_data0", "device_data0", "host_data1", "device_data1", "module",
             "context">>
OpenClEnd == <<"host_buffer", "buffer", "kernel", "program", "queue", "context">>
ProgramFailed == <<"source", "kernel", "program", "queue", "context">>
KernelFailed == <<"program", "source", "kernel", "program", "queue", "context">>

LEMMA TestCalls == SetupCalls["cuda_test"] = TestSetup
<1>1. PICK s \in Seq(Names), t \in Seq(Names), u \in Seq(Names) :
         s = CudaSetup /\ t = <<"host_data1", "device_data1">> /\ u = TestSetup
  <2>1. /\ CudaSetup \in Seq(Names) /\ <<"host_data1", "device_data1">> \in Seq(Names)
        /\ TestSetup \in Seq(Names)
    BY DEF Names, CudaSetup, TestSetup
  <2> QED
    BY <2>1
<1>2. /\ Len(u) = Len(s) + Len(t) /\ \A i \in 1..Len(s) : u[i] = s[i]
      /\ \A i \in 1..Len(t) : u[Len(s) + i] = t[i]
  BY <1>1 DEF CudaSetup, TestSetup
<1>3. s \o t = u
  BY <1>2, Joined
<1> QED
  BY <1>1, <1>3 DEF SetupCalls

LEMMA TerminateMiner == TerminateCuda(FirstArea) = CudaEnd
<1>1. PICK s \in Seq(Names), t \in Seq(Names), u \in Seq(Names), v \in Seq(Names),
           w \in Seq(Names) :
         /\ s = <<"stream">> /\ t = FirstArea /\ u = <<"stream", "host_data0", "device_data0">>
         /\ v = <<"module", "context">> /\ w = CudaEnd
  <2>1. /\ <<"stream">> \in Seq(Names) /\ FirstArea \in Seq(Names)
        /\ <<"stream", "host_data0", "device_data0">> \in Seq(Names)
        /\ <<"module", "context">> \in Seq(Names) /\ CudaEnd \in Seq(Names)
    BY DEF Names, FirstArea, CudaEnd
  <2> QED
    BY <2>1
<1>2. /\ Len(u) = Len(s) + Len(t) /\ \A i \in 1..Len(s) : u[i] = s[i]
      /\ \A i \in 1..Len(t) : u[Len(s) + i] = t[i]
  BY <1>1 DEF FirstArea
<1>3. s \o t = u
  BY <1>2, Joined
<1>4. /\ Len(w) = Len(u) + Len(v) /\ \A i \in 1..Len(u) : w[i] = u[i]
      /\ \A i \in 1..Len(v) : w[Len(u) + i] = v[i]
  BY <1>1 DEF CudaEnd
<1>5. u \o v = w
  BY <1>4, Joined
<1> QED
  BY <1>1, <1>3, <1>5 DEF TerminateCuda

LEMMA TerminateTest == TerminateCuda(FirstArea \o <<"host_data1", "device_data1">>) = TestEnd
<1>1. PICK r \in Seq(Names), s \in Seq(Names), t \in Seq(Names) :
         /\ r = FirstArea /\ s = <<"host_data1", "device_data1">>
         /\ t = <<"host_data0", "device_data0", "host_data1", "device_data1">>
  <2>1. /\ FirstArea \in Seq(Names) /\ <<"host_data1", "device_data1">> \in Seq(Names)
        /\ <<"host_data0", "device_data0", "host_data1", "device_data1">> \in Seq(Names)
    BY DEF Names, FirstArea
  <2> QED
    BY <2>1
<1>2. /\ Len(t) = Len(r) + Len(s) /\ \A i \in 1..Len(r) : t[i] = r[i]
      /\ \A i \in 1..Len(s) : t[Len(r) + i] = s[i]
  BY <1>1 DEF FirstArea
<1>3. r \o s = t
  BY <1>2, Joined
<1>4. PICK p \in Seq(Names), u \in Seq(Names), v \in Seq(Names), w \in Seq(Names) :
         /\ p = <<"stream">>
         /\ u = <<"stream", "host_data0", "device_data0", "host_data1", "device_data1">>
         /\ v = <<"module", "context">> /\ w = TestEnd
  <2>1. /\ <<"stream">> \in Seq(Names) /\ <<"module", "context">> \in Seq(Names)
        /\ <<"stream", "host_data0", "device_data0", "host_data1", "device_data1">> \in Seq(Names)
        /\ TestEnd \in Seq(Names)
    BY DEF Names, TestEnd
  <2> QED
    BY <2>1
<1>5. /\ Len(u) = Len(p) + Len(t) /\ \A i \in 1..Len(p) : u[i] = p[i]
      /\ \A i \in 1..Len(t) : u[Len(p) + i] = t[i]
  BY <1>1, <1>4
<1>6. p \o t = u
  BY <1>5, Joined
<1>7. /\ Len(w) = Len(u) + Len(v) /\ \A i \in 1..Len(u) : w[i] = u[i]
      /\ \A i \in 1..Len(v) : w[Len(u) + i] = v[i]
  BY <1>4 DEF TestEnd
<1>8. u \o v = w
  BY <1>7, Joined
<1> QED
  BY <1>1, <1>3, <1>4, <1>6, <1>8 DEF TerminateCuda

LEMMA CleanupLast ==
    /\ <<"host_buffer", "buffer">> \o Cleanup = OpenClEnd
    /\ <<"source">> \o Cleanup = ProgramFailed
    /\ <<"program", "source">> \o Cleanup = KernelFailed
<1>1. PICK c \in Seq(Names) : c = Cleanup
  <2>1. Cleanup \in Seq(Names)
    BY DEF Names, Cleanup
  <2> QED
    BY <2>1
<1>2. PICK s \in Seq(Names), u \in Seq(Names) : s = <<"host_buffer", "buffer">> /\ u = OpenClEnd
  <2>1. <<"host_buffer", "buffer">> \in Seq(Names) /\ OpenClEnd \in Seq(Names)
    BY DEF Names, OpenClEnd
  <2> QED
    BY <2>1
<1>3. /\ Len(u) = Len(s) + Len(c) /\ \A i \in 1..Len(s) : u[i] = s[i]
      /\ \A i \in 1..Len(c) : u[Len(s) + i] = c[i]
  BY <1>1, <1>2 DEF Cleanup, OpenClEnd
<1>4. s \o c = u
  BY <1>3, Joined
<1>5. PICK t \in Seq(Names), v \in Seq(Names) : t = <<"source">> /\ v = ProgramFailed
  <2>1. <<"source">> \in Seq(Names) /\ ProgramFailed \in Seq(Names)
    BY DEF Names, ProgramFailed
  <2> QED
    BY <2>1
<1>6. /\ Len(v) = Len(t) + Len(c) /\ \A i \in 1..Len(t) : v[i] = t[i]
      /\ \A i \in 1..Len(c) : v[Len(t) + i] = c[i]
  BY <1>1, <1>5 DEF Cleanup, ProgramFailed
<1>7. t \o c = v
  BY <1>6, Joined
<1>8. PICK r \in Seq(Names), w \in Seq(Names) : r = <<"program", "source">> /\ w = KernelFailed
  <2>1. <<"program", "source">> \in Seq(Names) /\ KernelFailed \in Seq(Names)
    BY DEF Names, KernelFailed
  <2> QED
    BY <2>1
<1>9. /\ Len(w) = Len(r) + Len(c) /\ \A i \in 1..Len(r) : w[i] = r[i]
      /\ \A i \in 1..Len(c) : w[Len(r) + i] = c[i]
  <2>1. Len(c) = 4 /\ Len(r) = 2 /\ Len(w) = 6 /\ \A i \in 1..2 : w[i] = r[i]
    BY <1>1, <1>8 DEF Cleanup, KernelFailed
  <2>2. w[2 + 1] = c[1] /\ w[2 + 2] = c[2] /\ w[2 + 3] = c[3] /\ w[2 + 4] = c[4]
    BY <1>1, <1>8 DEF Cleanup, KernelFailed
  <2>3. \A i \in 1..4 : i \in {1, 2, 3, 4}
    OBVIOUS
  <2> QED
    BY <2>1, <2>2, <2>3
<1>10. r \o c = w
  BY <1>9, Joined
<1> QED
  BY <1>1, <1>2, <1>4, <1>5, <1>7, <1>8, <1>10

LEMMA HandleNames == Handles = Names \ {"device", "build"}
<1>1. /\ ToSet(CudaSetup) = {"context", "module", "stream", "host_data0", "device_data0"}
      /\ ToSet(TestSetup) = {"context", "module", "stream", "host_data0", "device_data0",
                             "host_data1", "device_data1"}
      /\ ToSet(OpenClSetup) = {"device", "context", "queue", "source", "program", "build",
                               "kernel", "buffer", "host_buffer"}
  BY DEF CudaSetup, TestSetup, OpenClSetup, ToSet
<1>2. /\ DOMAIN SetupCalls = {"cuda", "cuda_test", "opencl"}
      /\ SetupCalls["cuda"] = CudaSetup /\ SetupCalls["opencl"] = OpenClSetup
  BY DEF SetupCalls
<1>3. Handles = (ToSet(CudaSetup) \cup ToSet(TestSetup) \cup ToSet(OpenClSetup)) \ NoHandle
  BY <1>2, TestCalls DEF Handles
<1> QED
  BY <1>1, <1>3 DEF Names, NoHandle

Apis == {"cuda", "cuda_test", "opencl"}
Sloppy == {"source", "program", "build", "kernel"}

InList(h, s) == \E i \in 1..Len(s) : s[i] = h
ContextLast(s) == \A i \in 1..Len(s) : s[i] = "context" => i = Len(s)
NoneTwice(s) == \A i, j \in 1..Len(s) : s[i] = s[j] => i = j

(* The end of each program releases what its set-up has given, once, and   *)
(* the context last.                                                       *)
LEMMA TeardownLists ==
    ASSUME NEW p \in Apis
    PROVE  /\ Teardown[p] \in Seq(Handles)
           /\ ContextLast(Teardown[p]) /\ NoneTwice(Teardown[p])
           /\ \A h \in Handles :
                InList(h, Teardown[p]) <=> h # "source" /\ InList(h, SetupCalls[p])
<1>1. CASE p = "cuda"
  <2>1. Teardown[p] = CudaEnd /\ SetupCalls[p] = CudaSetup
    BY <1>1, TerminateMiner DEF Teardown, SetupCalls
  <2>2. CudaEnd \in Seq(Handles) /\ ContextLast(CudaEnd) /\ NoneTwice(CudaEnd)
    BY HandleNames DEF CudaEnd, Names, ContextLast, NoneTwice
  <2>3. \A h : InList(h, CudaEnd) <=> h \in {"stream", "host_data0", "device_data0", "module",
                                             "context"}
    BY DEF InList, CudaEnd
  <2>4. \A h : InList(h, CudaSetup) <=> h \in {"stream", "host_data0", "device_data0", "module",
                                               "context"}
    BY DEF InList, CudaSetup
  <2> QED
    BY <2>1, <2>2, <2>3, <2>4
<1>2. CASE p = "cuda_test"
  <2>1. Teardown[p] = TestEnd /\ SetupCalls[p] = TestSetup
    BY <1>2, TerminateTest, TestCalls DEF Teardown
  <2>2. TestEnd \in Seq(Handles) /\ ContextLast(TestEnd) /\ NoneTwice(TestEnd)
    BY HandleNames DEF TestEnd, Names, ContextLast, NoneTwice
  <2>3. \A h : InList(h, TestEnd) <=> h \in {"stream", "host_data0", "device_data0", "module",
                                             "context", "host_data1", "device_data1"}
    BY DEF InList, TestEnd
  <2>4. \A h : InList(h, TestSetup) <=> h \in {"stream", "host_data0", "device_data0", "module",
                                               "context", "host_data1", "device_data1"}
    BY DEF InList, TestSetup
  <2> QED
    BY <2>1, <2>2, <2>3, <2>4
<1>3. CASE p = "opencl"
  <2>1. Teardown[p] = OpenClEnd /\ SetupCalls[p] = OpenClSetup
    BY <1>3, CleanupLast DEF Teardown, SetupCalls
  <2>2. OpenClEnd \in Seq(Handles) /\ ContextLast(OpenClEnd) /\ NoneTwice(OpenClEnd)
    BY HandleNames DEF OpenClEnd, Names, ContextLast, NoneTwice
  <2>3. \A h : InList(h, OpenClEnd) <=> h \in {"host_buffer", "buffer", "kernel", "program",
                                               "queue", "context"}
    BY DEF InList, OpenClEnd
  <2>4. \A h : InList(h, OpenClSetup) <=> h \in {"device", "context", "queue", "source", "program",
                                                 "build", "kernel", "buffer", "host_buffer"}
    BY DEF InList, OpenClSetup
  <2> QED
    BY <2>1, <2>2, <2>3, <2>4, HandleNames
<1> QED
  BY <1>1, <1>2, <1>3 DEF Apis

(* The handle h when n calls of the program p have succeeded. *)
Given(p, h, n) == \E i \in 1..n : SetupCalls[p][i] = h
Then(p, h, n) ==
    IF h = "source" /\ Given(p, "kernel", n) THEN "released"
    ELSE IF Given(p, h, n) THEN "live" ELSE "unset"

(* When an OpenCL call fails, everything that is there is released, the    *)
(* context last; and after most calls nothing else, and nothing twice.     *)
UnwindsWell(n) ==
    LET call == OpenClSetup[n + 1]
        s == Unwinding[call]
    IN  /\ s \in Seq(Handles)
        /\ ContextLast(s)
        /\ \A h \in Handles : Then("opencl", h, n) = "live" => InList(h, s)
        /\ call \notin Sloppy =>
             NoneTwice(s) /\ \A i \in 1..Len(s) : Then("opencl", s[i], n) = "live"

LEMMA UnwindingLists ==
    ASSUME NEW n \in 0..8, OpenClSetup[n + 1] \in DOMAIN Unwinding
    PROVE  UnwindsWell(n)
<1> USE HandleNames DEF Names
<1>1. SetupCalls["opencl"] = OpenClSetup
  BY DEF SetupCalls
<1>2. /\ Unwinding["device"] = <<>> /\ Unwinding["context"] = <<>>
      /\ Unwinding["queue"] = <<"context">> /\ Unwinding["source"] = Cleanup
      /\ Unwinding["program"] = ProgramFailed /\ Unwinding["build"] = KernelFailed
      /\ Unwinding["kernel"] = KernelFailed /\ Unwinding["buffer"] = Cleanup
      /\ "host_buffer" \notin DOMAIN Unwinding
  BY CleanupLast DEF Unwinding
<1>3. CASE n \in {0, 1}
  <2>1. Unwinding[OpenClSetup[n + 1]] = <<>>
    BY <1>2, <1>3 DEF OpenClSetup
  <2> QED
    BY <1>1, <1>3, <2>1 DEF UnwindsWell, OpenClSetup, ContextLast, Then, Given, NoneTwice,
       InList, Sloppy
<1>4. CASE n = 2
  <2>1. Unwinding[OpenClSetup[n + 1]] = <<"context">>
    BY <1>2, <1>4 DEF OpenClSetup
  <2> QED
    BY <1>1, <1>4, <2>1 DEF UnwindsWell, OpenClSetup, ContextLast, Then, Given, NoneTwice,
       InList, Sloppy
<1>5. CASE n = 3
  <2>1. Unwinding[OpenClSetup[n + 1]] = Cleanup
    BY <1>2, <1>5 DEF OpenClSetup
  <2> QED
    BY <1>1, <1>5, <2>1 DEF UnwindsWell, OpenClSetup, ContextLast, Then, Given, NoneTwice,
       InList, Sloppy, Cleanup
<1>6. CASE n = 4
  <2>1. Unwinding[OpenClSetup[n + 1]] = ProgramFailed
    BY <1>2, <1>6 DEF OpenClSetup
  <2> QED
    BY <1>1, <1>6, <2>1 DEF UnwindsWell, OpenClSetup, ContextLast, Then, Given, NoneTwice,
       InList, Sloppy, ProgramFailed
<1>7. CASE n \in {5, 6}
  <2>1. Unwinding[OpenClSetup[n + 1]] = KernelFailed
    BY <1>2, <1>7 DEF OpenClSetup
  <2> QED
    BY <1>1, <1>7, <2>1 DEF UnwindsWell, OpenClSetup, ContextLast, Then, Given, NoneTwice,
       InList, Sloppy, KernelFailed
<1>8. CASE n = 7
  <2>1. Unwinding[OpenClSetup[n + 1]] = Cleanup
    BY <1>2, <1>8 DEF OpenClSetup
  <2> QED
    BY <1>1, <1>8, <2>1 DEF UnwindsWell, OpenClSetup, ContextLast, Then, Given, NoneTwice,
       InList, Sloppy, Cleanup
<1>9. n # 8
  BY <1>2 DEF OpenClSetup
<1> QED
  BY <1>3, <1>4, <1>5, <1>6, <1>7, <1>8, <1>9

-----------------------------------------------------------------------------
(* The handles in each stage of the program *)

(* Calls of the set-up are ahead, and what the others gave is there. *)
SettingUp ==
    \E n \in 0..(Len(SetupCalls[api]) - 1) :
        /\ todo = [i \in 1..(Len(SetupCalls[api]) - n) |-> SetupCalls[api][i + n]]
        /\ \A h \in Handles : handle[h] = Then(api, h, n)

(* What is there will be released, the context last; and without a failure *)
(* in the calls of Sloppy, only what is there or known not to be, once.    *)
Releasing ==
    /\ todo \in Seq(Handles) /\ ContextLast(todo)
    /\ \A h \in Handles : Used(h) => InList(h, todo)
    /\ failed \notin Sloppy =>
         NoneTwice(todo) /\ \A i \in 1..Len(todo) : handle[todo[i]] \in {"live", "null"}

AllHeld == \A h \in Handles : handle[h] = Then(api, h, Len(SetupCalls[api]))
NothingHeld == \A h \in Handles : ~Used(h)
ContextHeld == (\E h \in Handles \ {"source", "host_buffer"} : Used(h)) => Used("context")

(* In the loop, or at the end of it *)
Looping ==
    \/ host \notin {"setup", "unwind", "teardown", "save", "closed"}
    \/ host = "save" /\ api = "opencl"

DeviceInv ==
    /\ api \in Apis
    /\ handle \in [Handles -> {"unset", "null", "live", "released"}]
    /\ host = "setup" => SettingUp /\ ~misused
    /\ Looping => AllHeld
    /\ host \in {"unwind", "teardown"} => Releasing
    /\ host = "closed" \/ (host = "save" /\ api # "opencl") => NothingHeld
    /\ ContextHeld
    /\ misused => failed \in Sloppy
    /\ status \in {"returned", "setup_error"} => NothingHeld

LEMMA SetupOrder ==
    ASSUME NEW p \in Apis
    PROVE  LET s == SetupCalls[p]
           IN  /\ s \in Seq(Names) /\ Len(s) \in 5..9 /\ NoneTwice(s)
               /\ \A i, j \in 1..Len(s) : s[i] = "source" /\ s[j] = "kernel" => i < j
               /\ \A i \in 1..Len(s) : s[i] \in Handles \ {"source", "host_buffer"} =>
                      \E j \in 1..i : s[j] = "context"
<1>1. CASE p = "cuda"
  <2>1. SetupCalls[p] = CudaSetup
    BY <1>1 DEF SetupCalls
  <2> QED
    BY <2>1 DEF CudaSetup, Names, NoneTwice
<1>2. CASE p = "cuda_test"
  <2>1. SetupCalls[p] = TestSetup
    BY <1>2, TestCalls
  <2> QED
    BY <2>1 DEF TestSetup, Names, NoneTwice
<1>3. CASE p = "opencl"
  <2>1. SetupCalls[p] = OpenClSetup
    BY <1>3 DEF SetupCalls
  <2>2. OpenClSetup \in Seq(Names) /\ Len(OpenClSetup) = 9 /\ NoneTwice(OpenClSetup)
    BY DEF OpenClSetup, Names, NoneTwice
  <2>3. \A i \in 1..9 : /\ OpenClSetup[i] = "source" <=> i = 4
                        /\ OpenClSetup[i] = "kernel" <=> i = 7
    BY DEF OpenClSetup
  <2>4. /\ OpenClSetup[1] = "device" /\ OpenClSetup[2] = "context" /\ "device" \notin Handles
    BY HandleNames DEF OpenClSetup
  <2>5. \A i \in 1..9 : i = 1 \/ 2 \in 1..i
    OBVIOUS
  <2> QED
    BY <2>1, <2>2, <2>3, <2>4, <2>5
<1> QED
  BY <1>1, <1>2, <1>3 DEF Apis

(* After a further call what was there is there, but for the source.       *)
LEMMA NextCall ==
    ASSUME NEW p \in Apis, NEW n \in 0..(Len(SetupCalls[p]) - 1)
    PROVE  LET call == SetupCalls[p][n + 1]
           IN  \A h \in Handles :
                 Then(p, h, n + 1) = IF h = call THEN "live"
                                     ELSE IF h = "source" /\ call = "kernel" THEN "released"
                                     ELSE Then(p, h, n)
<1>1. PICK s \in Seq(Names) :
         /\ s = SetupCalls[p] /\ Len(s) \in 5..9 /\ NoneTwice(s)
         /\ \A i, j \in 1..Len(s) : s[i] = "source" /\ s[j] = "kernel" => i < j
  BY SetupOrder
<1>2. n \in Nat /\ n + 1 \in 1..Len(s) /\ 1..(n + 1) = (1..n) \cup {n + 1}
      /\ \A i \in 1..n : i < n + 1 /\ i \in 1..Len(s)
  BY <1>1
<1>3. \A h : Given(p, h, n + 1) <=> Given(p, h, n) \/ h = s[n + 1]
  BY <1>1, <1>2 DEF Given
<1>4. \A i \in 1..n : s[i] # s[n + 1]
  BY <1>1, <1>2 DEF NoneTwice
<1>5. s[n + 1] = "source" => ~Given(p, "kernel", n + 1)
  <2>1. ASSUME s[n + 1] = "source", NEW i \in 1..(n + 1), s[i] = "kernel" PROVE FALSE
    <3>1. i \in 1..Len(s) /\ ~(n + 1 < i)
      BY <1>1, <1>2
    <3> QED
      BY <1>1, <1>2, <2>1, <3>1
  <2> QED
    BY <1>1, <2>1 DEF Given
<1> QED
  BY <1>1, <1>3, <1>5 DEF Then

LEMMA RestOfCalls ==
    ASSUME NEW s \in Seq(Names), NEW k \in Nat, k = Len(s), NEW n \in 0..(k - 1), NEW t,
           t = [i \in 1..(k - n) |-> s[i + n]]
    PROVE  /\ t # <<>> /\ Head(t) = s[n + 1]
           /\ Tail(t) = [i \in 1..(k - (n + 1)) |-> s[i + (n + 1)]]
           /\ Tail(t) = <<>> <=> n = k - 1
<1>1. t \in Seq(Names) /\ Len(t) = k - n /\ k - n \in Nat /\ k - n > 0
  <2>1. \A i \in 1..(k - n) : s[i + n] \in Names
    OBVIOUS
  <2>2. k - n \in Nat /\ k - n > 0
    OBVIOUS
  <2> QED
    BY <2>1, <2>2
<1>2. t # <<>>
  BY <1>1, EmptySeq
<1>3. Head(t) = s[n + 1]
  <2>1. 1 \in 1..(k - n) /\ 1 + n = n + 1
    BY <1>1
  <2>2. Head(t) = t[1]
    BY <1>1, <1>2, HeadTailProperties
  <2>3. t[1] = s[1 + n]
    BY <2>1
  <2> QED
    BY <2>1, <2>2, <2>3
<1>4. Tail(t) = [i \in 1..(k - (n + 1)) |-> s[i + (n + 1)]]
  <2>1. Tail(t) = [i \in 1..((k - n) - 1) |-> t[i + 1]]
    <3>1. /\ Len(Tail(t)) = (k - n) - 1 /\ Tail(t) \in Seq(Names)
          /\ \A i \in 1..((k - n) - 1) : Tail(t)[i] = t[i + 1]
      BY <1>1, <1>2, HeadTailProperties
    <3>2. Tail(t) = [i \in 1..Len(Tail(t)) |-> Tail(t)[i]]
      BY <3>1
    <3> QED
      BY <3>1, <3>2
  <2>2. (k - n) - 1 = k - (n + 1)
    OBVIOUS
  <2>3. \A i \in 1..(k - (n + 1)) : t[i + 1] = s[i + (n + 1)]
    <3> TAKE i \in 1..(k - (n + 1))
    <3>1. i + 1 \in 1..(k - n) /\ (i + 1) + n = i + (n + 1)
      OBVIOUS
    <3> QED
      BY <3>1
  <2> QED
    BY <2>1, <2>2, <2>3
<1>5. Tail(t) = <<>> <=> n = k - 1
  <2>1. Len(Tail(t)) = (k - n) - 1 /\ Tail(t) \in Seq(Names)
    BY <1>1, <1>2, HeadTailProperties
  <2>2. Tail(t) = <<>> <=> Len(Tail(t)) = 0
    BY <2>1, EmptySeq
  <2> QED
    BY <2>1, <2>2
<1> QED
  BY <1>2, <1>3, <1>4, <1>5

(* The set-up begins with every call ahead and no handle set. *)
LEMMA DeviceStart == DeviceInit => DeviceInv
<1> SUFFICES ASSUME DeviceInit PROVE DeviceInv
  OBVIOUS
<1>1. api \in Apis
  BY ProgramsAssumption DEF DeviceInit, Apis
<1>2. PICK s \in Seq(Names) : s = SetupCalls[api] /\ Len(s) \in 5..9 /\ 0 \in 0..(Len(s) - 1)
  <2>1. SetupCalls[api] \in Seq(Names) /\ Len(SetupCalls[api]) \in 5..9
    BY <1>1, SetupOrder
  <2>2. \A k \in 5..9 : 0 \in 0..(k - 1)
    OBVIOUS
  <2> QED
    BY <2>1, <2>2
<1>3. s = [i \in 1..(Len(s) - 0) |-> s[i + 0]]
  <2>1. \A i \in 1..Len(s) : i + 0 = i
    OBVIOUS
  <2>2. Len(s) - 0 = Len(s) /\ s = [i \in 1..Len(s) |-> s[i]]
    BY <1>2
  <2> QED
    BY <2>1, <2>2
<1>4. \A h : ~Given(api, h, 0)
  BY DEF Given
<1>5. SettingUp
  <2>1. \A h \in Handles : handle[h] = Then(api, h, 0)
    BY <1>4 DEF DeviceInit, Then
  <2> QED
    BY <1>2, <1>3, <2>1 DEF SettingUp, DeviceInit
<1>6. NothingHeld
  BY DEF DeviceInit, NothingHeld, Used
<1> QED
  BY <1>1, <1>5, <1>6 DEF DeviceInv, DeviceInit, Looping, ContextHeld, NothingHeld

(* The end of a program that has set up everything *)
LEMMA ToTeardown ==
    ASSUME DeviceInv, AllHeld, todo' = Teardown[api], UNCHANGED <<api, handle, failed>>
    PROVE  Releasing'
<1>1. /\ Teardown[api] \in Seq(Handles)
      /\ ContextLast(Teardown[api]) /\ NoneTwice(Teardown[api])
      /\ \A h \in Handles :
            InList(h, Teardown[api]) <=> h # "source" /\ InList(h, SetupCalls[api])
  BY TeardownLists DEF DeviceInv
<1>2. \A h : Given(api, h, Len(SetupCalls[api])) <=> InList(h, SetupCalls[api])
  BY DEF Given, InList
<1>3. \A h \in Handles : Used(h) => InList(h, Teardown[api])
  <2>1. ~InList("source", SetupCalls[api]) \/ InList("kernel", SetupCalls[api])
    <3>1. CASE api = "opencl"
      BY <3>1 DEF SetupCalls, OpenClSetup, InList
    <3>2. CASE api = "cuda"
      BY <3>2 DEF SetupCalls, CudaSetup, InList
    <3>3. CASE api = "cuda_test"
      BY <3>3, TestCalls DEF TestSetup, InList
    <3> QED
      BY <3>1, <3>2, <3>3 DEF DeviceInv, Apis
  <2> QED
    BY <1>1, <1>2, <2>1 DEF AllHeld, Used, Then
<1>4. \A i \in 1..Len(Teardown[api]) : handle[Teardown[api][i]] = "live"
  <2> TAKE i \in 1..Len(Teardown[api])
  <2>1. Teardown[api][i] \in Handles /\ InList(Teardown[api][i], Teardown[api])
    BY <1>1 DEF InList
  <2> QED
    BY <1>1, <1>2, <2>1 DEF AllHeld, Then
<1>5. \A h \in Handles : Used(h)' <=> Used(h)
  BY DEF Used
<1> QED
  BY <1>1, <1>3, <1>4, <1>5 DEF Releasing

(* What is ahead, and what is there, in the set-up *)
CallsAhead(s, k, n) ==
    /\ s = SetupCalls[api] /\ k = Len(s) /\ n < k /\ NoneTwice(s)
    /\ todo # <<>> /\ Head(todo) = s[n + 1]
    /\ Tail(todo) = [i \in 1..(k - (n + 1)) |-> s[i + (n + 1)]]
    /\ Tail(todo) = <<>> <=> n = k - 1
    /\ \A h \in Handles : handle[h] = Then(api, h, n)
    /\ \A i \in 1..k : s[i] \in Handles \ {"source", "host_buffer"} =>
          \E j \in 1..i : s[j] = "context"

LEMMA InSetup ==
    ASSUME api \in Apis, SettingUp
    PROVE  \E s \in Seq(Names), k \in 5..9, n \in 0..8 : CallsAhead(s, k, n)
<1>1. PICK s \in Seq(Names), k \in 5..9 :
         /\ s = SetupCalls[api] /\ k = Len(s) /\ NoneTwice(s)
         /\ \A i \in 1..k : s[i] \in Handles \ {"source", "host_buffer"} =>
               \E j \in 1..i : s[j] = "context"
  <2>1. /\ SetupCalls[api] \in Seq(Names) /\ Len(SetupCalls[api]) \in 5..9
        /\ NoneTwice(SetupCalls[api])
        /\ \A i \in 1..Len(SetupCalls[api]) :
              SetupCalls[api][i] \in Handles \ {"source", "host_buffer"} =>
                 \E j \in 1..i : SetupCalls[api][j] = "context"
    BY SetupOrder
  <2> QED
    BY <2>1
<1>2. PICK n \in 0..(k - 1) : /\ todo = [i \in 1..(k - n) |-> s[i + n]]
                              /\ \A h \in Handles : handle[h] = Then(api, h, n)
  BY <1>1 DEF SettingUp
<1>3. k \in Nat /\ n \in 0..8 /\ n < k
  OBVIOUS
<1>4. PICK t : t = todo /\ t = [i \in 1..(k - n) |-> s[i + n]]
  BY <1>2
<1>5. /\ t # <<>> /\ Head(t) = s[n + 1]
      /\ Tail(t) = [i \in 1..(k - (n + 1)) |-> s[i + (n + 1)]]
      /\ Tail(t) = <<>> <=> n = k - 1
  <2>1. k = Len(s) /\ t = [i \in 1..(k - n) |-> s[i + n]]
    BY <1>1, <1>4
  <2>2. \A m \in Nat : m = Len(s) =>
           \A j \in 0..(m - 1) : \A u : u = [i \in 1..(m - j) |-> s[i + j]] =>
               /\ u # <<>> /\ Head(u) = s[j + 1]
               /\ Tail(u) = [i \in 1..(m - (j + 1)) |-> s[i + (j + 1)]]
               /\ Tail(u) = <<>> <=> j = m - 1
    BY RestOfCalls
  <2>3. \A j \in 0..(k - 1) : \A u : u = [i \in 1..(k - j) |-> s[i + j]] =>
           /\ u # <<>> /\ Head(u) = s[j + 1]
           /\ Tail(u) = [i \in 1..(k - (j + 1)) |-> s[i + (j + 1)]]
           /\ Tail(u) = <<>> <=> j = k - 1
    BY <1>3, <2>1, <2>2, Zenon
  <2> QED
    BY <2>1, <2>3, Zenon
<1>6. CallsAhead(s, k, n)
  BY <1>1, <1>2, <1>3, <1>4, <1>5 DEF CallsAhead
<1> QED
  BY <1>3, <1>6

LEMMA SetupContinues ==
    ASSUME DeviceInv, CallSucceeds, status = "running"
    PROVE  DeviceInv'
<1>1. api \in Apis /\ host = "setup" /\ SettingUp /\ ~misused
  BY DEF DeviceInv, CallSucceeds
<1>2. PICK s \in Seq(Names), k \in 5..9, n \in 0..8 : CallsAhead(s, k, n)
  BY <1>1, InSetup
<1>3. s = SetupCalls[api] /\ k = Len(s) /\ n < k /\ \A h \in Handles : handle[h] = Then(api, h, n)
  BY <1>2 DEF CallsAhead
<1>4. /\ handle' = [h \in Handles |->
                      IF h = s[n + 1] THEN "live"
                      ELSE IF h = "source" /\ s[n + 1] = "kernel" THEN "released"
                      ELSE handle[h]]
      /\ todo' = Tail(todo)
      /\ host' = IF Tail(todo) = <<>> THEN "loop" ELSE host
      /\ UNCHANGED <<api, failed, misused, status>>
  BY <1>2 DEF CallSucceeds, CallsAhead
<1>5. \A h \in Handles : handle'[h] = Then(api, h, n + 1)
  <2>1. n \in 0..(Len(SetupCalls[api]) - 1)
    BY <1>3
  <2>2. \A h \in Handles :
            Then(api, h, n + 1) = IF h = s[n + 1] THEN "live"
                                  ELSE IF h = "source" /\ s[n + 1] = "kernel" THEN "released"
                                  ELSE Then(api, h, n)
    BY <1>1, <1>3, <2>1, NextCall
  <2> QED
    BY <1>3, <1>4, <2>2
<1>6. handle' \in [Handles -> {"unset", "null", "live", "released"}]
  BY <1>1, <1>4 DEF DeviceInv
<1>7. ContextHeld'
  <2>1. ASSUME NEW h \in Handles \ {"source", "host_buffer"}, handle'[h] = "live"
        PROVE  handle'["context"] = "live"
    <3>1. PICK i \in 1..(n + 1) : s[i] = h
      BY <1>3, <1>5, <2>1 DEF Then, Given
    <3>2. i \in 1..k /\ \A j \in 1..i : j \in 1..(n + 1)
      BY <1>3
    <3>3. PICK j \in 1..(n + 1) : s[j] = "context"
      BY <1>2, <2>1, <3>1, <3>2 DEF CallsAhead
    <3>4. "context" \in Handles
      BY HandleNames DEF Names
    <3> QED
      BY <1>3, <1>5, <3>3, <3>4 DEF Then, Given
  <2> QED
    BY <2>1, HandleNames DEF ContextHeld, Used, Names
<1>8. CASE n = k - 1
  <2>1. host' = "loop" /\ n + 1 = k
    BY <1>2, <1>4, <1>8 DEF CallsAhead
  <2>2. AllHeld'
    BY <1>3, <1>4, <1>5, <2>1 DEF AllHeld
  <2> QED
    BY <1>1, <1>4, <1>6, <1>7, <2>1, <2>2 DEF DeviceInv, Looping
<1>9. CASE n # k - 1
  <2>1. host' = "setup" /\ n + 1 \in 0..(k - 1)
    <3>1. Tail(todo) # <<>> /\ n < k
      BY <1>2, <1>9 DEF CallsAhead
    <3>2. host' = "setup"
      BY <1>1, <1>4, <3>1
    <3> QED
      BY <1>3, <1>9, <3>1, <3>2
  <2>2. SettingUp'
    BY <1>2, <1>3, <1>4, <1>5, <2>1 DEF SettingUp, CallsAhead
  <2> QED
    BY <1>1, <1>4, <1>6, <1>7, <2>1, <2>2 DEF DeviceInv, Looping
<1> QED
  BY <1>8, <1>9

LEMMA SetupFails ==
    ASSUME DeviceInv, CallFails, status = "running"
    PROVE  DeviceInv'
<1>1. api = "opencl" /\ api \in Apis /\ host = "setup" /\ SettingUp /\ ~misused
  BY DEF DeviceInv, CallFails
<1>2. PICK s \in Seq(Names), k \in 5..9, n \in 0..8 : CallsAhead(s, k, n)
  BY <1>1, InSetup
<1>3. /\ s = OpenClSetup /\ s = SetupCalls["opencl"] /\ NoneTwice(s) /\ k = Len(s) /\ n < k
      /\ \A h \in Handles : handle[h] = Then("opencl", h, n)
  BY <1>1, <1>2 DEF CallsAhead, SetupCalls
<1>4. PICK call : call = s[n + 1]
  OBVIOUS
<1>5. /\ call \in DOMAIN Unwinding
      /\ handle' = [h \in Handles |-> IF h = call THEN "null" ELSE handle[h]]
      /\ failed' = call /\ host' = "unwind" /\ todo' = Unwinding[call]
      /\ UNCHANGED <<api, misused, status>>
  BY <1>2, <1>4 DEF CallFails, CallsAhead
<1>6. UnwindsWell(n)
  BY <1>3, <1>4, <1>5, UnwindingLists
<1>7. /\ todo' \in Seq(Handles) /\ ContextLast(todo')
      /\ \A h \in Handles : Then("opencl", h, n) = "live" => InList(h, todo')
      /\ call \notin Sloppy =>
           NoneTwice(todo') /\ \A i \in 1..Len(todo') : Then("opencl", todo'[i], n) = "live"
  BY <1>3, <1>4, <1>5, <1>6 DEF UnwindsWell
<1>8. Releasing'
  <2>1. \A h \in Handles : Used(h)' => Then("opencl", h, n) = "live"
    BY <1>3, <1>5 DEF Used
  <2>2. ASSUME call \notin Sloppy, NEW i \in 1..Len(todo')
        PROVE  handle'[todo'[i]] \in {"live", "null"}
    <3>1. todo'[i] \in Handles
      BY <1>7
    <3>2. Then("opencl", todo'[i], n) = "live"
      BY <1>7, <2>2
    <3> QED
      BY <1>3, <1>5, <3>1, <3>2
  <2> QED
    BY <1>5, <1>7, <2>1, <2>2 DEF Releasing
<1>9. ContextHeld'
  <2>1. ASSUME NEW h \in Handles \ {"source", "host_buffer"}, Used(h)' PROVE Used("context")'
    <3>1. "context" \in Handles
      BY HandleNames DEF Names
    <3>2. Used(h) /\ Used("context")
      BY <1>5, <2>1 DEF Used, DeviceInv, ContextHeld
    <3>3. call # "context"
      <4>1. Given("opencl", "context", n)
        BY <1>3, <3>1, <3>2 DEF Used, Then
      <4>2. PICK i \in 1..n : s[i] = "context"
        BY <1>3, <4>1 DEF Given
      <4>3. i \in 1..k /\ n + 1 \in 1..k /\ i # n + 1
        BY <1>3
      <4> QED
        BY <1>3, <1>4, <4>2, <4>3 DEF NoneTwice
    <3> QED
      BY <1>5, <3>1, <3>2, <3>3 DEF Used
  <2> QED
    BY <2>1, <1>5 DEF ContextHeld, Used
<1> QED
  BY <1>1, <1>5, <1>8, <1>9 DEF DeviceInv, Looping

LEMMA ReleaseKeeps ==
    ASSUME DeviceInv, Release, status = "running"
    PROVE  DeviceInv'
<1>1. /\ host \in {"unwind", "teardown"} /\ todo # <<>> /\ Releasing
      /\ todo' = Tail(todo) /\ UNCHANGED <<api, host, failed>>
  BY DEF Release, DeviceInv
<1>2. PICK t \in Seq(Handles), k \in Nat : t = todo /\ t # <<>> /\ k = Len(t) /\ k > 0
  <2>1. Len(todo) \in Nat /\ Len(todo) > 0
    BY <1>1, EmptySeq DEF Releasing
  <2> QED
    BY <1>1, <2>1 DEF Releasing
<1>3. /\ Tail(t) \in Seq(Handles) /\ Len(Tail(t)) = k - 1
      /\ \A i \in 1..(k - 1) : Tail(t)[i] = t[i + 1]
      /\ Head(t) = t[1] /\ t[1] \in Handles
  <2>1. Head(t) = t[1] /\ Head(t) \in Handles
    BY <1>2, HeadTailProperties
  <2> QED
    BY <1>2, <2>1, HeadTailProperties
<1>4. \A i \in 1..(k - 1) : i + 1 \in 1..k /\ i + 1 # 1 /\ (i + 1 = k => i = k - 1)
  BY <1>2
<1>5. \A h : InList(h, t) => h = t[1] \/ InList(h, Tail(t))
  <2>1. ASSUME NEW i \in 1..k, i # 1 PROVE \E j \in 1..(k - 1) : Tail(t)[j] = t[i]
    <3>1. i - 1 \in 1..(k - 1) /\ (i - 1) + 1 = i
      BY <1>2, <2>1
    <3> QED
      BY <1>3, <3>1
  <2> QED
    BY <1>2, <1>3, <2>1 DEF InList
<1>6. ContextLast(Tail(t)) /\ (NoneTwice(t) => NoneTwice(Tail(t)))
  <2>1. ContextLast(t)
    BY <1>1, <1>2 DEF Releasing
  <2> QED
    BY <1>2, <1>3, <1>4, <2>1 DEF ContextLast, NoneTwice
<1>7. PICK h \in Handles : h = t[1] /\ h = Head(todo)
  BY <1>2, <1>3
<1>8. /\ \A g \in Handles : Used(g) => InList(g, t)
      /\ failed \notin Sloppy =>
           NoneTwice(t) /\ \A i \in 1..k : handle[t[i]] \in {"live", "null"}
      /\ "context" \in Handles
  BY <1>1, <1>2, HandleNames DEF Releasing, Names
<1>9. h = "context" => k = 1
  <2>1. 1 \in 1..k /\ ContextLast(t)
    BY <1>1, <1>2 DEF Releasing
  <2> QED
    BY <1>2, <1>7, <2>1 DEF ContextLast
<1>10. CASE handle[h] = "live" /\ handle' = [handle EXCEPT ![h] = "released"]
            /\ UNCHANGED <<misused, status>>
  <2>1. \A g \in Handles : handle'[g] = IF g = h THEN "released" ELSE handle[g]
    BY <1>10 DEF DeviceInv
  <2>2. \A g \in Handles : Used(g)' => Used(g) /\ g # h /\ InList(g, Tail(t))
    BY <1>5, <1>7, <1>8, <2>1 DEF Used
  <2>3. ASSUME failed \notin Sloppy, NEW i \in 1..(k - 1)
        PROVE  handle'[Tail(t)[i]] \in {"live", "null"}
    <3>1. /\ Tail(t)[i] \in Handles /\ Tail(t)[i] = t[i + 1] /\ i + 1 \in 1..k /\ i + 1 # 1
          /\ 1 \in 1..k
      BY <1>2, <1>3, <1>4
    <3>2. Tail(t)[i] # h
      BY <1>2, <1>7, <1>8, <2>3, <3>1 DEF NoneTwice
    <3> QED
      BY <1>8, <2>1, <2>3, <3>1, <3>2
  <2>4. Releasing'
    BY <1>1, <1>2, <1>3, <1>6, <1>8, <2>2, <2>3 DEF Releasing
  <2>5. ContextHeld'
    <3>1. CASE h = "context"
      <4>1. \A g : ~InList(g, Tail(t))
        <5>1. k = 1 /\ 1..(k - 1) = {}
          BY <1>9, <3>1
        <5>2. 1..Len(Tail(t)) = {}
          BY <1>3, <5>1
        <5> QED
          BY <5>2 DEF InList
      <4> QED
        BY <2>2, <4>1 DEF ContextHeld, Used
    <3>2. CASE h # "context"
      BY <1>8, <2>1, <2>2, <3>2 DEF ContextHeld, Used, DeviceInv
    <3> QED
      BY <3>1, <3>2
  <2>6. handle' \in [Handles -> {"unset", "null", "live", "released"}]
    BY <1>10 DEF DeviceInv
  <2> QED
    BY <1>1, <1>10, <2>4, <2>5, <2>6 DEF DeviceInv, Looping
<1>11. CASE /\ handle[h] \in {"null", "unset", "released"} /\ UNCHANGED handle
            /\ \/ handle[h] # "released" /\ UNCHANGED <<misused, status>>
               \/ handle[h] # "null" /\ misused' = TRUE /\ status' \in {"running", "crashed"}
  <2>1. \A g : Used(g)' <=> Used(g)
    BY <1>11 DEF Used
  <2>2. \A g \in Handles : Used(g)' => InList(g, Tail(t))
    BY <1>5, <1>7, <1>8, <1>11 DEF Used
  <2>3. ASSUME failed \notin Sloppy, NEW i \in 1..(k - 1)
        PROVE  handle'[Tail(t)[i]] \in {"live", "null"}
    BY <1>3, <1>4, <1>8, <1>11, <2>3
  <2>4. Releasing'
    BY <1>1, <1>2, <1>3, <1>6, <1>8, <2>2, <2>3 DEF Releasing
  <2>5. misused' => failed \in Sloppy
    <3>1. failed \notin Sloppy => handle[h] = "null"
      <4>1. 1 \in 1..k
        BY <1>2
      <4> QED
        BY <1>7, <1>8, <1>11, <4>1
    <3> QED
      BY <1>11, <3>1 DEF DeviceInv
  <2>6. ContextHeld'
    BY <2>1 DEF DeviceInv, ContextHeld
  <2> QED
    BY <1>1, <1>11, <2>4, <2>5, <2>6 DEF DeviceInv, Looping
<1> QED
  BY <1>7, <1>10, <1>11 DEF Release

(* Every step of module GpuDevice *)
LEMMA DeviceInvKept ==
    ASSUME DeviceInv, DeviceStep, status = "running"
    PROVE  DeviceInv'
<1>1. CASE CallSucceeds
  BY <1>1, SetupContinues
<1>2. CASE CallFails
  BY <1>2, SetupFails
<1>3. CASE Release
  BY <1>3, ReleaseKeeps
<1>4. CASE CuCallFails
  BY <1>4 DEF CuCallFails, DeviceInv, SettingUp, Releasing, Looping, AllHeld, NothingHeld,
     ContextHeld, Used
<1>5. CASE RunTest
  <2>1. /\ host' = "teardown" /\ todo' = Teardown[api] /\ AllHeld
        /\ UNCHANGED <<api, handle, failed, misused, status>>
    BY <1>5 DEF RunTest, GoTo, AfterLoop, DeviceInv, Looping
  <2>2. Releasing'
    BY <2>1, ToTeardown
  <2> QED
    BY <2>1, <2>2 DEF DeviceInv, Looping, NothingHeld, ContextHeld, Used
<1>6. CASE EndOfTeardown
  <2>1. /\ host = "teardown" /\ todo = <<>> /\ host' \in {"save", "closed"}
        /\ host' = "save" => api # "opencl"
        /\ UNCHANGED <<api, handle, failed, misused, status>>
    BY <1>6 DEF EndOfTeardown, GoTo, AfterTeardown, DeviceInv, Apis
  <2>2. NothingHeld
    <3>1. Len(todo) = 0 /\ Releasing
      BY <2>1 DEF DeviceInv
    <3> QED
      BY <3>1 DEF Releasing, InList, NothingHeld
  <2> QED
    BY <2>1, <2>2 DEF DeviceInv, Looping, NothingHeld, ContextHeld, Used
<1>7. CASE Return
  <2>1. /\ UNCHANGED <<api, host, todo, handle, failed, misused>>
        /\ host = "closed" \/ (host = "unwind" /\ todo = <<>>)
    BY <1>7 DEF Return
  <2>2. NothingHeld
    <3>1. CASE host = "closed"
      BY <3>1 DEF DeviceInv
    <3>2. CASE host = "unwind" /\ todo = <<>>
      <4>1. Len(todo) = 0 /\ Releasing
        BY <3>2 DEF DeviceInv
      <4> QED
        BY <4>1 DEF Releasing, InList, NothingHeld
    <3> QED
      BY <2>1, <3>1, <3>2
  <2> QED
    BY <2>1, <2>2 DEF DeviceInv, SettingUp, Releasing, Looping, AllHeld, NothingHeld,
       ContextHeld, Used
<1> QED
  BY <1>1, <1>2, <1>3, <1>4, <1>5, <1>6, <1>7 DEF DeviceStep

(* A step of the loop, or the end of it, leaves the handles alone. *)
LEMMA LoopKeepsHandles ==
    ASSUME DeviceInv, Looping, UNCHANGED <<api, handle, failed, misused>>,
           status' \notin {"returned", "setup_error"},
           \/ Looping'
           \/ host' = "teardown" /\ todo' = Teardown[api]
    PROVE  DeviceInv'
<1>1. AllHeld /\ host # "setup"
  BY DEF DeviceInv, Looping
<1>2. CASE Looping'
  <2>1. host' \notin {"setup", "unwind", "teardown", "closed"}
        /\ ~(host' = "save" /\ api' # "opencl")
    BY <1>2 DEF Looping
  <2> QED
    BY <1>1, <1>2, <2>1 DEF DeviceInv, AllHeld, NothingHeld, ContextHeld, Used
<1>3. CASE host' = "teardown" /\ todo' = Teardown[api]
  <2>1. Releasing'
    BY <1>1, <1>3, ToTeardown
  <2> QED
    BY <1>3, <2>1 DEF DeviceInv, Looping, NothingHeld, ContextHeld, Used
<1> QED
  BY <1>2, <1>3

LEMMA DeviceInvImplies == DeviceInv => HandlesReleasedOnce
BY DEF DeviceInv, HandlesReleasedOnce, NothingHeld, ContextHeld, Sloppy

-----------------------------------------------------------------------------
(* The miner *)

LEMMA GpuSizes ==
    /\ THREADS \in Nat /\ THREADS > 0 /\ WORD \in Nat /\ WORD > 0
    /\ COIN_WORDS \in Nat /\ COIN_WORDS > 0
    /\ COINS_BUFFER_SIZE \in Nat /\ COINS_BUFFER_SIZE > COIN_WORDS
    /\ VAULT_LINES \in Nat /\ VAULT_LINES > 0 /\ MaxFaults \in Nat
    /\ WORD % THREADS = 0
    /\ Threads \subseteq Nat
  BY SizesAssumption, BoundAssumption DEF Threads

Stages == {"setup", "loop", "launch", "kernel", "collect", "unwind", "teardown", "save",
           "closed"}

-----------------------------------------------------------------------------
(* Where the program is *)

StageInv ==
    /\ api \in {"cuda", "cuda_test", "opencl"}
    /\ host \in Stages
    /\ host \in {"launch", "kernel", "collect", "save"} => api # "cuda_test"
    /\ host = "setup" => since = {} /\ produced = {} /\ launches = 0

LEMMA NextStages ==
    ASSUME api \in {"cuda", "cuda_test", "opencl"}
    PROVE  /\ AfterLoop[api] \in {"teardown", "save"}
           /\ api = "cuda_test" => AfterLoop[api] = "teardown"
           /\ api # "cuda_test" => AfterSave[api] \in {"closed", "teardown"}
           /\ AfterTeardown[api] \in {"save", "closed"}
           /\ api = "cuda_test" => AfterTeardown[api] = "closed"
  BY DEF AfterLoop, AfterSave, AfterTeardown

(* The steps of module GpuDevice: none of them is in the loop. *)
LEMMA DeviceSteps ==
    ASSUME StageInv, DeviceStep
    PROVE  /\ api' = api
           /\ \/ host' = host
              \/ host = "setup" /\ host' \in {"loop", "unwind"}
              \/ host \notin {"launch", "kernel", "collect", "setup"}
                 /\ host' \in {"teardown", "closed"}
              \/ host \notin {"launch", "kernel", "collect", "setup"}
                 /\ host' = "save" /\ api # "cuda_test"
  BY NextStages DEF StageInv, DeviceStep, CallSucceeds, CallFails, CuCallFails, RunTest, Release,
     EndOfTeardown, Return, GoTo

(* Every step of the program. *)
LEMMA HostSteps ==
    ASSUME [Next]_vars
    PROVE  \/ Interrupt \/ UNCHANGED vars
           \/ DeviceStep /\ UNCHANGED hostVars
           \/ ResetBuffer \/ Launch \/ LaunchFails \/ ReadBuffer \/ Collect \/ LeaveLoop
           \/ SaveRest
           \/ \E n \in Threads : ReserveSlot(n) \/ FillSlot(n)
  BY DEF Next, Host, Kernel

THEOREM StagesCorrect == Spec => []StageInv
<1> USE DEF deviceVars, deviceRest, hostVars, params, tallies, buffer, vault, history
<1>1. Init => StageInv
  BY ProgramsAssumption DEF Init, DeviceInit, StageInv, Stages
<1>2. StageInv /\ [Next]_vars => StageInv'
  <2> SUFFICES ASSUME StageInv, [Next]_vars PROVE StageInv'
    OBVIOUS
  <2>1. CASE Interrupt \/ UNCHANGED vars
    BY <2>1 DEF Interrupt, vars, StageInv
  <2>2. CASE DeviceStep /\ UNCHANGED hostVars
    BY <2>2, DeviceSteps DEF StageInv, Stages
  <2>3. CASE ResetBuffer \/ Launch \/ ReadBuffer
    BY <2>3 DEF ResetBuffer, Mines, Launch, ReadBuffer, StageInv, Stages
  <2>4. CASE Collect
    <3>1. host = "collect" /\ api' = api /\ host' \in {"loop", "collect"}
      BY <2>4 DEF Collect
    <3> QED
      BY <3>1 DEF StageInv, Stages
  <2>5. CASE LaunchFails \/ LeaveLoop
    BY <2>5, NextStages DEF LaunchFails, LeaveLoop, Mines, GoTo, StageInv, Stages
  <2>6. CASE SaveRest
    <3>1. host = "save" /\ api' = api /\ (host' = AfterSave[api] \/ host' = "save")
      BY <2>6 DEF SaveRest, GoTo
    <3> QED
      BY <3>1, NextStages DEF StageInv, Stages
  <2>7. ASSUME NEW n \in Threads, ReserveSlot(n) \/ FillSlot(n) PROVE StageInv'
    BY <2>7 DEF ReserveSlot, FillSlot, StageInv
  <2> QED
    BY <2>1, <2>2, <2>3, <2>4, <2>5, <2>6, <2>7, HostSteps
<1> QED
  BY <1>1, <1>2, PTL DEF Spec

-----------------------------------------------------------------------------
(* The threads of a launch *)

(* Two threads never have the same coin. *)
LEMMA CoinsOfThreads ==
    ASSUME iteration_counter \in Nat, NEW n \in Threads, NEW m \in Threads, CoinOf(n) = CoinOf(m)
    PROVE  n = m
<1>1. iteration_counter + n = iteration_counter + m
  BY DEF CoinOf
<1>2. n \in Int /\ m \in Int
  BY DEF Threads
<1> QED
  BY <1>1, <1>2

ThreadInv ==
    /\ next_free \in Nat /\ host_first \in Nat /\ iteration_counter \in 0..(WORD - 1)
    /\ slots \in [SlotIndices -> Golden \cup {NoCoin}]
    /\ thread \in [Threads -> {"done", "add", "write"}]
    /\ idx \in [Threads -> Nat]
    /\ since \subseteq Golden
    /\ host # "kernel" => \A n \in Threads : thread[n] = "done"
    /\ \A n \in Threads : thread[n] # "done" => CoinOf(n) \in Golden
    /\ host = "collect" => host_first \in {1, next_free}
    /\ host \in {"launch", "kernel"} => host_first = 1

THEOREM ThreadsCorrect == Spec => []ThreadInv
<1> USE DEF deviceVars, deviceRest, hostVars, params, tallies, buffer, vault, history
<1>1. Init => ThreadInv
  BY GpuSizes DEF Init, DeviceInit, ThreadInv, Overflown
<1>2. StageInv /\ ThreadInv /\ [Next]_vars => ThreadInv'
  <2> SUFFICES ASSUME StageInv, ThreadInv, [Next]_vars PROVE ThreadInv'
    OBVIOUS
  <2>1. CASE Interrupt \/ UNCHANGED vars \/ LaunchFails \/ LeaveLoop \/ SaveRest
             \/ (DeviceStep /\ UNCHANGED hostVars)
    <3>1. /\ UNCHANGED <<next_free, host_first, slots, thread, idx, since>>
          /\ UNCHANGED <<iteration_counter, base_value1>>
      BY <2>1 DEF Interrupt, vars, LaunchFails, LeaveLoop, SaveRest
    <3>2. \/ host' = host
          \/ host # "kernel" /\ host' \notin {"launch", "kernel", "collect"}
          \/ host \notin {"kernel", "collect"} /\ host' \in {"teardown", "save"}
      <4>1. CASE Interrupt \/ UNCHANGED vars
        BY <4>1 DEF Interrupt, vars
      <4>2. CASE DeviceStep
        BY <4>2, DeviceSteps
      <4>3. CASE LaunchFails \/ LeaveLoop
        BY <4>3, NextStages DEF LaunchFails, LeaveLoop, GoTo, StageInv
      <4>4. CASE SaveRest
        <5>1. host = "save" /\ (host' = AfterSave[api] \/ host' = host)
          BY <4>4 DEF SaveRest, GoTo
        <5> QED
          BY <5>1, NextStages DEF StageInv
      <4> QED
        BY <2>1, <4>1, <4>2, <4>3, <4>4
    <3>3. \A n \in Threads : CoinOf(n)' = CoinOf(n)
      BY <3>1 DEF CoinOf
    <3> QED
      BY <3>1, <3>2, <3>3 DEF ThreadInv
  <2>2. CASE ResetBuffer
    <3>1. /\ UNCHANGED <<slots, thread, idx, iteration_counter, base_value1>>
          /\ host_first' = 1 /\ host = "loop" /\ host' = "launch"
          /\ \/ next_free' = 1 /\ since' = {}
             \/ UNCHANGED <<next_free, since>>
      BY <2>2 DEF ResetBuffer, FirstFree
    <3>2. \A n \in Threads : CoinOf(n)' = CoinOf(n)
      BY <3>1 DEF CoinOf
    <3> QED
      BY <3>1, <3>2 DEF ThreadInv
  <2>3. CASE Launch
    <3>1. /\ UNCHANGED <<next_free, host_first, slots, idx, since, iteration_counter, base_value1>>
          /\ host = "launch" /\ host' = "kernel"
          /\ thread' = [n \in Threads |-> IF CoinOf(n) \in Golden THEN "add" ELSE "done"]
      BY <2>3 DEF Launch
    <3>2. \A n \in Threads : CoinOf(n)' = CoinOf(n)
      BY <3>1 DEF CoinOf
    <3> QED
      BY <3>1, <3>2 DEF ThreadInv
  <2>4. CASE ReadBuffer
    <3>1. /\ UNCHANGED <<next_free, slots, thread, idx, iteration_counter, base_value1>>
          /\ host = "kernel" /\ host' = "collect" /\ \A n \in Threads : thread[n] = "done"
          /\ since' = since \cup LaunchCoins
          /\ host_first' = next_free \/ host_first' = host_first
      BY <2>4 DEF ReadBuffer
    <3>2. LaunchCoins \subseteq Golden
      BY DEF LaunchCoins
    <3> QED
      BY <3>1, <3>2 DEF ThreadInv
  <2>5. CASE Collect
    <3>1. /\ UNCHANGED <<next_free, host_first, slots, thread, idx, since>>
          /\ host = "collect"
          /\ \/ host' = "loop" /\ iteration_counter' = Advance(iteration_counter)
             \/ UNCHANGED <<host, iteration_counter, base_value1>>
      BY <2>5 DEF Collect
    <3>2. Advance(iteration_counter) \in 0..(WORD - 1)
      <4>1. \A x \in Nat : x % WORD \in 0..(WORD - 1)
        BY GpuSizes
      <4> QED
        BY <4>1, GpuSizes DEF Advance, ThreadInv
    <3>3. \A n \in Threads : thread'[n] = "done"
      BY <3>1 DEF ThreadInv
    <3> QED
      BY <3>1, <3>2, <3>3 DEF ThreadInv
  <2>6. ASSUME NEW n \in Threads, ReserveSlot(n) PROVE ThreadInv'
    <3>1. /\ UNCHANGED <<host_first, slots, since, iteration_counter, base_value1, host>>
          /\ thread[n] = "add" /\ next_free' = next_free + COIN_WORDS
          /\ idx' = [idx EXCEPT ![n] = next_free]
          /\ thread' = [thread EXCEPT ![n] = IF Fits(next_free) THEN "write" ELSE "done"]
      BY <2>6 DEF ReserveSlot
    <3>2. \A m \in Threads : CoinOf(m)' = CoinOf(m)
      BY <3>1 DEF CoinOf
    <3>3. next_free' \in Nat /\ host = "kernel"
      BY <3>1, GpuSizes DEF ThreadInv
    <3> QED
      BY <3>1, <3>2, <3>3 DEF ThreadInv
  <2>7. ASSUME NEW n \in Threads, FillSlot(n) PROVE ThreadInv'
    <3>1. /\ UNCHANGED <<next_free, host_first, idx, since, iteration_counter, base_value1, host>>
          /\ thread[n] = "write" /\ slots' = [slots EXCEPT ![idx[n]] = CoinOf(n)]
          /\ thread' = [thread EXCEPT ![n] = "done"]
      BY <2>7 DEF FillSlot
    <3>2. \A m \in Threads : CoinOf(m)' = CoinOf(m)
      BY <3>1 DEF CoinOf
    <3>3. CoinOf(n) \in Golden /\ host = "kernel"
      BY <3>1 DEF ThreadInv
    <3> QED
      BY <3>1, <3>2, <3>3 DEF ThreadInv
  <2>8. ASSUME NEW n \in Threads, ReserveSlot(n) \/ FillSlot(n) PROVE ThreadInv'
    BY <2>6, <2>7, <2>8
  <2> QED
    BY <2>1, <2>2, <2>3, <2>4, <2>5, <2>8, HostSteps
<1> QED
  BY <1>1, <1>2, StagesCorrect, PTL DEF Spec

-----------------------------------------------------------------------------
(* The buffer *)

(* The indices handed out since the first word of the buffer was set to 1. *)
Reserved == {i \in Nat : i < next_free /\ \E k \in Nat : i = 1 + k * COIN_WORDS}

Writing(i) == \E n \in Threads : thread[n] = "write" /\ idx[n] = i

(* The coins in the slots: those of the launches that have ended, and of   *)
(* the threads of this one that have.                                      *)
DoneNow == IF host = "kernel" THEN {n \in Threads : thread[n] = "done"} ELSE {}
Filled == since \cup (Golden \cap {CoinOf(n) : n \in DoneNow})

(* Unless the buffer has overflowed, each index handed out has its own     *)
(* thread that still writes, or the coin of one that has written, and no   *)
(* coin is missing.                                                        *)
FilledParts ==
    /\ \E m \in Nat : next_free = 1 + m * COIN_WORDS
    /\ \A c \in Filled : \E i \in Reserved : slots[i] = c /\ ~Writing(i)
    /\ \A i \in Reserved : Writing(i) \/ slots[i] \in Filled
    /\ \A n \in Threads : thread[n] = "write" => idx[n] \in Reserved
    /\ \A n, m \in Threads : thread[n] = "write" /\ thread[m] = "write" /\ idx[n] = idx[m] => n = m

FilledInv == next_free <= COINS_BUFFER_SIZE => FilledParts

(* And no coin is there twice. *)
UniqueInv ==
    next_free <= COINS_BUFFER_SIZE =>
        \A i, j \in Reserved : ~Writing(i) /\ ~Writing(j) /\ slots[i] = slots[j] => i = j

(* Every index handed out is that of a slot. *)
LEMMA ReservedIsSlot ==
    ASSUME next_free \in Nat, next_free <= COINS_BUFFER_SIZE,
           \E m \in Nat : next_free = 1 + m * COIN_WORDS
    PROVE  Reserved \subseteq SlotIndices
<1>1. PICK m \in Nat : next_free = 1 + m * COIN_WORDS
  OBVIOUS
<1>2. PICK w \in Nat \ {0}, b \in Nat : w = COIN_WORDS /\ b = COINS_BUFFER_SIZE /\ b >= 1
  BY GpuSizes
<1>3. PICK d \in Nat : d = b - 1 /\ b = d + 1
  <2>1. b - 1 \in Nat /\ b = (b - 1) + 1
    BY <1>2
  <2> QED
    BY <2>1
<1>4. PICK q \in Int, r \in 0..(w - 1) : d = q * w + r /\ q = d \div w
  <2>1. d \div w \in Int /\ d % w \in 0..(w - 1) /\ d = (d \div w) * w + (d % w)
    BY <1>2, <1>3
  <2> QED
    BY <2>1
<1>5. ASSUME NEW k \in Nat, 1 + k * w < 1 + m * w PROVE k \in 0..(q - 1)
  <2>1. k * w \in Nat /\ m * w \in Nat /\ q * w \in Int /\ (q * w) + w \in Int
    BY <1>2
  <2>2. PICK x \in Nat, y \in Nat, z \in Int : x = k * w /\ y = m * w /\ z = q * w
    BY <2>1
  <2>3. k < m
    <3>1. CASE m < k
      <4>1. m * w + w <= k * w
        BY <1>2, <3>1, ProductGrows
      <4> QED
        BY <1>2, <1>5, <2>2, <4>1
    <3>2. CASE m = k
      BY <1>5, <3>2
    <3> QED
      BY <3>1, <3>2
  <2>4. x + w <= y
    BY <1>2, <2>2, <2>3, ProductGrows
  <2>5. 1 + y <= d + 1
    BY <1>1, <1>2, <1>3, <2>2
  <2>6. x + w <= z + r
    BY <1>4, <2>2, <2>4, <2>5
  <2>7. ~(q <= k)
    <3>1. CASE q < k
      <4>1. q * w + w <= k * w
        BY <1>2, <3>1, ProductGrows
      <4> QED
        BY <1>2, <1>4, <2>2, <2>6, <4>1
    <3>2. CASE q = k
      BY <1>2, <1>4, <2>2, <2>6, <3>2
    <3> QED
      BY <3>1, <3>2
  <2> QED
    BY <2>7
<1>6. ASSUME NEW i \in Reserved PROVE i \in SlotIndices
  <2>1. PICK k \in Nat : i = 1 + k * w /\ i < 1 + m * w
    BY <1>1, <1>2 DEF Reserved
  <2>2. k \in 0..(q - 1)
    BY <1>5, <2>1
  <2>3. (COINS_BUFFER_SIZE - 1) \div COIN_WORDS - 1 = q - 1
    BY <1>2, <1>3, <1>4
  <2> QED
    BY <1>2, <2>1, <2>2, <2>3 DEF SlotIndices
<1> QED
  BY <1>6

(* The next index handed out. *)
LEMMA ReserveNext ==
    ASSUME next_free \in Nat, next_free' = next_free + COIN_WORDS,
           \E m \in Nat : next_free = 1 + m * COIN_WORDS
    PROVE  /\ \E m \in Nat : next_free' = 1 + m * COIN_WORDS
           /\ Reserved' = Reserved \cup {next_free}
           /\ next_free \notin Reserved
<1>1. PICK m \in Nat : next_free = 1 + m * COIN_WORDS
  OBVIOUS
<1>2. PICK w \in Nat \ {0} : w = COIN_WORDS
  BY GpuSizes
<1>3. next_free' = 1 + (m + 1) * w /\ m + 1 \in Nat
  BY <1>1, <1>2
<1>4. next_free \notin Reserved
  BY DEF Reserved
<1>5. PICK x \in Nat : x = m * w /\ next_free = 1 + x /\ next_free' = 1 + x + w
  <2>1. m * w \in Nat
    BY <1>2
  <2> QED
    BY <1>1, <1>2, <2>1
<1>6. ASSUME NEW i \in Nat PROVE i \in Reserved' <=> i \in Reserved \/ i = next_free
  <2>1. ASSUME NEW k \in Nat, i = 1 + k * w, i < 1 + x + w PROVE i < 1 + x \/ i = 1 + x
    <3>1. PICK y \in Nat : y = k * w
      BY <1>2
    <3>2. CASE k < m
      <4>1. k * w + w <= m * w
        BY <1>2, <3>2, ProductGrows
      <4> QED
        BY <1>2, <1>5, <2>1, <3>1, <4>1
    <3>3. CASE k = m
      BY <1>5, <2>1, <3>3
    <3>4. CASE m < k
      <4>1. m * w + w <= k * w
        BY <1>2, <3>4, ProductGrows
      <4> QED
        BY <1>2, <1>5, <2>1, <3>1, <4>1
    <3> QED
      BY <3>2, <3>3, <3>4
  <2>2. i \in Reserved' <=> i < 1 + x + w /\ \E k \in Nat : i = 1 + k * w
    BY <1>2, <1>5 DEF Reserved
  <2>3. i \in Reserved <=> i < 1 + x /\ \E k \in Nat : i = 1 + k * w
    BY <1>2, <1>5 DEF Reserved
  <2>4. 1 + x = 1 + m * w
    BY <1>5
  <2>5. i < 1 + x => i < 1 + x + w
    BY <1>2, <1>5
  <2>6. 1 + x < 1 + x + w
    BY <1>2, <1>5
  <2> QED
    BY <1>5, <2>1, <2>2, <2>3, <2>4, <2>5, <2>6
<1>7. Reserved \subseteq Nat /\ Reserved' \subseteq Nat
  BY DEF Reserved
<1> QED
  BY <1>2, <1>3, <1>4, <1>6, <1>7

-----------------------------------------------------------------------------
(* The launches since the first word was set *)

(* Copies may fail, but fewer than there are launches until the counter    *)
(* starts again (512 in the program).                                      *)
FewFaults == MaxFaults < WORD \div THREADS

Blocks == 0..(WORD \div THREADS - 1)

(* Coin c is of a launch between lo and hi launches ago. *)
OfLaunch(c, j) == j * THREADS <= c[2] /\ c[2] < j * THREADS + THREADS
Ago(j, q, d) == q = j + d \/ q + (WORD \div THREADS) = j + d
Age(c, lo, hi) ==
    \E j \in Blocks, q \in Blocks, d \in lo..hi :
        iteration_counter = q * THREADS /\ OfLaunch(c, j) /\ Ago(j, q, d)

AgeInv ==
    /\ unreset \in Nat /\ unread \in Nat /\ unreset + unread <= MaxFaults
    /\ \E q \in Blocks : iteration_counter = q * THREADS
    /\ host = "loop" => \A c \in since : Age(c, 1, unreset + 1)
    /\ host \in {"launch", "kernel"} => \A c \in since : Age(c, 1, unreset)
    /\ host = "collect" => \A c \in since : Age(c, 0, unreset)

LEMMA BlockSizes ==
    /\ WORD \div THREADS \in Nat /\ (WORD \div THREADS) * THREADS = WORD
    /\ WORD \div THREADS > 0
<1>1. PICK q \in Int, r \in 0..(THREADS - 1) :
         WORD = q * THREADS + r /\ r = WORD % THREADS /\ q = WORD \div THREADS
  <2>1. /\ WORD \div THREADS \in Int /\ WORD % THREADS \in 0..(THREADS - 1)
        /\ WORD = (WORD \div THREADS) * THREADS + (WORD % THREADS)
    BY GpuSizes
  <2> QED
    BY <2>1
<1>2. q * THREADS \in Int /\ WORD = q * THREADS
  BY <1>1, GpuSizes
<1>3. CASE q <= 0
  <2>1. q * THREADS <= 0
    <3>1. CASE q = 0
      BY <3>1, GpuSizes
    <3>2. CASE q < 0
      <4>1. q * THREADS + THREADS <= 0 * THREADS
        BY <3>2, GpuSizes, ProductGrows
      <4> QED
        BY <1>2, <4>1, GpuSizes
    <3> QED
      BY <1>3, <3>1, <3>2
  <2> QED
    BY <1>2, <2>1, GpuSizes
<1> QED
  BY <1>1, <1>2, <1>3

(* The counter goes through the blocks in a circle. *)
LEMMA NextBlock ==
    ASSUME NEW q \in Blocks, iteration_counter = q * THREADS
    PROVE  \E p \in Blocks : /\ Advance(iteration_counter) = p * THREADS
                             /\ p = q + 1 \/ p + (WORD \div THREADS) = q + 1
<1>1. PICK b \in Nat, w \in Nat \ {0}, h \in Nat \ {0} :
         b = WORD \div THREADS /\ w = WORD /\ h = THREADS /\ w = b * h /\ b > 0
  BY BlockSizes, GpuSizes
<1>2. q \in Nat /\ q < b /\ q * h + h = (q + 1) * h
  BY <1>1 DEF Blocks
<1>3. Advance(iteration_counter) = (q * h + h) % w
  BY <1>1 DEF Advance
<1>4. CASE q + 1 = b
  <2>1. q * h + h = 1 * w + 0 /\ q * h + h \in Nat /\ 0 \in 0..(w - 1)
    BY <1>1, <1>2, <1>4
  <2>2. (q * h + h) % w = 0
    BY <2>1, RemainderOf
  <2>3. 0 \in Blocks /\ 0 = 0 * THREADS /\ 0 + b = q + 1
    BY <1>1, <1>4 DEF Blocks
  <2> QED
    BY <1>1, <1>3, <2>2, <2>3
<1>5. CASE q + 1 # b
  <2>1. q + 1 < b /\ q + 1 \in Nat
    BY <1>2, <1>5
  <2>2. (q + 1) * h + h <= b * h
    BY <2>1, ProductGrows
  <2>3. PICK x \in Nat : x = (q + 1) * h /\ x = q * h + h
    BY <1>2, <2>1
  <2>4. x \in 0..(w - 1) /\ x = 0 * w + x
    BY <1>1, <2>2, <2>3
  <2>5. x % w = x
    BY <2>4, RemainderOf
  <2>6. q + 1 \in Blocks
    BY <1>1, <2>1 DEF Blocks
  <2> QED
    BY <1>1, <1>3, <2>3, <2>5, <2>6
<1> QED
  BY <1>4, <1>5

(* The coins of a launch are of the block of its counter. *)
LEMMA LaunchBlock ==
    ASSUME NEW q \in Blocks, iteration_counter = q * THREADS, NEW n \in Threads
    PROVE  OfLaunch(CoinOf(n), q)
<1>1. CoinOf(n)[2] = iteration_counter + n
  BY DEF CoinOf
<1>2. PICK x \in Int, h \in Nat : x = q * THREADS /\ h = THREADS /\ n \in 0..(h - 1)
  <2>1. q \in Int /\ THREADS \in Nat
    BY GpuSizes, BlockSizes DEF Blocks
  <2> QED
    BY <2>1 DEF Threads
<1> QED
  BY <1>1, <1>2 DEF OfLaunch

LEMMA BlocksApart ==
    ASSUME NEW c, c[2] \in Int, NEW j \in Blocks, NEW q \in Blocks, OfLaunch(c, j), OfLaunch(c, q)
    PROVE  j = q
<1>1. j \in Int /\ q \in Int /\ THREADS \in Nat
  BY GpuSizes, BlockSizes DEF Blocks
<1>2. PICK x \in Int, y \in Int, z \in Int : x = j * THREADS /\ y = q * THREADS /\ z = c[2]
  BY <1>1
<1>3. x <= z /\ z < x + THREADS /\ y <= z /\ z < y + THREADS
  BY <1>2 DEF OfLaunch
<1>4. CASE j < q
  <2>1. j * THREADS + THREADS <= q * THREADS
    BY <1>1, <1>4, ProductGrows
  <2> QED
    BY <1>1, <1>2, <1>3, <2>1
<1>5. CASE q < j
  <2>1. q * THREADS + THREADS <= j * THREADS
    BY <1>1, <1>5, ProductGrows
  <2> QED
    BY <1>1, <1>2, <1>3, <2>1
<1> QED
  BY <1>1, <1>4, <1>5

(* No coin of a launch is among those of the launches before it in the     *)
(* same buffer.                                                            *)
LEMMA LaunchIsNew ==
    ASSUME FewFaults, ThreadInv, AgeInv, host \in {"launch", "kernel"}, NEW n \in Threads
    PROVE  CoinOf(n) \notin since
<1>1. SUFFICES ASSUME CoinOf(n) \in since PROVE FALSE
  OBVIOUS
<1>2. PICK j \in Blocks, q \in Blocks, d \in 1..unreset :
         iteration_counter = q * THREADS /\ OfLaunch(CoinOf(n), j) /\ Ago(j, q, d)
  BY <1>1 DEF AgeInv, Age
<1>3. OfLaunch(CoinOf(n), q)
  BY <1>2, LaunchBlock
<1>4. CoinOf(n)[2] \in Int
  <2>1. CoinOf(n)[2] = iteration_counter + n /\ iteration_counter \in Int /\ n \in Int
    BY DEF CoinOf, ThreadInv, Threads
  <2> QED
    BY <2>1
<1>5. j = q
  BY <1>2, <1>3, <1>4, BlocksApart
<1>6. PICK b \in Nat : b = WORD \div THREADS /\ unreset < b /\ j \in Int
  BY BlockSizes, GpuSizes DEF FewFaults, AgeInv, Blocks
<1>7. d \in 1..unreset /\ unreset \in Nat /\ (j = j + d \/ j + b = j + d)
  BY <1>2, <1>5, <1>6 DEF Ago, AgeInv
<1> QED
  BY <1>6, <1>7

LEMMA AgeKept ==
    ASSUME NEW c, NEW lo, NEW hi, iteration_counter' = iteration_counter, Age(c, lo, hi)
    PROVE  Age(c, lo, hi)'
  BY DEF Age

(* From one launch to the next every coin is one launch older. *)
LEMMA AgeGrows ==
    ASSUME FewFaults, AgeInv, NEW c, Age(c, 0, unreset),
           iteration_counter' = Advance(iteration_counter), unreset' = unreset
    PROVE  Age(c, 1, unreset + 1)'
<1>1. PICK j \in Blocks, q \in Blocks, d \in 0..unreset :
         iteration_counter = q * THREADS /\ OfLaunch(c, j) /\ Ago(j, q, d)
  BY DEF Age
<1>2. PICK p \in Blocks : /\ iteration_counter' = p * THREADS
                          /\ p = q + 1 \/ p + (WORD \div THREADS) = q + 1
  BY <1>1, NextBlock
<1>3. PICK b \in Nat, u \in Nat : b = WORD \div THREADS /\ u = unreset /\ u < b
  BY BlockSizes, GpuSizes DEF FewFaults, AgeInv
<1>4. j \in 0..(b - 1) /\ q \in 0..(b - 1) /\ p \in 0..(b - 1) /\ d \in 0..u
  BY <1>1, <1>2, <1>3 DEF Blocks
<1>5. (q = j + d \/ q + b = j + d) /\ (p = q + 1 \/ p + b = q + 1)
  BY <1>1, <1>2, <1>3 DEF Ago
<1>6. d + 1 \in 1..(u + 1) /\ (p = j + (d + 1) \/ p + b = j + (d + 1))
  BY <1>3, <1>4, <1>5
<1>7. Ago(j, p, d + 1) /\ d + 1 \in 1..(unreset' + 1)
  BY <1>3, <1>6 DEF Ago
<1> QED
  BY <1>1, <1>2, <1>7 DEF Age

THEOREM AgesCorrect == ASSUME FewFaults PROVE Spec => []AgeInv
<1> USE DEF deviceVars, deviceRest, hostVars, params, tallies, buffer, vault, history
<1>1. Init => AgeInv
  <2> SUFFICES ASSUME Init PROVE AgeInv
    OBVIOUS
  <2>1. 0 \in Blocks /\ 0 = 0 * THREADS
    BY BlockSizes, GpuSizes DEF Blocks
  <2> QED
    BY <2>1, GpuSizes DEF Init, DeviceInit, AgeInv
<1>2. StageInv /\ ThreadInv /\ AgeInv /\ [Next]_vars => AgeInv'
  <2> SUFFICES ASSUME StageInv, ThreadInv, AgeInv, [Next]_vars PROVE AgeInv'
    OBVIOUS
  <2>a. unreset \in Nat /\ unread \in Nat /\ unreset + unread <= MaxFaults
    BY DEF AgeInv
  <2>k. ASSUME UNCHANGED <<iteration_counter, since, unreset, unread>>,
               \/ host' = host
               \/ host = "setup" /\ host' \in {"loop", "unwind"}
               \/ host' \notin {"loop", "launch", "kernel", "collect"}
               \/ host = "launch" /\ host' = "kernel"
        PROVE  AgeInv'
    <3>1. \A c, lo, hi : Age(c, lo, hi) => Age(c, lo, hi)'
      BY <2>k, AgeKept
    <3>2. host = "setup" => since = {}
      BY DEF StageInv
    <3> QED
      BY <2>k, <3>1, <3>2 DEF AgeInv
  <2>1. CASE Interrupt \/ UNCHANGED vars
    BY <2>1, <2>k DEF Interrupt, vars
  <2>2. CASE DeviceStep /\ UNCHANGED hostVars
    BY <2>2, <2>k, DeviceSteps
  <2>3. CASE ResetBuffer
    <3>1. /\ UNCHANGED <<iteration_counter, unread>> /\ host = "loop" /\ host' = "launch"
          /\ \/ since' = {} /\ unreset' = unreset
             \/ since' = since /\ unreset' = unreset + 1 /\ unreset + unread < MaxFaults
      BY <2>3 DEF ResetBuffer, MayFail
    <3>2. \A c \in since : Age(c, 1, unreset + 1)
      BY <3>1 DEF AgeInv
    <3>3. \A c \in since' : Age(c, 1, unreset)'
      <4>1. CASE since' = {}
        BY <4>1
      <4>2. CASE since' = since /\ unreset' = unreset + 1
        BY <3>1, <3>2, <4>2 DEF Age
      <4> QED
        BY <3>1, <4>1, <4>2
    <3>4. unreset' \in Nat /\ unreset' + unread' <= MaxFaults
      BY <2>a, <3>1, GpuSizes
    <3> QED
      BY <3>1, <3>3, <3>4 DEF AgeInv
  <2>4. CASE Launch
    BY <2>4, <2>k DEF Launch
  <2>5. CASE LaunchFails \/ LeaveLoop
    BY <2>5, <2>k, NextStages DEF LaunchFails, LeaveLoop, GoTo, StageInv
  <2>6. CASE SaveRest
    <3>1. host = "save" /\ (host' = AfterSave[api] \/ host' = host)
          /\ UNCHANGED <<iteration_counter, since, unreset, unread>>
      BY <2>6 DEF SaveRest, GoTo
    <3> QED
      BY <2>k, <3>1, NextStages DEF StageInv
  <2>7. CASE ReadBuffer
    <3>1. /\ UNCHANGED <<iteration_counter, unreset>> /\ host = "kernel" /\ host' = "collect"
          /\ since' = since \cup LaunchCoins
          /\ unread' = unread \/ (unread' = unread + 1 /\ unreset + unread < MaxFaults)
      BY <2>7 DEF ReadBuffer, MayFail
    <3>2. PICK q \in Blocks : iteration_counter = q * THREADS
      BY DEF AgeInv
    <3>3. ASSUME NEW c \in since' PROVE Age(c, 0, unreset)'
      <4>1. CASE c \in since
        <5>1. PICK j \in Blocks, p \in Blocks, d \in 1..unreset :
                 iteration_counter = p * THREADS /\ OfLaunch(c, j) /\ Ago(j, p, d)
          BY <3>1, <4>1 DEF AgeInv, Age
        <5>2. d \in 0..unreset
          BY <2>a, <5>1
        <5> QED
          BY <3>1, <5>1, <5>2 DEF Age
      <4>2. CASE c \in LaunchCoins
        <5>1. OfLaunch(c, q)
          BY <3>2, <4>2, LaunchBlock DEF LaunchCoins
        <5>2. Ago(q, q, 0) /\ 0 \in 0..unreset
          BY <2>a, BlockSizes DEF Ago, Blocks
        <5> QED
          BY <3>1, <3>2, <5>1, <5>2 DEF Age
      <4> QED
        BY <3>1, <4>1, <4>2
    <3>4. unread' \in Nat /\ unreset' + unread' <= MaxFaults
      BY <2>a, <3>1, GpuSizes
    <3> QED
      BY <2>a, <3>1, <3>2, <3>3, <3>4 DEF AgeInv
  <2>8. CASE Collect
    <3>1. /\ UNCHANGED <<since, unreset, unread>> /\ host = "collect"
          /\ \/ host' = "loop" /\ iteration_counter' = Advance(iteration_counter)
             \/ UNCHANGED <<host, iteration_counter>>
      BY <2>8 DEF Collect
    <3>2. CASE UNCHANGED <<host, iteration_counter>>
      BY <2>k, <3>1, <3>2
    <3>3. CASE host' = "loop" /\ iteration_counter' = Advance(iteration_counter)
      <4>1. \E p \in Blocks : iteration_counter' = p * THREADS
        BY <3>3, NextBlock DEF AgeInv
      <4>2. \A c \in since' : Age(c, 1, unreset + 1)'
        BY <3>1, <3>3, AgeGrows DEF AgeInv
      <4> QED
        BY <2>a, <3>1, <3>3, <4>1, <4>2 DEF AgeInv
    <3> QED
      BY <3>1, <3>2, <3>3
  <2>9. ASSUME NEW n \in Threads, ReserveSlot(n) \/ FillSlot(n) PROVE AgeInv'
    BY <2>9, <2>k DEF ReserveSlot, FillSlot
  <2> QED
    BY <2>1, <2>2, <2>3, <2>4, <2>5, <2>6, <2>7, <2>8, <2>9, HostSteps
<1> QED
  BY <1>1, <1>2, StagesCorrect, ThreadsCorrect, PTL DEF Spec

-----------------------------------------------------------------------------
(* The slots *)

(* An index is handed out to a thread that has not written yet. *)
LEMMA ReserveKeeps ==
    ASSUME ThreadInv, FilledInv, NEW n \in Threads, ReserveSlot(n),
           next_free' <= COINS_BUFFER_SIZE
    PROVE  /\ FilledParts /\ FilledParts' /\ UNCHANGED slots
           /\ \E f \in Nat : Reserved' = Reserved \cup {f} /\ Writing(f)'
           /\ \A i \in Reserved : Writing(i)' <=> Writing(i)
<1>1. /\ UNCHANGED <<host_first, slots, since, iteration_counter, base_value1, host>>
      /\ thread[n] = "add" /\ next_free' = next_free + COIN_WORDS
      /\ idx' = [idx EXCEPT ![n] = next_free]
      /\ thread' = [thread EXCEPT ![n] = IF Fits(next_free) THEN "write" ELSE "done"]
  BY DEF ReserveSlot, deviceVars, history, params
<1>2. PICK f \in Nat : f = next_free /\ f <= COINS_BUFFER_SIZE /\ Fits(f)
  <2>1. next_free \in Nat
    BY DEF ThreadInv
  <2> QED
    BY <1>1, <2>1, GpuSizes DEF Fits
<1>3. FilledParts
  BY <1>2 DEF FilledInv
<1>4. /\ \E m \in Nat : next_free' = 1 + m * COIN_WORDS
      /\ Reserved' = Reserved \cup {f} /\ f \notin Reserved
  BY <1>1, <1>2, <1>3, ReserveNext DEF FilledParts
<1>5. /\ thread'[n] = "write" /\ idx'[n] = f
      /\ \A m \in Threads \ {n} : thread'[m] = thread[m] /\ idx'[m] = idx[m]
  BY <1>1, <1>2 DEF ThreadInv
<1>6. \A m \in Threads : thread[m] = "write" => idx[m] \in Reserved /\ idx[m] # f
  BY <1>3, <1>4 DEF FilledParts
<1>7. Writing(f)' /\ \A i \in Reserved : Writing(i)' <=> Writing(i)
  <2>1. ASSUME NEW i PROVE Writing(i)' <=> \E m \in Threads : thread'[m] = "write" /\ idx'[m] = i
    BY DEF Writing
  <2>2. ASSUME NEW i \in Reserved PROVE Writing(i)' <=> Writing(i)
    <3>1. i # f
      BY <1>4
    <3> QED
      BY <1>1, <1>5, <2>1, <3>1 DEF Writing
  <2> QED
    BY <1>5, <2>1, <2>2
<1>8. Filled' = Filled
  <2>1. \A m \in Threads : CoinOf(m)' = CoinOf(m)
    BY <1>1 DEF CoinOf
  <2>2. \A m \in Threads : thread'[m] = "done" <=> thread[m] = "done"
    BY <1>1, <1>5
  <2>3. DoneNow' = DoneNow
    BY <1>1, <2>2 DEF DoneNow
  <2>4. {CoinOf(m) : m \in DoneNow}' = {CoinOf(m) : m \in DoneNow}
    BY <1>1, <2>3 DEF CoinOf
  <2> QED
    BY <1>1, <2>4 DEF Filled
<1>9. FilledParts'
  <2>1. (\A c \in Filled : \E i \in Reserved : slots[i] = c /\ ~Writing(i))'
    BY <1>1, <1>3, <1>4, <1>7, <1>8 DEF FilledParts
  <2>2. ASSUME NEW i \in Reserved' PROVE Writing(i)' \/ slots'[i] \in Filled'
    BY <1>1, <1>3, <1>4, <1>7, <1>8 DEF FilledParts
  <2>3. (\A m \in Threads : thread[m] = "write" => idx[m] \in Reserved)'
    BY <1>4, <1>5, <1>6
  <2>4. ASSUME NEW m \in Threads, NEW k \in Threads, m # k,
               thread'[m] = "write", thread'[k] = "write"
        PROVE  idx'[m] # idx'[k]
    <3>1. CASE m = n \/ k = n
      BY <1>5, <1>6, <2>4, <3>1
    <3>2. CASE m # n /\ k # n
      BY <1>3, <1>5, <2>4, <3>2 DEF FilledParts
    <3> QED
      BY <3>1, <3>2
  <2> QED
    BY <1>4, <2>1, <2>2, <2>3, <2>4 DEF FilledParts
<1> QED
  BY <1>1, <1>2, <1>3, <1>4, <1>7, <1>9

(* A thread writes its coin to its own index. *)
LEMMA FillKeeps ==
    ASSUME ThreadInv, FilledInv, NEW n \in Threads, FillSlot(n), next_free <= COINS_BUFFER_SIZE
    PROVE  /\ FilledParts /\ FilledParts' /\ Reserved' = Reserved
           /\ Filled' = Filled \cup {CoinOf(n)}
           /\ \E f \in Reserved :
                /\ slots'[f] = CoinOf(n) /\ ~Writing(f)'
                /\ \A i \in Reserved \ {f} : slots'[i] = slots[i] /\ (Writing(i)' <=> Writing(i))
<1>1. /\ UNCHANGED <<next_free, host_first, idx, since, iteration_counter, base_value1, host>>
      /\ thread[n] = "write" /\ slots' = [slots EXCEPT ![idx[n]] = CoinOf(n)]
      /\ thread' = [thread EXCEPT ![n] = "done"]
  BY DEF FillSlot, deviceVars, history, params
<1>2. FilledParts
  BY DEF FilledInv
<1>3. PICK f \in Reserved : f = idx[n]
  BY <1>1, <1>2 DEF FilledParts
<1>4. Reserved \subseteq SlotIndices /\ Reserved' = Reserved
  <2>1. next_free \in Nat /\ \E m \in Nat : next_free = 1 + m * COIN_WORDS
    BY <1>2 DEF ThreadInv, FilledParts
  <2> QED
    BY <1>1, <2>1, ReservedIsSlot DEF Reserved
<1>5. slots'[f] = CoinOf(n) /\ \A i \in Reserved \ {f} : slots'[i] = slots[i]
  BY <1>1, <1>3, <1>4 DEF ThreadInv
<1>6. /\ thread'[n] = "done" /\ \A m \in Threads \ {n} : thread'[m] = thread[m]
      /\ \A m \in Threads : idx'[m] = idx[m]
  BY <1>1 DEF ThreadInv
<1>7. \A m \in Threads \ {n} : thread[m] = "write" => idx[m] \in Reserved /\ idx[m] # f
  BY <1>1, <1>2, <1>3 DEF FilledParts
<1>8. ~Writing(f)' /\ \A i \in Reserved \ {f} : Writing(i)' <=> Writing(i)
  <2>1. ASSUME NEW i PROVE Writing(i)' <=> \E m \in Threads : thread'[m] = "write" /\ idx'[m] = i
    BY DEF Writing
  <2>2. ASSUME NEW i \in Reserved \ {f} PROVE Writing(i)' <=> Writing(i)
    BY <1>3, <1>6, <2>1, <2>2 DEF Writing
  <2>3. ~Writing(f)'
    BY <1>6, <1>7, <2>1
  <2> QED
    BY <2>2, <2>3
<1>9. Filled' = Filled \cup {CoinOf(n)}
  <2>1. host = "kernel" /\ CoinOf(n) \in Golden
    BY <1>1 DEF ThreadInv
  <2>2. DoneNow' = DoneNow \cup {n}
    BY <1>1, <1>6, <2>1 DEF DoneNow
  <2>3. {CoinOf(m) : m \in DoneNow}' = {CoinOf(m) : m \in DoneNow} \cup {CoinOf(n)}
    BY <1>1, <2>2 DEF CoinOf
  <2> QED
    BY <1>1, <2>1, <2>3 DEF Filled
<1>10. FilledParts'
  <2>1. (\E m \in Nat : next_free = 1 + m * COIN_WORDS)'
    BY <1>1, <1>2 DEF FilledParts
  <2>2. ASSUME NEW c \in Filled' PROVE \E i \in Reserved : slots'[i] = c /\ ~Writing(i)'
    <3>1. CASE c = CoinOf(n)
      BY <1>5, <1>8, <3>1
    <3>2. CASE c \in Filled
      <4>1. PICK i \in Reserved : slots[i] = c /\ ~Writing(i)
        BY <1>2, <3>2 DEF FilledParts
      <4>2. i # f
        BY <1>1, <1>3, <4>1 DEF Writing
      <4> QED
        BY <1>5, <1>8, <4>1, <4>2
    <3> QED
      BY <1>9, <2>2, <3>1, <3>2
  <2>3. ASSUME NEW i \in Reserved PROVE Writing(i)' \/ slots'[i] \in Filled'
    BY <1>2, <1>5, <1>8, <1>9 DEF FilledParts
  <2>4. (\A m \in Threads : thread[m] = "write" => idx[m] \in Reserved)'
    BY <1>4, <1>6, <1>7
  <2>5. ASSUME NEW m \in Threads, NEW k \in Threads, idx'[m] = idx'[k],
               thread'[m] = "write", thread'[k] = "write"
        PROVE  m = k
    <3>1. thread[m] = "write" /\ thread[k] = "write" /\ idx[m] = idx[k]
      BY <1>6, <2>5
    <3> QED
      BY <1>2, <3>1 DEF FilledParts
  <2> QED
    BY <1>4, <2>1, <2>2, <2>3, <2>4, <2>5 DEF FilledParts
<1> QED
  BY <1>2, <1>4, <1>5, <1>8, <1>9, <1>10

LEMMA NoneReserved == {i \in Nat : i < 1 /\ \E k \in Nat : i = 1 + k * COIN_WORDS} = {}
<1>1. \A i \in Nat, k \in Nat : i = 1 + k * COIN_WORDS => ~(i < 1)
  <2> TAKE i \in Nat, k \in Nat
  <2>1. k * COIN_WORDS \in Nat
    BY GpuSizes
  <2> QED
    BY <2>1
<1> QED
  BY <1>1

(* A step of no thread changes nothing in the slots. *)
LEMMA SlotsKept ==
    ASSUME UNCHANGED <<next_free, slots, idx>>, Filled' = Filled,
           \A n \in Threads : thread'[n] = "write" <=> thread[n] = "write"
    PROVE  /\ FilledInv => FilledInv'
           /\ UniqueInv => UniqueInv'
<1>1. \A i : Writing(i)' <=> Writing(i)
  BY DEF Writing
<1>2. Reserved' = Reserved
  BY DEF Reserved
<1>3. FilledParts => FilledParts'
  BY <1>1, <1>2 DEF FilledParts
<1> QED
  BY <1>1, <1>2, <1>3 DEF FilledInv, UniqueInv

(* What the host, or the first word of the buffer set to 1, does to them.  *)
LEMMA HostKeepsSlots ==
    ASSUME StageInv, ThreadInv, [Next]_vars
    PROVE  \/ /\ FilledInv => FilledInv'
              /\ UniqueInv => UniqueInv'
           \/ \E n \in Threads : ReserveSlot(n) \/ FillSlot(n)
<1> USE DEF deviceVars, deviceRest, hostVars, params, tallies, buffer, vault, history
<1>1. CASE Interrupt \/ UNCHANGED vars \/ LaunchFails \/ LeaveLoop \/ SaveRest \/ Collect
           \/ (DeviceStep /\ UNCHANGED hostVars)
  <2>1. UNCHANGED <<next_free, slots, thread, idx, since>>
    BY <1>1 DEF Interrupt, vars, LaunchFails, LeaveLoop, SaveRest, Collect
  <2>2. UNCHANGED <<host, base_value1, iteration_counter>> \/ (host # "kernel" /\ host' # "kernel")
    <3>1. CASE Interrupt \/ UNCHANGED vars
      BY <3>1 DEF Interrupt, vars
    <3>2. CASE DeviceStep /\ UNCHANGED hostVars
      BY <3>2, DeviceSteps
    <3>3. CASE LaunchFails \/ LeaveLoop
      BY <3>3, NextStages DEF LaunchFails, LeaveLoop, GoTo, StageInv
    <3>4. CASE SaveRest
      <4>1. host = "save" /\ (host' = AfterSave[api] \/ host' = host)
        BY <3>4 DEF SaveRest, GoTo
      <4> QED
        BY <4>1, NextStages DEF StageInv
    <3>5. CASE Collect
      BY <3>5 DEF Collect
    <3> QED
      BY <1>1, <3>1, <3>2, <3>3, <3>4, <3>5
  <2>3. Filled' = Filled
    <3>1. CASE UNCHANGED <<host, base_value1, iteration_counter>>
      BY <2>1, <3>1 DEF Filled, DoneNow, CoinOf
    <3>2. CASE host # "kernel" /\ host' # "kernel"
      BY <2>1, <3>2 DEF Filled, DoneNow
    <3> QED
      BY <2>2, <3>1, <3>2
  <2> QED
    BY <2>1, <2>3, SlotsKept
<1>2. CASE ResetBuffer
  <2>1. /\ UNCHANGED <<slots, thread, idx>> /\ host = "loop" /\ host' = "launch"
        /\ \/ next_free' = 1 /\ since' = {}
           \/ UNCHANGED <<next_free, since>>
    BY <1>2 DEF ResetBuffer, FirstFree
  <2>2. CASE UNCHANGED <<next_free, since>>
    <3>1. Filled' = Filled
      BY <2>1, <2>2 DEF Filled, DoneNow
    <3> QED
      BY <2>1, <2>2, <3>1, SlotsKept
  <2>3. CASE next_free' = 1 /\ since' = {}
    <3>1. Reserved' = {}
      BY <2>3, NoneReserved DEF Reserved
    <3>2. Filled' = {}
      BY <2>1, <2>3 DEF Filled, DoneNow
    <3>3. \A n \in Threads : thread'[n] = "done"
      BY <2>1 DEF ThreadInv
    <3>4. (\E m \in Nat : next_free = 1 + m * COIN_WORDS)'
      <4>1. 0 \in Nat /\ 1 = 1 + 0 * COIN_WORDS
        BY GpuSizes
      <4> QED
        BY <2>3, <4>1
    <3> QED
      BY <3>1, <3>2, <3>3, <3>4 DEF FilledInv, FilledParts, UniqueInv
  <2> QED
    BY <2>1, <2>2, <2>3
<1>3. CASE Launch
  <2>1. /\ UNCHANGED <<next_free, slots, idx, since, iteration_counter, base_value1>>
        /\ host = "launch" /\ host' = "kernel"
        /\ thread' = [n \in Threads |-> IF CoinOf(n) \in Golden THEN "add" ELSE "done"]
    BY <1>3 DEF Launch
  <2>2. \A n \in Threads : thread[n] = "done"
    BY <2>1 DEF ThreadInv
  <2>3. \A n \in DoneNow' : CoinOf(n)' \notin Golden
    BY <2>1 DEF DoneNow, CoinOf
  <2>4. Filled' = Filled
    BY <2>1, <2>3 DEF Filled, DoneNow
  <2>5. \A n \in Threads : thread'[n] = "write" <=> thread[n] = "write"
    BY <2>1, <2>2
  <2> QED
    BY <2>1, <2>4, <2>5, SlotsKept
<1>4. CASE ReadBuffer
  <2>1. /\ UNCHANGED <<next_free, slots, thread, idx, iteration_counter, base_value1>>
        /\ host = "kernel" /\ host' = "collect" /\ \A n \in Threads : thread[n] = "done"
        /\ since' = since \cup LaunchCoins
    BY <1>4 DEF ReadBuffer
  <2>2. DoneNow = Threads /\ DoneNow' = {}
    BY <2>1 DEF DoneNow
  <2>3. Filled' = Filled
    BY <2>1, <2>2 DEF Filled, LaunchCoins
  <2> QED
    BY <2>1, <2>3, SlotsKept
<1> QED
  BY <1>1, <1>2, <1>3, <1>4, HostSteps

LEMMA EmptyAtFirst == Init => FilledInv /\ UniqueInv
<1> SUFFICES ASSUME Init, next_free <= COINS_BUFFER_SIZE
             PROVE  FilledParts /\ \A i, j \in Reserved : i = j
  BY DEF FilledInv, UniqueInv
<1>1. next_free = 1
  BY GpuSizes DEF Init, Overflown
<1>2. Reserved = {}
  BY <1>1, NoneReserved DEF Reserved
<1>3. Filled = {} /\ \A n \in Threads : thread[n] = "done"
  BY DEF Init, DeviceInit, Filled, DoneNow
<1>4. 0 \in Nat /\ 1 = 1 + 0 * COIN_WORDS
  BY GpuSizes
<1> QED
  BY <1>1, <1>2, <1>3, <1>4 DEF FilledParts

THEOREM SlotsCorrect == Spec => []FilledInv
<1>1. Init => FilledInv
  BY EmptyAtFirst
<1>2. StageInv /\ ThreadInv /\ FilledInv /\ [Next]_vars => FilledInv'
  <2> SUFFICES ASSUME StageInv, ThreadInv, FilledInv, [Next]_vars PROVE FilledInv'
    OBVIOUS
  <2>1. ASSUME NEW n \in Threads, ReserveSlot(n) PROVE FilledInv'
    BY <2>1, ReserveKeeps DEF FilledInv
  <2>2. ASSUME NEW n \in Threads, FillSlot(n) PROVE FilledInv'
    <3>1. next_free' = next_free
      BY <2>2 DEF FillSlot
    <3> QED
      BY <2>2, <3>1, FillKeeps DEF FilledInv
  <2> QED
    BY <2>1, <2>2, HostKeepsSlots
<1> QED
  BY <1>1, <1>2, StagesCorrect, ThreadsCorrect, PTL DEF Spec

(* A launch with coins that are not in the buffer keeps them apart. *)
LEMMA UniqueKept ==
    ASSUME StageInv, ThreadInv, FilledInv, UniqueInv, [Next]_vars,
           host = "kernel" => \A n \in Threads : CoinOf(n) \notin since
    PROVE  UniqueInv'
<1>1. ASSUME NEW n \in Threads, ReserveSlot(n), next_free' <= COINS_BUFFER_SIZE
      PROVE  UniqueInv'
  <2>1. PICK f \in Nat : Reserved' = Reserved \cup {f} /\ Writing(f)'
    BY <1>1, ReserveKeeps
  <2>2. UNCHANGED slots /\ \A i \in Reserved : Writing(i)' <=> Writing(i)
    BY <1>1, ReserveKeeps
  <2>3. next_free <= COINS_BUFFER_SIZE
    <3>1. next_free' = next_free + COIN_WORDS /\ next_free \in Nat
      BY <1>1 DEF ReserveSlot, ThreadInv
    <3> QED
      BY <1>1, <3>1, GpuSizes
  <2> QED
    BY <2>1, <2>2, <2>3 DEF UniqueInv
<1>2. ASSUME NEW n \in Threads, FillSlot(n), next_free <= COINS_BUFFER_SIZE
      PROVE  UniqueInv'
  <2>1. PICK f \in Reserved :
           /\ slots'[f] = CoinOf(n) /\ ~Writing(f)'
           /\ \A i \in Reserved \ {f} : slots'[i] = slots[i] /\ (Writing(i)' <=> Writing(i))
    BY <1>2, FillKeeps
  <2>2. FilledParts /\ Reserved' = Reserved
    BY <1>2, FillKeeps
  <2>3. thread[n] = "write" /\ host = "kernel"
    BY <1>2 DEF FillSlot, ThreadInv
  <2>4. CoinOf(n) \notin Filled
    <3>1. CoinOf(n) \notin since
      BY <2>3
    <3>2. \A m \in DoneNow : CoinOf(m) # CoinOf(n)
      BY <2>3, CoinsOfThreads DEF DoneNow, ThreadInv
    <3> QED
      BY <3>1, <3>2 DEF Filled
  <2>5. \A i \in Reserved \ {f} : ~Writing(i)' => slots'[i] # CoinOf(n)
    BY <2>1, <2>2, <2>4 DEF FilledParts
  <2> QED
    BY <1>2, <2>1, <2>2, <2>5 DEF UniqueInv
<1>3. ASSUME NEW n \in Threads, ReserveSlot(n) \/ FillSlot(n) PROVE UniqueInv'
  <2>1. CASE next_free' <= COINS_BUFFER_SIZE
    <3>1. FillSlot(n) => next_free' = next_free
      BY DEF FillSlot
    <3> QED
      BY <1>1, <1>2, <1>3, <2>1, <3>1
  <2>2. CASE ~(next_free' <= COINS_BUFFER_SIZE)
    BY <2>2 DEF UniqueInv
  <2> QED
    BY <2>1, <2>2
<1> QED
  BY <1>3, HostKeepsSlots

(* No coin is in two slots, also when the first word was not reset between *)
(* launches (atomicAdd in mine_deti_coins_cuda_kernel, atomic_add in the   *)
(* OpenCL kernel).                                                         *)
THEOREM CoinsOnlyOnce == ASSUME FewFaults PROVE Spec => []UniqueInv
<1>1. Init => UniqueInv
  BY EmptyAtFirst
<1>2. StageInv /\ ThreadInv /\ AgeInv /\ FilledInv /\ UniqueInv /\ [Next]_vars => UniqueInv'
  <2> SUFFICES ASSUME StageInv, ThreadInv, AgeInv, FilledInv, UniqueInv, [Next]_vars
               PROVE  UniqueInv'
    OBVIOUS
  <2>1. host = "kernel" => \A n \in Threads : CoinOf(n) \notin since
    BY LaunchIsNew
  <2> QED
    BY <2>1, UniqueKept
<1> QED
  BY <1>1, <1>2, StagesCorrect, ThreadsCorrect, AgesCorrect, SlotsCorrect, PTL DEF Spec

-----------------------------------------------------------------------------
(* What the host finds in the buffer *)

(* A sequence without repetitions is as long as the set of its elements.   *)
LEMMA LengthOfSet ==
    ASSUME NEW s, NEW n \in Nat, s = [k \in 1..n |-> s[k]],
           \A j, k \in 1..n : s[j] = s[k] => j = k
    PROVE  Len(s) = n /\ Len(s) = Cardinality(ToSet(s))
<1>1. DOMAIN s = 1..n /\ Len(s) = n
  OBVIOUS
<1>2. ToSet(s) = {s[k] : k \in 1..n}
  BY <1>1 DEF ToSet
<1>3. s \in Bijection(1..n, ToSet(s))
  BY <1>1, <1>2 DEF Bijection, Injection, Surjection, IsInjective
<1>4. IsFiniteSet(1..n) /\ Cardinality(1..n) = n
  <2>1. 1 \in Int /\ n \in Int
    OBVIOUS
  <2>2. IsFiniteSet(1..n) /\ Cardinality(1..n) = IF 1 > n THEN 0 ELSE n - 1 + 1
    BY <2>1, FS_Interval
  <2> QED
    BY <2>2
<1>5. Cardinality(ToSet(s)) = n
  BY <1>3, <1>4, FS_Bijection DEF ExistsBijection
<1> QED
  BY <1>1, <1>5

(* The indices up to the one that is handed out next. *)
LEMMA IndicesOf ==
    ASSUME NEW m \in Nat, next_free = 1 + m * COIN_WORDS
    PROVE  /\ Reserved = {1 + (k - 1) * COIN_WORDS : k \in 1..m}
           /\ \A j, k \in 1..m : 1 + (j - 1) * COIN_WORDS = 1 + (k - 1) * COIN_WORDS => j = k
           /\ (next_free - 1) \div COIN_WORDS = m
<1>1. PICK w \in Nat \ {0} : w = COIN_WORDS
  BY GpuSizes
<1>2. ASSUME NEW j \in Nat, NEW k \in Nat PROVE j * w < k * w <=> j < k
  <2>1. j * w \in Nat /\ k * w \in Nat
    BY <1>1
  <2>2. PICK x \in Nat, y \in Nat : x = j * w /\ y = k * w
    BY <2>1
  <2>3. CASE j < k
    <3>1. j * w + w <= k * w
      BY <1>1, <2>3, ProductGrows
    <3> QED
      BY <1>1, <2>2, <2>3, <3>1
  <2>4. CASE k < j
    <3>1. k * w + w <= j * w
      BY <1>1, <2>4, ProductGrows
    <3> QED
      BY <1>1, <2>2, <2>4, <3>1
  <2> QED
    BY <2>2, <2>3, <2>4
<1>3. \A k \in Nat : k * w \in Nat
  BY <1>1
<1>4. \A i : i \in Reserved <=> \E k \in Nat : i = 1 + k * w /\ k < m
  <2>1. ASSUME NEW k \in Nat PROVE 1 + k * w < 1 + m * w <=> k < m
    <3>1. PICK x \in Nat, y \in Nat : x = k * w /\ y = m * w
      BY <1>3
    <3>2. 1 + x < 1 + y <=> x < y
      OBVIOUS
    <3> QED
      BY <1>2, <3>1, <3>2
  <2>2. next_free = 1 + m * w
    BY <1>1
  <2>3. \A k \in Nat : 1 + k * w \in Nat
    BY <1>3
  <2> QED
    BY <1>1, <2>1, <2>2, <2>3 DEF Reserved
<1>5. \A i : (\E k \in Nat : i = 1 + k * w /\ k < m) <=> \E k \in 1..m : i = 1 + (k - 1) * w
  <2>1. ASSUME NEW i, NEW k \in Nat, i = 1 + k * w, k < m
        PROVE  \E j \in 1..m : i = 1 + (j - 1) * w
    <3>1. k + 1 \in 1..m /\ (k + 1) - 1 = k
      BY <2>1
    <3> QED
      BY <2>1, <3>1
  <2>2. ASSUME NEW i, NEW k \in 1..m, i = 1 + (k - 1) * w
        PROVE  \E j \in Nat : i = 1 + j * w /\ j < m
    <3>1. k - 1 \in Nat /\ k - 1 < m
      OBVIOUS
    <3> QED
      BY <2>2, <3>1
  <2> QED
    BY <2>1, <2>2
<1>6. ASSUME NEW j \in 1..m, NEW k \in 1..m, 1 + (j - 1) * w = 1 + (k - 1) * w PROVE j = k
  <2>1. PICK a \in Nat, b \in Nat : a = j - 1 /\ b = k - 1 /\ j = a + 1 /\ k = b + 1
    OBVIOUS
  <2>2. a * w = b * w
    <3>1. PICK x \in Nat, y \in Nat : x = a * w /\ y = b * w
      BY <1>3
    <3> QED
      BY <1>6, <2>1, <3>1
  <2>3. ~(a < b) /\ ~(b < a)
    <3>1. PICK x \in Nat : x = a * w
      BY <1>3
    <3> QED
      BY <1>2, <2>2, <3>1
  <2> QED
    BY <2>1, <2>3
<1>7. (next_free - 1) \div w = m
  <2>1. PICK x \in Nat : x = m * w
    BY <1>3
  <2>2. next_free - 1 = x /\ x = m * w + 0 /\ 0 \in 0..(w - 1)
    BY <1>1, <2>1
  <2>3. (m * w + 0) \div w = m
    BY <1>1, <2>2, QuotientAndRemainder
  <2> QED
    BY <2>2, <2>3
<1>8. Reserved = {1 + (k - 1) * w : k \in 1..m}
  <2>1. \A i : i \in Reserved <=> \E k \in 1..m : i = 1 + (k - 1) * w
    BY <1>4, <1>5
  <2> QED
    BY <2>1
<1> QED
  BY <1>1, <1>6, <1>7, <1>8

LEMMA CollectedIs ==
    ASSUME ThreadInv, FilledInv, host = "collect", Accepted
    PROVE  /\ Collected \in Seq(since) /\ ToSet(Collected) = since
           /\ UniqueInv => IsInjective(Collected) /\ Len(Collected) = Cardinality(since)
<1>1. host_first = next_free /\ next_free <= COINS_BUFFER_SIZE
  BY DEF ThreadInv, Accepted
<1>2. FilledParts /\ \A n \in Threads : thread[n] = "done"
  BY <1>1 DEF FilledInv, ThreadInv
<1>3. Filled = since /\ \A i : ~Writing(i)
  BY <1>2 DEF Filled, DoneNow, Writing
<1>4. /\ \A c \in since : \E i \in Reserved : slots[i] = c
      /\ \A i \in Reserved : slots[i] \in since
  BY <1>2, <1>3 DEF FilledParts
<1>5. PICK m \in Nat : next_free = 1 + m * COIN_WORDS
  BY <1>2 DEF FilledParts
<1> DEFINE at(k) == 1 + (k - 1) * COIN_WORDS
<1>6. /\ Reserved = {at(k) : k \in 1..m}
      /\ \A j, k \in 1..m : at(j) = at(k) => j = k
      /\ (next_free - 1) \div COIN_WORDS = m
  BY <1>5, IndicesOf
<1>7. Collected = [k \in 1..m |-> slots[at(k)]]
  BY <1>1, <1>6 DEF Collected, FirstSlots
<1> HIDE DEF at
<1>8. ToSet(Collected) = since
  <2>1. ToSet(Collected) = {slots[at(k)] : k \in 1..m}
    BY <1>7 DEF ToSet
  <2> QED
    BY <1>4, <1>6, <2>1
<1>9. Collected = [k \in 1..m |-> Collected[k]] /\ Collected \in Seq(since)
  BY <1>4, <1>6, <1>7
<1>10. ASSUME UniqueInv
       PROVE  IsInjective(Collected) /\ Len(Collected) = Cardinality(since)
  <2>1. \A i, j \in Reserved : slots[i] = slots[j] => i = j
    BY <1>1, <1>3, <1>10 DEF UniqueInv
  <2>2. \A j, k \in 1..m : Collected[j] = Collected[k] => j = k
    BY <1>6, <1>7, <2>1
  <2>3. IsInjective(Collected)
    BY <1>7, <2>2 DEF IsInjective
  <2> QED
    BY <1>8, <1>9, <2>2, <2>3, LengthOfSet
<1> QED
  BY <1>8, <1>9, <1>10

(* A buffer that the host accepts holds exactly the coins of the launches  *)
(* since its first word was last set to 1, each of them once, whatever the *)
(* order of the threads (ReserveSlot and FillSlot of the kernels,          *)
(* mine_deti_coins_cuda_kernel.cu and aad_sha1_opencl_kernel.cl).          *)
THEOREM BufferCorrect == ASSUME FewFaults PROVE Spec => []BufferIsTheLaunch
<1>1. ThreadInv /\ FilledInv /\ UniqueInv => BufferIsTheLaunch
  BY CollectedIs DEF BufferIsTheLaunch
<1> QED
  BY <1>1, ThreadsCorrect, SlotsCorrect, CoinsOnlyOnce, PTL

-----------------------------------------------------------------------------
(* The handles *)

(* What the miners do in the loop, and the saving of the last coins, does  *)
(* not touch the handles; what is released when they leave it is what the  *)
(* set-up has given.                                                       *)
LEMMA LoopSteps ==
    ASSUME StageInv, DeviceInv, status = "running",
           ResetBuffer \/ Launch \/ LaunchFails \/ ReadBuffer \/ Collect \/ LeaveLoop \/ SaveRest
    PROVE  DeviceInv'
<1> USE DEF deviceRest, GoTo
<1>1. CASE ResetBuffer \/ Launch \/ ReadBuffer
  <2>1. /\ UNCHANGED <<api, handle, failed, misused, status>>
        /\ host \in {"loop", "launch", "kernel"} /\ host' \in {"launch", "kernel", "collect"}
    BY <1>1 DEF ResetBuffer, Launch, ReadBuffer
  <2>2. Looping /\ Looping'
    BY <2>1 DEF Looping
  <2> QED
    BY <2>1, <2>2, LoopKeepsHandles
<1>2. CASE Collect
  <2>1. /\ UNCHANGED <<api, handle, failed, misused>> /\ status' \in {"running", "write_error"}
        /\ host = "collect" /\ host' \in {"loop", "collect"}
    BY <1>2 DEF Collect
  <2>2. Looping /\ Looping'
    BY <2>1 DEF Looping
  <2> QED
    BY <2>1, <2>2, LoopKeepsHandles
<1>3. CASE LaunchFails \/ LeaveLoop
  <2>1. /\ UNCHANGED <<api, handle, failed, misused, status>>
        /\ host \in {"loop", "launch"} /\ host' = AfterLoop[api] /\ api # "cuda_test"
        /\ todo' = IF host' = "teardown" THEN Teardown[api] ELSE <<>>
    BY <1>3 DEF LaunchFails, LeaveLoop, Mines
  <2>2. /\ host' \in {"teardown", "save"}
        /\ host' = "save" => api = "opencl"
    BY <2>1 DEF AfterLoop, StageInv
  <2>3. Looping /\ (host' = "save" => Looping')
    BY <2>1, <2>2 DEF Looping
  <2> QED
    BY <2>1, <2>2, <2>3, LoopKeepsHandles
<1>4. CASE SaveRest
  <2>1. /\ UNCHANGED <<api, handle, failed, misused>> /\ status' \in {"running", "write_error"}
        /\ host = "save"
        /\ \/ host' = AfterSave[api] /\ todo' = (IF host' = "teardown" THEN Teardown[api] ELSE <<>>)
           \/ host' = "save"
    BY <1>4 DEF SaveRest
  <2>2. CASE api = "opencl"
    <3>1. Looping /\ (host' = "save" => Looping') /\ AfterSave[api] = "teardown"
      BY <2>1, <2>2 DEF Looping, AfterSave
    <3> QED
      BY <2>1, <3>1, LoopKeepsHandles
  <2>3. CASE api = "cuda"
    <3>1. AfterSave[api] = "closed"
      BY <2>3 DEF AfterSave
    <3>2. NothingHeld /\ host' \in {"closed", "save"}
      BY <2>1, <2>3, <3>1 DEF DeviceInv
    <3> QED
      BY <2>1, <2>3, <3>2 DEF DeviceInv, Looping, NothingHeld, ContextHeld, Used
  <2> QED
    BY <2>1, <2>2, <2>3 DEF StageInv
<1> QED
  BY <1>1, <1>2, <1>3, <1>4

(* Where the program is decides which handles it has, in every step of the *)
(* device and of the miner.                                                *)
THEOREM DeviceCorrect == Spec => []DeviceInv
<1> USE DEF deviceVars, hostVars, params, tallies, buffer, vault, history
<1>1. Init => DeviceInv
  BY DeviceStart DEF Init
<1>2. StageInv /\ DeviceInv /\ [Next]_vars => DeviceInv'
  <2> SUFFICES ASSUME StageInv, DeviceInv, [Next]_vars PROVE DeviceInv'
    OBVIOUS
  <2>1. CASE UNCHANGED deviceVars
    BY <2>1 DEF DeviceInv, SettingUp, Releasing, Looping, AllHeld, NothingHeld, ContextHeld,
       Used
  <2>2. CASE status = "running" /\ DeviceStep
    BY <2>2, DeviceInvKept
  <2>3. CASE /\ status = "running"
             /\ \/ ResetBuffer \/ Launch \/ LaunchFails \/ ReadBuffer \/ Collect \/ LeaveLoop
                \/ SaveRest
    BY <2>3, LoopSteps
  <2>4. \/ UNCHANGED deviceVars \/ (status = "running" /\ DeviceStep)
        \/ /\ status = "running"
           /\ \/ ResetBuffer \/ Launch \/ LaunchFails \/ ReadBuffer \/ Collect \/ LeaveLoop
              \/ SaveRest
    <3>1. Interrupt => UNCHANGED deviceVars
      BY DEF Interrupt
    <3>2. ASSUME NEW n \in Threads, Kernel(n) PROVE UNCHANGED deviceVars
      BY <3>2 DEF Kernel, ReserveSlot, FillSlot
    <3>3. UNCHANGED vars => UNCHANGED deviceVars
      BY DEF vars
    <3> QED
      BY <3>1, <3>2, <3>3 DEF Next, Host
  <2> QED
    BY <2>1, <2>2, <2>3, <2>4
<1> QED
  BY <1>1, <1>2, StagesCorrect, PTL DEF Spec

(* main returns with nothing that it has not released, whichever call of   *)
(* the set-up failed; no object outlives its context; and only after a     *)
(* failure of load_kernel_source or of load_opencl_kernel is a handle      *)
(* without an object released (the main functions of the CUDA and OpenCL   *)
(* programs, initialize_cuda to terminate_cuda, cleanup_opencl).           *)
THEOREM HandlesCorrect == Spec => []HandlesReleasedOnce
BY DeviceInvImplies, DeviceCorrect, PTL

-----------------------------------------------------------------------------
(* The coins the host keeps of a buffer *)

(* The recursive function behind Those *)
Takes(g, good, s, n) ==
    g = [k \in 0..n |-> IF k = 0 THEN <<>>
                        ELSE IF s[k] \in good THEN Append(g[k - 1], s[k])
                        ELSE g[k - 1]]

LEMMA ThoseTaken ==
    ASSUME NEW good, NEW s
    PROVE  Those(good, s) = (CHOOSE g : Takes(g, good, s, Len(s)))[Len(s)]
  BY DEF Those, Takes

LEMMA TakesExist ==
    ASSUME NEW good, NEW s, NEW n \in Nat
    PROVE  \E g : Takes(g, good, s, n)
<1> DEFINE T == {m \in Nat : \E g : Takes(g, good, s, m)}
<1>1. 0 \in T
  <2>1. Takes([k \in 0..0 |-> <<>>], good, s, 0)
    BY DEF Takes
  <2> QED
    BY <2>1
<1>2. ASSUME NEW m \in T PROVE m + 1 \in T
  <2>1. PICK g : Takes(g, good, s, m)
    OBVIOUS
  <2> DEFINE next(f, k) == IF k = 0 THEN <<>>
                           ELSE IF s[k] \in good THEN Append(f[k - 1], s[k])
                           ELSE f[k - 1]
             h == [k \in 0..(m + 1) |-> next(g, k)]
  <2>2. \A k \in 0..(m + 1) : k = 0 \/ k - 1 \in 0..m
    OBVIOUS
  <2>3. \A k \in 0..m : h[k] = g[k]
    <3>1. \A k \in 0..m : k \in 0..(m + 1)
      OBVIOUS
    <3>2. g = [k \in 0..m |-> next(g, k)]
      BY <2>1 DEF Takes
    <3> HIDE DEF next
    <3>3. \A k \in 0..m : g[k] = next(g, k)
      BY <3>2
    <3> QED
      BY <3>1, <3>3
  <2>4. \A k \in 0..(m + 1) : next(g, k) = next(h, k)
    BY <2>2, <2>3
  <2>5. h = [k \in 0..(m + 1) |-> next(h, k)]
    <3> HIDE DEF next
    <3> QED
      BY <2>4
  <2>6. Takes(h, good, s, m + 1)
    BY <2>5 DEF Takes
  <2> QED
    BY <2>6
<1>3. T = Nat
  <2> HIDE DEF T
  <2>1. T \in SUBSET Nat
    BY DEF T
  <2> QED
    BY <1>1, <1>2, <2>1, NaturalsBySuccessor
<1> QED
  BY <1>3

LEMMA SetOfAppend ==
    ASSUME NEW S, NEW s \in Seq(S), NEW e \in S
    PROVE  /\ Append(s, e) \in Seq(S)
           /\ ToSet(Append(s, e)) = ToSet(s) \cup {e}
<1>1. PICK n \in Nat : n = Len(s)
  OBVIOUS
<1>2. /\ DOMAIN s = 1..n /\ DOMAIN Append(s, e) = 1..(n + 1)
      /\ Append(s, e)[n + 1] = e /\ \A i \in 1..n : Append(s, e)[i] = s[i]
  BY <1>1
<1>3. 1..(n + 1) = (1..n) \cup {n + 1}
  OBVIOUS
<1> QED
  BY <1>2, <1>3 DEF ToSet

(* Those(good, s) are the elements of s in good, none more often than in s. *)
LEMMA ThoseOf ==
    ASSUME NEW S, NEW s \in Seq(S), NEW good
    PROVE  /\ Those(good, s) \in Seq(S \cap good)
           /\ ToSet(Those(good, s)) = ToSet(s) \cap good
           /\ IsInjective(s) => IsInjective(Those(good, s))
<1>1. PICK n \in Nat : n = Len(s) /\ DOMAIN s = 1..n
  OBVIOUS
<1>2. PICK g : Takes(g, good, s, n)
  BY TakesExist
<1>3. PICK f : Takes(f, good, s, n) /\ Those(good, s) = f[n]
  BY <1>1, <1>2, ThoseTaken
<1> DEFINE first(k) == {s[i] : i \in 1..k} \cap good
           P(k) == /\ f[k] \in Seq(S \cap good)
                   /\ ToSet(f[k]) = first(k)
                   /\ IsInjective(s) => IsInjective(f[k])
           T == {k \in Nat : k <= n => P(k)}
<1>4. \A k \in 0..n : f[k] = IF k = 0 THEN <<>>
                            ELSE IF s[k] \in good THEN Append(f[k - 1], s[k])
                            ELSE f[k - 1]
  BY <1>3 DEF Takes
<1>5. 0 \in T
  <2>1. f[0] = <<>>
    BY <1>4
  <2>2. 1..0 = {} /\ ToSet(f[0]) = {} /\ f[0] \in Seq(S \cap good) /\ IsInjective(f[0])
    BY <2>1 DEF ToSet, IsInjective
  <2> QED
    BY <2>2
<1>6. ASSUME NEW k \in T PROVE k + 1 \in T
  <2>1. SUFFICES ASSUME k + 1 <= n PROVE P(k + 1)
    OBVIOUS
  <2>2. P(k) /\ k + 1 \in 1..n /\ k \in Nat
    BY <2>1
  <2>3. f[k + 1] = IF s[k + 1] \in good THEN Append(f[k], s[k + 1]) ELSE f[k]
    BY <1>4, <2>2
  <2>4. first(k + 1) = first(k) \cup ({s[k + 1]} \cap good)
    <3>1. 1..(k + 1) = (1..k) \cup {k + 1}
      BY <2>2
    <3> QED
      BY <3>1
  <2>5. CASE s[k + 1] \notin good
    BY <2>2, <2>3, <2>4, <2>5
  <2>6. CASE s[k + 1] \in good
    <3>1. s[k + 1] \in S \cap good
      BY <1>1, <2>2, <2>6
    <3>2. f[k + 1] = Append(f[k], s[k + 1])
      BY <2>3, <2>6
    <3>3. f[k + 1] \in Seq(S \cap good) /\ ToSet(f[k + 1]) = ToSet(f[k]) \cup {s[k + 1]}
      BY <2>2, <3>1, <3>2, SetOfAppend
    <3>4. ASSUME IsInjective(s) PROVE IsInjective(f[k + 1])
      <4>1. s[k + 1] \notin first(k)
        <5>1. \A i \in 1..k : i \in 1..n /\ i # k + 1
          BY <2>2
        <5> QED
          BY <1>1, <2>2, <3>4, <5>1 DEF IsInjective
      <4>2. s[k + 1] \notin ToSet(f[k]) /\ IsInjective(f[k])
        BY <2>2, <3>4, <4>1
      <4>3. \A i \in 1..Len(f[k]) : f[k][i] # s[k + 1]
        BY <2>2, <4>2 DEF ToSet
      <4> QED
        BY <2>2, <3>1, <3>2, <4>2, <4>3 DEF IsInjective
    <3> QED
      BY <2>2, <2>4, <2>6, <3>3, <3>4
  <2> QED
    BY <2>5, <2>6
<1>7. T = Nat
  <2> HIDE DEF T
  <2>1. T \in SUBSET Nat
    BY DEF T
  <2> QED
    BY <1>5, <1>6, <2>1, NaturalsBySuccessor
<1>8. P(n)
  <2>1. n \in T
    BY <1>7
  <2> HIDE DEF P
  <2> QED
    BY <2>1
<1>9. ToSet(s) = {s[i] : i \in 1..n}
  BY <1>1 DEF ToSet
<1> QED
  BY <1>3, <1>8, <1>9

(* How often a coin is in a sequence *)
Occurs(s, c) == Cardinality({k \in DOMAIN s : s[k] = c})

LEMMA OccursType ==
    ASSUME NEW S, NEW s \in Seq(S), NEW c
    PROVE  /\ IsFiniteSet({k \in DOMAIN s : s[k] = c}) /\ Occurs(s, c) \in Nat
           /\ c \notin ToSet(s) => Occurs(s, c) = 0
<1>1. IsFiniteSet(DOMAIN s)
  <2>1. DOMAIN s = 1..Len(s) /\ 1 \in Int /\ Len(s) \in Int
    OBVIOUS
  <2> QED
    BY <2>1, FS_Interval
<1>2. IsFiniteSet({k \in DOMAIN s : s[k] = c})
  BY <1>1, FS_Subset
<1>3. c \notin ToSet(s) => {k \in DOMAIN s : s[k] = c} = {}
  BY DEF ToSet
<1> QED
  BY <1>2, <1>3, FS_CardinalityType, FS_EmptySet DEF Occurs

LEMMA OccursInBoth ==
    ASSUME NEW S, NEW s \in Seq(S), NEW t \in Seq(S), IsInjective(t), NEW c
    PROVE  /\ Occurs(s \o t, c) <= Occurs(s, c) + 1
           /\ c \notin ToSet(t) => Occurs(s \o t, c) = Occurs(s, c)
<1> DEFINE K == {k \in DOMAIN s : s[k] = c}
           L == {k \in DOMAIN (s \o t) : (s \o t)[k] = c}
<1>1. PICK n \in Nat, m \in Nat : n = Len(s) /\ m = Len(t)
  BY LenProperties
<1>2. /\ DOMAIN s = 1..n /\ DOMAIN t = 1..m /\ DOMAIN (s \o t) = 1..(n + m)
      /\ \A k \in 1..n : (s \o t)[k] = s[k]
      /\ \A k \in (n + 1)..(n + m) : (s \o t)[k] = t[k - n]
  BY <1>1
<1>3. \A k \in 1..(n + m) : k \in 1..n \/ (k \in (n + 1)..(n + m) /\ k - n \in 1..m)
  OBVIOUS
<1>4. CASE c \in ToSet(t)
  <2>1. PICK j \in 1..m : t[j] = c
    BY <1>2, <1>4 DEF ToSet
  <2>2. L \subseteq K \cup {n + j}
    <3>1. ASSUME NEW k \in L, k \notin 1..n PROVE k = n + j
      <4>1. k \in (n + 1)..(n + m) /\ k - n \in 1..m /\ t[k - n] = c
        BY <1>2, <1>3, <3>1
      <4>2. k - n = j
        BY <1>2, <2>1, <4>1 DEF IsInjective
      <4> QED
        BY <4>1, <4>2
    <3> QED
      BY <1>2, <3>1
  <2>3. IsFiniteSet(K \cup {n + j}) /\ Cardinality(K \cup {n + j}) <= Cardinality(K) + 1
    <3>1. IsFiniteSet(K) /\ Cardinality(K) \in Nat
      BY OccursType, FS_CardinalityType
    <3> HIDE DEF K
    <3>2. PICK x : x = n + j
      OBVIOUS
    <3>3. /\ IsFiniteSet(K \cup {x})
          /\ Cardinality(K \cup {x}) = Cardinality(K) \/ Cardinality(K \cup {x}) = Cardinality(K) + 1
      BY <3>1, FS_AddElement
    <3> QED
      BY <3>1, <3>2, <3>3
  <2>4. Cardinality(L) <= Cardinality(K \cup {n + j})
    BY <2>2, <2>3, FS_Subset
  <2>5. Cardinality(L) \in Nat /\ Cardinality(K \cup {n + j}) \in Nat /\ Cardinality(K) \in Nat
    BY <2>2, <2>3, FS_Subset, FS_CardinalityType, OccursType
  <2>6. Cardinality(L) <= Cardinality(K) + 1
    <3> HIDE DEF K, L
    <3> QED
      BY <2>3, <2>4, <2>5
  <2> QED
    BY <1>4, <2>6 DEF Occurs
<1>5. CASE c \notin ToSet(t)
  <2>1. \A k \in 1..m : t[k] # c
    BY <1>2, <1>5 DEF ToSet
  <2>2. L = K
    BY <1>2, <1>3, <2>1
  <2>3. Cardinality(K) \in Nat
    BY OccursType DEF Occurs
  <2>4. Cardinality(L) = Cardinality(K) /\ Cardinality(L) <= Cardinality(K) + 1
    <3> HIDE DEF K, L
    <3> QED
      BY <2>2, <2>3
  <2> QED
    BY <2>4 DEF Occurs
<1> QED
  BY <1>4, <1>5

LEMMA SumOfAppend ==
    ASSUME NEW s \in Seq(Int), NEW e \in Int
    PROVE  SumFunction(Append(s, e)) = SumFunction(s) + e
<1> DEFINE h == Append(s, e)
<1>1. PICK n \in Nat : n = Len(s)
  OBVIOUS
<1>2. /\ DOMAIN s = 1..n /\ DOMAIN h = 1..(n + 1) /\ h[n + 1] = e
      /\ \A k \in 1..n : h[k] = s[k] /\ s[k] \in Int
      /\ \A k \in 1..(n + 1) : h[k] \in Int
      /\ (1..(n + 1)) \ {n + 1} = 1..n /\ n + 1 \in 1..(n + 1)
  BY <1>1
<1>3. IsFiniteSet(1..n) /\ IsFiniteSet(1..(n + 1))
  <2>1. 1 \in Int /\ n \in Int /\ n + 1 \in Int
    OBVIOUS
  <2> QED
    BY <2>1, FS_Interval
<1> HIDE DEF h
<1>4. SumFunctionOnSet(h, 1..(n + 1)) = h[n + 1] + SumFunctionOnSet(h, (1..(n + 1)) \ {n + 1})
  BY <1>2, <1>3, SumOfElement
<1>5. SumFunctionOnSet(h, 1..n) = SumFunctionOnSet(s, 1..n)
  BY <1>2, <1>3, SumOfEqual
<1>6. SumFunctionOnSet(s, 1..n) \in Int
  BY <1>2, <1>3, SumOfIntegers
<1>7. PICK x \in Int : x = SumFunctionOnSet(s, 1..n)
  BY <1>6
<1>8. SumFunctionOnSet(h, 1..(n + 1)) = e + x
  BY <1>2, <1>4, <1>5, <1>7
<1>9. SumFunction(h) = SumFunction(s) + e
  BY <1>2, <1>7, <1>8 DEF SumFunction
<1> QED
  BY <1>9 DEF h

-----------------------------------------------------------------------------
(* What is kept *)

(* The steps that are not of the loop, and the end of the loop, leave the  *)
(* coins and the counts alone.                                             *)
coinVars == <<kept, produced, since, excused, launches, unreset, unread>>

LEMMA QuietSteps ==
    ASSUME StageInv, [Next]_vars
    PROVE  \/ ResetBuffer \/ Launch \/ ReadBuffer \/ Collect
           \/ \E n \in Threads : ReserveSlot(n) \/ FillSlot(n)
           \/ /\ UNCHANGED <<coinVars, params, tallies, buffer>> /\ api' = api
              /\ \/ host' = host
                 \/ host = "setup" /\ host' \in {"loop", "unwind"}
                 \/ host' \notin {"setup", "loop", "launch", "kernel", "collect"}
<1> USE DEF deviceVars, deviceRest, hostVars, params, tallies, buffer, vault, history, coinVars
<1>1. CASE Interrupt \/ UNCHANGED vars
  BY <1>1 DEF Interrupt, vars
<1>2. CASE DeviceStep /\ UNCHANGED hostVars
  <2>1. \/ host' = host
        \/ host = "setup" /\ host' \in {"loop", "unwind"}
        \/ host' \notin {"setup", "loop", "launch", "kernel", "collect"}
    BY <1>2, DeviceSteps
  <2> QED
    BY <1>2, <2>1, DeviceSteps
<1>3. CASE LaunchFails \/ LeaveLoop
  <2>1. host' = AfterLoop[api] /\ api' = api /\ UNCHANGED hostVars
    BY <1>3 DEF LaunchFails, LeaveLoop, GoTo
  <2> QED
    BY <2>1, NextStages DEF StageInv
<1>4. CASE SaveRest
  <2>1. /\ host = "save" /\ (host' = AfterSave[api] \/ host' = host) /\ api' = api
        /\ UNCHANGED <<coinVars, params, tallies, buffer>>
    BY <1>4 DEF SaveRest, GoTo
  <2> QED
    BY <2>1, NextStages DEF StageInv
<1> QED
  BY <1>1, <1>2, <1>3, <1>4, HostSteps

LEMMA ThreadSteps ==
    ASSUME NEW n \in Threads, ReserveSlot(n) \/ FillSlot(n)
    PROVE  UNCHANGED <<deviceVars, coinVars, params, tallies, host_first, file>>
  BY DEF ReserveSlot, FillSlot, coinVars, vault, history

(* The good coins of a buffer, in the order of the slots. *)
LEMMA GoodCoins ==
    ASSUME ThreadInv, FilledInv, host = "collect"
    PROVE  /\ ValidOnes(Collected) \in Seq(since \ Bad)
           /\ Accepted => ToSet(ValidOnes(Collected)) = since \ Bad
           /\ ~Accepted => ValidOnes(Collected) = <<>>
           /\ UniqueInv => IsInjective(ValidOnes(Collected))
<1>1. CASE Accepted
  <2>1. /\ Collected \in Seq(since) /\ ToSet(Collected) = since
        /\ UniqueInv => IsInjective(Collected)
    BY <1>1, CollectedIs
  <2>2. since \cap (Golden \ Bad) = since \ Bad
    BY DEF ThreadInv
  <2> DEFINE s == Collected
  <2> HIDE DEF s
  <2>3. /\ Those(Golden \ Bad, s) \in Seq(since \cap (Golden \ Bad))
        /\ ToSet(Those(Golden \ Bad, s)) = ToSet(s) \cap (Golden \ Bad)
        /\ IsInjective(s) => IsInjective(Those(Golden \ Bad, s))
    <3>1. s \in Seq(since)
      BY <2>1 DEF s
    <3> QED
      BY <3>1, ThoseOf
  <2> QED
    BY <1>1, <2>1, <2>2, <2>3 DEF ValidOnes, s
<1>2. CASE ~Accepted
  <2>1. Collected = <<>>
    BY <1>2 DEF Collected
  <2>2. <<>> \in Seq({}) /\ IsInjective(<<>>)
    BY DEF IsInjective
  <2>3. Those(Golden \ Bad, <<>>) \in Seq({} \cap (Golden \ Bad))
    BY <2>2, ThoseOf
  <2>4. ValidOnes(Collected) \in Seq({})
    BY <2>1, <2>3 DEF ValidOnes
  <2>5. ValidOnes(Collected) = <<>>
    BY <2>4
  <2> QED
    BY <1>2, <2>2, <2>5
<1> QED
  BY <1>1, <1>2

KeptInv ==
    /\ kept \in Seq(Golden \ Bad) /\ ToSet(kept) \subseteq produced
    /\ since \subseteq produced /\ produced \subseteq Golden
    /\ host \in {"loop", "launch", "kernel"} => (produced \ Bad) \ excused \subseteq ToSet(kept)
    /\ host = "collect" =>
         /\ (produced \ Bad) \ excused \subseteq ToSet(kept) \cup LaunchCoins
         /\ LaunchCoins \subseteq since
         /\ host_first = next_free \/ LaunchCoins \subseteq excused

LEMMA SetOfBoth ==
    ASSUME NEW S, NEW s \in Seq(S), NEW t \in Seq(S)
    PROVE  s \o t \in Seq(S) /\ ToSet(s \o t) = ToSet(s) \cup ToSet(t)
<1>1. PICK n \in Nat, m \in Nat : n = Len(s) /\ m = Len(t)
  BY LenProperties
<1>2. /\ DOMAIN s = 1..n /\ DOMAIN t = 1..m /\ DOMAIN (s \o t) = 1..(n + m)
      /\ \A k \in 1..n : (s \o t)[k] = s[k]
      /\ \A k \in 1..m : (s \o t)[n + k] = t[k]
  BY <1>1
<1>3. \A k \in 1..(n + m) : k \in 1..n \/ (k - n \in 1..m /\ k = n + (k - n))
  OBVIOUS
<1>4. \A k \in 1..m : n + k \in 1..(n + m)
  OBVIOUS
<1>5. \A k \in 1..n : k \in 1..(n + m)
  OBVIOUS
<1>6. ToSet(s \o t) \subseteq ToSet(s) \cup ToSet(t)
  BY <1>2, <1>3 DEF ToSet
<1>7. ToSet(s) \cup ToSet(t) \subseteq ToSet(s \o t)
  BY <1>2, <1>4, <1>5 DEF ToSet
<1> QED
  BY <1>6, <1>7

(* A launch without an accepted buffer had no coin, or is excused. *)
LEMMA NotAccepted ==
    ASSUME ThreadInv, FilledInv, KeptInv, host = "collect"
    PROVE  LaunchCoins \subseteq
             since \cap (excused \cup (IF host_first > COINS_BUFFER_SIZE THEN LaunchCoins ELSE {})
                         \cup (IF Accepted THEN since ELSE {}))
<1>1. LaunchCoins \subseteq since
  BY DEF KeptInv
<1>2. CASE host_first = next_free /\ ~Accepted /\ ~(host_first > COINS_BUFFER_SIZE)
  <2>1. next_free <= COINS_BUFFER_SIZE /\ next_free <= 1
    BY <1>2, GpuSizes DEF Accepted, ThreadInv
  <2>2. FilledParts
    BY <2>1 DEF FilledInv
  <2>3. Reserved = {}
    <3>1. ASSUME NEW i \in Reserved PROVE FALSE
      <4>1. i \in Nat /\ i < 1
        BY <2>1 DEF Reserved, ThreadInv
      <4>2. \E k \in Nat : i = 1 + k * COIN_WORDS
        BY DEF Reserved
      <4> QED
        BY <4>1, <4>2, NoneReserved
    <3> QED
      BY <3>1
  <2>4. Filled = {}
    BY <2>2, <2>3 DEF FilledParts
  <2> QED
    BY <1>1, <2>4 DEF Filled
<1>3. CASE Accepted \/ host_first > COINS_BUFFER_SIZE \/ LaunchCoins \subseteq excused
  BY <1>1, <1>3
<1> QED
  BY <1>2, <1>3 DEF KeptInv

LEMMA CollectKeeps ==
    ASSUME ThreadInv, FilledInv, KeptInv, Collect
    PROVE  /\ kept' \in Seq(Golden \ Bad)
           /\ ToSet(kept') = ToSet(kept) \cup ToSet(ValidOnes(Collected))
           /\ (produced \ Bad) \ excused' \subseteq ToSet(kept')
<1>1. /\ host = "collect" /\ kept' = kept \o ValidOnes(Collected)
      /\ excused' = excused \cup IF host_first > COINS_BUFFER_SIZE THEN LaunchCoins ELSE {}
  BY DEF Collect
<1>2. ValidOnes(Collected) \in Seq(Golden \ Bad)
  <2>1. ValidOnes(Collected) \in Seq(since \ Bad)
    BY <1>1, GoodCoins
  <2>2. since \ Bad \subseteq Golden \ Bad
    BY DEF ThreadInv
  <2> QED
    BY <2>1, <2>2
<1>3. kept' \in Seq(Golden \ Bad) /\ ToSet(kept') = ToSet(kept) \cup ToSet(ValidOnes(Collected))
  <2> DEFINE s == ValidOnes(Collected)
  <2> HIDE DEF s
  <2>1. s \in Seq(Golden \ Bad) /\ kept \in Seq(Golden \ Bad) /\ kept' = kept \o s
    BY <1>1, <1>2 DEF s, KeptInv
  <2>2. kept' \in Seq(Golden \ Bad) /\ ToSet(kept') = ToSet(kept) \cup ToSet(s)
    BY <2>1, SetOfBoth
  <2> QED
    BY <2>2 DEF s
<1>4. Accepted => ToSet(ValidOnes(Collected)) = since \ Bad
  BY <1>1, GoodCoins
<1>5. LaunchCoins \subseteq excused' \cup (IF Accepted THEN since ELSE {})
  BY <1>1, NotAccepted
<1>6. (produced \ Bad) \ excused \subseteq ToSet(kept) \cup LaunchCoins
  BY <1>1 DEF KeptInv
<1>7. (produced \ Bad) \ excused' \subseteq ToSet(kept')
  <2>1. excused \subseteq excused'
    BY <1>1
  <2> QED
    BY <1>3, <1>4, <1>5, <1>6, <2>1
<1> QED
  BY <1>3, <1>7

THEOREM GoodOnesKept == Spec => []KeptInv
<1> USE DEF deviceVars, deviceRest, hostVars, params, tallies, buffer, vault, history, coinVars
<1>1. Init => KeptInv
  <2>1. Init => kept = <<>> /\ produced = {} /\ since = {} /\ host = "setup"
    BY DEF Init, DeviceInit
  <2>2. kept = <<>> => kept \in Seq(Golden \ Bad) /\ ToSet(kept) = {}
    BY DEF ToSet
  <2> QED
    BY <2>1, <2>2 DEF KeptInv
<1>2. StageInv /\ ThreadInv /\ FilledInv /\ KeptInv /\ [Next]_vars => KeptInv'
  <2> SUFFICES ASSUME StageInv, ThreadInv, FilledInv, KeptInv, [Next]_vars PROVE KeptInv'
    OBVIOUS
  <2>1. CASE ResetBuffer \/ Launch
    <3>1. /\ UNCHANGED <<kept, produced, excused>> /\ since' \in {since, {}}
          /\ host \in {"loop", "launch"} /\ host' \in {"launch", "kernel"}
      BY <2>1 DEF ResetBuffer, Launch
    <3> QED
      BY <3>1 DEF KeptInv
  <2>2. CASE ReadBuffer
    <3>1. /\ UNCHANGED <<kept, base_value1, iteration_counter, next_free>>
          /\ host = "kernel" /\ host' = "collect"
          /\ produced' = produced \cup LaunchCoins /\ since' = since \cup LaunchCoins
          /\ \/ host_first' = next_free /\ excused' = excused
             \/ excused' = excused \cup LaunchCoins
      BY <2>2 DEF ReadBuffer
    <3>2. LaunchCoins' = LaunchCoins /\ LaunchCoins \subseteq Golden
      BY <3>1 DEF LaunchCoins, CoinOf
    <3>3. (produced \ Bad) \ excused \subseteq ToSet(kept)
      BY <3>1 DEF KeptInv
    <3>4. ((produced \ Bad) \ excused)' \subseteq ToSet(kept') \cup LaunchCoins'
      BY <3>1, <3>2, <3>3
    <3>5. LaunchCoins' \subseteq since' /\ (host_first' = next_free' \/ LaunchCoins' \subseteq excused')
      BY <3>1, <3>2
    <3> QED
      BY <3>1, <3>2, <3>4, <3>5 DEF KeptInv
  <2>3. CASE Collect
    <3>1. /\ host = "collect" /\ UNCHANGED <<produced, since, host_first, next_free>>
          /\ excused \subseteq excused'
          /\ \/ host' = "loop"
             \/ UNCHANGED <<host, base_value1, iteration_counter>>
      BY <2>3 DEF Collect
    <3>2. /\ kept' \in Seq(Golden \ Bad)
          /\ ToSet(kept') = ToSet(kept) \cup ToSet(ValidOnes(Collected))
          /\ (produced \ Bad) \ excused' \subseteq ToSet(kept')
      BY <2>3, CollectKeeps
    <3>3. ToSet(ValidOnes(Collected)) \subseteq since
      <4>1. ValidOnes(Collected) \in Seq(since \ Bad)
        BY <3>1, GoodCoins
      <4> DEFINE s == ValidOnes(Collected)
      <4> HIDE DEF s
      <4>2. s \in Seq(since \ Bad)
        BY <4>1 DEF s
      <4>3. ToSet(s) \subseteq since
        BY <4>2 DEF ToSet
      <4> QED
        BY <4>3 DEF s
    <3>4. ToSet(kept') \subseteq produced' /\ since' \subseteq produced' /\ produced' \subseteq Golden
      BY <3>1, <3>2, <3>3 DEF KeptInv
    <3>5. host' = "loop" => KeptInv'
      BY <3>1, <3>2, <3>4 DEF KeptInv
    <3>6. ASSUME UNCHANGED <<host, base_value1, iteration_counter>> PROVE KeptInv'
      <4>1. LaunchCoins' = LaunchCoins
        BY <3>6 DEF LaunchCoins, CoinOf
      <4>2. LaunchCoins \subseteq since /\ (host_first = next_free \/ LaunchCoins \subseteq excused)
        BY <3>1 DEF KeptInv
      <4> QED
        BY <3>1, <3>2, <3>4, <3>6, <4>1, <4>2 DEF KeptInv
    <3> QED
      BY <3>1, <3>5, <3>6
  <2>4. ASSUME NEW n \in Threads, ReserveSlot(n) \/ FillSlot(n) PROVE KeptInv'
    <3>1. host = "kernel"
      BY <2>4 DEF ReserveSlot, FillSlot, ThreadInv
    <3> QED
      BY <2>4, <3>1, ThreadSteps DEF KeptInv
  <2>5. CASE /\ UNCHANGED <<coinVars, params, tallies, buffer>> /\ api' = api
             /\ \/ host' = host
                \/ host = "setup" /\ host' \in {"loop", "unwind"}
                \/ host' \notin {"setup", "loop", "launch", "kernel", "collect"}
    <3>1. LaunchCoins' = LaunchCoins
      BY <2>5 DEF LaunchCoins, CoinOf
    <3>2. host = "setup" => produced = {}
      BY DEF StageInv
    <3> QED
      BY <2>5, <3>1, <3>2 DEF KeptInv
  <2> QED
    BY <2>1, <2>2, <2>3, <2>4, <2>5, QuietSteps
<1> QED
  BY <1>1, <1>2, StagesCorrect, ThreadsCorrect, SlotsCorrect, PTL DEF Spec

-----------------------------------------------------------------------------
(* What is dropped *)

(* The threads with a coin, and those of them that have got their index *)
Coining == {n \in Threads : CoinOf(n) \in Golden}
Served == {n \in Coining : thread[n] # "add"}

(* The threads with a coin in the launch of coin c, and whether they are   *)
(* more than the buffer has slots                                          *)
LaunchOf(c) == {n \in Threads : <<c[1], (c[2] - (c[2] % THREADS)) + n>> \in Golden}
Many(c) == 1 + Cardinality(LaunchOf(c)) * COIN_WORDS > COINS_BUFFER_SIZE

(* Without failed copies the first word of the buffer tells how many coins *)
(* the launch has; a coin is the same launch's whenever it comes.          *)
DroppedInv ==
    /\ unreset \in Nat /\ unread \in Nat
    /\ \E q \in Blocks : iteration_counter = q * THREADS
    /\ unreset = 0 =>
         /\ host \in {"launch", "kernel"} => since = {}
         /\ host = "launch" => next_free = 1
         /\ host = "kernel" => next_free = 1 + Cardinality(Served) * COIN_WORDS
         /\ host = "collect" => since = LaunchCoins
                                /\ next_free = 1 + Cardinality(Coining) * COIN_WORDS
    /\ unreset + unread = 0 =>
         /\ host = "collect" => host_first = next_free
         /\ \A c \in ToSet(kept) : ~Many(c)
         /\ \A c \in excused : Many(c)

LEMMA ThreadsFinite == \A S \in SUBSET Threads : IsFiniteSet(S) /\ Cardinality(S) \in Nat
<1>1. IsFiniteSet(Threads)
  <2>1. 0 \in Int /\ THREADS - 1 \in Int
    BY GpuSizes
  <2> QED
    BY <2>1, FS_Interval DEF Threads
<1> QED
  BY <1>1, FS_Subset, FS_CardinalityType

LEMMA LaunchOfCoin ==
    ASSUME NEW q \in Blocks, iteration_counter = q * THREADS, NEW n \in Threads
    PROVE  LaunchOf(CoinOf(n)) = Coining
<1>1. PICK h \in Nat \ {0} : h = THREADS /\ n \in 0..(h - 1)
  BY GpuSizes DEF Threads
<1>2. PICK x \in Nat : x = q * h /\ x = iteration_counter
  <2>1. q \in Nat
    BY BlockSizes DEF Blocks
  <2>2. q * h \in Nat
    BY <1>1, <2>1
  <2> QED
    BY <1>1, <2>2
<1>3. (x + n) % h = n
  <2>1. q \in Int /\ x + n \in Nat /\ x + n = q * h + n
    BY <1>1, <1>2, BlockSizes DEF Blocks
  <2> QED
    BY <1>1, <2>1, RemainderOf
<1>4. CoinOf(n)[1] = base_value1 /\ CoinOf(n)[2] = x + n
  BY <1>2 DEF CoinOf
<1>5. (CoinOf(n)[2] - (CoinOf(n)[2] % THREADS)) = iteration_counter
  <2>1. n \in Int /\ (x + n) - n = x
    BY <1>1
  <2> QED
    BY <1>1, <1>2, <1>3, <1>4, <2>1
<1> QED
  BY <1>4, <1>5 DEF LaunchOf, Coining, CoinOf

(* A thread that gets its index is one more. *)
LEMMA OneServed ==
    ASSUME ThreadInv, NEW n \in Threads, ReserveSlot(n),
           next_free = 1 + Cardinality(Served) * COIN_WORDS
    PROVE  next_free' = 1 + Cardinality(Served') * COIN_WORDS
<1>1. /\ thread[n] = "add" /\ next_free' = next_free + COIN_WORDS
      /\ UNCHANGED <<base_value1, iteration_counter>>
      /\ thread' = [thread EXCEPT ![n] = IF Fits(next_free) THEN "write" ELSE "done"]
  BY DEF ReserveSlot, params
<1>2. CoinOf(n) \in Golden /\ n \notin Served
  BY <1>1 DEF ThreadInv, Served
<1>3. Served' = Served \cup {n}
  <2>1. thread'[n] # "add" /\ \A m \in Threads \ {n} : thread'[m] = thread[m]
    BY <1>1 DEF ThreadInv
  <2>2. Coining' = Coining /\ Coining \subseteq Threads /\ n \in Coining
    BY <1>1, <1>2 DEF Coining, CoinOf
  <2> QED
    BY <1>1, <2>1, <2>2 DEF Served
<1>4. IsFiniteSet(Served) /\ Cardinality(Served) \in Nat
  <2>1. Served \in SUBSET Threads
    BY DEF Served, Coining
  <2> QED
    BY <2>1, ThreadsFinite
<1>5. PICK k \in Nat : k = Cardinality(Served)
  BY <1>4
<1>6. Cardinality(Served') = k + 1
  <2> DEFINE S == Served
  <2> HIDE DEF S
  <2>1. IsFiniteSet(S) /\ n \notin S /\ k = Cardinality(S)
    BY <1>2, <1>4, <1>5 DEF S
  <2>2. Cardinality(S \cup {n}) = k + 1
    BY <2>1, FS_AddElement
  <2> QED
    BY <1>3, <2>2 DEF S
<1>7. PICK w \in Nat : w = COIN_WORDS
  BY GpuSizes
<1>8. (k + 1) * w = k * w + w /\ k * w \in Nat
  BY <1>7
<1>9. PICK x \in Nat : x = k * w
  BY <1>8
<1>10. next_free = 1 + x /\ next_free' = (1 + x) + w
  BY <1>1, <1>5, <1>7, <1>9
<1>11. next_free' = 1 + (k + 1) * w
  BY <1>8, <1>9, <1>10
<1> QED
  BY <1>6, <1>7, <1>11

(* What the host keeps, or drops, of a launch whose copies have succeeded. *)
LEMMA AllOrNothing ==
    ASSUME ThreadInv, FilledInv, DroppedInv, Collect, unreset + unread = 0
    PROVE  /\ \A c \in ToSet(ValidOnes(Collected)) : ~Many(c)
           /\ \A c \in excused' \ excused : Many(c)
<1>1. /\ host = "collect"
      /\ excused' = excused \cup IF host_first > COINS_BUFFER_SIZE THEN LaunchCoins ELSE {}
  BY DEF Collect
<1>2. unreset = 0
  <2>1. unreset \in Nat /\ unread \in Nat
    BY DEF DroppedInv
  <2> QED
    BY <2>1
<1>3. /\ since = LaunchCoins /\ host_first = next_free
      /\ next_free = 1 + Cardinality(Coining) * COIN_WORDS
  BY <1>1, <1>2 DEF DroppedInv
<1>4. ASSUME NEW c \in LaunchCoins PROVE Many(c) <=> host_first > COINS_BUFFER_SIZE
  <2>1. PICK q \in Blocks : iteration_counter = q * THREADS
    BY DEF DroppedInv
  <2>2. PICK n \in Threads : c = CoinOf(n)
    BY DEF LaunchCoins
  <2>3. LaunchOf(c) = Coining
    BY <2>1, <2>2, LaunchOfCoin
  <2> QED
    BY <1>3, <2>3 DEF Many
<1>5. ASSUME NEW c \in ToSet(ValidOnes(Collected)) PROVE ~Many(c)
  <2>1. Accepted /\ c \in since
    <3>1. /\ Accepted => ToSet(ValidOnes(Collected)) = since \ Bad
          /\ ~Accepted => ValidOnes(Collected) = <<>>
      BY <1>1, GoodCoins
    <3>2. ToSet(<<>>) = {}
      BY DEF ToSet
    <3> QED
      BY <1>5, <3>1, <3>2
  <2>2. ~(host_first > COINS_BUFFER_SIZE)
    BY <2>1, GpuSizes DEF Accepted, ThreadInv
  <2> QED
    BY <1>3, <1>4, <2>1, <2>2
<1> QED
  BY <1>1, <1>4, <1>5

LEMMA QuietDropped ==
    ASSUME StageInv, DroppedInv, UNCHANGED <<coinVars, params, buffer>>,
           \/ host' = host
           \/ host = "setup" /\ host' \in {"loop", "unwind"}
           \/ host' \notin {"setup", "loop", "launch", "kernel", "collect"}
    PROVE  DroppedInv'
<1> USE DEF coinVars, params, buffer
<1>1. UNCHANGED <<LaunchCoins, Coining, Served>>
  <2>1. LaunchCoins' = LaunchCoins /\ Coining' = Coining
    BY DEF LaunchCoins, Coining, CoinOf
  <2> QED
    BY <2>1 DEF Served
<1> QED
  BY <1>1 DEF DroppedInv

THEOREM DroppedCorrect == Spec => []DroppedInv
<1> USE DEF deviceVars, deviceRest, hostVars, params, tallies, buffer, vault, history, coinVars
<1>1. Init => DroppedInv
  <2> SUFFICES ASSUME Init PROVE DroppedInv
    OBVIOUS
  <2>1. /\ kept = <<>> /\ excused = {} /\ host = "setup" /\ unreset = 0 /\ unread = 0
        /\ iteration_counter = 0
    BY DEF Init, DeviceInit
  <2>2. ToSet(kept) = {}
    BY <2>1 DEF ToSet
  <2>3. 0 \in Blocks /\ 0 = 0 * THREADS
    BY BlockSizes, GpuSizes DEF Blocks
  <2> QED
    BY <2>1, <2>2, <2>3 DEF DroppedInv
<1>2. StageInv /\ ThreadInv /\ FilledInv /\ KeptInv /\ DroppedInv /\ [Next]_vars => DroppedInv'
  <2> SUFFICES ASSUME StageInv, ThreadInv, FilledInv, KeptInv, DroppedInv, [Next]_vars
               PROVE  DroppedInv'
    OBVIOUS
  <2>a. unreset \in Nat /\ unread \in Nat
    BY DEF DroppedInv
  <2>1. CASE ResetBuffer
    <3>1. /\ UNCHANGED <<kept, excused, iteration_counter, unread>> /\ host' = "launch"
          /\ \/ next_free' = 1 /\ since' = {} /\ unreset' = unreset
             \/ unreset' = unreset + 1
      BY <2>1 DEF ResetBuffer, FirstFree
    <3>2. unreset' \in Nat /\ (unreset' = 0 => unreset' = unreset /\ next_free' = 1 /\ since' = {})
      BY <2>a, <3>1
    <3>3. unreset' + unread' = 0 => unreset + unread = 0
      BY <2>a, <3>1
    <3> QED
      BY <3>1, <3>2, <3>3 DEF DroppedInv
  <2>2. CASE Launch
    <3>1. /\ UNCHANGED <<kept, excused, params, unread, unreset, next_free, since>>
          /\ host = "launch" /\ host' = "kernel"
          /\ thread' = [n \in Threads |-> IF CoinOf(n) \in Golden THEN "add" ELSE "done"]
      BY <2>2 DEF Launch
    <3>2. Served' = {}
      BY <3>1 DEF Served, Coining, CoinOf
    <3>3. 1 = 1 + Cardinality({}) * COIN_WORDS
      BY GpuSizes, FS_EmptySet
    <3>4. unreset = 0 => next_free = 1 /\ since = {}
      BY <3>1 DEF DroppedInv
    <3> QED
      BY <3>1, <3>2, <3>3, <3>4 DEF DroppedInv
  <2>3. CASE ReadBuffer
    <3>1. /\ UNCHANGED <<kept, params, unreset, next_free, thread>>
          /\ host = "kernel" /\ host' = "collect" /\ \A n \in Threads : thread[n] = "done"
          /\ since' = since \cup LaunchCoins
          /\ \/ host_first' = next_free /\ excused' = excused /\ unread' = unread
             \/ unread' = unread + 1
      BY <2>3 DEF ReadBuffer
    <3>2. LaunchCoins' = LaunchCoins /\ Coining' = Coining /\ Served = Coining
      BY <3>1 DEF LaunchCoins, Coining, CoinOf, Served
    <3>3. unread' \in Nat
          /\ (unreset' + unread' = 0 => unread' = unread /\ unreset + unread = 0
                                        /\ host_first' = next_free /\ excused' = excused)
      BY <2>a, <3>1
    <3>4. unreset = 0 => /\ since' = LaunchCoins
                         /\ next_free = 1 + Cardinality(Coining) * COIN_WORDS
      BY <3>1, <3>2 DEF DroppedInv
    <3> QED
      BY <3>1, <3>2, <3>3, <3>4 DEF DroppedInv
  <2>4. CASE Collect
    <3>1. /\ UNCHANGED <<since, unreset, unread, next_free, host_first, thread>>
          /\ host = "collect"
          /\ \/ host' = "loop" /\ iteration_counter' = Advance(iteration_counter)
             \/ UNCHANGED <<host, iteration_counter, base_value1>>
      BY <2>4 DEF Collect
    <3>2. \E q \in Blocks : iteration_counter' = q * THREADS
      BY <3>1, NextBlock DEF DroppedInv
    <3>3. ToSet(kept') = ToSet(kept) \cup ToSet(ValidOnes(Collected))
      BY <2>4, CollectKeeps
    <3>4. unreset + unread = 0 => (\A c \in ToSet(kept') : ~Many(c)) /\ \A c \in excused' : Many(c)
      BY <2>4, <3>3, AllOrNothing DEF DroppedInv
    <3>5. CASE host' = "loop"
      BY <2>a, <3>1, <3>2, <3>4, <3>5 DEF DroppedInv
    <3>6. CASE UNCHANGED <<host, iteration_counter, base_value1>>
      <4>1. LaunchCoins' = LaunchCoins /\ Coining' = Coining
        BY <3>6 DEF LaunchCoins, Coining, CoinOf
      <4> QED
        BY <3>1, <3>2, <3>4, <3>6, <4>1 DEF DroppedInv
    <3> QED
      BY <3>1, <3>5, <3>6
  <2>5. ASSUME NEW n \in Threads, ReserveSlot(n) \/ FillSlot(n) PROVE DroppedInv'
    <3>1. UNCHANGED <<deviceVars, coinVars, params, host_first>> /\ host = "kernel"
      BY <2>5, ThreadSteps DEF ReserveSlot, FillSlot, ThreadInv
    <3>2. unreset = 0 => next_free' = 1 + Cardinality(Served') * COIN_WORDS
      <4>1. ASSUME FillSlot(n) PROVE Served' = Served /\ next_free' = next_free
        <5>1. /\ thread[n] = "write" /\ next_free' = next_free
              /\ thread' = [thread EXCEPT ![n] = "done"]
          BY <4>1 DEF FillSlot
        <5>2. Coining' = Coining
          BY <3>1 DEF Coining, CoinOf
        <5> QED
          BY <5>1, <5>2 DEF Served, Coining, ThreadInv
      <4>2. unreset = 0 => next_free = 1 + Cardinality(Served) * COIN_WORDS
        BY <3>1 DEF DroppedInv
      <4> QED
        BY <2>5, <4>1, <4>2, OneServed
    <3> QED
      BY <3>1, <3>2 DEF DroppedInv
  <2> QED
    BY <2>1, <2>2, <2>3, <2>4, <2>5, QuietSteps, QuietDropped
<1> QED
  BY <1>1, <1>2, StagesCorrect, ThreadsCorrect, SlotsCorrect, GoodOnesKept, PTL DEF Spec

-----------------------------------------------------------------------------
(* The statistics and the file *)

CountsInv ==
    /\ total_attempts \in Nat /\ coins_found \in Nat /\ launches \in Nat
    /\ host = "setup" => total_attempts = 0
    /\ host \in {"loop", "launch"} => total_attempts = THREADS * launches
    /\ host \in {"kernel", "collect"} => total_attempts + THREADS = THREADS * launches
    /\ status # "write_error" =>
         /\ coins_found = Len(kept)
         /\ histogram # NoHistogram =>
              /\ histogram \in Seq(Nat)
              /\ Len(histogram) * THREADS = total_attempts
              /\ SumFunction(histogram) = coins_found

(* A program that has ended once does not run again. *)
LEMMA ErrorsStay ==
    ASSUME [Next]_vars
    PROVE  status' # "write_error" => status # "write_error"
  BY DEF Next, Interrupt, Host, Kernel, vars, deviceVars

LEMMA SumOfRows ==
    ASSUME NEW s \in Seq(Nat), NEW e \in Nat
    PROVE  /\ Append(s, e) \in Seq(Nat) /\ Len(Append(s, e)) = Len(s) + 1
           /\ SumFunction(Append(s, e)) = SumFunction(s) + e
<1>1. s \in Seq(Int) /\ e \in Int
  OBVIOUS
<1>2. SumFunction(Append(s, e)) = SumFunction(s) + e
  BY <1>1, SumOfAppend
<1> QED
  BY <1>2

LEMMA NoRows == SumFunction(<<>>) = 0 /\ <<>> \in Seq(Nat) /\ Len(<<>>) = 0
<1>1. DOMAIN <<>> = {}
  OBVIOUS
<1>2. SumFunctionOnSet(<<>>, {}) = 0
  BY SumOfEmpty
<1> QED
  BY <1>1, <1>2 DEF SumFunction

(* One launch in the statistics *)
LEMMA CollectCounts ==
    ASSUME ThreadInv, FilledInv, KeptInv, CountsInv, Collect
    PROVE  CountsInv'
<1>1. /\ host = "collect" /\ UNCHANGED launches
      /\ kept' = kept \o ValidOnes(Collected)
      /\ \/ /\ coins_found' = coins_found + Len(ValidOnes(Collected))
            /\ histogram' = IF histogram = NoHistogram THEN histogram
                            ELSE Append(histogram, Len(ValidOnes(Collected)))
            /\ total_attempts' = total_attempts + THREADS
            /\ host' = "loop" /\ UNCHANGED status
         \/ /\ \E k \in 1..Len(ValidOnes(Collected)) : coins_found' = coins_found + k
            /\ status' = "write_error"
            /\ UNCHANGED <<host, total_attempts>>
  BY DEF Collect
<1> DEFINE s == ValidOnes(Collected)
<1>2. s \in Seq(since \ Bad) /\ kept \in Seq(Golden \ Bad)
  BY <1>1, GoodCoins DEF KeptInv
<1> HIDE DEF s
<1>3. PICK m \in Nat, n \in Nat : m = Len(s) /\ n = Len(kept) /\ Len(kept \o s) = n + m
  BY <1>2
<1>4. PICK a \in Nat, f \in Nat, h \in Nat :
         /\ a = total_attempts /\ f = coins_found /\ h = THREADS /\ launches \in Nat
         /\ a + h = THREADS * launches
  BY <1>1, GpuSizes DEF CountsInv
<1>5. CASE status' = "write_error" /\ UNCHANGED <<host, total_attempts>>
           /\ \E k \in 1..m : coins_found' = f + k
  <2>1. coins_found' \in Nat
    BY <1>4, <1>5
  <2> QED
    BY <1>1, <1>4, <1>5, <2>1 DEF CountsInv
<1>6. CASE /\ coins_found' = f + m
           /\ histogram' = IF histogram = NoHistogram THEN histogram ELSE Append(histogram, m)
           /\ total_attempts' = a + h
           /\ host' = "loop" /\ UNCHANGED status
  <2>1. coins_found' \in Nat /\ total_attempts' \in Nat /\ total_attempts' = THREADS * launches'
    BY <1>1, <1>4, <1>6
  <2>2. ASSUME status' # "write_error"
        PROVE  /\ coins_found' = Len(kept')
               /\ histogram' # NoHistogram =>
                    /\ histogram' \in Seq(Nat)
                    /\ Len(histogram') * THREADS = total_attempts'
                    /\ SumFunction(histogram') = coins_found'
    <3>1. f = n /\ kept' = kept \o s
      BY <1>1, <1>3, <1>4, <1>6, <2>2 DEF CountsInv, s
    <3>2. ASSUME histogram # NoHistogram
          PROVE  /\ histogram' \in Seq(Nat)
                 /\ Len(histogram') * THREADS = total_attempts'
                 /\ SumFunction(histogram') = coins_found'
      <4>1. histogram \in Seq(Nat) /\ Len(histogram) * h = a /\ SumFunction(histogram) = f
        BY <1>4, <1>6, <2>2, <3>2 DEF CountsInv
      <4>2. /\ histogram' \in Seq(Nat) /\ Len(histogram') = Len(histogram) + 1
            /\ SumFunction(histogram') = f + m
        BY <1>6, <3>2, <4>1, SumOfRows
      <4>3. PICK r \in Nat : r = Len(histogram)
        BY <4>1
      <4>4. (r + 1) * h = r * h + h
        OBVIOUS
      <4> QED
        BY <1>4, <1>6, <4>1, <4>2, <4>3, <4>4
    <3> QED
      BY <1>3, <1>6, <3>1, <3>2
  <2> QED
    BY <1>1, <1>6, <2>1, <2>2 DEF CountsInv
<1> QED
  BY <1>1, <1>3, <1>4, <1>5, <1>6 DEF s

THEOREM CountsCorrect == Spec => []CountsInv
<1> USE DEF deviceVars, deviceRest, hostVars, params, tallies, buffer, vault, history, coinVars
<1>1. Init => CountsInv
  <2> SUFFICES ASSUME Init PROVE CountsInv
    OBVIOUS
  <2>1. /\ total_attempts = 0 /\ coins_found = 0 /\ launches = 0 /\ kept = <<>> /\ host = "setup"
        /\ histogram \in {NoHistogram, <<>>}
    BY DEF Init, DeviceInit
  <2>2. 0 * THREADS = 0 /\ Len(kept) = 0
    BY <2>1, GpuSizes
  <2> QED
    BY <2>1, <2>2, NoRows DEF CountsInv
<1>2. StageInv /\ ThreadInv /\ FilledInv /\ KeptInv /\ CountsInv /\ [Next]_vars => CountsInv'
  <2> SUFFICES ASSUME StageInv, ThreadInv, FilledInv, KeptInv, CountsInv, [Next]_vars
               PROVE  CountsInv'
    OBVIOUS
  <2>1. CASE ResetBuffer \/ ReadBuffer
    <3>1. /\ UNCHANGED <<kept, tallies, launches, status>>
          /\ \/ host = "loop" /\ host' = "launch"
             \/ host = "kernel" /\ host' = "collect"
      BY <2>1 DEF ResetBuffer, ReadBuffer
    <3> QED
      BY <3>1 DEF CountsInv
  <2>2. CASE Launch
    <3>1. /\ UNCHANGED <<kept, tallies, status>>
          /\ host = "launch" /\ host' = "kernel" /\ launches' = launches + 1
      BY <2>2 DEF Launch
    <3>2. PICK h \in Nat, l \in Nat : h = THREADS /\ l = launches /\ total_attempts = h * l
      BY <3>1, GpuSizes DEF CountsInv
    <3>3. h * (l + 1) = h * l + h
      OBVIOUS
    <3>4. total_attempts' + THREADS = THREADS * launches'
      BY <3>1, <3>2, <3>3
    <3> QED
      BY <3>1, <3>2, <3>4 DEF CountsInv
  <2>3. CASE Collect
    BY <2>3, CollectCounts
  <2>4. ASSUME NEW n \in Threads, ReserveSlot(n) \/ FillSlot(n) PROVE CountsInv'
    BY <2>4, ThreadSteps DEF CountsInv
  <2>5. CASE /\ UNCHANGED <<coinVars, params, tallies, buffer>> /\ api' = api
             /\ \/ host' = host
                \/ host = "setup" /\ host' \in {"loop", "unwind"}
                \/ host' \notin {"setup", "loop", "launch", "kernel", "collect"}
    <3>1. host = "setup" => launches = 0 /\ total_attempts = THREADS * launches
      BY GpuSizes DEF StageInv, CountsInv
    <3> QED
      BY <2>5, <3>1, ErrorsStay DEF CountsInv
  <2> QED
    BY <2>1, <2>2, <2>3, <2>4, <2>5, QuietSteps
<1> QED
  BY <1>1, <1>2, StagesCorrect, ThreadsCorrect, SlotsCorrect, GoodOnesKept, PTL DEF Spec

FileInv ==
    /\ api = "cuda_test" => kept = <<>> /\ file = <<>>
    /\ host = "closed" \/ (host = "teardown" /\ api = "opencl") => file = kept
    /\ status = "returned" => host = "closed"

THEOREM FileCorrect == Spec => []FileInv
<1> USE DEF deviceVars, deviceRest, hostVars, params, tallies, buffer, vault, history, coinVars
<1>1. Init => FileInv
  BY DEF Init, DeviceInit, FileInv
<1>2. StageInv /\ FileInv /\ [Next]_vars => FileInv'
  <2> SUFFICES ASSUME StageInv, FileInv, [Next]_vars PROVE FileInv'
    OBVIOUS
  <2>1. CASE Interrupt \/ UNCHANGED vars
    BY <2>1 DEF Interrupt, vars, FileInv
  <2>2. CASE DeviceStep /\ UNCHANGED hostVars
    <3>1. /\ api' = api
          /\ host' = "closed" => host = "closed" \/ (host = "teardown" /\ api # "cuda")
          /\ host' = "teardown" /\ api = "opencl" => host = "teardown"
          /\ status' = "returned" /\ status # "returned" => host = "closed"
          /\ host = "closed" => host' = host
      BY <2>2 DEF DeviceStep, CallSucceeds, CallFails, CuCallFails, RunTest, Release,
         EndOfTeardown, Return, GoTo, AfterLoop, AfterTeardown, StageInv
    <3> QED
      BY <2>2, <3>1 DEF FileInv, StageInv
  <2>3. CASE ResetBuffer \/ Launch \/ ReadBuffer
    <3>1. /\ UNCHANGED <<kept, file, api, status>>
          /\ host \in {"loop", "launch", "kernel"} /\ host' \in {"launch", "kernel", "collect"}
      BY <2>3 DEF ResetBuffer, Launch, ReadBuffer
    <3> QED
      BY <3>1 DEF FileInv
  <2>4. CASE Collect
    <3>1. /\ host = "collect" /\ host' \in {"loop", "collect"} /\ api' = api
          /\ status' \in {status, "write_error"}
      BY <2>4 DEF Collect
    <3> QED
      BY <3>1 DEF FileInv, StageInv
  <2>5. CASE LaunchFails \/ LeaveLoop
    <3>1. /\ UNCHANGED <<kept, file, api, status>> /\ host \in {"loop", "launch"}
          /\ host' = AfterLoop[api]
      BY <2>5 DEF LaunchFails, LeaveLoop, GoTo
    <3>2. host' # "closed" /\ (api = "opencl" => host' = "save")
      BY <3>1 DEF AfterLoop, StageInv
    <3> QED
      BY <3>1, <3>2 DEF FileInv
  <2>6. CASE SaveRest
    <3>1. /\ host = "save" /\ api' = api /\ kept' = kept
          /\ \/ file' = kept /\ UNCHANGED status
             \/ host' = host /\ status' = "write_error"
      BY <2>6 DEF SaveRest
    <3> QED
      BY <3>1 DEF FileInv, StageInv
  <2>7. ASSUME NEW n \in Threads, ReserveSlot(n) \/ FillSlot(n) PROVE FileInv'
    BY <2>7, ThreadSteps DEF FileInv
  <2> QED
    BY <2>1, <2>2, <2>3, <2>4, <2>5, <2>6, <2>7, HostSteps
<1> QED
  BY <1>1, <1>2, StagesCorrect, PTL DEF Spec

(* No bad coin is kept, every good coin of a launch is, unless the whole   *)
(* launch is dropped, and a miner that returns has the coins it kept in    *)
(* the file, as its statistics say (mine_deti_coins_cuda,                  *)
(* mine_deti_coins_opencl).                                                *)
THEOREM KeptCorrect == Spec => []KeptOrDropped
<1>1. KeptInv /\ DroppedInv /\ CountsInv /\ FileInv => KeptOrDropped
  <2> SUFFICES ASSUME KeptInv, DroppedInv, CountsInv, FileInv PROVE KeptOrDropped
    OBVIOUS
  <2>1. ToSet(kept) \subseteq produced \ Bad
    <3>1. kept \in Seq(Golden \ Bad) /\ ToSet(kept) \subseteq produced
      BY DEF KeptInv
    <3>2. ToSet(kept) \subseteq Golden \ Bad
      BY <3>1 DEF ToSet
    <3> QED
      BY <3>1, <3>2
  <2>2. ASSUME host = "loop"
        PROVE  /\ (produced \ Bad) \ excused \subseteq ToSet(kept)
               /\ unreset + unread = 0 => ToSet(kept) \cap excused = {}
               /\ total_attempts = THREADS * launches
    BY <2>2 DEF KeptInv, DroppedInv, CountsInv
  <2>3. ASSUME status = "returned"
        PROVE  /\ file = kept /\ coins_found = Len(file)
               /\ histogram # NoHistogram =>
                    /\ Len(histogram) * THREADS = total_attempts
                    /\ SumFunction(histogram) = coins_found
    BY <2>3 DEF FileInv, CountsInv
  <2> QED
    BY <2>1, <2>2, <2>3 DEF KeptOrDropped
<1> QED
  BY <1>1, GoodOnesKept, DroppedCorrect, CountsCorrect, FileCorrect, PTL

-----------------------------------------------------------------------------
(* The turn of the generator *)

(* The generator has its full period.  ProgramGoesRound below: it has in   *)
(* the program.                                                            *)
FullPeriod == \E rank : Ranks(rank)
Rank == CHOOSE rank : Ranks(rank)

Bases == 0..(WORD - 1)

(* The base of coin c was base_value1 between lo and hi launches ago. *)
Behind(b, a, d) == Rank[b] = Rank[a] + d \/ Rank[b] + WORD = Rank[a] + d
Back(c, lo, hi) == \E d \in lo..hi : Behind(base_value1, c[1], d)

RankInv ==
    /\ base_value1 \in Bases /\ launches \in Nat
    /\ host \in {"kernel", "collect"} => launches > 0
    /\ launches <= WORD =>
         /\ host \in {"loop", "launch"} => \A c \in produced : Back(c, 1, launches)
         /\ host = "kernel" => \A c \in produced : Back(c, 1, launches - 1)
         /\ host = "collect" => \A c \in produced : Back(c, 0, launches - 1)

LEMMA RankOf ==
    ASSUME FullPeriod
    PROVE  /\ \A b \in Bases : Rank[b] \in Bases /\ NextBase(b) \in Bases
           /\ \A b \in Bases : \/ Rank[NextBase(b)] = Rank[b] + 1
                               \/ Rank[NextBase(b)] + WORD = Rank[b] + 1
<1>1. Ranks(Rank)
  BY DEF FullPeriod, Rank
<1>2. PICK w \in Nat \ {0} : w = WORD /\ Bases = 0..(w - 1)
  BY GpuSizes DEF Bases
<1>3. \A b \in Bases : NextBase(b) \in Bases
  <2>1. \A x \in Nat : x % w \in 0..(w - 1)
    BY <1>2
  <2>2. \A b \in Bases : b * A + C \in Nat
    BY <1>2, BasesAssumption
  <2> QED
    BY <1>2, <2>1, <2>2 DEF NextBase
<1>4. \A b \in Bases : Rank[b] \in Bases /\ Rank[NextBase(b)] = (Rank[b] + 1) % w
  BY <1>1, <1>2 DEF Ranks, Bases, NextBase
<1>5. ASSUME NEW r \in 0..(w - 1) PROVE (r + 1) % w = r + 1 \/ ((r + 1) % w) + w = r + 1
  <2>1. CASE r + 1 = w
    <3>1. r + 1 \in Nat /\ r + 1 = 1 * w + 0 /\ 0 \in 0..(w - 1)
      BY <1>2, <2>1
    <3>2. (r + 1) % w = 0
      BY <1>2, <3>1, RemainderOf
    <3> QED
      BY <1>2, <2>1, <3>2
  <2>2. CASE r + 1 # w
    <3>1. r + 1 \in Nat /\ r + 1 \in 0..(w - 1) /\ r + 1 = 0 * w + (r + 1)
      BY <1>2, <2>2
    <3>2. (r + 1) % w = r + 1
      BY <1>2, <3>1, RemainderOf
    <3> QED
      BY <3>2
  <2> QED
    BY <2>1, <2>2
<1> QED
  BY <1>2, <1>3, <1>4, <1>5

(* The coins of a launch are new, until the generator has gone round. *)
LEMMA LaunchIsFresh ==
    ASSUME FullPeriod, KeptInv, RankInv, host = "kernel", launches <= WORD, NEW n \in Threads
    PROVE  CoinOf(n) \notin produced
<1>1. SUFFICES ASSUME CoinOf(n) \in produced PROVE FALSE
  OBVIOUS
<1>2. PICK d \in 1..(launches - 1) : Behind(base_value1, CoinOf(n)[1], d)
  BY <1>1 DEF RankInv, Back
<1>3. CoinOf(n)[1] = base_value1
  BY DEF CoinOf
<1>4. PICK r \in Nat, w \in Nat, l \in Nat : r = Rank[base_value1] /\ w = WORD /\ l = launches
  BY RankOf, GpuSizes DEF RankInv, Bases
<1> QED
  BY <1>2, <1>3, <1>4 DEF Behind

(* After a launch every coin is one launch further back. *)
LEMMA BackGrows ==
    ASSUME FullPeriod, NEW c, c[1] \in Bases, RankInv, launches > 0, launches <= WORD,
           Back(c, 0, launches - 1),
           base_value1' = NextBase(base_value1), launches' = launches
    PROVE  Back(c, 1, launches)'
<1>1. PICK d \in 0..(launches - 1) : Behind(base_value1, c[1], d)
  BY DEF Back
<1>2. PICK r \in Nat, s \in Nat, t \in Nat, w \in Nat, l \in Nat :
         /\ r = Rank[base_value1] /\ s = Rank[NextBase(base_value1)] /\ t = Rank[c[1]]
         /\ w = WORD /\ l = launches /\ s < w /\ t < w /\ l <= w
         /\ s = r + 1 \/ s + w = r + 1
  <2>1. base_value1 \in Bases /\ launches \in Nat
    BY DEF RankInv
  <2>2. /\ Rank[base_value1] \in Bases /\ Rank[NextBase(base_value1)] \in Bases
        /\ Rank[c[1]] \in Bases
        /\ \/ Rank[NextBase(base_value1)] = Rank[base_value1] + 1
           \/ Rank[NextBase(base_value1)] + WORD = Rank[base_value1] + 1
    BY <2>1, RankOf
  <2>3. WORD \in Nat /\ \A x \in Bases : x \in Nat /\ x < WORD
    BY GpuSizes DEF Bases
  <2> QED
    BY <2>1, <2>2, <2>3
<1>3. r = t + d \/ r + w = t + d
  BY <1>1, <1>2 DEF Behind
<1>4. d + 1 \in 1..l /\ (s = t + (d + 1) \/ s + w = t + (d + 1))
  BY <1>1, <1>2, <1>3
<1>5. d + 1 \in 1..launches' /\ Behind(base_value1', c[1], d + 1)
  BY <1>2, <1>4 DEF Behind
<1> QED
  BY <1>5 DEF Back

THEOREM RanksCorrect == ASSUME FullPeriod PROVE Spec => []RankInv
<1> USE DEF deviceVars, deviceRest, hostVars, params, tallies, buffer, vault, history, coinVars
<1>1. Init => RankInv
  BY BasesAssumption DEF Init, DeviceInit, RankInv, Bases
<1>2. StageInv /\ KeptInv /\ RankInv /\ [Next]_vars => RankInv'
  <2> SUFFICES ASSUME StageInv, KeptInv, RankInv, [Next]_vars PROVE RankInv'
    OBVIOUS
  <2>a. PICK l \in Nat, w \in Nat : l = launches /\ w = WORD
    BY GpuSizes DEF RankInv
  <2>1. CASE ResetBuffer
    <3>1. /\ UNCHANGED <<base_value1, launches, produced>> /\ host = "loop" /\ host' = "launch"
      BY <2>1 DEF ResetBuffer
    <3> QED
      BY <3>1 DEF RankInv, Back
  <2>2. CASE Launch
    <3>1. /\ UNCHANGED <<base_value1, produced>> /\ host = "launch" /\ host' = "kernel"
          /\ launches' = launches + 1
      BY <2>2 DEF Launch
    <3>2. launches' \in Nat /\ launches' > 0 /\ launches' - 1 = launches
          /\ (launches' <= WORD => launches <= WORD)
      BY <2>a, <3>1
    <3>3. launches' <= WORD => \A c \in produced : Back(c, 1, launches' - 1)
      BY <3>1, <3>2 DEF RankInv
    <3> QED
      BY <3>1, <3>2, <3>3 DEF RankInv, Back
  <2>3. CASE ReadBuffer
    <3>1. /\ UNCHANGED <<base_value1, launches>> /\ host = "kernel" /\ host' = "collect"
          /\ produced' = produced \cup LaunchCoins
      BY <2>3 DEF ReadBuffer
    <3>2. ASSUME launches <= WORD, NEW c \in produced' PROVE Back(c, 0, launches - 1)
      <4>1. CASE c \in produced
        <5>1. PICK d \in 1..(launches - 1) : Behind(base_value1, c[1], d)
          BY <3>1, <3>2, <4>1 DEF RankInv, Back
        <5>2. d \in 0..(launches - 1)
          BY <2>a, <5>1
        <5> QED
          BY <5>1, <5>2 DEF Back
      <4>2. CASE c \in LaunchCoins
        <5>1. c[1] = base_value1
          BY <4>2 DEF LaunchCoins, CoinOf
        <5>2. Behind(base_value1, c[1], 0)
          BY <5>1, RankOf DEF Behind, RankInv, Bases
        <5>3. 0 \in 0..(launches - 1)
          BY <2>a, <3>1 DEF RankInv
        <5> QED
          BY <5>2, <5>3 DEF Back
      <4> QED
        BY <3>1, <3>2, <4>1, <4>2
    <3> QED
      BY <3>1, <3>2 DEF RankInv, Back
  <2>4. CASE Collect
    <3>1. /\ UNCHANGED <<launches, produced>> /\ host = "collect"
          /\ \/ host' = "loop" /\ base_value1' = NextBase(base_value1)
             \/ UNCHANGED <<host, base_value1>>
      BY <2>4 DEF Collect
    <3>2. CASE UNCHANGED <<host, base_value1>>
      BY <3>1, <3>2 DEF RankInv, Back
    <3>3. CASE host' = "loop" /\ base_value1' = NextBase(base_value1)
      <4>1. base_value1' \in Bases /\ launches > 0
        BY <3>1, <3>3, RankOf DEF RankInv
      <4>2. ASSUME launches <= WORD, NEW c \in produced PROVE Back(c, 1, launches)'
        <5>1. c[1] \in Bases
          BY GoldenAssumption DEF KeptInv, Bases
        <5>2. Back(c, 0, launches - 1)
          BY <3>1, <4>2 DEF RankInv
        <5> QED
          BY <3>1, <3>3, <4>1, <4>2, <5>1, <5>2, BackGrows
      <4> QED
        BY <3>1, <3>3, <4>1, <4>2 DEF RankInv
    <3> QED
      BY <3>1, <3>2, <3>3
  <2>5. ASSUME NEW n \in Threads, ReserveSlot(n) \/ FillSlot(n) PROVE RankInv'
    BY <2>5, ThreadSteps DEF RankInv, Back
  <2>6. CASE /\ UNCHANGED <<coinVars, params, tallies, buffer>> /\ api' = api
             /\ \/ host' = host
                \/ host = "setup" /\ host' \in {"loop", "unwind"}
                \/ host' \notin {"setup", "loop", "launch", "kernel", "collect"}
    <3>1. host = "setup" => produced = {}
      BY DEF StageInv
    <3> QED
      BY <2>6, <3>1 DEF RankInv, Back
  <2> QED
    BY <2>1, <2>2, <2>3, <2>4, <2>5, <2>6, QuietSteps
<1> QED
  BY <1>1, <1>2, StagesCorrect, GoodOnesKept, PTL DEF Spec

(* No coin is twice in a buffer, whatever failed, in the first turn of the *)
(* generator.                                                              *)
THEOREM UniqueInTurn == ASSUME FullPeriod PROVE Spec => [](launches <= WORD => UniqueInv)
<1>1. Init => (launches <= WORD => UniqueInv)
  BY EmptyAtFirst
<1>2. StageInv /\ ThreadInv /\ FilledInv /\ KeptInv /\ RankInv
      /\ (launches <= WORD => UniqueInv) /\ [Next]_vars => (launches <= WORD => UniqueInv)'
  <2> SUFFICES ASSUME StageInv, ThreadInv, FilledInv, KeptInv, RankInv,
                      launches <= WORD => UniqueInv, [Next]_vars, launches' <= WORD
               PROVE  UniqueInv'
    OBVIOUS
  <2>1. launches <= WORD
    <3>1. Launch => launches' = launches + 1
      BY DEF Launch
    <3>2. Launch \/ launches' = launches
      <4>1. ResetBuffer \/ ReadBuffer \/ Collect => launches' = launches
        BY DEF ResetBuffer, ReadBuffer, Collect
      <4>2. ASSUME NEW n \in Threads, ReserveSlot(n) \/ FillSlot(n) PROVE launches' = launches
        BY <4>2, ThreadSteps DEF coinVars
      <4> QED
        BY <4>1, <4>2, QuietSteps DEF coinVars
    <3>3. launches \in Nat /\ WORD \in Nat
      BY GpuSizes DEF RankInv
    <3> QED
      BY <3>1, <3>2, <3>3
  <2>2. host = "kernel" => \A n \in Threads : CoinOf(n) \notin since
    BY <2>1, LaunchIsFresh DEF KeptInv
  <2> QED
    BY <2>1, <2>2, UniqueKept
<1> QED
  BY <1>1, <1>2, StagesCorrect, ThreadsCorrect, SlotsCorrect, GoodOnesKept, RanksCorrect, PTL DEF Spec

TimesInv ==
    /\ unreset \in Nat
    /\ launches <= WORD =>
         /\ \A c \in Golden : Times(c) <= 1 + unreset
         /\ host \in {"launch", "kernel"} => \A c \in since : Times(c) <= unreset
         /\ host = "collect" /\ status = "running" => \A c \in since : Times(c) <= unreset

LEMMA TimesIsNat == KeptInv => \A c : Times(c) \in Nat /\ (c \notin produced => Times(c) = 0)
<1> SUFFICES ASSUME KeptInv, NEW c PROVE Times(c) \in Nat /\ (c \notin produced => Times(c) = 0)
  OBVIOUS
<1>1. kept \in Seq(Golden \ Bad) /\ ToSet(kept) \subseteq produced
  BY DEF KeptInv
<1> QED
  BY <1>1, OccursType DEF Occurs, Times

LEMMA CollectOnce ==
    ASSUME ThreadInv, FilledInv, KeptInv, UniqueInv, Collect, NEW c
    PROVE  /\ Times(c)' <= Times(c) + 1
           /\ c \notin since => Times(c)' = Times(c)
<1>1. host = "collect" /\ kept' = kept \o ValidOnes(Collected)
  BY DEF Collect
<1> DEFINE s == ValidOnes(Collected)
<1>2. s \in Seq(since \ Bad) /\ IsInjective(s)
  BY <1>1, GoodCoins
<1> HIDE DEF s
<1>3. since \ Bad \subseteq Golden \ Bad
  BY DEF ThreadInv
<1>4. s \in Seq(Golden \ Bad) /\ ToSet(s) \subseteq since
  BY <1>2, <1>3 DEF ToSet
<1>5. /\ Occurs(kept \o s, c) <= Occurs(kept, c) + 1
      /\ c \notin ToSet(s) => Occurs(kept \o s, c) = Occurs(kept, c)
  BY <1>2, <1>4, OccursInBoth DEF KeptInv
<1>6. Times(c) = Occurs(kept, c) /\ Times(c)' = Occurs(kept \o s, c)
  BY <1>1 DEF Times, Occurs, s
<1> QED
  BY <1>4, <1>5, <1>6

THEOREM TimesCorrect == ASSUME FullPeriod PROVE Spec => []TimesInv
<1> USE DEF deviceVars, deviceRest, hostVars, params, tallies, buffer, vault, history, coinVars
<1>1. Init => TimesInv
  <2> SUFFICES ASSUME Init PROVE TimesInv
    OBVIOUS
  <2>1. kept = <<>> /\ since = {} /\ unreset = 0
    BY DEF Init, DeviceInit
  <2>2. \A c : Times(c) = 0
    BY <2>1, FS_EmptySet DEF Times
  <2> QED
    BY <2>1, <2>2 DEF TimesInv
<1>2. /\ StageInv /\ ThreadInv /\ FilledInv /\ KeptInv /\ RankInv /\ TimesInv
      /\ launches <= WORD => UniqueInv
      /\ [Next]_vars
      => TimesInv'
  <2> SUFFICES ASSUME StageInv, ThreadInv, FilledInv, KeptInv, RankInv, TimesInv,
                      launches <= WORD => UniqueInv, [Next]_vars
               PROVE  TimesInv'
    OBVIOUS
  <2>a. unreset \in Nat /\ launches \in Nat /\ WORD \in Nat
    BY GpuSizes DEF TimesInv, RankInv
  <2>b. \A c : Times(c) \in Nat /\ (c \notin produced => Times(c) = 0)
    BY TimesIsNat
  <2>c. since \subseteq Golden
    BY DEF ThreadInv
  <2>k. kept' = kept => \A c : Times(c)' = Times(c)
    BY DEF Times
  <2>1. CASE ResetBuffer
    <3>1. /\ UNCHANGED <<kept, launches>> /\ host' = "launch"
          /\ \/ since' = {} /\ unreset' = unreset
             \/ since' = since /\ unreset' = unreset + 1
      BY <2>1 DEF ResetBuffer
    <3>2. unreset' \in Nat /\ unreset <= unreset'
      BY <2>a, <3>1
    <3>3. ASSUME launches <= WORD, NEW c \in Golden
          PROVE  Times(c)' <= 1 + unreset' /\ (c \in since' => Times(c)' <= unreset')
      <4>1. Times(c) <= 1 + unreset /\ Times(c) \in Nat /\ Times(c)' = Times(c)
        BY <2>b, <2>k, <3>1, <3>3 DEF TimesInv
      <4> QED
        BY <2>a, <3>1, <4>1
    <3> QED
      BY <2>c, <3>1, <3>2, <3>3 DEF TimesInv
  <2>2. CASE Launch
    <3>1. /\ UNCHANGED <<kept, since, unreset>> /\ host = "launch" /\ host' = "kernel"
          /\ launches' = launches + 1
      BY <2>2 DEF Launch
    <3>2. launches' <= WORD => launches <= WORD
      BY <2>a, <3>1
    <3> QED
      BY <2>k, <3>1, <3>2 DEF TimesInv
  <2>3. CASE ReadBuffer
    <3>1. /\ UNCHANGED <<kept, launches, unreset>> /\ host = "kernel" /\ host' = "collect"
          /\ since' = since \cup LaunchCoins
      BY <2>3 DEF ReadBuffer
    <3>2. ASSUME launches <= WORD, NEW c \in since' PROVE Times(c)' <= unreset
      <4>1. CASE c \in since
        BY <2>k, <3>1, <3>2, <4>1 DEF TimesInv
      <4>2. CASE c \in LaunchCoins
        <5>1. c \notin produced
          BY <3>1, <3>2, <4>2, LaunchIsFresh DEF LaunchCoins
        <5>2. Times(c)' = 0
          BY <2>b, <2>k, <3>1, <5>1
        <5> QED
          BY <2>a, <5>2
      <4> QED
        BY <3>1, <3>2, <4>1, <4>2
    <3> QED
      BY <2>k, <3>1, <3>2 DEF TimesInv
  <2>0. CASE UNCHANGED vars
    BY <2>k, <2>0 DEF TimesInv, vars
  <2>4. CASE Collect /\ ~UNCHANGED vars
    <3>1. /\ UNCHANGED <<since, launches, unreset>> /\ host = "collect"
          /\ host' = "loop" \/ (host' = "collect" /\ status' = "write_error")
      BY <2>4 DEF Collect
    <3>2. status = "running"
      BY <2>4 DEF Next, Host, Kernel, Interrupt
    <3>3. ASSUME launches <= WORD, NEW c \in Golden PROVE Times(c)' <= 1 + unreset
      <4>1. /\ Times(c)' <= Times(c) + 1
            /\ c \notin since => Times(c)' = Times(c)
        BY <2>4, <3>3, CollectOnce
      <4>2. Times(c) <= 1 + unreset /\ (c \in since => Times(c) <= unreset)
        BY <3>1, <3>2, <3>3 DEF TimesInv
      <4>3. Times(c)' \in Int
        <5>1. kept' \in Seq(Golden \ Bad)
          BY <2>4, CollectKeeps
        <5>2. Occurs(kept', c) \in Nat
          BY <5>1, OccursType
        <5> QED
          BY <5>2 DEF Occurs, Times
      <4> QED
        BY <2>a, <2>b, <4>1, <4>2, <4>3
    <3> QED
      BY <2>a, <3>1, <3>3 DEF TimesInv
  <2>5. ASSUME NEW n \in Threads, ReserveSlot(n) \/ FillSlot(n) PROVE TimesInv'
    BY <2>5, <2>k, ThreadSteps DEF TimesInv
  <2>6. CASE /\ UNCHANGED <<coinVars, params, tallies, buffer>> /\ api' = api
             /\ \/ host' = host
                \/ host = "setup" /\ host' \in {"loop", "unwind"}
                \/ host' \notin {"setup", "loop", "launch", "kernel", "collect"}
    <3>1. status' = "running" => status = "running" \/ host \notin {"collect"}
      BY DEF Next, Interrupt, Host, Kernel, vars
    <3> QED
      BY <2>6, <2>k, <3>1 DEF TimesInv
  <2> QED
    BY <2>0, <2>1, <2>2, <2>3, <2>4, <2>5, <2>6, QuietSteps
<1> QED
  BY <1>1, <1>2, StagesCorrect, ThreadsCorrect, SlotsCorrect, GoodOnesKept, RanksCorrect,
     UniqueInTurn, PTL DEF Spec

(* Until the generator has gone round, no coin is kept more often than     *)
(* once, and once more for each failed write of the first word, although   *)
(* the counter starts again (mine_deti_coins_cuda, mine_deti_coins_opencl).*)
THEOREM CoinsNotTwice == ASSUME FullPeriod PROVE Spec => []NoCoinTwice
<1>1. TimesInv => NoCoinTwice
  BY DEF TimesInv, NoCoinTwice
<1> QED
  BY <1>1, TimesCorrect, PTL

-----------------------------------------------------------------------------
(* The period of the generator.  The values are taken without the          *)
(* remainder: those w apart, w = 1, 2, 4, ..., differ by an odd multiple   *)
(* of w, and the first w of them leave every remainder by w once.          *)

LEMMA Cancel ==
    ASSUME NEW w \in Nat \ {0}, NEW a \in Int, NEW b \in Int, w * a = w * b
    PROVE  a = b
<1>1. ASSUME NEW x \in Int, NEW y \in Int, x < y PROVE w * x # w * y
  <2>1. x * w + w <= y * w /\ x * w \in Int /\ y * w \in Int
    BY <1>1, ProductGrows
  <2>2. x * w = w * x /\ y * w = w * y
    OBVIOUS
  <2> QED
    BY <2>1, <2>2
<1>2. CASE a < b
  BY <1>1, <1>2
<1>3. CASE b < a
  BY <1>1, <1>3
<1> QED
  BY <1>2, <1>3

(* The values of the generator before the remainder is taken *)
Values(x) ==
    /\ x \in [Nat -> Nat]
    /\ x[0] = 0
    /\ \A n \in Nat : x[n + 1] = x[n] * A + C

(* The first values, up to the k-th *)
FirstValues(f, k) ==
    /\ f \in [0..k -> Nat]
    /\ f[0] = 0
    /\ \A n \in 0..(k - 1) : f[n + 1] = f[n] * A + C

LEMMA ConstantsAC == A \in Nat /\ C \in Nat
  BY BasesAssumption

(* ... exist for every k, *)
LEMMA FirstValuesExist == \A k \in Nat : \E f : FirstValues(f, k)
<1> DEFINE T == {k \in Nat : \E f : FirstValues(f, k)}
<1>1. 0 \in T
  <2>1. FirstValues([n \in 0..0 |-> 0], 0)
    BY DEF FirstValues
  <2> QED
    BY <2>1
<1>2. ASSUME NEW k \in T PROVE k + 1 \in T
  <2>1. k \in Nat
    OBVIOUS
  <2>2. PICK f : FirstValues(f, k)
    OBVIOUS
  <2> DEFINE g == [n \in 0..(k + 1) |-> IF n <= k THEN f[n] ELSE f[k] * A + C]
  <2>3. \A n \in 0..k : f[n] \in Nat
    BY <2>2 DEF FirstValues
  <2>4. \A y \in Nat : y * A + C \in Nat
    BY ConstantsAC
  <2>5. g \in [0..(k + 1) -> Nat] /\ g[0] = f[0]
    <3>1. f[k] * A + C \in Nat
      BY <2>1, <2>3, <2>4
    <3>2. \A n \in 0..(k + 1) : n <= k => n \in 0..k
      BY <2>1
    <3>3. \A n \in 0..(k + 1) : (IF n <= k THEN f[n] ELSE f[k] * A + C) \in Nat
      BY <2>3, <3>1, <3>2
    <3>4. g \in [0..(k + 1) -> Nat]
      BY <3>3
    <3>5. 0 \in 0..(k + 1) /\ 0 <= k
      BY <2>1
    <3> QED
      BY <3>4, <3>5
  <2>6. \A n \in 0..k : g[n] = f[n]
    BY <2>1
  <2>7. g[k + 1] = f[k] * A + C
    BY <2>1
  <2>8. ASSUME NEW n \in 0..k PROVE g[n + 1] = g[n] * A + C
    <3> HIDE DEF g
    <3>1. CASE n = k
      BY <2>1, <2>6, <2>7, <3>1
    <3>2. CASE n # k
      <4>1. n \in 0..(k - 1) /\ n + 1 \in 0..k
        BY <2>1, <3>2
      <4>2. f[n + 1] = f[n] * A + C
        BY <2>2, <4>1 DEF FirstValues
      <4> QED
        BY <2>6, <4>1, <4>2
    <3> QED
      BY <3>1, <3>2
  <2>9. FirstValues(g, k + 1)
    <3> HIDE DEF g
    <3>1. (k + 1) - 1 = k
      BY <2>1
    <3> QED
      BY <2>2, <2>5, <2>8, <3>1 DEF FirstValues
  <2> QED
    BY <2>1, <2>9
<1>3. T = Nat
  <2> HIDE DEF T
  <2>1. T \in SUBSET Nat
    BY DEF T
  <2> QED
    BY <1>1, <1>2, <2>1, NaturalsBySuccessor
<1> QED
  BY <1>3

(* and those up to k + 1 begin with those up to k. *)
LEMMA FirstValuesAgree ==
    ASSUME NEW k \in Nat, NEW f, NEW g, FirstValues(f, k), FirstValues(g, k + 1)
    PROVE  f[k] = g[k]
<1> DEFINE T == {n \in Nat : n <= k => f[n] = g[n]}
<1>1. 0 \in T
  BY DEF FirstValues
<1>2. ASSUME NEW n \in T PROVE n + 1 \in T
  <2>1. SUFFICES ASSUME n + 1 <= k PROVE f[n + 1] = g[n + 1]
    OBVIOUS
  <2>2. n \in 0..(k - 1) /\ n \in 0..((k + 1) - 1) /\ f[n] = g[n]
    BY <2>1
  <2>3. f[n + 1] = f[n] * A + C
    BY <2>2 DEF FirstValues
  <2>4. g[n + 1] = g[n] * A + C
    BY <2>2 DEF FirstValues
  <2> QED
    BY <2>2, <2>3, <2>4
<1>3. T = Nat
  <2> HIDE DEF T
  <2>1. T \in SUBSET Nat
    BY DEF T
  <2> QED
    BY <1>1, <1>2, <2>1, NaturalsBySuccessor
<1> QED
  BY <1>3

LEMMA ValuesExist == \E x : Values(x)
<1> DEFINE F(k) == CHOOSE f : FirstValues(f, k)
           x == [k \in Nat |-> F(k)[k]]
<1>1. \A k \in Nat : FirstValues(F(k), k)
  BY FirstValuesExist
<1>2. \A k \in Nat : F(k)[k] \in Nat
  <2> TAKE k \in Nat
  <2>1. k \in 0..k /\ FirstValues(F(k), k)
    BY <1>1
  <2> HIDE DEF F
  <2> QED
    BY <2>1 DEF FirstValues
<1>3. F(0)[0] = 0
  <2>1. FirstValues(F(0), 0)
    BY <1>1
  <2> HIDE DEF F
  <2> QED
    BY <2>1 DEF FirstValues
<1>4. ASSUME NEW n \in Nat PROVE F(n + 1)[n + 1] = F(n)[n] * A + C
  <2>1. FirstValues(F(n), n) /\ FirstValues(F(n + 1), n + 1)
    BY <1>1
  <2> HIDE DEF F
  <2>2. n \in 0..((n + 1) - 1)
    OBVIOUS
  <2>3. F(n + 1)[n + 1] = F(n + 1)[n] * A + C
    BY <2>1, <2>2 DEF FirstValues
  <2>4. F(n)[n] = F(n + 1)[n]
    BY <2>1, FirstValuesAgree
  <2> QED
    BY <2>3, <2>4
<1>5. Values(x)
  <2> HIDE DEF F
  <2> QED
    BY <1>2, <1>3, <1>4 DEF Values
<1> QED
  BY <1>5

(* Values w apart differ by an odd multiple of w. *)
Apart(x, w, d) ==
    /\ d \in [Nat -> Nat]
    /\ \A n \in Nat : x[n + w] = x[n] + w * d[n]
    /\ \A n \in Nat : d[n + 1] = A * d[n]
    /\ \E h \in Nat : d[0] = 2 * h + 1

(* The n-th and the m-th value have the same remainder by w. *)
Congruent(x, w, n, m) == \E p, q \in Nat : x[n] + w * p = x[m] + w * q

(* As remainders by w, the first w values are 0, ..., w - 1 in some order. *)
Tour(x, w) ==
    /\ w \in Nat \ {0}
    /\ \E d : Apart(x, w, d)
    /\ \A b \in 0..(w - 1) : \E n \in 0..(w - 1), t \in Nat : x[n] = b + w * t
    /\ \A n, m \in 0..(w - 1) : Congruent(x, w, n, m) => n = m

LEMMA OneMoreThanFours ==
    ASSUME A % 4 = 1
    PROVE  \E g \in Nat : A = 4 * g + 1
<1>1. PICK g \in Int, r \in 0..3 : A = g * 4 + r /\ r = A % 4
  BY ConstantsAC, QuotientAndRemainder
<1>2. g \in Nat /\ A = 4 * g + 1
  BY <1>1, ConstantsAC
<1> QED
  BY <1>2

LEMMA OneStep ==
    ASSUME A % 4 = 1, C % 2 = 1, NEW x, Values(x)
    PROVE  Tour(x, 1)
<1>1. PICK g \in Nat : A = 4 * g + 1
  BY OneMoreThanFours
<1>2. PICK h \in Int, r \in 0..1 : C = h * 2 + r /\ r = C % 2
  BY ConstantsAC, QuotientAndRemainder
<1>3. h \in Nat /\ C = 2 * h + 1
  BY <1>2, ConstantsAC
<1> DEFINE d == [n \in Nat |-> 4 * g * x[n] + C]
<1>4. d \in [Nat -> Nat]
  <2>1. \A y \in Nat : 4 * g * y + C \in Nat
    BY ConstantsAC
  <2> QED
    BY <2>1 DEF Values
<1>5. ASSUME NEW n \in Nat PROVE x[n + 1] = x[n] + 1 * d[n] /\ d[n + 1] = A * d[n]
  <2>1. PICK y \in Nat : y = x[n]
    BY DEF Values
  <2>2. x[n + 1] = y * A + C
    BY <2>1 DEF Values
  <2>3. d[n] = 4 * g * y + C /\ d[n + 1] = 4 * g * (y * A + C) + C
    BY <2>1, <2>2
  <2>4. y * A + C = y + (4 * g * y + C)
    BY <1>1, ConstantsAC
  <2>5. 4 * g * (y * A + C) + C = A * (4 * g * y + C)
    <3>1. PICK u \in Nat : u = 4 * g /\ A = u + 1
      BY <1>1
    <3>2. u * (y * A + C) + C = A * (u * y) + (u * C + C)
      BY ConstantsAC, <3>1
    <3>3. A * (u * y + C) = A * (u * y) + (u * C + C)
      BY ConstantsAC, <3>1
    <3> QED
      BY <3>1, <3>2, <3>3
  <2> QED
    <3> HIDE DEF d
    <3>1. PICK v \in Nat : v = 4 * g * y + C
      BY ConstantsAC
    <3>2. x[n + 1] = y + v /\ d[n] = v
      BY <2>2, <2>3, <2>4, <3>1
    <3>3. d[n + 1] = A * v
      BY <2>3, <2>5, <3>1
    <3>4. 1 * v = v
      OBVIOUS
    <3> QED
      BY <2>1, <3>2, <3>3, <3>4
<1>6. d[0] = 2 * h + 1
  BY <1>3 DEF Values
<1>7. Apart(x, 1, d)
  <2> HIDE DEF d
  <2> QED
    BY <1>3, <1>4, <1>5, <1>6 DEF Apart
<1>8. \E n \in 0..(1 - 1), t \in Nat : x[n] = 0 + 1 * t
  BY DEF Values
<1> QED
  BY <1>7, <1>8 DEF Tour

(* Since A leaves 1 modulo 4, the multiples leave the same modulo 4, *)
LEMMA SameModuloFour ==
    ASSUME A % 4 = 1, NEW x, NEW w, NEW d, Apart(x, w, d)
    PROVE  \E r \in {1, 3} : \A n \in Nat : \E e \in Nat : d[n] = 4 * e + r
<1>1. PICK g \in Nat : A = 4 * g + 1
  BY OneMoreThanFours
<1>2. PICK h \in Nat : d[0] = 2 * h + 1
  BY DEF Apart
<1>3. PICK r \in {1, 3}, e \in Nat : d[0] = 4 * e + r
  <2>1. PICK k \in Int, s \in 0..1 : h = k * 2 + s /\ s = h % 2
    BY QuotientAndRemainder
  <2>2. k \in Nat
    BY <2>1
  <2>3. CASE s = 0
    BY <1>2, <2>1, <2>2, <2>3
  <2>4. CASE s = 1
    BY <1>2, <2>1, <2>2, <2>4
  <2> QED
    BY <2>1, <2>3, <2>4
<1> DEFINE T == {n \in Nat : \E k \in Nat : d[n] = 4 * k + r}
<1>4. 0 \in T
  BY <1>3
<1>5. ASSUME NEW n \in T PROVE n + 1 \in T
  <2>1. PICK k \in Nat : d[n] = 4 * k + r
    OBVIOUS
  <2>2. d[n + 1] = A * d[n]
    BY DEF Apart
  <2>3. A * (4 * k + r) = 4 * (g * (4 * k + r) + k) + r /\ g * (4 * k + r) + k \in Nat
    BY <1>1
  <2> QED
    BY <2>1, <2>2, <2>3
<1>6. T = Nat
  <2> HIDE DEF T
  <2>1. T \in SUBSET Nat
    BY DEF T
  <2> QED
    BY <1>4, <1>5, <2>1, NaturalsBySuccessor
<1> QED
  BY <1>6

(* so that the sum of two of them is twice an odd number. *)
LEMMA TwiceApart ==
    ASSUME A % 4 = 1, NEW x, Values(x), NEW w \in Nat \ {0}, NEW d, Apart(x, w, d)
    PROVE  \E c : Apart(x, 2 * w, c)
<1>1. PICK r \in {1, 3} : \A n \in Nat : \E e \in Nat : d[n] = 4 * e + r
  BY SameModuloFour
<1> DEFINE c == [n \in Nat |-> CHOOSE k \in Nat : 2 * k = d[n] + d[n + w]]
<1>2. ASSUME NEW n \in Nat PROVE \E k \in Nat : 2 * k = d[n] + d[n + w]
  <2>1. PICK e \in Nat : d[n] = 4 * e + r
    BY <1>1
  <2>2. PICK f \in Nat : d[n + w] = 4 * f + r
    BY <1>1
  <2>3. 2 * (2 * e + 2 * f + r) = d[n] + d[n + w] /\ 2 * e + 2 * f + r \in Nat
    BY <2>1, <2>2
  <2> QED
    BY <2>3
<1>3. c \in [Nat -> Nat] /\ \A n \in Nat : 2 * c[n] = d[n] + d[n + w]
  BY <1>2
<1>4. \A n \in Nat : d[n] \in Nat /\ x[n] \in Nat /\ c[n] \in Nat
  <2> HIDE DEF c
  <2> QED
    BY <1>3 DEF Apart, Values
<1> HIDE DEF c
<1>5. ASSUME NEW n \in Nat PROVE x[n + 2 * w] = x[n] + 2 * w * c[n]
  <2>1. n + w \in Nat /\ (n + w) + w = n + 2 * w
    OBVIOUS
  <2>2. x[n + w] = x[n] + w * d[n] /\ x[(n + w) + w] = x[n + w] + w * d[n + w]
    BY <2>1 DEF Apart
  <2>3. PICK y \in Nat, d1 \in Nat, d2 \in Nat, k \in Nat :
            y = x[n] /\ d1 = d[n] /\ d2 = d[n + w] /\ k = c[n]
    BY <1>4, <2>1
  <2>4. 2 * k = d1 + d2
    BY <1>3, <2>3
  <2>5. (y + w * d1) + w * d2 = y + w * (d1 + d2)
    OBVIOUS
  <2>6. w * (2 * k) = 2 * w * k
    OBVIOUS
  <2> QED
    BY <2>1, <2>2, <2>3, <2>4, <2>5, <2>6
<1>6. ASSUME NEW n \in Nat PROVE c[n + 1] = A * c[n]
  <2>1. d[n + 1] = A * d[n] /\ d[(n + w) + 1] = A * d[n + w] /\ (n + w) + 1 = (n + 1) + w
    BY DEF Apart
  <2>2. PICK d1 \in Nat, d2 \in Nat, k \in Nat, l \in Nat :
            d1 = d[n] /\ d2 = d[n + w] /\ k = c[n] /\ l = c[n + 1]
    BY <1>4
  <2>3. 2 * k = d1 + d2 /\ 2 * l = A * d1 + A * d2
    BY <1>3, <2>1, <2>2
  <2>4. A * d1 + A * d2 = A * (d1 + d2) /\ A * (2 * k) = 2 * (A * k) /\ A * k \in Nat
    BY ConstantsAC
  <2>5. 2 * l = 2 * (A * k)
    BY <2>3, <2>4
  <2>6. l = A * k
    BY <2>4, <2>5
  <2> QED
    BY <2>2, <2>6
<1>7. \E h \in Nat : c[0] = 2 * h + 1
  <2>1. PICK e \in Nat : d[0] = 4 * e + r
    BY <1>1
  <2>2. PICK f \in Nat : d[0 + w] = 4 * f + r
    BY <1>1
  <2>3. 2 * c[0] = d[0] + d[0 + w] /\ c[0] \in Nat
    BY <1>3, <1>4
  <2>4. c[0] = 2 * (e + f) + r
    BY <2>1, <2>2, <2>3
  <2>5. CASE r = 1
    BY <2>4, <2>5
  <2>6. CASE r = 3
    <3>1. c[0] = 2 * (e + f + 1) + 1 /\ e + f + 1 \in Nat
      BY <2>4, <2>6
    <3> QED
      BY <3>1
  <2> QED
    BY <2>5, <2>6
<1>8. Apart(x, 2 * w, c)
  BY <1>3, <1>5, <1>6, <1>7 DEF Apart
<1> QED
  BY <1>8

LEMMA TwoHalves ==
    ASSUME NEW w \in Nat \ {0}, NEW n \in 0..(2 * w - 1)
    PROVE  \E m \in 0..(w - 1), i \in {0, 1} : n = m + w * i
<1>1. CASE n < w
  <2>1. n \in 0..(w - 1) /\ n = n + w * 0
    BY <1>1
  <2> QED
    BY <2>1
<1>2. CASE n >= w
  <2>1. n - w \in 0..(w - 1) /\ n = (n - w) + w * 1
    BY <1>2
  <2> QED
    BY <2>1
<1> QED
  BY <1>1, <1>2

LEMMA HalvesApart ==
    ASSUME NEW x, Values(x), NEW w \in Nat \ {0}, NEW d, Apart(x, w, d),
           NEW m \in Nat, NEW i \in {0, 1}
    PROVE  x[m + w * i] = x[m] + w * (i * d[m])
<1>1. x[m] \in Nat /\ d[m] \in Nat /\ x[m + w] = x[m] + w * d[m]
  BY DEF Values, Apart
<1>2. PICK y \in Nat, k \in Nat : y = x[m] /\ k = d[m]
  BY <1>1
<1>3. m + w * 0 = m /\ m + w * 1 = m + w /\ y + w * (0 * k) = y /\ 1 * k = k
  OBVIOUS
<1>4. CASE i = 0
  BY <1>2, <1>3, <1>4
<1>5. CASE i = 1
  BY <1>1, <1>2, <1>3, <1>5
<1> QED
  BY <1>4, <1>5

LEMMA TwiceReached ==
    ASSUME A % 4 = 1, NEW x, Values(x), NEW w \in Nat \ {0}, NEW d, Apart(x, w, d), Tour(x, w),
           NEW b \in 0..(2 * w - 1)
    PROVE  \E n \in 0..(2 * w - 1), t \in Nat : x[n] = b + 2 * w * t
<1>1. PICK a \in 0..(w - 1), i \in {0, 1} : b = a + w * i
  BY TwoHalves
<1>2. PICK m \in 0..(w - 1), s \in Nat : x[m] = a + w * s
  BY DEF Tour
<1>3. PICK k \in Nat : d[m] = 2 * k + 1
  <2>1. PICK r \in {1, 3} : \A n \in Nat : \E e \in Nat : d[n] = 4 * e + r
    BY SameModuloFour
  <2>2. PICK e \in Nat : d[m] = 4 * e + r
    BY <2>1
  <2>3. CASE r = 1
    <3>1. d[m] = 2 * (2 * e) + 1
      BY <2>2, <2>3
    <3> QED
      BY <3>1
  <2>4. CASE r = 3
    <3>1. d[m] = 2 * (2 * e + 1) + 1
      BY <2>2, <2>4
    <3> QED
      BY <3>1
  <2> QED
    BY <2>3, <2>4
<1>4. ASSUME NEW n \in 0..(2 * w - 1), NEW t \in Nat, x[n] = a + w * (2 * t + i)
      PROVE  x[n] = b + 2 * w * t
  BY <1>1, <1>4
<1>5. \/ \E t \in Nat : s = 2 * t + i
      \/ \E t \in Nat : s + d[m] = 2 * t + i
  <2>1. PICK q \in Int, r \in 0..1 : s = q * 2 + r /\ r = s % 2
    BY QuotientAndRemainder
  <2>2. q \in Nat
    BY <2>1
  <2>3. CASE r = i
    BY <2>1, <2>2, <2>3
  <2>4. CASE r = 1 /\ i = 0
    <3>1. s + d[m] = 2 * (q + k + 1) + i /\ q + k + 1 \in Nat
      BY <1>3, <2>1, <2>2, <2>4
    <3> QED
      BY <3>1
  <2>5. CASE r = 0 /\ i = 1
    <3>1. s + d[m] = 2 * (q + k) + i /\ q + k \in Nat
      BY <1>3, <2>1, <2>2, <2>5
    <3> QED
      BY <3>1
  <2> QED
    BY <2>1, <2>3, <2>4, <2>5
<1>6. ASSUME NEW t \in Nat, s = 2 * t + i
      PROVE  \E n \in 0..(2 * w - 1) : x[n] = b + 2 * w * t
  <2>1. m \in 0..(2 * w - 1) /\ x[m] = a + w * (2 * t + i)
    BY <1>2, <1>6
  <2> QED
    BY <1>4, <2>1
<1>7. ASSUME NEW t \in Nat, s + d[m] = 2 * t + i
      PROVE  \E n \in 0..(2 * w - 1) : x[n] = b + 2 * w * t
  <2>1. x[m + w] = x[m] + w * d[m] /\ m + w \in 0..(2 * w - 1)
    BY DEF Apart
  <2>2. PICK e \in Nat : e = d[m]
    BY <1>3
  <2>3. (a + w * s) + w * e = a + w * (s + e)
    OBVIOUS
  <2>4. x[m + w] = a + w * (2 * t + i)
    BY <1>2, <1>7, <2>1, <2>2, <2>3
  <2> QED
    BY <1>4, <2>1, <2>4
<1> QED
  BY <1>5, <1>6, <1>7

LEMMA TwiceDistinct ==
    ASSUME A % 4 = 1, NEW x, Values(x), NEW w \in Nat \ {0}, NEW d, Apart(x, w, d), Tour(x, w),
           NEW n \in 0..(2 * w - 1), NEW m \in 0..(2 * w - 1), Congruent(x, 2 * w, n, m)
    PROVE  n = m
<1>p. PICK p \in Nat, q \in Nat : x[n] + 2 * w * p = x[m] + 2 * w * q
  BY DEF Congruent
<1>1. PICK n0 \in 0..(w - 1), i \in {0, 1} : n = n0 + w * i
  BY TwoHalves
<1>2. PICK m0 \in 0..(w - 1), j \in {0, 1} : m = m0 + w * j
  BY TwoHalves
<1>3. PICK y \in Nat, k \in Nat, z \in Nat, l \in Nat :
          y = x[n0] /\ k = d[n0] /\ z = x[m0] /\ l = d[m0]
  <2>1. n0 \in Nat /\ m0 \in Nat
    OBVIOUS
  <2>2. x[n0] \in Nat /\ x[m0] \in Nat
    BY <2>1 DEF Values
  <2>3. d[n0] \in Nat /\ d[m0] \in Nat
    BY <2>1 DEF Apart
  <2> QED
    BY <2>2, <2>3
<1>4. x[n] = y + w * (i * k) /\ x[m] = z + w * (j * l)
  <2>1. n0 \in Nat /\ m0 \in Nat
    OBVIOUS
  <2>2. x[n0 + w * i] = x[n0] + w * (i * d[n0])
    BY <2>1, HalvesApart
  <2>3. x[m0 + w * j] = x[m0] + w * (j * d[m0])
    BY <2>1, HalvesApart
  <2> QED
    BY <1>1, <1>2, <1>3, <2>2, <2>3
<1>5. i * k \in Nat /\ j * l \in Nat
  OBVIOUS
<1>6. PICK u \in Nat, v \in Nat : u = i * k /\ v = j * l
  BY <1>5
<1>7. (y + w * u) + 2 * w * p = y + w * (u + 2 * p)
  OBVIOUS
<1>8. (z + w * v) + 2 * w * q = z + w * (v + 2 * q)
  OBVIOUS
<1>9. y + w * (u + 2 * p) = z + w * (v + 2 * q)
  BY <1>p, <1>4, <1>6, <1>7, <1>8
<1>10. n0 = m0
  <2>1. PICK a \in Nat, b \in Nat : a = u + 2 * p /\ b = v + 2 * q
    OBVIOUS
  <2>2. x[n0] + w * a = x[m0] + w * b
    BY <1>3, <1>9, <2>1
  <2>3. Congruent(x, w, n0, m0)
    BY <2>2 DEF Congruent
  <2> QED
    BY <2>3 DEF Tour
<1>11. u + 2 * p = v + 2 * q
  <2>1. y = z
    BY <1>3, <1>10
  <2>2. PICK a \in Int, b \in Int : a = u + 2 * p /\ b = v + 2 * q
    OBVIOUS
  <2>3. w * a \in Int /\ w * b \in Int /\ y + w * a = z + w * b
    BY <1>9, <2>2
  <2>4. w * a = w * b
    BY <2>1, <2>3
  <2> QED
    BY <2>2, <2>4, Cancel
<1>12. \E r \in {1, 3}, e \in Nat : k = 4 * e + r
  BY SameModuloFour, <1>3
<1>13. i = j
  <2>1. k = l
    BY <1>3, <1>10
  <2>2. ASSUME i = 0, j = 1 PROVE FALSE
    <3>1. u = 0 /\ v = k
      BY <1>6, <2>1, <2>2
    <3> QED
      BY <1>11, <1>12, <3>1
  <2>3. ASSUME i = 1, j = 0 PROVE FALSE
    <3>1. u = k /\ v = 0
      BY <1>6, <2>1, <2>3
    <3> QED
      BY <1>11, <1>12, <3>1
  <2> QED
    BY <2>2, <2>3
<1> QED
  BY <1>1, <1>2, <1>10, <1>13

(* A tour of w values gives one of 2 * w values: those w apart have the    *)
(* same remainder by w, and not by 2 * w.                                  *)
LEMMA TwiceTheTour ==
    ASSUME A % 4 = 1, NEW x, Values(x), NEW w, Tour(x, w)
    PROVE  Tour(x, 2 * w)
<1>1. w \in Nat \ {0} /\ 2 * w \in Nat \ {0}
  BY DEF Tour
<1>2. PICK d : Apart(x, w, d)
  BY DEF Tour
<1>3. \E c : Apart(x, 2 * w, c)
  BY <1>1, <1>2, TwiceApart
<1>4. \A b \in 0..(2 * w - 1) : \E n \in 0..(2 * w - 1), t \in Nat : x[n] = b + 2 * w * t
  <2> TAKE b \in 0..(2 * w - 1)
  <2> QED
    BY <1>1, <1>2, TwiceReached
<1>5. \A n, m \in 0..(2 * w - 1) : Congruent(x, 2 * w, n, m) => n = m
  BY <1>1, <1>2, TwiceDistinct
<1> QED
  BY <1>1, <1>3, <1>4, <1>5 DEF Tour

(* The rank of a base is the place where it comes in the tour. *)
LEMMA TourIsFullPeriod ==
    ASSUME NEW x, Values(x), Tour(x, WORD)
    PROVE  FullPeriod
<1>1. PICK w \in Nat \ {0} : w = WORD /\ Bases = 0..(w - 1)
  BY DEF Tour, Bases
<1> DEFINE At(b, n) == n \in Bases /\ \E t \in Nat : x[n] = b + w * t
           rank == [b \in Bases |-> CHOOSE n \in Bases : At(b, n)]
<1>2. \A b \in Bases : rank[b] \in Bases /\ At(b, rank[b])
  <2>1. \A b \in Bases : \E n \in Bases : At(b, n)
    BY <1>1 DEF Tour
  <2> HIDE DEF At
  <2> QED
    BY <2>1
<1>3. \A n \in Nat : x[n] \in Nat
  BY DEF Values
<1>4. rank \in [Bases -> Bases]
  <2> HIDE DEF At
  <2>1. \A b \in Bases : (CHOOSE n \in Bases : At(b, n)) \in Bases
    BY <1>2
  <2> QED
    BY <2>1
<1> HIDE DEF rank
<1>5. ASSUME NEW b \in Bases, NEW n \in Nat, NEW t \in Nat, x[n] = b + w * t
      PROVE  x[n] % w = b
  <2>1. x[n] = t * w + b /\ b \in 0..(w - 1) /\ x[n] \in Nat /\ t \in Int
    BY <1>1, <1>3, <1>5
  <2> QED
    BY <2>1, RemainderOf
<1>6. ASSUME NEW b \in Bases, NEW c \in Bases, rank[b] = rank[c]
      PROVE  b = c
  <2>1. rank[b] \in Nat
    BY <1>1, <1>2
  <2>2. x[rank[b]] % w = b /\ x[rank[c]] % w = c
    BY <1>2, <1>5, <1>6, <2>1
  <2> QED
    BY <1>6, <2>2
<1>7. ASSUME NEW b \in Bases
      PROVE  rank[(b * A + C) % w] = (rank[b] + 1) % w
  <2>1. PICK n \in Bases, t \in Nat : n = rank[b] /\ x[n] = b + w * t
    BY <1>2
  <2>2. b * A + C \in Nat /\ b \in Nat /\ n \in Nat
    BY <1>1, ConstantsAC
  <2>3. PICK q \in Int, a \in 0..(w - 1) : b * A + C = q * w + a /\ a = (b * A + C) % w
    BY <2>2, QuotientAndRemainder
  <2>4. q \in Nat
    <3>1. CASE q < 0
      <4>1. q * w + w <= 0 * w /\ q * w \in Int
        BY <3>1, ProductGrows
      <4> QED
        BY <2>2, <2>3, <4>1
    <3> QED
      BY <3>1
  <2>5. PICK m \in Bases, s \in Nat : m = rank[a] /\ x[m] = a + w * s
    BY <1>1, <1>2
  <2>6. x[n + 1] = a + w * (q + t * A) /\ q + t * A \in Nat
    <3>1. x[n + 1] = (b + w * t) * A + C
      BY <2>1, <2>2 DEF Values
    <3>2. (b + w * t) * A = b * A + w * (t * A) /\ t * A \in Nat
      BY <2>2, ConstantsAC
    <3>3. PICK y \in Nat, z \in Nat : y = b * A /\ z = t * A
      BY <2>2, <3>2, ConstantsAC
    <3>4. y + C = q * w + a
      BY <2>3, <3>3
    <3>5. w * (q + z) = q * w + w * z /\ w * z \in Nat /\ q * w \in Nat
      BY <2>4
    <3>6. (y + w * z) + C = a + w * (q + z)
      BY <3>4, <3>5, ConstantsAC
    <3> QED
      BY <2>4, <3>1, <3>2, <3>3, <3>6
  <2>7. \A i, j \in 0..(w - 1) : Congruent(x, w, i, j) => i = j
    BY <1>1 DEF Tour
  <2>8. PICK u \in Nat : u = q + t * A
    BY <2>6
  <2>9. CASE n + 1 < w
    <3>1. n + 1 \in 0..(w - 1) /\ m \in 0..(w - 1)
      BY <1>1, <2>2, <2>9
    <3>2. (a + w * u) + w * s = (a + w * s) + w * u
      OBVIOUS
    <3>3. x[n + 1] + w * s = x[m] + w * u
      BY <2>5, <2>6, <2>8, <3>2
    <3>4. n + 1 = m
      <4>1. Congruent(x, w, n + 1, m)
        BY <3>3 DEF Congruent
      <4> QED
        BY <2>7, <3>1, <4>1
    <3>5. n + 1 = 0 * w + (n + 1)
      BY <2>2
    <3>6. (n + 1) % w = n + 1
      BY <2>2, <3>1, <3>5, RemainderOf
    <3> QED
      BY <2>1, <2>3, <2>5, <3>4, <3>6
  <2>10. CASE n + 1 = w
    <3>1. PICK d : Apart(x, w, d)
      BY <1>1 DEF Tour
    <3>2. x[0 + w] = x[0] + w * d[0] /\ d[0] \in Nat
      BY <3>1 DEF Apart
    <3>3. PICK e \in Nat, z \in Nat : e = d[0] /\ z = x[0]
      BY <1>3, <3>2
    <3>4. z + w * e = a + w * u
      BY <2>6, <2>8, <2>10, <3>2, <3>3
    <3>5. z + w * (e + s) = (z + w * e) + w * s
      OBVIOUS
    <3>6. (a + w * u) + w * s = (a + w * s) + w * u
      OBVIOUS
    <3>7. x[0] + w * (e + s) = x[m] + w * u
      BY <2>5, <3>3, <3>4, <3>5, <3>6
    <3>8. 0 \in 0..(w - 1) /\ m \in 0..(w - 1) /\ e + s \in Nat
      BY <1>1
    <3>9. m = 0
      <4>1. Congruent(x, w, 0, m)
        BY <3>7, <3>8 DEF Congruent
      <4> QED
        BY <2>7, <3>8, <4>1
    <3>10. w = 1 * w + 0
      OBVIOUS
    <3>11. w % w = 0
      BY <3>8, <3>10, RemainderOf
    <3> QED
      BY <2>1, <2>3, <2>5, <2>10, <3>9, <3>11
  <2>11. n + 1 < w \/ n + 1 = w
    BY <1>1
  <2> QED
    BY <2>9, <2>10, <2>11
<1>8. Ranks(rank)
  BY <1>1, <1>4, <1>6, <1>7 DEF Ranks, Bases
<1> QED
  BY <1>8 DEF FullPeriod

(* 1, 2, 4, ... *)
IsPowerOfTwo(w) ==
    \A S \in SUBSET Nat : 1 \in S /\ (\A v \in S : 2 * v \in S) => w \in S

(* For a word of some number of bits the generator goes through all its    *)
(* values before one comes again, if A leaves 1 modulo 4 and C is odd      *)
(* (the update of base_value1, mine_deti_coins_cuda).                      *)
THEOREM GeneratorGoesRound ==
    ASSUME IsPowerOfTwo(WORD), A % 4 = 1, C % 2 = 1
    PROVE  FullPeriod
<1>1. PICK x : Values(x)
  BY ValuesExist
<1> DEFINE S == {w \in Nat : Tour(x, w)}
<1>2. 1 \in S
  BY <1>1, OneStep
<1>3. \A v \in S : 2 * v \in S
  BY <1>1, TwiceTheTour
<1>4. WORD \in S
  <2> HIDE DEF S
  <2>1. S \in SUBSET Nat
    BY DEF S
  <2> QED
    BY <1>2, <1>3, <2>1 DEF IsPowerOfTwo
<1> QED
  BY <1>1, <1>4, TourIsFullPeriod

LEMMA SixteenTimes ==
    ASSUME NEW w \in Nat, IsPowerOfTwo(w)
    PROVE  IsPowerOfTwo(16 * w)
<1> SUFFICES ASSUME NEW S \in SUBSET Nat, 1 \in S, \A v \in S : 2 * v \in S
             PROVE  16 * w \in S
  BY DEF IsPowerOfTwo
<1>1. w \in S
  BY DEF IsPowerOfTwo
<1>2. 2 * (2 * (2 * (2 * w))) \in S
  BY <1>1
<1>3. 2 * (2 * (2 * (2 * w))) = 16 * w
  OBVIOUS
<1> QED
  BY <1>2, <1>3

LEMMA WordIsPowerOfTwo == IsPowerOfTwo(4294967296)
<1>1. IsPowerOfTwo(1)
  BY DEF IsPowerOfTwo
<1>2. ASSUME NEW w \in Nat, NEW v, IsPowerOfTwo(w), v = 16 * w PROVE IsPowerOfTwo(v)
  BY <1>2, SixteenTimes
<1>3. IsPowerOfTwo(16)
  BY <1>1, <1>2
<1>4. IsPowerOfTwo(256)
  BY <1>2, <1>3
<1>5. IsPowerOfTwo(4096)
  BY <1>2, <1>4
<1>6. IsPowerOfTwo(65536)
  BY <1>2, <1>5
<1>7. IsPowerOfTwo(1048576)
  BY <1>2, <1>6
<1>8. IsPowerOfTwo(16777216)
  BY <1>2, <1>7
<1>9. IsPowerOfTwo(268435456)
  BY <1>2, <1>8
<1> QED
  BY <1>2, <1>9

(* So it does with the constants of the program and its words of 32 bits   *)
(* (base_value1 = base_value1 * 1103515245u + 12345u).                     *)
THEOREM ProgramGoesRound ==
    ASSUME WORD = 4294967296, A = 1103515245, C = 12345
    PROVE  FullPeriod
<1>1. IsPowerOfTwo(WORD)
  BY WordIsPowerOfTwo
<1>2. A % 4 = 1 /\ C % 2 = 1
  OBVIOUS
<1> QED
  BY <1>1, <1>2, GeneratorGoesRound

(* In the program no coin is kept more often than once, and once more for  *)
(* each failed write of the first word, until 2^32 launches have been made *)
(* (mine_deti_coins_cuda, mine_deti_coins_opencl).                         *)
THEOREM ProgramKeepsNoCoinTwice ==
    ASSUME WORD = 4294967296, A = 1103515245, C = 12345
    PROVE  Spec => []NoCoinTwice
<1>1. FullPeriod
  BY ProgramGoesRound
<1> QED
  BY <1>1, CoinsNotTwice

-----------------------------------------------------------------------------
(* The types *)

(* What the other invariants do not say of the variables *)
RestInv ==
    /\ api \in Programs
    /\ host \notin {"setup", "unwind", "teardown"} => todo = <<>>
    /\ failed \in DOMAIN Unwinding \cup {"none"}
    /\ misused \in BOOLEAN /\ stop_signal \in BOOLEAN
    /\ status \in {"running", "returned", "setup_error", "gpu_error", "write_error", "crashed"}
    /\ base_value1 \in 0..(WORD - 1)
    /\ file \in Seq(Golden)

LEMMA FirstsOfKept ==
    ASSUME kept \in Seq(Golden \ Bad), NEW k \in 0..Len(kept)
    PROVE  SubSeq(kept, 1, k) \in Seq(Golden)
<1>1. PICK n \in Nat : n = Len(kept)
  BY LenProperties
<1>2. \A i \in 1..k : kept[i] \in Golden
  <2> TAKE i \in 1..k
  <2>1. i \in 1..Len(kept)
    BY <1>1
  <2>2. kept[i] \in Golden \ Bad
    BY <2>1, ElementOfSeq
  <2> QED
    BY <2>2
<1>3. k \in Int
  BY <1>1
<1> QED
  BY <1>2, <1>3, SubSeqProperties

THEOREM RestCorrect == Spec => []RestInv
<1> USE DEF deviceVars, deviceRest, hostVars, params, tallies, buffer, vault, history, coinVars
<1>1. Init => RestInv
  <2> SUFFICES ASSUME Init PROVE RestInv
    OBVIOUS
  <2>1. /\ api \in Programs /\ host = "setup" /\ failed = "none" /\ misused = FALSE
        /\ status = "running" /\ stop_signal = FALSE /\ file = <<>>
    BY DEF Init, DeviceInit
  <2>2. base_value1 \in 0..(WORD - 1)
    BY BasesAssumption DEF Init
  <2>3. <<>> \in Seq(Golden)
    OBVIOUS
  <2> QED
    BY <2>1, <2>2, <2>3 DEF RestInv
<1>2. StageInv /\ DeviceInv /\ KeptInv /\ RestInv /\ [Next]_vars => RestInv'
  <2> SUFFICES ASSUME StageInv, DeviceInv, KeptInv, RestInv, [Next]_vars PROVE RestInv'
    OBVIOUS
  <2> DEFINE Ends == {"running", "returned", "setup_error", "gpu_error", "write_error", "crashed"}
             Busy == {"setup", "unwind", "teardown"}
  <2>1. CASE Interrupt \/ UNCHANGED vars
    BY <2>1 DEF Interrupt, vars, RestInv
  <2>2. CASE DeviceStep /\ UNCHANGED hostVars
    <3>1. api' = api /\ misused' \in BOOLEAN /\ status' \in Ends
      BY <2>2 DEF DeviceStep, CallSucceeds, CallFails, CuCallFails, RunTest, Release,
         EndOfTeardown, Return, RestInv
    <3>2. failed' \in DOMAIN Unwinding \cup {"none"}
      BY <2>2 DEF DeviceStep, CallSucceeds, CallFails, CuCallFails, RunTest, Release,
         EndOfTeardown, Return, RestInv
    <3>3. host' \notin Busy => todo' = <<>>
      <4>1. CASE CallSucceeds
        BY <4>1 DEF CallSucceeds
      <4>2. CASE CallFails
        BY <4>2 DEF CallFails
      <4>3. CASE CuCallFails \/ Return
        BY <4>3 DEF CuCallFails, Return, RestInv
      <4>4. CASE RunTest \/ EndOfTeardown
        BY <4>4 DEF RunTest, EndOfTeardown, GoTo
      <4>5. CASE Release
        BY <4>5 DEF Release
      <4> QED
        BY <2>2, <4>1, <4>2, <4>3, <4>4, <4>5 DEF DeviceStep
    <3> QED
      BY <2>2, <3>1, <3>2, <3>3 DEF RestInv
  <2>3. CASE ResetBuffer \/ Launch \/ ReadBuffer
    <3>1. /\ UNCHANGED <<deviceRest, stop_signal, base_value1, file>>
          /\ host \in {"loop", "launch", "kernel"}
      BY <2>3 DEF ResetBuffer, Launch, ReadBuffer
    <3> QED
      BY <3>1 DEF RestInv
  <2>4. CASE Collect
    <3>1. /\ UNCHANGED <<api, todo, failed, misused, stop_signal>>
          /\ host = "collect" /\ host' \in {"loop", "collect"}
          /\ status' \in {status, "write_error"}
      BY <2>4 DEF Collect
    <3>2. base_value1' \in 0..(WORD - 1)
      <4>1. NextBase(base_value1) \in 0..(WORD - 1)
        <5>1. PICK w \in Nat \ {0}, b \in Nat, p \in Nat, q \in Nat :
                 w = WORD /\ b = base_value1 /\ p = A /\ q = C
          <6>1. WORD \in Nat \ {0} /\ base_value1 \in 0..(WORD - 1)
            BY GpuSizes DEF RestInv
          <6>2. base_value1 \in Nat
            BY <6>1
          <6>3. A \in Nat /\ C \in Nat
            BY BasesAssumption
          <6> QED
            BY <6>1, <6>2, <6>3
        <5>2. PICK r \in Nat : r = b * p + q
          BY <5>1
        <5>3. r % w \in 0..(w - 1)
          BY <5>1
        <5> QED
          BY <5>1, <5>2, <5>3 DEF NextBase
      <4>2. base_value1' = NextBase(base_value1) \/ base_value1' = base_value1
        BY <2>4 DEF Collect
      <4> QED
        BY <4>1, <4>2 DEF RestInv
    <3>3. file' \in Seq(Golden)
      <4>1. file' = file \/ \E k \in 0..Len(kept) : file' = SubSeq(kept, 1, k)
        BY <2>4 DEF Collect
      <4> QED
        BY <4>1, FirstsOfKept DEF RestInv, KeptInv
    <3> QED
      BY <3>1, <3>2, <3>3 DEF RestInv
  <2>5. CASE LaunchFails \/ LeaveLoop
    <3>1. /\ UNCHANGED <<api, failed, misused, status, hostVars>>
          /\ host' # "teardown" => todo' = <<>>
      BY <2>5 DEF LaunchFails, LeaveLoop, GoTo
    <3> QED
      BY <3>1 DEF RestInv
  <2>6. CASE SaveRest
    <3>1. /\ UNCHANGED <<api, failed, misused, stop_signal, base_value1>>
          /\ status' \in {status, "write_error"}
      BY <2>6 DEF SaveRest
    <3>2. host' \notin Busy => todo' = <<>>
      BY <2>6 DEF SaveRest, GoTo, RestInv
    <3>3. file' \in Seq(Golden)
      <4>1. file' = kept \/ \E k \in 0..Len(kept) : file' = SubSeq(kept, 1, k)
        BY <2>6 DEF SaveRest
      <4>2. kept \in Seq(Golden)
        <5>1. kept \in Seq(Golden \ Bad)
          BY DEF KeptInv
        <5> QED
          BY <5>1
      <4> QED
        BY <4>1, <4>2, FirstsOfKept DEF KeptInv
    <3> QED
      BY <3>1, <3>2, <3>3 DEF RestInv
  <2>7. ASSUME NEW n \in Threads, ReserveSlot(n) \/ FillSlot(n) PROVE RestInv'
    <3>1. UNCHANGED <<deviceVars, stop_signal, base_value1, file>>
      BY <2>7 DEF ReserveSlot, FillSlot
    <3> QED
      BY <3>1 DEF RestInv
  <2> QED
    BY <2>1, <2>2, <2>3, <2>4, <2>5, <2>6, <2>7, HostSteps
<1> QED
  BY <1>1, <1>2, StagesCorrect, DeviceCorrect, GoodOnesKept, PTL DEF Spec

(* The types of the device's variables and of the miner's, for any         *)
(* programs, sizes and coins: the list of calls is one of handles in every *)
(* stage, words stay words, and only coins get into the buffer, the vault  *)
(* and the file.                                                           *)
THEOREM GpuTypes == Spec => []TypeOK
<1>1. StageInv /\ DeviceInv /\ ThreadInv /\ KeptInv /\ CountsInv /\ RestInv => TypeOK
  <2> SUFFICES ASSUME StageInv, DeviceInv, ThreadInv, KeptInv, CountsInv, RestInv PROVE TypeOK
    OBVIOUS
  <2>1. Handles \cup NoHandle = Names
    BY HandleNames DEF Names, NoHandle
  <2>2. todo \in Seq(Names)
    <3>1. CASE host = "setup"
      <4>1. PICK s \in Seq(Names) : s = SetupCalls[api]
        BY SetupOrder DEF DeviceInv
      <4>2. PICK l \in Nat : l = Len(s)
        BY LenProperties
      <4>3. PICK n \in 0..(l - 1) : todo = [i \in 1..(l - n) |-> s[i + n]]
        BY <3>1, <4>1, <4>2 DEF DeviceInv, SettingUp
      <4>4. \A i \in 1..(l - n) : i + n \in 1..l
        OBVIOUS
      <4>5. \A i \in 1..(l - n) : s[i + n] \in Names
        BY <4>2, <4>4, ElementOfSeq
      <4>6. l - n \in Nat
        OBVIOUS
      <4> QED
        BY <4>3, <4>5, <4>6
    <3>2. CASE host \in {"unwind", "teardown"}
      <4>1. todo \in Seq(Handles) /\ Handles \subseteq Names
        BY <2>1, <3>2 DEF DeviceInv, Releasing
      <4> QED
        BY <4>1
    <3>3. CASE host \notin {"setup", "unwind", "teardown"}
      BY <3>3 DEF RestInv
    <3> QED
      BY <3>1, <3>2, <3>3
  <2>3. DeviceTypeOK
    BY <2>1, <2>2 DEF DeviceTypeOK, DeviceInv, RestInv
  <2>4. kept \in Seq(Golden)
    <3>1. kept \in Seq(Golden \ Bad)
      BY DEF KeptInv
    <3> QED
      BY <3>1
  <2>5. host \in Stages
    BY DEF StageInv
  <2> QED
    BY <2>3, <2>4, <2>5 DEF TypeOK, Stages, ThreadInv, CountsInv, RestInv
<1> QED
  BY <1>1, StagesCorrect, DeviceCorrect, ThreadsCorrect, GoodOnesKept, CountsCorrect, RestCorrect,
     PTL
=============================================================================

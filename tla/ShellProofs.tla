---------------------------- MODULE ShellProofs ----------------------------
(***************************************************************************)
(* The theorems about Shell, for a line of any length.                     *)
(***************************************************************************)
EXTENDS Shell, SequenceTheorems, FiniteSetTheorems, TLAPS

-----------------------------------------------------------------------------
(***************************************************************************)
(* The lists of calls                                                      *)
(***************************************************************************)
Calls == [call : {"pipe"}, pipe : Stage] \cup [call : {"close"}, fds : SUBSET Fd]
         \cup [call : {"mapData", "mapFd"}, old : Fd, new : Fd] \cup [call : {"destroy"}]
         \cup [call : {"create", "wait"}, child : Procs]

\* What a child of a shell does before it goes on with the line, and what a
\* shell does at a "|".
ForkCalls    == Dup(2, 0) \o Close({2}) \o Close({3})
PipeCalls(i) == <<[call |-> "pipe", pipe |-> i]>> \o Create(Sub(i + 1)) \o Dup(3, 1) \o Close({3}) \o Close({2})

LEMMA Numbers == /\ N \in Nat /\ Size \in Nat /\ MaxBytes \in Nat
                 /\ \A i \in Stage : Sub(i) \in Procs /\ Cmd(i) \in Procs
                 /\ \A i \in Stage : StageOf(Cmd(i)) = i /\ StageOf(Sub(i)) = i
                 /\ \A i, j \in Stage : Sub(i) # Cmd(j) /\ (Sub(i) = Sub(j) <=> i = j) /\ (Cmd(i) = Cmd(j) <=> i = j)
                 /\ \A p \in Procs : \E i \in Stage : p = Sub(i) \/ p = Cmd(i)
  <1>1. N \in Nat /\ Size \in Nat /\ MaxBytes \in Nat
    BY ShellAssumption
  <1>2. \A p \in Procs : \E i \in Stage : p = Sub(i) \/ p = Cmd(i)
    <2>1. SUFFICES ASSUME NEW p \in Procs PROVE \E i \in Stage : p = Sub(i) \/ p = Cmd(i)
      OBVIOUS
    <2>2. CASE p <= N
      BY <1>1, <2>2 DEF Procs, Stage, Sub
    <2>3. CASE p > N
      <3>1. p - N \in Stage /\ p = Cmd(p - N)
        BY <1>1, <2>3 DEF Procs, Stage, Cmd
      <3> QED
        BY <3>1
    <2> QED
      BY <1>1, <2>2, <2>3 DEF Procs
  <1> QED
    BY <1>1, <1>2 DEF Stage, Procs, Sub, Cmd, StageOf

\* One list, and then another.
Then(s, t) == s \o t

LEMMA Joined ==
  ASSUME NEW S, NEW s \in Seq(S), NEW t \in Seq(S)
  PROVE  /\ Then(s, t) \in Seq(S) /\ Len(Then(s, t)) = Len(s) + Len(t)
         /\ \A k \in 1 .. Len(s) + Len(t) : Then(s, t)[k] = IF k <= Len(s) THEN s[k] ELSE t[k - Len(s)]
  BY DEF Then

LEMMA FdsAre == 0 \in Fd /\ 1 \in Fd /\ 2 \in Fd /\ 3 \in Fd /\ \A s \in Fd : s \in {0, 1, 2, 3} /\ {s} \in SUBSET Fd
  BY DEF Fd

LEMMA CloseIn ==
  ASSUME NEW S \in SUBSET Fd
  PROVE  Close(S) \in Seq(Calls) /\ Len(Close(S)) = 1 /\ Close(S)[1] = [call |-> "close", fds |-> S]
         /\ [call |-> "close", fds |-> S] \in Calls
  <1>1. [call |-> "close", fds |-> S] \in Calls
    BY DEF Calls
  <1> QED
    BY <1>1 DEF Close

LEMMA DupIs ==
  ASSUME NEW o \in Fd, NEW n \in Fd
  PROVE  /\ Dup(o, n) \in Seq(Calls) /\ Len(Dup(o, n)) = 3
         /\ Dup(o, n)[1] = [call |-> "close", fds |-> {n}]
         /\ Dup(o, n)[2] = [call |-> "mapData", old |-> o, new |-> n]
         /\ Dup(o, n)[3] = [call |-> "mapFd", old |-> o, new |-> n]
  <1> DEFINE a == Close({n})
             b == <<[call |-> "mapData", old |-> o, new |-> n], [call |-> "mapFd", old |-> o, new |-> n]>>
  <1>1. a \in Seq(Calls) /\ Len(a) = 1 /\ a[1] = [call |-> "close", fds |-> {n}]
    BY CloseIn, FdsAre
  <1>2. b \in Seq(Calls) /\ Len(b) = 2 /\ b[1] = [call |-> "mapData", old |-> o, new |-> n]
        /\ b[2] = [call |-> "mapFd", old |-> o, new |-> n]
    <2>1. [call |-> "mapData", old |-> o, new |-> n] \in Calls /\ [call |-> "mapFd", old |-> o, new |-> n] \in Calls
      BY DEF Calls
    <2> QED
      BY <2>1
  <1>3. Dup(o, n) = Then(a, b)
    BY DEF Dup, Then
  <1> HIDE DEF a, b
  <1> DEFINE c == Then(a, b)
  <1>5. c \in Seq(Calls) /\ Len(c) = 3 /\ c[1] = a[1] /\ c[2] = b[1] /\ c[3] = b[2]
    <2>1. a \in Seq(Calls) /\ b \in Seq(Calls)
      BY <1>1, <1>2
    <2>2. /\ c \in Seq(Calls) /\ Len(c) = Len(a) + Len(b)
          /\ \A k \in 1 .. Len(a) + Len(b) : c[k] = IF k <= Len(a) THEN a[k] ELSE b[k - Len(a)]
      BY <2>1, Joined
    <2> HIDE DEF c
    <2> QED
      BY <2>2, <1>1, <1>2
  <1> QED
    BY <1>1, <1>2, <1>3, <1>5

LEMMA ForkCallsAre ==
  /\ ForkCalls \in Seq(Calls) /\ Len(ForkCalls) = 5
  /\ ForkCalls[1] = [call |-> "close", fds |-> {0}]
  /\ ForkCalls[2] = [call |-> "mapData", old |-> 2, new |-> 0]
  /\ ForkCalls[3] = [call |-> "mapFd", old |-> 2, new |-> 0]
  /\ ForkCalls[4] = [call |-> "close", fds |-> {2}]
  /\ ForkCalls[5] = [call |-> "close", fds |-> {3}]
  <1> DEFINE d == Dup(2, 0)
             a == Close({2})
             b == Close({3})
             e == Then(d, a)
             f == Then(e, b)
  <1>1. d \in Seq(Calls) /\ Len(d) = 3 /\ d[1] = [call |-> "close", fds |-> {0}]
        /\ d[2] = [call |-> "mapData", old |-> 2, new |-> 0] /\ d[3] = [call |-> "mapFd", old |-> 2, new |-> 0]
    BY DupIs, FdsAre
  <1>2. a \in Seq(Calls) /\ Len(a) = 1 /\ a[1] = [call |-> "close", fds |-> {2}]
    BY CloseIn, FdsAre
  <1>3. b \in Seq(Calls) /\ Len(b) = 1 /\ b[1] = [call |-> "close", fds |-> {3}]
    BY CloseIn, FdsAre
  <1>4. ForkCalls = f
    BY DEF ForkCalls, Then
  <1>5. 3 \in Nat /\ 4 \in Nat /\ 3 + 1 = 4 /\ 4 + 1 = 5
    OBVIOUS
  <1> HIDE DEF d, a, b
  <1>6. e \in Seq(Calls) /\ Len(e) = 3 + 1 /\ e[3 + 1] = a[1] /\ \A k \in 1 .. 3 : e[k] = d[k]
    <2>1. d \in Seq(Calls) /\ a \in Seq(Calls)
      BY <1>1, <1>2
    <2>2. /\ e \in Seq(Calls) /\ Len(e) = Len(d) + Len(a)
          /\ \A k \in 1 .. Len(d) + Len(a) : e[k] = IF k <= Len(d) THEN d[k] ELSE a[k - Len(d)]
      BY <2>1, Joined
    <2> HIDE DEF e
    <2> QED
      BY <2>2, <1>1, <1>2
  <1> HIDE DEF e
  <1>7. f \in Seq(Calls) /\ Len(f) = 4 + 1 /\ f[4 + 1] = b[1] /\ \A k \in 1 .. 4 : f[k] = e[k]
    <2>1. e \in Seq(Calls) /\ b \in Seq(Calls)
      BY <1>3, <1>6
    <2>2. /\ f \in Seq(Calls) /\ Len(f) = Len(e) + Len(b)
          /\ \A k \in 1 .. Len(e) + Len(b) : f[k] = IF k <= Len(e) THEN e[k] ELSE b[k - Len(e)]
      BY <2>1, Joined
    <2> HIDE DEF f
    <2> QED
      BY <2>2, <1>3, <1>6
  <1> HIDE DEF f
  <1>8. f[1] = d[1] /\ f[2] = d[2] /\ f[3] = d[3] /\ f[4] = a[1] /\ f[5] = b[1]
    BY <1>6, <1>7
  <1> QED
    BY <1>1, <1>2, <1>3, <1>4, <1>7, <1>8

LEMMA PipeCallsAre ==
  ASSUME NEW i \in Stage, i + 1 \in Stage
  PROVE  /\ PipeCalls(i) \in Seq(Calls) /\ Len(PipeCalls(i)) = 7
         /\ PipeCalls(i)[1] = [call |-> "pipe", pipe |-> i]
         /\ PipeCalls(i)[2] = [call |-> "create", child |-> Sub(i + 1)]
         /\ PipeCalls(i)[3] = [call |-> "close", fds |-> {1}]
         /\ PipeCalls(i)[4] = [call |-> "mapData", old |-> 3, new |-> 1]
         /\ PipeCalls(i)[5] = [call |-> "mapFd", old |-> 3, new |-> 1]
         /\ PipeCalls(i)[6] = [call |-> "close", fds |-> {3}]
         /\ PipeCalls(i)[7] = [call |-> "close", fds |-> {2}]
  <1> DEFINE d == Dup(3, 1)
             a == Close({3})
             b == Close({2})
             q == <<[call |-> "pipe", pipe |-> i]>>
             c == Create(Sub(i + 1))
             e == Then(q, c)
             f == Then(e, d)
             g == Then(f, a)
             h == Then(g, b)
  <1>1. d \in Seq(Calls) /\ Len(d) = 3 /\ d[1] = [call |-> "close", fds |-> {1}]
        /\ d[2] = [call |-> "mapData", old |-> 3, new |-> 1] /\ d[3] = [call |-> "mapFd", old |-> 3, new |-> 1]
    BY DupIs, FdsAre
  <1>2. a \in Seq(Calls) /\ Len(a) = 1 /\ a[1] = [call |-> "close", fds |-> {3}]
    BY CloseIn, FdsAre
  <1>3. b \in Seq(Calls) /\ Len(b) = 1 /\ b[1] = [call |-> "close", fds |-> {2}]
    BY CloseIn, FdsAre
  <1>4. q \in Seq(Calls) /\ Len(q) = 1 /\ q[1] = [call |-> "pipe", pipe |-> i]
    <2>1. [call |-> "pipe", pipe |-> i] \in Calls
      BY DEF Calls
    <2> QED
      BY <2>1
  <1>5. c \in Seq(Calls) /\ Len(c) = 1 /\ c[1] = [call |-> "create", child |-> Sub(i + 1)]
    <2>1. Sub(i + 1) \in Procs
      BY Numbers
    <2>2. [call |-> "create", child |-> Sub(i + 1)] \in Calls
      BY <2>1 DEF Calls
    <2> QED
      BY <2>2 DEF Create
  <1>6. PipeCalls(i) = h
    BY DEF PipeCalls, Then
  <1>7. 1 \in Nat /\ 2 \in Nat /\ 3 \in Nat /\ 5 \in Nat /\ 6 \in Nat
        /\ 1 + 1 = 2 /\ 2 + 3 = 5 /\ 5 + 1 = 6 /\ 6 + 1 = 7
    OBVIOUS
  <1> HIDE DEF d, a, b, q, c
  <1>8. e \in Seq(Calls) /\ Len(e) = 1 + 1 /\ e[1 + 1] = c[1] /\ \A k \in 1 .. 1 : e[k] = q[k]
    <2>1. q \in Seq(Calls) /\ c \in Seq(Calls)
      BY <1>4, <1>5
    <2>2. /\ e \in Seq(Calls) /\ Len(e) = Len(q) + Len(c)
          /\ \A k \in 1 .. Len(q) + Len(c) : e[k] = IF k <= Len(q) THEN q[k] ELSE c[k - Len(q)]
      BY <2>1, Joined
    <2> HIDE DEF e
    <2> QED
      BY <2>2, <1>4, <1>5
  <1> HIDE DEF e
  <1>9. f \in Seq(Calls) /\ Len(f) = 2 + 3 /\ (\A k \in 1 .. 2 : f[k] = e[k]) /\ \A k \in 1 .. 3 : f[2 + k] = d[k]
    <2>1. e \in Seq(Calls) /\ d \in Seq(Calls)
      BY <1>1, <1>8
    <2>2. /\ f \in Seq(Calls) /\ Len(f) = Len(e) + Len(d)
          /\ \A k \in 1 .. Len(e) + Len(d) : f[k] = IF k <= Len(e) THEN e[k] ELSE d[k - Len(e)]
      BY <2>1, Joined
    <2> HIDE DEF f
    <2> QED
      BY <2>2, <1>1, <1>8
  <1> HIDE DEF f
  <1>10. g \in Seq(Calls) /\ Len(g) = 5 + 1 /\ g[5 + 1] = a[1] /\ \A k \in 1 .. 5 : g[k] = f[k]
    <2>1. f \in Seq(Calls) /\ a \in Seq(Calls)
      BY <1>2, <1>9
    <2>2. /\ g \in Seq(Calls) /\ Len(g) = Len(f) + Len(a)
          /\ \A k \in 1 .. Len(f) + Len(a) : g[k] = IF k <= Len(f) THEN f[k] ELSE a[k - Len(f)]
      BY <2>1, Joined
    <2> HIDE DEF g
    <2> QED
      BY <2>2, <1>2, <1>9
  <1> HIDE DEF g
  <1>11. h \in Seq(Calls) /\ Len(h) = 6 + 1 /\ h[6 + 1] = b[1] /\ \A k \in 1 .. 6 : h[k] = g[k]
    <2>1. g \in Seq(Calls) /\ b \in Seq(Calls)
      BY <1>3, <1>10
    <2>2. /\ h \in Seq(Calls) /\ Len(h) = Len(g) + Len(b)
          /\ \A k \in 1 .. Len(g) + Len(b) : h[k] = IF k <= Len(g) THEN g[k] ELSE b[k - Len(g)]
      BY <2>1, Joined
    <2> HIDE DEF h
    <2> QED
      BY <2>2, <1>3, <1>10
  <1> HIDE DEF h
  <1>12. e[1] = q[1] /\ f[3] = d[1] /\ f[4] = d[2] /\ f[5] = d[3] /\ f[1] = e[1] /\ f[2] = e[2]
    <2>1. 2 + 1 = 3 /\ 2 + 2 = 4 /\ 2 + 3 = 5
      OBVIOUS
    <2> QED
      BY <1>8, <1>9, <2>1
  <1>13. g[6] = a[1] /\ h[6] = g[6] /\ \A k \in 1 .. 5 : h[k] = f[k]
    BY <1>10, <1>11
  <1>14. h[1] = q[1] /\ h[2] = c[1] /\ h[3] = d[1] /\ h[4] = d[2] /\ h[5] = d[3] /\ h[6] = a[1] /\ h[7] = b[1]
    BY <1>7, <1>8, <1>11, <1>12, <1>13
  <1> QED
    BY <1>1, <1>2, <1>3, <1>4, <1>5, <1>6, <1>7, <1>11, <1>14

LineOK == line \in Seq(Words) /\ Len(line) \in Stage
On     == 1 .. Len(line)

LEMMA Stages == LineOK => /\ Len(line) \in Nat /\ On \subseteq Stage
                          /\ \A i \in On : i \in Nat /\ (i < Len(line) => i + 1 \in On /\ i + 1 \in Stage)
  BY ShellAssumption DEF LineOK, On, Stage

CloseIt   == [call |-> "close", fds |-> Fd]
CreateIt(q) == [call |-> "create", child |-> q]
WaitIt(q) == [call |-> "wait", child |-> q]
DestroyIt == [call |-> "destroy"]

\* runcmd() from "runit" on makes the command, if at all, before anything
\* else, and its shell is gone with the last call.
RunitShape(t, i) ==
  /\ t \in Seq(Calls) /\ Len(t) >= 2 /\ t[Len(t)] = DestroyIt
  /\ \A k \in 1 .. Len(t) : k < Len(t) =>
       t[k] = CloseIt \/ (k = 1 /\ t[k] = CreateIt(Cmd(i))) \/ t[k].call = "wait"
  /\ t[1] = CreateIt(Cmd(i)) => \E m \in 2 .. Len(t) : t[m] = WaitIt(Cmd(i))
  /\ line[i] # "empty" /\ i < Len(line) => \E m \in 2 .. Len(t) : t[m] = WaitIt(Sub(i + 1))

LEMMA OnesAre ==
  /\ CloseAll \in Seq(Calls) /\ Len(CloseAll) = 1 /\ CloseAll[1] = CloseIt
  /\ Exit \in Seq(Calls) /\ Len(Exit) = 2 /\ Exit[1] = CloseIt /\ Exit[2] = DestroyIt
  /\ \A q \in Procs : /\ Wait(q) \in Seq(Calls) /\ Len(Wait(q)) = 1 /\ Wait(q)[1] = WaitIt(q)
                      /\ Create(q) \in Seq(Calls) /\ Len(Create(q)) = 1 /\ Create(q)[1] = CreateIt(q)
  <1>1. CloseAll \in Seq(Calls) /\ Len(CloseAll) = 1 /\ CloseAll[1] = CloseIt
    BY CloseIn DEF CloseAll, CloseIt
  <1>2. ASSUME NEW q \in Procs
        PROVE  /\ Wait(q) \in Seq(Calls) /\ Len(Wait(q)) = 1 /\ Wait(q)[1] = WaitIt(q)
               /\ Create(q) \in Seq(Calls) /\ Len(Create(q)) = 1 /\ Create(q)[1] = CreateIt(q)
    <2>1. WaitIt(q) \in Calls /\ CreateIt(q) \in Calls
      BY DEF Calls, WaitIt, CreateIt
    <2> QED
      BY <2>1 DEF Wait, Create, WaitIt, CreateIt
  <1> DEFINE a == CloseAll
             b == <<DestroyIt>>
             c == Then(a, b)
  <1>3. b \in Seq(Calls) /\ Len(b) = 1 /\ b[1] = DestroyIt
    <2>1. DestroyIt \in Calls
      BY DEF Calls, DestroyIt
    <2> QED
      BY <2>1
  <1>4. Exit = c
    BY DEF Exit, Then, DestroyIt
  <1> HIDE DEF a, b
  <1>5. c \in Seq(Calls) /\ Len(c) = 2 /\ c[1] = a[1] /\ c[2] = b[1]
    <2>1. a \in Seq(Calls) /\ b \in Seq(Calls)
      BY <1>1, <1>3 DEF a
    <2>2. /\ c \in Seq(Calls) /\ Len(c) = Len(a) + Len(b)
          /\ \A k \in 1 .. Len(a) + Len(b) : c[k] = IF k <= Len(a) THEN a[k] ELSE b[k - Len(a)]
      BY <2>1, Joined
    <2>3. Len(a) = 1 /\ Len(b) = 1
      BY <1>1, <1>3 DEF a
    <2> HIDE DEF c
    <2> QED
      BY <2>2, <2>3
  <1> HIDE DEF c
  <1>6. Exit \in Seq(Calls) /\ Len(Exit) = 2 /\ Exit[1] = CloseIt /\ Exit[2] = DestroyIt
    BY <1>1, <1>3, <1>4, <1>5 DEF a
  <1> QED
    BY <1>1, <1>2, <1>6

LEMMA WaitPipeChildIs ==
  ASSUME LineOK, NEW i \in On
  PROVE  /\ WaitPipeChild(i) \in Seq(Calls)
         /\ IF i < Len(line) THEN Len(WaitPipeChild(i)) = 1 /\ WaitPipeChild(i)[1] = WaitIt(Sub(i + 1))
            ELSE Len(WaitPipeChild(i)) = 0
  <1>1. CASE i < Len(line)
    <2>1. Sub(i + 1) \in Procs
      BY <1>1, Stages, Numbers
    <2> QED
      BY <1>1, <2>1, OnesAre DEF WaitPipeChild
  <1>2. CASE ~(i < Len(line))
    <2>1. WaitPipeChild(i) = <<>> /\ <<>> \in Seq(Calls) /\ Len(<<>>) = 0
      BY <1>2, EmptySeq DEF WaitPipeChild
    <2> QED
      BY <1>2, <2>1
  <1> QED
    BY <1>1, <1>2

LEMMA RunitIs ==
  ASSUME LineOK, NEW i \in On
  PROVE  RunitShape(Runit(i), i)
  <1> DEFINE x == Exit
             z == CloseAll
             w == WaitPipeChild(i)
             l == Len(w)
  <1>1. x \in Seq(Calls) /\ Len(x) = 2 /\ x[1] = CloseIt /\ x[2] = DestroyIt
    BY OnesAre
  <1>2. z \in Seq(Calls) /\ Len(z) = 1 /\ z[1] = CloseIt
    BY OnesAre
  <1>3. w \in Seq(Calls) /\ (l = 0 \/ l = 1) /\ (l = 1 => w[1] = WaitIt(Sub(i + 1))) /\ (i < Len(line) => l = 1)
    BY WaitPipeChildIs
  <1>4. i \in Stage /\ Cmd(i) \in Procs
    BY Stages, Numbers
  <1>5. CASE line[i] = "empty"
    <2>1. Runit(i) = x
      BY <1>5 DEF Runit
    <2> HIDE DEF x
    <2>2. x[1] # CreateIt(Cmd(i)) /\ \A k \in 1 .. 2 : k < 2 => k = 1
      BY <1>1 DEF CloseIt, CreateIt
    <2>3. \A k \in 1 .. Len(x) : k < Len(x) => x[k] = CloseIt
      BY <1>1, <2>2
    <2>4. x \in Seq(Calls) /\ Len(x) >= 2 /\ x[Len(x)] = DestroyIt
      BY <1>1
    <2> QED
      BY <1>5, <2>1, <2>2, <2>3, <2>4 DEF RunitShape
  <1>6. CASE line[i] = "missing"
    <2> DEFINE e == Then(z, w)
               f == Then(e, x)
    <2>1. Runit(i) = f
      BY <1>6 DEF Runit, Then
    <2> HIDE DEF x, z, w
    <2>2. e \in Seq(Calls) /\ Len(e) = 1 + l /\ e[1] = z[1] /\ (l = 1 => e[2] = w[1])
      <3>1. z \in Seq(Calls) /\ w \in Seq(Calls)
        BY <1>2, <1>3
      <3>2. /\ e \in Seq(Calls) /\ Len(e) = Len(z) + Len(w)
            /\ \A k \in 1 .. Len(z) + Len(w) : e[k] = IF k <= Len(z) THEN z[k] ELSE w[k - Len(z)]
        BY <3>1, Joined
      <3> HIDE DEF e
      <3> QED
        BY <1>2, <1>3, <3>2
    <2> HIDE DEF e
    <2>3. /\ f \in Seq(Calls) /\ Len(f) = 3 + l /\ f[1] = e[1] /\ (l = 1 => f[2] = e[2])
          /\ f[2 + l] = x[1] /\ f[3 + l] = x[2]
      <3>1. e \in Seq(Calls) /\ x \in Seq(Calls)
        BY <1>1, <2>2
      <3>2. /\ f \in Seq(Calls) /\ Len(f) = Len(e) + Len(x)
            /\ \A k \in 1 .. Len(e) + Len(x) : f[k] = IF k <= Len(e) THEN e[k] ELSE x[k - Len(e)]
        BY <3>1, Joined
      <3> HIDE DEF f, l
      <3>3. CASE l = 0
        BY <1>1, <1>3, <2>2, <3>2, <3>3
      <3>4. CASE l = 1
        BY <1>1, <1>3, <2>2, <3>2, <3>4
      <3> QED
        BY <1>3, <3>3, <3>4
    <2> HIDE DEF f, l
    <2>4. f[1] = CloseIt /\ (l = 1 => f[2] = WaitIt(Sub(i + 1))) /\ f[2 + l] = CloseIt /\ f[3 + l] = DestroyIt
      BY <1>1, <1>2, <1>3, <2>2, <2>3
    <2>5. RunitShape(f, i)
      <3>1. CASE l = 0
        <4>1. Len(f) = 3 /\ f[2] = CloseIt /\ f[3] = DestroyIt
          BY <2>3, <2>4, <3>1
        <4>2. f[1] # CreateIt(Cmd(i)) /\ ~(i < Len(line))
          BY <1>3, <2>4, <3>1 DEF CloseIt, CreateIt
        <4>3. \A k \in 1 .. 3 : k < 3 => k = 1 \/ k = 2
          OBVIOUS
        <4>0. f \in Seq(Calls)
          BY <2>3
        <4>4. f \in Seq(Calls) /\ Len(f) >= 2 /\ f[Len(f)] = DestroyIt
          BY <4>0, <4>1
        <4>5. \A k \in 1 .. Len(f) : k < Len(f) => f[k] = CloseIt
          BY <2>4, <4>1, <4>3
        <4> QED
          BY <4>2, <4>4, <4>5 DEF RunitShape
      <3>2. CASE l = 1
        <4>1. Len(f) = 4 /\ f[2].call = "wait" /\ f[3] = CloseIt /\ f[4] = DestroyIt
          BY <2>3, <2>4, <3>2 DEF WaitIt
        <4>2. f[1] # CreateIt(Cmd(i))
          BY <2>4 DEF CloseIt, CreateIt
        <4> QED
          BY <2>3, <2>4, <3>2, <4>1, <4>2 DEF RunitShape
      <3> QED
        BY <1>3, <3>1, <3>2
    <2> QED
      BY <2>1, <2>5
  <1>7. CASE line[i] \notin {"empty", "missing"}
    <2> DEFINE a == Create(Cmd(i))
               b == Wait(Cmd(i))
               c == Then(a, z)
               d == Then(c, b)
               e == Then(d, w)
               f == Then(e, x)
    <2>1. Runit(i) = f
      BY <1>7 DEF Runit, Then
    <2>2. a \in Seq(Calls) /\ Len(a) = 1 /\ a[1] = CreateIt(Cmd(i)) /\ b \in Seq(Calls) /\ Len(b) = 1 /\ b[1] = WaitIt(Cmd(i))
      BY <1>4, OnesAre
    <2> HIDE DEF x, z, w, a, b
    <2>3. c \in Seq(Calls) /\ Len(c) = 2 /\ c[1] = a[1] /\ c[2] = z[1]
      <3>1. a \in Seq(Calls) /\ z \in Seq(Calls)
        BY <1>2, <2>2
      <3>2. /\ c \in Seq(Calls) /\ Len(c) = Len(a) + Len(z)
            /\ \A k \in 1 .. Len(a) + Len(z) : c[k] = IF k <= Len(a) THEN a[k] ELSE z[k - Len(a)]
        BY <3>1, Joined
      <3> HIDE DEF c
      <3> QED
        BY <1>2, <2>2, <3>2
    <2> HIDE DEF c
    <2>4. d \in Seq(Calls) /\ Len(d) = 3 /\ d[1] = c[1] /\ d[2] = c[2] /\ d[3] = b[1]
      <3>1. c \in Seq(Calls) /\ b \in Seq(Calls)
        BY <2>2, <2>3
      <3>2. /\ d \in Seq(Calls) /\ Len(d) = Len(c) + Len(b)
            /\ \A k \in 1 .. Len(c) + Len(b) : d[k] = IF k <= Len(c) THEN c[k] ELSE b[k - Len(c)]
        BY <3>1, Joined
      <3> HIDE DEF d
      <3> QED
        BY <2>2, <2>3, <3>2
    <2> HIDE DEF d
    <2>5. /\ e \in Seq(Calls) /\ Len(e) = 3 + l /\ e[1] = d[1] /\ e[2] = d[2] /\ e[3] = d[3] /\ (l = 1 => e[4] = w[1])
      <3>1. d \in Seq(Calls) /\ w \in Seq(Calls)
        BY <1>3, <2>4
      <3>2. /\ e \in Seq(Calls) /\ Len(e) = Len(d) + Len(w)
            /\ \A k \in 1 .. Len(d) + Len(w) : e[k] = IF k <= Len(d) THEN d[k] ELSE w[k - Len(d)]
        BY <3>1, Joined
      <3> HIDE DEF e
      <3> QED
        BY <1>3, <2>4, <3>2
    <2> HIDE DEF e
    <2>6. /\ f \in Seq(Calls) /\ Len(f) = 5 + l /\ f[1] = e[1] /\ f[2] = e[2] /\ f[3] = e[3] /\ (l = 1 => f[4] = e[4])
          /\ f[4 + l] = x[1] /\ f[5 + l] = x[2]
      <3>1. e \in Seq(Calls) /\ x \in Seq(Calls)
        BY <1>1, <2>5
      <3>2. /\ f \in Seq(Calls) /\ Len(f) = Len(e) + Len(x)
            /\ \A k \in 1 .. Len(e) + Len(x) : f[k] = IF k <= Len(e) THEN e[k] ELSE x[k - Len(e)]
        BY <3>1, Joined
      <3> HIDE DEF f, l
      <3>3. CASE l = 0
        BY <1>1, <1>3, <2>5, <3>2, <3>3
      <3>4. CASE l = 1
        BY <1>1, <1>3, <2>5, <3>2, <3>4
      <3> QED
        BY <1>3, <3>3, <3>4
    <2> HIDE DEF f, l
    <2>7. /\ f[1] = CreateIt(Cmd(i)) /\ f[2] = CloseIt /\ f[3] = WaitIt(Cmd(i))
          /\ (l = 1 => f[4] = WaitIt(Sub(i + 1))) /\ f[4 + l] = CloseIt /\ f[5 + l] = DestroyIt
      BY <1>1, <1>2, <1>3, <2>2, <2>3, <2>4, <2>5, <2>6
    <2>8. f[3].call = "wait"
      BY <2>7 DEF WaitIt
    <2>9. RunitShape(f, i)
      <3>1. CASE l = 0
        <4>1. Len(f) = 5 /\ f[4] = CloseIt /\ f[5] = DestroyIt
          BY <2>6, <2>7, <3>1
        <4>2. ~(i < Len(line))
          BY <1>3, <3>1
        <4>3. \A k \in 1 .. 5 : k < 5 => k = 1 \/ k = 2 \/ k = 3 \/ k = 4
          OBVIOUS
        <4>0. f \in Seq(Calls)
          BY <2>6
        <4>4. f \in Seq(Calls) /\ Len(f) >= 2 /\ f[Len(f)] = DestroyIt
          BY <4>0, <4>1
        <4>5. \A k \in 1 .. Len(f) : k < Len(f) =>
                f[k] = CloseIt \/ (k = 1 /\ f[k] = CreateIt(Cmd(i))) \/ f[k].call = "wait"
          BY <2>7, <2>8, <4>1, <4>3
        <4>6. 3 \in 2 .. Len(f)
          BY <4>1
        <4> QED
          BY <2>7, <4>2, <4>4, <4>5, <4>6 DEF RunitShape
      <3>2. CASE l = 1
        <4>1. Len(f) = 6 /\ f[4].call = "wait" /\ f[5] = CloseIt /\ f[6] = DestroyIt
          BY <2>6, <2>7, <3>2 DEF WaitIt
        <4> QED
          BY <2>6, <2>7, <2>8, <3>2, <4>1 DEF RunitShape
      <3> QED
        BY <1>3, <3>1, <3>2
    <2> QED
      BY <2>1, <2>9
  <1> QED
    BY <1>5, <1>6, <1>7

\* Where runcmd() from "again" on, and a child's list, get to "runit".
LEMMA RuncmdIs ==
  ASSUME LineOK, NEW i \in On
  PROVE  /\ Runcmd(i) \in Seq(Calls) /\ Forked(i) \in Seq(Calls)
         /\ ~(i < Len(line)) => Runcmd(i) = Runit(i)
         /\ i < Len(line) =>
              /\ Len(Runcmd(i)) = 7 + Len(Runit(i))
              /\ \A k \in 1 .. 7 + Len(Runit(i)) :
                   Runcmd(i)[k] = IF k <= 7 THEN PipeCalls(i)[k] ELSE Runit(i)[k - 7]
         /\ Len(Forked(i)) = 5 + Len(Runcmd(i))
         /\ \A k \in 1 .. 5 + Len(Runcmd(i)) :
              Forked(i)[k] = IF k <= 5 THEN ForkCalls[k] ELSE Runcmd(i)[k - 5]
  <1> DEFINE r == Runit(i)
             m == Runcmd(i)
             q == PipeCalls(i)
             g == ForkCalls
             h == Forked(i)
             mr == Then(q, r)
             hr == Then(g, m)
  <1>1. r \in Seq(Calls)
    BY RunitIs DEF RunitShape
  <1>2. IF i < Len(line) THEN m = mr ELSE m = Then(<<>>, r)
    BY DEF Runcmd, Then, PipeCalls
  <1>3. h = hr
    BY DEF Forked, Then, ForkCalls
  <1>4. i < Len(line) => q \in Seq(Calls) /\ Len(q) = 7
    BY PipeCallsAre, Stages
  <1>5. g \in Seq(Calls) /\ Len(g) = 5
    BY ForkCallsAre
  <1>6. Then(<<>>, r) = r
    BY <1>1, ConcatEmptySeq DEF Then
  <1> HIDE DEF r, m, q, g, h
  <1>7. i < Len(line) =>
          /\ m \in Seq(Calls) /\ Len(m) = 7 + Len(r)
          /\ \A k \in 1 .. 7 + Len(r) : m[k] = IF k <= 7 THEN q[k] ELSE r[k - 7]
    <2>1. i < Len(line) =>
            /\ mr \in Seq(Calls) /\ Len(mr) = Len(q) + Len(r)
            /\ \A k \in 1 .. Len(q) + Len(r) : mr[k] = IF k <= Len(q) THEN q[k] ELSE r[k - Len(q)]
      BY <1>1, <1>4, Joined
    <2> HIDE DEF mr
    <2> QED
      BY <1>2, <1>4, <2>1
  <1>8. m \in Seq(Calls) /\ (~(i < Len(line)) => m = r)
    BY <1>1, <1>2, <1>6, <1>7
  <1>9. /\ h \in Seq(Calls) /\ Len(h) = 5 + Len(m)
        /\ \A k \in 1 .. 5 + Len(m) : h[k] = IF k <= 5 THEN g[k] ELSE m[k - 5]
    <2>1. /\ hr \in Seq(Calls) /\ Len(hr) = Len(g) + Len(m)
          /\ \A k \in 1 .. Len(g) + Len(m) : hr[k] = IF k <= Len(g) THEN g[k] ELSE m[k - Len(g)]
      BY <1>5, <1>8, Joined
    <2> HIDE DEF hr
    <2> QED
      BY <1>3, <1>5, <2>1
  <1> QED
    BY <1>7, <1>8, <1>9 DEF r, m, q, g, h

-----------------------------------------------------------------------------
(***************************************************************************)
(* The inductive invariant                                                 *)
(***************************************************************************)
\* What is left of a list.
TailOf(t, w) ==
  t \in Seq(Calls) /\ Len(t) <= Len(w) /\ \A k \in 1 .. Len(t) : t[k] = w[Len(w) - Len(t) + k]

Program(i) == IF i = 1 THEN Runcmd(1) ELSE Forked(i)
Left(i)    == Len(todo[Sub(i)])
RunitLen(i)  == Len(Runit(i))
RuncmdLen(i) == Len(Runcmd(i))

Types ==
  /\ LineOK
  /\ status \in [Procs -> {"free", "live", "dead"}]
  /\ todo \in [Procs -> Seq(Calls)]
  /\ fd \in [Procs -> [Fd -> End \cup {None}]]
  /\ data \in [Procs -> [Fd -> Stage \cup {NoPipe}]]

\* A shell is somewhere in its list, a command that ends in exit().
Lists ==
  /\ \A i \in On : TailOf(todo[Sub(i)], Program(i))
  /\ \A i \in Stage : TailOf(todo[Cmd(i)], Exit)
  /\ \A i \in Stage \ On : status[Sub(i)] = "free" /\ status[Cmd(i)] = "free"
  /\ \A p \in Procs : status[p] # "live" => todo[p] = <<>>

\* Whoever has been started has been by the shell left of it.
Order ==
  \A i \in On :
    /\ status[Cmd(i)] # "free" => status[Sub(i)] # "free" /\ Left(i) < RunitLen(i)
    /\ i < Len(line) /\ status[Sub(i + 1)] # "free" =>
         status[Sub(i)] # "free" /\ Left(i) < RunitLen(i) + 6

\* Whoever runs maps a pipe's data wherever it maps one of its ends.
PairedAt(p) ==
  status[p] # "free" => \A s \in Fd : fd[p][s] # None => data[p][s] = fd[p][s][1]
Paired == \A p \in Procs : PairedAt(p)

\* A child that is not started yet has what its parent has, or not yet.
Making(p, q) == status[p] = "live" /\ todo[p] # <<>> /\ Head(todo[p]) = CreateIt(q)
HalfMade ==
  \A q \in Procs : status[q] = "free" =>
    \/ \A s \in Fd : fd[q][s] = None
    \/ \E p \in Procs : Making(p, q) /\ \A s \in Fd : fd[q][s] = None \/ fd[q][s] = fd[p][s]

\* Within dup().
DupAt(p) ==
  status[p] = "live" /\ todo[p] # <<>> =>
    LET c == Head(todo[p]) IN
      /\ c.call = "mapData" => fd[p][c.new] = None
      /\ c.call = "mapFd" => fd[p][c.new] = None /\ data[p][c.new] = data[p][c.old]
Dups == \A p \in Procs : DupAt(p)

\* Which ends a shell has, and until when it has those of others.
Fits(i, f, n) ==
  LET r == RunitLen(i)
      m == RuncmdLen(i)
  IN /\ f[0] \in {None, Rd(i - 1)} \/ (n = m + 5 /\ f[0] = Rd(i - 2))
     /\ f[1] \in {None, Wr(i)} /\ (n >= r + 6 => f[1] = None)
     /\ \/ f[2] = None
        \/ n >= m + 2 /\ f[2] = Rd(i - 1)
        \/ i < Len(line) /\ r < n /\ n <= r + 6 /\ f[2] = Rd(i)
     /\ \/ f[3] = None
        \/ n >= m + 1 /\ f[3] = Wr(i - 1)
        \/ i < Len(line) /\ r + 1 < n /\ n <= r + 6 /\ f[3] = Wr(i)
SubSlots == \A i \in On : status[Sub(i)] = "live" => Fits(i, fd[Sub(i)], Left(i))

CmdFits(i, f) == f[0] \in {None, Rd(i - 1)} /\ f[1] \in {None, Wr(i)}
CmdSlots      == \A i \in On : status[Cmd(i)] = "live" => CmdFits(i, fd[Cmd(i)])

\* Nobody has an end of a pipe that is not made.
Fresh ==
  \A p \in Procs, s \in Fd : fd[p][s] # None =>
    LET k == fd[p][s][1] IN k \in On /\ k < Len(line) /\ status[Sub(k)] # "free" /\ Left(k) <= RunitLen(k) + 6

Texts ==
  /\ bytes \in [Stage -> 0 .. Size]
  /\ at \in [Stage -> {"none", "read", "empty", "eof", "write", "full", "broken", "panic", "exit"}]
  /\ said \in 0 .. MaxBytes
  /\ \A i \in Stage : i = 1 /\ at[i] \in {"full", "broken"} => said < MaxBytes

Told ==
  \A i \in Stage :
    /\ In(i, "eof")    => Maps(Wr(Stdin(i)[1])) = {}
    /\ In(i, "broken") => Maps(Rd(Stdout(i)[1])) = {}

\* As long as no command left of a "|" is missing altogether.
NoGap == \A i \in On : i < Len(line) => line[i] # "empty"

Waits(i, q) == status[Sub(i)] = "live" /\ \E k \in 1 .. Left(i) : todo[Sub(i)][k] = WaitIt(q)

\* A shell has its wait() for whoever runs before it, and is there until then.
Nested ==
  NoGap => \A i \in On :
    /\ status[Cmd(i)] = "live" => Waits(i, Cmd(i))
    /\ \A j \in On : i < j /\ (status[Sub(j)] = "live" \/ status[Cmd(j)] = "live") => Waits(i, Sub(i + 1))

-----------------------------------------------------------------------------
(***************************************************************************)
(* Where a process is                                                      *)
(***************************************************************************)
LEMMA EndsDiffer ==
  /\ \A i, j \in Int : /\ (Rd(i) = Rd(j) <=> i = j) /\ (Wr(i) = Wr(j) <=> i = j) /\ Rd(i) # Wr(j)
                       /\ Rd(i) # None /\ Wr(i) # None /\ Rd(i)[1] = i /\ Wr(i)[1] = i
  /\ None[1] = 0 /\ None \notin End /\ \A e \in End : e[1] \in Stage /\ (e = Rd(e[1]) \/ e = Wr(e[1]))
  /\ \A i \in Stage : Rd(i) \in End /\ Wr(i) \in End
  /\ \A i \in Int : i \notin Stage => Rd(i) \notin End /\ Wr(i) \notin End
  <1>1. \A e \in End : e[1] \in Stage /\ (e = Rd(e[1]) \/ e = Wr(e[1]))
    BY DEF End, Rd, Wr
  <1>2. None \notin End
    BY DEF End, None
  <1> QED
    BY <1>1, <1>2 DEF End, Rd, Wr, None, Stage

\* What the first call left in a shell's list can be, by the length of the list.
Front(i, c, n) ==
  LET r == RunitLen(i)
      m == RuncmdLen(i)
  IN \/ /\ i > 1
        /\ \/ n = m + 5 /\ c = [call |-> "close", fds |-> {0}]
           \/ n = m + 4 /\ c = [call |-> "mapData", old |-> 2, new |-> 0]
           \/ n = m + 3 /\ c = [call |-> "mapFd", old |-> 2, new |-> 0]
           \/ n = m + 2 /\ c = [call |-> "close", fds |-> {2}]
           \/ n = m + 1 /\ c = [call |-> "close", fds |-> {3}]
     \/ /\ i < Len(line)
        /\ \/ n = r + 7 /\ c = [call |-> "pipe", pipe |-> i]
           \/ n = r + 6 /\ c = CreateIt(Sub(i + 1))
           \/ n = r + 5 /\ c = [call |-> "close", fds |-> {1}]
           \/ n = r + 4 /\ c = [call |-> "mapData", old |-> 3, new |-> 1]
           \/ n = r + 3 /\ c = [call |-> "mapFd", old |-> 3, new |-> 1]
           \/ n = r + 2 /\ c = [call |-> "close", fds |-> {3}]
           \/ n = r + 1 /\ c = [call |-> "close", fds |-> {2}]
     \/ n = r /\ c = CreateIt(Cmd(i))
     \/ n <= r /\ (c = CloseIt \/ c.call = "wait")
     \/ n = 1 /\ c = DestroyIt

LEMMA Lengths ==
  ASSUME LineOK, NEW i \in On
  PROVE  /\ RunitLen(i) \in Nat /\ RuncmdLen(i) \in Nat /\ RunitLen(i) >= 2
         /\ IF i < Len(line) THEN RuncmdLen(i) = RunitLen(i) + 7 ELSE RuncmdLen(i) = RunitLen(i)
         /\ Len(Forked(i)) = RuncmdLen(i) + 5
  <1>1. Runit(i) \in Seq(Calls) /\ Len(Runit(i)) >= 2
    BY RunitIs DEF RunitShape
  <1>2. PICK r \in Nat : r = Len(Runit(i)) /\ r >= 2
    BY <1>1
  <1>3. PICK m \in Nat : m = Len(Runcmd(i))
    BY RuncmdIs
  <1>4. IF i < Len(line) THEN m = r + 7 ELSE m = r
    BY <1>2, <1>3, RuncmdIs
  <1>5. Len(Forked(i)) = m + 5
    BY <1>3, RuncmdIs
  <1> QED
    BY <1>2, <1>3, <1>4, <1>5 DEF RunitLen, RuncmdLen

\* The same for a list that is not looked at from a state.
LEMMA RunitFront ==
  ASSUME LineOK, NEW i \in On, NEW n \in Nat, n > 0, n <= RunitLen(i)
  PROVE  Front(i, Runit(i)[RunitLen(i) - n + 1], n)
  <1>1. PICK r \in Nat : r = RunitLen(i) /\ r >= 2
    BY Lengths
  <1>2. PICK k \in 1 .. r : k = r - n + 1
    BY <1>1
  <1>3. Runit(i)[r] = DestroyIt
        /\ (k < r => Runit(i)[k] = CloseIt \/ (k = 1 /\ Runit(i)[k] = CreateIt(Cmd(i))) \/ Runit(i)[k].call = "wait")
    BY <1>1, RunitIs DEF RunitShape, RunitLen
  <1>4. CASE k = r
    BY <1>1, <1>2, <1>3, <1>4 DEF Front
  <1>5. CASE k < r
    BY <1>1, <1>2, <1>3, <1>5 DEF Front
  <1> QED
    BY <1>1, <1>2, <1>4, <1>5

LEMMA RuncmdFront ==
  ASSUME LineOK, NEW i \in On, NEW n \in Nat, n > 0, n <= RuncmdLen(i)
  PROVE  Front(i, Runcmd(i)[RuncmdLen(i) - n + 1], n)
  <1>1. PICK r \in Nat : r = RunitLen(i)
    BY Lengths
  <1>2. PICK m \in Nat : m = RuncmdLen(i)
    BY Lengths
  <1>3. CASE ~(i < Len(line))
    <2>1. m = r /\ Runcmd(i) = Runit(i)
      BY <1>1, <1>2, <1>3, Lengths, RuncmdIs
    <2> QED
      BY <1>1, <1>2, <2>1, RunitFront
  <1>4. CASE i < Len(line)
    <2>1. m = r + 7
      BY <1>1, <1>2, <1>4, Lengths
    <2>2. PICK k \in 1 .. r + 7 : k = m - n + 1
      BY <1>1, <1>2, <2>1
    <2>3. Runcmd(i)[k] = IF k <= 7 THEN PipeCalls(i)[k] ELSE Runit(i)[k - 7]
      <3>1. k \in 1 .. 7 + Len(Runit(i))
        BY <1>1, <2>2 DEF RunitLen
      <3> QED
        BY <1>4, <3>1, RuncmdIs
    <2>4. CASE n <= r
      <3>1. k > 7 /\ k - 7 = r - n + 1
        BY <1>1, <2>1, <2>2, <2>4
      <3> QED
        BY <1>1, <1>2, <2>2, <2>3, <2>4, <3>1, RunitFront
    <2>5. CASE n > r
      <3>1. k <= 7 /\ k \in 1 .. 7 /\ n = r + 8 - k
        BY <1>1, <2>1, <2>2, <2>5
      <3>2. Runcmd(i)[k] = PipeCalls(i)[k]
        BY <2>3, <3>1
      <3>3. i \in Stage /\ i + 1 \in Stage
        BY <1>4, Stages
      <3>4. k = 1 \/ k = 2 \/ k = 3 \/ k = 4 \/ k = 5 \/ k = 6 \/ k = 7
        BY <3>1
      <3>5. \/ (n = r + 7 /\ k = 1) \/ (n = r + 6 /\ k = 2) \/ (n = r + 5 /\ k = 3) \/ (n = r + 4 /\ k = 4)
            \/ (n = r + 3 /\ k = 5) \/ (n = r + 2 /\ k = 6) \/ (n = r + 1 /\ k = 7)
        <4>1. (r + 8) - 1 = r + 7 /\ (r + 8) - 2 = r + 6 /\ (r + 8) - 3 = r + 5 /\ (r + 8) - 4 = r + 4
              /\ (r + 8) - 5 = r + 3 /\ (r + 8) - 6 = r + 2 /\ (r + 8) - 7 = r + 1
          BY <1>1
        <4> QED
          BY <3>1, <3>4, <4>1
      <3>6. Front(i, Runcmd(i)[k], n)
        BY SMTT(40), <1>1, <1>4, <3>2, <3>3, <3>5, PipeCallsAre DEF Front, CreateIt
      <3> QED
        BY <1>2, <2>2, <3>6
    <2> QED
      BY <1>1, <2>4, <2>5
  <1> QED
    BY <1>3, <1>4

LEMMA ForkedFront ==
  ASSUME LineOK, NEW i \in On, i > 1, NEW n \in Nat, n > 0, n <= RuncmdLen(i) + 5
  PROVE  Front(i, Forked(i)[RuncmdLen(i) + 5 - n + 1], n)
  <1>1. PICK m \in Nat : m = RuncmdLen(i)
    BY Lengths
  <1>2. PICK k \in 1 .. m + 5 : k = m + 5 - n + 1
    BY <1>1
  <1>3. Forked(i)[k] = IF k <= 5 THEN ForkCalls[k] ELSE Runcmd(i)[k - 5]
    <2>1. k \in 1 .. 5 + Len(Runcmd(i))
      BY <1>1, <1>2 DEF RuncmdLen
    <2> QED
      BY <2>1, RuncmdIs
  <1>4. CASE n <= m
    <2>1. k > 5 /\ k - 5 = m - n + 1
      BY <1>1, <1>2, <1>4
    <2> QED
      BY <1>1, <1>2, <1>3, <1>4, <2>1, RuncmdFront
  <1>5. CASE n > m
    <2>1. k <= 5 /\ k \in 1 .. 5 /\ n = m + 6 - k
      BY <1>1, <1>2, <1>5
    <2>2. \/ (n = m + 5 /\ k = 1) \/ (n = m + 4 /\ k = 2) \/ (n = m + 3 /\ k = 3) \/ (n = m + 2 /\ k = 4)
          \/ (n = m + 1 /\ k = 5)
      <3>1. (m + 6) - 1 = m + 5 /\ (m + 6) - 2 = m + 4 /\ (m + 6) - 3 = m + 3 /\ (m + 6) - 4 = m + 2
            /\ (m + 6) - 5 = m + 1
        BY <1>1
      <3>2. k = 1 \/ k = 2 \/ k = 3 \/ k = 4 \/ k = 5
        BY <2>1
      <3> QED
        BY <2>1, <3>1, <3>2
    <2>3. Forked(i)[k] = ForkCalls[k]
      BY <1>3, <2>1
    <2>4. Front(i, Forked(i)[k], n)
      BY <1>1, <2>2, <2>3, ForkCallsAre DEF Front
    <2> QED
      BY <1>1, <1>2, <2>4
  <1> QED
    BY <1>1, <1>4, <1>5

LEMMA ShellFront ==
  ASSUME LineOK, NEW i \in On, NEW t, TailOf(t, Program(i)), t # <<>>
  PROVE  /\ Front(i, Head(t), Len(t)) /\ Len(t) \in Nat \ {0}
         /\ Len(t) <= IF i = 1 THEN RuncmdLen(i) ELSE RuncmdLen(i) + 5
  <1>1. i \in Stage /\ LineOK /\ i \in Nat
    BY Stages
  <1>2. t \in Seq(Calls)
    BY DEF TailOf
  <1>3. PICK n \in Nat : n = Len(t) /\ n > 0
    BY <1>2, EmptySeq
  <1>4. PICK m \in Nat : m = RuncmdLen(i)
    BY <1>1, Lengths
  <1>5. Head(t) = t[1] /\ 1 \in 1 .. n
    BY <1>2, <1>3
  <1>6. CASE i = 1
    <2>1. Program(i) = Runcmd(i) /\ Len(Program(i)) = m
      BY <1>4, <1>6 DEF Program, RuncmdLen
    <2>2. n <= m /\ t[1] = Runcmd(i)[m - n + 1]
      BY <1>2, <1>3, <1>5, <2>1 DEF TailOf
    <2> QED
      BY <1>1, <1>3, <1>4, <1>5, <1>6, <2>2, RuncmdFront
  <1>7. CASE i # 1
    <2>1. Program(i) = Forked(i) /\ Len(Program(i)) = m + 5
      BY <1>1, <1>4, <1>7, Lengths DEF Program
    <2>2. n <= m + 5 /\ t[1] = Forked(i)[m + 5 - n + 1]
      <3>1. n <= Len(Program(i)) /\ t[1] = Program(i)[Len(Program(i)) - n + 1]
        BY <1>2, <1>3, <1>5 DEF TailOf
      <3> QED
        BY <2>1, <3>1
    <2>3. i > 1
      BY <1>1, <1>7 DEF Stage
    <2> QED
      BY <1>1, <1>3, <1>4, <1>5, <1>7, <2>2, <2>3, ForkedFront
  <1> QED
    BY <1>6, <1>7

LEMMA CommandFront ==
  ASSUME NEW t, TailOf(t, Exit), t # <<>>
  PROVE  (Len(t) = 2 /\ Head(t) = CloseIt) \/ (Len(t) = 1 /\ Head(t) = DestroyIt)
  <1>1. t \in Seq(Calls)
    BY DEF TailOf
  <1>2. PICK n \in Nat : n = Len(t) /\ n > 0
    BY <1>1, EmptySeq
  <1>3. Head(t) = t[1] /\ 1 \in 1 .. n
    BY <1>1, <1>2
  <1>4. n <= 2 /\ t[1] = Exit[2 - n + 1]
    <2>1. n <= Len(Exit) /\ t[1] = Exit[Len(Exit) - n + 1]
      BY <1>1, <1>2, <1>3 DEF TailOf
    <2> QED
      BY <2>1, OnesAre
  <1>5. n = 1 \/ n = 2
    <2>1. n <= 2
      BY <1>4
    <2>2. n \in Nat /\ n > 0
      BY <1>2
    <2> QED
      BY <2>1, <2>2
  <1>6. (2 - 1) + 1 = 2 /\ (2 - 2) + 1 = 1
    OBVIOUS
  <1> QED
    BY <1>2, <1>3, <1>4, <1>5, <1>6, OnesAre

-----------------------------------------------------------------------------
(***************************************************************************)
(* What a step of one process leaves alone                                 *)
(***************************************************************************)
LEMMA LineStays ==
  ASSUME line' = line
  PROVE  /\ On' = On /\ LineOK' = LineOK /\ NoGap' = NoGap /\ Len(line)' = Len(line)
         /\ \A i \in On : /\ RunitLen(i)' = RunitLen(i) /\ RuncmdLen(i)' = RuncmdLen(i)
                          /\ Program(i)' = Program(i) /\ Forked(i)' = Forked(i) /\ Runit(i)' = Runit(i)
  <1>1. \A i : Runit(i)' = Runit(i)
    BY DEF Runit, WaitPipeChild
  <1>2. \A i : Runcmd(i)' = Runcmd(i)
    BY <1>1 DEF Runcmd
  <1>3. \A i : Forked(i)' = Forked(i)
    BY <1>2 DEF Forked
  <1>4. \A i : Program(i)' = Program(i)
    BY <1>2, <1>3 DEF Program
  <1>5. On' = On /\ LineOK' = LineOK /\ NoGap' = NoGap
    BY DEF On, LineOK, NoGap
  <1> QED
    BY <1>1, <1>2, <1>3, <1>4, <1>5 DEF RunitLen, RuncmdLen

LEMMA TailShorter ==
  ASSUME NEW t, NEW w \in Seq(Calls), TailOf(t, w), t # <<>>
  PROVE  TailOf(Tail(t), w) /\ Len(Tail(t)) = Len(t) - 1 /\ Len(t) \in Nat \ {0}
  <1>1. t \in Seq(Calls)
    BY DEF TailOf
  <1>2. PICK n \in Nat : n = Len(t) /\ n > 0
    BY <1>1, EmptySeq
  <1>3. Tail(t) \in Seq(Calls) /\ Len(Tail(t)) = n - 1 /\ \A k \in 1 .. n - 1 : Tail(t)[k] = t[k + 1]
    BY <1>1, <1>2
  <1>4. PICK m \in Nat : m = Len(w)
    OBVIOUS
  <1>5. n <= m /\ \A k \in 1 .. n : t[k] = w[m - n + k]
    BY <1>2, <1>4 DEF TailOf
  <1>6. ASSUME NEW k \in 1 .. n - 1 PROVE Tail(t)[k] = w[m - (n - 1) + k]
    <2>1. k + 1 \in 1 .. n /\ m - n + (k + 1) = m - (n - 1) + k
      BY <1>2, <1>4
    <2>2. t[k + 1] = w[m - n + (k + 1)]
      BY <1>5, <2>1
    <2> QED
      BY <1>3, <2>1, <2>2
  <1> QED
    BY <1>2, <1>3, <1>4, <1>5, <1>6 DEF TailOf

LEMMA TailEmpty ==
  ASSUME NEW w \in Seq(Calls)
  PROVE  TailOf(<<>>, w)
  <1>1. <<>> \in Seq(Calls) /\ Len(<<>>) = 0 /\ Len(w) >= 0
    BY EmptySeq
  <1> QED
    BY <1>1 DEF TailOf

LEMMA TailWhole ==
  ASSUME NEW w \in Seq(Calls)
  PROVE  TailOf(w, w)
  <1>1. PICK n \in Nat : n = Len(w)
    OBVIOUS
  <1>2. \A k \in 1 .. n : n - n + k = k
    BY <1>1
  <1> QED
    BY <1>1, <1>2 DEF TailOf

LEMMA ProgramIs ==
  ASSUME LineOK, NEW i \in On
  PROVE  Program(i) \in Seq(Calls)
  BY RuncmdIs DEF Program

Base == Types /\ Lists /\ Order /\ Paired /\ HalfMade /\ Dups /\ SubSlots /\ CmdSlots /\ Fresh /\ Told

Alone(p) ==
  /\ line' = line
  /\ \A q \in Procs \ {p} : status'[q] = status[q] /\ todo'[q] = todo[q] /\ fd'[q] = fd[q] /\ data'[q] = data[q]

\* The ends that p has after a step are some it had, or those of a pipe it has
\* just made.
NewEnds(p) ==
  \A s \in Fd : fd'[p][s] # None =>
    \/ \E t \in Fd : fd'[p][s] = fd[p][t]
    \/ \E i \in On : /\ p = Sub(i) /\ i < Len(line) /\ Left(i) = RunitLen(i) + 7
                     /\ Len(todo'[p]) = RunitLen(i) + 6 /\ status'[p] = "live"
                     /\ fd'[p][s] \in {Rd(i), Wr(i)}

\* Whoever is told now was told before, on the same descriptors.
OldTold ==
  \A i \in Stage : /\ In(i, "eof")' => In(i, "eof") /\ fd'[Cmd(i)] = fd[Cmd(i)]
                   /\ In(i, "broken")' => In(i, "broken") /\ fd'[Cmd(i)] = fd[Cmd(i)]

LEMMA NumbersOn ==
  ASSUME LineOK
  PROVE  /\ \A i \in On : i \in Stage /\ i \in Int /\ i \in Nat /\ Sub(i) \in Procs /\ Cmd(i) \in Procs
         /\ \A i \in On : i < Len(line) => i + 1 \in On /\ Sub(i + 1) \in Procs
         /\ \A p \in Procs : \E i \in Stage : p = Sub(i) \/ p = Cmd(i)
  BY Stages, Numbers

\* The end of a pipe that everybody has let go stays so.
LEMMA ToldStays ==
  ASSUME Types, CmdSlots, Fresh, Told, Lists, Types', OldTold,
         \A q \in Procs, s \in Fd : fd'[q][s] # None =>
           \/ \E p \in Procs, t \in Fd : fd'[q][s] = fd[p][t]
           \/ \E i \in On : Left(i) = RunitLen(i) + 7 /\ fd'[q][s] \in {Rd(i), Wr(i)}
  PROVE  Told'
  <1> SUFFICES ASSUME NEW i \in Stage
               PROVE  /\ In(i, "eof")'    => Maps(Wr(Stdin(i)[1]))' = {}
                      /\ In(i, "broken")' => Maps(Rd(Stdout(i)[1]))' = {}
    BY DEF Told
  <1>1. i \in Int /\ Cmd(i) \in Procs /\ 0 \in Fd /\ 1 \in Fd /\ 0 \notin Stage /\ 0 \in Int
    BY Numbers DEF Stage, Fd
  <1>2. \A q \in Procs, s \in Fd : fd'[q][s] \in End \cup {None}
    BY DEF Types
  <1>3. LineOK /\ \A k \in On : k \in Int /\ RunitLen(k) \in Nat
    BY NumbersOn, Lengths DEF Types
  <1>4. ASSUME In(i, "eof")'
        PROVE  Maps(Wr(Stdin(i)[1]))' = {}
    <2>1. In(i, "eof") /\ Stdin(i)' = Stdin(i)
      <3>1. In(i, "eof") /\ fd'[Cmd(i)] = fd[Cmd(i)]
        BY <1>4 DEF OldTold
      <3> QED
        BY <3>1 DEF Stdin
    <2>2. \A q \in Procs, s \in Fd : fd[q][s] # Wr(Stdin(i)[1])
      <3>1. Maps(Wr(Stdin(i)[1])) = {}
        BY <2>1 DEF Told
      <3>2. ASSUME NEW q \in Procs, NEW s \in Fd PROVE fd[q][s] # Wr(Stdin(i)[1])
        <4>1. <<q, s>> \in Procs \X Fd /\ <<q, s>>[1] = q /\ <<q, s>>[2] = s
          OBVIOUS
        <4> QED
          BY <3>1, <4>1 DEF Maps
      <3> QED
        BY <3>2
    <2>3. i \in On /\ Stdin(i) \in {None, Rd(i - 1)}
      BY <2>1 DEF In, Lists, CmdSlots, CmdFits, Stdin
    <2>4. CASE Stdin(i) = None
      <3>1. Stdin(i)[1] = 0 /\ Wr(0) \notin End /\ Wr(0) # None
        BY <1>1, <2>4, EndsDiffer
      <3> QED
        BY <1>2, <2>1, <3>1 DEF Maps
    <2>5. CASE Stdin(i) # None
      <3>1. PICK k \in Int : k = i - 1 /\ Stdin(i) = Rd(k)
        BY <1>1, <2>3, <2>5
      <3>2. Stdin(i)[1] = k
        BY <3>1, EndsDiffer
      <3>3. k \in On /\ Left(k) <= RunitLen(k) + 6
        BY <1>1, <2>5, <3>2 DEF Fresh, Stdin
      <3>4. Left(k) # RunitLen(k) + 7
        <4>1. PICK r \in Nat : r = RunitLen(k)
          BY <1>3, <3>3
        <4> QED
          BY <3>3, <4>1
      <3>5. SUFFICES ASSUME NEW q \in Procs, NEW s \in Fd, fd'[q][s] = Wr(k) PROVE FALSE
        BY <2>1, <3>2 DEF Maps
      <3>6. Wr(k) # None /\ \A j \in Int : Wr(k) \in {Rd(j), Wr(j)} => j = k
        BY EndsDiffer
      <3>7. \/ \E p \in Procs, t \in Fd : fd[p][t] = Wr(k)
            \/ \E j \in On : Left(j) = RunitLen(j) + 7 /\ Wr(k) \in {Rd(j), Wr(j)}
        BY <3>5, <3>6
      <3> QED
        BY <1>3, <2>2, <3>2, <3>4, <3>6, <3>7
    <2> QED
      BY <2>4, <2>5
  <1>5. ASSUME In(i, "broken")'
        PROVE  Maps(Rd(Stdout(i)[1]))' = {}
    <2>1. In(i, "broken") /\ Stdout(i)' = Stdout(i)
      <3>1. In(i, "broken") /\ fd'[Cmd(i)] = fd[Cmd(i)]
        BY <1>5 DEF OldTold
      <3> QED
        BY <3>1 DEF Stdout
    <2>2. \A q \in Procs, s \in Fd : fd[q][s] # Rd(Stdout(i)[1])
      <3>1. Maps(Rd(Stdout(i)[1])) = {}
        BY <2>1 DEF Told
      <3>2. ASSUME NEW q \in Procs, NEW s \in Fd PROVE fd[q][s] # Rd(Stdout(i)[1])
        <4>1. <<q, s>> \in Procs \X Fd /\ <<q, s>>[1] = q /\ <<q, s>>[2] = s
          OBVIOUS
        <4> QED
          BY <3>1, <4>1 DEF Maps
      <3> QED
        BY <3>2
    <2>3. i \in On /\ Stdout(i) \in {None, Wr(i)}
      BY <2>1 DEF In, Lists, CmdSlots, CmdFits, Stdout
    <2>4. CASE Stdout(i) = None
      <3>1. Stdout(i)[1] = 0 /\ Rd(0) \notin End /\ Rd(0) # None
        BY <1>1, <2>4, EndsDiffer
      <3> QED
        BY <1>2, <2>1, <3>1 DEF Maps
    <2>5. CASE Stdout(i) # None
      <3>1. Stdout(i) = Wr(i)
        BY <2>3, <2>5
      <3>2. Stdout(i)[1] = i
        BY <1>1, <3>1, EndsDiffer
      <3>3. i \in On /\ Left(i) <= RunitLen(i) + 6
        BY <1>1, <2>5, <3>2 DEF Fresh, Stdout
      <3>4. Left(i) # RunitLen(i) + 7
        <4>1. PICK r \in Nat : r = RunitLen(i)
          BY <1>3, <3>3
        <4> QED
          BY <3>3, <4>1
      <3>5. SUFFICES ASSUME NEW q \in Procs, NEW s \in Fd, fd'[q][s] = Rd(i) PROVE FALSE
        BY <2>1, <3>2 DEF Maps
      <3>6. Rd(i) # None /\ \A j \in Int : Rd(i) \in {Rd(j), Wr(j)} => j = i
        BY <1>1, EndsDiffer
      <3>7. \/ \E p \in Procs, t \in Fd : fd[p][t] = Rd(i)
            \/ \E j \in On : Left(j) = RunitLen(j) + 7 /\ Rd(i) \in {Rd(j), Wr(j)}
        BY <3>5, <3>6
      <3> QED
        BY <1>3, <2>2, <3>2, <3>4, <3>6, <3>7
    <2> QED
      BY <2>4, <2>5
  <1> QED
    BY <1>4, <1>5

LEMMA AloneKeeps ==
  ASSUME Base, Types', NEW p \in Procs, status[p] = "live", Alone(p), NewEnds(p), OldTold,
         status'[p] \in {"live", "dead"}, status'[p] = "dead" => todo'[p] = <<>>,
         \A q \in Procs : ~Making(p, q),
         \A i \in On : p = Sub(i) => TailOf(todo'[p], Program(i)) /\ Len(todo'[p]) <= Left(i),
         \A i \in Stage : p = Cmd(i) => TailOf(todo'[p], Exit),
         PairedAt(p)', DupAt(p)',
         \A i \in On : p = Sub(i) /\ status'[p] = "live" => Fits(i, fd'[p], Len(todo'[p])),
         \A i \in On : p = Cmd(i) /\ status'[p] = "live" => CmdFits(i, fd'[p])
  PROVE  Base'
  <1>1. LineOK /\ line' = line /\ On' = On /\ Len(line)' = Len(line)
        /\ \A i \in On : /\ RunitLen(i)' = RunitLen(i) /\ RuncmdLen(i)' = RuncmdLen(i) /\ Program(i)' = Program(i)
                         /\ RunitLen(i) \in Nat /\ RuncmdLen(i) \in Nat
    BY LineStays, Lengths DEF Alone, Base, Types
  <1>2. /\ \A i \in On : i \in Stage /\ Sub(i) \in Procs /\ Cmd(i) \in Procs
        /\ \A i \in On : i < Len(line) => i + 1 \in On /\ Sub(i + 1) \in Procs
        /\ \A q \in Procs : \E i \in Stage : q = Sub(i) \/ q = Cmd(i)
    BY <1>1, NumbersOn
  <1>3. \A q \in Procs \ {p} : status'[q] = status[q] /\ todo'[q] = todo[q] /\ fd'[q] = fd[q] /\ data'[q] = data[q]
    BY DEF Alone
  <1>4. status'[p] # "free" /\ status[p] # "free"
    OBVIOUS
  <1>5. \A i \in On : Left(i)' = Len(todo'[Sub(i)]) /\ Left(i)' <= Left(i) /\ Left(i)' \in Nat /\ Left(i) \in Nat
    <2>1. SUFFICES ASSUME NEW i \in On
                   PROVE  Len(todo'[Sub(i)]) <= Left(i) /\ Len(todo'[Sub(i)]) \in Nat /\ Left(i) \in Nat
      BY DEF Left
    <2>2. todo'[Sub(i)] \in Seq(Calls) /\ todo[Sub(i)] \in Seq(Calls)
      BY <1>2 DEF Types, Base
    <2>3. Len(todo'[Sub(i)]) \in Nat /\ Left(i) \in Nat
      BY <2>2 DEF Left
    <2> QED
      BY <1>2, <1>3, <2>3 DEF Left
  <1>6. Lists'
    <2>1. \A i \in On : TailOf(todo'[Sub(i)], Program(i))
      BY <1>2, <1>3 DEF Base, Lists
    <2>2. \A i \in Stage : TailOf(todo'[Cmd(i)], Exit)
      BY <1>3, Numbers DEF Base, Lists
    <2>3. \A i \in Stage \ On : status'[Sub(i)] = "free" /\ status'[Cmd(i)] = "free"
      BY <1>3, <1>4, Numbers DEF Base, Lists
    <2>4. \A q \in Procs : status'[q] # "live" => todo'[q] = <<>>
      BY <1>3 DEF Base, Lists
    <2> QED
      BY <1>1, <2>1, <2>2, <2>3, <2>4 DEF Lists
  <1>7. \A q \in Procs : (status'[q] = "free") = (status[q] = "free")
    BY <1>3, <1>4
  <1>8. Order'
    <2>1. SUFFICES ASSUME NEW i \in On
                   PROVE  /\ status'[Cmd(i)] # "free" => status'[Sub(i)] # "free" /\ Left(i)' < RunitLen(i)
                          /\ i < Len(line) /\ status'[Sub(i + 1)] # "free" =>
                               status'[Sub(i)] # "free" /\ Left(i)' < RunitLen(i) + 6
      BY <1>1 DEF Order
    <2>2. /\ status[Cmd(i)] # "free" => status[Sub(i)] # "free" /\ Left(i) < RunitLen(i)
          /\ i < Len(line) /\ status[Sub(i + 1)] # "free" =>
               status[Sub(i)] # "free" /\ Left(i) < RunitLen(i) + 6
      BY DEF Base, Order
    <2>3. PICK n \in Nat, k \in Nat, r \in Nat : n = Left(i) /\ k = Left(i)' /\ k <= n /\ r = RunitLen(i)
      BY <1>1, <1>5
    <2> QED
      BY <1>2, <1>7, <2>2, <2>3
  <1>9. Paired'
    BY <1>3 DEF Base, Paired, PairedAt
  <1>10. HalfMade'
    <2>1. SUFFICES ASSUME NEW q \in Procs, status'[q] = "free"
                   PROVE  \/ \A s \in Fd : fd'[q][s] = None
                          \/ \E o \in Procs : Making(o, q)' /\ \A s \in Fd : fd'[q][s] = None \/ fd'[q][s] = fd'[o][s]
      BY DEF HalfMade
    <2>2. q # p /\ status[q] = "free" /\ fd'[q] = fd[q]
      BY <1>3, <1>4, <2>1
    <2>3. CASE \A s \in Fd : fd[q][s] = None
      BY <2>2, <2>3
    <2>4. CASE \E o \in Procs : Making(o, q) /\ \A s \in Fd : fd[q][s] = None \/ fd[q][s] = fd[o][s]
      <3>1. PICK o \in Procs : Making(o, q) /\ \A s \in Fd : fd[q][s] = None \/ fd[q][s] = fd[o][s]
        BY <2>4
      <3>2. o # p
        BY <3>1
      <3>3. Making(o, q)' /\ fd'[o] = fd[o]
        BY <1>3, <3>1, <3>2 DEF Making
      <3> QED
        BY <2>2, <3>1, <3>3
    <2> QED
      BY <2>2, <2>3, <2>4 DEF Base, HalfMade
  <1>11. Dups'
    BY <1>3 DEF Base, Dups, DupAt
  <1>12. SubSlots'
    <2>1. SUFFICES ASSUME NEW i \in On, status'[Sub(i)] = "live"
                   PROVE  Fits(i, fd[Sub(i)], Left(i))'
      BY <1>1 DEF SubSlots
    <2>2. SUFFICES Fits(i, fd'[Sub(i)], Left(i)')
      BY <1>1 DEF Fits
    <2>3. CASE p = Sub(i)
      BY <1>5, <2>1, <2>3
    <2>4. CASE p # Sub(i)
      BY <1>2, <1>3, <2>1, <2>4 DEF Base, SubSlots, Left
    <2> QED
      BY <2>3, <2>4
  <1>13. CmdSlots'
    BY <1>1, <1>2, <1>3 DEF Base, CmdSlots, CmdFits
  <1>14. Fresh'
    <2>1. SUFFICES ASSUME NEW q \in Procs, NEW s \in Fd, fd'[q][s] # None
                   PROVE  \E k \in On : /\ k = fd'[q][s][1] /\ k < Len(line) /\ status'[Sub(k)] # "free"
                                       /\ Left(k)' <= RunitLen(k) + 6
      BY <1>1 DEF Fresh
    <2>2. CASE \E o \in Procs, t \in Fd : fd'[q][s] = fd[o][t]
      <3>1. PICK o \in Procs, t \in Fd : fd'[q][s] = fd[o][t]
        BY <2>2
      <3>2. PICK k \in On : k = fd[o][t][1] /\ k < Len(line) /\ status[Sub(k)] # "free" /\ Left(k) <= RunitLen(k) + 6
        BY <2>1, <3>1 DEF Base, Fresh
      <3>3. status'[Sub(k)] # "free"
        BY <1>2, <1>7, <3>2
      <3>4. PICK n \in Nat, l \in Nat, r \in Nat : n = Left(k) /\ l = Left(k)' /\ l <= n /\ r = RunitLen(k)
        BY <1>1, <1>5, <3>2
      <3>5. Left(k)' <= RunitLen(k) + 6
        BY <3>2, <3>4
      <3> QED
        BY <3>1, <3>2, <3>3, <3>5
    <2>3. CASE \E i \in On : /\ p = Sub(i) /\ i < Len(line) /\ Len(todo'[p]) = RunitLen(i) + 6
                             /\ status'[p] = "live" /\ fd'[q][s] \in {Rd(i), Wr(i)}
      <3>1. PICK i \in On : /\ p = Sub(i) /\ i < Len(line) /\ Len(todo'[p]) = RunitLen(i) + 6
                            /\ status'[p] = "live" /\ fd'[q][s] \in {Rd(i), Wr(i)}
        BY <2>3
      <3>2. fd'[q][s][1] = i
        BY <1>1, <3>1, NumbersOn, EndsDiffer
      <3>3. Left(i)' <= RunitLen(i) + 6
        <4>1. Left(i)' = RunitLen(i) + 6
          BY <1>5, <3>1
        <4>2. PICK r \in Nat : r = RunitLen(i)
          BY <1>1
        <4> QED
          BY <4>1, <4>2
      <3> QED
        BY <3>1, <3>2, <3>3
    <2> QED
      BY <1>3, <2>1, <2>2, <2>3 DEF NewEnds
  <1>15. Told'
    <2>1. \A q \in Procs, s \in Fd : fd'[q][s] # None =>
            \/ \E o \in Procs, t \in Fd : fd'[q][s] = fd[o][t]
            \/ \E i \in On : Left(i) = RunitLen(i) + 7 /\ fd'[q][s] \in {Rd(i), Wr(i)}
      BY <1>3 DEF NewEnds
    <2> QED
      BY <2>1, ToldStays DEF Base
  <1> QED
    BY <1>6, <1>8, <1>9, <1>10, <1>11, <1>12, <1>13, <1>14, <1>15 DEF Base

\* Whose turn it is, and with what.
LEMMA CallIs ==
  ASSUME Types, Lists, NEW p \in Procs, status[p] = "live", todo[p] # <<>>
  PROVE  \E i \in On :
           \/ p = Sub(i) /\ Front(i, Head(todo[p]), Left(i))
           \/ p = Cmd(i) /\ Len(todo[p]) = 2 /\ Head(todo[p]) = CloseIt
           \/ p = Cmd(i) /\ Len(todo[p]) = 1 /\ Head(todo[p]) = DestroyIt
  <1>1. PICK i \in Stage : p = Sub(i) \/ p = Cmd(i)
    BY Numbers
  <1>2. i \in On
    BY <1>1 DEF Lists
  <1>3. CASE p = Sub(i)
    <2>1. TailOf(todo[p], Program(i)) /\ LineOK
      BY <1>2, <1>3 DEF Types, Lists
    <2> QED
      BY <1>2, <1>3, <2>1, ShellFront DEF Left
  <1>4. CASE p = Cmd(i)
    <2>1. TailOf(todo[p], Exit)
      BY <1>4 DEF Lists
    <2> QED
      BY <1>2, <1>4, <2>1, CommandFront
  <1> QED
    BY <1>1, <1>3, <1>4

LEMMA Moves ==
  ASSUME Base, NEW p \in Procs, status[p] = "live", todo[p] # <<>>, Head(todo[p]).call # "create",
         UNCHANGED <<line, status, at>>, todo' = todo \/ Done(p),
         \A i \in Stage : p = Cmd(i) => todo'[p] # <<>>,
         fd' \in [Procs -> [Fd -> End \cup {None}]],
         data' \in [Procs -> [Fd -> Stage \cup {NoPipe}]],
         \A q \in Procs \ {p} : fd'[q] = fd[q] /\ data'[q] = data[q],
         NewEnds(p), PairedAt(p)', DupAt(p)',
         \A i \in On : p = Sub(i) => Fits(i, fd'[p], Len(todo'[p])),
         \A i \in On : p = Cmd(i) => CmdFits(i, fd'[p])
  PROVE  Base'
  <1>1. todo'[p] = todo[p] \/ todo'[p] = Tail(todo[p])
    BY DEF Done, Base, Types
  <1>2. \A q \in Procs \ {p} : todo'[q] = todo[q]
    BY DEF Done, Base, Types
  <1>3. LineOK /\ todo[p] \in Seq(Calls)
    BY DEF Base, Types
  <1>4. \A i \in On : p = Sub(i) => TailOf(todo'[p], Program(i)) /\ Len(todo'[p]) <= Left(i)
    <2>1. SUFFICES ASSUME NEW i \in On, p = Sub(i)
                   PROVE  TailOf(todo'[p], Program(i)) /\ Len(todo'[p]) <= Left(i)
      OBVIOUS
    <2>2. TailOf(todo[p], Program(i)) /\ Program(i) \in Seq(Calls)
      BY <1>3, <2>1, ProgramIs DEF Base, Lists
    <2>3. TailOf(Tail(todo[p]), Program(i)) /\ Len(Tail(todo[p])) = Len(todo[p]) - 1 /\ Len(todo[p]) \in Nat \ {0}
      BY <2>2, TailShorter
    <2>4. PICK n \in Nat : n = Len(todo[p]) /\ n > 0 /\ Len(Tail(todo[p])) = n - 1 /\ Left(i) = n
      BY <2>1, <2>3 DEF Left
    <2>5. Len(todo'[p]) = n \/ Len(todo'[p]) = n - 1
      BY <1>1, <2>4
    <2>6. Len(todo'[p]) <= Left(i)
      BY <2>4, <2>5
    <2> QED
      BY <1>1, <2>2, <2>3, <2>6
  <1>5. \A i \in Stage : p = Cmd(i) => TailOf(todo'[p], Exit)
    <2>1. SUFFICES ASSUME NEW i \in Stage, p = Cmd(i) PROVE TailOf(todo'[p], Exit)
      OBVIOUS
    <2>2. TailOf(todo[p], Exit)
      BY <2>1 DEF Base, Lists
    <2>3. TailOf(Tail(todo[p]), Exit)
      BY <2>2, OnesAre, TailShorter
    <2> QED
      BY <1>1, <2>2, <2>3
  <1>6. Types'
    <2>1. LineOK'
      BY <1>3, LineStays
    <2>2. todo' \in [Procs -> Seq(Calls)]
      <3>1. Tail(todo[p]) \in Seq(Calls)
        BY <1>3
      <3> QED
        BY <3>1 DEF Done, Base, Types
    <2> QED
      BY <2>1, <2>2 DEF Base, Types
  <1>7. Alone(p)
    BY <1>2 DEF Alone
  <1>8. OldTold
    <2>1. SUFFICES ASSUME NEW i \in Stage, NEW w, In(i, w)'
                   PROVE  In(i, w) /\ fd'[Cmd(i)] = fd[Cmd(i)]
      BY DEF OldTold
    <2>2. Cmd(i) \in Procs
      BY Numbers
    <2>3. p # Cmd(i)
      BY <2>1 DEF In
    <2> QED
      BY <1>2, <2>1, <2>2, <2>3 DEF In
  <1>9. \A q \in Procs : ~Making(p, q)
    BY DEF Making, CreateIt
  <1> QED
    BY <1>4, <1>5, <1>6, <1>7, <1>8, <1>9, AloneKeeps

\* The list of a shell after one of its calls.
LEMMA AfterCall ==
  ASSUME Types, Lists, NEW i \in On, todo[Sub(i)] # <<>>
  PROVE  /\ Len(Tail(todo[Sub(i)])) = Left(i) - 1 /\ Left(i) \in Nat \ {0}
         /\ Tail(todo[Sub(i)]) # <<>> => Front(i, Head(Tail(todo[Sub(i)])), Left(i) - 1)
  <1>1. TailOf(todo[Sub(i)], Program(i)) /\ Program(i) \in Seq(Calls) /\ LineOK
    BY ProgramIs DEF Types, Lists
  <1>2. /\ TailOf(Tail(todo[Sub(i)]), Program(i)) /\ Len(Tail(todo[Sub(i)])) = Len(todo[Sub(i)]) - 1
        /\ Len(todo[Sub(i)]) \in Nat \ {0}
    BY <1>1, TailShorter
  <1> QED
    BY <1>1, <1>2, ShellFront DEF Left

\* In runcmd() from "runit" on a shell has nothing of dup() before it.
LEMMA NoDup ==
  ASSUME LineOK, NEW i \in On, NEW c, NEW n \in Nat, Front(i, c, n), n <= RunitLen(i)
  PROVE  c.call \in {"create", "close", "wait", "destroy"}
  <1>1. PICK r \in Nat, m \in Nat : r = RunitLen(i) /\ m = RuncmdLen(i) /\ r <= m
    BY Lengths
  <1> QED
    BY <1>1 DEF Front, CreateIt, CloseIt, DestroyIt

LEMMA PipeKeeps ==
  ASSUME Base, NEW p \in Procs, status[p] = "live", todo[p] # <<>>, Pipe(p, Head(todo[p]))
  PROVE  Base'
  <1> DEFINE c == Head(todo[p])
  <1>1. PICK i \in On : p = Sub(i) /\ Front(i, c, Left(i))
    BY CallIs DEF Base, Pipe, CloseIt, DestroyIt
  <1>2. LineOK /\ i \in Stage /\ i \in Int /\ 2 \in Fd /\ 3 \in Fd
    BY <1>1, NumbersOn, FdsAre DEF Base, Types
  <1>3. PICK r \in Nat, m \in Nat : r = RunitLen(i) /\ m = RuncmdLen(i) /\ IF i < Len(line) THEN m = r + 7 ELSE m = r
    BY <1>2, Lengths
  <1>4. i < Len(line) /\ Left(i) = r + 7 /\ c = [call |-> "pipe", pipe |-> i]
    BY <1>1, <1>3 DEF Front, CloseIt, DestroyIt, CreateIt, Pipe
  <1>5. todo'[p] = Tail(todo[p])
    BY DEF Pipe, Done, Base, Types
  <1>6. /\ Len(todo'[p]) = r + 6 /\ (todo'[p] # <<>> => Front(i, Head(todo'[p]), r + 6))
    BY <1>1, <1>4, <1>5, AfterCall DEF Base
  <1>7. /\ fd'[p] = [fd[p] EXCEPT ![2] = Rd(i), ![3] = Wr(i)] /\ data'[p] = [data[p] EXCEPT ![2] = i, ![3] = i]
        /\ fd' \in [Procs -> [Fd -> End \cup {None}]] /\ data' \in [Procs -> [Fd -> Stage \cup {NoPipe}]]
        /\ \A q \in Procs \ {p} : fd'[q] = fd[q] /\ data'[q] = data[q]
    <2>1. Rd(i) \in End /\ Wr(i) \in End
      BY <1>2, EndsDiffer
    <2>0. c.pipe = i
      BY <1>4
    <2>2. /\ fd' = [fd EXCEPT ![p][2] = Rd(i), ![p][3] = Wr(i)]
          /\ data' = [data EXCEPT ![p][2] = i, ![p][3] = i]
      <3> HIDE DEF c
      <3>1. Pipe(p, c)
        BY DEF c
      <3> QED
        BY <2>0, <3>1 DEF Pipe
    <2> QED
      BY <1>2, <2>1, <2>2 DEF Base, Types
  <1>8. /\ fd'[p][0] = fd[p][0] /\ fd'[p][1] = fd[p][1] /\ fd'[p][2] = Rd(i) /\ fd'[p][3] = Wr(i)
        /\ data'[p][0] = data[p][0] /\ data'[p][1] = data[p][1] /\ data'[p][2] = i /\ data'[p][3] = i
    BY <1>7, FdsAre DEF Base, Types
  <1>9. NewEnds(p)
    <2>1. status'[p] = "live"
      BY DEF Pipe
    <2>2. ASSUME NEW s \in Fd
          PROVE  (\E t \in Fd : fd'[p][s] = fd[p][t]) \/ fd'[p][s] \in {Rd(i), Wr(i)}
      BY <1>8, FdsAre
    <2>3. p = Sub(i) /\ i < Len(line) /\ Left(i) = RunitLen(i) + 7 /\ Len(todo'[p]) = RunitLen(i) + 6
      BY <1>1, <1>3, <1>4, <1>6
    <2> QED
      BY <2>1, <2>2, <2>3 DEF NewEnds
  <1>10. PairedAt(p)'
    <2>1. PairedAt(p)
      BY DEF Base, Paired
    <2>2. \A s \in Fd : fd[p][s] # None => data[p][s] = fd[p][s][1]
      BY <2>1 DEF PairedAt
    <2>3. Rd(i)[1] = i /\ Wr(i)[1] = i
      BY <1>2, EndsDiffer
    <2>4. ASSUME NEW s \in Fd, fd'[p][s] # None PROVE data'[p][s] = fd'[p][s][1]
      BY <1>8, <2>2, <2>3, <2>4, FdsAre
    <2> QED
      BY <2>4 DEF PairedAt
  <1>11. DupAt(p)'
    <2>1. todo'[p] # <<>> => Head(todo'[p]).call = "create"
      <3>1. SUFFICES ASSUME Front(i, Head(todo'[p]), r + 6) PROVE Head(todo'[p]) = CreateIt(Sub(i + 1))
        BY <1>6 DEF CreateIt
      <3>2. /\ r + 6 # m + 5 /\ r + 6 # m + 4 /\ r + 6 # m + 3 /\ r + 6 # m + 2 /\ r + 6 # m + 1
            /\ r + 6 # r + 7 /\ r + 6 # r + 5 /\ r + 6 # r + 4 /\ r + 6 # r + 3 /\ r + 6 # r + 2 /\ r + 6 # r + 1
            /\ r + 6 # r /\ ~(r + 6 <= r) /\ r + 6 # 1
        BY SMTT(40), <1>3, <1>4
      <3> QED
        BY <1>3, <3>1, <3>2 DEF Front
    <2> QED
      BY <2>1 DEF DupAt
  <1>12. Fits(i, fd'[p], Len(todo'[p]))
    <2>1. Fits(i, fd[p], r + 7)
      BY <1>1, <1>4 DEF Base, SubSlots
    <2> QED
      BY <1>3, <1>4, <1>6, <1>8, <2>1 DEF Fits
  <1>13. \A j \in Stage : p # Cmd(j) /\ (p = Sub(j) => j = i)
    BY <1>1, <1>2, Numbers
  <1>14. On \subseteq Stage
    BY <1>2, Stages
  <1> QED
    BY <1>7, <1>9, <1>10, <1>11, <1>12, <1>13, <1>14, Moves DEF Pipe, Base, Types

LEMMA MapDataKeeps ==
  ASSUME Base, NEW p \in Procs, status[p] = "live", todo[p] # <<>>, MapData(p, Head(todo[p]))
  PROVE  Base'
  <1> DEFINE c == Head(todo[p])
  <1>1. PICK i \in On : p = Sub(i) /\ Front(i, c, Left(i))
    BY CallIs DEF Base, MapData, CloseIt, DestroyIt
  <1>2. LineOK /\ i \in Stage /\ i \in Int
    BY <1>1, NumbersOn DEF Base, Types
  <1>3. PICK r \in Nat, m \in Nat : r = RunitLen(i) /\ m = RuncmdLen(i) /\ IF i < Len(line) THEN m = r + 7 ELSE m = r
    BY <1>2, Lengths
  <1>4. \/ i > 1 /\ Left(i) = m + 4 /\ c = [call |-> "mapData", old |-> 2, new |-> 0]
        \/ i < Len(line) /\ Left(i) = r + 4 /\ c = [call |-> "mapData", old |-> 3, new |-> 1]
    BY <1>1, <1>3 DEF Front, CloseIt, DestroyIt, CreateIt, MapData
  <1>5. todo'[p] = Tail(todo[p])
    BY DEF MapData, Done, Base, Types
  <1>6. PICK n \in Nat : n = Left(i) - 1 /\ Left(i) = n + 1
    BY <1>1, AfterCall DEF Base
  <1>7. Len(todo'[p]) = n /\ (todo'[p] # <<>> => Front(i, Head(todo'[p]), n))
    BY <1>1, <1>5, <1>6, AfterCall DEF Base
  <1>8. (i > 1 /\ n = m + 3 /\ c.old = 2 /\ c.new = 0) \/ (i < Len(line) /\ n = r + 3 /\ c.old = 3 /\ c.new = 1)
    BY SMTT(40), <1>3, <1>4, <1>6
  <1>9. c.old \in Fd /\ c.new \in Fd /\ c.old # c.new
    BY <1>8, FdsAre
  <1>10. /\ fd' = fd /\ data'[p] = [data[p] EXCEPT ![c.new] = data[p][c.old]]
         /\ data' \in [Procs -> [Fd -> Stage \cup {NoPipe}]]
         /\ \A q \in Procs \ {p} : data'[q] = data[q]
    BY <1>9 DEF Base, Types, MapData
  <1>11. DupAt(p)
    BY DEF Base, Dups
  <1>12. fd[p][c.new] = None
    BY <1>11 DEF DupAt, MapData
  <1>13. NewEnds(p)
    BY <1>10 DEF NewEnds
  <1>14. PairedAt(p)'
    <2>1. PairedAt(p)
      BY DEF Base, Paired
    <2>2. \A s \in Fd : s # c.new => data'[p][s] = data[p][s]
      BY <1>9, <1>10 DEF Base, Types
    <2>3. \A s \in Fd : fd[p][s] # None => data'[p][s] = fd[p][s][1]
      BY <1>12, <2>1, <2>2 DEF PairedAt
    <2> QED
      BY <1>10, <2>3 DEF PairedAt
  <1>15. DupAt(p)'
    <2>1. todo'[p] # <<>> =>
            Head(todo'[p]).call = "mapFd" /\ Head(todo'[p]).old = c.old /\ Head(todo'[p]).new = c.new
      <3>1. SUFFICES ASSUME Front(i, Head(todo'[p]), n)
                     PROVE  Head(todo'[p]) = [call |-> "mapFd", old |-> c.old, new |-> c.new]
        BY <1>7
      <3>2. CASE i > 1 /\ n = m + 3 /\ c.old = 2 /\ c.new = 0
        <4>1. Head(todo'[p]) = [call |-> "mapFd", old |-> 2, new |-> 0]
          BY SMTT(40), <1>3, <3>1, <3>2 DEF Front
        <4> QED
          BY <3>2, <4>1
      <3>3. CASE i < Len(line) /\ n = r + 3 /\ c.old = 3 /\ c.new = 1
        <4>1. Head(todo'[p]) = [call |-> "mapFd", old |-> 3, new |-> 1]
          <5>1. /\ r + 3 # m + 5 /\ r + 3 # m + 4 /\ r + 3 # m + 3 /\ r + 3 # m + 2 /\ r + 3 # m + 1
                /\ r + 3 # r + 7 /\ r + 3 # r + 6 /\ r + 3 # r + 5 /\ r + 3 # r + 4 /\ r + 3 # r + 2 /\ r + 3 # r + 1
                /\ r + 3 # r /\ ~(r + 3 <= r) /\ r + 3 # 1
            BY SMTT(40), <1>3, <3>3
          <5> QED
            BY <1>3, <3>1, <3>3, <5>1 DEF Front
        <4> QED
          BY <3>3, <4>1
      <3> QED
        BY <1>8, <3>2, <3>3
    <2>2. data'[p][c.new] = data'[p][c.old] /\ fd'[p][c.new] = None
      BY <1>9, <1>10, <1>12 DEF Base, Types
    <2> QED
      BY <2>1, <2>2 DEF DupAt
  <1>16. Fits(i, fd'[p], n)
    <2>1. Fits(i, fd[p], n + 1)
      BY <1>1, <1>6 DEF Base, SubSlots
    <2>2. CASE i > 1 /\ n = m + 3 /\ c.old = 2 /\ c.new = 0
      BY SMTT(40), <1>3, <2>1, <2>2, <1>10 DEF Fits
    <2>3. CASE i < Len(line) /\ n = r + 3 /\ c.old = 3 /\ c.new = 1
      BY SMTT(40), <1>3, <2>1, <2>3, <1>10 DEF Fits
    <2> QED
      BY <1>8, <2>2, <2>3
  <1>17. \A j \in Stage : p # Cmd(j) /\ (p = Sub(j) => j = i)
    BY <1>1, <1>2, Numbers
  <1>18. On \subseteq Stage
    BY <1>2, Stages
  <1> QED
    BY <1>7, <1>10, <1>13, <1>14, <1>15, <1>16, <1>17, <1>18, Moves DEF MapData, Base, Types

LEMMA MapFdKeeps ==
  ASSUME Base, NEW p \in Procs, status[p] = "live", todo[p] # <<>>, MapFd(p, Head(todo[p]))
  PROVE  Base'
  <1> DEFINE c == Head(todo[p])
  <1>1. PICK i \in On : p = Sub(i) /\ Front(i, c, Left(i))
    BY CallIs DEF Base, MapFd, CloseIt, DestroyIt
  <1>2. LineOK /\ i \in Stage /\ i \in Int
    BY <1>1, NumbersOn DEF Base, Types
  <1>3. PICK r \in Nat, m \in Nat : r = RunitLen(i) /\ m = RuncmdLen(i) /\ IF i < Len(line) THEN m = r + 7 ELSE m = r
    BY <1>2, Lengths
  <1>4. \/ i > 1 /\ Left(i) = m + 3 /\ c = [call |-> "mapFd", old |-> 2, new |-> 0]
        \/ i < Len(line) /\ Left(i) = r + 3 /\ c = [call |-> "mapFd", old |-> 3, new |-> 1]
    BY <1>1, <1>3 DEF Front, CloseIt, DestroyIt, CreateIt, MapFd
  <1>5. todo'[p] = Tail(todo[p])
    BY DEF MapFd, Done, Base, Types
  <1>6. PICK n \in Nat : n = Left(i) - 1 /\ Left(i) = n + 1
    BY <1>1, AfterCall DEF Base
  <1>7. Len(todo'[p]) = n /\ (todo'[p] # <<>> => Front(i, Head(todo'[p]), n))
    BY <1>1, <1>5, <1>6, AfterCall DEF Base
  <1>8. (i > 1 /\ n = m + 2 /\ c.old = 2 /\ c.new = 0) \/ (i < Len(line) /\ n = r + 2 /\ c.old = 3 /\ c.new = 1)
    BY <1>3, <1>4, <1>6
  <1>9. c.old \in Fd /\ c.new \in Fd /\ c.old # c.new
    BY <1>8, FdsAre
  <1>10. /\ data' = data /\ fd'[p] = [fd[p] EXCEPT ![c.new] = fd[p][c.old]]
         /\ fd' \in [Procs -> [Fd -> End \cup {None}]]
         /\ \A q \in Procs \ {p} : fd'[q] = fd[q]
    BY <1>9 DEF Base, Types, MapFd
  <1>11. DupAt(p)
    BY DEF Base, Dups
  <1>12. data[p][c.new] = data[p][c.old]
    BY <1>11 DEF DupAt, MapFd
  <1>13. fd'[p][c.new] = fd[p][c.old] /\ \A s \in Fd : s # c.new => fd'[p][s] = fd[p][s]
    BY <1>9, <1>10 DEF Base, Types
  <1>14. NewEnds(p)
    BY <1>9, <1>13 DEF NewEnds
  <1>15. PairedAt(p)'
    BY <1>9, <1>10, <1>12, <1>13 DEF Base, Paired, PairedAt, MapFd
  <1>16. DupAt(p)'
    <2>1. todo'[p] # <<>> => Head(todo'[p]).call = "close"
      <3>1. SUFFICES ASSUME Front(i, Head(todo'[p]), n) PROVE Head(todo'[p]).call = "close"
        BY <1>7
      <3> QED
        BY SMTT(40), <1>3, <1>8, <3>1 DEF Front
    <2> QED
      BY <2>1 DEF DupAt
  <1>17. Fits(i, fd'[p], n)
    <2>1. Fits(i, fd[p], n + 1)
      BY <1>1, <1>6 DEF Base, SubSlots
    <2>2. CASE n = m + 2 /\ c.old = 2 /\ c.new = 0
      <3>1. fd'[p][0] = fd[p][2] /\ fd'[p][1] = fd[p][1] /\ fd'[p][2] = fd[p][2] /\ fd'[p][3] = fd[p][3]
        BY <1>13, <2>2, FdsAre
      <3> QED
        BY SMTT(40), <1>3, <2>1, <2>2, <3>1 DEF Fits
    <2>3. CASE i < Len(line) /\ n = r + 2 /\ c.old = 3 /\ c.new = 1
      <3>1. fd'[p][0] = fd[p][0] /\ fd'[p][1] = fd[p][3] /\ fd'[p][2] = fd[p][2] /\ fd'[p][3] = fd[p][3]
        BY <1>13, <2>3, FdsAre
      <3> QED
        BY SMTT(40), <1>3, <2>1, <2>3, <3>1 DEF Fits
    <2> QED
      BY <1>8, <2>2, <2>3
  <1>18. \A j \in Stage : p # Cmd(j) /\ (p = Sub(j) => j = i)
    BY <1>1, <1>2, Numbers
  <1>19. On \subseteq Stage
    BY <1>2, Stages
  <1> QED
    BY <1>7, <1>10, <1>14, <1>15, <1>16, <1>17, <1>18, <1>19, Moves DEF MapFd, Base, Types

LEMMA FirstIn ==
  ASSUME NEW S \in SUBSET Fd, S # {}
  PROVE  First(S) \in S
  <1>1. \E s \in S : \A t \in S : s <= t
    <2>1. CASE 0 \in S
      BY <2>1 DEF Fd
    <2>2. CASE 0 \notin S /\ 1 \in S
      <3>1. \A t \in S : t = 1 \/ t = 2 \/ t = 3
        BY <2>2, FdsAre
      <3> QED
        BY <2>2, <3>1
    <2>3. CASE 0 \notin S /\ 1 \notin S /\ 2 \in S
      <3>1. \A t \in S : t = 2 \/ t = 3
        BY <2>3, FdsAre
      <3> QED
        BY <2>3, <3>1
    <2>4. CASE 0 \notin S /\ 1 \notin S /\ 2 \notin S
      <3>1. \A t \in S : t = 3
        BY <2>4, FdsAre
      <3> QED
        BY <3>1
    <2> QED
      BY <2>1, <2>2, <2>3, <2>4
  <1> QED
    BY <1>1 DEF First

\* What one system call of close() or close_all() does.
LEMMA CloseStep ==
  ASSUME Base, NEW p \in Procs, todo[p] # <<>>, NEW c, CloseFd(p, c), c.fds \in SUBSET Fd
  PROVE  /\ UNCHANGED <<line, status, text, at>>
         /\ fd' \in [Procs -> [Fd -> End \cup {None}]] /\ data' \in [Procs -> [Fd -> Stage \cup {NoPipe}]]
         /\ \A q \in Procs \ {p} : fd'[q] = fd[q] /\ data'[q] = data[q]
         /\ \A s \in Fd : fd'[p][s] = None \/ (fd'[p][s] = fd[p][s] /\ data'[p][s] = data[p][s])
         /\ \/ todo' = todo
            \/ Done(p) /\ fd' = fd /\ \A s \in c.fds : fd[p][s] = None
  <1> DEFINE open == {s \in c.fds : Open(p, s)}
             f == First(open)
  <1>1. open \in SUBSET Fd
    OBVIOUS
  <1>2. UNCHANGED <<line, status, text, at>>
    BY DEF CloseFd
  <1>3. CASE open = {} /\ Done(p) /\ UNCHANGED pages
    <2>1. \A s \in c.fds : fd[p][s] = None
      BY <1>3 DEF Open
    <2> QED
      BY <1>2, <1>3, <2>1 DEF Base, Types, pages
  <1>4. CASE open # {} /\ fd[p][f] # None /\ fd' = [fd EXCEPT ![p][f] = None] /\ UNCHANGED <<todo, data>>
    <2>1. f \in Fd
      BY <1>1, <1>4, FirstIn
    <2> HIDE DEF f
    <2> QED
      BY <1>2, <1>4, <2>1 DEF Base, Types
  <1>5. CASE /\ open # {} /\ fd[p][f] = None /\ data' = [data EXCEPT ![p][f] = NoPipe]
             /\ (IF open = {f} THEN Done(p) ELSE UNCHANGED todo) /\ UNCHANGED fd
    <2>1. f \in Fd
      BY <1>1, <1>5, FirstIn
    <2>2. /\ data' \in [Procs -> [Fd -> Stage \cup {NoPipe}]]
          /\ \A q \in Procs \ {p} : data'[q] = data[q]
          /\ \A s \in Fd : s # f => data'[p][s] = data[p][s]
      <3> HIDE DEF f
      <3> QED
        BY <1>5, <2>1 DEF Base, Types
    <2>3. CASE open = {f} /\ Done(p)
      <3>1. \A s \in c.fds : fd[p][s] = None
        <4>1. SUFFICES ASSUME NEW s \in c.fds, fd[p][s] # None PROVE FALSE
          OBVIOUS
        <4>2. s \in open
          BY <4>1 DEF Open
        <4> HIDE DEF open, f
        <4> QED
          BY <1>5, <2>3, <4>1, <4>2
      <3> HIDE DEF f
      <3> QED
        BY <1>2, <1>5, <2>1, <2>2, <2>3, <3>1 DEF Base, Types
    <2>4. CASE UNCHANGED todo
      <3> HIDE DEF f
      <3> QED
        BY <1>2, <1>5, <2>1, <2>2, <2>4 DEF Base, Types
    <2> QED
      BY <1>5, <2>3, <2>4
  <1> QED
    BY <1>3, <1>4, <1>5 DEF CloseFd

\* Closed descriptors may go on being closed.
LEMMA FitsClosed ==
  ASSUME NEW i, NEW f, NEW g, NEW n, Fits(i, f, n), \A s \in Fd : g[s] = None \/ g[s] = f[s]
  PROVE  Fits(i, g, n)
  BY FdsAre DEF Fits

LEMMA FitsNext ==
  ASSUME LineOK, NEW i \in On, NEW f, NEW n \in Nat, NEW c, c.call = "close", Front(i, c, n + 1),
         Fits(i, f, n + 1), \A s \in c.fds : f[s] = None
  PROVE  /\ Fits(i, f, n)
         /\ \A d : Front(i, d, n) => /\ d.call = "mapData" => f[d.new] = None
                                     /\ d.call # "mapFd"
  <1>1. PICK r \in Nat, m \in Nat : r = RunitLen(i) /\ m = RuncmdLen(i) /\ r >= 2 /\ IF i < Len(line) THEN m = r + 7 ELSE m = r
    BY Lengths
  <1>2. \/ i > 1 /\ n = m + 4 /\ c.fds = {0}
        \/ i > 1 /\ n = m + 1 /\ c.fds = {2}
        \/ i > 1 /\ n = m /\ c.fds = {3}
        \/ i < Len(line) /\ n = r + 4 /\ c.fds = {1}
        \/ i < Len(line) /\ n = r + 1 /\ c.fds = {3}
        \/ i < Len(line) /\ n = r /\ c.fds = {2}
        \/ n + 1 <= r /\ c.fds = Fd
    BY SMTT(40), <1>1 DEF Front, CreateIt, CloseIt, DestroyIt
  <1>3. Fits(i, f, n)
    <2>1. CASE i > 1 /\ n = m + 4 /\ c.fds = {0}
      BY SMTT(40), <1>1, <2>1 DEF Fits
    <2>2. CASE i > 1 /\ n = m + 1 /\ c.fds = {2}
      BY <1>1, <2>2 DEF Fits
    <2>3. CASE i > 1 /\ n = m /\ c.fds = {3}
      BY <1>1, <2>3 DEF Fits
    <2>4. CASE i < Len(line) /\ n = r + 4 /\ c.fds = {1}
      BY SMTT(40), <1>1, <2>4 DEF Fits
    <2>5. CASE i < Len(line) /\ n = r + 1 /\ c.fds = {3}
      BY <1>1, <2>5 DEF Fits
    <2>6. CASE i < Len(line) /\ n = r /\ c.fds = {2}
      BY <1>1, <2>6 DEF Fits
    <2>7. CASE n + 1 <= r /\ c.fds = Fd
      BY <1>1, <2>7, FdsAre DEF Fits
    <2> QED
      BY <1>2, <2>1, <2>2, <2>3, <2>4, <2>5, <2>6, <2>7
  <1>4. ASSUME NEW d, Front(i, d, n)
        PROVE  (d.call = "mapData" => f[d.new] = None) /\ d.call # "mapFd"
    <2>1. \/ i > 1 /\ n = m + 4 /\ d = [call |-> "mapData", old |-> 2, new |-> 0]
          \/ i > 1 /\ n = m + 3
          \/ i < Len(line) /\ n = r + 4 /\ d = [call |-> "mapData", old |-> 3, new |-> 1]
          \/ i < Len(line) /\ n = r + 3
          \/ d.call \in {"close", "pipe", "create", "wait", "destroy"}
      BY <1>1, <1>4 DEF Front, CreateIt, CloseIt, DestroyIt
    <2>2. CASE i > 1 /\ n = m + 4 /\ d = [call |-> "mapData", old |-> 2, new |-> 0]
      <3>1. c.fds = {0}
        BY <1>1, <1>2, <2>2
      <3> QED
        BY <2>2, <3>1
    <2>3. CASE i < Len(line) /\ n = r + 4 /\ d = [call |-> "mapData", old |-> 3, new |-> 1]
      <3>1. c.fds = {1}
        BY <1>1, <1>2, <2>3
      <3> QED
        BY <2>3, <3>1
    <2>4. ~(i > 1 /\ n = m + 3) /\ ~(i < Len(line) /\ n = r + 3)
      BY <1>1, <1>2
    <2> QED
      BY <2>1, <2>2, <2>3, <2>4
  <1> QED
    BY <1>3, <1>4

LEMMA CloseKeeps ==
  ASSUME Base, NEW p \in Procs, status[p] = "live", todo[p] # <<>>, CloseFd(p, Head(todo[p]))
  PROVE  Base'
  <1> DEFINE c == Head(todo[p])
  <1>1. c.call = "close" /\ LineOK /\ todo[p] \in Seq(Calls)
    BY DEF CloseFd, Base, Types
  <1>2. c.fds \in SUBSET Fd
    <2>1. c \in Calls
      BY <1>1
    <2> QED
      BY <1>1, <2>1 DEF Calls
  <1> HIDE DEF c
  <1>3. /\ UNCHANGED <<line, status, text, at>>
        /\ fd' \in [Procs -> [Fd -> End \cup {None}]] /\ data' \in [Procs -> [Fd -> Stage \cup {NoPipe}]]
        /\ \A q \in Procs \ {p} : fd'[q] = fd[q] /\ data'[q] = data[q]
        /\ \A s \in Fd : fd'[p][s] = None \/ (fd'[p][s] = fd[p][s] /\ data'[p][s] = data[p][s])
        /\ \/ todo' = todo
           \/ Done(p) /\ fd' = fd /\ \A s \in c.fds : fd[p][s] = None
    BY <1>2, CloseStep DEF c
  <1>4. NewEnds(p)
    BY <1>3 DEF NewEnds
  <1>5. PairedAt(p)'
    BY <1>3 DEF Base, Paired, PairedAt
  <1>6. PICK i \in On : \/ p = Sub(i) /\ Front(i, c, Left(i))
                        \/ p = Cmd(i) /\ Len(todo[p]) = 2 /\ c = CloseIt
    BY <1>1, CallIs DEF Base, DestroyIt, c
  <1>7. i \in Stage
    BY <1>1, <1>6, Stages
  <1>8. CASE p = Sub(i) /\ Front(i, c, Left(i))
    <2>1. Fits(i, fd[p], Left(i))
      BY <1>8 DEF Base, SubSlots
    <2>2. Fits(i, fd'[p], Left(i))
      BY <1>3, <2>1, FitsClosed
    <2>3. Fits(i, fd'[p], Len(todo'[p])) /\ DupAt(p)'
      <3>1. CASE todo' = todo
        BY <1>1, <1>8, <2>2, <3>1 DEF Left, DupAt, c
      <3>2. CASE Done(p) /\ fd' = fd /\ \A s \in c.fds : fd[p][s] = None
        <4>1. todo'[p] = Tail(todo[p])
          BY <3>2 DEF Done, Base, Types
        <4>2. PICK n \in Nat : n = Left(i) - 1 /\ Left(i) = n + 1
          BY <1>8, AfterCall DEF Base
        <4>3. Len(todo'[p]) = n /\ (todo'[p] # <<>> => Front(i, Head(todo'[p]), n))
          BY <1>8, <4>1, <4>2, AfterCall DEF Base
        <4>4. /\ Fits(i, fd[p], n)
              /\ \A d : Front(i, d, n) => (d.call = "mapData" => fd[p][d.new] = None) /\ d.call # "mapFd"
          BY <1>1, <1>8, <2>1, <3>2, <4>2, FitsNext
        <4> QED
          BY <3>2, <4>3, <4>4 DEF DupAt
      <3> QED
        BY <1>3, <3>1, <3>2
    <2>4. \A j \in Stage : p # Cmd(j) /\ (p = Sub(j) => j = i)
      BY <1>7, <1>8, Numbers
    <2>5. On \subseteq Stage
      BY <1>1, Stages
    <2> QED
      BY <1>1, <1>3, <1>4, <1>5, <2>3, <2>4, <2>5, Moves DEF c
  <1>9. CASE p = Cmd(i) /\ Len(todo[p]) = 2 /\ c = CloseIt
    <2>1. TailOf(todo[p], Exit)
      BY <1>7, <1>9 DEF Base, Lists
    <2>0. TailOf(Tail(todo[p]), Exit) /\ Len(Tail(todo[p])) = Len(todo[p]) - 1
      BY <2>1, OnesAre, TailShorter
    <2>2. TailOf(Tail(todo[p]), Exit) /\ Len(Tail(todo[p])) = 1
      BY <1>9, <2>0
    <2>3. PICK t : t = Tail(todo[p])
      OBVIOUS
    <2>31. TailOf(t, Exit) /\ Len(t) = 1 /\ t # <<>>
      <3>1. TailOf(t, Exit) /\ Len(t) = 1
        BY <2>2, <2>3
      <3>2. t # <<>>
        BY <3>1, EmptySeq
      <3> QED
        BY <3>1, <3>2
    <2>4. Head(Tail(todo[p])) = DestroyIt
      <3>1. Head(t) = DestroyIt
        BY SMTT(40), <2>31, CommandFront
      <3> QED
        BY <2>3, <3>1
    <2>5. todo'[p] = todo[p] \/ todo'[p] = Tail(todo[p])
      BY <1>3 DEF Done, Base, Types
    <2>10. todo'[p] # <<>>
      BY <2>3, <2>31, <2>5
    <2>6. DupAt(p)'
      <3>1. Head(todo'[p]) = c \/ Head(todo'[p]) = DestroyIt
        BY <2>4, <2>5 DEF c
      <3>2. c.call = "close" /\ DestroyIt.call = "destroy"
        BY <1>1 DEF DestroyIt
      <3> QED
        BY <3>1, <3>2 DEF DupAt
    <2>7. CmdFits(i, fd'[p])
      BY <1>3, <1>9, FdsAre DEF Base, CmdSlots, CmdFits
    <2>8. \A j \in Stage : p # Sub(j) /\ (p = Cmd(j) => j = i)
      BY <1>7, <1>9, Numbers
    <2>9. On \subseteq Stage
      BY <1>1, Stages
    <2> QED
      BY <1>1, <1>3, <1>4, <1>5, <2>10, <2>6, <2>7, <2>8, <2>9, Moves DEF c
  <1> QED
    BY <1>6, <1>8, <1>9

LEMMA WaitKeeps ==
  ASSUME Base, NEW p \in Procs, status[p] = "live", todo[p] # <<>>, WaitEnds(p, Head(todo[p]))
  PROVE  Base'
  <1> DEFINE c == Head(todo[p])
  <1>1. PICK i \in On : p = Sub(i) /\ Front(i, c, Left(i))
    BY CallIs DEF Base, WaitEnds, CloseIt, DestroyIt
  <1>2. LineOK /\ i \in Stage /\ i \in Int
    BY <1>1, NumbersOn DEF Base, Types
  <1>3. PICK r \in Nat, m \in Nat : r = RunitLen(i) /\ m = RuncmdLen(i) /\ r <= m
    BY <1>2, Lengths
  <1>4. PICK n \in Nat : n = Left(i) - 1 /\ Left(i) = n + 1
    BY <1>1, AfterCall DEF Base
  <1>5. n + 1 <= r
    BY <1>1, <1>3, <1>4 DEF Front, CloseIt, DestroyIt, CreateIt, WaitEnds
  <1>6. todo'[p] = Tail(todo[p])
    BY DEF WaitEnds, Done, Base, Types
  <1>7. Len(todo'[p]) = n /\ (todo'[p] # <<>> => Front(i, Head(todo'[p]), n))
    BY <1>1, <1>4, <1>6, AfterCall DEF Base
  <1>8. fd' = fd /\ data' = data
    BY DEF WaitEnds, pages
  <1>9. DupAt(p)'
    <2>1. todo'[p] # <<>> => Head(todo'[p]).call \in {"create", "close", "wait", "destroy"}
      BY <1>2, <1>3, <1>5, <1>7, NoDup
    <2> QED
      BY <2>1 DEF DupAt
  <1>10. Fits(i, fd'[p], n)
    <2>1. Fits(i, fd[p], n + 1)
      BY <1>1, <1>4 DEF Base, SubSlots
    <2> QED
      BY <1>3, <1>5, <1>8, <2>1 DEF Fits
  <1>11. \A j \in Stage : p # Cmd(j) /\ (p = Sub(j) => j = i)
    BY <1>1, <1>2, Numbers
  <1>12. On \subseteq Stage
    BY <1>2, Stages
  <1>13. PairedAt(p)' /\ NewEnds(p)
    BY <1>8 DEF Base, Paired, PairedAt, NewEnds, WaitEnds
  <1> QED
    BY <1>7, <1>8, <1>9, <1>10, <1>11, <1>12, <1>13, Moves DEF WaitEnds, Base, Types

\* A process that is gone has nothing.
LEMMA FreeIs ==
  ASSUME Base, NEW p \in Procs, Free(p)
  PROVE  /\ status' \in [Procs -> {"free", "live", "dead"}] /\ todo' \in [Procs -> Seq(Calls)]
         /\ fd' \in [Procs -> [Fd -> End \cup {None}]] /\ data' \in [Procs -> [Fd -> Stage \cup {NoPipe}]]
         /\ \A q \in Procs \ {p} : status'[q] = status[q] /\ todo'[q] = todo[q] /\ fd'[q] = fd[q] /\ data'[q] = data[q]
         /\ status'[p] = "dead" /\ todo'[p] = <<>> /\ \A s \in Fd : fd'[p][s] = None
  <1>1. <<>> \in Seq(Calls)
    OBVIOUS
  <1> QED
    BY <1>1 DEF Base, Types, Free, Closed

LEMMA FreeKeeps ==
  ASSUME Base, NEW p \in Procs, status[p] = "live", Free(p), line' = line, OldTold,
         \A q \in Procs : ~Making(p, q)
  PROVE  Base'
  <1>1. /\ \A q \in Procs \ {p} : status'[q] = status[q] /\ todo'[q] = todo[q] /\ fd'[q] = fd[q] /\ data'[q] = data[q]
        /\ status'[p] = "dead" /\ todo'[p] = <<>> /\ \A s \in Fd : fd'[p][s] = None
    BY FreeIs
  <1>2. LineOK
    BY DEF Base, Types
  <1>3. Types'
    <2>1. LineOK'
      BY <1>2, LineStays
    <2> QED
      BY <2>1, FreeIs DEF Types
  <1>4. Alone(p)
    BY <1>1 DEF Alone
  <1>5. NewEnds(p)
    BY <1>1 DEF NewEnds
  <1>6. PairedAt(p)' /\ DupAt(p)'
    BY <1>1 DEF PairedAt, DupAt
  <1>7. \A i \in On : p = Sub(i) => TailOf(todo'[p], Program(i)) /\ Len(todo'[p]) <= Left(i)
    <2>1. ASSUME NEW i \in On, p = Sub(i) PROVE TailOf(<<>>, Program(i)) /\ Len(<<>>) <= Left(i)
      <3>1. TailOf(<<>>, Program(i))
        BY <1>2, ProgramIs, TailEmpty
      <3>2. todo[p] \in Seq(Calls)
        BY DEF Base, Types
      <3>3. Left(i) \in Nat /\ Len(<<>>) = 0
        BY <2>1, <3>2, EmptySeq DEF Left
      <3> QED
        BY <3>1, <3>3
    <2> QED
      BY <1>1, <2>1
  <1>8. \A i \in Stage : p = Cmd(i) => TailOf(todo'[p], Exit)
    BY <1>1, OnesAre, TailEmpty
  <1> QED
    BY <1>1, <1>3, <1>4, <1>5, <1>6, <1>7, <1>8, AloneKeeps

LEMMA DestroyKeeps ==
  ASSUME Base, NEW p \in Procs, status[p] = "live", todo[p] # <<>>, Destroy(p, Head(todo[p]))
  PROVE  Base'
  <1>1. Free(p) /\ line' = line /\ at' = at /\ Head(todo[p]).call = "destroy"
    BY DEF Destroy
  <1>2. \A q \in Procs : ~Making(p, q)
    BY <1>1 DEF Making, CreateIt
  <1>3. OldTold
    <2>1. SUFFICES ASSUME NEW i \in Stage, NEW w, In(i, w)'
                   PROVE  In(i, w) /\ fd'[Cmd(i)] = fd[Cmd(i)]
      BY DEF OldTold
    <2>2. Cmd(i) \in Procs /\ status'[Cmd(i)] = "live"
      BY <2>1, Numbers DEF In
    <2>3. p # Cmd(i)
      BY <1>1, <2>2, FreeIs
    <2> QED
      BY <1>1, <2>1, <2>2, <2>3, FreeIs DEF In
  <1> QED
    BY <1>1, <1>2, <1>3, FreeKeeps

LEMMA FaultKeeps ==
  ASSUME Base, NEW i \in Stage, Fault(i)
  PROVE  Base'
  <1>1. Free(Cmd(i)) /\ line' = line /\ at' = [at EXCEPT ![i] = "exit"] /\ status[Cmd(i)] = "live"
    BY DEF Fault, Stops
  <1>2. Cmd(i) \in Procs /\ \A j \in Stage : Cmd(j) \in Procs /\ (Cmd(i) = Cmd(j) <=> i = j)
    BY Numbers
  <1>3. \A q \in Procs : ~Making(Cmd(i), q)
    <2>1. SUFFICES ASSUME todo[Cmd(i)] # <<>> PROVE Head(todo[Cmd(i)]).call # "create"
      BY DEF Making, CreateIt
    <2>2. TailOf(todo[Cmd(i)], Exit)
      BY DEF Base, Lists
    <2>3. Head(todo[Cmd(i)]) = CloseIt \/ Head(todo[Cmd(i)]) = DestroyIt
      BY <2>1, <2>2, CommandFront
    <2> QED
      BY <2>3 DEF CloseIt, DestroyIt
  <1>4. OldTold
    <2>1. SUFFICES ASSUME NEW j \in Stage, NEW w, In(j, w)'
                   PROVE  In(j, w) /\ fd'[Cmd(j)] = fd[Cmd(j)]
      BY DEF OldTold
    <2>2. status'[Cmd(j)] = "live"
      BY <2>1 DEF In
    <2>3. Cmd(i) # Cmd(j)
      BY <1>1, <1>2, <2>2, FreeIs
    <2>4. at'[j] = at[j]
      BY <1>1, <1>2, <2>3
    <2> QED
      BY <1>1, <1>2, <2>1, <2>3, <2>4, FreeIs DEF In
  <1> QED
    BY <1>1, <1>2, <1>3, <1>4, FreeKeeps

\* exit() of a command.
LEMMA ExitsKeeps ==
  ASSUME Base, NEW i \in Stage, NEW w, In(i, w), Exits(i), UNCHANGED <<line, status, pages>>
  PROVE  Base'
  <1> DEFINE p == Cmd(i)
  <1>1. p \in Procs /\ \A j \in Stage : Sub(j) # p /\ Cmd(j) \in Procs /\ (Cmd(i) = Cmd(j) <=> i = j)
    BY Numbers
  <1>2. LineOK /\ status[p] = "live" /\ todo[p] = <<>> /\ fd' = fd /\ data' = data /\ status' = status /\ line' = line
    BY DEF Base, Types, In, pages
  <1>3. todo' = [todo EXCEPT ![p] = Exit] /\ at' = [at EXCEPT ![i] = "exit"]
    BY DEF Exits, Stops
  <1>4. Exit \in Seq(Calls) /\ Exit # <<>> /\ Head(Exit) = CloseIt
    <2>1. Exit \in Seq(Calls) /\ Len(Exit) = 2 /\ Exit[1] = CloseIt
      BY OnesAre
    <2> QED
      BY <2>1, EmptySeq
  <1> HIDE DEF p
  <1>5. todo'[p] = Exit /\ \A q \in Procs \ {p} : todo'[q] = todo[q]
    BY <1>1, <1>3 DEF Base, Types
  <1>6. Types'
    <2>1. LineOK'
      BY <1>2, LineStays
    <2>2. todo' \in [Procs -> Seq(Calls)]
      BY <1>1, <1>3, <1>4 DEF Base, Types
    <2> QED
      BY <1>2, <2>1, <2>2 DEF Base, Types
  <1>7. Alone(p)
    BY <1>2, <1>5 DEF Alone
  <1>8. NewEnds(p)
    BY <1>2 DEF NewEnds
  <1>9. OldTold
    <2>1. SUFFICES ASSUME NEW j \in Stage, NEW x, In(j, x)'
                   PROVE  In(j, x) /\ fd'[Cmd(j)] = fd[Cmd(j)]
      BY DEF OldTold
    <2>2. todo'[Cmd(j)] = <<>>
      BY <2>1 DEF In
    <2>3. Cmd(j) # p /\ i # j
      BY <1>1, <1>4, <1>5, <2>2 DEF p
    <2>4. at'[j] = at[j] /\ todo'[Cmd(j)] = todo[Cmd(j)]
      BY <1>1, <1>3, <1>5, <2>3
    <2> QED
      BY <1>2, <2>1, <2>4 DEF In
  <1>10. PairedAt(p)'
    BY <1>1, <1>2 DEF Base, Paired, PairedAt
  <1>11. DupAt(p)'
    <2>1. Head(todo'[p]).call = "close"
      BY <1>4, <1>5 DEF CloseIt
    <2> QED
      BY <2>1 DEF DupAt
  <1>12. \A j \in On : p = Cmd(j) => CmdFits(j, fd'[p])
    BY <1>2 DEF Base, CmdSlots
  <1>13. \A j \in On : p # Sub(j)
    BY <1>1, <1>2, Stages
  <1>14. TailOf(todo'[p], Exit)
    BY <1>4, <1>5, TailWhole
  <1>15. \A q \in Procs : ~Making(p, q)
    BY <1>2 DEF Making
  <1> QED
    BY <1>1, <1>2, <1>6, <1>7, <1>8, <1>9, <1>10, <1>11, <1>12, <1>13, <1>14, <1>15, AloneKeeps

\* Within read() and write() nobody's descriptors change.
LEMMA StillKeeps ==
  ASSUME Base, UNCHANGED <<line, status, todo, pages>>, Told'
  PROVE  Base'
  <1>1. line' = line /\ status' = status /\ todo' = todo /\ fd' = fd /\ data' = data
    BY DEF pages
  <1>2. LineOK' /\ On' = On /\ Len(line)' = Len(line)
        /\ \A i \in On : RunitLen(i)' = RunitLen(i) /\ RuncmdLen(i)' = RuncmdLen(i) /\ Program(i)' = Program(i)
    BY <1>1, LineStays DEF Base, Types
  <1>3. \A i \in On : Left(i)' = Left(i)
    BY <1>1 DEF Left
  <1>4. Types' /\ Lists'
    BY <1>1, <1>2 DEF Base, Types, Lists
  <1>5. Order'
    BY <1>1, <1>2, <1>3 DEF Base, Order
  <1>6. Paired' /\ Dups'
    BY <1>1 DEF Base, Paired, PairedAt, Dups, DupAt
  <1>7. HalfMade'
    BY <1>1 DEF Base, HalfMade, Making
  <1>8. SubSlots'
    <2>1. SUFFICES ASSUME NEW i \in On, status'[Sub(i)] = "live" PROVE Fits(i, fd[Sub(i)], Left(i))'
      BY <1>2 DEF SubSlots
    <2>2. Fits(i, fd[Sub(i)], Left(i))
      BY <1>1, <2>1 DEF Base, SubSlots
    <2> QED
      BY <1>1, <1>2, <1>3, <2>2 DEF Fits
  <1>9. CmdSlots'
    BY <1>1, <1>2 DEF Base, CmdSlots, CmdFits
  <1>10. Fresh'
    BY <1>1, <1>2, <1>3 DEF Base, Fresh
  <1> QED
    BY <1>4, <1>5, <1>6, <1>7, <1>8, <1>9, <1>10 DEF Base

LEMMA OldToldKeeps ==
  ASSUME Base, UNCHANGED <<line, status, todo, pages>>, OldTold
  PROVE  Base'
  <1>1. line' = line /\ status' = status /\ todo' = todo /\ fd' = fd /\ data' = data
    BY DEF pages
  <1>2. Types'
    <2>1. LineOK'
      BY <1>1, LineStays DEF Base, Types
    <2> QED
      BY <1>1, <2>1 DEF Base, Types
  <1>3. \A q \in Procs, s \in Fd : fd'[q][s] # None =>
          \/ \E p \in Procs, t \in Fd : fd'[q][s] = fd[p][t]
          \/ \E i \in On : Left(i) = RunitLen(i) + 7 /\ fd'[q][s] \in {Rd(i), Wr(i)}
    BY <1>1
  <1>4. Told'
    BY <1>2, <1>3, ToldStays DEF Base
  <1> QED
    BY <1>4, StillKeeps

LEMMA SayingKeeps ==
  ASSUME Base, Texts, NEW i \in Stage, Read(i) \/ Write(i) \/ Panics(i) \/ PassesOver(i)
  PROVE  Base'
  <1>1. UNCHANGED <<line, status, todo, pages>>
    BY DEF Read, Write, Panics, PassesOver
  <1>2. \E w \in {"read", "write", "empty", "full", "panic"} : at' = [at EXCEPT ![i] = w]
    BY DEF Read, Write, Panics, PassesOver, Goes, Again
  <1>3. OldTold
    <2>1. SUFFICES ASSUME NEW j \in Stage, NEW x \in {"eof", "broken"}, In(j, x)'
                   PROVE  In(j, x) /\ fd'[Cmd(j)] = fd[Cmd(j)]
      BY DEF OldTold
    <2>2. at'[j] = at[j]
      BY <1>2, <2>1 DEF Texts, In
    <2> QED
      BY <1>1, <2>1, <2>2 DEF In, pages
  <1> QED
    BY <1>1, <1>3, OldToldKeeps

\* While a command runs, no child is being made that is to have an end of a
\* pipe at the command's standard input or output.
LEMMA NoneMade ==
  ASSUME Base, NEW i \in On, status[Cmd(i)] = "live", NEW e \in {Rd(i - 1), Wr(i)},
         NEW q \in Procs, status[q] = "free", NEW s \in Fd
  PROVE  fd[q][s] # e
  <1> SUFFICES ASSUME fd[q][s] = e PROVE FALSE
    OBVIOUS
  <1>1. LineOK /\ i \in Stage /\ i \in Int /\ i - 1 \in Int
    BY NumbersOn DEF Base, Types
  <1>2. e # None
    BY <1>1, EndsDiffer
  <1>3. PICK p \in Procs : Making(p, q) /\ fd[p][s] = e
    BY <1>2 DEF Base, HalfMade
  <1>4. status[p] = "live" /\ todo[p] # <<>> /\ Head(todo[p]) = CreateIt(q)
    BY <1>3 DEF Making
  <1>5. PICK j \in On : p = Sub(j) /\ Front(j, CreateIt(q), Left(j))
    <2>1. CreateIt(q) # CloseIt /\ CreateIt(q) # DestroyIt
      BY DEF CreateIt, CloseIt, DestroyIt
    <2> QED
      BY <1>4, <2>1, CallIs DEF Base
  <1>6. j \in Stage /\ j \in Int /\ j - 1 \in Int /\ j - 2 \in Int
    BY <1>1, NumbersOn
  <1>7. PICK r \in Nat, m \in Nat : r = RunitLen(j) /\ m = RuncmdLen(j) /\ r >= 2 /\ IF j < Len(line) THEN m = r + 7 ELSE m = r
    BY <1>1, Lengths
  <1>8. Fits(j, fd[p], Left(j))
    BY <1>4, <1>5 DEF Base, SubSlots
  <1>9. \/ j < Len(line) /\ Left(j) = r + 6 /\ CreateIt(q) = CreateIt(Sub(j + 1))
        \/ Left(j) = r /\ CreateIt(q) = CreateIt(Cmd(j))
    BY <1>5, <1>7 DEF Front, CreateIt, CloseIt, DestroyIt
  <1>10. /\ status[Cmd(i)] # "free" => status[Sub(i)] # "free" /\ Left(i) < RunitLen(i)
         /\ \A k \in On : k < Len(line) /\ status[Sub(k + 1)] # "free" => Left(k) < RunitLen(k) + 6
    BY DEF Base, Order
  <1>11. j # i
    BY <1>7, <1>9, <1>10
  <1>12. \A k, l \in Int : Rd(k) # Wr(l) /\ (Rd(k) = Rd(l) <=> k = l) /\ (Wr(k) = Wr(l) <=> k = l)
    BY EndsDiffer
  <1>13. e # Rd(j - 1) /\ e # Wr(j)
    BY <1>1, <1>6, <1>11, <1>12
  <1>14. fd[p][s] \in {fd[p][0], fd[p][1], fd[p][2], fd[p][3]}
    BY FdsAre
  <1>15. CASE j < Len(line) /\ Left(j) = r + 6 /\ CreateIt(q) = CreateIt(Sub(j + 1))
    <2>1. fd[p][0] \in {None, Rd(j - 1)} /\ fd[p][1] = None /\ fd[p][2] \in {None, Rd(j)} /\ fd[p][3] \in {None, Wr(j)}
      BY <1>7, <1>8, <1>15 DEF Fits
    <2>2. e = Rd(j)
      BY <1>2, <1>3, <1>13, <1>14, <2>1
    <2>3. j = i - 1
      BY <1>1, <1>6, <1>12, <2>2
    <2>4. Sub(j + 1) = Sub(i)
      BY <1>1, <1>6, <2>3
    <2> QED
      BY <1>7, <1>10, <1>15, <2>4
  <1>16. CASE Left(j) = r /\ CreateIt(q) = CreateIt(Cmd(j))
    <2>1. fd[p][0] \in {None, Rd(j - 1)} /\ fd[p][1] \in {None, Wr(j)} /\ fd[p][2] = None /\ fd[p][3] = None
      BY <1>7, <1>8, <1>16 DEF Fits
    <2> QED
      BY <1>2, <1>3, <1>13, <1>14, <2>1
  <1> QED
    BY <1>9, <1>15, <1>16

\* pipeisclosed() is right about that pipe.
LEMMA ClosedIs ==
  ASSUME Base, NEW k \in Stage, NEW e, NEW o, (e = Rd(k) /\ o = Wr(k)) \/ (e = Wr(k) /\ o = Rd(k)),
         \A q \in Procs, s \in Fd : status[q] = "free" => fd[q][s] # e,
         pipeisclosed(e)
  PROVE  Maps(o) = {}
  <1>1. e # None /\ o # None /\ e # o /\ e[1] = k /\ o[1] = k
    BY EndsDiffer DEF Stage
  <1>2. Maps(e) \in SUBSET DataMaps(k)
    <2>1. SUFFICES ASSUME NEW m \in Maps(e) PROVE m \in DataMaps(k)
      OBVIOUS
    <2>2. m \in Procs \X Fd /\ m[1] \in Procs /\ m[2] \in Fd /\ fd[m[1]][m[2]] = e
      BY <2>1 DEF Maps
    <2>3. data[m[1]][m[2]] = k
      BY <1>1, <2>2 DEF Base, Paired, PairedAt
    <2> QED
      BY <2>2, <2>3 DEF DataMaps
  <1>3. IsFiniteSet(DataMaps(k))
    <2>1. IsFiniteSet(Procs)
      <3>1. 1 \in Int /\ 2 * N \in Int
        BY Numbers
      <3> QED
        BY <3>1, FS_Interval DEF Procs
    <2>2. IsFiniteSet(Fd)
      <3>1. 0 \in Int /\ 3 \in Int
        OBVIOUS
      <3> QED
        BY <3>1, FS_Interval DEF Fd
    <2>3. IsFiniteSet(Procs \X Fd)
      BY <2>1, <2>2, FS_Product
    <2>4. DataMaps(k) \in SUBSET (Procs \X Fd)
      BY DEF DataMaps
    <2> QED
      BY <2>3, <2>4, FS_Subset
  <1>4. DataMaps(k) = Maps(e)
    <2>1. Cardinality(Maps(e)) = Cardinality(DataMaps(k))
      BY <1>1 DEF pipeisclosed
    <2> QED
      BY <1>2, <1>3, <2>1, FS_Subset
  <1>5. ASSUME NEW p \in Procs, NEW s \in Fd, status[p] # "free", fd[p][s] = o
        PROVE  FALSE
    <2>1. data[p][s] = k
      BY <1>1, <1>5 DEF Base, Paired, PairedAt
    <2>2. <<p, s>> \in Procs \X Fd /\ <<p, s>>[1] = p /\ <<p, s>>[2] = s
      OBVIOUS
    <2>3. <<p, s>> \in DataMaps(k)
      BY <2>1, <2>2 DEF DataMaps
    <2>4. fd[p][s] = e
      BY <1>4, <2>2, <2>3 DEF Maps
    <2> QED
      BY <1>1, <1>5, <2>4
  <1>6. ASSUME NEW q \in Procs, NEW s \in Fd, fd[q][s] = o
        PROVE  FALSE
    <2>1. status[q] = "free"
      BY <1>5, <1>6
    <2>2. PICK p \in Procs : Making(p, q) /\ fd[p][s] = o
      BY <1>1, <1>6, <2>1 DEF Base, HalfMade
    <2>3. status[p] # "free"
      BY <2>2 DEF Making
    <2> QED
      BY <1>5, <2>2, <2>3
  <1> QED
    BY <1>6 DEF Maps

\* Who has the console at 0 or 1, has the end of no pipe.
LEMMA ConsoleHasNone ==
  ASSUME Types
  PROVE  Maps(Rd(None[1])) = {} /\ Maps(Wr(None[1])) = {}
  <1>1. None[1] = 0 /\ Rd(0) \notin End \cup {None} /\ Wr(0) \notin End \cup {None}
    BY EndsDiffer DEF Stage
  <1>2. \A q \in Procs, s \in Fd : fd[q][s] \in End \cup {None}
    BY DEF Types
  <1> QED
    BY <1>1, <1>2 DEF Maps

LEMMA AskWritersKeeps ==
  ASSUME Base, Texts, NEW i \in Stage, AskWriters(i)
  PROVE  Base'
  <1>1. UNCHANGED <<line, status, todo, pages>> /\ In(i, "empty")
    BY DEF AskWriters
  <1>2. at' = [at EXCEPT ![i] = IF pipeisclosed(Stdin(i)) THEN "eof" ELSE "read"]
    BY DEF AskWriters, Goes
  <1>3. Cmd(i) \in Procs /\ 0 \in Fd /\ status[Cmd(i)] = "live" /\ i \in Int
    BY <1>1, Numbers, FdsAre DEF In, Stage
  <1>4. i \in On
    BY <1>3 DEF Base, Lists
  <1>5. pipeisclosed(Stdin(i)) => Maps(Wr(Stdin(i)[1])) = {}
    <2>1. SUFFICES ASSUME pipeisclosed(Stdin(i)) PROVE Maps(Wr(Stdin(i)[1])) = {}
      OBVIOUS
    <2>2. Stdin(i) \in {None, Rd(i - 1)} /\ Stdin(i) \in End \cup {None}
      BY <1>3, <1>4 DEF Base, CmdSlots, CmdFits, Types, Stdin
    <2>3. CASE Stdin(i) = None
      BY <2>3, ConsoleHasNone DEF Base
    <2>4. CASE Stdin(i) # None
      <3>1. PICK k \in Int : k = i - 1 /\ Stdin(i) = Rd(k) /\ Stdin(i)[1] = k
        BY <1>3, <2>2, <2>4, EndsDiffer
      <3>2. k \in Stage
        BY <2>2, <2>4, <3>1, EndsDiffer
      <3>3. \A q \in Procs, s \in Fd : status[q] = "free" => fd[q][s] # Rd(k)
        BY <1>3, <1>4, <3>1, NoneMade
      <3>4. Maps(Wr(k)) = {}
        BY <2>1, <3>1, <3>2, <3>3, ClosedIs
      <3> QED
        BY <3>1, <3>4
    <2> QED
      BY <2>3, <2>4
  <1>6. Told'
    <2>1. SUFFICES ASSUME NEW j \in Stage
                   PROVE  /\ In(j, "eof")'    => Maps(Wr(Stdin(j)[1]))' = {}
                          /\ In(j, "broken")' => Maps(Rd(Stdout(j)[1]))' = {}
      BY DEF Told
    <2>2. /\ Maps(Wr(Stdin(j)[1]))' = Maps(Wr(Stdin(j)[1])) /\ Maps(Rd(Stdout(j)[1]))' = Maps(Rd(Stdout(j)[1]))
          /\ status' = status /\ todo' = todo
      BY <1>1 DEF Maps, Stdin, Stdout, pages
    <2>3. CASE j = i
      BY <1>2, <1>5, <2>2, <2>3 DEF Texts, In
    <2>4. CASE j # i
      <3>1. at'[j] = at[j]
        BY <1>2, <2>4 DEF Texts
      <3>2. In(j, "eof")' = In(j, "eof") /\ In(j, "broken")' = In(j, "broken")
        BY <2>2, <3>1 DEF In
      <3> QED
        BY <2>2, <3>2 DEF Base, Told
    <2> QED
      BY <2>3, <2>4
  <1> QED
    BY <1>1, <1>6, StillKeeps

LEMMA AskReadersKeeps ==
  ASSUME Base, Texts, NEW i \in Stage, AskReaders(i)
  PROVE  Base'
  <1>1. UNCHANGED <<line, status, todo, pages>> /\ In(i, "full")
    BY DEF AskReaders
  <1>2. at' = [at EXCEPT ![i] = IF pipeisclosed(Stdout(i)) THEN "broken" ELSE "write"]
    BY DEF AskReaders, Goes
  <1>3. Cmd(i) \in Procs /\ 1 \in Fd /\ status[Cmd(i)] = "live" /\ i \in Int
    BY <1>1, Numbers, FdsAre DEF In, Stage
  <1>4. i \in On
    BY <1>3 DEF Base, Lists
  <1>5. pipeisclosed(Stdout(i)) => Maps(Rd(Stdout(i)[1])) = {}
    <2>1. SUFFICES ASSUME pipeisclosed(Stdout(i)) PROVE Maps(Rd(Stdout(i)[1])) = {}
      OBVIOUS
    <2>2. Stdout(i) \in {None, Wr(i)}
      BY <1>3, <1>4 DEF Base, CmdSlots, CmdFits, Stdout
    <2>3. CASE Stdout(i) = None
      BY <2>3, ConsoleHasNone DEF Base
    <2>4. CASE Stdout(i) # None
      <3>1. Stdout(i) = Wr(i) /\ Stdout(i)[1] = i
        BY <1>3, <2>2, <2>4, EndsDiffer
      <3>2. \A q \in Procs, s \in Fd : status[q] = "free" => fd[q][s] # Wr(i)
        BY <1>3, <1>4, NoneMade
      <3>3. Maps(Rd(i)) = {}
        BY <2>1, <3>1, <3>2, ClosedIs
      <3> QED
        BY <3>1, <3>3
    <2> QED
      BY <2>3, <2>4
  <1>6. Told'
    <2>1. SUFFICES ASSUME NEW j \in Stage
                   PROVE  /\ In(j, "eof")'    => Maps(Wr(Stdin(j)[1]))' = {}
                          /\ In(j, "broken")' => Maps(Rd(Stdout(j)[1]))' = {}
      BY DEF Told
    <2>2. /\ Maps(Wr(Stdin(j)[1]))' = Maps(Wr(Stdin(j)[1])) /\ Maps(Rd(Stdout(j)[1]))' = Maps(Rd(Stdout(j)[1]))
          /\ status' = status /\ todo' = todo
      BY <1>1 DEF Maps, Stdin, Stdout, pages
    <2>3. CASE j = i
      BY <1>2, <1>5, <2>2, <2>3 DEF Texts, In
    <2>4. CASE j # i
      <3>1. at'[j] = at[j]
        BY <1>2, <2>4 DEF Texts
      <3>2. In(j, "eof")' = In(j, "eof") /\ In(j, "broken")' = In(j, "broken")
        BY <2>2, <3>1 DEF In
      <3> QED
        BY <2>2, <3>2 DEF Base, Told
    <2> QED
      BY <2>3, <2>4
  <1> QED
    BY <1>1, <1>6, StillKeeps

\* Who makes a child, and which.
LEMMA CreateIs ==
  ASSUME Base, NEW p \in Procs, status[p] = "live", todo[p] # <<>>, Head(todo[p]).call = "create"
  PROVE  \E i \in On :
           /\ p = Sub(i)
           /\ \/ i < Len(line) /\ Left(i) = RunitLen(i) + 6 /\ Head(todo[p]) = CreateIt(Sub(i + 1)) /\ status[Sub(i + 1)] = "free"
              \/ Left(i) = RunitLen(i) /\ Head(todo[p]) = CreateIt(Cmd(i)) /\ status[Cmd(i)] = "free"
  <1>1. LineOK
    BY DEF Base, Types
  <1>2. PICK i \in On : p = Sub(i) /\ Front(i, Head(todo[p]), Left(i))
    BY CallIs DEF Base, CloseIt, DestroyIt
  <1>3. PICK r \in Nat, m \in Nat : r = RunitLen(i) /\ m = RuncmdLen(i) /\ IF i < Len(line) THEN m = r + 7 ELSE m = r
    BY <1>1, Lengths
  <1>4. \/ i < Len(line) /\ Left(i) = r + 6 /\ Head(todo[p]) = CreateIt(Sub(i + 1))
        \/ Left(i) = r /\ Head(todo[p]) = CreateIt(Cmd(i))
    BY <1>2, <1>3 DEF Front, CloseIt, DestroyIt
  <1>5. /\ status[Cmd(i)] # "free" => Left(i) < RunitLen(i)
        /\ i < Len(line) /\ status[Sub(i + 1)] # "free" => Left(i) < RunitLen(i) + 6
    BY DEF Base, Order
  <1>6. CASE i < Len(line) /\ Left(i) = r + 6 /\ Head(todo[p]) = CreateIt(Sub(i + 1))
    <2>1. status[Sub(i + 1)] = "free"
      BY <1>3, <1>5, <1>6
    <2> QED
      BY <1>2, <1>3, <1>6, <2>1
  <1>7. CASE Left(i) = r /\ Head(todo[p]) = CreateIt(Cmd(i))
    <2>1. status[Cmd(i)] = "free"
      BY <1>3, <1>5, <1>7
    <2> QED
      BY <1>2, <1>3, <1>7, <2>1
  <1> QED
    BY <1>4, <1>6, <1>7

LEMMA OneMaker ==
  ASSUME Base, NEW q, NEW p \in Procs, NEW o \in Procs, Making(p, q), Making(o, q)
  PROVE  p = o
  <1>1. ASSUME NEW x \in Procs, Making(x, q)
        PROVE  \E i \in On : x = Sub(i) /\ (q = Cmd(i) \/ (i + 1 \in On /\ q = Sub(i + 1)))
    <2>1. status[x] = "live" /\ todo[x] # <<>> /\ Head(todo[x]) = CreateIt(q) /\ CreateIt(q).call = "create" /\ CreateIt(q).child = q
      BY <1>1 DEF Making, CreateIt
    <2>2. PICK i \in On : /\ x = Sub(i)
                          /\ \/ i < Len(line) /\ CreateIt(q) = CreateIt(Sub(i + 1))
                             \/ CreateIt(q) = CreateIt(Cmd(i))
      BY <2>1, CreateIs
    <2>3. CreateIt(q) = CreateIt(Cmd(i)) => q = Cmd(i)
      BY DEF CreateIt
    <2>4. CreateIt(q) = CreateIt(Sub(i + 1)) => q = Sub(i + 1)
      BY DEF CreateIt
    <2>5. i < Len(line) => i + 1 \in On
      BY Stages DEF Base, Types
    <2> QED
      BY <2>2, <2>3, <2>4, <2>5
  <1>2. PICK i \in On : p = Sub(i) /\ (q = Cmd(i) \/ (i + 1 \in On /\ q = Sub(i + 1)))
    BY <1>1
  <1>3. PICK j \in On : o = Sub(j) /\ (q = Cmd(j) \/ (j + 1 \in On /\ q = Sub(j + 1)))
    BY <1>1
  <1>4. On \subseteq Stage /\ i \in Int /\ j \in Int
    BY Stages, NumbersOn DEF Base, Types
  <1>5. i + 1 = j + 1 => i = j
    BY <1>4
  <1> QED
    BY <1>2, <1>3, <1>4, <1>5, Numbers

LEMMA CopyKeeps ==
  ASSUME Base, NEW p \in Procs, status[p] = "live", todo[p] # <<>>, Copy(p, Head(todo[p]))
  PROVE  Base'
  <1> DEFINE c == Head(todo[p])
             q == c.child
  <1>1. c.call = "create" /\ LineOK
    BY DEF Copy, Base, Types
  <1>2. c = CreateIt(q) /\ q \in Procs /\ status[q] = "free"
    <2>1. PICK i \in On : /\ p = Sub(i)
                          /\ \/ i < Len(line) /\ c = CreateIt(Sub(i + 1)) /\ status[Sub(i + 1)] = "free"
                             \/ c = CreateIt(Cmd(i)) /\ status[Cmd(i)] = "free"
      BY <1>1, CreateIs
    <2>2. Cmd(i) \in Procs /\ (i < Len(line) => Sub(i + 1) \in Procs)
      BY <1>1, NumbersOn
    <2>3. CreateIt(Sub(i + 1)).child = Sub(i + 1) /\ CreateIt(Cmd(i)).child = Cmd(i)
      BY DEF CreateIt
    <2> HIDE DEF c
    <2> QED
      BY <2>1, <2>2, <2>3
  <1>3. Making(p, q)
    BY <1>2 DEF Making
  <1>4. line' = line /\ status' = status /\ todo' = todo /\ at' = at
    BY DEF Copy
  <1> HIDE DEF q
  <1>5. /\ fd' \in [Procs -> [Fd -> End \cup {None}]] /\ data' \in [Procs -> [Fd -> Stage \cup {NoPipe}]]
        /\ \A o \in Procs \ {q} : fd'[o] = fd[o] /\ data'[o] = data[o]
        /\ \A s \in Fd : fd'[q][s] = fd[q][s] \/ fd'[q][s] = fd[p][s]
    <2>1. CASE /\ FdsLeft(p, q) # {} /\ fd' = [fd EXCEPT ![q][First(FdsLeft(p, q))] = fd[p][First(FdsLeft(p, q))]]
               /\ UNCHANGED data
      <3>1. PICK s \in Fd : s = First(FdsLeft(p, q))
        <4>1. FdsLeft(p, q) \in SUBSET Fd
          BY DEF FdsLeft
        <4> QED
          BY <2>1, <4>1, FirstIn
      <3>2. fd' = [fd EXCEPT ![q][s] = fd[p][s]] /\ data' = data
        BY <2>1, <3>1
      <3> QED
        BY <1>2, <3>2 DEF Base, Types
    <2>2. CASE /\ DataLeft(p, q) # {} /\ data' = [data EXCEPT ![q][First(DataLeft(p, q))] = data[p][First(DataLeft(p, q))]]
               /\ UNCHANGED fd
      <3>1. PICK s \in Fd : s = First(DataLeft(p, q))
        <4>1. DataLeft(p, q) \in SUBSET Fd
          BY DEF DataLeft
        <4> QED
          BY <2>2, <4>1, FirstIn
      <3>2. data' = [data EXCEPT ![q][s] = data[p][s]] /\ fd' = fd
        BY <2>2, <3>1
      <3> QED
        BY <1>2, <3>2 DEF Base, Types
    <2> QED
      BY <2>1, <2>2 DEF Copy, q
  <1>6. p # q
    BY <1>2
  <1>7. LineOK' /\ On' = On /\ Len(line)' = Len(line)
        /\ \A i \in On : RunitLen(i)' = RunitLen(i) /\ RuncmdLen(i)' = RuncmdLen(i) /\ Program(i)' = Program(i)
    BY <1>1, <1>4, LineStays
  <1>8. \A i \in On : Left(i)' = Left(i)
    BY <1>4 DEF Left
  <1>9. Types' /\ Lists'
    BY <1>4, <1>5, <1>7 DEF Base, Types, Lists
  <1>10. Order'
    BY <1>4, <1>7, <1>8 DEF Base, Order
  <1>11. Paired'
    BY <1>2, <1>4, <1>5 DEF Base, Paired, PairedAt
  <1>12. Dups'
    <2>1. SUFFICES ASSUME NEW o \in Procs PROVE DupAt(o)'
      BY DEF Dups
    <2>2. CASE o = q
      BY <1>2, <1>4, <2>2 DEF DupAt
    <2>3. CASE o # q
      <3>1. fd'[o] = fd[o] /\ data'[o] = data[o] /\ DupAt(o)
        BY <1>5, <2>3 DEF Base, Dups
      <3> QED
        BY <1>4, <3>1 DEF DupAt
    <2> QED
      BY <2>2, <2>3
  <1>13. HalfMade'
    <2>1. SUFFICES ASSUME NEW o \in Procs, status[o] = "free"
                   PROVE  \/ \A s \in Fd : fd'[o][s] = None
                          \/ \E x \in Procs : Making(x, o) /\ \A s \in Fd : fd'[o][s] = None \/ fd'[o][s] = fd'[x][s]
      <3>1. \A x \in Procs, o \in Procs : Making(x, o)' = Making(x, o)
        BY <1>4 DEF Making
      <3> QED
        BY <1>4, <3>1 DEF HalfMade
    <2>2. CASE o = q
      <3>1. \A s \in Fd : fd[q][s] = None \/ fd[q][s] = fd[p][s]
        BY <1>2, <1>3, OneMaker DEF Base, HalfMade
      <3> QED
        BY <1>3, <1>5, <1>6, <2>2, <3>1
    <2>3. CASE o # q
      <3>1. \A x \in Procs : Making(x, o) => x # q
        BY <1>2 DEF Making
      <3> QED
        BY <1>5, <2>1, <2>3, <3>1 DEF Base, HalfMade
    <2> QED
      BY <2>2, <2>3
  <1>14. SubSlots'
    <2>1. SUFFICES ASSUME NEW i \in On, status[Sub(i)] = "live" PROVE Fits(i, fd[Sub(i)], Left(i))'
      BY <1>4, <1>7 DEF SubSlots
    <2>2. Fits(i, fd[Sub(i)], Left(i))
      BY <2>1 DEF Base, SubSlots
    <2>3. fd'[Sub(i)] = fd[Sub(i)]
      BY <1>1, <1>2, <1>5, <2>1, NumbersOn
    <2> QED
      BY <1>7, <1>8, <2>2, <2>3 DEF Fits
  <1>15. CmdSlots'
    <2>1. SUFFICES ASSUME NEW i \in On, status[Cmd(i)] = "live" PROVE CmdFits(i, fd'[Cmd(i)])
      BY <1>4, <1>7 DEF CmdSlots, CmdFits
    <2>2. fd'[Cmd(i)] = fd[Cmd(i)]
      BY <1>1, <1>2, <1>5, <2>1, NumbersOn
    <2> QED
      BY <2>1, <2>2 DEF Base, CmdSlots
  <1>16. \A o \in Procs, s \in Fd : \E x \in Procs : fd'[o][s] = fd[x][s]
    BY <1>5
  <1>17. Fresh'
    BY <1>4, <1>7, <1>8, <1>16 DEF Base, Fresh
  <1>18. Told'
    <2>1. OldTold
      <3>1. SUFFICES ASSUME NEW i \in Stage, NEW w, In(i, w)'
                     PROVE  In(i, w) /\ fd'[Cmd(i)] = fd[Cmd(i)]
        BY DEF OldTold
      <3>2. Cmd(i) \in Procs /\ status[Cmd(i)] = "live"
        BY <1>4, <3>1, Numbers DEF In
      <3>3. fd'[Cmd(i)] = fd[Cmd(i)]
        BY <1>2, <1>5, <3>2
      <3> QED
        BY <1>4, <3>1, <3>3 DEF In
    <2> QED
      BY <1>9, <1>16, <2>1, ToldStays DEF Base
  <1> QED
    BY <1>9, <1>10, <1>11, <1>12, <1>13, <1>14, <1>15, <1>17, <1>18 DEF Base

\* Whoever is started: what the lists are then.
StartsAt(i, p, q) ==
  /\ p = Sub(i) /\ p \in Procs /\ q \in Procs /\ p # q /\ status[p] = "live" /\ status[q] = "free"
  /\ line' = line /\ fd' = fd /\ data' = data
  /\ status'[q] = "live" /\ \A o \in Procs \ {q} : status'[o] = status[o]
  /\ todo'[p] = Tail(todo[p]) /\ todo[p] # <<>> /\ Head(todo[p]) = CreateIt(q)
  /\ \A o \in Procs \ {p, q} : todo'[o] = todo[o]
  /\ \A s \in Fd : fd[p][s] = fd[q][s] /\ data[p][s] = data[q][s]

LEMMA StartIs ==
  ASSUME Base, Texts, NEW p \in Procs, status[p] = "live", todo[p] # <<>>, Start(p, Head(todo[p]))
  PROVE  \E i \in On, q \in Procs :
           /\ StartsAt(i, p, q)
           /\ \/ /\ i < Len(line) /\ Left(i) = RunitLen(i) + 6 /\ q = Sub(i + 1)
                 /\ todo'[q] = Forked(i + 1) /\ at' = at
              \/ /\ Left(i) = RunitLen(i) /\ q = Cmd(i)
                 /\ todo'[q] = todo[q] /\ at' = [at EXCEPT ![i] = IF i = 1 THEN "write" ELSE "read"]
           /\ status' \in [Procs -> {"free", "live", "dead"}] /\ todo' \in [Procs -> Seq(Calls)]
  <1> DEFINE c == Head(todo[p])
  <1>1. c.call = "create" /\ LineOK /\ todo[p] \in Seq(Calls) /\ Tail(todo[p]) \in Seq(Calls)
    BY DEF Start, Base, Types
  <1>2. PICK i \in On : /\ p = Sub(i)
                        /\ \/ i < Len(line) /\ Left(i) = RunitLen(i) + 6 /\ c = CreateIt(Sub(i + 1)) /\ status[Sub(i + 1)] = "free"
                           \/ Left(i) = RunitLen(i) /\ c = CreateIt(Cmd(i)) /\ status[Cmd(i)] = "free"
    BY <1>1, CreateIs
  <1>3. i \in Stage /\ Cmd(i) \in Procs /\ (i < Len(line) => i + 1 \in On /\ i + 1 \in Stage /\ Sub(i + 1) \in Procs)
    BY <1>1, NumbersOn, Stages
  <1>4. PICK q \in Procs : /\ c = CreateIt(q) /\ c.child = q /\ status[q] = "free"
                           /\ \/ i < Len(line) /\ Left(i) = RunitLen(i) + 6 /\ q = Sub(i + 1)
                              \/ Left(i) = RunitLen(i) /\ q = Cmd(i)
    <2>1. \A x : CreateIt(x).child = x
      BY DEF CreateIt
    <2> HIDE DEF c
    <2> QED
      BY <1>2, <1>3, <2>1
  <1>5. p # q
    BY <1>4
  <1>6. /\ FdsLeft(p, q) = {} /\ DataLeft(p, q) = {}
        /\ status' = [status EXCEPT ![q] = "live"] /\ line' = line /\ fd' = fd /\ data' = data
    BY <1>4 DEF Start, pages
  <1>7. \A s \in Fd : fd[p][s] = fd[q][s] /\ data[p][s] = data[q][s]
    BY <1>6 DEF FdsLeft, DataLeft
  <1>8. status' \in [Procs -> {"free", "live", "dead"}] /\ status'[q] = "live" /\ \A o \in Procs \ {q} : status'[o] = status[o]
    BY <1>6 DEF Base, Types
  <1>9. IF q = Cmd(StageOf(q))
        THEN /\ todo' = [todo EXCEPT ![p] = Tail(todo[p])]
             /\ at' = [at EXCEPT ![StageOf(q)] = IF StageOf(q) = 1 THEN "write" ELSE "read"]
        ELSE /\ todo' = [todo EXCEPT ![p] = Tail(todo[p]), ![q] = Forked(StageOf(q))]
             /\ at' = at
    BY <1>4 DEF Start, Done, Base, Types
  <1> HIDE DEF c
  <1>10. CASE i < Len(line) /\ Left(i) = RunitLen(i) + 6 /\ q = Sub(i + 1)
    <2>1. StageOf(q) = i + 1 /\ q # Cmd(StageOf(q))
      BY <1>3, <1>10, Numbers
    <2>2. todo' = [todo EXCEPT ![p] = Tail(todo[p]), ![q] = Forked(i + 1)] /\ at' = at
      BY <1>9, <2>1
    <2>3. Forked(i + 1) \in Seq(Calls)
      BY <1>1, <1>3, <1>10, RuncmdIs
    <2>4. /\ todo' \in [Procs -> Seq(Calls)] /\ todo'[p] = Tail(todo[p]) /\ todo'[q] = Forked(i + 1)
          /\ \A o \in Procs \ {p, q} : todo'[o] = todo[o]
      BY <1>1, <1>5, <2>2, <2>3 DEF Base, Types
    <2>5. StartsAt(i, p, q)
      BY <1>2, <1>4, <1>5, <1>6, <1>7, <1>8, <2>4 DEF StartsAt, c
    <2> QED
      BY <1>8, <1>10, <2>2, <2>4, <2>5
  <1>11. CASE Left(i) = RunitLen(i) /\ q = Cmd(i)
    <2>1. StageOf(q) = i /\ q = Cmd(StageOf(q))
      BY <1>3, <1>11, Numbers
    <2>2. todo' = [todo EXCEPT ![p] = Tail(todo[p])] /\ at' = [at EXCEPT ![i] = IF i = 1 THEN "write" ELSE "read"]
      BY <1>9, <2>1
    <2>3. /\ todo' \in [Procs -> Seq(Calls)] /\ todo'[p] = Tail(todo[p]) /\ todo'[q] = todo[q]
          /\ \A o \in Procs \ {p, q} : todo'[o] = todo[o]
      BY <1>1, <1>5, <2>2 DEF Base, Types
    <2>4. StartsAt(i, p, q)
      BY <1>2, <1>4, <1>5, <1>6, <1>7, <1>8, <2>3 DEF StartsAt, c
    <2> QED
      BY <1>8, <1>11, <2>2, <2>3, <2>4
  <1> QED
    BY <1>4, <1>10, <1>11

\* What the start of a child does to all others, whichever child it is.
LEMMA StartRest ==
  ASSUME Base, NEW i \in On, NEW p, NEW q, StartsAt(i, p, q)
  PROVE  Paired' /\ HalfMade'
  <1>1. Paired'
    <2>1. SUFFICES ASSUME NEW o \in Procs, status'[o] # "free", NEW s \in Fd, fd[o][s] # None
                   PROVE  data[o][s] = fd[o][s][1]
      BY DEF StartsAt, Paired, PairedAt
    <2>2. CASE o = q
      <3>1. fd[p][s] = fd[q][s] /\ data[p][s] = data[q][s] /\ status[p] # "free" /\ p \in Procs
        BY DEF StartsAt
      <3> QED
        BY <2>1, <2>2, <3>1 DEF Base, Paired, PairedAt
    <2>3. CASE o # q
      <3>1. status[o] # "free"
        BY <2>1, <2>3 DEF StartsAt
      <3> QED
        BY <2>1, <3>1 DEF Base, Paired, PairedAt
    <2> QED
      BY <2>2, <2>3
  <1>2. HalfMade'
    <2>1. SUFFICES ASSUME NEW o \in Procs, status'[o] = "free"
                   PROVE  \/ \A s \in Fd : fd[o][s] = None
                          \/ \E x \in Procs : Making(x, o)' /\ \A s \in Fd : fd[o][s] = None \/ fd[o][s] = fd[x][s]
      BY DEF StartsAt, HalfMade
    <2>2. o # q /\ status[o] = "free"
      BY <2>1 DEF StartsAt
    <2>3. ASSUME NEW x \in Procs, Making(x, o) PROVE Making(x, o)'
      <3>1. status[x] = "live" /\ todo[x] # <<>> /\ Head(todo[x]) = CreateIt(o)
        BY <2>3 DEF Making
      <3>2. CreateIt(o) # CreateIt(q)
        BY <2>2 DEF CreateIt
      <3>3. x # p /\ x # q
        BY <3>1, <3>2 DEF StartsAt
      <3>4. status'[x] = status[x] /\ todo'[x] = todo[x]
        BY <3>3 DEF StartsAt
      <3> QED
        BY <3>1, <3>4 DEF Making
    <2> QED
      BY <2>2, <2>3 DEF Base, HalfMade
  <1> QED
    BY <1>1, <1>2

\* The shell that has started it goes on.
LEMMA StartParent ==
  ASSUME Base, NEW i \in On, NEW p, NEW q, StartsAt(i, p, q),
         (i < Len(line) /\ Left(i) = RunitLen(i) + 6) \/ Left(i) = RunitLen(i)
  PROVE  /\ TailOf(todo'[p], Program(i)) /\ Left(i)' = Left(i) - 1 /\ Left(i) \in Nat \ {0}
         /\ DupAt(p)' /\ Fits(i, fd[p], Left(i) - 1)
  <1>1. LineOK /\ p = Sub(i) /\ todo[p] # <<>> /\ todo'[p] = Tail(todo[p]) /\ status[p] = "live"
    BY DEF Base, Types, StartsAt
  <1>2. TailOf(todo[p], Program(i)) /\ Program(i) \in Seq(Calls)
    BY <1>1, ProgramIs DEF Base, Lists
  <1>3. TailOf(todo'[p], Program(i))
    BY <1>1, <1>2, TailShorter
  <1>4. PICK n \in Nat : n = Left(i) - 1 /\ Left(i) = n + 1
    BY <1>1, AfterCall DEF Base
  <1>5. Len(todo'[p]) = n /\ (todo'[p] # <<>> => Front(i, Head(todo'[p]), n))
    BY <1>1, <1>4, AfterCall DEF Base
  <1>6. PICK r \in Nat, m \in Nat : r = RunitLen(i) /\ m = RuncmdLen(i) /\ r >= 2 /\ IF i < Len(line) THEN m = r + 7 ELSE m = r
    BY <1>1, Lengths
  <1>7. (i < Len(line) /\ n = r + 5) \/ n + 1 = r
    BY <1>4, <1>6
  <1>8. DupAt(p)'
    <2>1. todo'[p] # <<>> => Head(todo'[p]).call \in {"create", "close", "wait", "destroy"}
      <3>1. CASE i < Len(line) /\ n = r + 5
        <4>1. SUFFICES ASSUME Front(i, Head(todo'[p]), n)
                       PROVE  Head(todo'[p]) = [call |-> "close", fds |-> {1}]
          BY <1>5
        <4>0. m = r + 7 /\ n = r + 5 /\ r \in Nat /\ n \in Nat
          BY <1>6, <3>1
        <4>2. /\ n # m + 5 /\ n # m + 4 /\ n # m + 3 /\ n # m + 2 /\ n # m + 1
              /\ n # r + 7 /\ n # r + 6 /\ n # r + 4 /\ n # r + 3 /\ n # r + 2 /\ n # r + 1
              /\ n # r /\ ~(n <= r) /\ n # 1
          BY <4>0
        <4> QED
          BY <1>6, <4>1, <4>2 DEF Front
      <3>2. CASE n + 1 = r
        <4>1. n <= RunitLen(i)
          BY <1>6, <3>2
        <4> QED
          BY <1>1, <1>5, <4>1, NoDup
      <3> QED
        BY <1>7, <3>1, <3>2
    <2> QED
      BY <2>1 DEF DupAt
  <1>9. Fits(i, fd[p], n)
    <2>1. Fits(i, fd[p], n + 1)
      BY <1>1, <1>4 DEF Base, SubSlots
    <2>2. CASE i < Len(line) /\ n = r + 5
      BY <1>6, <2>1, <2>2 DEF Fits
    <2>3. CASE n + 1 = r
      BY <1>6, <2>1, <2>3 DEF Fits
    <2> QED
      BY <1>7, <2>2, <2>3
  <1> QED
    BY <1>1, <1>3, <1>4, <1>5, <1>8, <1>9 DEF Left

LEMMA StartTold ==
  ASSUME Base, Types', NEW q \in Procs, status[q] = "free", line' = line, fd' = fd,
         \A i \in Stage : In(i, "eof")' => In(i, "eof"), \A i \in Stage : In(i, "broken")' => In(i, "broken")
  PROVE  Told'
  <1>1. OldTold
    BY DEF OldTold
  <1>2. \A o \in Procs, s \in Fd : fd'[o][s] # None =>
          \/ \E x \in Procs, t \in Fd : fd'[o][s] = fd[x][t]
          \/ \E i \in On : Left(i) = RunitLen(i) + 7 /\ fd'[o][s] \in {Rd(i), Wr(i)}
    OBVIOUS
  <1> QED
    BY <1>1, <1>2, ToldStays DEF Base

\* sys_env_set_status() of the command.
LEMMA StartCmdKeeps ==
  ASSUME Base, Texts, NEW i \in On, NEW p, NEW q, StartsAt(i, p, q), Left(i) = RunitLen(i), q = Cmd(i),
         todo'[q] = todo[q], at' = [at EXCEPT ![i] = IF i = 1 THEN "write" ELSE "read"],
         status' \in [Procs -> {"free", "live", "dead"}], todo' \in [Procs -> Seq(Calls)]
  PROVE  Base'
  <1>1. LineOK /\ On \subseteq Stage /\ i \in Stage /\ p \in Procs /\ q \in Procs /\ p # q /\ p = Sub(i)
        /\ status[p] = "live" /\ status[q] = "free" /\ line' = line /\ fd' = fd /\ data' = data
        /\ status'[q] = "live" /\ (\A o \in Procs \ {q} : status'[o] = status[o])
        /\ \A o \in Procs \ {p} : todo'[o] = todo[o]
    BY Stages DEF StartsAt, Base, Types
  <1>2. /\ TailOf(todo'[p], Program(i)) /\ Left(i)' = Left(i) - 1 /\ Left(i) \in Nat \ {0}
        /\ DupAt(p)' /\ Fits(i, fd[p], Left(i) - 1)
    BY StartParent
  <1>3. LineOK' /\ On' = On /\ Len(line)' = Len(line)
        /\ \A j \in On : RunitLen(j)' = RunitLen(j) /\ RuncmdLen(j)' = RuncmdLen(j) /\ Program(j)' = Program(j)
    BY <1>1, LineStays
  <1>4. \A j \in On : j # i => Left(j)' = Left(j)
    <2>1. \A j \in On : j # i => Sub(j) # p /\ Sub(j) \in Procs
      BY <1>1, Numbers
    <2> QED
      BY <1>1, <2>1 DEF Left
  <1>5. Types'
    BY <1>1, <1>3 DEF Base, Types
  <1>6. Lists'
    <2>1. \A j \in On : TailOf(todo'[Sub(j)], Program(j))
      BY <1>1, <1>2, Numbers DEF Base, Lists
    <2>2. \A j \in Stage : TailOf(todo'[Cmd(j)], Exit)
      BY <1>1, Numbers DEF Base, Lists
    <2>3. \A j \in Stage \ On : status'[Sub(j)] = "free" /\ status'[Cmd(j)] = "free"
      BY <1>1, Numbers DEF Base, Lists
    <2>4. \A o \in Procs : status'[o] # "live" => todo'[o] = <<>>
      BY <1>1 DEF Base, Lists
    <2> QED
      BY <1>3, <2>1, <2>2, <2>3, <2>4 DEF Lists
  <1>7. Order'
    <2>1. SUFFICES ASSUME NEW j \in On
                   PROVE  /\ status'[Cmd(j)] # "free" => status'[Sub(j)] # "free" /\ Left(j)' < RunitLen(j)
                          /\ j < Len(line) /\ status'[Sub(j + 1)] # "free" =>
                               status'[Sub(j)] # "free" /\ Left(j)' < RunitLen(j) + 6
      BY <1>1, <1>3 DEF Order
    <2>2. /\ status[Cmd(j)] # "free" => status[Sub(j)] # "free" /\ Left(j) < RunitLen(j)
          /\ j < Len(line) /\ status[Sub(j + 1)] # "free" =>
               status[Sub(j)] # "free" /\ Left(j) < RunitLen(j) + 6
      BY DEF Base, Order
    <2>3. PICK r \in Nat : r = RunitLen(j)
      BY <1>1, Lengths
    <2>4. \A k \in Stage : status'[Sub(k)] = status[Sub(k)]
      BY <1>1, Numbers
    <2>5. j < Len(line) => j + 1 \in Stage
      BY <1>1, Stages
    <2>6. CASE j = i
      <3>1. PICK n \in Nat : Left(i)' = n /\ n + 1 = r
        BY <1>2, <2>3, <2>6
      <3> QED
        BY <1>1, <2>2, <2>3, <2>4, <2>5, <2>6, <3>1
    <2>7. CASE j # i
      <3>1. status'[Cmd(j)] = status[Cmd(j)] /\ Left(j)' = Left(j)
        BY <1>1, <1>4, <2>7, Numbers
      <3> QED
        BY <1>1, <2>2, <2>4, <2>5, <3>1
    <2> QED
      BY <2>6, <2>7
  <1>8. Paired' /\ HalfMade'
    BY StartRest
  <1>9. Dups'
    <2>1. SUFFICES ASSUME NEW o \in Procs, o # p PROVE DupAt(o)'
      BY <1>2 DEF Dups
    <2>2. CASE o = q
      <3>1. todo'[o] = <<>>
        BY <1>1, <2>2 DEF Base, Lists
      <3> QED
        BY <3>1 DEF DupAt
    <2>3. CASE o # q
      <3>1. status'[o] = status[o] /\ todo'[o] = todo[o] /\ DupAt(o)
        BY <1>1, <2>1, <2>3 DEF Base, Dups
      <3> QED
        BY <1>1, <3>1 DEF DupAt
    <2> QED
      BY <2>2, <2>3
  <1>10. SubSlots'
    <2>1. SUFFICES ASSUME NEW j \in On, status'[Sub(j)] = "live" PROVE Fits(j, fd[Sub(j)], Left(j)')
      BY <1>1, <1>3 DEF SubSlots, Fits
    <2>2. CASE j = i
      BY <1>1, <1>2, <2>2
    <2>3. CASE j # i
      <3>1. status[Sub(j)] = "live"
        BY <1>1, <2>1, Numbers
      <3> QED
        BY <1>4, <2>3, <3>1 DEF Base, SubSlots
    <2> QED
      BY <2>2, <2>3
  <1>11. CmdSlots'
    <2>1. SUFFICES ASSUME NEW j \in On, status'[Cmd(j)] = "live" PROVE CmdFits(j, fd[Cmd(j)])
      BY <1>1, <1>3 DEF CmdSlots, CmdFits
    <2>2. CASE j = i
      <3>1. PICK r \in Nat, m \in Nat : r = RunitLen(i) /\ m = RuncmdLen(i) /\ r <= m
        BY <1>1, Lengths
      <3>2. Fits(i, fd[p], r)
        BY <1>1, <3>1 DEF Base, SubSlots
      <3>3. fd[p][0] \in {None, Rd(i - 1)} /\ fd[p][1] \in {None, Wr(i)}
        BY <3>1, <3>2 DEF Fits
      <3>4. fd[q][0] = fd[p][0] /\ fd[q][1] = fd[p][1]
        BY FdsAre DEF StartsAt
      <3> QED
        BY <2>2, <3>3, <3>4 DEF CmdFits
    <2>3. CASE j # i
      <3>1. status[Cmd(j)] = "live"
        BY <1>1, <2>1, <2>3, Numbers
      <3> QED
        BY <3>1 DEF Base, CmdSlots
    <2> QED
      BY <2>2, <2>3
  <1>12. Fresh'
    <2>1. SUFFICES ASSUME NEW o \in Procs, NEW s \in Fd, fd[o][s] # None
                   PROVE  \E k \in On : /\ k = fd[o][s][1] /\ k < Len(line) /\ status'[Sub(k)] # "free"
                                        /\ Left(k)' <= RunitLen(k) + 6
      BY <1>1, <1>3 DEF Fresh
    <2>2. PICK k \in On : k = fd[o][s][1] /\ k < Len(line) /\ status[Sub(k)] # "free" /\ Left(k) <= RunitLen(k) + 6
      BY <2>1 DEF Base, Fresh
    <2>3. status'[Sub(k)] # "free"
      BY <1>1, <2>2, Numbers
    <2>4. PICK r \in Nat : r = RunitLen(k)
      BY <1>1, Lengths
    <2>5. CASE k = i
      <3>1. PICK n \in Nat : Left(i)' = n /\ n + 1 = r
        BY <1>2, <2>4, <2>5
      <3>2. Left(k)' <= RunitLen(k) + 6
        BY <2>4, <2>5, <3>1
      <3> QED
        BY <2>2, <2>3, <3>2
    <2>6. CASE k # i
      BY <1>4, <2>2, <2>3, <2>6
    <2> QED
      BY <2>5, <2>6
  <1>13. Told'
    <2>1. SUFFICES ASSUME NEW j \in Stage, NEW w \in {"eof", "broken"}, In(j, w)' PROVE In(j, w)
      BY <1>1, <1>5, StartTold
    <2>2. j # i
      BY <2>1 DEF Texts, In
    <2>3. at'[j] = at[j] /\ Cmd(j) # q /\ Cmd(j) # p /\ Cmd(j) \in Procs
      BY <1>1, <2>2, Numbers DEF Texts
    <2> QED
      BY <1>1, <2>1, <2>3 DEF In
  <1> QED
    BY <1>5, <1>6, <1>7, <1>8, <1>9, <1>10, <1>11, <1>12, <1>13 DEF Base

\* ... and of the shell for the rest of the line.
LEMMA StartSubKeeps ==
  ASSUME Base, NEW i \in On, NEW p, NEW q, StartsAt(i, p, q), i < Len(line), Left(i) = RunitLen(i) + 6,
         q = Sub(i + 1), todo'[q] = Forked(i + 1), at' = at,
         status' \in [Procs -> {"free", "live", "dead"}], todo' \in [Procs -> Seq(Calls)]
  PROVE  Base'
  <1>1. LineOK /\ On \subseteq Stage /\ i \in Stage /\ p \in Procs /\ q \in Procs /\ p # q /\ p = Sub(i)
        /\ status[p] = "live" /\ status[q] = "free" /\ line' = line /\ fd' = fd /\ data' = data
        /\ status'[q] = "live" /\ (\A o \in Procs \ {q} : status'[o] = status[o])
        /\ \A o \in Procs \ {p, q} : todo'[o] = todo[o]
    BY Stages DEF StartsAt, Base, Types
  <1>2. /\ TailOf(todo'[p], Program(i)) /\ Left(i)' = Left(i) - 1 /\ Left(i) \in Nat \ {0}
        /\ DupAt(p)' /\ Fits(i, fd[p], Left(i) - 1)
    BY StartParent
  <1>3. LineOK' /\ On' = On /\ Len(line)' = Len(line)
        /\ \A j \in On : RunitLen(j)' = RunitLen(j) /\ RuncmdLen(j)' = RuncmdLen(j) /\ Program(j)' = Program(j)
    BY <1>1, LineStays
  <1>4. PICK h \in On : h = i + 1 /\ h # i /\ h > 1 /\ h \in Stage /\ q = Sub(h) /\ i = h - 1 /\ i - 1 = h - 2 /\ h \in Int /\ i \in Int
    <2>1. i + 1 \in On /\ i + 1 \in Stage /\ i \in Nat /\ i > 0
      BY <1>1, Stages DEF Stage
    <2>2. PICK n \in Nat : n = i /\ n > 0 /\ i + 1 = n + 1
      BY <2>1
    <2>3. n + 1 # n /\ n + 1 > 1 /\ n = (n + 1) - 1 /\ n - 1 = (n + 1) - 2 /\ n + 1 \in Int
      BY <2>2
    <2> QED
      BY <2>1, <2>2, <2>3
  <1>5. \A j \in On : j # i /\ j # h => Left(j)' = Left(j)
    <2>1. \A j \in On : j # i /\ j # h => Sub(j) # p /\ Sub(j) # q /\ Sub(j) \in Procs
      BY <1>1, <1>4, Numbers
    <2> QED
      BY <1>1, <2>1 DEF Left
  <1>6. Forked(h) \in Seq(Calls) /\ Program(h) = Forked(h) /\ Left(h)' = RuncmdLen(h) + 5 /\ Forked(h) # <<>>
        /\ RuncmdLen(h) \in Nat
    <2>1. Forked(h) \in Seq(Calls) /\ Len(Forked(h)) = RuncmdLen(h) + 5 /\ RuncmdLen(h) \in Nat
      BY <1>1, Lengths, RuncmdIs
    <2>2. Forked(h) # <<>>
      BY <2>1, EmptySeq
    <2>3. Left(h)' = Len(Forked(h))
      BY <1>4 DEF Left
    <2> QED
      BY <1>4, <2>1, <2>2, <2>3 DEF Program
  <1>7. TailOf(todo'[q], Program(h))
    BY <1>4, <1>6, TailWhole
  <1>8. Types'
    BY <1>1, <1>3 DEF Base, Types
  <1>9. Lists'
    <2>1. \A j \in On : TailOf(todo'[Sub(j)], Program(j))
      <3>1. SUFFICES ASSUME NEW j \in On PROVE TailOf(todo'[Sub(j)], Program(j))
        OBVIOUS
      <3>2. CASE j = i
        BY <1>1, <1>2, <3>2
      <3>3. CASE j = h
        BY <1>4, <1>7, <3>3
      <3>4. CASE j # i /\ j # h
        <4>1. Sub(j) \in Procs /\ Sub(j) # p /\ Sub(j) # q
          BY <1>1, <1>4, <3>4, Numbers
        <4> QED
          BY <1>1, <4>1 DEF Base, Lists
      <3> QED
        BY <3>2, <3>3, <3>4
    <2>2. \A j \in Stage : TailOf(todo'[Cmd(j)], Exit)
      BY <1>1, <1>4, Numbers DEF Base, Lists
    <2>3. \A j \in Stage \ On : status'[Sub(j)] = "free" /\ status'[Cmd(j)] = "free"
      <3>1. SUFFICES ASSUME NEW j \in Stage \ On PROVE status'[Sub(j)] = "free" /\ status'[Cmd(j)] = "free"
        OBVIOUS
      <3>2. j # h
        BY <1>4
      <3>3. Sub(j) \in Procs /\ Cmd(j) \in Procs /\ Sub(j) # q /\ Cmd(j) # q
        BY <1>4, <3>2, Numbers
      <3> QED
        BY <1>1, <3>3 DEF Base, Lists
    <2>4. \A o \in Procs : status'[o] # "live" => todo'[o] = <<>>
      BY <1>1 DEF Base, Lists
    <2> QED
      BY <1>3, <2>1, <2>2, <2>3, <2>4 DEF Lists
  <1>10. status[Cmd(h)] = "free" /\ (h < Len(line) => status[Sub(h + 1)] = "free")
    BY <1>1, <1>4 DEF Base, Order
  <1>11. Order'
    <2>1. SUFFICES ASSUME NEW j \in On
                   PROVE  /\ status'[Cmd(j)] # "free" => status'[Sub(j)] # "free" /\ Left(j)' < RunitLen(j)
                          /\ j < Len(line) /\ status'[Sub(j + 1)] # "free" =>
                               status'[Sub(j)] # "free" /\ Left(j)' < RunitLen(j) + 6
      BY <1>1, <1>3 DEF Order
    <2>2. /\ status[Cmd(j)] # "free" => status[Sub(j)] # "free" /\ Left(j) < RunitLen(j)
          /\ j < Len(line) /\ status[Sub(j + 1)] # "free" =>
               status[Sub(j)] # "free" /\ Left(j) < RunitLen(j) + 6
      BY DEF Base, Order
    <2>3. PICK r \in Nat : r = RunitLen(j)
      BY <1>1, Lengths
    <2>4. status'[Cmd(j)] = status[Cmd(j)]
      BY <1>1, <1>4, Numbers
    <2>5. j < Len(line) => j + 1 \in Stage /\ j + 1 \in Int /\ (j + 1 = h => j = i)
      BY <1>1, <1>4, Stages
    <2>6. CASE j = i
      <3>1. PICK n \in Nat : Left(i)' = n /\ n + 1 = r + 6
        BY <1>2, <2>3, <2>6
      <3>2. status[Cmd(j)] # "free" => FALSE
        BY <2>2, <2>3, <2>6
      <3>3. status'[Sub(j)] # "free"
        BY <1>1, <2>6
      <3>4. Left(j)' < RunitLen(j) + 6
        BY <2>3, <2>6, <3>1
      <3> QED
        BY <2>4, <3>2, <3>3, <3>4
    <2>7. CASE j = h
      <3>1. j < Len(line) => status'[Sub(j + 1)] = status[Sub(j + 1)]
        BY <1>1, <1>4, <2>5, <2>7, Numbers
      <3> QED
        BY <1>10, <2>4, <2>7, <3>1
    <2>8. CASE j # i /\ j # h
      <3>1. Left(j)' = Left(j) /\ status'[Sub(j)] = status[Sub(j)]
        BY <1>1, <1>4, <1>5, <2>8, Numbers
      <3>2. j < Len(line) => status'[Sub(j + 1)] = status[Sub(j + 1)]
        BY SMTT(40), <1>1, <1>4, <2>5, <2>8, Numbers
      <3> QED
        BY <2>2, <2>4, <3>1, <3>2
    <2> QED
      BY <2>6, <2>7, <2>8
  <1>12. Paired' /\ HalfMade'
    BY StartRest
  <1>13. Dups'
    <2>1. SUFFICES ASSUME NEW o \in Procs, o # p PROVE DupAt(o)'
      BY <1>2 DEF Dups
    <2>2. CASE o = q
      <3>1. Head(todo'[o]) = Forked(h)[1] /\ Forked(h)[1] = ForkCalls[1]
        <4>1. PICK m \in Nat : m = RuncmdLen(h)
          BY <1>6
        <4>2. 1 \in 1 .. 5 + Len(Runcmd(h)) /\ 1 <= 5
          BY <4>1 DEF RuncmdLen
        <4>3. Forked(h)[1] = ForkCalls[1]
          BY <1>1, <4>2, RuncmdIs
        <4> QED
          BY <1>4, <1>6, <2>2, <4>3
      <3>2. Head(todo'[o]) = [call |-> "close", fds |-> {0}]
        BY <3>1, ForkCallsAre
      <3> QED
        BY <3>2 DEF DupAt
    <2>3. CASE o # q
      <3>1. status'[o] = status[o] /\ todo'[o] = todo[o] /\ DupAt(o)
        BY <1>1, <2>1, <2>3 DEF Base, Dups
      <3> QED
        BY <1>1, <3>1 DEF DupAt
    <2> QED
      BY <2>2, <2>3
  <1>14. SubSlots'
    <2>1. SUFFICES ASSUME NEW j \in On, status'[Sub(j)] = "live" PROVE Fits(j, fd[Sub(j)], Left(j)')
      BY <1>1, <1>3 DEF SubSlots, Fits
    <2>2. CASE j = i
      BY <1>1, <1>2, <2>2
    <2>3. CASE j = h
      <3>1. PICK r \in Nat, m \in Nat : r = RunitLen(i) /\ m = RuncmdLen(i) /\ IF i < Len(line) THEN m = r + 7 ELSE m = r
        BY <1>1, Lengths
      <3>2. m = r + 7
        BY <3>1
      <3>3. Fits(i, fd[p], r + 6)
        BY <1>1, <3>1 DEF Base, SubSlots
      <3>4. fd[p][0] \in {None, Rd(i - 1)} /\ fd[p][1] = None /\ fd[p][2] \in {None, Rd(i)} /\ fd[p][3] \in {None, Wr(i)}
        BY <3>1, <3>2, <3>3 DEF Fits
      <3>5. fd[q][0] = fd[p][0] /\ fd[q][1] = fd[p][1] /\ fd[q][2] = fd[p][2] /\ fd[q][3] = fd[p][3]
        BY FdsAre DEF StartsAt
      <3>6. fd[q][0] \in {None, Rd(h - 2)} /\ fd[q][1] = None /\ fd[q][2] \in {None, Rd(h - 1)} /\ fd[q][3] \in {None, Wr(h - 1)}
        BY <1>4, <3>4, <3>5
      <3>7. PICK l \in Nat : l = RuncmdLen(h) /\ l + 5 >= l + 2 /\ l + 5 >= l + 1
        BY <1>6
      <3>8. Fits(h, fd[q], l + 5)
        BY <3>6, <3>7 DEF Fits
      <3> QED
        BY <1>4, <1>6, <2>3, <3>7, <3>8
    <2>4. CASE j # i /\ j # h
      <3>1. status[Sub(j)] = "live"
        BY <1>1, <1>4, <2>1, <2>4, Numbers
      <3> QED
        BY <1>5, <2>4, <3>1 DEF Base, SubSlots
    <2> QED
      BY <2>2, <2>3, <2>4
  <1>15. CmdSlots'
    <2>1. SUFFICES ASSUME NEW j \in On, status'[Cmd(j)] = "live" PROVE CmdFits(j, fd[Cmd(j)])
      BY <1>1, <1>3 DEF CmdSlots, CmdFits
    <2>2. status[Cmd(j)] = "live"
      <3>1. j \in Stage /\ Cmd(j) \in Procs /\ Cmd(j) # q
        BY <1>1, <1>4, Numbers
      <3> QED
        BY <1>1, <2>1, <3>1
    <2> QED
      BY <2>2 DEF Base, CmdSlots
  <1>16. Fresh'
    <2>1. SUFFICES ASSUME NEW o \in Procs, NEW s \in Fd, fd[o][s] # None
                   PROVE  \E k \in On : /\ k = fd[o][s][1] /\ k < Len(line) /\ status'[Sub(k)] # "free"
                                        /\ Left(k)' <= RunitLen(k) + 6
      BY <1>1, <1>3 DEF Fresh
    <2>2. PICK k \in On : k = fd[o][s][1] /\ k < Len(line) /\ status[Sub(k)] # "free" /\ Left(k) <= RunitLen(k) + 6
      BY <2>1 DEF Base, Fresh
    <2>3. status'[Sub(k)] # "free" /\ k # h
      BY <1>1, <1>4, <2>2, Numbers
    <2>4. PICK r \in Nat : r = RunitLen(k)
      BY <1>1, Lengths
    <2>5. CASE k = i
      <3>1. PICK n \in Nat : Left(i)' = n /\ n + 1 = r + 6
        BY <1>2, <2>4, <2>5
      <3>2. Left(k)' <= RunitLen(k) + 6
        BY <2>4, <2>5, <3>1
      <3> QED
        BY <2>2, <2>3, <3>2
    <2>6. CASE k # i
      BY <1>5, <2>2, <2>3, <2>6
    <2> QED
      BY <2>5, <2>6
  <1>17. Told'
    <2>1. SUFFICES ASSUME NEW j \in Stage, NEW w, In(j, w)' PROVE In(j, w)
      BY <1>1, <1>8, StartTold
    <2>2. Cmd(j) # q /\ Cmd(j) # p /\ Cmd(j) \in Procs
      BY <1>1, <1>4, Numbers
    <2> QED
      BY <1>1, <2>1, <2>2 DEF In
  <1> QED
    BY <1>8, <1>9, <1>11, <1>12, <1>13, <1>14, <1>15, <1>16, <1>17 DEF Base

LEMMA StartKeeps ==
  ASSUME Base, Texts, NEW p \in Procs, status[p] = "live", todo[p] # <<>>, Start(p, Head(todo[p]))
  PROVE  Base'
  BY StartIs, StartCmdKeeps, StartSubKeeps

-----------------------------------------------------------------------------
(***************************************************************************)
(* The invariant holds                                                     *)
(***************************************************************************)
IInv == Base /\ Texts

LEMMA InitIInv == Init => IInv
  <1> SUFFICES ASSUME Init PROVE IInv
    OBVIOUS
  <1>1. LineOK
    <2>1. PICK n \in 1 .. N : line \in [1 .. n -> Words]
      BY DEF Init
    <2>2. n \in Nat /\ n \in Stage
      BY <2>1, Numbers DEF Stage
    <2>3. line \in Seq(Words) /\ Len(line) = n
      BY <2>1, <2>2
    <2> QED
      BY <2>2, <2>3 DEF LineOK
  <1>2. 1 \in Stage /\ 1 \in On /\ On \subseteq Stage
    BY <1>1, Stages DEF LineOK, Stage, On
  <1>3. Runcmd(1) \in Seq(Calls) /\ TailOf(Runcmd(1), Runcmd(1)) /\ Program(1) = Runcmd(1)
    BY <1>1, <1>2, RuncmdIs, TailWhole DEF Program
  <1>4. /\ \A p \in Procs : status[p] = IF p = Sub(1) THEN "live" ELSE "free"
        /\ \A p \in Procs : todo[p] = IF p = Sub(1) THEN Runcmd(1) ELSE <<>>
        /\ \A p \in Procs, s \in Fd : fd[p][s] = None /\ data[p][s] = NoPipe
        /\ \A i \in Stage : at[i] = "none"
    BY DEF Init, Closed
  <1>5. Types
    <2>1. <<>> \in Seq(Calls)
      OBVIOUS
    <2> QED
      BY <1>1, <1>3, <2>1 DEF Init, Closed, Types
  <1>6. Lists
    <2>1. ASSUME NEW i \in On PROVE TailOf(todo[Sub(i)], Program(i))
      <3>1. CASE i = 1
        BY <1>2, <1>3, <1>4, <3>1, Numbers
      <3>2. CASE i # 1
        <4>1. todo[Sub(i)] = <<>>
          BY <1>2, <1>4, <3>2, Numbers
        <4> QED
          BY <1>1, <4>1, ProgramIs, TailEmpty
      <3> QED
        BY <3>1, <3>2
    <2>2. ASSUME NEW i \in Stage PROVE TailOf(todo[Cmd(i)], Exit)
      <3>1. todo[Cmd(i)] = <<>>
        BY <1>2, <1>4, Numbers
      <3> QED
        BY <3>1, OnesAre, TailEmpty
    <2>3. ASSUME NEW i \in Stage \ On PROVE status[Sub(i)] = "free" /\ status[Cmd(i)] = "free"
      <3>1. i # 1
        BY <1>2
      <3>2. Sub(i) \in Procs /\ Cmd(i) \in Procs /\ Sub(i) # Sub(1) /\ Cmd(i) # Sub(1)
        BY <1>2, <3>1, Numbers
      <3> QED
        BY <1>4, <3>2
    <2>4. \A p \in Procs : status[p] # "live" => todo[p] = <<>>
      BY <1>4
    <2> QED
      BY <2>1, <2>2, <2>3, <2>4 DEF Lists
  <1>7. Order
    <2>1. ASSUME NEW i \in On
          PROVE  status[Cmd(i)] = "free" /\ (i < Len(line) => status[Sub(i + 1)] = "free")
      <3>1. status[Cmd(i)] = "free"
        BY <1>2, <1>4, Numbers
      <3>2. ASSUME i < Len(line) PROVE status[Sub(i + 1)] = "free"
        <4>1. i + 1 \in Stage /\ i + 1 # 1
          BY <1>1, <3>2, Stages DEF On
        <4> QED
          BY <1>2, <1>4, <4>1, Numbers
      <3> QED
        BY <3>1, <3>2
    <2> QED
      BY <2>1 DEF Order
  <1>8. Paired /\ HalfMade /\ Fresh
    BY <1>4 DEF Paired, PairedAt, HalfMade, Fresh
  <1>9. Dups
    <2>1. SUFFICES ASSUME NEW p \in Procs, todo[p] # <<>>, NEW c, c = Head(todo[p])
                   PROVE  /\ c.call = "mapData" => fd[p][c.new] = None
                          /\ c.call = "mapFd" => fd[p][c.new] = None /\ data[p][c.new] = data[p][c.old]
      BY DEF Dups, DupAt
    <2>2. todo[p] \in Seq(Calls)
      BY <1>5 DEF Types
    <2>3. c \in Calls
      BY <2>1, <2>2
    <2>4. c.call \in {"mapData", "mapFd"} => c.new \in Fd /\ c.old \in Fd
      BY <2>3 DEF Calls
    <2> QED
      BY <1>4, <2>4
  <1>10. SubSlots
    <2>1. ASSUME NEW i \in On PROVE \A s \in Fd : fd[Sub(i)][s] = None
      BY <1>2, <1>4, Numbers
    <2> QED
      BY <2>1, FdsAre DEF SubSlots, Fits
  <1>11. CmdSlots
    <2>1. ASSUME NEW i \in On PROVE \A s \in Fd : fd[Cmd(i)][s] = None
      BY <1>2, <1>4, Numbers
    <2> QED
      BY <2>1, FdsAre DEF CmdSlots, CmdFits
  <1>12. Told
    BY <1>4 DEF Told, In
  <1>13. Texts
    BY <1>4, Numbers DEF Texts, Init
  <1> QED
    BY <1>5, <1>6, <1>7, <1>8, <1>9, <1>10, <1>11, <1>12, <1>13 DEF IInv, Base

\* A step that leaves the bytes alone, and the first command where it is.
LEMMA TextsStay ==
  ASSUME Texts, NEW i \in Stage, UNCHANGED text, NEW w, at' = [at EXCEPT ![i] = w],
         w \in {"none", "read", "empty", "eof", "write", "full", "broken", "panic", "exit"},
         i = 1 /\ w \in {"full", "broken"} => said < MaxBytes
  PROVE  Texts'
  BY DEF Texts, text

LEMMA CallTexts ==
  ASSUME IInv, NEW p \in Procs, SystemCall(p)
  PROVE  Texts'
  <1> DEFINE c == Head(todo[p])
  <1>1. UNCHANGED text
    BY DEF SystemCall, Pipe, CloseFd, MapData, MapFd, Copy, Start, WaitEnds, Destroy, text
  <1>2. CASE UNCHANGED at
    BY <1>1, <1>2 DEF IInv, Texts, text
  <1>3. CASE Start(p, c) /\ status[p] = "live" /\ todo[p] # <<>>
    <2>1. PICK i \in On : at' = at \/ at' = [at EXCEPT ![i] = IF i = 1 THEN "write" ELSE "read"]
      BY <1>3, StartIs DEF IInv
    <2>2. i \in Stage
      BY Stages DEF IInv, Base, Types
    <2> QED
      BY <1>1, <1>2, <2>1, <2>2, TextsStay DEF IInv
  <1> QED
    BY <1>2, <1>3 DEF SystemCall, Pipe, CloseFd, MapData, MapFd, Copy, WaitEnds, Destroy

LEMMA CommandTexts ==
  ASSUME IInv, NEW i \in Stage, Command(i) \/ Quit(i) \/ Fault(i)
  PROVE  Texts'
  <1>1. Texts /\ Cmd(i) \in Procs /\ 0 \in Fd /\ 1 \in Fd /\ Size \in Nat /\ MaxBytes \in Nat
    BY Numbers, FdsAre DEF IInv
  <1>2. CASE Read(i)
    <2>1. Stdin(i)[1] \in Stage /\ said' = said /\ In(i, "read")
      BY <1>1, <1>2, EndsDiffer DEF Read, Stdin, IInv, Base, Types
    <2>2. CASE bytes[Stdin(i)[1]] > 0
      BY <1>1, <1>2, <2>1, <2>2 DEF Read, Texts, Goes
    <2>3. CASE ~(bytes[Stdin(i)[1]] > 0)
      BY <1>1, <1>2, <2>1, <2>3 DEF Read, Texts, Goes
    <2> QED
      BY <2>2, <2>3
  <1>3. CASE AskWriters(i)
    <2>1. UNCHANGED text /\ (at' = [at EXCEPT ![i] = "eof"] \/ at' = [at EXCEPT ![i] = "read"])
      BY <1>3 DEF AskWriters, Goes
    <2> QED
      BY <1>1, <2>1 DEF Texts, text
  <1>4. CASE Write(i)
    <2>1. i = 1 => said < MaxBytes
      BY <1>4 DEF Write
    <2>2. CASE Stdout(i) = None /\ Says(i) /\ Again(i) /\ UNCHANGED bytes
      BY <1>1, <2>1, <2>2 DEF Texts, Says, Again, Goes
    <2>3. CASE /\ Stdout(i) # None /\ bytes[Stdout(i)[1]] < Size
               /\ bytes' = [bytes EXCEPT ![Stdout(i)[1]] = @ + 1] /\ Says(i) /\ Again(i)
      <3>1. Stdout(i)[1] \in Stage
        BY <1>1, <2>3, EndsDiffer DEF Stdout, IInv, Base, Types
      <3>2. bytes' \in [Stage -> 0 .. Size]
        BY <1>1, <2>3, <3>1 DEF Texts
      <3> QED
        BY <1>1, <2>1, <2>3, <3>2 DEF Texts, Says, Again, Goes
    <2>4. CASE Goes(i, "full") /\ UNCHANGED text
      BY <1>1, <2>1, <2>4, TextsStay DEF Goes
    <2> QED
      BY <1>4, <2>2, <2>3, <2>4 DEF Write
  <1>5. CASE AskReaders(i)
    <2>1. i = 1 => said < MaxBytes
      BY <1>1, <1>5 DEF AskReaders, In, Texts
    <2> QED
      BY <1>1, <1>5, <2>1, TextsStay DEF AskReaders, Goes
  <1>6. CASE PassesOver(i)
    <2>1. i = 1 /\ said < MaxBytes
      BY <1>1, <1>6 DEF PassesOver, In, Texts
    <2> QED
      BY <1>1, <1>6, <2>1 DEF PassesOver, Says, Again, Goes, Texts
  <1>7. CASE /\ bytes' = bytes /\ (said' = IF i = 1 THEN 0 ELSE said)
             /\ (at' = [at EXCEPT ![i] = "exit"] \/ at' = [at EXCEPT ![i] = "panic"])
    BY <1>1, <1>7 DEF Texts
  <1>8. Ends(i) \/ Panics(i) \/ Finish(i) \/ Quit(i) \/ Fault(i) =>
          /\ bytes' = bytes /\ (said' = IF i = 1 THEN 0 ELSE said)
          /\ (at' = [at EXCEPT ![i] = "exit"] \/ at' = [at EXCEPT ![i] = "panic"])
    BY DEF Ends, Panics, Finish, Quit, Fault, Exits, Stops
  <1> QED
    BY <1>2, <1>3, <1>4, <1>5, <1>6, <1>7, <1>8 DEF Command

LEMMA NextIInv == IInv /\ [Next]_vars => IInv'
  <1> SUFFICES ASSUME IInv, [Next]_vars PROVE IInv'
    OBVIOUS
  <1>1. Base /\ Texts
    BY DEF IInv
  <1>2. CASE \E p \in Procs : SystemCall(p)
    <2>1. PICK p \in Procs : SystemCall(p)
      BY <1>2
    <2>2. status[p] = "live" /\ todo[p] # <<>>
      BY <2>1 DEF SystemCall
    <2> SUFFICES Base'
      BY <2>1, CallTexts DEF IInv
    <2>3. CASE Pipe(p, Head(todo[p]))
      BY <1>1, <2>2, <2>3, PipeKeeps
    <2>4. CASE CloseFd(p, Head(todo[p]))
      BY <1>1, <2>2, <2>4, CloseKeeps
    <2>5. CASE MapData(p, Head(todo[p]))
      BY <1>1, <2>2, <2>5, MapDataKeeps
    <2>6. CASE MapFd(p, Head(todo[p]))
      BY <1>1, <2>2, <2>6, MapFdKeeps
    <2>7. CASE Copy(p, Head(todo[p]))
      BY <1>1, <2>2, <2>7, CopyKeeps
    <2>8. CASE Start(p, Head(todo[p]))
      BY <1>1, <2>2, <2>8, StartKeeps
    <2>9. CASE WaitEnds(p, Head(todo[p]))
      BY <1>1, <2>2, <2>9, WaitKeeps
    <2>10. CASE Destroy(p, Head(todo[p]))
      BY <1>1, <2>2, <2>10, DestroyKeeps
    <2> QED
      BY <2>1, <2>3, <2>4, <2>5, <2>6, <2>7, <2>8, <2>9, <2>10 DEF SystemCall
  <1>3. CASE \E i \in Stage : Command(i) \/ Quit(i) \/ Fault(i)
    <2>1. PICK i \in Stage : Command(i) \/ Quit(i) \/ Fault(i)
      BY <1>3
    <2> SUFFICES Base'
      BY <2>1, CommandTexts DEF IInv
    <2>2. CASE Read(i) \/ Write(i) \/ Panics(i) \/ PassesOver(i)
      BY <1>1, <2>2, SayingKeeps
    <2>3. CASE AskWriters(i)
      BY <1>1, <2>3, AskWritersKeeps
    <2>4. CASE AskReaders(i)
      BY <1>1, <2>4, AskReadersKeeps
    <2>5. CASE Ends(i) \/ Finish(i) \/ Quit(i)
      <3>1. (\E w : In(i, w)) /\ Exits(i) /\ UNCHANGED <<line, status, pages>>
        BY <2>5 DEF Ends, Finish, Quit
      <3> QED
        BY <1>1, <3>1, ExitsKeeps
    <2>6. CASE Fault(i)
      BY <1>1, <2>6, FaultKeeps
    <2> QED
      BY <2>1, <2>2, <2>3, <2>4, <2>5, <2>6 DEF Command
  <1>4. CASE UNCHANGED vars
    <2>1. UNCHANGED <<line, status, todo, pages>> /\ bytes' = bytes /\ at' = at /\ said' = said
      BY <1>4 DEF vars, pages
    <2>2. OldTold
      BY <2>1 DEF OldTold, In, pages
    <2>3. Texts'
      BY <1>1, <2>1 DEF Texts
    <2> QED
      BY <1>1, <2>1, <2>2, <2>3, OldToldKeeps DEF IInv
  <1> QED
    BY <1>2, <1>3, <1>4 DEF Next

\* No command of a line is told of an end, or of a reader gone, that is not
\* so, however the shells that hand on the ends of the pipes get along (the
\* closes of runcmd(), the orders of dup(), close(), fork() and spawn()).
THEOREM LineIsToldTruly == Spec => []ToldTruly
  <1>1. Init => IInv
    BY InitIInv
  <1>2. IInv /\ [Next]_vars => IInv'
    BY NextIInv
  <1>3. IInv => ToldTruly
    <2> SUFFICES ASSUME IInv PROVE ToldTruly
      OBVIOUS
    <2>2. TypeOK
      BY DEF IInv, Base, Types, Texts, TypeOK
    <2> QED
      BY <2>2 DEF IInv, Base, Told, ToldTruly
  <1> QED
    BY <1>1, <1>2, <1>3, PTL DEF Spec

-----------------------------------------------------------------------------
(***************************************************************************)
(* Who waits for whom                                                      *)
(***************************************************************************)
LEMMA WaitStays ==
  ASSUME Types, NEW i \in On, NEW q, Waits(i, q), status'[Sub(i)] = "live",
         \/ todo'[Sub(i)] = todo[Sub(i)]
         \/ todo'[Sub(i)] = Tail(todo[Sub(i)]) /\ Head(todo[Sub(i)]) # WaitIt(q)
  PROVE  Waits(i, q)'
  <1>1. PICK t : t = todo[Sub(i)]
    OBVIOUS
  <1>2. t \in Seq(Calls)
    BY <1>1, NumbersOn DEF Types
  <1>3. PICK n \in Nat : n = Len(t)
    BY <1>2
  <1>4. PICK k \in 1 .. n : t[k] = WaitIt(q)
    BY <1>1, <1>3 DEF Waits, Left
  <1>5. CASE todo'[Sub(i)] = t
    BY <1>3, <1>4, <1>5 DEF Waits, Left
  <1>6. CASE todo'[Sub(i)] = Tail(t) /\ Head(t) # WaitIt(q)
    <2>1. Head(t) = t[1]
      BY <1>2, <1>3, <1>4
    <2>2. k # 1
      BY <1>4, <1>6, <2>1
    <2>3. PICK l \in 1 .. n - 1 : l + 1 = k
      BY <1>3, <2>2
    <2>4. Len(Tail(t)) = n - 1 /\ Tail(t)[l] = t[k]
      BY <1>2, <1>3, <2>3
    <2> QED
      BY <1>4, <1>6, <2>3, <2>4 DEF Waits, Left
  <1> QED
    BY <1>1, <1>5, <1>6

\* runcmd() from "runit" on is the end of what a shell does.
LEMMA ProgramEnd ==
  ASSUME LineOK, NEW i \in On, NEW m \in 1 .. RunitLen(i)
  PROVE  /\ Len(Program(i)) \in Nat /\ RunitLen(i) <= Len(Program(i))
         /\ Program(i)[Len(Program(i)) - RunitLen(i) + m] = Runit(i)[m]
  <1>1. PICK r \in Nat, l \in Nat : r = RunitLen(i) /\ l = RuncmdLen(i) /\ IF i < Len(line) THEN l = r + 7 ELSE l = r
    BY Lengths
  <1>2. r = Len(Runit(i)) /\ l = Len(Runcmd(i))
    BY <1>1 DEF RunitLen, RuncmdLen
  <1>3. Runcmd(i)[l - r + m] = Runit(i)[m] /\ r <= l
    <2>1. CASE i < Len(line)
      <3>0. l = r + 7
        BY <1>1, <2>1
      <3>1. l - r + m = 7 + m /\ 7 + m \in 1 .. 7 + r /\ ~(7 + m <= 7) /\ (7 + m) - 7 = m
        BY <1>1, <3>0
      <3>2. Runcmd(i)[7 + m] = IF 7 + m <= 7 THEN PipeCalls(i)[7 + m] ELSE Runit(i)[(7 + m) - 7]
        BY <1>2, <2>1, <3>1, RuncmdIs
      <3> QED
        BY <3>0, <3>1, <3>2
    <2>2. CASE ~(i < Len(line))
      <3>1. l = r /\ l - r + m = m
        BY <1>1, <2>2
      <3> QED
        BY <2>2, <3>1, RuncmdIs
    <2> QED
      BY <2>1, <2>2
  <1>4. CASE i = 1
    BY <1>1, <1>2, <1>3, <1>4 DEF Program
  <1>5. CASE i # 1
    <2>1. Program(i) = Forked(i) /\ Len(Forked(i)) = l + 5
      BY <1>1, <1>5, Lengths DEF Program
    <2>2. PICK k \in 1 .. l : k = l - r + m
      <3>1. m \in 1 .. r /\ r <= l
        BY <1>1, <1>3
      <3> QED
        BY <3>1
    <2>3. (l + 5) - r + m = 5 + k /\ 5 + k \in 1 .. 5 + l /\ ~(5 + k <= 5) /\ (5 + k) - 5 = k
      <3>1. l \in Nat /\ r \in Nat /\ m \in Nat /\ k \in Nat /\ k > 0 /\ k <= l /\ k = l - r + m
        BY SMTT(40), <1>1, <2>2
      <3>2. (l + 5) - r + m = 5 + k
        BY <3>1
      <3> QED
        BY <3>1, <3>2
    <2>4. Forked(i)[5 + k] = IF 5 + k <= 5 THEN ForkCalls[5 + k] ELSE Runcmd(i)[(5 + k) - 5]
      BY <1>2, <2>3, RuncmdIs
    <2>5. Forked(i)[(l + 5) - r + m] = Runit(i)[m]
      BY <1>3, <2>2, <2>3, <2>4
    <2>6. l + 5 \in Nat /\ r <= l + 5
      BY SMTT(40), <1>1, <1>3
    <2> QED
      BY <1>1, <2>1, <2>5, <2>6
  <1> QED
    BY <1>4, <1>5

\* With the child it makes, a shell has the wait() for it yet to come.
LEMMA WaitsYet ==
  ASSUME LineOK, NEW i \in On, NEW t, TailOf(t, Program(i)), t # <<>>,
         NEW q, Head(t) = CreateIt(q),
         \/ i < Len(line) /\ line[i] # "empty" /\ Len(t) = RunitLen(i) + 6 /\ q = Sub(i + 1)
         \/ Len(t) = RunitLen(i) /\ q = Cmd(i)
  PROVE  \E k \in 1 .. Len(Tail(t)) : Tail(t)[k] = WaitIt(q)
  <1>1. PICK r \in Nat : r = RunitLen(i) /\ r = Len(Runit(i))
    BY Lengths DEF RunitLen
  <1>2. t \in Seq(Calls)
    BY DEF TailOf
  <1>3. PICK n \in Nat : n = Len(t) /\ n > 0 /\ Head(t) = t[1]
    BY <1>2, EmptySeq
  <1>4. n >= r
    BY <1>1, <1>3
  <1>5. ASSUME NEW m \in 1 .. r
        PROVE  t[n - r + m] = Runit(i)[m]
    <2>1. PICK l \in Nat : l = Len(Program(i)) /\ n <= l
      BY <1>3, <1>5, <1>1, ProgramEnd DEF TailOf
    <2>2. PICK k \in 1 .. n : k = n - r + m
      BY <1>4
    <2>3. l - n + k = l - r + m
      BY <1>1, <1>3, <2>1, <2>2
    <2>4. t[k] = Program(i)[l - n + k]
      BY <1>3, <2>1, <2>2 DEF TailOf
    <2>5. Program(i)[l - r + m] = Runit(i)[m]
      BY <1>1, <2>1, ProgramEnd
    <2> QED
      BY <2>2, <2>3, <2>4, <2>5
  <1>6. \E m \in 2 .. r : Runit(i)[m] = WaitIt(q)
    <2>1. CASE i < Len(line) /\ line[i] # "empty" /\ Len(t) = RunitLen(i) + 6 /\ q = Sub(i + 1)
      BY <1>1, <2>1, RunitIs DEF RunitShape
    <2>2. CASE Len(t) = RunitLen(i) /\ q = Cmd(i)
      <3>0. n = r /\ n \in Nat /\ r \in Nat /\ n > 0
        BY <1>1, <1>3, <2>2
      <3>1. n = r /\ n - r + 1 = 1 /\ 1 \in 1 .. r
        BY <3>0
      <3>2. Runit(i)[1] = CreateIt(Cmd(i))
        BY <1>3, <1>5, <2>2, <3>1
      <3> QED
        BY <1>1, <2>2, <3>2, RunitIs DEF RunitShape
    <2> QED
      BY <2>1, <2>2
  <1>7. PICK m \in 2 .. r : Runit(i)[m] = WaitIt(q)
    BY <1>6
  <1>8. t[n - r + m] = WaitIt(q)
    BY <1>5, <1>7
  <1>9. PICK k \in 1 .. n - 1 : k + 1 = n - r + m
    <2>1. n \in Nat /\ r \in Nat /\ n >= r /\ m \in 2 .. r
      BY <1>1, <1>3, <1>4
    <2> QED
      BY <2>1
  <1>10. Len(Tail(t)) = n - 1 /\ Tail(t)[k] = t[k + 1]
    BY <1>2, <1>3
  <1> QED
    BY <1>8, <1>9, <1>10

\* When the shell for the rest of a line is gone, so is the rest.
LEMMA RestIsGone ==
  ASSUME Base, Nested, NoGap, NEW i \in On, i < Len(line), status[Sub(i + 1)] # "live",
         NEW j \in On, i < j
  PROVE  status[Sub(j)] # "live" /\ status[Cmd(j)] # "live"
  <1>1. LineOK
    BY DEF Base, Types
  <1>2. PICK h \in On : h = i + 1
    BY <1>1, Stages
  <1>3. i \in Int /\ j \in Int /\ h \in Int
    BY <1>1, NumbersOn
  <1>4. h = j \/ h < j
    BY <1>2, <1>3
  <1>5. \A q : ~Waits(h, q)
    BY <1>2 DEF Waits
  <1> QED
    BY <1>2, <1>4, <1>5 DEF Nested

\* After a step, nobody runs whom a wait() for q is there for.
Unneeded(i, q) ==
  \/ q = Cmd(i) /\ status'[Cmd(i)] # "live"
  \/ q # Cmd(i) /\ \A j \in On : i < j => status'[Sub(j)] # "live" /\ status'[Cmd(j)] # "live"

\* Nobody is started, and nobody is no longer waited for that runs.
LEMMA NestedStays ==
  ASSUME Base, Nested, line' = line,
         \A o \in Procs : status'[o] = "live" => status[o] = "live",
         \A i \in On, q \in Procs :
           NoGap /\ Waits(i, q) /\ (q = Cmd(i) \/ (i < Len(line) /\ q = Sub(i + 1))) =>
             Waits(i, q)' \/ Unneeded(i, q)
  PROVE  Nested'
  <1>1. LineOK /\ On' = On /\ NoGap' = NoGap
    BY LineStays DEF Base, Types
  <1> SUFFICES ASSUME NoGap, NEW i \in On
               PROVE  /\ status'[Cmd(i)] = "live" => Waits(i, Cmd(i))'
                      /\ \A j \in On : i < j /\ (status'[Sub(j)] = "live" \/ status'[Cmd(j)] = "live") => Waits(i, Sub(i + 1))'
    BY <1>1 DEF Nested
  <1>2. Cmd(i) \in Procs /\ i \in Nat
    BY <1>1, NumbersOn
  <1>3. ASSUME status'[Cmd(i)] = "live" PROVE Waits(i, Cmd(i))'
    <2>1. status[Cmd(i)] = "live"
      BY <1>2, <1>3
    <2>2. Waits(i, Cmd(i))
      BY <2>1 DEF Nested
    <2> QED
      BY <1>2, <1>3, <2>2 DEF Unneeded
  <1>4. ASSUME NEW j \in On, i < j, status'[Sub(j)] = "live" \/ status'[Cmd(j)] = "live"
        PROVE  Waits(i, Sub(i + 1))'
    <2>1. Sub(j) \in Procs /\ Cmd(j) \in Procs /\ j \in Nat /\ Len(line) \in Nat
      BY <1>1, NumbersOn, Stages
    <2>2. status[Sub(j)] = "live" \/ status[Cmd(j)] = "live"
      BY <1>4, <2>1
    <2>3. Waits(i, Sub(i + 1))
      BY <1>4, <2>2 DEF Nested
    <2>4. i < Len(line)
      BY <1>2, <1>4, <2>1 DEF On
    <2>5. Sub(i + 1) \in Procs /\ Sub(i + 1) # Cmd(i)
      BY <1>1, <2>4, Stages, Numbers
    <2> QED
      BY <1>2, <1>4, <2>3, <2>4, <2>5 DEF Unneeded
  <1> QED
    BY <1>3, <1>4

LEMMA CallNested ==
  ASSUME Base, Nested, NEW p \in Procs, status[p] = "live", todo[p] # <<>>,
         LET c == Head(todo[p]) IN
           Pipe(p, c) \/ CloseFd(p, c) \/ MapData(p, c) \/ MapFd(p, c) \/ Copy(p, c) \/ WaitEnds(p, c)
  PROVE  Nested'
  <1> DEFINE c == Head(todo[p])
  <1>1. line' = line /\ status' = status /\ (todo' = todo \/ Done(p)) /\ LineOK
    BY DEF Pipe, CloseFd, MapData, MapFd, Copy, WaitEnds, Base, Types
  <1>2. /\ \A o \in Procs \ {p} : todo'[o] = todo[o]
        /\ todo'[p] = todo[p] \/ todo'[p] = Tail(todo[p])
    BY <1>1 DEF Done, Base, Types
  <1>3. c.call = "wait" => status[c.child] = "dead"
    BY DEF Pipe, CloseFd, MapData, MapFd, Copy, WaitEnds
  <1> HIDE DEF c
  <1>4. SUFFICES ASSUME NEW i \in On, NEW q \in Procs, NoGap, Waits(i, q),
                        q = Cmd(i) \/ (i < Len(line) /\ q = Sub(i + 1))
                 PROVE  Waits(i, q)' \/ Unneeded(i, q)
    BY <1>1, NestedStays
  <1>5. Types /\ i \in Stage /\ Sub(i) \in Procs /\ status'[Sub(i)] = "live"
    BY <1>1, <1>4, NumbersOn DEF Base, Waits
  <1>6. CASE p # Sub(i) \/ todo'[p] = todo[p] \/ c # WaitIt(q)
    <2>1. \/ todo'[Sub(i)] = todo[Sub(i)]
          \/ todo'[Sub(i)] = Tail(todo[Sub(i)]) /\ Head(todo[Sub(i)]) # WaitIt(q)
      BY <1>2, <1>5, <1>6 DEF c
    <2> QED
      BY <1>4, <1>5, <2>1, WaitStays
  <1>7. CASE p = Sub(i) /\ c = WaitIt(q)
    <2>1. status[q] = "dead"
      <3>1. WaitIt(q).call = "wait" /\ WaitIt(q).child = q
        BY DEF WaitIt
      <3> QED
        BY <1>3, <1>7, <3>1
    <2>2. CASE q = Cmd(i)
      BY <1>1, <2>1, <2>2 DEF Unneeded
    <2>3. CASE q # Cmd(i)
      <3>1. q = Sub(i + 1) /\ i < Len(line)
        BY <1>4, <2>3
      <3> QED
        BY <1>1, <1>4, <2>1, <2>3, <3>1, RestIsGone DEF Unneeded
    <2> QED
      BY <2>2, <2>3
  <1> QED
    BY <1>6, <1>7

LEMMA EndNested ==
  ASSUME Base, Nested, NEW p \in Procs, status[p] = "live", Free(p), line' = line,
         \A i \in Stage : p = Sub(i) => todo[p] # <<>> /\ Head(todo[p]) = DestroyIt /\ Len(todo[p]) = 1
  PROVE  Nested'
  <1>1. /\ \A q \in Procs \ {p} : status'[q] = status[q] /\ todo'[q] = todo[q]
        /\ status'[p] = "dead" /\ Types /\ LineOK
    BY FreeIs DEF Base, Types
  <1>2. ASSUME NEW i \in On, NEW q \in Procs, Waits(i, q)
        PROVE  Waits(i, q)'
    <2>1. i \in Stage /\ Sub(i) \in Procs
      BY <1>1, NumbersOn
    <2>2. p # Sub(i)
      <3>1. SUFFICES ASSUME p = Sub(i) PROVE FALSE
        OBVIOUS
      <3>2. PICK k \in 1 .. Left(i) : todo[p][k] = WaitIt(q)
        BY <1>2, <3>1 DEF Waits
      <3>3. Head(todo[p]) = DestroyIt /\ Len(todo[p]) = 1 /\ todo[p] \in Seq(Calls)
        BY <1>1, <2>1, <3>1 DEF Types
      <3>4. k = 1 /\ Head(todo[p]) = todo[p][1]
        BY <3>1, <3>2, <3>3 DEF Left
      <3> QED
        BY <3>2, <3>3, <3>4 DEF WaitIt, DestroyIt
    <2>3. status'[Sub(i)] = "live" /\ todo'[Sub(i)] = todo[Sub(i)]
      BY <1>1, <1>2, <2>1, <2>2 DEF Waits
    <2> QED
      BY <1>1, <1>2, <2>3, WaitStays
  <1>3. \A o \in Procs : status'[o] = "live" => status[o] = "live"
    BY <1>1
  <1> QED
    BY <1>2, <1>3, NestedStays

LEMMA StartNested ==
  ASSUME Base, Texts, Nested, NEW p \in Procs, status[p] = "live", todo[p] # <<>>, Start(p, Head(todo[p]))
  PROVE  Nested'
  <1>1. PICK i \in On, q \in Procs :
          /\ StartsAt(i, p, q)
          /\ \/ i < Len(line) /\ Left(i) = RunitLen(i) + 6 /\ q = Sub(i + 1)
             \/ Left(i) = RunitLen(i) /\ q = Cmd(i)
    BY StartIs
  <1>2. /\ LineOK /\ Types /\ p = Sub(i) /\ p # q /\ status[q] = "free" /\ line' = line
        /\ status'[q] = "live" /\ (\A o \in Procs \ {q} : status'[o] = status[o])
        /\ todo'[p] = Tail(todo[p]) /\ Head(todo[p]) = CreateIt(q)
        /\ \A o \in Procs \ {p, q} : todo'[o] = todo[o]
    BY <1>1 DEF StartsAt, Base, Types
  <1>3. On' = On /\ NoGap' = NoGap /\ On \subseteq Stage
    BY <1>2, LineStays, Stages
  <1>4. ASSUME NEW k \in On, NEW x, Waits(k, x)
        PROVE  Waits(k, x)'
    <2>1. Sub(k) \in Procs /\ status[Sub(k)] = "live"
      BY <1>2, <1>4, NumbersOn DEF Waits
    <2>2. Sub(k) # q /\ status'[Sub(k)] = "live"
      BY <1>2, <2>1
    <2>3. CreateIt(q) # WaitIt(x)
      BY DEF CreateIt, WaitIt
    <2> QED
      BY <1>2, <1>4, <2>1, <2>2, <2>3, WaitStays
  <1>5. NoGap => Waits(i, q)'
    <2>1. SUFFICES ASSUME NoGap PROVE Waits(i, q)'
      OBVIOUS
    <2>2. TailOf(todo[p], Program(i))
      BY <1>2 DEF Base, Lists
    <2>3. i < Len(line) => line[i] # "empty"
      BY <2>1 DEF NoGap
    <2>4. \E k \in 1 .. Len(Tail(todo[p])) : Tail(todo[p])[k] = WaitIt(q)
      BY <1>1, <1>2, <2>2, <2>3, WaitsYet DEF Left
    <2> QED
      BY <1>2, <2>4 DEF Waits, Left
  <1> SUFFICES ASSUME NoGap, NEW k \in On
               PROVE  /\ status'[Cmd(k)] = "live" => Waits(k, Cmd(k))'
                      /\ \A j \in On : k < j /\ (status'[Sub(j)] = "live" \/ status'[Cmd(j)] = "live") => Waits(k, Sub(k + 1))'
    BY <1>2, <1>3, LineStays DEF Nested
  <1>6. ASSUME status'[Cmd(k)] = "live" PROVE Waits(k, Cmd(k))'
    <2>1. Cmd(k) \in Procs /\ k \in Stage /\ i \in Stage
      BY <1>3, Numbers
    <2>2. CASE Cmd(k) = q
      <3>1. k = i
        <4>1. q # Sub(i + 1) \/ ~(i < Len(line))
          BY <1>2, <2>1, <2>2, Stages, Numbers
        <4> QED
          BY <1>1, <2>1, <2>2, <4>1, Numbers
      <3> QED
        BY <1>5, <2>2, <3>1
    <2>3. CASE Cmd(k) # q
      <3>1. status[Cmd(k)] = "live"
        BY <1>2, <1>6, <2>1, <2>3
      <3> QED
        BY <1>4, <3>1 DEF Nested
    <2> QED
      BY <2>2, <2>3
  <1>7. ASSUME NEW j \in On, k < j, status'[Sub(j)] = "live" \/ status'[Cmd(j)] = "live"
        PROVE  Waits(k, Sub(k + 1))'
    <2>1. /\ Sub(j) \in Procs /\ Cmd(j) \in Procs /\ j \in Stage /\ i \in Stage /\ k \in Stage
          /\ i \in Int /\ j \in Int /\ k \in Int
      BY <1>2, <1>3, NumbersOn
    <2>2. CASE status[Sub(j)] = "live" \/ status[Cmd(j)] = "live"
      BY <1>4, <1>7, <2>2 DEF Nested
    <2>3. CASE ~(status[Sub(j)] = "live" \/ status[Cmd(j)] = "live")
      <3>1. q = Sub(j) \/ q = Cmd(j)
        BY <1>2, <1>7, <2>1, <2>3
      <3>2. status[Sub(i)] = "live" /\ j # i
        BY <1>2, <2>3
      <3>3. q = Sub(i + 1) /\ i < Len(line)
        BY <1>1, <2>1, <3>1, <3>2, Numbers
      <3>4. j = i + 1
        <4>1. i + 1 \in Stage
          BY <1>2, <3>3, Stages
        <4> QED
          BY <2>1, <3>1, <3>3, <4>1, Numbers
      <3>5. CASE k = i
        BY <1>5, <3>3, <3>5
      <3>6. CASE k # i
        <4>1. k < i
          BY <1>7, <2>1, <3>4, <3>6
        <4> QED
          BY <1>4, <3>2, <4>1 DEF Nested
      <3> QED
        BY <3>5, <3>6
    <2> QED
      BY <2>2, <2>3
  <1> QED
    BY <1>6, <1>7

LEMMA InitNested == Init => Nested
  <1> SUFFICES ASSUME Init, NEW i \in On PROVE status[Cmd(i)] # "live" /\ \A j \in On : i < j => status[Sub(j)] # "live" /\ status[Cmd(j)] # "live"
    BY DEF Nested
  <1>1. IInv
    BY InitIInv
  <1>2. On \subseteq Stage /\ 1 \in Stage /\ i \in Nat /\ i > 0 /\ \A j \in On : j \in Nat
    BY <1>1, Stages, NumbersOn DEF IInv, Base, Types, LineOK, Stage, On
  <1>3. \A j \in On : status[Cmd(j)] # "live"
    BY <1>2, Numbers DEF Init
  <1>4. ASSUME NEW j \in On, i < j PROVE status[Sub(j)] # "live"
    <2>1. j # 1
      BY <1>2, <1>4
    <2> QED
      BY <1>2, <2>1, Numbers DEF Init
  <1> QED
    BY <1>3, <1>4

LEMMA NextNested == IInv /\ Nested /\ [Next]_vars => Nested'
  <1> SUFFICES ASSUME IInv, Nested, [Next]_vars PROVE Nested'
    OBVIOUS
  <1>1. Base /\ Texts /\ Types
    BY DEF IInv, Base
  <1>2. CASE \E p \in Procs : SystemCall(p)
    <2>1. PICK p \in Procs : SystemCall(p)
      BY <1>2
    <2>2. status[p] = "live" /\ todo[p] # <<>>
      BY <2>1 DEF SystemCall
    <2>3. CASE Start(p, Head(todo[p]))
      BY <1>1, <2>2, <2>3, StartNested
    <2>4. CASE Destroy(p, Head(todo[p]))
      <3>1. Free(p) /\ line' = line /\ Head(todo[p]).call = "destroy"
        BY <2>4 DEF Destroy
      <3>2. ASSUME NEW i \in Stage, p = Sub(i) PROVE Head(todo[p]) = DestroyIt /\ Len(todo[p]) = 1
        <4>1. Front(i, Head(todo[p]), Left(i))
          BY <1>1, <2>2, <3>1, <3>2, CallIs, Stages, Numbers DEF Base, CloseIt, Types
        <4> QED
          BY <3>1, <3>2, <4>1 DEF Front, CreateIt, CloseIt, Left
      <3> QED
        BY <1>1, <2>2, <3>1, <3>2, EndNested
    <2> QED
      BY <1>1, <2>1, <2>2, <2>3, <2>4, CallNested DEF SystemCall
  <1>3. CASE \E i \in Stage : Command(i) \/ Quit(i) \/ Fault(i)
    <2>1. PICK i \in Stage : Command(i) \/ Quit(i) \/ Fault(i)
      BY <1>3
    <2>2. Cmd(i) \in Procs /\ \A j \in Stage : Sub(j) \in Procs /\ Sub(j) # Cmd(i)
      BY Numbers
    <2>3. CASE Fault(i)
      <3>1. Free(Cmd(i)) /\ line' = line /\ status[Cmd(i)] = "live"
        BY <2>3 DEF Fault
      <3> QED
        BY <1>1, <2>2, <3>1, EndNested
    <2>4. CASE /\ line' = line /\ status' = status
               /\ todo' = todo \/ todo' = [todo EXCEPT ![Cmd(i)] = Exit]
      <3>1. ASSUME NEW j \in On, NEW q, Waits(j, q) PROVE Waits(j, q)'
        <4>1. j \in Stage /\ status'[Sub(j)] = "live"
          BY <1>1, <2>4, <3>1, Stages DEF Types, Waits
        <4>2. todo'[Sub(j)] = todo[Sub(j)]
          BY <1>1, <2>2, <2>4, <4>1 DEF Types
        <4> QED
          BY <1>1, <3>1, <4>1, <4>2, WaitStays
      <3> QED
        BY <1>1, <2>4, <3>1, NestedStays
    <2> QED
      BY <2>1, <2>3, <2>4 DEF Command, Read, AskWriters, Write, AskReaders, Ends, Panics, PassesOver, Finish, Quit, Exits
  <1>4. CASE UNCHANGED vars
    <2>1. line' = line /\ status' = status /\ todo' = todo /\ LineOK
      BY <1>1, <1>4 DEF vars, Types
    <2>2. On' = On /\ NoGap' = NoGap
      BY <2>1, LineStays
    <2> QED
      BY <2>1, <2>2 DEF Nested, Waits, Left
  <1> QED
    BY <1>2, <1>3, <1>4 DEF Next

\* When the shell prompts again nothing of the line is left running ("do not
\* return until the shell command is finished", user/sh.c:17), as long as
\* there is a command left of every "|".  A runcmd() without one goes to its
\* exit() and waits for nobody.
THEOREM PromptComesLast == Spec => [](NoGap => PromptLast)
  <1>1. Init => IInv /\ Nested
    BY InitIInv, InitNested
  <1>2. IInv /\ Nested /\ [Next]_vars => (IInv /\ Nested)'
    BY NextIInv, NextNested
  <1>3. IInv /\ Nested => (NoGap => PromptLast)
    <2> SUFFICES ASSUME IInv, Nested, NoGap, status[Sub(1)] = "dead", NEW p \in Procs
                 PROVE  status[p] \in {"free", "dead"}
      BY DEF PromptLast
    <2>1. Types /\ Lists /\ LineOK
      BY DEF IInv, Base, Types
    <2>2. 1 \in On /\ \A j \in On : j \in Nat /\ j > 0
      BY <2>1, NumbersOn DEF LineOK, Stage, On
    <2>3. \A q : ~Waits(1, q)
      BY DEF Waits
    <2>4. status[p] \in {"free", "live", "dead"}
      BY <2>1 DEF Types
    <2>5. SUFFICES ASSUME status[p] = "live" PROVE FALSE
      BY <2>4
    <2>6. PICK j \in Stage : p = Sub(j) \/ p = Cmd(j)
      BY Numbers
    <2>7. j \in On
      BY <2>1, <2>5, <2>6 DEF Lists
    <2>8. CASE j = 1
      BY <2>2, <2>3, <2>5, <2>6, <2>8 DEF Nested
    <2>9. CASE j # 1
      <3>1. 1 < j
        BY <2>2, <2>7, <2>9
      <3> QED
        BY <2>2, <2>3, <2>5, <2>6, <2>7, <3>1 DEF Nested
    <2> QED
      BY <2>8, <2>9
  <1> QED
    BY <1>1, <1>2, <1>3, PTL DEF Spec
=============================================================================

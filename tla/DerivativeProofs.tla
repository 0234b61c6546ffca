---------------------------- MODULE DerivativeProofs ----------------------------
(***************************************************************************)
(* Proofs about Derivative: for every text and every size of the blocks,   *)
(* the chunks of build_structure hold the text; for any number of workers, *)
(* runs and faults, the rows are those of one run, a derivative that is    *)
(* ready describes the whole text, and a saved selection is kept to.       *)
(***************************************************************************)
EXTENDS Derivative, WellFoundedInduction, TLAPS

(***************************************************************************)
(* The invariant: while no runs overlap, the one that is under way has the *)
(* whole text, whatever earlier runs left behind.                          *)
(***************************************************************************)
ChunkSets == {{}} \cup {Chunks(n) : n \in 0 .. layout.len}

RunRows == [run : 1 .. MaxRuns, chunks : ChunkSets, size : 0 .. layout.len]

RunMemory ==
  [run : 0 .. MaxRuns, digest : Sizes, chunks : ChunkSets, size : Sizes,
   seen : SUBSET RunRows, own : BOOLEAN]

StoresTyped ==
  /\ local \in BOOLEAN /\ layout \in Layouts
  /\ row \in [status : Outcomes \cup {"PENDING", "PROCESSING"}, size : Sizes, run : 0 .. MaxRuns]
  /\ rows \subseteq RunRows
  /\ blob \in Sizes /\ src \in {None, 0, layout.len - layout.title}
  /\ temp \in BOOLEAN /\ (temp => local)
  /\ can \in {None} \cup [by : Workers, size : 0 .. layout.len]
  /\ select \in {None} \cup 1 .. MaxRuns
  /\ runs \in 0 .. MaxRuns /\ faults \in 0 .. MaxFaults
  /\ overlapped \in BOOLEAN

(* A run has a number, and a length when it comes to store or insert it.   *)
RunsTyped ==
  /\ pc \in [Workers -> Steps] /\ mem \in [Workers -> RunMemory]
  /\ \A w \in Workers :
       /\ pc[w] # "idle" => mem[w].run # 0
       /\ pc[w] \in {"putting", "indexed", "cleared"} => mem[w].size # None

(* While no runs overlap there is one at a time.                           *)
Alone == ~overlapped => \A v, w \in Workers : pc[v] # "idle" /\ pc[w] # "idle" => v = w

(* What that run has of the text is the whole of it.                       *)
OnItsWay(w) ==
  /\ pc[w] = "reading" => src = 0
  /\ pc[w] \in {"read", "hashed", "writing"} => src = layout.len - layout.title
  /\ pc[w] = "writing" => can # None /\ can.by = w
  /\ pc[w] \in {"written", "digested", "putting", "stored"} => can # None /\ can.size = layout.len
  /\ pc[w] \in {"digested", "putting", "stored", "indexed", "cleared"} => mem[w].digest = layout.len
  /\ pc[w] \in {"putting", "indexed", "cleared"} => mem[w].size = layout.len
  /\ pc[w] \in {"stored", "indexed", "cleared"} => blob = layout.len
  /\ pc[w] \in {"indexed", "cleared"} => mem[w].chunks = Chunks(layout.len)
  /\ pc[w] \notin {"idle", "failing", "ending"} => row.status = "PROCESSING"

Whole == ~overlapped => \A w \in Workers : OnItsWay(w)

(* A derivative that is ready has the rows of the whole text.              *)
Ready ==
  ~overlapped /\ row.status \in {"READY", "PARTIAL"} =>
    /\ row.size = layout.len /\ blob = layout.len
    /\ rows = {[run |-> row.run, chunks |-> Chunks(layout.len), size |-> layout.len]}

(* Nothing has run since a selection was saved that is still quiet.        *)
QuietNow ==
  quiet => /\ ~overlapped /\ row.status \in {"READY", "PARTIAL"}
           /\ \A w \in Workers : pc[w] = "idle"
           /\ \E x \in rows : x.run = select

DerivativeInv == StoresTyped /\ RunsTyped /\ Alone /\ Whole /\ Ready /\ QuietNow /\ RowsOfOneRun

-------------------------------------------------------------------------------
(***************************************************************************)
(* The chunks.  Induction over numbers is the choice of a least one among  *)
(* those that would refute the claim.                                      *)
(***************************************************************************)
Below == {ss \in Nat \X Nat : ss[1] < ss[2]}

LEMMA LeastNat ==
  ASSUME NEW T, T \subseteq Nat, T # {}
  PROVE  \E m \in T : \A k \in T : m <= k
<1>1. IsWellFoundedOn(Below, Nat)
  BY NatLessThanWellFounded DEF OpToRel, Below
<1>2. PICK m \in T : \A k \in T : ~(<<k, m>> \in Below)
  BY <1>1, WFMin
<1>3. ASSUME NEW k \in T PROVE m <= k
  <2>1. k \in Nat /\ m \in Nat /\ ~(<<k, m>> \in Below)
    BY <1>2
  <2> QED
    BY <2>1 DEF Below
<1> QED
  BY <1>3

LEMMA GreatestNat ==
  ASSUME NEW T, T \subseteq Nat, T # {}, NEW n \in Nat, \A k \in T : k <= n
  PROVE  \E m \in T : \A k \in T : m >= k
<1> DEFINE D == {d \in Nat : n - d \in T}
<1>1. D # {}
  <2>1. PICK k \in T : TRUE
    OBVIOUS
  <2>2. n - k \in Nat /\ n - (n - k) = k
    BY <2>1
  <2> QED
    BY <2>1, <2>2
<1>2. D \subseteq Nat
  OBVIOUS
<1>3. \A k \in T : n - k \in D
  OBVIOUS
<1>4. \A d \in D : n - d \in T
  OBVIOUS
<1> HIDE DEF D
<1>5. PICK d \in D : \A e \in D : d <= e
  BY <1>1, <1>2, LeastNat
<1>6. \A k \in T : n - d >= k
  BY <1>2, <1>3, <1>5
<1> QED
  BY <1>4, <1>5, <1>6

LEMMA MinOfNats ==
  ASSUME NEW T, T \subseteq Nat, T # {}
  PROVE  Min(T) \in T /\ \A k \in T : Min(T) <= k
BY LeastNat DEF Min

LEMMA MaxOfNats ==
  ASSUME NEW T, T \subseteq Nat, T # {}, NEW n \in Nat, \A k \in T : k <= n
  PROVE  Max(T) \in T /\ \A k \in T : Max(T) >= k
BY GreatestNat DEF Max

LEMMA MaxOfTwo ==
  ASSUME NEW a \in Int, NEW b \in Int
  PROVE  Max({a, b}) \in {a, b} /\ Max({a, b}) >= a /\ Max({a, b}) >= b
<1>1. \E m \in {a, b} : \A k \in {a, b} : m >= k
  OBVIOUS
<1>2. Max({a, b}) \in {a, b} /\ \A k \in {a, b} : Max({a, b}) >= k
  BY <1>1 DEF Max
<1> QED
  BY <1>2

(* A block is not empty, ends in its section, and the next one starts in   *)
(* it but after its start (build_structure).                               *)
Forward(c, end) ==
  LET to == BlockEnd(c, end)
  IN /\ to \in Nat /\ c < to /\ to <= end
     /\ Advance(c, to) \in Nat /\ c < Advance(c, to) /\ Advance(c, to) <= to

LEMMA BlocksMoveForward ==
  ASSUME layout \in Layouts, NEW end \in Nat, NEW c \in Nat, c < end
  PROVE  Forward(c, end)
<1>1. /\ layout.target \in Nat \ {0} /\ layout.overlap \in Nat /\ layout.breaks \subseteq Nat
  BY LayoutConstants
<1> DEFINE full == Min({c + layout.target, end})
           cuts == {b \in layout.breaks : c < b /\ b <= full /\ b - 1 - c > (full - c) \div 2}
           to == BlockEnd(c, end)
<1>2. full \in Nat /\ c < full /\ full <= end
  <2>1. {c + layout.target, end} \subseteq Nat /\ {c + layout.target, end} # {}
    BY <1>1
  <2>2. full \in {c + layout.target, end} /\ full <= end
    BY <2>1, MinOfNats
  <2> QED
    BY <1>1, <2>2
<1>3. to = IF full < end /\ cuts # {} THEN Max(cuts) ELSE full
  BY DEF BlockEnd
<1>4. cuts # {} => Max(cuts) \in Nat /\ c < Max(cuts) /\ Max(cuts) <= full
  <2>1. cuts \subseteq Nat /\ \A b \in cuts : c < b /\ b <= full
    BY <1>1
  <2> HIDE DEF cuts, full
  <2> SUFFICES ASSUME cuts # {} PROVE Max(cuts) \in cuts
    BY <2>1
  <2> QED
    BY <1>2, <2>1, MaxOfNats
<1> HIDE DEF full, cuts
<1>5. to \in Nat /\ c < to /\ to <= end
  BY <1>2, <1>3, <1>4
<1> HIDE DEF to
<1>6. c + 1 \in Int /\ to - layout.overlap \in Int
  BY <1>1, <1>5
<1>7. Advance(c, to) \in {c + 1, to - layout.overlap} /\ Advance(c, to) >= c + 1
  BY <1>6, MaxOfTwo DEF Advance
<1>8. Advance(c, to) \in Nat /\ c < Advance(c, to) /\ Advance(c, to) <= to
  BY <1>1, <1>5, <1>6, <1>7
<1> QED
  BY <1>5, <1>8 DEF Forward, to

(* The equation of Blocks, and a function of the starts in D that has it.  *)
BlocksFrom(f, c, end) ==
  IF c >= end THEN {}
  ELSE {<<c, BlockEnd(c, end)>>} \cup
         (IF BlockEnd(c, end) >= end THEN {} ELSE f[Advance(c, BlockEnd(c, end))])

BlocksOn(f, D, end) == f = [c \in D |-> BlocksFrom(f, c, end)]

(* The starts that are at most n before the end.                           *)
LastStarts(n, end) == {c \in 0 .. layout.len : c + n >= end}

LEMMA NatInductionOnSets ==
  ASSUME NEW N, 0 \in N, \A n \in Nat : n \in N => n + 1 \in N
  PROVE  \A n \in Nat : n \in N
<1> DEFINE T == Nat \ N
<1> SUFFICES ASSUME T # {} PROVE FALSE
  OBVIOUS
<1>1. T \subseteq Nat
  OBVIOUS
<1> HIDE DEF T
<1>2. PICK m \in T : \A k \in T : m <= k
  BY <1>1, LeastNat
<1>3. m \in Nat /\ m # 0 /\ m \notin N
  BY <1>2 DEF T
<1>4. m - 1 \in Nat /\ ~(m <= m - 1)
  BY <1>3
<1>5. m - 1 \in N
  BY <1>2, <1>4 DEF T
<1> QED
  BY <1>3, <1>4, <1>5

(* The start of the next block is one of the starts before.                *)
LEMMA NextStart ==
  ASSUME layout \in Layouts, NEW end \in 1 .. layout.len, NEW n \in Nat,
         NEW c \in LastStarts(n + 1, end), c < end
  PROVE  Advance(c, BlockEnd(c, end)) \in LastStarts(n, end)
<1>1. layout.len \in Nat
  BY LayoutConstants
<1>2. c \in Nat /\ c + n + 1 >= end
  BY DEF LastStarts
<1>3. Forward(c, end)
  BY <1>2, BlocksMoveForward
<1> QED
  BY <1>1, <1>2, <1>3 DEF Forward, LastStarts

LEMMA BlocksExist ==
  ASSUME layout \in Layouts, NEW end \in 1 .. layout.len
  PROVE  \E f : BlocksOn(f, 0 .. layout.len, end)
<1>0. layout.len \in Nat
  BY LayoutConstants
<1> DEFINE N == {n \in Nat : \E f : BlocksOn(f, LastStarts(n, end), end)}
<1>1. 0 \in N
  <2> DEFINE f == [c \in LastStarts(0, end) |-> {}]
  <2>1. \A c \in LastStarts(0, end) : c >= end
    BY DEF LastStarts
  <2>2. BlocksOn(f, LastStarts(0, end), end)
    BY <2>1 DEF BlocksOn, BlocksFrom
  <2> QED
    BY <2>2
<1>2. ASSUME NEW n \in Nat, n \in N
      PROVE  n + 1 \in N
  <2>1. PICK f : BlocksOn(f, LastStarts(n, end), end)
    BY <1>2
  <2> DEFINE D == LastStarts(n + 1, end)
             g == [c \in D |-> BlocksFrom(f, c, end)]
  <2>2. \A c \in LastStarts(n, end) : c \in D
    BY <1>0 DEF LastStarts
  <2>3. \A c \in LastStarts(n, end) : g[c] = f[c]
    BY <2>1, <2>2 DEF BlocksOn
  <2>4. \A c \in D : BlocksFrom(f, c, end) = BlocksFrom(g, c, end)
    <3> HIDE DEF g
    <3> SUFFICES ASSUME NEW c \in D
                 PROVE  BlocksFrom(f, c, end) = BlocksFrom(g, c, end)
      OBVIOUS
    <3>1. CASE c < end
      BY <2>3, <3>1, NextStart DEF BlocksFrom
    <3>2. CASE ~(c < end)
      <4>1. c >= end
        BY <1>0, <3>2 DEF LastStarts
      <4> QED
        BY <4>1 DEF BlocksFrom
    <3> QED
      BY <3>1, <3>2
  <2>5. BlocksOn(g, D, end)
    <3> HIDE DEF D
    <3> QED
      BY <2>4 DEF BlocksOn
  <2> QED
    BY <2>5
<1>3. layout.len \in N
  <2> HIDE DEF N
  <2> QED
    BY <1>0, <1>1, <1>2, NatInductionOnSets
<1>4. LastStarts(layout.len, end) = 0 .. layout.len
  BY <1>0 DEF LastStarts
<1> QED
  BY <1>3, <1>4

LEMMA BlocksDefined ==
  ASSUME layout \in Layouts, NEW end \in 1 .. layout.len
  PROVE  BlocksOn(Blocks(end), 0 .. layout.len, end)
<1>1. Blocks(end) = CHOOSE f : BlocksOn(f, 0 .. layout.len, end)
  BY DEF Blocks, BlocksOn, BlocksFrom
<1> QED
  BY <1>1, BlocksExist

(* The blocks from c on hold every byte up to the end.                     *)
Holds(f, c, end) == \A i \in Nat : c <= i /\ i < end => \E b \in f[c] : i \in b[1] .. b[2] - 1

LEMMA BlocksCover ==
  ASSUME layout \in Layouts, NEW end \in 1 .. layout.len, NEW h \in 0 .. layout.len
  PROVE  Holds(Blocks(end), h, end)
<1>0. layout.len \in Nat
  BY LayoutConstants
<1> DEFINE f == Blocks(end)
           N == {n \in Nat : \A c \in LastStarts(n, end) : Holds(f, c, end)}
<1>1. BlocksOn(f, 0 .. layout.len, end)
  BY BlocksDefined
<1> HIDE DEF f
<1>2. 0 \in N
  BY <1>0 DEF Holds, LastStarts
<1>3. ASSUME NEW n \in Nat, n \in N
      PROVE  n + 1 \in N
  <2> SUFFICES ASSUME NEW c \in LastStarts(n + 1, end), NEW i \in Nat, c <= i, i < end
               PROVE  \E b \in f[c] : i \in b[1] .. b[2] - 1
    BY DEF Holds
  <2>1. c \in 0 .. layout.len /\ c < end /\ c \in Nat
    BY <1>0 DEF LastStarts
  <2> DEFINE to == BlockEnd(c, end)
             next == Advance(c, to)
  <2>2. f[c] = BlocksFrom(f, c, end)
    BY <1>1, <2>1 DEF BlocksOn
  <2>3. Forward(c, end)
    BY <2>1, BlocksMoveForward
  <2>4. CASE i < to
    <3>1. <<c, to>> \in f[c]
      BY <2>1, <2>2 DEF BlocksFrom
    <3>2. i \in <<c, to>>[1] .. <<c, to>>[2] - 1
      BY <2>1, <2>3, <2>4 DEF Forward
    <3> QED
      BY <3>1, <3>2
  <2>5. CASE to <= i
    <3>1. to < end /\ next <= i /\ to \in Nat
      BY <2>3, <2>5 DEF Forward
    <3>2. next \in LastStarts(n, end)
      BY <2>1, NextStart
    <3>3. Holds(f, next, end)
      BY <1>3, <3>2
    <3>4. f[next] \subseteq f[c]
      BY <2>1, <2>2, <3>1 DEF BlocksFrom
    <3> QED
      BY <3>1, <3>3, <3>4 DEF Holds
  <2> QED
    BY <2>3, <2>4, <2>5 DEF Forward
<1>4. layout.len \in N
  <2> HIDE DEF N
  <2> QED
    BY <1>0, <1>2, <1>3, NatInductionOnSets
<1>5. h \in LastStarts(layout.len, end)
  BY <1>0 DEF LastStarts
<1> QED
  BY <1>4, <1>5 DEF f

(* The bytes of the text that are not white space lie in a chunk.          *)
Indexed(chunks) ==
  (0 .. layout.len - 1) \ layout.blanks \subseteq UNION {c[1] .. c[2] - 1 : c \in chunks}

LEMMA ChunksIndexTheText ==
  ASSUME layout \in Layouts
  PROVE  Indexed(Chunks(layout.len))
<1> DEFINE n == layout.len
<1>1. n \in Nat \ {0} /\ layout.headings \subseteq Nat /\ 0 \in layout.headings
  BY LayoutConstants
<1> SUFFICES ASSUME NEW i \in 0 .. n - 1, i \notin layout.blanks
             PROVE  \E b \in Chunks(n) : i \in b[1] .. b[2] - 1
  BY DEF Indexed
<1>2. i \in Nat /\ i < n
  BY <1>1
<1> DEFINE before == {g \in layout.headings : g <= i}
           h == Max(before)
           after == {g \in layout.headings : h < g /\ g < n} \cup {n}
           end == SectionEnd(h, n)
<1>3. h \in layout.headings /\ h <= i /\ \A g \in layout.headings : g <= i => g <= h
  <2>1. before \subseteq Nat /\ 0 \in before /\ \A k \in before : k <= i
    BY <1>1, <1>2
  <2>2. h \in before /\ \A k \in before : h >= k
    <3> HIDE DEF before
    <3> QED
      BY <1>2, <2>1, MaxOfNats
  <2> QED
    BY <1>1, <2>2
<1> HIDE DEF h
<1>4. end \in after
  <2>1. after \subseteq Nat /\ after # {}
    BY <1>1
  <2>2. end = Min(after)
    BY DEF SectionEnd
  <2> HIDE DEF end, after
  <2> QED
    BY <2>1, <2>2, MinOfNats
<1>5. end \in 1 .. n /\ i < end /\ h \in 0 .. n /\ h \in Starts(n)
  <2>1. h \in Nat /\ h < n
    BY <1>1, <1>2, <1>3
  <2> HIDE DEF end
  <2>2. end \in Nat /\ i < end /\ end <= n
    BY <1>1, <1>2, <1>3, <1>4, <2>1
  <2> QED
    BY <1>1, <1>2, <1>3, <2>1, <2>2 DEF Starts
<1>6. PICK b \in Blocks(end)[h] : i \in b[1] .. b[2] - 1
  <2>1. Holds(Blocks(end), h, end)
    BY <1>5, BlocksCover
  <2> QED
    BY <1>2, <1>3, <1>5, <2>1 DEF Holds
<1>7. b \in Chunks(n)
  BY <1>5, <1>6 DEF Chunks
<1> QED
  BY <1>6, <1>7

-------------------------------------------------------------------------------
(***************************************************************************)
(* The steps.  The text never changes, nor what is derived of it.          *)
(***************************************************************************)
LayoutKept ==
  /\ layout' = layout /\ Sizes' = Sizes /\ Chunks(layout.len)' = Chunks(layout.len)
  /\ RunRows' = RunRows /\ RunMemory' = RunMemory

LEMMA LayoutStays ==
  ASSUME layout' = layout
  PROVE  LayoutKept
<1>1. Sizes' = Sizes
  BY DEF Sizes
<1>2. \A n : Chunks(n)' = Chunks(n)
  BY DEF Chunks, Starts, SectionEnd, Blocks, BlockEnd, Advance
<1>3. ChunkSets' = ChunkSets /\ Chunks(layout.len)' = Chunks(layout.len)
  BY <1>2 DEF ChunkSets
<1>4. RunRows' = RunRows
  BY <1>3 DEF RunRows
<1> QED
  BY <1>1, <1>3, <1>4 DEF LayoutKept, RunMemory

(* One run steps, and remembers m.                                         *)
LEMMA RunRemembers ==
  ASSUME RunsTyped, LayoutKept, NEW w \in Workers, NEW m \in RunMemory, NEW to \in Steps,
         mem' = [mem EXCEPT ![w] = m], pc' = [pc EXCEPT ![w] = to],
         to # "idle" => m.run # 0,
         to \in {"putting", "indexed", "cleared"} => m.size # None
  PROVE  RunsTyped'
BY DEF RunsTyped, LayoutKept

LEMMA FreshTyped == layout \in Layouts => Fresh \in RunMemory
BY RunConstants, LayoutConstants DEF Fresh, RunMemory, Sizes, ChunkSets

(* The length of a canonical text that is there.                           *)
LEMMA CanonicalLength ==
  ASSUME StoresTyped, can # None
  PROVE  can.size \in 0 .. layout.len /\ can.size \in Sizes /\ can.size # None
BY RunConstants, LayoutConstants DEF StoresTyped, Sizes

(* A run that begins while none is under way is alone from then on.        *)
LEMMA BeginPreserves ==
  ASSUME DerivativeInv, NEW w \in Workers, Begin(w)
  PROVE  DerivativeInv'
<1>0. LayoutKept
  BY LayoutStays DEF Begin
<1>1. StoresTyped'
  BY <1>0, RunConstants DEF Begin, storeVars, DerivativeInv, StoresTyped,
        LayoutKept
<1>2. RunsTyped'
  <2> DEFINE m == [Fresh EXCEPT !.run = runs + 1]
  <2>1. runs + 1 \in 1 .. MaxRuns
    BY RunConstants DEF Begin, DerivativeInv, StoresTyped
  <2>2. m \in RunMemory /\ m.run # 0
    BY <2>1, FreshTyped DEF DerivativeInv, StoresTyped, RunMemory
  <2>3. mem' = [mem EXCEPT ![w] = m] /\ pc' = [pc EXCEPT ![w] = "reading"]
    BY DEF Begin, Goto
  <2>4. "reading" \in Steps
    BY DEF Steps
  <2> HIDE DEF m
  <2> QED
    BY <1>0, <2>2, <2>3, <2>4, RunRemembers DEF DerivativeInv
<1>3. Alone'
  BY DEF Begin, Busy, Goto, DerivativeInv, RunsTyped, Alone
<1>4. Whole'
  <2> SUFFICES ASSUME ~overlapped', NEW v \in Workers PROVE OnItsWay(v)'
    BY DEF Whole
  <2>1. \A u \in Workers : pc[u] = "idle"
    BY DEF Begin, Busy
  <2>2. pc' = [pc EXCEPT ![w] = "reading"] /\ src' = 0 /\ row'.status = "PROCESSING"
    BY DEF Begin, Goto, DerivativeInv, StoresTyped
  <2> QED
    BY <2>1, <2>2 DEF DerivativeInv, RunsTyped, OnItsWay
<1>5. Ready'
  BY DEF Begin, Ready
<1>6. QuietNow'
  BY DEF Begin, QuietNow
<1>7. RowsOfOneRun'
  BY DEF Begin, DerivativeInv, RowsOfOneRun
<1> QED
  BY <1>1, <1>2, <1>3, <1>4, <1>5, <1>6, <1>7 DEF DerivativeInv

LEMMA MaterializePreserves ==
  ASSUME DerivativeInv, NEW w \in Workers, Materialize(w)
  PROVE  DerivativeInv'
<1>0. LayoutKept
  BY LayoutStays DEF Materialize
<1>1. StoresTyped'
  BY <1>0 DEF Materialize, storeVars, noteVars, DerivativeInv, StoresTyped,
        LayoutKept
<1>2. RunsTyped'
  BY <1>0 DEF Materialize, Goto, DerivativeInv, RunsTyped, LayoutKept, Steps
<1>3. Alone'
  BY DEF Materialize, Goto, noteVars, DerivativeInv, Alone
<1>4. Whole'
  BY RunConstants DEF Materialize, Goto, noteVars, DerivativeInv, RunsTyped,
        Alone, Whole, OnItsWay
<1>5. Ready'
  BY DEF Materialize, Goto, noteVars, DerivativeInv, Whole, Ready, OnItsWay
<1>6. QuietNow'
  BY DEF Materialize, Goto, noteVars, DerivativeInv, QuietNow
<1>7. RowsOfOneRun'
  BY DEF Materialize, DerivativeInv, RowsOfOneRun
<1> QED
  BY <1>1, <1>2, <1>3, <1>4, <1>5, <1>6, <1>7 DEF DerivativeInv

LEMMA CheckSourcePreserves ==
  ASSUME DerivativeInv, NEW w \in Workers, CheckSource(w)
  PROVE  DerivativeInv'
<1>0. LayoutKept
  BY LayoutStays DEF CheckSource
<1>1. StoresTyped'
  BY <1>0 DEF CheckSource, storeVars, fileVars, noteVars, DerivativeInv,
        StoresTyped, LayoutKept
<1>2. RunsTyped'
  BY <1>0 DEF CheckSource, Goto, DerivativeInv, RunsTyped, LayoutKept, Steps
<1>3. Alone'
  BY DEF CheckSource, Goto, noteVars, DerivativeInv, Alone
<1>4. Whole'
  BY DEF CheckSource, Goto, fileVars, noteVars, DerivativeInv, Alone, Whole,
        OnItsWay
<1>5. Ready'
  BY DEF CheckSource, Goto, noteVars, DerivativeInv, Whole, Ready, OnItsWay
<1>6. QuietNow'
  BY DEF CheckSource, Goto, noteVars, DerivativeInv, QuietNow
<1>7. RowsOfOneRun'
  BY DEF CheckSource, DerivativeInv, RowsOfOneRun
<1> QED
  BY <1>1, <1>2, <1>3, <1>4, <1>5, <1>6, <1>7 DEF DerivativeInv

LEMMA OpenCanonicalPreserves ==
  ASSUME DerivativeInv, NEW w \in Workers, OpenCanonical(w)
  PROVE  DerivativeInv'
<1>0. LayoutKept
  BY LayoutStays DEF OpenCanonical
<1>1. StoresTyped'
  BY <1>0, LayoutConstants DEF OpenCanonical, storeVars, noteVars,
        DerivativeInv, StoresTyped, LayoutKept
<1>2. RunsTyped'
  BY <1>0 DEF OpenCanonical, Goto, DerivativeInv, RunsTyped, LayoutKept, Steps
<1>3. Alone'
  BY DEF OpenCanonical, Goto, noteVars, DerivativeInv, Alone
<1>4. Whole'
  BY RunConstants DEF OpenCanonical, Goto, noteVars, DerivativeInv, Alone,
        Whole, OnItsWay
<1>5. Ready'
  BY DEF OpenCanonical, Goto, noteVars, DerivativeInv, Whole, Ready, OnItsWay
<1>6. QuietNow'
  BY DEF OpenCanonical, Goto, noteVars, DerivativeInv, QuietNow
<1>7. RowsOfOneRun'
  BY DEF OpenCanonical, DerivativeInv, RowsOfOneRun
<1> QED
  BY <1>1, <1>2, <1>3, <1>4, <1>5, <1>6, <1>7 DEF DerivativeInv

LEMMA WriteCanonicalPreserves ==
  ASSUME DerivativeInv, NEW w \in Workers, WriteCanonical(w)
  PROVE  DerivativeInv'
<1>0. LayoutKept
  BY LayoutStays DEF WriteCanonical
<1>1. StoresTyped'
  BY <1>0, LayoutConstants DEF WriteCanonical, storeVars, noteVars,
        DerivativeInv, StoresTyped, LayoutKept
<1>2. RunsTyped'
  <2> DEFINE m == [mem[w] EXCEPT !.own = TRUE]
  <2>1. m \in RunMemory /\ m.run # 0
    <3>1. mem[w] \in RunMemory /\ mem[w].run # 0
      BY DEF WriteCanonical, Goto, DerivativeInv, RunsTyped
    <3>2. TRUE \in BOOLEAN
      OBVIOUS
    <3> QED
      BY <3>1, <3>2 DEF RunMemory
  <2>2. mem' = [mem EXCEPT ![w] = m] /\ pc' = [pc EXCEPT ![w] = "written"]
    BY DEF WriteCanonical, Goto
  <2>3. m.size # None \/ "written" \notin {"putting", "indexed", "cleared"}
    BY RunConstants DEF WriteCanonical, Goto, DerivativeInv, RunsTyped, RunMemory
  <2>4. "written" \in Steps
    BY DEF Steps
  <2> HIDE DEF m
  <2> QED
    BY <1>0, <2>1, <2>2, <2>3, <2>4, RunRemembers DEF DerivativeInv
<1>3. Alone'
  BY DEF WriteCanonical, Goto, noteVars, DerivativeInv, Alone
<1>4. Whole'
  BY RunConstants, LayoutConstants DEF WriteCanonical, Goto, noteVars,
        DerivativeInv, StoresTyped, Alone, Whole, OnItsWay
<1>5. Ready'
  BY DEF WriteCanonical, Goto, noteVars, DerivativeInv, Whole, Ready, OnItsWay
<1>6. QuietNow'
  BY DEF WriteCanonical, Goto, noteVars, DerivativeInv, QuietNow
<1>7. RowsOfOneRun'
  BY DEF WriteCanonical, DerivativeInv, RowsOfOneRun
<1> QED
  BY <1>1, <1>2, <1>3, <1>4, <1>5, <1>6, <1>7 DEF DerivativeInv

LEMMA DigestPreserves ==
  ASSUME DerivativeInv, NEW w \in Workers, Digest(w)
  PROVE  DerivativeInv'
<1>0. LayoutKept
  BY LayoutStays DEF Digest
<1>1. StoresTyped'
  BY <1>0 DEF Digest, storeVars, fileVars, noteVars, DerivativeInv,
        StoresTyped, LayoutKept
<1>2. RunsTyped'
  <2> DEFINE m == [mem[w] EXCEPT !.digest = can.size]
  <2>1. m \in RunMemory /\ m.run # 0
    BY CanonicalLength DEF Digest, Goto, DerivativeInv, StoresTyped, RunsTyped, RunMemory
  <2>2. mem' = [mem EXCEPT ![w] = m] /\ pc' = [pc EXCEPT ![w] = "digested"]
    BY DEF Digest, Goto
  <2>3. m.size # None \/ "digested" \notin {"putting", "indexed", "cleared"}
    BY CanonicalLength DEF Digest, Goto, DerivativeInv, RunsTyped, RunMemory
  <2>4. "digested" \in Steps
    BY DEF Steps
  <2> HIDE DEF m
  <2> QED
    BY <1>0, <2>1, <2>2, <2>3, <2>4, RunRemembers DEF DerivativeInv
<1>3. Alone'
  BY DEF Digest, Goto, noteVars, DerivativeInv, Alone
<1>4. Whole'
  BY DEF Digest, Goto, fileVars, noteVars, DerivativeInv, RunsTyped, Alone,
        Whole, OnItsWay
<1>5. Ready'
  BY DEF Digest, Goto, noteVars, DerivativeInv, Whole, Ready, OnItsWay
<1>6. QuietNow'
  BY DEF Digest, Goto, noteVars, DerivativeInv, QuietNow
<1>7. RowsOfOneRun'
  BY DEF Digest, DerivativeInv, RowsOfOneRun
<1> QED
  BY <1>1, <1>2, <1>3, <1>4, <1>5, <1>6, <1>7 DEF DerivativeInv

LEMMA PutBeginPreserves ==
  ASSUME DerivativeInv, NEW w \in Workers, PutBegin(w)
  PROVE  DerivativeInv'
<1>0. LayoutKept
  BY LayoutStays DEF PutBegin
<1>1. StoresTyped'
  BY <1>0 DEF PutBegin, fileVars, noteVars, DerivativeInv, StoresTyped,
        LayoutKept
<1>2. RunsTyped'
  <2> DEFINE m == [mem[w] EXCEPT !.size = can.size]
  <2>1. m \in RunMemory /\ m.run # 0
    BY CanonicalLength DEF PutBegin, Goto, DerivativeInv, StoresTyped, RunsTyped, RunMemory
  <2>2. mem' = [mem EXCEPT ![w] = m] /\ pc' = [pc EXCEPT ![w] = "putting"]
    BY DEF PutBegin, Goto
  <2>3. m.size # None \/ "putting" \notin {"putting", "indexed", "cleared"}
    BY CanonicalLength DEF PutBegin, Goto, DerivativeInv, RunsTyped, RunMemory
  <2>4. "putting" \in Steps
    BY DEF Steps
  <2> HIDE DEF m
  <2> QED
    BY <1>0, <2>1, <2>2, <2>3, <2>4, RunRemembers DEF DerivativeInv
<1>3. Alone'
  BY DEF PutBegin, Goto, noteVars, DerivativeInv, Alone
<1>4. Whole'
  BY DEF PutBegin, Goto, fileVars, noteVars, DerivativeInv, RunsTyped, Whole,
        OnItsWay
<1>5. Ready'
  BY DEF PutBegin, Goto, noteVars, DerivativeInv, Whole, Ready, OnItsWay
<1>6. QuietNow'
  BY DEF PutBegin, Goto, noteVars, DerivativeInv, QuietNow
<1>7. RowsOfOneRun'
  BY DEF PutBegin, DerivativeInv, RowsOfOneRun
<1> QED
  BY <1>1, <1>2, <1>3, <1>4, <1>5, <1>6, <1>7 DEF DerivativeInv

LEMMA PutEndPreserves ==
  ASSUME DerivativeInv, NEW w \in Workers, PutEnd(w)
  PROVE  DerivativeInv'
<1>0. LayoutKept
  BY LayoutStays DEF PutEnd
<1>1. StoresTyped'
  BY <1>0 DEF PutEnd, fileVars, noteVars, DerivativeInv, StoresTyped,
        RunsTyped, LayoutKept, RunMemory
<1>2. RunsTyped'
  BY <1>0 DEF PutEnd, Goto, DerivativeInv, RunsTyped, LayoutKept, Steps
<1>3. Alone'
  BY DEF PutEnd, Goto, noteVars, DerivativeInv, Alone
<1>4. Whole'
  BY DEF PutEnd, Goto, fileVars, noteVars, DerivativeInv, Alone, Whole,
        OnItsWay
<1>5. Ready'
  BY DEF PutEnd, Goto, noteVars, DerivativeInv, Whole, Ready, OnItsWay
<1>6. QuietNow'
  BY DEF PutEnd, Goto, noteVars, DerivativeInv, QuietNow
<1>7. RowsOfOneRun'
  BY DEF PutEnd, DerivativeInv, RowsOfOneRun
<1> QED
  BY <1>1, <1>2, <1>3, <1>4, <1>5, <1>6, <1>7 DEF DerivativeInv

LEMMA ReusePreserves ==
  ASSUME DerivativeInv, NEW w \in Workers, Reuse(w)
  PROVE  DerivativeInv'
<1>0. LayoutKept
  BY LayoutStays DEF Reuse
<1>1. StoresTyped'
  BY <1>0 DEF Reuse, storeVars, fileVars, noteVars, DerivativeInv,
        StoresTyped, LayoutKept
<1>2. RunsTyped'
  BY <1>0 DEF Reuse, Goto, DerivativeInv, RunsTyped, LayoutKept, Steps
<1>3. Alone'
  BY DEF Reuse, Goto, noteVars, DerivativeInv, Alone
<1>4. Whole'
  BY DEF Reuse, Goto, storeVars, fileVars, noteVars, DerivativeInv, Alone,
        Whole, OnItsWay
<1>5. Ready'
  BY DEF Reuse, Goto, noteVars, DerivativeInv, Whole, Ready, OnItsWay
<1>6. QuietNow'
  BY DEF Reuse, Goto, noteVars, DerivativeInv, QuietNow
<1>7. RowsOfOneRun'
  BY DEF Reuse, DerivativeInv, RowsOfOneRun
<1> QED
  BY <1>1, <1>2, <1>3, <1>4, <1>5, <1>6, <1>7 DEF DerivativeInv

LEMMA StructurePreserves ==
  ASSUME DerivativeInv, NEW w \in Workers, Structure(w)
  PROVE  DerivativeInv'
<1>0. LayoutKept
  BY LayoutStays DEF Structure
<1>1. StoresTyped'
  BY <1>0 DEF Structure, storeVars, fileVars, noteVars, DerivativeInv,
        StoresTyped, LayoutKept
<1>2. RunsTyped'
  <2> DEFINE m == [mem[w] EXCEPT !.size = can.size, !.chunks = Chunks(can.size)]
  <2>1. m \in RunMemory /\ m.run # 0
    <3>1. can.size \in Sizes /\ Chunks(can.size) \in ChunkSets
      BY CanonicalLength DEF Structure, DerivativeInv, ChunkSets
    <3>2. mem[w] \in RunMemory /\ mem[w].run # 0
      BY DEF Structure, Goto, DerivativeInv, RunsTyped
    <3> QED
      BY <3>1, <3>2 DEF RunMemory
  <2>2. mem' = [mem EXCEPT ![w] = m] /\ pc' = [pc EXCEPT ![w] = "indexed"]
    BY DEF Structure, Goto
  <2>3. m.size # None \/ "indexed" \notin {"putting", "indexed", "cleared"}
    BY CanonicalLength DEF Structure, Goto, DerivativeInv, RunsTyped, RunMemory
  <2>4. "indexed" \in Steps
    BY DEF Steps
  <2> HIDE DEF m
  <2> QED
    BY <1>0, <2>1, <2>2, <2>3, <2>4, RunRemembers DEF DerivativeInv
<1>3. Alone'
  BY DEF Structure, Goto, noteVars, DerivativeInv, Alone
<1>4. Whole'
  BY <1>0 DEF Structure, Goto, storeVars, noteVars, DerivativeInv, RunsTyped,
        Alone, Whole, OnItsWay, LayoutKept
<1>5. Ready'
  BY DEF Structure, Goto, noteVars, DerivativeInv, Whole, Ready, OnItsWay
<1>6. QuietNow'
  BY DEF Structure, Goto, noteVars, DerivativeInv, QuietNow
<1>7. RowsOfOneRun'
  BY DEF Structure, DerivativeInv, RowsOfOneRun
<1> QED
  BY <1>1, <1>2, <1>3, <1>4, <1>5, <1>6, <1>7 DEF DerivativeInv

LEMMA ClearRowsPreserves ==
  ASSUME DerivativeInv, NEW w \in Workers, ClearRows(w)
  PROVE  DerivativeInv'
<1>0. LayoutKept
  BY LayoutStays DEF ClearRows
<1>1. StoresTyped'
  BY <1>0 DEF ClearRows, storeVars, fileVars, noteVars, DerivativeInv,
        StoresTyped, LayoutKept
<1>2. RunsTyped'
  <2> DEFINE m == [mem[w] EXCEPT !.seen = rows]
  <2>1. m \in RunMemory /\ m.run # 0
    BY RunConstants DEF ClearRows, Goto, DerivativeInv, StoresTyped, RunsTyped, RunMemory
  <2>2. mem' = [mem EXCEPT ![w] = m] /\ pc' = [pc EXCEPT ![w] = "cleared"]
    BY DEF ClearRows, Goto
  <2>3. m.size # None \/ "cleared" \notin {"putting", "indexed", "cleared"}
    BY RunConstants DEF ClearRows, Goto, DerivativeInv, RunsTyped, RunMemory
  <2>4. "cleared" \in Steps
    BY DEF Steps
  <2> HIDE DEF m
  <2> QED
    BY <1>0, <2>1, <2>2, <2>3, <2>4, RunRemembers DEF DerivativeInv
<1>3. Alone'
  BY DEF ClearRows, Goto, noteVars, DerivativeInv, Alone
<1>4. Whole'
  BY <1>0 DEF ClearRows, Goto, storeVars, noteVars, DerivativeInv, Alone,
        Whole, OnItsWay, LayoutKept
<1>5. Ready'
  BY DEF ClearRows, Goto, noteVars, DerivativeInv, Whole, Ready, OnItsWay
<1>6. QuietNow'
  BY DEF ClearRows, Goto, noteVars, DerivativeInv, QuietNow
<1>7. RowsOfOneRun'
  BY DEF ClearRows, DerivativeInv, RowsOfOneRun
<1> QED
  BY <1>1, <1>2, <1>3, <1>4, <1>5, <1>6, <1>7 DEF DerivativeInv

(* The rows of other runs are gone with the commit, or it is refused.      *)
LEMMA CommitPreserves ==
  ASSUME DerivativeInv, NEW w \in Workers, Commit(w) \/ CommitRaises(w)
  PROVE  DerivativeInv'
<1>0. LayoutKept
  BY LayoutStays DEF Commit, CommitRaises
<1>1. StoresTyped'
  <2> DEFINE new == [run |-> mem[w].run, chunks |-> mem[w].chunks, size |-> mem[w].size]
  <2>1. mem[w] \in RunMemory /\ mem[w].run # 0 /\ mem[w].size # None
    BY DEF Commit, CommitRaises, Goto, DerivativeInv, RunsTyped
  <2>2. mem[w].run \in 1 .. MaxRuns /\ mem[w].digest \in Sizes /\ new \in RunRows
    BY <2>1, RunConstants DEF RunMemory, RunRows, Sizes
  <2>3. PICK s \in {"READY", "PARTIAL"} :
          row' = [status |-> s, size |-> mem[w].digest, run |-> mem[w].run]
    BY DEF Commit, CommitRaises, WriteRows
  <2>4. row' \in [status : Outcomes \cup {"PENDING", "PROCESSING"}, size : Sizes,
                  run : 0 .. MaxRuns]
    BY <2>2, <2>3, RunConstants DEF Outcomes
  <2>5. rows' \subseteq RunRows
    BY <2>2 DEF Commit, CommitRaises, WriteRows, DerivativeInv, StoresTyped
  <2> QED
    BY <1>0, <2>4, <2>5 DEF Commit, CommitRaises, storeVars, fileVars, noteVars,
      DerivativeInv, StoresTyped, LayoutKept
<1>2. RunsTyped'
  BY <1>0 DEF Commit, CommitRaises, Goto, DerivativeInv, RunsTyped,
        LayoutKept, Steps
<1>3. Alone'
  BY DEF Commit, CommitRaises, Goto, noteVars, DerivativeInv, RunsTyped, Alone
<1>4. Whole'
  BY DEF Commit, CommitRaises, Goto, noteVars, DerivativeInv, RunsTyped,
        Alone, Whole, OnItsWay
<1>5. Ready'
  BY <1>0 DEF Commit, CommitRaises, Goto, storeVars, noteVars, DerivativeInv,
        Whole, Ready, OnItsWay, LayoutKept, WriteRows, Unique
<1>6. QuietNow'
  BY DEF Commit, CommitRaises, Goto, noteVars, DerivativeInv, QuietNow
<1>7. RowsOfOneRun'
  BY DEF Commit, CommitRaises, RowsOfOneRun, WriteRows, Unique
<1> QED
  BY <1>1, <1>2, <1>3, <1>4, <1>5, <1>6, <1>7 DEF DerivativeInv

LEMMA RaisePreserves ==
  ASSUME DerivativeInv, NEW w \in Workers, Raise(w)
  PROVE  DerivativeInv'
<1>0. LayoutKept
  BY LayoutStays DEF Raise
<1>1. StoresTyped'
  BY <1>0 DEF Raise, fileVars, noteVars, DerivativeInv, StoresTyped,
        LayoutKept
<1>2. RunsTyped'
  BY <1>0 DEF Raise, DerivativeInv, RunsTyped, LayoutKept, Steps
<1>3. Alone'
  BY DEF Raise, noteVars, DerivativeInv, Alone
<1>4. Whole'
  BY DEF Raise, noteVars, DerivativeInv, RunsTyped, Alone, Whole, OnItsWay
<1>5. Ready'
  BY DEF Raise, noteVars, DerivativeInv, Whole, Ready, OnItsWay
<1>6. QuietNow'
  BY DEF Raise, noteVars, DerivativeInv, QuietNow
<1>7. RowsOfOneRun'
  BY DEF Raise, DerivativeInv, RowsOfOneRun
<1> QED
  BY <1>1, <1>2, <1>3, <1>4, <1>5, <1>6, <1>7 DEF DerivativeInv

LEMMA RecordFailurePreserves ==
  ASSUME DerivativeInv, NEW w \in Workers, RecordFailure(w)
  PROVE  DerivativeInv'
<1>0. LayoutKept
  BY LayoutStays DEF RecordFailure
<1>1. StoresTyped'
  BY <1>0 DEF RecordFailure, storeVars, fileVars, noteVars, DerivativeInv,
        StoresTyped, LayoutKept, Outcomes
<1>2. RunsTyped'
  BY <1>0 DEF RecordFailure, Goto, DerivativeInv, RunsTyped, LayoutKept, Steps
<1>3. Alone'
  BY DEF RecordFailure, Goto, noteVars, DerivativeInv, Alone
<1>4. Whole'
  BY DEF RecordFailure, Goto, noteVars, DerivativeInv, Alone, Whole, OnItsWay
<1>5. Ready'
  BY DEF RecordFailure, Ready
<1>6. QuietNow'
  BY DEF RecordFailure, Goto, noteVars, DerivativeInv, QuietNow
<1>7. RowsOfOneRun'
  BY DEF RecordFailure, DerivativeInv, RowsOfOneRun
<1> QED
  BY <1>1, <1>2, <1>3, <1>4, <1>5, <1>6, <1>7 DEF DerivativeInv

LEMMA RecordFailsPreserves ==
  ASSUME DerivativeInv, NEW w \in Workers, RecordFails(w)
  PROVE  DerivativeInv'
<1>0. LayoutKept
  BY LayoutStays DEF RecordFails
<1>1. StoresTyped'
  BY <1>0, RunConstants DEF RecordFails, storeVars, fileVars, DerivativeInv,
        StoresTyped, LayoutKept
<1>2. RunsTyped'
  BY <1>0 DEF RecordFails, Goto, DerivativeInv, RunsTyped, LayoutKept, Steps
<1>3. Alone'
  BY DEF RecordFails, Goto, DerivativeInv, Alone
<1>4. Whole'
  BY DEF RecordFails, Goto, DerivativeInv, Alone, Whole, OnItsWay
<1>5. Ready'
  BY <1>0 DEF RecordFails, storeVars, DerivativeInv, Ready, LayoutKept
<1>6. QuietNow'
  BY DEF RecordFails, Goto, DerivativeInv, QuietNow
<1>7. RowsOfOneRun'
  BY DEF RecordFails, DerivativeInv, RowsOfOneRun
<1> QED
  BY <1>1, <1>2, <1>3, <1>4, <1>5, <1>6, <1>7 DEF DerivativeInv

LEMMA CleanUpPreserves ==
  ASSUME DerivativeInv, NEW w \in Workers, CleanUp(w)
  PROVE  DerivativeInv'
<1>0. LayoutKept
  BY LayoutStays DEF CleanUp
<1>1. StoresTyped'
  BY <1>0 DEF CleanUp, storeVars, noteVars, DerivativeInv, StoresTyped,
        LayoutKept
<1>2. RunsTyped'
  <2>1. mem' = [mem EXCEPT ![w] = Fresh] /\ pc' = [pc EXCEPT ![w] = "idle"] /\ "idle" \in Steps
    BY DEF CleanUp, Goto, Steps
  <2>2. Fresh \in RunMemory
    BY FreshTyped DEF DerivativeInv, StoresTyped
  <2> QED
    BY <1>0, <2>1, <2>2, RunRemembers DEF DerivativeInv
<1>3. Alone'
  BY DEF CleanUp, Goto, noteVars, DerivativeInv, Alone
<1>4. Whole'
  BY DEF CleanUp, Goto, noteVars, DerivativeInv, Alone, Whole, OnItsWay
<1>5. Ready'
  BY <1>0 DEF CleanUp, storeVars, noteVars, DerivativeInv, Ready, LayoutKept
<1>6. QuietNow'
  BY DEF CleanUp, Goto, noteVars, DerivativeInv, QuietNow
<1>7. RowsOfOneRun'
  BY DEF CleanUp, DerivativeInv, RowsOfOneRun
<1> QED
  BY <1>1, <1>2, <1>3, <1>4, <1>5, <1>6, <1>7 DEF DerivativeInv

LEMMA DiePreserves ==
  ASSUME DerivativeInv, NEW w \in Workers, Die(w)
  PROVE  DerivativeInv'
<1>0. LayoutKept
  BY LayoutStays DEF Die
<1>1. StoresTyped'
  BY <1>0, RunConstants DEF Die, storeVars, fileVars, DerivativeInv,
        StoresTyped, LayoutKept
<1>2. RunsTyped'
  <2>1. mem' = [mem EXCEPT ![w] = Fresh] /\ pc' = [pc EXCEPT ![w] = "idle"] /\ "idle" \in Steps
    BY DEF Die, Goto, Steps
  <2>2. Fresh \in RunMemory
    BY FreshTyped DEF DerivativeInv, StoresTyped
  <2> QED
    BY <1>0, <2>1, <2>2, RunRemembers DEF DerivativeInv
<1>3. Alone'
  BY DEF Die, DerivativeInv, Alone
<1>4. Whole'
  BY DEF Die, DerivativeInv, RunsTyped, Alone, Whole, OnItsWay
<1>5. Ready'
  BY <1>0 DEF Die, storeVars, DerivativeInv, Ready, LayoutKept
<1>6. QuietNow'
  BY DEF Die, DerivativeInv, QuietNow
<1>7. RowsOfOneRun'
  BY DEF Die, DerivativeInv, RowsOfOneRun
<1> QED
  BY <1>1, <1>2, <1>3, <1>4, <1>5, <1>6, <1>7 DEF DerivativeInv

(* A selection that is saved names sections that are there.                *)
LEMMA SaveSelectionPreserves ==
  ASSUME DerivativeInv, SaveSelection
  PROVE  DerivativeInv'
<1>0. LayoutKept
  BY LayoutStays DEF SaveSelection
<1>1. PICK x \in rows : select' = x.run
  BY DEF SaveSelection
<1>2. x.run \in 1 .. MaxRuns
  BY DEF DerivativeInv, StoresTyped, RunRows
<1>3. StoresTyped'
  BY <1>0, <1>1, <1>2 DEF SaveSelection, storeVars, fileVars, DerivativeInv, StoresTyped, LayoutKept
<1>4. RunsTyped' /\ Alone' /\ RowsOfOneRun'
  BY <1>0 DEF SaveSelection, DerivativeInv, RunsTyped, LayoutKept, Alone, RowsOfOneRun
<1>5. Whole' /\ Ready'
  BY <1>0 DEF SaveSelection, storeVars, fileVars, DerivativeInv, Whole, OnItsWay, Ready, LayoutKept
<1>6. QuietNow'
  BY <1>1 DEF SaveSelection, Busy, QuietNow
<1> QED
  BY <1>3, <1>4, <1>5, <1>6 DEF DerivativeInv

LEMMA DerivativeInit == Init => DerivativeInv
<1> SUFFICES ASSUME Init PROVE DerivativeInv
  OBVIOUS
<1>1. layout \in Layouts /\ layout.len \in Nat /\ Fresh \in RunMemory
  BY FreshTyped, LayoutConstants DEF Init
<1>2. StoresTyped
  <2>1. local \in BOOLEAN /\ temp \in BOOLEAN /\ (temp => local) /\ overlapped \in BOOLEAN
    BY DEF Init
  <2>2. row \in [status : Outcomes \cup {"PENDING", "PROCESSING"}, size : Sizes, run : 0 .. MaxRuns]
    BY RunConstants DEF Init, Sizes
  <2>3. rows = {} /\ blob \in Sizes /\ src = None /\ can = None /\ select = None
    BY DEF Init, Sizes
  <2>4. runs \in 0 .. MaxRuns /\ faults \in 0 .. MaxFaults
    BY RunConstants DEF Init
  <2> QED
    BY <1>1, <2>1, <2>2, <2>3, <2>4 DEF StoresTyped
<1>3. RunsTyped
  BY <1>1 DEF Init, RunsTyped, Steps
<1>4. Alone /\ Whole /\ Ready /\ QuietNow /\ RowsOfOneRun
  BY DEF Init, Alone, Whole, OnItsWay, Ready, QuietNow, RowsOfOneRun
<1> QED
  BY <1>2, <1>3, <1>4 DEF DerivativeInv

LEMMA DerivativeStep == DerivativeInv /\ [Next]_vars => DerivativeInv'
<1> SUFFICES ASSUME DerivativeInv, [Next]_vars PROVE DerivativeInv'
  OBVIOUS
<1>1. CASE UNCHANGED vars
  <2>0. LayoutKept
    BY <1>1, LayoutStays DEF vars
  <2>1. StoresTyped' /\ RunsTyped'
    BY <1>1, <2>0 DEF vars, storeVars, fileVars, noteVars, DerivativeInv, StoresTyped,
                      RunsTyped, LayoutKept
  <2>2. Alone' /\ Whole' /\ Ready' /\ QuietNow' /\ RowsOfOneRun'
    BY <1>1, <2>0 DEF vars, storeVars, fileVars, noteVars, DerivativeInv, Alone, Whole,
                      OnItsWay, Ready, QuietNow, RowsOfOneRun, LayoutKept
  <2> QED
    BY <2>1, <2>2 DEF DerivativeInv
<1>2. CASE SaveSelection
  BY <1>2, SaveSelectionPreserves
<1>3. ASSUME NEW w \in Workers, Step(w)
      PROVE  DerivativeInv'
  BY <1>3, MaterializePreserves, CheckSourcePreserves, OpenCanonicalPreserves,
     WriteCanonicalPreserves, DigestPreserves, PutBeginPreserves, PutEndPreserves,
     ReusePreserves, StructurePreserves, ClearRowsPreserves, CommitPreserves,
     RaisePreserves, RecordFailurePreserves, CleanUpPreserves
  DEF Step
<1>4. ASSUME NEW w \in Workers, Begin(w) \/ RecordFails(w) \/ Die(w)
      PROVE  DerivativeInv'
  BY <1>4, BeginPreserves, RecordFailsPreserves, DiePreserves
<1> QED
  BY <1>1, <1>2, <1>3, <1>4 DEF Next

-------------------------------------------------------------------------------

(* The invariant holds, however runs overlap, fail and die, and whatever   *)
(* earlier ones left in the staging files (process_document).              *)
THEOREM DerivativeInvariant == Spec => []DerivativeInv
<1> QED
  BY DerivativeInit, DerivativeStep, PTL DEF Spec

(* The derivative, its rows and the staging files are what Derivative says *)
(* of them, and no length exceeds that of the text (process_document).     *)
THEOREM DerivativeTypeCorrect == Spec => []TypeOK
<1>1. DerivativeInv => TypeOK
  <2> SUFFICES ASSUME DerivativeInv PROVE TypeOK
    OBVIOUS
  <2>1. layout.len \in Nat \ {0} /\ layout.title \in 0 .. layout.len
    BY LayoutConstants DEF DerivativeInv, StoresTyped
  <2>2. src \in Sizes
    BY <2>1 DEF DerivativeInv, StoresTyped, Sizes
  <2>3. \A x \in rows : x.run \in 1 .. MaxRuns /\ x.size \in Sizes \ {None}
    BY <2>1, RunConstants DEF DerivativeInv, StoresTyped, RunRows, Sizes
  <2>4. can = None \/ (can.by \in Workers /\ can.size \in Sizes \ {None})
    BY CanonicalLength DEF DerivativeInv, StoresTyped
  <2> QED
    BY <2>2, <2>3, <2>4 DEF DerivativeInv, StoresTyped, RunsTyped, TypeOK
<1> QED
  BY <1>1, DerivativeInvariant, PTL

(* However runs overlap, fail or die, and whichever commit takes effect,   *)
(* the sections and chunks in the database are those of one run, and the   *)
(* digest of the derivative is that run's (process_document).              *)
THEOREM OneRunInTheRows == Spec => []RowsOfOneRun
<1>1. DerivativeInv => RowsOfOneRun
  BY DEF DerivativeInv
<1> QED
  BY <1>1, DerivativeInvariant, PTL

(* Of a derivative that is ready: the rows of one run, over all the text.  *)
LEMMA ReadyIndexed ==
  ASSUME DerivativeInv, ~overlapped, row.status \in {"READY", "PARTIAL"}
  PROVE  /\ row.size = layout.len /\ blob = layout.len
         /\ \E x \in rows : /\ rows = {x} /\ x.run = row.run /\ x.size = layout.len
                            /\ Indexed(x.chunks)
<1>1. Indexed(Chunks(layout.len))
  BY ChunksIndexTheText DEF DerivativeInv, StoresTyped
<1> DEFINE x == [run |-> row.run, chunks |-> Chunks(layout.len), size |-> layout.len]
<1>2. /\ row.size = layout.len /\ blob = layout.len /\ rows = {x}
      /\ x.run = row.run /\ x.size = layout.len /\ x.chunks = Chunks(layout.len)
  BY DEF DerivativeInv, Ready
<1> HIDE DEF x
<1> QED
  BY <1>1, <1>2

(* For every text: unless runs overlap, the digest, the stored blob and    *)
(* the rows of a derivative that is ready are those of the whole text, and *)
(* every byte that is not white space lies in a chunk (build_structure).   *)
THEOREM ReadyHasTheWholeText == Spec => []ReadyIsWhole
<1>1. DerivativeInv => ReadyIsWhole
  BY ReadyIndexed DEF ReadyIsWhole, Indexed
<1> QED
  BY <1>1, DerivativeInvariant, PTL

(* A manual selection saved on a ready document restricts what is offered  *)
(* until the document is processed again (save_selection and               *)
(* canonical_context_for_document).                                        *)
THEOREM SelectionRestricts == Spec => []SelectionHeld
<1>1. DerivativeInv => SelectionHeld
  <2> SUFFICES ASSUME DerivativeInv, quiet
               PROVE  Offered \in {"selected", "nothing"}
    BY DEF SelectionHeld
  <2>1. /\ ~overlapped /\ row.status \in {"READY", "PARTIAL"}
        /\ \E x \in rows : x.run = select
    BY DEF DerivativeInv, QuietNow
  <2>2. PICK x \in rows : rows = {x} /\ Indexed(x.chunks)
    BY <2>1, ReadyIndexed
  <2>3. x.chunks # {}
    <3>1. 0 \in (0 .. layout.len - 1) \ layout.blanks
      BY LayoutConstants DEF DerivativeInv, StoresTyped
    <3> QED
      BY <2>2, <3>1 DEF Indexed
  <2>4. select # None
    <3>1. x.run \in 1 .. MaxRuns
      BY DEF DerivativeInv, StoresTyped, RunRows
    <3> QED
      BY <2>1, <2>2, <3>1, RunConstants
  <2> QED
    BY <2>1, <2>2, <2>3, <2>4 DEF Offered, ServedStatuses
<1> QED
  BY <1>1, DerivativeInvariant, PTL
================================================================================

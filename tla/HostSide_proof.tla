--------------------------- MODULE HostSide_proof ---------------------------
(***************************************************************************)
(* Theorems about HostSide, for any number of processes and calls, any     *)
(* lines and any failures.                                                 *)
(*                                                                         *)
(* The loops over the lines of a file are recursive functions.  What they  *)
(* compute is proved by induction over sequences in its first-order form:  *)
(* the property is a set, and the set holds every sequence because there   *)
(* is no shortest one outside it.                                          *)
(***************************************************************************)
EXTENDS HostSide, SequenceTheorems, FiniteSetTheorems, WellFoundedInduction, TLAPS

-----------------------------------------------------------------------------
(* Induction and loops *)

LEMMA LeastNat ==
  ASSUME NEW T \in SUBSET Nat, T # {}
  PROVE  \E x \in T : \A y \in T : x =< y
<1> DEFINE R == OpToRel(<, Nat)
<1>1. IsWellFoundedOn(R, Nat)
  BY NatLessThanWellFounded
<1>2. \A x, y \in Nat : <<x, y>> \in R <=> x < y
  BY DEF OpToRel
<1> HIDE DEF R
<1>3. PICK x \in T : \A y \in T : <<y, x>> \notin R
  BY <1>1, WFMin
<1>4. \A y \in T : ~(y < x)
  BY <1>2, <1>3
<1> QED BY <1>3, <1>4

LEMMA SeqInduction ==
  ASSUME NEW L, NEW T, <<>> \in T,
         \A s \in Seq(L) : s \in T => \A l \in L : Append(s, l) \in T
  PROVE  \A s \in Seq(L) : s \in T
<1> SUFFICES ASSUME NEW r \in Seq(L), r \notin T PROVE FALSE
  OBVIOUS
<1> DEFINE N == {n \in Nat : \E s \in Seq(L) : Len(s) = n /\ s \notin T}
<1>1. Len(r) \in N
  BY LenProperties
<1>2. PICK n \in N : \A m \in N : n =< m
  BY <1>1, LeastNat
<1>3. PICK s \in Seq(L) : Len(s) = n /\ s \notin T
  BY <1>2
<1>4. PICK t \in Seq(L), l \in L : s = Append(t, l)
  BY <1>3, SequenceEmptyOrAppend
<1>5. Len(t) \in Nat /\ Len(t) + 1 = n
  BY <1>3, <1>4
<1>6. Len(t) \notin N
  BY <1>2, <1>5
<1> QED
  BY <1>3, <1>4, <1>5, <1>6

Runs(f, step, base, s) ==
  f = [n \in 0 .. Len(s) |-> IF n = 0 THEN base ELSE step[s[n]][f[n - 1]]]

LEMMA ScanIs ==
  ASSUME NEW step, NEW base, NEW s, NEW f, Runs(f, step, base, s)
  PROVE  \E g : Runs(g, step, base, s) /\ Scan(step, base, s) = g[Len(s)]
<1> DEFINE g == CHOOSE h : h = [n \in 0 .. Len(s) |-> IF n = 0 THEN base ELSE step[s[n]][h[n - 1]]]
<1>1. Runs(g, step, base, s)
  BY DEF Runs
<1>2. Scan(step, base, s) = g[Len(s)]
  BY DEF Scan
<1> QED
  BY <1>1, <1>2

LEMMA RunsAgree ==
  ASSUME NEW L, NEW step, NEW base, NEW s \in Seq(L), NEW t \in Seq(L),
         NEW f, Runs(f, step, base, s), NEW g, Runs(g, step, base, t),
         NEW m \in Nat, m =< Len(s), m =< Len(t), \A i \in 1 .. m : s[i] = t[i]
  PROVE  \A n \in 0 .. m : f[n] = g[n]
<1> SUFFICES ASSUME NEW b \in 0 .. m, f[b] # g[b] PROVE FALSE
  OBVIOUS
<1>0. Len(s) \in Nat /\ Len(t) \in Nat
  OBVIOUS
<1> DEFINE N == {n \in 0 .. m : f[n] # g[n]}
<1>1. N \in SUBSET Nat /\ N # {}
  OBVIOUS
<1>2. PICK n \in N : \A k \in N : n =< k
  BY <1>1, LeastNat
<1>3. n # 0
  <2>1. 0 \in 0 .. Len(s) /\ 0 \in 0 .. Len(t)
    BY <1>0
  <2>2. f[0] = base /\ g[0] = base
    BY <2>1 DEF Runs
  <2> QED
    BY <1>2, <2>2
<1>4. n - 1 \in 0 .. m /\ n \in 1 .. m /\ n \in 0 .. Len(s) /\ n \in 0 .. Len(t)
  BY <1>0, <1>3
<1>5. f[n - 1] = g[n - 1]
  BY <1>2, <1>4
<1>6. f[n] = step[s[n]][f[n - 1]] /\ g[n] = step[t[n]][g[n - 1]]
  BY <1>3, <1>4 DEF Runs
<1> QED
  BY <1>4, <1>5, <1>6

LEMMA RunExists ==
  ASSUME NEW L, NEW step, NEW base
  PROVE  \A s \in Seq(L) : \E f : Runs(f, step, base, s)
<1> DEFINE T == {s \in Seq(L) : \E f : Runs(f, step, base, s)}
<1>1. <<>> \in T
  <2> DEFINE f == [n \in 0 .. 0 |-> base]
  <2>1. Runs(f, step, base, <<>>)
    BY DEF Runs
  <2> QED
    BY <2>1
<1>2. ASSUME NEW s \in T, NEW l \in L
      PROVE  Append(s, l) \in T
  <2>1. PICK f : Runs(f, step, base, s)
    OBVIOUS
  <2> DEFINE k == Len(s)
             t == Append(s, l)
             g == [n \in 0 .. k + 1 |-> IF n =< k THEN f[n] ELSE step[l][f[k]]]
  <2>2. /\ k \in Nat /\ t \in Seq(L) /\ Len(t) = k + 1 /\ t[k + 1] = l
        /\ \A i \in 1 .. k : t[i] = s[i]
    BY AppendProperties
  <2> HIDE DEF t, k
  <2>3. f = [n \in 0 .. k |-> IF n = 0 THEN base ELSE step[s[n]][f[n - 1]]]
    BY <2>1 DEF Runs, k
  <2>4. ASSUME NEW n \in 0 .. k + 1
        PROVE  g[n] = IF n = 0 THEN base ELSE step[t[n]][g[n - 1]]
    <3>0. \A j \in 0 .. k + 1 : g[j] = IF j =< k THEN f[j] ELSE step[l][f[k]]
      OBVIOUS
    <3> HIDE DEF g
    <3>1. CASE n = 0
      <4>1. n =< k /\ n \in 0 .. k
        BY <2>2, <3>1
      <4>2. f[n] = base
        BY <2>3, <3>1, <4>1
      <4> QED
        BY <3>0, <3>1, <4>1, <4>2
    <3>2. CASE n \in 1 .. k
      <4>1. /\ n - 1 \in 0 .. k /\ n - 1 \in 0 .. k + 1 /\ n \in 0 .. k
            /\ n - 1 =< k /\ n =< k
        BY <2>2, <3>2
      <4>2. g[n - 1] = f[n - 1] /\ g[n] = f[n] /\ t[n] = s[n]
        BY <2>2, <3>0, <3>2, <4>1
      <4> QED
        BY <2>3, <3>2, <4>1, <4>2
    <3>3. CASE n = k + 1
      <4>1. n # 0 /\ n - 1 = k /\ k \in 0 .. k + 1 /\ k =< k /\ ~(n =< k)
        BY <2>2, <3>3
      <4>2. g[k] = f[k] /\ g[n] = step[l][f[k]]
        BY <3>0, <4>1
      <4> QED
        BY <2>2, <3>3, <4>1, <4>2
    <3>4. n = 0 \/ n \in 1 .. k \/ n = k + 1
      BY <2>2
    <3> QED
      BY <3>1, <3>2, <3>3, <3>4
  <2>5. Runs(g, step, base, t)
    <3>1. g = [n \in 0 .. k + 1 |-> g[n]]
      OBVIOUS
    <3> HIDE DEF g
    <3>2. g = [n \in 0 .. k + 1 |-> IF n = 0 THEN base ELSE step[t[n]][g[n - 1]]]
      BY <2>4, <3>1
    <3> QED
      BY <2>2, <3>2 DEF Runs
  <2> HIDE DEF g
  <2> QED
    BY <2>2, <2>5 DEF t
<1> HIDE DEF T
<1>3. \A s \in Seq(L) : s \in T
  BY <1>1, <1>2, SeqInduction
<1> QED
  BY <1>3 DEF T

LEMMA ScanEmpty ==
  ASSUME NEW step, NEW base
  PROVE  Scan(step, base, <<>>) = base
<1>1. PICK f : Runs(f, step, base, <<>>)
  <2>1. <<>> \in Seq({})
    OBVIOUS
  <2> QED
    BY <2>1, RunExists
<1>2. PICK g : Runs(g, step, base, <<>>) /\ Scan(step, base, <<>>) = g[Len(<<>>)]
  BY <1>1, ScanIs
<1> QED
  BY <1>2 DEF Runs

LEMMA ScanAppend ==
  ASSUME NEW L, NEW step, NEW base, NEW s \in Seq(L), NEW l \in L
  PROVE  Scan(step, base, Append(s, l)) = step[l][Scan(step, base, s)]
<1> DEFINE t == Append(s, l)
           k == Len(s)
<1>1. /\ k \in Nat /\ t \in Seq(L) /\ Len(t) = k + 1 /\ t[k + 1] = l
      /\ \A i \in 1 .. k : t[i] = s[i]
  BY AppendProperties
<1>2. PICK f : Runs(f, step, base, s) /\ Scan(step, base, s) = f[k]
  BY RunExists, ScanIs
<1> HIDE DEF t
<1>3. PICK g : Runs(g, step, base, t) /\ Scan(step, base, t) = g[Len(t)]
  BY <1>1, RunExists, ScanIs
<1> HIDE DEF k
<1>4. \A n \in 0 .. k : f[n] = g[n]
  <2>1. k =< Len(s) /\ k =< Len(t) /\ \A i \in 1 .. k : s[i] = t[i]
    <3>1. k = Len(s) /\ k =< k /\ k =< k + 1
      BY <1>1 DEF k
    <3> QED
      BY <1>1, <3>1
  <2>2. k \in Nat /\ t \in Seq(L) /\ Runs(f, step, base, s) /\ Runs(g, step, base, t)
    BY <1>1, <1>2, <1>3
  <2> SUFFICES ASSUME NEW n \in 0 .. k PROVE f[n] = g[n]
    OBVIOUS
  <2> QED
    BY <2>1, <2>2, RunsAgree, SMTT(30)
<1>5. k \in 0 .. k /\ k + 1 \in 0 .. Len(t) /\ k + 1 # 0 /\ k + 1 - 1 = k
  BY <1>1
<1>6. g[k + 1] = step[t[k + 1]][g[k]]
  <2>1. g = [n \in 0 .. Len(t) |-> IF n = 0 THEN base ELSE step[t[n]][g[n - 1]]]
    BY <1>3 DEF Runs
  <2>2. PICK j \in 0 .. Len(t) : j = k + 1 /\ j # 0 /\ j - 1 = k
    BY <1>5
  <2>3. g[j] = IF j = 0 THEN base ELSE step[t[j]][g[j - 1]]
    BY <2>1, Zenon
  <2> QED
    BY <2>2, <2>3
<1> QED
  BY <1>1, <1>2, <1>3, <1>4, <1>5, <1>6 DEF t, k

LEMMA ScanType ==
  ASSUME NEW A, NEW L, NEW step \in [L -> [A -> A]], NEW base \in A
  PROVE  \A s \in Seq(L) : Scan(step, base, s) \in A
<1>0. \A s \in Seq(L) : \A l \in L : Scan(step, base, Append(s, l)) = step[l][Scan(step, base, s)]
  BY ScanAppend
<1> DEFINE T == {s \in Seq(L) : Scan(step, base, s) \in A}
<1>1. <<>> \in T
  BY ScanEmpty
<1>2. ASSUME NEW s \in T, NEW l \in L
      PROVE  Append(s, l) \in T
  <2>1. Append(s, l) \in Seq(L)
    BY <1>2, AppendProperties
  <2>2. step[l][Scan(step, base, s)] \in A
    BY <2>1
  <2>0. s \in Seq(L)
    OBVIOUS
  <2>3. Scan(step, base, Append(s, l)) = step[l][Scan(step, base, s)]
    BY <1>0, <2>0
  <2> QED
    BY <2>1, <2>2, <2>3
<1> HIDE DEF T
<1>3. \A s \in Seq(L) : s \in T
  BY <1>1, <1>2, SeqInduction
<1> QED
  BY <1>3 DEF T

-----------------------------------------------------------------------------
(* What the loops over a hosts file compute *)

Stripped == [out : Seq(Line), inBlock : BOOLEAN]
Extracted == [ip : Line \cup {None}, inBlock : BOOLEAN, over : BOOLEAN]

LEMMA StripLineType == StripLine \in [Line -> [Stripped -> Stripped]]
<1>1. ASSUME NEW l \in Line
      PROVE  [acc \in Stripped |->
                CASE l = Begin -> [acc EXCEPT !.inBlock = TRUE]
                  [] l = End -> [acc EXCEPT !.inBlock = FALSE]
                  [] OTHER -> IF acc.inBlock THEN acc ELSE [acc EXCEPT !.out = Append(@, l)]]
               \in [Stripped -> Stripped]
  <2>1. ASSUME NEW acc \in Stripped
        PROVE  /\ [acc EXCEPT !.inBlock = TRUE] \in Stripped
               /\ [acc EXCEPT !.inBlock = FALSE] \in Stripped
               /\ [acc EXCEPT !.out = Append(@, l)] \in Stripped
    <3>1. Append(acc.out, l) \in Seq(Line)
      BY AppendProperties DEF Stripped
    <3> QED
      BY <3>1 DEF Stripped
  <2> QED
    BY <2>1
<1> QED
  BY <1>1 DEF StripLine, Stripped

LEMMA ExtractLineType == ExtractLine \in [Line -> [Extracted -> Extracted]]
<1>1. ASSUME NEW l \in Line
      PROVE  [acc \in Extracted |->
                CASE acc.over -> acc
                  [] ~acc.over /\ l = Begin -> [acc EXCEPT !.inBlock = TRUE]
                  [] ~acc.over /\ l = End -> [acc EXCEPT !.over = TRUE]
                  [] OTHER -> IF acc.inBlock /\ l # Blank /\ acc.ip = None
                              THEN [acc EXCEPT !.ip = l] ELSE acc]
               \in [Extracted -> Extracted]
  <2>1. ASSUME NEW acc \in Extracted
        PROVE  /\ [acc EXCEPT !.inBlock = TRUE] \in Extracted
               /\ [acc EXCEPT !.over = TRUE] \in Extracted
               /\ [acc EXCEPT !.ip = l] \in Extracted
    BY DEF Extracted
  <2> QED
    BY <2>1
<1> QED
  BY <1>1 DEF ExtractLine, Extracted

LEMMA ForeignLineType == ForeignLine \in [Line -> [Seq(Line) -> Seq(Line)]]
<1>1. \A l \in Line : \A acc \in Seq(Line) : Append(acc, l) \in Seq(Line)
  BY AppendProperties
<1> QED
  BY <1>1 DEF ForeignLine

LEMMA LoopTypes ==
  /\ \A s \in Seq(Line) : Strip(s) \in Stripped
  /\ \A s \in Seq(Line) : Extract(s) \in Extracted
  /\ \A s \in Seq(Line) : ForeignLines(s) \in Seq(Line)
<1>1. [out |-> <<>>, inBlock |-> FALSE] \in Stripped
  BY DEF Stripped
<1>2. [ip |-> None, inBlock |-> FALSE, over |-> FALSE] \in Extracted
  BY DEF Extracted
<1>3. <<>> \in Seq(Line)
  OBVIOUS
<1>4. \A s \in Seq(Line) : Strip(s) \in Stripped
  BY <1>1, StripLineType, ScanType DEF Strip
<1>5. \A s \in Seq(Line) : Extract(s) \in Extracted
  BY <1>2, ExtractLineType, ScanType DEF Extract
<1>6. \A s \in Seq(Line) : ForeignLines(s) \in Seq(Line)
  BY <1>3, ForeignLineType, ScanType DEF ForeignLines
<1> QED
  BY <1>4, <1>5, <1>6

LEMMA LoopStart ==
  /\ Strip(<<>>).out = <<>> /\ ~Strip(<<>>).inBlock
  /\ Extract(<<>>).ip = None /\ ~Extract(<<>>).inBlock /\ ~Extract(<<>>).over
  /\ ForeignLines(<<>>) = <<>>
BY ScanEmpty DEF Strip, Extract, ForeignLines

(* One line more, by what line it is. *)
LEMMA StripStep ==
  ASSUME NEW s \in Seq(Line), NEW l \in Line
  PROVE  /\ l = Begin => Strip(Append(s, l)).inBlock
         /\ l = End => ~Strip(Append(s, l)).inBlock
         /\ l \in {Begin, End} \/ Strip(s).inBlock => Strip(Append(s, l)).out = Strip(s).out
         /\ l \notin {Begin, End} /\ Strip(s).inBlock => Strip(Append(s, l)).inBlock
         /\ l \notin {Begin, End} /\ ~Strip(s).inBlock =>
              /\ ~Strip(Append(s, l)).inBlock
              /\ Strip(Append(s, l)).out = Append(Strip(s).out, l)
<1> DEFINE a == Strip(s)
           b == Strip(Append(s, l))
<1>1. b = StripLine[l][a]
  BY ScanAppend DEF Strip
<1>2. a \in Stripped
  BY LoopTypes
<1>3. Begin # End
  BY HostAssumption
<1> HIDE DEF a, b
<1>4. b = CASE l = Begin -> [a EXCEPT !.inBlock = TRUE]
            [] l = End -> [a EXCEPT !.inBlock = FALSE]
            [] OTHER -> IF a.inBlock THEN a ELSE [a EXCEPT !.out = Append(@, l)]
  BY <1>1, <1>2 DEF StripLine, Stripped
<1> QED
  <2>1. CASE l = Begin
    <3>1. b = [a EXCEPT !.inBlock = TRUE]
      BY <1>3, <1>4, <2>1
    <3>2. b.inBlock /\ b.out = a.out
      BY <1>2, <3>1 DEF Stripped
    <3> QED
      BY <1>3, <2>1, <3>2 DEF a, b
  <2>2. CASE l = End
    <3>1. b = [a EXCEPT !.inBlock = FALSE]
      BY <1>3, <1>4, <2>2
    <3>2. ~b.inBlock /\ b.out = a.out
      BY <1>2, <3>1 DEF Stripped
    <3> QED
      BY <1>3, <2>2, <3>2 DEF a, b
  <2>3. CASE l \notin {Begin, End} /\ a.inBlock
    <3>1. b = a
      BY <1>4, <2>3
    <3> QED
      BY <2>3, <3>1 DEF a, b
  <2>4. CASE l \notin {Begin, End} /\ ~a.inBlock
    <3>1. b = [a EXCEPT !.out = Append(@, l)]
      BY <1>4, <2>4
    <3>2. ~b.inBlock /\ b.out = Append(a.out, l)
      BY <1>2, <2>4, <3>1 DEF Stripped
    <3> QED
      BY <2>4, <3>2 DEF a, b
  <2> QED
    BY <2>1, <2>2, <2>3, <2>4

LEMMA ExtractStep ==
  ASSUME NEW s \in Seq(Line), NEW l \in Line
  PROVE  /\ Extract(s).over \/ (l \notin {Begin, End} /\ ~Extract(s).inBlock)
              \/ l = Blank \/ (l \notin {Begin, End} /\ Extract(s).ip # None)
              => Extract(Append(s, l)) = Extract(s)
         /\ ~Extract(s).over /\ l = Begin =>
              /\ Extract(Append(s, l)).inBlock /\ ~Extract(Append(s, l)).over
              /\ Extract(Append(s, l)).ip = Extract(s).ip
         /\ ~Extract(s).over /\ l = End =>
              Extract(Append(s, l)).over /\ Extract(Append(s, l)).ip = Extract(s).ip
         /\ ~Extract(s).over /\ l \notin {Begin, End, Blank} /\ Extract(s).inBlock
              /\ Extract(s).ip = None =>
              /\ Extract(Append(s, l)).ip = l
              /\ Extract(Append(s, l)).inBlock /\ ~Extract(Append(s, l)).over
<1> DEFINE a == Extract(s)
           b == Extract(Append(s, l))
<1>1. b = ExtractLine[l][a]
  BY ScanAppend DEF Extract
<1>2. a \in Extracted
  BY LoopTypes
<1>3. Begin # End /\ Begin # Blank /\ End # Blank
  BY HostAssumption
<1> HIDE DEF a, b
<1>4. b = CASE a.over -> a
            [] ~a.over /\ l = Begin -> [a EXCEPT !.inBlock = TRUE]
            [] ~a.over /\ l = End -> [a EXCEPT !.over = TRUE]
            [] OTHER -> IF a.inBlock /\ l # Blank /\ a.ip = None THEN [a EXCEPT !.ip = l] ELSE a
  BY <1>1, <1>2 DEF ExtractLine, Extracted
<1>5. a.over => b = a
  BY <1>4
<1>6. ~a.over /\ l = Begin => b = [a EXCEPT !.inBlock = TRUE]
  BY <1>3, <1>4
<1>7. ~a.over /\ l = End => b = [a EXCEPT !.over = TRUE]
  BY <1>3, <1>4
<1>8. ~a.over /\ l \notin {Begin, End} =>
        b = IF a.inBlock /\ l # Blank /\ a.ip = None THEN [a EXCEPT !.ip = l] ELSE a
  BY <1>4
<1>9. a.over \/ (l \notin {Begin, End} /\ ~a.inBlock) \/ l = Blank
        \/ (l \notin {Begin, End} /\ a.ip # None) => b = a
  BY <1>3, <1>5, <1>8
<1>10. ~a.over /\ l = Begin => b.inBlock /\ ~b.over /\ b.ip = a.ip
  BY <1>2, <1>6 DEF Extracted
<1>11. ~a.over /\ l = End => b.over /\ b.ip = a.ip
  BY <1>2, <1>7 DEF Extracted
<1>12. ~a.over /\ l \notin {Begin, End, Blank} /\ a.inBlock /\ a.ip = None =>
         b.ip = l /\ b.inBlock /\ ~b.over
  BY <1>2, <1>8 DEF Extracted
<1> QED
  BY <1>9, <1>10, <1>11, <1>12 DEF a, b

LEMMA ForeignStep ==
  ASSUME NEW s \in Seq(Line), NEW l \in Line
  PROVE  ForeignLines(Append(s, l)) =
           IF l \in Foreign THEN Append(ForeignLines(s), l) ELSE ForeignLines(s)
<1>1. ForeignLines(Append(s, l)) = ForeignLine[l][ForeignLines(s)]
  BY ScanAppend DEF ForeignLines
<1>2. ForeignLines(s) \in Seq(Line)
  BY LoopTypes
<1> QED
  BY <1>1, <1>2 DEF ForeignLine

Outside == Foreign \cup {Blank}

LEMMA OutsideLines ==
  /\ Outside \subseteq Line /\ Begin \notin Outside /\ End \notin Outside
  /\ Begin \in Line /\ End \in Line /\ Blank \in Line /\ IPs \subseteq Line
  /\ Outside \cap IPs = {} /\ Blank \notin Foreign /\ Begin \notin IPs /\ End \notin IPs
  /\ Blank \notin IPs /\ Begin # End /\ Blank # Begin /\ Blank # End
BY HostAssumption DEF Outside, Line

LEMMA SubLines == \A s : s \in Seq(Outside) => s \in Seq(Line)
<1>1. ASSUME NEW s \in Seq(Outside) PROVE s \in Seq(Line)
  <2>1. Len(s) \in Nat /\ s \in [1 .. Len(s) -> Outside]
    BY LenProperties
  <2>2. s \in [1 .. Len(s) -> Line]
    BY <2>1, OutsideLines
  <2> QED
    BY <2>1, <2>2, SeqDef
<1> QED
  BY <1>1

(* What the reader of the redirect takes for an open block is one for the writer. *)
LEMMA InsideBoth ==
  \A s \in Seq(Line) : Extract(s).inBlock /\ ~Extract(s).over => Strip(s).inBlock
<1> DEFINE T == {s \in Seq(Line) : Extract(s).inBlock /\ ~Extract(s).over => Strip(s).inBlock}
<1>1. <<>> \in T
  BY LoopStart
<1>2. ASSUME NEW s \in T, NEW l \in Line
      PROVE  Append(s, l) \in T
  <2>1. s \in Seq(Line) /\ Append(s, l) \in Seq(Line)
    BY AppendProperties
  <2>2. Extract(s).inBlock /\ ~Extract(s).over => Strip(s).inBlock
    OBVIOUS
  <2> SUFFICES ASSUME Extract(Append(s, l)).inBlock, ~Extract(Append(s, l)).over
               PROVE  Strip(Append(s, l)).inBlock
    BY <2>1
  <2>3. ~Extract(s).over /\ l # End
    BY <2>1, ExtractStep
  <2>4. CASE l = Begin
    BY <2>1, <2>4, StripStep
  <2>5. CASE l # Begin
    <3>1. Extract(s).inBlock
      BY <2>1, <2>3, <2>5, ExtractStep
    <3> QED
      BY <2>1, <2>2, <2>3, <2>5, <3>1, StripStep
  <2> QED
    BY <2>4, <2>5
<1> HIDE DEF T
<1>3. \A s \in Seq(Line) : s \in T
  BY <1>1, <1>2, SeqInduction
<1> QED
  BY <1>3 DEF T

(* A foreign or empty line after a file with no open block. *)
LEMMA OutsideStep ==
  ASSUME NEW s \in Seq(Line), ~Strip(s).inBlock, NEW l \in Outside
  PROVE  /\ Append(s, l) \in Seq(Line)
         /\ StripBlock(Append(s, l)) = Append(StripBlock(s), l)
         /\ ~Strip(Append(s, l)).inBlock
         /\ Extract(Append(s, l)) = Extract(s)
<1>1. l \in Line /\ l \notin {Begin, End}
  BY OutsideLines
<1>2. Append(s, l) \in Seq(Line)
  BY <1>1, AppendProperties
<1>3. Extract(s).over \/ ~Extract(s).inBlock
  BY InsideBoth
<1>4. Extract(Append(s, l)) = Extract(s)
  BY <1>1, <1>3, ExtractStep
<1> QED
  BY <1>1, <1>2, <1>4, StripStep DEF StripBlock

LEMMA OutsideText ==
  \A t \in Seq(Outside) :
    /\ StripBlock(t) = t /\ ~Strip(t).inBlock
    /\ Extract(t).ip = None /\ ~Extract(t).inBlock /\ ~Extract(t).over
<1> DEFINE T == {t \in Seq(Outside) :
                   /\ StripBlock(t) = t /\ ~Strip(t).inBlock
                   /\ Extract(t).ip = None /\ ~Extract(t).inBlock /\ ~Extract(t).over}
<1>1. <<>> \in T
  BY LoopStart DEF StripBlock
<1>2. ASSUME NEW s \in T, NEW l \in Outside
      PROVE  Append(s, l) \in T
  <2>1. s \in Seq(Line) /\ Append(s, l) \in Seq(Outside)
    BY SubLines, AppendProperties
  <2>2. /\ StripBlock(Append(s, l)) = Append(StripBlock(s), l)
        /\ ~Strip(Append(s, l)).inBlock
        /\ Extract(Append(s, l)) = Extract(s)
    BY <2>1, OutsideStep
  <2> QED
    BY <2>1, <2>2
<1> HIDE DEF T
<1>3. \A s \in Seq(Outside) : s \in T
  BY <1>1, <1>2, SeqInduction
<1> QED
  BY <1>3 DEF T

(* Removing the empty lines at the end loses no foreign line. *)
LEMMA TrimmedKeeps ==
  ASSUME NEW t \in Seq(Outside)
  PROVE  /\ Trimmed(t) \in Seq(Outside) /\ Trimmed(t) # <<>>
         /\ ForeignLines(Trimmed(t)) = ForeignLines(t)
<1> DEFINE Cut(s, n) == SubSeq(s, 1, n)
           T == {s \in Seq(Outside) : \A n \in 0 .. Len(s) :
                   (\A i \in n + 1 .. Len(s) : s[i] = Blank)
                     => ForeignLines(SubSeq(s, 1, n)) = ForeignLines(s)}
<1>1. <<>> \in T
  <2>1. ASSUME NEW n \in 0 .. Len(<<>>) PROVE SubSeq(<<>>, 1, n) = <<>>
    <3>1. n = 0
      OBVIOUS
    <3> QED
      BY <3>1
  <2>2. <<>> \in Seq(Outside)
    OBVIOUS
  <2> QED
    BY <2>1, <2>2
<1>2. ASSUME NEW s \in T, NEW l \in Outside
      PROVE  Append(s, l) \in T
  <2> DEFINE k == Len(s)
             a == Append(s, l)
  <2>1. /\ k \in Nat /\ a \in Seq(Outside) /\ Len(a) = k + 1 /\ a[k + 1] = l
        /\ \A i \in 1 .. k : a[i] = s[i]
        /\ s \in Seq(Outside)
    BY AppendProperties
  <2>2. s \in Seq(Line) /\ l \in Line
    BY <2>1, SubLines, OutsideLines
  <2> HIDE DEF k, a
  <2>3. ASSUME NEW n \in 0 .. k + 1, \A i \in n + 1 .. k + 1 : a[i] = Blank
        PROVE  ForeignLines(SubSeq(a, 1, n)) = ForeignLines(a)
    <3>1. CASE n = k + 1
      <4>1. SubSeq(a, 1, k + 1) = a
        BY <2>1, SubSeqFull
      <4> QED
        BY <3>1, <4>1
    <3>2. CASE n \in 0 .. k
      <4>1. k + 1 \in n + 1 .. k + 1 /\ n =< k
        BY <2>1, <3>2
      <4>2. l = Blank
        BY <2>1, <2>3, <4>1
      <4>3. ForeignLines(a) = ForeignLines(s)
        BY <2>2, <4>2, ForeignStep, OutsideLines DEF a
      <4>4. \A i \in n + 1 .. k : i \in n + 1 .. k + 1 /\ i \in 1 .. k
        BY <2>1, <3>2
      <4>5. \A i \in n + 1 .. k : s[i] = Blank
        BY <2>1, <2>3, <4>4
      <4>6. ForeignLines(SubSeq(s, 1, n)) = ForeignLines(s)
        BY <3>2, <4>5 DEF k
      <4>7. SubSeq(a, 1, n) = SubSeq(s, 1, n)
        <5>1. \A i \in 1 .. n : i \in 1 .. k /\ i \in Nat
          BY <2>1, <3>2
        <5>2. \A i \in 1 .. n : a[i] = s[i]
          BY <2>1, <5>1
        <5>3. n \in Nat /\ n =< Len(a) /\ n =< Len(s)
          BY <2>1, <3>2 DEF k
        <5>4. SubSeq(a, 1, n) = [i \in 1 .. n |-> a[i]]
          BY <2>1, <5>3
        <5>5. SubSeq(s, 1, n) = [i \in 1 .. n |-> s[i]]
          BY <2>1, <5>3
        <5> QED
          BY <5>2, <5>4, <5>5
      <4> QED
        BY <4>3, <4>6, <4>7
    <3> QED
      BY <2>1, <3>1, <3>2
  <2> QED
    BY <2>1, <2>3 DEF a
<1>3. t \in T
  <2> HIDE DEF T
  <2>1. \A s \in Seq(Outside) : s \in T
    BY <1>1, <1>2, SeqInduction
  <2> QED
    BY <2>1
<1> DEFINE full == {i \in DOMAIN t : t[i] # Blank}
<1>4. Len(t) \in Nat /\ DOMAIN t = 1 .. Len(t)
  OBVIOUS
<1>5. CASE full = {}
  <2>1. Trimmed(t) = <<Blank>>
    BY <1>5 DEF Trimmed
  <2>2. <<Blank>> \in Seq(Outside) /\ <<Blank>> # <<>>
    BY DEF Outside
  <2>3. ForeignLines(<<Blank>>) = <<>>
    <3>1. <<Blank>> = Append(<<>>, Blank)
      OBVIOUS
    <3>2. ForeignLines(Append(<<>>, Blank)) = ForeignLines(<<>>)
      <4>1. <<>> \in Seq(Line) /\ Blank \in Line /\ Blank \notin Foreign
        BY OutsideLines
      <4> QED
        BY <4>1, ForeignStep
    <3> QED
      BY <3>1, <3>2, LoopStart
  <2>4. ForeignLines(t) = <<>>
    <3>1. \A i \in 0 + 1 .. Len(t) : t[i] = Blank
      BY <1>4, <1>5
    <3>2. 0 \in 0 .. Len(t)
      BY <1>4
    <3>3. ForeignLines(SubSeq(t, 1, 0)) = ForeignLines(t)
      BY <1>3, <3>1, <3>2
    <3>4. SubSeq(t, 1, 0) = <<>>
      OBVIOUS
    <3> QED
      BY <3>3, <3>4, LoopStart
  <2> QED
    BY <2>1, <2>2, <2>3, <2>4
<1>6. CASE full # {}
  <2> DEFINE N == {j \in Nat : \E i \in full : i + j = Len(t)}
  <2>1. N # {}
    <3>1. PICK i \in full : TRUE
      BY <1>6
    <3>2. i \in Nat /\ i =< Len(t)
      BY <1>4
    <3>3. Len(t) - i \in Nat /\ i + (Len(t) - i) = Len(t)
      BY <1>4, <3>2
    <3> QED
      BY <3>3
  <2>2. PICK j \in N : \A m \in N : j =< m
    BY <2>1, LeastNat
  <2>3. PICK i \in full : i + j = Len(t)
    OBVIOUS
  <2>4. \A h \in full : h =< i
    <3> SUFFICES ASSUME NEW h \in full, h > i PROVE FALSE
      BY <1>4
    <3>1. Len(t) - h \in Nat /\ h + (Len(t) - h) = Len(t) /\ ~(j =< Len(t) - h)
      BY <1>4, <2>3
    <3>2. Len(t) - h \in N
      BY <3>1
    <3> QED
      BY <2>2, <3>1, <3>2
  <2> DEFINE n == CHOOSE x \in full : \A y \in full : y =< x
  <2>5. n \in full /\ \A y \in full : y =< n
    BY <2>4
  <2>6. Trimmed(t) = SubSeq(t, 1, n)
    BY <1>6 DEF Trimmed
  <2> HIDE DEF n
  <2>7. n \in 1 .. Len(t) /\ n \in 0 .. Len(t)
    BY <1>4, <2>5
  <2>8. \A h \in n + 1 .. Len(t) : t[h] = Blank
    <3> SUFFICES ASSUME NEW h \in n + 1 .. Len(t), t[h] # Blank PROVE FALSE
      OBVIOUS
    <3>1. h \in DOMAIN t /\ ~(h =< n)
      BY <1>4, <2>7
    <3> QED
      BY <2>5, <3>1
  <2>9. ForeignLines(SubSeq(t, 1, n)) = ForeignLines(t)
    BY <1>3, <2>7, <2>8
  <2>10. SubSeq(t, 1, n) \in Seq(Outside) /\ SubSeq(t, 1, n) # <<>>
    <3>1. 1 \in Nat \ {0} /\ n \in Nat /\ n =< Len(t)
      BY <1>4, <2>7
    <3>2. SubSeq(t, 1, n) \in Seq(Outside) /\ Len(SubSeq(t, 1, n)) = n
      BY <3>1, <2>7
    <3> QED
      BY <2>7, <3>2
  <2> QED
    BY <2>6, <2>9, <2>10
<1> QED
  BY <1>5, <1>6

LEMMA FourLines ==
  ASSUME NEW t \in Seq(Line), NEW a \in Line, NEW b \in Line, NEW c \in Line, NEW d \in Line
  PROVE  t \o <<a, b, c, d>> = Append(Append(Append(Append(t, a), b), c), d)
OBVIOUS

LEMMA TwoLines ==
  ASSUME NEW t \in Seq(Line), NEW a \in Line, NEW b \in Line
  PROVE  t \o <<a, b>> = Append(Append(t, a), b)
OBVIOUS

(* An address of an appended text. *)
LEMMA AddressAppended ==
  ASSUME NEW s \in Seq(Line), NEW l \in Line, NEW x,
         \A i \in DOMAIN s : s[i] \in IPs => s[i] = x,
         l \in IPs => l = x
  PROVE  \A i \in DOMAIN Append(s, l) : Append(s, l)[i] \in IPs => Append(s, l)[i] = x
<1> DEFINE k == Len(s)
           a == Append(s, l)
<1>1. /\ k \in Nat /\ a \in Seq(Line) /\ Len(a) = k + 1 /\ a[k + 1] = l
      /\ \A i \in 1 .. k : a[i] = s[i]
      /\ DOMAIN s = 1 .. k
  BY AppendProperties
<1> HIDE DEF k, a
<1>2. DOMAIN a = 1 .. k + 1
  BY <1>1
<1>3. ASSUME NEW i \in 1 .. k + 1, a[i] \in IPs PROVE a[i] = x
  <2>1. i \in 1 .. k \/ i = k + 1
    BY <1>1
  <2> QED
    BY <1>1, <1>3, <2>1
<1> QED
  BY <1>2, <1>3 DEF a

LEMMA OutsideAddresses ==
  \A t \in Seq(Outside) : \A x : \A i \in DOMAIN t : t[i] \in IPs => t[i] = x
<1>1. \A t \in Seq(Outside) : \A i \in DOMAIN t : t[i] \in Outside
  OBVIOUS
<1> QED
  BY <1>1, OutsideLines

(* hosts.Disable leaves no block, hosts.Enable exactly one. *)
LEMMA DisabledTidy ==
  ASSUME NEW s, Tidy(s)
  PROVE  /\ Tidy(Disabled(s)) /\ Addressed(Disabled(s), None)
         /\ ForeignLines(Disabled(s)) = ForeignLines(s)
<1> DEFINE t == Trimmed(StripBlock(s))
           d == Append(t, Blank)
<1>1. t \in Seq(Outside) /\ ForeignLines(t) = ForeignLines(s)
  BY TrimmedKeeps DEF Tidy, Outside
<1> HIDE DEF t
<1>2. t \in Seq(Line) /\ d \in Seq(Outside) /\ d \in Seq(Line) /\ d # <<>>
  <2>1. Blank \in Outside /\ Blank \in Line
    BY OutsideLines DEF Outside
  <2>2. t \in Seq(Line) /\ d \in Seq(Outside) /\ d # <<>>
    BY <1>1, <2>1, SubLines, AppendProperties
  <2> QED
    BY <2>2, SubLines
<1>3. ForeignLines(d) = ForeignLines(t)
  BY <1>2, ForeignStep, OutsideLines
<1> HIDE DEF d
<1>4. /\ StripBlock(d) = d /\ ~Strip(d).inBlock /\ Extract(d).ip = None
  BY <1>2, OutsideText
<1>5. Tidy(d)
  BY <1>2, <1>4 DEF Tidy, RedirectIP, Outside
<1>6. Addressed(d, None)
  BY <1>2, <1>4, OutsideAddresses DEF Addressed, RedirectIP
<1> QED
  BY <1>1, <1>3, <1>5, <1>6 DEF Disabled, d, t

LEMMA EnabledTidy ==
  ASSUME NEW s, Tidy(s), NEW ip \in IPs
  PROVE  /\ Tidy(Enabled(s, ip)) /\ Addressed(Enabled(s, ip), ip)
         /\ ForeignLines(Enabled(s, ip)) = ForeignLines(s)
<1> DEFINE t == Trimmed(StripBlock(s))
           t1 == Append(t, Begin)
           t2 == Append(t1, ip)
           t3 == Append(t2, End)
           t4 == Append(t3, Blank)
<1>1. t \in Seq(Outside) /\ ForeignLines(t) = ForeignLines(s)
  BY TrimmedKeeps DEF Tidy, Outside
<1> HIDE DEF t
<1>2. /\ Begin \in Line /\ End \in Line /\ Blank \in Line /\ ip \in Line
      /\ ip \notin {Begin, End, Blank} /\ Begin \notin Foreign /\ End \notin Foreign
      /\ Blank \notin Foreign /\ ip \notin Foreign /\ Begin # End
      /\ Blank \notin {Begin, End} /\ Begin \notin IPs /\ End \notin IPs /\ Blank \notin IPs
      /\ Blank \in Outside
  BY OutsideLines DEF Outside
<1>3. t \in Seq(Line)
  BY <1>1, SubLines
<1>4. Enabled(s, ip) = t4
  BY <1>2, <1>3, FourLines DEF Enabled, t
<1>5. t1 \in Seq(Line)
  BY <1>2, <1>3, AppendProperties
<1>6. /\ Strip(t1).inBlock /\ Strip(t1).out = t
      /\ Extract(t1).inBlock /\ ~Extract(t1).over /\ Extract(t1).ip = None
      /\ ForeignLines(t1) = ForeignLines(t)
      /\ \A i \in DOMAIN t1 : t1[i] \in IPs => t1[i] = ip
  <2>1. /\ Strip(t).out = t /\ ~Strip(t).inBlock
        /\ Extract(t).ip = None /\ ~Extract(t).inBlock /\ ~Extract(t).over
    BY <1>1, OutsideText DEF StripBlock
  <2>2. Strip(t1).inBlock /\ Strip(t1).out = t
    BY <1>2, <1>3, <2>1, StripStep
  <2>3. Extract(t1).inBlock /\ ~Extract(t1).over /\ Extract(t1).ip = None
    BY <1>2, <1>3, <2>1, ExtractStep
  <2>4. ForeignLines(t1) = ForeignLines(t)
    BY <1>2, <1>3, ForeignStep
  <2>5. \A i \in DOMAIN t1 : t1[i] \in IPs => t1[i] = ip
    BY <1>1, <1>2, <1>3, OutsideAddresses, AddressAppended
  <2> QED
    BY <2>2, <2>3, <2>4, <2>5
<1> HIDE DEF t1
<1>7. t2 \in Seq(Line)
  BY <1>2, <1>5, AppendProperties
<1>8. /\ Strip(t2).inBlock /\ Strip(t2).out = t
      /\ Extract(t2).inBlock /\ ~Extract(t2).over /\ Extract(t2).ip = ip
      /\ ForeignLines(t2) = ForeignLines(t)
      /\ \A i \in DOMAIN t2 : t2[i] \in IPs => t2[i] = ip
  <2>2. Strip(t2).inBlock /\ Strip(t2).out = t
    BY <1>2, <1>5, <1>6, StripStep
  <2>3. Extract(t2).inBlock /\ ~Extract(t2).over /\ Extract(t2).ip = ip
    BY <1>2, <1>5, <1>6, ExtractStep
  <2>4. ForeignLines(t2) = ForeignLines(t)
    BY <1>2, <1>5, <1>6, ForeignStep
  <2>5. \A i \in DOMAIN t2 : t2[i] \in IPs => t2[i] = ip
    BY <1>2, <1>5, <1>6, AddressAppended
  <2> QED
    BY <2>2, <2>3, <2>4, <2>5
<1> HIDE DEF t2
<1>9. t3 \in Seq(Line)
  BY <1>2, <1>7, AppendProperties
<1>10. /\ ~Strip(t3).inBlock /\ Strip(t3).out = t
       /\ Extract(t3).ip = ip
       /\ ForeignLines(t3) = ForeignLines(t)
       /\ \A i \in DOMAIN t3 : t3[i] \in IPs => t3[i] = ip
  <2>2. ~Strip(t3).inBlock /\ Strip(t3).out = t
    BY <1>2, <1>7, <1>8, StripStep
  <2>3. Extract(t3).ip = ip
    BY <1>2, <1>7, <1>8, ExtractStep
  <2>4. ForeignLines(t3) = ForeignLines(t)
    BY <1>2, <1>7, <1>8, ForeignStep
  <2>5. \A i \in DOMAIN t3 : t3[i] \in IPs => t3[i] = ip
    BY <1>2, <1>7, <1>8, AddressAppended
  <2> QED
    BY <2>2, <2>3, <2>4, <2>5
<1> HIDE DEF t3
<1>11. t4 \in Seq(Line) /\ t4 # <<>>
  BY <1>2, <1>9, AppendProperties
<1>12. /\ ~Strip(t4).inBlock /\ StripBlock(t4) = Append(t, Blank)
       /\ RedirectIP(t4) = ip
       /\ ForeignLines(t4) = ForeignLines(t)
       /\ \A i \in DOMAIN t4 : t4[i] \in IPs => t4[i] = ip
  <2>1. /\ StripBlock(t4) = Append(StripBlock(t3), Blank)
        /\ ~Strip(t4).inBlock /\ Extract(t4) = Extract(t3)
    BY <1>2, <1>9, <1>10, OutsideStep
  <2>2. ForeignLines(t4) = ForeignLines(t)
    BY <1>2, <1>9, <1>10, ForeignStep
  <2>3. \A i \in DOMAIN t4 : t4[i] \in IPs => t4[i] = ip
    BY <1>2, <1>9, <1>10, AddressAppended
  <2> QED
    BY <1>10, <2>1, <2>2, <2>3 DEF StripBlock, RedirectIP
<1> HIDE DEF t4
<1>13. Append(t, Blank) \in Seq(Outside) /\ ForeignLines(Append(t, Blank)) = ForeignLines(t)
  BY <1>1, <1>2, <1>3, AppendProperties, ForeignStep
<1> QED
  BY <1>1, <1>4, <1>11, <1>12, <1>13 DEF Tidy, Addressed, Outside

(* The administrator's edit. *)
Edited(s, l) ==
  (IF s[Len(s)] = Blank THEN SubSeq(s, 1, Len(s) - 1) ELSE s) \o <<l, Blank>>

(* A tidy file, but for being empty. *)
Sound(s) ==
  /\ s \in Seq(Line) /\ ~Strip(s).inBlock /\ StripBlock(s) \in Seq(Outside)
  /\ ForeignLines(StripBlock(s)) = ForeignLines(s)
  /\ RedirectIP(s) \in IPs \cup {None}

Only(s, x) == \A i \in DOMAIN s : s[i] \in IPs => s[i] = x

LEMMA SoundStep ==
  ASSUME NEW s, Sound(s), NEW l \in Outside, NEW x
  PROVE  /\ Sound(Append(s, l)) /\ RedirectIP(Append(s, l)) = RedirectIP(s)
         /\ Only(s, x) => Only(Append(s, l), x)
<1>0. s \in Seq(Line) /\ l \in Line /\ StripBlock(s) \in Seq(Outside) /\ l \notin IPs
  BY OutsideLines DEF Sound
<1>1. /\ Append(s, l) \in Seq(Line)
      /\ StripBlock(Append(s, l)) = Append(StripBlock(s), l)
      /\ ~Strip(Append(s, l)).inBlock
      /\ Extract(Append(s, l)) = Extract(s)
  BY <1>0, OutsideStep DEF Sound
<1>2. Append(StripBlock(s), l) \in Seq(Outside)
  BY <1>0, AppendProperties
<1>3. StripBlock(s) \in Seq(Line)
  BY <1>0, SubLines
<1>4. ForeignLines(Append(StripBlock(s), l)) = ForeignLines(Append(s, l))
  BY <1>0, <1>3, ForeignStep DEF Sound
<1>5. Only(s, x) => Only(Append(s, l), x)
  BY <1>0, AddressAppended DEF Only
<1> QED
  BY <1>1, <1>2, <1>4, <1>5 DEF Sound, RedirectIP

LEMMA SoundBefore ==
  ASSUME NEW s \in Seq(Line), Sound(Append(s, Blank)), NEW x
  PROVE  /\ Sound(s) /\ RedirectIP(Append(s, Blank)) = RedirectIP(s)
         /\ ForeignLines(Append(s, Blank)) = ForeignLines(s)
         /\ Only(Append(s, Blank), x) => Only(s, x)
<1> DEFINE a == Append(s, Blank)
<1>0. Blank \in Line /\ Blank \notin {Begin, End} /\ Blank \notin Foreign
  BY OutsideLines
<1>1. Extract(a) = Extract(s)
  BY <1>0, ExtractStep
<1>2. ForeignLines(a) = ForeignLines(s)
  BY <1>0, ForeignStep
<1>3. ~Strip(s).inBlock /\ StripBlock(a) = Append(StripBlock(s), Blank)
  BY <1>0, StripStep DEF Sound, StripBlock
<1>4. StripBlock(s) \in Seq(Line)
  BY LoopTypes DEF Stripped, StripBlock
<1>5. StripBlock(s) \in Seq(Outside)
  <2> DEFINE o == StripBlock(s)
             b == StripBlock(a)
  <2>1. b \in Seq(Outside) /\ o \in Seq(Line) /\ b = Append(o, Blank)
    BY <1>3, <1>4 DEF Sound
  <2> HIDE DEF o, b
  <2>2. /\ Len(o) \in Nat /\ Len(b) = Len(o) + 1
        /\ \A i \in 1 .. Len(o) : b[i] = o[i]
    BY <2>1, AppendProperties
  <2>3. \A i \in 1 .. Len(o) : i \in 1 .. Len(b)
    BY <2>2
  <2>4. \A i \in 1 .. Len(b) : b[i] \in Outside
    BY <2>1
  <2>5. \A i \in 1 .. Len(o) : o[i] \in Outside
    BY <2>2, <2>3, <2>4
  <2>6. o \in [1 .. Len(o) -> Outside]
    BY <2>1, <2>5
  <2>7. o \in Seq(Outside)
    BY <2>2, <2>6, SeqDef
  <2> QED
    BY <2>7 DEF o
<1>6. ForeignLines(Append(StripBlock(s), Blank)) = ForeignLines(StripBlock(s))
  BY <1>0, <1>4, ForeignStep
<1>7. Only(a, x) => Only(s, x)
  <2>1. \A i \in DOMAIN s : i \in DOMAIN a /\ a[i] = s[i]
    BY <1>0, AppendProperties
  <2> HIDE DEF a
  <2> QED
    BY <2>1 DEF Only
<1> QED
  BY <1>1, <1>2, <1>3, <1>5, <1>6, <1>7 DEF Sound, RedirectIP

LEMMA EditedTidy ==
  ASSUME NEW s, Tidy(s), NEW l \in Foreign, NEW x
  PROVE  /\ Tidy(Edited(s, l))
         /\ Addressed(s, x) => Addressed(Edited(s, l), x)
         /\ ForeignLines(Edited(s, l)) = Append(ForeignLines(s), l)
<1> DEFINE body == IF s[Len(s)] = Blank THEN SubSeq(s, 1, Len(s) - 1) ELSE s
<1>1. Sound(s) /\ s \in Seq(Line) /\ s # <<>>
  BY DEF Tidy, Sound, Outside
<1>2. /\ Sound(body) /\ RedirectIP(body) = RedirectIP(s)
      /\ ForeignLines(body) = ForeignLines(s)
      /\ Only(s, x) => Only(body, x)
  <2>1. CASE s[Len(s)] # Blank
    BY <1>1, <2>1
  <2>2. CASE s[Len(s)] = Blank
    <3>1. PICK r \in Seq(Line), m \in Line : s = Append(r, m)
      BY <1>1, SequenceEmptyOrAppend
    <3>2. /\ Len(r) \in Nat /\ Len(s) = Len(r) + 1 /\ s[Len(r) + 1] = m
          /\ \A i \in 1 .. Len(r) : s[i] = r[i]
      BY <3>1, AppendProperties
    <3>3. m = Blank
      BY <2>2, <3>2
    <3>4. SubSeq(s, 1, Len(s) - 1) = r
      <4> DEFINE k == Len(r)
      <4>1. k \in Nat /\ Len(s) - 1 = k /\ k =< Len(s)
        BY <3>2
      <4>2. \A i \in 1 .. k : s[i] = r[i]
        BY <3>2
      <4>3. r = [i \in 1 .. k |-> r[i]]
        OBVIOUS
      <4> HIDE DEF k
      <4>4. SubSeq(s, 1, k) = [i \in 1 .. k |-> s[i]]
        BY <1>1, <4>1
      <4> QED
        BY <4>1, <4>2, <4>3, <4>4
    <3> HIDE DEF body
    <3>5. body = r
      BY <2>2, <3>4 DEF body
    <3>6. Sound(Append(r, Blank)) /\ r \in Seq(Line)
      BY <1>1, <3>1, <3>3
    <3>7. s = Append(r, Blank)
      BY <3>1, <3>3
    <3> QED
      BY <3>5, <3>6, <3>7, SoundBefore
  <2> QED
    BY <2>1, <2>2
<1> HIDE DEF body
<1>3. body \in Seq(Line) /\ l \in Line /\ Blank \in Line /\ l \in Outside /\ Blank \in Outside
      /\ Blank \notin Foreign
  BY <1>2, OutsideLines DEF Sound, Outside
<1>4. Edited(s, l) = Append(Append(body, l), Blank)
  BY <1>3, TwoLines DEF Edited, body
<1> DEFINE a == Append(body, l)
           e == Append(a, Blank)
<1>5. /\ Sound(a) /\ RedirectIP(a) = RedirectIP(s)
      /\ Only(s, x) => Only(a, x)
  BY <1>2, <1>3, SoundStep
<1>6. ForeignLines(a) = Append(ForeignLines(s), l)
  BY <1>2, <1>3, ForeignStep
<1> HIDE DEF a
<1>7. /\ Sound(e) /\ RedirectIP(e) = RedirectIP(s)
      /\ Only(s, x) => Only(e, x)
  BY <1>3, <1>5, SoundStep
<1>8. a \in Seq(Line)
  BY <1>5 DEF Sound
<1>9. ForeignLines(e) = Append(ForeignLines(s), l) /\ e # <<>>
  BY <1>3, <1>6, <1>8, ForeignStep, AppendProperties
<1> HIDE DEF e
<1> QED
  BY <1>4, <1>7, <1>9 DEF Sound, Tidy, Outside, Addressed, Only, a, e

-----------------------------------------------------------------------------
(* The inductive invariant *)

Dos == {"ca", "key", "order", "cert", "enable", "disable", "binary", "drop-cert",
        "drop-binary", "resolve", "adopt"}
AJob == [do : Dos, ip : IPs \cup {None}]
Contents == Seq(Line) \cup IPs \cup Versions \cup KeyIds \cup {None, Torn}
Rest == {"idle", "stopped"}
Hand == {"open", "write", "rename"}
JobsOf(J) == {J[i] : i \in DOMAIN J}

Use == [server : IPs \cup {None}, key : KeyIds \cup {None}]

(* Every variable is a function of its kind, and every file holds data of its. *)
ProcessKinds ==
  /\ pc \in [Processes -> Steps] /\ todo \in [Processes -> Seq(AJob)]
  /\ request \in [Processes -> Requests \cup {NoRequest}]
  /\ mem \in [Processes -> Contents] /\ using \in [Processes -> Use]
  /\ before \in [Processes -> [redirect : IPs \cup {None}, crt : IPs \cup {None, Torn}]]
  /\ alone \in [Processes -> BOOLEAN]
DiskKinds ==
  /\ content \in [Files -> Contents] /\ tmp \in [Files -> Contents]
  /\ trust \in IPs \cup {None} /\ redirect \in IPs \cup {None}
  /\ calls \in 0 .. MaxCalls /\ identities \subseteq KeyIds /\ spoilt \subseteq Files
FilesOK ==
  /\ content["hosts"] = Torn \/ Tidy(content["hosts"])
  /\ content["binary"] \in Versions \cup {None, Torn}
  /\ content["crt"] \in IPs \cup {None, Torn}
  /\ content["key"] \in KeyIds \cup {None, Torn}
  /\ tmp["hosts"] \in {None, Torn} \/ Tidy(tmp["hosts"])
  /\ tmp["binary"] \in Versions \cup {None, Torn}
  /\ tmp["crt"] = None /\ tmp["key"] = None

(* A list of jobs: the key comes right before the order, which needs it. *)
ListOK(J, key) ==
  /\ J \in Seq(AJob)
  /\ \A i \in DOMAIN J :
       /\ J[i].do = "disable" => J[i].ip = None
       /\ J[i].do = "key" => i + 1 \in DOMAIN J /\ J[i + 1].do = "order"
       /\ J[i].do = "order" => key \in KeyIds \/ (i - 1 \in DOMAIN J /\ J[i - 1].do = "key")

(* What is about to be written is what the job is about. *)
HandOK(h, r, m) ==
  /\ h.do \in {"enable", "disable", "binary", "cert", "key"}
  /\ h.do \in {"enable", "disable"} => Tidy(m) /\ Addressed(m, h.ip)
  /\ h.do \in {"enable", "cert"} => h.ip # None
  /\ h.do = "binary" => m = r.version
  /\ h.do = "cert" => m = h.ip
  /\ h.do = "key" => m \in KeyIds

ControlOK(st, r, J, m, u) ==
  /\ ListOK(J, u.key)
  /\ st \in Rest => J = <<>>
  /\ st \notin Rest => J # <<>> /\ r \in Requests
  /\ st \in Hand => HandOK(Head(J), r, m)
  /\ st = "rename" => Head(J).do \in {"enable", "disable", "binary"}
  /\ st = "refresh" => Head(J).do \in {"cert", "drop-cert"}
Controlled == \A p \in Processes : ControlOK(pc[p], request[p], todo[p], mem[p], using[p])

(* A file that is not spoilt is in one hand at most. *)
Unshared ==
  \A f \in Files \ spoilt : \A p, q \in Processes : InHand(p, f) /\ InHand(q, f) => p = q

AloneRests == \A p \in Processes : alone[p] => \A q \in Processes \ {p} : Resting(q)

(* A process that has a file to itself finds its own temporary file. *)
OwnTmp ==
  \A p \in Processes : \A f \in {"hosts", "binary"} :
    InHand(p, f) /\ (f \notin spoilt \/ alone[p]) =>
      /\ pc[p] = "write" => tmp[f] # None
      /\ pc[p] = "rename" => tmp[f] = mem[p]

HostsOK ==
  "hosts" \notin spoilt =>
    /\ Tidy(content["hosts"]) /\ ForeignLines(content["hosts"]) = foreign
    /\ Addressed(content["hosts"], redirect)
    /\ \A p \in Processes : InHand(p, "hosts") => ForeignLines(mem[p]) = foreign
BinaryOK == "binary" \notin spoilt => content["binary"] # Torn
KeyOK ==
  "key" \notin spoilt =>
    /\ \A p \in Processes : InHand(p, "key") => content["key"] \notin KeyIds
    /\ identities \subseteq {content["key"]}
    /\ \A p \in Processes : using[p].key \in {None, content["key"]}

IInv ==
  /\ ProcessKinds /\ DiskKinds /\ FilesOK /\ Controlled /\ Unshared /\ AloneRests /\ OwnTmp
  /\ HostsOK /\ BinaryOK /\ KeyOK

-----------------------------------------------------------------------------
(* Lists of jobs *)

LEMMA JobsOfTail ==
  ASSUME NEW J \in Seq(AJob), J # <<>>
  PROVE  /\ JobsOf(J) = {Head(J)} \cup JobsOf(Tail(J))
         /\ Head(J) \in AJob /\ Tail(J) \in Seq(AJob)
         /\ (Len(J) = 1) => Tail(J) = <<>>
         /\ (Len(J) # 1) => Tail(J) # <<>>
<1> DEFINE n == Len(J)
           T == Tail(J)
<1>1. n \in Nat /\ n # 0 /\ J \in [1 .. n -> AJob] /\ 1 \in 1 .. n
  <2>1. n \in Nat /\ n # 0 /\ J \in [1 .. n -> AJob]
    BY LenProperties, EmptySeq
  <2> QED
    BY <2>1
<1>2. /\ T \in Seq(AJob) /\ Len(T) = n - 1 /\ DOMAIN T = 1 .. n - 1
      /\ \A i \in 1 .. n - 1 : T[i] = J[i + 1]
  BY <1>1, HeadTailProperties
<1>3. Head(J) = J[1] /\ Head(J) \in AJob
  BY <1>1
<1> HIDE DEF n, T
<1>4. DOMAIN J = 1 .. n
  BY <1>1
<1>5. ASSUME NEW j \in JobsOf(J) PROVE j \in {Head(J)} \cup JobsOf(T)
  <2>1. PICK i \in 1 .. n : j = J[i]
    BY <1>4 DEF JobsOf
  <2>2. i = 1 \/ (i - 1 \in 1 .. n - 1 /\ i - 1 + 1 = i)
    BY <1>1
  <2>3. CASE i = 1
    BY <1>3, <2>1, <2>3
  <2>4. CASE i - 1 \in 1 .. n - 1 /\ i - 1 + 1 = i
    <3>1. T[i - 1] = J[i]
      BY <1>2, <2>4
    <3> QED
      BY <1>2, <2>1, <2>4, <3>1 DEF JobsOf
  <2> QED
    BY <2>2, <2>3, <2>4
<1>6. ASSUME NEW j \in {Head(J)} \cup JobsOf(T) PROVE j \in JobsOf(J)
  <2>1. CASE j = Head(J)
    BY <1>1, <1>3, <1>4, <2>1 DEF JobsOf
  <2>2. CASE j \in JobsOf(T)
    <3>1. PICK i \in 1 .. n - 1 : j = T[i]
      BY <1>2, <2>2 DEF JobsOf
    <3>2. i + 1 \in 1 .. n /\ j = J[i + 1]
      BY <1>1, <1>2, <3>1
    <3> QED
      BY <1>4, <3>2 DEF JobsOf
  <2> QED
    BY <2>1, <2>2
<1>7. n = 1 => T = <<>>
  BY <1>1, <1>2, EmptySeq
<1>8. n # 1 => T # <<>>
  <2>1. n # 1 => n - 1 # 0
    BY <1>1
  <2>2. T = <<>> => Len(T) = 0
    OBVIOUS
  <2> QED
    BY <1>2, <2>1, <2>2
<1> QED
  BY <1>2, <1>3, <1>5, <1>6, <1>7, <1>8 DEF n, T

LEMMA TailOK ==
  ASSUME NEW J, NEW k, NEW k2, ListOK(J, k), J # <<>>,
         k \in KeyIds => k2 \in KeyIds, Head(J).do = "key" => k2 \in KeyIds
  PROVE  /\ ListOK(Tail(J), k2)
         /\ Head(J).do = "key" => Tail(J) # <<>>
         /\ Head(J).do = "order" => k \in KeyIds
<1> DEFINE n == Len(J)
           T == Tail(J)
<1>0. J \in Seq(AJob)
  BY DEF ListOK
<1>1. n \in Nat /\ n # 0 /\ 1 \in 1 .. n /\ DOMAIN J = 1 .. n
  <2>1. n \in Nat /\ n # 0 /\ DOMAIN J = 1 .. n
    BY <1>0, LenProperties, EmptySeq
  <2> QED
    BY <2>1
<1>2. /\ T \in Seq(AJob) /\ DOMAIN T = 1 .. n - 1
      /\ \A i \in 1 .. n - 1 : T[i] = J[i + 1]
  BY <1>0, <1>1, HeadTailProperties
<1>3. Head(J) = J[1]
  BY <1>0, <1>1
<1>4. T = <<>> => n - 1 = 0
  <2>1. Len(T) = n - 1
    BY <1>0, <1>1, HeadTailProperties
  <2> HIDE DEF T, n
  <2>2. T = <<>> => Len(T) = 0
    OBVIOUS
  <2> QED
    BY <2>1, <2>2
<1> HIDE DEF n, T
<1>5. \A i \in 1 .. n :
       /\ J[i].do = "disable" => J[i].ip = None
       /\ J[i].do = "key" => i + 1 \in 1 .. n /\ J[i + 1].do = "order"
       /\ J[i].do = "order" => k \in KeyIds \/ (i - 1 \in 1 .. n /\ J[i - 1].do = "key")
  BY <1>1 DEF ListOK
<1>6. ASSUME NEW i \in 1 .. n - 1
      PROVE  /\ T[i].do = "disable" => T[i].ip = None
             /\ T[i].do = "key" => i + 1 \in 1 .. n - 1 /\ T[i + 1].do = "order"
             /\ T[i].do = "order" => k2 \in KeyIds \/ (i - 1 \in 1 .. n - 1 /\ T[i - 1].do = "key")
  <2> DEFINE h == i + 1
  <2>1. h \in 1 .. n /\ T[i] = J[h] /\ h - 1 = i /\ i \in 1 .. n
    BY <1>1, <1>2
  <2>2. J[h].do = "key" => h + 1 \in 1 .. n /\ J[h + 1].do = "order"
    BY <1>5, <2>1
  <2>3. h + 1 \in 1 .. n => i + 1 \in 1 .. n - 1 /\ T[i + 1] = J[h + 1]
    BY <1>1, <1>2
  <2>4. J[h].do = "order" => k \in KeyIds \/ J[i].do = "key"
    BY <1>5, <2>1
  <2>5. i = 1 \/ (i - 1 \in 1 .. n - 1 /\ T[i - 1] = J[i])
    <3>1. i = 1 \/ (i - 1 \in 1 .. n - 1 /\ i - 1 + 1 = i)
      BY <1>1
    <3> QED
      BY <1>2, <3>1
  <2>6. J[h].do = "disable" => J[h].ip = None
    BY <1>5, <2>1
  <2> HIDE DEF h
  <2>7. T[i].do = "key" => i + 1 \in 1 .. n - 1 /\ T[i + 1].do = "order"
    BY <2>1, <2>2, <2>3
  <2>8. T[i].do = "order" => k2 \in KeyIds \/ (i - 1 \in 1 .. n - 1 /\ T[i - 1].do = "key")
    <3> SUFFICES ASSUME T[i].do = "order", k2 \notin KeyIds
                 PROVE  i - 1 \in 1 .. n - 1 /\ T[i - 1].do = "key"
      OBVIOUS
    <3>1. J[i].do = "key" /\ J[1].do # "key"
      BY <1>3, <2>1, <2>4
    <3>2. i # 1
      BY <3>1
    <3> QED
      BY <2>5, <3>1, <3>2
  <2> QED
    BY <2>1, <2>6, <2>7, <2>8
<1>7. ListOK(T, k2)
  BY <1>2, <1>6 DEF ListOK
<1>8. Head(J).do = "key" => T # <<>>
  <2>1. J[1].do = "key" => 1 + 1 \in 1 .. n
    BY <1>1, <1>5
  <2>2. 1 + 1 \in 1 .. n => n - 1 # 0
    BY <1>1
  <2> QED
    BY <1>3, <1>4, <2>1, <2>2
<1>9. Head(J).do = "order" => k \in KeyIds
  <2>1. 1 - 1 \notin 1 .. n
    BY <1>1
  <2> QED
    BY <1>1, <1>3, <1>5, <2>1
<1> QED
  BY <1>7, <1>8, <1>9 DEF T

(* Lists with no key and no order. *)
Plain(J) ==
  J \in Seq(AJob) /\ \A j \in JobsOf(J) : j.do \notin {"key", "order"} /\ (j.do = "disable" => j.ip = None)

LEMMA JobsOfJoin ==
  ASSUME NEW s \in Seq(AJob), NEW t \in Seq(AJob)
  PROVE  /\ s \o t \in Seq(AJob) /\ JobsOf(s \o t) = JobsOf(s) \cup JobsOf(t)
<1> DEFINE m == Len(s)
           n == Len(t)
           J == s \o t
<1>1. /\ m \in Nat /\ n \in Nat /\ J \in Seq(AJob) /\ DOMAIN J = 1 .. m + n
      /\ DOMAIN s = 1 .. m /\ DOMAIN t = 1 .. n
      /\ \A i \in 1 .. m : J[i] = s[i]
      /\ \A i \in 1 .. n : J[m + i] = t[i]
  <2>1. m \in Nat /\ n \in Nat /\ J \in Seq(AJob) /\ Len(J) = m + n
    BY ConcatProperties
  <2>2. DOMAIN J = 1 .. m + n /\ DOMAIN s = 1 .. m /\ DOMAIN t = 1 .. n
    BY <2>1
  <2>3. \A i \in 1 .. m + n : J[i] = IF i =< m THEN s[i] ELSE t[i - m]
    BY <2>1, ConcatProperties
  <2> HIDE DEF J, m, n
  <2>4. \A i \in 1 .. m : i \in 1 .. m + n /\ i =< m
    BY <2>1
  <2>5. \A i \in 1 .. n : m + i \in 1 .. m + n /\ ~(m + i =< m) /\ m + i - m = i
    BY <2>1
  <2>6. \A i \in 1 .. m : J[i] = s[i]
    BY <2>3, <2>4
  <2>7. ASSUME NEW i \in 1 .. n PROVE J[m + i] = t[i]
    <3>1. PICK h \in 1 .. m + n : h = m + i /\ ~(h =< m) /\ h - m = i
      BY <2>1
    <3>2. J[h] = t[h - m]
      BY <2>3, <3>1
    <3> QED
      BY <3>1, <3>2
  <2> QED
    BY <2>1, <2>2, <2>6, <2>7
<1> HIDE DEF m, n, J
<1>2. ASSUME NEW j \in JobsOf(J) PROVE j \in JobsOf(s) \cup JobsOf(t)
  <2>1. PICK i \in 1 .. m + n : j = J[i]
    BY <1>1 DEF JobsOf
  <2>2. i \in 1 .. m \/ (i - m \in 1 .. n /\ m + (i - m) = i)
    BY <1>1
  <2>3. CASE i \in 1 .. m
    BY <1>1, <2>1, <2>3 DEF JobsOf
  <2>4. CASE i - m \in 1 .. n /\ m + (i - m) = i
    <3>1. J[i] = t[i - m]
      BY <1>1, <2>4
    <3> QED
      BY <1>1, <2>1, <2>4, <3>1 DEF JobsOf
  <2> QED
    BY <2>2, <2>3, <2>4
<1>3. ASSUME NEW j \in JobsOf(s) PROVE j \in JobsOf(J)
  <2>1. PICK i \in 1 .. m : j = s[i]
    BY <1>1 DEF JobsOf
  <2>2. i \in 1 .. m + n
    BY <1>1
  <2> QED
    BY <1>1, <2>1, <2>2 DEF JobsOf
<1>4. ASSUME NEW j \in JobsOf(t) PROVE j \in JobsOf(J)
  <2>1. PICK i \in 1 .. n : j = t[i]
    BY <1>1 DEF JobsOf
  <2>2. m + i \in 1 .. m + n
    BY <1>1
  <2> QED
    BY <1>1, <2>1, <2>2 DEF JobsOf
<1> QED
  BY <1>1, <1>2, <1>3, <1>4 DEF J

LEMMA JobsOfFew ==
  /\ JobsOf(<<>>) = {} /\ <<>> \in Seq(AJob)
  /\ \A a \in AJob : JobsOf(<<a>>) = {a} /\ <<a>> \in Seq(AJob)
  /\ \A a, b, c \in AJob : JobsOf(<<a, b, c>>) = {a, b, c} /\ <<a, b, c>> \in Seq(AJob)
<1>1. JobsOf(<<>>) = {} /\ <<>> \in Seq(AJob)
  BY DEF JobsOf
<1>2. ASSUME NEW a \in AJob PROVE JobsOf(<<a>>) = {a} /\ <<a>> \in Seq(AJob)
  BY DEF JobsOf
<1>3. ASSUME NEW a \in AJob, NEW b \in AJob, NEW c \in AJob
      PROVE  JobsOf(<<a, b, c>>) = {a, b, c} /\ <<a, b, c>> \in Seq(AJob)
  <2> DEFINE s == <<a, b, c>>
  <2>1. s \in Seq(AJob)
    OBVIOUS
  <2>2. DOMAIN s = {1, 2, 3} /\ s[1] = a /\ s[2] = b /\ s[3] = c
    <3>1. DOMAIN s = 1 .. 3
      OBVIOUS
    <3>2. 1 .. 3 = {1, 2, 3}
      OBVIOUS
    <3> QED
      BY <3>1, <3>2
  <2> HIDE DEF s
  <2>3. JobsOf(s) = {a, b, c}
    BY <2>2 DEF JobsOf
  <2> QED
    BY <2>1, <2>3 DEF s
<1> QED
  BY <1>1, <1>2, <1>3

LEMMA JobType ==
  \A do \in Dos : \A ip \in IPs \cup {None} :
    Job(do, ip) \in AJob /\ Job(do, ip).do = do /\ Job(do, ip).ip = ip
BY DEF Job, AJob

LEMMA JobsOfIf ==
  ASSUME NEW c \in BOOLEAN, NEW a \in AJob
  PROVE  If(c, a) \in Seq(AJob) /\ JobsOf(If(c, a)) = IF c THEN {a} ELSE {}
BY JobsOfFew DEF If

LEMMA OrType ==
  ASSUME NEW a \in IPs \cup {None}, NEW b \in IPs \cup {None}
  PROVE  Or(a, b) \in IPs \cup {None}
BY DEF Or

LEMMA PlainOK ==
  ASSUME NEW J, NEW k, Plain(J)
  PROVE  ListOK(J, k)
<1>1. \A i \in DOMAIN J : J[i] \in JobsOf(J)
  BY DEF JobsOf
<1> QED
  BY <1>1 DEF Plain, ListOK

LEMMA InstallJobs ==
  ASSUME NEW r \in Request, r.kind = "install"
  PROVE  /\ Jobs(r) \in Seq(AJob)
         /\ JobsOf(Jobs(r)) = (IF r.binary THEN {Job("binary", None)} ELSE {})
              \cup (IF r.cert THEN {Job("cert", r.server)} ELSE {})
              \cup (IF r.hosts THEN {Job("enable", Or(r.ip, r.server))} ELSE {})
<1>1. r.server \in IPs \cup {None} /\ Or(r.ip, r.server) \in IPs \cup {None}
      /\ r.binary \in BOOLEAN /\ r.cert \in BOOLEAN /\ r.hosts \in BOOLEAN
  BY OrType DEF Request
<1> DEFINE a == Job("binary", None)
           b == Job("cert", r.server)
           c == Job("enable", Or(r.ip, r.server))
<1>2. a \in AJob /\ b \in AJob /\ c \in AJob
  BY <1>1, JobType DEF Dos
<1> DEFINE A == If(r.binary, a)
           B == If(r.cert, b)
           C == If(r.hosts, c)
<1>3. Jobs(r) = A \o B \o C
  BY DEF Jobs
<1> HIDE DEF a, b, c
<1>4. /\ A \in Seq(AJob) /\ JobsOf(A) = IF r.binary THEN {a} ELSE {}
      /\ B \in Seq(AJob) /\ JobsOf(B) = IF r.cert THEN {b} ELSE {}
      /\ C \in Seq(AJob) /\ JobsOf(C) = IF r.hosts THEN {c} ELSE {}
  BY <1>1, <1>2, JobsOfIf
<1> HIDE DEF A, B, C
<1>5. A \o B \in Seq(AJob) /\ JobsOf(A \o B) = JobsOf(A) \cup JobsOf(B)
  BY <1>4, JobsOfJoin
<1>6. Jobs(r) \in Seq(AJob) /\ JobsOf(Jobs(r)) = JobsOf(A \o B) \cup JobsOf(C)
  BY <1>3, <1>4, <1>5, JobsOfJoin
<1>7. JobsOf(Jobs(r)) = (IF r.binary THEN {a} ELSE {}) \cup (IF r.cert THEN {b} ELSE {})
                        \cup (IF r.hosts THEN {c} ELSE {})
  BY <1>4, <1>5, <1>6
<1> QED
  BY <1>6, <1>7 DEF a, b, c

LEMMA UninstallJobs ==
  ASSUME NEW r \in Request, r.kind = "uninstall"
  PROVE  /\ Jobs(r) \in Seq(AJob)
         /\ JobsOf(Jobs(r)) = (IF r.cert THEN {Job("drop-cert", None)} ELSE {})
              \cup (IF r.hosts THEN {Job("disable", None)} ELSE {})
              \cup (IF r.binary THEN {Job("drop-binary", None)} ELSE {})
<1>1. r.binary \in BOOLEAN /\ r.cert \in BOOLEAN /\ r.hosts \in BOOLEAN
  BY DEF Request
<1> DEFINE a == Job("drop-cert", None)
           b == Job("disable", None)
           c == Job("drop-binary", None)
<1>2. a \in AJob /\ b \in AJob /\ c \in AJob
  BY <1>1, JobType DEF Dos
<1> DEFINE A == If(r.cert, a)
           B == If(r.hosts, b)
           C == If(r.binary, c)
<1>3. Jobs(r) = A \o B \o C
  BY DEF Jobs
<1> HIDE DEF a, b, c
<1>4. /\ A \in Seq(AJob) /\ JobsOf(A) = IF r.cert THEN {a} ELSE {}
      /\ B \in Seq(AJob) /\ JobsOf(B) = IF r.hosts THEN {b} ELSE {}
      /\ C \in Seq(AJob) /\ JobsOf(C) = IF r.binary THEN {c} ELSE {}
  BY <1>1, <1>2, JobsOfIf
<1> HIDE DEF A, B, C
<1>5. A \o B \in Seq(AJob) /\ JobsOf(A \o B) = JobsOf(A) \cup JobsOf(B)
  BY <1>4, JobsOfJoin
<1>6. Jobs(r) \in Seq(AJob) /\ JobsOf(Jobs(r)) = JobsOf(A \o B) \cup JobsOf(C)
  BY <1>3, <1>4, <1>5, JobsOfJoin
<1>7. JobsOf(Jobs(r)) = (IF r.cert THEN {a} ELSE {}) \cup (IF r.hosts THEN {b} ELSE {})
                        \cup (IF r.binary THEN {c} ELSE {})
  BY <1>4, <1>5, <1>6
<1> QED
  BY <1>6, <1>7 DEF a, b, c

LEMMA OneJob ==
  ASSUME NEW r \in Request, r.kind \in {"enroll", "enable", "disable", "cert"}
  PROVE  /\ Jobs(r) \in Seq(AJob)
         /\ r.kind = "enroll" => Jobs(r) = <<Job("resolve", r.server)>>
         /\ JobsOf(Jobs(r)) =
              {Job(CASE r.kind = "enroll" -> "resolve" [] OTHER -> r.kind,
                   CASE r.kind = "enable" -> r.ip [] r.kind = "disable" -> None
                     [] OTHER -> r.server)}
<1> DEFINE do == CASE r.kind = "enroll" -> "resolve" [] OTHER -> r.kind
           ip == CASE r.kind = "enable" -> r.ip [] r.kind = "disable" -> None
                   [] OTHER -> r.server
<1>1. do \in Dos /\ ip \in IPs \cup {None}
  BY DEF Request, Dos
<1>2. Jobs(r) = <<Job(do, ip)>>
  BY DEF Jobs
<1>3. r.kind = "enroll" => Jobs(r) = <<Job("resolve", r.server)>>
  BY DEF Jobs
<1> HIDE DEF do, ip
<1>4. Job(do, ip) \in AJob
  BY <1>1, JobType
<1>5. Jobs(r) \in Seq(AJob) /\ JobsOf(Jobs(r)) = {Job(do, ip)}
  BY <1>2, <1>4, JobsOfFew
<1> QED
  BY <1>3, <1>5 DEF do, ip

LEMMA CallJobs ==
  ASSUME NEW r \in Requests, NEW k
  PROVE  ListOK(Jobs(r), k)
<1>0. r \in Request
  BY HostAssumption
<1>1. r.kind \in {"install", "enroll", "uninstall", "enable", "disable", "cert"}
      /\ r.ip \in IPs \cup {None} /\ r.server \in IPs \cup {None}
  BY <1>0 DEF Request
<1>2. \A do \in Dos : \A ip \in IPs \cup {None} :
        Job(do, ip) \in AJob /\ Job(do, ip).do = do /\ Job(do, ip).ip = ip
  BY JobType
<1>3. CASE r.kind = "install"
  <2>1. Or(r.ip, r.server) \in IPs \cup {None}
    BY <1>1, OrType
  <2>2. Plain(Jobs(r))
    BY <1>0, <1>1, <1>2, <1>3, <2>1, InstallJobs DEF Plain, Dos
  <2> QED
    BY <2>2, PlainOK
<1>4. CASE r.kind = "uninstall"
  <2>1. Plain(Jobs(r))
    BY <1>0, <1>1, <1>2, <1>4, UninstallJobs DEF Plain, Dos
  <2> QED
    BY <2>1, PlainOK
<1>5. CASE r.kind \in {"enroll", "enable", "disable", "cert"}
  <2>1. Plain(Jobs(r))
    BY <1>0, <1>1, <1>2, <1>5, OneJob DEF Plain, Dos
  <2> QED
    BY <2>1, PlainOK
<1> QED
  BY <1>1, <1>3, <1>4, <1>5

LEMMA EnrollingJobs ==
  ASSUME NEW r \in Requests, NEW s \in IPs, NEW k
  PROVE  /\ ListOK(Enrolling(r, s), k) /\ Enrolling(r, s) # <<>>
         /\ JobsOf(Enrolling(r, s)) =
              {Job("ca", s), Job("key", None), Job("order", s)}
              \cup (IF r.hosts THEN {Job("cert", s), Job("enable", Or(r.ip, s))} ELSE {})
<1>0. r \in Request
  BY HostAssumption
<1>1. s \in IPs \cup {None} /\ Or(r.ip, s) \in IPs \cup {None} /\ r.hosts \in BOOLEAN
  BY <1>0, OrType DEF Request
<1> DEFINE a == Job("ca", s)
           b == Job("key", None)
           c == Job("order", s)
           d == Job("cert", s)
           e == Job("enable", Or(r.ip, s))
           P == <<a, b, c>>
           D == If(r.hosts, d)
           E == If(r.hosts, e)
           J == P \o D \o E
<1>2. /\ a \in AJob /\ b \in AJob /\ c \in AJob /\ d \in AJob /\ e \in AJob
      /\ a.do = "ca" /\ b.do = "key" /\ c.do = "order" /\ d.do = "cert" /\ e.do = "enable"
  BY <1>1, JobType DEF Dos
<1>3. Enrolling(r, s) = J
  BY DEF Enrolling
<1> HIDE DEF a, b, c, d, e
<1>4. /\ D \in Seq(AJob) /\ JobsOf(D) = IF r.hosts THEN {d} ELSE {}
      /\ E \in Seq(AJob) /\ JobsOf(E) = IF r.hosts THEN {e} ELSE {}
      /\ P \in Seq(AJob) /\ JobsOf(P) = {a, b, c}
  <2>1. D \in Seq(AJob) /\ JobsOf(D) = IF r.hosts THEN {d} ELSE {}
    BY <1>1, <1>2, JobsOfIf
  <2>2. E \in Seq(AJob) /\ JobsOf(E) = IF r.hosts THEN {e} ELSE {}
    BY <1>1, <1>2, JobsOfIf
  <2>3. P \in Seq(AJob) /\ JobsOf(P) = {a, b, c}
    BY <1>2, JobsOfFew
  <2> QED
    BY <2>1, <2>2, <2>3
<1>5. P[1] = a /\ P[2] = b /\ P[3] = c /\ Len(P) = 3
  OBVIOUS
<1> HIDE DEF P, D, E
<1>6. P \o D \in Seq(AJob) /\ JobsOf(P \o D) = JobsOf(P) \cup JobsOf(D)
  BY <1>4, JobsOfJoin
<1>7. J \in Seq(AJob) /\ JobsOf(J) = JobsOf(P \o D) \cup JobsOf(E)
  BY <1>4, <1>6, JobsOfJoin
<1>8. /\ Len(J) \in Nat /\ Len(J) >= 3 /\ J[1] = a /\ J[2] = b /\ J[3] = c
      /\ \A i \in 4 .. Len(J) : J[i].do \in {"cert", "enable"}
  <2> DEFINE Q == D \o E
  <2>1. Q \in Seq(AJob) /\ JobsOf(Q) = JobsOf(D) \cup JobsOf(E)
    BY <1>4, JobsOfJoin
  <2>2. J = P \o Q
    BY <1>4
  <2> HIDE DEF Q, J
  <2>3. /\ Len(J) = 3 + Len(Q) /\ Len(Q) \in Nat
        /\ \A i \in 1 .. 3 + Len(Q) : J[i] = IF i =< 3 THEN P[i] ELSE Q[i - 3]
    <3>1. /\ Len(P \o Q) = Len(P) + Len(Q)
          /\ \A i \in 1 .. Len(P) + Len(Q) :
               (P \o Q)[i] = IF i =< Len(P) THEN P[i] ELSE Q[i - Len(P)]
      BY <1>4, <2>1, ConcatProperties
    <3>2. Len(Q) \in Nat
      BY <2>1
    <3> QED
      BY <1>5, <2>2, <3>1, <3>2
  <2>4. Len(J) \in Nat /\ Len(J) >= 3
    BY <2>3
  <2>5. \A i \in {1, 2, 3} : i \in 1 .. 3 + Len(Q) /\ i =< 3
    BY <2>3
  <2>6. J[1] = a /\ J[2] = b /\ J[3] = c
    BY <1>5, <2>3, <2>5
  <2>7. ASSUME NEW i \in 4 .. Len(J) PROVE J[i].do \in {"cert", "enable"}
    <3>1. i \in 1 .. 3 + Len(Q) /\ ~(i =< 3) /\ i - 3 \in 1 .. Len(Q)
      BY <2>3
    <3>2. J[i] = Q[i - 3]
      BY <2>3, <3>1
    <3>3. Q[i - 3] \in JobsOf(Q)
      BY <2>1, <3>1 DEF JobsOf
    <3> QED
      BY <1>2, <1>4, <2>1, <3>2, <3>3
  <2> QED
    BY <2>4, <2>6, <2>7
<1> HIDE DEF J
<1>9. ASSUME NEW i \in DOMAIN J
      PROVE  /\ J[i].do = "disable" => J[i].ip = None
             /\ J[i].do = "key" => i + 1 \in DOMAIN J /\ J[i + 1].do = "order"
             /\ J[i].do = "order" => k \in KeyIds \/ (i - 1 \in DOMAIN J /\ J[i - 1].do = "key")
  <2>1. DOMAIN J = 1 .. Len(J)
    BY <1>7
  <2>2. i = 1 \/ i = 2 \/ i = 3 \/ i \in 4 .. Len(J)
    BY <1>8, <2>1
  <2>3. CASE i = 1
    BY <1>2, <1>8, <2>3
  <2>4. CASE i = 2
    <3>1. i + 1 = 3 /\ 3 \in 1 .. Len(J)
      BY <1>8, <2>4
    <3> QED
      BY <1>2, <1>8, <2>1, <2>4, <3>1
  <2>5. CASE i = 3
    <3>1. i - 1 = 2 /\ 2 \in 1 .. Len(J)
      BY <1>8, <2>5
    <3> QED
      BY <1>2, <1>8, <2>1, <2>5, <3>1
  <2>6. CASE i \in 4 .. Len(J)
    BY <1>8, <2>6
  <2> QED
    BY <2>2, <2>3, <2>4, <2>5, <2>6
<1>10. ListOK(J, k)
  BY <1>7, <1>9 DEF ListOK
<1>11. J # <<>>
  <2>1. Len(J) # 0
    BY <1>8
  <2> QED
    BY <2>1
<1>12. JobsOf(J) = {a, b, c} \cup (IF r.hosts THEN {d, e} ELSE {})
  BY <1>1, <1>4, <1>6, <1>7
<1> QED
  BY <1>3, <1>10, <1>11, <1>12 DEF a, b, c, d, e

-----------------------------------------------------------------------------
(* What a step does to the process that takes it, and to no other *)

OthersSame(p) ==
  \A q \in Processes \ {p} :
    /\ pc'[q] = pc[q] /\ request'[q] = request[q] /\ todo'[q] = todo[q] /\ mem'[q] = mem[q]
    /\ using'[q] = using[q] /\ before'[q] = before[q] /\ (alone'[q] => alone[q])
Moves(p, st, J, m, u) ==
  /\ ProcessKinds' /\ OthersSame(p)
  /\ pc'[p] = st /\ todo'[p] = J /\ mem'[p] = m /\ using'[p] = u
Stays(p) == request'[p] = request[p] /\ before'[p] = before[p] /\ (alone'[p] => alone[p])
Nothing == [server |-> None, key |-> None]
Ended(p, how) == Moves(p, how, <<>>, None, Nothing) /\ ~alone'[p]

LEMMA SameExcept ==
  ASSUME NEW S, NEW f \in [Processes -> S], NEW p \in Processes
  PROVE  f = [f EXCEPT ![p] = f[p]]
OBVIOUS

LEMMA MovesEffect ==
  ASSUME ProcessKinds, NEW p \in Processes,
         NEW st \in Steps, NEW J \in Seq(AJob), NEW m \in Contents, NEW u \in Use,
         pc' = [pc EXCEPT ![p] = st], todo' = [todo EXCEPT ![p] = J],
         mem' = [mem EXCEPT ![p] = m], using' = [using EXCEPT ![p] = u],
         UNCHANGED <<request, before, alone>>
  PROVE  Moves(p, st, J, m, u) /\ Stays(p)
<1>1. pc' \in [Processes -> Steps] /\ pc'[p] = st /\ \A q \in Processes \ {p} : pc'[q] = pc[q]
  BY DEF ProcessKinds
<1>2. /\ todo' \in [Processes -> Seq(AJob)] /\ todo'[p] = J
      /\ \A q \in Processes \ {p} : todo'[q] = todo[q]
  BY DEF ProcessKinds
<1>3. mem' \in [Processes -> Contents] /\ mem'[p] = m /\ \A q \in Processes \ {p} : mem'[q] = mem[q]
  BY DEF ProcessKinds
<1>4. using' \in [Processes -> Use] /\ using'[p] = u /\ \A q \in Processes \ {p} : using'[q] = using[q]
  BY DEF ProcessKinds
<1>5. ProcessKinds'
  BY <1>1, <1>2, <1>3, <1>4 DEF ProcessKinds
<1> QED
  BY <1>1, <1>2, <1>3, <1>4, <1>5 DEF Moves, Stays, OthersSame

LEMMA OverEffect ==
  ASSUME ProcessKinds, NEW p \in Processes, NEW how \in Rest, Over(p, how)
  PROVE  Ended(p, how)
<1> DEFINE u == [server |-> None, key |-> None]
           b == [redirect |-> None, crt |-> None]
<1>0. /\ pc' = [pc EXCEPT ![p] = how] /\ request' = [request EXCEPT ![p] = NoRequest]
      /\ todo' = [todo EXCEPT ![p] = <<>>] /\ mem' = [mem EXCEPT ![p] = None]
      /\ using' = [using EXCEPT ![p] = u] /\ before' = [before EXCEPT ![p] = b]
      /\ alone' = [alone EXCEPT ![p] = FALSE]
  BY DEF Over
<1>1. /\ how \in Steps /\ None \in Contents /\ u \in Use
      /\ b \in [redirect : IPs \cup {None}, crt : IPs \cup {None, Torn}]
      /\ <<>> \in Seq(AJob)
  BY DEF Rest, Steps, Contents, Use
<1> HIDE DEF u, b
<1>2. pc' \in [Processes -> Steps] /\ pc'[p] = how /\ \A q \in Processes \ {p} : pc'[q] = pc[q]
  BY <1>0, <1>1 DEF ProcessKinds
<1>3. /\ todo' \in [Processes -> Seq(AJob)] /\ todo'[p] = <<>>
      /\ \A q \in Processes \ {p} : todo'[q] = todo[q]
  BY <1>0, <1>1 DEF ProcessKinds
<1>4. mem' \in [Processes -> Contents] /\ mem'[p] = None /\ \A q \in Processes \ {p} : mem'[q] = mem[q]
  BY <1>0, <1>1 DEF ProcessKinds
<1>5. using' \in [Processes -> Use] /\ using'[p] = u /\ \A q \in Processes \ {p} : using'[q] = using[q]
  BY <1>0, <1>1 DEF ProcessKinds
<1>6. /\ request' \in [Processes -> Requests \cup {NoRequest}]
      /\ \A q \in Processes \ {p} : request'[q] = request[q]
  BY <1>0 DEF ProcessKinds
<1>7. /\ before' \in [Processes -> [redirect : IPs \cup {None}, crt : IPs \cup {None, Torn}]]
      /\ \A q \in Processes \ {p} : before'[q] = before[q]
  BY <1>0, <1>1 DEF ProcessKinds
<1>8. /\ alone' \in [Processes -> BOOLEAN] /\ ~alone'[p]
      /\ \A q \in Processes \ {p} : (alone'[q] => alone[q])
  BY <1>0 DEF ProcessKinds
<1>9. ProcessKinds'
  BY <1>2, <1>3, <1>4, <1>5, <1>6, <1>7, <1>8 DEF ProcessKinds
<1> QED
  BY <1>2, <1>3, <1>4, <1>5, <1>6, <1>7, <1>8, <1>9 DEF Ended, Moves, OthersSame, Nothing, u

LEMMA DoneEffect ==
  ASSUME ProcessKinds, NEW p \in Processes, todo[p] # <<>>, Done(p)
  PROVE  \/ Len(todo[p]) = 1 /\ Tail(todo[p]) = <<>> /\ Ended(p, "idle")
         \/ /\ Len(todo[p]) # 1 /\ Tail(todo[p]) # <<>>
            /\ Moves(p, "do", Tail(todo[p]), None, using[p]) /\ Stays(p)
<1>1. /\ todo[p] \in Seq(AJob) /\ Tail(todo[p]) \in Seq(AJob)
      /\ (Len(todo[p]) = 1) => Tail(todo[p]) = <<>>
      /\ (Len(todo[p]) # 1) => Tail(todo[p]) # <<>>
  BY JobsOfTail DEF ProcessKinds
<1>2. CASE Len(todo[p]) = 1
  BY <1>1, <1>2, OverEffect DEF Done, Rest
<1>3. CASE Len(todo[p]) # 1
  <2>1. /\ pc' = [pc EXCEPT ![p] = "do"] /\ todo' = [todo EXCEPT ![p] = Tail(@)]
        /\ mem' = [mem EXCEPT ![p] = None]
        /\ UNCHANGED <<request, using, before, alone>>
    BY <1>3 DEF Done
  <2>2. todo' = [todo EXCEPT ![p] = Tail(todo[p])]
    BY <2>1
  <2>3. using' = [using EXCEPT ![p] = using[p]] /\ using[p] \in Use
    BY <2>1, SameExcept DEF ProcessKinds
  <2>4. "do" \in Steps /\ None \in Contents
    BY DEF Steps, Contents
  <2>5. Moves(p, "do", Tail(todo[p]), None, using[p]) /\ Stays(p)
    BY <1>1, <2>1, <2>2, <2>3, <2>4, MovesEffect
  <2> QED
    BY <1>1, <1>3, <2>5
<1> QED
  BY <1>2, <1>3

LEMMA PreparesEffect ==
  ASSUME ProcessKinds, NEW p \in Processes, NEW data \in Contents, Prepares(p, data)
  PROVE  Moves(p, "open", todo[p], data, using[p]) /\ Stays(p)
<1>1. /\ pc' = [pc EXCEPT ![p] = "open"] /\ mem' = [mem EXCEPT ![p] = data]
      /\ UNCHANGED <<request, todo, using, before, alone>>
  BY DEF Prepares
<1>2. /\ using' = [using EXCEPT ![p] = using[p]] /\ using[p] \in Use
      /\ todo' = [todo EXCEPT ![p] = todo[p]] /\ todo[p] \in Seq(AJob)
  BY <1>1, SameExcept DEF ProcessKinds
<1>3. "open" \in Steps
  BY DEF Steps
<1> QED
  BY <1>1, <1>2, <1>3, MovesEffect

(* What is known of a state before a step. *)
Base == ProcessKinds /\ DiskKinds /\ FilesOK /\ Controlled
Others == <<calls, identities, foreign, redirect>>

(* The outcomes of the steps. *)
Stops(p) ==
  (\E how \in Rest : Ended(p, how)) /\ pc'[p] # "idle" /\ UNCHANGED <<disk, history, spoilt>>
Passes(p) ==
  /\ pc[p] \notin Rest /\ Head(todo[p]).do # "key"
  /\ \/ Tail(todo[p]) = <<>> /\ Ended(p, "idle")
     \/ /\ Tail(todo[p]) # <<>>
        /\ Moves(p, "do", Tail(todo[p]), None, using[p]) /\ Stays(p)
Skips(p) ==
  /\ pc[p] = "do" /\ Passes(p) /\ UNCHANGED <<disk, history, spoilt>>
  /\ \/ Head(todo[p]).do = "binary" /\ content["binary"] = request[p].version
     \/ Head(todo[p]).do = "drop-cert" /\ content["crt"] = None
     \/ Head(todo[p]).do = "ca"
Takes(p, data) ==
  /\ pc[p] = "do" /\ HandOK(Head(todo[p]), request[p], data)
  /\ Moves(p, "open", todo[p], data, using[p]) /\ Stays(p)
  /\ UNCHANGED <<disk, history>>
  /\ spoilt' \in {spoilt, spoilt \cup {File(p)}}
  /\ File(p) \notin spoilt' => \A q \in Processes \ {p} : ~InHand(q, File(p))
  /\ File(p) = "hosts" => ForeignLines(data) = ForeignLines(Text(content["hosts"]))
  /\ File(p) = "key" /\ "key" \notin spoilt' => content["key"] = None

LEMMA BlankTidy == Tidy(<<Blank>>) /\ Addressed(<<Blank>>, None) /\ ForeignLines(<<Blank>>) = <<>>
<1>1. <<Blank>> \in Seq(Outside) /\ <<Blank>> # <<>>
  BY DEF Outside
<1>2. <<Blank>> \in Seq(Line)
  BY <1>1, SubLines
<1>3. /\ StripBlock(<<Blank>>) = <<Blank>> /\ ~Strip(<<Blank>>).inBlock
      /\ Extract(<<Blank>>).ip = None
  BY <1>1, OutsideText
<1>4. ForeignLines(<<Blank>>) = <<>>
  <2>1. <<Blank>> = Append(<<>>, Blank)
    OBVIOUS
  <2>2. <<>> \in Seq(Line) /\ Blank \in Line /\ Blank \notin Foreign
    BY OutsideLines
  <2>3. ForeignLines(Append(<<>>, Blank)) = ForeignLines(<<>>)
    BY <2>2, ForeignStep
  <2> QED
    BY <2>1, <2>3, LoopStart
<1> QED
  BY <1>1, <1>2, <1>3, <1>4, OutsideAddresses DEF Tidy, Addressed, RedirectIP, Outside

LEMMA TextTidy ==
  ASSUME FilesOK
  PROVE  /\ Tidy(Text(content["hosts"]))
         /\ Tidy(content["hosts"]) => Text(content["hosts"]) = content["hosts"]
<1>1. \A s : Tidy(s) => s \in Seq(Line)
  BY DEF Tidy
<1>2. Torn \notin Seq(Line)
  BY HostAssumption
<1> QED
  BY <1>1, <1>2, BlankTidy DEF FilesOK, Text

LEMMA HeadJob ==
  ASSUME Base, NEW p \in Processes, pc[p] \notin Rest
  PROVE  /\ todo[p] # <<>> /\ todo[p] \in Seq(AJob) /\ Head(todo[p]) \in AJob
         /\ Head(todo[p]).do \in Dos /\ Address(p) \in IPs \cup {None}
         /\ Head(todo[p]).do = "disable" => Address(p) = None
         /\ ListOK(todo[p], using[p].key)
         /\ request[p] \in Requests /\ request[p] \in Request
         /\ pc[p] \in Hand => HandOK(Head(todo[p]), request[p], mem[p])
         /\ pc[p] = "rename" => Head(todo[p]).do \in {"enable", "disable", "binary"}
         /\ pc[p] = "refresh" => Head(todo[p]).do \in {"cert", "drop-cert"}
<1>1. ControlOK(pc[p], request[p], todo[p], mem[p], using[p])
  BY DEF Base, Controlled
<1>2. todo[p] # <<>> /\ todo[p] \in Seq(AJob) /\ ListOK(todo[p], using[p].key)
      /\ request[p] \in Requests /\ request[p] \in Request
  BY <1>1, HostAssumption DEF ControlOK, ListOK
<1>3. Head(todo[p]) \in AJob
  BY <1>2, JobsOfTail
<1>4. Head(todo[p]).do = "disable" => Address(p) = None
  <2> DEFINE J == todo[p]
  <2>1. J \in Seq(AJob) /\ J # <<>> /\ ListOK(J, using[p].key)
    BY <1>2
  <2> HIDE DEF J
  <2>2. 1 \in DOMAIN J /\ Head(J) = J[1]
    BY <2>1
  <2>3. Head(J).do = "disable" => Head(J).ip = None
    BY <2>1, <2>2 DEF ListOK
  <2> QED
    BY <2>3 DEF J, Address
<1> QED
  BY <1>1, <1>2, <1>3, <1>4 DEF ControlOK, Address, AJob

LEMMA StopsEffect ==
  ASSUME Base, NEW p \in Processes, Unaddressed(p) \/ Fails(p) \/ Refuses(p) \/ Kill(p)
  PROVE  Stops(p)
<1>1. Over(p, "stopped") /\ UNCHANGED <<disk, history, spoilt>>
  BY DEF Unaddressed, Fails, Refuses, Kill
<1>2. "stopped" \in Rest
  BY DEF Rest
<1>3. Ended(p, "stopped")
  BY <1>1, <1>2, OverEffect DEF Base
<1>4. pc'[p] # "idle"
  BY <1>3 DEF Ended, Moves
<1> QED
  BY <1>1, <1>2, <1>3, <1>4 DEF Stops

LEMMA PassesEffect ==
  ASSUME Base, NEW p \in Processes, pc[p] \notin Rest, Head(todo[p]).do # "key", Done(p)
  PROVE  Passes(p)
<1>1. todo[p] # <<>>
  BY HeadJob
<1> QED
  BY <1>1, DoneEffect DEF Passes, Base

LEMMA FileIs ==
  ASSUME NEW p
  PROVE  /\ Head(todo[p]).do \in {"enable", "disable"} => File(p) = "hosts"
         /\ Head(todo[p]).do \in {"binary", "drop-binary"} => File(p) = "binary"
         /\ Head(todo[p]).do \in {"cert", "drop-cert"} => File(p) = "crt"
         /\ Head(todo[p]).do = "key" => File(p) = "key"
BY DEF File, FileOf

LEMMA HostsReadEffect ==
  ASSUME Base, NEW p \in Processes, HostsRead(p)
  PROVE  Stops(p) \/ \E data : Takes(p, data)
<1>1. pc[p] = "do" /\ Head(todo[p]).do \in {"enable", "disable"} /\ pc[p] \notin Rest
  BY DEF HostsRead, Doing, Rest
<1>2. CASE Fails(p)
  BY <1>2, StopsEffect
<1>3. CASE /\ Doing(p, {"enable"}) => Address(p) # None
           /\ LET old == Text(content["hosts"])
              IN Prepares(p, IF Doing(p, {"enable"}) THEN Enabled(old, Address(p)) ELSE Disabled(old))
           /\ Spoils(p)
  <2> DEFINE old == Text(content["hosts"])
             data == IF Doing(p, {"enable"}) THEN Enabled(old, Address(p)) ELSE Disabled(old)
  <2>1. Tidy(old)
    BY TextTidy DEF Base
  <2>2. /\ Address(p) \in IPs \cup {None} /\ Address(p) = Head(todo[p]).ip
        /\ Head(todo[p]).do = "disable" => Address(p) = None
    BY <1>1, HeadJob DEF Address
  <2> HIDE DEF old
  <2>3. Tidy(data) /\ Addressed(data, Address(p)) /\ ForeignLines(data) = ForeignLines(old)
    <3>1. CASE Doing(p, {"enable"})
      <4>1. Address(p) \in IPs
        BY <1>3, <2>2, <3>1
      <4> QED
        BY <2>1, <3>1, <4>1, EnabledTidy
    <3>2. CASE ~Doing(p, {"enable"})
      <4>1. Address(p) = None
        BY <1>1, <2>2, <3>2 DEF Doing
      <4> QED
        BY <2>1, <3>2, <4>1, DisabledTidy
    <3> QED
      BY <3>1, <3>2
  <2>4. Prepares(p, data) /\ Spoils(p)
    BY <1>3 DEF old
  <2>5. Head(todo[p]).do = "enable" => Address(p) # None
    BY <1>1, <1>3 DEF Doing
  <2> HIDE DEF data
  <2>6. data \in Contents
    BY <2>3 DEF Contents, Tidy
  <2>7. Moves(p, "open", todo[p], data, using[p]) /\ Stays(p)
    BY <2>4, <2>6, PreparesEffect DEF Base
  <2>8. HandOK(Head(todo[p]), request[p], data)
    BY <1>1, <2>2, <2>3, <2>5 DEF HandOK
  <2>9. File(p) = "hosts"
    BY <1>1, FileIs
  <2>10. UNCHANGED <<disk, history>>
    BY <2>4 DEF Prepares
  <2>11. /\ spoilt' \in {spoilt, spoilt \cup {File(p)}}
         /\ File(p) \notin spoilt' => \A q \in Processes \ {p} : ~InHand(q, File(p))
    BY <2>4 DEF Spoils
  <2>12. Takes(p, data)
    BY <1>1, <2>3, <2>7, <2>8, <2>9, <2>10, <2>11 DEF Takes, old
  <2> QED
    BY <2>12
<1> QED
  BY <1>2, <1>3 DEF HostsRead

LEMMA BinaryReadEffect ==
  ASSUME Base, NEW p \in Processes, BinaryRead(p)
  PROVE  Stops(p) \/ Skips(p) \/ \E data : Takes(p, data)
<1>1. pc[p] = "do" /\ Head(todo[p]).do = "binary" /\ pc[p] \notin Rest /\ File(p) = "binary"
  BY FileIs DEF BinaryRead, Doing, Rest
<1>2. CASE Fails(p)
  BY <1>2, StopsEffect
<1>3. CASE content["binary"] = request[p].version /\ Done(p) /\ UNCHANGED <<disk, history, spoilt>>
  BY <1>1, <1>3, PassesEffect DEF Skips
<1>4. CASE content["binary"] # request[p].version /\ Prepares(p, request[p].version) /\ Spoils(p)
  <2> DEFINE data == request[p].version
  <2>1. data \in Contents
    BY <1>1, HeadJob DEF Contents, Request
  <2>2. HandOK(Head(todo[p]), request[p], data)
    BY <1>1 DEF HandOK
  <2> HIDE DEF data
  <2>3. Prepares(p, data) /\ Spoils(p)
    BY <1>4 DEF data
  <2>4. Moves(p, "open", todo[p], data, using[p]) /\ Stays(p)
    BY <2>1, <2>3, PreparesEffect DEF Base
  <2>5. UNCHANGED <<disk, history>>
    BY <2>3 DEF Prepares
  <2>6. /\ spoilt' \in {spoilt, spoilt \cup {File(p)}}
        /\ File(p) \notin spoilt' => \A q \in Processes \ {p} : ~InHand(q, File(p))
    BY <2>3 DEF Spoils
  <2>7. Takes(p, data)
    BY <1>1, <2>2, <2>4, <2>5, <2>6 DEF Takes
  <2> QED
    BY <2>7
<1> QED
  BY <1>2, <1>3, <1>4 DEF BinaryRead

LEMMA CertReadEffect ==
  ASSUME Base, NEW p \in Processes, CertRead(p)
  PROVE  Stops(p) \/ \E data : Takes(p, data)
<1>1. pc[p] = "do" /\ Head(todo[p]).do = "cert" /\ pc[p] \notin Rest /\ File(p) = "crt"
  BY FileIs DEF CertRead, Doing, Rest
<1>2. CASE Fails(p)
  BY <1>2, StopsEffect
<1>3. CASE Address(p) # None /\ Prepares(p, Address(p)) /\ Spoils(p)
  <2> DEFINE data == Address(p)
  <2>1. data \in Contents
    BY <1>1, HeadJob DEF Contents
  <2>2. HandOK(Head(todo[p]), request[p], data)
    BY <1>1, <1>3 DEF HandOK, Address
  <2> HIDE DEF data
  <2>3. Prepares(p, data) /\ Spoils(p)
    BY <1>3 DEF data
  <2>4. Moves(p, "open", todo[p], data, using[p]) /\ Stays(p)
    BY <2>1, <2>3, PreparesEffect DEF Base
  <2>5. UNCHANGED <<disk, history>>
    BY <2>3 DEF Prepares
  <2>6. /\ spoilt' \in {spoilt, spoilt \cup {File(p)}}
        /\ File(p) \notin spoilt' => \A q \in Processes \ {p} : ~InHand(q, File(p))
    BY <2>3 DEF Spoils
  <2>7. Takes(p, data)
    BY <1>1, <2>2, <2>4, <2>5, <2>6 DEF Takes
  <2> QED
    BY <2>7
<1> QED
  BY <1>2, <1>3 DEF CertRead

(* A key that is in the file is used, a new one is written first. *)
Uses(p, k) ==
  /\ pc[p] = "do" /\ Head(todo[p]).do = "key" /\ k = content["key"] /\ k \in KeyIds
  /\ Moves(p, "do", Tail(todo[p]), mem[p], [server |-> using[p].server, key |-> k]) /\ Stays(p)
  /\ Tail(todo[p]) # <<>>
  /\ UNCHANGED <<disk, history, spoilt>>

LEMMA WithKeyEffect ==
  ASSUME ProcessKinds, NEW p \in Processes, NEW k \in KeyIds, WithKey(p, k)
  PROVE  /\ using' = [using EXCEPT ![p] = [server |-> using[p].server, key |-> k]]
         /\ [server |-> using[p].server, key |-> k] \in Use
<1>1. using[p] \in Use
  BY DEF ProcessKinds
<1>2. [using[p] EXCEPT !.key = k] = [server |-> using[p].server, key |-> k]
  BY <1>1 DEF Use
<1>3. using' = [using EXCEPT ![p] = [using[p] EXCEPT !.key = k]]
  BY DEF WithKey
<1> QED
  BY <1>1, <1>2, <1>3 DEF Use

LEMMA KeyReadEffect ==
  ASSUME Base, NEW p \in Processes, KeyRead(p)
  PROVE  Stops(p) \/ (\E k : Uses(p, k)) \/ \E data : Takes(p, data)
<1>1. pc[p] = "do" /\ Head(todo[p]).do = "key" /\ pc[p] \notin Rest /\ File(p) = "key"
  BY FileIs DEF KeyRead, Doing, Rest
<1>2. CASE Fails(p) \/ Refuses(p)
  BY <1>2, StopsEffect
<1>3. CASE /\ content["key"] \in KeyIds
           /\ pc' = pc /\ todo' = [todo EXCEPT ![p] = Tail(@)]
           /\ WithKey(p, content["key"])
           /\ UNCHANGED <<request, mem, before, alone, disk, history, spoilt>>
  <2> DEFINE k == content["key"]
             u == [server |-> using[p].server, key |-> k]
  <2>1. k \in KeyIds /\ WithKey(p, k)
    BY <1>3
  <2>2. using' = [using EXCEPT ![p] = u] /\ u \in Use
    BY <2>1, WithKeyEffect DEF Base
  <2>3. Tail(todo[p]) \in Seq(AJob) /\ Tail(todo[p]) # <<>>
    <3>1. ListOK(todo[p], using[p].key) /\ todo[p] # <<>> /\ todo[p] \in Seq(AJob)
      BY <1>1, HeadJob
    <3>2. Tail(todo[p]) \in Seq(AJob)
      BY <3>1, JobsOfTail
    <3> QED
      BY <1>1, <2>1, <3>1, <3>2, TailOK
  <2>4. /\ pc' = [pc EXCEPT ![p] = "do"] /\ todo' = [todo EXCEPT ![p] = Tail(todo[p])]
        /\ mem' = [mem EXCEPT ![p] = mem[p]] /\ mem[p] \in Contents /\ "do" \in Steps
    BY <1>1, <1>3, SameExcept DEF Base, ProcessKinds, Steps
  <2>5. UNCHANGED <<request, before, alone>>
    BY <1>3
  <2> HIDE DEF u, k
  <2>6. Moves(p, "do", Tail(todo[p]), mem[p], u) /\ Stays(p)
    BY <2>2, <2>3, <2>4, <2>5, MovesEffect DEF Base
  <2>7. UNCHANGED <<disk, history, spoilt>>
    BY <1>3
  <2>8. Uses(p, k)
    BY <1>1, <2>1, <2>3, <2>6, <2>7 DEF Uses, u, k
  <2> QED
    BY <2>8
<1>4. CASE /\ content["key"] = None \/ "misread" \in Faults
           /\ \E k \in KeyIds \ (identities \cup {content["key"]}) :
                /\ \A q \in Processes : mem[q] # k
                /\ Prepares(p, k)
           /\ spoilt' = IF content["key"] # None \/ \E q \in Processes \ {p} : InHand(q, "key")
                        THEN spoilt \cup {"key"} ELSE spoilt
  <2>1. PICK k \in KeyIds : Prepares(p, k)
    BY <1>4
  <2>2. k \in Contents
    BY DEF Contents
  <2>3. HandOK(Head(todo[p]), request[p], k)
    BY <1>1 DEF HandOK
  <2>4. Moves(p, "open", todo[p], k, using[p]) /\ Stays(p)
    BY <2>1, <2>2, PreparesEffect DEF Base
  <2>5. UNCHANGED <<disk, history>>
    BY <2>1 DEF Prepares
  <2>6. /\ spoilt' \in {spoilt, spoilt \cup {File(p)}}
        /\ File(p) \notin spoilt' => \A q \in Processes \ {p} : ~InHand(q, File(p))
        /\ "key" \notin spoilt' => content["key"] = None
    BY <1>1, <1>4
  <2>7. Takes(p, k)
    BY <1>1, <2>3, <2>4, <2>5, <2>6 DEF Takes
  <2> QED
    BY <2>7
<1> QED
  BY <1>2, <1>3, <1>4 DEF KeyRead

(* Writing and putting into place. *)
Opens(p) ==
  /\ pc[p] = "open" /\ Moves(p, "write", todo[p], mem[p], using[p]) /\ Stays(p)
  /\ UNCHANGED <<trust, history, spoilt>>
  /\ \/ /\ File(p) \in InPlace
        /\ content' = [content EXCEPT ![File(p)] = Torn] /\ UNCHANGED tmp
     \/ /\ File(p) \notin InPlace
        /\ tmp' = [tmp EXCEPT ![File(p)] = Torn] /\ UNCHANGED content
WritesTmp(p) ==
  LET f == File(p)
  IN /\ pc[p] = "write" /\ f \in {"hosts", "binary"}
     /\ Moves(p, "rename", todo[p], mem[p], using[p]) /\ Stays(p)
     /\ UNCHANGED <<trust, history, spoilt>>
     /\ \/ tmp[f] # None /\ tmp' = [tmp EXCEPT ![f] = mem[p]] /\ UNCHANGED content
        \/ tmp[f] = None /\ content' = [content EXCEPT ![f] = mem[p]] /\ UNCHANGED tmp
        \/ tmp[f] = None /\ UNCHANGED <<content, tmp>>
WritesCert(p) ==
  /\ pc[p] = "write" /\ Head(todo[p]).do = "cert"
  /\ Moves(p, "refresh", todo[p], mem[p], using[p]) /\ Stays(p)
  /\ content' = [content EXCEPT !["crt"] = mem[p]]
  /\ UNCHANGED <<tmp, trust, history, spoilt>>
WritesKey(p) ==
  /\ pc[p] = "write" /\ Head(todo[p]).do = "key" /\ mem[p] \in KeyIds
  /\ Moves(p, "do", Tail(todo[p]), mem[p], [server |-> using[p].server, key |-> mem[p]])
  /\ Stays(p) /\ Tail(todo[p]) # <<>>
  /\ content' = [content EXCEPT !["key"] = mem[p]]
  /\ UNCHANGED <<tmp, trust, history, spoilt>>
Puts(p) ==
  LET f == File(p)
  IN /\ pc[p] = "rename" /\ Passes(p) /\ f \in {"hosts", "binary"} /\ tmp[f] # None
     /\ content' = [content EXCEPT ![f] = tmp[f]] /\ tmp' = [tmp EXCEPT ![f] = None]
     /\ redirect' = IF f = "hosts" THEN Address(p) ELSE redirect
     /\ UNCHANGED <<trust, calls, identities, foreign, spoilt>>

LEMMA OpenEffect ==
  ASSUME Base, NEW p \in Processes, Open(p)
  PROVE  Stops(p) \/ Opens(p)
<1>1. CASE Fails(p)
  BY <1>1, StopsEffect
<1>2. CASE /\ IF File(p) \in InPlace
              THEN content' = [content EXCEPT ![File(p)] = Torn] /\ UNCHANGED tmp
              ELSE tmp' = [tmp EXCEPT ![File(p)] = Torn] /\ UNCHANGED content
           /\ pc' = [pc EXCEPT ![p] = "write"]
           /\ UNCHANGED <<trust, request, todo, mem, using, before, alone, history, spoilt>>
  <2>1. /\ todo' = [todo EXCEPT ![p] = todo[p]] /\ todo[p] \in Seq(AJob)
        /\ mem' = [mem EXCEPT ![p] = mem[p]] /\ mem[p] \in Contents
        /\ using' = [using EXCEPT ![p] = using[p]] /\ using[p] \in Use
        /\ "write" \in Steps
    BY <1>2, SameExcept DEF Base, ProcessKinds, Steps
  <2>2. pc' = [pc EXCEPT ![p] = "write"] /\ UNCHANGED <<request, before, alone>>
    BY <1>2
  <2>3. Moves(p, "write", todo[p], mem[p], using[p]) /\ Stays(p)
    BY <2>1, <2>2, MovesEffect DEF Base
  <2>4. UNCHANGED <<trust, history, spoilt>>
    BY <1>2
  <2>5. pc[p] = "open"
    BY DEF Open
  <2> QED
    BY <1>2, <2>3, <2>4, <2>5 DEF Opens
<1> QED
  BY <1>1, <1>2 DEF Open

LEMMA WriteEffect ==
  ASSUME Base, NEW p \in Processes, Write(p)
  PROVE  Stops(p) \/ WritesTmp(p) \/ WritesCert(p) \/ WritesKey(p)
<1> DEFINE f == File(p)
           Body == /\ IF f \in InPlace
                      THEN content' = [content EXCEPT ![f] = mem[p]] /\ UNCHANGED tmp
                      ELSE \/ tmp[f] # None /\ tmp' = [tmp EXCEPT ![f] = mem[p]] /\ UNCHANGED content
                           \/ tmp[f] = None /\ content' = [content EXCEPT ![f] = mem[p]] /\ UNCHANGED tmp
                           \/ tmp[f] = None /\ UNCHANGED <<content, tmp>>
                   /\ pc' = [pc EXCEPT ![p] = CASE f = "crt" -> "refresh"
                                                 [] f = "key" -> "do"
                                                 [] OTHER -> "rename"]
                   /\ todo' = IF f = "key" THEN [todo EXCEPT ![p] = Tail(@)] ELSE todo
                   /\ IF f = "key" THEN WithKey(p, mem[p]) ELSE UNCHANGED using
                   /\ UNCHANGED <<trust, request, mem, before, alone, history, spoilt>>
<1>1. pc[p] = "write" /\ (Body \/ Fails(p))
  BY DEF Write
<1> HIDE DEF f
<1>2. pc[p] \notin Rest /\ pc[p] \in Hand
  BY <1>1 DEF Rest, Hand
<1>3. HandOK(Head(todo[p]), request[p], mem[p])
  BY <1>2, HeadJob
<1>4. CASE Fails(p)
  BY <1>4, StopsEffect
<1>5. CASE Body /\ f = "key"
  <2> DEFINE k == mem[p]
             u == [server |-> using[p].server, key |-> k]
  <2>0. Head(todo[p]).do = "key" /\ k \in KeyIds
    BY <1>3, <1>5, FileIs DEF HandOK, f
  <2>1. WithKey(p, k)
    BY <1>5
  <2>2. using' = [using EXCEPT ![p] = u] /\ u \in Use
    BY <2>0, <2>1, WithKeyEffect DEF Base
  <2>3. Tail(todo[p]) \in Seq(AJob) /\ Tail(todo[p]) # <<>>
    <3>1. ListOK(todo[p], using[p].key) /\ todo[p] # <<>> /\ todo[p] \in Seq(AJob)
      BY <1>2, HeadJob
    <3>2. Tail(todo[p]) \in Seq(AJob)
      BY <3>1, JobsOfTail
    <3> QED
      BY <2>0, <3>1, <3>2, TailOK
  <2>4. /\ pc' = [pc EXCEPT ![p] = "do"] /\ todo' = [todo EXCEPT ![p] = Tail(todo[p])]
        /\ UNCHANGED <<request, mem, before, alone>>
    BY <1>5
  <2>5. mem' = [mem EXCEPT ![p] = k] /\ k \in Contents /\ "do" \in Steps
    BY <2>4, SameExcept DEF Base, ProcessKinds, Steps
  <2> HIDE DEF u, k
  <2>6. Moves(p, "do", Tail(todo[p]), k, u) /\ Stays(p)
    BY <2>2, <2>3, <2>4, <2>5, MovesEffect DEF Base
  <2>7. /\ content' = [content EXCEPT !["key"] = mem[p]]
        /\ UNCHANGED <<tmp, trust, history, spoilt>>
    BY <1>5 DEF InPlace
  <2>8. WritesKey(p)
    BY <1>1, <2>0, <2>3, <2>6, <2>7 DEF WritesKey, k, u
  <2> QED
    BY <2>8
<1>6. CASE Body /\ f # "key"
  <2> DEFINE st == IF f = "crt" THEN "refresh" ELSE "rename"
  <2>1. pc' = [pc EXCEPT ![p] = st] /\ UNCHANGED <<request, todo, mem, using, before, alone>>
    BY <1>6
  <2>2. /\ todo' = [todo EXCEPT ![p] = todo[p]] /\ todo[p] \in Seq(AJob)
        /\ mem' = [mem EXCEPT ![p] = mem[p]] /\ mem[p] \in Contents
        /\ using' = [using EXCEPT ![p] = using[p]] /\ using[p] \in Use
        /\ st \in Steps
    BY <2>1, SameExcept DEF Base, ProcessKinds, Steps
  <2> HIDE DEF st
  <2>3. Moves(p, st, todo[p], mem[p], using[p]) /\ Stays(p)
    BY <2>1, <2>2, MovesEffect DEF Base
  <2>4. CASE f = "crt"
    <3>1. Head(todo[p]).do = "cert"
      BY <1>3, <2>4, FileIs DEF HandOK, f
    <3>2. /\ content' = [content EXCEPT !["crt"] = mem[p]]
          /\ UNCHANGED <<tmp, trust, history, spoilt>>
      BY <1>6, <2>4 DEF InPlace
    <3>3. st = "refresh"
      BY <2>4 DEF st
    <3> QED
      BY <1>1, <2>3, <3>1, <3>2, <3>3 DEF WritesCert
  <2>5. CASE f # "crt"
    <3>1. f \in {"hosts", "binary"} /\ f \notin InPlace
      BY <1>3, <1>6, <2>5, FileIs DEF HandOK, f, InPlace
    <3>2. st = "rename"
      BY <2>5 DEF st
    <3>3. /\ \/ tmp[f] # None /\ tmp' = [tmp EXCEPT ![f] = mem[p]] /\ UNCHANGED content
             \/ tmp[f] = None /\ content' = [content EXCEPT ![f] = mem[p]] /\ UNCHANGED tmp
             \/ tmp[f] = None /\ UNCHANGED <<content, tmp>>
          /\ UNCHANGED <<trust, history, spoilt>>
      BY <1>6, <3>1
    <3> QED
      BY <1>1, <2>3, <3>1, <3>2, <3>3 DEF WritesTmp, f
  <2> QED
    BY <2>4, <2>5
<1> QED
  BY <1>1, <1>4, <1>5, <1>6

LEMMA RenameEffect ==
  ASSUME Base, NEW p \in Processes, Rename(p)
  PROVE  Stops(p) \/ Puts(p)
<1> DEFINE f == File(p)
           Body == /\ tmp[f] # None
                   /\ content' = [content EXCEPT ![f] = tmp[f]]
                   /\ tmp' = [tmp EXCEPT ![f] = None]
                   /\ redirect' = IF f = "hosts" THEN Address(p) ELSE redirect
                   /\ Done(p)
                   /\ UNCHANGED <<trust, calls, identities, foreign, spoilt>>
<1>1. pc[p] = "rename" /\ (Body \/ Refuses(p) \/ Fails(p))
  BY DEF Rename
<1>2. pc[p] \notin Rest
  BY <1>1 DEF Rest
<1>3. Head(todo[p]).do \in {"enable", "disable", "binary"}
  BY <1>1, <1>2, HeadJob
<1>4. CASE Refuses(p) \/ Fails(p)
  BY <1>4, StopsEffect
<1>5. CASE Body
  <2>1. Passes(p)
    BY <1>2, <1>3, <1>5, PassesEffect
  <2>2. f \in {"hosts", "binary"}
    BY <1>3, FileIs
  <2> HIDE DEF f
  <2> QED
    BY <1>1, <1>5, <2>1, <2>2 DEF Puts, f
<1> QED
  BY <1>1, <1>4, <1>5

(* Trust and removal. *)
Refreshes(p) ==
  /\ pc[p] = "refresh" /\ Passes(p)
  /\ trust' = IF content["crt"] = Torn THEN None ELSE content["crt"]
  /\ UNCHANGED <<content, tmp, history, spoilt>>
Removes(p) ==
  /\ pc[p] = "do" /\ Head(todo[p]).do = "drop-cert" /\ content["crt"] # None
  /\ Moves(p, "refresh", todo[p], mem[p], using[p]) /\ Stays(p)
  /\ content' = [content EXCEPT !["crt"] = None]
  /\ spoilt' \in {spoilt, spoilt \cup {"crt"}}
  /\ UNCHANGED <<tmp, trust, history>>
Uninstalls(p) ==
  /\ pc[p] = "do" /\ Head(todo[p]).do = "drop-binary" /\ Passes(p)
  /\ content' = [content EXCEPT !["binary"] = None]
  /\ spoilt' \in {spoilt, spoilt \cup {"binary"}}
  /\ UNCHANGED <<tmp, trust, history>>

LEMMA RefreshEffect ==
  ASSUME Base, NEW p \in Processes, Refresh(p)
  PROVE  Stops(p) \/ Refreshes(p)
<1>1. pc[p] = "refresh" /\ pc[p] \notin Rest
  BY DEF Refresh, Rest
<1>2. Head(todo[p]).do # "key"
  BY <1>1, HeadJob
<1>3. CASE Fails(p)
  BY <1>3, StopsEffect
<1>4. CASE ~Fails(p)
  <2>1. Done(p)
    BY <1>4 DEF Refresh
  <2>2. Passes(p)
    BY <1>1, <1>2, <2>1, PassesEffect
  <2> QED
    BY <1>1, <1>4, <2>2 DEF Refresh, Refreshes
<1> QED
  BY <1>3, <1>4

LEMMA DropCertEffect ==
  ASSUME Base, NEW p \in Processes, DropCert(p)
  PROVE  Stops(p) \/ Skips(p) \/ Removes(p)
<1>1. pc[p] = "do" /\ Head(todo[p]).do = "drop-cert" /\ pc[p] \notin Rest /\ File(p) = "crt"
  BY FileIs DEF DropCert, Doing, Rest
<1>2. CASE Fails(p)
  BY <1>2, StopsEffect
<1>3. CASE content["crt"] = None /\ Done(p) /\ UNCHANGED <<disk, history, spoilt>>
  BY <1>1, <1>3, PassesEffect DEF Skips
<1>4. CASE /\ content["crt"] # None
           /\ content' = [content EXCEPT !["crt"] = None]
           /\ pc' = [pc EXCEPT ![p] = "refresh"]
           /\ Spoils(p)
           /\ UNCHANGED <<tmp, trust, request, todo, mem, using, before, alone, history>>
  <2>1. /\ todo' = [todo EXCEPT ![p] = todo[p]] /\ todo[p] \in Seq(AJob)
        /\ mem' = [mem EXCEPT ![p] = mem[p]] /\ mem[p] \in Contents
        /\ using' = [using EXCEPT ![p] = using[p]] /\ using[p] \in Use
        /\ "refresh" \in Steps
    BY <1>4, SameExcept DEF Base, ProcessKinds, Steps
  <2>2. pc' = [pc EXCEPT ![p] = "refresh"] /\ UNCHANGED <<request, before, alone>>
    BY <1>4
  <2>3. Moves(p, "refresh", todo[p], mem[p], using[p]) /\ Stays(p)
    BY <2>1, <2>2, MovesEffect DEF Base
  <2>4. spoilt' \in {spoilt, spoilt \cup {"crt"}}
    BY <1>1, <1>4 DEF Spoils
  <2>5. UNCHANGED <<tmp, trust, history>>
    BY <1>4
  <2> QED
    BY <1>1, <1>4, <2>3, <2>4, <2>5 DEF Removes
<1> QED
  BY <1>2, <1>3, <1>4 DEF DropCert

LEMMA DropBinaryEffect ==
  ASSUME Base, NEW p \in Processes, DropBinary(p)
  PROVE  Stops(p) \/ Uninstalls(p)
<1>1. pc[p] = "do" /\ Head(todo[p]).do = "drop-binary" /\ pc[p] \notin Rest /\ File(p) = "binary"
  BY FileIs DEF DropBinary, Doing, Rest
<1>2. CASE Fails(p)
  BY <1>2, StopsEffect
<1>3. CASE /\ content' = [content EXCEPT !["binary"] = None]
           /\ Done(p)
           /\ Spoils(p)
           /\ UNCHANGED <<tmp, trust, history>>
  <2>1. Passes(p)
    BY <1>1, <1>3, PassesEffect
  <2>2. spoilt' \in {spoilt, spoilt \cup {"binary"}}
    BY <1>1, <1>3 DEF Spoils
  <2> QED
    BY <1>1, <1>3, <2>1, <2>2 DEF Uninstalls
<1> QED
  BY <1>2, <1>3 DEF DropBinary

(* The rest of an enroll run. *)
Seen == RedirectIP(Text(content["hosts"]))
Follows(p, s) ==
  /\ pc[p] = "do" /\ s \in IPs
  /\ \/ Head(todo[p]).do = "resolve" /\ s = Or(Address(p), Seen)
     \/ Head(todo[p]).do = "adopt" /\ s = Seen
  /\ Moves(p, "do", Enrolling(request[p], s), mem[p], [server |-> s, key |-> using[p].key])
  /\ Stays(p) /\ UNCHANGED <<disk, history, spoilt>>
Picks(p, s) ==
  /\ pc[p] = "do" /\ s \in IPs /\ Head(todo[p]).do = "resolve" /\ Address(p) = None /\ Seen = None
  /\ Moves(p, "do", <<Job("cert", s), Job("enable", s), Job("adopt", None)>>, mem[p], using[p])
  /\ Stays(p) /\ UNCHANGED <<disk, history, spoilt>>
Orders(p) ==
  /\ pc[p] = "do" /\ Head(todo[p]).do = "order" /\ using[p].key \in KeyIds
  /\ Passes(p) \/ \E how \in Rest : Ended(p, how)
  /\ identities' = identities \cup {using[p].key}
  /\ pc'[p] = "idle" => Passes(p)
  /\ UNCHANGED <<disk, calls, foreign, redirect, spoilt>>

LEMMA FollowEffect ==
  ASSUME Base, NEW p \in Processes, pc[p] = "do", NEW s \in IPs,
         todo' = [todo EXCEPT ![p] = Enrolling(request[p], s)],
         using' = [using EXCEPT ![p].server = s],
         UNCHANGED <<pc, request, mem, before, alone>>
  PROVE  /\ Moves(p, "do", Enrolling(request[p], s), mem[p], [server |-> s, key |-> using[p].key])
         /\ Stays(p)
<1> DEFINE u == [server |-> s, key |-> using[p].key]
           J == Enrolling(request[p], s)
<1>1. using[p] \in Use /\ u \in Use
  BY DEF Base, ProcessKinds, Use
<1>2. using' = [using EXCEPT ![p] = u]
  <2>1. [using[p] EXCEPT !.server = s] = u
    BY <1>1 DEF Use
  <2>2. using' = [using EXCEPT ![p] = [using[p] EXCEPT !.server = s]]
    OBVIOUS
  <2> QED
    BY <2>1, <2>2
<1>3. J \in Seq(AJob)
  <2>1. request[p] \in Requests
    BY HeadJob DEF Rest
  <2> QED
    BY <2>1, EnrollingJobs DEF ListOK
<1>4. /\ pc' = [pc EXCEPT ![p] = "do"] /\ "do" \in Steps
      /\ mem' = [mem EXCEPT ![p] = mem[p]] /\ mem[p] \in Contents
  BY SameExcept DEF Base, ProcessKinds, Steps
<1> HIDE DEF u, J
<1>5. todo' = [todo EXCEPT ![p] = J]
  BY DEF J
<1>6. Moves(p, "do", J, mem[p], u) /\ Stays(p)
  BY <1>1, <1>2, <1>3, <1>4, <1>5, MovesEffect DEF Base
<1> QED
  BY <1>6 DEF u, J

LEMMA SeenType == Base => Seen \in IPs \cup {None}
BY TextTidy DEF Base, Seen, Tidy

LEMMA ResolveEffect ==
  ASSUME Base, NEW p \in Processes, Resolve(p)
  PROVE  Stops(p) \/ \E s \in IPs : Follows(p, s) \/ Picks(p, s)
<1> DEFINE server == Or(Address(p), Seen)
<1>1. pc[p] = "do" /\ Head(todo[p]).do = "resolve" /\ pc[p] \notin Rest
  BY DEF Resolve, Doing, Rest
<1>2. server \in IPs \cup {None} /\ (server = None => Address(p) = None /\ Seen = None)
  BY <1>1, HeadJob, SeenType DEF Or
<1>3. CASE server = None /\ Refuses(p)
  BY <1>3, StopsEffect
<1>4. CASE /\ server # None
           /\ todo' = [todo EXCEPT ![p] = Enrolling(request[p], server)]
           /\ using' = [using EXCEPT ![p].server = server]
           /\ UNCHANGED <<pc, request, mem, before, alone, disk, history, spoilt>>
  <2>1. server \in IPs
    BY <1>2, <1>4
  <2>2. /\ todo' = [todo EXCEPT ![p] = Enrolling(request[p], server)]
        /\ using' = [using EXCEPT ![p].server = server]
        /\ UNCHANGED <<pc, request, mem, before, alone>>
        /\ UNCHANGED <<disk, history, spoilt>>
    BY <1>4
  <2> HIDE DEF server
  <2>3. /\ Moves(p, "do", Enrolling(request[p], server), mem[p],
                 [server |-> server, key |-> using[p].key])
        /\ Stays(p)
    BY <1>1, <2>1, <2>2, FollowEffect
  <2>4. Follows(p, server)
    BY <1>1, <2>1, <2>2, <2>3 DEF Follows, server
  <2> QED
    BY <2>1, <2>4
<1>5. CASE /\ server = None
           /\ \E picked \in IPs :
                todo' = [todo EXCEPT ![p] = <<Job("cert", picked), Job("enable", picked),
                                              Job("adopt", None)>>]
           /\ UNCHANGED using
           /\ UNCHANGED <<pc, request, mem, before, alone, disk, history, spoilt>>
  <2>1. PICK s \in IPs :
          todo' = [todo EXCEPT ![p] = <<Job("cert", s), Job("enable", s), Job("adopt", None)>>]
    BY <1>5
  <2> DEFINE J == <<Job("cert", s), Job("enable", s), Job("adopt", None)>>
  <2>2. J \in Seq(AJob)
    <3>1. /\ Job("cert", s) \in AJob /\ Job("enable", s) \in AJob /\ Job("adopt", None) \in AJob
      BY JobType DEF Dos
    <3> QED
      BY <3>1, JobsOfFew
  <2> HIDE DEF J
  <2>3. /\ todo' = [todo EXCEPT ![p] = J] /\ UNCHANGED <<request, before, alone>>
        /\ UNCHANGED <<disk, history, spoilt>>
    BY <1>5, <2>1 DEF J
  <2>4. /\ pc' = [pc EXCEPT ![p] = "do"] /\ "do" \in Steps
        /\ mem' = [mem EXCEPT ![p] = mem[p]] /\ mem[p] \in Contents
        /\ using' = [using EXCEPT ![p] = using[p]] /\ using[p] \in Use
    BY <1>1, <1>5, SameExcept DEF Base, ProcessKinds, Steps
  <2>5. Moves(p, "do", J, mem[p], using[p]) /\ Stays(p)
    BY <2>2, <2>3, <2>4, MovesEffect DEF Base
  <2>6. Picks(p, s)
    BY <1>1, <1>2, <1>5, <2>3, <2>5 DEF Picks, J
  <2> QED
    BY <2>6
<1>6. \/ server = None /\ Refuses(p)
      \/ /\ \/ /\ server # None
               /\ todo' = [todo EXCEPT ![p] = Enrolling(request[p], server)]
               /\ using' = [using EXCEPT ![p].server = server]
            \/ /\ server = None
               /\ \E picked \in IPs :
                    todo' = [todo EXCEPT ![p] = <<Job("cert", picked), Job("enable", picked),
                                                  Job("adopt", None)>>]
               /\ UNCHANGED using
         /\ UNCHANGED <<pc, request, mem, before, alone, disk, history, spoilt>>
  BY DEF Resolve, Seen
<1> QED
  BY <1>3, <1>4, <1>5, <1>6

LEMMA AdoptEffect ==
  ASSUME Base, NEW p \in Processes, Adopt(p)
  PROVE  Stops(p) \/ \E s \in IPs : Follows(p, s)
<1>1. pc[p] = "do" /\ Head(todo[p]).do = "adopt"
  BY DEF Adopt, Doing
<1>2. CASE Refuses(p)
  BY <1>2, StopsEffect
<1>3. CASE /\ Seen # None
           /\ todo' = [todo EXCEPT ![p] = Enrolling(request[p], Seen)]
           /\ using' = [using EXCEPT ![p].server = Seen]
           /\ UNCHANGED <<pc, request, mem, before, alone, disk, history, spoilt>>
  <2> DEFINE s == Seen
  <2>1. s \in IPs
    BY <1>3, SeenType
  <2>2. /\ todo' = [todo EXCEPT ![p] = Enrolling(request[p], s)]
        /\ using' = [using EXCEPT ![p].server = s]
        /\ UNCHANGED <<pc, request, mem, before, alone>>
        /\ UNCHANGED <<disk, history, spoilt>>
    BY <1>3
  <2> HIDE DEF s
  <2>3. /\ Moves(p, "do", Enrolling(request[p], s), mem[p], [server |-> s, key |-> using[p].key])
        /\ Stays(p)
    BY <1>1, <2>1, <2>2, FollowEffect
  <2>4. Follows(p, s)
    BY <1>1, <2>1, <2>2, <2>3 DEF Follows, s
  <2> QED
    BY <2>1, <2>4
<1>4. \/ Refuses(p)
      \/ /\ Seen # None
         /\ todo' = [todo EXCEPT ![p] = Enrolling(request[p], Seen)]
         /\ using' = [using EXCEPT ![p].server = Seen]
         /\ UNCHANGED <<pc, request, mem, before, alone, disk, history, spoilt>>
  BY DEF Adopt, Seen
<1> QED
  BY <1>2, <1>3, <1>4

LEMMA ReachEffect ==
  ASSUME Base, NEW p \in Processes, Reach(p)
  PROVE  Stops(p) \/ Skips(p)
<1>1. pc[p] = "do" /\ Head(todo[p]).do = "ca" /\ pc[p] \notin Rest
  BY DEF Reach, Doing, Rest
<1>2. CASE Fails(p)
  BY <1>2, StopsEffect
<1>3. CASE Done(p) /\ UNCHANGED <<disk, history, spoilt>>
  BY <1>1, <1>3, PassesEffect DEF Skips
<1> QED
  BY <1>2, <1>3 DEF Reach

LEMMA OrderEffect ==
  ASSUME Base, NEW p \in Processes, Order(p)
  PROVE  Orders(p)
<1>1. pc[p] = "do" /\ Head(todo[p]).do = "order" /\ pc[p] \notin Rest
  BY DEF Order, Doing, Rest
<1>2. using[p].key \in KeyIds
  <2>1. ListOK(todo[p], using[p].key) /\ todo[p] # <<>>
    BY <1>1, HeadJob
  <2>2. Head(todo[p]).do # "key"
    BY <1>1
  <2> QED
    BY <1>1, <2>1, <2>2, TailOK
<1>3. CASE Done(p)
  <2>1. Passes(p)
    BY <1>1, <1>3, PassesEffect
  <2> QED
    BY <1>1, <1>2, <2>1 DEF Order, Orders
<1>4. CASE Over(p, "stopped")
  <2>1. "stopped" \in Rest
    BY DEF Rest
  <2>2. Ended(p, "stopped")
    BY <1>4, <2>1, OverEffect DEF Base
  <2>3. pc'[p] # "idle"
    BY <2>2 DEF Ended, Moves
  <2> QED
    BY <1>1, <1>2, <2>1, <2>2, <2>3 DEF Order, Orders
<1> QED
  BY <1>3, <1>4 DEF Order

(* A call, and the administrator's edit. *)
Begins(p, r) ==
  /\ Resting(p) /\ r \in Requests /\ Jobs(r) # <<>>
  /\ calls' \in 0 .. MaxCalls
  /\ Moves(p, "do", Jobs(r), mem[p], using[p]) /\ request'[p] = r
  /\ before'[p] = [redirect |-> Seen, crt |-> content["crt"]]
  /\ \A q \in Processes : alone'[q] => q = p /\ \A o \in Processes \ {p} : Resting(o)
  /\ UNCHANGED <<content, tmp, trust, identities, foreign, redirect, spoilt>>

LEMMA CallEffect ==
  ASSUME Base, NEW p \in Processes, Call(p)
  PROVE  \E r : Begins(p, r)
<1>1. PICK r \in Requests :
        /\ Jobs(r) # <<>>
        /\ request' = [request EXCEPT ![p] = r]
        /\ todo' = [todo EXCEPT ![p] = Jobs(r)]
  BY DEF Call
<1> DEFINE J == Jobs(r)
           b == [redirect |-> Seen, crt |-> content["crt"]]
<1>2. J \in Seq(AJob)
  BY CallJobs DEF ListOK
<1>3. b \in [redirect : IPs \cup {None}, crt : IPs \cup {None, Torn}]
  BY SeenType DEF Base, FilesOK
<1>4. before' = [before EXCEPT ![p] = b]
  BY DEF Call, Seen
<1> HIDE DEF J, b
<1>5. todo' = [todo EXCEPT ![p] = J]
  BY <1>1 DEF J
<1>6. pc' = [pc EXCEPT ![p] = "do"] /\ UNCHANGED <<mem, using>> /\ "do" \in Steps
  BY DEF Call, Steps
<1>7. /\ pc' \in [Processes -> Steps] /\ pc'[p] = "do"
      /\ \A q \in Processes \ {p} : pc'[q] = pc[q]
  BY <1>6 DEF Base, ProcessKinds
<1>8. /\ todo' \in [Processes -> Seq(AJob)] /\ todo'[p] = J
      /\ \A q \in Processes \ {p} : todo'[q] = todo[q]
  BY <1>2, <1>5 DEF Base, ProcessKinds
<1>9. /\ request' \in [Processes -> Requests \cup {NoRequest}] /\ request'[p] = r
      /\ \A q \in Processes \ {p} : request'[q] = request[q]
  BY <1>1 DEF Base, ProcessKinds
<1>10. /\ before' \in [Processes -> [redirect : IPs \cup {None}, crt : IPs \cup {None, Torn}]]
       /\ before'[p] = b /\ \A q \in Processes \ {p} : before'[q] = before[q]
  BY <1>3, <1>4 DEF Base, ProcessKinds
<1>11. /\ alone' \in [Processes -> BOOLEAN]
       /\ \A q \in Processes : alone'[q] => q = p /\ \A o \in Processes \ {p} : Resting(o)
  <2>1. alone' = [q \in Processes |-> q = p /\ \A o \in Processes \ {p} : Resting(o)]
    BY DEF Call
  <2> QED
    BY <2>1, Zenon
<1>12. ProcessKinds'
  BY <1>6, <1>7, <1>8, <1>9, <1>10, <1>11 DEF Base, ProcessKinds
<1>13. OthersSame(p)
  BY <1>6, <1>7, <1>8, <1>9, <1>10, <1>11 DEF OthersSame
<1>14. calls' \in 0 .. MaxCalls
  <2>1. MaxCalls \in Nat /\ calls \in 0 .. MaxCalls
    BY HostAssumption DEF Base, DiskKinds
  <2>2. calls < MaxCalls /\ calls' = calls + 1
    BY DEF Call
  <2> QED
    BY <2>1, <2>2
<1>15. Moves(p, "do", J, mem[p], using[p])
  BY <1>6, <1>7, <1>8, <1>12, <1>13 DEF Moves
<1>16. Resting(p) /\ UNCHANGED <<content, tmp, trust, identities, foreign, redirect, spoilt>>
  BY DEF Call
<1>17. Begins(p, r)
  BY <1>1, <1>9, <1>10, <1>11, <1>14, <1>15, <1>16 DEF Begins, J, b
<1> QED
  BY <1>17

LEMMA StepCases ==
  ASSUME Base, Next
  PROVE  \/ Edit
         \/ \E p \in Processes :
              \/ Stops(p) \/ Skips(p) \/ (\E data : Takes(p, data)) \/ (\E k : Uses(p, k))
              \/ Opens(p) \/ WritesTmp(p) \/ WritesCert(p) \/ WritesKey(p) \/ Puts(p)
              \/ Refreshes(p) \/ Removes(p) \/ Uninstalls(p)
              \/ (\E s : Follows(p, s)) \/ (\E s : Picks(p, s)) \/ Orders(p)
              \/ (\E r : Begins(p, r))
<1>1. CASE Edit
  BY <1>1
<1>2. ASSUME NEW p \in Processes,
             \/ Call(p) \/ Unaddressed(p) \/ HostsRead(p) \/ BinaryRead(p) \/ CertRead(p)
             \/ KeyRead(p) \/ Open(p) \/ Write(p) \/ Rename(p) \/ Refresh(p) \/ DropCert(p)
             \/ DropBinary(p) \/ Resolve(p) \/ Adopt(p) \/ Reach(p) \/ Order(p) \/ Kill(p)
      PROVE  \/ Stops(p) \/ Skips(p) \/ (\E data : Takes(p, data)) \/ (\E k : Uses(p, k))
             \/ Opens(p) \/ WritesTmp(p) \/ WritesCert(p) \/ WritesKey(p) \/ Puts(p)
             \/ Refreshes(p) \/ Removes(p) \/ Uninstalls(p)
             \/ (\E s : Follows(p, s)) \/ (\E s : Picks(p, s)) \/ Orders(p)
             \/ (\E r : Begins(p, r))
  <2>1. Unaddressed(p) \/ Kill(p) => Stops(p)
    BY StopsEffect
  <2>2. HostsRead(p) => Stops(p) \/ \E data : Takes(p, data)
    BY HostsReadEffect
  <2>3. BinaryRead(p) => Stops(p) \/ Skips(p) \/ \E data : Takes(p, data)
    BY BinaryReadEffect
  <2>4. CertRead(p) => Stops(p) \/ \E data : Takes(p, data)
    BY CertReadEffect
  <2>5. KeyRead(p) => Stops(p) \/ (\E k : Uses(p, k)) \/ \E data : Takes(p, data)
    BY KeyReadEffect
  <2>6. Open(p) => Stops(p) \/ Opens(p)
    BY OpenEffect
  <2>7. Write(p) => Stops(p) \/ WritesTmp(p) \/ WritesCert(p) \/ WritesKey(p)
    BY WriteEffect
  <2>8. Rename(p) => Stops(p) \/ Puts(p)
    BY RenameEffect
  <2>9. Refresh(p) => Stops(p) \/ Refreshes(p)
    BY RefreshEffect
  <2>10. DropCert(p) => Stops(p) \/ Skips(p) \/ Removes(p)
    BY DropCertEffect
  <2>11. DropBinary(p) => Stops(p) \/ Uninstalls(p)
    BY DropBinaryEffect
  <2>12. Resolve(p) => Stops(p) \/ (\E s : Follows(p, s)) \/ (\E s : Picks(p, s))
    BY ResolveEffect
  <2>13. Adopt(p) => Stops(p) \/ (\E s : Follows(p, s))
    BY AdoptEffect
  <2>14. Reach(p) => Stops(p) \/ Skips(p)
    BY ReachEffect
  <2>15. Order(p) => Orders(p)
    BY OrderEffect
  <2>16. Call(p) => \E r : Begins(p, r)
    BY CallEffect
  <2> QED
    BY <1>2, <2>1, <2>2, <2>3, <2>4, <2>5, <2>6, <2>7, <2>8, <2>9, <2>10, <2>11, <2>12,
       <2>13, <2>14, <2>15, <2>16, Zenon
<1> QED
  BY <1>1, <1>2 DEF Next

-----------------------------------------------------------------------------
(* The invariant is kept, part by part *)

LEMMA OneControlled ==
  ASSUME Base, NEW p \in Processes, OthersSame(p),
         ControlOK(pc'[p], request'[p], todo'[p], mem'[p], using'[p])
  PROVE  Controlled'
<1>1. ASSUME NEW q \in Processes \ {p}
      PROVE  ControlOK(pc'[q], request'[q], todo'[q], mem'[q], using'[q])
  <2>1. ControlOK(pc[q], request[q], todo[q], mem[q], using[q])
    BY DEF Base, Controlled
  <2>2. /\ pc'[q] = pc[q] /\ request'[q] = request[q] /\ todo'[q] = todo[q]
        /\ mem'[q] = mem[q] /\ using'[q] = using[q]
    BY DEF OthersSame
  <2> QED
    BY <2>1, <2>2
<1> QED
  BY <1>1 DEF Controlled

LEMMA NoJobs == \A r, m, u : \A st \in Rest : ControlOK(st, r, <<>>, m, u)
<1>1. \A k : ListOK(<<>>, k)
  BY DEF ListOK
<1>2. \A st \in Rest : st \notin Hand /\ st # "rename" /\ st # "refresh"
  BY DEF Rest, Hand
<1> QED
  BY <1>1, <1>2 DEF ControlOK

LEMMA EndedControlled ==
  ASSUME Base, NEW p \in Processes, NEW how \in Rest, Ended(p, how)
  PROVE  Controlled'
<1>1. OthersSame(p) /\ pc'[p] = how /\ todo'[p] = <<>>
  BY DEF Ended, Moves
<1>2. ControlOK(pc'[p], request'[p], todo'[p], mem'[p], using'[p])
  BY <1>1, NoJobs
<1> QED
  BY <1>1, <1>2, OneControlled

(* A process that goes on with a fit list of jobs. *)
LEMMA GoesOn ==
  ASSUME Base, NEW p \in Processes, NEW J, NEW m, NEW u,
         Moves(p, "do", J, m, u), request'[p] \in Requests, J # <<>>, ListOK(J, u.key)
  PROVE  Controlled'
<1>1. OthersSame(p) /\ pc'[p] = "do" /\ todo'[p] = J /\ mem'[p] = m /\ using'[p] = u
  BY DEF Moves
<1>2. ControlOK("do", request'[p], J, m, u)
  BY DEF ControlOK, Rest, Hand
<1> QED
  BY <1>1, <1>2, OneControlled

LEMMA PassesControlled ==
  ASSUME Base, NEW p \in Processes, Passes(p)
  PROVE  Controlled'
<1>1. CASE Ended(p, "idle")
  BY <1>1, EndedControlled DEF Rest
<1>2. CASE /\ Tail(todo[p]) # <<>>
           /\ Moves(p, "do", Tail(todo[p]), None, using[p]) /\ Stays(p)
  <2>1. /\ todo[p] # <<>> /\ ListOK(todo[p], using[p].key) /\ request[p] \in Requests
        /\ Head(todo[p]).do # "key"
    BY HeadJob DEF Passes
  <2>2. ListOK(Tail(todo[p]), using[p].key)
    BY <2>1, TailOK
  <2>3. request'[p] \in Requests
    BY <1>2, <2>1 DEF Stays
  <2> QED
    BY <1>2, <2>2, <2>3, GoesOn
<1> QED
  BY <1>1, <1>2 DEF Passes

(* A process that stays at its job. *)
LEMMA StaysControlled ==
  ASSUME Base, NEW p \in Processes, pc[p] \notin Rest, NEW st \in Steps \ Rest, NEW m,
         Moves(p, st, todo[p], m, using[p]), Stays(p),
         st \in Hand => HandOK(Head(todo[p]), request[p], m),
         st = "rename" => Head(todo[p]).do \in {"enable", "disable", "binary"},
         st = "refresh" => Head(todo[p]).do \in {"cert", "drop-cert"}
  PROVE  Controlled'
<1>1. /\ OthersSame(p) /\ pc'[p] = st /\ todo'[p] = todo[p] /\ mem'[p] = m
      /\ using'[p] = using[p] /\ request'[p] = request[p]
  BY DEF Moves, Stays
<1>2. todo[p] # <<>> /\ request[p] \in Requests /\ ListOK(todo[p], using[p].key)
  BY HeadJob
<1>3. ControlOK(st, request[p], todo[p], m, using[p])
  BY <1>2 DEF ControlOK
<1> QED
  BY <1>1, <1>3, OneControlled

LEMMA ControlledStep ==
  ASSUME Base, Next
  PROVE  Controlled' /\ ProcessKinds'
<1>1. CASE Edit
  <2>1. UNCHANGED <<pc, request, todo, mem, using, before>>
    BY <1>1 DEF Edit
  <2>2. alone' = [p \in Processes |-> FALSE]
    BY <1>1 DEF Edit
  <2>3. ProcessKinds'
    BY <2>1, <2>2 DEF Base, ProcessKinds
  <2>4. Controlled'
    BY <2>1 DEF Base, Controlled
  <2> QED
    BY <2>3, <2>4
<1>2. ASSUME NEW p \in Processes, Stops(p) PROVE Controlled' /\ ProcessKinds'
  BY <1>2, EndedControlled DEF Stops, Ended, Moves
<1>3. ASSUME NEW p \in Processes, Passes(p) PROVE Controlled' /\ ProcessKinds'
  BY <1>3, PassesControlled DEF Passes, Ended, Moves
<1>4. ASSUME NEW p \in Processes, NEW data, Takes(p, data) PROVE Controlled' /\ ProcessKinds'
  <2>1. /\ pc[p] \notin Rest /\ "open" \in Steps \ Rest
        /\ Moves(p, "open", todo[p], data, using[p]) /\ Stays(p)
        /\ HandOK(Head(todo[p]), request[p], data)
    BY <1>4 DEF Takes, Rest, Steps
  <2>2. Controlled'
    BY <2>1, StaysControlled
  <2> QED
    BY <2>1, <2>2 DEF Moves
<1>5. ASSUME NEW p \in Processes, NEW k, Uses(p, k) PROVE Controlled' /\ ProcessKinds'
  <2> DEFINE u == [server |-> using[p].server, key |-> k]
  <2>1. pc[p] \notin Rest /\ k \in KeyIds /\ u.key = k
    BY <1>5 DEF Uses, Rest
  <2>2. todo[p] # <<>> /\ ListOK(todo[p], using[p].key) /\ request[p] \in Requests
    BY <2>1, HeadJob
  <2>3. ListOK(Tail(todo[p]), u.key)
    BY <2>1, <2>2, TailOK
  <2>4. /\ Moves(p, "do", Tail(todo[p]), mem[p], u) /\ Tail(todo[p]) # <<>>
        /\ request'[p] \in Requests
    BY <1>5, <2>2 DEF Uses, Stays
  <2> HIDE DEF u
  <2>5. Controlled'
    BY <2>3, <2>4, GoesOn
  <2> QED
    BY <2>4, <2>5 DEF Moves
<1>6. ASSUME NEW p \in Processes, Opens(p) PROVE Controlled' /\ ProcessKinds'
  <2>1. /\ pc[p] \notin Rest /\ pc[p] \in Hand /\ "write" \in Steps \ Rest
        /\ Moves(p, "write", todo[p], mem[p], using[p]) /\ Stays(p)
    BY <1>6 DEF Opens, Rest, Steps, Hand
  <2>2. HandOK(Head(todo[p]), request[p], mem[p])
    BY <2>1, HeadJob
  <2>3. Controlled'
    BY <2>1, <2>2, StaysControlled
  <2> QED
    BY <2>1, <2>3 DEF Moves
<1>7. ASSUME NEW p \in Processes, WritesTmp(p) PROVE Controlled' /\ ProcessKinds'
  <2>1. /\ pc[p] \notin Rest /\ pc[p] \in Hand /\ "rename" \in Steps \ Rest
        /\ Moves(p, "rename", todo[p], mem[p], using[p]) /\ Stays(p)
        /\ File(p) \in {"hosts", "binary"}
    BY <1>7 DEF WritesTmp, Rest, Steps, Hand
  <2>2. HandOK(Head(todo[p]), request[p], mem[p])
    BY <2>1, HeadJob
  <2>3. Head(todo[p]).do \in {"enable", "disable", "binary"}
    BY <2>1, <2>2, FileIs DEF HandOK
  <2>4. Controlled'
    BY <2>1, <2>2, <2>3, StaysControlled
  <2> QED
    BY <2>1, <2>4 DEF Moves
<1>8. ASSUME NEW p \in Processes, WritesCert(p) \/ Removes(p) PROVE Controlled' /\ ProcessKinds'
  <2>1. /\ pc[p] \notin Rest /\ "refresh" \in Steps \ Rest /\ "refresh" \notin Hand
        /\ Moves(p, "refresh", todo[p], mem[p], using[p]) /\ Stays(p)
        /\ Head(todo[p]).do \in {"cert", "drop-cert"}
    BY <1>8 DEF WritesCert, Removes, Rest, Steps, Hand
  <2>2. Controlled'
    BY <2>1, StaysControlled
  <2> QED
    BY <2>1, <2>2 DEF Moves
<1>9. ASSUME NEW p \in Processes, WritesKey(p) PROVE Controlled' /\ ProcessKinds'
  <2> DEFINE u == [server |-> using[p].server, key |-> mem[p]]
  <2>1. pc[p] \notin Rest /\ mem[p] \in KeyIds /\ u.key = mem[p]
    BY <1>9 DEF WritesKey, Rest
  <2>2. todo[p] # <<>> /\ ListOK(todo[p], using[p].key) /\ request[p] \in Requests
    BY <2>1, HeadJob
  <2>3. ListOK(Tail(todo[p]), u.key)
    BY <2>1, <2>2, TailOK
  <2>4. /\ Moves(p, "do", Tail(todo[p]), mem[p], u) /\ Tail(todo[p]) # <<>>
        /\ request'[p] \in Requests
    BY <1>9, <2>2 DEF WritesKey, Stays
  <2> HIDE DEF u
  <2>5. Controlled'
    BY <2>3, <2>4, GoesOn
  <2> QED
    BY <2>4, <2>5 DEF Moves
<1>10. ASSUME NEW p \in Processes, NEW s, Follows(p, s) PROVE Controlled' /\ ProcessKinds'
  <2> DEFINE u == [server |-> s, key |-> using[p].key]
             J == Enrolling(request[p], s)
  <2>1. pc[p] \notin Rest /\ s \in IPs
    BY <1>10 DEF Follows, Rest
  <2>2. request[p] \in Requests
    BY <2>1, HeadJob
  <2>3. ListOK(J, u.key) /\ J # <<>>
    BY <2>1, <2>2, EnrollingJobs
  <2>4. Moves(p, "do", J, mem[p], u) /\ request'[p] \in Requests
    BY <1>10, <2>2 DEF Follows, Stays
  <2> HIDE DEF u, J
  <2>5. Controlled'
    BY <2>3, <2>4, GoesOn
  <2> QED
    BY <2>4, <2>5 DEF Moves
<1>11. ASSUME NEW p \in Processes, NEW s, Picks(p, s) PROVE Controlled' /\ ProcessKinds'
  <2> DEFINE J == <<Job("cert", s), Job("enable", s), Job("adopt", None)>>
  <2>1. pc[p] \notin Rest /\ s \in IPs
    BY <1>11 DEF Picks, Rest
  <2>2. request[p] \in Requests
    BY <2>1, HeadJob
  <2>3. ListOK(J, using[p].key) /\ J # <<>>
    <3>1. /\ Job("cert", s) \in AJob /\ Job("enable", s) \in AJob /\ Job("adopt", None) \in AJob
          /\ Job("cert", s).do = "cert" /\ Job("enable", s).do = "enable"
          /\ Job("adopt", None).do = "adopt"
      BY <2>1, JobType DEF Dos
    <3>2. /\ JobsOf(J) = {Job("cert", s), Job("enable", s), Job("adopt", None)}
          /\ J \in Seq(AJob) /\ J # <<>>
      BY <3>1, JobsOfFew
    <3> HIDE DEF J
    <3>3. Plain(J)
      BY <3>1, <3>2 DEF Plain
    <3> QED
      BY <3>2, <3>3, PlainOK
  <2>4. Moves(p, "do", J, mem[p], using[p]) /\ request'[p] \in Requests
    BY <1>11, <2>2 DEF Picks, Stays
  <2> HIDE DEF J
  <2>5. Controlled'
    BY <2>3, <2>4, GoesOn
  <2> QED
    BY <2>4, <2>5 DEF Moves
<1>12. ASSUME NEW p \in Processes, Orders(p) PROVE Controlled' /\ ProcessKinds'
  <2>1. CASE Passes(p)
    BY <1>3, <2>1
  <2>2. CASE \E how \in Rest : Ended(p, how)
    BY <2>2, EndedControlled DEF Ended, Moves
  <2> QED
    BY <1>12, <2>1, <2>2 DEF Orders
<1>13. ASSUME NEW p \in Processes, NEW r, Begins(p, r) PROVE Controlled' /\ ProcessKinds'
  <2>1. /\ Moves(p, "do", Jobs(r), mem[p], using[p]) /\ request'[p] \in Requests
        /\ r \in Requests /\ Jobs(r) # <<>>
    BY <1>13 DEF Begins
  <2>2. ListOK(Jobs(r), using[p].key)
    BY <2>1, CallJobs
  <2>3. Controlled'
    BY <2>1, <2>2, GoesOn
  <2> QED
    BY <2>1, <2>3 DEF Moves
<1>14. ASSUME NEW p \in Processes, Skips(p) \/ Puts(p) \/ Refreshes(p) \/ Uninstalls(p)
       PROVE  Controlled' /\ ProcessKinds'
  BY <1>3, <1>14 DEF Skips, Puts, Refreshes, Uninstalls
<1> QED
  BY <1>1, <1>2, <1>4, <1>5, <1>6, <1>7, <1>8, <1>9, <1>10, <1>11, <1>12, <1>13, <1>14,
     StepCases, Zenon

LEMMA WrittenOK ==
  ASSUME Base, NEW p \in Processes, pc[p] \in Hand
  PROVE  /\ File(p) \in Files
         /\ File(p) = "hosts" => Tidy(mem[p]) /\ Addressed(mem[p], Address(p))
         /\ File(p) = "binary" => mem[p] \in Versions /\ mem[p] # Torn /\ mem[p] # None
         /\ File(p) = "crt" => mem[p] \in IPs
         /\ File(p) = "key" => mem[p] \in KeyIds
         /\ mem[p] # None /\ mem[p] # Torn
<1>1. pc[p] \notin Rest
  BY DEF Hand, Rest
<1>2. /\ HandOK(Head(todo[p]), request[p], mem[p]) /\ request[p] \in Request
      /\ Address(p) \in IPs \cup {None}
  BY <1>1, HeadJob
<1>3. Head(todo[p]).do \in {"enable", "disable", "binary", "cert", "key"}
  BY <1>2 DEF HandOK
<1>4. CASE Head(todo[p]).do \in {"enable", "disable"}
  <2>1. File(p) = "hosts"
    BY <1>4, FileIs
  <2>2. Tidy(mem[p]) /\ Addressed(mem[p], Address(p))
    BY <1>2, <1>4 DEF HandOK, Address
  <2>3. mem[p] \in Seq(Line)
    BY <2>2 DEF Tidy
  <2> QED
    BY <2>1, <2>2, <2>3, HostAssumption DEF Files
<1>5. CASE Head(todo[p]).do = "binary"
  <2>1. File(p) = "binary"
    BY <1>5, FileIs
  <2>2. mem[p] \in Versions
    BY <1>2, <1>5 DEF HandOK, Request
  <2> QED
    BY <2>1, <2>2, HostAssumption DEF Files
<1>6. CASE Head(todo[p]).do = "cert"
  <2>1. File(p) = "crt"
    BY <1>6, FileIs
  <2>2. mem[p] \in IPs
    BY <1>2, <1>6 DEF HandOK, Address
  <2> QED
    BY <2>1, <2>2, HostAssumption DEF Files, Line
<1>7. CASE Head(todo[p]).do = "key"
  <2>1. File(p) = "key"
    BY <1>7, FileIs
  <2>2. mem[p] \in KeyIds
    BY <1>2, <1>7 DEF HandOK
  <2> QED
    BY <2>1, <2>2, HostAssumption DEF Files
<1> QED
  BY <1>3, <1>4, <1>5, <1>6, <1>7

LEMMA DiskSame ==
  ASSUME Base, UNCHANGED <<content, tmp, trust, identities, redirect>>,
         calls' \in 0 .. MaxCalls, spoilt' \subseteq Files
  PROVE  DiskKinds' /\ FilesOK'
BY DEF Base, DiskKinds, FilesOK

LEMMA EditIs ==
  ASSUME Edit
  PROVE  \E l \in Foreign :
           /\ content' = [content EXCEPT !["hosts"] = Edited(Text(content["hosts"]), l)]
           /\ foreign' = Append(foreign, l)
BY DEF Edit, Edited

LEMMA TidyIsContents == \A s : Tidy(s) => s \in Contents
BY DEF Tidy, Contents

LEMMA DiskStep ==
  ASSUME Base, Next
  PROVE  DiskKinds' /\ FilesOK'
<1>0. DiskKinds /\ FilesOK
  BY DEF Base
<1>1. CASE Edit
  <2>1. PICK l \in Foreign :
          content' = [content EXCEPT !["hosts"] = Edited(Text(content["hosts"]), l)]
    BY <1>1, EditIs
  <2> DEFINE s == Edited(Text(content["hosts"]), l)
  <2>2. Tidy(s)
    BY <1>0, TextTidy, EditedTidy
  <2>3. s \in Contents
    BY <2>2, TidyIsContents
  <2> HIDE DEF s
  <2>4. content' = [content EXCEPT !["hosts"] = s]
    BY <2>1 DEF s
  <2>5. spoilt' \subseteq Files /\ UNCHANGED <<tmp, trust, calls, identities, redirect>>
    BY <1>0, <1>1 DEF Edit, DiskKinds, Files
  <2> QED
    BY <1>0, <2>2, <2>3, <2>4, <2>5 DEF DiskKinds, FilesOK, Files
<1>2. ASSUME NEW p \in Processes, NEW data, NEW k, NEW s,
             Stops(p) \/ Skips(p) \/ Uses(p, k) \/ Follows(p, s) \/ Picks(p, s)
      PROVE  DiskKinds' /\ FilesOK'
  <2>1. UNCHANGED <<disk, history, spoilt>>
    BY <1>2 DEF Stops, Skips, Uses, Follows, Picks
  <2>2. UNCHANGED <<content, tmp, trust, identities, redirect, calls, spoilt>>
    BY <2>1 DEF disk, history
  <2> QED
    BY <1>0, <2>2, DiskSame DEF DiskKinds
<1>3. ASSUME NEW p \in Processes, NEW data, Takes(p, data)
      PROVE  DiskKinds' /\ FilesOK'
  <2>1. Head(todo[p]).do \in {"enable", "disable", "binary", "cert", "key"}
    BY <1>3 DEF Takes, HandOK
  <2>2. File(p) \in Files
    BY <2>1, FileIs DEF Files
  <2>3. UNCHANGED <<content, tmp, trust, identities, redirect, calls>>
    BY <1>3 DEF Takes, disk, history
  <2>4. spoilt' \subseteq Files
    BY <1>0, <1>3, <2>2 DEF Takes, DiskKinds
  <2> QED
    BY <1>0, <2>3, <2>4, DiskSame DEF DiskKinds
<1>4. ASSUME NEW p \in Processes, Opens(p) PROVE DiskKinds' /\ FilesOK'
  <2> DEFINE f == File(p)
  <2>1. f \in Files
    BY <1>4, WrittenOK DEF Opens, Hand
  <2> HIDE DEF f
  <2>2. /\ UNCHANGED <<trust, calls, identities, redirect, spoilt>>
        /\ \/ f \in InPlace /\ content' = [content EXCEPT ![f] = Torn] /\ UNCHANGED tmp
           \/ f \notin InPlace /\ tmp' = [tmp EXCEPT ![f] = Torn] /\ UNCHANGED content
    BY <1>4 DEF Opens, history, f
  <2>3. Torn \in Contents
    BY DEF Contents
  <2> QED
    BY <1>0, <2>1, <2>2, <2>3 DEF DiskKinds, FilesOK, Files, InPlace
<1>5. ASSUME NEW p \in Processes, WritesTmp(p) PROVE DiskKinds' /\ FilesOK'
  <2> DEFINE f == File(p)
             m == mem[p]
  <2>1. /\ f \in {"hosts", "binary"}
        /\ f = "hosts" => Tidy(m)
        /\ f = "binary" => m \in Versions
    BY <1>5, WrittenOK DEF WritesTmp, Hand
  <2>2. m \in Contents
    BY <1>5 DEF Base, ProcessKinds
  <2>3. /\ UNCHANGED <<trust, calls, identities, redirect, spoilt>>
        /\ \/ tmp' = [tmp EXCEPT ![f] = m] /\ UNCHANGED content
           \/ content' = [content EXCEPT ![f] = m] /\ UNCHANGED tmp
           \/ UNCHANGED <<content, tmp>>
    BY <1>5 DEF WritesTmp, history
  <2> HIDE DEF f, m
  <2> QED
    BY <1>0, <2>1, <2>2, <2>3 DEF DiskKinds, FilesOK, Files
<1>6. ASSUME NEW p \in Processes, WritesCert(p) PROVE DiskKinds' /\ FilesOK'
  <2> DEFINE m == mem[p]
  <2>1. m \in IPs
    BY <1>6, WrittenOK, FileIs DEF WritesCert, Hand
  <2>2. m \in Contents
    BY <1>6 DEF Base, ProcessKinds
  <2>3. content' = [content EXCEPT !["crt"] = m]
        /\ UNCHANGED <<tmp, trust, calls, identities, redirect, spoilt>>
    BY <1>6 DEF WritesCert, history
  <2> HIDE DEF m
  <2> QED
    BY <1>0, <2>1, <2>2, <2>3 DEF DiskKinds, FilesOK, Files
<1>7. ASSUME NEW p \in Processes, WritesKey(p) PROVE DiskKinds' /\ FilesOK'
  <2> DEFINE m == mem[p]
  <2>1. m \in KeyIds
    BY <1>7 DEF WritesKey
  <2>2. m \in Contents
    BY <1>7 DEF Base, ProcessKinds
  <2>3. content' = [content EXCEPT !["key"] = m]
        /\ UNCHANGED <<tmp, trust, calls, identities, redirect, spoilt>>
    BY <1>7 DEF WritesKey, history
  <2> HIDE DEF m
  <2> QED
    BY <1>0, <2>1, <2>2, <2>3 DEF DiskKinds, FilesOK, Files
<1>8. ASSUME NEW p \in Processes, Puts(p) PROVE DiskKinds' /\ FilesOK'
  <2> DEFINE f == File(p)
             m == tmp[f]
             a == Address(p)
  <2>1. /\ f \in {"hosts", "binary"} /\ m # None
        /\ content' = [content EXCEPT ![f] = m] /\ tmp' = [tmp EXCEPT ![f] = None]
        /\ redirect' = IF f = "hosts" THEN a ELSE redirect
        /\ UNCHANGED <<trust, calls, identities, spoilt>>
    BY <1>8 DEF Puts
  <2>2. a \in IPs \cup {None}
    BY <1>8, HeadJob DEF Puts, Rest
  <2>3. m \in Contents /\ (f = "hosts" => m = Torn \/ Tidy(m))
        /\ (f = "binary" => m \in Versions \cup {Torn})
    BY <1>0, <2>1 DEF FilesOK, DiskKinds, Files
  <2> HIDE DEF f, m, a
  <2>4. None \in Contents
    BY DEF Contents
  <2> QED
    BY <1>0, <2>1, <2>2, <2>3, <2>4 DEF DiskKinds, FilesOK, Files
<1>9. ASSUME NEW p \in Processes, Refreshes(p) PROVE DiskKinds' /\ FilesOK'
  <2>1. /\ trust' = IF content["crt"] = Torn THEN None ELSE content["crt"]
        /\ UNCHANGED <<content, tmp, calls, identities, redirect, spoilt>>
    BY <1>9 DEF Refreshes, history
  <2>2. trust' \in IPs \cup {None}
    BY <1>0, <2>1 DEF FilesOK
  <2> QED
    BY <1>0, <2>1, <2>2 DEF DiskKinds, FilesOK
<1>10. ASSUME NEW p \in Processes, Removes(p) \/ Uninstalls(p) PROVE DiskKinds' /\ FilesOK'
  <2>1. PICK f \in {"crt", "binary"} :
          content' = [content EXCEPT ![f] = None] /\ spoilt' \in {spoilt, spoilt \cup {f}}
    BY <1>10 DEF Removes, Uninstalls
  <2>2. UNCHANGED <<tmp, trust, calls, identities, redirect>>
    BY <1>10 DEF Removes, Uninstalls, history
  <2>3. None \in Contents
    BY DEF Contents
  <2> QED
    BY <1>0, <2>1, <2>2, <2>3 DEF DiskKinds, FilesOK, Files
<1>11. ASSUME NEW p \in Processes, Orders(p) PROVE DiskKinds' /\ FilesOK'
  <2>1. /\ identities' = identities \cup {using[p].key} /\ using[p].key \in KeyIds
        /\ UNCHANGED <<content, tmp, trust, calls, redirect, spoilt>>
    BY <1>11 DEF Orders, disk
  <2> QED
    BY <1>0, <2>1 DEF DiskKinds, FilesOK
<1>12. ASSUME NEW p \in Processes, NEW r, Begins(p, r) PROVE DiskKinds' /\ FilesOK'
  <2>1. /\ UNCHANGED <<content, tmp, trust, identities, redirect>>
        /\ calls' \in 0 .. MaxCalls /\ spoilt' \subseteq Files
    BY <1>0, <1>12 DEF Begins, DiskKinds
  <2> QED
    BY <2>1, DiskSame
<1> QED
  BY <1>1, <1>2, <1>3, <1>4, <1>5, <1>6, <1>7, <1>8, <1>9, <1>10, <1>11, <1>12,
     StepCases, Zenon

(* The files that are in hand, after a step. *)
HandsShrink ==
  \A q \in Processes : \A f : InHand(q, f)' =>
    InHand(q, f) /\ mem'[q] = mem[q] /\ todo'[q] = todo[q]

LEMMA Releases ==
  ASSUME NEW p \in Processes, OthersSame(p), pc'[p] \notin Hand
  PROVE  HandsShrink
BY DEF OthersSame, Hand, HandsShrink, InHand, File

LEMMA PassesReleases ==
  ASSUME NEW p \in Processes, Passes(p)
  PROVE  HandsShrink
<1>1. OthersSame(p) /\ pc'[p] \in {"idle", "do"}
  BY DEF Passes, Ended, Moves
<1>2. "idle" \notin Hand /\ "do" \notin Hand
  BY DEF Hand
<1> QED
  BY <1>1, <1>2, Releases

LEMMA EndedReleases ==
  ASSUME NEW p \in Processes, NEW how \in Rest, Ended(p, how)
  PROVE  HandsShrink
<1>1. OthersSame(p) /\ pc'[p] \notin Hand
  BY DEF Ended, Moves, Rest, Hand
<1> QED
  BY <1>1, Releases

LEMMA HandStep ==
  ASSUME Base, Next
  PROVE  /\ spoilt \subseteq spoilt'
         /\ HandsShrink \/ \E p \in Processes : \E data : Takes(p, data)
<1>1. CASE Edit
  <2>1. spoilt \subseteq spoilt' /\ UNCHANGED <<pc, todo, mem>>
    BY <1>1 DEF Edit
  <2> QED
    BY <2>1 DEF HandsShrink, InHand, File
<1>2. ASSUME NEW p \in Processes, Stops(p)
      PROVE  spoilt \subseteq spoilt' /\ HandsShrink
  BY <1>2, EndedReleases DEF Stops
<1>3. ASSUME NEW p \in Processes, NEW k, Uses(p, k) \/ WritesKey(p)
      PROVE  spoilt \subseteq spoilt' /\ HandsShrink
  <2>1. OthersSame(p) /\ pc'[p] \notin Hand
    BY <1>3 DEF Uses, WritesKey, Moves, Hand
  <2> QED
    BY <1>3, <2>1, Releases DEF Uses, WritesKey
<1>4. ASSUME NEW p \in Processes, NEW s, Follows(p, s) \/ Picks(p, s)
      PROVE  spoilt \subseteq spoilt' /\ HandsShrink
  <2>1. OthersSame(p) /\ pc'[p] \notin Hand
    BY <1>4 DEF Follows, Picks, Moves, Hand
  <2> QED
    BY <1>4, <2>1, Releases DEF Follows, Picks
<1>5. ASSUME NEW p \in Processes, WritesCert(p) \/ Removes(p)
      PROVE  spoilt \subseteq spoilt' /\ HandsShrink
  <2>1. OthersSame(p) /\ pc'[p] \notin Hand
    BY <1>5 DEF WritesCert, Removes, Moves, Hand
  <2> QED
    BY <1>5, <2>1, Releases DEF WritesCert, Removes
<1>6. ASSUME NEW p \in Processes, NEW r, Begins(p, r)
      PROVE  spoilt \subseteq spoilt' /\ HandsShrink
  <2>1. OthersSame(p) /\ pc'[p] \notin Hand
    BY <1>6 DEF Begins, Moves, Hand
  <2> QED
    BY <1>6, <2>1, Releases DEF Begins
<1>7. ASSUME NEW p \in Processes, Opens(p) \/ WritesTmp(p)
      PROVE  spoilt \subseteq spoilt' /\ HandsShrink
  <2>1. /\ OthersSame(p) /\ pc[p] \in Hand /\ todo'[p] = todo[p] /\ mem'[p] = mem[p]
        /\ spoilt' = spoilt
    BY <1>7 DEF Opens, WritesTmp, Moves, Hand
  <2>2. HandsShrink
    BY <2>1 DEF OthersSame, HandsShrink, InHand, File, Hand
  <2> QED
    BY <2>1, <2>2
<1>8. ASSUME NEW p \in Processes, Skips(p) \/ Puts(p) \/ Refreshes(p) \/ Uninstalls(p)
      PROVE  spoilt \subseteq spoilt' /\ HandsShrink
  <2>1. Passes(p) /\ spoilt \subseteq spoilt'
    BY <1>8 DEF Skips, Puts, Refreshes, Uninstalls
  <2> QED
    BY <2>1, PassesReleases
<1>9. ASSUME NEW p \in Processes, Orders(p)
      PROVE  spoilt \subseteq spoilt' /\ HandsShrink
  <2>1. spoilt' = spoilt
    BY <1>9 DEF Orders
  <2>2. HandsShrink
    BY <1>9, PassesReleases, EndedReleases DEF Orders
  <2> QED
    BY <2>1, <2>2
<1>10. ASSUME NEW p \in Processes, NEW data, Takes(p, data)
       PROVE  spoilt \subseteq spoilt'
  BY <1>10 DEF Takes
<1> QED
  BY <1>1, <1>2, <1>3, <1>4, <1>5, <1>6, <1>7, <1>8, <1>9, <1>10, StepCases, Zenon

LEMMA TakesHand ==
  ASSUME NEW p \in Processes, NEW data, Takes(p, data)
  PROVE  /\ \A f : InHand(p, f)' => f = File(p)
         /\ pc'[p] = "open" /\ mem'[p] = data /\ todo'[p] = todo[p]
         /\ \A q \in Processes \ {p} : \A f : InHand(q, f)' =>
              InHand(q, f) /\ mem'[q] = mem[q] /\ todo'[q] = todo[q]
<1>1. OthersSame(p) /\ todo'[p] = todo[p] /\ pc'[p] = "open" /\ mem'[p] = data
  BY DEF Takes, Moves
<1> QED
  BY <1>1 DEF OthersSame, InHand, File

LEMMA UnsharedStep ==
  ASSUME Base, Unshared, Next
  PROVE  Unshared'
<1>1. spoilt \subseteq spoilt'
  BY HandStep
<1>2. CASE HandsShrink
  <2>1. \A q \in Processes : \A f : InHand(q, f)' => InHand(q, f)
    BY <1>2 DEF HandsShrink
  <2>2. ASSUME NEW f \in Files \ spoilt', NEW q \in Processes, NEW r \in Processes,
               InHand(q, f)', InHand(r, f)'
        PROVE  q = r
    BY <1>1, <2>1, <2>2 DEF Unshared
  <2> QED
    BY <2>2 DEF Unshared
<1>3. ASSUME NEW p \in Processes, NEW data, Takes(p, data)
      PROVE  Unshared'
  <2>1. /\ \A f : InHand(p, f)' => f = File(p)
        /\ \A q \in Processes \ {p} : \A f : InHand(q, f)' => InHand(q, f)
        /\ File(p) \notin spoilt' => \A q \in Processes \ {p} : ~InHand(q, File(p))
    BY <1>3, TakesHand DEF Takes
  <2>2. ASSUME NEW f \in Files \ spoilt', NEW q \in Processes, NEW r \in Processes,
               InHand(q, f)', InHand(r, f)'
        PROVE  q = r
    <3>1. CASE q # p /\ r # p
      BY <1>1, <2>1, <2>2, <3>1 DEF Unshared
    <3>2. CASE q = p \/ r = p
      <4>1. f = File(p)
        BY <2>1, <2>2, <3>2
      <4> QED
        BY <2>1, <2>2, <3>2, <4>1
    <3> QED
      BY <3>1, <3>2
  <2> QED
    BY <2>2 DEF Unshared
<1> QED
  BY <1>2, <1>3, HandStep

(* Who is alone stays so only while nobody else begins. *)
LEMMA AloneStep ==
  ASSUME Base, AloneRests, Next
  PROVE  AloneRests'
<1>1. CASE Edit
  <2>1. \A q \in Processes : ~alone'[q]
    BY <1>1 DEF Edit
  <2> QED
    BY <2>1 DEF AloneRests
<1>2. ASSUME NEW p \in Processes, NEW r, Begins(p, r) PROVE AloneRests'
  <2>1. /\ \A q \in Processes : alone'[q] => q = p /\ \A o \in Processes \ {p} : Resting(o)
        /\ \A q \in Processes \ {p} : pc'[q] = pc[q]
    BY <1>2 DEF Begins, Moves, OthersSame
  <2> QED
    BY <2>1 DEF AloneRests, Resting
<1>3. ASSUME NEW p \in Processes, OthersSame(p), alone'[p] => alone[p],
             pc[p] \notin Rest \/ pc'[p] \in Rest
      PROVE  AloneRests'
  <2>1. \A q \in Processes : alone'[q] => alone[q]
    BY <1>3 DEF OthersSame
  <2>2. ASSUME NEW q \in Processes, alone'[q], NEW r \in Processes \ {q} PROVE Resting(r)'
    <3>1. Resting(r)
      BY <2>1, <2>2 DEF AloneRests
    <3> QED
      BY <1>3, <3>1 DEF Resting, OthersSame, Rest
  <2> QED
    BY <2>2 DEF AloneRests
<1>4. ASSUME NEW p \in Processes, NEW how \in Rest, Ended(p, how) PROVE AloneRests'
  <2>1. OthersSame(p) /\ pc'[p] \in Rest /\ ~alone'[p]
    BY <1>4 DEF Ended, Moves
  <2> QED
    BY <1>3, <2>1
<1>5. ASSUME NEW p \in Processes, NEW st, NEW J, NEW m, NEW u,
             Moves(p, st, J, m, u), Stays(p), pc[p] \notin Rest
      PROVE AloneRests'
  <2>1. OthersSame(p) /\ (alone'[p] => alone[p])
    BY <1>5 DEF Moves, Stays
  <2> QED
    BY <1>3, <1>5, <2>1
<1>6. ASSUME NEW p \in Processes, Passes(p) PROVE AloneRests'
  <2>1. "idle" \in Rest
    BY DEF Rest
  <2>2. CASE Ended(p, "idle")
    BY <1>4, <2>1, <2>2
  <2>3. CASE Moves(p, "do", Tail(todo[p]), None, using[p]) /\ Stays(p)
    BY <1>5, <1>6, <2>3 DEF Passes
  <2> QED
    BY <1>6, <2>2, <2>3 DEF Passes
<1>7. ASSUME NEW p \in Processes, NEW data, Takes(p, data) PROVE AloneRests'
  <2>1. Moves(p, "open", todo[p], data, using[p]) /\ Stays(p) /\ pc[p] \notin Rest
    BY <1>7 DEF Takes, Rest
  <2> QED
    BY <1>5, <2>1
<1>8. ASSUME NEW p \in Processes, NEW k, Uses(p, k) \/ WritesKey(p) PROVE AloneRests'
  <2>1. /\ OthersSame(p) /\ (alone'[p] => alone[p]) /\ pc[p] \notin Rest
    BY <1>8 DEF Uses, WritesKey, Rest, Moves, Stays
  <2> QED
    BY <1>3, <2>1
<1>9. ASSUME NEW p \in Processes, NEW s, Follows(p, s) \/ Picks(p, s) PROVE AloneRests'
  <2>1. /\ OthersSame(p) /\ (alone'[p] => alone[p]) /\ pc[p] \notin Rest
    BY <1>9 DEF Follows, Picks, Rest, Moves, Stays
  <2> QED
    BY <1>3, <2>1
<1>10. ASSUME NEW p \in Processes, Opens(p) \/ WritesTmp(p) \/ WritesCert(p) \/ Removes(p)
       PROVE  AloneRests'
  <2>1. /\ OthersSame(p) /\ (alone'[p] => alone[p]) /\ pc[p] \notin Rest
    BY <1>10 DEF Opens, WritesTmp, WritesCert, Removes, Rest, Moves, Stays
  <2> QED
    BY <1>3, <2>1
<1>11. ASSUME NEW p \in Processes, Skips(p) \/ Puts(p) \/ Refreshes(p) \/ Uninstalls(p)
       PROVE  AloneRests'
  BY <1>6, <1>11 DEF Skips, Puts, Refreshes, Uninstalls
<1>12. ASSUME NEW p \in Processes, Orders(p) \/ Stops(p) PROVE AloneRests'
  BY <1>4, <1>6, <1>12 DEF Orders, Stops
<1> QED
  BY <1>1, <1>2, <1>7, <1>8, <1>9, <1>10, <1>11, <1>12, StepCases, Zenon

(* A temporary file changes in the hands of a process only. *)
LEMMA TmpStep ==
  ASSUME Base, Next
  PROVE  \/ tmp' = tmp
         \/ \E p \in Processes : /\ Opens(p) \/ WritesTmp(p) \/ Puts(p)
                                 /\ \A f \in Files \ {File(p)} : tmp'[f] = tmp[f]
<1>1. ASSUME NEW p \in Processes, Opens(p) \/ WritesTmp(p) \/ Puts(p)
      PROVE  \A f \in Files \ {File(p)} : tmp'[f] = tmp[f]
  <2>1. PICK x : tmp' = [tmp EXCEPT ![File(p)] = x] \/ tmp' = tmp
    BY <1>1 DEF Opens, WritesTmp, Puts
  <2>2. tmp \in [Files -> Contents]
    BY DEF Base, DiskKinds
  <2> QED
    BY <2>1, <2>2
<1>2. Edit => tmp' = tmp
  BY DEF Edit
<1>3. ASSUME NEW p \in Processes, NEW s,
             \/ Stops(p) \/ Skips(p) \/ Takes(p, s) \/ Uses(p, s) \/ WritesCert(p) \/ WritesKey(p)
             \/ Refreshes(p) \/ Removes(p) \/ Uninstalls(p)
             \/ Follows(p, s) \/ Picks(p, s) \/ Orders(p) \/ Begins(p, s)
      PROVE  tmp' = tmp
  BY <1>3 DEF Stops, Skips, Takes, Uses, WritesCert, WritesKey, Refreshes, Removes, Uninstalls,
     Follows, Picks, Orders, Begins, disk
<1> QED
  BY <1>1, <1>2, <1>3, StepCases, Zenon

LEMMA Hands ==
  ASSUME NEW p, pc[p] \in Hand
  PROVE  InHand(p, File(p))
BY DEF InHand, Hand

LEMMA OwnTmpStep ==
  ASSUME Base, Unshared, AloneRests, OwnTmp, Next
  PROVE  OwnTmp'
<1>0. spoilt \subseteq spoilt'
  BY HandStep
<1> SUFFICES ASSUME NEW q \in Processes, NEW f \in {"hosts", "binary"},
                    InHand(q, f)', f \notin spoilt' \/ alone'[q]
             PROVE  /\ pc'[q] = "write" => tmp'[f] # None
                    /\ pc'[q] = "rename" => tmp'[f] = mem'[q]
  BY DEF OwnTmp
<1>1. f \in Files /\ tmp \in [Files -> Contents] /\ tmp' \in [Files -> Contents]
  BY DiskStep DEF Base, DiskKinds, Files
(* Another process may not touch the temporary file, *)
<1>2. ASSUME InHand(q, f), f \notin spoilt \/ alone[q], NEW p \in Processes, p # q, pc[p] \in Hand
      PROVE  File(p) # f
  <2>1. InHand(p, File(p))
    BY <1>2, Hands
  <2>2. CASE f \notin spoilt
    BY <1>1, <1>2, <2>1, <2>2 DEF Unshared
  <2>3. CASE alone[q]
    BY <1>2, <2>3 DEF AloneRests, Resting, Hand
  <2> QED
    BY <1>2, <2>2, <2>3
(* so it keeps it while it is in the same hand and step. *)
<1>3. ASSUME InHand(q, f), alone'[q] => alone[q], pc'[q] = pc[q], mem'[q] = mem[q],
             \A p \in Processes : Opens(p) \/ WritesTmp(p) \/ Puts(p) => p # q
      PROVE  /\ pc'[q] = "write" => tmp'[f] # None
             /\ pc'[q] = "rename" => tmp'[f] = mem'[q]
  <2>1. f \notin spoilt \/ alone[q]
    BY <1>0, <1>3
  <2>2. /\ pc[q] = "write" => tmp[f] # None
        /\ pc[q] = "rename" => tmp[f] = mem[q]
    BY <1>3, <2>1 DEF OwnTmp
  <2>3. tmp'[f] = tmp[f]
    <3>1. CASE tmp' = tmp
      BY <3>1
    <3>2. ASSUME NEW p \in Processes, Opens(p) \/ WritesTmp(p) \/ Puts(p),
                 \A g \in Files \ {File(p)} : tmp'[g] = tmp[g]
          PROVE  tmp'[f] = tmp[f]
      <4>1. pc[p] \in Hand /\ p # q
        BY <1>3, <3>2 DEF Opens, WritesTmp, Puts, Hand
      <4>2. File(p) # f
        BY <1>2, <1>3, <2>1, <4>1
      <4> QED
        BY <1>1, <3>2, <4>2
    <3> QED
      BY <3>1, <3>2, TmpStep
  <2> QED
    BY <1>3, <2>2, <2>3
<1>4. CASE Opens(q)
  <2>1. /\ InHand(q, f) /\ f = File(q) /\ pc'[q] = "write"
        /\ tmp' = [tmp EXCEPT ![File(q)] = Torn]
    BY <1>4 DEF Opens, Moves, InHand, File, InPlace
  <2>2. tmp'[f] = Torn
    BY <1>1, <2>1
  <2> QED
    BY <2>1, <2>2, HostAssumption
<1>5. CASE WritesTmp(q)
  <2>1. /\ InHand(q, f) /\ f = File(q) /\ pc[q] = "write" /\ pc'[q] = "rename"
        /\ mem'[q] = mem[q] /\ (alone'[q] => alone[q]) /\ spoilt' = spoilt
    BY <1>5 DEF WritesTmp, Moves, InHand, File, Stays
  <2>2. tmp[f] # None
    BY <2>1 DEF OwnTmp
  <2>3. tmp' = [tmp EXCEPT ![f] = mem[q]]
    BY <1>5, <2>1, <2>2 DEF WritesTmp
  <2>4. tmp'[f] = mem'[q]
    BY <1>1, <2>1, <2>3
  <2> QED
    BY <2>1, <2>4
<1>6. CASE pc'[q] = "open"
  BY <1>6
<1>7. CASE Puts(q)
  <2>1. HandsShrink /\ pc'[q] \notin Hand
    BY <1>7, PassesReleases DEF Puts, Passes, Ended, Moves, Hand
  <2> QED
    BY <2>1 DEF InHand, Hand
<1>8. CASE ~Opens(q) /\ ~WritesTmp(q) /\ ~Puts(q) /\ pc'[q] # "open"
  <2>1. pc'[q] \in {"write", "rename"}
    BY <1>8 DEF InHand
  <2>2. pc'[q] = pc[q] /\ (alone'[q] => alone[q])
    <3>1. ASSUME Edit PROVE pc'[q] = pc[q] /\ (alone'[q] => alone[q])
      BY <3>1 DEF Edit
    <3>2. ASSUME NEW p \in Processes, OthersSame(p), p # q
          PROVE  pc'[q] = pc[q] /\ (alone'[q] => alone[q])
      BY <3>2 DEF OthersSame
    <3>3. ASSUME NEW p \in Processes, NEW s,
                 \/ Stops(p) \/ Skips(p) \/ Takes(p, s) \/ Uses(p, s) \/ Opens(p) \/ WritesTmp(p)
                 \/ WritesCert(p) \/ WritesKey(p) \/ Puts(p) \/ Refreshes(p) \/ Removes(p)
                 \/ Uninstalls(p) \/ Follows(p, s) \/ Picks(p, s) \/ Orders(p) \/ Begins(p, s)
          PROVE  pc'[q] = pc[q] /\ (alone'[q] => alone[q])
      <4>1. OthersSame(p)
        BY <3>3 DEF Stops, Skips, Takes, Uses, Opens, WritesTmp, WritesCert, WritesKey, Puts,
           Refreshes, Removes, Uninstalls, Follows, Picks, Orders, Begins, Passes, Ended, Moves
      <4>2. CASE p = q
        <5>1. Stops(p) \/ Orders(p) => pc'[p] \notin {"write", "rename"}
          BY DEF Stops, Orders, Passes, Ended, Moves, Rest
        <5>2. Skips(p) \/ Refreshes(p) \/ Uninstalls(p) => pc'[p] \notin {"write", "rename"}
          BY DEF Skips, Refreshes, Uninstalls, Passes, Ended, Moves
        <5>3. /\ Takes(p, s) \/ Uses(p, s) \/ WritesCert(p) \/ WritesKey(p) \/ Removes(p)
                 => pc'[p] \notin {"write", "rename"}
              /\ Follows(p, s) \/ Picks(p, s) \/ Begins(p, s) => pc'[p] \notin {"write", "rename"}
          BY DEF Takes, Uses, WritesCert, WritesKey, Removes, Follows, Picks, Begins, Moves
        <5> QED
          BY <1>8, <2>1, <3>3, <4>2, <5>1, <5>2, <5>3
      <4> QED
        BY <3>2, <4>1, <4>2
    <3> QED
      BY <3>1, <3>3, StepCases, Zenon
  <2>3. InHand(q, f) /\ mem'[q] = mem[q]
    <3>1. CASE HandsShrink
      BY <3>1 DEF HandsShrink
    <3>2. ASSUME NEW p \in Processes, NEW data, Takes(p, data)
          PROVE  InHand(q, f) /\ mem'[q] = mem[q]
      <4>1. p # q
        BY <1>8, <3>2, TakesHand
      <4> QED
        BY <3>2, <4>1, TakesHand
    <3> QED
      BY <3>1, <3>2, HandStep
  <2>4. \A p \in Processes : Opens(p) \/ WritesTmp(p) \/ Puts(p) => p # q
    BY <1>8
  <2> QED
    BY <1>3, <2>2, <2>3, <2>4
<1> QED
  BY <1>4, <1>5, <1>6, <1>7, <1>8

(* Which steps change the hosts file. *)
LEMMA HostsChange ==
  ASSUME Base, Unshared, AloneRests, OwnTmp, Next, "hosts" \notin spoilt
  PROVE  \/ content'["hosts"] = content["hosts"] /\ redirect' = redirect /\ foreign' = foreign
         \/ Edit
         \/ \E p \in Processes : /\ Puts(p) /\ InHand(p, "hosts") /\ tmp["hosts"] = mem[p]
                                 /\ content'["hosts"] = mem[p] /\ redirect' = Address(p)
                                 /\ foreign' = foreign
<1>0. content \in [Files -> Contents] /\ "hosts" \in Files
  BY DEF Base, DiskKinds, Files
<1>1. ASSUME NEW p \in Processes, NEW s,
             \/ Stops(p) \/ Skips(p) \/ Takes(p, s) \/ Uses(p, s) \/ Follows(p, s) \/ Picks(p, s)
             \/ Refreshes(p) \/ Orders(p) \/ Begins(p, s)
      PROVE  content'["hosts"] = content["hosts"] /\ redirect' = redirect /\ foreign' = foreign
  BY <1>1 DEF Stops, Skips, Takes, Uses, Follows, Picks, Refreshes, Orders, Begins, disk, history
<1>2. ASSUME NEW p \in Processes, WritesCert(p) \/ WritesKey(p) \/ Removes(p) \/ Uninstalls(p)
      PROVE  content'["hosts"] = content["hosts"] /\ redirect' = redirect /\ foreign' = foreign
  <2>1. PICK x : \E f \in {"crt", "key", "binary"} : content' = [content EXCEPT ![f] = x]
    BY <1>2 DEF WritesCert, WritesKey, Removes, Uninstalls
  <2>2. redirect' = redirect /\ foreign' = foreign
    BY <1>2 DEF WritesCert, WritesKey, Removes, Uninstalls, history
  <2> QED
    BY <1>0, <2>1, <2>2
<1>3. ASSUME NEW p \in Processes, Opens(p)
      PROVE  content'["hosts"] = content["hosts"] /\ redirect' = redirect /\ foreign' = foreign
  <2>1. UNCHANGED <<redirect, foreign>>
    BY <1>3 DEF Opens, history
  <2>2. CASE File(p) \in InPlace /\ content' = [content EXCEPT ![File(p)] = Torn]
    BY <1>0, <2>1, <2>2 DEF InPlace
  <2>3. CASE UNCHANGED content
    BY <2>1, <2>3
  <2> QED
    BY <1>3, <2>2, <2>3 DEF Opens
<1>4. ASSUME NEW p \in Processes, WritesTmp(p)
      PROVE  content'["hosts"] = content["hosts"] /\ redirect' = redirect /\ foreign' = foreign
  <2>1. UNCHANGED <<redirect, foreign>>
    BY <1>4 DEF WritesTmp, history
  <2>2. File(p) = "hosts" => tmp["hosts"] # None
    <3>1. InHand(p, File(p)) /\ pc[p] = "write"
      BY <1>4 DEF WritesTmp, InHand
    <3> QED
      BY <3>1 DEF OwnTmp
  <2>3. CASE File(p) = "hosts"
    BY <1>4, <2>1, <2>2, <2>3 DEF WritesTmp
  <2>4. CASE File(p) # "hosts"
    <3>1. content' = [content EXCEPT ![File(p)] = mem[p]] \/ content' = content
      BY <1>4 DEF WritesTmp
    <3> QED
      BY <1>0, <2>1, <2>4, <3>1
  <2> QED
    BY <2>3, <2>4
<1>5. ASSUME NEW p \in Processes, Puts(p)
      PROVE  \/ content'["hosts"] = content["hosts"] /\ redirect' = redirect /\ foreign' = foreign
             \/ /\ Puts(p) /\ InHand(p, "hosts") /\ tmp["hosts"] = mem[p]
                /\ content'["hosts"] = mem[p] /\ redirect' = Address(p) /\ foreign' = foreign
  <2>1. /\ content' = [content EXCEPT ![File(p)] = tmp[File(p)]] /\ foreign' = foreign
        /\ redirect' = IF File(p) = "hosts" THEN Address(p) ELSE redirect
        /\ InHand(p, File(p)) /\ pc[p] = "rename"
    BY <1>5 DEF Puts, InHand
  <2>2. CASE File(p) = "hosts"
    <3>1. tmp["hosts"] = mem[p]
      BY <2>1, <2>2 DEF OwnTmp
    <3>2. content'["hosts"] = mem[p]
      BY <1>0, <2>1, <2>2, <3>1
    <3> QED
      BY <1>5, <2>1, <2>2, <3>1, <3>2
  <2>3. CASE File(p) # "hosts"
    BY <1>0, <2>1, <2>3
  <2> QED
    BY <2>2, <2>3
<1> QED
  BY <1>1, <1>2, <1>3, <1>4, <1>5, StepCases, Zenon

LEMMA HostsStep ==
  ASSUME Base, Unshared, AloneRests, OwnTmp, HostsOK, Next
  PROVE  HostsOK'
<1> SUFFICES ASSUME "hosts" \notin spoilt'
             PROVE  /\ Tidy(content["hosts"])' /\ (ForeignLines(content["hosts"]) = foreign)'
                    /\ Addressed(content["hosts"], redirect)'
                    /\ \A q \in Processes : InHand(q, "hosts")' => ForeignLines(mem'[q]) = foreign'
  BY DEF HostsOK
<1>1. "hosts" \notin spoilt
  BY HandStep
<1>2. /\ Tidy(content["hosts"]) /\ ForeignLines(content["hosts"]) = foreign
      /\ Addressed(content["hosts"], redirect)
      /\ \A p \in Processes : InHand(p, "hosts") => ForeignLines(mem[p]) = foreign
  BY <1>1 DEF HostsOK
<1>3. Text(content["hosts"]) = content["hosts"]
  BY <1>2, TextTidy DEF Base
<1>4. CASE Edit
  <2>1. PICK l \in Foreign :
          /\ content' = [content EXCEPT !["hosts"] = Edited(Text(content["hosts"]), l)]
          /\ foreign' = Append(foreign, l)
    BY <1>4, EditIs
  <2>2. content'["hosts"] = Edited(content["hosts"], l)
    BY <1>3, <2>1 DEF Base, DiskKinds, Files
  <2>3. \A q \in Processes : ~InHand(q, "hosts")
    BY <1>4 DEF Edit
  <2>4. \A q \in Processes : ~InHand(q, "hosts")'
    <3>1. UNCHANGED <<pc, todo>>
      BY <1>4 DEF Edit
    <3> QED
      BY <2>3, <3>1 DEF InHand, File
  <2>5. redirect' = redirect
    BY <1>4 DEF Edit
  <2> QED
    BY <1>2, <2>1, <2>2, <2>4, <2>5, EditedTidy
<1>5. CASE ~Edit
  <2>1. foreign' = foreign
    BY <1>1, <1>5, HostsChange
  <2>2. \A q \in Processes : InHand(q, "hosts")' => ForeignLines(mem'[q]) = foreign'
    <3>1. CASE HandsShrink
      BY <1>2, <2>1, <3>1 DEF HandsShrink
    <3>2. ASSUME NEW p \in Processes, NEW data, Takes(p, data), NEW q \in Processes,
                 InHand(q, "hosts")'
          PROVE  ForeignLines(mem'[q]) = foreign'
      <4>1. CASE q = p
        <5>1. File(p) = "hosts" /\ mem'[p] = data
          BY <3>2, <4>1, TakesHand
        <5>2. ForeignLines(data) = ForeignLines(Text(content["hosts"]))
          BY <3>2, <5>1 DEF Takes
        <5> QED
          BY <1>2, <1>3, <2>1, <4>1, <5>1, <5>2
      <4>2. CASE q # p
        BY <1>2, <2>1, <3>2, <4>2, TakesHand
      <4> QED
        BY <4>1, <4>2
    <3> QED
      BY <3>1, <3>2, HandStep
  <2>3. CASE content'["hosts"] = content["hosts"] /\ redirect' = redirect
    BY <1>2, <2>1, <2>2, <2>3
  <2>4. ASSUME NEW p \in Processes, InHand(p, "hosts"), content'["hosts"] = mem[p],
               redirect' = Address(p)
        PROVE  /\ Tidy(content'["hosts"]) /\ ForeignLines(content'["hosts"]) = foreign'
               /\ Addressed(content'["hosts"], redirect')
    <3>1. pc[p] \in Hand /\ File(p) = "hosts"
      BY <2>4 DEF InHand, Hand
    <3>2. Tidy(mem[p]) /\ Addressed(mem[p], Address(p))
      BY <3>1, WrittenOK
    <3>3. ForeignLines(mem[p]) = foreign
      BY <1>2, <2>4
    <3> QED
      BY <2>1, <2>4, <3>2, <3>3
  <2> QED
    BY <1>1, <1>5, <2>2, <2>3, <2>4, HostsChange
<1> QED
  BY <1>4, <1>5

LEMMA BinaryStep ==
  ASSUME Base, Unshared, AloneRests, OwnTmp, BinaryOK, Next
  PROVE  BinaryOK'
<1> SUFFICES ASSUME "binary" \notin spoilt'
             PROVE  content'["binary"] # Torn
  BY DEF BinaryOK
<1>1. "binary" \notin spoilt /\ content["binary"] # Torn
  BY HandStep DEF BinaryOK
<1>2. content \in [Files -> Contents] /\ "binary" \in Files
  BY DEF Base, DiskKinds, Files
<1>3. ASSUME NEW p \in Processes, NEW s,
             \/ Stops(p) \/ Skips(p) \/ Takes(p, s) \/ Uses(p, s) \/ Follows(p, s) \/ Picks(p, s)
             \/ Refreshes(p) \/ Orders(p) \/ Begins(p, s)
      PROVE  content'["binary"] = content["binary"]
  BY <1>3 DEF Stops, Skips, Takes, Uses, Follows, Picks, Refreshes, Orders, Begins, disk
<1>4. ASSUME NEW p \in Processes, WritesCert(p) \/ WritesKey(p) \/ Removes(p)
      PROVE  content'["binary"] = content["binary"]
  <2>1. PICK x : \E f \in {"crt", "key"} : content' = [content EXCEPT ![f] = x]
    BY <1>4 DEF WritesCert, WritesKey, Removes
  <2> QED
    BY <1>2, <2>1
<1>5. ASSUME NEW p \in Processes, Uninstalls(p)
      PROVE  content'["binary"] # Torn
  <2>1. content' = [content EXCEPT !["binary"] = None]
    BY <1>5 DEF Uninstalls
  <2> QED
    BY <1>2, <2>1, HostAssumption
<1>6. ASSUME Edit PROVE content'["binary"] = content["binary"]
  <2>1. PICK x : content' = [content EXCEPT !["hosts"] = x]
    BY <1>6 DEF Edit
  <2> QED
    BY <1>2, <2>1
<1>7. ASSUME NEW p \in Processes, Opens(p)
      PROVE  content'["binary"] = content["binary"]
  <2>1. CASE File(p) \in InPlace /\ content' = [content EXCEPT ![File(p)] = Torn]
    BY <1>2, <2>1 DEF InPlace
  <2> QED
    BY <1>7, <2>1 DEF Opens
<1>8. ASSUME NEW p \in Processes, WritesTmp(p)
      PROVE  content'["binary"] = content["binary"]
  <2>1. InHand(p, File(p)) /\ pc[p] = "write"
    BY <1>8 DEF WritesTmp, InHand
  <2>2. CASE File(p) = "binary"
    <3>1. tmp["binary"] # None
      BY <1>1, <2>1, <2>2 DEF OwnTmp
    <3> QED
      BY <1>8, <2>2, <3>1 DEF WritesTmp
  <2>3. CASE File(p) # "binary"
    <3>1. content' = [content EXCEPT ![File(p)] = mem[p]] \/ content' = content
      BY <1>8 DEF WritesTmp
    <3> QED
      BY <1>2, <2>3, <3>1
  <2> QED
    BY <2>2, <2>3
<1>9. ASSUME NEW p \in Processes, Puts(p)
      PROVE  content'["binary"] # Torn
  <2>1. /\ content' = [content EXCEPT ![File(p)] = tmp[File(p)]]
        /\ InHand(p, File(p)) /\ pc[p] = "rename" /\ pc[p] \in Hand
    BY <1>9 DEF Puts, InHand, Hand
  <2>2. CASE File(p) = "binary"
    <3>1. tmp["binary"] = mem[p]
      BY <1>1, <2>1, <2>2 DEF OwnTmp
    <3>2. mem[p] # Torn
      BY <2>1, WrittenOK
    <3> QED
      BY <1>2, <2>1, <2>2, <3>1, <3>2
  <2>3. CASE File(p) # "binary"
    BY <1>1, <1>2, <2>1, <2>3
  <2> QED
    BY <2>2, <2>3
<1> QED
  <2>1. \/ content'["binary"] = content["binary"]
        \/ content'["binary"] # Torn
    BY <1>3, <1>4, <1>5, <1>6, <1>7, <1>8, <1>9, StepCases, Zenon
  <2> QED
    BY <1>1, <2>1

(* Which steps change the key file, who is registered and who has a key. *)
KeysSame ==
  /\ content'["key"] = content["key"] /\ identities' = identities
  /\ \A q \in Processes : using'[q].key \in {using[q].key, None}

LEMMA KeyChange ==
  ASSUME Base, Next
  PROVE  \/ KeysSame
         \/ \E p \in Processes :
              \/ \E k : Uses(p, k)
              \/ WritesKey(p)
              \/ Orders(p)
              \/ Opens(p) /\ File(p) = "key"
<1>0. content \in [Files -> Contents] /\ "key" \in Files
  BY DEF Base, DiskKinds, Files
<1>1. ASSUME NEW p \in Processes, OthersSame(p), using'[p].key \in {using[p].key, None}
      PROVE  \A q \in Processes : using'[q].key \in {using[q].key, None}
  BY <1>1 DEF OthersSame
<1>2. ASSUME NEW p \in Processes, NEW how, Ended(p, how)
      PROVE  \A q \in Processes : using'[q].key \in {using[q].key, None}
  <2>1. OthersSame(p) /\ using'[p] = Nothing
    BY <1>2 DEF Ended, Moves
  <2>2. Nothing.key = None
    BY DEF Nothing
  <2> QED
    BY <1>1, <2>1, <2>2
<1>3. ASSUME NEW p \in Processes, NEW st, NEW J, NEW m, Moves(p, st, J, m, using[p])
      PROVE  \A q \in Processes : using'[q].key \in {using[q].key, None}
  BY <1>1, <1>3 DEF Moves
<1>4. ASSUME NEW p \in Processes, Passes(p)
      PROVE  \A q \in Processes : using'[q].key \in {using[q].key, None}
  <2>1. CASE Ended(p, "idle")
    BY <1>2, <2>1
  <2>2. CASE Moves(p, "do", Tail(todo[p]), None, using[p])
    BY <1>3, <2>2
  <2> QED
    BY <1>4, <2>1, <2>2 DEF Passes
<1>5. CASE Edit
  <2>1. PICK x : content' = [content EXCEPT !["hosts"] = x]
    BY <1>5 DEF Edit
  <2>2. using' = using /\ identities' = identities
    BY <1>5 DEF Edit
  <2> QED
    BY <1>0, <2>1, <2>2 DEF KeysSame
<1>6. ASSUME NEW p \in Processes, Stops(p) PROVE KeysSame
  <2>1. content' = content /\ identities' = identities
    BY <1>6 DEF Stops, disk, history
  <2> QED
    BY <1>2, <1>6, <2>1 DEF Stops, KeysSame
<1>7. ASSUME NEW p \in Processes, Skips(p) \/ Refreshes(p) PROVE KeysSame
  <2>1. content' = content /\ identities' = identities /\ Passes(p)
    BY <1>7 DEF Skips, Refreshes, disk, history
  <2> QED
    BY <1>4, <2>1 DEF KeysSame
<1>8. ASSUME NEW p \in Processes, NEW data, Takes(p, data) PROVE KeysSame
  <2>1. /\ content' = content /\ identities' = identities
        /\ Moves(p, "open", todo[p], data, using[p])
    BY <1>8 DEF Takes, disk, history
  <2> QED
    BY <1>3, <2>1 DEF KeysSame
<1>9. ASSUME NEW p \in Processes, NEW s, Follows(p, s) PROVE KeysSame
  <2>1. /\ content' = content /\ identities' = identities /\ OthersSame(p)
        /\ using'[p] = [server |-> s, key |-> using[p].key]
    BY <1>9 DEF Follows, disk, history, Moves
  <2>2. using'[p].key = using[p].key
    BY <2>1
  <2> QED
    BY <1>1, <2>1, <2>2 DEF KeysSame
<1>10. ASSUME NEW p \in Processes, NEW s, Picks(p, s) PROVE KeysSame
  <2>1. /\ content' = content /\ identities' = identities
        /\ Moves(p, "do", <<Job("cert", s), Job("enable", s), Job("adopt", None)>>, mem[p], using[p])
    BY <1>10 DEF Picks, disk, history
  <2> QED
    BY <1>3, <2>1 DEF KeysSame
<1>11. ASSUME NEW p \in Processes, NEW r, Begins(p, r) PROVE KeysSame
  <2>1. /\ content' = content /\ identities' = identities
        /\ Moves(p, "do", Jobs(r), mem[p], using[p])
    BY <1>11 DEF Begins
  <2> QED
    BY <1>3, <2>1 DEF KeysSame
<1>12. ASSUME NEW p \in Processes, Opens(p), File(p) # "key" PROVE KeysSame
  <2>1. /\ content' = [content EXCEPT ![File(p)] = Torn] \/ content' = content
        /\ identities' = identities /\ Moves(p, "write", todo[p], mem[p], using[p])
    BY <1>12 DEF Opens, history
  <2>2. content'["key"] = content["key"]
    BY <1>0, <1>12, <2>1
  <2> QED
    BY <1>3, <2>1, <2>2 DEF KeysSame
<1>13. ASSUME NEW p \in Processes, WritesTmp(p) \/ WritesCert(p) \/ Removes(p) PROVE KeysSame
  <2>1. PICK x : \/ \E f \in {"hosts", "binary", "crt"} : content' = [content EXCEPT ![f] = x]
                 \/ content' = content
    BY <1>13 DEF WritesTmp, WritesCert, Removes
  <2>2. content'["key"] = content["key"]
    BY <1>0, <2>1
  <2>3. identities' = identities /\ \E st : Moves(p, st, todo[p], mem[p], using[p])
    BY <1>13 DEF WritesTmp, WritesCert, Removes, history
  <2> QED
    BY <1>3, <2>2, <2>3 DEF KeysSame
<1>14. ASSUME NEW p \in Processes, Puts(p) \/ Uninstalls(p) PROVE KeysSame
  <2>1. PICK x : \E f \in {"hosts", "binary"} : content' = [content EXCEPT ![f] = x]
    BY <1>14 DEF Puts, Uninstalls
  <2>2. content'["key"] = content["key"]
    BY <1>0, <2>1
  <2>3. identities' = identities /\ Passes(p)
    BY <1>14 DEF Puts, Uninstalls, history
  <2> QED
    BY <1>4, <2>2, <2>3 DEF KeysSame
<1> QED
  BY <1>5, <1>6, <1>7, <1>8, <1>9, <1>10, <1>11, <1>12, <1>13, <1>14, StepCases, Zenon

LEMMA KeyStep ==
  ASSUME Base, Unshared, KeyOK, Next
  PROVE  KeyOK'
<1> SUFFICES ASSUME "key" \notin spoilt'
             PROVE  /\ \A q \in Processes : InHand(q, "key")' => content'["key"] \notin KeyIds
                    /\ identities' \subseteq {content'["key"]}
                    /\ \A q \in Processes : using'[q].key \in {None, content'["key"]}
  BY DEF KeyOK
<1>0. content \in [Files -> Contents] /\ "key" \in Files
  BY DEF Base, DiskKinds, Files
<1>1. "key" \notin spoilt
  BY HandStep
<1>2. /\ \A p \in Processes : InHand(p, "key") => content["key"] \notin KeyIds
      /\ identities \subseteq {content["key"]}
      /\ \A p \in Processes : using[p].key \in {None, content["key"]}
  BY <1>1 DEF KeyOK
<1>3. None \notin KeyIds /\ Torn \notin KeyIds
  BY HostAssumption
<1>4. identities \subseteq KeyIds /\ \A p \in Processes : using[p].key \in KeyIds \cup {None}
  BY DEF Base, DiskKinds, ProcessKinds, Use
<1>5. CASE KeysSame
  <2>1. \A q \in Processes : using'[q].key \in {None, content'["key"]}
    BY <1>2, <1>5 DEF KeysSame
  <2>2. \A q \in Processes : InHand(q, "key")' => content'["key"] \notin KeyIds
    <3>1. CASE HandsShrink
      BY <1>2, <1>5, <3>1 DEF HandsShrink, KeysSame
    <3>2. ASSUME NEW p \in Processes, NEW data, Takes(p, data), NEW q \in Processes,
                 InHand(q, "key")'
          PROVE  content["key"] \notin KeyIds
      <4>1. CASE q = p
        <5>1. File(p) = "key"
          BY <3>2, <4>1, TakesHand
        <5>2. content["key"] = None
          BY <3>2, <5>1 DEF Takes
        <5> QED
          BY <1>3, <5>2
      <4>2. CASE q # p
        BY <1>2, <3>2, <4>2, TakesHand
      <4> QED
        BY <4>1, <4>2
    <3> QED
      BY <1>5, <3>1, <3>2, HandStep DEF KeysSame
  <2> QED
    BY <1>2, <1>5, <2>1, <2>2 DEF KeysSame
<1>6. ASSUME NEW p \in Processes, NEW k, Uses(p, k)
      PROVE  /\ \A q \in Processes : InHand(q, "key")' => content'["key"] \notin KeyIds
             /\ identities' \subseteq {content'["key"]}
             /\ \A q \in Processes : using'[q].key \in {None, content'["key"]}
  <2>1. /\ content' = content /\ identities' = identities /\ OthersSame(p) /\ k = content["key"]
        /\ using'[p] = [server |-> using[p].server, key |-> k] /\ pc'[p] = "do"
    BY <1>6 DEF Uses, Moves, disk, history
  <2>2. using'[p].key = content["key"]
    BY <2>1
  <2>3. HandsShrink
    BY <2>1, Releases DEF Hand
  <2> QED
    BY <1>2, <2>1, <2>2, <2>3 DEF OthersSame, HandsShrink
<1>7. ASSUME NEW p \in Processes, WritesKey(p)
      PROVE  /\ \A q \in Processes : InHand(q, "key")' => content'["key"] \notin KeyIds
             /\ identities' \subseteq {content'["key"]}
             /\ \A q \in Processes : using'[q].key \in {None, content'["key"]}
  <2> DEFINE k == mem[p]
  <2>1. /\ content' = [content EXCEPT !["key"] = k] /\ identities' = identities /\ OthersSame(p)
        /\ using'[p] = [server |-> using[p].server, key |-> k] /\ pc'[p] = "do"
        /\ k \in KeyIds /\ pc[p] = "write" /\ Head(todo[p]).do = "key"
    BY <1>7 DEF WritesKey, Moves, history
  <2> HIDE DEF k
  <2>2. using'[p].key = k
    BY <2>1
  <2>3. content'["key"] = k
    BY <1>0, <2>1
  <2>4. InHand(p, "key")
    BY <2>1, FileIs DEF InHand
  <2>5. content["key"] \notin KeyIds
    BY <1>2, <2>4
  <2>6. identities = {} /\ \A q \in Processes : using[q].key = None
    BY <1>2, <1>4, <2>5
  <2>7. HandsShrink
    BY <2>1, Releases DEF Hand
  <2>8. ASSUME NEW q \in Processes PROVE ~InHand(q, "key")'
    <3>1. CASE q = p
      BY <2>1, <3>1 DEF InHand
    <3>2. CASE q # p
      BY <1>0, <1>1, <2>4, <2>7, <3>2 DEF HandsShrink, Unshared
    <3> QED
      BY <3>1, <3>2
  <2> QED
    BY <2>1, <2>2, <2>3, <2>6, <2>8 DEF OthersSame
<1>8. ASSUME NEW p \in Processes, Orders(p)
      PROVE  /\ \A q \in Processes : InHand(q, "key")' => content'["key"] \notin KeyIds
             /\ identities' \subseteq {content'["key"]}
             /\ \A q \in Processes : using'[q].key \in {None, content'["key"]}
  <2>1. /\ content' = content /\ identities' = identities \cup {using[p].key}
        /\ using[p].key \in KeyIds
    BY <1>8 DEF Orders, disk
  <2>2. using[p].key = content["key"]
    BY <1>2, <1>3, <2>1
  <2>3. CASE Ended(p, "idle") \/ \E how \in Rest : Ended(p, how)
    <3>1. OthersSame(p) /\ using'[p] = Nothing
      BY <2>3 DEF Ended, Moves
    <3>2. using'[p].key = None
      BY <3>1 DEF Nothing
    <3>3. HandsShrink
      BY <2>3, EndedReleases DEF Rest
    <3> QED
      BY <1>2, <2>1, <2>2, <3>1, <3>2, <3>3 DEF OthersSame, HandsShrink
  <2>4. CASE Moves(p, "do", Tail(todo[p]), None, using[p])
    <3>1. OthersSame(p) /\ using'[p] = using[p] /\ pc'[p] = "do"
      BY <2>4 DEF Moves
    <3>2. HandsShrink
      BY <3>1, Releases DEF Hand
    <3> QED
      BY <1>2, <2>1, <2>2, <3>1, <3>2 DEF OthersSame, HandsShrink
  <2> QED
    BY <1>8, <2>3, <2>4 DEF Orders, Passes
<1>9. ASSUME NEW p \in Processes, Opens(p), File(p) = "key"
      PROVE  /\ \A q \in Processes : InHand(q, "key")' => content'["key"] \notin KeyIds
             /\ identities' \subseteq {content'["key"]}
             /\ \A q \in Processes : using'[q].key \in {None, content'["key"]}
  <2>1. /\ content' = [content EXCEPT !["key"] = Torn] /\ identities' = identities
        /\ Moves(p, "write", todo[p], mem[p], using[p]) /\ InHand(p, "key")
    BY <1>9 DEF Opens, InPlace, history, InHand
  <2>2. content'["key"] = Torn
    BY <1>0, <2>1
  <2>3. identities = {} /\ \A q \in Processes : using[q].key = None
    BY <1>2, <1>4, <2>1
  <2>4. \A q \in Processes : using'[q] = using[q]
    BY <2>1 DEF Moves, OthersSame
  <2> QED
    BY <1>3, <2>1, <2>2, <2>3, <2>4
<1> QED
  BY <1>5, <1>6, <1>7, <1>8, <1>9, KeyChange, Zenon

-----------------------------------------------------------------------------
(* A command that nobody disturbs *)

Server(r, u) == IF r.kind = "enroll" THEN u.server ELSE r.server
Names(J) == {j.do : j \in JobsOf(J)}

(* The jobs of a command that knows its server. *)
Fit(r, J, server) ==
  \A j \in JobsOf(J) :
    /\ r.kind = "install" => j.do \in {"binary", "cert", "enable"}
    /\ r.kind = "enroll" => j.do \in {"ca", "key", "order", "cert", "enable"}
    /\ r.kind = "uninstall" => j.do \in {"drop-cert", "disable", "drop-binary"}
    /\ r.kind \in {"enable", "disable", "cert"} => j.do = r.kind
    /\ j.do = "cert" => j.ip = server
    /\ j.do = "enable" /\ j.ip # None => j.ip = Or(r.ip, server)

(* Each thing that was asked for is still to do or done; D names what is to do. *)
Installed(r, D, bin) == r.kind = "install" /\ r.binary => "binary" \in D \/ bin = r.version
Trusted(r, D, server, tr) ==
  r.kind = "cert" \/ (r.kind = "install" /\ r.cert) \/ (r.kind = "enroll" /\ r.hosts)
    => "cert" \in D \/ tr = server
Redirected(r, D, server, seen) ==
  r.kind = "enable" \/ (r.kind \in {"install", "enroll"} /\ r.hosts)
    => "enable" \in D \/ seen = Or(r.ip, server)
Restored(r, D, seen) ==
  r.kind = "disable" \/ (r.kind = "uninstall" /\ r.hosts) => "disable" \in D \/ seen = None
Uninstalled(r, D, bin) ==
  r.kind = "uninstall" /\ r.binary => "drop-binary" \in D \/ bin = None
Distrusted(r, D, b, st, crt, tr) ==
  r.kind = "uninstall" /\ r.cert /\ b.crt # None =>
    ("drop-cert" \in D /\ (st = "refresh" \/ crt # None)) \/ tr = None
Identified(r, D, u, b, key) ==
  r.kind = "enroll" =>
    /\ "key" \in D \/ key = u.key
    /\ u.server = Or(r.server, Or(b.redirect, u.server))

Resolving(r, D) == r.kind = "enroll" /\ ("resolve" \in D \/ "adopt" \in D)
Unresolved(r, J, b, seen) ==
  \/ J = <<Job("resolve", r.server)>> /\ b.redirect = seen
  \/ /\ Names(J) \subseteq {"cert", "enable", "adopt"}
     /\ r.server = None /\ b.redirect = None
Resolved(st, r, J, u, b, seen, bin, crt, key, tr) ==
  LET server == Server(r, u)
      D == Names(J)
  IN /\ Fit(r, J, server)
     /\ Installed(r, D, bin) /\ Trusted(r, D, server, tr) /\ Redirected(r, D, server, seen)
     /\ Restored(r, D, seen) /\ Uninstalled(r, D, bin) /\ Distrusted(r, D, b, st, crt, tr)
     /\ Identified(r, D, u, b, key)

(* The certificate file is what the refresh is about. *)
Refreshing(J, crt) == crt = IF Head(J).do = "cert" THEN Head(J).ip ELSE None

Underway(st, r, J, u, b, seen, bin, crt, key, tr) ==
  /\ st = "refresh" => Refreshing(J, crt)
  /\ IF Resolving(r, Names(J)) THEN Unresolved(r, J, b, seen)
     ELSE Resolved(st, r, J, u, b, seen, bin, crt, key, tr)
AloneOn(p) ==
  Underway(pc[p], request[p], todo[p], using[p], before[p], Seen, content["binary"],
           content["crt"], content["key"], trust)
Undisturbed == \A p \in Processes : alone[p] /\ ~Resting(p) => AloneOn(p)

LEMMA NamesOfTail ==
  ASSUME NEW J \in Seq(AJob), J # <<>>
  PROVE  /\ Head(J) \in JobsOf(J) /\ Head(J).do \in Names(J)
         /\ \A j \in JobsOf(Tail(J)) : j \in JobsOf(J)
         /\ \A d : d \in Names(J) <=> d = Head(J).do \/ d \in Names(Tail(J))
<1>1. JobsOf(J) = {Head(J)} \cup JobsOf(Tail(J))
  BY JobsOfTail
<1> QED
  BY <1>1 DEF Names

(* The step of a job that goes on: its file changes, nothing else. *)
LEMMA SameJob ==
  ASSUME NEW st, NEW st2, NEW r, NEW J \in Seq(AJob), NEW u, NEW b, NEW seen, NEW bin,
         NEW crt, NEW crt2, NEW key, NEW key2, NEW tr,
         Underway(st, r, J, u, b, seen, bin, crt, key, tr),
         st # "refresh", J # <<>>, r.kind = "uninstall" => Head(J).do # "cert",
         key2 = key \/ Head(J).do = "key",
         st2 = "refresh" => Refreshing(J, crt2),
         crt2 = crt \/ Head(J).do = "cert" \/ (Head(J).do = "drop-cert" /\ st2 = "refresh")
  PROVE  Underway(st2, r, J, u, b, seen, bin, crt2, key2, tr)
<1> DEFINE D == Names(J)
<1>1. Head(J).do \in D
  BY NamesOfTail
<1>2. CASE Resolving(r, D)
  BY <1>2 DEF Underway
<1>3. CASE ~Resolving(r, D)
  <2>1. Resolved(st, r, J, u, b, seen, bin, crt, key, tr)
    BY <1>3 DEF Underway
  <2> HIDE DEF D
  <2>2. /\ Fit(r, J, Server(r, u)) /\ Installed(r, D, bin) /\ Trusted(r, D, Server(r, u), tr)
        /\ Redirected(r, D, Server(r, u), seen) /\ Restored(r, D, seen)
        /\ Uninstalled(r, D, bin)
    BY <2>1 DEF Resolved, D
  <2>3. Distrusted(r, D, b, st2, crt2, tr)
    <3>1. Distrusted(r, D, b, st, crt, tr)
      BY <2>1 DEF Resolved, D
    <3> QED
      BY <1>1, <3>1 DEF Distrusted
  <2>4. Identified(r, D, u, b, key2)
    <3>1. Identified(r, D, u, b, key)
      BY <2>1 DEF Resolved, D
    <3> QED
      BY <1>1, <3>1 DEF Identified
  <2>5. Resolved(st2, r, J, u, b, seen, bin, crt2, key2, tr)
    BY <2>2, <2>3, <2>4 DEF Resolved, D
  <2> QED
    BY <1>3, <2>5 DEF Underway, D
<1> QED
  BY <1>2, <1>3

LEMMA FitTail ==
  ASSUME NEW r, NEW J \in Seq(AJob), J # <<>>, NEW server, Fit(r, J, server)
  PROVE  Fit(r, Tail(J), server)
BY NamesOfTail DEF Fit

(* The last step of a job: what it is for is done. *)
LEMMA NextJob ==
  ASSUME NEW st, NEW r \in Request, NEW J \in Seq(AJob), NEW u, NEW b, NEW seen, NEW seen2,
         NEW bin, NEW bin2, NEW crt, NEW key, NEW tr, NEW tr2,
         Underway(st, r, J, u, b, seen, bin, crt, key, tr), J # <<>>,
         Head(J).do \notin {"key", "resolve", "adopt"},
         st = "refresh" => Head(J).do \in {"cert", "drop-cert"},
         Head(J).do = "binary" => bin2 = r.version,
         Head(J).do = "drop-binary" => bin2 = None,
         Head(J).do \notin {"binary", "drop-binary"} => bin2 = bin,
         Head(J).do = "cert" => tr2 = Head(J).ip,
         Head(J).do = "drop-cert" => tr2 = None \/ (st # "refresh" /\ crt = None /\ tr2 = tr),
         Head(J).do \notin {"cert", "drop-cert"} => tr2 = tr,
         Head(J).do = "enable" => Head(J).ip # None /\ seen2 = Head(J).ip,
         Head(J).do = "disable" => seen2 = None,
         Head(J).do \notin {"enable", "disable"} => seen2 = seen
  PROVE  Underway("do", r, Tail(J), u, b, seen2, bin2, crt, key, tr2)
<1> DEFINE D == Names(J)
           E == Names(Tail(J))
           h == Head(J)
<1>1. h.do \in D /\ h \in JobsOf(J) /\ \A d : d \in D <=> d = h.do \/ d \in E
  BY NamesOfTail
<1>2. CASE Resolving(r, D)
  <2>1. Unresolved(r, J, b, seen)
    BY <1>2 DEF Underway
  <2>2. J # <<Job("resolve", r.server)>>
    BY JobType DEF Job
  <2>3. Resolving(r, E) /\ D \subseteq {"cert", "enable", "adopt"} /\ r.server = None /\ b.redirect = None
    BY <1>1, <1>2, <2>1, <2>2 DEF Resolving, Unresolved
  <2>4. Unresolved(r, Tail(J), b, seen2)
    BY <1>1, <2>3 DEF Unresolved
  <2> QED
    BY <2>3, <2>4 DEF Underway
<1>3. CASE ~Resolving(r, D)
  <2> DEFINE server == Server(r, u)
  <2>1. Resolved(st, r, J, u, b, seen, bin, crt, key, tr)
    BY <1>3 DEF Underway
  <2>2. Fit(r, J, server)
    BY <2>1 DEF Resolved
  <2>3. Fit(r, Tail(J), server)
    BY <2>2, FitTail
  <2>4. /\ r.kind \in {"install", "enroll", "uninstall", "enable", "disable", "cert"}
        /\ r.kind = "install" => h.do \in {"binary", "cert", "enable"}
        /\ r.kind = "enroll" => h.do \in {"ca", "key", "order", "cert", "enable"}
        /\ r.kind = "uninstall" => h.do \in {"drop-cert", "disable", "drop-binary"}
        /\ r.kind \in {"enable", "disable", "cert"} => h.do = r.kind
        /\ h.do = "cert" => h.ip = server
        /\ h.do = "enable" /\ h.ip # None => h.ip = Or(r.ip, server)
    BY <1>1, <2>2 DEF Fit, Request
  <2>5. /\ Installed(r, D, bin) /\ Trusted(r, D, server, tr) /\ Redirected(r, D, server, seen)
        /\ Restored(r, D, seen) /\ Uninstalled(r, D, bin) /\ Distrusted(r, D, b, st, crt, tr)
        /\ Identified(r, D, u, b, key)
    BY <2>1 DEF Resolved
  <2>6. h.do \notin {"key", "resolve", "adopt"} /\ (st = "refresh" => h.do \in {"cert", "drop-cert"})
    OBVIOUS
  <2>7. /\ h.do = "binary" => bin2 = r.version
        /\ h.do = "drop-binary" => bin2 = None
        /\ h.do \notin {"binary", "drop-binary"} => bin2 = bin
    OBVIOUS
  <2>8. /\ h.do = "cert" => tr2 = h.ip
        /\ h.do = "drop-cert" => tr2 = None \/ (st # "refresh" /\ crt = None /\ tr2 = tr)
        /\ h.do \notin {"cert", "drop-cert"} => tr2 = tr
    OBVIOUS
  <2>9. /\ h.do = "enable" => h.ip # None /\ seen2 = h.ip
        /\ h.do = "disable" => seen2 = None
        /\ h.do \notin {"enable", "disable"} => seen2 = seen
    OBVIOUS
  <2> HIDE DEF D, E, h, server
  <2>10. Installed(r, E, bin2)
    BY <1>1, <2>4, <2>5, <2>7 DEF Installed
  <2>11. Trusted(r, E, server, tr2)
    BY <1>1, <2>4, <2>5, <2>8 DEF Trusted
  <2>12. Redirected(r, E, server, seen2)
    BY <1>1, <2>4, <2>5, <2>9 DEF Redirected
  <2>13. Restored(r, E, seen2)
    BY <1>1, <2>4, <2>5, <2>9 DEF Restored
  <2>14. Uninstalled(r, E, bin2)
    BY <1>1, <2>4, <2>5, <2>7 DEF Uninstalled
  <2>15. Distrusted(r, E, b, "do", crt, tr2)
    BY <1>1, <2>4, <2>5, <2>6, <2>8 DEF Distrusted
  <2>16. Identified(r, E, u, b, key)
    BY <1>1, <2>5, <2>6 DEF Identified
  <2>17. Resolved("do", r, Tail(J), u, b, seen2, bin2, crt, key, tr2)
    BY <2>3, <2>10, <2>11, <2>12, <2>13, <2>14, <2>15, <2>16 DEF Resolved, E, server
  <2>18. ~Resolving(r, E)
    BY <1>1, <1>3 DEF Resolving, D
  <2> QED
    BY <2>17, <2>18 DEF Underway, E
<1> QED
  BY <1>2, <1>3

LEMMA KeyJob ==
  ASSUME NEW st, NEW r \in Request, NEW J \in Seq(AJob), NEW u, NEW u2, NEW b, NEW seen,
         NEW bin, NEW crt, NEW key, NEW key2, NEW tr,
         Underway(st, r, J, u, b, seen, bin, crt, key, tr), J # <<>>, st # "refresh",
         Head(J).do = "key", u2.server = u.server, u2.key = key2
  PROVE  Underway("do", r, Tail(J), u2, b, seen, bin, crt, key2, tr)
<1> DEFINE D == Names(J)
           E == Names(Tail(J))
<1>1. "key" \in D /\ Head(J) \in JobsOf(J) /\ \A d : d \in D <=> d = "key" \/ d \in E
  BY NamesOfTail
<1>2. ~Resolving(r, D)
  <2>1. Resolving(r, D) => Unresolved(r, J, b, seen)
    BY DEF Underway
  <2>2. J # <<Job("resolve", r.server)>>
    BY JobType DEF Job
  <2> QED
    BY <1>1, <2>1, <2>2 DEF Unresolved
<1>3. Resolved(st, r, J, u, b, seen, bin, crt, key, tr)
  BY <1>2 DEF Underway
<1> DEFINE server == Server(r, u)
<1>4. Fit(r, J, server) /\ server = Server(r, u2)
  BY <1>3 DEF Resolved, Server
<1>5. Fit(r, Tail(J), server)
  BY <1>4, FitTail
<1>6. r.kind = "enroll"
  BY <1>1, <1>4 DEF Fit, Request
<1>7. /\ Trusted(r, D, server, tr) /\ Redirected(r, D, server, seen)
      /\ Identified(r, D, u, b, key)
  BY <1>3 DEF Resolved
<1> HIDE DEF D, E
<1>8. Trusted(r, E, server, tr) /\ Redirected(r, E, server, seen)
  BY <1>1, <1>7 DEF Trusted, Redirected
<1>9. Identified(r, E, u2, b, key2)
  BY <1>7 DEF Identified
<1>10. Installed(r, E, bin) /\ Restored(r, E, seen) /\ Uninstalled(r, E, bin)
       /\ Distrusted(r, E, b, "do", crt, tr)
  BY <1>6 DEF Installed, Restored, Uninstalled, Distrusted
<1> HIDE DEF server
<1>11. Resolved("do", r, Tail(J), u2, b, seen, bin, crt, key2, tr)
  BY <1>4, <1>5, <1>8, <1>9, <1>10 DEF Resolved, E
<1>12. ~Resolving(r, E)
  BY <1>1, <1>2 DEF Resolving
<1> QED
  BY <1>11, <1>12 DEF Underway, E

(* What a completed command has done. *)
Completed(r, u, b, seen, bin, key, tr) ==
  LET server == Server(r, u)
  IN CASE r.kind \in {"install", "enroll", "enable", "cert"} ->
            /\ r.kind = "install" /\ r.binary => bin = r.version
            /\ r.kind = "cert" \/ (r.kind = "install" /\ r.cert) \/ (r.kind = "enroll" /\ r.hosts)
                 => tr = server
            /\ r.kind = "enable" \/ (r.kind \in {"install", "enroll"} /\ r.hosts)
                 => seen = Or(r.ip, server)
            /\ r.kind = "enroll" =>
                 /\ key = u.key
                 /\ server = Or(r.server, Or(b.redirect, server))
       [] r.kind \in {"uninstall", "disable"} ->
            /\ r.kind = "disable" \/ r.hosts => seen = None
            /\ r.kind = "uninstall" /\ r.binary => bin = None
            /\ r.kind = "uninstall" /\ r.cert /\ b.crt # None => tr = None

LEMMA Completion ==
  ASSUME NEW st, NEW r \in Request, NEW u, NEW b, NEW seen, NEW bin, NEW crt, NEW key, NEW tr,
         Underway(st, r, <<>>, u, b, seen, bin, crt, key, tr)
  PROVE  Completed(r, u, b, seen, bin, key, tr)
<1>1. \A d : d \notin Names(<<>>)
  BY JobsOfFew DEF Names
<1> DEFINE D == Names(<<>>)
           server == Server(r, u)
<1>2. ~Resolving(r, D)
  BY <1>1 DEF Resolving
<1>3. Resolved(st, r, <<>>, u, b, seen, bin, crt, key, tr)
  BY <1>2 DEF Underway
<1>4. /\ Installed(r, D, bin) /\ Trusted(r, D, server, tr) /\ Redirected(r, D, server, seen)
      /\ Restored(r, D, seen) /\ Uninstalled(r, D, bin) /\ Distrusted(r, D, b, st, crt, tr)
      /\ Identified(r, D, u, b, key)
  BY <1>3 DEF Resolved
<1> HIDE DEF D
<1>5. \A d : d \notin D
  BY <1>1 DEF D
<1>6. r.kind = "enroll" => server = u.server
  BY DEF Server
<1> HIDE DEF server
<1>7. r.kind = "install" /\ r.binary => bin = r.version
  BY <1>4, <1>5 DEF Installed
<1>8. r.kind = "cert" \/ (r.kind = "install" /\ r.cert) \/ (r.kind = "enroll" /\ r.hosts)
        => tr = server
  BY <1>4, <1>5 DEF Trusted
<1>9. r.kind = "enable" \/ (r.kind \in {"install", "enroll"} /\ r.hosts)
        => seen = Or(r.ip, server)
  BY <1>4, <1>5 DEF Redirected
<1>10. r.kind = "enroll" => key = u.key /\ server = Or(r.server, Or(b.redirect, server))
  BY <1>4, <1>5, <1>6 DEF Identified
<1>11. r.kind = "disable" \/ (r.kind = "uninstall" /\ r.hosts) => seen = None
  BY <1>4, <1>5 DEF Restored
<1>12. r.kind = "uninstall" /\ r.binary => bin = None
  BY <1>4, <1>5 DEF Uninstalled
<1>13. r.kind = "uninstall" /\ r.cert /\ b.crt # None => tr = None
  BY <1>4, <1>5 DEF Distrusted
<1>14. CASE r.kind \in {"install", "enroll", "enable", "cert"}
  BY <1>7, <1>8, <1>9, <1>10, <1>14 DEF Completed, server
<1>15. CASE r.kind \in {"uninstall", "disable"}
  BY <1>11, <1>12, <1>13, <1>15 DEF Completed
<1> QED
  BY <1>14, <1>15 DEF Request

(* An enroll run that learns its server. *)
LEMMA Following ==
  ASSUME NEW st, NEW r \in Requests, NEW J \in Seq(AJob), NEW u, NEW u2, NEW b, NEW seen,
         NEW bin, NEW crt, NEW key, NEW tr, NEW s \in IPs,
         Underway(st, r, J, u, b, seen, bin, crt, key, tr), J # <<>>, u2.server = s,
         \/ Head(J).do = "resolve" /\ s = Or(Head(J).ip, seen)
         \/ Head(J).do = "adopt"
  PROVE  Underway("do", r, Enrolling(r, s), u2, b, seen, bin, crt, key, tr)
<1>0. r \in Request
  BY HostAssumption
<1> DEFINE D == Names(J)
           K == Enrolling(r, s)
           E == Names(K)
<1>1. Head(J).do \in D /\ Head(J) \in JobsOf(J)
  BY NamesOfTail
<1>2. Resolving(r, D)
  <2>1. ~Resolving(r, D) => Fit(r, J, Server(r, u))
    BY DEF Underway, Resolved
  <2> QED
    BY <1>0, <1>1, <2>1 DEF Fit, Request
<1>3. Unresolved(r, J, b, seen) /\ r.kind = "enroll"
  BY <1>2 DEF Underway, Resolving
<1>4. s = Or(r.server, Or(b.redirect, s))
  <2>1. CASE Head(J).do = "resolve"
    <3>1. J = <<Job("resolve", r.server)>> /\ b.redirect = seen
      BY <1>1, <1>3, <2>1 DEF Unresolved
    <3>2. Head(J).ip = r.server
      BY <3>1 DEF Job
    <3> QED
      BY <2>1, <3>1, <3>2 DEF Or
  <2>2. CASE Head(J).do = "adopt"
    <3>1. J # <<Job("resolve", r.server)>>
      BY <2>2 DEF Job
    <3>2. r.server = None /\ b.redirect = None
      BY <1>3, <3>1 DEF Unresolved
    <3> QED
      BY <3>2 DEF Or
  <2> QED
    BY <2>1, <2>2
<1>5. JobsOf(K) = {Job("ca", s), Job("key", None), Job("order", s)}
                  \cup (IF r.hosts THEN {Job("cert", s), Job("enable", Or(r.ip, s))} ELSE {})
  BY EnrollingJobs
<1>6. s \in IPs \cup {None} /\ Or(r.ip, s) \in IPs \cup {None}
  BY <1>0, OrType DEF Request
<1>7. /\ Job("ca", s).do = "ca" /\ Job("key", None).do = "key" /\ Job("order", s).do = "order"
      /\ Job("cert", s).do = "cert" /\ Job("cert", s).ip = s
      /\ Job("enable", Or(r.ip, s)).do = "enable" /\ Job("enable", Or(r.ip, s)).ip = Or(r.ip, s)
  BY DEF Job
<1>8. Server(r, u2) = s
  BY <1>3 DEF Server
<1> HIDE DEF K
<1>9. Fit(r, K, s)
  BY <1>3, <1>5, <1>7 DEF Fit
<1>10. /\ "key" \in E /\ "resolve" \notin E /\ "adopt" \notin E
       /\ r.hosts => "cert" \in E /\ "enable" \in E
  <2>1. Job("key", None) \in JobsOf(K)
    BY <1>5
  <2>2. \A j \in JobsOf(K) : j.do # "resolve" /\ j.do # "adopt"
    BY <1>5, <1>7
  <2>3. r.hosts => Job("cert", s) \in JobsOf(K) /\ Job("enable", Or(r.ip, s)) \in JobsOf(K)
    BY <1>5
  <2> QED
    BY <1>7, <2>1, <2>2, <2>3 DEF Names
<1> HIDE DEF E
<1>11. /\ Installed(r, E, bin) /\ Trusted(r, E, s, tr) /\ Redirected(r, E, s, seen)
       /\ Restored(r, E, seen) /\ Uninstalled(r, E, bin) /\ Distrusted(r, E, b, "do", crt, tr)
  BY <1>3, <1>10 DEF Installed, Trusted, Redirected, Restored, Uninstalled, Distrusted
<1>12. Identified(r, E, u2, b, key)
  BY <1>4, <1>10 DEF Identified
<1>13. Resolved("do", r, K, u2, b, seen, bin, crt, key, tr)
  BY <1>8, <1>9, <1>11, <1>12 DEF Resolved, E
<1>14. ~Resolving(r, E)
  BY <1>10 DEF Resolving
<1> QED
  BY <1>13, <1>14 DEF Underway, E, K

LEMMA Picking ==
  ASSUME NEW st, NEW r \in Requests, NEW J \in Seq(AJob), NEW u, NEW b, NEW seen,
         NEW bin, NEW crt, NEW key, NEW tr, NEW s \in IPs,
         Underway(st, r, J, u, b, seen, bin, crt, key, tr), J # <<>>,
         Head(J).do = "resolve", Head(J).ip = None, seen = None
  PROVE  Underway("do", r, <<Job("cert", s), Job("enable", s), Job("adopt", None)>>, u, b, seen,
                  bin, crt, key, tr)
<1>0. r \in Request
  BY HostAssumption
<1> DEFINE D == Names(J)
           K == <<Job("cert", s), Job("enable", s), Job("adopt", None)>>
           E == Names(K)
<1>1. "resolve" \in D /\ Head(J) \in JobsOf(J)
  BY NamesOfTail
<1>2. Resolving(r, D)
  <2>1. ~Resolving(r, D) => Fit(r, J, Server(r, u))
    BY DEF Underway, Resolved
  <2> QED
    BY <1>0, <1>1, <2>1 DEF Fit, Request
<1>3. Unresolved(r, J, b, seen) /\ r.kind = "enroll"
  BY <1>2 DEF Underway, Resolving
<1>4. J = <<Job("resolve", r.server)>> /\ b.redirect = seen
  BY <1>1, <1>3 DEF Unresolved
<1>5. r.server = None
  BY <1>4 DEF Job
<1>6. /\ Job("cert", s) \in AJob /\ Job("enable", s) \in AJob /\ Job("adopt", None) \in AJob
      /\ Job("cert", s).do = "cert" /\ Job("enable", s).do = "enable"
      /\ Job("adopt", None).do = "adopt"
  BY JobType DEF Dos
<1>7. JobsOf(K) = {Job("cert", s), Job("enable", s), Job("adopt", None)}
  BY <1>6, JobsOfFew
<1> HIDE DEF K
<1>8. E \subseteq {"cert", "enable", "adopt"} /\ "adopt" \in E
  <2>1. \A j \in JobsOf(K) : j.do \in {"cert", "enable", "adopt"}
    BY <1>6, <1>7
  <2>2. Job("adopt", None) \in JobsOf(K)
    BY <1>7
  <2> QED
    BY <1>6, <2>1, <2>2 DEF Names
<1>9. Unresolved(r, K, b, seen)
  BY <1>4, <1>5, <1>8 DEF Unresolved
<1>10. Resolving(r, E)
  BY <1>3, <1>8 DEF Resolving
<1> QED
  BY <1>9, <1>10 DEF Underway, K

(* The first step of a command. *)
LEMMA Beginning ==
  ASSUME NEW r \in Requests, NEW u, NEW b, NEW seen, NEW bin, NEW crt, NEW key, NEW tr,
         b.redirect = seen, b.crt = crt
  PROVE  Underway("do", r, Jobs(r), u, b, seen, bin, crt, key, tr)
<1>0. r \in Request /\ r.kind \in {"install", "enroll", "uninstall", "enable", "disable", "cert"}
      /\ r.ip \in IPs \cup {None} /\ r.server \in IPs \cup {None}
      /\ r.binary \in BOOLEAN /\ r.cert \in BOOLEAN /\ r.hosts \in BOOLEAN
  BY HostAssumption DEF Request
<1> DEFINE J == Jobs(r)
           D == Names(J)
           server == r.server
<1>1. \A do, ip : Job(do, ip).do = do /\ Job(do, ip).ip = ip
  BY DEF Job
<1>2. CASE r.kind = "enroll"
  <2>1. J = <<Job("resolve", r.server)>> /\ J \in Seq(AJob) /\ J # <<>>
    BY <1>0, <1>2, OneJob
  <2>2. "resolve" \in D
    <3>1. Head(J) = Job("resolve", r.server)
      BY <2>1
    <3> QED
      BY <1>1, <2>1, <3>1, NamesOfTail
  <2> QED
    BY <1>2, <2>1, <2>2 DEF Underway, Resolving, Unresolved
<1>3. ASSUME r.kind # "enroll", Fit(r, J, server),
             Installed(r, D, bin), Trusted(r, D, server, tr), Redirected(r, D, server, seen),
             Restored(r, D, seen), Uninstalled(r, D, bin), Distrusted(r, D, b, "do", crt, tr)
      PROVE  Underway("do", r, J, u, b, seen, bin, crt, key, tr)
  <2>1. server = Server(r, u)
    BY <1>3 DEF Server
  <2>2. Identified(r, D, u, b, key) /\ ~Resolving(r, D)
    BY <1>3 DEF Identified, Resolving
  <2>3. Resolved("do", r, J, u, b, seen, bin, crt, key, tr)
    BY <1>3, <2>1, <2>2 DEF Resolved
  <2> QED
    BY <2>2, <2>3 DEF Underway
<1>4. CASE r.kind = "install"
  <2>1. JobsOf(J) = (IF r.binary THEN {Job("binary", None)} ELSE {})
                    \cup (IF r.cert THEN {Job("cert", r.server)} ELSE {})
                    \cup (IF r.hosts THEN {Job("enable", Or(r.ip, r.server))} ELSE {})
    BY <1>0, <1>4, InstallJobs
  <2>2. Fit(r, J, server)
    BY <1>1, <1>4, <2>1 DEF Fit
  <2>3. /\ r.binary => Job("binary", None) \in JobsOf(J)
        /\ r.cert => Job("cert", r.server) \in JobsOf(J)
        /\ r.hosts => Job("enable", Or(r.ip, r.server)) \in JobsOf(J)
    BY <2>1
  <2>4. /\ r.binary => "binary" \in D
        /\ r.cert => "cert" \in D
        /\ r.hosts => "enable" \in D
    BY <1>1, <2>3 DEF Names
  <2>5. /\ Installed(r, D, bin) /\ Trusted(r, D, server, tr) /\ Redirected(r, D, server, seen)
        /\ Restored(r, D, seen) /\ Uninstalled(r, D, bin) /\ Distrusted(r, D, b, "do", crt, tr)
    BY <1>4, <2>4 DEF Installed, Trusted, Redirected, Restored, Uninstalled, Distrusted
  <2> QED
    BY <1>3, <1>4, <2>2, <2>5
<1>5. CASE r.kind = "uninstall"
  <2>1. JobsOf(J) = (IF r.cert THEN {Job("drop-cert", None)} ELSE {})
                    \cup (IF r.hosts THEN {Job("disable", None)} ELSE {})
                    \cup (IF r.binary THEN {Job("drop-binary", None)} ELSE {})
    BY <1>0, <1>5, UninstallJobs
  <2>2. Fit(r, J, server)
    BY <1>1, <1>5, <2>1 DEF Fit
  <2>3. /\ r.cert => Job("drop-cert", None) \in JobsOf(J)
        /\ r.hosts => Job("disable", None) \in JobsOf(J)
        /\ r.binary => Job("drop-binary", None) \in JobsOf(J)
    BY <2>1
  <2>4. /\ r.cert => "drop-cert" \in D
        /\ r.hosts => "disable" \in D
        /\ r.binary => "drop-binary" \in D
    BY <1>1, <2>3 DEF Names
  <2>5. /\ Installed(r, D, bin) /\ Trusted(r, D, server, tr) /\ Redirected(r, D, server, seen)
        /\ Restored(r, D, seen) /\ Uninstalled(r, D, bin) /\ Distrusted(r, D, b, "do", crt, tr)
    BY <1>5, <2>4 DEF Installed, Trusted, Redirected, Restored, Uninstalled, Distrusted
  <2> QED
    BY <1>3, <1>5, <2>2, <2>5
<1>6. CASE r.kind \in {"enable", "disable", "cert"}
  <2> DEFINE ip == CASE r.kind = "enable" -> r.ip [] r.kind = "disable" -> None
                     [] OTHER -> r.server
  <2>1. JobsOf(J) = {Job(r.kind, ip)}
    BY <1>0, <1>6, OneJob
  <2>2. /\ r.kind = "cert" => ip = server
        /\ r.kind = "enable" => ip = r.ip
    OBVIOUS
  <2> HIDE DEF ip
  <2>3. Fit(r, J, server)
    BY <1>1, <1>6, <2>1, <2>2 DEF Fit, Or
  <2>4. r.kind \in D
    <3>1. Job(r.kind, ip) \in JobsOf(J)
      BY <2>1
    <3> QED
      BY <1>1, <3>1 DEF Names
  <2>5. /\ Installed(r, D, bin) /\ Trusted(r, D, server, tr) /\ Redirected(r, D, server, seen)
        /\ Restored(r, D, seen) /\ Uninstalled(r, D, bin) /\ Distrusted(r, D, b, "do", crt, tr)
    BY <1>6, <2>4 DEF Installed, Trusted, Redirected, Restored, Uninstalled, Distrusted
  <2> QED
    BY <1>3, <1>6, <2>3, <2>5
<1> QED
  BY <1>0, <1>2, <1>4, <1>5, <1>6

After(p, st, J, u) ==
  Underway(st, request[p], J, u, before[p], Seen', content'["binary"], content'["crt"],
           content'["key"], trust')

LEMMA SeenSame == content'["hosts"] = content["hosts"] => Seen' = Seen
BY DEF Seen

LEMMA StayStep ==
  ASSUME IInv, NEW p \in Processes, alone[p], AloneOn(p), NEW data,
         Takes(p, data) \/ Opens(p) \/ WritesTmp(p) \/ WritesCert(p) \/ Removes(p)
  PROVE  After(p, pc'[p], todo[p], using[p])
<1>0. Base
  BY DEF IInv, Base
<1>1. pc[p] \notin Rest /\ pc[p] # "refresh" /\ (pc[p] = "do" \/ pc[p] \in Hand)
  BY DEF Takes, Opens, WritesTmp, WritesCert, Removes, Rest, Hand
<1>2. /\ todo[p] \in Seq(AJob) /\ todo[p] # <<>>
      /\ pc[p] \in Hand => HandOK(Head(todo[p]), request[p], mem[p])
      /\ request[p] \in Request
  BY <1>0, <1>1, HeadJob
<1>3. ASSUME Seen' = Seen, content'["binary"] = content["binary"], trust' = trust,
             content'["key"] = content["key"] \/ Head(todo[p]).do = "key",
             pc'[p] = "refresh" => Refreshing(todo[p], content'["crt"]),
             \/ content'["crt"] = content["crt"] \/ Head(todo[p]).do = "cert"
             \/ Head(todo[p]).do = "drop-cert" /\ pc'[p] = "refresh"
      PROVE  After(p, pc'[p], todo[p], using[p])
  <2> DEFINE st == pc[p]
             st2 == pc'[p]
             r == request[p]
             J == todo[p]
             u == using[p]
             b == before[p]
             crt == content["crt"]
             crt2 == content'["crt"]
             key == content["key"]
             key2 == content'["key"]
             bin == content["binary"]
             tr == trust
  <2>1. /\ Underway(st, r, J, u, b, Seen, bin, crt, key, tr) /\ st # "refresh"
        /\ J \in Seq(AJob) /\ J # <<>>
        /\ key2 = key \/ Head(J).do = "key"
        /\ st2 = "refresh" => Refreshing(J, crt2)
        /\ crt2 = crt \/ Head(J).do = "cert" \/ (Head(J).do = "drop-cert" /\ st2 = "refresh")
    BY <1>1, <1>2, <1>3 DEF AloneOn
  <2>2. After(p, st2, J, u) = Underway(st2, r, J, u, b, Seen, bin, crt2, key2, tr)
    BY <1>3 DEF After
  <2> HIDE DEF st, st2, r, J, u, b, crt, crt2, key, key2, bin, tr
  <2>3. r.kind = "uninstall" => Head(J).do # "cert"
    <3>1. Head(J).do \in Names(J) /\ Head(J) \in JobsOf(J)
      BY <2>1, NamesOfTail
    <3>2. r.kind = "uninstall" => Fit(r, J, Server(r, u))
      BY <2>1 DEF Underway, Resolving, Resolved
    <3> QED
      BY <3>1, <3>2 DEF Fit
  <2>4. Underway(st2, r, J, u, b, Seen, bin, crt2, key2, tr)
    BY <2>1, <2>3, SameJob
  <2> QED
    BY <2>2, <2>4 DEF J, st2, u
<1>4. content \in [Files -> Contents] /\ {"hosts", "binary", "crt", "key"} = Files
  BY <1>0 DEF Base, DiskKinds, Files
<1>5. CASE Takes(p, data)
  <2>1. UNCHANGED <<content, tmp, trust>> /\ pc'[p] = "open"
    BY <1>5 DEF Takes, disk, Moves
  <2> QED
    BY <1>3, <2>1, SeenSame
<1>6. CASE Opens(p)
  <2>1. trust' = trust /\ pc'[p] = "write"
    BY <1>6 DEF Opens, Moves
  <2>2. CASE File(p) \notin InPlace
    BY <1>3, <1>6, <2>1, <2>2, SeenSame DEF Opens
  <2>3. CASE File(p) \in InPlace
    <3>1. content' = [content EXCEPT ![File(p)] = Torn]
      BY <1>6, <2>3 DEF Opens
    <3>2. /\ HandOK(Head(todo[p]), request[p], mem[p])
          /\ Head(todo[p]).do \in {"enable", "disable", "binary", "cert", "key"}
      BY <1>2, <1>6 DEF Opens, Hand, HandOK
    <3>3. \/ File(p) = "crt" /\ Head(todo[p]).do = "cert"
          \/ File(p) = "key" /\ Head(todo[p]).do = "key"
      BY <2>3, <3>2, FileIs DEF InPlace
    <3> QED
      BY <1>3, <1>4, <2>1, <3>1, <3>3, SeenSame
  <2> QED
    BY <2>2, <2>3
<1>7. CASE WritesTmp(p)
  <2>1. InHand(p, File(p)) /\ File(p) \in {"hosts", "binary"} /\ pc[p] = "write"
    BY <1>7 DEF WritesTmp, InHand
  <2>2. tmp[File(p)] # None
    BY <2>1 DEF IInv, OwnTmp
  <2>3. UNCHANGED <<content, trust>> /\ pc'[p] = "rename"
    BY <1>7, <2>2 DEF WritesTmp, Moves
  <2> QED
    BY <1>3, <2>3, SeenSame
<1>8. CASE WritesCert(p)
  <2>1. /\ content' = [content EXCEPT !["crt"] = mem[p]] /\ trust' = trust
        /\ Head(todo[p]).do = "cert"
    BY <1>8 DEF WritesCert
  <2>2. HandOK(Head(todo[p]), request[p], mem[p])
    BY <1>2, <1>8 DEF WritesCert, Hand
  <2>3. Refreshing(todo[p], mem[p])
    BY <2>1, <2>2 DEF Refreshing, HandOK
  <2>4. /\ content'["crt"] = mem[p] /\ content'["hosts"] = content["hosts"]
        /\ content'["binary"] = content["binary"] /\ content'["key"] = content["key"]
    BY <1>4, <2>1
  <2> QED
    BY <1>3, <2>1, <2>3, <2>4, SeenSame
<1>9. CASE Removes(p)
  <2>1. /\ content' = [content EXCEPT !["crt"] = None] /\ trust' = trust
        /\ Head(todo[p]).do = "drop-cert" /\ pc'[p] = "refresh"
    BY <1>9 DEF Removes, Moves
  <2>2. Refreshing(todo[p], None)
    BY <2>1 DEF Refreshing
  <2>3. /\ content'["crt"] = None /\ content'["hosts"] = content["hosts"]
        /\ content'["binary"] = content["binary"] /\ content'["key"] = content["key"]
    BY <1>4, <2>1
  <2> QED
    BY <1>3, <2>1, <2>2, <2>3, SeenSame
<1> QED
  BY <1>5, <1>6, <1>7, <1>8, <1>9

LEMMA PassStep ==
  ASSUME IInv, NEW p \in Processes, alone[p], AloneOn(p), Passes(p),
         Skips(p) \/ Puts(p) \/ Refreshes(p) \/ Uninstalls(p) \/ Orders(p)
  PROVE  After(p, "do", Tail(todo[p]), using[p])
<1>0. Base
  BY DEF IInv, Base
<1>1. pc[p] \notin Rest /\ Head(todo[p]).do # "key"
  BY DEF Passes
<1>2. /\ todo[p] \in Seq(AJob) /\ todo[p] # <<>> /\ request[p] \in Request
      /\ pc[p] \in Hand => HandOK(Head(todo[p]), request[p], mem[p])
      /\ pc[p] = "rename" => Head(todo[p]).do \in {"enable", "disable", "binary"}
      /\ pc[p] = "refresh" => Head(todo[p]).do \in {"cert", "drop-cert"}
      /\ Head(todo[p]).do = "disable" => Address(p) = None
  BY <1>0, <1>1, HeadJob
<1> DEFINE d == Head(todo[p]).do
           a == Head(todo[p]).ip
<1>3. ASSUME d \notin {"key", "resolve", "adopt"}, pc[p] = "refresh" => d \in {"cert", "drop-cert"},
             d = "binary" => content'["binary"] = request[p].version,
             d = "drop-binary" => content'["binary"] = None,
             d \notin {"binary", "drop-binary"} => content'["binary"] = content["binary"],
             d = "cert" => trust' = a,
             d = "drop-cert" =>
               trust' = None \/ (pc[p] # "refresh" /\ content["crt"] = None /\ trust' = trust),
             d \notin {"cert", "drop-cert"} => trust' = trust,
             d = "enable" => a # None /\ Seen' = a,
             d = "disable" => Seen' = None,
             d \notin {"enable", "disable"} => Seen' = Seen,
             content'["crt"] = content["crt"], content'["key"] = content["key"]
      PROVE  After(p, "do", Tail(todo[p]), using[p])
  <2> DEFINE st == pc[p]
             r == request[p]
             J == todo[p]
             u == using[p]
             b == before[p]
             crt == content["crt"]
             key == content["key"]
             bin == content["binary"]
             bin2 == content'["binary"]
             tr == trust
             tr2 == trust'
             seen == Seen
             seen2 == Seen'
  <2>1. /\ Underway(st, r, J, u, b, seen, bin, crt, key, tr)
        /\ r \in Request /\ J \in Seq(AJob) /\ J # <<>>
        /\ Head(J).do \notin {"key", "resolve", "adopt"}
        /\ st = "refresh" => Head(J).do \in {"cert", "drop-cert"}
    BY <1>2, <1>3 DEF AloneOn
  <2>2. /\ Head(J).do = "binary" => bin2 = r.version
        /\ Head(J).do = "drop-binary" => bin2 = None
        /\ Head(J).do \notin {"binary", "drop-binary"} => bin2 = bin
    BY <1>3
  <2>3. /\ Head(J).do = "cert" => tr2 = Head(J).ip
        /\ Head(J).do = "drop-cert" => tr2 = None \/ (st # "refresh" /\ crt = None /\ tr2 = tr)
        /\ Head(J).do \notin {"cert", "drop-cert"} => tr2 = tr
    BY <1>3
  <2>4. /\ Head(J).do = "enable" => Head(J).ip # None /\ seen2 = Head(J).ip
        /\ Head(J).do = "disable" => seen2 = None
        /\ Head(J).do \notin {"enable", "disable"} => seen2 = seen
    BY <1>3
  <2>5. After(p, "do", Tail(J), u) = Underway("do", r, Tail(J), u, b, seen2, bin2, crt, key, tr2)
    BY <1>3 DEF After
  <2> HIDE DEF st, r, J, u, b, crt, key, bin, bin2, tr, tr2, seen, seen2
  <2>6. Underway("do", r, Tail(J), u, b, seen2, bin2, crt, key, tr2)
    BY <2>1, <2>2, <2>3, <2>4, NextJob
  <2> QED
    BY <2>5, <2>6 DEF J, u
<1>4. content \in [Files -> Contents] /\ {"hosts", "binary", "crt", "key"} = Files
  BY <1>0 DEF Base, DiskKinds, Files
<1>5. CASE Skips(p)
  <2>1. UNCHANGED <<content, tmp, trust>> /\ pc[p] = "do"
        /\ \/ d = "binary" /\ content["binary"] = request[p].version
           \/ d = "drop-cert" /\ content["crt"] = None
           \/ d = "ca"
    BY <1>5 DEF Skips, disk
  <2> QED
    BY <1>3, <2>1, SeenSame
<1>6. CASE Orders(p)
  <2>1. UNCHANGED <<content, tmp, trust>> /\ pc[p] = "do" /\ d = "order"
    BY <1>6 DEF Orders, disk
  <2> QED
    BY <1>3, <2>1, SeenSame
<1>7. CASE Refreshes(p)
  <2>1. /\ UNCHANGED <<content, tmp>> /\ pc[p] = "refresh"
        /\ trust' = IF content["crt"] = Torn THEN None ELSE content["crt"]
    BY <1>7 DEF Refreshes
  <2>2. Refreshing(todo[p], content["crt"])
    BY <2>1 DEF AloneOn, Underway
  <2>3. d \in {"cert", "drop-cert"} /\ a # Torn
    <3>1. a \in IPs \cup {None}
      BY <1>0, <1>1, HeadJob DEF Address
    <3> QED
      BY <1>2, <2>1, <3>1, HostAssumption DEF Line
  <2>4. d = "cert" => trust' = a
    BY <2>1, <2>2, <2>3 DEF Refreshing
  <2>5. d = "drop-cert" => trust' = None
    BY <2>1, <2>2 DEF Refreshing
  <2> QED
    BY <1>3, <2>1, <2>3, <2>4, <2>5, SeenSame
<1>8. CASE Uninstalls(p)
  <2>1. /\ content' = [content EXCEPT !["binary"] = None] /\ trust' = trust /\ d = "drop-binary"
        /\ pc[p] = "do"
    BY <1>8 DEF Uninstalls
  <2>2. /\ content'["crt"] = content["crt"] /\ content'["hosts"] = content["hosts"]
        /\ content'["binary"] = None /\ content'["key"] = content["key"]
    BY <1>4, <2>1
  <2> QED
    BY <1>3, <2>1, <2>2, SeenSame
<1>9. CASE Puts(p)
  <2> DEFINE f == File(p)
  <2>1. /\ pc[p] = "rename" /\ f \in {"hosts", "binary"} /\ trust' = trust
        /\ content' = [content EXCEPT ![f] = tmp[f]]
    BY <1>9 DEF Puts
  <2>2. pc[p] \in Hand /\ InHand(p, f)
    BY <2>1 DEF Hand, InHand
  <2>3. tmp[f] = mem[p]
    BY <2>1, <2>2 DEF IInv, OwnTmp
  <2>4. /\ HandOK(Head(todo[p]), request[p], mem[p]) /\ d \in {"enable", "disable", "binary"}
    BY <1>2, <2>1, <2>2
  <2>5. CASE d \in {"enable", "disable"}
    <3>1. f = "hosts"
      BY <2>5, FileIs
    <3>2. content' = [content EXCEPT !["hosts"] = mem[p]]
      BY <2>1, <2>3, <3>1
    <3>3. /\ content'["crt"] = content["crt"] /\ content'["hosts"] = mem[p]
          /\ content'["binary"] = content["binary"] /\ content'["key"] = content["key"]
      BY <1>4, <3>2
    <3>4. Tidy(mem[p]) /\ Addressed(mem[p], a) /\ (d = "enable" => a # None)
      BY <2>4, <2>5 DEF HandOK
    <3>5. Text(mem[p]) = mem[p]
      BY <3>4, HostAssumption DEF Tidy, Text
    <3>6. Seen' = RedirectIP(Text(content'["hosts"]))
      BY DEF Seen
    <3>7. Seen' = a
      BY <3>3, <3>4, <3>5, <3>6 DEF Addressed
    <3>8. d = "disable" => a = None
      BY <1>2 DEF Address
    <3> QED
      BY <1>3, <2>1, <2>5, <3>3, <3>4, <3>7, <3>8
  <2>6. CASE d = "binary"
    <3>1. f = "binary"
      BY <2>6, FileIs
    <3>2. content' = [content EXCEPT !["binary"] = mem[p]] /\ mem[p] = request[p].version
      BY <2>1, <2>3, <2>4, <2>6, <3>1 DEF HandOK
    <3>3. /\ content'["crt"] = content["crt"] /\ content'["hosts"] = content["hosts"]
          /\ content'["binary"] = request[p].version /\ content'["key"] = content["key"]
      BY <1>4, <3>2
    <3> QED
      BY <1>3, <2>1, <2>6, <3>3, SeenSame
  <2> QED
    BY <2>4, <2>5, <2>6
<1> QED
  BY <1>5, <1>6, <1>7, <1>8, <1>9

LEMMA OtherStep ==
  ASSUME IInv, NEW p \in Processes, alone[p], AloneOn(p), NEW k, NEW s,
         Uses(p, k) \/ WritesKey(p) \/ Follows(p, s) \/ Picks(p, s)
  PROVE  After(p, "do", todo'[p], using'[p])
<1>0. Base
  BY DEF IInv, Base
<1>1. pc[p] \notin Rest /\ pc[p] # "refresh"
  BY DEF Uses, WritesKey, Follows, Picks, Rest
<1>2. /\ todo[p] \in Seq(AJob) /\ todo[p] # <<>> /\ request[p] \in Request
      /\ request[p] \in Requests
  BY <1>0, <1>1, HeadJob
<1>3. content \in [Files -> Contents] /\ {"hosts", "binary", "crt", "key"} = Files
  BY <1>0 DEF Base, DiskKinds, Files
<1>4. Underway(pc[p], request[p], todo[p], using[p], before[p], Seen, content["binary"],
               content["crt"], content["key"], trust)
  BY DEF AloneOn
<1>5. CASE Uses(p, k) \/ WritesKey(p)
  <2>1. /\ trust' = trust /\ Head(todo[p]).do = "key" /\ todo'[p] = Tail(todo[p])
        /\ using'[p].server = using[p].server /\ using'[p].key = content'["key"]
        /\ content'["crt"] = content["crt"] /\ content'["hosts"] = content["hosts"]
        /\ content'["binary"] = content["binary"]
    <3>1. CASE Uses(p, k)
      BY <3>1 DEF Uses, Moves, disk
    <3>2. CASE WritesKey(p)
      <4>1. /\ content' = [content EXCEPT !["key"] = mem[p]] /\ trust' = trust
            /\ Head(todo[p]).do = "key" /\ todo'[p] = Tail(todo[p])
            /\ using'[p] = [server |-> using[p].server, key |-> mem[p]]
        BY <3>2 DEF WritesKey, Moves
      <4>2. /\ content'["key"] = mem[p] /\ content'["hosts"] = content["hosts"]
            /\ content'["binary"] = content["binary"] /\ content'["crt"] = content["crt"]
        BY <1>3, <4>1
      <4> QED
        BY <4>1, <4>2
    <3> QED
      BY <1>5, <3>1, <3>2
  <2>2. Seen' = Seen
    BY <2>1, SeenSame
  <2> DEFINE st == pc[p]
             r == request[p]
             J == todo[p]
             u == using[p]
             u2 == using'[p]
             b == before[p]
             crt == content["crt"]
             key == content["key"]
             key2 == content'["key"]
             bin == content["binary"]
             tr == trust
             seen == Seen
  <2>3. /\ Underway(st, r, J, u, b, seen, bin, crt, key, tr)
        /\ r \in Request /\ J \in Seq(AJob) /\ J # <<>> /\ st # "refresh" /\ Head(J).do = "key"
        /\ u2.server = u.server /\ u2.key = key2
    BY <1>1, <1>2, <1>4, <2>1
  <2>4. After(p, "do", todo'[p], using'[p])
          = Underway("do", r, Tail(J), u2, b, seen, bin, crt, key2, tr)
    BY <2>1, <2>2 DEF After
  <2> HIDE DEF st, r, J, u, u2, b, crt, key, key2, bin, tr, seen
  <2>5. Underway("do", r, Tail(J), u2, b, seen, bin, crt, key2, tr)
    BY <2>3, KeyJob
  <2> QED
    BY <2>4, <2>5
<1>6. CASE Follows(p, s) \/ Picks(p, s)
  <2>1. UNCHANGED <<content, trust>> /\ s \in IPs
    BY <1>6 DEF Follows, Picks, disk
  <2>2. Seen' = Seen
    BY <2>1, SeenSame
  <2> DEFINE st == pc[p]
             r == request[p]
             J == todo[p]
             u == using[p]
             u2 == using'[p]
             b == before[p]
             crt == content["crt"]
             key == content["key"]
             bin == content["binary"]
             tr == trust
             seen == Seen
  <2>3. After(p, "do", todo'[p], using'[p])
          = Underway("do", r, todo'[p], u2, b, seen, bin, crt, key, tr)
    BY <2>1, <2>2 DEF After
  <2>4. CASE Follows(p, s)
    <3>1. /\ todo'[p] = Enrolling(r, s) /\ u2.server = s
          /\ \/ Head(J).do = "resolve" /\ s = Or(Head(J).ip, seen)
             \/ Head(J).do = "adopt"
      BY <2>4 DEF Follows, Moves, Address
    <3>2. r \in Requests /\ J \in Seq(AJob) /\ J # <<>> /\ s \in IPs
          /\ Underway(st, r, J, u, b, seen, bin, crt, key, tr)
      BY <1>2, <1>4, <2>1
    <3> HIDE DEF st, r, J, u, u2, b, crt, key, bin, tr, seen
    <3>3. Underway("do", r, Enrolling(r, s), u2, b, seen, bin, crt, key, tr)
      BY <3>1, <3>2, Following
    <3> QED
      BY <2>3, <3>1, <3>3
  <2>5. CASE Picks(p, s)
    <3> DEFINE K == <<Job("cert", s), Job("enable", s), Job("adopt", None)>>
    <3>1. /\ todo'[p] = K /\ u2 = u /\ Head(J).do = "resolve" /\ Head(J).ip = None /\ seen = None
      BY <2>5 DEF Picks, Moves, Address
    <3>2. r \in Requests /\ J \in Seq(AJob) /\ J # <<>> /\ s \in IPs
          /\ Underway(st, r, J, u, b, seen, bin, crt, key, tr)
      BY <1>2, <1>4, <2>1
    <3> HIDE DEF st, r, J, u, u2, b, crt, key, bin, tr, seen
    <3>3. Underway("do", r, K, u, b, seen, bin, crt, key, tr)
      BY <3>1, <3>2, Picking
    <3> HIDE DEF K
    <3> QED
      BY <2>3, <3>1, <3>3
  <2> QED
    BY <1>6, <2>4, <2>5
<1> QED
  BY <1>5, <1>6

(* The steps of a command other than its first and its failures. *)
Works(p, data, k, s) ==
  \/ Skips(p) \/ Takes(p, data) \/ Uses(p, k) \/ Opens(p) \/ WritesTmp(p) \/ WritesCert(p)
  \/ WritesKey(p) \/ Puts(p) \/ Refreshes(p) \/ Removes(p) \/ Uninstalls(p)
  \/ Follows(p, s) \/ Picks(p, s) \/ Orders(p)

LEMMA WorkCases ==
  ASSUME Base, Next
  PROVE  \/ Edit
         \/ \E p \in Processes :
              \/ Stops(p) \/ (\E r : Begins(p, r)) \/ \E data, k, s : Works(p, data, k, s)
<1>1. \/ Edit
      \/ \E p \in Processes :
           \/ Stops(p) \/ Skips(p) \/ (\E data : Takes(p, data)) \/ (\E k : Uses(p, k))
           \/ Opens(p) \/ WritesTmp(p) \/ WritesCert(p) \/ WritesKey(p) \/ Puts(p)
           \/ Refreshes(p) \/ Removes(p) \/ Uninstalls(p)
           \/ (\E s : Follows(p, s)) \/ (\E s : Picks(p, s)) \/ Orders(p)
           \/ (\E r : Begins(p, r))
  BY StepCases
<1> QED
  BY <1>1, Zenon DEF Works

LEMMA WorksAtOne ==
  ASSUME NEW p \in Processes, NEW data, NEW k, NEW s, Works(p, data, k, s)
  PROVE  OthersSame(p) /\ pc[p] \notin Rest /\ (alone'[p] => alone[p])
<1> DEFINE Good == OthersSame(p) /\ pc[p] \notin Rest /\ (alone'[p] => alone[p])
<1>1. Passes(p) => Good
  BY DEF Passes, Ended, Moves, Stays
<1>2. Skips(p) \/ Puts(p) \/ Refreshes(p) \/ Uninstalls(p) => Passes(p)
  BY DEF Skips, Puts, Refreshes, Uninstalls
<1>3. Takes(p, data) \/ Uses(p, k) \/ Opens(p) \/ WritesTmp(p) \/ WritesCert(p) => Good
  BY DEF Takes, Uses, Opens, WritesTmp, WritesCert, Moves, Stays, Rest
<1>4. WritesKey(p) \/ Removes(p) \/ Follows(p, s) \/ Picks(p, s) => Good
  BY DEF WritesKey, Removes, Follows, Picks, Moves, Stays, Rest
<1>5. Orders(p) => Good
  BY <1>1 DEF Orders, Ended, Moves, Rest
<1> HIDE DEF Good
<1>6. Good
  BY <1>1, <1>2, <1>3, <1>4, <1>5, Zenon DEF Works
<1> QED
  BY <1>6 DEF Good

(* What a process that works alone does, and how it ends. *)
LEMMA WorkStep ==
  ASSUME IInv, NEW p \in Processes, alone[p], AloneOn(p), NEW data, NEW k, NEW s,
         Works(p, data, k, s)
  PROVE  /\ (pc'[p] \notin Rest /\ alone'[p]) => AloneOn(p)'
         /\ pc'[p] = "idle" => After(p, "do", <<>>, using[p])
<1>1. ASSUME request'[p] = request[p], before'[p] = before[p],
             After(p, pc'[p], todo'[p], using'[p])
      PROVE  AloneOn(p)'
  BY <1>1 DEF After, AloneOn
<1>2. CASE Takes(p, data) \/ Opens(p) \/ WritesTmp(p) \/ WritesCert(p) \/ Removes(p)
  <2>1. /\ After(p, pc'[p], todo[p], using[p])
        /\ todo'[p] = todo[p] /\ using'[p] = using[p] /\ pc'[p] # "idle"
        /\ request'[p] = request[p] /\ before'[p] = before[p]
    BY <1>2, StayStep DEF Takes, Opens, WritesTmp, WritesCert, Removes, Moves, Stays
  <2> QED
    BY <1>1, <2>1
<1>3. CASE Uses(p, k) \/ WritesKey(p) \/ Follows(p, s) \/ Picks(p, s)
  <2>1. After(p, "do", todo'[p], using'[p])
    BY <1>3, OtherStep
  <2>2. pc'[p] = "do" /\ request'[p] = request[p] /\ before'[p] = before[p]
    BY <1>3 DEF Uses, WritesKey, Follows, Picks, Moves, Stays
  <2> QED
    BY <1>1, <2>1, <2>2
<1>4. CASE Passes(p) /\ (Skips(p) \/ Puts(p) \/ Refreshes(p) \/ Uninstalls(p) \/ Orders(p))
  <2>1. After(p, "do", Tail(todo[p]), using[p])
    BY <1>4, PassStep
  <2>2. CASE Tail(todo[p]) = <<>> /\ Ended(p, "idle")
    BY <2>1, <2>2 DEF Ended, Moves, Rest
  <2>3. CASE Moves(p, "do", Tail(todo[p]), None, using[p]) /\ Stays(p)
    BY <1>1, <2>1, <2>3 DEF Moves, Stays
  <2> QED
    BY <1>4, <2>2, <2>3 DEF Passes
<1>5. CASE Orders(p) /\ ~Passes(p)
  BY <1>5 DEF Orders, Ended, Moves
<1>6. Skips(p) \/ Puts(p) \/ Refreshes(p) \/ Uninstalls(p) => Passes(p)
  BY DEF Skips, Puts, Refreshes, Uninstalls
<1> QED
  BY <1>2, <1>3, <1>4, <1>5, <1>6, Zenon DEF Works

(* The steps of others do not disturb a process that works alone. *)
LEMMA UndisturbedStep ==
  ASSUME IInv, Undisturbed, Next
  PROVE  Undisturbed'
<1>0. Base
  BY DEF IInv, Base
<1> SUFFICES ASSUME NEW q \in Processes, alone'[q], pc'[q] \notin Rest
             PROVE  AloneOn(q)'
  BY DEF Undisturbed, Resting, Rest
<1>1. CASE Edit
  BY <1>1 DEF Edit
<1>2. ASSUME NEW p \in Processes, Stops(p) PROVE AloneOn(q)'
  <2>1. q # p
    BY <1>2 DEF Stops, Ended
  <2>2. /\ pc'[q] = pc[q] /\ request'[q] = request[q] /\ todo'[q] = todo[q]
        /\ using'[q] = using[q] /\ before'[q] = before[q] /\ alone[q]
        /\ UNCHANGED <<content, trust>>
    BY <1>2, <2>1 DEF Stops, Ended, Moves, OthersSame, disk
  <2>3. AloneOn(q)
    BY <2>2 DEF Undisturbed, Resting, Rest
  <2>4. Seen' = Seen
    BY <2>2, SeenSame
  <2> QED
    BY <2>2, <2>3, <2>4 DEF AloneOn
<1>3. ASSUME NEW p \in Processes, NEW data, NEW k, NEW s, Works(p, data, k, s)
      PROVE  AloneOn(q)'
  <2>1. OthersSame(p) /\ pc[p] \notin Rest /\ (alone'[p] => alone[p])
    BY <1>3, WorksAtOne
  <2>2. q = p
    <3>1. q # p => alone[q]
      BY <2>1 DEF OthersSame
    <3> QED
      BY <2>1, <3>1 DEF IInv, AloneRests, Resting, Rest
  <2>3. alone[p] /\ AloneOn(p)
    BY <2>1, <2>2 DEF Undisturbed, Resting, Rest
  <2>4. (pc'[p] \notin Rest /\ alone'[p]) => AloneOn(p)'
    BY <1>3, <2>3, WorkStep
  <2> QED
    BY <2>2, <2>4
<1>4. ASSUME NEW p \in Processes, NEW r, Begins(p, r) PROVE AloneOn(q)'
  <2>1. q = p /\ UNCHANGED <<content, trust>>
    BY <1>4 DEF Begins
  <2>2. /\ pc'[p] = "do" /\ todo'[p] = Jobs(r) /\ request'[p] = r /\ r \in Requests
        /\ before'[p] = [redirect |-> Seen, crt |-> content["crt"]]
    BY <1>4 DEF Begins, Moves
  <2>3. Seen' = Seen
    BY <2>1, SeenSame
  <2> DEFINE u == using'[p]
             b == before'[p]
             seen == Seen
             bin == content["binary"]
             crt == content["crt"]
             key == content["key"]
             tr == trust
  <2>4. b.redirect = seen /\ b.crt = crt
    BY <2>2
  <2>5. AloneOn(p)' = Underway("do", r, Jobs(r), u, b, seen, bin, crt, key, tr)
    BY <2>1, <2>2, <2>3 DEF AloneOn
  <2> HIDE DEF u, b, seen, bin, crt, key, tr
  <2>6. Underway("do", r, Jobs(r), u, b, seen, bin, crt, key, tr)
    BY <2>2, <2>4, Beginning
  <2> QED
    BY <2>1, <2>5, <2>6
<1> QED
  BY <1>0, <1>1, <1>2, <1>3, <1>4, WorkCases

LEMMA ReportStep ==
  ASSUME IInv, Undisturbed, Next, NEW q \in Processes, alone[q], pc[q] \notin Rest,
         pc'[q] = "idle"
  PROVE  Achieved(q)
<1>0. Base
  BY DEF IInv, Base
<1>1. AloneOn(q) /\ pc[q] # "idle"
  BY DEF Undisturbed, Resting, Rest
<1>2. ASSUME After(q, "do", <<>>, using[q]) PROVE Achieved(q)
  <2> DEFINE r == request[q]
             u == using[q]
             b == before[q]
             seen == Seen'
             bin == content'["binary"]
             crt == content'["crt"]
             key == content'["key"]
             tr == trust'
  <2>1. Underway("do", r, <<>>, u, b, seen, bin, crt, key, tr) /\ r \in Request
    BY <1>0, <1>2, HeadJob DEF After
  <2>2. Completed(r, u, b, seen, bin, key, tr) => Achieved(q)
    <3>1. seen = RedirectIP(Text(content'["hosts"]))
      BY DEF Seen
    <3> HIDE DEF seen
    <3> QED
      BY <3>1, Zenon DEF Completed, Achieved, Server
  <2> HIDE DEF r, u, b, seen, bin, crt, key, tr
  <2>3. Completed(r, u, b, seen, bin, key, tr)
    BY <2>1, Completion
  <2> QED
    BY <2>2, <2>3
<1>3. ASSUME NEW p \in Processes, OthersSame(p), p # q PROVE FALSE
  BY <1>1, <1>3 DEF OthersSame
<1>4. CASE Edit
  BY <1>1, <1>4 DEF Edit
<1>5. ASSUME NEW p \in Processes, Stops(p) PROVE Achieved(q)
  <2>1. OthersSame(p) /\ pc'[p] # "idle"
    BY <1>5 DEF Stops, Ended, Moves
  <2> QED
    BY <1>3, <2>1
<1>6. ASSUME NEW p \in Processes, NEW r, Begins(p, r) PROVE Achieved(q)
  <2>1. OthersSame(p) /\ pc'[p] = "do"
    BY <1>6 DEF Begins, Moves
  <2> QED
    BY <1>3, <2>1
<1>7. ASSUME NEW p \in Processes, NEW data, NEW k, NEW s, Works(p, data, k, s)
      PROVE  Achieved(q)
  <2>1. p = q
    BY <1>3, <1>7, WorksAtOne
  <2>2. After(q, "do", <<>>, using[q])
    BY <1>1, <1>7, <2>1, WorkStep
  <2> QED
    BY <1>2, <2>2
<1> QED
  BY <1>0, <1>4, <1>5, <1>6, <1>7, WorkCases

-----------------------------------------------------------------------------
(* The theorems *)

LEMMA InitInv == Init => IInv
<1> SUFFICES ASSUME Init PROVE IInv
  OBVIOUS
<1> DEFINE s == content["hosts"]
<1>1. s \in Start /\ content \in [Files -> Start \cup {None}]
  BY DEF Init
<1>2. Tidy(s) /\ Addressed(s, RedirectIP(s))
  BY <1>1, StartAssumption
<1>3. RedirectIP(s) \in IPs \cup {None}
  BY <1>2 DEF Tidy
<1>4. content \in [Files -> Contents]
  <2>1. \A x \in Start \cup {None} : x \in Contents
    BY StartAssumption, TidyIsContents DEF Contents
  <2> QED
    BY <1>1, <2>1
<1>5. tmp = [f \in Files |-> None] /\ tmp \in [Files -> Contents]
  BY DEF Init, Contents
<1>6. /\ content["hosts"] = s /\ content["binary"] = None /\ content["crt"] = None
      /\ content["key"] = None /\ trust = None /\ calls = 0 /\ identities = {} /\ spoilt = {}
      /\ foreign = ForeignLines(s) /\ redirect = RedirectIP(s)
  BY DEF Init
<1> HIDE DEF s
<1>7. FilesOK
  BY <1>2, <1>5, <1>6 DEF FilesOK, Files
<1>8. DiskKinds
  <2>1. MaxCalls \in Nat
    BY HostAssumption
  <2>2. calls \in 0 .. MaxCalls
    BY <1>6, <2>1
  <2> QED
    BY <1>3, <1>4, <1>5, <1>6, <2>2 DEF DiskKinds
<1>9. /\ pc = [p \in Processes |-> "idle"] /\ request = [p \in Processes |-> NoRequest]
      /\ todo = [p \in Processes |-> <<>>] /\ mem = [p \in Processes |-> None]
      /\ using = [p \in Processes |-> Nothing]
      /\ before = [p \in Processes |-> [redirect |-> None, crt |-> None]]
      /\ alone = [p \in Processes |-> FALSE]
  BY DEF Init, Nothing
<1>10. ProcessKinds
  <2>1. "idle" \in Steps /\ None \in Contents /\ Nothing \in Use /\ <<>> \in Seq(AJob)
        /\ [redirect |-> None, crt |-> None] \in
             [redirect : IPs \cup {None}, crt : IPs \cup {None, Torn}]
    BY DEF Steps, Contents, Nothing, Use
  <2> QED
    BY <1>9, <2>1 DEF ProcessKinds
<1>11. \A p \in Processes : pc[p] = "idle" /\ todo[p] = <<>> /\ using[p] = Nothing /\ ~alone[p]
  BY <1>9
<1>12. Controlled
  BY <1>11, NoJobs DEF Controlled, Rest
<1>13. \A p \in Processes : \A f : ~InHand(p, f)
  BY <1>11 DEF InHand
<1>14. Nothing.key = None
  BY DEF Nothing
<1>15. HostsOK
  BY <1>2, <1>6, <1>13 DEF HostsOK
<1>16. BinaryOK
  BY <1>6, HostAssumption DEF BinaryOK
<1>17. KeyOK
  BY <1>6, <1>11, <1>13, <1>14 DEF KeyOK
<1> QED
  BY <1>7, <1>8, <1>10, <1>11, <1>12, <1>13, <1>15, <1>16, <1>17
     DEF IInv, Unshared, AloneRests, OwnTmp

LEMMA StutterInv ==
  ASSUME IInv, UNCHANGED vars
  PROVE  IInv'
<1>1. UNCHANGED <<content, tmp, trust, pc, request, todo, mem, using, calls, identities,
                  foreign, redirect, before, alone, spoilt>>
  BY DEF vars
<1>2. (ProcessKinds /\ DiskKinds /\ FilesOK)'
  BY <1>1 DEF IInv, ProcessKinds, DiskKinds, FilesOK
<1>3. (Controlled /\ Unshared /\ AloneRests /\ OwnTmp)'
  BY <1>1 DEF IInv, Controlled, Unshared, AloneRests, OwnTmp, InHand, File, Resting
<1>4. (HostsOK /\ BinaryOK /\ KeyOK)'
  BY <1>1 DEF IInv, HostsOK, BinaryOK, KeyOK, InHand, File
<1> QED
  BY <1>2, <1>3, <1>4 DEF IInv

LEMMA StepInv == IInv /\ [Next]_vars => IInv'
<1> SUFFICES ASSUME IInv, [Next]_vars PROVE IInv'
  OBVIOUS
<1>1. CASE UNCHANGED vars
  BY <1>1, StutterInv
<1>2. CASE Next
  <2>1. Base /\ Unshared /\ AloneRests /\ OwnTmp /\ HostsOK /\ BinaryOK /\ KeyOK
    BY DEF IInv, Base
  <2>2. Controlled' /\ ProcessKinds' /\ DiskKinds' /\ FilesOK'
    BY <1>2, <2>1, ControlledStep, DiskStep
  <2>3. Unshared' /\ AloneRests' /\ OwnTmp'
    BY <1>2, <2>1, UnsharedStep, AloneStep, OwnTmpStep
  <2>4. HostsOK' /\ BinaryOK' /\ KeyOK'
    BY <1>2, <2>1, HostsStep, BinaryStep, KeyStep
  <2> QED
    BY <2>2, <2>3, <2>4 DEF IInv
<1> QED
  BY <1>1, <1>2

LEMMA Invariance == Spec => []IInv
BY InitInv, StepInv, PTL DEF Spec

(* Every file holds data of its kind and every process is at a step of a job,
   whatever overlaps, fails or dies: a command never runs out of jobs half-way,
   and never writes what it has not made up (cli/client.go, hosts, certs). *)
THEOREM Types == Spec => []TypeOK
<1>1. IInv => TypeOK
  <2> SUFFICES ASSUME IInv PROVE TypeOK
    OBVIOUS
  <2>0. Base
    BY DEF IInv, Base
  <2>1. ASSUME NEW p \in Processes
        PROVE  /\ pc[p] \in Steps
               /\ Resting(p) <=> todo[p] = <<>>
               /\ request[p] \in Requests \cup {NoRequest}
               /\ using[p] \in [server : IPs \cup {None}, key : KeyIds \cup {None}]
               /\ pc[p] = "write" /\ File(p) # "hosts" => mem[p] \in Data \ {None, Torn}
    <3>1. /\ pc[p] \in Steps /\ request[p] \in Requests \cup {NoRequest}
          /\ using[p] \in [server : IPs \cup {None}, key : KeyIds \cup {None}]
      BY <2>0 DEF Base, ProcessKinds, Use
    <3>2. (Resting(p) => todo[p] = <<>>) /\ (~Resting(p) => todo[p] # <<>>)
      BY <2>0 DEF Base, Controlled, ControlOK, Resting, Rest
    <3>3. ASSUME pc[p] = "write", File(p) # "hosts"
          PROVE  mem[p] \in Data \ {None, Torn}
      <4>1. pc[p] \in Hand
        BY <3>3 DEF Hand
      <4>2. /\ File(p) \in Files /\ mem[p] # None /\ mem[p] # Torn
            /\ File(p) = "binary" => mem[p] \in Versions
            /\ File(p) = "crt" => mem[p] \in IPs
            /\ File(p) = "key" => mem[p] \in KeyIds
        BY <2>0, <4>1, WrittenOK
      <4> QED
        BY <3>3, <4>2 DEF Files, Data
    <3> QED
      BY <3>1, <3>2, <3>3
  <2>2. \A s : Tidy(s) => s \in Seq(Line)
    BY DEF Tidy
  <2>3. /\ content["hosts"] = Torn \/ content["hosts"] \in Seq(Line)
        /\ tmp["hosts"] \in {None, Torn} \/ tmp["hosts"] \in Seq(Line)
        /\ \A f \in InPlace : tmp[f] = None
        /\ content["binary"] \in Versions \cup {None, Torn}
        /\ content["crt"] \in IPs \cup {None, Torn}
        /\ content["key"] \in KeyIds \cup {None, Torn}
    BY <2>0, <2>2 DEF Base, FilesOK, InPlace
  <2>4. /\ trust \in IPs \cup {None} /\ redirect \in IPs \cup {None}
        /\ calls \in 0 .. MaxCalls /\ identities \subseteq KeyIds /\ spoilt \subseteq Files
    BY <2>0 DEF Base, DiskKinds
  <2> QED
    BY <2>1, <2>3, <2>4 DEF TypeOK
<1> QED
  BY <1>1, Invariance, PTL

(* hosts.Enable and Disable, and InstallBinary: a hosts file that no two had in
   hand at once keeps every foreign line and one managed address, the one put into
   place last, and a binary like that is whole, whatever fails or dies and
   whatever it leaves behind. *)
THEOREM FilesAreKept == Spec => []FilesKept
<1>1. IInv => FilesKept
  <2> SUFFICES ASSUME IInv PROVE FilesKept
    OBVIOUS
  <2>1. \A s : Tidy(s) => s # Torn
    BY HostAssumption DEF Tidy
  <2> QED
    BY <2>1 DEF IInv, HostsOK, BinaryOK, FilesKept
<1> QED
  BY <1>1, Invariance, PTL

(* LoadOrCreateAccountKey: a host registers under one key only, as long as no two
   first runs overlap and the key file can be read. *)
THEOREM OneIdentityOnly == Spec => []OneIdentity
<1>1. IInv => OneIdentity
  <2> SUFFICES ASSUME IInv, "key" \notin spoilt PROVE Cardinality(identities) <= 1
    BY DEF OneIdentity
  <2>1. identities \subseteq {content["key"]}
    BY DEF IInv, KeyOK
  <2>2. IsFiniteSet({content["key"]}) /\ Cardinality({content["key"]}) = 1
    BY FS_Singleton
  <2>3. Cardinality(identities) <= Cardinality({content["key"]})
    BY <2>1, <2>2, FS_Subset
  <2> QED
    BY <2>2, <2>3
<1> QED
  BY <1>1, Invariance, PTL

LEMMA UndisturbedStays == Spec => []Undisturbed
<1>1. Init => Undisturbed
  BY DEF Init, Undisturbed, Resting
<1>2. IInv /\ Undisturbed /\ [Next]_vars => Undisturbed'
  <2> SUFFICES ASSUME IInv, Undisturbed, [Next]_vars PROVE Undisturbed'
    OBVIOUS
  <2>1. CASE Next
    BY <2>1, UndisturbedStep
  <2>2. CASE UNCHANGED vars
    BY <2>2 DEF vars, Undisturbed, AloneOn, Resting, Seen
  <2> QED
    BY <2>1, <2>2
<1> QED
  BY <1>1, <1>2, Invariance, PTL DEF Spec

(* The report of success of every client command (cli/client.go, client_enroll.go,
   hosts.go, cert.go): one that nobody disturbed has done all it was asked to,
   whatever failed or died before it began.  It says nothing of the trust that an
   uninstall leaves which finds no certificate file, see Achieved. *)
THEOREM SuccessIsReal == Spec => ReportsTrue
<1> DEFINE Report(p) == (~Resting(p) /\ pc'[p] = "idle" /\ alone[p]) => Achieved(p)
<1>1. IInv /\ Undisturbed /\ [Next]_vars => [\A p \in Processes : Report(p)]_vars
  <2> SUFFICES ASSUME IInv, Undisturbed, Next, NEW p \in Processes,
                      ~Resting(p), pc'[p] = "idle", alone[p]
               PROVE  Achieved(p)
    OBVIOUS
  <2>1. pc[p] \notin Rest
    BY DEF Resting, Rest
  <2> QED
    BY <2>1, ReportStep
<1> QED
  BY <1>1, Invariance, UndisturbedStays, PTL DEF Spec, ReportsTrue
=============================================================================

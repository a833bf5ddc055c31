------------------------- MODULE ServerParts_proofs -------------------------
(***************************************************************************)
(* The parts of MCServerParts, for any number of frames, lines, processes, *)
(* sessions and calls, and any way in which the bytes of a stream are cut. *)
(***************************************************************************)
EXTENDS MCServerParts, UnifiedServer_proofs, FiniteSetTheorems

\* An instance has its own copy of the modules that it extends.
LEMMA SameOperators ==
  /\ \A S : Logs!Cardinality(S) = Cardinality(S)
  /\ \A s : Codec!ToSet(s) = ToSet(s)
  /\ \A s : Codec!IsInjective(s) <=> IsInjective(s)
  /\ \A s, t : Codec!IsPrefix(s, t) <=> IsPrefix(s, t)
<1>1. \A S : Logs!IsFiniteSet(S) <=> IsFiniteSet(S)
  BY DEF Logs!IsFiniteSet, IsFiniteSet
<1>2. \A S : Logs!Cardinality(S) = Cardinality(S)
  BY <1>1 DEF Logs!Cardinality, Cardinality
<1>3. \A s : Codec!ToSet(s) = ToSet(s)
  BY DEF Codec!ToSet, ToSet
<1>4. \A s : Codec!IsInjective(s) <=> IsInjective(s)
  BY DEF Codec!IsInjective, IsInjective
<1>5. \A s, t : Codec!IsPrefix(s, t) <=> IsPrefix(s, t)
  BY DEF Codec!IsPrefix, IsPrefix
<1> QED
  BY <1>2, <1>3, <1>4, <1>5

-----------------------------------------------------------------------------
(* ObservedLogs: what a log may hold *)

\* Who writes a file.
WriterOf(f) == IF f = "runtime" THEN "game" ELSE f

\* Lines are numbered and stamped in the order in which they were logged.
Numbered ==
  /\ IsFiniteSet(console)
  /\ \A e \in console : e.n <= lines
  /\ \A e, g \in console : e.n = g.n => e = g
  /\ \A f \in Logs!Files :
       /\ IsFiniteSet(file[f])
       /\ \A e \in file[f] : e.n <= lines /\ e.at <= clock /\ e.by = WriterOf(f)
       /\ \A e, g \in file[f] : e.n < g.n => e.at <= g.at

\* Nothing from before the last answered clear is left, nor, between the two halves
\* of a clear, anything from before that one in the logs that the editor knows.
Emptied ==
  /\ \A e \in console : e.n > cleared
  /\ \A f \in Logs!Files : \A e \in file[f] : e.n > cleared
  /\ clear = "done" =>
       /\ \A e \in console : e.n > since
       /\ \A e \in file["addon"] : e.n > since

LogsInv == Logs!TypeOK /\ Numbered /\ Emptied

\* The last k lines are some of the lines, at most k.
LEMMA LatestBounded ==
  ASSUME NEW S, IsFiniteSet(S), \A e \in S : e.n \in Nat,
         \A e, g \in S : e.n = g.n => e = g, NEW k \in Nat
  PROVE  /\ Logs!Latest(S, k) \subseteq S
         /\ IsFiniteSet(Logs!Latest(S, k))
         /\ Cardinality(Logs!Latest(S, k)) <= k
<1> DEFINE L == Logs!Latest(S, k)
<1>1. L \subseteq S /\ \A e \in L : Cardinality({f \in S : e.n < f.n}) < k
  BY SameOperators DEF Logs!Latest
<1> HIDE DEF L
<1>2. IsFiniteSet(L)
  BY <1>1, FS_Subset
<1>3. CASE L = {}
  BY <1>1, <1>2, <1>3, FS_EmptySet DEF L
<1>4. CASE L # {}
  <2> DEFINE T == {e.n : e \in L}
  <2>1. T \subseteq Nat /\ T # {}
    BY <1>1, <1>4
  <2>2. PICK x \in T : \A y \in T : x <= y
    BY <2>1, HasLeast
  <2>3. PICK m \in L : x = m.n
    BY <2>2
  <2> DEFINE D == {f \in S : m.n < f.n}
  <2>4. m \in S /\ \A f \in L : f.n \in Nat /\ m.n \in Nat /\ m.n <= f.n /\ f \in S
    BY <1>1, <2>2, <2>3
  <2>5. L \subseteq D \cup {m}
    BY <2>4
  <2>6. D \subseteq S /\ Cardinality(D) < k
    BY <1>1, <2>3
  <2> HIDE DEF D, T
  <2>7. IsFiniteSet(D) /\ Cardinality(D) \in Nat
    BY <2>6, FS_Subset, FS_CardinalityType
  <2>8. IsFiniteSet(D \cup {m}) /\ Cardinality(D \cup {m}) <= k
    <3>1. /\ IsFiniteSet(D \cup {m})
          /\ Cardinality(D \cup {m}) = IF m \in D THEN Cardinality(D) ELSE Cardinality(D) + 1
      BY <2>7, FS_AddElement
    <3> QED
      BY <2>6, <2>7, <3>1
  <2>9. Cardinality(L) <= Cardinality(D \cup {m})
    BY <2>5, <2>8, FS_Subset
  <2>10. Cardinality(L) \in Nat /\ Cardinality(D \cup {m}) \in Nat
    BY <1>2, <2>8, FS_CardinalityType
  <2> QED
    BY <1>1, <1>2, <2>8, <2>9, <2>10 DEF L
<1> QED
  BY <1>3, <1>4

\* Every log is empty when it starts.
LEMMA LogsInit == Logs!Init => LogsInv
<1> SUFFICES ASSUME Logs!Init PROVE LogsInv
  OBVIOUS
<1>1. IsFiniteSet({}) /\ Cardinality({}) = 0
  BY FS_EmptySet
<1>2. Logs!TypeOK
  <2>1. console \subseteq Logs!Line /\ Logs!Cardinality(console) <= RingSize
    BY <1>1, SameOperators, LogsAssumption DEF Logs!Init
  <2>2. file \in [Logs!Files -> SUBSET Logs!Line]
    BY DEF Logs!Init
  <2>3. /\ lines \in 0..MaxLines /\ clock \in 1..MaxClock
        /\ since \in 0..lines /\ cleared \in 0..lines
    BY LogsAssumption DEF Logs!Init
  <2> QED
    BY <2>1, <2>2, <2>3 DEF Logs!Init, Logs!TypeOK
<1> QED
  BY <1>1, <1>2 DEF Logs!Init, LogsInv, Numbered, Emptied, Logs!Files

\* A new line in the console ring.
LEMMA ConsoleAppends ==
  ASSUME LogsInv, lines < MaxLines, NEW by \in Logs!Writers, NEW e \in Logs!NewLines(by),
         Logs!Append(e)
  PROVE  /\ console' \subseteq Logs!Line /\ Cardinality(console') <= RingSize
         /\ IsFiniteSet(console')
         /\ \A g \in console' : g.n <= lines + 1
         /\ \A g, h \in console' : g.n = h.n => g = h
         /\ \A g \in console' : g \in console \/ g.n = lines + 1
<1> DEFINE S == console \cup {e}
<1>1. lines \in Nat /\ e.n = lines + 1 /\ e \in Logs!Line
  BY LogsAssumption DEF LogsInv, Logs!TypeOK, Logs!NewLines, Logs!Line
<1>2. console \subseteq Logs!Line /\ IsFiniteSet(console)
  BY DEF LogsInv, Logs!TypeOK, Numbered
<1>3. IsFiniteSet(S)
  BY <1>2, FS_AddElement
<1>4. \A g \in S : g.n \in Nat /\ g.n <= lines + 1
  BY <1>1, <1>2, LogsAssumption DEF LogsInv, Numbered, Logs!Line
<1>5. \A g, h \in S : g.n = h.n => g = h
  BY <1>1, <1>4 DEF LogsInv, Numbered
<1>6. console' = Logs!Latest(S, RingSize)
  BY DEF Logs!Append
<1>7. S \subseteq Logs!Line /\ \A g \in S : g \in console \/ g.n = lines + 1
  BY <1>1, <1>2
<1> HIDE DEF S
<1>8. /\ console' \subseteq S /\ IsFiniteSet(console')
      /\ Cardinality(console') <= RingSize
  BY <1>3, <1>4, <1>5, <1>6, LatestBounded, LogsAssumption
<1> QED
  BY <1>4, <1>5, <1>7, <1>8

\* A new line in a file.
LEMMA FileAppends ==
  ASSUME LogsInv, lines < MaxLines, NEW f \in Logs!Files, NEW e \in Logs!NewLines(WriterOf(f)),
         file' = [file EXCEPT ![f] = @ \cup {e}]
  PROVE  /\ file' \in [Logs!Files -> SUBSET Logs!Line]
         /\ \A x \in Logs!Files :
              /\ IsFiniteSet(file'[x])
              /\ \A g \in file'[x] : g.n <= lines + 1 /\ g.at <= clock /\ g.by = WriterOf(x)
              /\ \A g, h \in file'[x] : g.n < h.n => g.at <= h.at
              /\ \A g \in file'[x] : g \in file[x] \/ g.n = lines + 1
<1>1. /\ lines \in Nat /\ clock \in 1..MaxClock
      /\ e.n = lines + 1 /\ e.at = clock /\ e.by = WriterOf(f) /\ e \in Logs!Line
  BY LogsAssumption
  DEF LogsInv, Logs!TypeOK, Logs!NewLines, Logs!Line, Logs!Files, Logs!Writers, WriterOf
<1>2. file \in [Logs!Files -> SUBSET Logs!Line]
  BY DEF LogsInv, Logs!TypeOK
<1>3. file' \in [Logs!Files -> SUBSET Logs!Line]
  BY <1>1, <1>2
<1>4. ASSUME NEW x \in Logs!Files
      PROVE  /\ IsFiniteSet(file'[x])
             /\ \A g \in file'[x] : g.n <= lines + 1 /\ g.at <= clock /\ g.by = WriterOf(x)
             /\ \A g, h \in file'[x] : g.n < h.n => g.at <= h.at
             /\ \A g \in file'[x] : g \in file[x] \/ g.n = lines + 1
  <2>1. /\ IsFiniteSet(file[x])
        /\ \A g \in file[x] : g.n <= lines /\ g.at <= clock /\ g.by = WriterOf(x)
        /\ \A g, h \in file[x] : g.n < h.n => g.at <= h.at
        /\ \A g \in file[x] : g.n \in Nat /\ g.at \in Nat
    BY <1>2, LogsAssumption DEF LogsInv, Numbered, Logs!Line
  <2>2. CASE x # f
    <3>1. file'[x] = file[x]
      BY <1>2, <2>2
    <3> QED
      BY <1>1, <2>1, <3>1
  <2>3. CASE x = f
    <3>1. file'[x] = file[x] \cup {e}
      BY <1>2, <2>3
    <3>2. IsFiniteSet(file'[x])
      BY <2>1, <3>1, FS_AddElement
    <3>3. \A g \in file'[x] : g \in file[x] \/ g = e
      BY <3>1
    <3>4. \A g, h \in file'[x] : g.n < h.n => g.at <= h.at
      BY <1>1, <2>1, <3>3, LogsAssumption
    <3> QED
      BY <1>1, <2>1, <2>3, <3>2, <3>3, <3>4
  <2> QED
    BY <2>2, <2>3
<1> QED
  BY <1>3, <1>4

\* The writers.
LEMMA WritersKeepLogs ==
  ASSUME LogsInv,
         Logs!ConsoleLogs \/ Logs!AddonLogs \/ Logs!ServerLogs \/ Logs!GameLogs
  PROVE  LogsInv'
<1>1. /\ lines < MaxLines /\ lines' = lines + 1
      /\ UNCHANGED <<clock, captures, plays, clear, since, cleared>>
  BY DEF Logs!ConsoleLogs, Logs!AddonLogs, Logs!ServerLogs, Logs!GameLogs, Logs!Counts,
         Logs!clearVars
<1>2. /\ console' \subseteq Logs!Line /\ Cardinality(console') <= RingSize
      /\ IsFiniteSet(console')
      /\ \A g \in console' : g.n <= lines + 1
      /\ \A g, h \in console' : g.n = h.n => g = h
      /\ \A g \in console' : g \in console \/ g.n = lines + 1
  <2>1. CASE UNCHANGED console
    BY <2>1, SameOperators, LogsAssumption DEF LogsInv, Logs!TypeOK, Numbered, Logs!Line
  <2>2. CASE \E by \in Logs!Writers : \E e \in Logs!NewLines(by) : Logs!Append(e)
    BY <1>1, <2>2, ConsoleAppends
  <2> QED
    BY <2>1, <2>2
    DEF Logs!ConsoleLogs, Logs!AddonLogs, Logs!ServerLogs, Logs!GameLogs, Logs!Writers
<1>3. /\ file' \in [Logs!Files -> SUBSET Logs!Line]
      /\ \A x \in Logs!Files :
           /\ IsFiniteSet(file'[x])
           /\ \A g \in file'[x] : g.n <= lines + 1 /\ g.at <= clock /\ g.by = WriterOf(x)
           /\ \A g, h \in file'[x] : g.n < h.n => g.at <= h.at
           /\ \A g \in file'[x] : g \in file[x] \/ g.n = lines + 1
  <2>1. CASE UNCHANGED file
    BY <2>1, LogsAssumption DEF LogsInv, Logs!TypeOK, Numbered, Logs!Line
  <2>2. CASE \E f \in Logs!Files : \E e \in Logs!NewLines(WriterOf(f)) :
               file' = [file EXCEPT ![f] = @ \cup {e}]
    BY <1>1, <2>2, FileAppends
  <2>3. WriterOf("addon") = "addon" /\ WriterOf("server") = "server" /\ WriterOf("runtime") = "game"
    BY DEF WriterOf
  <2> QED
    BY <2>1, <2>2, <2>3
    DEF Logs!ConsoleLogs, Logs!AddonLogs, Logs!ServerLogs, Logs!GameLogs, Logs!Files
<1>4. lines \in Nat /\ since \in 0..lines /\ cleared \in 0..lines /\ lines + 1 <= MaxLines
  BY <1>1, LogsAssumption DEF LogsInv, Logs!TypeOK
<1>5. Logs!TypeOK'
  BY <1>1, <1>2, <1>3, <1>4, SameOperators, LogsAssumption DEF LogsInv, Logs!TypeOK
<1>6. Numbered'
  BY <1>1, <1>2, <1>3 DEF Numbered
<1>7. Emptied'
  <2>1. "addon" \in Logs!Files
    BY DEF Logs!Files
  <2> QED
    BY <1>1, <1>2, <1>3, <1>4, <2>1 DEF LogsInv, Emptied
<1> QED
  BY <1>5, <1>6, <1>7 DEF LogsInv

\* Time passes, the editor and its scene start and end.
LEMMA EditorKeepsLogs ==
  ASSUME LogsInv,
         Logs!Tick \/ Logs!EditorRestarts \/ Logs!Play \/ Logs!PlayEnds
  PROVE  LogsInv'
<1>0. IsFiniteSet({}) /\ Cardinality({}) = 0
  BY FS_EmptySet
<1>1. CASE Logs!Tick
  <2>1. /\ clock' = clock + 1 /\ clock' \in 1..MaxClock
        /\ UNCHANGED <<console, file, lines, captures, plays, clear, since, cleared>>
    BY <1>1, LogsAssumption
    DEF Logs!Tick, LogsInv, Logs!TypeOK, Logs!logVars, Logs!clearVars
  <2>2. Logs!TypeOK'
    BY <2>1, SameOperators DEF LogsInv, Logs!TypeOK
  <2>3. \A f \in Logs!Files : \A e \in file[f] : e.at \in Nat /\ clock \in Nat
    BY LogsAssumption DEF LogsInv, Logs!TypeOK, Logs!Line
  <2>4. Numbered'
    BY <2>1, <2>3 DEF LogsInv, Numbered
  <2> QED
    BY <2>1, <2>2, <2>4 DEF LogsInv, Emptied
<1>2. CASE Logs!EditorRestarts
  <2>1. /\ console' = {} /\ plays' = FALSE
        /\ UNCHANGED <<file, lines, clock, captures, clear, since, cleared>>
    BY <1>2 DEF Logs!EditorRestarts, Logs!clearVars
  <2>2. console' \subseteq Logs!Line /\ plays' \in BOOLEAN
    BY <2>1
  <2>3. Logs!Cardinality(console') <= RingSize
    BY <1>0, <2>1, SameOperators, LogsAssumption
  <2>4. Logs!TypeOK'
    BY <2>1, <2>2, <2>3 DEF LogsInv, Logs!TypeOK
  <2> QED
    BY <1>0, <2>1, <2>4 DEF LogsInv, Numbered, Emptied
<1>3. CASE Logs!Play
  <2>1. /\ plays' = TRUE
        /\ UNCHANGED <<console, lines, clock, captures, clear, since, cleared>>
        /\ file' = [file EXCEPT !["runtime"] = {}] \/ file' = file
    BY <1>3 DEF Logs!Play, Logs!clearVars
  <2>2. file' \in [Logs!Files -> SUBSET Logs!Line]
    BY <2>1 DEF LogsInv, Logs!TypeOK
  <2>3. \A f \in Logs!Files : file'[f] = file[f] \/ file'[f] = {}
    BY <2>1 DEF LogsInv, Logs!TypeOK
  <2>4. file'["addon"] = file["addon"]
    BY <2>1 DEF LogsInv, Logs!TypeOK, Logs!Files
  <2>5. Logs!TypeOK'
    BY <2>1, <2>2 DEF LogsInv, Logs!TypeOK
  <2>6. Numbered'
    BY <1>0, <2>1, <2>3 DEF LogsInv, Numbered
  <2>7. Emptied'
    BY <2>1, <2>3, <2>4 DEF LogsInv, Emptied
  <2> QED
    BY <2>5, <2>6, <2>7 DEF LogsInv
<1>4. CASE Logs!PlayEnds
  BY <1>4 DEF Logs!PlayEnds, Logs!logVars, Logs!clearVars, LogsInv, Logs!TypeOK, Numbered, Emptied
<1> QED
  BY <1>1, <1>2, <1>3, <1>4

\* The two halves of a clear, which may fail in between.
LEMMA ClearsKeepLogs ==
  ASSUME LogsInv,
         Logs!AskClear \/ Logs!EditorClears \/ Logs!ClearAnswered \/ Logs!ClearFails
  PROVE  LogsInv'
<1>0. IsFiniteSet({}) /\ Cardinality({}) = 0
  BY FS_EmptySet
<1>1. CASE Logs!AskClear
  BY <1>1, LogsAssumption
  DEF Logs!AskClear, Logs!logVars, LogsInv, Logs!TypeOK, Numbered, Emptied
<1>2. CASE Logs!EditorClears
  <2>1. /\ clear' = "done" /\ console' = {}
        /\ file' = [file EXCEPT !["addon"] = {}, !["runtime"] = {}]
        /\ UNCHANGED <<lines, clock, captures, plays, since, cleared>>
    BY <1>2 DEF Logs!EditorClears
  <2>2. file' \in [Logs!Files -> SUBSET Logs!Line]
    BY <2>1 DEF LogsInv, Logs!TypeOK
  <2>3. \A f \in Logs!Files : file'[f] = file[f] \/ file'[f] = {}
    BY <2>1 DEF LogsInv, Logs!TypeOK, Logs!Files
  <2>4. file'["addon"] = {}
    BY <2>1 DEF LogsInv, Logs!TypeOK, Logs!Files
  <2>5. Logs!TypeOK'
    BY <1>0, <2>1, <2>2, SameOperators, LogsAssumption DEF LogsInv, Logs!TypeOK
  <2>6. Numbered'
    BY <1>0, <2>1, <2>3 DEF LogsInv, Numbered
  <2>7. Emptied'
    BY <2>1, <2>3, <2>4 DEF LogsInv, Emptied
  <2> QED
    BY <2>5, <2>6, <2>7 DEF LogsInv
<1>3. CASE Logs!ClearAnswered
  <2>1. /\ clear = "done" /\ clear' = "idle" /\ cleared' = since /\ since' = 0
        /\ file' = [file EXCEPT !["server"] = {}, !["runtime"] = {}]
        /\ UNCHANGED <<console, lines, clock, captures, plays>>
    BY <1>3 DEF Logs!ClearAnswered, Logs!ClearLocalFiles
  <2>2. file' \in [Logs!Files -> SUBSET Logs!Line]
    BY <2>1 DEF LogsInv, Logs!TypeOK
  <2>3. \A f \in Logs!Files : file'[f] = {} \/ (f = "addon" /\ file'[f] = file[f])
    BY <2>1 DEF LogsInv, Logs!TypeOK, Logs!Files
  <2>4. Logs!TypeOK'
    BY <2>1, <2>2, LogsAssumption DEF LogsInv, Logs!TypeOK
  <2>5. Numbered'
    BY <1>0, <2>1, <2>3 DEF LogsInv, Numbered
  <2>6. Emptied'
    BY <2>1, <2>3 DEF LogsInv, Emptied
  <2> QED
    BY <2>4, <2>5, <2>6 DEF LogsInv
<1>4. CASE Logs!ClearFails
  BY <1>4, LogsAssumption
  DEF Logs!ClearFails, Logs!logVars, LogsInv, Logs!TypeOK, Numbered, Emptied
<1> QED
  BY <1>1, <1>2, <1>3, <1>4

\* Every step of the editor, a writer or a clear keeps the invariant of the logs.
LEMMA LogsStep == LogsInv /\ [Logs!Next]_(Logs!vars) => LogsInv'
<1>1. ASSUME LogsInv, UNCHANGED Logs!vars PROVE LogsInv'
  BY <1>1, SameOperators
  DEF Logs!vars, Logs!logVars, Logs!clearVars, LogsInv, Logs!TypeOK, Numbered, Emptied
<1> QED
  BY <1>1, WritersKeepLogs, EditorKeepsLogs, ClearsKeepLogs DEF Logs!Next

-----------------------------------------------------------------------------
(* ObservedLogs: what a read returns *)

\* The lines of a log that the last k leave out have k later ones in that log.
LEMMA LatestLeavesOut ==
  ASSUME NEW S, IsFiniteSet(S), NEW k \in Nat, NEW e \in S, e \notin Logs!Latest(S, k)
  PROVE  Cardinality({f \in S : e.n < f.n}) >= k
<1> DEFINE D == {f \in S : e.n < f.n}
<1>1. ~(Cardinality(D) < k)
  BY SameOperators DEF Logs!Latest
<1>2. Cardinality(D) \in Nat
  BY FS_Subset, FS_CardinalityType
<1> HIDE DEF D
<1>3. Cardinality(D) >= k
  BY <1>1, <1>2
<1> QED
  BY <1>3 DEF D

\* The same of the last k by time stamp.
LEMMA LastSortedLeavesOut ==
  ASSUME NEW S, IsFiniteSet(S), NEW k \in Nat, NEW e \in S, e \notin Logs!LastSorted(S, k)
  PROVE  Cardinality({f \in S : Logs!Sorted(e, f)}) >= k
<1> DEFINE D == {f \in S : Logs!Sorted(e, f)}
<1>1. ~(Cardinality(D) < k)
  BY SameOperators DEF Logs!LastSorted
<1>2. Cardinality(D) \in Nat
  BY FS_Subset, FS_CardinalityType
<1> HIDE DEF D
<1>3. Cardinality(D) >= k
  BY <1>1, <1>2
<1> QED
  BY <1>3 DEF D

\* Whatever a read returns is in one of the logs.
LEMMA ReadableIsLogged ==
  ASSUME LogsInv, NEW e \in Logs!Readable
  PROVE  e \in console \/ \E f \in Logs!Files : e \in file[f]
<1>1. "runtime" \in Logs!Files
  BY DEF Logs!Files
<1>2. \A S, k : Logs!Latest(S, k) \subseteq S /\ Logs!LastSorted(S, k) \subseteq S
  BY DEF Logs!Latest, Logs!LastSorted
<1>3. \A S, errors : Logs!Chosen(S, errors) \subseteq S
  BY DEF Logs!Chosen, Logs!ErrorsOf
<1>4. \A k : \A g \in Logs!MergedLogs(k) : \E f \in Logs!Files : g \in file[f]
  BY <1>2 DEF Logs!MergedLogs
<1>5. CASE e \in Logs!MergedLogs(Limit)
  BY <1>4, <1>5
<1>6. CASE e \in Logs!FallbackErrors
  <2>1. e \in Logs!MergedLogs(2 * Limit)
    BY <1>2, <1>6 DEF Logs!FallbackErrors, Logs!ErrorsOf
  <2> QED
    BY <1>4, <2>1
<1>7. CASE \E errors \in BOOLEAN : e \in Logs!EditorLogs(errors)
  <2>1. PICK errors \in BOOLEAN : e \in Logs!EditorLogs(errors)
    BY <1>7
  <2>2. \/ e \in Logs!Latest(Logs!Chosen(file["runtime"], errors), Limit)
        \/ e \in Logs!Latest(Logs!Chosen(console, errors), Limit)
    BY <2>1 DEF Logs!EditorLogs
  <2>3. e \in Logs!Chosen(file["runtime"], errors) \/ e \in Logs!Chosen(console, errors)
    BY <1>2, <2>2
  <2> QED
    BY <1>1, <1>3, <2>3
<1> QED
  BY <1>5, <1>6, <1>7 DEF Logs!Readable

\* What a read returns is in the ring or the files, and neither holds a cleared line.
LEMMA ClearedInParts == LogsInv => Logs!ClearedStaysCleared
BY ReadableIsLogged DEF LogsInv, Emptied, Logs!ClearedStaysCleared

\* All that is in the files.
InFiles == UNION {file[f] : f \in Logs!Files}

\* A line that sorts behind another one is ahead of it.
LEMMA SortedIsAhead ==
  ASSUME LogsInv, NEW e \in InFiles, NEW g \in InFiles, Logs!Sorted(e, g),
         NEW S, g \in S
  PROVE  g \in Logs!Ahead(S, e)
<1>1. PICK x \in Logs!Files : e \in file[x]
  BY DEF InFiles
<1>2. PICK y \in Logs!Files : g \in file[y]
  BY DEF InFiles
<1>3. /\ e.n \in Nat /\ e.at \in Nat \ {0} /\ g.n \in Nat /\ g.at \in Nat \ {0}
      /\ e.by = WriterOf(x) /\ g.by = WriterOf(y)
  BY <1>1, <1>2, LogsAssumption DEF LogsInv, Numbered, Logs!TypeOK, Logs!Line
<1>4. /\ e.by \in {"addon", "server", "game"} /\ g.by \in {"addon", "server", "game"}
  BY <1>3 DEF WriterOf, Logs!Files
<1>5. /\ Logs!Stamp(e) \in Nat /\ Logs!Stamp(g) \in Nat
      /\ Logs!Stamp(e) = 0 \/ Logs!Stamp(e) \in {2 * e.at, 2 * e.at + 1}
      /\ Logs!Stamp(g) = 0 \/ Logs!Stamp(g) \in {2 * g.at, 2 * g.at + 1}
  BY <1>3, <1>4 DEF Logs!Stamp
<1>6. Logs!Stamp(e) < Logs!Stamp(g) \/ (Logs!Stamp(e) = Logs!Stamp(g) /\ e.n < g.n)
  BY DEF Logs!Sorted
<1>7. g # e
  BY <1>3, <1>5, <1>6
<1>8. Logs!Stamp(e) = 0 => Logs!Stamp(g) > 0 \/ g.n > e.n
  BY <1>3, <1>5, <1>6
<1>9. Logs!Stamp(e) # 0 => g.at >= e.at /\ Logs!Stamp(g) > 0
  BY <1>3, <1>5, <1>6
<1> QED
  BY <1>7, <1>8, <1>9 DEF Logs!Ahead

\* So is a later line of the same file.
LEMMA LaterIsAhead ==
  ASSUME LogsInv, NEW x \in Logs!Files, NEW e \in file[x], NEW g \in file[x], e.n < g.n,
         NEW S, g \in S
  PROVE  g \in Logs!Ahead(S, e)
<1>1. /\ e.n \in Nat /\ e.at \in Nat \ {0} /\ g.n \in Nat /\ g.at \in Nat \ {0}
      /\ e.by = WriterOf(x) /\ g.by = WriterOf(x) /\ e.at <= g.at
  BY LogsAssumption DEF LogsInv, Numbered, Logs!TypeOK, Logs!Line
<1>2. Logs!Stamp(e) # 0 => Logs!Stamp(g) > 0
  BY <1>1 DEF Logs!Stamp
<1>3. g # e
  BY <1>1
<1> QED
  BY <1>1, <1>2, <1>3 DEF Logs!Ahead

\* An error that readErrorLogs() misses was cut off by one of its three limits.
LEMMA ErrorsInParts == LogsInv => Logs!ErrorsSurface
<1> SUFFICES ASSUME LogsInv, NEW e \in Logs!ErrorsOf(InFiles), e \notin Logs!FallbackErrors
             PROVE  \/ Logs!Cardinality(Logs!Ahead(Logs!ErrorsOf(InFiles), e)) >= Limit
                    \/ Logs!Cardinality(Logs!Ahead(InFiles, e)) >= 2 * Limit
  BY DEF Logs!ErrorsSurface, InFiles
<1>1. e \in InFiles /\ e.error
  BY DEF Logs!ErrorsOf
<1>2. PICK x \in Logs!Files : e \in file[x]
  BY <1>1 DEF InFiles
<1>3. IsFiniteSet(InFiles) /\ IsFiniteSet(file[x])
  <2>1. InFiles = (file["addon"] \cup file["server"]) \cup file["runtime"]
    BY DEF InFiles, Logs!Files
  <2>2. /\ IsFiniteSet(file["addon"]) /\ IsFiniteSet(file["server"])
        /\ IsFiniteSet(file["runtime"]) /\ IsFiniteSet(file[x])
    BY DEF LogsInv, Numbered, Logs!Files
  <2> QED
    BY <2>1, <2>2, FS_Union
<1>4. \A S : Logs!Ahead(S, e) \subseteq S
  BY DEF Logs!Ahead
<1>5. ASSUME NEW S \in SUBSET InFiles, NEW D \in SUBSET Logs!Ahead(S, e), NEW k \in Nat,
             Cardinality(D) >= k
      PROVE  Logs!Cardinality(Logs!Ahead(S, e)) >= k
  <2> DEFINE A == Logs!Ahead(S, e)
  <2>1. IsFiniteSet(S) /\ A \subseteq S
    BY <1>3, <1>4, FS_Subset
  <2>2. IsFiniteSet(A)
    BY <2>1, FS_Subset
  <2> HIDE DEF A
  <2>3. D \subseteq A
    BY DEF A
  <2>4. IsFiniteSet(D) /\ Cardinality(D) <= Cardinality(A)
    BY <2>2, <2>3, FS_Subset
  <2>5. Cardinality(D) \in Nat /\ Cardinality(A) \in Nat
    BY <2>2, <2>4, FS_CardinalityType
  <2>6. Cardinality(A) >= k
    BY <1>5, <2>4, <2>5
  <2> QED
    BY <2>6, SameOperators DEF A
<1>6. 2 * Limit \in Nat /\ Limit \in Nat
  BY LogsAssumption
<1> DEFINE U == UNION {Logs!Latest(file[f], 2 * Limit) : f \in Logs!Files}
           M == Logs!MergedLogs(2 * Limit)
           E == Logs!ErrorsOf(M)
<1>7. M = Logs!LastSorted(U, 2 * Limit)
  BY DEF Logs!MergedLogs
<1>8. U \subseteq InFiles /\ M \subseteq U /\ E \subseteq Logs!ErrorsOf(InFiles)
  <2>1. \A f \in Logs!Files : Logs!Latest(file[f], 2 * Limit) \subseteq file[f]
    BY DEF Logs!Latest
  <2>2. U \subseteq InFiles
    BY <2>1 DEF InFiles
  <2> HIDE DEF U
  <2>3. M \subseteq U
    BY <1>7 DEF Logs!LastSorted
  <2> HIDE DEF M
  <2> QED
    BY <2>2, <2>3 DEF Logs!ErrorsOf
<1>9. IsFiniteSet(U) /\ IsFiniteSet(E) /\ E \subseteq InFiles
  <2>1. E \subseteq InFiles
    BY <1>8 DEF Logs!ErrorsOf
  <2> QED
    BY <1>3, <1>8, <2>1, FS_Subset
<1>10. Logs!FallbackErrors = Logs!LastSorted(E, Limit)
  BY DEF Logs!FallbackErrors
<1>11. e \in Logs!Latest(file[x], 2 * Limit) => e \in U
  BY <1>2
<1>12. e \in M => e \in E
  BY <1>1 DEF Logs!ErrorsOf
<1>13. InFiles \subseteq InFiles /\ Logs!ErrorsOf(InFiles) \subseteq InFiles
  BY DEF Logs!ErrorsOf
<1> HIDE DEF U, M, E
<1>14. CASE e \notin Logs!Latest(file[x], 2 * Limit)
  <2> DEFINE D == {f \in file[x] : e.n < f.n}
  <2>1. Cardinality(D) >= 2 * Limit
    BY <1>2, <1>3, <1>6, <1>14, LatestLeavesOut
  <2>2. D \subseteq Logs!Ahead(InFiles, e)
    BY <1>2, LaterIsAhead DEF InFiles
  <2> HIDE DEF D
  <2> QED
    BY <1>5, <1>6, <1>13, <2>1, <2>2
<1>15. CASE e \in U /\ e \notin M
  <2> DEFINE D == {f \in U : Logs!Sorted(e, f)}
  <2>1. Cardinality(D) >= 2 * Limit
    BY <1>6, <1>7, <1>9, <1>15, LastSortedLeavesOut
  <2>2. D \subseteq Logs!Ahead(InFiles, e)
    BY <1>1, <1>8, SortedIsAhead
  <2> HIDE DEF D
  <2> QED
    BY <1>5, <1>6, <1>13, <2>1, <2>2
<1>16. CASE e \in E
  <2> DEFINE D == {f \in E : Logs!Sorted(e, f)}
  <2>1. Cardinality(D) >= Limit
    BY <1>6, <1>9, <1>10, <1>16, LastSortedLeavesOut
  <2>2. D \subseteq Logs!Ahead(Logs!ErrorsOf(InFiles), e)
    BY <1>1, <1>8, <1>9, SortedIsAhead
  <2> HIDE DEF D
  <2> QED
    BY <1>5, <1>6, <1>13, <2>1, <2>2
<1> QED
  BY <1>11, <1>12, <1>14, <1>15, <1>16

-----------------------------------------------------------------------------
(* FrameCodec: what is known of the streams *)

\* The frames that have come in full with the first a bytes are the first i.
IsWhole(s, a, i) ==
  /\ i \in 0..Len(s)
  /\ Codec!Bytes(s, i) <= a
  /\ i = Len(s) \/ Codec!Bytes(s, i + 1) > a

\* Frames of a request are objects, and there is one of each.
Tidy(s) ==
  /\ \A i \in 1..Len(s) : s[i].object <=> s[i].of \in Requests
  /\ \A i, j \in 1..Len(s) : s[i].object /\ s[i].of = s[j].of => i = j

CodecTypes ==
  /\ peer \in {"addon", "foreign"}
  /\ written \in [Codec!Hops -> Seq(Codec!Frame)]
  /\ arrived \in [Codec!Hops -> Nat]
  /\ decoded \in [Codec!Hops -> Nat]
  /\ handled \in [Codec!Hops -> Seq(Requests)]
  /\ open \subseteq {"bridge", "control"}
  /\ request \in [Requests -> {"idle", "pending", "resolved", "rejected", "relayed"}]
  /\ swallowed \subseteq Requests

\* The reader of s has got a bytes, taken out d frames and handled m: it is behind
\* the writer, and on a live socket with all that has come.
Follows(s, a, d, m, live) ==
  /\ a <= Codec!Bytes(s, Len(s))
  /\ d \in 0..Len(s) /\ Codec!Bytes(s, d) <= a
  /\ live => IsWhole(s, a, d) /\ m = Codec!Messages(s, 0, d)
  /\ \E p \in 0..d : m = Codec!Messages(s, 0, p)

Read(h) ==
  Follows(written[h], arrived[h], decoded[h], handled[h], Codec!Socket(h) \in open)

\* What each hop carries, and what that says of its requests.
Carried ==
  /\ \A h \in Codec!Hops : Tidy(written[h])
  /\ peer = "addon" =>
       \A h \in Codec!Hops : \A i \in 1..Len(written[h]) : written[h][i].object
  /\ \A i \in 1..Len(written["call"]) :
       written["call"][i].object => request[written["call"][i].of] # "idle"
  /\ \A i \in 1..Len(written["relay"]) :
       /\ written["relay"][i].object /\ written["relay"][i].size <= MaxFrame
       /\ request[written["relay"][i].of] = "relayed"
  /\ \A k \in Requests : request[k] = "resolved" =>
       \E i \in 1..Len(written["answer"]) : written["answer"][i].of = k

CodecInv ==
  CodecTypes /\ (\A h \in Codec!Hops : Read(h)) /\ Carried /\ Codec!LimitsAgree

-----------------------------------------------------------------------------
(* FrameCodec: the ends of the frames of a stream *)

\* A frame takes at least its header, so that each one ends after the one before.
LEMMA HeaderIsPositive == HeaderBytes \in Nat \ {0} /\ \A f \in Codec!Frame : f.size \in Nat
BY CodecAssumption DEF Codec!Frame

\* The recursion of Bytes ends: each frame adds its header and its payload.
LEMMA BytesAdds ==
  ASSUME NEW s \in Seq(Codec!Frame)
  PROVE  /\ Codec!Bytes(s, 0) = 0
         /\ \A i \in 0..Len(s) : Codec!Bytes(s, i) \in Nat
         /\ \A i \in 1..Len(s) :
              Codec!Bytes(s, i) = Codec!Bytes(s, i - 1) + HeaderBytes + s[i].size
<1>0. Len(s) \in Nat /\ \A i \in 1..Len(s) : s[i] \in Codec!Frame /\ s[i].size \in Nat
  BY LenProperties, ElementOfSeq, HeaderIsPositive
<1> DEFINE N == Len(s)
           size(p) == IF p[1] = 0 THEN 0 ELSE p[2] + HeaderBytes + s[p[1]].size
           step == [p \in (0..N) \X Nat |-> size(p)]
           Sums(f) == f = [n \in 0..N |-> IF n = 0 THEN 0 ELSE f[n - 1] + HeaderBytes + s[n].size]
           Sum == CHOOSE f : Sums(f)
<1>1. step \in [(0..N) \X Nat -> Nat]
  <2>1. ASSUME NEW p \in (0..N) \X Nat PROVE size(p) \in Nat
    <3>1. p[1] \in 0..N /\ p[2] \in Nat
      OBVIOUS
    <3>2. p[1] # 0 => p[1] \in 1..N
      BY <1>0, <3>1
    <3> QED
      BY <1>0, <3>1, <3>2, HeaderIsPositive
  <2> HIDE DEF size
  <2> QED
    BY <2>1
<1>2. PICK f \in [0..N -> Nat] : Iterates(f, 0, N, 0, step)
  <2>1. 0 \in Nat /\ N \in Nat /\ 0 <= N
    BY <1>0
  <2> HIDE DEF step, N
  <2> QED
    BY <1>1, <2>1, IterationExists
<1>3. \A n \in 0..N : f[n] = IF n = 0 THEN 0 ELSE f[n - 1] + HeaderBytes + s[n].size
  <2>1. ASSUME NEW n \in 0..N, n # 0
        PROVE  f[n] = f[n - 1] + HeaderBytes + s[n].size
    <3>1. n - 1 \in 0..N
      BY <1>0, <2>1
    <3>2. <<n, f[n - 1]>> \in (0..N) \X Nat
      BY <3>1
    <3>3. f[n] = step[<<n, f[n - 1]>>]
      BY <1>2, <2>1 DEF Iterates
    <3> QED
      BY <2>1, <3>2, <3>3
  <2> HIDE DEF step
  <2>2. 0 \in 0..N
    BY <1>0
  <2>3. f[0] = 0
    BY <1>2, <2>2 DEF Iterates
  <2> QED
    BY <2>1, <2>3
<1>4. Sums(f)
  BY <1>3
<1>5. Sums(Sum)
  BY <1>4
<1> HIDE DEF step
<1>6. \A i \in 0..N : Codec!Bytes(s, i) = Sum[i]
  BY DEF Codec!Bytes
<1> HIDE DEF Sum
<1>7. Sum[0] = 0 /\ \A i \in 1..N : Sum[i] = Sum[i - 1] + HeaderBytes + s[i].size
  BY <1>0, <1>5
<1>8. 0..N \subseteq {n \in 0..N : Sum[n] \in Nat}
  <2> DEFINE S == {n \in 0..N : Sum[n] \in Nat}
  <2>1. 0 \in S
    BY <1>0, <1>7
  <2>2. ASSUME NEW n \in 0..N, n \in S, n < N PROVE n + 1 \in S
    <3>1. n + 1 \in 1..N /\ n + 1 \in 0..N /\ (n + 1) - 1 = n
      BY <1>0, <2>2
    <3>2. Sum[n + 1] = Sum[n] + HeaderBytes + s[n + 1].size
      BY <1>7, <3>1
    <3> QED
      BY <1>0, <2>2, <3>1, <3>2, HeaderIsPositive
  <2> HIDE DEF S
  <2>3. 0..N \subseteq S
    BY <1>0, <2>1, <2>2, IntervalInduction
  <2> QED
    BY <2>3 DEF S
<1> QED
  <2>1. 0 \in 0..N /\ \A i \in 1..N : i \in 0..N /\ i - 1 \in 0..N
    BY <1>0
  <2>2. Codec!Bytes(s, 0) = 0
    BY <1>6, <1>7, <2>1
  <2>3. \A i \in 0..N : Codec!Bytes(s, i) \in Nat
    BY <1>6, <1>8
  <2>4. ASSUME NEW i \in 1..N
        PROVE  Codec!Bytes(s, i) = Codec!Bytes(s, i - 1) + HeaderBytes + s[i].size
    BY <1>6, <1>7, <2>1
  <2> QED
    BY <2>2, <2>3, <2>4

\* A later frame ends later.
LEMMA BytesGrow ==
  ASSUME NEW s \in Seq(Codec!Frame), NEW i \in 0..Len(s), NEW j \in 0..Len(s), i < j
  PROVE  Codec!Bytes(s, i) < Codec!Bytes(s, j)
<1>0. Len(s) \in Nat /\ \A n \in 1..Len(s) : s[n].size \in Nat
  BY LenProperties, ElementOfSeq, HeaderIsPositive
<1> DEFINE B(n) == Codec!Bytes(s, n)
           S == {n \in 0..Len(s) : n > i => B(i) < B(n)}
<1>1. /\ \A n \in 0..Len(s) : B(n) \in Nat
      /\ \A n \in 1..Len(s) : B(n) = B(n - 1) + HeaderBytes + s[n].size
  BY BytesAdds
<1> HIDE DEF B
<1>2. 0 \in S
  BY <1>0
<1>3. ASSUME NEW n \in 0..Len(s), n \in S, n < Len(s) PROVE n + 1 \in S
  <2>1. n + 1 \in 1..Len(s) /\ n + 1 \in 0..Len(s) /\ (n + 1) - 1 = n
    BY <1>0, <1>3
  <2>2. B(n + 1) = B(n) + HeaderBytes + s[n + 1].size
    BY <1>1, <2>1
  <2>3. B(n) < B(n + 1) /\ B(n) \in Nat /\ B(n + 1) \in Nat /\ B(i) \in Nat
    BY <1>0, <1>1, <2>1, <2>2, HeaderIsPositive
  <2>4. n > i \/ n = i \/ n + 1 <= i
    BY <1>0
  <2> QED
    BY <1>3, <2>1, <2>3, <2>4
<1> HIDE DEF S
<1>4. 0..Len(s) \subseteq S
  BY <1>0, <1>2, <1>3, IntervalInduction
<1> QED
  BY <1>4 DEF S, B

\* A frame that is appended changes nothing before it.
LEMMA BytesAppended ==
  ASSUME NEW s \in Seq(Codec!Frame), NEW f \in Codec!Frame
  PROVE  /\ \A i \in 0..Len(s) : Codec!Bytes(Append(s, f), i) = Codec!Bytes(s, i)
         /\ Codec!Bytes(Append(s, f), Len(s) + 1) > Codec!Bytes(s, Len(s))
<1> DEFINE t == Append(s, f)
<1>0. /\ Len(s) \in Nat /\ t \in Seq(Codec!Frame) /\ Len(t) = Len(s) + 1
      /\ \A i \in 1..Len(s) : t[i] = s[i]
  BY LenProperties, AppendProperties
<1> HIDE DEF t
<1> DEFINE S == {i \in 0..Len(s) : Codec!Bytes(t, i) = Codec!Bytes(s, i)}
<1>1. 0 \in S
  BY <1>0, BytesAdds
<1>2. ASSUME NEW n \in 0..Len(s), n \in S, n < Len(s) PROVE n + 1 \in S
  <2>1. n + 1 \in 1..Len(s) /\ n + 1 \in 1..Len(t) /\ n + 1 \in 0..Len(s) /\ (n + 1) - 1 = n
    BY <1>0, <1>2
  <2>2. Codec!Bytes(s, n + 1) = Codec!Bytes(s, n) + HeaderBytes + s[n + 1].size
    BY <2>1, BytesAdds
  <2>3. Codec!Bytes(t, n + 1) = Codec!Bytes(t, n) + HeaderBytes + t[n + 1].size
    BY <1>0, <2>1, BytesAdds
  <2> QED
    BY <1>0, <1>2, <2>1, <2>2, <2>3
<1> HIDE DEF S
<1>3. 0..Len(s) \subseteq S
  BY <1>0, <1>1, <1>2, IntervalInduction
<1>4. \A i \in 0..Len(s) : Codec!Bytes(t, i) = Codec!Bytes(s, i)
  BY <1>3 DEF S
<1>5. Codec!Bytes(t, Len(s)) < Codec!Bytes(t, Len(s) + 1)
  <2>1. Len(s) \in 0..Len(t) /\ Len(s) + 1 \in 0..Len(t) /\ Len(s) < Len(s) + 1
    BY <1>0
  <2> QED
    BY <1>0, <2>1, BytesGrow
<1>6. /\ Codec!Bytes(t, Len(s)) = Codec!Bytes(s, Len(s))
      /\ Codec!Bytes(t, Len(s)) \in Nat /\ Codec!Bytes(t, Len(s) + 1) \in Nat
  BY <1>0, <1>4, BytesAdds
<1>7. Codec!Bytes(t, Len(s) + 1) > Codec!Bytes(s, Len(s))
  BY <1>5, <1>6
<1> QED
  BY <1>4, <1>7 DEF t

\* There is one number of frames that have come in full.
LEMMA WholeExists ==
  ASSUME NEW s \in Seq(Codec!Frame), NEW a \in Nat
  PROVE  /\ \E i : IsWhole(s, a, i)
         /\ \A i : IsWhole(s, a, i) =>
              \A j \in 0..Len(s) : Codec!Bytes(s, j) <= a => j <= i
<1> DEFINE B(n) == Codec!Bytes(s, n)
<1>0. Len(s) \in Nat /\ \A n \in 0..Len(s) : B(n) \in Nat
  BY LenProperties, BytesAdds
<1>1. B(0) = 0
  BY BytesAdds
<1>2. ASSUME NEW i, IsWhole(s, a, i), NEW j \in 0..Len(s), B(j) <= a PROVE j <= i
  <2>1. i \in 0..Len(s) /\ (i = Len(s) \/ B(i + 1) > a)
    BY <1>2 DEF IsWhole
  <2>2. CASE j > i
    <3>1. i + 1 \in 0..Len(s) /\ B(i + 1) > a /\ i + 1 <= j
      BY <1>0, <2>1, <2>2
    <3>2. i + 1 = j \/ B(i + 1) < B(j)
      BY <3>1, BytesGrow
    <3> QED
      BY <1>0, <1>2, <3>1, <3>2
  <2> QED
    BY <1>0, <2>1, <2>2
<1> HIDE DEF B
<1>3. PICK i \in 0..Len(s) : /\ i = Len(s) \/ B(i + 1) > a
                             /\ \A j \in 0..i - 1 : ~(j = Len(s) \/ B(j + 1) > a)
  <2> DEFINE T == {n \in 0..Len(s) : n = Len(s) \/ B(n + 1) > a}
  <2>1. T \subseteq Nat /\ T # {}
    BY <1>0
  <2>2. PICK m \in T : \A n \in T : m <= n
    <3> HIDE DEF T
    <3> QED
      BY <2>1, HasLeast
  <2>3. \A j \in 0..m - 1 : j \in 0..Len(s) /\ ~(m <= j)
    BY <1>0
  <2> QED
    BY <2>2, <2>3
<1>4. B(i) <= a
  <2>1. CASE i = 0
    BY <1>1, <2>1
  <2>2. CASE i # 0
    <3>1. i - 1 \in 0..i - 1 /\ (i - 1) + 1 = i
      BY <1>0, <2>2
    <3>2. ~(B((i - 1) + 1) > a)
      BY <1>3, <3>1
    <3> QED
      BY <1>0, <3>1, <3>2
  <2> QED
    BY <2>1, <2>2
<1>5. IsWhole(s, a, i)
  BY <1>3, <1>4 DEF IsWhole, B
<1> QED
  BY <1>2, <1>5 DEF B

-----------------------------------------------------------------------------
(* FrameCodec: the messages of a stream *)

\* What s carries up to its end is typed.
LEMMA TidyFrames ==
  ASSUME NEW s \in Seq(Codec!Frame), Tidy(s)
  PROVE  /\ Len(s) \in Nat
         /\ \A i \in 1..Len(s) :
              s[i] \in Codec!Frame /\ (s[i].object <=> s[i].of \in Requests)
BY LenProperties, ElementOfSeq DEF Tidy

\* The recursion of Messages ends: each frame that is an object adds its message.
LEMMA MessagesAdd ==
  ASSUME NEW s \in Seq(Codec!Frame), Tidy(s), NEW i \in 0..Len(s)
  PROVE  /\ Codec!Messages(s, i, i) = <<>>
         /\ \A j \in i..Len(s) : Codec!Messages(s, i, j) \in Seq(Requests)
         /\ \A j \in i + 1..Len(s) :
              /\ s[j].object => Codec!Messages(s, i, j)
                                  = Append(Codec!Messages(s, i, j - 1), s[j].of)
              /\ ~s[j].object => Codec!Messages(s, i, j) = Codec!Messages(s, i, j - 1)
<1>0. /\ Len(s) \in Nat
      /\ \A j \in 1..Len(s) : s[j].object <=> s[j].of \in Requests
  BY TidyFrames
<1> DEFINE N == Len(s)
           X == Seq(Requests)
           adds(n, m) == IF s[n].object THEN Append(m, s[n].of) ELSE m
           next(p) == IF p[1] = 0 THEN <<>> ELSE adds(p[1], p[2])
           step == [p \in (i..N) \X X |-> next(p)]
           Collects(f) == f = [n \in i..N |->
             IF n = i THEN <<>>
             ELSE IF s[n].object THEN Append(f[n - 1], s[n].of) ELSE f[n - 1]]
           Collected == CHOOSE f : Collects(f)
<1>1. \A n \in 1..N, m \in X : adds(n, m) \in X
  <2> TAKE n \in 1..N, m \in X
  <2>1. CASE s[n].object
    <3>1. s[n].of \in Requests
      BY <1>0, <2>1
    <3>2. Append(m, s[n].of) \in X
      BY <3>1, AppendProperties
    <3> QED
      BY <2>1, <3>2
  <2>2. CASE ~s[n].object
    BY <2>2
  <2> QED
    BY <2>1, <2>2
<1>2. <<>> \in X
  OBVIOUS
<1>3. step \in [(i..N) \X X -> X]
  <2>1. ASSUME NEW p \in (i..N) \X X PROVE next(p) \in X
    <3>1. p[1] \in 0..N /\ p[2] \in X
      BY <1>0
    <3>2. p[1] # 0 => p[1] \in 1..N
      BY <1>0, <3>1
    <3> HIDE DEF adds, X
    <3> QED
      BY <1>1, <1>2, <3>1, <3>2
  <2> HIDE DEF next, X
  <2> QED
    BY <2>1
<1>4. PICK f \in [i..N -> X] : Iterates(f, i, N, <<>>, step)
  <2>1. i \in Nat /\ N \in Nat /\ i <= N
    BY <1>0
  <2> HIDE DEF step, N, X
  <2> QED
    BY <1>2, <1>3, <2>1, IterationExists
<1>5. ASSUME NEW n \in i..N, n # i PROVE f[n] = adds(n, f[n - 1])
  <2>1. n - 1 \in i..N /\ n # 0
    BY <1>0, <1>5
  <2>2. <<n, f[n - 1]>> \in (i..N) \X X
    BY <2>1
  <2>3. f[n] = step[<<n, f[n - 1]>>]
    <3> HIDE DEF step, X
    <3> QED
      BY <1>4, <1>5 DEF Iterates
  <2>4. step[<<n, f[n - 1]>>] = adds(n, f[n - 1])
    <3> HIDE DEF adds, X
    <3> QED
      BY <2>1, <2>2
  <2> QED
    BY <2>3, <2>4
<1>6. f[i] = <<>>
  <2>1. i \in i..N
    BY <1>0
  <2> HIDE DEF step, X
  <2> QED
    BY <1>4, <2>1 DEF Iterates
<1>7. Collects(f)
  <2>1. \A n \in i..N : f[n] =
          IF n = i THEN <<>>
          ELSE IF s[n].object THEN Append(f[n - 1], s[n].of) ELSE f[n - 1]
    BY <1>5, <1>6
  <2> HIDE DEF step, X
  <2> QED
    BY <2>1
<1>8. Collects(Collected)
  BY <1>7
<1> HIDE DEF step
<1>9. \A j : Codec!Messages(s, i, j) = Collected[j]
  BY DEF Codec!Messages
<1> HIDE DEF Collected
<1>10. Collected[i] = <<>>
  <2>1. i \in i..N
    BY <1>0
  <2> QED
    BY <1>8, <2>1
<1>11. ASSUME NEW j \in i + 1..N PROVE Collected[j] = adds(j, Collected[j - 1])
  <2>1. j \in i..N /\ j # i
    BY <1>0
  <2> QED
    BY <1>8, <2>1
<1> HIDE DEF X, adds
<1>12. i..N \subseteq {j \in i..N : Collected[j] \in X}
  <2> DEFINE S == {j \in i..N : Collected[j] \in X}
  <2>1. i \in S
    BY <1>0, <1>2, <1>10
  <2>2. ASSUME NEW j \in i..N, j \in S, j < N PROVE j + 1 \in S
    <3>1. j + 1 \in i + 1..N /\ j + 1 \in i..N /\ j + 1 \in 1..N /\ (j + 1) - 1 = j
      BY <1>0, <2>2
    <3>2. Collected[j + 1] = adds(j + 1, Collected[j])
      BY <1>11, <3>1
    <3> QED
      BY <1>1, <2>2, <3>1, <3>2
  <2> HIDE DEF S
  <2>3. i \in Nat /\ N \in Nat
    BY <1>0
  <2>4. i..N \subseteq S
    BY <2>1, <2>2, <2>3, IntervalInduction
  <2> QED
    BY <2>4 DEF S
<1>13. \A j \in i..N : Codec!Messages(s, i, j) \in Seq(Requests)
  BY <1>9, <1>12 DEF X
<1> HIDE DEF N
<1>14. ASSUME NEW j \in i + 1..N
       PROVE  Codec!Messages(s, i, j) = adds(j, Codec!Messages(s, i, j - 1))
  BY <1>9, <1>11
<1> QED
  BY <1>9, <1>10, <1>13, <1>14 DEF N, adds

\* Messages can be taken out in two steps.
LEMMA MessagesInTwo ==
  ASSUME NEW s \in Seq(Codec!Frame), Tidy(s),
         NEW j \in 0..Len(s), NEW k \in 0..Len(s), j <= k
  PROVE  Codec!Messages(s, 0, k) = Codec!Messages(s, 0, j) \o Codec!Messages(s, j, k)
<1>0. Len(s) \in Nat /\ \A n \in 1..Len(s) : s[n].object <=> s[n].of \in Requests
  BY TidyFrames
<1> DEFINE all(n) == Codec!Messages(s, 0, n)
           rest(n) == Codec!Messages(s, j, n)
           S == {n \in j..Len(s) : all(n) = all(j) \o rest(n)}
<1>1. /\ \A n \in 0..Len(s) : all(n) \in Seq(Requests)
      /\ \A n \in 1..Len(s) : /\ s[n].object => all(n) = Append(all(n - 1), s[n].of)
                              /\ ~s[n].object => all(n) = all(n - 1)
  <2>1. 0 \in 0..Len(s) /\ 0 + 1 = 1
    BY <1>0
  <2> QED
    BY <2>1, MessagesAdd
<1>2. /\ rest(j) = <<>>
      /\ \A n \in j..Len(s) : rest(n) \in Seq(Requests)
      /\ \A n \in j + 1..Len(s) : /\ s[n].object => rest(n) = Append(rest(n - 1), s[n].of)
                                  /\ ~s[n].object => rest(n) = rest(n - 1)
  BY MessagesAdd
<1> HIDE DEF all, rest
<1>3. j \in S
  <2>1. all(j) \o <<>> = all(j)
    BY <1>1, ConcatEmptySeq
  <2>2. all(j) = all(j) \o rest(j)
    BY <1>2, <2>1
  <2>3. j \in j..Len(s)
    BY <1>0
  <2> QED
    BY <2>2, <2>3
<1>4. ASSUME NEW n \in j..Len(s), n \in S, n < Len(s) PROVE n + 1 \in S
  <2>1. /\ n + 1 \in 1..Len(s) /\ n + 1 \in j + 1..Len(s) /\ n + 1 \in j..Len(s)
        /\ (n + 1) - 1 = n
    BY <1>0, <1>4
  <2>2. all(n) = all(j) \o rest(n)
    BY <1>4
  <2>3. CASE s[n + 1].object
    <3>1. all(n + 1) = Append(all(n), s[n + 1].of) /\ rest(n + 1) = Append(rest(n), s[n + 1].of)
      BY <1>1, <1>2, <2>1, <2>3
    <3>2. s[n + 1].of \in Requests /\ all(j) \in Seq(Requests) /\ rest(n) \in Seq(Requests)
      BY <1>0, <1>1, <1>2, <2>1, <2>3
    <3>3. Append(all(j) \o rest(n), s[n + 1].of) = all(j) \o Append(rest(n), s[n + 1].of)
      <4> DEFINE a == all(j)
                 b == rest(n)
                 x == s[n + 1].of
      <4>1. a \in Seq(Requests) /\ b \in Seq(Requests) /\ x \in Requests
        BY <3>2
      <4> HIDE DEF a, b, x
      <4>2. Append(a \o b, x) = a \o Append(b, x)
        <5>1. <<x>> \in Seq(Requests) /\ a \o b \in Seq(Requests)
          BY <4>1, ConcatProperties
        <5>2. Append(a \o b, x) = (a \o b) \o <<x>> /\ Append(b, x) = b \o <<x>>
          BY <4>1, <5>1, AppendIsConcat
        <5> QED
          BY <4>1, <5>1, <5>2, ConcatAssociative
      <4> QED
        BY <4>2 DEF a, b, x
    <3> QED
      BY <2>1, <2>2, <3>1, <3>3
  <2>4. CASE ~s[n + 1].object
    BY <1>1, <1>2, <2>1, <2>2, <2>4
  <2> QED
    BY <2>3, <2>4
<1> HIDE DEF S
<1>5. j..Len(s) \subseteq S
  <2>1. j \in Nat
    BY <1>0
  <2> QED
    BY <1>0, <1>3, <1>4, <2>1, IntervalInduction
<1>6. k \in j..Len(s)
  BY <1>0
<1>7. all(k) = all(j) \o rest(k)
  BY <1>5, <1>6 DEF S
<1> QED
  BY <1>7 DEF all, rest

\* A frame that is appended changes no message before it.
LEMMA MessagesAppended ==
  ASSUME NEW s \in Seq(Codec!Frame), NEW f \in Codec!Frame, Tidy(s), Tidy(Append(s, f)),
         NEW i \in 0..Len(s)
  PROVE  Codec!Messages(Append(s, f), 0, i) = Codec!Messages(s, 0, i)
<1> DEFINE t == Append(s, f)
           A(n) == Codec!Messages(s, 0, n)
           B(n) == Codec!Messages(t, 0, n)
           S == {n \in 0..Len(s) : A(n) = B(n)}
<1>0. /\ Len(s) \in Nat /\ t \in Seq(Codec!Frame) /\ Len(t) = Len(s) + 1
      /\ \A n \in 1..Len(s) : t[n] = s[n]
  BY LenProperties, AppendProperties
<1>1. /\ A(0) = <<>>
      /\ \A n \in 1..Len(s) : /\ s[n].object => A(n) = Append(A(n - 1), s[n].of)
                              /\ ~s[n].object => A(n) = A(n - 1)
  <2>1. 0 \in 0..Len(s) /\ 0 + 1 = 1
    BY <1>0
  <2> QED
    BY <2>1, MessagesAdd
<1>2. /\ B(0) = <<>>
      /\ \A n \in 1..Len(t) : /\ t[n].object => B(n) = Append(B(n - 1), t[n].of)
                              /\ ~t[n].object => B(n) = B(n - 1)
  <2>1. 0 \in 0..Len(t) /\ 0 + 1 = 1
    BY <1>0
  <2>2. t \in Seq(Codec!Frame) /\ Tidy(t)
    BY <1>0
  <2> HIDE DEF t
  <2> QED
    BY <2>1, <2>2, MessagesAdd
<1> HIDE DEF A, B, t
<1>3. 0 \in S
  BY <1>0, <1>1, <1>2
<1>4. ASSUME NEW n \in 0..Len(s), n \in S, n < Len(s) PROVE n + 1 \in S
  <2>1. /\ n + 1 \in 1..Len(s) /\ n + 1 \in 1..Len(t) /\ n + 1 \in 0..Len(s)
        /\ (n + 1) - 1 = n
    BY <1>0, <1>4
  <2>2. A(n) = B(n) /\ t[n + 1] = s[n + 1]
    BY <1>0, <1>4, <2>1
  <2>3. CASE s[n + 1].object
    BY <1>1, <1>2, <2>1, <2>2, <2>3
  <2>4. CASE ~s[n + 1].object
    BY <1>1, <1>2, <2>1, <2>2, <2>4
  <2> QED
    BY <2>3, <2>4
<1> HIDE DEF S
<1>5. 0..Len(s) \subseteq S
  BY <1>0, <1>3, <1>4, IntervalInduction
<1>6. A(i) = B(i)
  BY <1>5 DEF S
<1> QED
  BY <1>6 DEF A, B, t

\* The messages of a tidy stream are the requests of its objects, one of each.
LEMMA MessagesOf ==
  ASSUME NEW s \in Seq(Codec!Frame), Tidy(s), NEW i \in 0..Len(s)
  PROVE  /\ Codec!Messages(s, 0, i) \in Seq(Requests)
         /\ IsInjective(Codec!Messages(s, 0, i))
         /\ \A k \in ToSet(Codec!Messages(s, 0, i)) :
              \E n \in 1..i : s[n].object /\ s[n].of = k
<1>0. Len(s) \in Nat /\ \A n \in 1..Len(s) : s[n].object <=> s[n].of \in Requests
  BY TidyFrames
<1> DEFINE A(n) == Codec!Messages(s, 0, n)
           From(n) == \A k \in ToSet(A(n)) : \E m \in 1..n : s[m].object /\ s[m].of = k
           S == {n \in 0..Len(s) : IsInjective(A(n)) /\ From(n)}
<1>1. /\ A(0) = <<>>
      /\ \A n \in 0..Len(s) : A(n) \in Seq(Requests)
      /\ \A n \in 1..Len(s) : /\ s[n].object => A(n) = Append(A(n - 1), s[n].of)
                              /\ ~s[n].object => A(n) = A(n - 1)
  <2>1. 0 \in 0..Len(s) /\ 0 + 1 = 1
    BY <1>0
  <2> QED
    BY <2>1, MessagesAdd
<1> HIDE DEF A
<1>2. 0 \in S
  <2>1. IsInjective(<<>>) /\ ToSet(<<>>) = {}
    BY DEF IsInjective, ToSet
  <2> QED
    BY <1>0, <1>1, <2>1
<1>3. ASSUME NEW n \in 0..Len(s), n \in S, n < Len(s) PROVE n + 1 \in S
  <2>1. n + 1 \in 1..Len(s) /\ n + 1 \in 0..Len(s) /\ (n + 1) - 1 = n
    BY <1>0, <1>3
  <2>2. IsInjective(A(n)) /\ From(n)
    BY <1>3
  <2>3. \A m \in 1..n : m \in 1..n + 1
    BY <1>0
  <2>4. CASE s[n + 1].object
    <3>1. A(n + 1) = Append(A(n), s[n + 1].of) /\ s[n + 1].of \in Requests
          /\ A(n) \in Seq(Requests)
      BY <1>0, <1>1, <2>1, <2>4
    <3>2. s[n + 1].of \notin ToSet(A(n))
      <4>1. SUFFICES ASSUME s[n + 1].of \in ToSet(A(n)) PROVE FALSE
        OBVIOUS
      <4>2. PICK m \in 1..n : s[m].object /\ s[m].of = s[n + 1].of
        BY <2>2, <4>1
      <4>3. m \in 1..Len(s) /\ m # n + 1
        BY <1>0, <2>1
      <4> QED
        BY <2>1, <4>2, <4>3 DEF Tidy
    <3>3. /\ IsInjective(Append(A(n), s[n + 1].of))
          /\ ToSet(Append(A(n), s[n + 1].of)) = ToSet(A(n)) \cup {s[n + 1].of}
      BY <2>2, <3>1, <3>2, AppendedOnce
    <3>4. From(n + 1)
      <4> TAKE k \in ToSet(A(n + 1))
      <4>1. CASE k = s[n + 1].of
        <5>1. n + 1 \in 1..n + 1
          BY <1>0
        <5> QED
          BY <2>4, <4>1, <5>1
      <4>2. CASE k # s[n + 1].of
        <5>1. k \in ToSet(A(n))
          BY <3>1, <3>3, <4>2
        <5> QED
          BY <2>2, <2>3, <5>1
      <4> QED
        BY <4>1, <4>2
    <3>5. IsInjective(A(n + 1))
      BY <3>1, <3>3
    <3> HIDE DEF From
    <3> QED
      BY <2>1, <3>4, <3>5
  <2>5. CASE ~s[n + 1].object
    <3>1. A(n + 1) = A(n)
      BY <1>1, <2>1, <2>5
    <3>2. From(n + 1)
      BY <2>2, <2>3, <3>1
    <3>3. IsInjective(A(n + 1))
      BY <2>2, <3>1
    <3> HIDE DEF From
    <3> QED
      BY <2>1, <3>2, <3>3
  <2> QED
    BY <2>4, <2>5
<1> HIDE DEF S
<1>4. 0..Len(s) \subseteq S
  BY <1>0, <1>2, <1>3, IntervalInduction
<1>5. IsInjective(A(i)) /\ From(i)
  BY <1>4 DEF S
<1>6. A(i) \in Seq(Requests)
  BY <1>1
<1> QED
  BY <1>5, <1>6 DEF A

\* A sequence is a prefix of what it is extended to.
LEMMA PrefixOfConcat ==
  ASSUME NEW T, NEW b \in Seq(T), NEW c \in Seq(T)
  PROVE  IsPrefix(b, b \o c)
<1> DEFINE t == b \o c
<1>1. /\ Len(b) \in Nat /\ Len(c) \in Nat /\ t \in Seq(T) /\ Len(t) = Len(b) + Len(c)
      /\ \A i \in 1..Len(b) : t[i] = b[i] /\ b[i] \in T
  BY LenProperties, ConcatProperties, ElementOfSeq
<1> HIDE DEF t
<1>2. /\ SubSeq(b, 1, Len(b)) \in Seq(T) /\ Len(SubSeq(b, 1, Len(b))) = Len(b)
      /\ \A i \in 1..Len(b) : SubSeq(b, 1, Len(b))[i] = b[i]
  BY <1>1, SubSeqProperties
<1>3. /\ SubSeq(t, 1, Len(b)) \in Seq(T) /\ Len(SubSeq(t, 1, Len(b))) = Len(b)
      /\ \A i \in 1..Len(b) : SubSeq(t, 1, Len(b))[i] = t[i]
  BY <1>1, SubSeqProperties
<1>4. SubSeq(b, 1, Len(b)) = SubSeq(t, 1, Len(b))
  BY <1>1, <1>2, <1>3, SeqEqual
<1> QED
  BY <1>1, <1>4 DEF IsPrefix, t

-----------------------------------------------------------------------------
(* FrameCodec: what the decoders return *)

\* Whole() is the number of frames that have come in full.
LEMMA WholeIs ==
  ASSUME NEW h \in Codec!Hops, written[h] \in Seq(Codec!Frame), arrived[h] \in Nat,
         NEW i, IsWhole(written[h], arrived[h], i)
  PROVE  Codec!Whole(h) = i
<1> DEFINE P(n) == /\ Codec!Bytes(written[h], n) <= arrived[h]
                   /\ n = Len(written[h]) \/ Codec!Bytes(written[h], n + 1) > arrived[h]
           w == CHOOSE n \in 0..Len(written[h]) : P(n)
<1>0. Len(written[h]) \in Nat
  BY LenProperties
<1>1. i \in 0..Len(written[h]) /\ P(i)
  BY DEF IsWhole
<1>2. w \in 0..Len(written[h]) /\ P(w)
  <2> HIDE DEF P
  <2> QED
    BY <1>1
<1>3. Codec!Whole(h) = w
  BY DEF Codec!Whole
<1> HIDE DEF w
<1>4. IsWhole(written[h], arrived[h], w)
  BY <1>2 DEF IsWhole
<1>5. i <= w /\ w <= i
  BY <1>1, <1>2, <1>4, WholeExists
<1> QED
  BY <1>0, <1>1, <1>2, <1>3, <1>5

\* The addon takes out the frames that have come in full.
LEMMA AddonTakes ==
  ASSUME NEW s \in Seq(Codec!Frame), NEW a \in Nat, NEW i \in 0..Len(s),
         Codec!Bytes(s, i) <= a
  PROVE  /\ Codec!AddonDecodes(s, i, a) \in i..Len(s)
         /\ IsWhole(s, a, Codec!AddonDecodes(s, i, a))
<1> DEFINE B(n) == Codec!Bytes(s, n)
           C(n) == Codec!Complete(s, n, a)
           EndsAt(j) == ~C(j) /\ \A m \in i..j - 1 : C(m)
           end == CHOOSE j \in i..Len(s) : EndsAt(j)
           T == {n \in i..Len(s) : ~C(n)}
<1>0. Len(s) \in Nat /\ \A n \in 0..Len(s) : B(n) \in Nat
  BY LenProperties, BytesAdds
<1>1. \A n \in 0..Len(s) : C(n) <=> n < Len(s) /\ a >= B(n + 1)
  BY DEF Codec!Complete
<1>2. Codec!AddonDecodes(s, i, a) = end
  BY DEF Codec!AddonDecodes
<1> HIDE DEF B, C
<1>3. T \subseteq Nat /\ T # {}
  <2>1. Len(s) \in T
    BY <1>0, <1>1
  <2> QED
    BY <1>0, <2>1
<1>4. PICK l \in T : \A n \in T : l <= n
  <2> HIDE DEF T
  <2> QED
    BY <1>3, HasLeast
<1>5. l \in i..Len(s) /\ EndsAt(l)
  <2>1. \A m \in i..l - 1 : m \in i..Len(s) /\ ~(l <= m)
    BY <1>0, <1>4
  <2> QED
    BY <1>4, <2>1
<1>6. end \in i..Len(s) /\ EndsAt(end)
  <2> HIDE DEF EndsAt
  <2> QED
    BY <1>5
<1> HIDE DEF end, T
<1>7. B(end) <= a
  <2>1. CASE end = i
    BY <2>1 DEF B
  <2>2. CASE end # i
    <3>1. end - 1 \in i..end - 1 /\ (end - 1) + 1 = end /\ end - 1 \in 0..Len(s)
      BY <1>0, <1>6, <2>2
    <3>2. a >= B(end)
      BY <1>1, <1>6, <3>1
    <3> QED
      BY <1>0, <1>6, <3>2
  <2> QED
    BY <2>1, <2>2
<1>8. end = Len(s) \/ B(end + 1) > a
  <2>1. end \in 0..Len(s) /\ ~(end < Len(s) /\ a >= B(end + 1))
    BY <1>0, <1>1, <1>6
  <2>2. CASE end < Len(s)
    <3>1. end + 1 \in 0..Len(s)
      BY <1>0, <2>1, <2>2
    <3> QED
      BY <1>0, <2>1, <2>2, <3>1
  <2> QED
    BY <1>0, <2>1, <2>2
<1>9. end \in 0..Len(s)
  BY <1>0, <1>6
<1> QED
  BY <1>2, <1>6, <1>7, <1>8, <1>9 DEF IsWhole, B

\* A server takes out frames that have come in full: all of them, or those
\* before the one that it throws at.
LEMMA ServerTakes ==
  ASSUME NEW s \in Seq(Codec!Frame), NEW a \in Nat, NEW i \in 0..Len(s),
         Codec!Bytes(s, i) <= a
  PROVE  LET push == Codec!ServerDecodes(s, i, a) IN
         /\ push.upto \in i..Len(s) /\ Codec!Bytes(s, push.upto) <= a
         /\ push.failed \in BOOLEAN
         /\ push.failed => Codec!Throws(s, push.upto, a)
         /\ ~push.failed => IsWhole(s, a, push.upto)
<1> DEFINE B(n) == Codec!Bytes(s, n)
           C(n) == Codec!Complete(s, n, a)
           E(n) == Codec!Throws(s, n, a)
           Ends(n) == ~C(n) \/ E(n)
           EndsAt(j) == Ends(j) /\ \A m \in i..j - 1 : ~Ends(m)
           end == CHOOSE j \in i..Len(s) : EndsAt(j)
           T == {n \in i..Len(s) : Ends(n)}
           push == Codec!ServerDecodes(s, i, a)
<1>0. Len(s) \in Nat /\ \A n \in 0..Len(s) : B(n) \in Nat
  BY LenProperties, BytesAdds
<1>1. \A n \in 0..Len(s) : C(n) <=> n < Len(s) /\ a >= B(n + 1)
  BY DEF Codec!Complete
<1>2. push = [upto |-> end, failed |-> E(end)]
  BY DEF Codec!ServerDecodes
<1>3. E(end) \in BOOLEAN
  BY DEF Codec!Throws
<1> HIDE DEF B, C, E
<1>4. T \subseteq Nat /\ T # {}
  <2>1. Len(s) \in T
    BY <1>0, <1>1
  <2> QED
    BY <1>0, <2>1
<1>5. PICK l \in T : \A n \in T : l <= n
  <2> HIDE DEF T
  <2> QED
    BY <1>4, HasLeast
<1>6. l \in i..Len(s) /\ EndsAt(l)
  <2>1. \A m \in i..l - 1 : m \in i..Len(s) /\ ~(l <= m)
    BY <1>0, <1>5
  <2> QED
    BY <1>5, <2>1
<1>7. end \in i..Len(s) /\ EndsAt(end)
  <2> HIDE DEF EndsAt
  <2> QED
    BY <1>6
<1> HIDE DEF end, T
<1>8. B(end) <= a
  <2>1. CASE end = i
    BY <2>1 DEF B
  <2>2. CASE end # i
    <3>1. end - 1 \in i..end - 1 /\ (end - 1) + 1 = end /\ end - 1 \in 0..Len(s)
      BY <1>0, <1>7, <2>2
    <3>2. a >= B(end)
      BY <1>1, <1>7, <3>1
    <3> QED
      BY <1>0, <1>7, <3>2
  <2> QED
    BY <2>1, <2>2
<1>9. ASSUME ~E(end) PROVE IsWhole(s, a, end)
  <2>1. end \in 0..Len(s) /\ ~(end < Len(s) /\ a >= B(end + 1))
    BY <1>0, <1>1, <1>7, <1>9
  <2>2. CASE end < Len(s)
    <3>1. end + 1 \in 0..Len(s)
      BY <1>0, <2>1, <2>2
    <3>2. B(end + 1) > a
      BY <1>0, <2>1, <2>2, <3>1
    <3> QED
      BY <1>8, <2>1, <3>2 DEF IsWhole, B
  <2>3. CASE end = Len(s)
    BY <1>8, <2>1, <2>3 DEF IsWhole, B
  <2> QED
    BY <1>0, <2>1, <2>2, <2>3
<1>10. push.upto = end /\ push.failed = E(end)
  BY <1>2
<1> HIDE DEF push
<1>11. /\ push.upto \in i..Len(s) /\ B(push.upto) <= a
       /\ push.failed \in BOOLEAN
       /\ push.failed => E(push.upto)
       /\ ~push.failed => IsWhole(s, a, push.upto)
  BY <1>3, <1>7, <1>8, <1>9, <1>10
<1> QED
  BY <1>11 DEF push, B, E

-----------------------------------------------------------------------------
(* FrameCodec: a reader follows its writer *)

\* A reader that follows a stream follows it when a frame is appended.
LEMMA FollowsAppended ==
  ASSUME NEW s \in Seq(Codec!Frame), NEW f \in Codec!Frame, Tidy(s), Tidy(Append(s, f)),
         NEW a \in Nat, NEW d, NEW m, NEW live, Follows(s, a, d, m, live)
  PROVE  Follows(Append(s, f), a, d, m, live)
<1> DEFINE t == Append(s, f)
<1>0. Len(s) \in Nat /\ t \in Seq(Codec!Frame) /\ Len(t) = Len(s) + 1
  BY LenProperties, AppendProperties
<1>1. /\ \A i \in 0..Len(s) : Codec!Bytes(t, i) = Codec!Bytes(s, i)
      /\ Codec!Bytes(t, Len(t)) > Codec!Bytes(s, Len(s))
      /\ Codec!Bytes(s, Len(s)) \in Nat /\ Codec!Bytes(t, Len(t)) \in Nat
  <2>1. /\ \A i \in 0..Len(s) : Codec!Bytes(t, i) = Codec!Bytes(s, i)
        /\ Codec!Bytes(t, Len(s) + 1) > Codec!Bytes(s, Len(s))
    BY BytesAppended
  <2>2. Codec!Bytes(s, Len(s)) \in Nat /\ Codec!Bytes(t, Len(t)) \in Nat
    <3>1. Len(s) \in 0..Len(s) /\ Len(t) \in 0..Len(t)
      BY <1>0
    <3> HIDE DEF t
    <3> QED
      BY <1>0, <3>1, BytesAdds
  <2> HIDE DEF t
  <2> QED
    BY <1>0, <2>1, <2>2
<1>2. \A i \in 0..Len(s) : Codec!Messages(t, 0, i) = Codec!Messages(s, 0, i)
  BY MessagesAppended
<1> HIDE DEF t
<1>3. /\ a <= Codec!Bytes(s, Len(s))
      /\ d \in 0..Len(s) /\ Codec!Bytes(s, d) <= a
      /\ live => IsWhole(s, a, d) /\ m = Codec!Messages(s, 0, d)
  BY DEF Follows
<1>4. PICK p \in 0..d : m = Codec!Messages(s, 0, p)
  BY DEF Follows
<1>5. a < Codec!Bytes(t, Len(t))
  BY <1>1, <1>3
<1>6. p \in 0..Len(s) /\ d \in 0..Len(t)
  BY <1>0, <1>3
<1>7. m = Codec!Messages(t, 0, p)
  BY <1>2, <1>4, <1>6
<1>8. ASSUME live PROVE IsWhole(t, a, d) /\ m = Codec!Messages(t, 0, d)
  <2>1. d = Len(s) \/ Codec!Bytes(s, d + 1) > a
    BY <1>3, <1>8 DEF IsWhole
  <2>2. Codec!Bytes(t, d + 1) > a
    <3>1. CASE d = Len(s)
      BY <1>0, <1>1, <1>5, <3>1
    <3>2. CASE d # Len(s)
      <4>1. d + 1 \in 0..Len(s)
        BY <1>0, <1>3, <3>2
      <4> QED
        BY <1>1, <2>1, <3>2, <4>1
    <3> QED
      BY <3>1, <3>2
  <2>3. Codec!Bytes(t, d) <= a
    BY <1>1, <1>3
  <2>4. m = Codec!Messages(t, 0, d)
    BY <1>2, <1>3, <1>8
  <2> QED
    BY <1>6, <2>2, <2>3, <2>4 DEF IsWhole
<1>9. Codec!Bytes(t, d) <= a /\ a <= Codec!Bytes(t, Len(t))
  BY <1>1, <1>3, <1>5
<1> QED
  BY <1>4, <1>6, <1>7, <1>8, <1>9 DEF Follows, t

\* A destroyed socket asks less of its reader.
LEMMA FollowsClosed ==
  ASSUME NEW s, NEW a, NEW d, NEW m, NEW live, NEW still,
         still => live, Follows(s, a, d, m, live)
  PROVE  Follows(s, a, d, m, still)
BY DEF Follows

\* A reader that takes out all that has come, and handles it.
LEMMA FollowsOn ==
  ASSUME NEW s \in Seq(Codec!Frame), Tidy(s), NEW a, NEW d, NEW m,
         Follows(s, a, d, m, TRUE),
         NEW b \in Nat, b <= Codec!Bytes(s, Len(s)), NEW j \in d..Len(s), IsWhole(s, b, j),
         NEW live
  PROVE  /\ Follows(s, b, j, m \o Codec!Messages(s, d, j), live)
         /\ m \o Codec!Messages(s, d, j) \in Seq(Requests)
<1>0. Len(s) \in Nat
  BY LenProperties
<1>1. d \in 0..Len(s) /\ m = Codec!Messages(s, 0, d)
  BY DEF Follows
<1>2. j \in 0..Len(s) /\ d <= j /\ j \in 0..j
  BY <1>0, <1>1
<1>3. m \o Codec!Messages(s, d, j) = Codec!Messages(s, 0, j)
  BY <1>1, <1>2, MessagesInTwo
<1>4. Codec!Bytes(s, j) <= b
  BY DEF IsWhole
<1>5. Follows(s, b, j, Codec!Messages(s, 0, j), live)
  BY <1>2, <1>4 DEF Follows
<1>6. Codec!Messages(s, 0, j) \in Seq(Requests)
  BY <1>2, MessagesOf
<1> QED
  BY <1>3, <1>5, <1>6

\* A push of n more bytes at a server: the reader follows, or the decoder throws
\* at a frame that no server would have sent.
LEMMA FollowsPush ==
  ASSUME NEW s \in Seq(Codec!Frame), Tidy(s), NEW a \in Nat, NEW d, NEW m,
         Follows(s, a, d, m, TRUE), m \in Seq(Requests),
         NEW n \in 1..Codec!Bytes(s, Len(s)) - a
  PROVE  LET push == Codec!ServerDecodes(s, d, a + n) IN
         /\ a + n \in Nat /\ push.upto \in Nat /\ push.failed \in BOOLEAN
         /\ push.failed =>
              /\ Follows(s, a + n, push.upto, m, FALSE)
              /\ \E i \in 1..Len(s) : s[i].size > MaxFrame \/ ~s[i].object
         /\ ~push.failed =>
              /\ Follows(s, a + n, push.upto, m \o Codec!Messages(s, d, push.upto), TRUE)
              /\ m \o Codec!Messages(s, d, push.upto) \in Seq(Requests)
<1> DEFINE push == Codec!ServerDecodes(s, d, a + n)
           last == Codec!Bytes(s, Len(s))
<1>0. /\ Len(s) \in Nat /\ d \in 0..Len(s) /\ Codec!Bytes(s, d) \in Nat
      /\ last \in Nat /\ Codec!Bytes(s, d) <= a
  <2>1. Len(s) \in Nat /\ d \in 0..Len(s) /\ Codec!Bytes(s, d) <= a
    BY LenProperties DEF Follows
  <2>2. Len(s) \in 0..Len(s)
    BY <2>1
  <2> QED
    BY <2>1, <2>2, BytesAdds
<1> HIDE DEF last
<1>1. a + n \in Nat /\ a + n <= last /\ Codec!Bytes(s, d) <= a + n
  BY <1>0 DEF last
<1>2. /\ push.upto \in d..Len(s) /\ Codec!Bytes(s, push.upto) <= a + n
      /\ push.failed \in BOOLEAN
      /\ push.failed => Codec!Throws(s, push.upto, a + n)
      /\ ~push.failed => IsWhole(s, a + n, push.upto)
  <2> DEFINE b == a + n
  <2>1. b \in Nat /\ Codec!Bytes(s, d) <= b
    BY <1>1
  <2> HIDE DEF b
  <2>2. LET p == Codec!ServerDecodes(s, d, b) IN
         /\ p.upto \in d..Len(s) /\ Codec!Bytes(s, p.upto) <= b
         /\ p.failed \in BOOLEAN
         /\ p.failed => Codec!Throws(s, p.upto, b)
         /\ ~p.failed => IsWhole(s, b, p.upto)
    BY <1>0, <2>1, ServerTakes
  <2> QED
    BY <2>2 DEF b
<1> HIDE DEF push
<1>3. push.upto \in Nat /\ push.upto \in 0..Len(s)
  BY <1>0, <1>2
<1>4. ASSUME push.failed
      PROVE  /\ Follows(s, a + n, push.upto, m, FALSE)
             /\ \E i \in 1..Len(s) : s[i].size > MaxFrame \/ ~s[i].object
  <2>1. PICK p \in 0..d : m = Codec!Messages(s, 0, p)
    BY DEF Follows
  <2>2. p \in 0..push.upto
    BY <1>0, <1>2
  <2>3. Follows(s, a + n, push.upto, m, FALSE)
    BY <1>1, <1>2, <1>3, <2>1, <2>2 DEF Follows, last
  <2>4. /\ push.upto < Len(s)
        /\ s[push.upto + 1].size > MaxFrame \/ ~s[push.upto + 1].object
    BY <1>2, <1>4 DEF Codec!Throws
  <2>5. push.upto + 1 \in 1..Len(s)
    BY <1>0, <1>3, <2>4
  <2> QED
    BY <2>3, <2>4, <2>5
<1>5. ASSUME ~push.failed
      PROVE  /\ Follows(s, a + n, push.upto, m \o Codec!Messages(s, d, push.upto), TRUE)
             /\ m \o Codec!Messages(s, d, push.upto) \in Seq(Requests)
  <2> DEFINE b == a + n
  <2>1. b \in Nat /\ b <= Codec!Bytes(s, Len(s)) /\ IsWhole(s, b, push.upto)
    BY <1>1, <1>2, <1>5 DEF last
  <2> HIDE DEF b
  <2>2. /\ Follows(s, b, push.upto, m \o Codec!Messages(s, d, push.upto), TRUE)
        /\ m \o Codec!Messages(s, d, push.upto) \in Seq(Requests)
    BY <1>2, <2>1, FollowsOn
  <2> QED
    BY <2>2 DEF b
<1> QED
  BY <1>1, <1>2, <1>3, <1>4, <1>5 DEF push

-----------------------------------------------------------------------------
(* FrameCodec: the invariant *)

\* The types of one hop.
LEMMA HopTypes ==
  ASSUME CodecTypes, NEW h \in Codec!Hops
  PROVE  /\ written[h] \in Seq(Codec!Frame) /\ Len(written[h]) \in Nat
         /\ arrived[h] \in Nat /\ decoded[h] \in Nat /\ handled[h] \in Seq(Requests)
<1>1. /\ written[h] \in Seq(Codec!Frame)
      /\ arrived[h] \in Nat /\ decoded[h] \in Nat /\ handled[h] \in Seq(Requests)
  BY DEF CodecTypes
<1> QED
  BY <1>1, LenProperties

\* The request of a frame is one that its hop has not carried yet.
LEMMA TidyAppended ==
  ASSUME NEW s \in Seq(Codec!Frame), Tidy(s), NEW f \in Codec!Frame,
         f.object <=> f.of \in Requests,
         f.object => \A i \in 1..Len(s) : s[i].object => s[i].of # f.of
  PROVE  /\ Append(s, f) \in Seq(Codec!Frame) /\ Tidy(Append(s, f))
         /\ Len(Append(s, f)) = Len(s) + 1 /\ Append(s, f)[Len(s) + 1] = f
         /\ \A i \in 1..Len(s) : Append(s, f)[i] = s[i]
<1> DEFINE t == Append(s, f)
<1>1. /\ Len(s) \in Nat /\ t \in Seq(Codec!Frame) /\ Len(t) = Len(s) + 1
      /\ \A i \in 1..Len(s) : t[i] = s[i]
      /\ t[Len(s) + 1] = f
  BY LenProperties, AppendProperties
<1> HIDE DEF t
<1>2. \A i \in 1..Len(t) : i \in 1..Len(s) \/ i = Len(s) + 1
  BY <1>1
<1>3. \A i \in 1..Len(t) : t[i].object <=> t[i].of \in Requests
  <2> TAKE i \in 1..Len(t)
  <2>1. CASE i \in 1..Len(s)
    BY <1>1, <2>1 DEF Tidy
  <2>2. CASE i = Len(s) + 1
    BY <1>1, <2>2
  <2> QED
    BY <1>2, <2>1, <2>2
<1>4. ASSUME NEW i \in 1..Len(t), NEW j \in 1..Len(t), t[i].object, t[i].of = t[j].of
      PROVE  i = j
  <2>0. t[j].object
    BY <1>3, <1>4
  <2>1. CASE i \in 1..Len(s) /\ j \in 1..Len(s)
    BY <1>1, <1>4, <2>1 DEF Tidy
  <2>2. CASE i \in 1..Len(s) /\ j = Len(s) + 1
    BY <1>1, <1>4, <2>0, <2>2
  <2>3. CASE i = Len(s) + 1 /\ j \in 1..Len(s)
    BY <1>1, <1>4, <2>0, <2>3
  <2> QED
    BY <1>2, <2>1, <2>2, <2>3
<1>5. Tidy(t)
  BY <1>3, <1>4 DEF Tidy
<1> QED
  BY <1>1, <1>5 DEF t

\* A reader is not disturbed by what is written, on its hop or another.
LEMMA WriteIsFollowed ==
  ASSUME CodecInv, NEW h \in Codec!Hops, NEW f \in Codec!Frame,
         f.object <=> f.of \in Requests,
         f.object => \A i \in 1..Len(written[h]) : written[h][i].object => written[h][i].of # f.of,
         Codec!Write(h, f), UNCHANGED <<arrived, decoded, handled, open>>
  PROVE  /\ written' \in [Codec!Hops -> Seq(Codec!Frame)]
         /\ \A g \in Codec!Hops : Tidy(written'[g]) /\ Read(g)'
         /\ \A g \in Codec!Hops : g # h => written'[g] = written[g]
         /\ Codec!Socket(h) \in open => written'[h] = Append(written[h], f)
         /\ Len(written[h]) <= Len(written'[h])
         /\ \A i \in 1..Len(written[h]) : written'[h][i] = written[h][i]
         /\ \A i \in 1..Len(written'[h]) : i \in 1..Len(written[h]) \/ written'[h][i] = f
<1>0. /\ written \in [Codec!Hops -> Seq(Codec!Frame)] /\ written[h] \in Seq(Codec!Frame)
      /\ Len(written[h]) \in Nat /\ Tidy(written[h])
  BY HopTypes DEF CodecInv, CodecTypes, Carried
<1>1. CASE Codec!Socket(h) \notin open
  <2>1. written' = written
    BY <1>1 DEF Codec!Write
  <2>2. \A g \in Codec!Hops : Tidy(written'[g])
    BY <2>1 DEF CodecInv, Carried
  <2>3. \A g \in Codec!Hops : Read(g)'
    BY <2>1 DEF CodecInv, Read, Follows, IsWhole, Codec!Socket
  <2> QED
    BY <1>0, <1>1, <2>1, <2>2, <2>3
<1>2. CASE Codec!Socket(h) \in open
  <2> DEFINE t == Append(written[h], f)
  <2>1. /\ t \in Seq(Codec!Frame) /\ Tidy(t)
        /\ Len(t) = Len(written[h]) + 1 /\ t[Len(written[h]) + 1] = f
        /\ \A i \in 1..Len(written[h]) : t[i] = written[h][i]
    BY <1>0, TidyAppended
  <2>2. written' = [written EXCEPT ![h] = t]
    BY <1>2 DEF Codec!Write
  <2>3. ASSUME NEW g \in Codec!Hops
        PROVE  Read(g)'
    <3>1. CASE g # h
      <4>1. written'[g] = written[g]
        BY <1>0, <2>2, <3>1
      <4> QED
        BY <4>1 DEF CodecInv, Read, Codec!Socket
    <3>2. CASE g = h
      <4>1. written'[h] = t
        BY <1>0, <2>2
      <4>2. arrived[h] \in Nat /\
            Follows(written[h], arrived[h], decoded[h], handled[h], Codec!Socket(h) \in open)
        BY HopTypes DEF CodecInv, Read
      <4>3. Follows(t, arrived[h], decoded[h], handled[h], Codec!Socket(h) \in open)
        BY <1>0, <2>1, <4>2, FollowsAppended
      <4> QED
        BY <3>2, <4>1, <4>3 DEF Read, Codec!Socket
    <3> QED
      BY <3>1, <3>2
  <2> HIDE DEF t
  <2>4. /\ written' \in [Codec!Hops -> Seq(Codec!Frame)]
        /\ written'[h] = t /\ \A g \in Codec!Hops : g # h => written'[g] = written[g]
    BY <1>0, <2>1, <2>2
  <2>5. \A g \in Codec!Hops : Tidy(written'[g])
    BY <2>1, <2>4 DEF CodecInv, Carried
  <2>6. \A i \in 1..Len(t) : i \in 1..Len(written[h]) \/ t[i] = f
    BY <1>0, <2>1
  <2> QED
    BY <1>0, <2>1, <2>3, <2>4, <2>5, <2>6 DEF t
<1> QED
  BY <1>1, <1>2

\* The streams are empty at first.
LEMMA CodecInit == ASSUME Codec!Init PROVE CodecInv
<1>1. CodecTypes
  BY DEF Codec!Init, CodecTypes
<1>2. ASSUME NEW h \in Codec!Hops PROVE Read(h) /\ Tidy(written[h])
  <2>1. /\ written[h] = <<>> /\ arrived[h] = 0 /\ decoded[h] = 0 /\ handled[h] = <<>>
    BY DEF Codec!Init
  <2>2. <<>> \in Seq(Codec!Frame) /\ Len(<<>>) = 0 /\ 0 \in 0..Len(<<>>)
    OBVIOUS
  <2>3. Tidy(<<>>)
    BY DEF Tidy
  <2>4. Codec!Bytes(<<>>, 0) = 0
    BY <2>2, BytesAdds
  <2>5. Codec!Messages(<<>>, 0, 0) = <<>>
    BY <2>2, <2>3, MessagesAdd
  <2>6. IsWhole(<<>>, 0, 0)
    BY <2>2, <2>4 DEF IsWhole
  <2>7. 0 <= Codec!Bytes(<<>>, Len(<<>>)) /\ Codec!Bytes(<<>>, 0) <= 0
    BY <2>2, <2>4
  <2>8. Follows(<<>>, 0, 0, <<>>, Codec!Socket(h) \in open)
    BY <2>2, <2>5, <2>6, <2>7 DEF Follows
  <2> QED
    BY <2>1, <2>3, <2>8 DEF Read
<1>3. Carried
  <2>1. \A h \in Codec!Hops : Len(written[h]) = 0
    BY DEF Codec!Init
  <2>2. {"call", "relay"} \subseteq Codec!Hops
    BY DEF Codec!Hops
  <2>3. \A k \in Requests : request[k] # "resolved"
    BY DEF Codec!Init
  <2> QED
    BY <1>2, <2>1, <2>2, <2>3 DEF Carried
<1>4. Codec!LimitsAgree
  BY DEF Codec!Init, Codec!LimitsAgree
<1> QED
  BY <1>1, <1>2, <1>3, <1>4 DEF CodecInv

-----------------------------------------------------------------------------
(* FrameCodec: the steps of the session, the addon and the proxy *)

\* A message is a frame of its own request, and an object.
LEMMA MessageIsFrame ==
  ASSUME NEW k \in Requests, NEW n \in Sizes
  PROVE  /\ Codec!Message(k, n) \in Codec!Frame
         /\ Codec!Message(k, n).of = k /\ Codec!Message(k, n).size = n
         /\ Codec!Message(k, n).object = TRUE
BY DEF Codec!Message, Codec!Frame

\* The hops and the sockets that carry them.
LEMMA TheHops ==
  /\ Codec!Hops = {"call", "answer", "relay"}
  /\ Codec!Socket("call") = "bridge" /\ Codec!Socket("answer") = "bridge"
  /\ Codec!Socket("relay") = "control"
BY DEF Codec!Hops, Codec!Socket

\* request(): a new call, or a rejection at once.
LEMMA SendsRequest ==
  ASSUME CodecInv, NEW k \in Requests, Codec!SendRequest(k)
  PROVE  CodecInv'
<1>0. /\ CodecTypes /\ Carried /\ Codec!LimitsAgree /\ peer = "addon" /\ request[k] = "idle"
      /\ UNCHANGED <<peer, arrived, decoded, handled, open, swallowed>>
      /\ \A h \in Codec!Hops : Read(h)
      /\ "bridge" \in open
  BY DEF CodecInv, Codec!SendRequest
<1>1. PICK n \in Sizes :
        IF Codec!Encodable(n)
        THEN /\ request' = [request EXCEPT ![k] = "pending"]
             /\ Codec!Write("call", Codec!Message(k, n))
        ELSE /\ request' = [request EXCEPT ![k] = "rejected"]
             /\ UNCHANGED written
  BY DEF Codec!SendRequest
<1>2. /\ request' \in [Requests -> {"idle", "pending", "resolved", "rejected", "relayed"}]
      /\ request'[k] \in {"pending", "rejected"}
      /\ \A q \in Requests : q # k => request'[q] = request[q]
  BY <1>0, <1>1 DEF CodecTypes
<1>3. CASE ~Codec!Encodable(n)
  <2>1. UNCHANGED written
    BY <1>1, <1>3
  <2>2. CodecTypes'
    BY <1>0, <1>2, <2>1 DEF CodecTypes
  <2>3. \A h \in Codec!Hops : Read(h)'
    BY <1>0, <2>1 DEF Read, Codec!Socket
  <2>4. Carried'
    <3>1. \A i \in 1..Len(written["call"]) : written["call"][i].object =>
            request'[written["call"][i].of] # "idle"
      <4> TAKE i \in 1..Len(written["call"])
      <4> HAVE written["call"][i].object
      <4>1. written["call"][i].of \in Requests
        BY <1>0, TheHops DEF Carried, Tidy
      <4> QED
        BY <1>0, <1>2, <4>1 DEF Carried
    <3>2. \A i \in 1..Len(written["relay"]) : request'[written["relay"][i].of] = "relayed"
      <4> TAKE i \in 1..Len(written["relay"])
      <4>1. written["relay"][i].of \in Requests /\ request[written["relay"][i].of] = "relayed"
        BY <1>0, TheHops DEF Carried, Tidy
      <4> QED
        BY <1>0, <1>2, <4>1
    <3>3. \A q \in Requests : request'[q] = "resolved" =>
            \E i \in 1..Len(written["answer"]) : written["answer"][i].of = q
      BY <1>0, <1>2 DEF Carried
    <3> QED
      BY <1>0, <2>1, <3>1, <3>2, <3>3 DEF Carried
  <2>5. Codec!LimitsAgree'
    BY <1>0, <2>1 DEF Codec!LimitsAgree
  <2> QED
    BY <2>2, <2>3, <2>4, <2>5 DEF CodecInv
<1>4. CASE Codec!Encodable(n)
  <2> DEFINE f == Codec!Message(k, n)
  <2>1. f \in Codec!Frame /\ f.of = k /\ f.object = TRUE /\ Codec!Write("call", f)
    BY <1>1, <1>4, MessageIsFrame
  <2> HIDE DEF f
  <2>2. \A i \in 1..Len(written["call"]) :
          written["call"][i].object => written["call"][i].of # f.of
    BY <1>0, <2>1 DEF Carried
  <2>3. /\ written' \in [Codec!Hops -> Seq(Codec!Frame)]
        /\ \A g \in Codec!Hops : Tidy(written'[g]) /\ Read(g)'
        /\ written'["answer"] = written["answer"] /\ written'["relay"] = written["relay"]
        /\ \A i \in 1..Len(written["call"]) : written'["call"][i] = written["call"][i]
        /\ \A i \in 1..Len(written'["call"]) :
             i \in 1..Len(written["call"]) \/ written'["call"][i] = f
    <3>1. "call" \in Codec!Hops /\ "answer" \in Codec!Hops /\ "relay" \in Codec!Hops
      BY TheHops
    <3> QED
      BY <1>0, <2>1, <2>2, <3>1, WriteIsFollowed
  <2>4. CodecTypes'
    BY <1>0, <1>2, <2>3 DEF CodecTypes
  <2>5. Carried'
    <3>1. \A i \in 1..Len(written'["call"]) :
            /\ written'["call"][i].object
            /\ request'[written'["call"][i].of] # "idle"
      <4> TAKE i \in 1..Len(written'["call"])
      <4>1. CASE written'["call"][i] = f
        BY <1>2, <2>1, <4>1
      <4>2. CASE i \in 1..Len(written["call"])
        <5>1. /\ written["call"][i].object /\ written["call"][i].of \in Requests
              /\ request[written["call"][i].of] # "idle"
          BY <1>0, <4>2, TheHops DEF Carried, Tidy
        <5> QED
          BY <1>2, <2>3, <4>2, <5>1
      <4> QED
        BY <2>3, <4>1, <4>2
    <3>2. \A i \in 1..Len(written["relay"]) : request'[written["relay"][i].of] = "relayed"
      <4> TAKE i \in 1..Len(written["relay"])
      <4>1. written["relay"][i].of \in Requests /\ request[written["relay"][i].of] = "relayed"
        BY <1>0, TheHops DEF Carried, Tidy
      <4> QED
        BY <1>0, <1>2, <4>1
    <3>3. \A q \in Requests : request'[q] = "resolved" =>
            \E i \in 1..Len(written["answer"]) : written["answer"][i].of = q
      BY <1>0, <1>2 DEF Carried
    <3>4. \A h \in Codec!Hops : \A i \in 1..Len(written'[h]) : written'[h][i].object
      BY <1>0, <2>3, <3>1, TheHops DEF Carried
    <3> QED
      BY <1>0, <2>3, <3>1, <3>2, <3>3, <3>4 DEF Carried
  <2>6. Codec!LimitsAgree'
    BY <1>0 DEF Codec!LimitsAgree
  <2> QED
    BY <2>3, <2>4, <2>5, <2>6 DEF CodecInv
<1> QED
  BY <1>3, <1>4

\* An answer to a request that the addon has handled.
LEMMA AddonAnswersRequest ==
  ASSUME CodecInv, NEW k \in Requests, Codec!AddonAnswers(k)
  PROVE  CodecInv'
<1>0. /\ CodecTypes /\ Carried /\ Codec!LimitsAgree /\ peer = "addon"
      /\ UNCHANGED <<peer, arrived, decoded, handled, open, request, swallowed>>
      /\ \A i \in DOMAIN written["answer"] : written["answer"][i].of # k
      /\ "bridge" \in open
  BY DEF CodecInv, Codec!AddonAnswers
<1>1. PICK n \in Sizes : Codec!Write("answer", Codec!Message(k, n))
  BY DEF Codec!AddonAnswers
<1> DEFINE f == Codec!Message(k, n)
<1>2. f \in Codec!Frame /\ f.of = k /\ f.object = TRUE /\ Codec!Write("answer", f)
  BY <1>1, MessageIsFrame
<1> HIDE DEF f
<1>3. \A i \in 1..Len(written["answer"]) :
        written["answer"][i].object => written["answer"][i].of # f.of
  <2>1. written["answer"] \in Seq(Codec!Frame)
    BY <1>0, TheHops DEF CodecTypes
  <2>2. DOMAIN written["answer"] = 1..Len(written["answer"])
    BY <2>1, LenProperties
  <2> QED
    BY <1>0, <1>2, <2>2
<1>4. /\ written' \in [Codec!Hops -> Seq(Codec!Frame)]
      /\ \A g \in Codec!Hops : Tidy(written'[g]) /\ Read(g)'
      /\ written'["call"] = written["call"] /\ written'["relay"] = written["relay"]
      /\ Len(written["answer"]) <= Len(written'["answer"])
      /\ \A i \in 1..Len(written["answer"]) : written'["answer"][i] = written["answer"][i]
      /\ \A i \in 1..Len(written'["answer"]) :
           i \in 1..Len(written["answer"]) \/ written'["answer"][i] = f
  <2>1. "call" \in Codec!Hops /\ "answer" \in Codec!Hops /\ "relay" \in Codec!Hops
    BY TheHops
  <2> QED
    BY <1>0, <1>2, <1>3, <2>1, WriteIsFollowed
<1>5. CodecTypes'
  BY <1>0, <1>4 DEF CodecTypes
<1>6. \A i \in 1..Len(written["answer"]) : i \in 1..Len(written'["answer"])
  <2>1. Len(written["answer"]) \in Nat
    BY <1>0, HopTypes, TheHops
  <2>2. Len(written'["answer"]) \in Nat
    BY <1>4, LenProperties, TheHops
  <2> QED
    BY <1>4, <2>1, <2>2
<1>7. Carried'
  <2>1. \A i \in 1..Len(written'["answer"]) : written'["answer"][i].object
    BY <1>0, <1>2, <1>4, TheHops DEF Carried
  <2>2. \A h \in Codec!Hops : \A i \in 1..Len(written'[h]) : written'[h][i].object
    BY <1>0, <1>4, <2>1, TheHops DEF Carried
  <2>3. \A q \in Requests : request[q] = "resolved" =>
          \E i \in 1..Len(written'["answer"]) : written'["answer"][i].of = q
    BY <1>0, <1>4, <1>6 DEF Carried
  <2> QED
    BY <1>0, <1>4, <2>2, <2>3 DEF Carried
<1>8. Codec!LimitsAgree'
  BY <1>0 DEF Codec!LimitsAgree
<1> QED
  BY <1>4, <1>5, <1>7, <1>8 DEF CodecInv

\* Frames of a foreign program are no messages.
LEMMA ForeignProgramWrites ==
  ASSUME CodecInv, NEW h \in {"call", "answer"}, Codec!ForeignWrites(h)
  PROVE  CodecInv'
<1>0. /\ CodecTypes /\ Carried /\ Codec!LimitsAgree /\ peer = "foreign"
      /\ UNCHANGED <<peer, arrived, decoded, handled, open, request, swallowed>>
  BY DEF CodecInv, Codec!ForeignWrites
<1>1. PICK n \in Sizes : Codec!Write(h, [of |-> Junk, size |-> n, object |-> FALSE])
  BY DEF Codec!ForeignWrites
<1> DEFINE f == [of |-> Junk, size |-> n, object |-> FALSE]
<1>2. f \in Codec!Frame /\ f.of \notin Requests /\ f.object = FALSE /\ Codec!Write(h, f)
  BY <1>1, CodecAssumption DEF Codec!Frame
<1> HIDE DEF f
<1>3. /\ written' \in [Codec!Hops -> Seq(Codec!Frame)]
      /\ \A g \in Codec!Hops : Tidy(written'[g]) /\ Read(g)'
      /\ \A g \in Codec!Hops : g # h => written'[g] = written[g]
      /\ Len(written[h]) <= Len(written'[h])
      /\ \A i \in 1..Len(written[h]) : written'[h][i] = written[h][i]
      /\ \A i \in 1..Len(written'[h]) : i \in 1..Len(written[h]) \/ written'[h][i] = f
  <2>1. h \in Codec!Hops
    BY TheHops
  <2> QED
    BY <1>0, <1>2, <2>1, WriteIsFollowed
<1>4. CodecTypes'
  BY <1>0, <1>3 DEF CodecTypes
<1>5. Carried'
  <2>1. \A i \in 1..Len(written'["call"]) :
          written'["call"][i].object => request[written'["call"][i].of] # "idle"
    <3> TAKE i \in 1..Len(written'["call"])
    <3>1. CASE h = "call"
      BY <1>0, <1>2, <1>3, <3>1 DEF Carried
    <3>2. CASE h # "call"
      BY <1>0, <1>3, <3>2, TheHops DEF Carried
    <3> QED
      BY <3>1, <3>2
  <2>2. written'["relay"] = written["relay"]
    BY <1>3, TheHops
  <2>3. \A q \in Requests : request[q] = "resolved" =>
          \E i \in 1..Len(written'["answer"]) : written'["answer"][i].of = q
    <3>1. CASE h # "answer"
      BY <1>0, <1>3, <3>1, TheHops DEF Carried
    <3>2. CASE h = "answer"
      <4>1. Len(written["answer"]) \in Nat
        BY <1>0, HopTypes, TheHops
      <4>2. Len(written'["answer"]) \in Nat
        BY <1>3, LenProperties, TheHops
      <4>3. \A i \in 1..Len(written["answer"]) : i \in 1..Len(written'["answer"])
        BY <1>3, <3>2, <4>1, <4>2
      <4> QED
        BY <1>0, <1>3, <3>2, <4>3 DEF Carried
    <3> QED
      BY <3>1, <3>2
  <2> QED
    BY <1>0, <1>3, <2>1, <2>2, <2>3 DEF Carried
<1>6. Codec!LimitsAgree'
  BY <1>0 DEF Codec!LimitsAgree
<1> QED
  BY <1>3, <1>4, <1>5, <1>6 DEF CodecInv

\* A delivery on hop h disturbs no reader but its own.
LEMMA OthersFollow ==
  ASSUME CodecInv, NEW h \in Codec!Hops, open' \subseteq open, UNCHANGED written,
         NEW a \in Nat, arrived' = [arrived EXCEPT ![h] = a],
         NEW d \in Nat, decoded' = [decoded EXCEPT ![h] = d],
         NEW m \in Seq(Requests), handled' = [handled EXCEPT ![h] = m],
         Follows(written[h], a, d, m, Codec!Socket(h) \in open')
  PROVE  /\ arrived' \in [Codec!Hops -> Nat] /\ decoded' \in [Codec!Hops -> Nat]
         /\ handled' \in [Codec!Hops -> Seq(Requests)]
         /\ \A g \in Codec!Hops : Read(g)'
         /\ arrived'[h] = a /\ decoded'[h] = d /\ handled'[h] = m
<1>0. /\ arrived \in [Codec!Hops -> Nat] /\ decoded \in [Codec!Hops -> Nat]
      /\ handled \in [Codec!Hops -> Seq(Requests)]
  BY DEF CodecInv, CodecTypes
<1>1. /\ arrived' \in [Codec!Hops -> Nat] /\ decoded' \in [Codec!Hops -> Nat]
      /\ handled' \in [Codec!Hops -> Seq(Requests)]
      /\ arrived'[h] = a /\ decoded'[h] = d /\ handled'[h] = m
  BY <1>0
<1>2. ASSUME NEW g \in Codec!Hops PROVE Read(g)'
  <2>1. CASE g = h
    BY <1>1, <2>1 DEF Read, Codec!Socket
  <2>2. CASE g # h
    <3>1. arrived'[g] = arrived[g] /\ decoded'[g] = decoded[g] /\ handled'[g] = handled[g]
      BY <1>0, <2>2
    <3>2. Follows(written[g], arrived[g], decoded[g], handled[g], Codec!Socket(g) \in open)
      BY DEF CodecInv, Read
    <3>3. Follows(written[g], arrived[g], decoded[g], handled[g], Codec!Socket(g) \in open')
      <4>1. Codec!Socket(g) \in open' => Codec!Socket(g) \in open
        OBVIOUS
      <4> QED
        BY <3>2, <4>1, FollowsClosed
    <3> QED
      BY <3>1, <3>3 DEF Read, Codec!Socket
  <2> QED
    BY <2>1, <2>2
<1> QED
  BY <1>1, <1>2

\* poll() of the addon.
LEMMA AddonReadsCalls ==
  ASSUME CodecInv, Codec!AddonReads
  PROVE  CodecInv'
<1>0. /\ CodecTypes /\ Carried /\ Codec!LimitsAgree
      /\ UNCHANGED <<peer, written, open, request, swallowed>>
      /\ "call" \in Codec!Hops
  BY TheHops DEF CodecInv, Codec!AddonReads
<1> DEFINE s == written["call"]
           i == decoded["call"]
           j == Codec!AddonDecodes(s, i, arrived'["call"])
           more == Codec!Messages(s, i, j)
<1>1. PICK n \in Codec!Cuts("call") :
        /\ Codec!Delivers("call", n)
        /\ decoded' = [decoded EXCEPT !["call"] = j]
        /\ handled' = [handled EXCEPT !["call"] = @ \o more]
  BY DEF Codec!AddonReads
<1>2. /\ "bridge" \in open /\ arrived' = [arrived EXCEPT !["call"] = arrived["call"] + n]
      /\ n \in 1..Codec!Bytes(s, Len(s)) - arrived["call"]
  BY <1>1, TheHops DEF Codec!Delivers, Codec!Cuts
<1>3. /\ s \in Seq(Codec!Frame) /\ Tidy(s) /\ arrived["call"] \in Nat /\ Len(s) \in Nat
      /\ handled["call"] \in Seq(Requests)
      /\ Follows(s, arrived["call"], i, handled["call"], TRUE)
  <2>1. Follows(s, arrived["call"], i, handled["call"], Codec!Socket("call") \in open)
    BY <1>0 DEF CodecInv, Read
  <2>2. (Codec!Socket("call") \in open) = TRUE
    BY <1>2, TheHops
  <2> QED
    BY <1>0, <2>1, <2>2, HopTypes DEF Carried
<1> DEFINE b == arrived["call"] + n
<1>4. i \in 0..Len(s) /\ Codec!Bytes(s, i) \in Nat /\ Codec!Bytes(s, i) <= arrived["call"]
      /\ Codec!Bytes(s, Len(s)) \in Nat
  <2>1. i \in 0..Len(s) /\ Codec!Bytes(s, i) <= arrived["call"] /\ Len(s) \in 0..Len(s)
    BY <1>3 DEF Follows
  <2> HIDE DEF s
  <2> QED
    BY <1>3, <2>1, BytesAdds
<1>5. b \in Nat /\ b <= Codec!Bytes(s, Len(s)) /\ Codec!Bytes(s, i) <= b
      /\ arrived' = [arrived EXCEPT !["call"] = b] /\ arrived'["call"] = b
  <2>1. b \in Nat /\ b <= Codec!Bytes(s, Len(s)) /\ Codec!Bytes(s, i) <= b
    <3> DEFINE u == Codec!Bytes(s, Len(s))
               v == Codec!Bytes(s, i)
    <3> HIDE DEF s, i, u, v
    <3>1. u \in Nat /\ v \in Nat /\ v <= arrived["call"] /\ n \in 1..u - arrived["call"]
      BY <1>2, <1>4 DEF u, v
    <3>2. b \in Nat /\ b <= u /\ v <= b
      BY <1>3, <3>1
    <3> QED
      BY <3>2 DEF u, v
  <2> QED
    BY <1>0, <1>2, <2>1 DEF CodecTypes
<1> HIDE DEF b
<1>6. j = Codec!AddonDecodes(s, i, b)
  BY <1>5
<1> HIDE DEF j
<1>7. j \in i..Len(s) /\ IsWhole(s, b, j)
  <2> HIDE DEF s, i
  <2> QED
    BY <1>3, <1>4, <1>5, <1>6, AddonTakes
<1>8. /\ Follows(s, b, j, handled["call"] \o more, Codec!Socket("call") \in open')
      /\ handled["call"] \o more \in Seq(Requests)
  <2> HIDE DEF s, i
  <2> QED
    BY <1>3, <1>4, <1>5, <1>7, FollowsOn
<1>9. j \in Nat
  BY <1>4, <1>7
<1> DEFINE m == handled["call"] \o more
<1>10. handled' = [handled EXCEPT !["call"] = m]
  BY <1>1
<1>11. /\ m \in Seq(Requests)
       /\ Follows(written["call"], b, j, m, Codec!Socket("call") \in open')
  BY <1>8
<1>12. decoded' = [decoded EXCEPT !["call"] = j]
  BY <1>1
<1> HIDE DEF m
<1>13. open' \subseteq open /\ UNCHANGED written
  BY <1>0
<1>14. /\ arrived' \in [Codec!Hops -> Nat] /\ decoded' \in [Codec!Hops -> Nat]
       /\ handled' \in [Codec!Hops -> Seq(Requests)]
       /\ \A g \in Codec!Hops : Read(g)'
  BY <1>0, <1>5, <1>9, <1>10, <1>11, <1>12, <1>13, OthersFollow
<1>15. CodecTypes' /\ Carried' /\ Codec!LimitsAgree'
  BY <1>0, <1>14 DEF CodecTypes, Carried, Codec!LimitsAgree
<1> QED
  BY <1>14, <1>15 DEF CodecInv

\* handleData() of a server, on the bridge or on the control socket.
LEMMA ServerReadsHop ==
  ASSUME CodecInv, NEW h \in {"answer", "relay"}, NEW n \in Codec!Cuts(h),
         Codec!ServerReads(h, n), UNCHANGED written
  PROVE  /\ arrived' \in [Codec!Hops -> Nat] /\ decoded' \in [Codec!Hops -> Nat]
         /\ handled' \in [Codec!Hops -> Seq(Requests)]
         /\ \A g \in Codec!Hops : Read(g)'
         /\ Codec!ServerPush(h, n).failed =>
              /\ open' = open \ {Codec!Socket(h)}
              /\ \E i \in 1..Len(written[h]) :
                   written[h][i].size > MaxFrame \/ ~written[h][i].object
         /\ ~Codec!ServerPush(h, n).failed => open' = open
<1> DEFINE s == written[h]
           a == arrived[h]
           d == decoded[h]
           m == handled[h]
           push == Codec!ServerPush(h, n)
           more == Codec!Messages(s, d, push.upto)
<1>0. h \in Codec!Hops
  BY TheHops
<1>1. /\ Codec!Socket(h) \in open /\ arrived' = [arrived EXCEPT ![h] = a + n]
      /\ decoded' = [decoded EXCEPT ![h] = push.upto]
      /\ push.failed => open' = open \ {Codec!Socket(h)} /\ handled' = handled
      /\ ~push.failed => handled' = [handled EXCEPT ![h] = m \o more] /\ open' = open
  BY DEF Codec!ServerReads, Codec!Delivers
<1>2. n \in 1..Codec!Bytes(s, Len(s)) - a
  BY DEF Codec!Cuts
<1>3. /\ s \in Seq(Codec!Frame) /\ Tidy(s) /\ a \in Nat /\ m \in Seq(Requests)
      /\ Follows(s, a, d, m, TRUE)
  <2>1. Follows(s, a, d, m, Codec!Socket(h) \in open)
    BY <1>0 DEF CodecInv, Read
  <2>2. (Codec!Socket(h) \in open) = TRUE
    BY <1>1
  <2> QED
    BY <1>0, <2>1, <2>2, HopTypes DEF CodecInv, Carried
<1>4. push = Codec!ServerDecodes(s, d, a + n)
  BY DEF Codec!ServerPush
<1>5. /\ a + n \in Nat /\ push.upto \in Nat /\ push.failed \in BOOLEAN
      /\ push.failed =>
           /\ Follows(s, a + n, push.upto, m, FALSE)
           /\ \E i \in 1..Len(s) : s[i].size > MaxFrame \/ ~s[i].object
      /\ ~push.failed =>
           /\ Follows(s, a + n, push.upto, m \o more, TRUE)
           /\ m \o more \in Seq(Requests)
  <2> HIDE DEF s, a, d, m, push
  <2>1. LET p == Codec!ServerDecodes(s, d, a + n) IN
         /\ a + n \in Nat /\ p.upto \in Nat /\ p.failed \in BOOLEAN
         /\ p.failed =>
              /\ Follows(s, a + n, p.upto, m, FALSE)
              /\ \E i \in 1..Len(s) : s[i].size > MaxFrame \/ ~s[i].object
         /\ ~p.failed =>
              /\ Follows(s, a + n, p.upto, m \o Codec!Messages(s, d, p.upto), TRUE)
              /\ m \o Codec!Messages(s, d, p.upto) \in Seq(Requests)
    BY <1>2, <1>3, FollowsPush
  <2> QED
    BY <1>4, <2>1
<1>6. CASE push.failed
  <2>1. /\ open' = open \ {Codec!Socket(h)}
        /\ \E i \in 1..Len(written[h]) : written[h][i].size > MaxFrame \/ ~written[h][i].object
    BY <1>1, <1>5, <1>6
  <2>2. Follows(s, a + n, push.upto, m, Codec!Socket(h) \in open')
    <3>1. Codec!Socket(h) \in open' => FALSE
      BY <2>1
    <3>2. Follows(s, a + n, push.upto, m, FALSE)
      BY <1>5, <1>6
    <3> HIDE DEF s, a, m, push
    <3> QED
      BY <3>1, <3>2, FollowsClosed
  <2>3. handled' = [handled EXCEPT ![h] = m]
    BY <1>0, <1>1, <1>6 DEF CodecInv, CodecTypes
  <2> DEFINE b == a + n
             u == push.upto
  <2>4. /\ b \in Nat /\ u \in Nat /\ m \in Seq(Requests)
        /\ arrived' = [arrived EXCEPT ![h] = b] /\ decoded' = [decoded EXCEPT ![h] = u]
        /\ Follows(written[h], b, u, m, Codec!Socket(h) \in open')
    BY <1>1, <1>3, <1>5, <2>2
  <2> HIDE DEF b, u, m, s, a
  <2>5. open' \subseteq open
    BY <2>1
  <2>6. /\ arrived' \in [Codec!Hops -> Nat] /\ decoded' \in [Codec!Hops -> Nat]
        /\ handled' \in [Codec!Hops -> Seq(Requests)]
        /\ \A g \in Codec!Hops : Read(g)'
    BY <1>0, <2>3, <2>4, <2>5, OthersFollow
  <2> QED
    BY <1>6, <2>1, <2>6
<1>7. CASE ~push.failed
  <2>1. open' = open
    BY <1>1, <1>7
  <2> DEFINE b == a + n
             u == push.upto
             t == m \o more
  <2>2. Follows(s, b, u, t, TRUE)
    BY <1>5, <1>7
  <2>3. /\ b \in Nat /\ u \in Nat /\ t \in Seq(Requests)
        /\ arrived' = [arrived EXCEPT ![h] = b] /\ decoded' = [decoded EXCEPT ![h] = u]
        /\ handled' = [handled EXCEPT ![h] = t]
    BY <1>1, <1>5, <1>7
  <2> HIDE DEF b, u, t
  <2>4. Follows(written[h], b, u, t, Codec!Socket(h) \in open')
    <3>1. Codec!Socket(h) \in open' => TRUE
      OBVIOUS
    <3> QED
      BY <2>2, <3>1, FollowsClosed
  <2>5. open' \subseteq open
    BY <2>1
  <2>6. /\ arrived' \in [Codec!Hops -> Nat] /\ decoded' \in [Codec!Hops -> Nat]
        /\ handled' \in [Codec!Hops -> Seq(Requests)]
        /\ \A g \in Codec!Hops : Read(g)'
    BY <1>0, <2>3, <2>4, <2>5, OthersFollow
  <2> QED
    BY <1>7, <2>1, <2>6
<1> QED
  BY <1>5, <1>6, <1>7

\* handleData() of the session settles the requests it has answers to.
LEMMA SessionReadsAnswers ==
  ASSUME CodecInv, Codec!SessionReads
  PROVE  CodecInv'
<1>0. /\ CodecTypes /\ Carried /\ Codec!LimitsAgree /\ "answer" \in Codec!Hops
      /\ UNCHANGED <<peer, written, swallowed>>
  BY TheHops DEF CodecInv, Codec!SessionReads
<1>1. PICK n \in Codec!Cuts("answer") :
        /\ Codec!ServerReads("answer", n)
        /\ Codec!Settles(handled'["answer"], Codec!ServerPush("answer", n).failed)
  BY DEF Codec!SessionReads
<1> DEFINE failed == Codec!ServerPush("answer", n).failed
<1>2. /\ arrived' \in [Codec!Hops -> Nat] /\ decoded' \in [Codec!Hops -> Nat]
      /\ handled' \in [Codec!Hops -> Seq(Requests)]
      /\ \A g \in Codec!Hops : Read(g)'
      /\ failed => /\ open' = open \ {"bridge"}
                   /\ \E i \in 1..Len(written["answer"]) :
                        written["answer"][i].size > MaxFrame \/ ~written["answer"][i].object
      /\ ~failed => open' = open
  <2>1. "answer" \in {"answer", "relay"} /\ UNCHANGED written
    BY <1>0
  <2> QED
    BY <1>1, <2>1, ServerReadsHop, TheHops
<1>3. request' = [k \in Requests |->
        IF request[k] # "pending" THEN request[k]
        ELSE IF k \in ToSet(handled'["answer"]) THEN "resolved"
        ELSE IF failed THEN "rejected" ELSE "pending"]
  BY <1>1, SameOperators DEF Codec!Settles
<1> HIDE DEF failed
<1>4. ASSUME NEW k \in Requests
      PROVE  /\ request'[k] \in {"idle", "pending", "resolved", "rejected", "relayed"}
             /\ request'[k] = "idle" <=> request[k] = "idle"
             /\ request[k] = "relayed" => request'[k] = "relayed"
             /\ request'[k] = "resolved" =>
                  request[k] = "resolved" \/ k \in ToSet(handled'["answer"])
  <2>1. request[k] \in {"idle", "pending", "resolved", "rejected", "relayed"}
    BY <1>0 DEF CodecTypes
  <2> QED
    BY <1>3, <2>1
<1>5. request' \in [Requests -> {"idle", "pending", "resolved", "rejected", "relayed"}]
  BY <1>3, <1>4
<1>6. CodecTypes'
  BY <1>0, <1>2, <1>5 DEF CodecTypes
<1>7. Carried'
  <2>1. \A i \in 1..Len(written["call"]) :
          written["call"][i].object => request'[written["call"][i].of] # "idle"
    <3> TAKE i \in 1..Len(written["call"])
    <3> HAVE written["call"][i].object
    <3>1. written["call"][i].of \in Requests /\ request[written["call"][i].of] # "idle"
      BY <1>0, TheHops DEF Carried, Tidy
    <3> QED
      BY <1>4, <3>1
  <2>2. \A i \in 1..Len(written["relay"]) : request'[written["relay"][i].of] = "relayed"
    <3> TAKE i \in 1..Len(written["relay"])
    <3>1. written["relay"][i].of \in Requests /\ request[written["relay"][i].of] = "relayed"
      BY <1>0, TheHops DEF Carried, Tidy
    <3> QED
      BY <1>4, <3>1
  <2>3. ASSUME NEW k \in Requests, request'[k] = "resolved"
        PROVE  \E i \in 1..Len(written["answer"]) : written["answer"][i].of = k
    <3>1. CASE request[k] = "resolved"
      BY <1>0, <3>1 DEF Carried
    <3>2. CASE k \in ToSet(handled'["answer"])
      <4>1. written["answer"] \in Seq(Codec!Frame) /\ Tidy(written["answer"])
            /\ Len(written["answer"]) \in Nat
        BY <1>0, HopTypes DEF Carried
      <4>2. Follows(written["answer"], arrived'["answer"], decoded'["answer"],
                    handled'["answer"], Codec!Socket("answer") \in open')
        BY <1>0, <1>2 DEF Read, Codec!Socket
      <4>3. PICK p \in 0..decoded'["answer"] :
              handled'["answer"] = Codec!Messages(written["answer"], 0, p)
        BY <4>2 DEF Follows
      <4>4. decoded'["answer"] \in 0..Len(written["answer"])
        BY <4>2 DEF Follows
      <4>5. p \in 0..Len(written["answer"]) /\ p <= Len(written["answer"])
        BY <4>1, <4>3, <4>4
      <4>6. PICK i \in 1..p : written["answer"][i].object /\ written["answer"][i].of = k
        BY <3>2, <4>1, <4>3, <4>5, MessagesOf
      <4>7. i \in 1..Len(written["answer"])
        BY <4>1, <4>5
      <4> QED
        BY <4>6, <4>7
    <3> QED
      BY <1>4, <2>3, <3>1, <3>2
  <2> QED
    BY <1>0, <2>1, <2>2, <2>3 DEF Carried
<1>8. Codec!LimitsAgree'
  <2>1. "control" \in open'
    BY <1>0, <1>2 DEF Codec!LimitsAgree
  <2>2. ASSUME peer = "addon", "bridge" \notin open'
        PROVE  \E i \in DOMAIN written["answer"] : ~Codec!Encodable(written["answer"][i].size)
    <3>1. CASE "bridge" \notin open
      BY <1>0, <2>2, <3>1 DEF Codec!LimitsAgree
    <3>2. CASE "bridge" \in open
      <4>1. written["answer"] \in Seq(Codec!Frame)
        BY <1>0, HopTypes
      <4>2. DOMAIN written["answer"] = 1..Len(written["answer"])
        BY <4>1, LenProperties
      <4>3. PICK i \in 1..Len(written["answer"]) :
              written["answer"][i].size > MaxFrame \/ ~written["answer"][i].object
        BY <1>2, <2>2, <3>2
      <4>4. written["answer"][i].size > MaxFrame
        BY <1>0, <2>2, <4>3 DEF Carried
      <4>5. written["answer"][i].size \in Nat /\ MaxFrame \in Nat
        BY <4>1, ElementOfSeq, HeaderIsPositive, CodecAssumption
      <4>6. ~Codec!Encodable(written["answer"][i].size)
        BY <4>4, <4>5 DEF Codec!Encodable
      <4> QED
        BY <4>2, <4>6
    <3> QED
      BY <3>1, <3>2
  <2> QED
    BY <1>0, <2>1, <2>2 DEF Codec!LimitsAgree
<1> QED
  BY <1>2, <1>6, <1>7, <1>8 DEF CodecInv

\* The proxy's decoder never throws: each relayed frame is an object that fits.
LEMMA ProxyReadsAnswers ==
  ASSUME CodecInv, Codec!ProxyReads
  PROVE  CodecInv'
<1>0. /\ CodecTypes /\ Carried /\ Codec!LimitsAgree /\ "relay" \in Codec!Hops
      /\ UNCHANGED <<peer, written, request, swallowed>>
  BY TheHops DEF CodecInv, Codec!ProxyReads
<1>1. PICK n \in Codec!Cuts("relay") : Codec!ServerReads("relay", n)
  BY DEF Codec!ProxyReads
<1>2. /\ arrived' \in [Codec!Hops -> Nat] /\ decoded' \in [Codec!Hops -> Nat]
      /\ handled' \in [Codec!Hops -> Seq(Requests)]
      /\ \A g \in Codec!Hops : Read(g)'
      /\ Codec!ServerPush("relay", n).failed =>
           \E i \in 1..Len(written["relay"]) :
             written["relay"][i].size > MaxFrame \/ ~written["relay"][i].object
      /\ ~Codec!ServerPush("relay", n).failed => open' = open
  <2>1. "relay" \in {"answer", "relay"} /\ UNCHANGED written
    BY <1>0
  <2> QED
    BY <1>1, <2>1, ServerReadsHop
<1>3. \A i \in 1..Len(written["relay"]) :
        ~(written["relay"][i].size > MaxFrame \/ ~written["relay"][i].object)
  <2> TAKE i \in 1..Len(written["relay"])
  <2>1. written["relay"][i].object /\ written["relay"][i].size <= MaxFrame
    BY <1>0 DEF Carried
  <2>2. written["relay"][i].size \in Nat /\ MaxFrame \in Nat
    BY <1>0, HopTypes, ElementOfSeq, HeaderIsPositive, CodecAssumption
  <2> QED
    BY <2>1, <2>2
<1>4. open' = open
  BY <1>2, <1>3
<1>5. CodecTypes' /\ Carried' /\ Codec!LimitsAgree'
  BY <1>0, <1>2, <1>4 DEF CodecTypes, Carried, Codec!LimitsAgree
<1> QED
  BY <1>2, <1>5 DEF CodecInv

\* The frame that carries an error is one of the frames.
LEMMA ErrorSizeFits == Codec!ErrorSize \in Sizes
<1>1. Sizes \in SUBSET Nat /\ Sizes # {}
  BY CodecAssumption
<1>2. \E n \in Sizes : \A m \in Sizes : n <= m
  BY <1>1, HasLeast
<1> QED
  BY <1>2 DEF Codec!ErrorSize

\* handleAddonRequest() has an answer to relay, or an error.
LEMMA DaemonRelays ==
  ASSUME CodecInv, NEW k \in Requests, Codec!Relays(k)
  PROVE  CodecInv'
<1>0. /\ CodecTypes /\ Carried /\ Codec!LimitsAgree
      /\ UNCHANGED <<peer, arrived, decoded, handled, open>>
      /\ request[k] \in {"resolved", "rejected"}
      /\ request' = [request EXCEPT ![k] = "relayed"]
      /\ \A h \in Codec!Hops : Read(h)
      /\ "call" \in Codec!Hops /\ "answer" \in Codec!Hops /\ "relay" \in Codec!Hops
  BY TheHops DEF CodecInv, Codec!Relays
<1>1. PICK n \in Nat : Codec!Send(k, n) /\ (n <= MaxFrame => n \in Sizes)
  <2>1. CASE request[k] = "rejected"
    <3>1. Codec!Send(k, Codec!ErrorSize)
      BY <2>1 DEF Codec!Relays
    <3> QED
      BY <3>1, ErrorSizeFits, CodecAssumption
  <2>2. CASE request[k] # "rejected"
    <3>1. PICK g \in Growth : Codec!Send(k, Codec!AnswerSize(k) + g)
      BY <2>2 DEF Codec!Relays
    <3>2. written["answer"] \in Seq(Codec!Frame)
      BY <1>0, HopTypes
    <3>3. DOMAIN written["answer"] = 1..Len(written["answer"])
      BY <3>2, LenProperties
    <3>4. \E i \in DOMAIN written["answer"] : written["answer"][i].of = k
      BY <1>0, <2>2, <3>3 DEF Carried
    <3> DEFINE i == CHOOSE i \in DOMAIN written["answer"] : written["answer"][i].of = k
    <3>5. i \in DOMAIN written["answer"]
      BY <3>4
    <3>6. Codec!AnswerSize(k) = written["answer"][i].size
      BY DEF Codec!AnswerSize
    <3> HIDE DEF i
    <3>7. written["answer"][i].size \in Sizes
      <4>1. written["answer"][i] \in Codec!Frame
        BY <3>2, <3>3, <3>5, ElementOfSeq
      <4> QED
        BY <4>1 DEF Codec!Frame
    <3> DEFINE z == Codec!AnswerSize(k)
    <3>8. z \in Sizes
      BY <3>6, <3>7
    <3> HIDE DEF z
    <3>9. z + g \in Nat /\ (z + g <= MaxFrame => z + g \in Sizes)
      BY <3>8, CodecAssumption
    <3> QED
      BY <3>1, <3>9 DEF z
  <2> QED
    BY <2>1, <2>2
<1>2. /\ request' \in [Requests -> {"idle", "pending", "resolved", "rejected", "relayed"}]
      /\ request'[k] = "relayed"
      /\ \A q \in Requests : q # k => request'[q] = request[q]
  BY <1>0 DEF CodecTypes
<1>3. \A i \in 1..Len(written["call"]) :
        written["call"][i].object => request'[written["call"][i].of] # "idle"
  <2> TAKE i \in 1..Len(written["call"])
  <2> HAVE written["call"][i].object
  <2>1. written["call"][i].of \in Requests /\ request[written["call"][i].of] # "idle"
    BY <1>0 DEF Carried, Tidy
  <2> QED
    BY <1>2, <2>1
<1>4. \A i \in 1..Len(written["relay"]) :
        /\ written["relay"][i].object /\ written["relay"][i].size <= MaxFrame
        /\ request[written["relay"][i].of] = "relayed"
        /\ request'[written["relay"][i].of] = "relayed"
  <2> TAKE i \in 1..Len(written["relay"])
  <2>1. /\ written["relay"][i].object /\ written["relay"][i].size <= MaxFrame
        /\ written["relay"][i].of \in Requests /\ request[written["relay"][i].of] = "relayed"
    BY <1>0 DEF Carried, Tidy
  <2> QED
    BY <1>2, <2>1
<1>5. \A q \in Requests : request'[q] = "resolved" =>
        \E i \in 1..Len(written["answer"]) : written["answer"][i].of = q
  BY <1>0, <1>2 DEF Carried
<1>6. CASE ~Codec!Encodable(n)
  <2>1. UNCHANGED written /\ swallowed' = swallowed \cup {k}
    BY <1>1, <1>6 DEF Codec!Send
  <2>2. CodecTypes'
    BY <1>0, <1>2, <2>1 DEF CodecTypes
  <2>3. \A h \in Codec!Hops : Read(h)'
    BY <1>0, <2>1 DEF Read, Codec!Socket
  <2>4. Carried'
    BY <1>0, <1>3, <1>4, <1>5, <2>1 DEF Carried
  <2>5. Codec!LimitsAgree'
    BY <1>0, <2>1 DEF Codec!LimitsAgree
  <2> QED
    BY <2>2, <2>3, <2>4, <2>5 DEF CodecInv
<1>7. CASE Codec!Encodable(n)
  <2> DEFINE f == Codec!Message(k, n)
  <2>1. n \in Sizes /\ n <= MaxFrame
    BY <1>1, <1>7 DEF Codec!Encodable
  <2>2. /\ f \in Codec!Frame /\ f.of = k /\ f.object = TRUE /\ f.size <= MaxFrame
        /\ Codec!Write("relay", f) /\ UNCHANGED swallowed
    BY <1>1, <1>7, <2>1, MessageIsFrame DEF Codec!Send
  <2> HIDE DEF f
  <2>3. \A i \in 1..Len(written["relay"]) :
          written["relay"][i].object => written["relay"][i].of # f.of
    BY <1>0, <1>4, <2>2
  <2>4. /\ written' \in [Codec!Hops -> Seq(Codec!Frame)]
        /\ \A g \in Codec!Hops : Tidy(written'[g]) /\ Read(g)'
        /\ written'["call"] = written["call"] /\ written'["answer"] = written["answer"]
        /\ \A i \in 1..Len(written["relay"]) : written'["relay"][i] = written["relay"][i]
        /\ \A i \in 1..Len(written'["relay"]) :
             i \in 1..Len(written["relay"]) \/ written'["relay"][i] = f
    BY <1>0, <2>2, <2>3, WriteIsFollowed
  <2>5. CodecTypes'
    BY <1>0, <1>2, <2>2, <2>4 DEF CodecTypes
  <2>6. \A i \in 1..Len(written'["relay"]) :
          /\ written'["relay"][i].object /\ written'["relay"][i].size <= MaxFrame
          /\ request'[written'["relay"][i].of] = "relayed"
    <3> TAKE i \in 1..Len(written'["relay"])
    <3>1. CASE i \in 1..Len(written["relay"])
      BY <1>4, <2>4, <3>1
    <3>2. CASE written'["relay"][i] = f
      BY <1>2, <2>2, <3>2
    <3> QED
      BY <2>4, <3>1, <3>2
  <2>7. peer = "addon" =>
          \A h \in Codec!Hops : \A i \in 1..Len(written'[h]) : written'[h][i].object
    BY <1>0, <2>4, <2>6, TheHops DEF Carried
  <2>8. Carried'
    BY <1>0, <1>3, <1>5, <2>4, <2>6, <2>7 DEF Carried
  <2>9. Codec!LimitsAgree'
    BY <1>0, <2>4 DEF Codec!LimitsAgree
  <2> QED
    BY <2>4, <2>5, <2>8, <2>9 DEF CodecInv
<1> QED
  BY <1>6, <1>7

\* Every step of the codecs' parties keeps their invariant.
LEMMA CodecStep ==
  ASSUME CodecInv, [Codec!Next]_codecVars
  PROVE  CodecInv'
<1>1. ASSUME UNCHANGED codecVars PROVE CodecInv'
  BY <1>1 DEF codecVars, CodecInv, CodecTypes, Read, Follows, IsWhole, Codec!Socket,
              Carried, Codec!LimitsAgree
<1>2. ASSUME NEW k \in Requests,
             Codec!SendRequest(k) \/ Codec!AddonAnswers(k) \/ Codec!Relays(k)
      PROVE  CodecInv'
  BY <1>2, SendsRequest, AddonAnswersRequest, DaemonRelays
<1>3. ASSUME NEW h \in {"call", "answer"}, Codec!ForeignWrites(h) PROVE CodecInv'
  BY <1>3, ForeignProgramWrites
<1>4. ASSUME Codec!AddonReads \/ Codec!SessionReads \/ Codec!ProxyReads PROVE CodecInv'
  BY <1>4, AddonReadsCalls, SessionReadsAnswers, ProxyReadsAnswers
<1> QED
  BY <1>1, <1>2, <1>3, <1>4 DEF Codec!Next

\* What the invariant says of a hop: the properties that a run checks.
LEMMA CodecHolds ==
  ASSUME CodecInv
  PROVE  Codec!TypeOK /\ Codec!DecodedAsWritten /\ Codec!LimitsAgree
<1>1. ASSUME NEW h \in Codec!Hops
      PROVE  /\ arrived[h] \in 0..Codec!Bytes(written[h], Len(written[h]))
             /\ decoded[h] \in 0..Codec!Whole(h)
             /\ handled[h] \in Seq(Requests) /\ IsInjective(handled[h])
             /\ Codec!Socket(h) \in open =>
                  handled[h] = Codec!Messages(written[h], 0, Codec!Whole(h))
             /\ IsPrefix(handled[h], Codec!Messages(written[h], 0, Codec!Whole(h)))
  <2> DEFINE s == written[h]
             a == arrived[h]
             d == decoded[h]
             w == Codec!Whole(h)
             M(n) == Codec!Messages(s, 0, n)
  <2>1. /\ s \in Seq(Codec!Frame) /\ Len(s) \in Nat /\ a \in Nat /\ handled[h] \in Seq(Requests)
        /\ Tidy(s) /\ Follows(s, a, d, handled[h], Codec!Socket(h) \in open)
    BY HopTypes DEF CodecInv, Carried, Read
  <2>2. /\ a <= Codec!Bytes(s, Len(s)) /\ d \in 0..Len(s) /\ Codec!Bytes(s, d) <= a
        /\ Codec!Socket(h) \in open => IsWhole(s, a, d) /\ handled[h] = M(d)
    BY <2>1 DEF Follows
  <2>3. PICK p \in 0..d : handled[h] = M(p)
    BY <2>1 DEF Follows
  <2>4. IsWhole(s, a, w)
    <3>1. PICK i : IsWhole(s, a, i)
      BY <2>1, WholeExists
    <3>2. w = i
      BY <2>1, <3>1, WholeIs
    <3> QED
      BY <3>1, <3>2
  <2>5. w \in 0..Len(s) /\ d <= w
    <3> HIDE DEF s, a, d, w
    <3> QED
      BY <2>1, <2>2, <2>4, WholeExists DEF IsWhole
  <2>6. IsWhole(s, a, d) => d = w
    BY <2>1, WholeIs
  <2>7. Codec!Bytes(s, Len(s)) \in Nat
    <3>1. Len(s) \in 0..Len(s)
      BY <2>1
    <3> HIDE DEF s
    <3> QED
      BY <2>1, <3>1, BytesAdds
  <2>8. p \in 0..Len(s) /\ p <= w
    BY <2>1, <2>2, <2>5
  <2>9. IsInjective(M(p)) /\ M(p) \in Seq(Requests)
    <3> HIDE DEF s
    <3> QED
      BY <2>1, <2>8, MessagesOf
  <2>10. M(w) = M(p) \o Codec!Messages(s, p, w)
    <3> HIDE DEF s, w
    <3> QED
      BY <2>1, <2>5, <2>8, MessagesInTwo
  <2>11. Codec!Messages(s, p, w) \in Seq(Requests)
    <3>1. w \in p..Len(s)
      BY <2>1, <2>5, <2>8
    <3> HIDE DEF s, w
    <3> QED
      BY <2>1, <2>8, <3>1, MessagesAdd
  <2>12. IsPrefix(M(p), M(w))
    <3> DEFINE b == M(p)
               c == Codec!Messages(s, p, w)
    <3>1. b \in Seq(Requests) /\ c \in Seq(Requests) /\ M(w) = b \o c
      BY <2>9, <2>10, <2>11
    <3> HIDE DEF b, c
    <3>2. IsPrefix(b, b \o c)
      BY <3>1, PrefixOfConcat
    <3> QED
      BY <3>1, <3>2 DEF b
  <2>13. a \in 0..Codec!Bytes(s, Len(s))
    BY <2>1, <2>2, <2>7
  <2>14. d \in 0..w
    BY <2>1, <2>2, <2>5
  <2>15. Codec!Socket(h) \in open => handled[h] = M(w)
    BY <2>2, <2>6
  <2>16. IsInjective(handled[h]) /\ IsPrefix(handled[h], M(w))
    BY <2>3, <2>9, <2>12
  <2> QED
    BY <2>1, <2>13, <2>14, <2>15, <2>16
<1>2. Codec!TypeOK
  BY <1>1, SameOperators DEF CodecInv, CodecTypes, Codec!TypeOK
<1>3. Codec!DecodedAsWritten
  BY <1>1, SameOperators DEF Codec!DecodedAsWritten
<1> QED
  BY <1>2, <1>3 DEF CodecInv

-----------------------------------------------------------------------------
(* ExternalPlay *)

\* From the truncation on, only the processes alive at it and the new one can write:
\* while the handler is between its two halves there is no new one yet.
WritersKnown ==
  /\ stage = "launching" => alive \cup log \subseteq beside
  /\ stage = "up" /\ pid # NoRun => alive \cup log \subseteq {pid} \cup beside

PlayInv == PlayTypeOK /\ WritersKnown /\ NoStrayRun

\* Nothing plays and nothing is logged at first.
LEMMA PlayInitInv == PlayInit => PlayInv
BY DEF PlayInit, PlayInv, PlayTypeOK, WritersKnown, NoStrayRun

\* A kill, granted or refused, leaves no process unaccounted for.
LEMMA KillAccounts ==
  ASSUME PlayInv, NEW started \in SUBSET (Runs \ (alive \cup ended)), Kill(started)
  PROVE  /\ alive' \subseteq alive \cup started
         /\ alive' \subseteq abandoned' \cup started
         /\ alive' \subseteq Runs /\ ended' \subseteq Runs \ alive' /\ abandoned' \subseteq Runs
<1>1. CASE /\ alive' = (alive \ {pid}) \cup started
           /\ ended' = ended \cup (alive \cap {pid})
           /\ UNCHANGED abandoned
  BY <1>1 DEF PlayInv, PlayTypeOK, NoStrayRun
<1>2. CASE /\ alive' = alive \cup started
           /\ abandoned' = abandoned \cup (alive \cap {pid})
           /\ UNCHANGED ended
  BY <1>2 DEF PlayInv, PlayTypeOK, NoStrayRun
<1> QED
  BY <1>1, <1>2 DEF Kill

\* The steps that leave no process tracked.
LEMMA ForgetsPlay ==
  ASSUME PlayInv, Unload \/ StopScene \/ EditorDies \/ Poll
  PROVE  PlayInv'
<1>1. CASE Unload \/ StopScene
  <2>1. Kill({})
    BY <1>1 DEF Unload, StopScene
  <2>2. /\ alive' \subseteq abandoned'
        /\ alive' \subseteq Runs /\ ended' \subseteq Runs \ alive' /\ abandoned' \subseteq Runs
    BY <2>1, KillAccounts
  <2>3. stage' \in {"down", "up"} /\ pid' = NoRun /\ log' = log /\ beside' = beside
    BY <1>1 DEF Unload, StopScene
  <2> QED
    BY <2>2, <2>3 DEF PlayInv, PlayTypeOK, WritersKnown, NoStrayRun
<1>2. CASE EditorDies
  BY <1>2 DEF EditorDies, PlayInv, PlayTypeOK, WritersKnown, NoStrayRun
<1>3. CASE Poll
  BY <1>3 DEF Poll, PlayInv, PlayTypeOK, WritersKnown, NoStrayRun
<1> QED
  BY <1>1, <1>2, <1>3

\* The two halves of _play_scene_external().
LEMMA PlaysScene ==
  ASSUME PlayInv, PlayTruncates \/ PlayStarts
  PROVE  PlayInv'
<1>1. CASE PlayTruncates
  BY <1>1 DEF PlayTruncates, EmptyLog, PlayInv, PlayTypeOK, WritersKnown, NoStrayRun
<1>2. CASE PlayStarts
  <2>1. stage = "launching" /\ stage' = "up" /\ log' = log /\ beside' = beside
    BY <1>2 DEF PlayStarts
  <2>2. CASE pid' = NoRun /\ Kill({})
    BY <2>1, <2>2, KillAccounts DEF PlayInv, PlayTypeOK, WritersKnown, NoStrayRun
  <2>3. CASE \E r \in Runs \ (alive \cup ended) : pid' = r /\ Kill({r})
    <3>1. PICK r \in Runs \ (alive \cup ended) : pid' = r /\ Kill({r})
      BY <2>3
    <3>2. /\ alive' \subseteq alive \cup {r} /\ alive' \subseteq abandoned' \cup {r}
          /\ alive' \subseteq Runs /\ ended' \subseteq Runs \ alive' /\ abandoned' \subseteq Runs
      BY <3>1, KillAccounts
    <3> QED
      BY <2>1, <3>1, <3>2 DEF PlayInv, PlayTypeOK, WritersKnown, NoStrayRun
  <2> QED
    BY <1>2, <2>2, <2>3 DEF PlayStarts
<1> QED
  BY <1>1, <1>2

\* Every step of the editor and its processes keeps the invariant of the play.
LEMMA PlayNextInv == PlayInv /\ [PlayNext]_playVars => PlayInv'
<1> SUFFICES ASSUME PlayInv, [PlayNext]_playVars PROVE PlayInv'
  OBVIOUS
<1> USE DEF PlayInv, PlayTypeOK, WritersKnown, NoStrayRun
<1>1. CASE EditorStarts
  BY <1>1 DEF EditorStarts
<1>2. ASSUME NEW r \in Runs, RunLogs(r) PROVE PlayInv'
  BY <1>2 DEF RunLogs
<1>3. ASSUME NEW r \in Runs, RunExits(r) PROVE PlayInv'
  BY <1>3 DEF RunExits
<1>4. CASE UNCHANGED playVars
  BY <1>4 DEF playVars
<1> QED
  BY <1>1, <1>2, <1>3, <1>4, ForgetsPlay, PlaysScene DEF PlayNext

\* So it always holds.
LEMMA PlayInvHolds == PlaySpec => []PlayInv
<1> QED
  BY PlayInitInv, PlayNextInv, PTL DEF PlaySpec

-----------------------------------------------------------------------------
(* The parts together: a step of one leaves the others where they are *)

PartsInv == TypeOK /\ Inv /\ CodecInv /\ LogsInv /\ PlayInv

PartsVars == <<part, vars, codecVars, logsVars, playVars>>

\* The invariants of the four parts hold at first.
LEMMA PartsInitInv == PartsInit => PartsInv
BY InitTyped, InitInv, CodecInit, LogsInit, PlayInitInv DEF PartsInit, PartsInv

\* Each invariant holds after a step of its part, and after a step of another.
LEMMA PartsStepInv == PartsInv /\ [PartsNext]_PartsVars => PartsInv'
<1> SUFFICES ASSUME PartsInv, [PartsNext]_PartsVars PROVE PartsInv'
  OBVIOUS
<1>1. [Next]_vars /\ [Codec!Next]_codecVars /\ [Logs!Next]_logsVars /\ [PlayNext]_playVars
  BY DEF PartsNext, PartsVars
<1>2. TypeOK' /\ Inv'
  BY <1>1, NextTyped, NextInv DEF PartsInv
<1>3. CodecInv'
  BY <1>1, CodecStep DEF PartsInv
<1>4. LogsInv'
  <2>1. [Logs!Next]_(Logs!vars)
    <3>1. UNCHANGED logsVars => UNCHANGED Logs!vars
      BY DEF logsVars, Logs!vars, Logs!logVars, Logs!clearVars
    <3> QED
      BY <1>1, <3>1
  <2>2. LogsInv
    BY DEF PartsInv
  <2> QED
    BY <2>1, <2>2, LogsStep
<1>5. PlayInv'
  BY <1>1, PlayNextInv DEF PartsInv
<1> QED
  BY <1>2, <1>3, <1>4, <1>5 DEF PartsInv

\* So they always hold.
LEMMA PartsInvHolds == PartsSpec => []PartsInv
<1>1. PartsSpec => PartsInit /\ [][PartsNext]_PartsVars
  BY DEF PartsSpec, PartsVars
<1> QED
  BY <1>1, PartsInitInv, PartsStepInv, PTL

\* The variables of the server, of the frame codecs, of the logs and of the play keep
\* their types; in particular a decoder never takes out more frames than have come,
\* and no message is handled twice, at any size of frame and any cut of the bytes.
THEOREM PartsTypeCorrect == PartsSpec => []PartsTypeOK
<1>1. PartsInv => PartsTypeOK
  BY CodecHolds DEF PartsInv, PartsTypeOK, LogsInv, PlayInv
<1> QED
  BY <1>1, PartsInvHolds, PTL

\* FrameDecoder.push() and decode_messages() handle what was written, in order and
\* once, however the socket cuts the bytes, up to the frame that costs the socket.
THEOREM FramesDecodedAsWritten == PartsSpec => []DecodedAsWritten
<1>1. PartsInv => DecodedAsWritten
  BY CodecHolds DEF PartsInv, DecodedAsWritten
<1> QED
  BY <1>1, PartsInvHolds, PTL

\* What encodeMessage() lets through never costs the control socket; the bridge to an
\* addon is lost only over an answer that the addon's encoder should have refused.
THEOREM EncoderFitsDecoder == PartsSpec => []LimitsAgree
<1>1. PartsInv => LimitsAgree
  BY CodecHolds DEF PartsInv, LimitsAgree
<1> QED
  BY <1>1, PartsInvHolds, PTL

\* A read after clear_output_logs was answered returns no line that was logged before
\* that clear began, from the ring or the files, whatever has restarted meanwhile.
THEOREM ClearingHolds == PartsSpec => []ClearedStaysCleared
<1>1. PartsInv => ClearedStaysCleared
  BY ClearedInParts DEF PartsInv, ClearedStaysCleared
<1> QED
  BY <1>1, PartsInvHolds, PTL

\* The file fallback of get_error_logs leaves an error out only if Limit errors, or
\* twice as many lines, sort ahead of it, whatever the files hold and in any order.
THEOREM ErrorsAreFound == PartsSpec => []ErrorsSurface
<1>1. PartsInv => ErrorsSurface
  BY ErrorsInParts DEF PartsInv, ErrorsSurface
<1> QED
  BY <1>1, PartsInvHolds, PTL


\* The pid, the processes and the log stay what they are: a process that ended is
\* never alive again, and an editor that is gone tracks none.
THEOREM PlayTypeCorrect == PlaySpec => []PlayTypeOK
<1>1. PlayInv => PlayTypeOK
  BY DEF PlayInv
<1> QED
  BY <1>1, PlayInvHolds, PTL

\* What the log tools read of a scene that plays was written by it, or by a process
\* that was there when the log was emptied: the truncation comes before the kill.
THEOREM LogIsOfThisRun == PlaySpec => []RuntimeLogIsOfThisRun
<1>1. PlayInv => RuntimeLogIsOfThisRun
  BY DEF PlayInv, WritersKnown, RuntimeLogIsOfThisRun
<1> QED
  BY <1>1, PlayInvHolds, PTL

\* No order of plays, stops, reloads and exits loses track of a process that runs,
\* unless its editor died or the system refused to kill it.
THEOREM NothingStrays == PlaySpec => []NoStrayRun
<1>1. PlayInv => NoStrayRun
  BY DEF PlayInv
<1> QED
  BY <1>1, PlayInvHolds, PTL
=============================================================================

---------------------------- MODULE ObservedLogs ----------------------------
(***************************************************************************)
(* What get_output_logs, get_godot_errors and clear_output_logs see: the   *)
(* console ring of the editor (editor_console_capture.gd), the files       *)
(* addon.log, server.log and runtime.log, who writes them, and how reads   *)
(* choose among them (observation_service.gd, observation/logs.ts,         *)
(* mcp/server.ts).                                                         *)
(*                                                                         *)
(* A line is its place in the history of all lines, the second it was      *)
(* logged in, its level and its writer; a log is the set of lines it       *)
(* holds.  A read changes nothing, so reads are operators.  The process    *)
(* that writes runtime.log is the subject of ExternalPlay.                 *)
(***************************************************************************)
EXTENDS Naturals, FiniteSets

CONSTANTS
  Limit,     \* the limit of a read
  RingSize,  \* _max_entries
  MaxLines, MaxClock  \* bounds: lines ever logged, seconds

VARIABLES
  console,   \* _entries of the capture
  file,      \* the lines of each log file
  lines,     \* how many lines have been logged
  clock,     \* the current second
  captures,  \* Godot 4.5 or newer: OS.add_logger() exists
  plays,     \* a scene plays, in the editor or in a process that it tracks
  clear,     \* clear_output_logs: "idle", "asked", or "done" by the editor
  since,     \* lines logged when that clear began
  cleared    \* history: since of the last clear that was answered

logVars == <<console, file, lines>>
clearVars == <<clear, since, cleared>>
vars == <<logVars, clock, captures, plays, clearVars>>

Files == {"addon", "server", "runtime"}
Writers == {"editor", "addon", "server", "game"}
Line == [n : 1..MaxLines, at : 1..MaxClock, error : BOOLEAN, by : Writers]

\* The last k lines of S, as they were logged.
Latest(S, k) == {e \in S : Cardinality({f \in S : e.n < f.n}) < k}
ErrorsOf(S) == {e \in S : e.error}

\* The ring is never longer than its size, and no log holds a line of the future.
TypeOK ==
  /\ console \subseteq Line /\ Cardinality(console) <= RingSize
  /\ file \in [Files -> SUBSET Line]
  /\ lines \in 0..MaxLines /\ clock \in 1..MaxClock
  /\ captures \in BOOLEAN /\ plays \in BOOLEAN
  /\ clear \in {"idle", "asked", "done"}
  /\ since \in 0..lines /\ cleared \in 0..lines

Init ==
  /\ console = {}
  /\ file = [f \in Files |-> {}]
  /\ lines = 0
  /\ clock = 1
  /\ captures \in BOOLEAN
  /\ plays = FALSE
  /\ clear = "idle"
  /\ since = 0
  /\ cleared = 0

-----------------------------------------------------------------------------
(* Reads *)

Chosen(S, errors) == IF errors THEN ErrorsOf(S) ELSE S

\* _read_logs(): what the editor answers.  A scene that plays, and any line of
\* runtime.log, comes before the console; with neither, it is an error.
EditorAnswers(errors) ==
  plays \/ Chosen(file["runtime"], errors) # {} \/ captures
EditorLogs(errors) ==
  IF plays \/ Chosen(file["runtime"], errors) # {}
  THEN Latest(Chosen(file["runtime"], errors), Limit)
  ELSE Latest(Chosen(console, errors), Limit)

\* What sort() goes by: lines of runtime.log have no timestamp, those of addon.log
\* are stamped with the second, those of server.log with more.
Stamp(e) == IF e.by = "game" THEN 0 ELSE IF e.by = "addon" THEN 2 * e.at ELSE 2 * e.at + 1
Sorted(e, f) == Stamp(e) < Stamp(f) \/ (Stamp(e) = Stamp(f) /\ e.n < f.n)
LastSorted(S, k) == {e \in S : Cardinality({f \in S : Sorted(e, f)}) < k}

\* readMergedEntries(), readOutputLogs().
MergedLogs(limit) == LastSorted(UNION {Latest(file[f], limit) : f \in Files}, limit)

\* Mutant of FallbackErrors: the window is as long as the answer.
FallbackErrorsNarrow == LastSorted(ErrorsOf(MergedLogs(Limit)), Limit)

\* readErrorLogs(): the window is twice the limit.
FallbackErrors == LastSorted(ErrorsOf(MergedLogs(2 * Limit)), Limit)

\* readObservedLogs(): everything a read may return now, from the editor or from
\* the files when there is no session or its answer fails on the way.
Readable ==
  MergedLogs(Limit) \cup FallbackErrors
    \cup UNION {EditorLogs(errors) : errors \in {b \in BOOLEAN : EditorAnswers(b)}}

-----------------------------------------------------------------------------
(* Writers *)

\* The next line, of either level.
NewLines(by) == {[n |-> lines + 1, at |-> clock, error |-> error, by |-> by] : error \in BOOLEAN}

\* _append_entry(), under the mutex.
Append(e) == console' = Latest(console \cup {e}, RingSize)

Counts ==
  /\ lines < MaxLines
  /\ lines' = lines + 1
  /\ UNCHANGED <<clock, captures, plays, clearVars>>

\* Any thread of the editor prints or reports an error.
ConsoleLogs ==
  /\ Counts
  /\ captures
  /\ \E e \in NewLines("editor") : Append(e)
  /\ UNCHANGED file

\* _append_log(): to the console, if the level calls for it, and to addon.log.
AddonLogs ==
  /\ Counts
  /\ \E e \in NewLines("addon"), printed \in BOOLEAN :
       /\ IF printed /\ captures THEN Append(e) ELSE UNCHANGED console
       /\ file' = [file EXCEPT !["addon"] = @ \cup {e}]

\* Logger.write() of the server.
ServerLogs ==
  /\ Counts
  /\ \E e \in NewLines("server") : file' = [file EXCEPT !["server"] = @ \cup {e}]
  /\ UNCHANGED console

\* A game process writes to its log file, tracked by the editor or not.
GameLogs ==
  /\ Counts
  /\ \E e \in NewLines("game") : file' = [file EXCEPT !["runtime"] = @ \cup {e}]
  /\ UNCHANGED console

Tick ==
  /\ clock < MaxClock
  /\ clock' = clock + 1
  /\ UNCHANGED <<logVars, captures, plays, clearVars>>

-----------------------------------------------------------------------------
(* The editor *)

\* The editor is started again: the ring is new, the files are as they were.
EditorRestarts ==
  /\ console' = {}
  /\ plays' = FALSE
  /\ UNCHANGED <<file, lines, clock, captures, clearVars>>

\* _play_scene(): an external run empties runtime.log, the editor's own does not.
Play ==
  /\ plays' = TRUE
  /\ \/ file' = [file EXCEPT !["runtime"] = {}]
     \/ UNCHANGED file
  /\ UNCHANGED <<console, lines, clock, captures, clearVars>>

\* The scene stops, or ends by itself.
PlayEnds ==
  /\ plays
  /\ plays' = FALSE
  /\ UNCHANGED <<logVars, clock, captures, clearVars>>

-----------------------------------------------------------------------------
(* clear_output_logs *)

AskClear ==
  /\ clear = "idle"
  /\ clear' = "asked"
  /\ since' = lines
  /\ UNCHANGED <<logVars, clock, captures, plays, cleared>>

\* _clear_output_logs() in the editor: its ring and the two files it knows.
EditorClears ==
  /\ clear = "asked"
  /\ clear' = "done"
  /\ console' = {}
  /\ file' = [file EXCEPT !["addon"] = {}, !["runtime"] = {}]
  /\ UNCHANGED <<lines, clock, captures, plays, since, cleared>>

\* Mutant of ClearLocalFiles: the server relies on the editor's answer.
ClearNoLocalFiles == UNCHANGED file

\* clearLocalLogFiles().
ClearLocalFiles == file' = [file EXCEPT !["server"] = {}, !["runtime"] = {}]

\* clearObservedLogs() after its await.
ClearAnswered ==
  /\ clear = "done"
  /\ clear' = "idle"
  /\ ClearLocalFiles
  /\ cleared' = since
  /\ since' = 0
  /\ UNCHANGED <<console, lines, clock, captures, plays>>

\* The session closes, or the answer is late: an error, and nothing local is cleared.
ClearFails ==
  /\ clear # "idle"
  /\ clear' = "idle"
  /\ since' = 0
  /\ UNCHANGED <<logVars, clock, captures, plays, cleared>>

Next ==
  \/ ConsoleLogs \/ AddonLogs \/ ServerLogs \/ GameLogs \/ Tick
  \/ EditorRestarts \/ Play \/ PlayEnds
  \/ AskClear \/ EditorClears \/ ClearAnswered \/ ClearFails

Spec == Init /\ [][Next]_vars

-----------------------------------------------------------------------------
(* Properties *)

\* A read after a clear that was answered returns nothing logged before that clear
\* began, wherever it is answered from and whatever has restarted meanwhile.
ClearedStaysCleared == \A e \in Readable : e.n > cleared

\* A line of e's second or a later one; for a line without a timestamp, any line
\* that has one.
Ahead(S, e) == {f \in S \ {e} : IF Stamp(e) = 0 THEN Stamp(f) > 0 \/ f.n > e.n
                                 ELSE f.at >= e.at /\ Stamp(f) > 0}

\* The fallback misses an error only if Limit other errors, or a window of twice
\* as many lines, are ahead of it.
ErrorsSurface ==
  LET all == UNION {file[f] : f \in Files} IN
  \A e \in ErrorsOf(all) :
    \/ e \in FallbackErrors
    \/ Cardinality(Ahead(ErrorsOf(all), e)) >= Limit
    \/ Cardinality(Ahead(all, e)) >= 2 * Limit
=============================================================================

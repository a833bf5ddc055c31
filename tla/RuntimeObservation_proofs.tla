---------------------- MODULE RuntimeObservation_proofs ----------------------
(***************************************************************************)
(* How long a read can answer with an ended run, in an engine that calls   *)
(* the session callbacks and in one that does not, and what the editor     *)
(* keeps of the last snapshot sent and of the last pause state reported;   *)
(* for any numbers of runs, changes, commands and waits.                   *)
(***************************************************************************)
EXTENDS RuntimeObservation, SequenceTheorems, TLAPS

Payloads == Contents \cup BOOLEAN \cup {None}

\* Every event the telemetry sends, the snapshot apart, and with it.
PlainNames == {"ready", "node_added", "node_removed", "pause_result",
               "mouse_result", "controls_result", "shutdown"}
EventNames == PlainNames \cup {"runtime_snapshot"}

\* The messages that tell the truth about this run.
Truthful ==
  {m \in [event : EventNames, run : Nat, data : Payloads] :
     m.event = "runtime_snapshot" => m.run = run /\ m.data \in held}

\* A snapshot on its way is of this run; a game that has not connected yet has had
\* no content and sent none, and finds the cache empty if the engine calls the
\* callbacks.
ReadInv ==
  /\ run \in Nat
  /\ held \subseteq Contents
  /\ node \in Contents
  /\ up \in Seq(Truthful)
  /\ status = "attached" => node \in held
  /\ status = "launched" => held = {} /\ sent = None /\ (callbacks => snapshot = None)

LEMMA NoneIsNoMessage == ASSUME NEW c \in Contents PROVE c # None
BY RuntimeAssumption DEF Contents

LEMMA SeqMonotone ==
  ASSUME NEW S, NEW T, S \subseteq T, NEW s \in Seq(S)
  PROVE  s \in Seq(T)
OBVIOUS

LEMMA InitReadInv == Init => ReadInv
BY DEF Init, ReadInv, Contents

\* The message that a game sends of what its node is, or has been.
LEMMA ShotIsTruthful ==
  ASSUME ReadInv, NEW c \in Contents, NEW h, c \in h
  PROVE  Shot(c) \in {m \in [event : EventNames, run : Nat, data : Payloads] :
                        m.event = "runtime_snapshot" => m.run = run /\ m.data \in h}
<1>1. run \in Nat /\ c \in Payloads
  BY DEF ReadInv, Payloads
<1>2. Shot(c) \in [event : EventNames, run : Nat, data : Payloads]
  BY <1>1 DEF Shot, EventNames
<1> QED
  BY <1>2 DEF Shot

LEMMA EventIsTruthful ==
  ASSUME ReadInv, NEW x \in Payloads, NEW h,
         NEW e \in PlainNames
  PROVE  Event(e, x) \in {m \in [event : EventNames, run : Nat, data : Payloads] :
                            m.event = "runtime_snapshot" => m.run = run /\ m.data \in h}
<1>1. run \in Nat
  BY DEF ReadInv
<1>2. e \in EventNames /\ e # "runtime_snapshot"
  BY DEF PlainNames, EventNames
<1>3. Event(e, x) \in [event : EventNames, run : Nat, data : Payloads]
  BY <1>1, <1>2 DEF Event
<1> QED
  BY <1>2, <1>3 DEF Event

\* A change of the scene keeps what was true.
LEMMA TruthGrows ==
  ASSUME NEW c, held' = held \cup {c}, run' = run
  PROVE  Truthful \subseteq Truthful'
BY DEF Truthful

\* The telemetry appends truthful messages only.
LEMMA EmitKeeps ==
  ASSUME ReadInv, NEW c \in Contents, c \in held', run' = run,
         Truthful \subseteq Truthful',
         NEW ms \in Seq(Truthful'), EmitIfChanged(ms, c)
  PROVE  up' \in Seq(Truthful')
<1>1. up \in Seq(Truthful')
  BY SeqMonotone DEF ReadInv
<1>2. Shot(c) \in Truthful'
  BY ShotIsTruthful DEF Truthful
<1>3. (IF c = sent THEN <<>> ELSE <<Shot(c)>>) \in Seq(Truthful')
  BY <1>2
<1> QED
  BY <1>1, <1>3 DEF EmitIfChanged

-----------------------------------------------------------------------------
(* Steps *)

LEMMA LifeKeeps ==
  ASSUME ReadInv, PlayScene \/ StopScene \/ SessionEnds
  PROVE  ReadInv'
<1>1. up' = <<>> /\ (callbacks' => snapshot' = None)
  BY DEF PlayScene, StopScene, SessionEnds, EndSession
<1>2. up' \in Seq(Truthful')
  BY <1>1
<1>3. CASE PlayScene
  BY <1>1, <1>2, <1>3 DEF PlayScene, ReadInv, Contents
<1>4. CASE StopScene \/ SessionEnds
  BY <1>1, <1>2, <1>4 DEF StopScene, SessionEnds, ReadInv
<1> QED
  BY <1>3, <1>4

LEMMA AttachKeeps ==
  ASSUME ReadInv, NEW c \in Contents, Attach(c)
  PROVE  ReadInv'
<1> USE DEF Attach, ReadInv
<1>1. Shot(c) \in Truthful'
  BY ShotIsTruthful DEF Truthful
<1>2. Event("ready", None) \in Truthful'
  BY EventIsTruthful DEF Truthful, Payloads, PlainNames
<1>3. up' \in Seq(Truthful')
  BY <1>1, <1>2
<1> QED
  BY <1>3

LEMMA ExitKeeps == ASSUME ReadInv, Exit PROVE ReadInv'
<1> USE DEF Exit, ReadInv, editorVars
<1>1. Truthful' = Truthful
  BY DEF Truthful
<1>2. Event("shutdown", None) \in Truthful
  BY EventIsTruthful DEF Truthful, Payloads, PlainNames
<1>3. up' \in Seq(Truthful')
  BY <1>1, <1>2
<1> QED
  BY <1>1, <1>3

LEMMA SetPropertyKeeps ==
  ASSUME ReadInv, NEW v \in Values, SetProperty(v)
  PROVE  ReadInv'
<1> USE DEF SetProperty, Becomes, ReadInv, editorVars
<1>1. Truthful \subseteq Truthful'
  BY TruthGrows
<1>2. up' \in Seq(Truthful')
  BY <1>1, SeqMonotone
<1> QED
  BY <1>1, <1>2 DEF Contents

LEMMA NodeEventKeeps ==
  ASSUME ReadInv, status = "attached", NEW c \in Contents, Becomes(c), UNCHANGED <<run, status>>,
         NEW e \in {"node_added", "node_removed"}, EmitIfChanged(<<Event(e, None)>>, c),
         UNCHANGED snapshot
  PROVE  ReadInv'
<1> USE DEF Becomes, ReadInv
<1>1. Truthful \subseteq Truthful'
  BY TruthGrows
<1>2. Event(e, None) \in Truthful'
  BY EventIsTruthful DEF Truthful, Payloads, PlainNames
<1>3. <<Event(e, None)>> \in Seq(Truthful')
  BY <1>2
<1>4. up' \in Seq(Truthful')
  BY <1>1, <1>3, EmitKeeps
<1> QED
  BY <1>1, <1>4

LEMMA PollKeeps == ASSUME ReadInv, Poll PROVE ReadInv'
<1> USE DEF Poll, ReadInv, editorVars
<1>1. Truthful' = Truthful
  BY DEF Truthful
<1>2. <<>> \in Seq(Truthful')
  OBVIOUS
<1>3. up' \in Seq(Truthful')
  BY <1>1, <1>2, EmitKeeps
<1> QED
  BY <1>1, <1>3

LEMMA CommandKeeps ==
  ASSUME ReadInv, OnEditorCommand, down \in Seq(Commands)
  PROVE  ReadInv'
<1> USE DEF OnEditorCommand, ReadInv, editorVars
<1>1. Truthful' = Truthful
  BY DEF Truthful
<1>2. up' \in Seq(Truthful)
  <2>1. CASE \E p \in BOOLEAN : PauseCommand(p)
    <3>1. PICK p \in BOOLEAN : PauseCommand(p)
      BY <2>1
    <3>2. Event("pause_result", p) \in Truthful
      BY EventIsTruthful DEF Truthful, Payloads, PlainNames
    <3> QED
      BY <3>1, <3>2 DEF PauseCommand
  <2>2. CASE MouseCommand
    <3>1. Event("mouse_result", None) \in Truthful
      BY EventIsTruthful DEF Truthful, Payloads, PlainNames
    <3>2. Shot(node) \in Truthful
      BY ShotIsTruthful DEF Truthful
    <3>3. (IF node = sent THEN <<>> ELSE <<Shot(node)>>) \in Seq(Truthful)
      BY <3>2
    <3> QED
      BY <2>2, <3>1, <3>3 DEF MouseCommand
  <2>3. CASE EnumerateCommand
    <3>1. Event("controls_result", node) \in Truthful
      BY EventIsTruthful DEF Truthful, Payloads, PlainNames
    <3> QED
      BY <2>3, <3>1 DEF EnumerateCommand
  <2>4. Head(down) \in Commands
    OBVIOUS
  <2>5. Head(down).command = "pause" => Head(down).data \in BOOLEAN
    BY <2>4 DEF Commands
  <2> QED
    BY <2>1, <2>2, <2>3, <2>5
<1> QED
  BY <1>1, <1>2

LEMMA CaptureKeeps ==
  ASSUME ReadInv, status = "launched" => up = <<>>, Capture
  PROVE  ReadInv'
<1> USE DEF Capture, ReadInv, gameVars
<1>1. Truthful' = Truthful
  BY DEF Truthful
<1>2. up' \in Seq(Truthful)
  OBVIOUS
<1> QED
  BY <1>1, <1>2

\* A command on its way is one of those the tools send.
CommandsTyped == down \in Seq(Commands)

LEMMA DownTyped ==
  /\ Init => CommandsTyped
  /\ CommandsTyped /\ [Next]_vars => CommandsTyped'
<1>1. Init => CommandsTyped
  BY DEF Init, CommandsTyped
<1>2. ASSUME CommandsTyped, [Next]_vars PROVE CommandsTyped'
  <2> USE <1>2 DEF CommandsTyped
  <2>1. ASSUME NEW p \in BOOLEAN, PauseScene(p) PROVE CommandsTyped'
    <3>1. [command |-> "pause", data |-> p] \in Commands
      BY DEF Commands
    <3> QED
      BY <2>1, <3>1 DEF PauseScene, SendCommand
  <2>2. CASE SimulateMouse
    <3>1. [command |-> "simulate_mouse", data |-> None] \in Commands
      BY DEF Commands
    <3> QED
      BY <2>2, <3>1 DEF SimulateMouse, SendCommand
  <2>3. CASE AnnotatedScreenshot
    <3>1. [command |-> "enumerate_controls", data |-> None] \in Commands
      BY DEF Commands
    <3> QED
      BY <2>3, <3>1 DEF AnnotatedScreenshot, SendCommand
  <2>4. CASE OnEditorCommand
    BY <2>4 DEF OnEditorCommand
  <2>5. CASE PlayScene \/ StopScene \/ SessionEnds
    <3>1. down' = <<>>
      BY <2>5 DEF PlayScene, StopScene, SessionEnds, EndSession
    <3> QED
      BY <3>1
  <2>6. CASE UNCHANGED down
    BY <2>6
  <2>7. ASSUME NEW c \in Contents, Attach(c) PROVE CommandsTyped'
    BY <2>7 DEF Attach
  <2>8. ASSUME NEW v \in Values, SetProperty(v) \/ NodeAdded(v) PROVE CommandsTyped'
    BY <2>8 DEF SetProperty, NodeAdded
  <2>9. CASE NodeRemoved \/ Poll \/ Exit \/ Capture \/ ClearEvents
    BY <2>9 DEF NodeRemoved, Poll, Exit, Capture, ClearEvents
  <2>10. CASE WaitNext
    BY <2>10 DEF WaitNext, StartWait, Observe, ObserveRejected, WakeUp, TimeoutPasses
  <2>11. CASE UNCHANGED vars
    BY <2>11 DEF vars
  <2> QED
    BY <2>1, <2>2, <2>3, <2>4, <2>5, <2>7, <2>8, <2>9, <2>10, <2>11
    DEF Next, GameNext, EditorNext
<1> QED
  BY <1>1, <1>2

\* Tools and waits touch neither the game nor the snapshot.
LEMMA OthersKeep ==
  ASSUME ReadInv, UNCHANGED <<gameVars, up, callbacks, snapshot>>
  PROVE  ReadInv'
<1>1. Truthful' = Truthful
  BY DEF Truthful, gameVars
<1> QED
  BY <1>1 DEF ReadInv, gameVars

LEMMA NextReadInv ==
  ASSUME ReadInv, CommandsTyped, status = "launched" => up = <<>>, [Next]_vars
  PROVE  ReadInv'
<1>1. ASSUME NEW c \in Contents, Attach(c) PROVE ReadInv'
  BY <1>1, AttachKeeps
<1>2. ASSUME NEW v \in Values, SetProperty(v) PROVE ReadInv'
  BY <1>2, SetPropertyKeeps
<1>3. ASSUME NEW v \in Values, NodeAdded(v) PROVE ReadInv'
  <2>1. v \in Contents
    BY DEF Contents
  <2> QED
    BY <1>3, <2>1, NodeEventKeeps DEF NodeAdded, editorVars
<1>4. CASE NodeRemoved
  <2>1. Absent \in Contents
    BY DEF Contents
  <2> QED
    BY <1>4, <2>1, NodeEventKeeps DEF NodeRemoved, editorVars
<1>5. CASE Poll
  BY <1>5, PollKeeps
<1>6. CASE OnEditorCommand
  BY <1>6, CommandKeeps DEF CommandsTyped
<1>7. CASE Exit
  BY <1>7, ExitKeeps
<1>8. CASE PlayScene \/ StopScene \/ SessionEnds
  BY <1>8, LifeKeeps
<1>9. CASE Capture
  BY <1>9, CaptureKeeps
<1>10. CASE (\E p \in BOOLEAN : PauseScene(p)) \/ SimulateMouse \/ AnnotatedScreenshot \/ ClearEvents
  BY <1>10, OthersKeep DEF PauseScene, SimulateMouse, AnnotatedScreenshot, ClearEvents, editorVars
<1>11. CASE WaitNext
  BY <1>11, OthersKeep DEF WaitNext, StartWait, Observe, ObserveRejected, WakeUp, TimeoutPasses, editorVars
<1>12. CASE UNCHANGED vars
  BY <1>12, OthersKeep DEF vars, editorVars
<1> QED
  BY <1>1, <1>2, <1>3, <1>4, <1>5, <1>6, <1>7, <1>8, <1>9, <1>10, <1>11, <1>12
  DEF Next, GameNext, EditorNext

-----------------------------------------------------------------------------
(* The last message of a kind in a sequence *)

LEMMA LastOfConcat ==
  ASSUME NEW T, NEW s \in Seq(T), NEW t \in Seq(T), NEW S, NEW m
  PROVE  /\ Lacks(s \o t, S) <=> Lacks(s, S) /\ Lacks(t, S)
         /\ IsLast(m, s \o t, S) <=> IsLast(m, t, S) \/ (Lacks(t, S) /\ IsLast(m, s, S))
<1> DEFINE q == s \o t
<1>0. /\ Len(s) \in Nat /\ Len(t) \in Nat
      /\ DOMAIN s = 1..Len(s) /\ DOMAIN t = 1..Len(t)
      /\ DOMAIN q = 1..Len(s) + Len(t)
      /\ \A i \in 1..Len(s) + Len(t) : q[i] = IF i <= Len(s) THEN s[i] ELSE t[i - Len(s)]
  BY ConcatProperties, LenProperties
<1>1. \A i \in 1..Len(s) : i \in DOMAIN q /\ q[i] = s[i]
  BY <1>0
<1>2. \A j \in 1..Len(t) : Len(s) + j \in DOMAIN q /\ q[Len(s) + j] = t[j]
  BY <1>0
<1>3. \A i \in DOMAIN q :
        \/ i \in 1..Len(s)
        \/ i - Len(s) \in 1..Len(t) /\ i = Len(s) + (i - Len(s))
  BY <1>0
<1> HIDE DEF q
<1>4. Lacks(q, S) <=> Lacks(s, S) /\ Lacks(t, S)
  BY <1>0, <1>1, <1>2, <1>3 DEF Lacks
<1>5. ASSUME IsLast(m, t, S) PROVE IsLast(m, q, S)
  <2>1. PICK i \in 1..Len(t) : t[i] = m /\ \A j \in 1..Len(t) : j > i => t[j] \notin S
    BY <1>0, <1>5 DEF IsLast
  <2>2. \A j \in DOMAIN q : j > Len(s) + i => q[j] \notin S
    BY <1>0, <1>2, <1>3, <2>1
  <2> QED
    BY <1>2, <1>5, <2>1, <2>2 DEF IsLast
<1>6. ASSUME Lacks(t, S), IsLast(m, s, S) PROVE IsLast(m, q, S)
  <2>1. PICK i \in 1..Len(s) : s[i] = m /\ \A j \in 1..Len(s) : j > i => s[j] \notin S
    BY <1>0, <1>6 DEF IsLast
  <2>2. \A j \in DOMAIN q : j > i => q[j] \notin S
    BY <1>0, <1>1, <1>2, <1>3, <1>6, <2>1 DEF Lacks
  <2> QED
    BY <1>1, <1>6, <2>1, <2>2 DEF IsLast
<1>7. ASSUME IsLast(m, q, S) PROVE IsLast(m, t, S) \/ (Lacks(t, S) /\ IsLast(m, s, S))
  <2>1. PICK i \in DOMAIN q : q[i] = m /\ \A j \in DOMAIN q : j > i => q[j] \notin S
    BY <1>7 DEF IsLast
  <2>2. m \in S
    BY <1>7 DEF IsLast
  <2>3. CASE i \in 1..Len(s)
    <3>1. Lacks(t, S)
      <4>1. ASSUME NEW j \in 1..Len(t) PROVE t[j] \notin S
        <5>1. Len(s) + j > i /\ Len(s) + j \in DOMAIN q /\ q[Len(s) + j] = t[j]
          BY <1>0, <1>2, <2>3
        <5> QED
          BY <2>1, <5>1
      <4> QED
        BY <1>0, <4>1 DEF Lacks
    <3>2. IsLast(m, s, S)
      BY <1>0, <1>1, <2>1, <2>2, <2>3 DEF IsLast
    <3> QED
      BY <3>1, <3>2
  <2>4. CASE i - Len(s) \in 1..Len(t) /\ i = Len(s) + (i - Len(s))
    <3>1. t[i - Len(s)] = m
      BY <1>2, <2>1, <2>4
    <3>2. ASSUME NEW j \in 1..Len(t), j > i - Len(s) PROVE t[j] \notin S
      <4>1. Len(s) + j > i /\ Len(s) + j \in DOMAIN q /\ q[Len(s) + j] = t[j]
        BY <1>0, <1>2, <2>1, <3>2
      <4> QED
        BY <2>1, <4>1
    <3> QED
      BY <1>0, <2>2, <2>4, <3>1, <3>2 DEF IsLast
  <2> QED
    BY <1>3, <2>3, <2>4
<1> QED
  BY <1>4, <1>5, <1>6, <1>7 DEF q

LEMMA LastOfOne ==
  ASSUME NEW x, NEW S, NEW m
  PROVE  /\ Lacks(<<x>>, S) <=> x \notin S
         /\ IsLast(m, <<x>>, S) <=> m = x /\ x \in S
         /\ Lacks(<<>>, S) /\ ~IsLast(m, <<>>, S)
<1>1. DOMAIN <<x>> = {1} /\ <<x>>[1] = x
  OBVIOUS
<1>2. ~\E i \in DOMAIN <<>> : TRUE
  OBVIOUS
<1> QED
  BY <1>1, <1>2 DEF Lacks, IsLast

LEMMA LastOfAppend ==
  ASSUME NEW T, NEW s \in Seq(T), NEW x \in T, NEW S, NEW m
  PROVE  /\ Lacks(Append(s, x), S) <=> Lacks(s, S) /\ x \notin S
         /\ IsLast(m, Append(s, x), S) <=>
              (x \in S /\ m = x) \/ (x \notin S /\ IsLast(m, s, S))
<1>1. Append(s, x) = s \o <<x>> /\ <<x>> \in Seq(T)
  BY AppendIsConcat
<1>2. /\ Lacks(<<x>>, S) <=> x \notin S
      /\ IsLast(m, <<x>>, S) <=> m = x /\ x \in S
  BY LastOfOne
<1>3. /\ Lacks(s \o <<x>>, S) <=> Lacks(s, S) /\ Lacks(<<x>>, S)
      /\ IsLast(m, s \o <<x>>, S) <=>
           IsLast(m, <<x>>, S) \/ (Lacks(<<x>>, S) /\ IsLast(m, s, S))
  BY <1>1, LastOfConcat
<1> QED
  BY <1>1, <1>2, <1>3

LEMMA LastOfTail ==
  ASSUME NEW T, NEW s \in Seq(T), s # <<>>, NEW S, NEW m
  PROVE  /\ Lacks(s, S) <=> Lacks(Tail(s), S) /\ Head(s) \notin S
         /\ IsLast(m, s, S) <=>
              \/ IsLast(m, Tail(s), S)
              \/ Lacks(Tail(s), S) /\ m = Head(s) /\ m \in S
<1>1. /\ Head(s) \in T /\ Tail(s) \in Seq(T) /\ <<Head(s)>> \in Seq(T)
      /\ s = <<Head(s)>> \o Tail(s)
  BY HeadTailProperties
<1>2. /\ Lacks(<<Head(s)>>, S) <=> Head(s) \notin S
      /\ IsLast(m, <<Head(s)>>, S) <=> m = Head(s) /\ Head(s) \in S
  BY LastOfOne
<1>3. /\ Lacks(<<Head(s)>> \o Tail(s), S) <=> Lacks(<<Head(s)>>, S) /\ Lacks(Tail(s), S)
      /\ IsLast(m, <<Head(s)>> \o Tail(s), S) <=>
           IsLast(m, Tail(s), S) \/ (Lacks(Tail(s), S) /\ IsLast(m, <<Head(s)>>, S))
  BY <1>1, LastOfConcat
<1> QED
  BY <1>1, <1>2, <1>3

\* The ring drops the oldest entries only.
LEMMA LastOfLatest ==
  ASSUME NEW T, NEW s \in Seq(T), NEW n \in Nat \ {0}
  PROVE  /\ Latest(n, s) \in Seq(T) /\ Len(Latest(n, s)) <= n
         /\ \A i \in DOMAIN Latest(n, s) : \E j \in DOMAIN s : Latest(n, s)[i] = s[j]
         /\ \A S, m : IsLast(m, Latest(n, s), S) => IsLast(m, s, S)
<1> DEFINE k == IF Len(s) > n THEN Len(s) - n + 1 ELSE 1
           q == SubSeq(s, k, Len(s))
<1>0. Len(s) \in Nat /\ k \in 1..Len(s) + 1 /\ DOMAIN s = 1..Len(s)
  BY LenProperties
<1>1. \A i \in k..Len(s) : s[i] \in T
  BY <1>0, ElementOfSeq
<1>2. /\ q \in Seq(T)
      /\ Len(q) = IF k <= Len(s) THEN Len(s) - k + 1 ELSE 0
      /\ \A i \in 1..Len(s) - k + 1 : q[i] = s[k + i - 1]
  <2> HIDE DEF k
  <2> QED
    BY <1>0, <1>1, SubSeqProperties
<1>3. DOMAIN q = 1..Len(s) - k + 1 /\ Len(q) <= n
  <2>1. DOMAIN q = 1..Len(q)
    <3> HIDE DEF q
    <3> QED
      BY <1>2, LenProperties
  <2>2. Len(q) = Len(s) - k + 1
    <3> HIDE DEF k, q
    <3> QED
      BY <1>0, <1>2
  <2>3. Len(s) - k + 1 <= n
    BY <1>0
  <2> HIDE DEF k, q
  <2> QED
    BY <2>1, <2>2, <2>3
<1>4. Latest(n, s) = q
  BY DEF Latest
<1> HIDE DEF k, q
<1>5. \A i \in DOMAIN q : k + i - 1 \in DOMAIN s /\ q[i] = s[k + i - 1]
  BY <1>0, <1>2, <1>3
<1>6. ASSUME NEW S, NEW m, IsLast(m, q, S) PROVE IsLast(m, s, S)
  <2>1. PICK i \in DOMAIN q : q[i] = m /\ \A j \in DOMAIN q : j > i => q[j] \notin S
    BY <1>6 DEF IsLast
  <2>2. ASSUME NEW j \in DOMAIN s, j > k + i - 1 PROVE s[j] \notin S
    <3>1. j - k + 1 \in DOMAIN q /\ j - k + 1 > i /\ k + (j - k + 1) - 1 = j
      BY <1>0, <1>3, <2>1, <2>2
    <3> QED
      BY <1>5, <2>1, <3>1
  <2> QED
    BY <1>5, <1>6, <2>1, <2>2 DEF IsLast
<1> QED
  BY <1>2, <1>3, <1>4, <1>5, <1>6

-----------------------------------------------------------------------------
(* What was said is kept *)

Messages == Shots \cup Events

\* A message is of a run that was played, those on their way of the one that runs.
Dated ==
  /\ status # "stopped" => run >= 1
  /\ status \in {"launched", "stopped"} => up = <<>>
  /\ \A i \in DOMAIN up : up[i].run = run
  /\ \A i \in DOMAIN events : events[i].run <= run
  /\ status = "launched" => \A i \in DOMAIN events : events[i].run < run

\* The last report on its way is true, or, if there is none, the last in the ring.
PauseSaid ==
  status = "attached" =>
    /\ sent \in Contents
    /\ \A m \in Reports : IsLast(m, up, Reports) => m.data = paused
    /\ Lacks(up, Reports) =>
         \A m \in Reports : IsLast(m, events, Reports) => m.data = paused

KeptInv == TypeOK /\ Dated /\ LastSentIsKept /\ PauseSaid

LEMMA PauseSaidIsReported == KeptInv => PauseIsReported
<1>1. Lacks(<<>>, Reports)
  BY LastOfOne
<1> QED
  BY <1>1 DEF KeptInv, PauseSaid, PauseIsReported

LEMMA InitKept == Init => KeptInv
<1> SUFFICES ASSUME Init PROVE KeptInv
  OBVIOUS
<1>1. TypeOK
  <2>1. /\ up \in Seq(Shots \cup Events) /\ down \in Seq(Commands) /\ events \in Seq(Events)
        /\ Len(events) = 0 /\ DOMAIN elements = {}
    BY DEF Init
  <2>2. /\ run \in 0..MaxRuns /\ changes \in 0..MaxChanges /\ commands \in 0..MaxCommands
        /\ Len(events) <= MAX_EVENTS
    BY <2>1, RuntimeAssumption DEF Init
  <2> QED
    BY <2>1, <2>2, RuntimeAssumption DEF Init, TypeOK, Contents
<1>2. Dated
  BY DEF Init, Dated
<1> QED
  BY <1>1, <1>2 DEF KeptInv, Init, LastSentIsKept, PauseSaid

\* The messages of the run, and what they are not.
LEMMA MessageTyped ==
  ASSUME run \in 1..MaxRuns
  PROVE  /\ \A c \in Contents : Shot(c) \in Shots /\ Shot(c) \in Messages
                                /\ Shot(c).run = run /\ Shot(c) \notin Reports
         /\ \A e \in {"ready", "node_added", "node_removed", "mouse_result", "shutdown"} :
              /\ Event(e, None) \in Events /\ Event(e, None) \notin Shots \cup Reports
              /\ Event(e, None).run = run
         /\ \A p \in BOOLEAN : /\ Event("pause_result", p) \in Events \cap Reports
                               /\ Event("pause_result", p) \notin Shots
                               /\ Event("pause_result", p).run = run
                               /\ Event("pause_result", p).data = p
         /\ \A c \in Contents : /\ Event("controls_result", c) \in Events
                                /\ Event("controls_result", c) \notin Shots \cup Reports
                                /\ Event("controls_result", c).run = run
BY DEF Shot, Event, Shots, Events, Messages, Reports

\* The game appends ms to what it has said: nothing, or the last snapshot, which
\* is of what it sent; and nothing of its pause, unless that is true.
LEMMA SayingKeeps ==
  ASSUME KeptInv, status = "attached", UNCHANGED <<run, status, snapshot, events>>,
         NEW ms \in Seq(Messages), up' = up \o ms,
         \A i \in DOMAIN ms : ms[i].run = run,
         sent' \in Contents,
         IsLast(Shot(sent'), ms, Shots) \/ (Lacks(ms, Shots) /\ sent' = sent),
         \/ Lacks(ms, Reports) /\ paused' = paused
         \/ ~Lacks(ms, Reports) /\ \A m : IsLast(m, ms, Reports) => m.data = paused'
  PROVE  up' \in Seq(Messages) /\ Dated' /\ LastSentIsKept' /\ PauseSaid'
<1> USE DEF KeptInv
<1>1. up \in Seq(Messages)
  BY DEF TypeOK, Messages
<1>2. up' \in Seq(Messages)
  BY <1>1
<1>3. ASSUME NEW S, NEW m
      PROVE  /\ Lacks(up', S) <=> Lacks(up, S) /\ Lacks(ms, S)
             /\ IsLast(m, up', S) <=> IsLast(m, ms, S) \/ (Lacks(ms, S) /\ IsLast(m, up, S))
  BY <1>1, LastOfConcat
<1>4. Dated'
  <2>1. \A i \in DOMAIN up' : up'[i].run = run
    <3>1. /\ DOMAIN up = 1..Len(up) /\ DOMAIN ms = 1..Len(ms)
          /\ DOMAIN up' = 1..Len(up') /\ Len(up) \in Nat /\ Len(ms) \in Nat
      BY <1>1, <1>2, LenProperties
    <3>2. /\ Len(up') = Len(up) + Len(ms)
          /\ \A i \in 1..Len(up) + Len(ms) :
               up'[i] = IF i <= Len(up) THEN up[i] ELSE ms[i - Len(up)]
      BY <1>1, ConcatProperties
    <3>3. ASSUME NEW i \in DOMAIN up' PROVE up'[i].run = run
      <4>1. CASE i <= Len(up)
        BY <3>1, <3>2, <4>1 DEF Dated
      <4>2. CASE i > Len(up)
        <5>1. i - Len(up) \in DOMAIN ms /\ up'[i] = ms[i - Len(up)]
          BY <3>1, <3>2, <4>2
        <5> QED
          BY <5>1
      <4> QED
        BY <3>1, <4>1, <4>2
    <3> QED
      BY <3>3
  <2> QED
    BY <2>1 DEF Dated
<1>5. LastSentIsKept'
  <2>1. CASE IsLast(Shot(sent'), ms, Shots)
    <3>1. IsLast(Shot(sent'), up', Shots)
      BY <1>3, <2>1
    <3> QED
      BY <3>1 DEF LastSentIsKept, Shot, Shots
  <2>2. CASE Lacks(ms, Shots) /\ sent' = sent
    <3>1. IsLast(Shot(sent), up, Shots) => IsLast(Shot(sent), up', Shots)
      BY <1>3, <2>2
    <3>2. Lacks(up, Shots) => Lacks(up', Shots)
      BY <1>3, <2>2
    <3> QED
      BY <2>2, <3>1, <3>2 DEF LastSentIsKept, Shot, Shots
  <2> QED
    BY <2>1, <2>2
<1>6. PauseSaid'
  <2>0. Reports' = Reports
    BY DEF Reports
  <2>1. CASE Lacks(ms, Reports) /\ paused' = paused
    <3>1. \A m \in Reports : IsLast(m, up', Reports) => IsLast(m, up, Reports)
      <4>1. ASSUME NEW m \in Reports, IsLast(m, up', Reports) PROVE IsLast(m, up, Reports)
        <5>1. ~IsLast(m, ms, Reports)
          BY <2>1 DEF IsLast, Lacks
        <5> QED
          BY <1>3, <4>1, <5>1
      <4> QED
        BY <4>1
    <3>2. Lacks(up', Reports) => Lacks(up, Reports)
      BY <1>3
    <3> QED
      BY <2>0, <2>1, <3>1, <3>2 DEF PauseSaid
  <2>2. CASE ~Lacks(ms, Reports) /\ \A m : IsLast(m, ms, Reports) => m.data = paused'
    <3>1. ~Lacks(up', Reports)
      BY <1>3, <2>2
    <3>2. \A m \in Reports : IsLast(m, up', Reports) => m.data = paused'
      BY <1>3, <2>2
    <3> QED
      BY <2>0, <3>1, <3>2 DEF PauseSaid
  <2> QED
    BY <2>1, <2>2
<1> QED
  BY <1>2, <1>4, <1>5, <1>6

\* What the types say of the variables that a step leaves alone, in groups.
GameTyped ==
  /\ run \in 0..MaxRuns
  /\ status \in {"stopped", "launched", "attached", "exiting"}
  /\ node \in Contents /\ sent \in Contents \cup {None} /\ paused \in BOOLEAN
  /\ held \in SUBSET Contents /\ changes \in 0..MaxChanges
LinkTyped == up \in Seq(Messages) /\ down \in Seq(Commands)
EditorTyped ==
  /\ callbacks \in BOOLEAN /\ active \in BOOLEAN /\ snapshot \in Shots \cup {None}
  /\ events \in Seq(Events) /\ Len(events) <= MAX_EVENTS
WaitTyped ==
  /\ wait \in {"idle", "asking", "sleeping", "matched", "timed_out", "failed", "rejected"}
  /\ late \in BOOLEAN
ToolsTyped ==
  /\ asked \in BOOLEAN \cup {None} /\ commands \in 0..MaxCommands
  /\ DOMAIN elements \subseteq 1..EventsRead
  /\ \A i \in DOMAIN elements : elements[i] \in Events /\ elements[i].event = "controls_result"

LEMMA TypeOKInParts ==
  /\ TypeOK => GameTyped /\ LinkTyped /\ EditorTyped /\ WaitTyped /\ ToolsTyped
  /\ (GameTyped /\ LinkTyped /\ EditorTyped /\ WaitTyped /\ ToolsTyped)' => TypeOK'
BY DEF TypeOK, GameTyped, LinkTyped, EditorTyped, WaitTyped, ToolsTyped, Messages

LEMMA PartsUnchanged ==
  /\ GameTyped /\ UNCHANGED gameVars => GameTyped'
  /\ EditorTyped /\ UNCHANGED editorVars => EditorTyped'
  /\ WaitTyped /\ UNCHANGED waitVars => WaitTyped'
  /\ ToolsTyped /\ UNCHANGED toolVars => ToolsTyped'
BY DEF GameTyped, EditorTyped, WaitTyped, ToolsTyped, gameVars, editorVars, waitVars, toolVars

LEMMA EndKept ==
  ASSUME KeptInv, PlayScene \/ StopScene \/ SessionEnds
  PROVE  KeptInv'
<1>0. GameTyped /\ EditorTyped /\ WaitTyped /\ ToolsTyped /\ MaxRuns \in Nat
  BY TypeOKInParts, RuntimeAssumption DEF KeptInv
<1>1. /\ up' = <<>> /\ down' = <<>> /\ active' = FALSE /\ UNCHANGED <<callbacks, events, waitVars>>
      /\ snapshot' \in {snapshot, None}
      /\ UNCHANGED <<elements, commands>> /\ asked' \in {asked, None}
  BY DEF PlayScene, StopScene, SessionEnds, EndSession, toolVars
<1>2. LinkTyped' /\ EditorTyped' /\ WaitTyped' /\ ToolsTyped'
  <2>1. LinkTyped'
    BY <1>1 DEF LinkTyped
  <2>2. EditorTyped'
    BY <1>0, <1>1 DEF EditorTyped
  <2>3. WaitTyped' /\ ToolsTyped'
    BY <1>0, <1>1 DEF WaitTyped, ToolsTyped, waitVars
  <2> QED
    BY <2>1, <2>2, <2>3
<1>3. GameTyped' /\ status' \in {"launched", "stopped"}
  <2>1. CASE PlayScene
    <3>1. run' = run + 1 /\ run < MaxRuns /\ run \in 0..MaxRuns
      BY <1>0, <2>1 DEF GameTyped, PlayScene
    <3>2. run' \in 0..MaxRuns
      BY <1>0, <3>1
    <3>3. /\ node' \in Contents /\ sent' \in Contents \cup {None} /\ paused' \in BOOLEAN
          /\ held' \in SUBSET Contents /\ changes' = changes /\ status' = "launched"
      BY <2>1 DEF PlayScene, Contents
    <3> QED
      BY <1>0, <3>2, <3>3 DEF GameTyped
  <2>2. CASE StopScene \/ SessionEnds
    BY <1>0, <2>2 DEF GameTyped, StopScene, SessionEnds
  <2> QED
    BY <2>1, <2>2
<1>4. Dated'
  <2>1. /\ \A i \in DOMAIN events : events[i] \in Events /\ events[i].run \in Nat
        /\ \A i \in DOMAIN events : events[i].run <= run
    <3>1. \A i \in DOMAIN events : events[i] \in Events
      BY <1>0, ElementOfSeq, LenProperties DEF EditorTyped
    <3>2. \A m \in Events : m.run \in Nat
      BY DEF Events
    <3> QED
      BY <3>1, <3>2 DEF KeptInv, Dated
  <2>2. DOMAIN up' = {}
    BY <1>1
  <2>3. run \in Nat
    BY <1>0 DEF GameTyped
  <2>4. CASE PlayScene
    <3>1. run' = run + 1 /\ status' = "launched" /\ events' = events /\ up' = <<>>
      BY <1>1, <2>4 DEF PlayScene
    <3>2. \A i \in DOMAIN events : events[i].run < run + 1 /\ events[i].run <= run + 1
      BY <2>1, <2>3
    <3> QED
      BY <2>2, <2>3, <3>1, <3>2 DEF Dated
  <2>5. CASE StopScene \/ SessionEnds
    <3>1. run' = run /\ status' = "stopped" /\ events' = events /\ up' = <<>>
      BY <1>1, <2>5 DEF StopScene, SessionEnds
    <3> QED
      BY <2>1, <2>2, <3>1 DEF Dated
  <2> QED
    BY <2>4, <2>5
<1> QED
  BY <1>2, <1>3, <1>4, TypeOKInParts DEF KeptInv, LastSentIsKept, PauseSaid

LEMMA AttachKept ==
  ASSUME KeptInv, NEW c \in Contents, Attach(c)
  PROVE  KeptInv'
<1>0. GameTyped /\ LinkTyped /\ EditorTyped /\ WaitTyped /\ ToolsTyped /\ MaxRuns \in Nat
  BY TypeOKInParts, RuntimeAssumption DEF KeptInv
<1>1. run \in 1..MaxRuns /\ run' = run /\ status' = "attached"
  BY <1>0 DEF GameTyped, KeptInv, Dated, Attach
<1>2. /\ Shot(c) \in Shots /\ Shot(c) \in Messages /\ Shot(c) \notin Reports /\ Shot(c).run = run
      /\ Event("ready", None) \in Messages /\ Event("ready", None) \notin Shots \cup Reports
      /\ Event("ready", None).run = run
  BY <1>1, MessageTyped DEF Messages
<1>3. /\ up' = Append(<<Event("ready", None)>>, Shot(c))
      /\ <<Event("ready", None)>> \in Seq(Messages)
  BY <1>2 DEF Attach
<1>4. IsLast(Shot(c), up', Shots) /\ Lacks(up', Reports)
  <2> DEFINE x == Shot(c)
             first == <<Event("ready", None)>>
  <2>1. /\ x \in Messages /\ x \in Shots /\ x \notin Reports
        /\ first \in Seq(Messages) /\ up' = Append(first, x)
    BY <1>2, <1>3
  <2>2. Lacks(first, Reports)
    BY <1>2, LastOfOne
  <2> HIDE DEF x, first
  <2>3. IsLast(x, Append(first, x), Shots)
    BY <2>1, LastOfAppend
  <2>4. Lacks(Append(first, x), Reports)
    BY <2>1, <2>2, LastOfAppend
  <2> QED
    BY <2>1, <2>3, <2>4 DEF x
<1>5. TypeOK'
  <2>1. GameTyped' /\ LinkTyped' /\ EditorTyped'
    BY <1>0, <1>2, <1>3, RuntimeAssumption
    DEF Attach, GameTyped, LinkTyped, EditorTyped
  <2>2. WaitTyped' /\ ToolsTyped'
    BY <1>0, PartsUnchanged DEF Attach
  <2> QED
    BY <2>1, <2>2, TypeOKInParts
<1>6. Dated'
  <2>1. DOMAIN up' = 1..2 /\ up'[1] = Event("ready", None) /\ up'[2] = Shot(c)
    BY DEF Attach
  <2>2. \A i \in DOMAIN up' : up'[i].run = run
    BY <1>2, <2>1
  <2> QED
    BY <1>1, <2>2 DEF KeptInv, Dated, Attach
<1>7. LastSentIsKept'
  BY <1>1, <1>4 DEF LastSentIsKept, Attach, Shot, Shots
<1>8. PauseSaid'
  <2>1. Reports' = Reports
    BY <1>1 DEF Reports
  <2>2. \A m \in Reports : ~IsLast(m, up', Reports)
    BY <1>4 DEF IsLast, Lacks
  <2>3. \A m \in Reports : ~IsLast(m, events, Reports)
    <3>1. \A i \in DOMAIN events : events[i].run < run /\ run \in Int
      BY <1>1 DEF KeptInv, Dated, Attach
    <3>2. \A i \in DOMAIN events : events[i].run # run
      BY <3>1, <1>0, ElementOfSeq, LenProperties DEF EditorTyped
    <3> QED
      BY <3>2 DEF IsLast, Reports
  <2> QED
    BY <2>1, <2>2, <2>3 DEF PauseSaid, Attach
<1> QED
  BY <1>5, <1>6, <1>7, <1>8 DEF KeptInv

\* A step of others than the game, which touches neither the link to the editor
\* nor the last message of the ring.
LEMMA AsideKept ==
  ASSUME KeptInv, UNCHANGED <<run, status, sent, paused, up, snapshot>>,
         events' \in {events, <<>>}
  PROVE  Dated' /\ LastSentIsKept' /\ PauseSaid'
<1>1. Reports' = Reports
  BY DEF Reports
<1>2. DOMAIN <<>> = {} /\ \A m : ~IsLast(m, <<>>, Reports)
  <2>1. DOMAIN <<>> = {}
    OBVIOUS
  <2> QED
    BY <2>1 DEF IsLast
<1>3. Dated'
  <2>1. CASE events' = events
    BY <2>1 DEF KeptInv, Dated
  <2>2. CASE events' = <<>>
    <3>1. DOMAIN events' = {}
      BY <1>2, <2>2
    <3> QED
      BY <3>1 DEF KeptInv, Dated
  <2> QED
    BY <2>1, <2>2
<1>4. LastSentIsKept'
  BY DEF KeptInv, LastSentIsKept, Shot, Shots
<1>5. PauseSaid'
  <2>1. CASE events' = events
    BY <1>1, <2>1 DEF KeptInv, PauseSaid
  <2>2. CASE events' = <<>>
    BY <1>1, <1>2, <2>2 DEF KeptInv, PauseSaid
  <2> QED
    BY <2>1, <2>2
<1> QED
  BY <1>3, <1>4, <1>5

LEMMA SetPropertyKept ==
  ASSUME KeptInv, NEW v \in Values, SetProperty(v)
  PROVE  KeptInv'
<1>0. GameTyped /\ LinkTyped /\ EditorTyped /\ WaitTyped /\ ToolsTyped
  BY TypeOKInParts DEF KeptInv
<1>1. GameTyped'
  BY <1>0, RuntimeAssumption DEF SetProperty, Becomes, GameTyped, Contents
<1>2. LinkTyped' /\ EditorTyped' /\ WaitTyped' /\ ToolsTyped'
  BY <1>0, PartsUnchanged DEF SetProperty, LinkTyped
<1>3. Dated' /\ LastSentIsKept' /\ PauseSaid'
  BY AsideKept DEF SetProperty, editorVars
<1> QED
  BY <1>1, <1>2, <1>3, TypeOKInParts DEF KeptInv

LEMMA ExitKept ==
  ASSUME KeptInv, Exit
  PROVE  KeptInv'
<1>0. GameTyped /\ LinkTyped /\ EditorTyped /\ WaitTyped /\ ToolsTyped
  BY TypeOKInParts DEF KeptInv
<1>1. status' = "exiting" /\ run' = run /\ run \in 1..MaxRuns /\ events' = events
  BY <1>0 DEF GameTyped, KeptInv, Dated, Exit, editorVars
<1>2. /\ Event("shutdown", None) \in Messages
      /\ Event("shutdown", None).run = run
  BY <1>1, MessageTyped DEF Messages
<1>3. up' \in Seq(Messages) /\ \A i \in DOMAIN up' : up'[i].run = run
  <2>1. CASE up' = up
    BY <1>0, <2>1 DEF LinkTyped, KeptInv, Dated
  <2>2. CASE up' = Append(up, Event("shutdown", None))
    <3>1. /\ DOMAIN up = 1..Len(up) /\ DOMAIN up' = 1..Len(up) + 1 /\ Len(up) \in Nat
          /\ \A i \in 1..Len(up) : up'[i] = up[i]
          /\ up'[Len(up) + 1] = Event("shutdown", None)
          /\ up' \in Seq(Messages)
      BY <1>0, <1>2, <2>2, AppendProperties, LenProperties DEF LinkTyped
    <3>2. \A i \in DOMAIN up' : i \in DOMAIN up \/ i = Len(up) + 1
      BY <3>1
    <3> QED
      BY <1>2, <3>1, <3>2 DEF KeptInv, Dated
  <2> QED
    BY <2>1, <2>2 DEF Exit
<1>4. GameTyped' /\ LinkTyped' /\ EditorTyped' /\ WaitTyped' /\ ToolsTyped'
  BY <1>0, <1>3, PartsUnchanged DEF Exit, GameTyped, LinkTyped
<1>5. Dated'
  BY <1>1, <1>3 DEF KeptInv, Dated
<1> QED
  BY <1>1, <1>4, <1>5, TypeOKInParts DEF KeptInv, LastSentIsKept, PauseSaid

LEMMA AppendTwice ==
  ASSUME NEW T, NEW s \in Seq(T), NEW a \in Seq(T), NEW b \in Seq(T)
  PROVE  /\ s \o a \o b = s \o (a \o b)
         /\ a \o b \in Seq(T)
BY ConcatAssociative, ConcatProperties

\* Messages of the run, one and several.
LEMMA OneSaid ==
  ASSUME NEW x \in Messages, x.run = run
  PROVE  <<x>> \in Seq(Messages) /\ \A i \in DOMAIN <<x>> : <<x>>[i].run = run
<1>1. DOMAIN <<x>> = {1} /\ <<x>>[1] = x
  OBVIOUS
<1> QED
  BY <1>1

LEMMA ConcatOfRun ==
  ASSUME NEW a \in Seq(Messages), NEW b \in Seq(Messages),
         \A i \in DOMAIN a : a[i].run = run, \A i \in DOMAIN b : b[i].run = run
  PROVE  a \o b \in Seq(Messages) /\ \A i \in DOMAIN (a \o b) : (a \o b)[i].run = run
<1> DEFINE q == a \o b
<1>1. /\ q \in Seq(Messages) /\ Len(q) = Len(a) + Len(b)
      /\ \A i \in 1..Len(a) + Len(b) : q[i] = IF i <= Len(a) THEN a[i] ELSE b[i - Len(a)]
  BY ConcatProperties
<1> HIDE DEF q
<1>2. /\ DOMAIN a = 1..Len(a) /\ DOMAIN b = 1..Len(b) /\ DOMAIN q = 1..Len(q)
      /\ Len(a) \in Nat /\ Len(b) \in Nat
  BY <1>1, LenProperties
<1>3. ASSUME NEW i \in DOMAIN q PROVE q[i].run = run
  <2>1. CASE i <= Len(a)
    BY <1>1, <1>2, <2>1
  <2>2. CASE i > Len(a)
    <3>1. i - Len(a) \in DOMAIN b /\ q[i] = b[i - Len(a)]
      BY <1>1, <1>2, <2>2
    <3> QED
      BY <3>1
  <2> QED
    BY <1>1, <1>2, <2>1, <2>2
<1> QED
  BY <1>1, <1>3 DEF q

\* What EmitIfChanged adds for the content c: the last snapshot is of it.
LEMMA Emitted ==
  ASSUME run \in 1..MaxRuns, NEW c \in Contents
  PROVE  LET new == IF c = sent THEN <<>> ELSE <<Shot(c)>> IN
           /\ new \in Seq(Messages) /\ \A i \in DOMAIN new : new[i].run = run
           /\ IsLast(Shot(c), new, Shots) \/ (Lacks(new, Shots) /\ c = sent)
           /\ Lacks(new, Reports)
<1>1. CASE c = sent
  <2>1. <<>> \in Seq(Messages) /\ \A i \in DOMAIN <<>> : <<>>[i].run = run
    OBVIOUS
  <2>2. Lacks(<<>>, Shots) /\ Lacks(<<>>, Reports)
    BY LastOfOne
  <2> QED
    BY <1>1, <2>1, <2>2
<1>2. CASE c # sent
  <2> DEFINE x == Shot(c)
  <2>1. x \in Messages /\ x \in Shots /\ x \notin Reports /\ x.run = run
    BY MessageTyped
  <2> HIDE DEF x
  <2>2. <<x>> \in Seq(Messages) /\ \A i \in DOMAIN <<x>> : <<x>>[i].run = run
    BY <2>1, OneSaid
  <2>3. IsLast(x, <<x>>, Shots)
    BY <2>1, LastOfOne
  <2>4. Lacks(<<x>>, Reports)
    BY <2>1, LastOfOne
  <2> QED
    BY <1>2, <2>2, <2>3, <2>4 DEF x
<1> QED
  BY <1>1, <1>2

\* An event that reports neither the node nor the pause.
LEMMA EventSaid ==
  ASSUME run \in 1..MaxRuns,
         NEW e \in {"ready", "node_added", "node_removed", "mouse_result", "shutdown"}
  PROVE  LET ms == <<Event(e, None)>> IN
           /\ ms \in Seq(Messages) /\ \A i \in DOMAIN ms : ms[i].run = run
           /\ Lacks(ms, Shots) /\ Lacks(ms, Reports)
<1> DEFINE x == Event(e, None)
<1>1. x \in Messages /\ x \notin Shots /\ x \notin Reports /\ x.run = run
  BY MessageTyped DEF Messages
<1> HIDE DEF x
<1>2. <<x>> \in Seq(Messages) /\ \A i \in DOMAIN <<x>> : <<x>>[i].run = run
  BY <1>1, OneSaid
<1>3. Lacks(<<x>>, Shots) /\ Lacks(<<x>>, Reports)
  BY <1>1, LastOfOne
<1> QED
  BY <1>2, <1>3 DEF x

\* Two parts that say nothing of the pause, the last snapshot in one of them.
LEMMA BothSaid ==
  ASSUME NEW a \in Seq(Messages), NEW b \in Seq(Messages), NEW x,
         \A i \in DOMAIN a : a[i].run = run, \A i \in DOMAIN b : b[i].run = run,
         Lacks(a, Reports), Lacks(b, Reports),
         \/ IsLast(x, b, Shots)
         \/ Lacks(b, Shots) /\ IsLast(x, a, Shots)
         \/ Lacks(b, Shots) /\ Lacks(a, Shots) /\ x = Shot(sent)
  PROVE  /\ a \o b \in Seq(Messages) /\ \A i \in DOMAIN (a \o b) : (a \o b)[i].run = run
         /\ Lacks(a \o b, Reports)
         /\ IsLast(x, a \o b, Shots) \/ (Lacks(a \o b, Shots) /\ x = Shot(sent))
<1>1. /\ a \o b \in Seq(Messages)
      /\ \A i \in DOMAIN (a \o b) : (a \o b)[i].run = run
  BY ConcatOfRun
<1>2. Lacks(a \o b, Reports)
  BY LastOfConcat
<1>3. /\ Lacks(a \o b, Shots) <=> Lacks(a, Shots) /\ Lacks(b, Shots)
      /\ IsLast(x, a \o b, Shots) <=> IsLast(x, b, Shots) \/ (Lacks(b, Shots) /\ IsLast(x, a, Shots))
  BY LastOfConcat
<1> QED
  BY <1>1, <1>2, <1>3

\* A game that runs: the facts that every step of it starts from.
LEMMA Running ==
  ASSUME KeptInv, status = "attached"
  PROVE  /\ GameTyped /\ LinkTyped /\ EditorTyped /\ WaitTyped /\ ToolsTyped
         /\ run \in 1..MaxRuns /\ sent \in Contents
         /\ \A c : Shot(c).data = c
BY TypeOKInParts DEF KeptInv, GameTyped, Dated, PauseSaid, Shot

\* The node comes or goes: the event, and the snapshot after it.
LEMMA NodeEventKept ==
  ASSUME KeptInv, status = "attached", NEW c \in Contents, Becomes(c),
         NEW e \in {"node_added", "node_removed"}, EmitIfChanged(<<Event(e, None)>>, c),
         UNCHANGED <<run, status, paused, down, editorVars, waitVars, toolVars>>
  PROVE  KeptInv'
<1>0. /\ GameTyped /\ LinkTyped /\ EditorTyped /\ WaitTyped /\ ToolsTyped
      /\ run \in 1..MaxRuns /\ \A d : Shot(d).data = d
  BY Running
<1> DEFINE ms == <<Event(e, None)>>
           new == IF c = sent THEN <<>> ELSE <<Shot(c)>>
<1>1. /\ ms \in Seq(Messages) /\ \A i \in DOMAIN ms : ms[i].run = run
      /\ Lacks(ms, Shots) /\ Lacks(ms, Reports)
  BY <1>0, EventSaid
<1>2. /\ new \in Seq(Messages) /\ \A i \in DOMAIN new : new[i].run = run
      /\ IsLast(Shot(c), new, Shots) \/ (Lacks(new, Shots) /\ c = sent)
      /\ Lacks(new, Reports)
  BY <1>0, Emitted
<1>3. up' = up \o ms \o new /\ sent' = c
  BY DEF EmitIfChanged
<1> HIDE DEF ms, new
<1>4. /\ ms \o new \in Seq(Messages) /\ \A i \in DOMAIN (ms \o new) : (ms \o new)[i].run = run
      /\ Lacks(ms \o new, Reports)
      /\ IsLast(Shot(c), ms \o new, Shots) \/ (Lacks(ms \o new, Shots) /\ c = sent)
  <2>1. \/ IsLast(Shot(c), new, Shots)
        \/ Lacks(new, Shots) /\ Lacks(ms, Shots) /\ Shot(c) = Shot(sent)
    BY <1>1, <1>2
  <2>2. Shot(c) = Shot(sent) => c = sent
    BY <1>0
  <2> QED
    BY <1>1, <1>2, <2>1, <2>2, BothSaid
<1>5. up' = up \o (ms \o new)
  BY <1>0, <1>1, <1>2, <1>3, AppendTwice DEF LinkTyped
<1>6. up' \in Seq(Messages) /\ Dated' /\ LastSentIsKept' /\ PauseSaid'
  BY <1>3, <1>4, <1>5, SayingKeeps DEF editorVars
<1>7. GameTyped'
  BY <1>0, <1>3, RuntimeAssumption DEF GameTyped, Becomes
<1>8. LinkTyped' /\ EditorTyped' /\ WaitTyped' /\ ToolsTyped'
  BY <1>0, <1>6, PartsUnchanged DEF LinkTyped
<1> QED
  BY <1>6, <1>7, <1>8, TypeOKInParts DEF KeptInv

LEMMA PollKept ==
  ASSUME KeptInv, Poll
  PROVE  KeptInv'
<1>0. /\ GameTyped /\ LinkTyped /\ EditorTyped /\ WaitTyped /\ ToolsTyped
      /\ run \in 1..MaxRuns /\ node \in Contents
  BY Running DEF Poll, GameTyped
<1> DEFINE new == IF node = sent THEN <<>> ELSE <<Shot(node)>>
<1>1. /\ new \in Seq(Messages) /\ \A i \in DOMAIN new : new[i].run = run
      /\ IsLast(Shot(node), new, Shots) \/ (Lacks(new, Shots) /\ node = sent)
      /\ Lacks(new, Reports)
  BY <1>0, Emitted
<1>2. up' = up \o <<>> \o new /\ sent' = node
  BY DEF Poll, EmitIfChanged
<1> HIDE DEF new
<1>3. up' = up \o new
  BY <1>0, <1>2, ConcatEmptySeq DEF LinkTyped
<1>4. up' \in Seq(Messages) /\ Dated' /\ LastSentIsKept' /\ PauseSaid'
  BY <1>0, <1>1, <1>2, <1>3, SayingKeeps DEF Poll, editorVars
<1>5. GameTyped'
  BY <1>0, <1>2 DEF GameTyped, Poll
<1>6. LinkTyped' /\ EditorTyped' /\ WaitTyped' /\ ToolsTyped'
  BY <1>0, <1>4, PartsUnchanged DEF LinkTyped, Poll
<1> QED
  BY <1>4, <1>5, <1>6, TypeOKInParts DEF KeptInv

\* The game answers a command of the editor.
LEMMA CommandKept ==
  ASSUME KeptInv, OnEditorCommand
  PROVE  KeptInv'
<1>0. /\ GameTyped /\ LinkTyped /\ EditorTyped /\ WaitTyped /\ ToolsTyped
      /\ run \in 1..MaxRuns /\ node \in Contents /\ sent \in Contents
      /\ status = "attached" /\ UNCHANGED <<run, status, snapshot, events>>
  BY Running DEF OnEditorCommand, GameTyped, editorVars
<1>1. /\ down' \in Seq(Commands)
      /\ Head(down).command = "pause" => Head(down).data \in BOOLEAN
  <2>1. Head(down) \in Commands /\ Tail(down) \in Seq(Commands)
    BY <1>0, HeadTailProperties DEF OnEditorCommand, LinkTyped
  <2> QED
    BY <2>1 DEF Commands, OnEditorCommand
<1>2. ASSUME NEW p \in BOOLEAN, PauseCommand(p)
      PROVE  /\ up' \in Seq(Messages) /\ Dated' /\ LastSentIsKept' /\ PauseSaid'
             /\ sent' \in Contents /\ paused' \in BOOLEAN
  <2> DEFINE x == Event("pause_result", p)
  <2>1. x \in Messages /\ x \in Reports /\ x \notin Shots /\ x.run = run /\ x.data = p
    BY <1>0, MessageTyped DEF Messages
  <2>2. up' = Append(up, x) /\ paused' = p /\ sent' = sent
    BY <1>2 DEF PauseCommand
  <2> HIDE DEF x
  <2>3. <<x>> \in Seq(Messages) /\ \A i \in DOMAIN <<x>> : <<x>>[i].run = run
    BY <2>1, OneSaid
  <2>4. /\ Lacks(<<x>>, Shots) /\ ~Lacks(<<x>>, Reports)
        /\ \A m : IsLast(m, <<x>>, Reports) => m.data = paused'
    BY <2>1, <2>2, LastOfOne
  <2>5. up' = up \o <<x>>
    BY <1>0, <2>1, <2>2, AppendIsConcat DEF LinkTyped
  <2> QED
    BY <1>0, <2>2, <2>3, <2>4, <2>5, SayingKeeps
<1>3. ASSUME MouseCommand
      PROVE  /\ up' \in Seq(Messages) /\ Dated' /\ LastSentIsKept' /\ PauseSaid'
             /\ sent' \in Contents /\ paused' \in BOOLEAN
  <2> DEFINE ms == <<Event("mouse_result", None)>>
             new == IF node = sent THEN <<>> ELSE <<Shot(node)>>
  <2>1. /\ ms \in Seq(Messages) /\ \A i \in DOMAIN ms : ms[i].run = run
        /\ Lacks(ms, Shots) /\ Lacks(ms, Reports)
    BY <1>0, EventSaid
  <2>2. /\ new \in Seq(Messages) /\ \A i \in DOMAIN new : new[i].run = run
        /\ IsLast(Shot(node), new, Shots) \/ (Lacks(new, Shots) /\ node = sent)
        /\ Lacks(new, Reports)
    BY <1>0, Emitted
  <2>3. up' = up \o new \o ms /\ sent' = node /\ paused' = paused
    BY <1>3 DEF MouseCommand
  <2> HIDE DEF ms, new
  <2>4. /\ new \o ms \in Seq(Messages) /\ \A i \in DOMAIN (new \o ms) : (new \o ms)[i].run = run
        /\ Lacks(new \o ms, Reports)
        /\ IsLast(Shot(node), new \o ms, Shots) \/ (Lacks(new \o ms, Shots) /\ node = sent)
    <3>1. \/ Lacks(ms, Shots) /\ IsLast(Shot(node), new, Shots)
          \/ Lacks(ms, Shots) /\ Lacks(new, Shots) /\ Shot(node) = Shot(sent)
      BY <2>1, <2>2
    <3>2. Shot(node) = Shot(sent) => node = sent
      BY DEF Shot
    <3> QED
      BY <2>1, <2>2, <3>1, <3>2, BothSaid
  <2>5. up' = up \o (new \o ms)
    BY <1>0, <2>1, <2>2, <2>3, AppendTwice DEF LinkTyped
  <2> QED
    BY <1>0, <2>3, <2>4, <2>5, SayingKeeps DEF GameTyped
<1>4. ASSUME EnumerateCommand
      PROVE  /\ up' \in Seq(Messages) /\ Dated' /\ LastSentIsKept' /\ PauseSaid'
             /\ sent' \in Contents /\ paused' \in BOOLEAN
  <2> DEFINE x == Event("controls_result", node)
  <2>1. x \in Messages /\ x \notin Reports /\ x \notin Shots /\ x.run = run
    BY <1>0, MessageTyped DEF Messages
  <2>2. up' = Append(up, x) /\ paused' = paused /\ sent' = sent
    BY <1>4 DEF EnumerateCommand
  <2> HIDE DEF x
  <2>3. <<x>> \in Seq(Messages) /\ \A i \in DOMAIN <<x>> : <<x>>[i].run = run
    BY <2>1, OneSaid
  <2>4. Lacks(<<x>>, Shots) /\ Lacks(<<x>>, Reports)
    BY <2>1, LastOfOne
  <2>5. up' = up \o <<x>>
    BY <1>0, <2>1, <2>2, AppendIsConcat DEF LinkTyped
  <2> QED
    BY <1>0, <2>2, <2>3, <2>4, <2>5, SayingKeeps DEF GameTyped
<1>5. /\ up' \in Seq(Messages) /\ Dated' /\ LastSentIsKept' /\ PauseSaid'
      /\ sent' \in Contents /\ paused' \in BOOLEAN
  BY <1>1, <1>2, <1>3, <1>4 DEF OnEditorCommand
<1>6. GameTyped'
  BY <1>0, <1>5 DEF GameTyped, OnEditorCommand
<1>7. LinkTyped' /\ EditorTyped' /\ WaitTyped' /\ ToolsTyped'
  BY <1>0, <1>1, <1>5, PartsUnchanged DEF LinkTyped, OnEditorCommand
<1> QED
  BY <1>5, <1>6, <1>7, TypeOKInParts DEF KeptInv

\* The editor records a message: a snapshot in the cache, an event in the ring,
\* which drops its oldest entries only.
LEMMA CaptureKept ==
  ASSUME KeptInv, Capture
  PROVE  KeptInv'
<1> DEFINE h == Head(up)
           t == Tail(up)
<1>0. /\ GameTyped /\ LinkTyped /\ EditorTyped /\ WaitTyped /\ ToolsTyped
      /\ up \in Seq(Messages) /\ events \in Seq(Events) /\ up # <<>>
      /\ MAX_EVENTS \in Nat \ {0}
  BY TypeOKInParts, RuntimeAssumption DEF KeptInv, LinkTyped, EditorTyped, Capture
<1>1. /\ UNCHANGED <<run, status, node, sent, paused, held, changes, down, callbacks, active,
                    waitVars, toolVars>>
      /\ up' = t
  BY DEF Capture, gameVars
<1>2. /\ h \in Messages /\ t \in Seq(Messages) /\ Len(t) = Len(up) - 1
      /\ \A i \in 1..Len(t) : t[i] = up[i + 1]
  BY <1>0, HeadTailProperties
<1>3. /\ DOMAIN up = 1..Len(up) /\ DOMAIN t = 1..Len(t) /\ Len(up) \in Nat /\ Len(t) \in Nat
      /\ h = up[1]
  BY <1>0, <1>2, LenProperties
<1>4. \A S, m : /\ Lacks(up, S) <=> Lacks(t, S) /\ h \notin S
                /\ IsLast(m, up, S) <=> IsLast(m, t, S) \/ (Lacks(t, S) /\ m = h /\ m \in S)
  BY <1>0, LastOfTail
<1> HIDE DEF h, t
<1>5. /\ snapshot' \in Shots \cup {None}
      /\ h \in Shots => snapshot' = h
      /\ h \notin Shots => snapshot' = snapshot
      /\ events' \in Seq(Events) /\ Len(events') <= MAX_EVENTS
      /\ \A i \in DOMAIN events' : events'[i].run <= run
      /\ \A m : IsLast(m, events', Reports) =>
                  (h \in Reports /\ m = h) \/ (h \notin Reports /\ IsLast(m, events, Reports))
  <2>1. CASE h.event = "runtime_snapshot"
    <3>1. snapshot' = h /\ events' = events
      BY <2>1 DEF Capture, RecordEvent, h
    <3>2. h \in Shots
      BY <1>2, <2>1 DEF Messages, Events
    <3>3. h \notin Reports
      BY <2>1 DEF Reports
    <3> QED
      BY <1>0, <3>1, <3>2, <3>3 DEF EditorTyped, KeptInv, Dated
  <2>2. CASE h.event # "runtime_snapshot"
    <3> DEFINE e == Append(events, h)
    <3>1. events' = Latest(MAX_EVENTS, e) /\ snapshot' = snapshot
      BY <2>2 DEF Capture, RecordEvent, h
    <3>2. h \in Events /\ h \notin Shots
      BY <1>2, <2>2 DEF Messages, Shots
    <3>3. /\ e \in Seq(Events) /\ DOMAIN e = 1..Len(events) + 1 /\ e[Len(events) + 1] = h
          /\ \A i \in 1..Len(events) : e[i] = events[i]
          /\ DOMAIN events = 1..Len(events) /\ Len(events) \in Nat
      BY <1>0, <3>2, AppendProperties, LenProperties
    <3>4. \A m : IsLast(m, e, Reports) <=>
                   (h \in Reports /\ m = h) \/ (h \notin Reports /\ IsLast(m, events, Reports))
      BY <1>0, <3>2, LastOfAppend
    <3> HIDE DEF e
    <3>5. /\ events' \in Seq(Events) /\ Len(events') <= MAX_EVENTS
          /\ \A i \in DOMAIN events' : \E j \in DOMAIN e : events'[i] = e[j]
          /\ \A m : IsLast(m, events', Reports) => IsLast(m, e, Reports)
      BY <1>0, <3>1, <3>3, LastOfLatest
    <3>6. \A j \in DOMAIN e : e[j].run <= run
      <4>1. h.run = run /\ run \in Int
        BY <1>0, <1>3 DEF KeptInv, Dated, GameTyped
      <4>2. ASSUME NEW j \in DOMAIN e PROVE e[j].run <= run
        <5>1. CASE j \in DOMAIN events
          BY <3>3, <5>1 DEF KeptInv, Dated
        <5>2. CASE j = Len(events) + 1
          BY <3>3, <4>1, <5>2
        <5> QED
          BY <3>3, <5>1, <5>2
      <4> QED
        BY <4>2
    <3>7. \A i \in DOMAIN events' : events'[i].run <= run
      BY <3>5, <3>6
    <3>8. snapshot' \in Shots \cup {None}
      BY <1>0, <3>1 DEF EditorTyped
    <3> QED
      BY <3>1, <3>2, <3>4, <3>5, <3>7, <3>8
  <2> QED
    BY <2>1, <2>2
<1>6. TypeOK'
  <2>1. WaitTyped' /\ ToolsTyped' /\ GameTyped'
    BY <1>0, <1>1, PartsUnchanged DEF gameVars
  <2>2. LinkTyped' /\ EditorTyped'
    BY <1>0, <1>1, <1>2, <1>5 DEF LinkTyped, EditorTyped
  <2> QED
    BY <2>1, <2>2, TypeOKInParts
<1>7. Dated'
  <2>1. status \notin {"launched", "stopped"}
    BY <1>0 DEF KeptInv, Dated
  <2>2. ASSUME NEW i \in DOMAIN t PROVE t[i].run = run
    <3>1. i + 1 \in DOMAIN up /\ t[i] = up[i + 1]
      BY <1>2, <1>3, <2>2
    <3> QED
      BY <3>1 DEF KeptInv, Dated
  <2> QED
    BY <1>1, <1>5, <2>1, <2>2 DEF KeptInv, Dated
<1>8. LastSentIsKept'
  <2> SUFFICES ASSUME status' = "attached"
               PROVE  \/ IsLast(Shot(sent), up', Shots)
                      \/ Lacks(up', Shots) /\ snapshot' = Shot(sent)
    BY <1>1 DEF LastSentIsKept, Shot, Shots
  <2>1. CASE IsLast(Shot(sent), up, Shots)
    BY <1>1, <1>4, <1>5, <2>1
  <2>2. CASE Lacks(up, Shots) /\ snapshot = Shot(sent)
    BY <1>1, <1>4, <1>5, <2>2
  <2> QED
    BY <1>1, <2>1, <2>2 DEF KeptInv, LastSentIsKept
<1>9. PauseSaid'
  <2> SUFFICES ASSUME status = "attached"
               PROVE  /\ sent \in Contents
                      /\ \A m \in Reports : IsLast(m, t, Reports) => m.data = paused
                      /\ Lacks(t, Reports) =>
                           \A m \in Reports : IsLast(m, events', Reports) => m.data = paused
    BY <1>1 DEF PauseSaid, Reports
  <2>1. /\ sent \in Contents
        /\ \A m \in Reports : IsLast(m, up, Reports) => m.data = paused
        /\ Lacks(up, Reports) =>
             \A m \in Reports : IsLast(m, events, Reports) => m.data = paused
    BY DEF KeptInv, PauseSaid
  <2>2. \A m \in Reports : IsLast(m, t, Reports) => m.data = paused
    BY <1>4, <2>1
  <2>3. ASSUME Lacks(t, Reports), NEW m \in Reports, IsLast(m, events', Reports)
        PROVE  m.data = paused
    <3>1. CASE h \in Reports
      BY <1>4, <1>5, <2>1, <2>3, <3>1
    <3>2. CASE h \notin Reports
      BY <1>4, <1>5, <2>1, <2>3, <3>2
    <3> QED
      BY <3>1, <3>2
  <2> QED
    BY <2>1, <2>2, <2>3
<1> QED
  BY <1>6, <1>7, <1>8, <1>9 DEF KeptInv

\* The tools, which read the cache and the ring, send commands and clear the ring.
LEMMA ToolsKept ==
  ASSUME KeptInv,
         \/ \E p \in BOOLEAN : PauseScene(p)
         \/ SimulateMouse \/ AnnotatedScreenshot \/ ClearEvents
  PROVE  KeptInv'
<1>0. /\ GameTyped /\ LinkTyped /\ EditorTyped /\ WaitTyped /\ ToolsTyped
      /\ MaxCommands \in Nat /\ MAX_EVENTS \in Nat \ {0}
      /\ EventsRead \in Nat \ {0}
  BY TypeOKInParts, RuntimeAssumption DEF KeptInv
<1>1. /\ UNCHANGED <<gameVars, up, callbacks, active, snapshot, waitVars>>
      /\ events' \in {events, <<>>} /\ commands' \in 0..MaxCommands
  <2>1. commands + 1 \in 0..MaxCommands \/ ~(commands < MaxCommands)
    BY <1>0 DEF ToolsTyped
  <2> QED
    BY <2>1 DEF PauseScene, SimulateMouse, AnnotatedScreenshot, ClearEvents, UseTool, editorVars
<1>2. down' \in Seq(Commands)
  <2>1. /\ \A p \in BOOLEAN : [command |-> "pause", data |-> p] \in Commands
        /\ \A c \in {"simulate_mouse", "enumerate_controls"} :
             [command |-> c, data |-> None] \in Commands
    BY DEF Commands
  <2>2. \A c \in Commands : Append(down, c) \in Seq(Commands)
    BY <1>0 DEF LinkTyped
  <2>3. down' \in {down} \cup {Append(down, c) : c \in Commands}
    BY <2>1 DEF PauseScene, SimulateMouse, AnnotatedScreenshot, ClearEvents, SendCommand
  <2> QED
    BY <1>0, <2>2, <2>3 DEF LinkTyped
<1>3. asked' \in BOOLEAN \cup {None}
  BY <1>0 DEF PauseScene, SimulateMouse, AnnotatedScreenshot, ClearEvents, ToolsTyped
<1>4. /\ DOMAIN elements' \subseteq 1..EventsRead
      /\ \A i \in DOMAIN elements' : elements'[i] \in Events /\ elements'[i].event = "controls_result"
  <2>1. CASE elements' = elements
    BY <1>0, <2>1 DEF ToolsTyped
  <2>2. CASE AnnotatedScreenshot
    <3> DEFINE l == Latest(EventsRead, events)
               D == {i \in DOMAIN l : l[i].event = "controls_result"}
    <3>1. l \in Seq(Events) /\ Len(l) <= EventsRead
      BY <1>0, LastOfLatest DEF EditorTyped
    <3>2. elements' = [i \in D |-> l[i]]
      BY <2>2 DEF AnnotatedScreenshot, Restrict
    <3> HIDE DEF l
    <3>3. /\ DOMAIN l = 1..Len(l) /\ Len(l) \in Nat
          /\ \A i \in DOMAIN l : l[i] \in Events
      BY <3>1, LenProperties, ElementOfSeq
    <3> QED
      BY <1>0, <3>1, <3>2, <3>3
  <2> QED
    BY <2>1, <2>2 DEF PauseScene, SimulateMouse, ClearEvents
<1>5. TypeOK'
  <2>1. GameTyped' /\ WaitTyped'
    BY <1>0, <1>1, PartsUnchanged
  <2>2. LinkTyped' /\ ToolsTyped'
    BY <1>0, <1>1, <1>2, <1>3, <1>4 DEF LinkTyped, ToolsTyped
  <2>3. EditorTyped'
    <3>1. <<>> \in Seq(Events) /\ Len(<<>>) <= MAX_EVENTS
      BY <1>0
    <3> QED
      BY <1>0, <1>1, <3>1 DEF EditorTyped
  <2> QED
    BY <2>1, <2>2, <2>3, TypeOKInParts
<1>6. Dated' /\ LastSentIsKept' /\ PauseSaid'
  BY <1>1, AsideKept DEF gameVars
<1> QED
  BY <1>5, <1>6 DEF KeptInv

LEMMA WaitKept ==
  ASSUME KeptInv, WaitNext \/ UNCHANGED vars
  PROVE  KeptInv'
<1>0. /\ GameTyped /\ LinkTyped /\ EditorTyped /\ WaitTyped /\ ToolsTyped
      /\ MaxCommands \in Nat
  BY TypeOKInParts, RuntimeAssumption DEF KeptInv
<1>1. UNCHANGED <<gameVars, up, down, editorVars, asked, elements>>
  BY DEF WaitNext, StartWait, Observe, ObserveRejected, WakeUp, TimeoutPasses, vars, toolVars
<1>2. WaitTyped'
  BY <1>0
  DEF WaitTyped, WaitNext, StartWait, Observe, ObserveRejected, WakeUp, TimeoutPasses, vars, waitVars
<1>3. commands' \in 0..MaxCommands
  BY <1>0 DEF ToolsTyped, WaitNext, StartWait, UseTool, Observe, ObserveRejected, WakeUp,
              TimeoutPasses, vars, toolVars
<1>4. TypeOK'
  <2>1. GameTyped' /\ EditorTyped'
    BY <1>0, <1>1, PartsUnchanged
  <2>2. LinkTyped' /\ ToolsTyped'
    BY <1>0, <1>1, <1>3 DEF LinkTyped, ToolsTyped
  <2> QED
    BY <1>2, <2>1, <2>2, TypeOKInParts
<1>5. Dated' /\ LastSentIsKept' /\ PauseSaid'
  BY <1>1, AsideKept DEF gameVars, editorVars
<1> QED
  BY <1>4, <1>5 DEF KeptInv

LEMMA NextKept ==
  ASSUME KeptInv, [Next]_vars
  PROVE  KeptInv'
<1>1. ASSUME NEW c \in Contents, Attach(c) PROVE KeptInv'
  BY <1>1, AttachKept
<1>2. ASSUME NEW v \in Values, SetProperty(v) PROVE KeptInv'
  BY <1>2, SetPropertyKept
<1>3. ASSUME NEW v \in Values, NodeAdded(v) PROVE KeptInv'
  <2>1. v \in Contents
    BY DEF Contents
  <2> QED
    BY <1>3, <2>1, NodeEventKept DEF NodeAdded
<1>4. CASE NodeRemoved
  <2>1. Absent \in Contents
    BY DEF Contents
  <2> QED
    BY <1>4, <2>1, NodeEventKept DEF NodeRemoved
<1>5. CASE Poll
  BY <1>5, PollKept
<1>6. CASE OnEditorCommand
  BY <1>6, CommandKept
<1>7. CASE Exit
  BY <1>7, ExitKept
<1>8. CASE PlayScene \/ StopScene \/ SessionEnds
  BY <1>8, EndKept
<1>9. CASE Capture
  BY <1>9, CaptureKept
<1>10. CASE (\E p \in BOOLEAN : PauseScene(p)) \/ SimulateMouse \/ AnnotatedScreenshot \/ ClearEvents
  BY <1>10, ToolsKept
<1>11. CASE WaitNext \/ UNCHANGED vars
  BY <1>11, WaitKept
<1> QED
  BY <1>1, <1>2, <1>3, <1>4, <1>5, <1>6, <1>7, <1>8, <1>9, <1>10, <1>11
  DEF Next, GameNext, EditorNext

\* What is kept at every moment, whether or not the engine calls the callbacks.
LEMMA AlwaysKept == Spec => []KeptInv
<1>1. Init => KeptInv
  BY InitKept
<1>2. KeptInv /\ [Next]_vars => KeptInv'
  BY NextKept
<1> QED
  BY <1>1, <1>2, PTL DEF Spec

\* Every variable has its type; messages are dated by the runs that were played.
THEOREM ObservationTypeCorrect == Spec => []TypeOK
<1>1. KeptInv => TypeOK
  BY DEF KeptInv
<1> QED
  BY <1>1, AlwaysKept, PTL

\* The game sends a content only once; however changes, events, commands and
\* recordings interleave, the last one sent is in the cache or on its way.
THEOREM SentIsKept == Spec => []LastSentIsKept
<1>1. KeptInv => LastSentIsKept
  BY DEF KeptInv
<1> QED
  BY <1>1, AlwaysKept, PTL

\* When every message is recorded, no report of an outdated pause state is the
\* last one of this run in the ring, whatever was trimmed and cleared.
THEOREM PauseReported == Spec => []PauseIsReported
<1>1. KeptInv => PauseIsReported
  BY PauseSaidIsReported
<1> QED
  BY <1>1, AlwaysKept, PTL
-----------------------------------------------------------------------------
(* How long a read is of an earlier run *)

\* A snapshot of another run in the cache is of an earlier one.
AgeInv == (snapshot # None => snapshot.run <= run) /\ StaleOnlyAtStart

\* A step that leaves the cache alone, while the run goes on or ends.
LEMMA AgeAside ==
  ASSUME KeptInv, AgeInv, UNCHANGED <<run, callbacks, snapshot>>,
         held \subseteq held', Playing' => Playing,
         sent = None \/ ~Lacks(up, Shots) => sent' = None \/ ~Lacks(up', Shots)
  PROVE  AgeInv'
BY DEF AgeInv, StaleOnlyAtStart, Playing, Shots

\* A game that runs adds to what it has said.
LEMMA AgeSaying ==
  ASSUME KeptInv, AgeInv, UNCHANGED <<run, status, callbacks, snapshot>>,
         held \subseteq held', status = "attached",
         NEW ms \in Seq(Messages), up' = up \o ms
  PROVE  AgeInv'
<1>1. sent # None /\ up \in Seq(Messages)
  BY Running, RuntimeAssumption DEF LinkTyped, Contents
<1>2. Lacks(up', Shots) => Lacks(up, Shots)
  BY <1>1, LastOfConcat
<1> QED
  BY <1>1, <1>2, AgeAside DEF Playing

LEMMA AgeOfPlay ==
  ASSUME KeptInv, AgeInv, PlayScene \/ StopScene \/ SessionEnds
  PROVE  AgeInv'
<1>1. /\ snapshot' = (IF callbacks THEN None ELSE snapshot) /\ callbacks' = callbacks
      /\ run \in Nat
  BY TypeOKInParts, RuntimeAssumption
  DEF PlayScene, StopScene, SessionEnds, EndSession, KeptInv, GameTyped
<1>2. snapshot # None => snapshot.run \in Nat
  BY TypeOKInParts DEF KeptInv, EditorTyped, Shots
<1>3. CASE PlayScene
  <2>1. run' = run + 1 /\ sent' = None
    BY <1>3 DEF PlayScene
  <2> QED
    BY <1>1, <1>2, <2>1 DEF AgeInv, StaleOnlyAtStart
<1>4. CASE StopScene \/ SessionEnds
  <2>1. run' = run /\ status' = "stopped"
    BY <1>4 DEF StopScene, SessionEnds
  <2> QED
    BY <1>1, <2>1 DEF AgeInv, StaleOnlyAtStart, Playing
<1> QED
  BY <1>3, <1>4

LEMMA AgeOfAttach ==
  ASSUME KeptInv, KeptInv', AgeInv, ReadInv, NEW c \in Contents, Attach(c)
  PROVE  AgeInv'
<1>1. ~Lacks(up', Shots)
  <2>1. run \in 1..MaxRuns
    BY TypeOKInParts DEF KeptInv, GameTyped, Dated, Attach
  <2>2. Shot(c) \in Shots
    BY <2>1, MessageTyped
  <2>3. 2 \in DOMAIN up' /\ up'[2] = Shot(c)
    BY DEF Attach
  <2> QED
    BY <2>2, <2>3 DEF Lacks
<1>2. held \subseteq held'
  BY DEF Attach, ReadInv
<1> QED
  BY <1>1, <1>2, AgeAside DEF Attach, Playing

LEMMA AgeOfExit ==
  ASSUME KeptInv, AgeInv, Exit
  PROVE  AgeInv'
<1>1. up \in Seq(Messages) /\ run \in 1..MaxRuns
  BY TypeOKInParts DEF KeptInv, LinkTyped, GameTyped, Dated, Exit
<1>2. Event("shutdown", None) \in Messages
  BY <1>1, MessageTyped DEF Messages
<1>3. Lacks(up', Shots) => Lacks(up, Shots)
  <2> DEFINE x == Event("shutdown", None)
  <2>1. up' = up \/ up' = Append(up, x)
    BY DEF Exit
  <2> HIDE DEF x
  <2>2. Lacks(Append(up, x), Shots) => Lacks(up, Shots)
    BY <1>1, <1>2, LastOfAppend DEF x
  <2> QED
    BY <2>1, <2>2
<1> QED
  BY <1>3, AgeAside DEF Exit, Playing, editorVars

LEMMA AgeOfCommand ==
  ASSUME KeptInv, AgeInv, OnEditorCommand
  PROVE  AgeInv'
<1>0. /\ run \in 1..MaxRuns /\ node \in Contents /\ up \in Seq(Messages)
      /\ down \in Seq(Commands) /\ status = "attached"
  BY Running DEF OnEditorCommand, GameTyped, LinkTyped
<1>1. Head(down).command = "pause" => Head(down).data \in BOOLEAN
  <2>1. Head(down) \in Commands
    BY <1>0, HeadTailProperties DEF OnEditorCommand
  <2> QED
    BY <2>1 DEF Commands
<1>2. \E ms \in Seq(Messages) : up' = up \o ms
  <2>1. ASSUME NEW x \in Messages, up' = Append(up, x)
        PROVE  \E ms \in Seq(Messages) : up' = up \o ms
    <3>1. up' = up \o <<x>> /\ <<x>> \in Seq(Messages)
      BY <1>0, <2>1, AppendIsConcat
    <3> QED
      BY <3>1
  <2>2. ASSUME NEW p \in BOOLEAN, PauseCommand(p)
        PROVE  \E x \in Messages : up' = Append(up, x)
    BY <1>0, <2>2, MessageTyped DEF PauseCommand, Messages
  <2>3. ASSUME MouseCommand PROVE \E ms \in Seq(Messages) : up' = up \o ms
    <3> DEFINE ms == <<Event("mouse_result", None)>>
               new == IF node = sent THEN <<>> ELSE <<Shot(node)>>
    <3>1. ms \in Seq(Messages) /\ new \in Seq(Messages)
      BY <1>0, EventSaid, Emitted
    <3>2. up' = up \o new \o ms
      BY <2>3 DEF MouseCommand
    <3> HIDE DEF ms, new
    <3>3. up' = up \o (new \o ms) /\ new \o ms \in Seq(Messages)
      BY <1>0, <3>1, <3>2, AppendTwice
    <3> QED
      BY <3>3
  <2>4. ASSUME EnumerateCommand PROVE \E x \in Messages : up' = Append(up, x)
    BY <1>0, <2>4, MessageTyped DEF EnumerateCommand, Messages
  <2> QED
    BY <1>1, <2>1, <2>2, <2>3, <2>4 DEF OnEditorCommand
<1> QED
  BY <1>0, <1>2, AgeSaying DEF OnEditorCommand, editorVars

\* A snapshot that is recorded is of this run; another message leaves on its way
\* what was there.
LEMMA AgeOfCapture ==
  ASSUME KeptInv, AgeInv, ReadInv, Capture
  PROVE  AgeInv'
<1> DEFINE h == Head(up)
<1>0. /\ up \in Seq(Messages) /\ up # <<>> /\ run \in Nat
      /\ UNCHANGED <<run, status, held, sent, callbacks>> /\ up' = Tail(up)
  BY TypeOKInParts DEF KeptInv, LinkTyped, ReadInv, Capture, gameVars
<1>1. h \in Messages /\ h \in Truthful
  BY <1>0, HeadTailProperties DEF ReadInv
<1>2. Lacks(up, Shots) <=> Lacks(up', Shots) /\ h \notin Shots
  BY <1>0, LastOfTail
<1> HIDE DEF h
<1>3. CASE h.event = "runtime_snapshot"
  <2>1. snapshot' = h
    BY <1>3 DEF Capture, RecordEvent, h
  <2>2. h.run = run /\ h.data \in held
    BY <1>1, <1>3 DEF Truthful
  <2> QED
    BY <1>0, <2>1, <2>2 DEF AgeInv, StaleOnlyAtStart
<1>4. CASE h.event # "runtime_snapshot"
  <2>1. snapshot' = snapshot
    BY <1>4 DEF Capture, RecordEvent, h
  <2>2. h \notin Shots
    BY <1>4 DEF Shots
  <2> QED
    BY <1>0, <1>2, <2>1, <2>2, AgeAside DEF Playing
<1> QED
  BY <1>3, <1>4

LEMMA NextAge ==
  ASSUME KeptInv, KeptInv', ReadInv, AgeInv, [Next]_vars
  PROVE  AgeInv'
<1>1. ASSUME NEW c \in Contents, Attach(c) PROVE AgeInv'
  BY <1>1, AgeOfAttach
<1>2. ASSUME NEW v \in Values, SetProperty(v) PROVE AgeInv'
  BY <1>2, AgeAside DEF SetProperty, Becomes, Playing, editorVars
<1>3. ASSUME NEW c \in Contents, status = "attached", held \subseteq held',
             UNCHANGED <<run, status, callbacks, snapshot>>,
             NEW ms \in Seq(Messages), EmitIfChanged(ms, c)
      PROVE  AgeInv'
  <2> DEFINE new == IF c = sent THEN <<>> ELSE <<Shot(c)>>
  <2>1. new \in Seq(Messages) /\ up \in Seq(Messages)
    BY <1>3, Running, Emitted DEF LinkTyped
  <2>2. up' = up \o ms \o new
    BY <1>3 DEF EmitIfChanged
  <2> HIDE DEF new
  <2>3. up' = up \o (ms \o new) /\ ms \o new \in Seq(Messages)
    BY <1>3, <2>1, <2>2, AppendTwice
  <2> QED
    BY <1>3, <2>3, AgeSaying
<1>4. ASSUME NEW e \in {"node_added", "node_removed"}, status = "attached"
      PROVE  <<Event(e, None)>> \in Seq(Messages)
  BY <1>4, Running, EventSaid
<1>5. ASSUME NEW v \in Values, NodeAdded(v) PROVE AgeInv'
  BY <1>3, <1>4, <1>5 DEF NodeAdded, Becomes, Contents, editorVars
<1>6. CASE NodeRemoved
  BY <1>3, <1>4, <1>6 DEF NodeRemoved, Becomes, Contents, editorVars
<1>7. CASE Poll
  <2>1. <<>> \in Seq(Messages) /\ node \in Contents
    BY DEF ReadInv
  <2> QED
    BY <1>3, <1>7, <2>1 DEF Poll, editorVars
<1>8. CASE OnEditorCommand
  BY <1>8, AgeOfCommand
<1>9. CASE Exit
  BY <1>9, AgeOfExit
<1>10. CASE PlayScene \/ StopScene \/ SessionEnds
  BY <1>10, AgeOfPlay
<1>11. CASE Capture
  BY <1>11, AgeOfCapture
<1>12. CASE (\E p \in BOOLEAN : PauseScene(p)) \/ SimulateMouse \/ AnnotatedScreenshot \/ ClearEvents
  BY <1>12, AgeAside
  DEF PauseScene, SimulateMouse, AnnotatedScreenshot, ClearEvents, gameVars, editorVars, Playing
<1>13. CASE WaitNext \/ UNCHANGED vars
  BY <1>13, AgeAside
  DEF WaitNext, StartWait, Observe, ObserveRejected, WakeUp, TimeoutPasses, vars, gameVars,
      editorVars, Playing
<1> QED
  BY <1>1, <1>2, <1>5, <1>6, <1>7, <1>8, <1>9, <1>10, <1>11, <1>12, <1>13
  DEF Next, GameNext, EditorNext

\* While a scene plays, a read answers with an ended run only in an engine that
\* does not call _session_stopped, and only until the first snapshot of the
\* scene that plays is recorded; all else it reads was in this run.
THEOREM StaleReadsEnd == Spec => []StaleOnlyAtStart
<1>1. Init => ReadInv /\ CommandsTyped /\ AgeInv
  BY InitReadInv, DownTyped DEF Init, AgeInv, StaleOnlyAtStart
<1>2. KeptInv => (status = "launched" => up = <<>>)
  BY DEF KeptInv, Dated
<1>3. /\ ReadInv /\ CommandsTyped /\ AgeInv /\ [Next]_vars /\ KeptInv /\ KeptInv'
      => (ReadInv /\ CommandsTyped /\ AgeInv)'
  BY <1>2, NextReadInv, DownTyped, NextAge
<1>4. AgeInv => StaleOnlyAtStart
  BY DEF AgeInv
<1> QED
  BY <1>1, <1>3, <1>4, AlwaysKept, PTL DEF Spec
=============================================================================

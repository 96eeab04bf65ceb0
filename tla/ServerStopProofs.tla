--------------------------- MODULE ServerStopProofs ---------------------------
(***************************************************************************)
(* Proofs about the destinations of results and the end of the server:     *)
(* the sink implements the log, and interrupted rounds are kept.           *)
(***************************************************************************)
EXTENDS ServerStop, TLAPS

Writing == {"appending", "landed"}

(* The two destinations do not mix.                                        *)
StoresApart ==
    /\ store = "jsonl" => \A c \in Calls : call[c] \notin {"querying", "committed", "refused"}
    /\ store = "postgres" => /\ end = Clean
                             /\ loading = "no"
                             /\ \A c \in Calls : call[c] \notin Writing \union {"loading", "waiting"}

(* The map of writes under way holds one call per round.                   *)
OneWriter ==
    \A c, d \in Calls :
        call[c] \in Writing /\ call[d] \in Writing /\ KeyOf[c] = KeyOf[d] => c = d

(* Nothing is written before the file was read, and nothing is seen.       *)
LoadedFirst ==
    /\ loading # "done" => seen = {}
    /\ \A c \in Calls : call[c] \in Writing => loading = "done"

(* A whole line is of a round that was seen, or its append has not settled.*)
RowsAreSeen ==
    loading = "done" =>
        \A k \in Keys : rows[k] > 0 =>
            k \in seen \/ \E c \in Calls : call[c] = "landed" /\ KeyOf[c] = k

AppendsAreNew == \A c \in Calls : call[c] = "appending" => KeyOf[c] \notin seen

RefusedAreThere == \A c \in Calls : call[c] = "refused" => rows[KeyOf[c]] > 0

SinkInv ==
    /\ SinkTypeOK
    /\ StoresApart
    /\ OneWriter
    /\ LoadedFirst
    /\ RowsAreSeen
    /\ AppendsAreNew
    /\ RefusedAreThere

(* A new sink is in order.                                                 *)
LEMMA SinkStarts == SinkInit => SinkInv
  BY DEF SinkInit, SinkInv, SinkTypeOK, Stages, Answered, StoresApart, OneWriter, LoadedFirst,
         RowsAreSeen, AppendsAreNew, RefusedAreThere, Writing

(* Every step of the sink keeps its variables in range.                    *)
LEMMA SinkTyped == SinkTypeOK /\ [SinkNext]_sinkVars => SinkTypeOK'
<1> SUFFICES ASSUME SinkTypeOK, [SinkNext]_sinkVars
             PROVE  SinkTypeOK'
  OBVIOUS
<1> USE KeyOfAssumption DEF SinkTypeOK, Stages, Answered
<1>1. CASE UNCHANGED sinkVars
  BY <1>1 DEF sinkVars
<1>2. CASE \E c \in Calls : Ask(c)
  BY <1>2 DEF Ask
<1>3. CASE ReadExisting
  BY <1>3 DEF ReadExisting
<1>4. ASSUME NEW c \in Calls, Proceed(c) PROVE SinkTypeOK'
  BY <1>4 DEF AfterLoad, Proceed
<1>5. ASSUME NEW c \in Calls, Land(c) PROVE SinkTypeOK'
  <2>1. KeyOf[c] \in Keys /\ Lines(c) \in [Keys -> Nat]
    BY DEF Lines
  <2> QED BY <1>5, <2>1 DEF Land
<1>6. ASSUME NEW c \in Calls, Persisted(c) PROVE SinkTypeOK'
  BY <1>6 DEF Persisted
<1>7. ASSUME NEW c \in Calls, AppendFails(c) PROVE SinkTypeOK'
  BY <1>7 DEF FailTogether, AppendFails, CutShort
<1>8. ASSUME NEW c \in Calls, Insert(c) PROVE SinkTypeOK'
  BY <1>8 DEF Insert
<1>9. ASSUME NEW c \in Calls, Returned(c) PROVE SinkTypeOK'
  BY <1>9 DEF Returned
<1>10. ASSUME NEW c \in Calls, QueryFails(c) PROVE SinkTypeOK'
  BY <1>10 DEF QueryFails
<1>11. CASE Kill
  BY <1>11 DEF Kill, CutShort
<1> QED
  BY <1>1, <1>2, <1>3, <1>4, <1>5, <1>6, <1>7, <1>8, <1>9, <1>10, <1>11
     DEF SinkNext, SinkStep, Works

(* Every step of the sink keeps it in order.                               *)
LEMMA SinkKept == SinkInv /\ [SinkNext]_sinkVars => SinkInv'
<1> SUFFICES ASSUME SinkInv, [SinkNext]_sinkVars
             PROVE  SinkInv'
  OBVIOUS
<1> SinkTypeOK /\ SinkTypeOK'
  BY SinkTyped DEF SinkInv
<1> USE KeyOfAssumption
<1> USE DEF SinkInv, StoresApart, OneWriter, LoadedFirst, RowsAreSeen, AppendsAreNew,
            RefusedAreThere, Writing
<1>1. CASE UNCHANGED sinkVars
  BY <1>1 DEF sinkVars
<1>2. ASSUME NEW c \in Calls, Ask(c) PROVE SinkInv'
  BY <1>2 DEF Ask, SinkTypeOK
<1>3. CASE ReadExisting
  BY <1>3 DEF ReadExisting, SinkTypeOK
<1>4. ASSUME NEW c \in Calls, Proceed(c) PROVE SinkInv'
  BY <1>4 DEF AfterLoad, Proceed, Writer, SinkTypeOK
<1>5. ASSUME NEW c \in Calls, Land(c) PROVE SinkInv'
  BY <1>5 DEF Land, Lines, SinkTypeOK
<1>6. ASSUME NEW c \in Calls, Persisted(c) PROVE SinkInv'
  BY <1>6 DEF Persisted, Waiters, SinkTypeOK
<1>7. ASSUME NEW c \in Calls, AppendFails(c) PROVE SinkInv'
  BY <1>7 DEF FailTogether, AppendFails, Waiters, SinkTypeOK
<1>8. ASSUME NEW c \in Calls, Insert(c) PROVE SinkInv'
  BY <1>8 DEF Insert, SinkTypeOK
<1>9. ASSUME NEW c \in Calls, Returned(c) PROVE SinkInv'
  BY <1>9 DEF Returned, SinkTypeOK
<1>10. ASSUME NEW c \in Calls, QueryFails(c) PROVE SinkInv'
  BY <1>10 DEF QueryFails, SinkTypeOK
<1>11. CASE Kill
  BY <1>11 DEF Kill, Answered, SinkTypeOK
<1> QED
  BY <1>1, <1>2, <1>3, <1>4, <1>5, <1>6, <1>7, <1>8, <1>9, <1>10, <1>11
     DEF SinkNext, SinkStep, Works

-----------------------------------------------------------------------------
(* An append under way is of a round without a whole line.                 *)
LEMMA AppendIsFirst ==
    ASSUME SinkInv, NEW c \in Calls, call[c] = "appending"
    PROVE  rows[KeyOf[c]] = 0
  BY KeyOfAssumption DEF SinkInv, SinkTypeOK, StoresApart, OneWriter, LoadedFirst,
     RowsAreSeen, AppendsAreNew, Writing

(* A new sink is an empty log.                                             *)
LEMMA StartsAsLog == SinkInit => Log!Init
  BY DEF SinkInit, Log!Init, Stage, Answered

(* A call that leaves its stage alone, or whose stage shows in the log     *)
(* only as one step, changes the log by that step.                         *)
LEMMA StepsAsLog == SinkInv /\ [SinkNext]_sinkVars => [Log!Next]_Log!logVars
<1> SUFFICES ASSUME SinkInv, [SinkNext]_sinkVars
             PROVE  Log!Next \/ UNCHANGED Log!logVars
  OBVIOUS
<1> SinkTypeOK /\ SinkTypeOK'
  BY SinkTyped DEF SinkInv
<1> DEFINE L == [c \in Calls |-> Stage(c)]
<1> USE KeyOfAssumption, EndAssumption
<1>1. CASE UNCHANGED sinkVars
  <2>1. L' = L
    BY <1>1 DEF sinkVars, Stage
  <2> QED BY <1>1, <2>1 DEF sinkVars, Log!logVars
<1>2. ASSUME NEW c \in Calls, Ask(c) PROVE UNCHANGED Log!logVars
  <2>1. \A d \in Calls : Stage(d)' = Stage(d)
    BY <1>2 DEF Ask, Stage, SinkTypeOK, Answered
  <2>2. L' = L
    BY <2>1
  <2> QED BY <1>2, <2>2 DEF Ask, Log!logVars
<1>3. CASE ReadExisting
  <2>1. L' = L
    BY <1>3 DEF ReadExisting, Stage
  <2>2. seen' = {k \in Keys : Log!Readable(k)}
    BY <1>3 DEF ReadExisting, Log!Readable, SinkInv, LoadedFirst
  <2>3. Log!Recall
    BY <1>3, <2>1, <2>2 DEF ReadExisting, Log!Recall
  <2> QED BY <2>3 DEF Log!Next
<1>4. ASSUME NEW c \in Calls, Proceed(c) PROVE Log!Next \/ UNCHANGED Log!logVars
  <2>1. CASE KeyOf[c] \in seen
    <3>1. L' = [L EXCEPT ![c] = "duplicate"] /\ L[c] = "open"
      BY <1>4, <2>1 DEF AfterLoad, Proceed, Stage, SinkTypeOK, Answered
    <3>2. Log!Duplicate(c)
      BY <1>4, <2>1, <3>1 DEF Proceed, Log!Duplicate
    <3> QED BY <3>2 DEF Log!Next
  <2>2. CASE KeyOf[c] \notin seen
    <3>1. L' = L
      BY <1>4, <2>2 DEF AfterLoad, Proceed, Stage, SinkTypeOK, Answered
    <3> QED BY <1>4, <3>1 DEF Proceed, Log!logVars
  <2> QED BY <2>1, <2>2
<1>5. ASSUME NEW c \in Calls, Land(c) PROVE Log!Next
  <2>1. L' = [L EXCEPT ![c] = "recorded"] /\ L[c] = "open"
    BY <1>5 DEF Land, Stage, SinkTypeOK, Answered
  <2>2. CASE end = Clean
    <3>1. rows[KeyOf[c]] = 0
      BY <1>5, AppendIsFirst DEF Land
    <3>2. Log!Record(c)
      BY <1>5, <2>1, <2>2, <3>1 DEF Land, Lines, Log!Record
    <3> QED BY <3>2 DEF Log!Next
  <2>3. CASE end # Clean
    <3>1. Log!Swallow(c)
      BY <1>5, <2>1, <2>3 DEF Land, Lines, Log!Swallow
    <3> QED BY <3>1 DEF Log!Next
  <2> QED BY <2>2, <2>3
<1>6. ASSUME NEW c \in Calls, Persisted(c) PROVE Log!Next
  <2> DEFINE T == Waiters(KeyOf[c])
  <2>1. L[c] = "recorded" /\ c \notin T
    BY <1>6 DEF Persisted, Stage, Waiters, Answered
  <2>2. T \in SUBSET {d \in Calls \ {c} : L[d] = "open" /\ KeyOf[d] = KeyOf[c]}
    BY <2>1 DEF Waiters, Stage, Answered
  <2>3. L' = [d \in Calls |-> IF d = c THEN "written" ELSE IF d \in T THEN "duplicate" ELSE L[d]]
    BY <1>6, <2>1 DEF Persisted, Stage, Answered, SinkTypeOK
  <2>4. Log!Share(c, "written", "duplicate")
    BY <2>2, <2>3 DEF Log!Share
  <2>5. Log!Written(c)
    BY <1>6, <2>1, <2>4 DEF Persisted, Log!Written
  <2> QED BY <2>5 DEF Log!Next
<1>7. ASSUME NEW c \in Calls, AppendFails(c) PROVE Log!Next
  <2> DEFINE T == Waiters(KeyOf[c])
  <2>1. L[c] = "open" /\ c \notin T
    BY <1>7 DEF FailTogether, AppendFails, Stage, Waiters, Answered
  <2>2. T \in SUBSET {d \in Calls \ {c} : L[d] = "open" /\ KeyOf[d] = KeyOf[c]}
    BY <2>1 DEF Waiters, Stage, Answered
  <2>3. L' = [d \in Calls |-> IF d = c THEN "failed" ELSE IF d \in T THEN "failed" ELSE L[d]]
    BY <1>7 DEF FailTogether, AppendFails, Stage, Answered, SinkTypeOK
  <2>4. Log!Share(c, "failed", "failed")
    BY <2>2, <2>3 DEF Log!Share
  <2>5. store = "jsonl"
    BY <1>7 DEF FailTogether, AppendFails, SinkInv, StoresApart, SinkTypeOK, Writing
  <2>6. UNCHANGED end \/ (L[c] = "open" /\ Log!Cut(KeyOf[c]))
    BY <1>7, <2>1, <2>5 DEF AppendFails, CutShort, Log!Cut
  <2>7. Log!Fail(c)
    BY <1>7, <2>1, <2>4, <2>6 DEF AppendFails, Log!Fail
  <2> QED BY <2>7 DEF Log!Next
<1>8. ASSUME NEW c \in Calls, Insert(c) PROVE Log!Next \/ UNCHANGED Log!logVars
  <2>1. CASE rows[KeyOf[c]] = 0
    <3>1. L' = [L EXCEPT ![c] = "recorded"] /\ L[c] = "open"
      BY <1>8, <2>1 DEF Insert, Stage, SinkTypeOK, Answered
    <3>2. end = Clean
      BY <1>8 DEF Insert, SinkInv, StoresApart, SinkTypeOK
    <3>3. Log!Record(c)
      BY <1>8, <2>1, <3>1, <3>2 DEF Insert, Log!Record
    <3> QED BY <3>3 DEF Log!Next
  <2>2. CASE rows[KeyOf[c]] # 0
    <3>1. L' = L
      BY <1>8, <2>2 DEF Insert, Stage, SinkTypeOK, Answered
    <3> QED BY <1>8, <2>2, <3>1 DEF Insert, Log!logVars
  <2> QED BY <2>1, <2>2
<1>9. ASSUME NEW c \in Calls, Returned(c) PROVE Log!Next
  <2>1. CASE call[c] = "committed"
    <3>1. L[c] = "recorded"
      BY <2>1 DEF Stage, Answered
    <3>2. L' = [d \in Calls |-> IF d = c THEN "written" ELSE IF d \in {} THEN "duplicate" ELSE L[d]]
      BY <1>9, <2>1 DEF Returned, Stage, SinkTypeOK, Answered
    <3>3. {} \in SUBSET {d \in Calls \ {c} : L[d] = "open" /\ KeyOf[d] = KeyOf[c]}
      OBVIOUS
    <3>4. Log!Share(c, "written", "duplicate")
      BY <3>2, <3>3 DEF Log!Share
    <3>5. Log!Written(c)
      BY <1>9, <3>1, <3>4 DEF Returned, Log!Written
    <3> QED BY <3>5 DEF Log!Next
  <2>2. CASE call[c] = "refused"
    <3>1. L[c] = "open" /\ L' = [L EXCEPT ![c] = "duplicate"]
      BY <1>9, <2>2 DEF Returned, Stage, SinkTypeOK, Answered
    <3>2. Log!Readable(KeyOf[c])
      BY <2>2 DEF SinkInv, RefusedAreThere, Log!Readable
    <3>3. Log!Duplicate(c)
      BY <1>9, <3>1, <3>2 DEF Returned, Log!Duplicate
    <3> QED BY <3>3 DEF Log!Next
  <2> QED BY <1>9, <2>1, <2>2 DEF Returned
<1>10. ASSUME NEW c \in Calls, QueryFails(c) PROVE Log!Next
  <2>1. L[c] \in {"open", "recorded"}
    BY <1>10 DEF QueryFails, Stage, Answered
  <2>2. L' = [d \in Calls |-> IF d = c THEN "failed" ELSE IF d \in {} THEN "failed" ELSE L[d]]
    BY <1>10 DEF QueryFails, Stage, Answered, SinkTypeOK
  <2>3. {} \in SUBSET {d \in Calls \ {c} : L[d] = "open" /\ KeyOf[d] = KeyOf[c]}
    OBVIOUS
  <2>4. Log!Share(c, "failed", "failed")
    BY <2>2, <2>3 DEF Log!Share
  <2>5. Log!Fail(c)
    BY <1>10, <2>1, <2>4 DEF QueryFails, Log!Fail
  <2> QED BY <2>5 DEF Log!Next
<1>11. ASSUME Kill PROVE Log!Next
  <2> DEFINE M == {c \in Calls : call[c] \notin Answered \union {"idle", "lost"}}
  <2>1. M \in SUBSET {c \in Calls : L[c] \in {"open", "recorded"}}
    BY DEF Stage
  <2>2. \A c \in Calls : L[c] = "recorded" => c \in M
    BY DEF Stage, Answered
  <2>3. L' = [c \in Calls |-> IF c \in M THEN "lost" ELSE L[c]]
    BY <1>11 DEF Kill, Stage, Answered
  <2>4. ASSUME NEW c \in Calls, call[c] = "appending", CutShort(c)
        PROVE  L[c] = "open" /\ Log!Cut(KeyOf[c])
    <3>1. store = "jsonl"
      BY <2>4 DEF SinkInv, StoresApart, SinkTypeOK, Writing
    <3> QED BY <2>4, <3>1 DEF CutShort, Log!Cut, Stage, Answered
  <2>5. UNCHANGED end \/ \E c \in Calls : L[c] = "open" /\ Log!Cut(KeyOf[c])
    BY <1>11, <2>4 DEF Kill
  <2>6. Log!Restart
    BY <1>11, <2>1, <2>2, <2>3, <2>5 DEF Kill, Log!Restart
  <2> QED BY <2>6 DEF Log!Next
<1> QED
  BY <1>1, <1>2, <1>3, <1>4, <1>5, <1>6, <1>7, <1>8, <1>9, <1>10, <1>11
     DEF SinkNext, SinkStep, Works

-----------------------------------------------------------------------------
(* What the server does to the sink is a step of the sink, or nothing.     *)
LEMMA ServerUsesSink == [Next]_vars => [SinkNext]_sinkVars
  BY RoundsAssumption DEF Next, vars, SinkNext, Begins, Plays, RoundFinished, Disposed,
         DisposalReturns, Repeats, SinkWorks, Stop, Exit, Crash, Boot

(* The sink of a server is in order at all times: its variables are in     *)
(* range and each round has one writer, whatever calls overlap.            *)
THEOREM SinkInOrder == Spec => []SinkInv
<1>1. Init => SinkInv
  BY SinkStarts DEF Init
<1>2. SinkInv /\ [Next]_vars => SinkInv'
  BY SinkKept, ServerUsesSink
<1> QED BY <1>1, <1>2, PTL DEF Spec

(* The sink of a server implements the log: overlapping calls, failures    *)
(* half-way and restarts show as a log that looks and adds in one step.    *)
THEOREM SinkIsLog == Spec => ImplementsLog
<1>1. Init => Log!Init
  BY StartsAsLog DEF Init
<1>2. SinkInv /\ [Next]_vars => [Log!Next]_Log!logVars
  BY StepsAsLog, ServerUsesSink
<1> QED BY <1>1, <1>2, SinkInOrder, PTL DEF Spec, ImplementsLog, Log!Spec

-----------------------------------------------------------------------------
(* A round that can be read, or had a line run into another.               *)
Kept(k) == Log!Readable(k) \/ k \in spoiled

(* Whom the sink answers, or will answer, that a round is there, it is.    *)
There == {"landed", "committed", "refused", "written", "duplicate"}
AnswersHold ==
    /\ \A k \in seen : Kept(k)
    /\ \A c \in Calls : call[c] \in There => Kept(KeyOf[c])

(* A round that was interrupted is being disposed of until it is answered. *)
RoundStages == {"none", "loading", "playing", "over", "disposing", "gone"}
DisposalsWait ==
    /\ round \in [Rounds -> RoundStages]
    /\ interrupted \in SUBSET Rounds
    /\ Running => \A r \in interrupted :
                     round[r] = "disposing" \/ (round[r] = "gone" /\ call[r] \in Answered)

ExitAnswers == server = "exited" => \A r \in interrupted : call[r] \in Answered

StopInv == AnswersHold /\ DisposalsWait /\ ExitAnswers

(* What the steps of the sink do to rows and to the last line is marked,   *)
(* so that a round never stops being kept.                                 *)
LEMMA KeptStays ==
    ASSUME SinkInv, [SinkNext]_sinkVars, MarksSpoiled \/ UNCHANGED <<end, spoiled>>,
           NEW k \in Keys, Kept(k)
    PROVE  Kept(k)'
<1>1. rows[k] \in Nat /\ rows'[k] \in Nat /\ rows'[k] >= rows[k]
  <2>1. SinkTypeOK /\ SinkTypeOK'
    BY SinkTyped DEF SinkInv
  <2>2. UNCHANGED rows \/ (\E c \in Calls : Land(c) \/ Insert(c))
    BY DEF SinkNext, SinkStep, Works, sinkVars, Ask, ReadExisting, Proceed, Persisted, AppendFails,
           Returned, QueryFails, Kill
  <2>3. ASSUME NEW c \in Calls, Land(c) \/ Insert(c) PROVE rows'[k] >= rows[k]
    BY <2>1, <2>3, KeyOfAssumption DEF Land, Lines, Insert, SinkTypeOK
  <2> QED BY <2>1, <2>2, <2>3 DEF SinkTypeOK
<1>2. spoiled \subseteq spoiled'
  BY DEF MarksSpoiled
<1>3. end = k => end' = k \/ k \in spoiled'
  BY DEF MarksSpoiled, Spoils
<1> QED BY <1>1, <1>2, <1>3 DEF Kept, Log!Readable

(* What the sink answers holds, and goes on holding.                       *)
LEMMA AnswersGoOnHolding ==
    ASSUME SinkInv, AnswersHold, [SinkNext]_sinkVars,
           \/ MarksSpoiled
           \/ UNCHANGED <<end, spoiled>> /\ ~ \E c \in Calls : Land(c)
    PROVE  AnswersHold'
<1> SinkTypeOK /\ SinkTypeOK'
  BY SinkTyped DEF SinkInv
<1>1. \A k \in Keys : Kept(k) => Kept(k)'
  BY KeptStays
<1>2. seen \subseteq Keys /\ seen' \subseteq Keys /\ \A c \in Calls : KeyOf[c] \in Keys
  BY KeyOfAssumption DEF SinkTypeOK
<1> DEFINE NewsHold ==
             /\ \A k \in seen' : k \in seen \/ Kept(k) \/ Kept(k)'
             /\ \A c \in Calls : call'[c] \in There =>
                     call[c] \in There \/ Kept(KeyOf[c]) \/ Kept(KeyOf[c])'
<1>3. SUFFICES NewsHold
  BY <1>1, <1>2 DEF AnswersHold
<1> USE DEF There
<1>4. CASE UNCHANGED sinkVars \/ (\E c \in Calls : Ask(c)) \/ Kill
  BY <1>4 DEF sinkVars, Ask, Kill, Answered, SinkTypeOK
<1>5. CASE ReadExisting
  BY <1>5 DEF ReadExisting, Kept, Log!Readable
<1>6. ASSUME NEW c \in Calls, Proceed(c) PROVE NewsHold
  BY <1>6 DEF Proceed, AfterLoad, AnswersHold, SinkTypeOK
<1>7. ASSUME NEW c \in Calls, Land(c) PROVE NewsHold
  <2>1. Kept(KeyOf[c])'
    <3>1. CASE end = Clean
      <4>1. rows'[KeyOf[c]] > 0
        BY <1>2, <1>7, <3>1 DEF Land, Lines, SinkTypeOK
      <4> QED BY <4>1 DEF Kept, Log!Readable
    <3>2. CASE end # Clean
      <4>1. c \in Landing
        BY <1>7 DEF Land, Landing, SinkTypeOK
      <4>2. MarksSpoiled
        BY <1>7
      <4> QED BY <1>2, <3>2, <4>1, <4>2 DEF MarksSpoiled, Spoils, Kept
    <3> QED BY <3>1, <3>2
  <2> QED BY <1>7, <2>1 DEF Land, SinkTypeOK
<1>8. ASSUME NEW c \in Calls, Persisted(c) PROVE NewsHold
  <2>1. Kept(KeyOf[c])
    BY <1>8 DEF Persisted, AnswersHold
  <2> QED BY <1>8, <2>1 DEF Persisted, Waiters, SinkTypeOK
<1>9. ASSUME NEW c \in Calls, AppendFails(c) \/ QueryFails(c) PROVE NewsHold
  BY <1>9 DEF AppendFails, QueryFails, SinkTypeOK
<1>10. ASSUME NEW c \in Calls, Insert(c) PROVE NewsHold
  <2>1. rows'[KeyOf[c]] > 0
    BY <1>2, <1>10 DEF Insert, SinkTypeOK
  <2>2. Kept(KeyOf[c])'
    BY <2>1 DEF Kept, Log!Readable
  <2> QED BY <1>10, <2>2 DEF Insert, SinkTypeOK
<1>11. ASSUME NEW c \in Calls, Returned(c) PROVE NewsHold
  BY <1>11 DEF Returned, SinkTypeOK
<1> QED
  BY <1>4, <1>5, <1>6, <1>7, <1>8, <1>9, <1>10, <1>11 DEF SinkNext, SinkStep, Works

(* The end of the process finds the disposals over.                        *)
LEMMA DisposalsGoOnWaiting ==
    ASSUME SinkInv, DisposalsWait, ExitAnswers, [Next]_vars
    PROVE  DisposalsWait' /\ ExitAnswers'
<1> USE RoundsAssumption DEF DisposalsWait, ExitAnswers, RoundStages, Running
<1> SinkTypeOK
  BY DEF SinkInv
<1>1. \A c \in Calls : call[c] \in Answered /\ [SinkNext]_sinkVars => call'[c] = call[c]
  BY DEF SinkNext, SinkStep, Works, sinkVars, Ask, ReadExisting, Proceed, Land, Persisted, AppendFails,
         FailTogether, Waiters, Insert, Returned, QueryFails, Kill, Answered, SinkTypeOK
<1>2. \A r \in Rounds : call[r] \in Answered => call'[r] \in Answered
  BY <1>1, ServerUsesSink
<1>3. CASE UNCHANGED vars
  BY <1>3 DEF vars, sinkVars, stopVars
<1>4. ASSUME NEW r \in Rounds, Begins(r) \/ Plays(r) \/ RoundFinished(r)
      PROVE  DisposalsWait' /\ ExitAnswers'
  BY <1>2, <1>4 DEF Begins, Plays, RoundFinished
<1>5. ASSUME NEW r \in Rounds, Disposed(r) PROVE DisposalsWait' /\ ExitAnswers'
  BY <1>2, <1>5 DEF Disposed, WhileDisposed
<1>6. ASSUME NEW r \in Rounds, DisposalReturns(r) PROVE DisposalsWait' /\ ExitAnswers'
  BY <1>2, <1>6 DEF DisposalReturns
<1>7. CASE (\E c \in Calls : Repeats(c)) \/ SinkWorks \/ Stop
  BY <1>2, <1>7 DEF Repeats, SinkWorks, Stop, stopVars
<1>8. CASE Exit
  BY <1>2, <1>8 DEF Exit, RoomsAreGone
<1>9. CASE Crash
  BY <1>9 DEF Crash
<1>10. CASE Boot
  BY <1>10 DEF Boot
<1> QED BY <1>3, <1>4, <1>5, <1>6, <1>7, <1>8, <1>9, <1>10 DEF Next

(* What lands is marked, and nothing else touches the last line.           *)
LEMMA StepsAreMarked ==
    ASSUME SinkInv, [Next]_vars
    PROVE  MarksSpoiled \/ (UNCHANGED <<end, spoiled>> /\ ~ \E c \in Calls : Land(c))
<1> SinkTypeOK
  BY DEF SinkInv
<1>1. ASSUME NEW c \in Calls, Land(c) PROVE call[c] = "appending" /\ call'[c] = "landed"
  BY <1>1 DEF Land, SinkTypeOK
<1>2. CASE UNCHANGED vars
  BY <1>1, <1>2 DEF vars, sinkVars
<1>3. ASSUME NEW c \in Calls, Ask(c), UNCHANGED spoiled
      PROVE  UNCHANGED <<end, spoiled>> /\ ~ \E d \in Calls : Land(d)
  BY <1>1, <1>3 DEF Ask, SinkTypeOK
<1>4. ASSUME UNCHANGED <<sinkVars, spoiled>>
      PROVE  UNCHANGED <<end, spoiled>> /\ ~ \E d \in Calls : Land(d)
  BY <1>1, <1>4 DEF sinkVars
<1> QED
  BY <1>2, <1>3, <1>4, RoundsAssumption
     DEF Next, Begins, Plays, RoundFinished, Disposed, DisposalReturns, Repeats, SinkWorks, Stop, Exit,
         Crash, Boot, stopVars

(* A stopped server has lost nothing it interrupted: the invariant says    *)
(* that a disposal waits for the answer, and that an answer holds for as   *)
(* long as no torn line spoils the one it speaks of.                       *)
THEOREM InterruptedKept == Spec => []InterruptedAreKept
<1>1. Init => StopInv
  BY DEF Init, SinkInit, StopInv, AnswersHold, There, DisposalsWait, RoundStages, ExitAnswers
<1>2. SinkInv /\ StopInv /\ [Next]_vars => StopInv'
  BY ServerUsesSink, StepsAreMarked, AnswersGoOnHolding, DisposalsGoOnWaiting DEF StopInv
<1>3. StopInv => InterruptedAreKept
  BY RoundsAssumption DEF StopInv, AnswersHold, DisposalsWait, ExitAnswers, InterruptedAreKept, Kept,
     There, Answered
<1> QED BY <1>1, <1>2, <1>3, SinkInOrder, PTL DEF Spec
=============================================================================

------------------------------ MODULE ResultSink ------------------------------
(***************************************************************************)
(* The destinations of round results: JsonlResultSink, a file, and         *)
(* PostgresResultSink, a table with a unique index                         *)
(* (apps/game-server/src/results.ts and db/resultSink.ts).                 *)
(*                                                                         *)
(* A call of write is at one of these stages:                              *)
(*   "idle"       not made yet                                             *)
(*   "loading"    JSONL: awaits the reading of the file                    *)
(*   "appending"  JSONL: its appendFile is under way                       *)
(*   "landed"     JSONL: the line is in the file, the promise unsettled    *)
(*   "waiting"    JSONL: awaits a call of the same round that is appending *)
(*   "querying"   Postgres: the INSERT is under way                        *)
(*   "committed"  Postgres: the row is in, the answer is on its way        *)
(*   "refused"    Postgres: the index had the round, likewise              *)
(*   "written", "duplicate", "failed": answered                            *)
(*   "lost"       the process ended first                                  *)
(* What follows an await runs in the same step as what settles it: nothing *)
(* but microtasks runs in between.                                         *)
(*                                                                         *)
(* The file is kept as the number of whole lines of each round and its     *)
(* last line, if that has no end.  External assumptions: an appendFile     *)
(* that fails did not write its whole line with the end; the file can be   *)
(* read whenever it exists; and the appends of a process do not interleave *)
(* inside a line.                                                          *)
(***************************************************************************)
EXTENDS Naturals

CONSTANTS
    Keys,       \* the rounds, (matchId, roundId)
    Calls,      \* the calls of write
    KeyOf,      \* the round whose result a call carries
    Clean,      \* the file ends with the end of a line
    Torn        \* the file ends in a part of a line

ASSUME KeyOfAssumption == KeyOf \in [Calls -> Keys]
ASSUME EndAssumption == Clean \notin Keys /\ Torn \notin Keys /\ Clean # Torn

VARIABLES
    store,      \* the destination the server was started with
    rows,       \* [Keys -> Nat], the whole rows of a round
    end,        \* the last line: Clean, Torn, or the round whose line only lacks its end
    seen,       \* JSONL: the rounds read from the file or written since
    loading,    \* JSONL: "no", "reading", "done"; the one shared reading of the file
    call        \* the stage each call is at

sinkVars == <<store, rows, end, seen, loading, call>>

Answered == {"written", "duplicate", "failed"}
Stages == {"idle", "loading", "appending", "landed", "waiting",
           "querying", "committed", "refused", "lost"} \union Answered

SinkTypeOK ==
    /\ store \in {"jsonl", "postgres"}
    /\ rows \in [Keys -> Nat]
    /\ end \in Keys \union {Clean, Torn}
    /\ seen \in SUBSET Keys
    /\ loading \in {"no", "reading", "done"}
    /\ call \in [Calls -> Stages]

SinkInit ==
    /\ store \in {"jsonl", "postgres"}
    /\ rows = [k \in Keys |-> 0]
    /\ end = Clean
    /\ seen = {}
    /\ loading = "no"
    /\ call = [c \in Calls |-> "idle"]

-----------------------------------------------------------------------------
(* Calls of the same round.                                                *)
Writer(k) == {c \in Calls : KeyOf[c] = k /\ call[c] \in {"appending", "landed"}}
Waiters(k) == {c \in Calls : KeyOf[c] = k /\ call[c] = "waiting"}

(* A call is made.  JSONL: the first one starts the reading of the file.   *)
Ask(c) ==
    /\ call[c] = "idle"
    /\ call' = [call EXCEPT ![c] = IF store = "jsonl" THEN "loading" ELSE "querying"]
    /\ loading' = IF store = "jsonl" /\ loading = "no" THEN "reading" ELSE loading
    /\ UNCHANGED <<store, rows, end, seen>>

(* The lines that parse are noted; corrupted lines are passed over.        *)
ReadExisting ==
    /\ loading = "reading"
    /\ loading' = "done"
    /\ seen' = seen \union {k \in Keys : rows[k] > 0 \/ end = k}
    /\ UNCHANGED <<store, rows, end, call>>

(* After the reading: the round was seen, or is being written, or is       *)
(* written by this call.                                                   *)
WritesTwiceVariant(c) == IF KeyOf[c] \in seen THEN "duplicate" ELSE "appending"
AfterLoad(c) == IF KeyOf[c] \in seen THEN "duplicate"
                ELSE IF Writer(KeyOf[c]) # {} THEN "waiting"
                ELSE "appending"

Proceed(c) ==
    /\ call[c] = "loading"
    /\ loading = "done"
    /\ call' = [call EXCEPT ![c] = AfterLoad(c)]
    /\ UNCHANGED <<store, rows, end, seen, loading>>

(* The line of a call, put after what the file ends in.                    *)
Lines(c) == IF end = Clean THEN [rows EXCEPT ![KeyOf[c]] = @ + 1] ELSE rows

Land(c) ==
    /\ call[c] = "appending"
    /\ rows' = Lines(c)
    /\ end' = Clean
    /\ call' = [call EXCEPT ![c] = "landed"]
    /\ UNCHANGED <<store, seen, loading>>

(* The append settles: only now the round counts as seen.                  *)
Persisted(c) ==
    /\ call[c] = "landed"
    /\ seen' = seen \union {KeyOf[c]}
    /\ call' = [d \in Calls |-> IF d = c THEN "written"
                                ELSE IF d \in Waiters(KeyOf[c]) THEN "duplicate"
                                ELSE call[d]]
    /\ UNCHANGED <<store, rows, end, loading>>

(* What an append that is cut short leaves: a part of the line, possibly   *)
(* all of it but its end.                                                  *)
CutShort(c) ==
    end' \in {Torn} \union (IF end = Clean THEN {KeyOf[c]} ELSE {})

(* The append fails, and with it the calls that wait for it.               *)
FailsAloneVariant(c) == {c}
FailTogether(c) == Waiters(KeyOf[c]) \union {c}

AppendFails(c) ==
    /\ call[c] = "appending"
    /\ UNCHANGED end \/ CutShort(c)
    /\ call' = [d \in Calls |-> IF d \in FailTogether(c) THEN "failed" ELSE call[d]]
    /\ UNCHANGED <<store, rows, seen, loading>>

(* Postgres: INSERT ... ON CONFLICT DO NOTHING RETURNING id.               *)
Insert(c) ==
    /\ call[c] = "querying"
    /\ IF rows[KeyOf[c]] = 0
       THEN /\ rows' = [rows EXCEPT ![KeyOf[c]] = @ + 1]
            /\ call' = [call EXCEPT ![c] = "committed"]
       ELSE /\ call' = [call EXCEPT ![c] = "refused"]
            /\ UNCHANGED rows
    /\ UNCHANGED <<store, end, seen, loading>>

Returned(c) ==
    /\ call[c] \in {"committed", "refused"}
    /\ call' = [call EXCEPT ![c] = IF call[c] = "committed" THEN "written" ELSE "duplicate"]
    /\ UNCHANGED <<store, rows, end, seen, loading>>

(* The database fails, or does not answer in time: the row may be in.      *)
QueryFails(c) ==
    /\ call[c] \in {"querying", "committed", "refused"}
    /\ call' = [call EXCEPT ![c] = "failed"]
    /\ UNCHANGED <<store, rows, end, seen, loading>>

(* The process ends, and its memory with it; an append under way may be    *)
(* cut short.                                                              *)
Kill ==
    /\ UNCHANGED end \/ \E c \in Calls : call[c] = "appending" /\ CutShort(c)
    /\ call' = [c \in Calls |-> IF call[c] \in Answered \union {"idle"}
                                THEN call[c] ELSE "lost"]
    /\ seen' = {}
    /\ loading' = "no"
    /\ UNCHANGED <<store, rows>>

(* What goes on by itself once a call has been made.                       *)
Works(c) == \/ Proceed(c)
            \/ Land(c)
            \/ Persisted(c)
            \/ Insert(c)
            \/ Returned(c)

SinkStep ==
    \/ ReadExisting
    \/ \E c \in Calls : Works(c) \/ AppendFails(c) \/ QueryFails(c)

SinkNext ==
    \/ \E c \in Calls : Ask(c)
    \/ SinkStep
    \/ Kill

SinkSpec == SinkInit /\ [][SinkNext]_sinkVars

-----------------------------------------------------------------------------
(* The log the sink implements: a call that has not reached the file or    *)
(* the table is open, one that has is recorded.                            *)
Stage(c) ==
    CASE call[c] \in {"landed", "committed"} -> "recorded"
      [] call[c] \in Answered \union {"lost"} -> call[c]
      [] OTHER -> "open"

Log == INSTANCE ResultLog WITH noted <- seen,
                               call <- [c \in Calls |-> Stage(c)],
                               fragile <- (store = "jsonl")
=============================================================================

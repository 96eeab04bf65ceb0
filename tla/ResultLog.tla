------------------------------ MODULE ResultLog ------------------------------
(***************************************************************************)
(* What a destination of round results promises its callers, whatever it   *)
(* is made of (interface ResultSink, apps/game-server/src/results.ts):     *)
(* looking whether the log has a round and adding its row are one step.    *)
(*                                                                         *)
(* A call is told "written" only if it added a row, a row is added only    *)
(* for a round without one, and "duplicate" is told only of a round that   *)
(* the log has or that was noted as written.  A failure leaves the row out *)
(* or comes after it; a restart leaves the calls under way unanswered.     *)
(*                                                                         *)
(* A log kept in a file promises a little less: a write that is cut short  *)
(* leaves the end of the file open, and the row written next continues     *)
(* that line and is lost with it.  (Decision 0016 in docs/decisions keeps  *)
(* the file out of production for this reason.)  A log that is not         *)
(* `fragile' is never left open.                                           *)
(***************************************************************************)
EXTENDS Naturals

CONSTANTS Keys,     \* the rounds, (matchId, roundId)
          Calls,    \* the calls of write
          KeyOf,    \* the round whose result a call carries
          Clean,    \* the log ends where a row ends
          Torn      \* the log ends in a part of a row

VARIABLES rows,     \* [Keys -> Nat], the whole rows of a round
          end,      \* Clean, Torn or the round whose last row only lacks its end
          noted,    \* the rounds noted as written
          call,     \* the stage each call is at
          fragile   \* whether a write can leave the log open

logVars == <<rows, end, noted, call, fragile>>

(* What a reader of the log finds.                                         *)
Readable(k) == rows[k] > 0 \/ end = k

Init ==
    /\ rows = [k \in Keys |-> 0]
    /\ end = Clean
    /\ noted = {}
    /\ call = [c \in Calls |-> "open"]
    /\ fragile \in BOOLEAN

Record(c) ==
    /\ call[c] = "open"
    /\ end = Clean
    /\ rows[KeyOf[c]] = 0
    /\ rows' = [rows EXCEPT ![KeyOf[c]] = @ + 1]
    /\ call' = [call EXCEPT ![c] = "recorded"]
    /\ UNCHANGED <<end, noted, fragile>>

(* The row continues an open line: neither of the two can be read.         *)
Swallow(c) ==
    /\ call[c] = "open"
    /\ end # Clean
    /\ end' = Clean
    /\ call' = [call EXCEPT ![c] = "recorded"]
    /\ UNCHANGED <<rows, noted, fragile>>

(* Calls for the same round may share the fate of the one that writes it.  *)
Share(c, mine, theirs) ==
    \E twins \in SUBSET {d \in Calls \ {c} : call[d] = "open" /\ KeyOf[d] = KeyOf[c]} :
        call' = [d \in Calls |-> IF d = c THEN mine
                                 ELSE IF d \in twins THEN theirs ELSE call[d]]

Written(c) ==
    /\ call[c] = "recorded"
    /\ Share(c, "written", "duplicate")
    /\ noted' \in {noted, noted \union {KeyOf[c]}}
    /\ UNCHANGED <<rows, end, fragile>>

Duplicate(c) ==
    /\ call[c] = "open"
    /\ KeyOf[c] \in noted \/ Readable(KeyOf[c])
    /\ call' = [call EXCEPT ![c] = "duplicate"]
    /\ UNCHANGED <<rows, end, noted, fragile>>

(* What a write of round k that is cut short leaves at the end.            *)
Cut(k) ==
    /\ fragile
    /\ end' \in {Torn} \union (IF end = Clean THEN {k} ELSE {})

Fail(c) ==
    /\ call[c] \in {"open", "recorded"}
    /\ Share(c, "failed", "failed")
    /\ UNCHANGED end \/ (call[c] = "open" /\ Cut(KeyOf[c]))
    /\ UNCHANGED <<rows, noted, fragile>>

(* The rounds in the log are noted when it is read.                        *)
Recall ==
    /\ noted' = {k \in Keys : Readable(k)}
    /\ UNCHANGED <<rows, end, call, fragile>>

(* The process ends; calls not made yet stay open.                         *)
Restart ==
    /\ UNCHANGED end \/ \E c \in Calls : call[c] = "open" /\ Cut(KeyOf[c])
    /\ \E made \in SUBSET {c \in Calls : call[c] \in {"open", "recorded"}} :
          /\ \A c \in Calls : call[c] = "recorded" => c \in made
          /\ call' = [c \in Calls |-> IF c \in made THEN "lost" ELSE call[c]]
    /\ noted' = {}
    /\ UNCHANGED <<rows, fragile>>

Next ==
    \/ \E c \in Calls : Record(c) \/ Swallow(c) \/ Written(c) \/ Duplicate(c) \/ Fail(c)
    \/ Recall
    \/ Restart

Spec == Init /\ [][Next]_logVars
=============================================================================

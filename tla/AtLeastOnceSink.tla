--------------------------- MODULE AtLeastOnceSink ---------------------------
(***************************************************************************)
(* What a consumer promises that stores a record before it commits its     *)
(* offset: the records behind the offset are stored, whatever fails in     *)
(* between, and the offset passes them one by one.                         *)
(***************************************************************************)
EXTENDS Naturals, Sequences

CONSTANT Ids

VARIABLES
    log,        \* the identities of the records of the topic
    stored,     \* the identities that are stored
    committed   \* the offset

Init ==
    /\ log = << >>
    /\ stored = {}
    /\ committed = 0

Produce ==
    /\ log' \in Seq(Ids)
    /\ Len(log') = Len(log) + 1
    /\ SubSeq(log', 1, Len(log)) = log
    /\ UNCHANGED <<stored, committed>>

Store ==
    \E n \in DOMAIN log :
        /\ n > committed
        /\ stored' = stored \cup {log[n]}
        /\ UNCHANGED <<log, committed>>

Commit ==
    /\ committed + 1 \in DOMAIN log
    /\ log[committed + 1] \in stored
    /\ committed' = committed + 1
    /\ UNCHANGED <<log, stored>>

Next == Produce \/ Store \/ Commit

Spec == Init /\ [][Next]_<<log, stored, committed>>
=============================================================================

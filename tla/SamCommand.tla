----------------------------- MODULE SamCommand -----------------------------
(***************************************************************************)
(* What surface_sam_ssh_rqst promises to a caller, without the serial      *)
(* line: one command at a time is handed to the embedded controller (EC);  *)
(* the EC may execute it while the call is in progress or, when the call   *)
(* fails, at any time later; a call that returns 0 was executed, and the   *)
(* data it returns is the EC's answer to that very command.                *)
(***************************************************************************)
CONSTANTS
    Ids,        \* identities of commands, recycled once a command is spent
    NoRqst      \* no command

VARIABLES
    cur,        \* the command of the call in progress
    reads,      \* whether that call asks for an answer
    open,       \* commands the EC may still execute
    executed,   \* commands the EC has executed
    outcome     \* what the call is about to return

cmdVars == <<cur, reads, open, executed, outcome>>

NoOutcome == [ok |-> FALSE, data |-> NoRqst, set |-> FALSE]

Outcomes == [ok : BOOLEAN, data : Ids \union {NoRqst}, set : BOOLEAN]

CmdTypeOK ==
    /\ cur \in Ids \union {NoRqst}
    /\ reads \in BOOLEAN
    /\ open \subseteq Ids
    /\ executed \subseteq Ids
    /\ outcome \in Outcomes

CmdInit ==
    /\ cur = NoRqst
    /\ reads = FALSE
    /\ open = {}
    /\ executed = {}
    /\ outcome = NoOutcome

Submit(i, r) ==
    /\ cur = NoRqst
    /\ i \notin open
    /\ cur' = i
    /\ reads' = r
    /\ open' = open \union {i}
    /\ executed' = executed \ {i}
    /\ UNCHANGED outcome

\* The EC executes a command; the copy it took may have been the last one.
Execute(i) ==
    /\ i \in open
    /\ executed' = executed \union {i}
    /\ open' \in {open, open \ ({i} \ {cur})}
    /\ UNCHANGED <<cur, reads, outcome>>

\* The last copy of an abandoned command is lost.
Expire(i) ==
    /\ i \in open \ {cur}
    /\ open' = open \ {i}
    /\ UNCHANGED <<cur, reads, executed, outcome>>

Succeed ==
    /\ cur # NoRqst
    /\ ~outcome.set
    /\ cur \in executed
    /\ outcome' = [ok |-> TRUE, data |-> IF reads THEN cur ELSE NoRqst, set |-> TRUE]
    /\ UNCHANGED <<cur, reads, open, executed>>

Fail ==
    /\ cur # NoRqst
    /\ ~outcome.set
    /\ outcome' = [ok |-> FALSE, data |-> NoRqst, set |-> TRUE]
    /\ UNCHANGED <<cur, reads, open, executed>>

Finish == Succeed \/ Fail

Return ==
    /\ outcome.set
    /\ cur' = NoRqst
    /\ reads' = FALSE
    /\ open' \in {open, open \ {cur}}
    /\ outcome' = NoOutcome
    /\ UNCHANGED executed

CmdNext ==
    \/ \E i \in Ids, r \in BOOLEAN : Submit(i, r)
    \/ \E i \in Ids : Execute(i) \/ Expire(i)
    \/ Finish
    \/ Return

CmdSpec == CmdInit /\ [][CmdNext]_cmdVars

\* A call in progress ends, whatever the EC does.
CmdFairness == WF_cmdVars(Finish) /\ WF_cmdVars(Return)

CmdFairSpec == CmdSpec /\ CmdFairness
=============================================================================

---------------------------- MODULE SerialClient ----------------------------
(***************************************************************************)
(* What the pooled client promises its callers: methods run one at a time; *)
(* each issues numbered commands one after the other; a command is carried *)
(* out at most once, and only while its method waits for it; a method      *)
(* relies only on commands that were carried out.  All promises end when   *)
(* trust in the stream is lost.                                            *)
(***************************************************************************)
EXTENDS Naturals

CONSTANTS Callers, NoCaller

VARIABLES
  trusted,    \* no response was left half read
  holder,     \* the caller whose method runs
  last,       \* number of the last command issued
  performed,  \* commands carried out
  relied      \* commands whose success the running (or last) method reports

vars == <<trusted, holder, last, performed, relied>>

Init ==
  /\ trusted = TRUE
  /\ holder = NoCaller
  /\ last = 0
  /\ performed = {}
  /\ relied = {}

\* A method starts with its first command.
Begin(c) ==
  /\ holder = NoCaller
  /\ holder' = c
  /\ last' = last + 1
  /\ relied' = {}
  /\ UNCHANGED <<trusted, performed>>

\* The command the running method waits for is carried out.
Perform ==
  /\ holder # NoCaller
  /\ last \notin performed
  /\ performed' = performed \cup {last}
  /\ UNCHANGED <<trusted, holder, last, relied>>

\* What the method concludes from an exchange: nothing, a failure that makes
\* the whole method fail, or the success of a command carried out.
Outcome == \/ relied' \in {relied, {}}
           \/ last \in performed /\ relied' = relied \cup {last}

\* It goes on to its next command, or returns.
Proceed ==
  /\ holder # NoCaller
  /\ Outcome
  /\ last' = last + 1
  /\ UNCHANGED <<trusted, holder, performed>>

Finish ==
  /\ holder # NoCaller
  /\ Outcome
  /\ holder' = NoCaller
  /\ UNCHANGED <<trusted, last, performed>>

Next == \/ trusted /\ (\/ \E c \in Callers : Begin(c)
                       \/ Perform \/ Proceed \/ Finish)
        \/ trusted' = FALSE

Spec == Init /\ [][Next]_vars

=============================================================================
